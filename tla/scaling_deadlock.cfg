\* Scale-out and scale-in when a worker may finish its migration as soon as
\* it has reported started_scaling, before the orchestrator has seen it in
\* ST_SCALING.
CONSTANTS
  c1 = c1
  h1 = h1
  h2 = h2
  c2 = c2
  c3 = c3
  None = None
  Cids <- MC_Cids2
  Hosts = {h1}
  NumCores = 3
  Rogue = {}
  MaxBogus = 0
  Timed = FALSE
  RemoteFaults = FALSE
  MaxOps = 6
  Reuse = FALSE
  Cleanup = FALSE
  PartialScaleOut = FALSE
  Crashes = FALSE
  SlowBoot = TRUE
  Restarts = FALSE
SPECIFICATION Spec
PROPERTY OperationReturns
CHECK_DEADLOCK FALSE
