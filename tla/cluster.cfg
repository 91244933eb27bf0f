\* Bring-up, scale-out, scale-in and kill of two workers on one host with
\* two usable cores; migration ends inside the fixed sleep.
CONSTANTS
  c1 = c1
  h1 = h1
  h2 = h2
  c2 = c2
  c3 = c3
  None = None
  Cids <- MC_Cids2
  Hosts = {h1}
  NumCores = 3
  Rogue = {}
  MaxBogus = 0
  Timed = TRUE
  RemoteFaults = FALSE
  MaxOps = 6
  Reuse = FALSE
  Cleanup = FALSE
  PartialScaleOut = FALSE
  Crashes = FALSE
  SlowBoot = TRUE
  Restarts = FALSE
SPECIFICATION Spec
INVARIANT TypeOK
INVARIANT ReactorAlive
INVARIANT LockFree
INVARIANT BarrierLockstep
INVARIANT NoCoreLeak
INVARIANT RunningCoreExclusive
INVARIANT RecordsLive
PROPERTY OperationReturns
PROPERTY Lifecycle
PROPERTY SendsToOwner
INVARIANT QuitStopsWorkers
\* The operator may stop issuing commands: the CLI then waits for input.
CHECK_DEADLOCK FALSE
