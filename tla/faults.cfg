\* Core accounting when `docker run' / `docker rm' may fail and a worker
\* may send messages out of protocol; the operator may also run `cleanup'.
CONSTANTS
  c1 = c1
  h1 = h1
  h2 = h2
  c2 = c2
  c3 = c3
  None = None
  Cids <- MC_Cids2
  Hosts = {h1}
  NumCores = 3
  Rogue = {c2}
  MaxBogus = 1
  Timed = TRUE
  RemoteFaults = TRUE
  MaxOps = 6
  Reuse = FALSE
  Cleanup = TRUE
  PartialScaleOut = FALSE
  Crashes = TRUE
  SlowBoot = TRUE
  Restarts = TRUE
SPECIFICATION Spec
INVARIANT CoreExclusive
\* The operator may stop issuing commands, and a failed command or a dead
\* reactor leaves the orchestrator where it is.
CHECK_DEADLOCK FALSE
