\* The four experiment scripts, each on its hosts of hosts.txt (four cores
\* per host, as static.py pins core 3); migration ends inside the sleep.
CONSTANTS
  None = None
  Cids = {0, 1, 2, 16}
  Hosts = {"localhost", "center", "mcgee"}
  NumCores = 4
  Rogue = {}
  MaxBogus = 0
  Timed = TRUE
  RemoteFaults = FALSE
  MaxOps = 0
  Reuse = FALSE
  Cleanup = FALSE
  PartialScaleOut = FALSE
  Crashes = FALSE
  SlowBoot = TRUE
  Restarts = FALSE
SPECIFICATION ScriptSpec
INVARIANT ScriptOutcome
PROPERTY ScriptCompletes
\* After its last call the script has returned and the CLI waits for input.
CHECK_DEADLOCK FALSE
