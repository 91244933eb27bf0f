\* send() as the orchestrator calls it: once per stage, after the reply
\* to the previous message has been dispatched.
CONSTANTS
  m1 = m1
  m2 = m2
  Msgs <- MC_Msgs
  MaxMsgs = 3
  Lockstep = TRUE
SPECIFICATION Spec
INVARIANT NoLockLeak
INVARIANT NoLostWakeup
PROPERTY Written
\* After the last message the reactor idles in epoll.poll and the sender stops.
CHECK_DEADLOCK FALSE
