\* send() called at any time, up to three times, against the EPOLLOUT
\* branch of the reactor.
CONSTANTS
  m1 = m1
  m2 = m2
  Msgs <- MC_Msgs
  MaxMsgs = 3
  Lockstep = FALSE
SPECIFICATION Spec
INVARIANT TypeOK
PROPERTY ChannelSafe
\* The reactor blocks in lock.acquire once the lock is leaked.
CHECK_DEADLOCK FALSE
