\* One frame in flight at a time, every recv returning whole frames.
CONSTANTS
  Width = 4
  PayloadLens <- MC_PayloadLens
  MaxFrames = 4
  MaxInFlight = 1
  Splits = FALSE
SPECIFICATION Spec
INVARIANT ReaderAlive
PROPERTY EveryFrameDispatched
\* The worker may stop writing; the reactor then idles in epoll.poll.
CHECK_DEADLOCK FALSE
