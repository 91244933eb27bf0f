\* One frame in flight at a time; recv may end inside a frame.
CONSTANTS
  Width = 4
  PayloadLens <- MC_PayloadLens
  MaxFrames = 3
  MaxInFlight = 1
  Splits = TRUE
SPECIFICATION Spec
INVARIANT ReaderAlive
\* The worker may stop writing; the reactor then idles in epoll.poll.
CHECK_DEADLOCK FALSE
