\* Three frames, up to two in flight, read in chunks of any size.
CONSTANTS
  Width = 4
  PayloadLens <- MC_PayloadLens
  MaxFrames = 3
  MaxInFlight = 2
  Splits = TRUE
SPECIFICATION Spec
INVARIANT TypeOK
INVARIANT DispatchInOrder
\* The worker may stop writing; the reactor then idles in epoll.poll.
CHECK_DEADLOCK FALSE
