CONSTANTS
  Senders = {s1, s2}
  Io = Io
  Messages = {m1, m2, m3}
  Parts = 2
  None = None
  Garbage = Garbage
  RelockProceeds = TRUE
SPECIFICATION FairSpec
INVARIANTS TypeOK OneWriteOutstanding FramesInOrder NeverStranded
PROPERTIES SilentAfterError QueuedIsWritten KeepsPromise
CHECK_DEADLOCK FALSE
