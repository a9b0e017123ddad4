CONSTANTS
  Senders = {s1, s2}
  Io = Io
  Messages = {m1, m2, m3}
  Parts = 2
  None = None
  Garbage = Garbage
  RelockProceeds = FALSE
SPECIFICATION FairSpec
PROPERTY QueuedIsWritten
CHECK_DEADLOCK FALSE
