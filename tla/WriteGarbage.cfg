CONSTANTS
  Senders = {s1, s2}
  Io = Io
  Messages = {m1, m2, m3}
  Parts = 2
  None = None
  Garbage = Garbage
  RelockProceeds = TRUE
SPECIFICATION Spec
INVARIANT WireIntact
CHECK_DEADLOCK FALSE
