CONSTANTS
  IntMax = 11
  SizeModulus = 100
  Payloads <- MCPayloads
  MaxMessages = 2
SPECIFICATION Spec
INVARIANT FramesPreserved
CHECK_DEADLOCK FALSE
