CONSTANTS
  Bodies = {Empty, "HEARTBEAT"}
  Empty = Empty
  Malformed = Malformed
  NoTask = NoTask
  MaxRequests = 1
  MaxMessages = 2
  MaxSockets = 1
SPECIFICATION Spec
INVARIANT ConsumerLivesUntilStop
