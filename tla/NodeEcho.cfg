CONSTANTS
  Bodies = {"ECHO"}
  Empty = Empty
  Malformed = Malformed
  NoTask = NoTask
  MaxRequests = 1
  MaxMessages = 1
  MaxSockets = 1
SPECIFICATION Spec
INVARIANT EchoMakesTask
