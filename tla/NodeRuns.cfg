CONSTANTS
  Bodies = {Empty, Malformed, "HEARTBEAT"}
  Empty = Empty
  Malformed = Malformed
  NoTask = NoTask
  MaxRequests = 3
  MaxMessages = 2
  MaxSockets = 2
SPECIFICATION FairSpec
INVARIANTS TypeOK CrashNeedsCause HandledInOrder StopsPromptly AcceptOutstanding JoinsReturn
PROPERTIES StopEnds MessageHandled RequestAccepted
