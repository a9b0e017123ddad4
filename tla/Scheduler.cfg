SPECIFICATION FairSpec
CONSTANTS
  Runners = {r1, r2}
  Callers = {c1}
  Ops = {o1, o2}
  Descs = {d1}
  Task = Task
  None = None
INVARIANT TypeOK
INVARIANT OneReactor
INVARIANT DescriptorQueuedOnce
INVARIANT WorkCounted
INVARIANT NoIdleWhileWork
PROPERTY StopsOnlyWithoutWork
PROPERTY KeepsPromise
CHECK_DEADLOCK FALSE
