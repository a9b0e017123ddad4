CONSTANTS
  Producers = {p1, p2}
  Consumers = {c1, c2}
  Drainers = {d}
  Values = {a, b}
  None = None
  MaxPushes = 4
SPECIFICATION FairSpec
INVARIANTS TypeOK FrontExists FifoOnce NoLostWakeup
PROPERTY KeepsPromise
