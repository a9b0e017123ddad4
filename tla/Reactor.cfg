SPECIFICATION FairSpec
CONSTANTS
  Runners = {r1, r2}
  Users = {u1}
  Ops = {o1, o2}
  None = None
INVARIANT TypeOK
INVARIANT CompletedInOrder
INVARIANT NoMissedEdge
INVARIANT SpeculationResumes
INVARIANT NothingLeftBehind
PROPERTY ReadyIsPerformed
