SPECIFICATION Spec
CONSTANTS
  Users = {u1, u2}
  Reader = u1
  ThreadIds = {1, 2}
  Times = {1, 2, 3}
  Count = 1
  MaxShown = 2
  None = None
INVARIANTS
  TypeOK
  SteadyThreadsOnce
PROPERTIES
  OthersChangeNothing
