SPECIFICATION Spec
CONSTANTS
  Ids = {1, 2, 3}
  Times = {1, 2}
  Runs = {r1}
  Counts = {1, 2}
  None = None
INVARIANTS
  TypeOK
  WalkInOrder
  WalkIsComplete
  PagesAreFull
PROPERTIES
  DeletedThreadShowsNothing
  EndedTurnsStayHidden
