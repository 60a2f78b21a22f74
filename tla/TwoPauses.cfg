SPECIFICATION Spec
CONSTANTS
  Streams = {s1}
  Pauses = {p1, p2}
  Instances = {i1, i2}
  Threads = {t1, t2}
  None = None
SYMMETRY SymmetryOfInstances
INVARIANTS
  PauseOkHasActed
  NotFoundMeansOver
  FinishAgreesWithLoneStop
  PauseKeepsToItsThread
