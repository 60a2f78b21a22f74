SPECIFICATION Spec
CONSTANTS
  Streams = {s1}
  Pauses = {p1}
  Instances = {i1}
  Threads = {t1}
  None = None
SYMMETRY Symmetry
INVARIANTS
  PausedTurnNeverCompletes
