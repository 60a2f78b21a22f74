SPECIFICATION Spec
CONSTANTS
  Streams = {s1, s2}
  Pauses = {p1}
  Instances = {i1}
  Threads = {t1}
  None = None
SYMMETRY Symmetry
INVARIANTS
  TypeOK
  NoLostHandle
  RegistryIsLive
  PauseSparesNewerTurns
  StopPrecedesCancel
PROPERTIES
  ImplementsTurns
