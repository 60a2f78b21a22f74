SPECIFICATION FairSpec
CONSTANTS
  Streams = {s1}
  Pauses = {p1, p2}
  Instances = {i1}
  Threads = {t1}
  None = None
PROPERTIES
  StreamsReturn
  PausesReturn
