SPECIFICATION Spec
CONSTANTS
  Requests = {f1}
  Users = {u1}
  Threads = {t1}
  Links = {l1}
  Codes = {c1}
  None = None
INVARIANTS
  ForksNeverPanic
CHECK_DEADLOCK FALSE
