SPECIFICATION FairSpec
CONSTANTS
  Requests = {f1, f2}
  Users = {u1, u2}
  Threads = {t1}
  Links = {l1}
  Codes = {c1}
  None = None
INVARIANTS
  TypeOK
  OneSource
  FailuresAreNotKept
  LinksAreOwners
  RevokedLinkForksNothing
PROPERTIES
  ForksEnd
CHECK_DEADLOCK FALSE
