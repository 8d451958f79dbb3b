\* Path tenancy: two companies on one host; two users, both managers; three sign-ins.
CONSTANTS
  Users = {u1, u2}
  Companies = {ca, cb}
  Browsers = {b1, b2}
  Managers = {u1, u2}
  Hosts = {site}
  HostOf <- MCHostOf
  Tokens = {t1}
  Procs = {p1, p2}
  Operators = {o1}
  None = None
  MaxSignIns = 3
  MaxChanges = 1
SYMMETRY MCSymmetry
SPECIFICATION Spec
CHECK_DEADLOCK FALSE
INVARIANTS
  HandoffOnce
  OnlyProven
  EndedIsOut
CONSTRAINT MCBound
