SPECIFICATION Spec
CONSTANTS
  p1 = p1
  p2 = p2
  i1 = i1
  i2 = i2
  c1 = c1
  r1 = r1
  r2 = r2
  None = None
  Phones = {p1, p2}
  Issued = {i1, i2}
  Chosen = {c1}
  MaxFails = 3
  LockTime = 1
  MaxTime = 2
  Requests = {r1, r2}
  Scenarios <- ScenariosVal
SYMMETRY Symmetry
INVARIANTS
  TypeOK
  ReportedOpens
  LocksAfterFailures
CHECK_DEADLOCK FALSE
