SPECIFICATION Spec
CONSTANTS
  m1 = m1
  t2 = t2
  Method = {m1, m2}
  Type = {t1, t2}
  Func = {f1, f2}
  Handler = {h1}
  NotMapped <- MCNotMapped
  None = None
  MaxRecords = 3
INVARIANTS DispatchIsAlive CallsRunRegistered
CHECK_DEADLOCK FALSE
