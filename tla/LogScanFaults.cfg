CONSTANTS
  t1 = t1  t2 = t2
  f1 = f1  f2 = f2  f3 = f3
  u1 = u1  u2 = u2  r1 = r1  r2 = r2
  Threads = {t1, t2}
  Files = {f1, f2}
  Log <- MCLog2
  Malformed = Malformed
  NoFile = NoFile
  Nobody = Nobody
  MaxFaults = 2
SPECIFICATION Spec
SYMMETRY Symmetry
CHECK_DEADLOCK FALSE
INVARIANTS TypeOK CountedOnce WholeFiles ReportConsistent LossBounded SafeFree
PROPERTY ReportOnlyGrows
