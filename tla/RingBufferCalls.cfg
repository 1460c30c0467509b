CONSTANTS
  t1 = t1  t2 = t2  byte1 = byte1  byte2 = byte2
  Tasks = {t1, t2}
  Bytes = {byte1, byte2}
  Writes <- MCWrites
  ReadCounts = {0, 2}
  Sizes = {1, 3}
  DEFAULT_SIZE = 2
  Blank = Blank
  Nobody = Nobody
SPECIFICATION Spec
SYMMETRY Symmetry
CHECK_DEADLOCK FALSE
INVARIANTS TypeOK RingShape UnloadSafe
PROPERTY ImplementsAtomic
