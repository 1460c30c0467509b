CONSTANTS
  t1 = t1  t2 = t2  byte1 = byte1  byte2 = byte2
  Tasks = {t1, t2}
  Bytes = {byte1, byte2}
  Writes <- MCShortWrites
  ReadCounts = {1}
  Sizes = {1}
  DEFAULT_SIZE = 2
  Blank = Blank
  Nobody = Nobody
SPECIFICATION FairSpec
CHECK_DEADLOCK FALSE
PROPERTY CallsReturn
