CONSTANTS
  Watched = f2
  f1 = f1
  f2 = f2
  f3 = f3
  Workers = {w1, w2}
  Entry = "streaming"
  Consumer = "afterwards"
  FileCapacity = 1
  DiagCapacity = 3
  DiagBuffer = 2
  MaxPerFile = 2
  Batch <- TwoFiles
SPECIFICATION Spec
PROPERTY Returns
CHECK_DEADLOCK FALSE
