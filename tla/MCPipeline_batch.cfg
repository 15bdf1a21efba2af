CONSTANTS
  Watched = f2
  f1 = f1
  f2 = f2
  f3 = f3
  Workers = {w1, w2}
  Entry = "batch"
  Consumer = "concurrent"
  FileCapacity = 1
  DiagCapacity = 1
  DiagBuffer = 2
  MaxPerFile = 3
  Batch <- ThreeFiles
SPECIFICATION Spec
INVARIANT TypeOK
INVARIANT OnePlace
INVARIANT Delivery
PROPERTY FileAsAlone
