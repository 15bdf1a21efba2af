CONSTANTS
  Watched = f2
  f1 = f1
  f2 = f2
  f3 = f3
  Workers = {w1, w2}
  Entry = "streaming"
  Consumer = "drops"
  FileCapacity = 1
  DiagCapacity = 1
  DiagBuffer = 2
  MaxPerFile = 2
  Batch <- ThreeFiles
SPECIFICATION Spec
INVARIANT Complete
PROPERTY ArrivedIsValidated
PROPERTY Returns
PROPERTY IterationEnds
