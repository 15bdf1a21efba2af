CONSTANTS
  Tags = {"r", "a"}
  Attrs = {"x"}
  Texts = {"t"}
  OtherData = {}
  Garbled = Garbled
  Malformed = Malformed
  Hashes = {1, 2, 3}
  NodeBytes = 2
  Width = 2
  AttrBytes = 1
  MaxDiags = 1
  DiagBuffer = 2
  MaxEvents = 5
  Entry = "file"
  Trees <- DataTrees
  AttrLists <- SomeAttributes
  HashOf <- DistinctHashes
  SizeOf <- DomSize
SPECIFICATION Spec
INVARIANT TypeOK
INVARIANT CaptureFollowsDocument
INVARIANT CaptureBudget
PROPERTY ValidatesDocument
