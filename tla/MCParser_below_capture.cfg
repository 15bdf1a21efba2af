CONSTANTS
  Tags = {"r", "a"}
  Attrs = {}
  Texts = {}
  OtherData = {}
  Garbled = Garbled
  Malformed = Malformed
  Hashes = {1, 2, 3}
  NodeBytes = 2
  Width = 2
  AttrBytes = 1
  MaxDiags = 1
  DiagBuffer = 2
  MaxEvents = 5
  Entry = "slice"
  Trees <- CapturingTrees
  AttrLists <- NoAttributes
  HashOf <- DistinctHashes
  SizeOf <- DomSize
SPECIFICATION Spec
INVARIANT RulesEvaluatedAtClose
