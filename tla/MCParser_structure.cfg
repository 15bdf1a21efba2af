CONSTANTS
  Tags = {"r", "a", "b"}
  Attrs = {}
  Texts = {}
  OtherData = {"CData"}
  Garbled = Garbled
  Malformed = Malformed
  Hashes = {1, 2, 3}
  NodeBytes = 2
  Width = 2
  AttrBytes = 1
  MaxDiags = 1
  DiagBuffer = 2
  MaxEvents = 6
  Entry = "slice"
  Trees <- StructureTrees
  AttrLists <- NoAttributes
  HashOf <- DistinctHashes
  SizeOf <- DomSize
SPECIFICATION Spec
INVARIANT StackInv
INVARIANT ContextsFollowDocument
INVARIANT PoolsBounded
PROPERTY ValidatesDocument
PROPERTY DeliversInOrder
