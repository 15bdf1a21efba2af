CONSTANTS
  Tags = {"a", "b"}
  MaxNodes = 3
  MaxRules = 3
  Width = 2
  DiagBuffer = 2
  MaxDiags = 9
  Roots <- SmallElements
  RuleLists <- SomeRules
  Buffers <- EarlierDiagnostics
SPECIFICATION Spec
INVARIANT TypeOK
INVARIANT WalksDepthFirst
INVARIANT ResultsPacked
INVARIANT AsOneStep
