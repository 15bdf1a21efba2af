CONSTANTS
  Tags = {"a", "b", "c"}
  DefaultLimit = 2
  Limits = {1}
  MaxDeclarations = 4
  MaxRules = 1
  MaxItems = 3
  MacroTags = {"a", "b"}
  TagOrder <- AlphabeticalOrder
  RuleNeeds <- SomeNeeds
  Macros <- SmallMacros
SPECIFICATION MacroSpec
INVARIANT TypeOK
INVARIANT CursorIsPath
INVARIANT Accepts
INVARIANT NeedsCovered
INVARIANT BuildsTree
INVARIANT LookupByPath
INVARIANT MacroBuilds
