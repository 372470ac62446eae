SPECIFICATION Spec
CONSTANTS
  MaxPosts = 2
  ShardStart = 1
  MaxCalls = 2
  MaxOthers = 1
INVARIANTS
  TypeOK
  ReceiptsProve
  ProofsAreExact
PROPERTIES
  AnchorReturns
