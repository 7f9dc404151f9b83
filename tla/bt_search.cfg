SPECIFICATION Spec
CONSTANTS
  Keys <- ThreeKeys
  Fits <- SmallFits
  MaxTrees = 2
INVARIANTS
  NoWildRead
  SearchIsRank
