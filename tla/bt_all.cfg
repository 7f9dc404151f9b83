SPECIFICATION FairSpec
CONSTANTS
  Keys <- ThreeKeys
  None = None
  T = 2
  MaxNodes = 8
  MaxKeys = 10
  Bags <- FewBags
INVARIANTS WellShaped Searchable
PROPERTIES ImplementsBag CallsReturn
CHECK_DEADLOCK FALSE
