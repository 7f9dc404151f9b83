SPECIFICATION Spec
CONSTANTS
  Builds <- AllBuilds
  ITEM_COUNT = 3
  MinSize = 1
  Primes <- TwoThree
  Hashes <- SmallHashes
INVARIANTS
  NoBug
  CountCovers
  ChainsRecover
  QuietDurable
CHECK_DEADLOCK FALSE
