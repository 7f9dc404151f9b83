SPECIFICATION Spec
CONSTANTS
  Objects <- FiveObjects
  NameOf <- PairsOf
  HashOf <- SpreadHash
  None = None
  Primes <- OneTwoFive
  MinSizes = {0, 1}
INVARIANTS Findable CountExact IterExact
PROPERTIES ImplementsBag DuplicatesReversed
CHECK_DEADLOCK FALSE
