SPECIFICATION Spec
CONSTANTS
  Snippet = 3
  Ttls = {0, 1, 4, 9}
  Rounds = 1
INVARIANTS CountExact DiesOnTime
PROPERTY CountsEnd
CHECK_DEADLOCK FALSE
