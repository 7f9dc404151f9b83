SPECIFICATION Spec
CONSTANTS
  Size = 8
  Line = 2
  Page = 4
  LogSpace = 3
  NoDataPersist = TRUE
  ArgLists <- Strings
  Hello <- Greeting
  Flags <- BothFlags
  Calls = {"persist", "flushcache"}
INVARIANTS Durable LoggedFirst FitDropsUnflushed DumpStartsWithAcked
