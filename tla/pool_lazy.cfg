SPECIFICATION Spec
CONSTANTS
  N = 6
  NumOn = 1
  Requests = {10, 100}
  r1 = r1
  r2 = r2
  b = b
  None = None
  Cells = {r1,b}
  At <- RootAndData
  NoDataPersist = TRUE
  Remix = FALSE
  CrashInCreate = FALSE
INVARIANTS NothingHalfDone DataBeforeCommit
