SPECIFICATION Spec
CONSTANTS
  N = 7
  NumOn = 1
  Requests = {10, 100}
  r1 = r1
  r2 = r2
  b = b
  None = None
  Cells = {r1}
  At <- OneRoot
  NoDataPersist = FALSE
  Remix = TRUE
  CrashInCreate = FALSE
INVARIANT ActiveNotInFree
