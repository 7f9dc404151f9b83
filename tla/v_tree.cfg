SPECIFICATION ClientSpec
CONSTANTS
  N = 7
  NumOn = 2
  Requests = {10}
  root = root
  None = None
  Cells <- MCCells
  At <- MCAt
  NoDataPersist = FALSE
  Remix = TRUE
  CrashInCreate = FALSE
  Words = {1, 2}
  Length <- MCLength
  Again = {1}
  MaxNodes <- MCMaxNodes
  NPtrs = 2
  Programs = {"tree"}
INVARIANT LinksLeadToNodes
CHECK_DEADLOCK FALSE
