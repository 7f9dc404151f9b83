SPECIFICATION FairSpec
CONSTANTS
  N = 6
  NumOn = 2
  Requests = {10, 100}
  r1 = r1
  r2 = r2
  b = b
  None = None
  Cells = {r1,r2}
  At <- TwoRoots
  NoDataPersist = FALSE
  Remix = FALSE
  CrashInCreate = FALSE
INVARIANTS
  TypeOK PoolTiled HandlesAreClumps DurableAtReturn
PROPERTIES AtomicPool CallsReturn
