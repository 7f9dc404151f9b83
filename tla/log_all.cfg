SPECIFICATION FairSpec
CONSTANTS
  t1 = t1
  t2 = t2
  x = x
  y = y
  Threads = {t1, t2}
  Nobody = Nobody
  Bytes = {x, y}
  Zero = Zero
  Records <- ShortRecords
  Chunks = {0, 1}
  Start = 1
  End = 4
  MaxOpens = 1
  Kills = FALSE
INVARIANTS OnceOpenable WalkSnapshot QuietIsDurable
PROPERTIES AtomicLog HoldersLeave StaysOpenable
