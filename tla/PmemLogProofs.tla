----------------------------- MODULE PmemLogProofs -----------------------------
(***************************************************************************)
(* What the log promises of its descriptor, proved for any threads, records   *)
(* and size of the pool: however often a process is killed or the power       *)
(* fails, a pool that can be opened stays so; and while no process is killed   *)
(* in the middle of a write, one that has been opened can be opened again.    *)
(***************************************************************************)
EXTENDS PmemLog, SequenceTheorems, TLAPS

Calling == {"unlock"} \cup Writing \cup Reading \cup Asking
PCs     == {"idle"} \cup Opening \cup Calling

-----------------------------------------------------------------------------
(* The inductive invariant                                                  *)

\* Who is where: one thread creates a pool, alone, and a call is made on an open pool.
Sessions ==
  /\ rwlockp # 0 => hdr /\ DescOK(desc)
  /\ \A t \in Threads :
       /\ pc[t] \in Calling => rwlockp # 0
       /\ pc[t] \in Opening => rwlockp = 0 /\ hdr /\ \A u \in Threads \ {t} : pc[u] = "idle"

\* How far the creation of a pool has got.
Creation ==
  \A t \in Threads :
    /\ pc[t] \in Opening \ {"create.sync"} => phdr
    /\ pc[t] \in {"create.end", "create.write", "create.done"} => desc.start = Start
    /\ pc[t] \in {"create.write", "create.done"} => desc.end = End
    /\ pc[t] = "create.done" => desc.write = Start

\* Where a call copies to or reads from.
Inside ==
  \A t \in Threads :
    /\ pc[t] = "append.copy" => Start <= loc[t].at /\ loc[t].at + Len(loc[t].buf) <= End
    /\ pc[t] \in {"append.data", "append.offset", "walk"} => Start <= loc[t].at

\* The media is behind the cache, never ahead of it.
Behind ==
  /\ phdr => hdr
  /\ DescOK(pdesc) => DescOK(desc)

\* Unless processes are killed, a pool that would be accepted is on the media.
Accepted ==
  ~Kills /\ hdr /\ DescOK(desc) /\ (\A t \in Threads : pc[t] \notin Opening) => Openable

IInv == TypeOK /\ Sessions /\ Creation /\ Inside /\ Behind /\ Accepted

-----------------------------------------------------------------------------
(* Steps inside a call                                                      *)

LEMMA NoDescOK == ~DescOK(NoDesc)
BY OffsetsAssumption DEF DescOK, NoDesc

LEMMA NoLocalType == NoLocal \in Local
BY OffsetsAssumption DEF NoLocal, Local, Offsets

LEMMA InitInv == Init => IInv
<1> SUFFICES ASSUME Init PROVE IInv
  OBVIOUS
<1> USE DEF Init
<1>0. hdr \in BOOLEAN /\ phdr \in BOOLEAN
  OBVIOUS
<1>1. desc \in Desc /\ pdesc \in Desc
  BY OffsetsAssumption DEF NoDesc, Desc, Offsets
<1>2. /\ data \in [Cells -> Bytes \cup {Zero}] /\ pdata \in [Cells -> Bytes \cup {Zero}]
      /\ rwlockp \in 0 .. MaxOpens
      /\ writer \in [Locks -> Threads \cup {Nobody}] /\ readers \in [Locks -> SUBSET Threads]
      /\ checked \in {-1, 0, 1}
  BY OffsetsAssumption
<1>3. pc \in [Threads -> PCs] /\ loc \in [Threads -> Local]
  BY NoLocalType DEF PCs
<1>4. TypeOK
  BY <1>0, <1>1, <1>2, <1>3 DEF TypeOK, PCs, Calling
<1>5. Sessions /\ Creation /\ Inside /\ Behind /\ Accepted
  BY NoDescOK DEF Sessions, Creation, Inside, Behind, Accepted, Calling, Opening, Writing,
     Reading, Asking
<1> QED
  BY <1>4, <1>5 DEF IInv

\* A step of a call that leaves the file and the lock pointer alone.
LEMMA CallStep ==
  ASSUME IInv, NEW t \in Threads, NEW l \in {"idle"} \cup Calling,
         rwlockp # 0, Goto(t, l), UNCHANGED <<file, rwlockp>>
  PROVE  Sessions' /\ Creation' /\ Behind' /\ Accepted' /\ pc' \in [Threads -> PCs]
<1> USE DEF IInv, Goto, file
<1>1. pc \in [Threads -> PCs]
  BY DEF TypeOK, PCs, Calling
<1>2. l \notin Opening
  BY DEF Calling, Opening, Writing, Reading, Asking
<1>3. \A u \in Threads : pc[u] \notin Opening /\ pc'[u] \notin Opening
  BY <1>1, <1>2 DEF Sessions
<1>4. pc' \in [Threads -> PCs]
  BY <1>1 DEF PCs
<1>5. Sessions'
  BY <1>1, <1>3 DEF Sessions, DescOK
<1>6. Creation'
  BY <1>3 DEF Creation, Opening
<1>7. Behind' /\ Accepted'
  BY <1>3 DEF Behind, Accepted, Openable, DescOK
<1> QED
  BY <1>4, <1>5, <1>6, <1>7

\* What a step leaves of where the calls are.
LEMMA InsideStep ==
  ASSUME IInv, NEW t \in Threads, NEW l \in PCs, Goto(t, l),
         \A u \in Threads \ {t} : loc'[u] = loc[u],
         l = "append.copy" => Start <= loc'[t].at /\ loc'[t].at + Len(loc'[t].buf) <= End,
         l \in {"append.data", "append.offset", "walk"} => Start <= loc'[t].at
  PROVE  Inside'
<1>1. pc \in [Threads -> PCs] /\ loc \in [Threads -> Local]
  BY DEF IInv, TypeOK, PCs, Calling
<1> QED
  BY <1>1 DEF IInv, Inside, Goto

LEMMA UnmovedStep ==
  ASSUME IInv, NEW t \in Threads, NEW l \in PCs, Goto(t, l), UNCHANGED loc,
         l \notin {"append.copy", "walk"},
         l = "append.data" => pc[t] = "append.copy",
         l = "append.offset" => pc[t] = "append.data"
  PROVE  Inside'
<1>1. pc \in [Threads -> PCs] /\ loc \in [Threads -> Local]
  BY DEF IInv, TypeOK, PCs, Calling
<1> QED
  BY <1>1 DEF IInv, Inside, Goto

LEMMA WrLockInv ==
  ASSUME IInv, NEW t \in Threads, NEW here \in Asking, NEW next \in Writing,
         next # "append.copy", next # "append.data", next # "append.offset",
         WrLock(t, here, next)
  PROVE  IInv'
<1> USE DEF WrLock
<1>1. rwlockp # 0
  BY DEF IInv, Sessions, Calling
<1>2. Sessions' /\ Creation' /\ Behind' /\ Accepted' /\ pc' \in [Threads -> PCs]
  BY <1>1, CallStep DEF Calling
<1>3. Inside'
  BY UnmovedStep DEF PCs, Calling, Writing
<1>4. TypeOK'
  BY <1>2 DEF IInv, TypeOK, PCs, Calling, file
<1> QED
  BY <1>2, <1>3, <1>4 DEF IInv

LEMMA RdLockType ==
  ASSUME IInv, NEW t \in Threads, NEW here, NEW next, RdLock(t, here, next)
  PROVE  readers' \in [Locks -> SUBSET Threads]
BY DEF IInv, TypeOK, RdLock

LEMMA WalkLockInv ==
  ASSUME IInv, NEW t \in Threads, WalkLock(t) PROVE IInv'
<1> USE DEF WalkLock
<1>1. rwlockp # 0 /\ desc.start = Start /\ Goto(t, "walk")
  BY DEF IInv, Sessions, Calling, Asking, RdLock, DescOK
<1>2. Sessions' /\ Creation' /\ Behind' /\ Accepted' /\ pc' \in [Threads -> PCs]
  BY <1>1, CallStep DEF Calling, Reading
<1>3. loc \in [Threads -> Local] /\ desc \in Desc /\ readers' \in [Locks -> SUBSET Threads]
  BY RdLockType DEF IInv, TypeOK
<1>4. /\ loc' \in [Threads -> Local] /\ loc'[t].at = desc.start
      /\ \A u \in Threads \ {t} : loc'[u] = loc[u]
  BY <1>3 DEF Local, Desc
<1>5. Inside'
  BY <1>1, <1>4, InsideStep, OffsetsAssumption DEF PCs, Calling, Reading
<1>6. TypeOK'
  BY <1>2, <1>3, <1>4 DEF IInv, TypeOK, PCs, Calling, file
<1> QED
  BY <1>2, <1>5, <1>6 DEF IInv

LEMMA TellLockInv ==
  ASSUME IInv, NEW t \in Threads, TellLock(t) PROVE IInv'
<1> USE DEF TellLock
<1>1. rwlockp # 0 /\ Goto(t, "tell")
  BY DEF IInv, Sessions, Calling, Asking, RdLock
<1>2. Sessions' /\ Creation' /\ Behind' /\ Accepted' /\ pc' \in [Threads -> PCs]
  BY <1>1, CallStep DEF Calling, Reading
<1>3. Inside'
  BY <1>1, UnmovedStep DEF PCs, Calling, Reading
<1>4. TypeOK'
  BY <1>2, RdLockType DEF IInv, TypeOK, PCs, Calling, file
<1> QED
  BY <1>2, <1>3, <1>4 DEF IInv

LEMMA UnlockInv ==
  ASSUME IInv, NEW t \in Threads, Unlock(t) PROVE IInv'
<1> USE DEF Unlock, Done
<1>1. rwlockp # 0
  BY DEF IInv, Sessions, Calling
<1>2. Sessions' /\ Creation' /\ Behind' /\ Accepted' /\ pc' \in [Threads -> PCs]
  BY <1>1, CallStep
<1>3. loc \in [Threads -> Local]
  BY DEF IInv, TypeOK
<1>4. loc' \in [Threads -> Local] /\ \A u \in Threads \ {t} : loc'[u] = loc[u]
  BY <1>3, NoLocalType
<1>5. Inside'
  BY <1>4, InsideStep DEF PCs
<1>6. /\ writer' \in [Locks -> Threads \cup {Nobody}]
      /\ readers' \in [Locks -> SUBSET Threads]
  BY DEF IInv, TypeOK
<1>7. TypeOK'
  BY <1>2, <1>4, <1>6 DEF IInv, TypeOK, PCs, Calling, file
<1> QED
  BY <1>2, <1>5, <1>7 DEF IInv

LEMMA CallInv ==
  ASSUME IInv, NEW t \in Threads, NEW next \in Asking, NEW l \in Local, Call(t, next, l)
  PROVE  IInv'
<1> USE DEF Call
<1>1. Sessions' /\ Creation' /\ Behind' /\ Accepted' /\ pc' \in [Threads -> PCs]
  BY CallStep DEF Calling, locks
<1>2. loc \in [Threads -> Local]
  BY DEF IInv, TypeOK
<1>3. loc' \in [Threads -> Local] /\ \A u \in Threads \ {t} : loc'[u] = loc[u]
  BY <1>2
<1>4. Inside'
  BY <1>3, InsideStep DEF PCs, Calling, Asking
<1>5. TypeOK'
  BY <1>1, <1>3 DEF IInv, TypeOK, PCs, Calling, file, locks
<1> QED
  BY <1>1, <1>4, <1>5 DEF IInv

LEMMA CallsInv ==
  ASSUME IInv, NEW t \in Threads, Append1(t) \/ Rewind(t) \/ Walk(t) \/ Tell(t)
  PROVE  IInv'
<1>1. ASSUME NEW r \in Records PROVE [NoLocal EXCEPT !.buf = r] \in Local
  BY NoLocalType, CellsAssumption DEF Local
<1>2. ASSUME NEW c \in Chunks PROVE [NoLocal EXCEPT !.chunk = c] \in Local
  BY NoLocalType DEF Local
<1>3. CASE Append1(t)
  BY <1>1, <1>3, CallInv DEF Append1, Asking
<1>4. CASE Rewind(t)
  BY <1>4, NoLocalType, CallInv DEF Rewind, Asking
<1>5. CASE Walk(t)
  BY <1>2, <1>5, CallInv DEF Walk, Asking
<1>6. CASE Tell(t)
  BY <1>6, NoLocalType, CallInv DEF Tell, Asking
<1> QED
  BY <1>3, <1>4, <1>5, <1>6

LEMMA AppendSpaceInv ==
  ASSUME IInv, NEW t \in Threads, AppendSpace(t) PROVE IInv'
<1> DEFINE full == desc.write >= desc.end \/ Len(loc[t].buf) > desc.end - desc.write
<1> DEFINE l == IF full THEN "unlock" ELSE "append.copy"
<1> USE DEF AppendSpace
<1>1. rwlockp # 0
  BY DEF IInv, Sessions, Calling, Writing
<1>2. Goto(t, l) /\ l \in Calling
  BY DEF Calling, Writing
<1>3. Sessions' /\ Creation' /\ Behind' /\ Accepted' /\ pc' \in [Threads -> PCs]
  <2> HIDE DEF l
  <2> QED
    BY <1>1, <1>2, CallStep DEF locks
<1>4. loc \in [Threads -> Local] /\ desc \in Desc /\ DescOK(desc)
  BY <1>1 DEF IInv, TypeOK, Sessions
<1>5. /\ loc' \in [Threads -> Local]
      /\ loc'[t].at = desc.write /\ loc'[t].buf = loc[t].buf
      /\ \A u \in Threads \ {t} : loc'[u] = loc[u]
  BY <1>4 DEF Local, Desc
<1>6. Len(loc[t].buf) \in Nat
  BY <1>4 DEF Local
<1>7. l = "append.copy" => Start <= loc'[t].at /\ loc'[t].at + Len(loc'[t].buf) <= End
  BY <1>4, <1>5, <1>6, OffsetsAssumption DEF DescOK
<1>8. l \notin {"append.data", "append.offset", "walk"} /\ l \in PCs
  BY DEF PCs, Calling, Writing
<1>9. Inside'
  <2> HIDE DEF l
  <2> QED
    BY <1>2, <1>5, <1>7, <1>8, InsideStep
<1>10. TypeOK'
  BY <1>3, <1>5 DEF IInv, TypeOK, PCs, Calling, file, locks
<1> QED
  BY <1>3, <1>9, <1>10 DEF IInv

LEMMA TellReadInv ==
  ASSUME IInv, NEW t \in Threads, TellRead(t) PROVE IInv'
<1> USE DEF TellRead
<1>1. rwlockp # 0
  BY DEF IInv, Sessions, Calling, Reading
<1>2. Sessions' /\ Creation' /\ Behind' /\ Accepted' /\ pc' \in [Threads -> PCs]
  BY <1>1, CallStep DEF Calling, locks
<1>3. Inside'
  BY UnmovedStep DEF PCs, Calling
<1>4. TypeOK'
  BY <1>2 DEF IInv, TypeOK, PCs, Calling, file, locks
<1> QED
  BY <1>2, <1>3, <1>4 DEF IInv

LEMMA WalkChunkInv ==
  ASSUME IInv, NEW t \in Threads, WalkChunk(t) PROVE IInv'
<1> DEFINE left == loc[t].upto - loc[t].at
<1> DEFINE len == IF loc[t].chunk = 0 \/ left < loc[t].chunk THEN left ELSE loc[t].chunk
<1> DEFINE shown == [i \in 1 .. len |-> data[loc[t].at + i - 1]]
<1>1. rwlockp # 0
  BY DEF IInv, Sessions, Calling, Reading, WalkChunk
<1>2. PICK l \in {"walk", "unlock"} : Goto(t, l)
  <2>1. CASE left > 0
    BY <2>1 DEF WalkChunk
  <2>2. CASE ~(left > 0)
    BY <2>2 DEF WalkChunk
  <2> QED
    BY <2>1, <2>2
<1>3. Sessions' /\ Creation' /\ Behind' /\ Accepted' /\ pc' \in [Threads -> PCs]
  BY <1>1, <1>2, CallStep DEF Calling, Reading, locks, WalkChunk
<1>4. /\ loc \in [Threads -> Local] /\ data \in [Cells -> Bytes \cup {Zero}]
      /\ Start <= loc[t].at
  BY DEF IInv, TypeOK, Inside, WalkChunk
<1>5. /\ loc[t].at \in Nat /\ loc[t].upto \in Nat /\ loc[t].upto <= End /\ loc[t].chunk \in Nat
      /\ loc[t].got \in Seq(Bytes \cup {Zero})
  <2>1. loc[t] \in Local
    BY <1>4
  <2>2. loc[t].at \in Offsets /\ loc[t].upto \in Offsets /\ loc[t].chunk \in Chunks \cup {0}
    BY <2>1 DEF Local
  <2>3. loc[t].got \in Seq(Bytes \cup {Zero})
    BY <2>1 DEF Local
  <2>4. loc[t].chunk \in Nat
    <3>1. Chunks \subseteq Nat
      BY OffsetsAssumption
    <3>2. CASE loc[t].chunk = 0
      BY <3>2
    <3>3. CASE loc[t].chunk \in Chunks
      BY <3>1, <3>3
    <3> QED
      BY <2>2, <3>2, <3>3
  <2>5. loc[t].at \in Nat /\ loc[t].upto \in Nat /\ loc[t].upto <= End
    BY <2>2, OffsetsAssumption DEF Offsets
  <2> QED
    BY <2>3, <2>4, <2>5
<1>6. /\ loc' \in [Threads -> Local] /\ Start <= loc'[t].at
      /\ \A u \in Threads \ {t} : loc'[u] = loc[u]
  <2>1. CASE left > 0
    <3>1. len \in Nat /\ loc[t].at + len <= End
      BY <1>5, <2>1, OffsetsAssumption
    <3>2. \A i \in 1 .. len : data[loc[t].at + i - 1] \in Bytes \cup {Zero}
      BY SMTT(30), <1>4, <1>5, <3>1, OffsetsAssumption DEF Cells
    <3>3. shown \in Seq(Bytes \cup {Zero})
      BY <3>1, <3>2
    <3>4. loc[t].got \o shown \in Seq(Bytes \cup {Zero})
      BY <1>5, <3>3
    <3>5. loc[t].at + len \in Offsets /\ Start <= loc[t].at + len
      BY <1>4, <1>5, <3>1, OffsetsAssumption DEF Offsets
    <3>6. loc' = [loc EXCEPT ![t].got = @ \o shown, ![t].at = loc[t].at + len]
      BY <2>1 DEF WalkChunk
    <3> HIDE DEF left, len, shown
    <3> QED
      BY <1>4, <3>4, <3>5, <3>6 DEF Local
  <2>2. CASE ~(left > 0)
    BY <1>4, <2>2 DEF WalkChunk
  <2> QED
    BY <2>1, <2>2
<1>7. Inside'
  BY <1>2, <1>6, InsideStep DEF PCs, Calling, Reading
<1>8. TypeOK'
  BY <1>3, <1>6 DEF IInv, TypeOK, PCs, Calling, file, locks, WalkChunk
<1> QED
  BY <1>3, <1>7, <1>8 DEF IInv

LEMMA AppendCopyInv ==
  ASSUME IInv, NEW t \in Threads, AppendCopy(t) PROVE IInv'
<1>1. /\ rwlockp # 0 /\ loc \in [Threads -> Local] /\ data \in [Cells -> Bytes \cup {Zero}]
      /\ pc \in [Threads -> PCs]
      /\ pc[t] = "append.copy"
      /\ Start <= loc[t].at /\ loc[t].at + Len(loc[t].buf) <= End
  BY DEF IInv, Sessions, TypeOK, Inside, AppendCopy, PCs, Calling, Writing
<1>2. loc[t].at \in Nat /\ loc[t].buf \in Seq(Bytes)
  BY <1>1, OffsetsAssumption DEF Local, Offsets
<1>3. PICK l \in {"append.copy", "append.data"} : Goto(t, l)
  BY ZenonT(30), <1>1 DEF AppendCopy, Goto, PCs
<1>4. /\ loc' \in [Threads -> Local] /\ data' \in [Cells -> Bytes \cup {Zero}]
      /\ Start <= loc'[t].at /\ loc'[t].at + Len(loc'[t].buf) <= End
      /\ \A u \in Threads \ {t} : loc'[u] = loc[u]
  <2>1. CASE UNCHANGED <<data, loc>>
    BY <1>1, <2>1
  <2>2. CASE ~UNCHANGED <<data, loc>>
    <3>0. PICK n \in 1 .. Len(loc[t].buf) :
               /\ data' = [i \in Cells |-> IF i \in loc[t].at .. loc[t].at + n - 1
                                             THEN loc[t].buf[i - loc[t].at + 1] ELSE data[i]]
               /\ loc' = [loc EXCEPT ![t].at = loc[t].at + n,
                                     ![t].buf = SubSeq(loc[t].buf, n + 1, Len(loc[t].buf))]
      BY <2>2 DEF AppendCopy
    <3> DEFINE rest == SubSeq(loc[t].buf, n + 1, Len(loc[t].buf))
    <3>1. Len(loc[t].buf) \in Nat /\ n \in Nat /\ n <= Len(loc[t].buf)
      BY <1>2
    <3>2. rest \in Seq(Bytes) /\ Len(rest) = Len(loc[t].buf) - n
      BY <1>2, <3>1
    <3>3. loc[t].at + n \in Offsets
      BY <1>1, <1>2, <3>1, OffsetsAssumption DEF Offsets
    <3>4. data' \in [Cells -> Bytes \cup {Zero}]
      <4>1. \A i \in loc[t].at .. loc[t].at + n - 1 : loc[t].buf[i - loc[t].at + 1] \in Bytes
        <5>1. loc[t].buf \in [1 .. Len(loc[t].buf) -> Bytes]
          BY <1>2
        <5>2. \A i \in loc[t].at .. loc[t].at + n - 1 : i - loc[t].at + 1 \in 1 .. Len(loc[t].buf)
          BY SMTT(30), <1>2, <3>1
        <5> QED
          BY <5>1, <5>2
      <4> QED
        BY <1>1, <4>1, <3>0
    <3>5. /\ loc' \in [Threads -> Local] /\ loc'[t].at = loc[t].at + n /\ loc'[t].buf = rest
          /\ \A u \in Threads \ {t} : loc'[u] = loc[u]
      <4> HIDE DEF rest
      <4>1. loc' = [loc EXCEPT ![t].at = loc[t].at + n, ![t].buf = rest]
        BY <3>0 DEF rest
      <4> QED
        BY <1>1, <3>2, <3>3, <4>1 DEF Local
    <3>6. Start <= loc[t].at + n /\ loc[t].at + n + Len(rest) <= End
      <4> HIDE DEF rest
      <4> QED
        BY <1>1, <1>2, <3>1, <3>2, OffsetsAssumption
    <3> QED
      BY <3>4, <3>5, <3>6
  <2> QED
    BY <2>1, <2>2
<1>5. Sessions' /\ Creation' /\ Behind' /\ Accepted' /\ pc' \in [Threads -> PCs]
  <2>1. \A u \in Threads : pc[u] \notin Opening
    BY <1>1 DEF IInv, Sessions
  <2>2. pc' \in [Threads -> PCs] /\ \A u \in Threads : pc'[u] \notin Opening
    BY <1>1, <1>3, <2>1 DEF Goto, PCs, Calling, Writing, Opening
  <2> QED
    BY <1>1, <2>1, <2>2 DEF IInv, Sessions, Creation, Behind, Accepted, DescOK, Openable,
       AppendCopy, locks, Opening
<1>6. Inside'
  BY <1>3, <1>4, InsideStep DEF PCs, Calling, Writing
<1>7. TypeOK'
  BY <1>4, <1>5 DEF IInv, TypeOK, PCs, Calling, locks, AppendCopy
<1> QED
  BY <1>5, <1>6, <1>7 DEF IInv

LEMMA PersistDataInv ==
  ASSUME IInv, NEW t \in Threads, PersistData(t) PROVE IInv'
<1> USE DEF PersistData
<1>1. rwlockp # 0 /\ pc \in [Threads -> PCs]
  BY DEF IInv, Sessions, Calling, Writing, TypeOK, PCs
<1>2. \A u \in Threads : pc[u] \notin Opening
  BY <1>1 DEF IInv, Sessions
<1>3. pc' \in [Threads -> PCs] /\ \A u \in Threads : pc'[u] \notin Opening
  BY <1>1, <1>2 DEF Goto, PCs, Calling, Writing, Opening
<1>4. Sessions' /\ Creation' /\ Behind' /\ Accepted'
  BY <1>1, <1>2, <1>3 DEF IInv, Sessions, Creation, Behind, Accepted, DescOK, Openable,
     locks, Opening
<1>5. Inside'
  BY UnmovedStep DEF PCs, Calling, Writing
<1>6. pdata' \in [Cells -> Bytes \cup {Zero}]
  BY DEF IInv, TypeOK
<1>7. TypeOK'
  BY <1>3, <1>6 DEF IInv, TypeOK, PCs, Calling, locks
<1> QED
  BY <1>4, <1>5, <1>7 DEF IInv

\* A call stores an offset: it stays within the log, so the descriptor stays one
\* that an open accepts.
LEMMA StoreInv ==
  ASSUME IInv, NEW t \in Threads, NEW next \in {"append.commit", "rewind.commit"},
         NEW here \in Writing, NEW w \in Start .. End,
         SetDesc(t, here, [desc EXCEPT !.write = w], next)
  PROVE  IInv' /\ DescOK(desc) /\ DescOK(desc')
<1> USE DEF SetDesc
<1>1. rwlockp # 0 /\ hdr /\ DescOK(desc) /\ desc \in Desc /\ pc \in [Threads -> PCs]
  BY DEF IInv, Sessions, Calling, Writing, TypeOK, PCs
<1>2. DescOK(desc') /\ desc' \in Desc
  BY <1>1, OffsetsAssumption DEF DescOK, Desc, Offsets
<1>3. \A u \in Threads : pc[u] \notin Opening
  BY <1>1 DEF IInv, Sessions
<1>4. pc' \in [Threads -> PCs] /\ \A u \in Threads : pc'[u] \notin Opening
  BY <1>1, <1>3 DEF Goto, PCs, Calling, Writing, Opening
<1>5. Sessions' /\ Creation' /\ Behind' /\ Accepted'
  <2>1. Sessions'
    BY <1>1, <1>2, <1>4 DEF IInv, Sessions, locks
  <2>2. Creation'
    BY <1>4 DEF Creation, Opening
  <2>3. Behind' /\ Accepted'
    BY <1>1, <1>2, <1>3 DEF IInv, Behind, Accepted, Openable
  <2> QED
    BY <2>1, <2>2, <2>3
<1>6. Inside'
  BY UnmovedStep DEF PCs, Calling, Writing
<1>7. TypeOK'
  BY <1>2, <1>4 DEF IInv, TypeOK, PCs, Calling, locks
<1> QED
  BY <1>1, <1>2, <1>5, <1>6, <1>7 DEF IInv

LEMMA StoresInv ==
  ASSUME IInv, NEW t \in Threads, PersistOffset(t) \/ RewindStore(t) PROVE IInv'
<1>1. CASE PersistOffset(t)
  <2>1. loc[t].at \in Start .. End
    BY <1>1, OffsetsAssumption DEF PersistOffset, SetDesc, IInv, Inside, TypeOK, Local, Offsets
  <2> QED
    BY <1>1, <2>1, StoreInv DEF PersistOffset, Writing
<1>2. CASE RewindStore(t)
  <2>1. desc.start = Start
    BY <1>2 DEF RewindStore, SetDesc, IInv, Sessions, DescOK, Calling, Writing
  <2>2. Start \in Start .. End
    BY OffsetsAssumption
  <2> QED
    BY <1>2, <2>1, <2>2, StoreInv DEF RewindStore, Writing
<1> QED
  BY <1>1, <1>2

LEMMA CommitInv ==
  ASSUME IInv, NEW t \in Threads, NEW here \in Writing, Commit(t, here)
  PROVE  IInv'
<1> USE DEF Commit
<1>1. rwlockp # 0 /\ hdr /\ DescOK(desc) /\ desc \in Desc /\ pc \in [Threads -> PCs]
  BY DEF IInv, Sessions, Calling, Writing, TypeOK, PCs
<1>2. \A u \in Threads : pc[u] \notin Opening
  BY <1>1 DEF IInv, Sessions
<1>3. pc' \in [Threads -> PCs] /\ \A u \in Threads : pc'[u] \notin Opening
  BY <1>1, <1>2 DEF Goto, PCs, Calling, Writing, Opening
<1>4. Sessions' /\ Creation' /\ Behind' /\ Accepted'
  <2>1. Sessions'
    BY <1>1, <1>3 DEF IInv, Sessions, locks, DescOK
  <2>2. Creation'
    BY <1>3 DEF Creation, Opening
  <2>3. Behind' /\ Accepted'
    BY <1>1, <1>2 DEF IInv, Behind, Accepted, Openable, DescOK
  <2> QED
    BY <2>1, <2>2, <2>3
<1>5. Inside'
  BY UnmovedStep DEF PCs, Calling
<1>6. TypeOK'
  BY <1>1, <1>3 DEF IInv, TypeOK, PCs, Calling, locks
<1> QED
  BY <1>4, <1>5, <1>6 DEF IInv

-----------------------------------------------------------------------------
(* Opening and closing the pool                                             *)

LEMMA OpenInv ==
  ASSUME IInv, NEW t \in Threads, Open(t) PROVE IInv'
<1> USE DEF Open
<1>1. /\ pc \in [Threads -> PCs] /\ pc[t] = "idle" /\ rwlockp \in 0 .. MaxOpens
      /\ \A u \in Threads : pc[u] \notin Opening
      /\ UNCHANGED <<phdr, desc, pdesc, data, pdata, writer, readers, loc, checked>>
  BY DEF IInv, TypeOK, PCs, Calling
<1>2. CASE hdr /\ DescOK(desc) /\ Opened(t) /\ UNCHANGED hdr
  <2>1. /\ pc' \in [Threads -> PCs] /\ \A u \in Threads : pc'[u] \notin Opening
        /\ rwlockp' \in 0 .. MaxOpens /\ rwlockp' # 0
    BY <1>1, <1>2, OffsetsAssumption DEF Opened, Goto, PCs, Opening
  <2>2. Sessions' /\ Creation' /\ Behind' /\ Accepted'
    BY <1>1, <1>2, <2>1 DEF IInv, Sessions, Creation, Behind, Accepted, Openable, DescOK, Opening
  <2>3. Inside'
    BY <1>1, <1>2, UnmovedStep DEF Opened, PCs
  <2>4. TypeOK'
    BY <1>1, <1>2, <2>1 DEF IInv, TypeOK, PCs, Calling
  <2> QED
    BY <2>2, <2>3, <2>4 DEF IInv
<1>3. CASE ~hdr /\ hdr' = TRUE /\ Goto(t, "create.sync") /\ UNCHANGED rwlockp
  <2>1. rwlockp = 0 /\ \A u \in Threads : pc[u] = "idle"
    BY <1>1, <1>3 DEF IInv, Sessions, PCs
  <2>2. /\ pc' \in [Threads -> PCs] /\ pc'[t] = "create.sync"
        /\ \A u \in Threads \ {t} : pc'[u] = "idle"
    BY <1>1, <1>3, <2>1 DEF Goto, PCs, Opening
  <2>3. Sessions' /\ Creation' /\ Behind' /\ Accepted'
    <3>1. Sessions' /\ Creation'
      BY <1>3, <2>1, <2>2 DEF Sessions, Creation, Calling, Writing, Reading, Asking, Opening
    <3>2. Behind'
      BY <1>1, <1>3 DEF IInv, Behind, DescOK
    <3>3. Accepted'
      BY <2>2 DEF Accepted, Opening
    <3> QED
      BY <3>1, <3>2, <3>3
  <2>4. Inside'
    BY <1>1, <1>3, UnmovedStep DEF PCs, Opening
  <2>5. TypeOK'
    BY <1>1, <1>3, <2>2 DEF IInv, TypeOK, PCs, Calling
  <2> QED
    BY <2>3, <2>4, <2>5 DEF IInv
<1> QED
  BY <1>2, <1>3

\* The thread that creates the pool is alone with it.
LEMMA CreatingAlone ==
  ASSUME IInv, NEW t \in Threads, pc[t] \in Opening, NEW l \in {"idle"} \cup Opening, Goto(t, l)
  PROVE  /\ rwlockp = 0 /\ hdr
         /\ pc' \in [Threads -> PCs] /\ pc'[t] = l
         /\ \A u \in Threads \ {t} : pc[u] = "idle" /\ pc'[u] = "idle"
<1>1. pc \in [Threads -> PCs]
  BY DEF IInv, TypeOK, PCs, Calling
<1>2. rwlockp = 0 /\ hdr /\ \A u \in Threads \ {t} : pc[u] = "idle"
  BY DEF IInv, Sessions
<1> QED
  BY <1>1, <1>2 DEF Goto, PCs

LEMMA CreateSyncInv ==
  ASSUME IInv, NEW t \in Threads, CreateSync(t) PROVE IInv'
<1> USE DEF CreateSync
<1>1. /\ rwlockp = 0 /\ hdr
      /\ pc' \in [Threads -> PCs] /\ pc'[t] = "create.start"
      /\ \A u \in Threads \ {t} : pc'[u] = "idle"
  BY CreatingAlone DEF Opening
<1>2. Sessions' /\ Creation'
  BY <1>1 DEF Sessions, Creation, Calling, Writing, Reading, Asking, Opening, locks
<1>3. Behind' /\ Accepted'
  BY <1>1 DEF IInv, Behind, Accepted, DescOK, Opening
<1>4. Inside'
  BY UnmovedStep DEF PCs, Opening
<1>5. TypeOK'
  BY <1>1 DEF IInv, TypeOK, PCs, Calling, locks
<1> QED
  BY <1>2, <1>3, <1>4, <1>5 DEF IInv

\* While it is created the descriptor may be one that is not accepted yet, but an
\* accepted one is never broken.
LEMMA CreateStoresInv ==
  ASSUME IInv, NEW t \in Threads, CreateStart(t) \/ CreateEnd(t) \/ CreateWrite(t)
  PROVE  IInv' /\ (DescOK(desc) => DescOK(desc'))
<1> USE DEF CreateStart, CreateEnd, CreateWrite, SetDesc
<1>1. PICK l \in {"create.end", "create.write", "create.done"} : Goto(t, l)
  OBVIOUS
<1>2. /\ rwlockp = 0 /\ hdr /\ phdr
      /\ pc' \in [Threads -> PCs] /\ pc'[t] = l
      /\ \A u \in Threads \ {t} : pc'[u] = "idle"
  BY <1>1, CreatingAlone DEF Opening, IInv, Creation
<1>3. desc \in Desc /\ desc' \in Desc
  BY OffsetsAssumption DEF IInv, TypeOK, Desc, Offsets
<1>4. DescOK(desc) => DescOK(desc')
  BY <1>3, OffsetsAssumption DEF DescOK, Desc
<1>5. Sessions'
  BY <1>1, <1>2 DEF Sessions, Calling, Writing, Reading, Asking, Opening, locks
<1>6. Creation'
  <2>1. /\ l \in {"create.end", "create.write", "create.done"} => desc'.start = Start
        /\ l \in {"create.write", "create.done"} => desc'.end = End
        /\ l = "create.done" => desc'.write = Start
    <3>1. CASE CreateStart(t)
      BY <1>2, <1>3, <3>1, CreatingAlone DEF Opening, Desc
    <3>2. CASE CreateEnd(t)
      BY <1>2, <1>3, <3>2, CreatingAlone DEF Opening, IInv, Creation, Desc
    <3>3. CASE CreateWrite(t)
      BY <1>2, <1>3, <3>3, CreatingAlone DEF Opening, IInv, Creation, Desc
    <3> QED
      BY <3>1, <3>2, <3>3
  <2> QED
    BY <1>2, <2>1 DEF Creation, Opening
<1>7. Behind' /\ Accepted'
  BY <1>1, <1>2, <1>4 DEF IInv, Behind, Accepted, Opening, DescOK
<1>8. Inside'
  BY <1>1, UnmovedStep DEF PCs, Opening
<1>9. TypeOK'
  BY <1>2, <1>3 DEF IInv, TypeOK, PCs, Calling, locks
<1> QED
  BY <1>4, <1>5, <1>6, <1>7, <1>8, <1>9 DEF IInv

LEMMA CreateDoneInv ==
  ASSUME IInv, NEW t \in Threads, CreateDone(t) PROVE IInv' /\ DescOK(desc)
<1> USE DEF CreateDone, Opened
<1>1. /\ rwlockp = 0 /\ hdr /\ phdr
      /\ pc' \in [Threads -> PCs] /\ pc'[t] = "idle"
      /\ \A u \in Threads \ {t} : pc'[u] = "idle"
  BY CreatingAlone DEF Opening, IInv, Creation
<1>2. DescOK(desc)
  BY OffsetsAssumption DEF IInv, Creation, DescOK
<1>3. rwlockp' \in 0 .. MaxOpens
  BY <1>1, OffsetsAssumption
<1>4. Sessions' /\ Creation'
  BY <1>1, <1>2 DEF Sessions, Creation, Calling, Writing, Reading, Asking, Opening, DescOK
<1>5. Behind' /\ Accepted'
  BY <1>1, <1>2 DEF Behind, Accepted, Openable, DescOK
<1>6. Inside'
  BY UnmovedStep DEF PCs
<1>7. TypeOK'
  BY <1>1, <1>3 DEF IInv, TypeOK, PCs, Calling
<1> QED
  BY <1>2, <1>4, <1>5, <1>6, <1>7 DEF IInv

LEMMA CloseCheckInv ==
  ASSUME IInv, (\E t \in Threads : Close(t)) \/ Check PROVE IInv'
<1>1. \A t \in Threads : pc[t] = "idle"
  BY DEF Close, Check, Idle
<1>2. /\ UNCHANGED <<file, writer, readers, pc, loc>> /\ rwlockp' \in {0, rwlockp}
      /\ checked' \in {-1, 1, checked}
  BY DEF Close, Check, locks
<1>3. Sessions' /\ Creation'
  BY <1>1, <1>2 DEF IInv, Sessions, Creation, Calling, Writing, Reading, Asking, Opening,
     file, DescOK
<1>4. Inside' /\ Behind' /\ Accepted'
  BY <1>1, <1>2 DEF IInv, Inside, Behind, Accepted, Openable, DescOK, file
<1>5. TypeOK'
  BY <1>2, OffsetsAssumption DEF IInv, TypeOK, file
<1> QED
  BY <1>3, <1>4, <1>5 DEF IInv

-----------------------------------------------------------------------------
(* Crashes and write-backs                                                  *)

LEMMA GoneInv ==
  ASSUME IInv, ProcessGone
  PROVE  /\ rwlockp' \in 0 .. MaxOpens /\ checked' \in {-1, 0, 1}
         /\ writer' \in [Locks -> Threads \cup {Nobody}] /\ readers' \in [Locks -> SUBSET Threads]
         /\ pc' \in [Threads -> PCs] /\ loc' \in [Threads -> Local]
         /\ Sessions' /\ Creation' /\ Inside'
<1> USE DEF ProcessGone
<1>1. \A t \in Threads : pc'[t] = "idle"
  OBVIOUS
<1>2. Sessions' /\ Creation' /\ Inside'
  BY <1>1 DEF Sessions, Creation, Inside, Calling, Writing, Reading, Asking, Opening
<1>3. pc' \in [Threads -> PCs] /\ loc' \in [Threads -> Local]
  BY NoLocalType DEF PCs
<1>4. /\ rwlockp' \in 0 .. MaxOpens /\ checked' \in {-1, 0, 1}
      /\ writer' \in [Locks -> Threads \cup {Nobody}] /\ readers' \in [Locks -> SUBSET Threads]
  BY OffsetsAssumption
<1> QED
  BY <1>2, <1>3, <1>4

LEMMA ExitInv ==
  ASSUME IInv, Exit PROVE IInv'
<1> USE DEF Exit, file
<1>1. Behind' /\ Accepted'
  BY DEF IInv, Behind, Accepted, Openable, DescOK
<1>2. TypeOK'
  BY GoneInv DEF IInv, TypeOK, PCs, Calling
<1> QED
  BY GoneInv, <1>1, <1>2 DEF IInv

LEMMA PowerFailInv ==
  ASSUME IInv, PowerFail PROVE IInv'
<1> USE DEF PowerFail
<1>1. Behind' /\ Accepted'
  BY DEF Behind, Accepted, Openable, DescOK
<1>2. TypeOK'
  BY GoneInv DEF IInv, TypeOK, PCs, Calling
<1> QED
  BY GoneInv, <1>1, <1>2 DEF IInv

LEMMA EvictInv ==
  ASSUME IInv, Evict PROVE IInv'
<1> USE DEF Evict
<1>1. Sessions' /\ Inside'
  BY DEF IInv, Sessions, Inside, locks, DescOK
<1>2. Creation'
  BY DEF IInv, Sessions, Creation, Opening
<1>3. Behind' /\ Accepted'
  BY DEF IInv, Behind, Accepted, Openable, DescOK
<1>4. pdata' \in [Cells -> Bytes \cup {Zero}]
  BY DEF IInv, TypeOK
<1>5. TypeOK'
  BY <1>4 DEF IInv, TypeOK, locks
<1> QED
  BY <1>1, <1>2, <1>3, <1>5 DEF IInv

-----------------------------------------------------------------------------
LEMMA StepInv == IInv /\ [Next]_vars => IInv'
<1> SUFFICES ASSUME IInv, [Next]_vars PROVE IInv'
  OBVIOUS
<1>1. ASSUME NEW t \in Threads, Locked(t) PROVE IInv'
  BY <1>1, AppendSpaceInv, AppendCopyInv, PersistDataInv, StoresInv, CommitInv, WalkChunkInv,
     TellReadInv, UnlockInv DEF Locked, AppendCommit, RewindCommit, Writing
<1>2. ASSUME NEW t \in Threads,
             \/ Append1(t) \/ AppendLock(t) \/ Rewind(t) \/ RewindLock(t)
             \/ Walk(t) \/ WalkLock(t) \/ Tell(t) \/ TellLock(t)
      PROVE  IInv'
  BY <1>2, CallsInv, WrLockInv, WalkLockInv, TellLockInv
     DEF AppendLock, RewindLock, Asking, Writing
<1>3. ASSUME NEW t \in Threads,
             \/ Open(t) \/ CreateSync(t) \/ CreateStart(t) \/ CreateEnd(t) \/ CreateWrite(t)
             \/ CreateDone(t)
      PROVE  IInv'
  BY <1>3, OpenInv, CreateSyncInv, CreateStoresInv, CreateDoneInv
<1>4. CASE (\E t \in Threads : Close(t)) \/ Check
  BY <1>4, CloseCheckInv
<1>5. CASE Exit \/ PowerFail \/ Evict
  BY <1>5, ExitInv, PowerFailInv, EvictInv
<1>6. CASE UNCHANGED vars
  BY <1>6 DEF vars, IInv, TypeOK, Sessions, Creation, Inside, Behind, Accepted, Openable, DescOK
<1> QED
  BY <1>1, <1>2, <1>3, <1>4, <1>5, <1>6 DEF Next

LEMMA InvariantHolds == Spec => []IInv
BY InitInv, StepInv, PTL DEF Spec

LEMMA TypeCorrect == Spec => []TypeOK
<1>1. IInv => TypeOK
  BY DEF IInv
<1> QED
  BY InvariantHolds, <1>1, PTL

\* The bytes between Start and End are the log.  Of an open pool the offsets are in
\* order, start at Start and end at End; a copy has room for all that is left of its
\* buffers, and a walk for what it has not shown yet.
StoresInside ==
  /\ rwlockp # 0 => /\ desc.start = Start /\ desc.end = End
                    /\ Start <= desc.write /\ desc.write <= End
  /\ \A t \in Threads :
       /\ pc[t] = "append.copy" => Start <= loc[t].at /\ loc[t].at + Len(loc[t].buf) <= End
       /\ pc[t] \in {"append.data", "append.offset"} => Start <= loc[t].at /\ loc[t].at <= End
       /\ pc[t] = "walk" => Start <= loc[t].at /\ loc[t].upto <= End

\* No call stores or reads outside the log (log.c:285-341, log.c:414-459,
\* log.c:531-570), whatever is killed and however many opens have each put a lock of
\* their own in the pool (log.c:201), so that calls no longer exclude each other.
THEOREM StoresStayInside == Spec => []StoresInside
<1>1. ASSUME IInv PROVE StoresInside
  <2>1. rwlockp # 0 => /\ desc.start = Start /\ desc.end = End
                      /\ Start <= desc.write /\ desc.write <= End
    BY <1>1, OffsetsAssumption DEF IInv, Sessions, DescOK
  <2>2. \A o \in Offsets : o <= End
    BY OffsetsAssumption DEF Offsets
  <2>3. loc \in [Threads -> Local]
    BY <1>1 DEF IInv, TypeOK
  <2>4. ASSUME NEW l \in Local PROVE l.at <= End /\ l.upto <= End
    BY <2>2, <2>4 DEF Local
  <2>5. \A t \in Threads : loc[t].at <= End /\ loc[t].upto <= End
    BY <2>3, <2>4
  <2> QED
    BY <1>1, <2>1, <2>5 DEF IInv, Inside, StoresInside
<1> QED
  BY InvariantHolds, <1>1, PTL

\* Whatever reaches the media of the header and the descriptor comes from the cache.
LEMMA WriteBacks ==
  [Next]_vars => phdr' \in {phdr, hdr} /\ pdesc' \in {pdesc, desc}
<1> SUFFICES ASSUME [Next]_vars PROVE phdr' \in {phdr, hdr} /\ pdesc' \in {pdesc, desc}
  OBVIOUS
<1>1. ASSUME NEW t \in Threads, Locked(t) PROVE phdr' = phdr /\ pdesc' \in {pdesc, desc}
  BY <1>1 DEF Locked, AppendSpace, AppendCopy, PersistData, PersistOffset, AppendCommit,
     RewindStore, RewindCommit, WalkChunk, TellRead, Unlock, SetDesc, Commit, file
<1>2. ASSUME NEW t \in Threads,
             \/ Append1(t) \/ AppendLock(t) \/ Rewind(t) \/ RewindLock(t)
             \/ Walk(t) \/ WalkLock(t) \/ Tell(t) \/ TellLock(t)
      PROVE  UNCHANGED <<phdr, pdesc>>
  BY <1>2 DEF Append1, AppendLock, Rewind, RewindLock, Walk, WalkLock, Tell, TellLock, Call,
     WrLock, file
<1>3. ASSUME NEW t \in Threads,
             \/ Open(t) \/ CreateSync(t) \/ CreateStart(t) \/ CreateEnd(t) \/ CreateWrite(t)
             \/ CreateDone(t) \/ Close(t)
      PROVE  phdr' \in {phdr, hdr} /\ pdesc' \in {pdesc, desc}
  BY <1>3 DEF Open, CreateSync, CreateStart, CreateEnd, CreateWrite, CreateDone, Close, SetDesc,
     file
<1>4. CASE Check \/ Exit \/ PowerFail \/ Evict
  BY <1>4 DEF Check, Exit, PowerFail, Evict, file
<1>5. CASE UNCHANGED vars
  BY <1>5 DEF vars
<1> QED
  BY <1>1, <1>2, <1>3, <1>4, <1>5 DEF Next

\* No order of kills, power failures and calls turns a pool that pmemlog_pool_open
\* accepts into one that it refuses (log.c:126-142).
THEOREM OpenableForEver == Spec => StaysOpenable
<1>1. ASSUME IInv, [Next]_vars, Openable PROVE Openable'
  <2>1. phdr /\ hdr /\ DescOK(pdesc) /\ DescOK(desc)
    BY <1>1 DEF IInv, Behind, Openable
  <2>2. phdr' \in {phdr, hdr} /\ pdesc' \in {pdesc, desc}
    BY <1>1, WriteBacks
  <2> QED
    BY <2>1, <2>2 DEF Openable, DescOK
<1> QED
  BY InvariantHolds, <1>1, PTL DEF Spec, StaysOpenable

\* While no process is killed in the middle of a write, a pool whose open has
\* returned survives every power failure.
THEOREM OpenedIsOpenable == ASSUME ~Kills PROVE Spec => []OnceOpenable
<1>1. IInv => OnceOpenable
  BY DEF IInv, Sessions, Accepted, OnceOpenable
<1> QED
  BY InvariantHolds, <1>1, PTL

-----------------------------------------------------------------------------
(***************************************************************************)
(* The data: the log on the media grows by whole records and is emptied as a *)
(* whole, a walk sees a snapshot, and what a call has written is on the media *)
(* when it returns.  Under two conditions, without which TLC finds            *)
(* counterexamples: no process is killed in the middle of a write, and none   *)
(* opens the pool a second time while it has it open (each open replaces the  *)
(* rwlock, log.c:201).                                                       *)
(***************************************************************************)

OneOpen == ~Kills /\ MaxOpens = 1

Copying == {"append.copy", "append.data", "append.offset"}

-----------------------------------------------------------------------------
(* The inductive invariant                                                  *)

\* One lock, so a writer is alone and a reader is among readers.
Exclusive ==
  \A t \in Threads :
    /\ pc[t] \in Writing => writer[1] = t /\ readers[1] = {}
    /\ pc[t] \in Reading => t \in readers[1]

\* Until its header is on the media a pool has no write offset, and a pool that is
\* being created has none either until the last store.
Fresh ==
  /\ ~phdr => desc.write = 0 /\ pdesc.write = 0
  /\ \A t \in Threads : pc[t] \in Opening \ {"create.done"} => desc.write = 0

\* The data below either write offset is on the media.
DataSynced ==
  /\ \A i \in Start .. desc.write - 1 : pdata[i] = data[i]
  /\ \A i \in Start .. pdesc.write - 1 : pdata[i] = data[i]

\* The two descriptors differ only while somebody is about to commit.
DescSynced ==
  \/ ~DescOK(desc)
  \/ pdesc = desc
  \/ \E t \in Threads : pc[t] \in {"create.done", "append.commit", "rewind.commit"}

\* r lies in the cells d from write on: as far as at in the cells, the rest in buf.
Split(d, r, write, at, buf) ==
  /\ write <= at /\ Len(r) = at - write + Len(buf)
  /\ \A i \in 1 .. at - write : r[i] = d[write + i - 1]
  /\ \A i \in 1 .. Len(buf) : buf[i] = r[at - write + i]

\* What an append carries is one of the records, in every step of the copy.
Carried ==
  \A t \in Threads :
    /\ pc[t] \in {"append", "append.space"} => loc[t].buf \in Records
    /\ pc[t] \in Copying => \E r \in Records : Split(data, r, desc.write, loc[t].at, loc[t].buf)
    /\ pc[t] \in {"append.data", "append.offset"} => loc[t].buf = <<>>
    /\ pc[t] = "append.offset" => \A i \in Start .. loc[t].at - 1 : pdata[i] = data[i]

\* What a commit is about to make durable.
Committing ==
  \A t \in Threads :
    /\ pc[t] = "append.commit" =>
         pdesc = desc \/ \E r \in Records : Split(data, r, pdesc.write, desc.write, <<>>)
    /\ pc[t] = "rewind.commit" => desc.write = Start

\* What a walk has shown.
Shown ==
  \A t \in Threads : pc[t] = "walk.lock" => loc[t].got = <<>>

AInv ==
  /\ IInv
  /\ Exclusive /\ Fresh /\ DataSynced /\ DescSynced /\ Carried /\ Committing
  /\ Shown /\ WalkSnapshot

-----------------------------------------------------------------------------
(* Consequences used throughout                                             *)

LEMMA OneLock == ASSUME OneOpen PROVE Locks = {1} /\ MaxOpens = 1
BY DEF OneOpen, Locks

LEMMA Types ==
  ASSUME IInv
  PROVE  /\ pc \in [Threads -> PCs] /\ loc \in [Threads -> Local]
         /\ desc \in Desc /\ pdesc \in Desc
         /\ data \in [Cells -> Bytes \cup {Zero}] /\ pdata \in [Cells -> Bytes \cup {Zero}]
BY DEF IInv, TypeOK, PCs, Calling

LEMMA InCall ==
  ASSUME OneOpen, AInv, NEW t \in Threads, pc[t] \in Calling
  PROVE  /\ rwlockp = 1 /\ hdr /\ phdr /\ DescOK(desc)
         /\ \A u \in Threads : pc[u] \notin Opening
<1>1. rwlockp # 0 /\ rwlockp \in 0 .. MaxOpens
  BY DEF AInv, IInv, Sessions, TypeOK
<1>2. hdr /\ DescOK(desc) /\ \A u \in Threads : pc[u] \notin Opening
  BY <1>1 DEF AInv, IInv, Sessions
<1>3. phdr
  BY <1>2, OffsetsAssumption DEF AInv, Fresh, DescOK
<1> QED
  BY <1>1, <1>2, <1>3, OneLock

\* A thread that writes is alone: no other one writes, reads or creates the pool.
LEMMA WriterAlone ==
  ASSUME OneOpen, AInv, NEW t \in Threads, pc[t] \in Writing
  PROVE  /\ rwlockp = 1 /\ hdr /\ phdr /\ DescOK(desc)
         /\ writer[1] = t /\ readers[1] = {}
         /\ pc[t] \notin Opening
         /\ \A u \in Threads \ {t} : pc[u] \notin Writing \cup Reading \cup Opening
<1>1. pc[t] \in Calling
  BY DEF Calling
<1>2. writer[1] = t /\ readers[1] = {}
  BY DEF AInv, Exclusive
<1>3. \A u \in Threads \ {t} : pc[u] \notin Writing \cup Reading
  BY <1>2 DEF AInv, Exclusive
<1> QED
  BY <1>1, <1>2, <1>3, InCall

\* A step between commits that leaves the file alone.
LEMMA QuietStep ==
  ASSUME AInv, NEW t \in Threads, NEW l \in PCs, Goto(t, l), UNCHANGED file,
         pc[t] \notin {"create.done", "append.commit", "rewind.commit"},
         l \notin Opening
  PROVE  Fresh' /\ DataSynced' /\ DescSynced'
<1> USE DEF AInv, file
<1>1. pc \in [Threads -> PCs]
  BY Types
<1>2. Fresh'
  BY <1>1 DEF Fresh, Goto
<1>3. DataSynced'
  BY DEF DataSynced
<1>4. DescSynced'
  BY <1>1 DEF DescSynced, Goto, DescOK
<1> QED
  BY <1>2, <1>3, <1>4

\* Such a step keeps what the other threads carry and have shown.
LEMMA OthersKeep ==
  ASSUME AInv, NEW t \in Threads, NEW l \in PCs, Goto(t, l), UNCHANGED file,
         \A u \in Threads \ {t} : loc'[u] = loc[u],
         l \notin {"append.data", "append.offset", "append.commit", "rewind.commit"},
         l \in {"append", "append.space"} => loc'[t].buf \in Records,
         l = "append.copy" => \E r \in Records : Split(data, r, desc.write, loc'[t].at, loc'[t].buf),
         l = "walk.lock" => loc'[t].got = <<>>,
         l = "walk" => loc'[t].got = [i \in 1 .. loc'[t].at - Start |-> data[Start + i - 1]]
  PROVE  Carried' /\ Committing' /\ Shown' /\ WalkSnapshot'
<1> USE DEF AInv, file
<1>1. pc'[t] = l /\ \A u \in Threads \ {t} : pc'[u] = pc[u]
  BY Types DEF Goto
<1>2. Carried'
  <2>1. UNCHANGED <<desc, data, pdata>>
    OBVIOUS
  <2>2. ASSUME NEW u \in Threads \ {t} PROVE Carried!(u)'
    BY <1>1, <2>1, <2>2 DEF Carried, Split
  <2>3. Carried!(t)'
    BY <1>1, <2>1 DEF Carried, Split, Copying
  <2> QED
    BY <2>2, <2>3 DEF Carried
<1>3. Committing'
  <2>1. UNCHANGED <<desc, pdesc, data>>
    OBVIOUS
  <2>2. ASSUME NEW u \in Threads, pc'[u] \in {"append.commit", "rewind.commit"}
        PROVE  pc'[u] = pc[u]
    BY <1>1, <2>2
  <2>3. ASSUME NEW u \in Threads, pc'[u] = "append.commit", pdesc' # desc'
        PROVE  \E r \in Records : Split(data, r, pdesc.write, desc.write, <<>>)'
    <3>1. PICK r \in Records : Split(data, r, pdesc.write, desc.write, <<>>)
      BY <2>1, <2>2, <2>3 DEF Committing
    <3>2. Split(data, r, pdesc.write, desc.write, <<>>)'
      BY <2>1, <3>1 DEF Split
    <3> QED
      BY <3>2
  <2> QED
    BY <2>1, <2>2, <2>3 DEF Committing
<1>4. Shown'
  BY <1>1 DEF Shown
<1>5. WalkSnapshot'
  <2>1. data' = data
    OBVIOUS
  <2>2. ASSUME NEW u \in Threads, pc'[u] = "walk"
        PROVE  loc'[u].got = [i \in 1 .. loc'[u].at - Start |-> data[Start + i - 1]]
    <3>1. CASE u = t
      BY <1>1, <2>2, <3>1
    <3>2. CASE u # t
      BY <1>1, <2>2, <3>2 DEF WalkSnapshot
    <3> QED
      BY <3>1, <3>2
  <2> QED
    BY <2>1, <2>2 DEF WalkSnapshot
<1> QED
  BY <1>2, <1>3, <1>4, <1>5

LEMMA InitAInv == Init => AInv
<1> SUFFICES ASSUME Init PROVE AInv
  OBVIOUS
<1> USE DEF Init
<1>1. \A t \in Threads : pc[t] = "idle"
  OBVIOUS
<1>2. desc.write = 0 /\ pdesc.write = 0
  BY DEF NoDesc
<1>3. Exclusive /\ Carried /\ Committing /\ Shown /\ WalkSnapshot
  BY <1>1 DEF Exclusive, Carried, Committing, Shown, WalkSnapshot, Writing, Reading, Copying
<1>4. Fresh /\ DataSynced /\ DescSynced
  BY <1>1, <1>2 DEF Fresh, DataSynced, DescSynced, Opening
<1> QED
  BY <1>3, <1>4, InitInv DEF AInv

-----------------------------------------------------------------------------
(* Steps of the calls that leave the file alone                             *)

LEMMA ExclusiveStep ==
  ASSUME AInv, NEW t \in Threads, NEW l \in PCs \ (Writing \cup Reading), Goto(t, l),
         UNCHANGED <<writer, readers>>
  PROVE  Exclusive'
BY Types DEF AInv, Exclusive, Goto, Writing, Reading

LEMMA WrLockAInv ==
  ASSUME OneOpen, AInv, NEW t \in Threads, AppendLock(t) \/ RewindLock(t)
  PROVE  AInv'
<1>1. PICK next \in {"append.space", "rewind.store"}, here \in {"append", "rewind"} :
        /\ WrLock(t, here, next)
        /\ next = "append.space" => here = "append"
  BY DEF AppendLock, RewindLock
<1> USE DEF WrLock
<1>2. pc[t] = here /\ here \in Calling /\ next \in Writing /\ next \in PCs
  BY <1>1 DEF Calling, Asking, Writing, PCs
<1>3. rwlockp = 1
  BY <1>2, InCall
<1>4. writer[1] = Nobody /\ readers[1] = {} /\ writer'[1] = t /\ readers' = readers
  BY <1>1, <1>3, OneLock DEF Free, AInv, IInv, TypeOK
<1>5. Exclusive'
  <2>1. \A u \in Threads : pc[u] \notin Writing \cup Reading
    BY <1>4, ThreadsAssumption DEF AInv, Exclusive
  <2>2. pc'[t] = next /\ \A u \in Threads \ {t} : pc'[u] = pc[u]
    BY <1>1, Types DEF AInv, Goto
  <2> QED
    BY <1>4, <2>1, <2>2 DEF Exclusive, Writing, Reading
<1>6. Fresh' /\ DataSynced' /\ DescSynced'
  BY <1>1, <1>2, QuietStep DEF Opening, Writing
<1>7. Carried' /\ Committing' /\ Shown' /\ WalkSnapshot'
  <2>1. next = "append.space" => loc'[t].buf \in Records
    BY <1>1, <1>2 DEF AInv, Carried
  <2> QED
    BY <1>1, <1>2, <2>1, OthersKeep
<1>8. IInv'
  BY WrLockInv, <1>1, <1>2 DEF AInv, Asking, Writing
<1> QED
  BY <1>5, <1>6, <1>7, <1>8 DEF AInv

LEMMA RdLockAInv ==
  ASSUME OneOpen, AInv, NEW t \in Threads, WalkLock(t) \/ TellLock(t)
  PROVE  AInv'
<1>1. PICK here \in {"walk.lock", "tell.lock"}, next \in {"walk", "tell"} :
        /\ RdLock(t, here, next)
        /\ next = "walk" => WalkLock(t)
  BY DEF WalkLock, TellLock
<1>2. UNCHANGED <<file, rwlockp, writer>> /\ \A u \in Threads \ {t} : loc'[u] = loc[u]
  BY Types DEF WalkLock, TellLock, AInv
<1> USE DEF RdLock
<1>3. pc[t] = here /\ here \in Calling /\ next \in Reading /\ next \in PCs
  BY <1>1 DEF Calling, Asking, Reading, PCs
<1>4. rwlockp = 1 /\ desc.start = Start
  BY <1>3, InCall DEF DescOK
<1>5. writer[1] = Nobody /\ t \in readers'[1] /\ readers[1] \subseteq readers'[1]
  BY <1>1, <1>4, OneLock DEF AInv, IInv, TypeOK
<1>6. Exclusive'
  <2>1. \A u \in Threads : pc[u] \notin Writing
    BY <1>5, ThreadsAssumption DEF AInv, Exclusive
  <2>2. pc'[t] = next /\ \A u \in Threads \ {t} : pc'[u] = pc[u]
    BY <1>1, Types DEF AInv, Goto
  <2> QED
    BY <1>3, <1>5, <2>1, <2>2 DEF AInv, Exclusive, Writing, Reading
<1>7. Fresh' /\ DataSynced' /\ DescSynced'
  BY <1>1, <1>2, <1>3, QuietStep DEF Opening, Reading
<1>8. Carried' /\ Committing' /\ Shown' /\ WalkSnapshot'
  <2>1. next = "walk" => loc'[t].got = [i \in 1 .. loc'[t].at - Start |-> data[Start + i - 1]]
    <3> SUFFICES ASSUME next = "walk"
                 PROVE  loc'[t].got = [i \in 1 .. loc'[t].at - Start |-> data[Start + i - 1]]
      OBVIOUS
    <3>1. WalkLock(t) /\ pc[t] = "walk.lock"
      BY <1>1 DEF WalkLock
    <3>2. loc[t].got = <<>>
      BY <3>1 DEF AInv, Shown
    <3>3. loc'[t].at = Start /\ loc'[t].got = <<>>
      BY <1>4, <3>1, <3>2, Types DEF WalkLock, AInv, Local
    <3>4. 1 .. Start - Start = {}
      BY OffsetsAssumption
    <3>5. [i \in 1 .. loc'[t].at - Start |-> data[Start + i - 1]] = <<>>
      BY <3>3, <3>4
    <3> QED
      BY <3>3, <3>5
  <2> QED
    BY <1>1, <1>2, <1>3, <2>1, OthersKeep
<1>9. IInv'
  BY WalkLockInv, TellLockInv DEF AInv
<1> QED
  BY <1>6, <1>7, <1>8, <1>9 DEF AInv

LEMMA UnlockAInv ==
  ASSUME OneOpen, AInv, NEW t \in Threads, Unlock(t) PROVE AInv'
<1> USE DEF Unlock, Done
<1>1. rwlockp = 1
  BY InCall DEF Calling
<1>2. pc'[t] = "idle" /\ \A u \in Threads \ {t} : pc'[u] = pc[u] /\ loc'[u] = loc[u]
  BY Types DEF AInv, Goto
<1>3. Exclusive'
  <2>1. /\ writer'[1] = IF writer[1] = t THEN Nobody ELSE writer[1]
        /\ readers'[1] = readers[1] \ {t}
    BY <1>1, OneLock DEF AInv, IInv, TypeOK
  <2> QED
    BY <1>2, <2>1 DEF AInv, Exclusive, Writing, Reading
<1>4. Fresh' /\ DataSynced' /\ DescSynced'
  BY QuietStep DEF PCs, Opening
<1>5. Carried' /\ Committing' /\ Shown' /\ WalkSnapshot'
  BY <1>2, OthersKeep DEF PCs
<1>6. IInv'
  BY UnlockInv DEF AInv
<1> QED
  BY <1>3, <1>4, <1>5, <1>6 DEF AInv

LEMMA CallsAInv ==
  ASSUME OneOpen, AInv, NEW t \in Threads, Append1(t) \/ Rewind(t) \/ Walk(t) \/ Tell(t)
  PROVE  AInv'
<1>1. PICK next \in Asking, l \in Local :
        /\ Call(t, next, l)
        /\ next = "append" => l.buf \in Records
        /\ next = "walk.lock" => l.got = <<>>
  <2>1. NoLocal.got = <<>> /\ NoLocal \in Local
    BY NoLocalType DEF NoLocal
  <2>2. ASSUME NEW r \in Records
        PROVE  [NoLocal EXCEPT !.buf = r] \in Local /\ [NoLocal EXCEPT !.buf = r].buf = r
    BY <2>1, CellsAssumption DEF Local
  <2>3. ASSUME NEW c \in Chunks
        PROVE  /\ [NoLocal EXCEPT !.chunk = c] \in Local
               /\ [NoLocal EXCEPT !.chunk = c].got = <<>>
    BY <2>1 DEF Local
  <2>4. CASE Append1(t)
    BY <2>2, <2>4 DEF Append1, Asking
  <2>5. CASE Walk(t)
    BY <2>3, <2>5 DEF Walk, Asking
  <2>6. CASE Rewind(t) \/ Tell(t)
    BY <2>1, <2>6 DEF Rewind, Tell, Asking
  <2> QED
    BY <2>4, <2>5, <2>6
<1> USE DEF Call
<1>2. /\ next \in PCs \ (Writing \cup Reading \cup Opening)
      /\ next \notin {"append.space", "walk"}
  BY DEF Asking, PCs, Calling, Writing, Reading, Opening
<1>3. loc'[t] = l /\ \A u \in Threads \ {t} : loc'[u] = loc[u]
  BY <1>1, Types DEF AInv
<1>4. Exclusive'
  BY <1>1, <1>2, ExclusiveStep DEF locks
<1>5. Fresh' /\ DataSynced' /\ DescSynced'
  BY <1>1, <1>2, QuietStep
<1>6. Carried' /\ Committing' /\ Shown' /\ WalkSnapshot'
  BY <1>1, <1>2, <1>3, OthersKeep DEF Writing
<1>7. IInv'
  BY CallsInv DEF AInv
<1> QED
  BY <1>4, <1>5, <1>6, <1>7 DEF AInv

LEMMA AppendSpaceAInv ==
  ASSUME OneOpen, AInv, NEW t \in Threads, AppendSpace(t) PROVE AInv'
<1> USE DEF AppendSpace
<1>1. PICK l \in {"unlock", "append.copy"} : Goto(t, l)
  OBVIOUS
<1>2. /\ writer[1] = t /\ readers[1] = {}
      /\ pc[t] = "append.space" /\ pc[t] \in Writing
  BY WriterAlone DEF Writing
<1>3. pc'[t] = l /\ \A u \in Threads \ {t} : pc'[u] = pc[u] /\ loc'[u] = loc[u]
  BY <1>1, Types DEF AInv, Goto
<1>4. Exclusive'
  BY <1>2, <1>3 DEF AInv, Exclusive, Writing, Reading, locks
<1>5. Fresh' /\ DataSynced' /\ DescSynced'
  BY <1>1, QuietStep DEF PCs, Calling, Writing, Opening
<1>6. \E r \in Records : Split(data, r, desc.write, loc'[t].at, loc'[t].buf)
  <2>1. loc[t].buf \in Records /\ desc.write \in Nat
    BY OffsetsAssumption, Types DEF AInv, Carried, Desc, Offsets
  <2>2. loc'[t].at = desc.write /\ loc'[t].buf = loc[t].buf
    BY Types DEF AInv, Local
  <2>3. Len(loc[t].buf) \in Nat
    BY <2>1, CellsAssumption
  <2>4. Split(data, loc[t].buf, desc.write, desc.write, loc[t].buf)
    BY <2>1, <2>3 DEF Split
  <2> QED
    BY <2>1, <2>2, <2>4
<1>7. Carried' /\ Committing' /\ Shown' /\ WalkSnapshot'
  BY <1>1, <1>3, <1>6, OthersKeep DEF PCs, Calling, Writing
<1>8. IInv'
  BY AppendSpaceInv DEF AInv
<1> QED
  BY <1>4, <1>5, <1>7, <1>8 DEF AInv

LEMMA TellReadAInv ==
  ASSUME OneOpen, AInv, NEW t \in Threads, TellRead(t) PROVE AInv'
<1> USE DEF TellRead
<1>1. Exclusive'
  BY ExclusiveStep DEF PCs, Calling, Writing, Reading, locks
<1>2. Fresh' /\ DataSynced' /\ DescSynced'
  BY QuietStep DEF PCs, Calling, Opening
<1>3. Carried' /\ Committing' /\ Shown' /\ WalkSnapshot'
  BY OthersKeep DEF PCs, Calling
<1>4. IInv'
  BY TellReadInv DEF AInv
<1> QED
  BY <1>1, <1>2, <1>3, <1>4 DEF AInv

\* Cells first .. first + n - 1 of d, as a sequence.
LEMMA CellsSeq ==
  ASSUME NEW S, NEW d, NEW first \in Nat, NEW n \in Nat,
         \A j \in first .. first + n - 1 : d[j] \in S
  PROVE  LET s == [i \in 1 .. n |-> d[first + i - 1]]
         IN s \in Seq(S) /\ Len(s) = n /\ \A i \in 1 .. n : s[i] = d[first + i - 1]
<1> DEFINE s == [i \in 1 .. n |-> d[first + i - 1]]
<1>1. ASSUME NEW i \in 1 .. n PROVE d[first + i - 1] \in S
  <2>1. PICK j \in first .. first + n - 1 : j = first + i - 1
    OBVIOUS
  <2> QED
    BY <2>1
<1>2. s \in [1 .. n -> S]
  BY <1>1, Zenon
<1>3. s \in Seq(S) /\ Len(s) = n
  <2> HIDE DEF s
  <2> QED
    BY <1>2
<1>4. \A i \in 1 .. n : s[i] = d[first + i - 1]
  BY Zenon
<1> QED
  BY <1>3, <1>4, Zenon

\* The cells from first on and the n cells behind them are the cells from first on.
LEMMA CellsConcat ==
  ASSUME NEW S, NEW d, NEW first \in Nat, NEW m \in Nat, NEW n \in Nat,
         \A j \in first .. first + (m + n) - 1 : d[j] \in S
  PROVE  [i \in 1 .. m |-> d[first + i - 1]] \o [i \in 1 .. n |-> d[(first + m) + i - 1]]
           = [i \in 1 .. m + n |-> d[first + i - 1]]
<1> DEFINE s == [i \in 1 .. m |-> d[first + i - 1]]
<1> DEFINE t == [i \in 1 .. n |-> d[(first + m) + i - 1]]
<1> DEFINE u == [i \in 1 .. m + n |-> d[first + i - 1]]
<1>1. s \in Seq(S) /\ Len(s) = m /\ \A i \in 1 .. m : s[i] = d[first + i - 1]
  <2>1. \A j \in first .. first + m - 1 : d[j] \in S
    OBVIOUS
  <2> QED
    BY <2>1, CellsSeq
<1>2. t \in Seq(S) /\ Len(t) = n /\ \A i \in 1 .. n : t[i] = d[(first + m) + i - 1]
  <2>1. \A j \in first + m .. (first + m) + n - 1 : d[j] \in S
    OBVIOUS
  <2>2. first + m \in Nat
    OBVIOUS
  <2> QED
    BY <2>1, <2>2, CellsSeq
<1>3. u \in Seq(S) /\ Len(u) = m + n /\ \A i \in 1 .. m + n : u[i] = d[first + i - 1]
  <2>1. m + n \in Nat
    OBVIOUS
  <2> QED
    BY <2>1, CellsSeq
<1> HIDE DEF s, t, u
<1>4. /\ s \o t \in Seq(S) /\ Len(s \o t) = m + n
      /\ \A i \in 1 .. m + n : (s \o t)[i] = IF i <= m THEN s[i] ELSE t[i - m]
  BY ZenonT(30), <1>1, <1>2, ConcatProperties
<1>5. ASSUME NEW i \in 1 .. m + n PROVE (s \o t)[i] = u[i]
  <2>1. CASE i <= m
    <3>1. i \in 1 .. m
      BY <2>1
    <3> QED
      BY <1>1, <1>3, <1>4, <2>1, <3>1
  <2>2. CASE ~(i <= m)
    <3>1. PICK k \in 1 .. n : k = i - m /\ (first + m) + k - 1 = first + i - 1
      BY <2>2
    <3>2. (s \o t)[i] = t[k] /\ t[k] = d[first + i - 1]
      BY <1>2, <1>4, <2>2, <3>1
    <3> QED
      BY <1>3, <3>2
  <2> QED
    BY <2>1, <2>2
<1>6. s \o t = u
  BY <1>3, <1>4, <1>5, SeqEqual
<1> QED
  BY <1>6 DEF s, t, u

\* One more chunk of the log: what a walk has shown stays the beginning of the log.
LEMMA WalkChunkAInv ==
  ASSUME OneOpen, AInv, NEW t \in Threads, WalkChunk(t) PROVE AInv'
<1> DEFINE left == loc[t].upto - loc[t].at
<1> DEFINE len == IF loc[t].chunk = 0 \/ left < loc[t].chunk THEN left ELSE loc[t].chunk
<1> DEFINE shown == [i \in 1 .. len |-> data[loc[t].at + i - 1]]
<1>1. pc[t] = "walk" /\ UNCHANGED <<file, locks, checked>>
  BY DEF WalkChunk
<1>2. PICK l \in {"walk", "unlock"} : Goto(t, l)
  <2>1. CASE left > 0
    BY <2>1 DEF WalkChunk
  <2>2. CASE ~(left > 0)
    BY <2>2 DEF WalkChunk
  <2> QED
    BY <2>1, <2>2
<1>3. pc'[t] = l /\ \A u \in Threads \ {t} : pc'[u] = pc[u] /\ loc'[u] = loc[u]
  BY <1>1, <1>2, Types DEF AInv, Goto, WalkChunk
<1>4. Exclusive'
  BY <1>1, <1>3 DEF AInv, Exclusive, Writing, Reading, locks
<1>5. Fresh' /\ DataSynced' /\ DescSynced'
  BY <1>1, <1>2, QuietStep DEF PCs, Calling, Reading, Opening
<1>6. loc'[t].got = [i \in 1 .. loc'[t].at - Start |-> data[Start + i - 1]]
  <2>1. loc[t].got = [i \in 1 .. loc[t].at - Start |-> data[Start + i - 1]]
    BY <1>1 DEF AInv, WalkSnapshot
  <2>2. CASE ~(left > 0)
    BY <2>1, <2>2 DEF WalkChunk
  <2>3. CASE left > 0
    <3>1. /\ loc[t].at \in Nat /\ loc[t].upto \in Nat /\ Start \in Nat /\ Start <= loc[t].at
          /\ loc[t].upto <= End /\ End \in Nat
      BY <1>1, OffsetsAssumption, Types DEF AInv, IInv, Inside, Local, Offsets
    <3>2. loc[t].chunk \in Nat
      <4>1. Chunks \subseteq Nat
        BY OffsetsAssumption
      <4>2. loc[t].chunk \in Chunks \cup {0}
        BY Types DEF AInv, Local
      <4>3. CASE loc[t].chunk = 0
        BY <4>3
      <4>4. CASE loc[t].chunk \in Chunks
        BY <4>1, <4>4
      <4> QED
        BY <4>2, <4>3, <4>4
    <3>3. len \in Nat /\ loc[t].at + len <= End
      BY <2>3, <3>1, <3>2
    <3>4. loc'[t].got = loc[t].got \o shown /\ loc'[t].at = loc[t].at + len
      <4>1. loc' = [loc EXCEPT ![t].got = @ \o shown, ![t].at = loc[t].at + len]
        BY <2>3 DEF WalkChunk
      <4>2. loc \in [Threads -> Local]
        BY Types DEF AInv
      <4> HIDE DEF left, len, shown
      <4> QED
        BY <4>1, <4>2 DEF Local
    <3> HIDE DEF left, len
    <3>5. PICK m \in Nat : m = loc[t].at - Start /\ loc[t].at = Start + m
      BY <3>1
    <3>6. \A j \in Start .. Start + (m + len) - 1 : data[j] \in Bytes \cup {Zero}
      <4>1. data \in [Start .. End - 1 -> Bytes \cup {Zero}]
        BY Types DEF AInv, Cells
      <4>2. Start + (m + len) <= End
        BY <3>1, <3>3, <3>5
      <4> QED
        BY <3>1, <3>3, <4>1, <4>2
    <3>7. loc[t].got = [i \in 1 .. m |-> data[Start + i - 1]]
      BY <2>1, <3>5
    <3>8. loc[t].got \o shown = [i \in 1 .. m + len |-> data[Start + i - 1]]
      <4>1. shown = [i \in 1 .. len |-> data[(Start + m) + i - 1]]
        BY <3>5
      <4> HIDE DEF shown
      <4> QED
        <5>1. [i \in 1 .. m |-> data[Start + i - 1]]
                \o [i \in 1 .. len |-> data[(Start + m) + i - 1]]
                = [i \in 1 .. m + len |-> data[Start + i - 1]]
          BY <3>1, <3>3, <3>6, CellsConcat
        <5> QED
          BY <3>7, <4>1, <5>1, Zenon
    <3>9. loc'[t].at - Start = m + len
      BY <3>1, <3>3, <3>4, <3>5
    <3> HIDE DEF shown
    <3> QED
      BY <3>4, <3>8, <3>9
  <2> QED
    BY <2>2, <2>3
<1>7. Carried' /\ Committing' /\ Shown' /\ WalkSnapshot'
  BY <1>1, <1>2, <1>3, <1>6, OthersKeep DEF PCs, Calling, Reading
<1>8. IInv'
  BY WalkChunkInv DEF AInv
<1> QED
  BY <1>4, <1>5, <1>7, <1>8 DEF AInv

-----------------------------------------------------------------------------
(* Steps of a writer, alone with the lock                                   *)

LEMMA WriterStep ==
  ASSUME OneOpen, AInv, NEW t \in Threads, pc[t] \in Writing,
         NEW l \in {"unlock"} \cup Writing, Goto(t, l), l # "append.space",
         \A u \in Threads \ {t} : loc'[u] = loc[u],
         UNCHANGED locks,
         l \in Copying => \E r \in Records : Split(data, r, desc.write, loc[t].at, loc[t].buf)',
         l \in {"append.data", "append.offset"} => loc'[t].buf = <<>>,
         l = "append.offset" => \A i \in Start .. loc'[t].at - 1 : pdata'[i] = data'[i],
         l = "append.commit" =>
           pdesc' = desc' \/ \E r \in Records : Split(data, r, pdesc.write, desc.write, <<>>)',
         l = "rewind.commit" => desc'.write = Start
  PROVE  Exclusive' /\ Carried' /\ Committing' /\ Shown' /\ WalkSnapshot'
<1>1. pc'[t] = l /\ \A u \in Threads \ {t} : pc'[u] = pc[u]
  BY Types DEF AInv, Goto, PCs, Calling
<1>2. /\ writer[1] = t /\ readers[1] = {}
      /\ \A u \in Threads \ {t} : pc[u] \notin Writing \cup Reading \cup Opening
  BY WriterAlone
<1>3. Exclusive'
  BY <1>1, <1>2 DEF Exclusive, Writing, Reading, locks
<1>4. Carried'
  <2>1. ASSUME NEW u \in Threads \ {t} PROVE Carried!(u)'
    <3>1. pc'[u] \notin Writing /\ pc'[u] = pc[u] /\ loc'[u] = loc[u]
      BY <1>1, <1>2
    <3>2. pc'[u] = "append" => loc'[u].buf \in Records
      BY <3>1 DEF AInv, Carried
    <3> QED
      BY <3>1, <3>2 DEF Writing, Copying
  <2>2. Carried!(t)'
    BY <1>1 DEF Writing
  <2> QED
    BY <2>1, <2>2 DEF Carried
<1>5. Committing'
  BY <1>1, <1>2 DEF Committing, Writing
<1>6. Shown' /\ WalkSnapshot'
  BY <1>1, <1>2 DEF AInv, Shown, WalkSnapshot, Writing, Reading
<1> QED
  BY <1>3, <1>4, <1>5, <1>6

\* Between commits a writer finds the media as it left it.
LEMMA WriterSynced ==
  ASSUME OneOpen, AInv, NEW t \in Threads,
         pc[t] \in Writing \ {"append.commit", "rewind.commit"}
  PROVE  pdesc = desc
BY WriterAlone DEF AInv, DescSynced, Writing, Opening

\* Copying n more cells of buf moves them from one part to the other.
LEMMA SplitCopy ==
  ASSUME NEW write \in Nat, NEW at \in Nat, NEW buf \in Seq(Bytes), NEW n \in 1 .. Len(buf),
         NEW r, NEW d, NEW e, Split(d, r, write, at, buf),
         \A i \in write .. at - 1 : e[i] = d[i],
         \A i \in at .. at + n - 1 : e[i] = buf[i - at + 1]
  PROVE  Split(e, r, write, at + n, SubSeq(buf, n + 1, Len(buf)))
<1> DEFINE rest == SubSeq(buf, n + 1, Len(buf))
<1>1. /\ Len(buf) \in Nat /\ n \in Nat /\ n >= 1 /\ n <= Len(buf)
      /\ write <= at /\ Len(r) = at - write + Len(buf)
  BY DEF Split
<1>2. Len(rest) = Len(buf) - n /\ \A i \in 1 .. Len(rest) : rest[i] = buf[n + i]
  BY <1>1
<1> HIDE DEF rest
<1>3. write <= at + n /\ Len(r) = at + n - write + Len(rest)
  BY <1>1, <1>2
<1>4. ASSUME NEW i \in 1 .. at + n - write PROVE r[i] = e[write + i - 1]
  <2>1. CASE i <= at - write
    <3>1. i \in 1 .. at - write /\ write + i - 1 \in write .. at - 1
      BY <1>1, <2>1
    <3> QED
      BY <3>1 DEF Split
  <2>2. CASE ~(i <= at - write)
    <3>1. PICK j \in 1 .. Len(buf) : at - write + j = i
      <4>1. i - (at - write) \in 1 .. Len(buf) /\ at - write + (i - (at - write)) = i
        BY <1>1, <2>2
      <4> QED
        BY <4>1
    <3>2. PICK k \in at .. at + n - 1 : k = write + i - 1 /\ k - at + 1 = j
      BY <1>1, <2>2, <3>1
    <3>3. e[k] = buf[j]
      BY <3>2
    <3>4. buf[j] = r[i]
      BY <3>1 DEF Split
    <3> QED
      BY <3>2, <3>3, <3>4
  <2> QED
    BY <2>1, <2>2
<1>5. ASSUME NEW i \in 1 .. Len(rest) PROVE rest[i] = r[at + n - write + i]
  <2>1. n + i \in 1 .. Len(buf) /\ at - write + (n + i) = at + n - write + i
    BY <1>1, <1>2
  <2> QED
    BY <1>2, <2>1 DEF Split
<1>6. Split(e, r, write, at + n, rest)
  BY <1>3, <1>4, <1>5 DEF Split
<1> QED
  BY <1>6 DEF rest

LEMMA AppendCopyAInv ==
  ASSUME OneOpen, AInv, NEW t \in Threads, AppendCopy(t) PROVE AInv'
<1>1. /\ pc[t] = "append.copy" /\ pc[t] \in Writing
      /\ UNCHANGED <<hdr, phdr, desc, pdesc, pdata, locks, checked>>
  BY DEF AppendCopy, Writing
<1>2. pdesc = desc /\ DescOK(desc) /\ \A u \in Threads : pc[u] \notin Opening
  BY <1>1, WriterAlone, WriterSynced
<1>3. /\ loc[t] \in Local /\ loc[t].at \in Nat /\ loc[t].buf \in Seq(Bytes)
      /\ loc[t].at + Len(loc[t].buf) <= End /\ Start <= loc[t].at
      /\ desc.write \in Nat /\ Start <= desc.write
  BY <1>1, <1>2, OffsetsAssumption, Types DEF AInv, IInv, Inside, Local, Offsets, DescOK
<1>4. PICK r \in Records : Split(data, r, desc.write, loc[t].at, loc[t].buf)
  BY <1>1 DEF AInv, Carried, Copying
<1>5. /\ desc.write <= loc[t].at /\ r \in Seq(Bytes)
      /\ Len(r) = loc[t].at - desc.write + Len(loc[t].buf)
  BY <1>4, CellsAssumption DEF Split
<1>6. CASE loc[t].buf = <<>> /\ Goto(t, "append.data") /\ UNCHANGED <<data, loc>>
  <2>1. UNCHANGED file
    BY <1>1, <1>6 DEF file
  <2>2. Fresh' /\ DataSynced' /\ DescSynced'
    BY <1>1, <1>6, <2>1, QuietStep DEF PCs, Calling, Writing, Opening
  <2>3. Split(data, r, desc.write, loc[t].at, loc[t].buf)'
    BY <1>1, <1>4, <1>6 DEF Split
  <2>4. Exclusive' /\ Carried' /\ Committing' /\ Shown' /\ WalkSnapshot'
    BY <1>1, <1>6, <2>3, WriterStep DEF Writing
  <2> QED
    BY <2>2, <2>4, AppendCopyInv DEF AInv
<1>7. ASSUME NEW n \in 1 .. Len(loc[t].buf),
             data' = [i \in Cells |-> IF i \in loc[t].at .. loc[t].at + n - 1
                                        THEN loc[t].buf[i - loc[t].at + 1] ELSE data[i]],
             loc' = [loc EXCEPT ![t].at = loc[t].at + n,
                                ![t].buf = SubSeq(loc[t].buf, n + 1, Len(loc[t].buf))],
             pc' = pc
      PROVE  AInv'
  <2> DEFINE rest == SubSeq(loc[t].buf, n + 1, Len(loc[t].buf))
  <2>1. Len(loc[t].buf) \in Nat /\ n \in Nat /\ n >= 1 /\ n <= Len(loc[t].buf)
    BY <1>3
  <2>2. /\ rest \in Seq(Bytes) /\ Len(rest) = Len(loc[t].buf) - n
        /\ \A i \in 1 .. Len(rest) : rest[i] = loc[t].buf[n + i]
    BY <1>3, <2>1
  <2>3. loc'[t].at = loc[t].at + n /\ loc'[t].buf = rest
    BY <1>3, <1>7, Types DEF AInv, Local
  <2>4. /\ \A i \in Start .. loc[t].at - 1 : data'[i] = data[i]
        /\ \A i \in loc[t].at .. loc[t].at + n - 1 : data'[i] = loc[t].buf[i - loc[t].at + 1]
    <3>1. ASSUME NEW i \in Start .. loc[t].at - 1 PROVE data'[i] = data[i]
      <4>1. i \in Cells /\ i \notin loc[t].at .. loc[t].at + n - 1
        BY <1>3, <2>1, <3>1, OffsetsAssumption DEF Cells
      <4> QED
        BY <1>7, <4>1
    <3>2. ASSUME NEW i \in loc[t].at .. loc[t].at + n - 1
          PROVE  data'[i] = loc[t].buf[i - loc[t].at + 1]
      <4>1. i \in Cells
        BY <1>3, <2>1, <3>2, OffsetsAssumption DEF Cells
      <4> QED
        BY <1>7, <4>1
    <3> QED
      BY <3>1, <3>2
  <2>5. Goto(t, "append.copy") /\ \A u \in Threads \ {t} : loc'[u] = loc[u]
    BY <1>1, <1>7, Types DEF Goto, AInv
  <2>6. Split(data, r, desc.write, loc[t].at, loc[t].buf)'
    <3>1. \A i \in desc.write .. loc[t].at - 1 : data'[i] = data[i]
      <4>1. \A i \in desc.write .. loc[t].at - 1 : i \in Start .. loc[t].at - 1
        BY <1>3, OffsetsAssumption
      <4> QED
        BY <2>4, <4>1
    <3>2. Split(data', r, desc.write, loc[t].at + n, rest)
      <4> HIDE DEF rest
      <4> QED
        BY <1>3, <1>4, <2>4, <3>1, SplitCopy DEF rest
    <3> QED
      BY <1>1, <2>3, <3>2
  <2>7. Exclusive' /\ Carried' /\ Committing' /\ Shown' /\ WalkSnapshot'
    BY <1>1, <2>5, <2>6, WriterStep DEF Writing
  <2>8. Fresh'
    BY <1>1, <1>7 DEF AInv, Fresh
  <2>9. DataSynced'
    <3>1. \A i \in Start .. desc.write - 1 : data'[i] = data[i]
      BY <1>3, <1>5, <2>4
    <3> QED
      BY <1>1, <1>2, <3>1 DEF AInv, DataSynced
  <2>10. DescSynced'
    BY <1>1, <1>2 DEF DescSynced
  <2> QED
    BY <2>7, <2>8, <2>9, <2>10, AppendCopyInv DEF AInv
<1> QED
  BY <1>6, <1>7 DEF AppendCopy

LEMMA PersistDataAInv ==
  ASSUME OneOpen, AInv, NEW t \in Threads, PersistData(t) PROVE AInv'
<1> USE DEF PersistData
<1>1. /\ pc[t] = "append.data" /\ pc[t] \in Writing
      /\ UNCHANGED <<hdr, phdr, desc, pdesc, data, locks, loc, checked>>
  BY DEF Writing
<1>2. pdesc = desc
  BY <1>1, WriterSynced
<1>3. loc[t].at \in Offsets /\ desc.write \in Offsets /\ Start \in Nat /\ End \in Nat
  BY OffsetsAssumption, Types DEF AInv, Local, Desc
<1>4. \A i \in Start .. desc.write - 1 : pdata'[i] = data[i]
  <2> SUFFICES ASSUME NEW i \in Start .. desc.write - 1 PROVE pdata'[i] = data[i]
    OBVIOUS
  <2>1. i \in Cells
    BY <1>3 DEF Cells, Offsets
  <2>2. pdata[i] = data[i]
    BY DEF AInv, DataSynced
  <2> QED
    BY <2>1, <2>2
<1>5. \A i \in Start .. loc[t].at - 1 : pdata'[i] = data[i]
  <2> SUFFICES ASSUME NEW i \in Start .. loc[t].at - 1 PROVE pdata'[i] = data[i]
    OBVIOUS
  <2>1. i \in Cells
    BY <1>3 DEF Cells, Offsets
  <2>2. CASE i \in Start .. desc.write - 1
    BY <1>4, <2>2
  <2>3. CASE i \in desc.write .. loc[t].at - 1
    BY <2>1, <2>3
  <2> QED
    BY <1>3, <2>2, <2>3 DEF Offsets
<1>6. Exclusive' /\ Carried' /\ Committing' /\ Shown' /\ WalkSnapshot'
  <2>1. loc[t].buf = <<>>
    BY <1>1 DEF AInv, Carried
  <2>2. PICK r \in Records : Split(data, r, desc.write, loc[t].at, loc[t].buf)
    BY <1>1 DEF AInv, Carried, Copying
  <2>3. Split(data, r, desc.write, loc[t].at, loc[t].buf)'
    BY <1>1, <2>2 DEF Split
  <2> QED
    BY <1>1, <1>5, <2>1, <2>3, WriterStep DEF Writing
<1>7. Fresh' /\ DataSynced' /\ DescSynced'
  <2>1. pc'[t] = "append.offset" /\ \A u \in Threads \ {t} : pc'[u] = pc[u]
    BY Types DEF AInv, Goto
  <2>2. Fresh'
    BY <1>1, <2>1 DEF AInv, Fresh, Opening
  <2>3. DataSynced'
    BY <1>1, <1>2, <1>4 DEF DataSynced
  <2> QED
    BY <1>1, <1>2, <2>2, <2>3 DEF DescSynced
<1> QED
  BY <1>6, <1>7, PersistDataInv DEF AInv

LEMMA PersistOffsetAInv ==
  ASSUME OneOpen, AInv, NEW t \in Threads, PersistOffset(t) PROVE AInv'
<1> USE DEF PersistOffset, SetDesc
<1>1. /\ pc[t] = "append.offset" /\ pc[t] \in Writing /\ Goto(t, "append.commit")
      /\ UNCHANGED <<hdr, phdr, pdesc, data, pdata, locks, loc, checked>>
  BY DEF Writing
<1>2. pdesc = desc /\ phdr
  BY <1>1, WriterSynced, WriterAlone
<1>3. desc'.write = loc[t].at
  BY Types DEF AInv, Desc
<1>4. pc'[t] = "append.commit" /\ \A u \in Threads \ {t} : pc'[u] = pc[u]
  BY <1>1, Types DEF AInv, Goto
<1>5. Exclusive' /\ Carried' /\ Committing' /\ Shown' /\ WalkSnapshot'
  <2>1. loc[t].buf = <<>>
    BY <1>1 DEF AInv, Carried
  <2>2. PICK r \in Records : Split(data, r, desc.write, loc[t].at, loc[t].buf)
    BY <1>1 DEF AInv, Carried, Copying
  <2>3. Split(data, r, pdesc.write, desc.write, <<>>)'
    BY <1>1, <1>2, <1>3, <2>1, <2>2 DEF Split
  <2> QED
    BY <1>1, <2>3, WriterStep DEF Writing, Copying
<1>6. Fresh'
  BY <1>1, <1>2, <1>4, WriterAlone DEF Fresh, Opening
<1>7. DataSynced'
  <2>1. \A i \in Start .. loc[t].at - 1 : pdata[i] = data[i]
    BY <1>1 DEF AInv, Carried
  <2> QED
    BY <1>1, <1>3, <2>1 DEF AInv, DataSynced
<1>8. DescSynced'
  BY <1>4 DEF DescSynced
<1> QED
  BY <1>5, <1>6, <1>7, <1>8, StoresInv DEF AInv

LEMMA RewindStoreAInv ==
  ASSUME OneOpen, AInv, NEW t \in Threads, RewindStore(t) PROVE AInv'
<1> USE DEF RewindStore, SetDesc
<1>1. /\ pc[t] = "rewind.store" /\ pc[t] \in Writing /\ Goto(t, "rewind.commit")
      /\ UNCHANGED <<hdr, phdr, pdesc, data, pdata, locks, loc, checked>>
  BY DEF Writing
<1>2. phdr /\ desc.start = Start
  BY <1>1, WriterAlone DEF DescOK
<1>3. desc'.write = Start
  BY <1>2, Types DEF AInv, Desc
<1>4. pc'[t] = "rewind.commit" /\ \A u \in Threads \ {t} : pc'[u] = pc[u]
  BY <1>1, Types DEF AInv, Goto
<1>5. Exclusive' /\ Carried' /\ Committing' /\ Shown' /\ WalkSnapshot'
  BY <1>1, <1>3, WriterStep DEF Writing, Copying
<1>6. Fresh'
  BY <1>1, <1>2, <1>4, WriterAlone DEF Fresh, Opening
<1>7. DataSynced'
  BY <1>1, <1>3, OffsetsAssumption DEF AInv, DataSynced
<1>8. DescSynced'
  BY <1>4 DEF DescSynced
<1> QED
  BY <1>5, <1>6, <1>7, <1>8, StoresInv DEF AInv

LEMMA CommitAInv ==
  ASSUME OneOpen, AInv, NEW t \in Threads, AppendCommit(t) \/ RewindCommit(t) PROVE AInv'
<1>1. PICK here \in {"append.commit", "rewind.commit"} : Commit(t, here)
  BY DEF AppendCommit, RewindCommit
<1> USE DEF Commit
<1>2. /\ pc[t] \in Writing /\ Goto(t, "unlock") /\ pdesc' = desc
      /\ UNCHANGED <<hdr, phdr, desc, data, pdata, locks, loc, checked>>
  BY <1>1 DEF Writing
<1>3. phdr
  BY <1>2, WriterAlone
<1>4. pc'[t] = "unlock" /\ \A u \in Threads \ {t} : pc'[u] = pc[u]
  BY <1>2, Types DEF AInv, Goto
<1>5. Exclusive' /\ Carried' /\ Committing' /\ Shown' /\ WalkSnapshot'
  BY <1>2, WriterStep DEF Writing, Copying
<1>6. Fresh'
  BY <1>2, <1>3, <1>4, WriterAlone DEF Fresh, Opening
<1>7. DataSynced' /\ DescSynced'
  BY <1>2 DEF AInv, DataSynced, DescSynced
<1>8. IInv'
  BY <1>1, CommitInv DEF AInv, Writing
<1> QED
  BY <1>5, <1>6, <1>7, <1>8 DEF AInv

-----------------------------------------------------------------------------
(* Opening, closing, crashes and write-backs                                *)

LEMMA NobodyInCall ==
  ASSUME \A t \in Threads : pc'[t] \notin Calling
  PROVE  Exclusive' /\ Carried' /\ Committing' /\ Shown' /\ WalkSnapshot'
BY DEF Exclusive, Carried, Committing, Shown, WalkSnapshot, Calling, Writing, Reading, Asking,
   Copying

LEMMA OpenAInv ==
  ASSUME OneOpen, AInv, NEW t \in Threads, Open(t) PROVE AInv'
<1> USE DEF Open
<1>1. rwlockp = 0 /\ \A u \in Threads : pc[u] = "idle"
  <2>1. rwlockp \in 0 .. 1 /\ rwlockp < 1
    BY OneLock DEF AInv, IInv, TypeOK
  <2>2. rwlockp = 0
    BY <2>1
  <2> QED
    BY <2>2, Types DEF AInv, IInv, Sessions, PCs
<1>2. PICK l \in {"idle", "create.sync"} : Goto(t, l) /\ (l = "create.sync" => ~hdr)
  BY DEF Opened
<1>3. pc'[t] = l /\ \A u \in Threads \ {t} : pc'[u] = "idle"
  BY <1>1, <1>2, Types DEF AInv, Goto
<1>4. Exclusive' /\ Carried' /\ Committing' /\ Shown' /\ WalkSnapshot'
  BY <1>3, NobodyInCall DEF Calling, Writing, Reading, Asking
<1>5. UNCHANGED <<phdr, desc, pdesc, data, pdata>>
  OBVIOUS
<1>6. Fresh'
  BY <1>2, <1>3, <1>5 DEF AInv, IInv, Behind, Fresh, Opening
<1>7. DataSynced'
  BY <1>5 DEF AInv, DataSynced
<1>8. DescSynced'
  BY <1>1, <1>5 DEF AInv, DescSynced, DescOK
<1> QED
  BY <1>4, <1>6, <1>7, <1>8, OpenInv DEF AInv

\* While a pool is created nobody is in a call.
LEMMA CreatorAlone ==
  ASSUME AInv, NEW t \in Threads, pc[t] \in Opening, NEW l \in {"idle"} \cup Opening, Goto(t, l)
  PROVE  /\ pc'[t] = l /\ \A u \in Threads \ {t} : pc'[u] = "idle"
         /\ Exclusive' /\ Carried' /\ Committing' /\ Shown' /\ WalkSnapshot'
<1>1. pc'[t] = l /\ \A u \in Threads \ {t} : pc'[u] = "idle"
  BY CreatingAlone DEF AInv
<1>2. \A u \in Threads : pc'[u] \notin Calling
  BY <1>1 DEF Calling, Writing, Reading, Asking, Opening
<1> QED
  BY <1>1, <1>2, NobodyInCall

LEMMA CreateSyncAInv ==
  ASSUME OneOpen, AInv, NEW t \in Threads, CreateSync(t) PROVE AInv'
<1> USE DEF CreateSync
<1>1. /\ pc'[t] = "create.start" /\ \A u \in Threads \ {t} : pc'[u] = "idle"
      /\ Exclusive' /\ Carried' /\ Committing' /\ Shown' /\ WalkSnapshot'
  BY CreatorAlone DEF Opening
<1>2. desc.write = 0 /\ phdr'
  BY DEF AInv, Fresh, Opening, IInv, Sessions
<1>3. Fresh' /\ DataSynced'
  BY <1>1, <1>2 DEF AInv, Fresh, DataSynced, Opening
<1>4. DescSynced'
  BY <1>2, OffsetsAssumption DEF DescSynced, DescOK
<1> QED
  BY <1>1, <1>3, <1>4, CreateSyncInv DEF AInv

LEMMA CreateStoresAInv ==
  ASSUME OneOpen, AInv, NEW t \in Threads, CreateStart(t) \/ CreateEnd(t) \/ CreateWrite(t)
  PROVE  AInv'
<1> USE DEF CreateStart, CreateEnd, CreateWrite, SetDesc
<1>1. PICK l \in {"create.end", "create.write", "create.done"} :
        /\ Goto(t, l)
        /\ l = "create.done" => CreateWrite(t)
        /\ l # "create.done" => CreateStart(t) \/ CreateEnd(t)
  BY DEF CreateStart, CreateEnd, CreateWrite
<1>2. /\ pc'[t] = l /\ \A u \in Threads \ {t} : pc'[u] = "idle"
      /\ Exclusive' /\ Carried' /\ Committing' /\ Shown' /\ WalkSnapshot'
  BY <1>1, CreatorAlone DEF Opening
<1>3. desc.write = 0 /\ phdr
  BY DEF AInv, Fresh, Opening, IInv, Creation
<1>4. desc'.write = IF l = "create.done" THEN Start ELSE 0
  <2>1. CASE l = "create.done"
    BY <1>1, <2>1, Types DEF AInv, IInv, Creation, Desc
  <2>2. CASE l # "create.done"
    BY <1>1, <1>3, <2>2, Types DEF AInv, Desc
  <2> QED
    BY <2>1, <2>2
<1>5. UNCHANGED <<phdr, pdesc, data, pdata>>
  OBVIOUS
<1>6. Fresh'
  BY <1>2, <1>3, <1>4, <1>5 DEF Fresh, Opening
<1>7. DataSynced'
  BY <1>4, <1>5, OffsetsAssumption DEF AInv, DataSynced
<1>8. DescSynced'
  BY <1>2, <1>4, OffsetsAssumption DEF DescSynced, DescOK
<1> QED
  BY <1>2, <1>6, <1>7, <1>8, CreateStoresInv DEF AInv

LEMMA CreateDoneAInv ==
  ASSUME OneOpen, AInv, NEW t \in Threads, CreateDone(t) PROVE AInv'
<1> USE DEF CreateDone, Opened
<1>1. /\ pc'[t] = "idle" /\ \A u \in Threads \ {t} : pc'[u] = "idle"
      /\ Exclusive' /\ Carried' /\ Committing' /\ Shown' /\ WalkSnapshot'
  BY CreatorAlone DEF Opening
<1>2. phdr
  BY DEF AInv, IInv, Creation, Opening
<1>3. Fresh' /\ DataSynced' /\ DescSynced'
  BY <1>1, <1>2 DEF AInv, Fresh, DataSynced, DescSynced, Opening
<1> QED
  BY <1>1, <1>3, CreateDoneInv DEF AInv

LEMMA CloseCheckAInv ==
  ASSUME OneOpen, AInv, (\E t \in Threads : Close(t)) \/ Check PROVE AInv'
<1>1. UNCHANGED <<file, pc>> /\ \A t \in Threads : pc[t] = "idle"
  BY DEF Close, Check, Idle
<1>2. \A t \in Threads : pc'[t] \notin Calling
  BY <1>1 DEF Calling, Writing, Reading, Asking
<1>3. Exclusive' /\ Carried' /\ Committing' /\ Shown' /\ WalkSnapshot'
  BY <1>2, NobodyInCall
<1>4. Fresh' /\ DataSynced' /\ DescSynced'
  BY <1>1 DEF AInv, Fresh, DataSynced, DescSynced, DescOK, file
<1> QED
  BY <1>3, <1>4, CloseCheckInv DEF AInv

LEMMA CrashAInv ==
  ASSUME OneOpen, AInv, Exit \/ PowerFail PROVE AInv'
<1>1. \A t \in Threads : pc'[t] = "idle"
  BY DEF Exit, PowerFail, ProcessGone
<1>2. \A t \in Threads : pc'[t] \notin Calling
  BY <1>1 DEF Calling, Writing, Reading, Asking
<1>3. Exclusive' /\ Carried' /\ Committing' /\ Shown' /\ WalkSnapshot'
  BY <1>2, NobodyInCall
<1>4. CASE Exit
  <2>1. UNCHANGED file /\ \A t \in Threads : pc[t] \notin Opening \cup Writing
    BY <1>4 DEF Exit, OneOpen
  <2>2. Fresh' /\ DataSynced' /\ DescSynced'
    BY <1>1, <2>1 DEF AInv, Fresh, DataSynced, DescSynced, DescOK, file, Opening, Writing
  <2> QED
    BY <1>3, <1>4, <2>2, ExitInv DEF AInv
<1>5. CASE PowerFail
  <2>1. Fresh' /\ DataSynced' /\ DescSynced'
    BY <1>1, <1>5 DEF PowerFail, AInv, Fresh, DataSynced, DescSynced, Opening
  <2> QED
    BY <1>3, <1>5, <2>1, PowerFailInv DEF AInv
<1> QED
  BY <1>4, <1>5

LEMMA EvictAInv ==
  ASSUME OneOpen, AInv, Evict PROVE AInv'
<1>1. /\ UNCHANGED <<hdr, desc, data, writer, readers, pc, loc>>
      /\ phdr' \in {phdr, hdr} /\ pdesc' \in {pdesc, desc}
      /\ phdr => phdr'
  BY DEF Evict, locks, AInv, IInv, Behind
<1>2. \A i \in Cells : pdata'[i] \in {pdata[i], data[i]}
  BY Types DEF Evict, AInv
<1>3. \A i \in Cells : pdata[i] = data[i] => pdata'[i] = data[i]
  BY <1>2
<1>4. \A w \in Offsets : \A i \in Start .. w - 1 : i \in Cells
  BY OffsetsAssumption DEF Offsets, Cells
<1>5. desc.write \in Offsets /\ pdesc.write \in Offsets
  BY Types DEF AInv, Desc
<1>6. Exclusive' /\ Shown' /\ WalkSnapshot'
  BY <1>1 DEF AInv, Exclusive, Shown, WalkSnapshot
<1>7. Fresh'
  BY <1>1 DEF AInv, Fresh
<1>8. DataSynced'
  BY <1>1, <1>3, <1>4, <1>5 DEF AInv, DataSynced
<1>9. DescSynced'
  BY <1>1 DEF AInv, DescSynced, DescOK
<1>10. Carried'
  <2> SUFFICES ASSUME NEW t \in Threads PROVE Carried!(t)'
    BY DEF Carried
  <2>1. \A r, w, at, buf : Split(data, r, w, at, buf)' <=> Split(data, r, w, at, buf)
    BY <1>1 DEF Split
  <2>2. loc[t].at \in Offsets
    BY Types DEF AInv, Local
  <2>3. ASSUME pc'[t] = "append.offset", NEW i \in Start .. loc'[t].at - 1
        PROVE  pdata'[i] = data'[i]
    BY <1>1, <1>3, <1>4, <2>2, <2>3 DEF AInv, Carried
  <2> QED
    BY <1>1, <2>1, <2>3 DEF AInv, Carried
<1>11. Committing'
  <2> SUFFICES ASSUME NEW t \in Threads PROVE Committing!(t)'
    BY DEF Committing
  <2>1. CASE pdesc' = desc
    BY <1>1, <2>1 DEF AInv, Committing
  <2>2. CASE pdesc' = pdesc
    BY <1>1, <2>2 DEF AInv, Committing, Split
  <2> QED
    BY <1>1, <2>1, <2>2
<1> QED
  BY <1>6, <1>7, <1>8, <1>9, <1>10, <1>11, EvictInv DEF AInv

-----------------------------------------------------------------------------
LEMMA StepAInv == ASSUME OneOpen, AInv, [Next]_vars PROVE AInv'
<1>1. ASSUME NEW t \in Threads, Locked(t) PROVE AInv'
  BY <1>1, AppendSpaceAInv, AppendCopyAInv, PersistDataAInv, PersistOffsetAInv, RewindStoreAInv,
     CommitAInv, WalkChunkAInv, TellReadAInv, UnlockAInv DEF Locked
<1>2. ASSUME NEW t \in Threads,
             \/ Append1(t) \/ AppendLock(t) \/ Rewind(t) \/ RewindLock(t)
             \/ Walk(t) \/ WalkLock(t) \/ Tell(t) \/ TellLock(t)
      PROVE  AInv'
  BY <1>2, CallsAInv, WrLockAInv, RdLockAInv
<1>3. ASSUME NEW t \in Threads,
             \/ Open(t) \/ CreateSync(t) \/ CreateStart(t) \/ CreateEnd(t) \/ CreateWrite(t)
             \/ CreateDone(t)
      PROVE  AInv'
  BY <1>3, OpenAInv, CreateSyncAInv, CreateStoresAInv, CreateDoneAInv
<1>4. CASE (\E t \in Threads : Close(t)) \/ Check
  BY <1>4, CloseCheckAInv
<1>5. CASE Exit \/ PowerFail \/ Evict
  BY <1>5, CrashAInv, EvictAInv
<1>6. CASE UNCHANGED vars
  <2>1. IInv'
    BY StepInv DEF AInv
  <2>2. Exclusive' /\ Fresh' /\ DataSynced' /\ DescSynced' /\ Shown' /\ WalkSnapshot'
    BY <1>6 DEF vars, AInv, Exclusive, Fresh, DataSynced, DescSynced, DescOK, Shown, WalkSnapshot
  <2>3. Carried' /\ Committing'
    BY <1>6 DEF vars, AInv, Carried, Committing, Split
  <2> QED
    BY <2>1, <2>2, <2>3 DEF AInv
<1> QED
  BY <1>1, <1>2, <1>3, <1>4, <1>5, <1>6 DEF Next

LEMMA AInvHolds == ASSUME OneOpen PROVE Spec => []AInv
BY InitAInv, StepAInv, PTL DEF Spec

\* A walk that ends early or not, in one piece or chunk by chunk: no append and no
\* rewind changes the log behind its back (pmemlog_walk, log.c:531-570).
THEOREM WalkIsSnapshot == ASSUME OneOpen PROVE Spec => []WalkSnapshot
<1>1. AInv => WalkSnapshot
  BY DEF AInv
<1> QED
  BY AInvHolds, <1>1, PTL

\* When every call that writes has returned, a power failure loses nothing of the
\* log (pmemlog_persist, log.c:256-276).
THEOREM QuietLogIsDurable == ASSUME OneOpen PROVE Spec => []QuietIsDurable
<1>1. AInv => QuietIsDurable
  <2> SUFFICES ASSUME AInv, rwlockp # 0,
                      \A t \in Threads : pc[t] \notin Writing \cup {"unlock"} \cup Opening
               PROVE  pdesc = desc /\ \A i \in Start .. desc.write - 1 : pdata[i] = data[i]
    BY DEF QuietIsDurable
  <2>1. DescOK(desc)
    BY DEF AInv, IInv, Sessions
  <2> QED
    BY <2>1 DEF AInv, DataSynced, DescSynced, Writing, Opening
<1> QED
  BY AInvHolds, <1>1, PTL

-----------------------------------------------------------------------------
(* The log on the media implements the abstract log                         *)

Slice(d, a, b) == [i \in 1 .. b - a |-> d[a + i - 1]]

LEMMA SliceEqual ==
  ASSUME NEW a \in Nat, NEW b \in Nat, NEW d, NEW e, \A i \in a .. b - 1 : d[i] = e[i]
  PROVE  Slice(d, a, b) = Slice(e, a, b)
<1>1. ASSUME NEW i \in 1 .. b - a PROVE d[a + i - 1] = e[a + i - 1]
  <2>1. a + i - 1 \in a .. b - 1
    OBVIOUS
  <2> QED
    BY <2>1
<1> QED
  BY <1>1 DEF Slice

LEMMA SliceSeq ==
  ASSUME NEW a \in Nat, NEW b \in Nat, a <= b, NEW S, NEW d, \A i \in a .. b - 1 : d[i] \in S
  PROVE  Slice(d, a, b) \in Seq(S) /\ Len(Slice(d, a, b)) = b - a
<1>1. ASSUME NEW i \in 1 .. b - a PROVE d[a + i - 1] \in S
  <2>1. a + i - 1 \in a .. b - 1
    OBVIOUS
  <2> QED
    BY <2>1
<1>2. b - a \in Nat
  OBVIOUS
<1> QED
  BY <1>1, <1>2 DEF Slice

\* The log up to w, and a whole record r from there to b.
LEMMA SliceAppend ==
  ASSUME NEW a \in Nat, NEW w \in Nat, NEW b \in Nat, a <= w, w <= b,
         NEW S, NEW d, \A i \in a .. b - 1 : d[i] \in S,
         NEW r \in Seq(S), Split(d, r, w, b, <<>>)
  PROVE  Slice(d, a, b) = Slice(d, a, w) \o r /\ Len(r) = b - w
<1>1. Len(r) = b - w /\ \A i \in 1 .. b - w : r[i] = d[w + i - 1]
  BY DEF Split
<1> DEFINE s == Slice(d, a, b)
<1> DEFINE p == Slice(d, a, w)
<1>2. /\ s \in Seq(S) /\ Len(s) = b - a
      /\ p \in Seq(S) /\ Len(p) = w - a
  <2>1. \A i \in a .. w - 1 : d[i] \in S
    OBVIOUS
  <2> QED
    BY <2>1, SliceSeq
<1>3. ASSUME NEW i \in 1 .. b - a PROVE s[i] = d[a + i - 1]
  BY DEF Slice
<1>4. ASSUME NEW i \in 1 .. w - a PROVE p[i] = d[a + i - 1]
  BY DEF Slice
<1> HIDE DEF s, p
<1>5. p \o r \in Seq(S) /\ Len(p \o r) = b - a
  <2>1. p \o r \in Seq(S) /\ Len(p \o r) = Len(p) + Len(r)
    BY <1>2, ConcatProperties
  <2> QED
    BY <1>1, <1>2, <2>1
<1>6. ASSUME NEW i \in 1 .. b - a PROVE (p \o r)[i] = s[i]
  <2>1. CASE i <= w - a
    <3>1. (p \o r)[i] = p[i]
      BY <1>1, <1>2, <2>1, ConcatProperties
    <3> QED
      BY <1>3, <1>4, <2>1, <3>1
  <2>2. CASE ~(i <= w - a)
    <3>1. (p \o r)[i] = r[i - (w - a)]
      BY <1>1, <1>2, <2>2, ConcatProperties
    <3>2. PICK j \in 1 .. b - w : j = i - (w - a) /\ w + j - 1 = a + i - 1
      BY <2>2
    <3>3. r[j] = d[w + j - 1]
      BY <1>1
    <3> QED
      BY <1>3, <3>1, <3>2, <3>3
  <2> QED
    BY <2>1, <2>2
<1>7. s = p \o r
  BY <1>2, <1>5, <1>6, SeqEqual
<1> QED
  BY <1>1, <1>7 DEF s, p

\* Every cell that reaches the media comes from the cache.
LEMMA CellWriteBacks ==
  ASSUME IInv, [Next]_vars PROVE \A i \in Cells : pdata'[i] \in {pdata[i], data[i]}
<1>1. ASSUME NEW t \in Threads, PersistData(t)
      PROVE  \A i \in Cells : pdata'[i] \in {pdata[i], data[i]}
  BY <1>1 DEF PersistData
<1>2. ASSUME NEW t \in Threads, Locked(t), ~PersistData(t) PROVE UNCHANGED pdata
  BY <1>2 DEF Locked, AppendSpace, AppendCopy, PersistOffset, AppendCommit, RewindStore,
     RewindCommit, WalkChunk, TellRead, Unlock, SetDesc, Commit, file
<1>3. ASSUME NEW t \in Threads,
             \/ Append1(t) \/ AppendLock(t) \/ Rewind(t) \/ RewindLock(t)
             \/ Walk(t) \/ WalkLock(t) \/ Tell(t) \/ TellLock(t)
      PROVE  UNCHANGED pdata
  BY <1>3 DEF Append1, AppendLock, Rewind, RewindLock, Walk, WalkLock, Tell, TellLock, Call,
     WrLock, file
<1>4. ASSUME NEW t \in Threads,
             \/ Open(t) \/ CreateSync(t) \/ CreateStart(t) \/ CreateEnd(t) \/ CreateWrite(t)
             \/ CreateDone(t) \/ Close(t)
      PROVE  UNCHANGED pdata
  BY <1>4 DEF Open, CreateSync, CreateStart, CreateEnd, CreateWrite, CreateDone, Close, SetDesc,
     file
<1>5. CASE Check \/ Exit \/ PowerFail
  BY <1>5 DEF Check, Exit, PowerFail, file
<1>6. CASE Evict
  BY <1>6, Types DEF Evict
<1>7. CASE UNCHANGED vars
  BY <1>7 DEF vars
<1> QED
  BY <1>1, <1>2, <1>3, <1>4, <1>5, <1>6, <1>7 DEF Next

LEMMA DurableSlice == DurableLog = IF Openable THEN Slice(pdata, Start, pdesc.write) ELSE <<>>
BY DEF DurableLog, Slice

LEMMA StepRefines ==
  ASSUME OneOpen, AInv, [Next]_vars PROVE [AL!Next]_DurableLog
<1>1. /\ phdr' \in {phdr, hdr} /\ pdesc' \in {pdesc, desc}
      /\ \A i \in Cells : pdata'[i] \in {pdata[i], data[i]}
  BY WriteBacks, CellWriteBacks DEF AInv
<1>2. /\ Start \in Nat /\ Start >= 1 /\ End \in Nat /\ Start <= End
      /\ desc.write \in Nat /\ desc.write <= End /\ pdesc.write \in Nat /\ pdesc.write <= End
  BY OffsetsAssumption, Types DEF AInv, Desc, Offsets
<1>3. /\ \A i \in Start .. pdesc.write - 1 : pdata[i] = data[i]
      /\ \A i \in Start .. pdesc.write - 1 : pdata'[i] = pdata[i]
      /\ \A i \in Start .. desc.write - 1 : pdata'[i] = data[i]
  BY <1>1, <1>2 DEF AInv, DataSynced, Cells
<1>4. DurableLog' = IF Openable' THEN Slice(pdata', Start, pdesc'.write) ELSE <<>>
  BY DurableSlice DEF DurableLog, Slice
<1>5. CASE ~phdr
  <2>1. ~DescOK(desc) /\ ~DescOK(pdesc)
    BY <1>2, <1>5 DEF AInv, Fresh, DescOK
  <2>2. ~Openable /\ ~Openable'
    BY <1>1, <2>1 DEF Openable, DescOK
  <2> QED
    BY <1>4, <2>2, DurableSlice
<1>6. CASE phdr /\ pdesc' = pdesc
  <2>1. phdr' = TRUE
    BY <1>1, <1>6 DEF AInv, IInv, Behind, TypeOK
  <2>2. Openable' <=> Openable
    BY <1>6, <2>1 DEF Openable, DescOK
  <2>3. Slice(pdata', Start, pdesc.write) = Slice(pdata, Start, pdesc.write)
    <3>1. Start \in Nat /\ pdesc.write \in Nat
      BY <1>2
    <3>2. \A i \in Start .. pdesc.write - 1 : pdata'[i] = pdata[i]
      BY <1>3
    <3> QED
      BY <3>1, <3>2, SliceEqual, ZenonT(60)
  <2> QED
    BY <1>4, <1>6, <2>2, <2>3, DurableSlice
<1>7. CASE phdr /\ pdesc' = desc /\ pdesc # desc
  <2>1. CASE ~DescOK(desc)
    <3>1. ~Openable /\ ~Openable'
      BY <1>7, <2>1 DEF Openable, DescOK, AInv, IInv, Behind
    <3> QED
      BY <1>4, <3>1, DurableSlice
  <2>2. CASE DescOK(desc)
    <3>1. Openable'
      <4>1. phdr' = TRUE
        BY <1>1, <1>7 DEF AInv, IInv, Behind, TypeOK
      <4> QED
        BY <1>7, <2>2, <4>1 DEF Openable, DescOK
    <3>2. DurableLog' = Slice(data, Start, desc.write)
      <4>1. Slice(pdata', Start, desc.write) = Slice(data, Start, desc.write)
        <5>1. Start \in Nat /\ desc.write \in Nat
          BY <1>2
        <5>2. \A i \in Start .. desc.write - 1 : pdata'[i] = data[i]
          BY <1>3
        <5> QED
          BY <5>1, <5>2, SliceEqual, ZenonT(60)
      <4> QED
        BY <1>4, <1>7, <3>1, <4>1
    <3>3. CASE desc.write = Start
      <4>1. Slice(data, Start, Start) = <<>>
        BY <1>2 DEF Slice
      <4> QED
        BY <3>2, <3>3, <4>1 DEF AL!Next, AL!Rewind
    <3>4. CASE \E t \in Threads : pc[t] = "append.commit"
      <4>1. PICK t \in Threads : pc[t] = "append.commit"
        BY <3>4
      <4>2. PICK r \in Records : Split(data, r, pdesc.write, desc.write, <<>>)
        BY <1>7, <4>1 DEF AInv, Committing
      <4>3. Openable
        BY <2>2, <4>1, WriterAlone DEF OneOpen, AInv, IInv, Accepted, Writing, Opening
      <4>4. DurableLog = Slice(data, Start, pdesc.write)
        <5>1. Slice(pdata, Start, pdesc.write) = Slice(data, Start, pdesc.write)
          <6>1. Start \in Nat /\ pdesc.write \in Nat
            BY <1>2
          <6>2. \A i \in Start .. pdesc.write - 1 : pdata[i] = data[i]
            BY <1>3
          <6> QED
            BY <6>1, <6>2, SliceEqual, ZenonT(60)
        <5> QED
          BY <4>3, <5>1, DurableSlice
      <4>5. Start <= pdesc.write /\ pdesc.write <= desc.write
        BY <4>2, <4>3 DEF Openable, DescOK, Split
      <4>6. \A i \in Start .. desc.write - 1 : data[i] \in Bytes \cup {Zero}
        BY <1>2, Types DEF AInv, Cells
      <4>7. r \in Seq(Bytes \cup {Zero})
        BY CellsAssumption
      <4>8. /\ Slice(data, Start, desc.write) = Slice(data, Start, pdesc.write) \o r
            /\ Len(r) = desc.write - pdesc.write
        <5>1. PICK a \in Nat, w \in Nat, b \in Nat :
                a = Start /\ w = pdesc.write /\ b = desc.write
          BY <1>2
        <5>2. a <= w /\ w <= b /\ \A i \in a .. b - 1 : data[i] \in Bytes \cup {Zero}
          BY <4>5, <4>6, <5>1
        <5>3. Split(data, r, w, b, <<>>)
          BY <4>2, <5>1
        <5>4. Slice(data, a, b) = Slice(data, a, w) \o r /\ Len(r) = b - w
          BY SMTT(30), <4>7, <5>2, <5>3, SliceAppend
        <5> QED
          BY <5>1, <5>4
      <4>9. Len(Slice(data, Start, pdesc.write)) = pdesc.write - Start
        <5>1. \A i \in Start .. pdesc.write - 1 : data[i] \in Bytes \cup {Zero}
          BY <1>2, <4>5, <4>6
        <5>2. Start \in Nat /\ pdesc.write \in Nat
          BY <1>2
        <5> QED
          BY <4>5, <5>1, <5>2, SliceSeq, Zenon
      <4>10. Len(DurableLog) + Len(r) <= End - Start
        BY <1>2, <4>4, <4>8, <4>9
      <4>11. AL!Append1(r)
        BY <3>2, <4>4, <4>8, <4>10 DEF AL!Append1
      <4> QED
        BY <4>11 DEF AL!Next
    <3>5. \E t \in Threads : pc[t] \in {"create.done", "append.commit", "rewind.commit"}
      BY <1>7, <2>2 DEF AInv, DescSynced
    <3>6. ASSUME NEW t \in Threads, pc[t] \in {"create.done", "rewind.commit"}
          PROVE  desc.write = Start
      BY <3>6 DEF AInv, IInv, Creation, Committing
    <3> QED
      BY <3>3, <3>4, <3>5, <3>6
  <2> QED
    BY <2>1, <2>2
<1> QED
  BY <1>1, <1>5, <1>6, <1>7

\* On the media the log only ever grows by a whole record of one call, or is
\* emptied, at whatever step the power fails and in whatever order cache lines are
\* written back (pmemlog_append, pmemlog_appendv, pmemlog_rewind, log.c:285-505).
THEOREM LogIsAtomic == ASSUME OneOpen PROVE Spec => AtomicLog
<1>1. Init => AL!Init
  BY DEF Init, AL!Init, DurableLog, Openable
<1> QED
  BY <1>1, AInvHolds, StepRefines, PTL DEF Spec, AtomicLog, AL!Spec
================================================================================
