-------------------------------- MODULE PmemLog --------------------------------
(***************************************************************************)
(* The append-only log of libpmem/log.c: one process, several threads, the   *)
(* pool file they share and the crashes in between.                         *)
(*                                                                         *)
(* The pool is the pool header (one flag: does its checksum verify), the      *)
(* descriptor (three offsets in one cache line) and the log space, a sequence *)
(* of cells that reach the media one by one.  hdr, desc and data are what the *)
(* processor sees, phdr, pdesc and pdata what is on the media.               *)
(***************************************************************************)
EXTENDS Integers, Sequences

CONSTANTS
  Threads,
  Nobody,      \* no thread
  Bytes,       \* contents of a cell
  Zero,        \* a cell of the file as it was created
  Records,     \* the records a caller appends
  Chunks,      \* chunk sizes a caller walks with, 0 for "all at once"
  Start,       \* roundup(sizeof (*plp), LOG_FORMAT_DATA_ALIGN), in cells
  End,         \* the size of the pool file, in cells
  MaxOpens,    \* bound on the times a process opens the pool
  Kills        \* TRUE: a process may be killed while it writes

ASSUME ThreadsAssumption == Nobody \notin Threads
ASSUME CellsAssumption == Zero \notin Bytes /\ Records \subseteq Seq(Bytes)
ASSUME OffsetsAssumption ==
  /\ Start \in Nat \ {0} /\ End \in Nat /\ Start <= End
  /\ Chunks \subseteq Nat
  /\ MaxOpens \in Nat \ {0} /\ Kills \in BOOLEAN

VARIABLES
  hdr, phdr,       \* TRUE: a valid pool header
  desc, pdesc,     \* start_offset, end_offset, write_offset
  data, pdata,     \* the cells of the log space
  rwlockp,         \* plp->rwlockp, 0 while the pool is not open
  writer, readers, \* who holds each rwlock
  pc, loc,         \* where each thread is, and its locals
  checked          \* what pmemlog_pool_check last returned

file  == <<hdr, phdr, desc, pdesc, data, pdata>>
locks == <<rwlockp, writer, readers>>
vars  == <<hdr, phdr, desc, pdesc, data, pdata, rwlockp, writer, readers, pc, loc, checked>>

Offsets == 0 .. End
Cells   == Start .. End - 1
Locks   == 1 .. MaxOpens
Desc    == [start : Offsets, end : Offsets, write : Offsets]
NoDesc  == [start |-> 0, end |-> 0, write |-> 0]

Opening  == {"create.sync", "create.start", "create.end", "create.write", "create.done"}
Writing  == {"append.space", "append.copy", "append.data", "append.offset", "append.commit",
             "rewind.store", "rewind.commit"}
Reading  == {"walk", "tell"}
Asking   == {"append", "rewind", "walk.lock", "tell.lock"}

\* buf: what is still to copy.  at: the local write_offset or data_offset.  upto:
\* the write_offset a walk has read.  got: what a walk has shown its callback.
Local == [buf : Seq(Bytes), at : Offsets, upto : Offsets, chunk : Chunks \cup {0},
          got : Seq(Bytes \cup {Zero})]
NoLocal == [buf |-> <<>>, at |-> 0, upto |-> 0, chunk |-> 0, got |-> <<>>]

DescOK(d) == d.start = Start /\ d.end = End /\ d.write \in Start .. End

Idle == \A t \in Threads : pc[t] = "idle"

Goto(t, l) == pc' = [pc EXCEPT ![t] = l]
Done(t)    == Goto(t, "idle") /\ loc' = [loc EXCEPT ![t] = NoLocal]

-----------------------------------------------------------------------------
(* pmemlog_pool_open.  Opens of one pool do not overlap.                     *)

\* The rwlock is allocated in the process, its address stored in the mapped pool.
Opened(t) ==
  /\ rwlockp' = rwlockp + 1
  /\ Goto(t, "idle")

\* A valid header with offsets out of place makes the open fail, with no effect.
Open(t) ==
  /\ pc[t] = "idle"
  /\ \A u \in Threads : pc[u] \notin Opening
  /\ rwlockp < MaxOpens
  /\ \/ /\ hdr /\ DescOK(desc)
        /\ Opened(t)
        /\ UNCHANGED hdr
     \/ /\ ~hdr
        /\ hdr' = TRUE
        /\ Goto(t, "create.sync")
        /\ UNCHANGED rwlockp
  /\ UNCHANGED <<phdr, desc, pdesc, data, pdata, writer, readers, loc, checked>>

CreateSync(t) ==
  /\ pc[t] = "create.sync"
  /\ phdr' = hdr
  /\ Goto(t, "create.start")
  /\ UNCHANGED <<hdr, desc, pdesc, data, pdata, locks, loc, checked>>

SetDesc(t, here, d, next) ==
  /\ pc[t] = here
  /\ desc' = d
  /\ Goto(t, next)
  /\ UNCHANGED <<hdr, phdr, pdesc, data, pdata, locks, loc, checked>>

CreateStart(t) == SetDesc(t, "create.start", [desc EXCEPT !.start = Start], "create.end")
CreateEnd(t)   == SetDesc(t, "create.end", [desc EXCEPT !.end = End], "create.write")
CreateWrite(t) == SetDesc(t, "create.write", [desc EXCEPT !.write = desc.start], "create.done")

\* Mutant: the offsets of a new pool are not synced.
CreateDoneUnsynced(t) ==
  /\ pc[t] = "create.done"
  /\ Opened(t)
  /\ UNCHANGED <<file, writer, readers, loc, checked>>

CreateDone(t) ==
  /\ pc[t] = "create.done"
  /\ pdesc' = desc
  /\ Opened(t)
  /\ UNCHANGED <<hdr, phdr, desc, data, pdata, writer, readers, loc, checked>>

Close(t) ==
  /\ rwlockp # 0 /\ Idle
  /\ rwlockp' = 0
  /\ UNCHANGED <<file, writer, readers, pc, loc, checked>>

\* pmemlog_pool_check opens the pool read-only; it then tests the offsets that
\* the open has already tested.
Check ==
  /\ rwlockp = 0 /\ Idle
  /\ checked' = IF hdr /\ DescOK(desc) THEN 1 ELSE -1
  /\ UNCHANGED <<file, locks, pc, loc>>

-----------------------------------------------------------------------------
(* The rwlock                                                               *)

Free(l) == writer[l] = Nobody /\ readers[l] = {}

\* Mutant: a writer does not wait for the readers.
WrLockOverReaders(t, here, next) ==
  /\ pc[t] = here
  /\ writer[rwlockp] = Nobody
  /\ writer' = [writer EXCEPT ![rwlockp] = t]
  /\ Goto(t, next)
  /\ UNCHANGED <<file, rwlockp, readers, loc, checked>>

WrLock(t, here, next) ==
  /\ pc[t] = here
  /\ Free(rwlockp)
  /\ writer' = [writer EXCEPT ![rwlockp] = t]
  /\ Goto(t, next)
  /\ UNCHANGED <<file, rwlockp, readers, loc, checked>>

RdLock(t, here, next) ==
  /\ pc[t] = here
  /\ writer[rwlockp] = Nobody
  /\ readers' = [readers EXCEPT ![rwlockp] = @ \cup {t}]
  /\ Goto(t, next)

\* The lock released is the one plp->rwlockp names at that moment.
Unlock(t) ==
  /\ pc[t] = "unlock"
  /\ writer' = [writer EXCEPT ![rwlockp] = IF @ = t THEN Nobody ELSE @]
  /\ readers' = [readers EXCEPT ![rwlockp] = @ \ {t}]
  /\ Done(t)
  /\ UNCHANGED <<file, rwlockp, checked>>

-----------------------------------------------------------------------------
(* pmemlog_append, pmemlog_appendv and pmemlog_persist.  The pieces a copy    *)
(* loop takes are the iovecs of appendv, and the single buffer of append.    *)

Call(t, next, l) ==
  /\ pc[t] = "idle" /\ rwlockp # 0
  /\ \A u \in Threads : pc[u] \notin Opening
  /\ Goto(t, next)
  /\ loc' = [loc EXCEPT ![t] = l]
  /\ UNCHANGED <<file, locks, checked>>

Append1(t) == \E r \in Records : Call(t, "append", [NoLocal EXCEPT !.buf = r])

AppendLock(t) == WrLock(t, "append", "append.space")

\* Mutants: room for one cell too many; an early return that keeps the lock.
AppendSpaceOver(t) ==
  /\ pc[t] = "append.space"
  /\ LET full == Len(loc[t].buf) > desc.end - desc.write + 1
     IN /\ Goto(t, IF full THEN "unlock" ELSE "append.copy")
        /\ loc' = [loc EXCEPT ![t].at = desc.write]
  /\ UNCHANGED <<file, locks, checked>>

AppendSpaceReturns(t) ==
  /\ pc[t] = "append.space"
  /\ LET full == desc.write >= desc.end \/ Len(loc[t].buf) > desc.end - desc.write
     IN /\ Goto(t, IF full THEN "idle" ELSE "append.copy")
        /\ loc' = [loc EXCEPT ![t].at = desc.write]
  /\ UNCHANGED <<file, locks, checked>>

AppendSpace(t) ==
  /\ pc[t] = "append.space"
  /\ LET full == desc.write >= desc.end \/ Len(loc[t].buf) > desc.end - desc.write
     IN /\ Goto(t, IF full THEN "unlock" ELSE "append.copy")
        /\ loc' = [loc EXCEPT ![t].at = desc.write]
  /\ UNCHANGED <<file, locks, checked>>

AppendCopy(t) ==
  /\ pc[t] = "append.copy"
  /\ LET l == loc[t] IN
       \/ \E n \in 1 .. Len(l.buf) :
            /\ data' = [i \in Cells |-> IF i \in l.at .. l.at + n - 1
                                          THEN l.buf[i - l.at + 1] ELSE data[i]]
            /\ loc' = [loc EXCEPT ![t].at = l.at + n,
                                  ![t].buf = SubSeq(l.buf, n + 1, Len(l.buf))]
            /\ pc' = pc
       \/ /\ l.buf = <<>>
          /\ Goto(t, "append.data")
          /\ UNCHANGED <<data, loc>>
  /\ UNCHANGED <<hdr, phdr, desc, pdesc, pdata, locks, checked>>

\* Mutant: the metadata is written before the data is persisted.
PersistNoData(t) ==
  /\ pc[t] = "append.data"
  /\ Goto(t, "append.offset")
  /\ UNCHANGED <<file, locks, loc, checked>>

PersistData(t) ==
  /\ pc[t] = "append.data"
  /\ pdata' = [i \in Cells |-> IF i \in desc.write .. loc[t].at - 1 THEN data[i] ELSE pdata[i]]
  /\ Goto(t, "append.offset")
  /\ UNCHANGED <<hdr, phdr, desc, pdesc, data, locks, loc, checked>>

PersistOffset(t) ==
  SetDesc(t, "append.offset", [desc EXCEPT !.write = loc[t].at], "append.commit")

\* Mutant: the new write offset is not persisted.
CommitNothing(t, here) ==
  /\ pc[t] = here
  /\ Goto(t, "unlock")
  /\ UNCHANGED <<file, locks, loc, checked>>

Commit(t, here) ==
  /\ pc[t] = here
  /\ pdesc' = desc
  /\ Goto(t, "unlock")
  /\ UNCHANGED <<hdr, phdr, desc, data, pdata, locks, loc, checked>>

AppendCommit(t) == Commit(t, "append.commit")

-----------------------------------------------------------------------------
(* pmemlog_rewind                                                           *)

Rewind(t)       == Call(t, "rewind", NoLocal)
RewindLock(t)   == WrLock(t, "rewind", "rewind.store")
RewindStore(t)  == SetDesc(t, "rewind.store", [desc EXCEPT !.write = desc.start], "rewind.commit")
RewindCommit(t) == Commit(t, "rewind.commit")

-----------------------------------------------------------------------------
(* pmemlog_walk, and pmemlog_tell for the calls that only read the offsets   *)

Walk(t) == \E c \in Chunks : Call(t, "walk.lock", [NoLocal EXCEPT !.chunk = c])

WalkLock(t) ==
  /\ RdLock(t, "walk.lock", "walk")
  /\ loc' = [loc EXCEPT ![t].at = desc.start, ![t].upto = desc.write]
  /\ UNCHANGED <<file, rwlockp, writer, checked>>

\* One call of process_chunk, which may return 0 to end the walk.
WalkChunk(t) ==
  /\ pc[t] = "walk"
  /\ LET l == loc[t]
         left == l.upto - l.at
         len == IF l.chunk = 0 \/ left < l.chunk THEN left ELSE l.chunk
     IN IF left > 0
          THEN /\ loc' = [loc EXCEPT ![t].got = @ \o [i \in 1 .. len |-> data[l.at + i - 1]],
                                     ![t].at = l.at + len]
               /\ \E next \in {"walk", "unlock"} : Goto(t, next)
          ELSE Goto(t, "unlock") /\ UNCHANGED loc
  /\ UNCHANGED <<file, locks, checked>>

Tell(t) == Call(t, "tell.lock", NoLocal)

TellLock(t) ==
  /\ RdLock(t, "tell.lock", "tell")
  /\ UNCHANGED <<file, rwlockp, writer, loc, checked>>

TellRead(t) ==
  /\ pc[t] = "tell"
  /\ Goto(t, "unlock")
  /\ UNCHANGED <<file, locks, loc, checked>>

-----------------------------------------------------------------------------
(* Crashes and write-backs                                                  *)

ProcessGone ==
  /\ rwlockp' = 0
  /\ writer' = [l \in Locks |-> Nobody] /\ readers' = [l \in Locks |-> {}]
  /\ pc' = [t \in Threads |-> "idle"] /\ loc' = [t \in Threads |-> NoLocal]
  /\ checked' = 0

\* The process ends or is killed: what it stored stays in the cache.
Exit ==
  /\ Kills \/ \A t \in Threads : pc[t] \notin Opening \cup Writing
  /\ ProcessGone
  /\ UNCHANGED file

PowerFail ==
  /\ ProcessGone
  /\ hdr' = phdr /\ desc' = pdesc /\ data' = pdata
  /\ UNCHANGED <<phdr, pdesc, pdata>>

Evict ==
  /\ \/ phdr' = hdr /\ UNCHANGED <<pdesc, pdata>>
     \/ pdesc' = desc /\ UNCHANGED <<phdr, pdata>>
     \/ /\ \E i \in Cells : pdata' = [pdata EXCEPT ![i] = data[i]]
        /\ UNCHANGED <<phdr, pdesc>>
  /\ UNCHANGED <<hdr, desc, data, locks, pc, loc, checked>>

-----------------------------------------------------------------------------
Init ==
  /\ hdr = FALSE /\ phdr = FALSE
  /\ desc = NoDesc /\ pdesc = NoDesc
  /\ data = [i \in Cells |-> Zero] /\ pdata = data
  /\ rwlockp = 0
  /\ writer = [l \in Locks |-> Nobody] /\ readers = [l \in Locks |-> {}]
  /\ pc = [t \in Threads |-> "idle"] /\ loc = [t \in Threads |-> NoLocal]
  /\ checked = 0

\* Steps a thread takes while it waits for nobody.
Locked(t) ==
  \/ AppendSpace(t) \/ AppendCopy(t) \/ PersistData(t) \/ PersistOffset(t) \/ AppendCommit(t)
  \/ RewindStore(t) \/ RewindCommit(t)
  \/ WalkChunk(t) \/ TellRead(t) \/ Unlock(t)

Next ==
  \/ \E t \in Threads :
       \/ Open(t) \/ CreateSync(t) \/ CreateStart(t) \/ CreateEnd(t) \/ CreateWrite(t)
       \/ CreateDone(t) \/ Close(t)
       \/ Append1(t) \/ AppendLock(t) \/ Rewind(t) \/ RewindLock(t)
       \/ Walk(t) \/ WalkLock(t) \/ Tell(t) \/ TellLock(t)
       \/ Locked(t)
  \/ Check \/ Exit \/ PowerFail \/ Evict

Spec == Init /\ [][Next]_vars

\* A thread that holds the lock keeps running.
FairSpec == Spec /\ \A t \in Threads : WF_vars(Locked(t))

-----------------------------------------------------------------------------
TypeOK ==
  /\ hdr \in BOOLEAN /\ phdr \in BOOLEAN
  /\ desc \in Desc /\ pdesc \in Desc
  /\ data \in [Cells -> Bytes \cup {Zero}] /\ pdata \in [Cells -> Bytes \cup {Zero}]
  /\ rwlockp \in 0 .. MaxOpens
  /\ writer \in [Locks -> Threads \cup {Nobody}] /\ readers \in [Locks -> SUBSET Threads]
  /\ pc \in [Threads -> {"idle", "unlock"} \cup Opening \cup Writing \cup Reading \cup Asking]
  /\ loc \in [Threads -> Local]
  /\ checked \in {-1, 0, 1}

\* The pool on the media is one that pmemlog_pool_open accepts.
Openable == phdr /\ DescOK(pdesc)

\* A pool that could be opened still can be, whatever is killed and fails when.
StaysOpenable == [][Openable => Openable']_vars

\* Once pmemlog_pool_open has returned, no crash makes the pool one that a later
\* pmemlog_pool_open refuses (wrong offsets, log.c:126-142) or sets up anew.
OnceOpenable == rwlockp # 0 => Openable

\* As long as it walks, a reader has been shown exactly what the log now holds
\* from its beginning: nobody changes "the data behind our back" (log.c:537-541).
WalkSnapshot ==
  \A t \in Threads :
    pc[t] = "walk" => loc[t].got = [i \in 1 .. loc[t].at - Start |-> data[Start + i - 1]]

\* While no thread is inside a writing call, the media holds the offsets and the
\* data of the log: an append that has returned survives a power failure.
QuietIsDurable ==
  rwlockp # 0 /\ (\A t \in Threads : pc[t] \notin Writing \cup {"unlock"} \cup Opening) =>
    /\ pdesc = desc
    /\ \A i \in Start .. desc.write - 1 : pdata[i] = data[i]

\* The log a process would find after a power failure.
DurableLog ==
  IF Openable THEN [i \in 1 .. pdesc.write - Start |-> pdata[Start + i - 1]] ELSE <<>>

AL == INSTANCE AppendLog WITH log <- DurableLog, Space <- End - Start

\* What a power failure would keep changes by whole records only, in the order of
\* the calls, and never otherwise: pmemlog_persist writes data before metadata.
AtomicLog == AL!Spec

Holds(t) == \E l \in Locks : writer[l] = t \/ t \in readers[l]

\* A thread that has the rwlock gives it back, on every path of its call.
HoldersLeave == \A t \in Threads : Holds(t) ~> ~Holds(t)
================================================================================
