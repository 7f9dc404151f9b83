------------------------------ MODULE Pmemalloc ------------------------------
(***************************************************************************)
(* The persistent-memory allocator of libpmemalloc/pmemalloc.c, one process *)
(* at a time, together with the memory it manages.                          *)
(*                                                                         *)
(* The pool is an array of 64-byte chunks numbered 1 .. N; a clump is a     *)
(* header chunk and the data chunks that follow it, and chunk N holds the   *)
(* header of size zero that ends the pool.  A header is one cache line.     *)
(* Every line has two contents: what the processor sees (hdr, cell) and     *)
(* what is already on the persistent media (phdr, pcell).  pmem_persist     *)
(* copies the first to the second; the hardware may do so at any moment     *)
(* (Evict).  A power failure keeps only the second; the end of a process    *)
(* keeps both.                                                             *)
(*                                                                         *)
(* The caller of the library is the most general legal one: it may make    *)
(* any call the API documents, in any order, whenever no call is running.   *)
(***************************************************************************)
EXTENDS Integers, FiniteSets

CONSTANTS
  N,              \* number of the chunk that ends the pool
  NumOn,          \* PMEM_NUM_ON, entries of a clump's "on" list
  Requests,       \* sizes in bytes the caller asks for
  Cells,          \* 64-bit words of persistent memory the caller uses
  At,             \* chunk a word lies in, 0 for the static area
  None,           \* offset 0: an unused "on" entry
  NoDataPersist,  \* TRUE: built with -D_NODATAPERSIST
  Remix,          \* TRUE: a process may reserve again after it has freed
  CrashInCreate   \* TRUE: a crash may hit the creation of the pool file

ASSUME NAssumption == N \in Nat /\ N >= 2
ASSUME NumOnAssumption == NumOn \in Nat \ {0}
ASSUME RequestsAssumption == Requests \subseteq Nat
ASSUME CellsAssumption == At \in [Cells -> 0 .. N] /\ None \notin Cells
ASSUME FlagsAssumption ==
  /\ NoDataPersist \in BOOLEAN
  /\ Remix \in BOOLEAN
  /\ CrashInCreate \in BOOLEAN

VARIABLES
  hdr, phdr,      \* clump headers: cache view, persistent image
  cell, pcell,    \* the caller's words: cache view, persistent image
  file,           \* TRUE once the pool file exists
  persistSet,     \* persist_set of libpmem/epoch.c
  pc,             \* where the process is in the library, "idle" between calls
  fr,             \* locals of the call that is running
  gclp,           \* the global cursor of pmemalloc_reserve, 0 for NULL
  handles,        \* pointers this process got from pmemalloc_reserve
  freed           \* TRUE once this process has called pmemalloc_free

image == <<hdr, phdr, cell, pcell>>
proc  == <<gclp, handles, freed>>
env   == <<file, persistSet>>
vars  == <<hdr, phdr, cell, pcell, file, persistSet, pc, fr, gclp, handles, freed>>

Null   == 0
Chunks == 1 .. N
Ptrs   == 0 .. N          \* a pointer is the number of its clump's header chunk
States == {"FREE", "RESERVED", "ACTIVATING", "ACTIVE", "FREEING"}
Slots  == 1 .. NumOn
Entry  == [off : Cells \cup {None}, ptr : Ptrs]
Header == [size : Ptrs, state : States, on : [Slots -> Entry]]

\* A zeroed header: what posix_fallocate and memset leave behind.
Zeroed == [size |-> 0, state |-> "FREE",
           on |-> [i \in Slots |-> [off |-> None, ptr |-> Null]]]

Frame == [clp : Ptrs, k : 0 .. NumOn + 1, nsize : Nat, lazy : BOOLEAN,
          dest : Cells \cup {None}, first : Ptrs, last : Ptrs, csize : Ptrs]

InCall == {"recover", "recover.run", "recover.clear", "recover.done", "coalesce",
           "reserve.scan", "reserve.split", "reserve.clear", "reserve.claim",
           "onactive.off", "onfree.off",
           "activate.begin", "activate.run", "activate.clear", "activate.done",
           "free.begin", "free.run", "free.clear", "free.done"}

NoFrame == [clp |-> 0, k |-> 0, nsize |-> 0, lazy |-> FALSE, dest |-> None,
            first |-> 0, last |-> 0, csize |-> 0]

Roots == {c \in Cells : At[c] = 0}

\* The words that reach the media together with c: those of its cache line.
Line(c) == IF At[c] = 0 THEN {c} ELSE {d \in Cells : At[d] = At[c]}

\* The caller's words that lie in the data chunks of the clump at p.
BodyCells(p) == {c \in Cells : p < At[c] /\ At[c] < p + hdr[p].size}

\* roundup(size + PMEM_CHUNK_SIZE, PMEM_CHUNK_SIZE), counted in chunks.
NSize(size) == (size + 127) \div 64

-----------------------------------------------------------------------------
(* pmem_persist and the stores it follows.  "lazy" is the _DATAPERSIST flag: *)
(* such a call does nothing while the epoch thread holds persist_set at 0.   *)

Elided(lazy) == lazy /\ ~persistSet

\* The flag value pmemalloc_free, _onfree and _coalesce_free compute on entry.
LazyNow == NoDataPersist /\ ~persistSet

Persist(p, lazy) ==
  phdr' = IF Elided(lazy) THEN phdr ELSE [phdr EXCEPT ![p] = hdr'[p]]

\* Store into the header of p, then pmem_persist it.
Commit(p, h, lazy) ==
  /\ hdr' = [hdr EXCEPT ![p] = h]
  /\ Persist(p, lazy)

\* Mutant: the target of an assignment is stored but not persisted.
AssignUnpersisted(e, lazy) ==
  /\ cell' = [cell EXCEPT ![e.off] = e.ptr]
  /\ pcell' = pcell

\* The media once the line of c has been written back.
WrittenBack(c) == [d \in Cells |-> IF d \in Line(c) THEN cell'[d] ELSE pcell[d]]

\* Execute one assignment of an "on" list, then pmem_persist its target.
Assign(e, lazy) ==
  /\ cell' = [cell EXCEPT ![e.off] = e.ptr]
  /\ pcell' = IF Elided(lazy) THEN pcell ELSE WrittenBack(e.off)

InState(p, s) == [hdr[p] EXCEPT !.state = s]

WithOff(p, i, c) == [hdr[p] EXCEPT !.on[i].off = c]
WithPtr(p, i, v) == [hdr[p] EXCEPT !.on[i].ptr = v]

\* for (i = 0; i < PMEM_NUM_ON; i++) if (clp->on[i].off) ... else break;
RunOn(here, next, lazy) ==
  LET on == hdr[fr.clp].on
      more == fr.k <= NumOn /\ on[fr.k].off # None
  IN /\ pc = here
     /\ IF more THEN /\ Assign(on[fr.k], lazy)
                     /\ fr' = [fr EXCEPT !.k = @ + 1]
                     /\ pc' = pc
                ELSE /\ fr' = [fr EXCEPT !.k = NumOn]
                     /\ pc' = next
                     /\ UNCHANGED <<cell, pcell>>
     /\ UNCHANGED <<hdr, phdr, proc, env>>

\* for (i = PMEM_NUM_ON - 1; i >= 0; i--) clp->on[i].off = 0; then persist.
ClearOn(here, next) ==
  /\ pc = here
  /\ IF fr.k >= 1
       THEN /\ hdr' = [hdr EXCEPT ![fr.clp] = WithOff(fr.clp, fr.k, None)]
            /\ fr' = [fr EXCEPT !.k = @ - 1]
            /\ UNCHANGED <<pc, phdr>>
       ELSE /\ hdr' = hdr
            /\ Persist(fr.clp, FALSE)
            /\ pc' = next
            /\ fr' = fr
  /\ UNCHANGED <<cell, pcell, proc, env>>

Return == pc' = "idle" /\ fr' = NoFrame

\* What the end of a process leaves of its locals, globals and handles.
ProcessGone ==
  /\ pc' = "down"
  /\ fr' = NoFrame
  /\ gclp' = Null
  /\ handles' = {}
  /\ freed' = FALSE

Fatal == ProcessGone /\ UNCHANGED <<image, env>>

-----------------------------------------------------------------------------
(* pmemalloc_init                                                           *)

\* open(O_CREAT) and posix_fallocate: a file of zeros.  Where the creation fails on the
\* way (pmemalloc.c:311-342), pmemalloc_init returns NULL and leaves the file as it is,
\* which is what Exit does at the same step when CrashInCreate holds.
Create ==
  /\ pc = "down" /\ ~file
  /\ file' = TRUE
  /\ hdr' = [p \in Chunks |-> Zeroed] /\ phdr' = hdr'
  /\ cell' = [c \in Cells |-> Null] /\ pcell' = cell'
  /\ persistSet' = FALSE
  /\ pc' = "create"
  /\ UNCHANGED <<fr, proc>>

\* pwrite of the first clump, which covers the whole pool.
CreateClump ==
  /\ pc = "create"
  /\ hdr' = [hdr EXCEPT ![1] = [Zeroed EXCEPT !.size = N - 1]]
  /\ pc' = "fsync"
  /\ UNCHANGED <<phdr, cell, pcell, fr, proc, env>>

StartRecover == pc' = "recover" /\ fr' = [NoFrame EXCEPT !.clp = 1]

\* pwrite of the pool header, fsync, pmem_map.
CreateSync ==
  /\ pc = "fsync"
  /\ phdr' = hdr
  /\ StartRecover
  /\ UNCHANGED <<hdr, cell, pcell, proc, env>>

Open ==
  /\ pc = "down" /\ file
  /\ persistSet' = FALSE
  /\ StartRecover
  /\ UNCHANGED <<image, proc, file>>

-----------------------------------------------------------------------------
(* pmemalloc_recover                                                        *)

StartCoalesce ==
  pc' = "coalesce" /\ fr' = [NoFrame EXCEPT !.clp = 1, !.lazy = LazyNow]

\* Mutant: the switch has no case for FREEING.
RecoverClumpNoFreeing ==
  /\ pc = "recover"
  /\ LET h == hdr[fr.clp] IN
       \/ /\ h.size = 0
          /\ StartCoalesce
       \/ /\ h.size # 0 /\ h.state \in {"FREE", "ACTIVE", "FREEING"}
          /\ fr' = [fr EXCEPT !.clp = @ + h.size]
          /\ pc' = pc
       \/ /\ h.size # 0 /\ h.state = "RESERVED"
          /\ fr' = [fr EXCEPT !.k = NumOn]
          /\ pc' = "recover.clear"
       \/ /\ h.size # 0 /\ h.state = "ACTIVATING"
          /\ fr' = [fr EXCEPT !.k = 1]
          /\ pc' = "recover.run"
  /\ UNCHANGED <<image, proc, env>>

\* The switch on the state of the clump the walk has reached.
RecoverClump ==
  /\ pc = "recover"
  /\ LET h == hdr[fr.clp] IN
       \/ /\ h.size = 0
          /\ StartCoalesce
       \/ /\ h.size # 0 /\ h.state \in {"FREE", "ACTIVE"}
          /\ fr' = [fr EXCEPT !.clp = @ + h.size]
          /\ pc' = pc
       \/ /\ h.size # 0 /\ h.state = "RESERVED"
          /\ fr' = [fr EXCEPT !.k = NumOn]
          /\ pc' = "recover.clear"
       \/ /\ h.size # 0 /\ h.state \in {"ACTIVATING", "FREEING"}
          /\ fr' = [fr EXCEPT !.k = 1]
          /\ pc' = "recover.run"
  /\ UNCHANGED <<image, proc, env>>

RecoverRun   == RunOn("recover.run", "recover.clear", FALSE)
RecoverClear == ClearOn("recover.clear", "recover.done")

RecoverDone ==
  /\ pc = "recover.done"
  /\ LET h == hdr[fr.clp] IN
       /\ Commit(fr.clp,
                 InState(fr.clp, IF h.state = "ACTIVATING" THEN "ACTIVE" ELSE "FREE"),
                 FALSE)
       /\ fr' = [NoFrame EXCEPT !.clp = fr.clp + h.size]
  /\ pc' = "recover"
  /\ UNCHANGED <<cell, pcell, proc, env>>

-----------------------------------------------------------------------------
(* pmemalloc_coalesce_free                                                  *)

RunOfTwo == fr.first # Null /\ fr.last # Null

Merge(lazy) ==
  IF RunOfTwo
    THEN Commit(fr.first,
                [hdr[fr.first] EXCEPT !.size = fr.csize, !.state = "FREE"], lazy)
    ELSE UNCHANGED <<hdr, phdr>>

\* Mutants: every clump that is not ACTIVE counts as free; the loop does not move
\* on from a clump in use.
CoalesceStepOf(free, past) ==
  /\ pc = "coalesce"
  /\ LET h == hdr[fr.clp] IN
       /\ h.size # 0
       /\ \/ /\ h.state \in free
             /\ fr' = [fr EXCEPT !.first = IF @ = Null THEN fr.clp ELSE @,
                                 !.last = IF fr.first = Null THEN @ ELSE fr.clp,
                                 !.csize = @ + h.size,
                                 !.clp = @ + h.size]
             /\ UNCHANGED <<hdr, phdr>>
          \/ /\ h.state \notin free
             /\ Merge(fr.lazy)
             /\ fr' = past
  /\ UNCHANGED <<pc, cell, pcell, proc, env>>

NextClump == fr.clp + hdr[fr.clp].size

CoalesceStepReserved ==
  CoalesceStepOf(States \ {"ACTIVE"}, [NoFrame EXCEPT !.lazy = fr.lazy, !.clp = NextClump])

CoalesceStepStays ==
  CoalesceStepOf({"FREE"}, [fr EXCEPT !.first = Null, !.last = Null, !.csize = 0])

CoalesceStep ==
  /\ pc = "coalesce"
  /\ LET h == hdr[fr.clp] IN
       /\ h.size # 0
       /\ \/ /\ h.state = "FREE"
             /\ fr' = [fr EXCEPT !.first = IF @ = Null THEN fr.clp ELSE @,
                                 !.last = IF fr.first = Null THEN @ ELSE fr.clp,
                                 !.csize = @ + h.size,
                                 !.clp = @ + h.size]
             /\ UNCHANGED <<hdr, phdr>>
          \/ /\ h.state # "FREE"
             /\ Merge(fr.lazy)
             /\ fr' = [fr EXCEPT !.first = Null, !.last = Null, !.csize = 0,
                                 !.clp = @ + h.size]
  /\ UNCHANGED <<pc, cell, pcell, proc, env>>

CoalesceEnd ==
  /\ pc = "coalesce"
  /\ hdr[fr.clp].size = 0
  /\ Merge(FALSE)
  /\ Return
  /\ UNCHANGED <<cell, pcell, proc, env>>

-----------------------------------------------------------------------------
(* pmemalloc_reserve                                                        *)

Reserve(size) ==
  /\ pc = "idle"
  /\ Remix \/ ~freed
  /\ LET start == IF gclp = Null THEN 1 ELSE gclp IN
       IF hdr[start].size = 0
         THEN Fatal
         ELSE /\ pc' = "reserve.scan"
              /\ fr' = [NoFrame EXCEPT !.clp = start, !.nsize = NSize(size)]
              /\ UNCHANGED <<image, proc, env>>

\* One turn of the "first fit" loop; at the end of the pool, ENOMEM.
ReserveScan ==
  /\ pc = "reserve.scan"
  /\ LET h == hdr[fr.clp] IN
       \/ /\ h.size = 0
          /\ Return
       \/ /\ h.size # 0 /\ h.state = "FREE" /\ fr.nsize <= h.size
          /\ pc' = IF h.size - fr.nsize >= 2 THEN "reserve.split" ELSE "reserve.clear"
          /\ fr' = [fr EXCEPT !.csize = IF h.size - fr.nsize >= 2
                                          THEN fr.nsize ELSE h.size]
       \/ /\ h.size # 0 /\ (h.state # "FREE" \/ fr.nsize > h.size)
          /\ fr' = [fr EXCEPT !.clp = @ + h.size]
          /\ pc' = pc
  /\ UNCHANGED <<image, proc, env>>

\* Mutants: the leftover clump gets the size of the whole one; its header is not
\* persisted before the claim.
ReserveSplitWhole ==
  /\ pc = "reserve.split"
  /\ Commit(fr.clp + fr.nsize, [Zeroed EXCEPT !.size = hdr[fr.clp].size], FALSE)
  /\ pc' = "reserve.clear"
  /\ UNCHANGED <<cell, pcell, fr, proc, env>>

ReserveSplitUnpersisted ==
  /\ pc = "reserve.split"
  /\ hdr' = [hdr EXCEPT ![fr.clp + fr.nsize] =
                [Zeroed EXCEPT !.size = hdr[fr.clp].size - fr.nsize]]
  /\ pc' = "reserve.clear"
  /\ UNCHANGED <<phdr, cell, pcell, fr, proc, env>>

ReserveSplit ==
  /\ pc = "reserve.split"
  /\ Commit(fr.clp + fr.nsize,
            [Zeroed EXCEPT !.size = hdr[fr.clp].size - fr.nsize], FALSE)
  /\ pc' = "reserve.clear"
  /\ UNCHANGED <<cell, pcell, fr, proc, env>>

ReserveClear ==
  /\ pc = "reserve.clear"
  /\ Commit(fr.clp, [hdr[fr.clp] EXCEPT !.on = Zeroed.on], FALSE)
  /\ pc' = "reserve.claim"
  /\ UNCHANGED <<cell, pcell, fr, proc, env>>

ReserveClaim ==
  /\ pc = "reserve.claim"
  /\ Commit(fr.clp, [hdr[fr.clp] EXCEPT !.size = fr.csize, !.state = "RESERVED"], FALSE)
  /\ gclp' = fr.clp
  /\ handles' = handles \cup {fr.clp}
  /\ Return
  /\ UNCHANGED <<cell, pcell, freed, env>>

-----------------------------------------------------------------------------
(* pmemalloc_onactive and pmemalloc_onfree: the assignment *c = v is put in  *)
(* the first unused entry, ptr_ first, and counts once off is stored.        *)

FreeSlots(p) == {i \in Slots : hdr[p].on[i].off = None}

PutPtr(p, c, v, lazy, next) ==
  IF FreeSlots(p) = {}
    THEN Fatal
    ELSE \E i \in FreeSlots(p) :
         /\ \A j \in FreeSlots(p) : i <= j
         /\ Commit(p, WithPtr(p, i, v), lazy)
         /\ pc' = next
         /\ fr' = [NoFrame EXCEPT !.clp = p, !.k = i, !.dest = c]
         /\ UNCHANGED <<cell, pcell, proc, env>>

PutOff(here) ==
  /\ pc = here
  /\ Commit(fr.clp, WithOff(fr.clp, fr.k, fr.dest), FALSE)
  /\ Return
  /\ UNCHANGED <<cell, pcell, proc, env>>

OnActive(p, c, v) ==
  /\ pc = "idle"
  /\ hdr[p].state = "RESERVED"
  /\ PutPtr(p, c, v, FALSE, "onactive.off")

OnActiveOff == PutOff("onactive.off")

OnFree(p, c, v) ==
  /\ pc = "idle"
  /\ hdr[p].state = "ACTIVE"
  /\ PutPtr(p, c, v, LazyNow, "onfree.off")

OnFreeOff == PutOff("onfree.off")

-----------------------------------------------------------------------------
(* pmemalloc_activate                                                       *)

\* Mutant: the data of the clump is not persisted before the commit.
ActivateNoData(p) ==
  /\ pc = "idle"
  /\ hdr[p].state = "RESERVED"
  /\ pc' = "activate.begin"
  /\ fr' = [NoFrame EXCEPT !.clp = p]
  /\ UNCHANGED <<image, proc, env>>

\* Step 1, persist *ptr_: the data chunks of the clump.  The length passed still
\* holds the state bits, so the range reaches one byte into the next header.
Activate(p) ==
  /\ pc = "idle"
  /\ hdr[p].state = "RESERVED"
  /\ pcell' = [c \in Cells |-> IF c \in BodyCells(p) THEN cell[c] ELSE pcell[c]]
  /\ LET next == p + hdr[p].size IN phdr' = [phdr EXCEPT ![next] = hdr[next]]
  /\ pc' = "activate.begin"
  /\ fr' = [NoFrame EXCEPT !.clp = p]
  /\ UNCHANGED <<hdr, cell, proc, env>>

\* Mutant: the clump goes ACTIVE at once, and the assignments follow.
ActivateAtOnce ==
  /\ pc = "activate.begin"
  /\ Commit(fr.clp, InState(fr.clp, "ACTIVE"), FALSE)
  /\ pc' = "activate.run"
  /\ fr' = [fr EXCEPT !.k = 1]
  /\ UNCHANGED <<cell, pcell, proc, env>>

ActivateBegin ==
  /\ pc = "activate.begin"
  /\ Commit(fr.clp, InState(fr.clp, "ACTIVATING"), FALSE)
  /\ pc' = "activate.run"
  /\ fr' = [fr EXCEPT !.k = 1]
  /\ UNCHANGED <<cell, pcell, proc, env>>

ActivateRun   == RunOn("activate.run", "activate.clear", FALSE)
ActivateClear == ClearOn("activate.clear", "activate.done")

ActivateDone ==
  /\ pc = "activate.done"
  /\ Commit(fr.clp, InState(fr.clp, "ACTIVE"), FALSE)
  /\ Return
  /\ UNCHANGED <<cell, pcell, proc, env>>

-----------------------------------------------------------------------------
(* pmemalloc_free                                                           *)

Free(p) ==
  /\ pc = "idle"
  /\ \/ hdr[p].state = "RESERVED" /\ pc' = "free.done"
     \/ hdr[p].state = "ACTIVE" /\ pc' = "free.begin"
  /\ fr' = [NoFrame EXCEPT !.clp = p, !.lazy = LazyNow]
  /\ handles' = handles \ {p}
  /\ freed' = TRUE
  /\ UNCHANGED <<image, gclp, env>>

FreeBegin ==
  /\ pc = "free.begin"
  /\ Commit(fr.clp, InState(fr.clp, "FREEING"), fr.lazy)
  /\ pc' = "free.run"
  /\ fr' = [fr EXCEPT !.k = 1]
  /\ UNCHANGED <<cell, pcell, proc, env>>

\* Mutant: the entries are not cleared once they have been executed.
FreeRunKeeps == RunOn("free.run", "free.done", fr.lazy)

FreeRun   == RunOn("free.run", "free.clear", fr.lazy)
FreeClear == ClearOn("free.clear", "free.done")

FreeDone ==
  /\ pc = "free.done"
  /\ Commit(fr.clp, InState(fr.clp, "FREE"), fr.lazy)
  /\ StartCoalesce
  /\ UNCHANGED <<cell, pcell, proc, env>>

-----------------------------------------------------------------------------
(* The caller.  It knows the pointers it reserved and those it can read from *)
(* its roots, links a block from a root that is null and not spoken for,     *)
(* and frees a linked block only after asking for every link to be cleared.  *)

Known == (handles \cup {cell[c] : c \in Roots}) \ {Null}

Awaited(c) == \E p \in handles, i \in Slots :
                hdr[p].state = "RESERVED" /\ hdr[p].on[i].off = c

Unlinks(p) == \A c \in Roots :
                cell[c] = p => \E i \in Slots : hdr[p].on[i] = [off |-> c, ptr |-> Null]

\* The caller fills in a field of a block it has reserved.
Fill(c, v) ==
  /\ pc = "idle"
  /\ \E p \in handles : hdr[p].state = "RESERVED" /\ c \in BodyCells(p)
  /\ cell' = [cell EXCEPT ![c] = v]
  /\ UNCHANGED <<hdr, phdr, pcell, pc, fr, proc, env>>

CallReserve  == \E size \in Requests : Reserve(size)
CallFill     == \E c \in Cells : Fill(c, IF cell[c] = Null THEN 1 ELSE Null)
CallOnActive == \E p \in handles, c \in Roots :
                  cell[c] = Null /\ ~Awaited(c) /\ OnActive(p, c, p)
CallOnFree   == \E p \in Known, c \in Roots : cell[c] = p /\ OnFree(p, c, Null)
CallActivate == \E p \in handles : Activate(p)
CallFree     == \E p \in Known : Unlinks(p) /\ Free(p)

Call == \/ CallReserve \/ CallFill \/ CallOnActive
        \/ CallOnFree \/ CallActivate \/ CallFree

-----------------------------------------------------------------------------
(* The environment                                                          *)

\* The process exits, or is killed: the page cache survives.
Exit ==
  /\ pc # "down"
  /\ pc \in {"create", "fsync"} => CrashInCreate
  /\ ProcessGone
  /\ UNCHANGED <<image, env>>

\* Power failure: only the persistent image survives, and of a file that was
\* not yet synced possibly not even the name.
PowerFail ==
  /\ pc \in {"create", "fsync"} => CrashInCreate
  /\ ProcessGone
  /\ hdr' = phdr /\ cell' = pcell
  /\ file' \in IF pc \in {"create", "fsync"} THEN {TRUE, FALSE} ELSE {file}
  /\ UNCHANGED <<phdr, pcell, persistSet>>

\* The hardware writes a dirty line back.
EvictHdr(p) ==
  /\ phdr[p] # hdr[p]
  /\ phdr' = [phdr EXCEPT ![p] = hdr[p]]
  /\ UNCHANGED <<hdr, cell, pcell, pc, fr, proc, env>>

EvictCell(c) ==
  /\ pcell[c] # cell[c]
  /\ cell' = cell
  /\ pcell' = WrittenBack(c)
  /\ UNCHANGED <<hdr, phdr, pc, fr, proc, env>>

Evict == (\E p \in Chunks : EvictHdr(p)) \/ (\E c \in Cells : EvictCell(c))

\* The epoch thread toggles persist_set for as long as the process lives.
Epoch ==
  /\ NoDataPersist
  /\ pc \notin {"down", "create", "fsync"}
  /\ persistSet' = ~persistSet
  /\ UNCHANGED <<image, file, pc, fr, proc>>

-----------------------------------------------------------------------------
Init ==
  /\ hdr = [p \in Chunks |-> Zeroed] /\ phdr = hdr
  /\ cell = [c \in Cells |-> Null] /\ pcell = cell
  /\ file = FALSE
  /\ persistSet = FALSE
  /\ pc = "down" /\ fr = NoFrame
  /\ gclp = Null /\ handles = {} /\ freed = FALSE

\* The steps of the library code, once it has been entered.
Step ==
  \/ CreateClump \/ CreateSync
  \/ RecoverClump \/ RecoverRun \/ RecoverClear \/ RecoverDone
  \/ CoalesceStep \/ CoalesceEnd
  \/ ReserveScan \/ ReserveSplit \/ ReserveClear \/ ReserveClaim
  \/ OnActiveOff \/ OnFreeOff
  \/ ActivateBegin \/ ActivateRun \/ ActivateClear \/ ActivateDone
  \/ FreeBegin \/ FreeRun \/ FreeClear \/ FreeDone

Start == Create \/ Open

Crash == Exit \/ PowerFail

Next == Start \/ Step \/ Call \/ Crash \/ Evict \/ Epoch

Spec == Init /\ [][Next]_vars

\* A process that is inside the library runs on until it returns or dies.
FairSpec == Spec /\ WF_vars(Step)

-----------------------------------------------------------------------------
(* What the allocator promises                                              *)

TypeOK ==
  /\ hdr \in [Chunks -> Header] /\ phdr \in [Chunks -> Header]
  /\ cell \in [Cells -> Ptrs] /\ pcell \in [Cells -> Ptrs]
  /\ file \in BOOLEAN /\ persistSet \in BOOLEAN
  /\ pc \in {"down", "create", "fsync", "idle"} \cup InCall
  /\ fr \in Frame
  /\ gclp \in Ptrs
  /\ handles \subseteq Chunks
  /\ freed \in BOOLEAN

\* A walk of the image h that starts at a chunk of V ends at the end marker: it
\* meets only chunks of V, each clump ends where the next one begins.
WalkEnds(h, V) ==
  /\ {1, N} \subseteq V
  /\ h[N].size = 0
  /\ \A p \in V \ {N} : h[p].size > 0 /\ p + h[p].size \in V

\* A pool file whose creation was cut short has no clump at all.
Tiled(h) == h[1].size # 0 => \E V \in SUBSET Chunks : WalkEnds(h, V)

\* At every instant, in the cache and on the media, the clumps tile the pool: a
\* crash between any two persists of a split, a claim or a merge
\* (pmemalloc_reserve, pmemalloc_coalesce_free) loses or doubles no chunk and
\* never leads a later walk out of the pool.
PoolTiled == Tiled(hdr) /\ Tiled(phdr)

\* The clumps a walk of the image h meets, by following sizes from chunk 1.
Clumps(h) ==
  LET from[p \in Chunks] == IF h[p].size = 0 THEN {} ELSE {p} \cup from[p + h[p].size]
  IN from[1]

\* pmemalloc_recover leaves nothing half done: between calls no clump is
\* ACTIVATING or FREEING, and the RESERVED ones are those this process holds.
NothingHalfDone ==
  pc = "idle" =>
    \A p \in Clumps(hdr) :
      /\ hdr[p].state \notin {"ACTIVATING", "FREEING"}
      /\ hdr[p].state = "RESERVED" => p \in handles

\* A pointer pmemalloc_reserve returned is the data of a clump a walk meets,
\* RESERVED or ACTIVE, until this process frees it: no other call of the
\* process swallows, merges or reuses it.
HandlesAreClumps ==
  pc = "idle" => \A p \in handles : p \in Clumps(hdr)
                                    /\ hdr[p].state \in {"RESERVED", "ACTIVE"}

\* A call that has returned is durable: between calls the media holds the same
\* clumps, in the same state, and the same roots as the cache.
DurableAtReturn ==
  pc = "idle" =>
    /\ Clumps(phdr) = Clumps(hdr)
    /\ \A p \in Clumps(hdr) : phdr[p] = hdr[p]
    /\ \A c \in Roots : pcell[c] = cell[c]

\* Once the media says a block is going active, its data is on the media: step 1
\* of pmemalloc_activate comes before the commit.
DataBeforeCommit ==
  \A p \in Clumps(phdr) :
    phdr[p].state \in {"ACTIVATING", "ACTIVE"} =>
      \A c \in Cells : p < At[c] /\ At[c] < p + phdr[p].size => pcell[c] = cell[c]

-----------------------------------------------------------------------------
(* The pool a recovery would find on the media, and the abstract pool it is. *)

\* The assignments to c that recovery would still execute: entries of a clump
\* caught half way, up to its first unused one.
Redone(c) ==
  LET halfway == {p \in Clumps(phdr) : phdr[p].state \in {"ACTIVATING", "FREEING"}}
  IN {e \in halfway \X Slots :
        /\ phdr[e[1]].on[e[2]].off = c
        /\ \A j \in 1 .. e[2] : phdr[e[1]].on[j].off # None}

\* The value root c has once recovery has executed the last of them.
RecoveredRoot(c) ==
  LET redone == Redone(c) IN
  IF redone = {} THEN pcell[c]
  ELSE LET e == CHOOSE x \in redone : \A y \in redone : y[2] <= x[2]
       IN phdr[e[1]].on[e[2]].ptr

Pool == INSTANCE PmemPool WITH
          blocks <- [p \in {q \in Clumps(phdr) :
                               phdr[q].state \in {"ACTIVATING", "ACTIVE"}} |-> phdr[p].size],
          root   <- [c \in Roots |-> RecoveredRoot(c)]

\* What survives a crash changes only by whole activations and whole frees: the
\* block and every root assigned with it, at the instant the ACTIVATING or
\* FREEING header reaches the media.
AtomicPool == Pool!Spec

\* Every call returns, or ends the process; recovery ends however it was reached.
CallsReturn == pc \notin {"idle", "down"} ~> pc \in {"idle", "down"}

-----------------------------------------------------------------------------
(* What the documents and the assertions of the code claim, and it does not  *)
(* do: v_cursor refutes the first, other constants the two after it.         *)

\* PMEMALLOC_API.txt:88-90: activated memory "will no longer return to the free
\* list": a block this process activated never lies inside a free clump.
ActiveNotInFree ==
  pc = "idle" =>
    \A p \in handles, q \in Clumps(hdr) :
      hdr[p].state = "ACTIVE" /\ hdr[q].state = "FREE" =>
        p <= q \/ q + hdr[q].size <= p

\* pmemalloc.c:362-368: the scan of pmemalloc_init takes care of a "pool file"
\* that "isn't even fully setup": a pool it has returned has clumps.
InitSetsUp == pc = "idle" => hdr[1].size # 0

\* pmemalloc.c:754-760: persisting the FREEING header commits the free, and the
\* assignments are persisted before the clump is: no crash leaves a root that
\* points at memory recovery gives back.
RootsRecoverable ==
  \A c \in Roots : RecoveredRoot(c) # Null =>
    /\ RecoveredRoot(c) \in Clumps(phdr)
    /\ phdr[RecoveredRoot(c)].state \in {"ACTIVATING", "ACTIVE"}
=============================================================================
