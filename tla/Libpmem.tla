-------------------------------- MODULE Libpmem --------------------------------
(***************************************************************************)
(* libpmem: how a store becomes durable.  A program picks one of the three   *)
(* modes of the dispatch tables of pmem.c, or is compiled with the inline    *)
(* version of pmem_inline.h:                                                *)
(*                                                                         *)
(*   cl      clflush of every 64-byte line, after a copy to the redo log     *)
(*   msync   msync of every page                                            *)
(*   fit     a private mapping; a flush is a pwrite of the line to the file  *)
(*   inline  clflush, without the log and without the epoch thread          *)
(*                                                                         *)
(* A byte of the mapped file has three contents: what the process sees       *)
(* (mem), what the file holds for every other process (file), and what is on *)
(* the media.  In a shared mapping the first two are the same.  A process    *)
(* that ends leaves the file, a power failure only the media.                *)
(***************************************************************************)
EXTENDS Naturals, Sequences, SequencesExt

CONSTANTS
  Size,           \* length of the file in bytes, a whole number of pages
  Line, Page,     \* 64 and 4096 in the code
  LogSpace,       \* bytes the redo log has room for
  NoDataPersist   \* TRUE: built with -D_NODATAPERSIST

ASSUME SizesAssumption ==
  /\ {Size, Line, Page} \subseteq Nat \ {0}
  /\ Page % Line = 0 /\ Size % Page = 0
  /\ LogSpace \in Nat

VARIABLES
  mode,             \* the static Mode of pmem.c, or "inline": the same in every run
  mem, file, media, \* the bytes: seen by the process, in the file, on the media
  thread,           \* the epoch thread of this process
  persistSet,       \* persist_set of epoch.c
  redo,             \* the log of g_plp: every crash keeps it (module PmemLog)
  asked,            \* fit mode: bytes on the lines this process asked to flush
  old,              \* fit mode: the file this process found
  pc,               \* where the process is, "down" when there is none
  fr                \* arguments and loop variable of the libpmem call

bytes   == <<mem, file, media>>
epoch   == <<thread, persistSet>>
history == <<asked, old>>
libvars == <<mode, mem, file, media, thread, persistSet, redo, asked, old, pc, fr>>

Modes == {"cl", "msync", "fit", "inline"}
Addrs == 0 .. Size - 1
Zeros == [b \in Addrs |-> 0]

NoCall == [entry |-> "none", addr |-> 0, len |-> 0, flags |-> "none", uptr |-> 0]

RoundDown(n, unit) == n - (n % unit)
RoundUp(n, unit)   == RoundDown(n + unit - 1, unit)

\* Copy the bytes from .. to - 1 of one image over another.
Copied(from, to, src, dst) ==
  [b \in Addrs |-> IF from <= b /\ b < to THEN src[b] ELSE dst[b]]

Gone ==
  /\ pc' = "down"
  /\ fr' = NoCall
  /\ thread' = "none"
  /\ persistSet' = FALSE
  /\ mem' = file'

\* A new process.
Begun == asked' = {} /\ old' = IF mode = "fit" THEN file ELSE Zeros

\* FATAL, FATALSYS, exit(1): the process ends, what it stored stays in the file.
Fatal == UNCHANGED <<mode, file, media, redo, history>> /\ Gone

-----------------------------------------------------------------------------
(* pmem_map and the epoch thread it starts                                  *)

\* mmap, and in cl mode the opening of the redo log; any of them may fail.
Mapped(length, next) ==
  \/ /\ length > 0
     /\ mem' = file
     /\ thread' = IF mode = "inline" THEN "none" ELSE "new"
     /\ pc' = next
     /\ UNCHANGED <<mode, file, media, persistSet, redo, history, fr>>
  \/ Fatal

\* entry_point: the thread binds itself to CPU 3, and when it cannot the whole
\* process exits.
EpochStart ==
  /\ thread = "new"
  /\ \/ /\ thread' = "running"
        /\ UNCHANGED <<mode, bytes, persistSet, redo, history, pc, fr>>
     \/ Fatal

EpochFlip ==
  /\ thread = "running"
  /\ persistSet' = ~persistSet
  /\ UNCHANGED <<mode, bytes, thread, redo, history, pc, fr>>

-----------------------------------------------------------------------------
(* A store of the program                                                   *)

\* Mutant: the fault injection mode maps the file shared, like the others.
StoreShared(b, v) ==
  /\ mem' = [mem EXCEPT ![b] = v]
  /\ file' = [file EXCEPT ![b] = v]

Store(b, v) ==
  /\ mem' = [mem EXCEPT ![b] = v]
  /\ file' = IF mode = "fit" THEN file ELSE [file EXCEPT ![b] = v]

-----------------------------------------------------------------------------
(* pmem_persist and pmem_flush_cache: persist_set is read again in each of   *)
(* the functions the call goes through, and may have changed in between.     *)

LazyCall == NoDataPersist /\ fr.flags = "data"

DispatchDrops == mode # "inline" /\ LazyCall /\ ~persistSet

ModeDrops ==
  \/ (mode = "cl" /\ LazyCall /\ ~persistSet)
  \/ (mode \in {"fit", "inline"} /\ LazyCall)

Goto(next) == pc' = next /\ UNCHANGED <<mode, bytes, epoch, redo, history, fr>>

\* The program calls pmem_persist ("persist") or pmem_flush_cache ("flushcache").
Called(entry, addr, len, flags) ==
  /\ pc' = entry
  /\ fr' = [entry |-> entry, addr |-> addr, len |-> len, flags |-> flags, uptr |-> 0]
  /\ asked' = IF mode # "fit" THEN asked
              ELSE asked \cup {b \in Addrs : RoundDown(addr, Line) <= b
                                             /\ b < RoundUp(addr + len, Line)}
  /\ UNCHANGED <<mode, bytes, epoch, redo, old>>

Dispatch ==
  /\ pc \in {"persist", "flushcache"}
  /\ Goto(IF DispatchDrops THEN "returned"
          ELSE IF pc = "persist" THEN "persist.mode" ELSE "flush.mode")

\* pmem_persist_cl, _msync, _fit and the inline one.
PersistMode ==
  /\ pc = "persist.mode"
  /\ Goto(IF ModeDrops THEN "returned" ELSE IF mode = "cl" THEN "log" ELSE "flush.mode")

Record == [k \in 1 .. fr.len |-> mem[fr.addr + k - 1]]

\* Mutant: a record that the log has no room for is skipped.
WriteLogSkips ==
  /\ pc = "log"
  /\ redo' = IF Len(redo) + fr.len <= LogSpace THEN redo \o Record ELSE redo
  /\ pc' = "flush.mode"
  /\ UNCHANGED <<mode, bytes, epoch, history, fr>>

\* write_log: a full log ends the process.
WriteLog ==
  /\ pc = "log"
  /\ \/ /\ Len(redo) + fr.len <= LogSpace
        /\ redo' = redo \o Record
        /\ pc' = "flush.mode"
        /\ UNCHANGED <<mode, bytes, epoch, history, fr>>
     \/ (Len(redo) + fr.len > LogSpace /\ Fatal)

\* Mutant: the loop starts at the address itself.
FlushModeUnrounded ==
  /\ pc = "flush.mode"
  /\ pc' = IF ModeDrops THEN "fence" ELSE "flush"
  /\ fr' = [fr EXCEPT !.uptr = fr.addr]
  /\ UNCHANGED <<mode, bytes, epoch, redo, history>>

\* pmem_flush_cache_cl, _msync, _fit: round the address down.
FlushMode ==
  /\ pc = "flush.mode"
  /\ pc' = IF ModeDrops THEN "fence" ELSE "flush"
  /\ fr' = [fr EXCEPT !.uptr = RoundDown(fr.addr, IF mode = "msync" THEN Page ELSE Line)]
  /\ UNCHANGED <<mode, bytes, epoch, redo, history>>

LineOf(b) == RoundDown(b, Line)

\* What clflush, or pwrite in fit mode, does to the line that uptr lies in.
FlushedLine ==
  IF mode = "fit"
    THEN file' = Copied(LineOf(fr.uptr), LineOf(fr.uptr) + Line, mem, file) /\ media' = media
    ELSE media' = Copied(LineOf(fr.uptr), LineOf(fr.uptr) + Line, file, media) /\ file' = file

\* One turn of the loop over the lines; pwrite may fail.
FlushLine ==
  /\ pc = "flush" /\ mode # "msync"
  /\ \/ /\ fr.uptr < fr.addr + fr.len
        /\ FlushedLine
        /\ fr' = [fr EXCEPT !.uptr = @ + Line]
        /\ UNCHANGED <<mode, mem, epoch, redo, history, pc>>
     \/ (fr.uptr >= fr.addr + fr.len /\ Goto("fence"))
     \/ (mode = "fit" /\ Fatal)

\* msync of the pages from uptr on: the length grows by what the rounding of the
\* address gained.  It may fail.
FlushPages ==
  /\ pc = "flush" /\ mode = "msync"
  /\ \/ /\ media' = Copied(fr.uptr,
                           fr.uptr + RoundUp(fr.len + (fr.addr % Page), Page), file, media)
        /\ pc' = "fence"
        /\ UNCHANGED <<mode, mem, file, epoch, redo, history, fr>>
     \/ Fatal

\* sfence; pmem_drain_pm_stores has nothing to do in any mode.
Fence == pc = "fence" /\ Goto("returned")

Library ==
  Dispatch \/ PersistMode \/ WriteLog \/ FlushMode \/ FlushLine \/ FlushPages \/ Fence

-----------------------------------------------------------------------------
(* The environment                                                          *)

\* A dirty line, or a dirty page line by line, is written back at any time.
WriteBack(l) ==
  /\ \E b \in Addrs : LineOf(b) = l /\ media[b] # file[b]
  /\ media' = Copied(l, l + Line, file, media)
  /\ UNCHANGED <<mode, mem, file, epoch, redo, history, pc, fr>>

\* The process is killed, by icount among others.
Killed == pc # "down" /\ Fatal

PowerFail ==
  /\ file' = media
  /\ old' = IF mode = "fit" THEN media ELSE old
  /\ Gone
  /\ UNCHANGED <<mode, media, redo, asked>>

Environment ==
  \/ EpochStart \/ EpochFlip \/ Killed
  \/ \E b \in Addrs : WriteBack(LineOf(b))

LibInit ==
  /\ mode \in Modes
  /\ mem = Zeros /\ file = Zeros /\ media = Zeros
  /\ thread = "none" /\ persistSet = FALSE
  /\ redo = <<>>
  /\ asked = {} /\ old = Zeros
  /\ pc = "down" /\ fr = NoCall
================================================================================
