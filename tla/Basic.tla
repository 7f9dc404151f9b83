--------------------------------- MODULE Basic ---------------------------------
(***************************************************************************)
(* basic.c, the smallest client of libpmem, and trivial.c, the same without  *)
(* the library: strings stored one after the other into the mapped file, a   *)
(* pmem_persist after each.                                                 *)
(*                                                                         *)
(* basic.c passes 0 for the flags and calls pmem_persist; Flags and Calls    *)
(* also let the loop make the calls other programs make, with _DATAPERSIST   *)
(* and by the three functions pmem_persist is made of.                      *)
(***************************************************************************)
EXTENDS Libpmem

CONSTANTS
  ArgLists,   \* the argument lists: sequences of strings that end with 0
  Hello,      \* the string of trivial.c
  Flags,      \* flags of the calls: "none" for 0, "data" for _DATAPERSIST
  Calls       \* the entry points: "persist", "flushcache"

ASSUME ArgsAssumption ==
  /\ ArgLists \subseteq Seq(Seq(Nat))
  /\ Hello \in Seq(Nat) /\ Len(Hello) <= Page
  /\ Flags \subseteq {"none", "data"} /\ Calls \subseteq {"persist", "flushcache"}

\* A string of C: the last of its bytes is 0, and no other.
CString(t) ==
  /\ t \in Seq(Nat) /\ Len(t) > 0
  /\ \A k \in 1 .. Len(t) : t[k] = 0 <=> k = Len(t)

ASSUME StringsAssumption ==
  /\ CString(Hello)
  /\ \A list \in ArgLists : \A i \in 1 .. Len(list) : CString(list[i])

VARIABLES
  program,    \* "basic" or "trivial"
  fsize,      \* length of the file, Absent before it exists
  args,       \* the strings of this run, none to dump
  ptr,        \* where the next string goes
  todo,       \* bytes of the current string that strcpy has not stored yet
  acked       \* the strings this run has made durable, with the calls that did

main == <<program, fsize, args, ptr, todo, acked>>
vars == <<libvars, main>>

Absent == Size + 1
Text == args[Len(acked) + 1]
NewLine == 0     \* in the output of a dump, which prints no 0

-----------------------------------------------------------------------------
(* main of basic.c                                                          *)

\* Options, stat and open.
Start ==
  /\ pc = "down"
  /\ program' = "basic"
  /\ args' \in ArgLists
  /\ fsize' = IF fsize = Absent THEN 0 ELSE fsize
  /\ pc' = IF fsize = Absent THEN "allocate" ELSE "map"
  /\ ptr' = 0 /\ acked' = <<>> /\ todo' = 0
  /\ Begun
  /\ UNCHANGED <<mode, bytes, epoch, redo, fr>>

\* posix_fallocate of the file just created.
Allocate ==
  /\ pc = "allocate"
  /\ \/ /\ fsize' = Size
        /\ pc' = "map"
        /\ UNCHANGED <<mode, bytes, epoch, redo, history, fr>>
     \/ (Fatal /\ fsize' = fsize)
  /\ UNCHANGED <<program, args, ptr, todo, acked>>

MapFile == pc = "map" /\ Mapped(fsize, "args") /\ UNCHANGED main

\* The loop over the strings: is there room for the next one?
NextArg ==
  /\ pc = "args" /\ Len(acked) < Len(args)
  /\ \/ /\ ptr + Len(Text) <= fsize
        /\ todo' = Len(Text)
        /\ pc' = "strcpy"
        /\ UNCHANGED <<mode, bytes, epoch, redo, history, fr>>
     \/ /\ ptr + Len(Text) > fsize
        /\ Fatal /\ todo' = todo
  /\ UNCHANGED <<program, fsize, args, ptr, acked>>

StrcpyByte ==
  /\ pc = "strcpy" /\ todo > 0 /\ fsize # 0
  /\ LET k == Len(Text) - todo IN Store(ptr + k, Text[k + 1])
  /\ todo' = todo - 1
  /\ UNCHANGED <<mode, media, epoch, redo, history, pc, fr, program, fsize, args, ptr, acked>>

Persist ==
  /\ pc = "strcpy" /\ todo = 0
  /\ program = "basic"
  /\ \E entry \in Calls, flags \in Flags : Called(entry, ptr, Len(Text), flags)
  /\ UNCHANGED main

Ack == acked' = Append(acked, [text |-> Text, at |-> fr.addr, flags |-> fr.flags])

\* Mutant: len is strlen without the byte for the 0.
PersistedNoNul ==
  /\ pc = "returned"
  /\ Ack
  /\ ptr' = ptr + Len(Text) - 1
  /\ pc' = "args" /\ fr' = NoCall
  /\ UNCHANGED <<mode, bytes, epoch, redo, history, program, fsize, args, todo>>

Persisted ==
  /\ pc = "returned"
  /\ Ack
  /\ ptr' = ptr + Len(Text)
  /\ pc' = "args" /\ fr' = NoCall
  /\ UNCHANGED <<mode, bytes, epoch, redo, history, program, fsize, args, todo>>

\* exit(0): all the strings are stored, or the dump is printed.
Done ==
  /\ pc = "args" /\ Len(acked) = Len(args)
  /\ Fatal
  /\ UNCHANGED main

-----------------------------------------------------------------------------
(* main of trivial.c: open without O_CREAT, mmap, strcpy, msync of the page.  *)

TrivialStart ==
  /\ pc = "down"
  /\ mode = "msync" /\ fsize # Absent
  /\ program' = "trivial"
  /\ args' = <<Hello>>
  /\ ptr' = 0 /\ acked' = <<>> /\ todo' = Len(Hello)
  /\ mem' = file
  /\ Begun
  /\ pc' = "strcpy"
  /\ UNCHANGED <<mode, file, media, epoch, redo, fr, fsize>>

\* A store beyond the end of an empty file kills the process.
TrivialBus ==
  /\ pc = "strcpy" /\ program = "trivial" /\ fsize = 0
  /\ Fatal
  /\ UNCHANGED main

TrivialSync ==
  /\ pc = "strcpy" /\ todo = 0
  /\ program = "trivial"
  /\ pc' = "flush"
  /\ fr' = [NoCall EXCEPT !.len = Page]
  /\ UNCHANGED <<mode, bytes, epoch, redo, history, main>>

-----------------------------------------------------------------------------
(* What a run of basic without strings prints: the printable bytes, and one   *)
(* newline for the zeros after them.                                        *)

Dump(image) ==
  LET scan[k \in 0 .. Size] ==
        IF k = 0 THEN [out |-> <<>>, sep |-> FALSE]
        ELSE LET c == image[k - 1]
                 before == scan[k - 1]
             IN IF c # 0 THEN [out |-> Append(before.out, c), sep |-> TRUE]
                ELSE [out |-> IF before.sep THEN Append(before.out, NewLine) ELSE before.out,
                      sep |-> FALSE]
  IN scan[Size].out

-----------------------------------------------------------------------------
Init ==
  /\ LibInit
  /\ program = "basic" /\ fsize = Absent
  /\ args = <<>> /\ ptr = 0 /\ todo = 0 /\ acked = <<>>

Step ==
  \/ Allocate \/ MapFile \/ NextArg \/ Persist \/ Persisted \/ Done
  \/ TrivialBus \/ TrivialSync
  \/ StrcpyByte
  \/ (Library /\ UNCHANGED main)

\* A run in fit mode simulates a crash by the end of the process; what pwrite left
\* in the page cache is not safe from a real one.
RealCrash ==
  /\ PowerFail
  /\ acked' = IF mode = "fit" THEN <<>> ELSE acked
  /\ UNCHANGED <<program, fsize, args, ptr, todo>>

Next == Start \/ TrivialStart \/ Step \/ RealCrash \/ (Environment /\ UNCHANGED main)

Spec == Init /\ [][Next]_vars

-----------------------------------------------------------------------------
(* What the library promises its callers                                    *)

Images == [Addrs -> Nat]

TypeOK ==
  /\ mode \in Modes
  /\ mem \in Images /\ file \in Images /\ media \in Images /\ old \in Images
  /\ mode # "fit" => mem = file
  /\ thread \in {"none", "new", "running"} /\ persistSet \in BOOLEAN
  /\ Len(redo) <= LogSpace
  /\ asked \subseteq Addrs
  /\ fr.addr + fr.len <= Size
  /\ ptr <= Size /\ todo <= Size
  /\ fsize \in {Absent, 0, Size}

Held(a, image) == \A k \in 1 .. Len(a.text) : image[a.at + k - 1] = a.text[k]

\* A run in fit mode leaves what it flushed in the file, the others on the media.
Kept == IF mode = "fit" THEN file ELSE media

Lasting(a) == a.flags = "none" \/ ~NoDataPersist

\* A string is durable once pmem_persist, or its three parts, has returned: in
\* every mode, at every alignment, and whatever ends the process afterwards.
\* Only a _DATAPERSIST call of a -D_NODATAPERSIST build may have done nothing.
Durable == \A i \in 1 .. Len(acked) : Lasting(acked[i]) => Held(acked[i], Kept)

\* In cl mode pmem_persist flushes nothing that is not the last record of the
\* redo log, also when the log is full.
LoggedFirst ==
  pc \in {"flush.mode", "flush", "fence"} /\ mode = "cl" /\ fr.entry = "persist" =>
    IsSuffix(Record, redo)

\* Fault injection: what a run in fit mode leaves in the file differs from what
\* it found only on lines it asked to be flushed; every other store is dropped.
FitDropsUnflushed ==
  mode = "fit" => \A b \in Addrs \ asked : file[b] = old[b]

Printed(text) == IF Len(text) = 1 THEN <<>> ELSE Append(Front(text), NewLine)

\* Whatever ended the run, the next run without strings prints first the strings
\* that were made durable, in their order.
DumpStartsWithAcked ==
  (\A i \in 1 .. Len(acked) : Lasting(acked[i])) =>
    IsPrefix(FlattenSeq([i \in 1 .. Len(acked) |-> Printed(acked[i].text)]), Dump(Kept))
================================================================================
