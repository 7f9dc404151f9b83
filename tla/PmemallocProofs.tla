---------------------------- MODULE PmemallocProofs ----------------------------
(***************************************************************************)
(* Theorems about Pmemalloc, for every pool size, on-list length, request    *)
(* size, set of words and build.                                            *)
(***************************************************************************)
EXTENDS Pmemalloc, WellFoundedInduction, TLAPS

\* No header, live or left over from a merge, reaches past the end of the pool.
HeadersOK ==
  /\ hdr \in [Chunks -> Header] /\ phdr \in [Chunks -> Header]
  /\ \A p \in Chunks : p + hdr[p].size <= N /\ p + phdr[p].size <= N

CellsOK == cell \in [Cells -> Ptrs] /\ pcell \in [Cells -> Ptrs]

RunPcs   == {"recover.run", "activate.run", "free.run"}
ClearPcs == {"recover.clear", "activate.clear", "free.clear"}

\* What the locals of a running call satisfy.
FrameOK ==
  /\ fr \in Frame
  /\ pc \in InCall => fr.clp \in Chunks
  /\ pc \in RunPcs => fr.k \in 1 .. NumOn + 1
  /\ pc \in ClearPcs => fr.k \in 0 .. NumOn
  /\ pc \in {"onactive.off", "onfree.off"} => fr.k \in Slots
  /\ pc = "coalesce" => IF fr.first = Null THEN fr.csize = 0
                                           ELSE fr.first + fr.csize = fr.clp
  /\ pc = "reserve.split" => fr.nsize + 2 <= hdr[fr.clp].size /\ fr.csize = fr.nsize
  /\ pc \in {"reserve.clear", "reserve.claim"} => fr.clp + fr.csize <= N

RestOK ==
  /\ file \in BOOLEAN /\ persistSet \in BOOLEAN
  /\ pc \in {"down", "create", "fsync", "idle"} \cup InCall
  /\ gclp \in Ptrs
  /\ handles \subseteq Chunks
  /\ freed \in BOOLEAN

TypeInv == HeadersOK /\ CellsOK /\ FrameOK /\ RestOK

-----------------------------------------------------------------------------
(* Lemmas about headers                                                     *)

LEMMA ZeroedType == Zeroed \in Header /\ Zeroed.size = 0
BY NAssumption DEF Zeroed, Header, Entry, States, Ptrs, Null

LEMMA WithType ==
  ASSUME HeadersOK, NEW p \in Chunks, NEW i \in Slots,
         NEW c \in Cells \cup {None}, NEW v \in Ptrs
  PROVE  /\ WithOff(p, i, c) \in Header /\ WithOff(p, i, c).size = hdr[p].size
         /\ WithPtr(p, i, v) \in Header /\ WithPtr(p, i, v).size = hdr[p].size
<1> DEFINE on == hdr[p].on
<1>1. hdr[p] \in Header
  BY DEF HeadersOK
<1>2. on \in [Slots -> Entry] /\ on[i] \in Entry
  BY <1>1 DEF Header
<1>3. [on[i] EXCEPT !.off = c] \in Entry /\ [on[i] EXCEPT !.ptr = v] \in Entry
  BY <1>2 DEF Entry
<1>4. /\ [on EXCEPT ![i] = [on[i] EXCEPT !.off = c]] \in [Slots -> Entry]
      /\ [on EXCEPT ![i] = [on[i] EXCEPT !.ptr = v]] \in [Slots -> Entry]
  BY <1>2, <1>3
<1>5. /\ WithOff(p, i, c) = [hdr[p] EXCEPT !.on = [on EXCEPT ![i] = [on[i] EXCEPT !.off = c]]]
      /\ WithPtr(p, i, v) = [hdr[p] EXCEPT !.on = [on EXCEPT ![i] = [on[i] EXCEPT !.ptr = v]]]
  BY Zenon DEF WithOff, WithPtr
<1> HIDE DEF on
<1>6. QED
  BY <1>1, <1>4, <1>5 DEF Header

LEMMA InStateType ==
  ASSUME HeadersOK, NEW p \in Chunks, NEW s \in States
  PROVE  InState(p, s) \in Header /\ InState(p, s).size = hdr[p].size
BY DEF HeadersOK, InState, Header

LEMMA FrameType == NoFrame \in Frame
BY NAssumption, NumOnAssumption DEF NoFrame, Frame, Ptrs

LEMMA StoreOK ==
  ASSUME HeadersOK, NEW p \in Chunks, NEW h \in Header, p + h.size <= N,
         hdr' = [hdr EXCEPT ![p] = h],
         phdr' = phdr \/ phdr' = [phdr EXCEPT ![p] = hdr'[p]]
  PROVE  HeadersOK'
BY DEF HeadersOK

LEMMA CommitOK ==
  ASSUME HeadersOK, NEW p \in Chunks, NEW h \in Header, p + h.size <= N,
         NEW lazy, Commit(p, h, lazy)
  PROVE  HeadersOK'
BY StoreOK DEF Commit, Persist

LEMMA CommitSameOK ==
  ASSUME HeadersOK, NEW p \in Chunks, NEW h \in Header, h.size = hdr[p].size,
         NEW lazy, Commit(p, h, lazy)
  PROVE  HeadersOK'
BY CommitOK DEF HeadersOK

-----------------------------------------------------------------------------
(* Lemmas about the steps several calls share                               *)

LEMMA RunOnOK ==
  ASSUME TypeInv, NEW here \in RunPcs, NEW next \in ClearPcs, NEW lazy,
         RunOn(here, next, lazy)
  PROVE  TypeInv'
<1> DEFINE on == hdr[fr.clp].on
           more == fr.k <= NumOn /\ on[fr.k].off # None
<1> USE DEF TypeInv
<1>1. /\ fr \in Frame /\ fr.clp \in Chunks /\ fr.k \in 1 .. NumOn + 1
      /\ pc = here /\ UNCHANGED <<hdr, phdr, proc, env>>
  BY DEF FrameOK, RunPcs, InCall, RunOn
<1>2. HeadersOK' /\ gclp' = gclp /\ handles' = handles /\ freed' = freed
      /\ file' = file /\ persistSet' = persistSet
  BY <1>1 DEF HeadersOK, proc, env
<1>3. CASE more
  <2>1. /\ Assign(on[fr.k], lazy)
        /\ fr' = [fr EXCEPT !.k = fr.k + 1]
        /\ pc' = pc
    BY <1>3 DEF RunOn
  <2>2. on[fr.k] \in Entry /\ fr.k \in Slots
    BY <1>1, <1>3, NumOnAssumption DEF HeadersOK, Header, Slots
  <2>3. on[fr.k].off \in Cells /\ on[fr.k].ptr \in Ptrs
    BY <2>2, <1>3 DEF Entry
  <2> HIDE DEF on
  <2>4. CellsOK'
    BY <2>1, <2>3 DEF CellsOK, Assign, WrittenBack
  <2>5. FrameOK'
    BY <2>1, <2>2, <1>1, NumOnAssumption DEF FrameOK, Frame, RunPcs, ClearPcs, InCall, Slots
  <2>6. RestOK'
    BY <2>1, <1>2 DEF RestOK
  <2>7. QED
    BY <1>2, <2>4, <2>5, <2>6
<1>4. CASE ~more
  <2>1. fr' = [fr EXCEPT !.k = NumOn] /\ pc' = next /\ UNCHANGED <<cell, pcell>>
    BY <1>4 DEF RunOn
  <2>2. CellsOK'
    BY <2>1 DEF CellsOK
  <2>3. FrameOK'
    BY <2>1, <1>1, NumOnAssumption DEF FrameOK, Frame, RunPcs, ClearPcs, InCall
  <2>4. RestOK'
    BY <2>1, <1>2 DEF RestOK, ClearPcs, InCall
  <2>5. QED
    BY <1>2, <2>2, <2>3, <2>4
<1>5. QED
  BY <1>3, <1>4

LEMMA ClearOnOK ==
  ASSUME TypeInv, NEW here \in ClearPcs,
         NEW next \in {"recover.done", "activate.done", "free.done"},
         ClearOn(here, next)
  PROVE  TypeInv'
<1> USE DEF TypeInv
<1>1. /\ fr \in Frame /\ fr.clp \in Chunks /\ fr.k \in 0 .. NumOn
      /\ pc = here /\ UNCHANGED <<cell, pcell, proc, env>>
  BY DEF FrameOK, ClearPcs, InCall, ClearOn
<1>2. CellsOK' /\ gclp' = gclp /\ handles' = handles /\ freed' = freed
      /\ file' = file /\ persistSet' = persistSet
  BY <1>1 DEF CellsOK, proc, env
<1>3. CASE fr.k >= 1
  <2>1. /\ hdr' = [hdr EXCEPT ![fr.clp] = WithOff(fr.clp, fr.k, None)]
        /\ fr' = [fr EXCEPT !.k = fr.k - 1]
        /\ pc' = pc /\ phdr' = phdr
    BY <1>3 DEF ClearOn
  <2>2. fr.k \in Slots
    BY <1>1, <1>3, NumOnAssumption DEF Slots
  <2>3. WithOff(fr.clp, fr.k, None) \in Header
        /\ WithOff(fr.clp, fr.k, None).size = hdr[fr.clp].size
    BY <1>1, <2>2, WithType, NAssumption DEF Ptrs
  <2>4. HeadersOK'
    BY <1>1, <2>1, <2>3, StoreOK DEF HeadersOK
  <2>5. FrameOK'
    BY <2>1, <1>1, <1>3, NumOnAssumption DEF FrameOK, Frame, RunPcs, ClearPcs, InCall
  <2>6. RestOK'
    BY <2>1, <1>2 DEF RestOK
  <2>7. QED
    BY <1>2, <2>4, <2>5, <2>6
<1>4. CASE ~(fr.k >= 1)
  <2>1. hdr' = hdr /\ Persist(fr.clp, FALSE) /\ pc' = next /\ fr' = fr
    BY <1>4 DEF ClearOn
  <2>2. HeadersOK'
    BY <2>1, <1>1 DEF HeadersOK, Persist
  <2>3. FrameOK'
    BY <2>1, <1>1 DEF FrameOK, RunPcs, ClearPcs, InCall
  <2>4. RestOK'
    BY <2>1, <1>2 DEF RestOK, InCall
  <2>5. QED
    BY <1>2, <2>2, <2>3, <2>4
<1>5. QED
  BY <1>3, <1>4

LEMMA GoneOK ==
  ASSUME TypeInv, ProcessGone, HeadersOK', CellsOK', file' \in BOOLEAN,
         persistSet' = persistSet
  PROVE  TypeInv'
<1>1. FrameOK'
  BY FrameType DEF ProcessGone, FrameOK, InCall, RunPcs, ClearPcs
<1>2. gclp' \in Ptrs
  BY NAssumption DEF ProcessGone, Null, Ptrs
<1>3. RestOK'
  BY <1>2, Zenon DEF TypeInv, ProcessGone, RestOK
<1>4. QED
  BY <1>1, <1>3 DEF TypeInv

LEMMA FatalOK == ASSUME TypeInv, Fatal PROVE TypeInv'
<1>1. HeadersOK' /\ CellsOK' /\ file' \in BOOLEAN /\ persistSet' = persistSet
  BY DEF Fatal, TypeInv, HeadersOK, CellsOK, RestOK, image, env
<1>2. QED
  BY <1>1, GoneOK DEF Fatal

\* A step that leaves memory and process globals alone.
LEMMA QuietOK ==
  ASSUME TypeInv, UNCHANGED <<image, proc, env>>
  PROVE  /\ HeadersOK' /\ CellsOK'
         /\ pc' \in {"down", "create", "fsync", "idle"} \cup InCall => RestOK'
BY DEF TypeInv, HeadersOK, CellsOK, RestOK, image, proc, env

\* A step that commits one header of unchanged size and leaves the rest alone.
LEMMA HeaderStepOK ==
  ASSUME TypeInv, UNCHANGED <<cell, pcell, proc, env>>
  PROVE  /\ CellsOK'
         /\ pc' \in {"down", "create", "fsync", "idle"} \cup InCall => RestOK'
BY DEF TypeInv, CellsOK, RestOK, proc, env

LEMMA PutPtrOK ==
  ASSUME TypeInv, NEW p \in Chunks, NEW c \in Cells, NEW v \in Ptrs, NEW lazy,
         NEW next \in {"onactive.off", "onfree.off"}, PutPtr(p, c, v, lazy, next)
  PROVE  TypeInv'
<1>1. CASE FreeSlots(p) = {}
  BY <1>1, FatalOK DEF PutPtr
<1>2. CASE FreeSlots(p) # {}
  <2>1. PICK i \in FreeSlots(p) :
          /\ Commit(p, WithPtr(p, i, v), lazy)
          /\ pc' = next
          /\ fr' = [NoFrame EXCEPT !.clp = p, !.k = i, !.dest = c]
          /\ UNCHANGED <<cell, pcell, proc, env>>
    BY <1>2 DEF PutPtr
  <2>2. i \in Slots
    BY DEF FreeSlots
  <2>3. HeadersOK'
    BY <2>1, <2>2, WithType, CommitSameOK DEF TypeInv
  <2>4. FrameOK'
    <3>1. 0 \in Ptrs /\ p \in Ptrs /\ i \in 0 .. NumOn + 1
      BY <2>2, NumOnAssumption, NAssumption DEF Slots, Ptrs, Chunks
    <3>2. fr' \in Frame
      BY <2>1, <3>1, FrameType DEF Frame
    <3>3. fr'.clp = p /\ fr'.k = i
      BY <2>1, FrameType DEF Frame
    <3>4. QED
      BY <2>1, <2>2, <3>2, <3>3 DEF FrameOK, InCall, RunPcs, ClearPcs
  <2>5. CellsOK' /\ RestOK'
    BY <2>1, HeaderStepOK DEF InCall
  <2>6. QED
    BY <2>3, <2>4, <2>5 DEF TypeInv
<1>3. QED
  BY <1>1, <1>2

LEMMA PutOffOK ==
  ASSUME TypeInv, NEW here \in {"onactive.off", "onfree.off"}, PutOff(here)
  PROVE  TypeInv'
<1>1. /\ fr.clp \in Chunks /\ fr.k \in Slots /\ fr.dest \in Cells \cup {None}
  BY DEF PutOff, TypeInv, FrameOK, InCall, Frame
<1> DEFINE h == WithOff(fr.clp, fr.k, fr.dest)
<1>2. 0 \in Ptrs
  BY NAssumption DEF Ptrs
<1>3. HeadersOK /\ Commit(fr.clp, h, FALSE)
  BY Zenon DEF PutOff, TypeInv
<1>4. h \in Header /\ h.size = hdr[fr.clp].size
  BY <1>1, <1>2, <1>3, WithType
<1> HIDE DEF h
<1>5. HeadersOK'
  BY <1>1, <1>3, <1>4, CommitSameOK
<1>6. FrameOK'
  BY FrameType DEF PutOff, Return, FrameOK, InCall, RunPcs, ClearPcs
<1>7. QED
  BY <1>5, <1>6, HeaderStepOK DEF PutOff, Return, TypeInv

-----------------------------------------------------------------------------
(* One lemma per part of the next-state relation                            *)

LEMMA InitOK == ASSUME TypeInv, Create \/ CreateClump \/ CreateSync \/ Open
                PROVE  TypeInv'
<1>1. 1 \in Chunks /\ N \in Chunks /\ 0 \in Ptrs /\ 1 \in Ptrs
  BY NAssumption DEF Chunks, Ptrs
<1>2. [NoFrame EXCEPT !.clp = 1] \in Frame
      /\ [NoFrame EXCEPT !.clp = 1].clp = 1
      /\ NoFrame \in Frame
  BY <1>1, FrameType DEF Frame
<1>3. CASE Create
  <2>1. HeadersOK'
    BY <1>3, ZeroedType, NAssumption DEF Create, HeadersOK, Chunks
  <2>2. CellsOK'
    BY <1>3, <1>1 DEF Create, CellsOK, Null
  <2>3. FrameOK'
    BY <1>3 DEF Create, TypeInv, FrameOK, InCall, RunPcs, ClearPcs
  <2>4. RestOK'
    BY <1>3, Zenon DEF Create, TypeInv, RestOK, proc
  <2>5. QED
    BY <2>1, <2>2, <2>3, <2>4 DEF TypeInv
<1>4. CASE CreateClump
  <2> DEFINE z == [Zeroed EXCEPT !.size = N - 1]
  <2>1. z \in Header /\ z.size = N - 1
    BY ZeroedType, NAssumption DEF Header, Ptrs
  <2>2. HeadersOK'
    <3>1. hdr' = [hdr EXCEPT ![1] = z] /\ phdr' = phdr /\ HeadersOK
      BY <1>4 DEF CreateClump, TypeInv
    <3>2. 1 + z.size <= N
      BY <2>1, NAssumption
    <3> HIDE DEF z
    <3>3. QED
      BY <1>1, <2>1, <3>1, <3>2, StoreOK
  <2>3. CellsOK' /\ RestOK'
    BY <1>4 DEF CreateClump, TypeInv, CellsOK, RestOK, proc, env
  <2>4. FrameOK'
    BY <1>4 DEF CreateClump, TypeInv, FrameOK, InCall, RunPcs, ClearPcs
  <2>5. QED
    BY <2>2, <2>3, <2>4 DEF TypeInv
<1>5. CASE CreateSync
  <2>1. HeadersOK' /\ CellsOK' /\ RestOK'
    BY <1>5 DEF CreateSync, StartRecover, TypeInv, HeadersOK, CellsOK, RestOK, proc, env,
                InCall
  <2>2. FrameOK'
    BY <1>1, <1>2, <1>5 DEF CreateSync, StartRecover, FrameOK, InCall, RunPcs, ClearPcs
  <2>3. QED
    BY <2>1, <2>2 DEF TypeInv
<1>6. CASE Open
  <2>1. HeadersOK' /\ CellsOK'
    BY <1>6 DEF Open, TypeInv, HeadersOK, CellsOK, image
  <2>2. RestOK'
    BY <1>6 DEF Open, StartRecover, TypeInv, RestOK, proc, InCall
  <2>3. FrameOK'
    BY <1>1, <1>2, <1>6 DEF Open, StartRecover, FrameOK, InCall, RunPcs, ClearPcs
  <2>4. QED
    BY <2>1, <2>2, <2>3 DEF TypeInv
<1>7. QED
  BY <1>3, <1>4, <1>5, <1>6

LEMMA StartCoalesceOK == ASSUME TypeInv, StartCoalesce PROVE FrameOK' /\ pc' \in InCall
<1>1. 1 \in Chunks /\ 0 \in Ptrs /\ 1 \in Ptrs
  BY NAssumption DEF Chunks, Ptrs
<1>2. LazyNow \in BOOLEAN
  BY FlagsAssumption DEF LazyNow
<1>3. /\ fr' = [NoFrame EXCEPT !.clp = 1, !.lazy = LazyNow]
      /\ pc' = "coalesce"
  BY DEF StartCoalesce
<1>4. /\ fr' \in Frame /\ fr'.clp = 1 /\ fr'.first = 0 /\ fr'.csize = 0
  <2>1. NoFrame.first = 0 /\ NoFrame.csize = 0
    BY DEF NoFrame
  <2> HIDE DEF LazyNow
  <2>2. QED
    BY <1>1, <1>2, <1>3, <2>1, FrameType DEF Frame
<1>5. QED
  BY <1>1, <1>3, <1>4 DEF FrameOK, InCall, RunPcs, ClearPcs, Null

LEMMA RecoverOK ==
  ASSUME TypeInv, RecoverClump \/ RecoverRun \/ RecoverClear \/ RecoverDone
  PROVE  TypeInv'
<1>1. CASE RecoverClump
  <2> DEFINE h == hdr[fr.clp]
  <2>1. /\ fr \in Frame /\ fr.clp \in Chunks /\ h \in Header
        /\ fr.clp + h.size <= N /\ pc = "recover"
    BY <1>1 DEF RecoverClump, TypeInv, FrameOK, HeadersOK, InCall
  <2>2. HeadersOK' /\ CellsOK'
        /\ (pc' \in {"down", "create", "fsync", "idle"} \cup InCall => RestOK')
    BY <1>1, QuietOK DEF RecoverClump
  <2>3. CASE StartCoalesce
    BY <2>2, <2>3, StartCoalesceOK DEF TypeInv
  <2>4. CASE fr' = [fr EXCEPT !.clp = fr.clp + h.size] /\ pc' = pc
    <3>1. fr' \in Frame /\ fr'.clp \in Chunks
      BY <2>1, <2>4, NAssumption DEF Frame, Header, Ptrs, Chunks
    <3>2. QED
      BY <2>1, <2>2, <2>4, <3>1 DEF TypeInv, FrameOK, InCall, RunPcs, ClearPcs
  <2>5. CASE fr' = [fr EXCEPT !.k = NumOn] /\ pc' = "recover.clear"
    <3>1. fr' \in Frame /\ fr'.clp \in Chunks /\ fr'.k \in 0 .. NumOn
      BY <2>1, <2>5, NumOnAssumption DEF Frame
    <3>2. QED
      BY <2>2, <2>5, <3>1 DEF TypeInv, FrameOK, InCall, RunPcs, ClearPcs
  <2>6. CASE fr' = [fr EXCEPT !.k = 1] /\ pc' = "recover.run"
    <3>1. fr' \in Frame /\ fr'.clp \in Chunks /\ fr'.k \in 1 .. NumOn + 1
      BY <2>1, <2>6, NumOnAssumption DEF Frame
    <3>2. QED
      BY <2>2, <2>6, <3>1 DEF TypeInv, FrameOK, InCall, RunPcs, ClearPcs
  <2>7. QED
    BY <1>1, <2>3, <2>4, <2>5, <2>6 DEF RecoverClump
<1>2. CASE RecoverRun
  BY <1>2, RunOnOK DEF RecoverRun, RunPcs, ClearPcs
<1>3. CASE RecoverClear
  BY <1>3, ClearOnOK DEF RecoverClear, ClearPcs
<1>4. CASE RecoverDone
  <2> DEFINE h == hdr[fr.clp]
             s == IF h.state = "ACTIVATING" THEN "ACTIVE" ELSE "FREE"
  <2>1. /\ fr \in Frame /\ fr.clp \in Chunks /\ h \in Header
        /\ fr.clp + h.size <= N
    BY <1>4 DEF RecoverDone, TypeInv, FrameOK, HeadersOK, InCall
  <2>2. /\ Commit(fr.clp, InState(fr.clp, s), FALSE)
        /\ fr' = [NoFrame EXCEPT !.clp = fr.clp + h.size]
        /\ pc' = "recover"
        /\ UNCHANGED <<cell, pcell, proc, env>>
    BY <1>4, Zenon DEF RecoverDone
  <2>3. s \in States
    BY DEF States
  <2> HIDE DEF s
  <2>4. HeadersOK'
    BY <2>1, <2>2, <2>3, InStateType, CommitSameOK DEF TypeInv
  <2>5. fr' \in Frame /\ fr'.clp \in Chunks
    BY <2>1, <2>2, FrameType, NAssumption DEF Frame, Header, Ptrs, Chunks
  <2>6. FrameOK'
    BY <2>2, <2>5 DEF FrameOK, InCall, RunPcs, ClearPcs
  <2>7. CellsOK' /\ RestOK'
    BY <2>2, HeaderStepOK DEF InCall
  <2>8. QED
    BY <2>4, <2>6, <2>7 DEF TypeInv
<1>5. QED
  BY <1>1, <1>2, <1>3, <1>4

LEMMA CoalesceOK == ASSUME TypeInv, CoalesceStep \/ CoalesceEnd PROVE TypeInv'
<1> DEFINE h == hdr[fr.clp]
<1>1. /\ fr \in Frame /\ fr.clp \in Chunks /\ h \in Header
      /\ fr.clp + h.size <= N /\ pc = "coalesce"
      /\ IF fr.first = Null THEN fr.csize = 0 ELSE fr.first + fr.csize = fr.clp
  BY DEF CoalesceStep, CoalesceEnd, TypeInv, FrameOK, HeadersOK, InCall
<1>2. ASSUME NEW lazy, Merge(lazy)
      PROVE  HeadersOK'
  <2>1. CASE RunOfTwo
    <3> DEFINE m == [hdr[fr.first] EXCEPT !.size = fr.csize, !.state = "FREE"]
    <3>1. Commit(fr.first, m, lazy)
      BY <1>2, <2>1 DEF Merge
    <3>2. fr.first \in Chunks /\ fr.csize \in Ptrs /\ fr.first + fr.csize <= N
      BY <1>1, <2>1, NAssumption DEF RunOfTwo, Frame, Ptrs, Chunks, Null
    <3>3. hdr[fr.first] \in Header
      BY <3>2 DEF TypeInv, HeadersOK
    <3>4. m \in Header /\ m.size = fr.csize
      BY <3>2, <3>3 DEF Header, States
    <3> HIDE DEF m
    <3>5. QED
      BY <3>1, <3>2, <3>4, CommitOK DEF TypeInv
  <2>2. CASE ~RunOfTwo
    BY <1>2, <2>2 DEF Merge, TypeInv, HeadersOK
  <2>3. QED
    BY <2>1, <2>2
<1>3. CASE CoalesceStep
  <2>1. UNCHANGED <<cell, pcell, proc, env>> /\ pc' = pc /\ h.size # 0
    BY <1>3 DEF CoalesceStep
  <2>2. CellsOK' /\ RestOK'
    BY <1>1, <2>1, HeaderStepOK DEF InCall
  <2>3. HeadersOK'
    <3>1. CASE UNCHANGED <<hdr, phdr>>
      BY <3>1 DEF TypeInv, HeadersOK
    <3>2. CASE Merge(fr.lazy)
      BY <3>2, <1>2
    <3>3. QED
      BY <1>3, <3>1, <3>2 DEF CoalesceStep
  <2>4. CASE fr' = [fr EXCEPT !.first = IF fr.first = Null THEN fr.clp ELSE fr.first,
                              !.last = IF fr.first = Null THEN fr.last ELSE fr.clp,
                              !.csize = fr.csize + h.size,
                              !.clp = fr.clp + h.size]
    <3>0. fr.clp + h.size \in Chunks /\ fr.clp + h.size \in Ptrs /\ 0 \in Ptrs
      BY <1>1, NAssumption DEF Header, Ptrs, Chunks
    <3>1. /\ fr' \in Frame /\ fr'.clp \in Chunks
          /\ fr'.first # Null /\ fr'.first + fr'.csize = fr'.clp
      <4> DEFINE f == IF fr.first = Null THEN fr.clp ELSE fr.first
                 l == IF fr.first = Null THEN fr.last ELSE fr.clp
      <4>1. f \in Ptrs /\ l \in Ptrs /\ f # Null /\ fr.csize + h.size \in Ptrs
            /\ f + (fr.csize + h.size) = fr.clp + h.size
        BY <1>1, NAssumption DEF Frame, Header, Ptrs, Chunks, Null
      <4> HIDE DEF f, l
      <4>2. QED
        BY <1>1, <2>4, <3>0, <4>1 DEF Frame, f, l
    <3>2. QED
      BY <2>1, <2>2, <2>3, <3>1, <1>1 DEF TypeInv, FrameOK, InCall, RunPcs, ClearPcs
  <2>5. CASE fr' = [fr EXCEPT !.first = Null, !.last = Null, !.csize = 0,
                              !.clp = fr.clp + h.size]
    <3>0. fr.clp + h.size \in Chunks /\ fr.clp + h.size \in Ptrs /\ 0 \in Ptrs
      BY <1>1, NAssumption DEF Header, Ptrs, Chunks
    <3>1. /\ fr' \in Frame /\ fr'.clp \in Chunks /\ fr'.first = Null /\ fr'.csize = 0
      BY <1>1, <2>5, <3>0 DEF Frame, Null
    <3>2. QED
      BY <2>1, <2>2, <2>3, <3>1, <1>1 DEF TypeInv, FrameOK, InCall, RunPcs, ClearPcs
  <2>6. QED
    BY <1>3, <2>4, <2>5 DEF CoalesceStep
<1>4. CASE CoalesceEnd
  <2>1. Merge(FALSE) /\ Return /\ UNCHANGED <<cell, pcell, proc, env>>
    BY <1>4, Zenon DEF CoalesceEnd
  <2>2. HeadersOK'
    BY <2>1, <1>2
  <2>3. FrameOK'
    BY <2>1, FrameType DEF Return, FrameOK, InCall, RunPcs, ClearPcs
  <2>4. CellsOK' /\ RestOK'
    BY <2>1, HeaderStepOK DEF Return
  <2>5. QED
    BY <2>2, <2>3, <2>4 DEF TypeInv
<1>5. QED
  BY <1>3, <1>4

LEMMA RequestType == ASSUME NEW size \in Requests PROVE NSize(size) \in Nat /\ NSize(size) >= 1
BY RequestsAssumption, SMT DEF NSize

LEMMA ReserveOK ==
  ASSUME TypeInv,
         \/ \E size \in Requests : Reserve(size)
         \/ ReserveScan \/ ReserveSplit \/ ReserveClear \/ ReserveClaim
  PROVE  TypeInv'
<1> DEFINE h == hdr[fr.clp]
<1>1. /\ fr \in Frame
      /\ pc \in InCall => fr.clp \in Chunks /\ h \in Header /\ fr.clp + h.size <= N
  BY DEF TypeInv, FrameOK, HeadersOK
<1>2. ASSUME NEW size \in Requests, Reserve(size)
      PROVE  TypeInv'
  <2> DEFINE start == IF gclp = Null THEN 1 ELSE gclp
  <2>1. CASE Fatal
    BY <2>1, FatalOK
  <2>2. CASE /\ pc' = "reserve.scan"
             /\ fr' = [NoFrame EXCEPT !.clp = start, !.nsize = NSize(size)]
             /\ UNCHANGED <<image, proc, env>>
    <3>1. start \in Chunks /\ start \in Ptrs
      BY NAssumption DEF TypeInv, RestOK, Ptrs, Chunks, Null
    <3>2. NSize(size) \in Nat
      BY RequestType
    <3> HIDE DEF start, NSize
    <3>3. fr' \in Frame /\ fr'.clp \in Chunks
      BY <2>2, <3>1, <3>2, FrameType DEF Frame
    <3>4. FrameOK'
      BY <2>2, <3>3 DEF FrameOK, InCall, RunPcs, ClearPcs
    <3>5. QED
      BY <2>2, <3>4, QuietOK DEF TypeInv, InCall
  <2>3. QED
    BY <1>2, <2>1, <2>2 DEF Reserve
<1>3. CASE ReserveScan
  <2>1. pc = "reserve.scan" /\ UNCHANGED <<image, proc, env>>
    BY <1>3 DEF ReserveScan
  <2>2. fr.clp \in Chunks /\ h \in Header /\ fr.clp + h.size <= N
    BY <1>1, <2>1 DEF InCall
  <2>3. HeadersOK' /\ CellsOK' /\ hdr' = hdr
        /\ (pc' \in {"down", "create", "fsync", "idle"} \cup InCall => RestOK')
    BY <2>1, QuietOK DEF image
  <2>4. CASE Return
    BY <2>3, <2>4, FrameType DEF TypeInv, Return, FrameOK, InCall, RunPcs, ClearPcs
  <2>5. CASE /\ fr.nsize <= h.size
             /\ pc' = IF h.size - fr.nsize >= 2 THEN "reserve.split" ELSE "reserve.clear"
             /\ fr' = [fr EXCEPT !.csize = IF h.size - fr.nsize >= 2
                                             THEN fr.nsize ELSE h.size]
    <3>1. /\ fr' \in Frame /\ fr'.clp = fr.clp /\ fr'.nsize = fr.nsize
          /\ fr'.clp + fr'.csize <= N
          /\ h.size - fr.nsize >= 2 => fr'.csize = fr.nsize /\ fr.nsize + 2 <= h.size
      BY <1>1, <2>2, <2>5, NAssumption DEF Frame, Header, Ptrs, Chunks
    <3>2. QED
      BY <2>2, <2>3, <2>5, <3>1 DEF TypeInv, FrameOK, InCall, RunPcs, ClearPcs
  <2>6. CASE fr' = [fr EXCEPT !.clp = fr.clp + h.size] /\ pc' = pc
    <3>1. fr' \in Frame /\ fr'.clp \in Chunks
      BY <1>1, <2>2, <2>6, NAssumption DEF Frame, Header, Ptrs, Chunks
    <3>2. QED
      BY <2>1, <2>3, <2>6, <3>1 DEF TypeInv, FrameOK, InCall, RunPcs, ClearPcs
  <2>7. QED
    BY <1>3, <2>4, <2>5, <2>6 DEF ReserveScan
<1>4. CASE ReserveSplit
  <2> DEFINE z == [Zeroed EXCEPT !.size = h.size - fr.nsize]
             q == fr.clp + fr.nsize
  <2>1. /\ pc = "reserve.split" /\ Commit(q, z, FALSE)
        /\ pc' = "reserve.clear" /\ fr' = fr /\ UNCHANGED <<cell, pcell, proc, env>>
    BY <1>4, Zenon DEF ReserveSplit
  <2>2. /\ fr.clp \in Chunks /\ h \in Header /\ fr.clp + h.size <= N
        /\ fr.nsize + 2 <= h.size /\ fr.csize = fr.nsize /\ fr.nsize \in Nat
    BY <1>1, <2>1 DEF InCall, TypeInv, FrameOK, Frame
  <2>3. q \in Chunks /\ h.size - fr.nsize \in Ptrs
    BY <2>2, NAssumption DEF Chunks, Ptrs, Header
  <2>4. z \in Header /\ z.size = h.size - fr.nsize /\ q + z.size <= N
    BY <2>2, <2>3, ZeroedType, NAssumption DEF Header, Ptrs, Chunks
  <2> HIDE DEF z, q
  <2>5. HeadersOK'
    BY <2>1, <2>3, <2>4, CommitOK DEF TypeInv
  <2>6. FrameOK'
    BY <1>1, <2>1, <2>2, NAssumption
    DEF FrameOK, InCall, RunPcs, ClearPcs, Chunks, Header, Ptrs
  <2>7. QED
    BY <2>1, <2>5, <2>6, HeaderStepOK DEF TypeInv, InCall
<1>5. CASE ReserveClear
  <2> DEFINE z == [h EXCEPT !.on = Zeroed.on]
  <2>1. /\ pc = "reserve.clear" /\ Commit(fr.clp, z, FALSE)
        /\ pc' = "reserve.claim" /\ fr' = fr /\ UNCHANGED <<cell, pcell, proc, env>>
    BY <1>5, Zenon DEF ReserveClear
  <2>2. fr.clp \in Chunks /\ h \in Header /\ fr.clp + fr.csize <= N
    BY <1>1, <2>1 DEF InCall, TypeInv, FrameOK
  <2>3. z \in Header /\ z.size = h.size
    BY <2>2, ZeroedType DEF Header
  <2> HIDE DEF z
  <2>4. HeadersOK'
    BY <2>1, <2>2, <2>3, CommitSameOK DEF TypeInv
  <2>5. FrameOK'
    BY <1>1, <2>1, <2>2 DEF FrameOK, InCall, RunPcs, ClearPcs
  <2>6. QED
    BY <2>1, <2>4, <2>5, HeaderStepOK DEF TypeInv, InCall
<1>6. CASE ReserveClaim
  <2> DEFINE z == [h EXCEPT !.size = fr.csize, !.state = "RESERVED"]
  <2>1. /\ pc = "reserve.claim" /\ Commit(fr.clp, z, FALSE) /\ Return
        /\ gclp' = fr.clp /\ handles' = handles \cup {fr.clp}
        /\ UNCHANGED <<cell, pcell, freed, env>>
    BY <1>6, Zenon DEF ReserveClaim
  <2>2. /\ fr.clp \in Chunks /\ fr.clp \in Ptrs /\ h \in Header
        /\ fr.csize \in Ptrs /\ fr.clp + fr.csize <= N
    BY <1>1, <2>1 DEF InCall, TypeInv, FrameOK, Frame
  <2>3. z \in Header /\ z.size = fr.csize
    BY <2>2 DEF Header, States
  <2> HIDE DEF z
  <2>4. HeadersOK'
    BY <2>1, <2>2, <2>3, CommitOK DEF TypeInv
  <2>5. FrameOK'
    BY <2>1, FrameType DEF Return, FrameOK, InCall, RunPcs, ClearPcs
  <2>6. CellsOK' /\ RestOK'
    BY <2>1, <2>2 DEF TypeInv, CellsOK, RestOK, Return, env
  <2>7. QED
    BY <2>4, <2>5, <2>6 DEF TypeInv
<1>7. QED
  BY <1>2, <1>3, <1>4, <1>5, <1>6

LEMMA KnownType == ASSUME TypeInv PROVE Known \subseteq Chunks /\ Chunks \subseteq Ptrs
<1>1. \A c \in Roots : cell[c] \in Ptrs
  BY DEF Roots, TypeInv, CellsOK
<1>2. Ptrs \ {Null} \subseteq Chunks
  BY NAssumption DEF Ptrs, Chunks, Null
<1>3. handles \subseteq Chunks
  BY DEF TypeInv, RestOK
<1>4. Known \subseteq Chunks
  BY <1>1, <1>2, <1>3 DEF Known
<1>5. QED
  BY <1>4, NAssumption DEF Chunks, Ptrs

LEMMA OnListOK ==
  ASSUME TypeInv, CallOnActive \/ CallOnFree \/ OnActiveOff \/ OnFreeOff
  PROVE  TypeInv'
<1>1. Known \subseteq Chunks /\ Chunks \subseteq Ptrs /\ handles \subseteq Chunks
      /\ Roots \subseteq Cells /\ Null \in Ptrs
  BY KnownType, NAssumption DEF TypeInv, RestOK, Roots, Null, Ptrs
<1>2. CASE CallOnActive
  <2>1. PICK p \in handles, c \in Roots : PutPtr(p, c, p, FALSE, "onactive.off")
    BY <1>2, Zenon DEF CallOnActive, OnActive
  <2>2. QED
    BY <1>1, <2>1, PutPtrOK
<1>3. CASE CallOnFree
  <2>1. PICK p \in Known, c \in Roots : PutPtr(p, c, Null, LazyNow, "onfree.off")
    BY <1>3, Zenon DEF CallOnFree, OnFree
  <2>2. QED
    BY <1>1, <2>1, PutPtrOK
<1>4. CASE OnActiveOff
  BY <1>4, PutOffOK DEF OnActiveOff
<1>5. CASE OnFreeOff
  BY <1>5, PutOffOK DEF OnFreeOff
<1>6. QED
  BY <1>2, <1>3, <1>4, <1>5

\* A step that moves the clump at fr.clp to state s and goes on at next.
LEMMA SetStateOK ==
  ASSUME TypeInv, pc \in InCall, NEW s \in States, NEW lazy,
         Commit(fr.clp, InState(fr.clp, s), lazy)
  PROVE  HeadersOK'
<1>1. fr.clp \in Chunks
  BY DEF TypeInv, FrameOK
<1>2. QED
  BY <1>1, InStateType, CommitSameOK DEF TypeInv

LEMMA ActivateOK ==
  ASSUME TypeInv,
         CallActivate \/ ActivateBegin \/ ActivateRun \/ ActivateClear \/ ActivateDone
  PROVE  TypeInv'
<1>1. CASE CallActivate
  <2>1. PICK p \in handles : Activate(p)
    BY <1>1 DEF CallActivate
  <2>2. p \in Chunks /\ p \in Ptrs
    BY KnownType DEF TypeInv, RestOK
  <2>3. HeadersOK' /\ RestOK'
    <3> DEFINE next == p + hdr[p].size
    <3>1. /\ hdr' = hdr /\ phdr' = [phdr EXCEPT ![next] = hdr[next]]
          /\ UNCHANGED <<proc, env>> /\ pc' = "activate.begin"
      BY <2>1 DEF Activate
    <3>2. next \in Chunks
      BY <2>2 DEF TypeInv, HeadersOK, Header, Chunks, Ptrs
    <3> HIDE DEF next
    <3>3. HeadersOK'
      BY <3>1, <3>2 DEF TypeInv, HeadersOK
    <3>4. QED
      BY <3>1, <3>3 DEF TypeInv, RestOK, proc, env, InCall
  <2>4. CellsOK'
    BY <2>1 DEF Activate, TypeInv, CellsOK
  <2>5. fr' \in Frame /\ fr'.clp = p
    BY <2>1, <2>2, FrameType DEF Activate, Frame
  <2>6. FrameOK'
    BY <2>1, <2>2, <2>5 DEF Activate, FrameOK, InCall, RunPcs, ClearPcs
  <2>7. QED
    BY <2>3, <2>4, <2>6 DEF TypeInv
<1>2. CASE ActivateBegin
  <2>1. /\ pc = "activate.begin" /\ pc' = "activate.run" /\ fr' = [fr EXCEPT !.k = 1]
        /\ Commit(fr.clp, InState(fr.clp, "ACTIVATING"), FALSE)
        /\ UNCHANGED <<cell, pcell, proc, env>>
    BY <1>2, Zenon DEF ActivateBegin
  <2>2. HeadersOK'
    BY <2>1, SetStateOK DEF InCall, States
  <2>3. fr' \in Frame /\ fr'.clp = fr.clp /\ fr.clp \in Chunks /\ fr'.k \in 1 .. NumOn + 1
    BY <2>1, NumOnAssumption DEF TypeInv, FrameOK, Frame, InCall
  <2>4. FrameOK'
    BY <2>1, <2>3 DEF FrameOK, InCall, RunPcs, ClearPcs
  <2>5. QED
    BY <2>1, <2>2, <2>4, HeaderStepOK DEF TypeInv, InCall
<1>3. CASE ActivateRun
  BY <1>3, RunOnOK DEF ActivateRun, RunPcs, ClearPcs
<1>4. CASE ActivateClear
  BY <1>4, ClearOnOK DEF ActivateClear, ClearPcs
<1>5. CASE ActivateDone
  <2>1. /\ pc = "activate.done" /\ Return
        /\ Commit(fr.clp, InState(fr.clp, "ACTIVE"), FALSE)
        /\ UNCHANGED <<cell, pcell, proc, env>>
    BY <1>5, Zenon DEF ActivateDone
  <2>2. HeadersOK'
    BY <2>1, SetStateOK DEF InCall, States
  <2>3. FrameOK'
    BY <2>1, FrameType DEF Return, FrameOK, InCall, RunPcs, ClearPcs
  <2>4. QED
    BY <2>1, <2>2, <2>3, HeaderStepOK DEF TypeInv, Return
<1>6. QED
  BY <1>1, <1>2, <1>3, <1>4, <1>5

LEMMA FreeOK ==
  ASSUME TypeInv, CallFree \/ FreeBegin \/ FreeRun \/ FreeClear \/ FreeDone
  PROVE  TypeInv'
<1>1. CASE CallFree
  <2>1. PICK p \in Known : Free(p)
    BY <1>1 DEF CallFree
  <2>2. p \in Chunks /\ p \in Ptrs
    BY KnownType
  <2>3. HeadersOK' /\ CellsOK'
    BY <2>1 DEF Free, TypeInv, HeadersOK, CellsOK, image
  <2>4. pc' \in {"free.done", "free.begin"} /\ fr' = [NoFrame EXCEPT !.clp = p, !.lazy = LazyNow]
        /\ UNCHANGED <<gclp, env>> /\ handles' = handles \ {p} /\ freed' = TRUE
    BY <2>1 DEF Free
  <2>5. RestOK'
    BY <2>4 DEF TypeInv, RestOK, env, InCall
  <2>6. LazyNow \in BOOLEAN
    BY FlagsAssumption DEF LazyNow
  <2>7. fr' \in Frame /\ fr'.clp = p
    BY <2>2, <2>4, <2>6, FrameType DEF Frame
  <2>8. FrameOK'
    BY <2>2, <2>4, <2>7 DEF FrameOK, InCall, RunPcs, ClearPcs
  <2>9. QED
    BY <2>3, <2>5, <2>8 DEF TypeInv
<1>2. CASE FreeBegin
  <2>1. /\ pc = "free.begin" /\ pc' = "free.run" /\ fr' = [fr EXCEPT !.k = 1]
        /\ Commit(fr.clp, InState(fr.clp, "FREEING"), fr.lazy)
        /\ UNCHANGED <<cell, pcell, proc, env>>
    BY <1>2, Zenon DEF FreeBegin
  <2>2. HeadersOK'
    BY <2>1, SetStateOK DEF InCall, States
  <2>3. fr' \in Frame /\ fr'.clp = fr.clp /\ fr.clp \in Chunks /\ fr'.k \in 1 .. NumOn + 1
    BY <2>1, NumOnAssumption DEF TypeInv, FrameOK, Frame, InCall
  <2>4. FrameOK'
    BY <2>1, <2>3 DEF FrameOK, InCall, RunPcs, ClearPcs
  <2>5. QED
    BY <2>1, <2>2, <2>4, HeaderStepOK DEF TypeInv, InCall
<1>3. CASE FreeRun
  BY <1>3, RunOnOK DEF FreeRun, RunPcs, ClearPcs
<1>4. CASE FreeClear
  BY <1>4, ClearOnOK DEF FreeClear, ClearPcs
<1>5. CASE FreeDone
  <2>1. /\ pc = "free.done" /\ StartCoalesce
        /\ Commit(fr.clp, InState(fr.clp, "FREE"), fr.lazy)
        /\ UNCHANGED <<cell, pcell, proc, env>>
    BY <1>5, Zenon DEF FreeDone
  <2>2. HeadersOK'
    BY <2>1, SetStateOK DEF InCall, States
  <2>3. QED
    BY <2>1, <2>2, StartCoalesceOK, HeaderStepOK DEF TypeInv
<1>6. QED
  BY <1>1, <1>2, <1>3, <1>4, <1>5

LEMMA EnvironmentOK == ASSUME TypeInv, CallFill \/ Crash \/ Evict \/ Epoch PROVE TypeInv'
<1>1. CASE CallFill
  <2>1. PICK c \in Cells : Fill(c, IF cell[c] = Null THEN 1 ELSE Null)
    BY <1>1 DEF CallFill
  <2>2. Null \in Ptrs /\ 1 \in Ptrs
    BY NAssumption DEF Null, Ptrs
  <2>3. CellsOK'
    BY <2>1, <2>2 DEF Fill, TypeInv, CellsOK
  <2>4. HeadersOK' /\ FrameOK' /\ RestOK'
    BY <2>1 DEF Fill, TypeInv, HeadersOK, FrameOK, RestOK, proc, env
  <2>5. QED
    BY <2>3, <2>4 DEF TypeInv
<1>2. CASE Exit
  <2>1. HeadersOK' /\ CellsOK' /\ file' \in BOOLEAN /\ persistSet' = persistSet
    BY <1>2 DEF Exit, TypeInv, HeadersOK, CellsOK, RestOK, image, env
  <2>2. QED
    BY <1>2, <2>1, GoneOK DEF Exit
<1>3. CASE PowerFail
  <2>1. HeadersOK' /\ CellsOK' /\ persistSet' = persistSet
    BY <1>3 DEF PowerFail, TypeInv, HeadersOK, CellsOK
  <2>2. file' \in BOOLEAN
    BY <1>3, Zenon DEF PowerFail, TypeInv, RestOK
  <2>3. QED
    BY <1>3, <2>1, <2>2, GoneOK DEF PowerFail
<1>4. CASE Evict
  <2>1. CASE \E p \in Chunks : EvictHdr(p)
    <3>1. HeadersOK' /\ CellsOK'
      BY <2>1 DEF EvictHdr, TypeInv, HeadersOK, CellsOK
    <3>2. FrameOK' /\ RestOK'
      BY <2>1 DEF EvictHdr, TypeInv, FrameOK, RestOK, proc, env
    <3>3. QED
      BY <3>1, <3>2 DEF TypeInv
  <2>2. CASE \E c \in Cells : EvictCell(c)
    <3>1. HeadersOK' /\ CellsOK'
      BY <2>2 DEF EvictCell, WrittenBack, TypeInv, HeadersOK, CellsOK
    <3>2. FrameOK' /\ RestOK'
      BY <2>2 DEF EvictCell, TypeInv, FrameOK, RestOK, proc, env
    <3>3. QED
      BY <3>1, <3>2 DEF TypeInv
  <2>3. QED
    BY <1>4, <2>1, <2>2 DEF Evict
<1>5. CASE Epoch
  <2>1. HeadersOK' /\ CellsOK' /\ FrameOK'
    BY <1>5 DEF Epoch, TypeInv, HeadersOK, CellsOK, FrameOK, image
  <2>2. RestOK'
    BY <1>5 DEF Epoch, TypeInv, RestOK, proc
  <2>3. QED
    BY <2>1, <2>2 DEF TypeInv
<1>6. QED
  BY <1>1, <1>2, <1>3, <1>4, <1>5 DEF Crash

-----------------------------------------------------------------------------
(* Type correctness                                                         *)

LEMMA TypeInvInductive == Spec => []TypeInv
<1>1. Init => TypeInv
  <2>1. Init => HeadersOK
    BY ZeroedType, NAssumption DEF Init, HeadersOK, Chunks
  <2>2. Init => CellsOK
    BY NAssumption DEF Init, CellsOK, Null, Ptrs
  <2>3. Init => FrameOK
    BY FrameType DEF Init, FrameOK, InCall, RunPcs, ClearPcs
  <2>4. Init => RestOK
    <3>1. Null \in Ptrs
      BY NAssumption DEF Null, Ptrs
    <3>2. QED
      BY <3>1, Zenon DEF Init, RestOK
  <2>5. QED
    BY <2>1, <2>2, <2>3, <2>4 DEF TypeInv
<1>2. TypeInv /\ [Next]_vars => TypeInv'
  <2> SUFFICES ASSUME TypeInv, [Next]_vars PROVE TypeInv'
    OBVIOUS
  <2>1. CASE Start \/ Step
    BY <2>1, InitOK, RecoverOK, CoalesceOK, ReserveOK, OnListOK, ActivateOK, FreeOK
    DEF Start, Step
  <2>2. CASE Call
    BY <2>2, EnvironmentOK, ReserveOK, OnListOK, ActivateOK, FreeOK
    DEF Call, CallReserve
  <2>3. CASE Crash \/ Evict \/ Epoch
    BY <2>3, EnvironmentOK
  <2>4. CASE UNCHANGED vars
    BY <2>4 DEF vars, TypeInv, HeadersOK, CellsOK, FrameOK, RestOK
  <2>5. QED
    BY <2>1, <2>2, <2>3, <2>4 DEF Next
<1>3. QED
  BY <1>1, <1>2, PTL DEF Spec

\* Every reachable state is well typed, whatever the pool size, the requests, the
\* build and the crashes: in particular no walk of pmemalloc_recover, _reserve or
\* _coalesce_free reads a header outside the pool.
THEOREM TypeCorrect == Spec => []TypeOK
<1>1. TypeInv => TypeOK
  BY DEF TypeInv, TypeOK, HeadersOK, CellsOK, FrameOK, RestOK
<1>2. QED
  BY <1>1, TypeInvInductive, PTL

-----------------------------------------------------------------------------
(* The clumps tile the pool at every instant, on the media as well as in the *)
(* cache.  The invariant is about a set V of chunks: from every chunk of V    *)
(* both the size in the cache and the size on the media lead to a chunk of V, *)
(* and every clump pointer the code holds is in V.  A walk therefore ends at  *)
(* N whichever lines a crash keeps.                                          *)

ReservePcs == {"reserve.scan", "reserve.split", "reserve.clear", "reserve.claim"}
RecoverPcs == {"recover.run", "recover.clear", "recover.done"}
TilePcs    == {"recover", "coalesce"} \cup ReservePcs \cup RecoverPcs

\* The pool file was never completed: it has no clump, and nothing walks it.
NoClump ==
  /\ hdr[1].size = 0 /\ phdr[1].size = 0
  /\ gclp = Null
  /\ pc \notin ReservePcs \cup RecoverPcs \cup {"fsync"}
  /\ pc \in {"recover", "coalesce"} => fr.clp = 1 /\ fr.first = Null

Links(V) ==
  /\ V \subseteq Chunks /\ 1 \in V /\ N \in V
  /\ \A q \in V \ {N} :
       /\ hdr[q].size > 0
       /\ q + hdr[q].size \in V
       /\ q + phdr[q].size \in V
       /\ q # 1 => phdr[q].size > 0

Pointers(V) ==
  /\ gclp # Null => gclp \in V \ {N}
  /\ pc \in TilePcs => fr.clp \in V
  /\ pc \in RecoverPcs \cup (ReservePcs \ {"reserve.scan"}) => fr.clp # N
  /\ pc = "coalesce" /\ fr.first # Null => fr.first \in V \ {N} /\ fr.csize > 0
  /\ pc \in ReservePcs => fr.nsize > 0
  /\ pc = "reserve.clear" => /\ fr.csize > 0 /\ fr.clp + fr.csize \in V
  /\ pc = "reserve.claim" => /\ fr.csize > 0 /\ fr.clp + fr.csize \in V

TileInv ==
  /\ pc = "down" => gclp = Null
  /\ NoClump \/ \E V \in SUBSET Chunks : Links(V) /\ Pointers(V)

\* A step that changes no size in the cache and at most evicts sizes.
SameSizes ==
  \A q \in Chunks : /\ hdr'[q].size = hdr[q].size
                    /\ phdr'[q].size = phdr[q].size \/ phdr'[q].size = hdr[q].size

-----------------------------------------------------------------------------
LEMMA EndSize == ASSUME TypeInv PROVE hdr[N].size = 0 /\ phdr[N].size = 0
BY NAssumption DEF TypeInv, HeadersOK, Header, Chunks, Ptrs

LEMMA SizeType ==
  ASSUME TypeInv
  PROVE  \A q \in Chunks : hdr[q].size \in Ptrs /\ phdr[q].size \in Ptrs
BY DEF TypeInv, HeadersOK, Header

LEMMA SameLinks == ASSUME NEW V, Links(V), SameSizes PROVE Links(V)'
BY DEF Links, SameSizes

LEMMA CommitSame ==
  ASSUME TypeInv, NEW p \in Chunks, NEW h, h.size = hdr[p].size, NEW lazy, Commit(p, h, lazy)
  PROVE  SameSizes
BY DEF Commit, Persist, SameSizes, TypeInv, HeadersOK

\* Giving the clump at p a size that leads to V keeps every link.
LEMMA ResizeLinks ==
  ASSUME TypeInv, NEW V, Links(V), NEW p \in V \ {N}, NEW h, h.size > 0, p + h.size \in V,
         NEW lazy, Commit(p, h, lazy)
  PROVE  Links(V)'
<1>1. /\ hdr' = [hdr EXCEPT ![p] = h]
      /\ phdr' = phdr \/ phdr' = [phdr EXCEPT ![p] = h]
  BY DEF Commit, Persist, Links, TypeInv, HeadersOK
<1>2. QED
  BY <1>1 DEF Links, TypeInv, HeadersOK

\* Writing a new header inside the clump at p adds it to V.
LEMMA SplitLinks ==
  ASSUME TypeInv, NEW V, Links(V), NEW q \in Chunks \ {1, N}, NEW h, h.size > 0,
         q + h.size \in V, Commit(q, h, FALSE)
  PROVE  Links(V \cup {q})'
<1>1. hdr' = [hdr EXCEPT ![q] = h] /\ phdr' = [phdr EXCEPT ![q] = h]
  BY DEF Commit, Persist, Elided, TypeInv, HeadersOK
<1>2. QED
  BY <1>1 DEF Links, TypeInv, HeadersOK

\* Steps that end outside the code that walks the pool.
LEMMA AwayStep ==
  ASSUME TypeInv, TileInv, SameSizes, gclp' = gclp \/ gclp' = Null,
         pc' = "down" => pc = "down" \/ gclp' = Null,
         pc' \notin TilePcs \cup {"fsync"}
  PROVE  TileInv'
<1>1. CASE NoClump
  <2>1. 1 \in Chunks
    BY NAssumption DEF Chunks
  <2>2. NoClump'
    BY <1>1, <2>1 DEF NoClump, SameSizes, TilePcs
  <2>3. QED
    BY <2>2 DEF TileInv
<1>2. ASSUME NEW V \in SUBSET Chunks, Links(V), Pointers(V)
      PROVE  TileInv'
  <2>1. Links(V)'
    BY <1>2, SameLinks
  <2>2. Pointers(V)'
    BY <1>2 DEF Pointers, TilePcs, ReservePcs, RecoverPcs
  <2>3. QED
    BY <2>1, <2>2 DEF TileInv
<1>3. QED
  BY <1>1, <1>2 DEF TileInv

\* Steps that begin a walk at the first chunk.
LEMMA WalkStep ==
  ASSUME TypeInv, TileInv, SameSizes, gclp' = gclp,
         pc' \in {"recover", "coalesce"}, fr'.clp = 1, fr'.first = Null
  PROVE  TileInv'
<1>1. CASE NoClump
  <2>1. 1 \in Chunks
    BY NAssumption DEF Chunks
  <2>2. NoClump'
    BY <1>1, <2>1 DEF NoClump, SameSizes, ReservePcs, RecoverPcs
  <2>3. QED
    BY <2>2 DEF TileInv
<1>2. ASSUME NEW V \in SUBSET Chunks, Links(V), Pointers(V)
      PROVE  TileInv'
  <2>1. Links(V)'
    BY <1>2, SameLinks
  <2>2. Pointers(V)'
    BY <1>2 DEF Pointers, TilePcs, ReservePcs, RecoverPcs, Links
  <2>3. QED
    BY <2>1, <2>2 DEF TileInv
<1>3. QED
  BY <1>1, <1>2 DEF TileInv

-----------------------------------------------------------------------------
(* One lemma per part of the next-state relation                            *)

LEMMA ClearSame ==
  ASSUME TypeInv, NEW here \in ClearPcs, NEW next, ClearOn(here, next)
  PROVE  SameSizes
<1>1. fr.clp \in Chunks /\ fr.k \in 0 .. NumOn /\ 0 \in Ptrs
  BY NAssumption DEF ClearOn, TypeInv, FrameOK, ClearPcs, InCall, Ptrs
<1>2. CASE fr.k >= 1
  <2>1. hdr' = [hdr EXCEPT ![fr.clp] = WithOff(fr.clp, fr.k, None)] /\ phdr' = phdr
    BY <1>2 DEF ClearOn
  <2>2. fr.k \in Slots
    BY <1>1, <1>2, NumOnAssumption DEF Slots
  <2>3. WithOff(fr.clp, fr.k, None).size = hdr[fr.clp].size
    BY <1>1, <2>2, WithType DEF TypeInv
  <2>4. QED
    BY <1>1, <2>1, <2>3 DEF SameSizes, TypeInv, HeadersOK
<1>3. CASE ~(fr.k >= 1)
  BY <1>1, <1>3 DEF ClearOn, Persist, SameSizes, TypeInv, HeadersOK
<1>4. QED
  BY <1>2, <1>3

LEMMA StartTile ==
  ASSUME TypeInv, TileInv, Create \/ CreateClump \/ CreateSync \/ Open
  PROVE  TileInv'
<1> USE DEF ReservePcs, RecoverPcs, TilePcs
<1>1. 1 \in Chunks /\ N \in Chunks /\ 1 # N
  BY NAssumption DEF Chunks
<1>2. NoFrame.first = Null /\ [NoFrame EXCEPT !.clp = 1].clp = 1
      /\ [NoFrame EXCEPT !.clp = 1].first = Null
  BY DEF NoFrame, Null
<1>3. CASE Create
  <2>1. gclp = Null
    BY <1>3 DEF Create, TileInv
  <2>2. NoClump'
    BY <1>1, <1>3, <2>1, ZeroedType DEF Create, NoClump, proc
  <2>3. QED
    BY <1>3, <2>2 DEF TileInv, Create
<1>4. CASE CreateClump
  <2> DEFINE z == [Zeroed EXCEPT !.size = N - 1]
  <2>1. /\ hdr' = [hdr EXCEPT ![1] = z] /\ phdr' = phdr /\ pc' = "fsync" /\ gclp' = gclp
        /\ pc = "create"
    BY <1>4 DEF CreateClump, proc
  <2>2. z.size = N - 1 /\ N - 1 > 0 /\ 1 + (N - 1) = N
    BY ZeroedType, NAssumption DEF Header
  <2> HIDE DEF z
  <2>3. ASSUME NEW V \in SUBSET Chunks, 1 \in V, N \in V, 1 + phdr[1].size \in V,
               \A q \in V \ {1, N} : /\ hdr[q].size > 0 /\ q + hdr[q].size \in V
                                     /\ q + phdr[q].size \in V /\ phdr[q].size > 0
        PROVE  Links(V)'
    <3>1. hdr'[1] = z /\ \A q \in Chunks \ {1} : hdr'[q] = hdr[q]
      BY <1>1, <2>1 DEF TypeInv, HeadersOK
    <3>2. QED
      BY <1>1, <2>1, <2>2, <2>3, <3>1 DEF Links
  <2>4. CASE NoClump
    <3>1. Links({1, N})'
      BY <1>1, <2>3, <2>4 DEF NoClump
    <3>2. Pointers({1, N})'
      BY <2>1, <2>4 DEF Pointers, NoClump
    <3>3. QED
      BY <1>1, <2>1, <3>1, <3>2 DEF TileInv
  <2>5. ASSUME NEW V \in SUBSET Chunks, Links(V), Pointers(V)
        PROVE  TileInv'
    <3>1. Links(V)'
      BY <1>1, <2>3, <2>5 DEF Links
    <3>2. Pointers(V)'
      BY <2>1, <2>5 DEF Pointers
    <3>3. QED
      BY <2>1, <3>1, <3>2 DEF TileInv
  <2>6. QED
    BY <2>4, <2>5 DEF TileInv
<1>5. CASE CreateSync
  <2>1. SameSizes /\ gclp' = gclp
    BY <1>5 DEF CreateSync, SameSizes, proc
  <2>2. QED
    BY <1>2, <1>5, <2>1, WalkStep DEF CreateSync, StartRecover
<1>6. CASE Open
  <2>1. SameSizes /\ gclp' = gclp
    BY <1>6 DEF Open, SameSizes, image, proc
  <2>2. QED
    BY <1>2, <1>6, <2>1, WalkStep DEF Open, StartRecover
<1>7. QED
  BY <1>3, <1>4, <1>5, <1>6

LEMMA StartCoalesceTile ==
  ASSUME TypeInv, TileInv, SameSizes, gclp' = gclp, StartCoalesce
  PROVE  TileInv'
<1>1. pc' = "coalesce" /\ fr'.clp = 1 /\ fr'.first = Null
  BY DEF StartCoalesce, NoFrame, Null
<1>2. QED
  BY <1>1, WalkStep

LEMMA RecoverTile ==
  ASSUME TypeInv, TileInv, RecoverClump \/ RecoverRun \/ RecoverClear \/ RecoverDone
  PROVE  TileInv'
<1> USE DEF ReservePcs, RecoverPcs, TilePcs
<1>1. pc \in RecoverPcs \cup {"recover"} /\ fr \in Frame /\ fr.clp \in Chunks /\ gclp' = gclp
  BY DEF RecoverClump, RecoverRun, RecoverClear, RecoverDone, RunOn, ClearOn, TypeInv,
         FrameOK, InCall, proc
<1>2. SameSizes
  <2>1. CASE RecoverClump \/ RecoverRun
    BY <2>1 DEF RecoverClump, RecoverRun, RunOn, image, SameSizes
  <2>2. CASE RecoverClear
    BY <2>2, ClearSame DEF RecoverClear, ClearPcs
  <2>3. CASE RecoverDone
    <3> DEFINE s == IF hdr[fr.clp].state = "ACTIVATING" THEN "ACTIVE" ELSE "FREE"
    <3>1. Commit(fr.clp, InState(fr.clp, s), FALSE) /\ s \in States
      BY <2>3, Zenon DEF RecoverDone, States
    <3> HIDE DEF s
    <3>2. QED
      BY <1>1, <3>1, InStateType, CommitSame DEF TypeInv
  <2>4. QED
    BY <2>1, <2>2, <2>3
<1>3. CASE RecoverClump /\ hdr[fr.clp].size = 0
  BY <1>1, <1>2, <1>3, StartCoalesceTile DEF RecoverClump
<1>4. CASE ~(RecoverClump /\ hdr[fr.clp].size = 0)
  <2>0. RecoverClump \/ pc \in RecoverPcs
    BY DEF RecoverRun, RecoverClear, RecoverDone, RunOn, ClearOn
  <2>1. ~NoClump
    BY <1>1, <1>4, <2>0 DEF NoClump, RecoverClump
  <2>2. PICK V \in SUBSET Chunks : Links(V) /\ Pointers(V)
    BY <2>1 DEF TileInv
  <2>3. Links(V)'
    BY <1>2, <2>2, SameLinks
  <2>4. fr.clp \in V \ {N} /\ fr.clp + hdr[fr.clp].size \in V
    BY <1>1, <1>4, <2>0, <2>2, EndSize DEF Links, Pointers
  <2>5. /\ fr'.clp \in {fr.clp, fr.clp + hdr[fr.clp].size}
        /\ pc' \in RecoverPcs \cup {"recover"}
        /\ pc' \in RecoverPcs => fr'.clp = fr.clp
    BY <1>1, <1>4, FrameType
    DEF RecoverClump, RecoverRun, RecoverClear, RecoverDone, RunOn, ClearOn, Frame
  <2>6. Pointers(V)'
    BY <1>1, <2>2, <2>4, <2>5 DEF Pointers
  <2>7. QED
    BY <2>3, <2>5, <2>6 DEF TileInv
<1>5. QED
  BY <1>3, <1>4

LEMMA CoalesceTile == ASSUME TypeInv, TileInv, CoalesceStep \/ CoalesceEnd PROVE TileInv'
<1> USE DEF ReservePcs, RecoverPcs, TilePcs
<1> DEFINE h == hdr[fr.clp]
<1>1. /\ pc = "coalesce" /\ fr \in Frame /\ fr.clp \in Chunks /\ h.size \in Ptrs
      /\ gclp' = gclp
      /\ IF fr.first = Null THEN fr.csize = 0 ELSE fr.first + fr.csize = fr.clp
  BY SizeType DEF CoalesceStep, CoalesceEnd, TypeInv, FrameOK, InCall, proc
<1>2. CASE NoClump
  <2>1. CoalesceEnd /\ ~RunOfTwo
    BY <1>1, <1>2 DEF NoClump, CoalesceStep, RunOfTwo
  <2>2. hdr' = hdr /\ phdr' = phdr /\ pc' = "idle"
    BY <2>1 DEF CoalesceEnd, Merge, Return
  <2>3. NoClump'
    BY <1>1, <1>2, <2>2 DEF NoClump
  <2>4. QED
    BY <2>2, <2>3 DEF TileInv
<1>3. ASSUME NEW V \in SUBSET Chunks, Links(V), Pointers(V)
      PROVE  TileInv'
  <2>1. /\ fr.clp \in V
        /\ fr.first # Null => /\ fr.first \in V \ {N} /\ fr.csize > 0
                             /\ fr.first + fr.csize \in V
    BY <1>1, <1>3 DEF Pointers
  <2>2. ASSUME NEW lazy, Merge(lazy)
        PROVE  Links(V)'
    <3>1. CASE RunOfTwo
      <4> DEFINE m == [hdr[fr.first] EXCEPT !.size = fr.csize, !.state = "FREE"]
      <4>1. Commit(fr.first, m, lazy) /\ fr.first # Null
        BY <2>2, <3>1 DEF Merge, RunOfTwo
      <4>2. m.size = fr.csize
        <5>1. hdr[fr.first] \in Header
          BY <1>3, <2>1, <4>1 DEF TypeInv, HeadersOK, Links
        <5>2. QED
          BY <5>1 DEF Header
      <4> HIDE DEF m
      <4>3. QED
        BY <1>3, <2>1, <4>1, <4>2, ResizeLinks
    <3>2. CASE ~RunOfTwo
      BY <1>3, <2>2, <3>2 DEF Merge, Links
    <3>3. QED
      BY <3>1, <3>2
  <2>3. CASE CoalesceEnd
    <3>1. Merge(FALSE) /\ pc' = "idle"
      BY <2>3, Zenon DEF CoalesceEnd, Return
    <3>2. Links(V)'
      BY <2>2, <3>1
    <3>3. Pointers(V)'
      BY <1>1, <1>3, <3>1 DEF Pointers
    <3>4. QED
      BY <3>1, <3>2, <3>3 DEF TileInv
  <2>4. CASE CoalesceStep
    <3>1. pc' = "coalesce" /\ fr.clp # N /\ h.size > 0
      BY <1>1, <2>4, EndSize DEF CoalesceStep, Ptrs
    <3>2. Links(V)'
      <4>1. CASE UNCHANGED <<hdr, phdr>>
        BY <1>3, <4>1 DEF Links
      <4>2. CASE Merge(fr.lazy)
        BY <2>2, <4>2
      <4>3. QED
        BY <2>4, <4>1, <4>2 DEF CoalesceStep
    <3>3. fr.clp + h.size \in V
      BY <1>3, <2>1, <3>1 DEF Links
    <3>4. /\ fr'.clp = fr.clp + h.size
          /\ fr'.first # Null => fr'.first \in V \ {N} /\ fr'.csize > 0
      <4>1. CASE h.state = "FREE"
        <5>1. fr' = [fr EXCEPT !.first = IF fr.first = Null THEN fr.clp ELSE fr.first,
                               !.last = IF fr.first = Null THEN fr.last ELSE fr.clp,
                               !.csize = fr.csize + h.size,
                               !.clp = fr.clp + h.size]
          BY <2>4, <4>1 DEF CoalesceStep
        <5>2. /\ fr'.clp = fr.clp + h.size
              /\ fr'.csize = fr.csize + h.size
              /\ fr'.first \in {fr.clp, fr.first}
              /\ fr.first = Null => fr'.first = fr.clp
          BY <1>1, <5>1 DEF Frame
        <5>3. fr'.csize > 0
          BY <1>1, <3>1, <5>2 DEF Frame, Ptrs
        <5>4. QED
          BY <1>3, <2>1, <3>1, <5>2, <5>3
      <4>2. CASE h.state # "FREE"
        <5>1. fr' = [fr EXCEPT !.first = Null, !.last = Null, !.csize = 0,
                               !.clp = fr.clp + h.size]
          BY <2>4, <4>2 DEF CoalesceStep
        <5>2. QED
          BY <1>1, <5>1 DEF Frame
      <4>3. QED
        BY <4>1, <4>2
    <3>5. Pointers(V)'
      BY <1>1, <1>3, <3>1, <3>3, <3>4 DEF Pointers
    <3>6. QED
      BY <3>1, <3>2, <3>5 DEF TileInv
  <2>5. QED
    BY <2>3, <2>4
<1>4. QED
  BY <1>2, <1>3 DEF TileInv

LEMMA ReserveTile ==
  ASSUME TypeInv, TileInv,
         \/ \E size \in Requests : Reserve(size)
         \/ ReserveScan \/ ReserveSplit \/ ReserveClear \/ ReserveClaim
  PROVE  TileInv'
<1> USE DEF ReservePcs, RecoverPcs, TilePcs
<1> DEFINE h == hdr[fr.clp]
<1>1. /\ fr \in Frame
      /\ pc \in ReservePcs => fr.clp \in Chunks /\ h \in Header /\ h.size \in Ptrs
  BY SizeType DEF TypeInv, FrameOK, InCall, HeadersOK
<1>2. ASSUME NEW size \in Requests, Reserve(size)
      PROVE  TileInv'
  <2> DEFINE start == IF gclp = Null THEN 1 ELSE gclp
  <2>1. CASE Fatal
    <3>1. SameSizes /\ gclp' = Null /\ pc' = "down"
      BY <2>1 DEF Fatal, ProcessGone, image, SameSizes
    <3>2. QED
      BY <3>1, AwayStep
  <2>2. CASE ~Fatal
    <3>1. /\ hdr[start].size # 0 /\ pc' = "reserve.scan"
          /\ fr' = [NoFrame EXCEPT !.clp = start, !.nsize = NSize(size)]
          /\ UNCHANGED <<image, proc, env>>
      BY <1>2, <2>2 DEF Reserve
    <3>2. fr'.clp = start /\ fr'.nsize > 0
      <4>1. NSize(size) \in Nat /\ NSize(size) > 0
        BY RequestType
      <4> HIDE DEF start, NSize
      <4>2. QED
        BY <3>1, <4>1, FrameType DEF Frame
    <3>3. ~NoClump
      BY <3>1 DEF NoClump
    <3>4. PICK V \in SUBSET Chunks : Links(V) /\ Pointers(V)
      BY <3>3 DEF TileInv
    <3>5. Links(V)'
      BY <3>1, <3>4 DEF Links, image
    <3>6. Pointers(V)'
      BY <3>1, <3>2, <3>4 DEF Pointers, Links, proc
    <3>7. QED
      BY <3>1, <3>5, <3>6 DEF TileInv
  <2>3. QED
    BY <2>1, <2>2
<1>3. ASSUME ReserveScan \/ ReserveSplit \/ ReserveClear \/ ReserveClaim
      PROVE  TileInv'
  <2>1. pc \in ReservePcs
    BY <1>3 DEF ReserveScan, ReserveSplit, ReserveClear, ReserveClaim
  <2>2. PICK V \in SUBSET Chunks : Links(V) /\ Pointers(V)
    BY <2>1 DEF TileInv, NoClump
  <2>3. /\ fr.clp \in V /\ fr.nsize \in Nat /\ fr.nsize > 0 /\ fr.csize \in Ptrs
    BY <1>1, <2>1, <2>2 DEF Pointers, Frame
  <2>4. CASE ReserveScan
    <3>1. pc = "reserve.scan" /\ UNCHANGED <<image, proc, env>>
      BY <2>4 DEF ReserveScan
    <3>2. Links(V)' /\ gclp' = gclp
      BY <2>2, <3>1 DEF Links, image, proc
    <3>3. CASE h.size = 0
      <4>1. pc' = "idle"
        BY <2>4, <3>3 DEF ReserveScan, Return
      <4>2. QED
        BY <2>2, <3>2, <4>1 DEF Pointers, TileInv
    <3>4. CASE h.size # 0
      <4>1. fr.clp # N /\ h.size > 0
        BY <1>1, <2>1, <3>4, EndSize DEF Ptrs
      <4>2. fr.clp + h.size \in V
        BY <2>2, <2>3, <4>1 DEF Links
      <4>3. CASE fr' = [fr EXCEPT !.clp = fr.clp + h.size] /\ pc' = pc
        <5>1. fr'.clp = fr.clp + h.size /\ fr'.nsize = fr.nsize
          BY <1>1, <4>3 DEF Frame
        <5>2. QED
          BY <2>2, <2>3, <3>1, <3>2, <4>2, <4>3, <5>1 DEF Pointers, TileInv
      <4>4. CASE /\ fr.nsize <= h.size
                 /\ pc' = IF h.size - fr.nsize >= 2 THEN "reserve.split" ELSE "reserve.clear"
                 /\ fr' = [fr EXCEPT !.csize = IF h.size - fr.nsize >= 2
                                                 THEN fr.nsize ELSE h.size]
        <5>1. /\ fr'.clp = fr.clp /\ fr'.nsize = fr.nsize
              /\ pc' \in {"reserve.split", "reserve.clear"}
              /\ pc' = "reserve.clear" => fr'.csize = h.size
          BY <1>1, <4>4 DEF Frame
        <5>2. QED
          BY <2>2, <2>3, <3>2, <4>1, <4>2, <5>1 DEF Pointers, TileInv
      <4>5. QED
        BY <2>4, <3>4, <4>3, <4>4 DEF ReserveScan
    <3>5. QED
      BY <3>3, <3>4
  <2>5. CASE ReserveSplit
    <3> DEFINE z == [Zeroed EXCEPT !.size = h.size - fr.nsize]
    <3>1. /\ pc = "reserve.split" /\ Commit(fr.clp + fr.nsize, z, FALSE)
          /\ pc' = "reserve.clear" /\ fr' = fr /\ gclp' = gclp
      BY <2>5, Zenon DEF ReserveSplit, proc
    <3>2. /\ fr.nsize + 2 <= h.size /\ fr.csize = fr.nsize
          /\ fr.clp \in V \ {N} /\ fr.clp + h.size \in V
      BY <2>2, <2>3, <3>1 DEF TypeInv, FrameOK, Pointers, Links
    <3>3. z.size = h.size - fr.nsize /\ z.size > 0
      <4>1. z.size = h.size - fr.nsize
        BY ZeroedType DEF Header
      <4>2. QED
        BY <1>1, <2>1, <2>3, <3>2, <4>1 DEF Ptrs
    <3>4. PICK q \in Chunks \ {1, N} : q = fr.clp + fr.nsize
      <4>1. fr.clp \in Chunks /\ fr.clp + h.size <= N /\ h.size \in Ptrs
        BY <1>1, <2>1 DEF TypeInv, HeadersOK
      <4>2. QED
        BY <2>3, <3>2, <4>1, NAssumption DEF Chunks, Ptrs
    <3>5. q + z.size \in V
      BY <1>1, <2>1, <2>3, <3>2, <3>3, <3>4 DEF Chunks, Ptrs
    <3> HIDE DEF z
    <3>6. Links(V \cup {q})'
      BY <2>2, <3>1, <3>3, <3>4, <3>5, SplitLinks
    <3>7. Pointers(V \cup {q})'
      BY <2>2, <2>3, <3>1, <3>2, <3>4 DEF Pointers
    <3>8. V \cup {q} \in SUBSET Chunks
      BY <3>4
    <3>9. QED
      BY <3>1, <3>6, <3>7, <3>8 DEF TileInv
  <2>6. CASE ReserveClear
    <3> DEFINE z == [h EXCEPT !.on = Zeroed.on]
    <3>1. /\ pc = "reserve.clear" /\ Commit(fr.clp, z, FALSE)
          /\ pc' = "reserve.claim" /\ fr' = fr /\ gclp' = gclp
      BY <2>6, Zenon DEF ReserveClear, proc
    <3>2. z.size = h.size
      BY <1>1, <2>1 DEF Header
    <3> HIDE DEF z
    <3>3. Links(V)'
      BY <1>1, <2>1, <2>2, <3>1, <3>2, CommitSame, SameLinks
    <3>4. Pointers(V)'
      BY <2>2, <3>1 DEF Pointers
    <3>5. QED
      BY <3>1, <3>3, <3>4 DEF TileInv
  <2>7. CASE ReserveClaim
    <3> DEFINE z == [h EXCEPT !.size = fr.csize, !.state = "RESERVED"]
    <3>1. /\ pc = "reserve.claim" /\ Commit(fr.clp, z, FALSE)
          /\ pc' = "idle" /\ gclp' = fr.clp
      BY <2>7, Zenon DEF ReserveClaim, Return
    <3>2. z.size = fr.csize
      BY <1>1, <2>1 DEF Header
    <3>3. fr.clp \in V \ {N} /\ fr.csize > 0 /\ fr.clp + fr.csize \in V
      BY <2>2, <3>1 DEF Pointers
    <3> HIDE DEF z
    <3>4. Links(V)'
      BY <2>2, <3>1, <3>2, <3>3, ResizeLinks
    <3>5. Pointers(V)'
      BY <3>1, <3>3 DEF Pointers
    <3>6. QED
      BY <3>1, <3>4, <3>5 DEF TileInv
  <2>8. QED
    BY <1>3, <2>4, <2>5, <2>6, <2>7
<1>4. QED
  BY <1>2, <1>3

LEMMA SetStateSame ==
  ASSUME TypeInv, pc \in InCall, NEW s \in States, NEW lazy,
         Commit(fr.clp, InState(fr.clp, s), lazy)
  PROVE  SameSizes
BY InStateType, CommitSame DEF TypeInv, FrameOK

LEMMA OnListTile ==
  ASSUME TypeInv, TileInv, CallOnActive \/ CallOnFree \/ OnActiveOff \/ OnFreeOff
  PROVE  TileInv'
<1>1. ASSUME NEW p \in Chunks, NEW c \in Cells, NEW v \in Ptrs, NEW lazy,
             NEW next \in {"onactive.off", "onfree.off"}, PutPtr(p, c, v, lazy, next)
      PROVE  TileInv'
  <2>1. CASE FreeSlots(p) = {}
    <3>1. SameSizes /\ gclp' = Null /\ pc' = "down"
      BY <1>1, <2>1 DEF PutPtr, Fatal, ProcessGone, image, SameSizes
    <3>2. QED
      BY <3>1, AwayStep DEF TilePcs, ReservePcs, RecoverPcs
  <2>2. CASE FreeSlots(p) # {}
    <3>1. PICK i \in FreeSlots(p) :
            Commit(p, WithPtr(p, i, v), lazy) /\ pc' = next /\ UNCHANGED proc
      BY <1>1, <2>2 DEF PutPtr
    <3>2. SameSizes
      BY <3>1, WithType, CommitSame DEF FreeSlots, TypeInv
    <3>3. QED
      BY <3>1, <3>2, AwayStep DEF proc, TilePcs, ReservePcs, RecoverPcs
  <2>3. QED
    BY <2>1, <2>2
<1>2. ASSUME NEW here \in {"onactive.off", "onfree.off"}, PutOff(here)
      PROVE  TileInv'
  <2>1. /\ pc = here /\ Commit(fr.clp, WithOff(fr.clp, fr.k, fr.dest), FALSE)
        /\ pc' = "idle" /\ UNCHANGED proc
    BY <1>2, Zenon DEF PutOff, Return
  <2>2. /\ fr.clp \in Chunks /\ fr.k \in Slots /\ fr.dest \in Cells \cup {None}
        /\ 0 \in Ptrs
    BY <2>1, NAssumption DEF TypeInv, FrameOK, Frame, InCall, Ptrs
  <2>3. WithOff(fr.clp, fr.k, fr.dest).size = hdr[fr.clp].size
    BY <2>2, WithType DEF TypeInv
  <2> DEFINE z == WithOff(fr.clp, fr.k, fr.dest)
  <2> HIDE DEF z
  <2>4. Commit(fr.clp, z, FALSE) /\ z.size = hdr[fr.clp].size
    BY <2>1, <2>3, Zenon DEF z
  <2>5. SameSizes
    BY <2>2, <2>4, CommitSame
  <2>6. QED
    BY <2>1, <2>5, AwayStep DEF proc, TilePcs, ReservePcs, RecoverPcs
<1>3. CASE CallOnActive
  <2>1. PICK p \in handles, c \in Roots : OnActive(p, c, p)
    BY <1>3 DEF CallOnActive
  <2>2. p \in Chunks /\ p \in Ptrs /\ c \in Cells
    BY KnownType DEF TypeInv, RestOK, Roots
  <2>3. PutPtr(p, c, p, FALSE, "onactive.off")
    BY <2>1 DEF OnActive
  <2>4. QED
    BY <1>1, <2>2, <2>3
<1>4. CASE CallOnFree
  <2>1. PICK p \in Known, c \in Roots : OnFree(p, c, Null)
    BY <1>4 DEF CallOnFree
  <2>2. p \in Chunks /\ Null \in Ptrs /\ c \in Cells
    BY KnownType, NAssumption DEF Roots, Null, Ptrs
  <2>3. PutPtr(p, c, Null, LazyNow, "onfree.off")
    BY <2>1 DEF OnFree
  <2>4. QED
    BY <1>1, <2>2, <2>3
<1>5. QED
  BY <1>2, <1>3, <1>4 DEF OnActiveOff, OnFreeOff

LEMMA ActivateTile ==
  ASSUME TypeInv, TileInv,
         CallActivate \/ ActivateBegin \/ ActivateRun \/ ActivateClear \/ ActivateDone
  PROVE  TileInv'
<1>1. SameSizes
  <2>1. CASE CallActivate
    <3>1. PICK p \in handles : Activate(p)
      BY <2>1, Zenon DEF CallActivate
    <3>2. QED
      BY <3>1 DEF Activate, SameSizes, TypeInv, HeadersOK
  <2>2. CASE ActivateRun
    BY <2>2 DEF ActivateRun, RunOn, SameSizes
  <2>3. CASE ActivateClear
    BY <2>3, ClearSame DEF ActivateClear, ClearPcs
  <2>4. CASE ActivateBegin
    <3>1. pc \in InCall /\ Commit(fr.clp, InState(fr.clp, "ACTIVATING"), FALSE)
      BY <2>4, Zenon DEF ActivateBegin, InCall
    <3>2. QED
      BY <3>1, SetStateSame DEF States
  <2>5. CASE ActivateDone
    <3>1. pc \in InCall /\ Commit(fr.clp, InState(fr.clp, "ACTIVE"), FALSE)
      BY <2>5, Zenon DEF ActivateDone, InCall
    <3>2. QED
      BY <3>1, SetStateSame DEF States
  <2>6. QED
    BY <2>1, <2>2, <2>3, <2>4, <2>5
<1>2. gclp' = gclp /\ pc' \notin TilePcs \cup {"fsync", "down"}
  BY DEF CallActivate, Activate, ActivateBegin, ActivateRun, ActivateClear, ActivateDone,
         RunOn, ClearOn, Return, proc, TilePcs, ReservePcs, RecoverPcs
<1>3. QED
  BY <1>1, <1>2, AwayStep

LEMMA FreeTile ==
  ASSUME TypeInv, TileInv, CallFree \/ FreeBegin \/ FreeRun \/ FreeClear \/ FreeDone
  PROVE  TileInv'
<1>1. SameSizes
  <2>1. CASE CallFree \/ FreeRun
    BY <2>1 DEF CallFree, Free, FreeRun, RunOn, image, SameSizes
  <2>2. CASE FreeClear
    BY <2>2, ClearSame DEF FreeClear, ClearPcs
  <2>3. CASE FreeBegin
    <3>1. pc \in InCall /\ Commit(fr.clp, InState(fr.clp, "FREEING"), fr.lazy)
      BY <2>3, Zenon DEF FreeBegin, InCall
    <3>2. QED
      BY <3>1, SetStateSame DEF States
  <2>4. CASE FreeDone
    <3>1. pc \in InCall /\ Commit(fr.clp, InState(fr.clp, "FREE"), fr.lazy)
      BY <2>4, Zenon DEF FreeDone, InCall
    <3>2. QED
      BY <3>1, SetStateSame DEF States
  <2>5. QED
    BY <2>1, <2>2, <2>3, <2>4
<1>2. CASE FreeDone
  BY <1>1, <1>2, StartCoalesceTile DEF FreeDone, proc
<1>3. CASE ~FreeDone
  <2>1. gclp' = gclp /\ pc' \notin TilePcs \cup {"fsync", "down"}
    BY <1>3 DEF CallFree, Free, FreeBegin, FreeRun, FreeClear, RunOn, ClearOn, proc,
                TilePcs, ReservePcs, RecoverPcs
  <2>2. QED
    BY <1>1, <2>1, AwayStep
<1>4. QED
  BY <1>2, <1>3

\* Steps that leave the process where it is.
LEMMA StayStep ==
  ASSUME TypeInv, TileInv, SameSizes, UNCHANGED <<pc, fr, gclp>>
  PROVE  TileInv'
<1>1. CASE NoClump
  <2>1. 1 \in Chunks
    BY NAssumption DEF Chunks
  <2>2. NoClump'
    BY <1>1, <2>1 DEF NoClump, SameSizes
  <2>3. QED
    BY <2>2 DEF TileInv
<1>2. ASSUME NEW V \in SUBSET Chunks, Links(V), Pointers(V)
      PROVE  TileInv'
  <2>1. Links(V)' /\ Pointers(V)'
    BY <1>2, SameLinks DEF Pointers
  <2>2. QED
    BY <2>1 DEF TileInv
<1>3. QED
  BY <1>1, <1>2 DEF TileInv

\* What a power failure keeps: the sizes on the media link V too, unless the pool
\* had not been completed.
LEMMA PowerFailTile == ASSUME TypeInv, TileInv, PowerFail PROVE TileInv'
<1>1. hdr' = phdr /\ phdr' = phdr /\ pc' = "down" /\ gclp' = Null
  BY DEF PowerFail, ProcessGone
<1>2. CASE phdr[1].size = 0
  <2>1. NoClump'
    BY <1>1, <1>2 DEF NoClump, ReservePcs, RecoverPcs
  <2>2. QED
    BY <1>1, <2>1 DEF TileInv
<1>3. CASE phdr[1].size # 0
  <2>1. PICK V \in SUBSET Chunks : Links(V) /\ Pointers(V)
    BY <1>3 DEF TileInv, NoClump
  <2>2. 1 \in Chunks /\ phdr[1].size > 0
    BY <1>3, SizeType, NAssumption DEF Chunks, Ptrs
  <2>3. Links(V)'
    BY <1>1, <2>1, <2>2 DEF Links
  <2>4. Pointers(V)'
    BY <1>1 DEF Pointers, TilePcs, ReservePcs, RecoverPcs
  <2>5. QED
    BY <1>1, <2>3, <2>4 DEF TileInv
<1>4. QED
  BY <1>2, <1>3

LEMMA EnvironmentTile ==
  ASSUME TypeInv, TileInv, CallFill \/ Crash \/ Evict \/ Epoch \/ UNCHANGED vars
  PROVE  TileInv'
<1>1. CASE Exit
  <2>1. SameSizes /\ gclp' = Null /\ pc' = "down"
    BY <1>1 DEF Exit, ProcessGone, image, SameSizes
  <2>2. QED
    BY <2>1, AwayStep DEF TilePcs, ReservePcs, RecoverPcs
<1>2. CASE CallFill \/ Evict \/ Epoch \/ UNCHANGED vars
  <2>1. SameSizes
    <3>1. CASE \E p \in Chunks : EvictHdr(p)
      BY <3>1 DEF EvictHdr, SameSizes, TypeInv, HeadersOK
    <3>2. CASE ~\E p \in Chunks : EvictHdr(p)
      BY <1>2, <3>2 DEF CallFill, Fill, Evict, EvictCell, Epoch, image, vars, SameSizes
    <3>3. QED
      BY <3>1, <3>2
  <2>2. UNCHANGED <<pc, fr, gclp>>
    BY <1>2 DEF CallFill, Fill, Evict, EvictHdr, EvictCell, Epoch, proc, vars
  <2>3. QED
    BY <2>1, <2>2, StayStep
<1>3. QED
  BY <1>1, <1>2, PowerFailTile DEF Crash

-----------------------------------------------------------------------------
(* The theorem                                                              *)

LEMMA TileInvInductive == Spec => []TileInv
<1>1. Init => TileInv
  <2> SUFFICES ASSUME Init PROVE TileInv
    OBVIOUS
  <2>1. hdr[1].size = 0 /\ phdr[1].size = 0
    BY ZeroedType, NAssumption DEF Init, Chunks
  <2>2. NoClump
    BY <2>1 DEF Init, NoClump, ReservePcs, RecoverPcs
  <2>3. QED
    BY <2>2 DEF Init, TileInv
<1>2. TypeInv /\ TileInv /\ [Next]_vars => TileInv'
  <2> SUFFICES ASSUME TypeInv, TileInv, [Next]_vars PROVE TileInv'
    OBVIOUS
  <2>1. CASE Start \/ Step
    BY <2>1, StartTile, RecoverTile, CoalesceTile, ReserveTile, OnListTile, ActivateTile,
       FreeTile DEF Start, Step
  <2>2. CASE Call
    BY <2>2, EnvironmentTile, ReserveTile, OnListTile, ActivateTile, FreeTile
    DEF Call, CallReserve
  <2>3. CASE Crash \/ Evict \/ Epoch \/ UNCHANGED vars
    BY <2>3, EnvironmentTile
  <2>4. QED
    BY <2>1, <2>2, <2>3 DEF Next
<1>3. QED
  BY <1>1, <1>2, TypeInvInductive, PTL DEF Spec

LEMMA InvariantTiles == ASSUME TypeInv, TileInv PROVE PoolTiled
<1>1. 1 \in Chunks /\ hdr[N].size = 0
  BY EndSize, NAssumption DEF Chunks
<1>2. CASE NoClump
  BY <1>2 DEF PoolTiled, Tiled, NoClump
<1>3. ASSUME NEW V \in SUBSET Chunks, Links(V)
      PROVE  PoolTiled
  <2>1. WalkEnds(hdr, V)
    BY <1>1, <1>3 DEF WalkEnds, Links
  <2>2. phdr[1].size # 0 => WalkEnds(phdr, V)
    <3>1. phdr[1].size # 0 => phdr[1].size > 0
      BY <1>1, SizeType DEF Ptrs
    <3>2. QED
      BY <1>3, <3>1, EndSize DEF WalkEnds, Links
  <2>3. QED
    BY <2>1, <2>2 DEF PoolTiled, Tiled
<1>4. QED
  BY <1>2, <1>3 DEF TileInv

\* At every instant the clumps tile the pool in the cache and on the media, for
\* every pool size and every interleaving of calls, write-backs and crashes: no
\* crash inside a split, a claim or a merge loses or doubles a chunk.
THEOREM PoolAlwaysTiled == Spec => []PoolTiled
BY InvariantTiles, TypeInvInductive, TileInvInductive, PTL

-----------------------------------------------------------------------------
(* The clumps of a pool, as the walks of pmemalloc_recover and the loops of   *)
(* pmemalloc_reserve and pmemalloc_coalesce_free meet them: what changes the  *)
(* set of clumps, and that no call changes it under a pointer it has given    *)
(* out.                                                                      *)

\* An image of the pool whose sizes stay inside it.
Image(h) ==
  /\ \A p \in Chunks : h[p].size \in Nat /\ p + h[p].size <= N
  /\ h[N].size = 0

\* V is the set of clumps a walk of h meets, each of which ends where the next
\* one begins.
Walk(h, V) ==
  /\ V \subseteq Chunks \ {N}
  /\ 1 \in V
  /\ \A p \in V : h[p].size > 0 /\ p + h[p].size \in V \cup {N}
  /\ \A p, q \in V : p < q => p + h[p].size <= q

\* Every chunk a clump of W leads to is in W.
Closed(h, W) == \A q \in W : h[q].size # 0 => q + h[q].size \in W

\* The clumps a walk meets from chunk p on: those no closed set can leave out.
From(h, p) == {q \in Chunks : /\ h[q].size # 0
                              /\ \A W \in SUBSET Chunks : p \in W /\ Closed(h, W) => q \in W}

-----------------------------------------------------------------------------
(* The recursive definition of Clumps has a solution, and it is From.        *)

LEMMA FromEquation ==
  ASSUME NEW h, Image(h), NEW p \in Chunks
  PROVE  From(h, p) = IF h[p].size = 0 THEN {} ELSE {p} \cup From(h, p + h[p].size)
<1>1. CASE h[p].size = 0
  <2>1. {p} \in SUBSET Chunks /\ p \in {p} /\ Closed(h, {p})
    BY <1>1 DEF Closed
  <2>2. QED
    BY <1>1, <2>1 DEF From
<1>2. CASE h[p].size # 0
  <2> DEFINE n == p + h[p].size
  <2>1. n \in Chunks
    BY NAssumption DEF Image, Chunks
  <2>2. ASSUME NEW q \in From(h, p), q # p
        PROVE  q \in From(h, n)
    <3>1. ASSUME NEW W \in SUBSET Chunks, n \in W, Closed(h, W)
          PROVE  q \in W
      <4>1. W \cup {p} \in SUBSET Chunks /\ p \in W \cup {p} /\ Closed(h, W \cup {p})
        BY <3>1 DEF Closed
      <4>2. q \in W \cup {p}
        BY <4>1 DEF From
      <4>3. QED
        BY <2>2, <4>2
    <3>2. QED
      BY <3>1 DEF From
  <2>3. ASSUME NEW q \in From(h, n)
        PROVE  q \in From(h, p)
    BY <1>2 DEF From, Closed
  <2>4. p \in From(h, p)
    BY <1>2 DEF From
  <2>5. QED
    BY <1>2, <2>2, <2>3, <2>4
<1>3. QED
  BY <1>1, <1>2

LEMMA ClumpsEquation ==
  ASSUME NEW h, Image(h)
  PROVE  \E f : /\ \A p \in Chunks : f[p] = IF h[p].size = 0 THEN {} ELSE {p} \cup f[p + h[p].size]
                /\ Clumps(h) = f[1]
<1> DEFINE P(f) == f = [p \in Chunks |-> IF h[p].size = 0 THEN {} ELSE {p} \cup f[p + h[p].size]]
           g == [p \in Chunks |-> From(h, p)]
<1>1. P(g)
  <2>1. \A p \in Chunks : h[p].size # 0 => p + h[p].size \in Chunks
    BY NAssumption DEF Image, Chunks
  <2>2. \A p \in Chunks : From(h, p) = IF h[p].size = 0 THEN {} ELSE {p} \cup g[p + h[p].size]
    BY <2>1, FromEquation
  <2>3. QED
    BY <2>2
<1>2. Clumps(h) = (CHOOSE f : P(f))[1]
  BY DEF Clumps
<1> HIDE DEF P
<1>3. P(CHOOSE f : P(f))
  BY <1>1
<1>4. QED
  BY <1>2, <1>3 DEF P

-----------------------------------------------------------------------------
(* Induction along the pool, up and down                                    *)

LEMMA LeastNumber ==
  ASSUME NEW S, S \subseteq Nat, S # {}
  PROVE  \E p \in S : \A q \in S : p <= q
<1>1. PICK p \in S : \A q \in S : ~ (<<q, p>> \in OpToRel(<, Nat))
  BY WFMin, NatLessThanWellFounded
<1>2. ASSUME NEW q \in S PROVE p <= q
  <2>1. p \in Nat /\ q \in Nat
    OBVIOUS
  <2>2. ~ (<<q, p>> \in {z \in Nat \X Nat : z[1] < z[2]})
    BY <1>1 DEF OpToRel
  <2>3. ~ (q < p)
    BY <2>1, <2>2
  <2>4. QED
    BY <2>1, <2>3
<1>3. QED
  BY <1>2

LEMMA GreatestNumber ==
  ASSUME NEW n \in Nat, NEW S, S \subseteq 1 .. n, S # {}
  PROVE  \E p \in S : \A q \in S : q <= p
<1> DEFINE T == {p \in 1 .. n : n + 1 - p \in S}
<1>1. T # {}
  <2>1. PICK p \in S : TRUE
    OBVIOUS
  <2>2. n + 1 - p \in 1 .. n /\ n + 1 - (n + 1 - p) = p
    OBVIOUS
  <2>3. QED
    BY <2>2
<1>2. T \subseteq Nat
  OBVIOUS
<1>3. PICK p \in T : \A q \in T : p <= q
  <2> HIDE DEF T
  <2>1. QED
    BY <1>1, <1>2, LeastNumber
<1>4. n + 1 - p \in S
  OBVIOUS
<1>5. ASSUME NEW q \in S PROVE q <= n + 1 - p
  <2>1. n + 1 - q \in T
    <3>1. n + 1 - q \in 1 .. n /\ n + 1 - (n + 1 - q) = q
      OBVIOUS
    <3>2. QED
      BY <3>1
  <2>2. p <= n + 1 - q
    BY <1>3, <2>1
  <2>3. QED
    BY <2>2
<1>6. QED
  BY <1>4, <1>5

LEMMA LeastChunk ==
  ASSUME NEW S, S \subseteq Chunks, S # {}
  PROVE  \E p \in S : \A q \in S : p <= q
<1>1. S \subseteq Nat
  BY DEF Chunks
<1>2. QED
  BY <1>1, LeastNumber

LEMMA GreatestChunk ==
  ASSUME NEW S, S \subseteq Chunks, S # {}
  PROVE  \E p \in S : \A q \in S : q <= p
BY GreatestNumber, NAssumption DEF Chunks

-----------------------------------------------------------------------------
(* Clumps is the walk                                                       *)

LEMMA WalkIsClumps ==
  ASSUME NEW h, Image(h), NEW V, Walk(h, V)
  PROVE  Clumps(h) = V
<1>1. PICK f : /\ \A p \in Chunks : f[p] = IF h[p].size = 0 THEN {} ELSE {p} \cup f[p + h[p].size]
               /\ Clumps(h) = f[1]
  BY ClumpsEquation
<1> DEFINE Above(p) == {q \in V : p <= q}
           Bad == {p \in V \cup {N} : f[p] # Above(p)}
<1>2. V \cup {N} \subseteq Chunks /\ \A p \in V : p < N
  <2>1. V \subseteq Chunks \ {N} /\ N \in Chunks
    BY NAssumption DEF Walk, Chunks
  <2>2. QED
    BY <2>1, NAssumption DEF Chunks
<1>3. Bad = {}
  <2>1. SUFFICES ASSUME Bad # {} PROVE FALSE
    OBVIOUS
  <2>2. PICK p \in Bad : \A q \in Bad : q <= p
    BY <1>2, <2>1, GreatestChunk
  <2>3. CASE p = N
    <3>1. f[p] = {}
      BY <1>1, <1>2, <2>3 DEF Image
    <3>2. Above(p) = {}
      BY <1>2, <2>3, NAssumption DEF Chunks
    <3>3. QED
      BY <3>1, <3>2
  <2>4. CASE p \in V
    <3> DEFINE n == p + h[p].size
    <3>1. n \in V \cup {N} /\ n > p /\ p \in Chunks /\ n \in Chunks
      BY <1>2, <2>4 DEF Walk, Image, Chunks
    <3>2. f[n] = Above(n)
      BY <2>2, <3>1, <1>2 DEF Chunks
    <3>3. f[p] = {p} \cup f[n]
      <4>1. h[p].size # 0
        BY <2>4 DEF Walk
      <4>2. QED
        BY <1>1, <3>1, <4>1
    <3>4. \A q \in V : p <= q <=> q = p \/ n <= q
      <4>1. ASSUME NEW q \in V, p <= q, q # p
            PROVE  n <= q
        BY <4>1, <2>4, <1>2 DEF Walk, Chunks
      <4>2. QED
        BY <4>1, <3>1, <1>2 DEF Chunks
    <3>5. f[p] = Above(p)
      BY <2>4, <3>2, <3>3, <3>4
    <3>6. QED
      BY <3>5
  <2>5. QED
    BY <2>2, <2>3, <2>4
<1>4. f[1] = Above(1)
  BY <1>3 DEF Walk
<1>5. Above(1) = V
  BY <1>2 DEF Chunks
<1>6. QED
  BY <1>1, <1>4, <1>5

LEMMA NoClumps == ASSUME NEW h, Image(h), h[1].size = 0 PROVE Clumps(h) = {}
<1>1. 1 \in Chunks
  BY NAssumption DEF Chunks
<1>2. QED
  BY <1>1, ClumpsEquation

LEMMA TiledWalk ==
  ASSUME NEW h, Image(h), Tiled(h), h[1].size # 0
  PROVE  Walk(h, Clumps(h))
<1> DEFINE F == From(h, 1)
<1>1. PICK T \in SUBSET Chunks : WalkEnds(h, T)
  BY DEF Tiled
<1>2. 1 \in Chunks /\ N \in Chunks
  BY NAssumption DEF Chunks
<1>3. F \subseteq T \ {N}
  <2>1. 1 \in T /\ Closed(h, T)
    BY <1>1 DEF WalkEnds, Closed
  <2>2. QED
    BY <1>1, <2>1 DEF From, Image
<1>4. 1 \in F
  BY <1>2 DEF From
<1>5. ASSUME NEW p \in F
      PROVE  h[p].size > 0 /\ p + h[p].size \in F \cup {N}
  <2> DEFINE n == p + h[p].size
  <2>1. h[p].size > 0 /\ n \in T
    BY <1>1, <1>3 DEF WalkEnds
  <2>2. CASE n # N
    <3>1. h[n].size # 0
      BY <1>1, <2>1, <2>2 DEF WalkEnds
    <3>2. ASSUME NEW W \in SUBSET Chunks, 1 \in W, Closed(h, W)
          PROVE  n \in W
      BY <3>2 DEF From, Closed
    <3>3. QED
      BY <1>1, <2>1, <3>1, <3>2 DEF From
  <2>3. QED
    BY <2>1, <2>2
<1> HIDE DEF F
<1>6. ASSUME NEW p \in F, NEW q \in F, p < q
      PROVE  p + h[p].size <= q
  <2> DEFINE Over(x, y) == x < y /\ y < x + h[x].size
             Bad == {x \in F : \E y \in F : Over(x, y)}
  <2>1. Bad = {}
    <3>1. SUFFICES ASSUME Bad # {} PROVE FALSE
      OBVIOUS
    <3>2. PICK x \in Bad : \A z \in Bad : x <= z
      BY <1>3, <3>1, LeastChunk
    <3>3. PICK y \in F : Over(x, y)
      OBVIOUS
    <3> DEFINE W == {z \in F \cup {N} : z <= x \/ x + h[x].size <= z}
    <3>4. Closed(h, W)
      <4>1. ASSUME NEW z \in W, h[z].size # 0
            PROVE  z + h[z].size \in W
        <5>1. z \in F /\ z \in Chunks /\ x \in Chunks /\ h[z].size \in Nat /\ h[x].size \in Nat
          BY <4>1, <1>3 DEF Image
        <5>2. z + h[z].size \in F \cup {N}
          BY <1>5, <5>1
        <5>3. CASE z < x
          <6>1. z \notin Bad
            BY <3>2, <5>1, <5>3 DEF Chunks
          <6>2. ~ Over(z, x)
            BY <5>1, <6>1
          <6>3. z + h[z].size <= x
            BY <5>1, <5>3, <6>2 DEF Chunks
          <6>4. QED
            BY <5>2, <6>3
        <5>4. CASE z = x
          BY <5>1, <5>2, <5>4 DEF Chunks
        <5>5. CASE z > x
          BY <4>1, <5>1, <5>2, <5>5 DEF Chunks
        <5>6. QED
          BY <5>1, <5>3, <5>4, <5>5 DEF Chunks
      <4> HIDE DEF W
      <4>2. QED
        BY <4>1 DEF Closed
    <3>5. 1 \in W /\ W \in SUBSET Chunks
      <4>1. F \cup {N} \subseteq Chunks /\ x \in Chunks
        BY <1>1, <1>2, <1>3
      <4>2. 1 <= x
        BY <4>1 DEF Chunks
      <4>3. QED
        BY <1>4, <4>1, <4>2
    <3>6. y \in W
      <4> HIDE DEF W
      <4>1. QED
        BY <3>4, <3>5 DEF F, From
    <3>7. y \in Nat /\ x \in Nat /\ h[x].size \in Nat
      <4>1. x \in F
        BY <3>2
      <4>2. x \in Chunks /\ y \in Chunks
        BY <1>3, <4>1
      <4> HIDE DEF Bad, Over, W
      <4>3. QED
        BY <1>1, <4>2 DEF Image, Chunks
    <3>8. QED
      BY <1>2, <1>3, <3>3, <3>6, <3>7
  <2>2. ~ Over(p, q)
    BY <2>1
  <2>3. p \in Nat /\ q \in Nat /\ h[p].size \in Nat
    BY <1>1, <1>3, <1>6 DEF Image, Chunks
  <2>4. QED
    BY <1>6, <2>2, <2>3
<1>7. Walk(h, F)
  BY <1>3, <1>4, <1>5, <1>6 DEF Walk
<1>8. QED
  BY <1>7, WalkIsClumps

-----------------------------------------------------------------------------
(* The invariant                                                            *)

Live == Clumps(hdr)

\* Where a walk of the pool stops: chunk 1 if the pool has no clump at all.
Ends == IF hdr[1].size = 0 THEN {1} ELSE {N}

OpenPcs     == {"down", "create", "fsync", "recover"} \cup RecoverPcs
SplitPcs    == {"reserve.split", "reserve.clear", "reserve.claim"}
ActivatePcs == {"activate.run", "activate.clear", "activate.done"}
FreePcs     == {"free.run", "free.clear", "free.done"}

\* The process has reserved nothing yet, and freed nothing.
Fresh == handles = {} /\ gclp = Null /\ ~freed

\* Every pointer the process holds is the clump it was when it was given out, and
\* until something is freed so is the cursor of the next reserve.
OwnInv ==
  /\ pc \in OpenPcs => Fresh
  /\ pc = "coalesce" => freed \/ Fresh
  /\ pc \in FreePcs \cup {"free.begin"} => freed /\ fr.clp \notin handles
  /\ pc \in ReservePcs => ~freed
  /\ gclp = Null \/ freed \/ gclp \in Live
  /\ \A p \in handles :
       /\ p \in Live
       /\ \/ hdr[p].state \in {"RESERVED", "ACTIVE"}
          \/ hdr[p].state = "ACTIVATING" /\ p = fr.clp /\ pc \in ActivatePcs

\* The header a split has written: the rest of a clump that is about to shrink.
Leftover ==
  LET q == fr.clp + fr.csize IN
  /\ 0 < fr.csize /\ fr.csize < hdr[fr.clp].size
  /\ hdr[q].size = hdr[fr.clp].size - fr.csize
  /\ hdr[q].state = "FREE"

\* A walk stands on a clump or at the end; the run of clumps it would merge and
\* the clump it would split are free.
WalkInv ==
  /\ pc \in {"recover", "coalesce", "reserve.scan"} => fr.clp \in Live \cup Ends
  /\ pc \in RecoverPcs \cup SplitPcs => fr.clp \in Live
  /\ pc = "coalesce" /\ fr.first # Null =>
       /\ fr.first \in Live
       /\ \A p \in Live : fr.first <= p /\ p < fr.clp => hdr[p].state = "FREE"
  /\ pc \in SplitPcs => hdr[fr.clp].state = "FREE"
  /\ pc \in {"reserve.clear", "reserve.claim"} =>
       fr.csize = hdr[fr.clp].size \/ Leftover

\* Only a clump the recovery has still to visit, or the one a running call is
\* about, is half way between two states.
SettledInv ==
  \A p \in Live :
    \/ hdr[p].state \in {"FREE", "ACTIVE"}
    \/ hdr[p].state = "RESERVED" /\ p \in handles
    \/ pc \in {"down", "create", "fsync"}
    \/ pc \in {"recover"} \cup RecoverPcs /\ fr.clp <= p
    \/ pc \in ActivatePcs \cup FreePcs /\ p = fr.clp

ClumpInv == OwnInv /\ WalkInv /\ SettledInv

\* Each live clump ends where the next one begins, the last one at the end.
LiveShape ==
  /\ Live \subseteq Chunks \ {N} /\ Ends \subseteq Chunks /\ 1 \in Live \cup Ends
  /\ \A p \in Ends : hdr[p].size = 0 /\ (Live # {} => p = N)
  /\ \A p \in Live : /\ hdr[p].size \in Nat /\ hdr[p].size > 0
                     /\ p + hdr[p].size \in Live \cup Ends
  /\ \A p, q \in Live : p < q => p + hdr[p].size <= q

\* What is known of a state and of the state a step leads to.
StepOK ==
  /\ TypeInv /\ TileInv /\ LiveShape /\ ClumpInv
  /\ TypeInv' /\ TileInv' /\ LiveShape'

\* A step that changes neither the size nor the state of any header.
SameHeaders ==
  \A q \in Chunks : hdr'[q].size = hdr[q].size /\ hdr'[q].state = hdr[q].state

-----------------------------------------------------------------------------
(* The live clumps of a state, and of the next one                          *)

LEMMA ImagesOK == ASSUME TypeInv PROVE Image(hdr) /\ Image(phdr)
<1>1. N \in Chunks
  BY NAssumption DEF Chunks
<1>2. \A q \in Chunks : hdr[q].size \in Nat /\ phdr[q].size \in Nat
  BY SizeType, NAssumption DEF Ptrs
<1>3. QED
  BY <1>1, <1>2, EndSize DEF Image, TypeInv, HeadersOK

LEMMA ImageNext == ASSUME TypeInv' PROVE Image(hdr')
<1>1. N \in Chunks
  BY NAssumption DEF Chunks
<1>2. \A q \in Chunks : hdr'[q] \in Header /\ q + hdr'[q].size <= N
  BY DEF TypeInv, HeadersOK
<1>3. \A q \in Chunks : hdr'[q].size \in Nat /\ q \in Nat
  BY <1>2, NAssumption DEF Header, Ptrs, Chunks
<1>4. QED
  BY <1>1, <1>2, <1>3 DEF Image

LEMMA LiveWalk ==
  ASSUME TypeInv, TileInv
  PROVE  IF hdr[1].size = 0 THEN Live = {} ELSE Walk(hdr, Live)
BY ImagesOK, NoClumps, InvariantTiles, TiledWalk DEF Live, PoolTiled

LEMMA LiveFacts == ASSUME TypeInv, TileInv PROVE LiveShape
<1>1. 1 \in Chunks /\ N \in Chunks /\ hdr[N].size = 0
  BY NAssumption, EndSize DEF Chunks
<1>2. CASE hdr[1].size = 0
  <2>1. Live = {} /\ Ends = {1}
    BY <1>2, LiveWalk DEF Ends
  <2>2. QED
    BY <1>1, <1>2, <2>1 DEF LiveShape
<1>3. CASE hdr[1].size # 0
  <2>1. Walk(hdr, Live) /\ Ends = {N}
    BY <1>3, LiveWalk DEF Ends
  <2>2. \A p \in Chunks : hdr[p].size \in Nat
    BY ImagesOK DEF Image
  <2> HIDE DEF Live
  <2>3. QED
    BY <1>1, <2>1, <2>2 DEF Walk, LiveShape
<1>4. QED
  BY <1>2, <1>3

LEMMA ChunksNat == Chunks \subseteq Nat
BY DEF Chunks

LEMMA Neighbours ==
  ASSUME LiveShape
  PROVE  \A p \in Live : /\ p \in Nat /\ p + hdr[p].size \in Nat /\ p < p + hdr[p].size
                         /\ \A q \in Live : p <= q => q = p \/ p + hdr[p].size <= q
<1>1. SUFFICES ASSUME NEW p \in Live
      PROVE  /\ p \in Nat /\ p + hdr[p].size \in Nat /\ p < p + hdr[p].size
             /\ \A q \in Live : p <= q => q = p \/ p + hdr[p].size <= q
  OBVIOUS
<1>2. Live \subseteq Nat /\ hdr[p].size \in Nat /\ hdr[p].size > 0
  BY DEF LiveShape, Chunks
<1>3. ASSUME NEW q \in Live, p <= q, q # p
      PROVE  p + hdr[p].size <= q
  BY <1>2, <1>3 DEF LiveShape
<1>4. QED
  BY <1>2, <1>3

LEMMA SameSizesLive ==
  ASSUME TypeInv, TileInv, TypeInv', \A q \in Chunks : hdr'[q].size = hdr[q].size
  PROVE  Live' = Live /\ Ends' = Ends
<1>1. 1 \in Chunks
  BY NAssumption DEF Chunks
<1>2. CASE hdr[1].size = 0
  <2>1. hdr'[1].size = 0 /\ Image(hdr') /\ Live = {}
    BY <1>1, <1>2, LiveWalk, ImagesOK, ImageNext
  <2>2. QED
    BY <1>2, <2>1, NoClumps DEF Live, Ends
<1>3. CASE hdr[1].size # 0
  <2>1. Walk(hdr, Live) /\ Image(hdr')
    BY <1>3, LiveWalk, ImageNext
  <2>2. Walk(hdr', Live)
    BY <2>1 DEF Walk
  <2>3. QED
    BY <1>1, <1>3, <2>1, <2>2, WalkIsClumps DEF Live, Ends
<1>4. QED
  BY <1>2, <1>3

-----------------------------------------------------------------------------
(* Steps that leave the clumps as they are                                  *)

LEMMA SameHeadersLive ==
  ASSUME StepOK, SameHeaders
  PROVE  /\ Live' = Live /\ Ends' = Ends
         /\ \A p \in Live : hdr'[p].size = hdr[p].size /\ hdr'[p].state = hdr[p].state
BY SameSizesLive DEF StepOK, SameHeaders, LiveShape

LEMMA CommitSameHeaders ==
  ASSUME TypeInv, NEW p \in Chunks, NEW h, h.size = hdr[p].size, h.state = hdr[p].state,
         NEW lazy, Commit(p, h, lazy)
  PROVE  SameHeaders
BY DEF Commit, SameHeaders, TypeInv, HeadersOK

LEMMA WithState ==
  ASSUME TypeInv, NEW p \in Chunks, NEW i, NEW x
  PROVE  /\ WithOff(p, i, x).state = hdr[p].state /\ WithPtr(p, i, x).state = hdr[p].state
         /\ WithOff(p, i, x).size = hdr[p].size /\ WithPtr(p, i, x).size = hdr[p].size
BY DEF WithOff, WithPtr, TypeInv, HeadersOK, Header

LEMMA ClearOnHeaders ==
  ASSUME TypeInv, NEW here \in ClearPcs, NEW next, ClearOn(here, next)
  PROVE  SameHeaders /\ UNCHANGED proc /\ fr'.clp = fr.clp /\ pc = here /\ pc' \in {here, next}
<1>1. /\ fr.clp \in Chunks /\ fr.k \in 0 .. NumOn /\ fr \in Frame
      /\ pc = here /\ UNCHANGED proc
  BY DEF ClearOn, TypeInv, FrameOK, ClearPcs, InCall
<1>2. CASE fr.k >= 1
  <2> DEFINE z == WithOff(fr.clp, fr.k, None)
  <2>1. hdr' = [hdr EXCEPT ![fr.clp] = z] /\ fr' = [fr EXCEPT !.k = fr.k - 1] /\ pc' = pc
    BY <1>2, Zenon DEF ClearOn
  <2>2. fr.k \in Slots /\ 0 \in Ptrs
    BY <1>1, <1>2, NumOnAssumption, NAssumption DEF Slots, Ptrs
  <2>3. z.size = hdr[fr.clp].size /\ z.state = hdr[fr.clp].state
    BY <1>1, <2>2, WithType, WithState DEF TypeInv
  <2> HIDE DEF z
  <2>4. SameHeaders
    BY <1>1, <2>1, <2>3 DEF SameHeaders, TypeInv, HeadersOK
  <2>5. QED
    BY <1>1, <2>1, <2>4 DEF Frame
<1>3. CASE ~(fr.k >= 1)
  BY <1>1, <1>3 DEF ClearOn, SameHeaders
<1>4. QED
  BY <1>2, <1>3

LEMMA RunOnHeaders ==
  ASSUME TypeInv, NEW here, NEW next, NEW lazy, RunOn(here, next, lazy)
  PROVE  SameHeaders /\ UNCHANGED proc /\ fr'.clp = fr.clp /\ pc = here /\ pc' \in {here, next}
BY DEF RunOn, SameHeaders, TypeInv, FrameOK, Frame

LEMMA LeftoverChunk ==
  ASSUME TypeInv, pc \in {"reserve.clear", "reserve.claim"}, Leftover
  PROVE  fr.clp + fr.csize \in Chunks
<1>1. fr.clp \in Nat /\ fr.clp >= 1 /\ fr.clp + fr.csize <= N /\ fr.csize \in Nat
  BY NAssumption DEF TypeInv, FrameOK, Frame, InCall, Chunks, Ptrs
<1>2. QED
  BY <1>1, NAssumption DEF Leftover, Chunks

\* Steps of a call, or of the environment, that leave the call where it is.
LEMMA QuietClump ==
  ASSUME StepOK, SameHeaders, UNCHANGED proc, fr'.clp = fr.clp,
         \/ UNCHANGED <<pc, fr>>
         \/ \E P \in {RecoverPcs, ActivatePcs, FreePcs} : pc \in P /\ pc' \in P
  PROVE  ClumpInv'
<1>1. /\ Live' = Live /\ Ends' = Ends /\ UNCHANGED <<handles, gclp, freed>>
      /\ \A p \in Live : hdr'[p].size = hdr[p].size /\ hdr'[p].state = hdr[p].state
  BY SameHeadersLive DEF proc
<1> USE DEF RecoverPcs, ActivatePcs, FreePcs
<1>2. OwnInv'
  BY <1>1 DEF StepOK, ClumpInv, OwnInv, Fresh, OpenPcs, ReservePcs
<1>3. WalkInv'
  <2>1. CASE UNCHANGED <<pc, fr>>
    <3>1. ASSUME pc \in {"reserve.clear", "reserve.claim"}, Leftover
          PROVE  Leftover'
      <4>1. fr.clp \in Live /\ fr.clp + fr.csize \in Chunks
        BY <3>1, LeftoverChunk DEF StepOK, ClumpInv, WalkInv, SplitPcs
      <4>2. QED
        BY <1>1, <2>1, <3>1, <4>1 DEF Leftover, SameHeaders
    <3>2. QED
      BY <1>1, <2>1, <3>1 DEF StepOK, ClumpInv, WalkInv, SplitPcs
  <2>2. CASE \E P \in {RecoverPcs, ActivatePcs, FreePcs} : pc \in P /\ pc' \in P
    BY <1>1, <2>2 DEF StepOK, ClumpInv, WalkInv, SplitPcs
  <2>3. QED
    BY <2>1, <2>2
<1>4. SettledInv'
  BY <1>1 DEF StepOK, ClumpInv, SettledInv
<1>5. QED
  BY <1>2, <1>3, <1>4 DEF ClumpInv

\* Outside the calls that walk the pool or hold a clump half way.
CalmPcs == {"idle", "onactive.off", "onfree.off", "activate.begin"}

LEMMA CalmClump ==
  ASSUME StepOK, SameHeaders, UNCHANGED proc, pc \in CalmPcs, pc' \in CalmPcs
  PROVE  ClumpInv'
<1>1. /\ Live' = Live /\ UNCHANGED <<handles, gclp, freed>>
      /\ \A p \in Live : hdr'[p].state = hdr[p].state
  BY SameHeadersLive DEF proc
<1> USE DEF CalmPcs, RecoverPcs, ActivatePcs, FreePcs
<1>2. OwnInv'
  BY <1>1 DEF StepOK, ClumpInv, OwnInv, Fresh, OpenPcs, ReservePcs
<1>3. WalkInv'
  BY DEF WalkInv, SplitPcs
<1>4. SettledInv'
  BY <1>1 DEF StepOK, ClumpInv, SettledInv
<1>5. QED
  BY <1>2, <1>3, <1>4 DEF ClumpInv

\* What a change of state does.
LEMMA SetStateLive ==
  ASSUME StepOK, pc \in InCall, NEW s \in States, NEW lazy,
         Commit(fr.clp, InState(fr.clp, s), lazy)
  PROVE  /\ Live' = Live /\ Ends' = Ends
         /\ \A p \in Live : hdr'[p].state = IF p = fr.clp THEN s ELSE hdr[p].state
<1>1. fr.clp \in Chunks /\ hdr \in [Chunks -> Header]
  BY DEF StepOK, TypeInv, FrameOK, HeadersOK
<1> DEFINE z == InState(fr.clp, s)
<1>2. z.size = hdr[fr.clp].size /\ z.state = s
  BY <1>1 DEF InState, Header
<1>3. hdr' = [hdr EXCEPT ![fr.clp] = z]
  BY DEF Commit
<1> HIDE DEF z
<1>4. \A q \in Chunks : /\ hdr'[q].size = hdr[q].size
                        /\ hdr'[q].state = IF q = fr.clp THEN s ELSE hdr[q].state
  BY <1>1, <1>2, <1>3
<1>5. QED
  BY <1>4, SameSizesLive DEF StepOK, LiveShape

-----------------------------------------------------------------------------
(* One lemma per part of the next-state relation                            *)

\* The process is gone: nothing is held, nothing is being walked.
LEMMA GoneClump == ASSUME ProcessGone PROVE ClumpInv'
<1>1. pc' = "down" /\ Fresh' /\ handles' = {}
  BY DEF ProcessGone, Fresh
<1>2. OwnInv'
  BY <1>1 DEF OwnInv, Fresh, FreePcs, ReservePcs
<1>3. WalkInv'
  BY <1>1 DEF WalkInv, RecoverPcs, SplitPcs
<1>4. SettledInv'
  BY <1>1 DEF SettledInv
<1>5. QED
  BY <1>2, <1>3, <1>4 DEF ClumpInv

LEMMA StartClump ==
  ASSUME StepOK, Create \/ CreateClump \/ CreateSync \/ Open
  PROVE  ClumpInv'
<1>1. Fresh /\ UNCHANGED proc /\ pc' \in {"create", "fsync", "recover"}
  BY DEF Create, CreateClump, CreateSync, Open, StepOK, ClumpInv, OwnInv, OpenPcs, StartRecover
<1>2. Fresh' /\ handles' = {}
  BY <1>1 DEF Fresh, proc
<1>3. OwnInv'
  BY <1>1, <1>2 DEF OwnInv, Fresh, FreePcs, ReservePcs
<1>4. pc' = "recover" => fr'.clp = 1
  BY DEF Create, CreateClump, CreateSync, Open, StartRecover, NoFrame
<1>5. (1 \in Live \cup Ends)' /\ \A p \in Live' : 1 <= p
  <2>1. Live' \subseteq Chunks /\ (1 \in Live \cup Ends)'
    BY DEF StepOK, LiveShape
  <2>2. QED
    BY <2>1 DEF Chunks
<1>6. WalkInv'
  BY <1>1, <1>4, <1>5 DEF WalkInv, RecoverPcs, SplitPcs
<1>7. SettledInv'
  BY <1>1, <1>4, <1>5 DEF SettledInv
<1>8. QED
  BY <1>3, <1>6, <1>7 DEF ClumpInv

LEMMA RecoverVisit ==
  ASSUME StepOK, RecoverClump
  PROVE  ClumpInv'
<1>1. /\ pc = "recover" /\ Fresh /\ UNCHANGED <<image, proc, env>>
      /\ fr \in Frame /\ fr.clp \in Live \cup Ends
  BY DEF RecoverClump, StepOK, ClumpInv, OwnInv, WalkInv, OpenPcs, TypeInv, FrameOK
<1>2. Fresh' /\ handles' = {} /\ hdr' = hdr
  BY <1>1 DEF Fresh, proc, image
<1>3. Live' = Live /\ Ends' = Ends
  BY <1>2, SameSizesLive DEF StepOK
<1>4. pc' \in {"recover", "coalesce"} \cup RecoverPcs
  BY <1>1 DEF RecoverClump, StartCoalesce, RecoverPcs
<1>5. OwnInv'
  BY <1>2, <1>4 DEF OwnInv, Fresh, FreePcs, RecoverPcs, ReservePcs
<1>6. \A p \in Live : hdr[p].state \in {"FREE", "ACTIVE"} \/ fr.clp <= p
  BY <1>1, <1>2 DEF StepOK, ClumpInv, SettledInv, Fresh, RecoverPcs, ActivatePcs, FreePcs
<1>7. Live \subseteq Chunks \ {N} /\ Ends \subseteq Chunks /\ 1 \in Live \cup Ends
  BY DEF StepOK, LiveShape
<1>8. CASE hdr[fr.clp].size = 0
  <2>1. pc' = "coalesce" /\ fr'.clp = 1 /\ fr'.first = Null
    BY <1>8 DEF RecoverClump, StartCoalesce, NoFrame, Null
  <2>2. \A p \in Live : hdr[p].state \in {"FREE", "ACTIVE"}
    <3>1. SUFFICES ASSUME NEW p \in Live, fr.clp <= p PROVE FALSE
      BY <1>6
    <3>2. fr.clp = N
      BY <1>1, <1>8, <3>1 DEF StepOK, LiveShape
    <3>3. QED
      BY <1>7, <3>1, <3>2, NAssumption DEF Chunks
  <2>3. WalkInv'
    BY <1>3, <1>7, <2>1 DEF WalkInv, RecoverPcs, SplitPcs
  <2>4. SettledInv'
    BY <1>2, <1>3, <2>2 DEF SettledInv
  <2>5. QED
    BY <1>5, <2>3, <2>4 DEF ClumpInv
<1>9. CASE hdr[fr.clp].size # 0
  <2>1. fr.clp \in Live /\ fr.clp + hdr[fr.clp].size \in Live \cup Ends
    BY <1>1, <1>9 DEF StepOK, LiveShape
  <2>2. CASE hdr[fr.clp].state \in {"FREE", "ACTIVE"}
    <3>1. pc' = "recover" /\ fr'.clp = fr.clp + hdr[fr.clp].size
      BY <1>1, <1>9, <2>2 DEF RecoverClump, Frame
    <3>2. ASSUME NEW p \in Live
          PROVE  hdr[p].state \in {"FREE", "ACTIVE"} \/ fr'.clp <= p
      <4>1. fr.clp <= p => p = fr.clp \/ fr'.clp <= p
        BY <2>1, <3>1, Neighbours DEF StepOK
      <4>2. QED
        BY <1>6, <2>2, <4>1
    <3>3. WalkInv'
      BY <1>3, <2>1, <3>1 DEF WalkInv, RecoverPcs, SplitPcs
    <3>4. SettledInv'
      BY <1>2, <1>3, <3>1, <3>2 DEF SettledInv
    <3>5. QED
      BY <1>5, <3>3, <3>4 DEF ClumpInv
  <2>3. CASE hdr[fr.clp].state \notin {"FREE", "ACTIVE"}
    <3>1. pc' \in RecoverPcs /\ fr'.clp = fr.clp
      BY <1>1, <1>9, <2>3 DEF RecoverClump, RecoverPcs, Frame
    <3>2. WalkInv'
      BY <1>3, <2>1, <3>1 DEF WalkInv, RecoverPcs, SplitPcs
    <3>3. SettledInv'
      BY <1>2, <1>3, <1>6, <3>1 DEF SettledInv
    <3>4. QED
      BY <1>5, <3>2, <3>3 DEF ClumpInv
  <2>4. QED
    BY <2>2, <2>3
<1>10. QED
  BY <1>8, <1>9

LEMMA RecoverClumps ==
  ASSUME StepOK, RecoverClump \/ RecoverRun \/ RecoverClear \/ RecoverDone
  PROVE  ClumpInv'
<1>1. CASE RecoverClump
  BY <1>1, RecoverVisit
<1>2. CASE RecoverRun
  <2>1. SameHeaders /\ UNCHANGED proc /\ fr'.clp = fr.clp /\ pc \in RecoverPcs /\ pc' \in RecoverPcs
    BY <1>2, RunOnHeaders DEF RecoverRun, RecoverPcs, StepOK
  <2>2. QED
    BY <2>1, QuietClump
<1>3. CASE RecoverClear
  <2>1. SameHeaders /\ UNCHANGED proc /\ fr'.clp = fr.clp /\ pc \in RecoverPcs /\ pc' \in RecoverPcs
    BY <1>3, ClearOnHeaders DEF RecoverClear, RecoverPcs, StepOK, ClearPcs
  <2>2. QED
    BY <2>1, QuietClump
<1>4. CASE RecoverDone
  <2> DEFINE s == IF hdr[fr.clp].state = "ACTIVATING" THEN "ACTIVE" ELSE "FREE"
  <2>1. /\ Commit(fr.clp, InState(fr.clp, s), FALSE) /\ s \in {"FREE", "ACTIVE"}
        /\ fr' = [NoFrame EXCEPT !.clp = fr.clp + hdr[fr.clp].size]
        /\ pc = "recover.done" /\ pc' = "recover" /\ UNCHANGED proc
    BY <1>4, Zenon DEF RecoverDone
  <2> HIDE DEF s
  <2>2. /\ Live' = Live /\ Ends' = Ends /\ UNCHANGED <<handles, gclp, freed>>
        /\ \A p \in Live : hdr'[p].state = IF p = fr.clp THEN s ELSE hdr[p].state
    BY <2>1, SetStateLive DEF InCall, States, proc
  <2>3. fr'.clp = fr.clp + hdr[fr.clp].size /\ fr.clp \in Live /\ Fresh
    BY <2>1 DEF NoFrame, StepOK, ClumpInv, WalkInv, OwnInv, OpenPcs, RecoverPcs
  <2>4. fr'.clp \in Live \cup Ends /\ \A p \in Live : fr.clp <= p => p = fr.clp \/ fr'.clp <= p
    BY <2>3, Neighbours DEF StepOK, LiveShape
  <2>5. \A p \in Live : hdr[p].state \in {"FREE", "ACTIVE"} \/ fr.clp <= p
    BY <2>1, <2>3 DEF StepOK, ClumpInv, SettledInv, Fresh, RecoverPcs, ActivatePcs, FreePcs
  <2>6. OwnInv'
    BY <2>1, <2>2, <2>3 DEF OwnInv, Fresh, FreePcs, ReservePcs
  <2>7. WalkInv'
    BY <2>1, <2>2, <2>4 DEF WalkInv, RecoverPcs, SplitPcs
  <2>8. SettledInv'
    BY <2>1, <2>2, <2>4, <2>5 DEF SettledInv
  <2>9. QED
    BY <2>6, <2>7, <2>8 DEF ClumpInv
<1>5. QED
  BY <1>1, <1>2, <1>3, <1>4

\* What a merge does to the clumps: those inside the run go, all of them free.
LEMMA MergeLive ==
  ASSUME StepOK, pc = "coalesce", NEW lazy, Merge(lazy)
  PROVE  /\ Live' \subseteq Live /\ Ends' = Ends
         /\ \A p \in Live : hdr[p].state # "FREE" \/ fr.clp <= p => p \in Live'
         /\ \A p \in Live' : hdr'[p].state = hdr[p].state
         /\ \A p \in Live : fr.clp <= p => hdr'[p].size = hdr[p].size
         /\ \A p \in Live : hdr[p].state # "FREE" => hdr'[p] = hdr[p]
<1>1. CASE ~RunOfTwo
  <2>1. hdr' = hdr
    BY <1>1 DEF Merge
  <2>2. Live' = Live /\ Ends' = Ends
    BY <2>1, SameSizesLive DEF StepOK
  <2>3. QED
    BY <2>1, <2>2
<1>2. CASE RunOfTwo
  <2> DEFINE f == fr.first
             m == [hdr[f] EXCEPT !.size = fr.csize, !.state = "FREE"]
             G == {p \in Live : p <= f \/ fr.clp <= p}
  <2>1. f \in Live /\ fr.clp \in Live \cup Ends /\ f + fr.csize = fr.clp
        /\ \A p \in Live : f <= p /\ p < fr.clp => hdr[p].state = "FREE"
    BY <1>2 DEF RunOfTwo, StepOK, ClumpInv, WalkInv, TypeInv, FrameOK
  <2>2. fr.csize \in Nat /\ fr.csize > 0
    <3>1. fr.csize \in Nat
      BY NAssumption DEF StepOK, TypeInv, FrameOK, Frame, Ptrs
    <3>2. fr.csize > 0
      BY <1>2 DEF RunOfTwo, StepOK, TileInv, NoClump, Pointers
    <3>3. QED
      BY <3>1, <3>2
  <2>3. hdr' = [hdr EXCEPT ![f] = m]
    BY <1>2 DEF Merge, Commit
  <2>4. m.size = fr.csize /\ m.state = "FREE" /\ f \in Chunks
    <3>1. f \in Chunks /\ hdr[f] \in Header
      BY <2>1 DEF StepOK, LiveShape, TypeInv, HeadersOK
    <3>2. QED
      BY <3>1 DEF Header
  <2> HIDE DEF m
  <2>5. \A q \in Chunks : q # f => hdr'[q] = hdr[q]
    BY <2>3, <2>4 DEF StepOK, TypeInv, HeadersOK
  <2>6. hdr'[f].size = fr.csize /\ hdr'[f].state = "FREE"
    BY <2>3, <2>4 DEF StepOK, TypeInv, HeadersOK
  <2>7. /\ Live \subseteq Chunks \ {N} /\ Ends = {N} /\ hdr[1].size # 0 /\ 1 \in Live
        /\ Live \subseteq Nat /\ fr.clp \in Nat /\ f < fr.clp
    <3>1. Live # {} /\ Live \subseteq Chunks \ {N} /\ Ends \subseteq Chunks
      BY <2>1 DEF StepOK, LiveShape
    <3>2. Ends = {N} /\ hdr[1].size # 0
      BY <3>1, LiveWalk DEF StepOK, Ends
    <3>3. 1 \in Live
      BY <3>2, NAssumption DEF StepOK, LiveShape
    <3>4. Live \subseteq Nat /\ fr.clp \in Nat
      BY <2>1, <3>1, ChunksNat
    <3>5. f < fr.clp
      <4>1. f \in Nat /\ fr.clp \in Nat /\ f + fr.csize = fr.clp
        BY <2>1, <3>4
      <4>2. QED
        BY <2>2, <4>1
    <3>6. QED
      BY <3>1, <3>2, <3>3, <3>4, <3>5
  <2>8. \A p \in Live : /\ p < p + hdr[p].size /\ p + hdr[p].size \in Live \cup {N}
                        /\ \A q \in Live : p < q => p + hdr[p].size <= q
    BY <2>7, Neighbours DEF StepOK, LiveShape
  <2>9. Walk(hdr', G)
    <3>1. G \subseteq Chunks \ {N}
      BY <2>7
    <3>2. 1 \in G
      BY <2>1, <2>4, <2>7 DEF Chunks
    <3>3. ASSUME NEW p \in G
          PROVE  hdr'[p].size > 0 /\ p + hdr'[p].size \in G \cup {N}
      <4>1. CASE p = f
        <5>1. fr.clp \in G \cup {N}
          BY <2>1, <2>7
        <5>2. QED
          BY <2>1, <2>2, <2>6, <4>1, <5>1
      <4>2. CASE p # f
        <5>1. hdr'[p] = hdr[p] /\ p \in Live
          BY <2>5, <2>7, <4>2
        <5>2. hdr[p].size > 0 /\ hdr[p].size \in Nat /\ p + hdr[p].size \in Live \cup {N}
          BY <2>7, <5>1 DEF StepOK, LiveShape
        <5>3. p + hdr[p].size <= f \/ fr.clp <= p + hdr[p].size
          <6>1. p \in Nat /\ f \in Nat /\ (p < f => p + hdr[p].size <= f)
            BY <2>1, <2>7, <2>8, <5>1
          <6>2. p < f \/ fr.clp <= p
            BY <4>2, <6>1
          <6>3. QED
            BY <2>7, <5>2, <6>1, <6>2
        <5>4. QED
          BY <5>1, <5>2, <5>3
      <4>3. QED
        BY <4>1, <4>2
    <3>4. ASSUME NEW p \in G, NEW q \in G, p < q
          PROVE  p + hdr'[p].size <= q
      <4>1. CASE p = f
        <5>1. p \in Nat /\ q \in Nat /\ (q <= p \/ fr.clp <= q)
          BY <2>7, <4>1
        <5>2. p + hdr'[p].size = fr.clp
          BY <2>1, <2>6, <4>1
        <5>3. QED
          BY <2>7, <3>4, <5>1, <5>2
      <4>2. CASE p # f
        <5>1. p \in Live /\ q \in Live /\ hdr'[p] = hdr[p]
          BY <2>5, <2>7, <4>2
        <5>2. p + hdr[p].size <= q
          BY <2>8, <3>4, <5>1
        <5>3. QED
          BY <5>1, <5>2
      <4>3. QED
        BY <4>1, <4>2
    <3> HIDE DEF G
    <3>5. QED
      BY <3>1, <3>2, <3>3, <3>4 DEF Walk
  <2>10. Live' = G /\ Ends' = {N}
    <3>1. Live' = G
      BY <2>9, WalkIsClumps, ImageNext DEF Live, StepOK
    <3>2. hdr'[1].size # 0
      BY <2>2, <2>5, <2>6, <2>7
    <3>3. QED
      BY <3>1, <3>2 DEF Ends
  <2>11. ASSUME NEW p \in Live, hdr[p].state # "FREE" \/ fr.clp <= p
         PROVE  p \in G
    <3>1. p \in Nat /\ f \in Nat /\ fr.clp \in Nat
      BY <2>1, <2>7
    <3>2. ~(f <= p /\ p < fr.clp)
      BY <2>1, <2>11, <3>1
    <3>3. QED
      BY <3>1, <3>2
  <2>12. ASSUME NEW p \in G PROVE hdr'[p].state = hdr[p].state
    BY <2>1, <2>5, <2>6, <2>7
  <2>13. ASSUME NEW p \in Live, fr.clp <= p PROVE hdr'[p].size = hdr[p].size
    BY <2>5, <2>7, <2>13
  <2>14. ASSUME NEW p \in Live, hdr[p].state # "FREE" PROVE hdr'[p] = hdr[p]
    BY <2>1, <2>5, <2>7, <2>14
  <2> HIDE DEF G
  <2>15. QED
    BY <2>7, <2>10, <2>11, <2>12, <2>13, <2>14 DEF G
<1>3. QED
  BY <1>1, <1>2

LEMMA CoalesceClump == ASSUME StepOK, CoalesceStep \/ CoalesceEnd PROVE ClumpInv'
<1> DEFINE n == fr.clp + hdr[fr.clp].size
<1>1. /\ pc = "coalesce" /\ UNCHANGED proc /\ fr \in Frame /\ fr.clp \in Live \cup Ends
      /\ freed \/ Fresh
  BY DEF CoalesceStep, CoalesceEnd, StepOK, ClumpInv, WalkInv, OwnInv, TypeInv, FrameOK
<1>2. \A p \in Live : \/ hdr[p].state \in {"FREE", "ACTIVE"}
                      \/ hdr[p].state = "RESERVED" /\ p \in handles
  BY <1>1 DEF StepOK, ClumpInv, SettledInv, RecoverPcs, ActivatePcs, FreePcs
<1>3. \A p \in handles : p \in Live /\ hdr[p].state \in {"RESERVED", "ACTIVE"}
  BY <1>1 DEF StepOK, ClumpInv, OwnInv, ActivatePcs
<1>4. ASSUME pc' \in {"idle", "coalesce"}, Live' \subseteq Live,
             \A p \in Live : hdr[p].state # "FREE" => p \in Live',
             \A p \in Live' : hdr'[p].state = hdr[p].state
      PROVE  OwnInv' /\ SettledInv'
  <2>1. UNCHANGED <<handles, gclp, freed>>
    BY <1>1 DEF proc
  <2>2. OwnInv'
    BY <1>1, <1>3, <1>4, <2>1
    DEF OwnInv, Fresh, OpenPcs, RecoverPcs, FreePcs, ReservePcs
  <2>3. SettledInv'
    BY <1>2, <1>4, <2>1 DEF SettledInv
  <2>4. QED
    BY <2>2, <2>3
<1>5. CASE CoalesceEnd
  <2>1. Merge(FALSE) /\ pc' = "idle"
    BY <1>5, Zenon DEF CoalesceEnd, Return
  <2>2. WalkInv'
    BY <2>1 DEF WalkInv, RecoverPcs, SplitPcs
  <2>3. QED
    BY <1>1, <1>4, <2>1, <2>2, MergeLive DEF ClumpInv
<1>6. CASE CoalesceStep /\ hdr[fr.clp].state = "FREE"
  <2>1. /\ hdr' = hdr /\ pc' = "coalesce" /\ hdr[fr.clp].size # 0
        /\ fr' = [fr EXCEPT !.first = IF fr.first = Null THEN fr.clp ELSE fr.first,
                            !.last = IF fr.first = Null THEN fr.last ELSE fr.clp,
                            !.csize = fr.csize + hdr[fr.clp].size,
                            !.clp = n]
    BY <1>1, <1>6 DEF CoalesceStep
  <2>2. Live' = Live /\ Ends' = Ends
    BY <2>1, SameSizesLive DEF StepOK
  <2>3. fr.clp \in Live /\ n \in Live \cup Ends
    BY <1>1, <2>1 DEF StepOK, LiveShape
  <2>4. fr'.clp = n /\ fr'.first = IF fr.first = Null THEN fr.clp ELSE fr.first
    BY <1>1, <2>1 DEF Frame
  <2>5. ASSUME NEW p \in Live, fr'.first <= p, p < n
        PROVE  hdr[p].state = "FREE"
    <3>1. p \in Nat /\ fr.clp \in Nat /\ n \in Nat
          /\ (fr.clp <= p => p = fr.clp \/ n <= p)
      BY <2>3, Neighbours DEF StepOK
    <3>2. CASE fr.clp <= p
      BY <1>6, <2>5, <3>1, <3>2
    <3>3. CASE p < fr.clp
      <4>1. fr.first # Null /\ fr.first <= p
        BY <2>4, <2>5, <3>1, <3>3
      <4>2. QED
        BY <1>1, <3>3, <4>1 DEF StepOK, ClumpInv, WalkInv
    <3>4. QED
      BY <3>1, <3>2, <3>3
  <2>6. fr'.first \in Live
    BY <1>1, <2>3, <2>4 DEF StepOK, ClumpInv, WalkInv
  <2>7. WalkInv'
    <3> HIDE DEF n
    <3>1. fr'.clp \in Live' \cup Ends'
      BY <2>2, <2>3, <2>4
    <3>2. QED
      BY <2>1, <2>2, <2>4, <2>5, <2>6, <3>1 DEF WalkInv, RecoverPcs, SplitPcs
  <2>8. QED
    BY <1>4, <2>1, <2>2, <2>7 DEF ClumpInv
<1>7. CASE CoalesceStep /\ hdr[fr.clp].state # "FREE"
  <2>1. /\ Merge(fr.lazy) /\ pc' = "coalesce" /\ hdr[fr.clp].size # 0
        /\ fr' = [fr EXCEPT !.first = Null, !.last = Null, !.csize = 0, !.clp = n]
    BY <1>1, <1>7 DEF CoalesceStep
  <2>2. /\ Live' \subseteq Live /\ Ends' = Ends
        /\ \A p \in Live : hdr[p].state # "FREE" \/ fr.clp <= p => p \in Live'
        /\ \A p \in Live' : hdr'[p].state = hdr[p].state
    BY <1>1, <2>1, MergeLive
  <2>3. fr.clp \in Live /\ n \in Live \cup Ends
    BY <1>1, <2>1 DEF StepOK, LiveShape
  <2>4. n \in Live' \cup Ends'
    <3>1. fr.clp \in Nat /\ n \in Nat /\ fr.clp < n
      BY <2>3, Neighbours DEF StepOK
    <3>2. QED
      BY <2>2, <2>3, <3>1
  <2>5. fr'.clp = n /\ fr'.first = Null
    BY <1>1, <2>1 DEF Frame
  <2> HIDE DEF n
  <2>6. WalkInv'
    BY <2>1, <2>4, <2>5 DEF WalkInv, RecoverPcs, SplitPcs
  <2>7. QED
    BY <1>4, <2>1, <2>2, <2>6 DEF ClumpInv
<1>8. QED
  BY <1>5, <1>6, <1>7

\* Between calls every clump is settled, and every pointer held is a clump in use.
LEMMA RestingFacts ==
  ASSUME StepOK, pc \in ReservePcs \cup CalmPcs \cup {"free.begin"}
  PROVE  /\ \A p \in Live : \/ hdr[p].state \in {"FREE", "ACTIVE"}
                            \/ hdr[p].state = "RESERVED" /\ p \in handles
         /\ \A p \in handles : p \in Live /\ hdr[p].state \in {"RESERVED", "ACTIVE"}
BY DEF StepOK, ClumpInv, SettledInv, OwnInv, ReservePcs, CalmPcs, RecoverPcs, ActivatePcs,
       FreePcs

LEMMA ReserveStartClump ==
  ASSUME StepOK, ~Remix, NEW size \in Requests, Reserve(size)
  PROVE  ClumpInv'
<1> DEFINE start == IF gclp = Null THEN 1 ELSE gclp
<1>1. CASE Fatal
  BY <1>1, GoneClump DEF Fatal
<1>2. CASE ~Fatal
  <2>1. /\ pc = "idle" /\ ~freed /\ pc' = "reserve.scan"
        /\ fr' = [NoFrame EXCEPT !.clp = start, !.nsize = NSize(size)]
        /\ UNCHANGED <<image, proc, env>>
    BY <1>2 DEF Reserve
  <2>2. hdr' = hdr /\ UNCHANGED <<handles, gclp, freed>>
    BY <2>1 DEF image, proc
  <2>3. Live' = Live /\ Ends' = Ends
    BY <2>2, SameSizesLive DEF StepOK
  <2>4. start \in Live \cup Ends
    BY <2>1 DEF StepOK, LiveShape, ClumpInv, OwnInv
  <2> HIDE DEF start
  <2>5. fr'.clp = start
    BY <2>1 DEF NoFrame
  <2>6. OwnInv'
    BY <2>1, <2>2, <2>3
    DEF StepOK, ClumpInv, OwnInv, OpenPcs, FreePcs, RecoverPcs, ActivatePcs
  <2>7. WalkInv'
    BY <2>1, <2>3, <2>4, <2>5 DEF WalkInv, RecoverPcs, SplitPcs
  <2>8. SettledInv'
    BY <2>1, <2>2, <2>3, RestingFacts DEF SettledInv, CalmPcs
  <2>9. QED
    BY <2>6, <2>7, <2>8 DEF ClumpInv
<1>3. QED
  BY <1>1, <1>2

LEMMA ReserveScanClump == ASSUME StepOK, ReserveScan PROVE ClumpInv'
<1> DEFINE h == hdr[fr.clp]
<1>1. /\ pc = "reserve.scan" /\ fr \in Frame /\ fr.clp \in Live \cup Ends /\ ~freed
      /\ hdr' = hdr /\ UNCHANGED <<handles, gclp, freed>>
  BY DEF ReserveScan, StepOK, ClumpInv, WalkInv, OwnInv, ReservePcs, TypeInv, FrameOK, image,
         proc
<1>2. Live' = Live /\ Ends' = Ends
  BY <1>1, SameSizesLive DEF StepOK
<1>3. pc' \in ReservePcs \cup {"idle"}
  BY <1>1 DEF ReserveScan, Return, ReservePcs
<1>4. OwnInv'
  BY <1>1, <1>2, <1>3
  DEF StepOK, ClumpInv, OwnInv, OpenPcs, FreePcs, RecoverPcs, ActivatePcs, ReservePcs
<1>5. SettledInv'
  BY <1>1, <1>2, RestingFacts DEF SettledInv, ReservePcs
<1>6. WalkInv'
  <2>1. CASE h.size = 0
    BY <2>1 DEF ReserveScan, Return, WalkInv, RecoverPcs, SplitPcs
  <2>2. CASE h.size # 0
    <3>1. fr.clp \in Live /\ fr.clp + h.size \in Live \cup Ends
      BY <1>1, <2>2 DEF StepOK, LiveShape
    <3>2. CASE fr' = [fr EXCEPT !.clp = fr.clp + h.size] /\ pc' = pc
      <4>1. fr'.clp = fr.clp + h.size
        BY <1>1, <3>2 DEF Frame
      <4>2. QED
        BY <1>1, <1>2, <3>1, <3>2, <4>1 DEF WalkInv, RecoverPcs, SplitPcs
    <3>3. CASE /\ h.state = "FREE"
               /\ pc' = IF h.size - fr.nsize >= 2 THEN "reserve.split" ELSE "reserve.clear"
               /\ fr' = [fr EXCEPT !.csize = IF h.size - fr.nsize >= 2
                                               THEN fr.nsize ELSE h.size]
      <4>1. /\ fr'.clp = fr.clp /\ pc' \in {"reserve.split", "reserve.clear"}
            /\ pc' = "reserve.clear" => fr'.csize = h.size
        BY <1>1, <3>3 DEF Frame
      <4>2. QED
        BY <1>1, <1>2, <3>1, <3>3, <4>1 DEF WalkInv, RecoverPcs, SplitPcs
    <3>4. QED
      BY <2>2, <3>2, <3>3 DEF ReserveScan
  <2>3. QED
    BY <2>1, <2>2
<1>7. QED
  BY <1>4, <1>5, <1>6 DEF ClumpInv

\* The header a split writes lies strictly inside a free clump.
LEMMA SplitChunk ==
  ASSUME StepOK, pc = "reserve.split"
  PROVE  LET q == fr.clp + fr.nsize IN
         /\ fr.csize = fr.nsize /\ 0 < fr.nsize /\ fr.nsize < hdr[fr.clp].size
         /\ q \in Chunks /\ q # 1 /\ q # fr.clp /\ q \notin Live /\ q # N
<1> DEFINE q == fr.clp + fr.nsize
<1>1. /\ fr.clp \in Live /\ fr.nsize \in Nat /\ fr.nsize + 2 <= hdr[fr.clp].size
      /\ fr.csize = fr.nsize
  BY DEF StepOK, ClumpInv, WalkInv, SplitPcs, TypeInv, FrameOK, Frame
<1>2. fr.nsize > 0
  BY DEF StepOK, TileInv, NoClump, Pointers, ReservePcs
<1>3. /\ fr.clp \in Nat /\ hdr[fr.clp].size \in Nat /\ fr.clp + hdr[fr.clp].size <= N
      /\ fr.clp \in Chunks
  <2>1. fr.clp \in Chunks
    BY <1>1 DEF StepOK, LiveShape
  <2>2. hdr[fr.clp].size \in Nat /\ fr.clp + hdr[fr.clp].size <= N
    BY <2>1, ImagesOK DEF StepOK, Image
  <2>3. QED
    BY <2>1, <2>2, ChunksNat
<1>4. q \in Chunks /\ q # 1 /\ q # fr.clp /\ q \notin Live /\ q # N
  <2>1. q \in Nat /\ fr.clp < q /\ q < fr.clp + hdr[fr.clp].size /\ fr.clp >= 1
    BY <1>1, <1>2, <1>3 DEF Chunks
  <2>2. q \in Chunks /\ q # 1 /\ q # fr.clp /\ q # N
    BY <1>3, <2>1, NAssumption DEF Chunks
  <2>3. q \notin Live
    <3>1. SUFFICES ASSUME q \in Live PROVE FALSE
      OBVIOUS
    <3>2. fr.clp + hdr[fr.clp].size <= q
      BY <1>1, <2>1, <3>1 DEF StepOK, LiveShape
    <3>3. QED
      BY <1>3, <2>1, <3>2
  <2>4. QED
    BY <2>2, <2>3
<1>5. 0 < fr.nsize /\ fr.nsize < hdr[fr.clp].size
  BY <1>1, <1>2, <1>3
<1>6. QED
  BY <1>1, <1>4, <1>5

LEMMA SplitLive ==
  ASSUME StepOK, ReserveSplit
  PROVE  LET q == fr.clp + fr.nsize IN
         /\ Live' = Live /\ Ends' = Ends
         /\ hdr'[q].size = hdr[fr.clp].size - fr.nsize /\ hdr'[q].state = "FREE"
         /\ \A p \in Chunks : p # q => hdr'[p] = hdr[p]
<1> DEFINE q == fr.clp + fr.nsize
           z == [Zeroed EXCEPT !.size = hdr[fr.clp].size - fr.nsize]
<1>1. pc = "reserve.split" /\ hdr' = [hdr EXCEPT ![q] = z]
  BY Zenon DEF ReserveSplit, Commit
<1>2. z.size = hdr[fr.clp].size - fr.nsize /\ z.state = "FREE"
  BY DEF Zeroed
<1> HIDE DEF z
<1>3. q \in Chunks /\ q # 1 /\ q \notin Live /\ fr.clp \in Live
  BY <1>1, SplitChunk DEF StepOK, ClumpInv, WalkInv, SplitPcs
<1> HIDE DEF q
<1>4. hdr'[q] = z /\ \A p \in Chunks : p # q => hdr'[p] = hdr[p]
  BY <1>1, <1>3 DEF StepOK, TypeInv, HeadersOK
<1>5. Live' = Live /\ Ends' = Ends
  <2>1. \A p \in Live : hdr'[p] = hdr[p]
    BY <1>3, <1>4 DEF StepOK, LiveShape
  <2>2. hdr[1].size # 0 /\ Walk(hdr, Live)
    BY <1>3, LiveWalk DEF StepOK
  <2>3. Walk(hdr', Live)
    BY <2>1, <2>2 DEF Walk
  <2>4. Live' = Live
    BY <2>3, WalkIsClumps, ImageNext DEF StepOK, Live
  <2>5. hdr'[1] = hdr[1]
    BY <1>3, <1>4, NAssumption DEF Chunks
  <2>6. QED
    BY <2>4, <2>5 DEF Ends
<1>6. QED
  BY <1>2, <1>4, <1>5 DEF q

LEMMA ReserveSplitClump == ASSUME StepOK, ReserveSplit PROVE ClumpInv'
<1> DEFINE q == fr.clp + fr.nsize
<1>1. /\ pc = "reserve.split" /\ pc' = "reserve.clear" /\ fr' = fr
      /\ UNCHANGED <<handles, gclp, freed>>
  BY Zenon DEF ReserveSplit, proc
<1>2. /\ fr.clp \in Live /\ hdr[fr.clp].state = "FREE" /\ ~freed /\ fr.clp \in Chunks
  BY <1>1 DEF StepOK, ClumpInv, WalkInv, OwnInv, SplitPcs, ReservePcs, LiveShape
<1>3. fr.csize = fr.nsize /\ 0 < fr.nsize /\ fr.nsize < hdr[fr.clp].size /\ q # fr.clp /\ q \notin Live
  BY <1>1, SplitChunk
<1>4. /\ Live' = Live
      /\ hdr'[q].size = hdr[fr.clp].size - fr.nsize /\ hdr'[q].state = "FREE"
      /\ \A p \in Live : hdr'[p] = hdr[p]
  <2>1. Live \subseteq Chunks
    BY DEF StepOK, LiveShape
  <2>2. QED
    BY <1>3, <2>1, SplitLive
<1>5. OwnInv'
  BY <1>1, <1>2, <1>4, RestingFacts
  DEF StepOK, ClumpInv, OwnInv, OpenPcs, FreePcs, RecoverPcs, ReservePcs
<1>6. SettledInv'
  BY <1>1, <1>4, RestingFacts DEF SettledInv, ReservePcs
<1>7. Leftover'
  BY <1>1, <1>2, <1>3, <1>4 DEF Leftover
<1>8. WalkInv'
  BY <1>1, <1>2, <1>4, <1>7 DEF WalkInv, RecoverPcs, SplitPcs
<1>9. QED
  BY <1>5, <1>6, <1>8 DEF ClumpInv

LEMMA ReserveClearClump == ASSUME StepOK, ReserveClear PROVE ClumpInv'
<1> DEFINE z == [hdr[fr.clp] EXCEPT !.on = Zeroed.on]
<1>1. /\ pc = "reserve.clear" /\ pc' = "reserve.claim" /\ fr' = fr
      /\ Commit(fr.clp, z, FALSE) /\ UNCHANGED <<handles, gclp, freed>>
  BY Zenon DEF ReserveClear, proc
<1>2. /\ fr.clp \in Live /\ hdr[fr.clp].state = "FREE" /\ fr.clp \in Chunks
      /\ fr.csize = hdr[fr.clp].size \/ Leftover
  BY <1>1 DEF StepOK, ClumpInv, WalkInv, SplitPcs, LiveShape
<1>3. z.size = hdr[fr.clp].size /\ z.state = hdr[fr.clp].state
  BY <1>2 DEF StepOK, TypeInv, HeadersOK, Header
<1> HIDE DEF z
<1>4. SameHeaders
  BY <1>1, <1>2, <1>3, CommitSameHeaders DEF StepOK
<1>5. /\ Live' = Live
      /\ \A p \in Live : hdr'[p].size = hdr[p].size /\ hdr'[p].state = hdr[p].state
  BY <1>4, SameHeadersLive
<1>6. OwnInv'
  BY <1>1, <1>5, RestingFacts
  DEF StepOK, ClumpInv, OwnInv, OpenPcs, FreePcs, RecoverPcs, ReservePcs
<1>7. SettledInv'
  BY <1>1, <1>5, RestingFacts DEF SettledInv, ReservePcs
<1>8. WalkInv'
  <2>1. ASSUME Leftover PROVE Leftover'
    <3>1. fr.clp + fr.csize \in Chunks
      BY <1>1, <2>1, LeftoverChunk DEF StepOK
    <3>2. QED
      BY <1>1, <1>2, <1>4, <2>1, <3>1 DEF Leftover, SameHeaders
  <2>2. QED
    BY <1>1, <1>2, <1>5, <2>1 DEF WalkInv, RecoverPcs, SplitPcs
<1>9. QED
  BY <1>6, <1>7, <1>8 DEF ClumpInv

\* What a claim does to the clumps: the leftover of a split becomes one of them.
LEMMA ClaimLive ==
  ASSUME StepOK, ReserveClaim
  PROVE  /\ Live \subseteq Live' /\ Ends' = Ends
         /\ \A p \in Live : p # fr.clp => hdr'[p] = hdr[p]
         /\ \A p \in Live' \ Live : /\ hdr'[p].state = "FREE"
                                    /\ p = fr.clp + fr.csize /\ fr.csize # hdr[fr.clp].size
         /\ hdr'[fr.clp].state = "RESERVED"
<1> DEFINE z == [hdr[fr.clp] EXCEPT !.size = fr.csize, !.state = "RESERVED"]
           q == fr.clp + fr.csize
<1>1. pc = "reserve.claim" /\ hdr' = [hdr EXCEPT ![fr.clp] = z]
  BY Zenon DEF ReserveClaim, Commit
<1>2. /\ fr.clp \in Live /\ fr.clp \in Chunks /\ fr.clp \in Nat
      /\ fr.csize = hdr[fr.clp].size \/ Leftover
  <2>1. fr.clp \in Live /\ fr.clp \in Chunks
    BY <1>1 DEF StepOK, ClumpInv, WalkInv, SplitPcs, LiveShape
  <2>2. QED
    BY <1>1, <2>1, ChunksNat DEF StepOK, ClumpInv, WalkInv
<1>3. z.size = fr.csize /\ z.state = "RESERVED"
  BY <1>2 DEF StepOK, TypeInv, HeadersOK, Header
<1> HIDE DEF z
<1>4. hdr'[fr.clp] = z /\ \A p \in Chunks : p # fr.clp => hdr'[p] = hdr[p]
  BY <1>1, <1>2 DEF StepOK, TypeInv, HeadersOK
<1>5. Live \subseteq Chunks
  BY DEF StepOK, LiveShape
<1>6. CASE fr.csize = hdr[fr.clp].size
  <2>1. \A p \in Chunks : hdr'[p].size = hdr[p].size
    BY <1>3, <1>4, <1>6
  <2>2. Live' = Live /\ Ends' = Ends
    BY <2>1, SameSizesLive DEF StepOK
  <2>3. QED
    BY <1>3, <1>4, <1>5, <2>2
<1>7. CASE Leftover
  <2> DEFINE V == Live \cup {q}
  <2>1. /\ q \in Chunks /\ fr.clp < q /\ q \in Nat /\ 0 < hdr[q].size
        /\ q + hdr[q].size = fr.clp + hdr[fr.clp].size
        /\ hdr[q].state = "FREE" /\ hdr[q].size \in Nat
    <3>1. q \in Chunks /\ q \in Nat
      BY <1>1, <1>7, LeftoverChunk, ChunksNat DEF StepOK
    <3>2. hdr[q].size \in Nat /\ hdr[fr.clp].size \in Nat /\ fr.csize \in Nat
      BY <1>2, <3>1, ImagesOK, NAssumption
      DEF Image, StepOK, TypeInv, FrameOK, Frame, Ptrs
    <3>3. QED
      BY <1>2, <1>7, <3>1, <3>2 DEF Leftover
  <2>2. /\ fr.clp + hdr[fr.clp].size \in Live \cup {N} /\ hdr[1].size # 0
        /\ q < fr.clp + hdr[fr.clp].size /\ Walk(hdr, Live) /\ N \notin Live
    <3>1. Live # {}
      BY <1>2
    <3>2. hdr[1].size # 0 /\ Walk(hdr, Live)
      BY <3>1, LiveWalk DEF StepOK
    <3>3. N \notin Live /\ fr.clp + hdr[fr.clp].size \in Live \cup {N}
      BY <1>2, <3>2 DEF Walk
    <3>4. q < fr.clp + hdr[fr.clp].size
      BY <2>1
    <3>5. QED
      BY <3>2, <3>3, <3>4
  <2>3. \A p \in Live : p # fr.clp => p + hdr[p].size <= fr.clp \/ q < p
    <3>1. SUFFICES ASSUME NEW p \in Live, p # fr.clp
          PROVE  p + hdr[p].size <= fr.clp \/ q < p
      OBVIOUS
    <3>2. p \in Nat
      BY Neighbours DEF StepOK
    <3>3. CASE p < fr.clp
      BY <1>2, <2>2, <3>3 DEF Walk
    <3>4. CASE fr.clp < p
      <4>1. fr.clp + hdr[fr.clp].size <= p
        BY <1>2, <2>2, <3>4 DEF Walk
      <4>2. fr.clp + hdr[fr.clp].size \in Nat
        BY <1>2, Neighbours DEF StepOK
      <4>3. QED
        BY <2>1, <2>2, <3>2, <4>1, <4>2
    <3>5. QED
      BY <1>2, <3>1, <3>2, <3>3, <3>4
  <2>4. q \notin Live
    <3>1. SUFFICES ASSUME q \in Live PROVE FALSE
      OBVIOUS
    <3>2. fr.clp + hdr[fr.clp].size <= q /\ fr.clp + hdr[fr.clp].size \in Nat
      BY <1>2, <2>1, <2>2, <3>1, Neighbours DEF Walk, StepOK
    <3>3. QED
      BY <2>1, <2>2, <3>2
  <2>5. /\ hdr'[fr.clp].size = fr.csize /\ fr.csize > 0 /\ hdr'[q] = hdr[q]
        /\ \A p \in Live : p # fr.clp => hdr'[p] = hdr[p]
    BY <1>3, <1>4, <1>5, <1>7, <2>1 DEF Leftover
  <2>6. Walk(hdr', V)
    <3>1. V \subseteq Chunks \ {N} /\ 1 \in V
      <4>1. q # N
        BY <2>1, EndSize DEF StepOK
      <4>2. QED
        BY <2>1, <2>2, <4>1 DEF Walk
    <3>2. ASSUME NEW p \in V
          PROVE  hdr'[p].size > 0 /\ p + hdr'[p].size \in V \cup {N}
      <4>1. CASE p = fr.clp
        BY <2>5, <4>1
      <4>2. CASE p = q
        BY <2>1, <2>2, <2>5, <4>2
      <4>3. CASE p \in Live /\ p # fr.clp
        BY <2>2, <2>5, <4>3 DEF Walk
      <4>4. QED
        BY <4>1, <4>2, <4>3
    <3>3. ASSUME NEW p \in V, NEW r \in V, p < r
          PROVE  p + hdr'[p].size <= r
      <4>1. V \subseteq Nat
        BY <1>5, <2>1, ChunksNat
      <4>2. CASE p = fr.clp
        <5>1. p + hdr'[p].size = q
          BY <2>5, <4>2
        <5>2. r = q \/ (r \in Live /\ r # fr.clp)
          BY <3>3, <4>1, <4>2
        <5>3. r = q \/ r + hdr[r].size <= fr.clp \/ q < r
          BY <2>3, <5>2
        <5>4. r + hdr[r].size <= fr.clp => r <= fr.clp
          BY <5>2, <1>2, <2>1, Neighbours DEF StepOK
        <5>5. QED
          BY <2>1, <3>3, <4>1, <4>2, <5>1, <5>3, <5>4
      <4>3. CASE p = q
        <5>1. p + hdr'[p].size = fr.clp + hdr[fr.clp].size
          BY <2>1, <2>5, <4>3
        <5>2. r \in Live /\ fr.clp < r
          BY <1>2, <2>1, <3>3, <4>1, <4>3
        <5>3. QED
          BY <1>2, <2>2, <5>1, <5>2 DEF Walk
      <4>4. CASE p \in Live /\ p # fr.clp
        <5>1. hdr'[p] = hdr[p]
          BY <2>5, <4>4
        <5>2. CASE r \in Live
          BY <2>2, <3>3, <4>4, <5>1, <5>2 DEF Walk
        <5>3. CASE r = q
          <6>1. p + hdr[p].size <= fr.clp /\ p + hdr[p].size \in Nat
            BY <2>1, <2>3, <3>3, <4>1, <4>4, <5>3, Neighbours DEF StepOK
          <6>2. QED
            BY <1>2, <2>1, <5>1, <5>3, <6>1
        <5>4. QED
          BY <5>2, <5>3
      <4>5. QED
        BY <4>2, <4>3, <4>4
    <3> HIDE DEF V
    <3>4. QED
      BY <3>1, <3>2, <3>3 DEF Walk
  <2>7. Live' = V
    BY <2>6, WalkIsClumps, ImageNext DEF StepOK, Live
  <2>8. Ends' = Ends
    <3>1. hdr'[1].size # 0
      BY <2>2, <2>5, <2>6 DEF Walk
    <3>2. QED
      BY <2>2, <3>1 DEF Ends
  <2>9. fr.csize # hdr[fr.clp].size
    <3>1. fr.csize < hdr[fr.clp].size
      BY <1>7 DEF Leftover
    <3>2. fr.csize \in Nat
      BY NAssumption DEF StepOK, TypeInv, FrameOK, Frame, Ptrs
    <3>3. QED
      BY <3>1, <3>2
  <2>10. QED
    BY <1>3, <1>4, <2>1, <2>5, <2>7, <2>8, <2>9
<1>8. QED
  BY <1>2, <1>6, <1>7

LEMMA ReserveClaimClump == ASSUME StepOK, ReserveClaim PROVE ClumpInv'
<1>1. /\ pc = "reserve.claim" /\ pc' = "idle" /\ gclp' = fr.clp
      /\ handles' = handles \cup {fr.clp} /\ freed' = freed
  BY Zenon DEF ReserveClaim, Return
<1>2. fr.clp \in Live /\ hdr[fr.clp].state = "FREE"
  BY <1>1 DEF StepOK, ClumpInv, WalkInv, SplitPcs
<1>3. /\ Live \subseteq Live'
      /\ \A p \in Live : p # fr.clp => hdr'[p].state = hdr[p].state
      /\ \A p \in Live' \ Live : hdr'[p].state = "FREE"
      /\ hdr'[fr.clp].state = "RESERVED"
  BY ClaimLive
<1>4. OwnInv'
  BY <1>1, <1>2, <1>3, RestingFacts DEF OwnInv, OpenPcs, FreePcs, RecoverPcs, ReservePcs
<1>5. SettledInv'
  BY <1>1, <1>3, RestingFacts DEF SettledInv, ReservePcs
<1>6. WalkInv'
  BY <1>1 DEF WalkInv, RecoverPcs, SplitPcs
<1>7. QED
  BY <1>4, <1>5, <1>6 DEF ClumpInv

LEMMA OnListClump ==
  ASSUME StepOK, CallOnActive \/ CallOnFree \/ OnActiveOff \/ OnFreeOff
  PROVE  ClumpInv'
<1>1. ASSUME pc = "idle", NEW p \in Chunks, NEW c \in Cells, NEW v \in Ptrs, NEW lazy,
             NEW next \in {"onactive.off", "onfree.off"}, PutPtr(p, c, v, lazy, next)
      PROVE  ClumpInv'
  <2>1. CASE FreeSlots(p) = {}
    BY <1>1, <2>1, GoneClump DEF PutPtr, Fatal
  <2>2. CASE FreeSlots(p) # {}
    <3>1. PICK i \in FreeSlots(p) :
            Commit(p, WithPtr(p, i, v), lazy) /\ pc' = next /\ UNCHANGED proc
      BY <1>1, <2>2 DEF PutPtr
    <3>2. SameHeaders
      BY <3>1, WithType, WithState, CommitSameHeaders, NAssumption DEF FreeSlots, StepOK, TypeInv
    <3>3. QED
      BY <1>1, <3>1, <3>2, CalmClump DEF CalmPcs
  <2>3. QED
    BY <2>1, <2>2
<1>2. ASSUME NEW here \in {"onactive.off", "onfree.off"}, PutOff(here)
      PROVE  ClumpInv'
  <2> DEFINE z == WithOff(fr.clp, fr.k, fr.dest)
  <2>1. pc = here /\ Commit(fr.clp, z, FALSE) /\ pc' = "idle" /\ UNCHANGED proc
    BY <1>2, Zenon DEF PutOff, Return
  <2>2. /\ fr.clp \in Chunks /\ fr.k \in Slots /\ fr.dest \in Cells \cup {None}
        /\ 0 \in Ptrs
    BY <2>1, NAssumption DEF StepOK, TypeInv, FrameOK, Frame, InCall, Ptrs
  <2>3. z.size = hdr[fr.clp].size /\ z.state = hdr[fr.clp].state
    BY <2>2, WithType, WithState DEF StepOK, TypeInv
  <2> HIDE DEF z
  <2>4. SameHeaders
    BY <2>1, <2>2, <2>3, CommitSameHeaders DEF StepOK
  <2>5. QED
    BY <2>1, <2>4, CalmClump DEF CalmPcs
<1>3. CASE CallOnActive
  <2>1. PICK p \in handles, c \in Roots : OnActive(p, c, p)
    BY <1>3 DEF CallOnActive
  <2>2. p \in Chunks /\ p \in Ptrs /\ c \in Cells
    BY KnownType DEF StepOK, TypeInv, RestOK, Roots
  <2>3. pc = "idle" /\ PutPtr(p, c, p, FALSE, "onactive.off")
    BY <2>1 DEF OnActive
  <2>4. QED
    BY <1>1, <2>2, <2>3
<1>4. CASE CallOnFree
  <2>1. PICK p \in Known, c \in Roots : OnFree(p, c, Null)
    BY <1>4 DEF CallOnFree
  <2>2. p \in Chunks /\ Null \in Ptrs /\ c \in Cells
    BY KnownType, NAssumption DEF StepOK, Roots, Null, Ptrs
  <2>3. pc = "idle" /\ PutPtr(p, c, Null, LazyNow, "onfree.off")
    BY <2>1 DEF OnFree
  <2>4. QED
    BY <1>1, <2>2, <2>3
<1>5. QED
  BY <1>2, <1>3, <1>4 DEF OnActiveOff, OnFreeOff

LEMMA ActivateClump ==
  ASSUME StepOK,
         CallActivate \/ ActivateBegin \/ ActivateRun \/ ActivateClear \/ ActivateDone
  PROVE  ClumpInv'
<1>1. CASE CallActivate
  <2>1. SameHeaders /\ UNCHANGED proc /\ pc = "idle" /\ pc' = "activate.begin"
    BY <1>1 DEF CallActivate, Activate, SameHeaders
  <2>2. QED
    BY <2>1, CalmClump DEF CalmPcs
<1>2. CASE ActivateRun
  <2>1. /\ SameHeaders /\ UNCHANGED proc /\ fr'.clp = fr.clp
        /\ pc \in ActivatePcs /\ pc' \in ActivatePcs
    BY <1>2, RunOnHeaders DEF ActivateRun, ActivatePcs, StepOK
  <2>2. QED
    BY <2>1, QuietClump
<1>3. CASE ActivateClear
  <2>1. /\ SameHeaders /\ UNCHANGED proc /\ fr'.clp = fr.clp
        /\ pc \in ActivatePcs /\ pc' \in ActivatePcs
    BY <1>3, ClearOnHeaders DEF ActivateClear, ActivatePcs, ClearPcs, StepOK
  <2>2. QED
    BY <2>1, QuietClump
<1>4. CASE ActivateBegin
  <2>1. /\ Commit(fr.clp, InState(fr.clp, "ACTIVATING"), FALSE) /\ pc = "activate.begin"
        /\ pc' = "activate.run" /\ fr' = [fr EXCEPT !.k = 1] /\ UNCHANGED proc
    BY <1>4, Zenon DEF ActivateBegin
  <2>2. /\ Live' = Live /\ UNCHANGED <<handles, gclp, freed>>
        /\ \A p \in Live : hdr'[p].state = IF p = fr.clp THEN "ACTIVATING" ELSE hdr[p].state
    BY <2>1, SetStateLive DEF InCall, States, proc
  <2>3. fr'.clp = fr.clp
    BY <2>1 DEF StepOK, TypeInv, FrameOK, Frame
  <2>4. OwnInv'
    BY <2>1, <2>2, <2>3, RestingFacts
    DEF StepOK, ClumpInv, OwnInv, OpenPcs, FreePcs, RecoverPcs, ReservePcs, ActivatePcs, CalmPcs
  <2>5. SettledInv'
    BY <2>1, <2>2, <2>3, RestingFacts DEF SettledInv, ActivatePcs, CalmPcs
  <2>6. WalkInv'
    BY <2>1 DEF WalkInv, RecoverPcs, SplitPcs
  <2>7. QED
    BY <2>4, <2>5, <2>6 DEF ClumpInv
<1>5. CASE ActivateDone
  <2>1. /\ Commit(fr.clp, InState(fr.clp, "ACTIVE"), FALSE) /\ pc = "activate.done"
        /\ pc' = "idle" /\ UNCHANGED proc
    BY <1>5, Zenon DEF ActivateDone, Return
  <2>2. /\ Live' = Live /\ UNCHANGED <<handles, gclp, freed>>
        /\ \A p \in Live : hdr'[p].state = IF p = fr.clp THEN "ACTIVE" ELSE hdr[p].state
    BY <2>1, SetStateLive DEF InCall, States, proc
  <2>3. OwnInv'
    BY <2>1, <2>2
    DEF StepOK, ClumpInv, OwnInv, OpenPcs, FreePcs, RecoverPcs, ReservePcs, ActivatePcs
  <2>4. SettledInv'
    BY <2>1, <2>2 DEF StepOK, ClumpInv, SettledInv, RecoverPcs
  <2>5. WalkInv'
    BY <2>1 DEF WalkInv, RecoverPcs, SplitPcs
  <2>6. QED
    BY <2>3, <2>4, <2>5 DEF ClumpInv
<1>6. QED
  BY <1>1, <1>2, <1>3, <1>4, <1>5

LEMMA FreeClump ==
  ASSUME StepOK, CallFree \/ FreeBegin \/ FreeRun \/ FreeClear \/ FreeDone
  PROVE  ClumpInv'
<1>1. CASE CallFree
  <2>1. PICK p \in Known : Free(p)
    BY <1>1 DEF CallFree
  <2>2. /\ pc = "idle" /\ hdr' = hdr /\ gclp' = gclp /\ handles' = handles \ {p} /\ freed'
        /\ fr' = [NoFrame EXCEPT !.clp = p, !.lazy = LazyNow]
        /\ \/ hdr[p].state = "RESERVED" /\ pc' = "free.done"
           \/ hdr[p].state = "ACTIVE" /\ pc' = "free.begin"
    BY <2>1 DEF Free, image
  <2>3. Live' = Live /\ fr'.clp = p
    BY <2>2, SameSizesLive DEF StepOK, NoFrame
  <2>4. OwnInv'
    BY <2>2, <2>3, RestingFacts DEF OwnInv, OpenPcs, RecoverPcs, ReservePcs, CalmPcs
  <2>5. SettledInv'
    BY <2>2, <2>3, RestingFacts DEF SettledInv, FreePcs, CalmPcs
  <2>6. WalkInv'
    BY <2>2 DEF WalkInv, RecoverPcs, SplitPcs
  <2>7. QED
    BY <2>4, <2>5, <2>6 DEF ClumpInv
<1>2. CASE FreeRun
  <2>1. /\ SameHeaders /\ UNCHANGED proc /\ fr'.clp = fr.clp
        /\ pc \in FreePcs /\ pc' \in FreePcs
    BY <1>2, RunOnHeaders DEF FreeRun, FreePcs, StepOK
  <2>2. QED
    BY <2>1, QuietClump
<1>3. CASE FreeClear
  <2>1. /\ SameHeaders /\ UNCHANGED proc /\ fr'.clp = fr.clp
        /\ pc \in FreePcs /\ pc' \in FreePcs
    BY <1>3, ClearOnHeaders DEF FreeClear, FreePcs, ClearPcs, StepOK
  <2>2. QED
    BY <2>1, QuietClump
<1>4. CASE FreeBegin
  <2>1. /\ Commit(fr.clp, InState(fr.clp, "FREEING"), fr.lazy) /\ pc = "free.begin"
        /\ pc' = "free.run" /\ fr' = [fr EXCEPT !.k = 1] /\ UNCHANGED proc
    BY <1>4, Zenon DEF FreeBegin
  <2>2. /\ Live' = Live /\ UNCHANGED <<handles, gclp, freed>>
        /\ \A p \in Live : hdr'[p].state = IF p = fr.clp THEN "FREEING" ELSE hdr[p].state
    BY <2>1, SetStateLive DEF InCall, States, proc
  <2>3. fr'.clp = fr.clp /\ fr.clp \notin handles /\ freed
    BY <2>1 DEF StepOK, TypeInv, FrameOK, Frame, ClumpInv, OwnInv
  <2>4. OwnInv'
    BY <2>1, <2>2, <2>3, RestingFacts
    DEF OwnInv, OpenPcs, FreePcs, RecoverPcs, ReservePcs
  <2>5. SettledInv'
    BY <2>1, <2>2, <2>3, RestingFacts DEF SettledInv, FreePcs
  <2>6. WalkInv'
    BY <2>1 DEF WalkInv, RecoverPcs, SplitPcs
  <2>7. QED
    BY <2>4, <2>5, <2>6 DEF ClumpInv
<1>5. CASE FreeDone
  <2>1. /\ Commit(fr.clp, InState(fr.clp, "FREE"), fr.lazy) /\ pc = "free.done"
        /\ pc' = "coalesce" /\ fr'.clp = 1 /\ fr'.first = Null /\ UNCHANGED proc
    BY <1>5, Zenon DEF FreeDone, StartCoalesce, NoFrame, Null
  <2>2. /\ Live' = Live /\ Ends' = Ends /\ UNCHANGED <<handles, gclp, freed>>
        /\ \A p \in Live : hdr'[p].state = IF p = fr.clp THEN "FREE" ELSE hdr[p].state
    BY <2>1, SetStateLive DEF InCall, States, proc
  <2>3. freed /\ fr.clp \notin handles
    BY <2>1 DEF StepOK, ClumpInv, OwnInv, FreePcs
  <2>4. OwnInv'
    BY <2>1, <2>2, <2>3
    DEF StepOK, ClumpInv, OwnInv, OpenPcs, FreePcs, RecoverPcs, ReservePcs, ActivatePcs
  <2>5. SettledInv'
    BY <2>1, <2>2 DEF StepOK, ClumpInv, SettledInv, RecoverPcs
  <2>6. WalkInv'
    BY <2>1, <2>2 DEF WalkInv, RecoverPcs, SplitPcs, StepOK, LiveShape
  <2>7. QED
    BY <2>4, <2>5, <2>6 DEF ClumpInv
<1>6. QED
  BY <1>1, <1>2, <1>3, <1>4, <1>5

LEMMA EnvironmentClump ==
  ASSUME StepOK, CallFill \/ Crash \/ Evict \/ Epoch \/ UNCHANGED vars
  PROVE  ClumpInv'
<1>1. CASE Crash
  BY <1>1, GoneClump DEF Crash, Exit, PowerFail
<1>2. CASE CallFill \/ Evict \/ Epoch \/ UNCHANGED vars
  <2>1. hdr' = hdr /\ UNCHANGED proc /\ UNCHANGED <<pc, fr>>
    BY <1>2 DEF CallFill, Fill, Evict, EvictHdr, EvictCell, Epoch, image, vars, proc
  <2>2. QED
    BY <2>1, QuietClump DEF SameHeaders
<1>3. QED
  BY <1>1, <1>2

-----------------------------------------------------------------------------
(* The theorems                                                             *)

LEMMA ClumpInvInductive == ASSUME ~Remix PROVE Spec => [](LiveShape /\ ClumpInv)
<1>1. Init => ClumpInv
  BY DEF Init, ClumpInv, OwnInv, WalkInv, SettledInv, Fresh, OpenPcs, RecoverPcs, SplitPcs,
         ReservePcs, FreePcs
<1>2. TypeInv /\ TileInv => LiveShape
  BY LiveFacts
<1>3. /\ TypeInv /\ TileInv /\ LiveShape /\ ClumpInv /\ [Next]_vars
      /\ TypeInv' /\ TileInv' /\ LiveShape'
      => ClumpInv'
  <2> SUFFICES ASSUME StepOK, [Next]_vars PROVE ClumpInv'
    BY DEF StepOK
  <2>1. CASE Start \/ Step
    BY <2>1, StartClump, RecoverClumps, CoalesceClump, ReserveScanClump, ReserveSplitClump,
       ReserveClearClump, ReserveClaimClump, OnListClump, ActivateClump, FreeClump
    DEF Start, Step
  <2>2. CASE Call
    BY <2>2, EnvironmentClump, ReserveStartClump, OnListClump, ActivateClump, FreeClump
    DEF Call, CallReserve
  <2>3. CASE Crash \/ Evict \/ Epoch \/ UNCHANGED vars
    BY <2>3, EnvironmentClump
  <2>4. QED
    BY <2>1, <2>2, <2>3 DEF Next
<1>4. QED
  BY <1>1, <1>2, <1>3, TypeInvInductive, TileInvInductive, PTL DEF Spec

\* As long as a process does not reserve again after it has freed, every pointer
\* pmemalloc_reserve gave it is the first chunk of a clump in use: neither the
\* merges of pmemalloc_coalesce_free nor the splits of a later reserve swallow it.
\* (With Remix they do, through the cursor the run v_cursor shows.)
THEOREM HandlesStayClumps == ASSUME ~Remix PROVE Spec => []HandlesAreClumps
<1>1. ClumpInv => HandlesAreClumps
  BY DEF ClumpInv, OwnInv, HandlesAreClumps, Live, ActivatePcs
<1>2. Spec => [](LiveShape /\ ClumpInv)
  BY ClumpInvInductive
<1>3. QED
  BY <1>1, <1>2, PTL

\* Whatever a crash interrupted and in whichever order its lines reached the
\* media, the pool a process works on has no clump half way between two states,
\* and every RESERVED one is the process's own: pmemalloc_recover has seen to the
\* rest.  Builds with -D_NODATAPERSIST included.
THEOREM RecoveryFinishes == ASSUME ~Remix PROVE Spec => []NothingHalfDone
<1>1. ClumpInv => NothingHalfDone
  BY DEF ClumpInv, SettledInv, NothingHalfDone, Live, RecoverPcs, ActivatePcs, FreePcs
<1>2. Spec => [](LiveShape /\ ClumpInv)
  BY ClumpInvInductive
<1>3. QED
  BY <1>1, <1>2, PTL

\* As long as a process does not reserve again after it has freed, the claim of
\* PMEMALLOC_API.txt:88-90 holds: memory it has activated lies in no free clump.
\* (With Remix it does not: the run v_cursor.)
THEOREM ActiveIsNotFree == ASSUME ~Remix PROVE Spec => []ActiveNotInFree
<1>1. LiveShape /\ ClumpInv => ActiveNotInFree
  <2>1. SUFFICES ASSUME LiveShape, ClumpInv, pc = "idle", NEW p \in handles, NEW q \in Live,
                        hdr[p].state = "ACTIVE", hdr[q].state = "FREE"
                 PROVE  p <= q \/ q + hdr[q].size <= p
    BY DEF ActiveNotInFree, Live
  <2>2. p \in Live /\ p # q
    BY <2>1 DEF ClumpInv, OwnInv, ActivatePcs
  <2>3. p \in Nat /\ q \in Nat
    BY <2>1, <2>2, ChunksNat DEF LiveShape
  <2>4. QED
    BY <2>1, <2>2, <2>3 DEF LiveShape
<1>2. Spec => [](LiveShape /\ ClumpInv)
  BY ClumpInvInductive
<1>3. QED
  BY <1>1, <1>2, PTL

-----------------------------------------------------------------------------
(* The cache and the persistent media in the default build: how far the      *)
(* media may be behind while a call runs, and that it never is when one       *)
(* returns.                                                                *)

DirtyStates == {"RESERVED", "ACTIVATING", "FREEING"}

\* The clumps whose "on" list may be cleared in the cache and not yet on the
\* media: the one a call is about, or after a crash one recovery has still to see.
Dirty(p) ==
  /\ hdr[p].state \in DirtyStates
  /\ \/ pc = "down"
     \/ pc \in {"recover"} \cup RecoverPcs /\ fr.clp <= p
     \/ pc \in {"activate.clear", "free.clear"} /\ p = fr.clp

Synced(p) == phdr[p] = hdr[p]
Behind(p) == Dirty(p) /\ phdr[p].size = hdr[p].size /\ phdr[p].state = hdr[p].state

Mirrored ==
  /\ \A p \in Ends : phdr[p].size = hdr[p].size
  /\ \A p \in Live : Synced(p) \/ Behind(p)

\* In which state the clump is that a running call is about.
FrameStates ==
  /\ ~fr.lazy
  /\ pc \in RecoverPcs => hdr[fr.clp].state \in DirtyStates
  /\ pc = "recover.run" => hdr[fr.clp].state \in {"ACTIVATING", "FREEING"}
  /\ pc \in {"onactive.off", "activate.begin"} => hdr[fr.clp].state = "RESERVED"
  /\ pc \in {"onfree.off", "free.begin"} => hdr[fr.clp].state = "ACTIVE"
  /\ pc \in ActivatePcs => hdr[fr.clp].state = "ACTIVATING"
  /\ pc \in {"free.run", "free.clear"} => hdr[fr.clp].state = "FREEING"
  /\ pc = "free.done" => hdr[fr.clp].state \in {"RESERVED", "FREEING"}

RootsSynced == \A c \in Roots : pcell[c] = cell[c]

\* The rest of a split is on the media before the clump shrinks.
RestSynced ==
  pc \in {"reserve.clear", "reserve.claim"} =>
    fr.csize = hdr[fr.clp].size \/ Synced(fr.clp + fr.csize)

MediaInv ==
  /\ FrameStates /\ RootsSynced /\ RestSynced
  /\ pc # "fsync" => Mirrored


-----------------------------------------------------------------------------
(* Lemmas about steps                                                       *)

\* A store that is persisted at once.
LEMMA CommitBoth ==
  ASSUME TypeInv, NEW p \in Chunks, NEW h, Commit(p, h, FALSE)
  PROVE  /\ hdr'[p] = h /\ phdr'[p] = h
         /\ \A q \in Chunks : q # p => hdr'[q] = hdr[q] /\ phdr'[q] = phdr[q]
BY DEF Commit, Persist, Elided, TypeInv, HeadersOK

\* What a step does to each header: nothing, or it leaves it on the media.
Through ==
  \A q \in Chunks : phdr'[q] = hdr'[q] \/ (hdr'[q] = hdr[q] /\ phdr'[q] = phdr[q])

LEMMA CommitThrough ==
  ASSUME TypeInv, NEW p \in Chunks, NEW h, Commit(p, h, FALSE)
  PROVE  Through
BY CommitBoth DEF Through

LEMMA MirrorStep ==
  ASSUME StepOK, Mirrored, Through, Ends' = Ends,
         \A q \in Live' \ Live : phdr'[q] = hdr'[q],
         \A q \in Live : Dirty(q) /\ hdr'[q] = hdr[q] => phdr'[q] = hdr'[q] \/ Dirty(q)'
  PROVE  Mirrored'
<1>1. Live \subseteq Chunks /\ Ends \subseteq Chunks
  BY DEF StepOK, LiveShape
<1>2. \A p \in Ends' : phdr'[p].size = hdr'[p].size
  BY <1>1 DEF Mirrored, Through
<1>3. ASSUME NEW p \in Live'
      PROVE  Synced(p)' \/ Behind(p)'
  <2>1. CASE phdr'[p] = hdr'[p]
    BY <2>1 DEF Synced
  <2>2. CASE phdr'[p] # hdr'[p]
    <3>1. p \in Live /\ hdr'[p] = hdr[p] /\ phdr'[p] = phdr[p]
      BY <1>1, <2>2 DEF Through
    <3>2. Behind(p)
      BY <2>2, <3>1 DEF Mirrored, Synced
    <3>3. QED
      BY <2>2, <3>1, <3>2 DEF Behind
  <2>3. QED
    BY <2>1, <2>2
<1>4. QED
  BY <1>2, <1>3 DEF Mirrored

LEMMA MediaStep ==
  ASSUME StepOK, MediaInv, pc # "fsync", Through, Ends' = Ends,
         \A q \in Live' \ Live : phdr'[q] = hdr'[q],
         \A q \in Live : Dirty(q) /\ hdr'[q] = hdr[q] => phdr'[q] = hdr'[q] \/ Dirty(q)',
         FrameStates', RootsSynced', pc' \notin {"reserve.clear", "reserve.claim"}
  PROVE  MediaInv'
<1>1. Mirrored
  BY DEF MediaInv
<1>2. Mirrored'
  BY <1>1, MirrorStep
<1>3. QED
  BY <1>2 DEF MediaInv, RestSynced

LEMMA SameRoots == ASSUME MediaInv, UNCHANGED <<cell, pcell>> PROVE RootsSynced'
BY DEF MediaInv, RootsSynced

LEMMA RunOnRoots ==
  ASSUME TypeInv, MediaInv, NEW here, NEW next, RunOn(here, next, FALSE)
  PROVE  RootsSynced' /\ UNCHANGED <<hdr, phdr>>
<1> DEFINE e == hdr[fr.clp].on[fr.k]
<1>1. CASE UNCHANGED <<cell, pcell>>
  BY <1>1, SameRoots DEF RunOn
<1>2. CASE Assign(e, FALSE)
  <2>1. pcell' = WrittenBack(e.off) /\ cell' = [cell EXCEPT ![e.off] = e.ptr]
    BY <1>2 DEF Assign, Elided
  <2>2. ASSUME NEW c \in Roots PROVE pcell'[c] = cell'[c]
    <3>1. c \in Cells /\ pcell'[c] = IF c \in Line(e.off) THEN cell'[c] ELSE pcell[c]
      BY <2>1 DEF WrittenBack, Roots
    <3>2. CASE c \in Line(e.off)
      BY <3>1, <3>2
    <3>3. CASE c \notin Line(e.off)
      <4>1. c # e.off
        BY <3>1, <3>3 DEF Line
      <4>2. cell'[c] = cell[c]
        BY <2>1, <3>1, <4>1 DEF TypeInv, CellsOK
      <4>3. QED
        BY <3>1, <3>3, <4>2 DEF MediaInv, RootsSynced
    <3>4. QED
      BY <3>2, <3>3
  <2>3. QED
    BY <2>2 DEF RootsSynced, RunOn
<1>3. QED
  BY <1>1, <1>2 DEF RunOn

LEMMA EagerNow == ASSUME ~NoDataPersist PROVE LazyNow = FALSE
BY FlagsAssumption DEF LazyNow

-----------------------------------------------------------------------------
(* One lemma per part of the next-state relation                            *)

LEMMA GoneFrame == ASSUME ProcessGone PROVE FrameStates' /\ pc' = "down"
BY DEF ProcessGone, FrameStates, NoFrame, RecoverPcs, ActivatePcs

LEMMA StartMedia ==
  ASSUME StepOK, MediaInv, Create \/ CreateClump \/ CreateSync \/ Open
  PROVE  MediaInv'
<1>1. FrameStates' /\ pc' \in {"create", "fsync", "recover"}
  <2>1. pc' \in {"create", "fsync", "recover"} /\ ~fr'.lazy
    BY DEF Create, CreateClump, CreateSync, Open, StartRecover, NoFrame, MediaInv, FrameStates
  <2>2. QED
    BY <2>1 DEF FrameStates, RecoverPcs, ActivatePcs
<1>2. RestSynced'
  BY <1>1 DEF RestSynced
<1>3. RootsSynced'
  BY SameRoots DEF Create, CreateClump, CreateSync, Open, RootsSynced, image
<1>4. CASE Create \/ CreateSync
  <2>1. phdr' = hdr'
    BY <1>4 DEF Create, CreateSync
  <2>2. QED
    BY <1>1, <1>2, <1>3, <2>1 DEF MediaInv, Mirrored, Synced
<1>5. CASE CreateClump
  <2>1. pc' = "fsync"
    BY <1>5 DEF CreateClump
  <2>2. QED
    BY <1>1, <1>2, <1>3, <2>1 DEF MediaInv
<1>6. CASE Open
  <2>1. /\ pc = "down" /\ pc' = "recover" /\ fr'.clp = 1 /\ UNCHANGED <<hdr, phdr>>
    BY <1>6 DEF Open, StartRecover, NoFrame, image
  <2>2. Live' = Live /\ Ends' = Ends
    BY <2>1, SameSizesLive DEF StepOK
  <2>3. \A q \in Live : 1 <= q
    BY DEF StepOK, LiveShape, Chunks
  <2>4. \A q \in Live : Dirty(q) => Dirty(q)'
    BY <2>1, <2>3 DEF Dirty
  <2>5. QED
    BY <1>1, <1>3, <2>1, <2>2, <2>4, MediaStep DEF Through
<1>7. QED
  BY <1>4, <1>5, <1>6

LEMMA RecoverMedia ==
  ASSUME StepOK, MediaInv, ~NoDataPersist, RecoverClump
  PROVE  MediaInv'
<1>1. /\ pc = "recover" /\ UNCHANGED <<hdr, phdr, cell, pcell>> /\ ~fr.lazy
      /\ fr \in Frame /\ fr.clp \in Live \cup Ends
  BY DEF RecoverClump, StepOK, MediaInv, FrameStates, ClumpInv, WalkInv, TypeInv, FrameOK, image
<1>2. Live' = Live /\ Ends' = Ends
  BY <1>1, SameSizesLive DEF StepOK
<1>3. CASE hdr[fr.clp].size = 0
  <2>1. pc' = "coalesce" /\ ~fr'.lazy
    BY <1>3, EagerNow DEF RecoverClump, StartCoalesce, NoFrame
  <2>2. FrameStates'
    BY <2>1 DEF FrameStates, RecoverPcs, ActivatePcs
  <2>3. \A q \in Live : ~Dirty(q)
    <3>1. SUFFICES ASSUME NEW q \in Live, Dirty(q) PROVE FALSE
      OBVIOUS
    <3>2. fr.clp = N /\ fr.clp <= q
      BY <1>1, <1>3, <3>1 DEF Dirty, StepOK, LiveShape
    <3>3. QED
      BY <3>1, <3>2, NAssumption DEF StepOK, LiveShape, Chunks
  <2>4. QED
    BY <1>1, <1>2, <2>1, <2>2, <2>3, SameRoots, MediaStep DEF Through
<1>4. CASE hdr[fr.clp].size # 0 /\ hdr[fr.clp].state \in {"FREE", "ACTIVE"}
  <2>1. pc' = "recover" /\ fr' = [fr EXCEPT !.clp = fr.clp + hdr[fr.clp].size]
    BY <1>1, <1>4 DEF RecoverClump
  <2>2. fr'.clp = fr.clp + hdr[fr.clp].size /\ ~fr'.lazy
    BY <1>1, <2>1 DEF Frame
  <2>3. FrameStates'
    BY <2>1, <2>2 DEF FrameStates, RecoverPcs, ActivatePcs
  <2>4. fr.clp \in Live
    BY <1>1, <1>4 DEF StepOK, LiveShape
  <2>5. \A q \in Live : fr.clp <= q => q = fr.clp \/ fr'.clp <= q
    BY <2>2, <2>4, Neighbours DEF StepOK
  <2>6. \A q \in Live : Dirty(q) => Dirty(q)'
    BY <1>1, <1>4, <2>1, <2>5 DEF Dirty, DirtyStates
  <2>7. QED
    BY <1>1, <1>2, <2>1, <2>3, <2>6, SameRoots, MediaStep DEF Through
<1>5. CASE hdr[fr.clp].size # 0 /\ hdr[fr.clp].state \notin {"FREE", "ACTIVE"}
  <2>1. /\ fr'.clp = fr.clp /\ ~fr'.lazy
        /\ \/ pc' = "recover.clear" /\ hdr[fr.clp].state = "RESERVED"
           \/ pc' = "recover.run" /\ hdr[fr.clp].state \in {"ACTIVATING", "FREEING"}
    BY <1>1, <1>5 DEF RecoverClump, Frame
  <2>2. FrameStates'
    BY <1>1, <2>1 DEF FrameStates, RecoverPcs, ActivatePcs, DirtyStates
  <2>3. \A q \in Live : Dirty(q) => Dirty(q)'
    BY <1>1, <2>1 DEF Dirty, RecoverPcs
  <2>4. QED
    BY <1>1, <1>2, <2>1, <2>2, <2>3, SameRoots, MediaStep DEF Through
<1>6. QED
  BY <1>3, <1>4, <1>5

\* The loop that executes an "on" list leaves the headers alone.
LEMMA RunMedia ==
  ASSUME StepOK, MediaInv, RecoverRun \/ ActivateRun \/ FreeRun
  PROVE  MediaInv'
<1>1. ASSUME NEW here, NEW next,
             \/ here = "recover.run" /\ next = "recover.clear"
             \/ here = "activate.run" /\ next = "activate.clear"
             \/ here = "free.run" /\ next = "free.clear",
             RunOn(here, next, FALSE)
      PROVE  MediaInv'
  <2>1. /\ pc = here /\ pc' \in {here, next} /\ fr'.clp = fr.clp /\ fr'.lazy = fr.lazy
        /\ UNCHANGED <<hdr, phdr>> /\ RootsSynced'
    BY <1>1, RunOnRoots DEF RunOn, StepOK, TypeInv, FrameOK, Frame
  <2>2. Live' = Live /\ Ends' = Ends
    BY <2>1, SameSizesLive DEF StepOK
  <2>3. FrameStates'
    BY <1>1, <2>1 DEF MediaInv, FrameStates, RecoverPcs, ActivatePcs
  <2>4. \A q \in Live : Dirty(q) => Dirty(q)'
    BY <1>1, <2>1 DEF Dirty, RecoverPcs
  <2>5. QED
    BY <1>1, <2>1, <2>2, <2>3, <2>4, MediaStep DEF Through
<1>2. ~fr.lazy /\ (FreeRun => RunOn("free.run", "free.clear", FALSE))
  <2>1. fr.lazy = FALSE
    BY DEF StepOK, TypeInv, FrameOK, Frame, MediaInv, FrameStates
  <2>2. QED
    BY <2>1 DEF FreeRun
<1>3. QED
  BY <1>1, <1>2 DEF RecoverRun, ActivateRun

\* The loop that clears an "on" list stores first and persists at its end.
LEMMA ClearMedia ==
  ASSUME StepOK, MediaInv, RecoverClear \/ ActivateClear \/ FreeClear
  PROVE  MediaInv'
<1>1. PICK here, next :
        /\ \/ here = "recover.clear" /\ next = "recover.done"
           \/ here = "activate.clear" /\ next = "activate.done"
           \/ here = "free.clear" /\ next = "free.done"
        /\ ClearOn(here, next)
  BY DEF RecoverClear, ActivateClear, FreeClear
<1>2. /\ pc = here /\ pc' \in {here, next} /\ fr'.clp = fr.clp /\ SameHeaders
      /\ UNCHANGED <<cell, pcell>> /\ fr.clp \in Chunks /\ fr \in Frame
  BY <1>1, ClearOnHeaders DEF ClearOn, ClearPcs, StepOK, TypeInv, FrameOK, InCall
<1>3. Live' = Live /\ Ends' = Ends
  BY <1>2, SameHeadersLive
<1>4. /\ hdr[fr.clp].state \in DirtyStates
      /\ here = "activate.clear" => hdr[fr.clp].state = "ACTIVATING"
      /\ here = "free.clear" => hdr[fr.clp].state = "FREEING"
      /\ ~fr.lazy
  BY <1>1, <1>2 DEF MediaInv, FrameStates, RecoverPcs, ActivatePcs, DirtyStates
<1>5. RootsSynced' /\ RestSynced'
  BY <1>1, <1>2, SameRoots DEF RestSynced
<1>6. FrameStates'
  <2>1. hdr'[fr.clp].state = hdr[fr.clp].state
    BY <1>2 DEF SameHeaders
  <2>2. ~fr'.lazy
    BY <1>1, <1>2, <1>4 DEF ClearOn, Frame
  <2>3. QED
    BY <1>1, <1>2, <1>4, <2>1, <2>2 DEF FrameStates, RecoverPcs, ActivatePcs, DirtyStates
<1>7. CASE fr.k >= 1
  <2>1. pc' = pc /\ phdr' = phdr /\ hdr' = [hdr EXCEPT ![fr.clp] = WithOff(fr.clp, fr.k, None)]
    BY <1>1, <1>7, Zenon DEF ClearOn
  <2>2. Live \subseteq Chunks /\ Ends \subseteq Chunks /\ Mirrored
    BY <1>1, <1>2 DEF StepOK, LiveShape, MediaInv
  <2>3. \A p \in Ends' : phdr'[p].size = hdr'[p].size
    BY <1>2, <1>3, <2>1, <2>2 DEF Mirrored, SameHeaders
  <2>4. ASSUME NEW p \in Live PROVE (Synced(p) \/ Behind(p))'
    <3>1. hdr'[p].size = hdr[p].size /\ hdr'[p].state = hdr[p].state
      BY <1>2, <2>2 DEF SameHeaders
    <3>2. /\ phdr[p].size = hdr[p].size /\ phdr[p].state = hdr[p].state
          /\ Dirty(p) => Dirty(p)'
      BY <1>2, <2>1, <2>2, <3>1 DEF Mirrored, Synced, Behind, Dirty
    <3>3. CASE p = fr.clp
      <4>1. Dirty(p)'
        <5>1. fr.clp <= p
          <6>1. fr.clp \in Nat
            BY <1>2, ChunksNat
          <6>2. QED
            BY <3>3, <6>1
        <5>2. pc' = here /\ (here = "recover.clear" \/ here \in {"activate.clear", "free.clear"})
          BY <1>1, <1>2, <2>1
        <5>3. hdr'[p].state \in DirtyStates
          BY <1>4, <3>1, <3>3
        <5>4. QED
          BY <1>2, <3>3, <5>1, <5>2, <5>3 DEF Dirty, RecoverPcs
      <4>2. QED
        BY <2>1, <3>1, <3>2, <4>1 DEF Behind
    <3>4. CASE p # fr.clp
      <4>1. hdr'[p] = hdr[p] /\ phdr'[p] = phdr[p]
        BY <2>1, <2>2, <3>4 DEF StepOK, TypeInv, HeadersOK
      <4>2. QED
        BY <2>2, <3>1, <3>2, <4>1 DEF Mirrored, Synced, Behind
    <3>5. QED
      BY <3>3, <3>4
  <2>5. Mirrored'
    BY <1>3, <2>3, <2>4 DEF Mirrored
  <2>6. QED
    BY <1>5, <1>6, <2>5 DEF MediaInv
<1>8. CASE ~(fr.k >= 1)
  <2>1. pc' = next /\ hdr' = hdr /\ phdr' = [phdr EXCEPT ![fr.clp] = hdr[fr.clp]]
    BY <1>1, <1>8 DEF ClearOn, Persist, Elided
  <2>2. Through /\ phdr'[fr.clp] = hdr'[fr.clp]
    BY <1>2, <2>1 DEF Through, StepOK, TypeInv, HeadersOK
  <2>3. \A q \in Live : Dirty(q) => q = fr.clp \/ Dirty(q)'
    BY <1>1, <1>2, <2>1 DEF Dirty, RecoverPcs
  <2>4. QED
    BY <1>1, <1>2, <1>3, <1>5, <1>6, <2>1, <2>2, <2>3, MediaStep
<1>9. QED
  BY <1>7, <1>8

LEMMA RecoverDoneMedia ==
  ASSUME StepOK, MediaInv, RecoverDone
  PROVE  MediaInv'
<1> DEFINE s == IF hdr[fr.clp].state = "ACTIVATING" THEN "ACTIVE" ELSE "FREE"
<1>1. /\ Commit(fr.clp, InState(fr.clp, s), FALSE) /\ s \in {"FREE", "ACTIVE"}
      /\ fr' = [NoFrame EXCEPT !.clp = fr.clp + hdr[fr.clp].size]
      /\ pc = "recover.done" /\ pc' = "recover" /\ UNCHANGED <<cell, pcell>>
  BY Zenon DEF RecoverDone
<1> HIDE DEF s
<1>2. Live' = Live /\ Ends' = Ends
  BY <1>1, SetStateLive DEF InCall, States
<1>3. fr'.clp = fr.clp + hdr[fr.clp].size /\ ~fr'.lazy /\ fr.clp \in Live /\ fr.clp \in Chunks
  BY <1>1 DEF NoFrame, StepOK, ClumpInv, WalkInv, RecoverPcs, LiveShape
<1>4. Through /\ phdr'[fr.clp] = hdr'[fr.clp]
  <2> DEFINE z == InState(fr.clp, s)
  <2>1. Commit(fr.clp, z, FALSE)
    BY <1>1
  <2> HIDE DEF z
  <2>2. TypeInv /\ fr.clp \in Chunks
    BY <1>3 DEF StepOK
  <2>3. Through
    BY <2>1, <2>2, CommitThrough
  <2>4. phdr'[fr.clp] = z /\ hdr'[fr.clp] = z
    BY <2>1, <2>2, CommitBoth
  <2>5. QED
    BY <2>3, <2>4
<1>5. FrameStates'
  <2>1. pc' = "recover" /\ ~fr'.lazy
    BY <1>1, <1>3
  <2>2. QED
    BY <2>1 DEF FrameStates, RecoverPcs, ActivatePcs
<1>6. \A q \in Live : fr.clp <= q => q = fr.clp \/ fr'.clp <= q
  BY <1>3, Neighbours DEF StepOK
<1>7. ASSUME NEW q \in Live, Dirty(q), hdr'[q] = hdr[q]
      PROVE  phdr'[q] = hdr'[q] \/ Dirty(q)'
  <2>1. fr.clp <= q /\ hdr'[q].state \in DirtyStates
    BY <1>1, <1>7 DEF Dirty
  <2>2. q # fr.clp => fr'.clp <= q
    BY <1>6, <2>1
  <2>3. QED
    BY <1>1, <1>4, <2>1, <2>2 DEF Dirty
<1>8. QED
  BY <1>1, <1>2, <1>4, <1>5, <1>7, SameRoots, MediaStep

LEMMA CoalesceMedia ==
  ASSUME StepOK, MediaInv, CoalesceStep \/ CoalesceEnd
  PROVE  MediaInv'
<1>1. /\ pc = "coalesce" /\ pc' \in {"coalesce", "idle"} /\ UNCHANGED <<cell, pcell>>
      /\ ~fr.lazy /\ fr \in Frame
  BY DEF CoalesceStep, CoalesceEnd, Return, MediaInv, FrameStates, StepOK, TypeInv, FrameOK
<1>2. fr.lazy = FALSE
  BY <1>1 DEF Frame
<1>3. FrameStates'
  <2>1. CASE CoalesceStep
    <3>1. fr'.lazy = fr.lazy
      BY <1>1, <2>1 DEF CoalesceStep, Frame
    <3>2. QED
      BY <1>1, <3>1 DEF FrameStates, RecoverPcs, ActivatePcs
  <2>2. CASE CoalesceEnd
    <3>1. ~fr'.lazy
      BY <2>2 DEF CoalesceEnd, Return, NoFrame
    <3>2. QED
      BY <1>1, <3>1 DEF FrameStates, RecoverPcs, ActivatePcs
  <2>3. QED
    BY <2>1, <2>2
<1>4. \A q \in Live : ~Dirty(q)
  BY <1>1 DEF Dirty, RecoverPcs
<1>5. CASE UNCHANGED <<hdr, phdr>>
  <2>1. Live' = Live /\ Ends' = Ends
    BY <1>5, SameSizesLive DEF StepOK
  <2>2. QED
    BY <1>1, <1>3, <1>4, <1>5, <2>1, SameRoots, MediaStep DEF Through
<1>6. CASE RunOfTwo /\ Merge(FALSE)
  <2>1. Live' \subseteq Live /\ Ends' = Ends
    BY <1>1, <1>6, MergeLive
  <2>2. fr.first \in Chunks
    BY <1>1, <1>6 DEF StepOK, ClumpInv, WalkInv, LiveShape, RunOfTwo
  <2>3. Through
    BY <1>6, <2>2, CommitThrough, Zenon DEF Merge, StepOK
  <2>4. QED
    BY <1>1, <1>3, <1>4, <2>1, <2>3, SameRoots, MediaStep
<1>7. QED
  BY <1>2, <1>5, <1>6 DEF CoalesceStep, CoalesceEnd, Merge

LEMMA ReserveMedia ==
  ASSUME StepOK, MediaInv,
         CallReserve \/ ReserveScan \/ ReserveSplit \/ ReserveClear \/ ReserveClaim
  PROVE  MediaInv'
<1>1. /\ UNCHANGED <<cell, pcell>> /\ pc # "fsync" /\ ~fr.lazy /\ fr \in Frame
      /\ \A q \in Live : ~Dirty(q)
  BY DEF CallReserve, Reserve, ReserveScan, ReserveSplit, ReserveClear, ReserveClaim, image,
         Fatal, MediaInv, FrameStates, StepOK, TypeInv, FrameOK, Dirty, RecoverPcs
<1>2. ASSUME pc' \in {"reserve.scan", "reserve.split", "reserve.clear", "reserve.claim", "idle"},
             ~fr'.lazy
      PROVE  FrameStates'
  BY <1>2 DEF FrameStates, RecoverPcs, ActivatePcs
<1>3. CASE CallReserve
  <2>1. UNCHANGED <<hdr, phdr>> /\ pc' \in {"reserve.scan", "down"}
    BY <1>3 DEF CallReserve, Reserve, Fatal, ProcessGone, image
  <2>2. Live' = Live /\ Ends' = Ends
    BY <2>1, SameSizesLive DEF StepOK
  <2>3. FrameStates'
    BY <1>2, <1>3, GoneFrame DEF CallReserve, Reserve, Fatal, NoFrame
  <2>4. QED
    BY <1>1, <2>1, <2>2, <2>3, SameRoots, MediaStep DEF Through
<1>4. CASE ReserveScan
  <2>1. /\ UNCHANGED <<hdr, phdr>>
        /\ pc' \in {"idle", "reserve.scan", "reserve.split", "reserve.clear"}
    BY <1>4 DEF ReserveScan, Return, image
  <2>2. Live' = Live /\ Ends' = Ends
    BY <2>1, SameSizesLive DEF StepOK
  <2>3. FrameStates'
    BY <1>1, <1>2, <1>4, <2>1 DEF ReserveScan, Return, NoFrame, Frame
  <2>4. Mirrored'
    BY <1>1, <2>1, <2>2, MirrorStep DEF Through, MediaInv
  <2>5. pc' = "reserve.clear" => fr'.clp = fr.clp /\ fr'.csize = hdr[fr.clp].size
    BY <1>1, <1>4 DEF ReserveScan, Return, Frame
  <2>6. RestSynced'
    BY <2>1, <2>5 DEF RestSynced
  <2>7. QED
    BY <1>1, <2>3, <2>4, <2>6, SameRoots DEF MediaInv
<1>5. CASE ReserveSplit
  <2> DEFINE q == fr.clp + fr.nsize
  <2>1. /\ pc = "reserve.split" /\ pc' = "reserve.clear" /\ fr' = fr
        /\ Commit(q, [Zeroed EXCEPT !.size = hdr[fr.clp].size - fr.nsize], FALSE)
    BY <1>5, Zenon DEF ReserveSplit
  <2>2. Live' = Live /\ Ends' = Ends
    BY <1>5, SplitLive
  <2>3. q \in Chunks /\ fr.csize = fr.nsize
    BY <2>1, SplitChunk
  <2>4. Through /\ phdr'[q] = hdr'[q]
    BY <2>1, <2>3, CommitThrough, CommitBoth DEF StepOK
  <2>5. Mirrored'
    BY <1>1, <2>2, <2>4, MirrorStep DEF MediaInv
  <2>6. RestSynced'
    BY <2>1, <2>3, <2>4 DEF RestSynced, Synced
  <2>7. QED
    BY <1>1, <1>2, <2>1, <2>5, <2>6, SameRoots DEF MediaInv
<1>6. CASE ReserveClear
  <2> DEFINE z == [hdr[fr.clp] EXCEPT !.on = Zeroed.on]
  <2>1. /\ pc = "reserve.clear" /\ pc' = "reserve.claim" /\ fr' = fr
        /\ Commit(fr.clp, z, FALSE)
    BY <1>6, Zenon DEF ReserveClear
  <2>2. fr.clp \in Chunks /\ (fr.csize = hdr[fr.clp].size \/ Leftover)
    BY <2>1 DEF StepOK, ClumpInv, WalkInv, SplitPcs, LiveShape
  <2>3. z.size = hdr[fr.clp].size /\ z.state = hdr[fr.clp].state
    BY <2>2 DEF StepOK, TypeInv, HeadersOK, Header
  <2> HIDE DEF z
  <2>4. Live' = Live /\ Ends' = Ends
    BY <2>1, <2>2, <2>3, CommitSameHeaders, SameHeadersLive DEF StepOK
  <2>5. /\ Through /\ hdr'[fr.clp].size = hdr[fr.clp].size
    BY <2>1, <2>2, <2>3, CommitThrough, CommitBoth DEF StepOK
  <2>6. Mirrored'
    BY <1>1, <2>4, <2>5, MirrorStep DEF MediaInv
  <2>7. RestSynced'
    <3>1. CASE Leftover
      <4>1. fr.clp + fr.csize \in Chunks
        BY <2>1, <3>1, LeftoverChunk DEF StepOK
      <4>2. QED
        BY <2>1, <2>5, <4>1 DEF RestSynced, Synced, MediaInv, Through
    <3>2. CASE fr.csize = hdr[fr.clp].size
      BY <2>1, <2>5, <3>2 DEF RestSynced
    <3>3. QED
      BY <2>2, <3>1, <3>2
  <2>8. QED
    BY <1>1, <1>2, <2>1, <2>6, <2>7, SameRoots DEF MediaInv
<1>7. CASE ReserveClaim
  <2> DEFINE z == [hdr[fr.clp] EXCEPT !.size = fr.csize, !.state = "RESERVED"]
  <2>1. pc = "reserve.claim" /\ pc' = "idle" /\ ~fr'.lazy /\ Commit(fr.clp, z, FALSE)
    BY <1>7, Zenon DEF ReserveClaim, Return, NoFrame
  <2> HIDE DEF z
  <2>2. /\ Ends' = Ends
        /\ \A p \in Live' \ Live : p = fr.clp + fr.csize /\ fr.csize # hdr[fr.clp].size
    BY <1>7, ClaimLive
  <2>3. fr.clp \in Chunks
    BY <2>1 DEF StepOK, ClumpInv, WalkInv, SplitPcs, LiveShape
  <2>4. Through
    BY <2>1, <2>3, CommitThrough DEF StepOK
  <2>5. \A q \in Live' \ Live : phdr'[q] = hdr'[q]
    BY <2>1, <2>2, <2>4 DEF MediaInv, RestSynced, Synced, Through, StepOK, LiveShape
  <2>6. QED
    BY <1>1, <1>2, <2>1, <2>2, <2>4, <2>5, SameRoots, MediaStep
<1>8. QED
  BY <1>3, <1>4, <1>5, <1>6, <1>7

LEMMA OnListMedia ==
  ASSUME StepOK, MediaInv, ~NoDataPersist,
         CallOnActive \/ CallOnFree \/ OnActiveOff \/ OnFreeOff
  PROVE  MediaInv'
<1>1. UNCHANGED <<cell, pcell>> /\ ~fr.lazy /\ RootsSynced'
  BY SameRoots DEF CallOnActive, CallOnFree, OnActive, OnFree, PutPtr, Fatal, image, OnActiveOff,
     OnFreeOff, PutOff, MediaInv, FrameStates
<1>2. ASSUME pc = "idle", NEW p \in Chunks, NEW c \in Cells, NEW v \in Ptrs,
             NEW next \in {"onactive.off", "onfree.off"}, PutPtr(p, c, v, FALSE, next),
             hdr[p].state = IF next = "onactive.off" THEN "RESERVED" ELSE "ACTIVE"
      PROVE  MediaInv'
  <2>1. \A q \in Live : ~Dirty(q)
    BY <1>2 DEF Dirty, RecoverPcs
  <2>2. CASE FreeSlots(p) = {}
    <3>1. ProcessGone /\ UNCHANGED <<hdr, phdr>>
      BY <1>2, <2>2 DEF PutPtr, Fatal, image
    <3>2. Live' = Live /\ Ends' = Ends
      BY <3>1, SameSizesLive DEF StepOK
    <3>3. QED
      BY <1>1, <1>2, <2>1, <3>1, <3>2, GoneFrame, MediaStep DEF Through
  <2>3. CASE FreeSlots(p) # {}
    <3>1. PICK i \in FreeSlots(p) :
            /\ Commit(p, WithPtr(p, i, v), FALSE) /\ pc' = next
            /\ fr' = [NoFrame EXCEPT !.clp = p, !.k = i, !.dest = c]
      BY <1>2, <2>3 DEF PutPtr
    <3> DEFINE z == WithPtr(p, i, v)
    <3>2. z.size = hdr[p].size /\ z.state = hdr[p].state
      BY <3>1, WithType, WithState, NAssumption DEF FreeSlots, StepOK, TypeInv
    <3> HIDE DEF z
    <3>3. Commit(p, z, FALSE)
      BY <3>1 DEF z
    <3>4. SameHeaders /\ Through
      BY <3>2, <3>3, CommitSameHeaders, CommitThrough DEF StepOK
    <3>5. Live' = Live /\ Ends' = Ends
      BY <3>4, SameHeadersLive
    <3>6. FrameStates'
      <4>1. fr'.clp = p /\ ~fr'.lazy /\ hdr'[p].state = hdr[p].state
        BY <3>1, <3>4 DEF NoFrame, SameHeaders
      <4>2. QED
        BY <1>2, <3>1, <4>1 DEF FrameStates, RecoverPcs, ActivatePcs
    <3>7. QED
      BY <1>1, <1>2, <2>1, <3>1, <3>4, <3>5, <3>6, MediaStep
  <2>4. QED
    BY <2>2, <2>3
<1>3. ASSUME NEW here \in {"onactive.off", "onfree.off"}, PutOff(here)
      PROVE  MediaInv'
  <2> DEFINE z == WithOff(fr.clp, fr.k, fr.dest)
  <2>1. pc = here /\ Commit(fr.clp, z, FALSE) /\ pc' = "idle" /\ ~fr'.lazy
    BY <1>3, Zenon DEF PutOff, Return, NoFrame
  <2>2. /\ fr.clp \in Chunks /\ fr.k \in Slots /\ fr.dest \in Cells \cup {None}
        /\ 0 \in Ptrs
    BY <2>1, NAssumption DEF StepOK, TypeInv, FrameOK, Frame, InCall, Ptrs
  <2>3. z.size = hdr[fr.clp].size /\ z.state = hdr[fr.clp].state
    BY <2>2, WithType, WithState DEF StepOK, TypeInv
  <2> HIDE DEF z
  <2>4. SameHeaders /\ Through
    BY <2>1, <2>2, <2>3, CommitSameHeaders, CommitThrough DEF StepOK
  <2>5. Live' = Live /\ Ends' = Ends
    BY <2>4, SameHeadersLive
  <2>6. \A q \in Live : ~Dirty(q)
    BY <2>1 DEF Dirty, RecoverPcs
  <2>7. FrameStates'
    BY <2>1 DEF FrameStates, RecoverPcs, ActivatePcs
  <2>8. QED
    BY <1>1, <2>1, <2>4, <2>5, <2>6, <2>7, MediaStep
<1>4. CASE CallOnActive
  <2>1. PICK p \in handles, c \in Roots : OnActive(p, c, p)
    BY <1>4 DEF CallOnActive
  <2>2. p \in Chunks /\ p \in Ptrs /\ c \in Cells
    BY KnownType DEF StepOK, TypeInv, RestOK, Roots
  <2>3. pc = "idle" /\ hdr[p].state = "RESERVED" /\ PutPtr(p, c, p, FALSE, "onactive.off")
    BY <2>1 DEF OnActive
  <2>4. QED
    BY <1>2, <2>2, <2>3
<1>5. CASE CallOnFree
  <2>1. PICK p \in Known, c \in Roots : OnFree(p, c, Null)
    BY <1>5 DEF CallOnFree
  <2>2. p \in Chunks /\ Null \in Ptrs /\ c \in Cells
    BY KnownType, NAssumption DEF StepOK, Roots, Null, Ptrs
  <2>3. pc = "idle" /\ hdr[p].state = "ACTIVE" /\ PutPtr(p, c, Null, FALSE, "onfree.off")
    BY <2>1, EagerNow DEF OnFree
  <2>4. QED
    BY <1>2, <2>2, <2>3
<1>6. QED
  BY <1>3, <1>4, <1>5 DEF OnActiveOff, OnFreeOff

\* A call that changes the state of its clump, and persists it.
LEMMA SetStateMedia ==
  ASSUME StepOK, MediaInv, pc \in {"activate.begin", "activate.done", "free.begin", "free.done"},
         NEW s \in States, Commit(fr.clp, InState(fr.clp, s), FALSE),
         UNCHANGED <<cell, pcell>>, ~fr'.lazy,
         \/ pc' \in {"idle", "coalesce"}
         \/ pc' = "activate.run" /\ s = "ACTIVATING" /\ fr'.clp = fr.clp
         \/ pc' = "free.run" /\ s = "FREEING" /\ fr'.clp = fr.clp
  PROVE  MediaInv'
<1>1. fr.clp \in Chunks /\ pc \in InCall
  BY DEF StepOK, TypeInv, FrameOK, InCall
<1>2. Live' = Live /\ Ends' = Ends
  BY <1>1, SetStateLive
<1>3. InState(fr.clp, s).state = s
  BY <1>1 DEF InState, StepOK, TypeInv, HeadersOK, Header
<1>4. Through /\ hdr'[fr.clp].state = s
  BY <1>1, <1>3, CommitThrough, CommitBoth DEF StepOK
<1>5. FrameStates'
  BY <1>4 DEF FrameStates, RecoverPcs, ActivatePcs
<1>6. \A q \in Live : ~Dirty(q)
  BY DEF Dirty, RecoverPcs
<1>7. QED
  BY <1>2, <1>4, <1>5, <1>6, SameRoots, MediaStep

LEMMA ActivateMedia ==
  ASSUME StepOK, MediaInv, CallActivate \/ ActivateBegin \/ ActivateDone
  PROVE  MediaInv'
<1>1. CASE CallActivate
  <2>1. PICK p \in handles : Activate(p)
    BY <1>1 DEF CallActivate
  <2> DEFINE n == p + hdr[p].size
  <2>2. /\ pc = "idle" /\ hdr[p].state = "RESERVED" /\ hdr' = hdr /\ cell' = cell
        /\ phdr' = [phdr EXCEPT ![n] = hdr[n]]
        /\ pc' = "activate.begin" /\ fr'.clp = p /\ ~fr'.lazy
    BY <2>1 DEF Activate, NoFrame
  <2> HIDE DEF n
  <2>3. Through
    BY <2>2 DEF Through, StepOK, TypeInv, HeadersOK
  <2>4. RootsSynced'
    BY <2>1 DEF Activate, MediaInv, RootsSynced, Roots
  <2>5. Live' = Live /\ Ends' = Ends
    BY <2>2, SameSizesLive DEF StepOK
  <2>6. FrameStates'
    BY <2>2 DEF FrameStates, RecoverPcs, ActivatePcs
  <2>7. \A q \in Live : ~Dirty(q)
    BY <2>2 DEF Dirty, RecoverPcs
  <2>8. QED
    BY <2>2, <2>3, <2>4, <2>5, <2>6, <2>7, MediaStep
<1>2. CASE ActivateBegin
  <2>1. /\ pc = "activate.begin" /\ Commit(fr.clp, InState(fr.clp, "ACTIVATING"), FALSE)
        /\ pc' = "activate.run" /\ fr' = [fr EXCEPT !.k = 1] /\ UNCHANGED <<cell, pcell>>
    BY <1>2, Zenon DEF ActivateBegin
  <2>2. fr'.clp = fr.clp /\ ~fr'.lazy
    BY <2>1 DEF StepOK, TypeInv, FrameOK, Frame, MediaInv, FrameStates
  <2>3. QED
    BY <2>1, <2>2, SetStateMedia DEF States
<1>3. CASE ActivateDone
  <2>1. /\ pc = "activate.done" /\ Commit(fr.clp, InState(fr.clp, "ACTIVE"), FALSE)
        /\ pc' = "idle" /\ ~fr'.lazy /\ UNCHANGED <<cell, pcell>>
    BY <1>3, Zenon DEF ActivateDone, Return, NoFrame
  <2>2. QED
    BY <2>1, SetStateMedia DEF States
<1>4. QED
  BY <1>1, <1>2, <1>3

LEMMA FreeMedia ==
  ASSUME StepOK, MediaInv, ~NoDataPersist, CallFree \/ FreeBegin \/ FreeDone
  PROVE  MediaInv'
<1>1. fr.lazy = FALSE
  BY DEF MediaInv, FrameStates, StepOK, TypeInv, FrameOK, Frame
<1>2. CASE CallFree
  <2>1. PICK p \in Known : Free(p)
    BY <1>2 DEF CallFree
  <2>2. /\ pc = "idle" /\ fr'.clp = p /\ ~fr'.lazy /\ UNCHANGED <<hdr, phdr, cell, pcell>>
        /\ \/ hdr[p].state = "RESERVED" /\ pc' = "free.done"
           \/ hdr[p].state = "ACTIVE" /\ pc' = "free.begin"
    BY <2>1, EagerNow DEF Free, image, NoFrame
  <2>3. Live' = Live /\ Ends' = Ends
    BY <2>2, SameSizesLive DEF StepOK
  <2>4. FrameStates'
    BY <2>2 DEF FrameStates, RecoverPcs, ActivatePcs
  <2>5. \A q \in Live : ~Dirty(q)
    BY <2>2 DEF Dirty, RecoverPcs
  <2>6. QED
    BY <2>2, <2>3, <2>4, <2>5, SameRoots, MediaStep DEF Through
<1>3. CASE FreeBegin
  <2>1. /\ pc = "free.begin" /\ Commit(fr.clp, InState(fr.clp, "FREEING"), FALSE)
        /\ pc' = "free.run" /\ fr' = [fr EXCEPT !.k = 1] /\ UNCHANGED <<cell, pcell>>
    BY <1>1, <1>3, Zenon DEF FreeBegin
  <2>2. fr'.clp = fr.clp /\ ~fr'.lazy
    BY <1>1, <2>1 DEF StepOK, TypeInv, FrameOK, Frame
  <2>3. QED
    BY <2>1, <2>2, SetStateMedia DEF States
<1>4. CASE FreeDone
  <2>1. /\ pc = "free.done" /\ Commit(fr.clp, InState(fr.clp, "FREE"), FALSE)
        /\ StartCoalesce /\ UNCHANGED <<cell, pcell>>
    BY <1>1, <1>4, Zenon DEF FreeDone
  <2>2. pc' = "coalesce" /\ ~fr'.lazy
    BY <2>1, EagerNow DEF StartCoalesce, NoFrame
  <2>3. QED
    BY <2>1, <2>2, SetStateMedia DEF States
<1>5. QED
  BY <1>2, <1>3, <1>4

LEMMA CrashMedia ==
  ASSUME StepOK, MediaInv, ~CrashInCreate, Crash
  PROVE  MediaInv'
<1>1. FrameStates' /\ pc' = "down" /\ pc # "fsync"
  BY GoneFrame DEF Crash, Exit, PowerFail
<1>2. RestSynced'
  BY <1>1 DEF RestSynced
<1>3. CASE Exit
  <2>1. UNCHANGED <<hdr, phdr, cell, pcell>>
    BY <1>3 DEF Exit, image
  <2>2. Live' = Live /\ Ends' = Ends
    BY <2>1, SameSizesLive DEF StepOK
  <2>3. \A q \in Live : Dirty(q) => Dirty(q)'
    BY <1>1, <2>1 DEF Dirty
  <2>4. QED
    BY <1>1, <2>1, <2>2, <2>3, SameRoots, MediaStep DEF Through
<1>4. CASE PowerFail
  <2>1. phdr' = hdr' /\ pcell' = cell'
    BY <1>4 DEF PowerFail
  <2>2. QED
    BY <1>1, <1>2, <2>1 DEF MediaInv, RootsSynced, Mirrored, Synced
<1>5. QED
  BY <1>3, <1>4 DEF Crash

LEMMA EnvironmentMedia ==
  ASSUME StepOK, MediaInv, CallFill \/ Evict \/ Epoch \/ UNCHANGED vars
  PROVE  MediaInv'
<1>1. hdr' = hdr /\ UNCHANGED <<pc, fr>> /\ Through
  <2>1. ASSUME NEW p \in Chunks, EvictHdr(p)
        PROVE  Through
    BY <2>1 DEF EvictHdr, Through, StepOK, TypeInv, HeadersOK
  <2>2. ~(\E p \in Chunks : EvictHdr(p)) => phdr' = phdr /\ hdr' = hdr
    BY DEF CallFill, Fill, Evict, EvictCell, Epoch, image, vars
  <2>3. hdr' = hdr /\ UNCHANGED <<pc, fr>>
    BY DEF CallFill, Fill, Evict, EvictHdr, EvictCell, Epoch, image, vars
  <2>4. QED
    BY <2>1, <2>2, <2>3 DEF Through
<1>2. Live' = Live /\ Ends' = Ends
  BY <1>1, SameSizesLive DEF StepOK
<1>3. FrameStates'
  BY <1>1 DEF MediaInv, FrameStates
<1>4. RootsSynced'
  <2>1. CASE CallFill
    <3>1. PICK c \in Cells : \E v : Fill(c, v)
      BY <2>1 DEF CallFill
    <3>2. PICK p \in handles : c \in BodyCells(p)
      BY <3>1 DEF Fill
    <3>3. c \notin Roots
      <4>1. p \in Nat /\ p >= 1 /\ p < At[c]
        BY <3>2 DEF BodyCells, StepOK, TypeInv, RestOK, Chunks
      <4>2. QED
        BY <4>1 DEF Roots
    <3>4. pcell' = pcell /\ \E v : cell' = [cell EXCEPT ![c] = v]
      BY <3>1 DEF Fill
    <3>5. QED
      BY <3>3, <3>4 DEF MediaInv, RootsSynced, Roots, StepOK, TypeInv, CellsOK
  <2>2. ASSUME NEW c \in Cells, EvictCell(c)
        PROVE  RootsSynced'
    <3>1. cell' = cell /\ pcell' = [d \in Cells |-> IF d \in Line(c) THEN cell'[d] ELSE pcell[d]]
      BY <2>2 DEF EvictCell, WrittenBack
    <3>2. QED
      BY <3>1 DEF MediaInv, RootsSynced, Roots
  <2>3. CASE UNCHANGED <<cell, pcell>>
    BY <2>3, SameRoots
  <2>4. QED
    BY <2>1, <2>2, <2>3 DEF Evict, EvictHdr, Epoch, image, vars
<1>5. RestSynced'
  <2>1. ASSUME pc \in {"reserve.clear", "reserve.claim"}, fr.csize # hdr[fr.clp].size
        PROVE  Synced(fr.clp + fr.csize)'
    <3>1. fr.clp + fr.csize \in Chunks
      BY <2>1, LeftoverChunk DEF StepOK, ClumpInv, WalkInv
    <3>2. QED
      BY <1>1, <2>1, <3>1 DEF MediaInv, RestSynced, Synced, Through
  <2>2. QED
    BY <1>1, <2>1 DEF RestSynced
<1>6. pc # "fsync" => Mirrored'
  <2>1. \A q \in Live : Dirty(q) => Dirty(q)'
    BY <1>1 DEF Dirty
  <2>2. QED
    BY <1>1, <1>2, <2>1, MirrorStep DEF MediaInv
<1>7. QED
  BY <1>1, <1>3, <1>4, <1>5, <1>6 DEF MediaInv

-----------------------------------------------------------------------------
(* The theorem                                                              *)

LEMMA MediaInvInductive ==
  ASSUME ~Remix, ~NoDataPersist, ~CrashInCreate
  PROVE  Spec => []MediaInv
<1>1. Init => MediaInv
  BY DEF Init, MediaInv, FrameStates, RootsSynced, RestSynced, Mirrored, Synced, NoFrame,
         RecoverPcs, ActivatePcs
<1>2. /\ TypeInv /\ TileInv /\ LiveShape /\ ClumpInv /\ MediaInv /\ [Next]_vars
      /\ TypeInv' /\ TileInv' /\ LiveShape'
      => MediaInv'
  <2> SUFFICES ASSUME StepOK, MediaInv, [Next]_vars PROVE MediaInv'
    BY DEF StepOK
  <2>1. CASE Start \/ Step
    BY <2>1, StartMedia, RecoverMedia, RunMedia, ClearMedia, RecoverDoneMedia, CoalesceMedia,
       ReserveMedia, OnListMedia, ActivateMedia, FreeMedia
    DEF Start, Step
  <2>2. CASE Call
    BY <2>2, EnvironmentMedia, ReserveMedia, OnListMedia, ActivateMedia, FreeMedia DEF Call
  <2>3. CASE Crash \/ Evict \/ Epoch \/ UNCHANGED vars
    BY <2>3, CrashMedia, EnvironmentMedia
  <2>4. QED
    BY <2>1, <2>2, <2>3 DEF Next
<1>3. Spec => [](LiveShape /\ ClumpInv)
  BY ClumpInvInductive
<1>4. QED
  BY <1>1, <1>2, <1>3, TypeInvInductive, TileInvInductive, PTL DEF Spec

\* The media holds the clumps the cache holds, by the sizes alone.
LEMMA KeptIsLive == ASSUME TypeInv, TileInv, MediaInv, pc # "fsync" PROVE Clumps(phdr) = Live
<1>1. LiveShape /\ Image(phdr)
  BY LiveFacts, ImagesOK
<1>2. /\ \A p \in Ends : phdr[p].size = hdr[p].size
      /\ \A p \in Live : phdr[p].size = hdr[p].size
  BY DEF MediaInv, Mirrored, Synced, Behind
<1>3. CASE hdr[1].size = 0
  <2>1. Live = {} /\ phdr[1].size = 0
    BY <1>2, <1>3, LiveWalk DEF Ends
  <2>2. QED
    BY <1>1, <2>1, NoClumps
<1>4. CASE hdr[1].size # 0
  <2>1. Walk(hdr, Live)
    BY <1>4, LiveWalk
  <2>2. Walk(phdr, Live)
    BY <1>2, <2>1 DEF Walk
  <2>3. QED
    BY <1>1, <2>2, WalkIsClumps
<1>5. QED
  BY <1>3, <1>4

\* In the default build a call that has returned is durable, whatever it was and
\* whatever the hardware wrote back meanwhile: the media holds the same clumps,
\* with the same states and lists, and the same roots.  A process that has freed
\* does not reserve again, and none dies while the pool file is created.
THEOREM ReturnsAreDurable ==
  ASSUME ~Remix, ~NoDataPersist, ~CrashInCreate
  PROVE  Spec => []DurableAtReturn
<1>1. TypeInv /\ TileInv /\ MediaInv => DurableAtReturn
  <2> SUFFICES ASSUME TypeInv, TileInv, MediaInv, pc = "idle"
               PROVE  /\ Clumps(phdr) = Clumps(hdr)
                      /\ \A p \in Clumps(hdr) : phdr[p] = hdr[p]
                      /\ \A c \in Roots : pcell[c] = cell[c]
    BY DEF DurableAtReturn
  <2>1. \A p \in Live : ~Behind(p)
    BY DEF Behind, Dirty, RecoverPcs
  <2>2. QED
    BY <2>1, KeptIsLive DEF Live, MediaInv, Mirrored, Synced, RootsSynced
<1>2. Spec => []MediaInv
  BY MediaInvInductive
<1>3. QED
  BY <1>1, <1>2, TypeInvInductive, TileInvInductive, PTL

-----------------------------------------------------------------------------
(***************************************************************************)
(* Pmemalloc implements PmemPool in the default build: whatever a crash would *)
(* leave on the media, once recovered, changes by whole activations and whole *)
(* frees, no root is left pointing at memory recovery gives back, and what    *)
(* the caller stored in a block is there.  What has to be known for that is   *)
(* about the "on" lists: which roots they name, what they assign to them, and *)
(* how far a call, or the recovery of the call a crash cut short, has come    *)
(* with them.                                                                *)
(***************************************************************************)

HalfwayStates == {"ACTIVATING", "FREEING"}

Busy == {p \in Live : hdr[p].state # "FREE"}

\* What the list of the clump at p assigns: a pointer to it, or null.
Target(p) == IF hdr[p].state \in {"RESERVED", "ACTIVATING"} THEN p ELSE Null

\* The entries in use come first.
Filled(on) == \A i, j \in Slots : j < i /\ on[i].off # None => on[j].off # None

Cleared(p) == \A i \in Slots : hdr[p].on[i].off = None

\* Entry i of p has been executed, or is not in use.
Done(p, i) == hdr[p].on[i].off # None => cell[hdr[p].on[i].off] = Target(p)

\* An entry in the cache is the one on the media, or cleared already, and then
\* executed before.  A root that a list names is null until the block is
\* activated, and points at the block until it is freed.
EntryOK(p, i) ==
  LET e == phdr[p].on[i]
      d == hdr[p].on[i]
  IN /\ d.ptr = e.ptr
     /\ d.off = None \/ d.off = e.off
     /\ e.off # None =>
          /\ e.off \in Roots /\ e.ptr = Target(p)
          /\ hdr[p].state = "RESERVED" => cell[e.off] = Null
          /\ hdr[p].state = "ACTIVE" => cell[e.off] = p
          /\ hdr[p].state \in HalfwayStates /\ d.off = None => cell[e.off] = Target(p)

ListOK(p) ==
  /\ Filled(hdr[p].on) /\ Filled(phdr[p].on)
  /\ \A i \in Slots : EntryOK(p, i)

Lists == \A p \in Busy : ListOK(p)

\* No root is named by the lists of two clumps.
Exclusive ==
  \A p, q \in Busy : p # q =>
    \A i, j \in Slots : phdr[p].on[i].off = phdr[q].on[j].off => phdr[p].on[i].off = None

\* A root points at a block that is allocated, or on its way out with the root in
\* its list.
Linked ==
  \A c \in Roots : cell[c] # Null =>
    LET p == cell[c] IN
    /\ p \in Live
    /\ \/ hdr[p].state \in {"ACTIVATING", "ACTIVE"}
       \/ hdr[p].state = "FREEING" /\ \E i \in Slots : hdr[p].on[i].off = c

\* The entry pmemalloc_onactive or _onfree is filling in.
Filling ==
  /\ fr.dest \in Roots
  /\ hdr[fr.clp].on[fr.k].off = None /\ hdr[fr.clp].on[fr.k].ptr = Target(fr.clp)
  /\ \A j \in Slots : j < fr.k => hdr[fr.clp].on[j].off # None
  /\ cell[fr.dest] = IF pc = "onactive.off" THEN Null ELSE fr.clp
  /\ \A q \in Busy \ {fr.clp}, i \in Slots : phdr[q].on[i].off # fr.dest

\* The calls that are about one clump throughout.
OnePcs == {"onactive.off", "onfree.off", "activate.begin", "free.begin"}
          \cup ActivatePcs \cup FreePcs

FrameLists ==
  /\ pc \in OnePcs => fr.clp \in Live
  /\ pc \in RunPcs => \A i \in Slots : i < fr.k => Done(fr.clp, i)
  /\ pc \in ClearPcs =>
       /\ \A i \in Slots : i > fr.k => hdr[fr.clp].on[i].off = None
       /\ hdr[fr.clp].state # "RESERVED" => \A i \in Slots : Done(fr.clp, i)
  /\ pc \in {"recover.done", "activate.done", "reserve.claim"} => Cleared(fr.clp)
  /\ pc = "free.done" /\ hdr[fr.clp].state = "FREEING" => Cleared(fr.clp)
  /\ pc \in {"onactive.off", "onfree.off"} => Filling
  /\ pc = "free.begin" => Unlinks(fr.clp)

\* Before the first clump is on the media nothing is.
Creation ==
  /\ ~file => pc = "down" /\ hdr = [p \in Chunks |-> Zeroed] /\ phdr = hdr
              /\ cell = [c \in Cells |-> Null] /\ pcell = cell
  /\ pc \in {"create", "fsync"} =>
       /\ \A p \in Chunks : hdr[p].state = "FREE" /\ phdr[p].state = "FREE"
       /\ \A c \in Cells : cell[c] = Null

ListInv == Lists /\ Exclusive /\ Linked /\ FrameLists /\ Creation

-----------------------------------------------------------------------------
(* What a step does to the lists                                            *)

LEMMA EntryType ==
  ASSUME TypeInv, NEW p \in Chunks, NEW i \in Slots
  PROVE  /\ hdr[p].on[i].off \in Cells \cup {None} /\ hdr[p].on[i].ptr \in Ptrs
         /\ phdr[p].on[i].off \in Cells \cup {None} /\ phdr[p].on[i].ptr \in Ptrs
<1>1. hdr[p] \in Header /\ phdr[p] \in Header
  BY DEF TypeInv, HeadersOK
<1>2. hdr[p].on[i] \in Entry /\ phdr[p].on[i] \in Entry
  BY <1>1 DEF Header
<1>3. QED
  BY <1>2 DEF Entry

LEMMA ChunkFacts == Null \notin Chunks /\ None \notin Roots /\ Roots \subseteq Cells
BY CellsAssumption DEF Chunks, Null, Roots

\* The line of p keeps its state and size, and its list is what it was on one side.
Kept(p) ==
  /\ hdr'[p].state = hdr[p].state /\ hdr'[p].size = hdr[p].size
  /\ \/ hdr'[p].on = hdr[p].on /\ phdr'[p].on = phdr[p].on
     \/ hdr'[p].on = hdr[p].on /\ phdr'[p].on = hdr[p].on
     \/ hdr'[p].on = phdr[p].on /\ phdr'[p].on = phdr[p].on

LEMMA ListKept ==
  ASSUME NEW p, ListOK(p), Kept(p),
         \A i \in Slots : phdr[p].on[i].off # None =>
                            cell'[phdr[p].on[i].off] = cell[phdr[p].on[i].off]
  PROVE  ListOK(p)'
<1>1. Filled(hdr'[p].on) /\ Filled(phdr'[p].on)
  BY DEF Kept, ListOK
<1>2. ASSUME NEW i \in Slots PROVE EntryOK(p, i)'
  <2>1. EntryOK(p, i) /\ Target(p)' = Target(p)
    BY DEF ListOK, Kept, Target
  <2>2. CASE hdr'[p].on = hdr[p].on /\ phdr'[p].on = phdr[p].on
    BY <2>1, <2>2 DEF EntryOK, Kept
  <2>3. CASE hdr'[p].on = hdr[p].on /\ phdr'[p].on = hdr[p].on
    BY <2>1, <2>3 DEF EntryOK, Kept
  <2>4. CASE hdr'[p].on = phdr[p].on /\ phdr'[p].on = phdr[p].on
    BY <2>1, <2>4 DEF EntryOK, Kept
  <2>5. QED
    BY <2>2, <2>3, <2>4 DEF Kept
<1>3. QED
  BY <1>1, <1>2 DEF ListOK

\* What the lists of p name, they named before.
LEMMA NamesKept ==
  ASSUME NEW p, ListOK(p), Kept(p), NEW i \in Slots, phdr'[p].on[i].off # None
  PROVE  phdr'[p].on[i].off = phdr[p].on[i].off
BY DEF ListOK, EntryOK, Kept

LEMMA OneLister ==
  ASSUME Exclusive, NEW p \in Busy, NEW q \in Busy, p # q, NEW i \in Slots, NEW j \in Slots,
         phdr[p].on[i].off = phdr[q].on[j].off
  PROVE  phdr[p].on[i].off = None
BY DEF Exclusive

\* A step that is about the clump x: the lists of the others stay, and so do the
\* roots they name.
LEMMA ListStep ==
  ASSUME Lists, Exclusive, Linked, NEW x,
         \A p : p # x => (p \in Busy' <=> p \in Busy) /\ (p \in Busy => Kept(p)),
         \A c \in Roots : cell'[c] # cell[c] =>
            /\ cell'[c] = Null \/ cell'[c] = x
            /\ \A q \in Busy \ {x}, j \in Slots : phdr[q].on[j].off # c,
         x \in Busy' =>
            /\ ListOK(x)'
            /\ \A i \in Slots : phdr'[x].on[i].off # None =>
                 \A q \in Busy \ {x}, j \in Slots : phdr[q].on[j].off # phdr'[x].on[i].off,
         \A c \in Roots : cell'[c] = x /\ x # Null =>
            /\ x \in Busy'
            /\ \/ hdr'[x].state \in {"ACTIVATING", "ACTIVE"}
               \/ hdr'[x].state = "FREEING" /\ \E i \in Slots : hdr'[x].on[i].off = c
  PROVE  Lists' /\ Exclusive' /\ Linked'
<1>1. ASSUME NEW p \in Busy', p # x
      PROVE  p \in Busy /\ Kept(p) /\ ListOK(p) /\ ListOK(p)'
  <2>1. p \in Busy /\ Kept(p) /\ ListOK(p)
    BY <1>1 DEF Lists
  <2>2. \A i \in Slots : phdr[p].on[i].off # None =>
                           cell'[phdr[p].on[i].off] = cell[phdr[p].on[i].off]
    <3>1. ASSUME NEW i \in Slots, phdr[p].on[i].off # None
          PROVE  cell'[phdr[p].on[i].off] = cell[phdr[p].on[i].off]
      <4>1. phdr[p].on[i].off \in Roots
        BY <2>1, <3>1 DEF ListOK, EntryOK
      <4>2. QED
        BY <1>1, <2>1, <3>1, <4>1
    <3>2. QED
      BY <3>1
  <2>3. QED
    BY <2>1, <2>2, ListKept
<1>2. Lists'
  BY <1>1 DEF Lists
<1>3. Exclusive'
  <2>1. SUFFICES ASSUME NEW p \in Busy', NEW q \in Busy', p # q, NEW i \in Slots, NEW j \in Slots,
                        phdr'[p].on[i].off = phdr'[q].on[j].off, phdr'[p].on[i].off # None
                 PROVE  FALSE
    BY DEF Exclusive
  <2>2. CASE p = x
    <3>1. q \in Busy /\ phdr'[q].on[j].off = phdr[q].on[j].off
      BY <1>1, <2>1, <2>2, NamesKept
    <3>2. QED
      BY <2>1, <2>2, <3>1
  <2>3. CASE q = x
    <3>1. p \in Busy /\ phdr'[p].on[i].off = phdr[p].on[i].off
      BY <1>1, <2>1, <2>3, NamesKept
    <3>2. QED
      BY <2>1, <2>3, <3>1
  <2>4. CASE p # x /\ q # x
    <3>1. /\ p \in Busy /\ phdr'[p].on[i].off = phdr[p].on[i].off
          /\ q \in Busy /\ phdr'[q].on[j].off = phdr[q].on[j].off
      BY <1>1, <2>1, <2>4, NamesKept
    <3>2. phdr[p].on[i].off = phdr[q].on[j].off /\ phdr[p].on[i].off # None
      BY <2>1, <3>1
    <3>3. QED
      BY <2>1, <3>1, <3>2, OneLister
  <2>5. QED
    BY <2>2, <2>3, <2>4
<1>4. Linked'
  <2>1. SUFFICES ASSUME NEW c \in Roots, cell'[c] # Null
                 PROVE  /\ cell'[c] \in Live'
                        /\ \/ hdr'[cell'[c]].state \in {"ACTIVATING", "ACTIVE"}
                           \/ /\ hdr'[cell'[c]].state = "FREEING"
                              /\ \E i \in Slots : hdr'[cell'[c]].on[i].off = c
    BY DEF Linked
  <2>2. CASE cell'[c] = x
    BY <2>1, <2>2 DEF Busy
  <2>3. CASE cell'[c] # x
    <3> DEFINE p == cell[c]
    <3>1. cell'[c] = p /\ p # x
      BY <2>1, <2>3
    <3>2. /\ p \in Live
          /\ \/ hdr[p].state \in {"ACTIVATING", "ACTIVE"}
             \/ hdr[p].state = "FREEING" /\ \E i \in Slots : hdr[p].on[i].off = c
      BY <2>1, <3>1 DEF Linked
    <3> HIDE DEF p
    <3>3. p \in Busy
      BY <3>2 DEF Busy
    <3>4. p \in Busy' /\ Kept(p) /\ ListOK(p)
      BY <3>1, <3>3 DEF Lists
    <3>5. p \in Live' /\ hdr'[p].state = hdr[p].state
      BY <3>4 DEF Busy, Kept
    <3>6. \A i \in Slots : hdr[p].on[i].off = c => hdr'[p].on[i].off = c
      BY <3>4, ChunkFacts DEF Kept, ListOK, EntryOK
    <3>7. QED
      BY <3>1, <3>2, <3>5, <3>6
  <2>4. QED
    BY <2>2, <2>3
<1>5. QED
  BY <1>2, <1>3, <1>4

\* The blocks a crash would leave allocated, and the roots that the list of p
\* would assign to when recovery meets it.
Used == {p \in Live : hdr[p].state \in {"ACTIVATING", "ACTIVE"}}

Named(p, c) ==
  p \in Live /\ hdr[p].state \in HalfwayStates /\ \E i \in Slots : phdr[p].on[i].off = c

\* The value v that recovery would find in, or assign to, the root c.
RootIs(c, v) ==
  /\ \A p : Named(p, c) => v = Target(p)
  /\ (\A p : ~Named(p, c)) => v = cell[c]

\* Nothing a recovery would find changes.
Stays ==
  /\ Used' = Used
  /\ \A p \in Used : hdr'[p].size = hdr[p].size
  /\ \A c \in Roots : \A v : RootIs(c, v) => RootIs(c, v)'

LEMMA NamedList ==
  ASSUME Lists, NEW p, NEW c, Named(p, c)
  PROVE  p \in Busy /\ ListOK(p)
BY DEF Named, HalfwayStates, Busy, Lists

\* One root, in a step that is about the clump x.
LEMMA RootStep ==
  ASSUME Lists, Exclusive, NEW x, NEW c \in Roots,
         \A p : p # x => (p \in Busy' <=> p \in Busy) /\ (p \in Busy => Kept(p)),
         cell'[c] # cell[c] => Named(x, c),
         Named(x, c) => Named(x, c)' \/ cell'[c] = Target(x),
         Named(x, c)' => Named(x, c) /\ Target(x)' = Target(x),
         NEW v, RootIs(c, v)
  PROVE  RootIs(c, v)'
<1>1. ASSUME NEW p, p # x, Named(p, c)'
      PROVE  Named(p, c) /\ Target(p)' = Target(p)
  <2>1. p \in Busy'
    BY <1>1 DEF Named, Busy, HalfwayStates
  <2>2. p \in Busy /\ Kept(p) /\ ListOK(p)
    BY <1>1, <2>1 DEF Lists
  <2>3. PICK i \in Slots : phdr'[p].on[i].off = c
    BY <1>1 DEF Named
  <2>4. phdr[p].on[i].off = c
    BY <2>2, <2>3, NamesKept, ChunkFacts
  <2>5. hdr[p].state \in HalfwayStates /\ p \in Live
    BY <1>1, <2>2 DEF Named, Kept, Busy
  <2>6. QED
    BY <2>2, <2>4, <2>5 DEF Named, Kept, Target
<1>2. ASSUME NEW p, p # x, Named(p, c), cell'[c] = cell[c]
      PROVE  Named(p, c)' \/ cell'[c] = Target(p)
  <2>1. p \in Busy /\ Kept(p) /\ ListOK(p) /\ p \in Busy'
    BY <1>2, NamedList
  <2>2. PICK i \in Slots : phdr[p].on[i].off = c
    BY <1>2 DEF Named
  <2>3. EntryOK(p, i) /\ c # None /\ hdr[p].state \in HalfwayStates
    BY <1>2, <2>1, ChunkFacts DEF ListOK, Named
  <2>4. phdr'[p].on[i].off = c \/ cell[c] = Target(p)
    BY <2>1, <2>2, <2>3 DEF Kept, EntryOK
  <2>5. p \in Live' /\ hdr'[p].state \in HalfwayStates
    BY <2>1, <2>3 DEF Busy, Kept
  <2>6. QED
    BY <1>2, <2>4, <2>5 DEF Named
<1>3. ASSUME NEW p, Named(p, c), p # x
      PROVE  ~Named(x, c)
  <2>1. SUFFICES ASSUME Named(x, c) PROVE FALSE
    OBVIOUS
  <2>2. p \in Busy /\ x \in Busy
    BY <1>3, <2>1, NamedList
  <2>3. PICK i \in Slots : phdr[p].on[i].off = c
    BY <1>3 DEF Named
  <2>4. PICK j \in Slots : phdr[x].on[j].off = c
    BY <2>1 DEF Named
  <2>5. QED
    BY <1>3, <2>2, <2>3, <2>4, OneLister, ChunkFacts
<1>4. \A p : Named(p, c)' => v = Target(p)'
  BY <1>1 DEF RootIs
<1>5. ASSUME \A p : ~Named(p, c)' PROVE v = cell'[c]
  <2>1. CASE \E p : Named(p, c)
    <3>1. PICK p : Named(p, c)
      BY <2>1
    <3>2. v = Target(p)
      BY <3>1 DEF RootIs
    <3>3. CASE p = x
      BY <1>5, <3>1, <3>2, <3>3
    <3>4. CASE p # x
      <4>1. cell'[c] = cell[c]
        BY <1>3, <3>1, <3>4
      <4>2. QED
        BY <1>2, <1>5, <3>1, <3>2, <3>4, <4>1
    <3>5. QED
      BY <3>3, <3>4
  <2>2. CASE \A p : ~Named(p, c)
    BY <2>2 DEF RootIs
  <2>3. QED
    BY <2>1, <2>2
<1>6. QED
  BY <1>4, <1>5 DEF RootIs

LEMMA StaysStep ==
  ASSUME Lists, Exclusive, NEW x,
         \A p : p # x => (p \in Busy' <=> p \in Busy) /\ (p \in Busy => Kept(p)),
         x \in Used' <=> x \in Used, x \in Used => hdr'[x].size = hdr[x].size,
         \A c \in Roots :
           /\ cell'[c] # cell[c] => Named(x, c)
           /\ Named(x, c) => Named(x, c)' \/ cell'[c] = Target(x)
           /\ Named(x, c)' => Named(x, c) /\ Target(x)' = Target(x)
  PROVE  Stays
<1>1. \A c \in Roots : \A v : RootIs(c, v) => RootIs(c, v)'
  BY RootStep
<1>2. \A p : p # x => (p \in Used' <=> p \in Used)
  BY DEF Used, Busy, Kept
<1>3. \A p \in Used : hdr'[p].size = hdr[p].size
  BY DEF Used, Busy, Kept
<1>4. QED
  BY <1>1, <1>2, <1>3 DEF Stays

\* A step that is about no clump in use.
LEMMA QuietLists ==
  ASSUME LiveShape, LiveShape', Lists, Exclusive, Linked, Busy' = Busy, \A p \in Busy : Kept(p),
         \A c \in Roots : cell'[c] = cell[c]
  PROVE  Lists' /\ Exclusive' /\ Linked' /\ Stays
<1>1. Null \notin Live /\ Null \notin Live' /\ Null \notin Busy
  BY ChunkFacts DEF Busy, LiveShape
<1>2. Lists' /\ Exclusive' /\ Linked'
  BY <1>1, ListStep
<1>3. Stays
  <2>1. Null \notin Used /\ Null \notin Used'
    BY <1>1 DEF Used
  <2>2. \A c : ~Named(Null, c) /\ ~Named(Null, c)'
    BY <1>1 DEF Named
  <2>3. QED
    BY <2>1, <2>2, StaysStep
<1>4. QED
  BY <1>2, <1>3

\* Where nothing is known of the lists but what Lists says.
LEMMA FreeFrame ==
  ASSUME pc' \notin OnePcs \cup RunPcs \cup ClearPcs \cup {"recover.done", "reserve.claim"}
  PROVE  FrameLists'
BY DEF FrameLists, OnePcs, RunPcs, ClearPcs, ActivatePcs, FreePcs

-----------------------------------------------------------------------------
(* One lemma per part of the next-state relation                            *)

AtomicOK == StepOK /\ MediaInv /\ ListInv

\* The three parts that are about lists and roots.
Entries == Lists /\ Exclusive /\ Linked

LEMMA BusyFacts ==
  ASSUME LiveShape
  PROVE  Busy \subseteq Live /\ Live \subseteq Chunks /\ Null \notin Live
BY ChunkFacts DEF Busy, LiveShape

\* A step that changes no header and no root.
LEMMA SameEntries ==
  ASSUME AtomicOK, UNCHANGED <<hdr, phdr, cell>>
  PROVE  Entries' /\ Stays /\ Live' = Live /\ Busy' = Busy
<1>1. Live' = Live
  BY SameSizesLive DEF AtomicOK, StepOK
<1>2. Busy' = Busy /\ \A p \in Busy : Kept(p)
  BY <1>1 DEF Busy, Kept
<1>3. QED
  BY <1>1, <1>2, QuietLists DEF AtomicOK, StepOK, ListInv, Entries

LEMMA StartLists ==
  ASSUME AtomicOK, Create \/ CreateClump \/ CreateSync \/ Open
  PROVE  Entries' /\ FrameLists' /\ Stays
<1>1. FrameLists'
  <2>1. pc' \in {"create", "fsync", "recover"}
    BY DEF Create, CreateClump, CreateSync, Open, StartRecover
  <2>2. QED
    BY <2>1, FreeFrame DEF OnePcs, RunPcs, ClearPcs, ActivatePcs, FreePcs
<1>2. CASE Open
  BY <1>1, <1>2, SameEntries DEF Open, image
<1>3. CASE Create
  BY <1>1, <1>3, SameEntries DEF Create, AtomicOK, ListInv, Creation
<1>4. CASE CreateClump \/ CreateSync
  <2>1. \A p \in Chunks : hdr[p].state = "FREE" /\ hdr'[p].state = "FREE"
    <3>1. \A p \in Chunks : hdr[p].state = "FREE"
      BY <1>4 DEF CreateClump, CreateSync, AtomicOK, ListInv, Creation
    <3>2. CASE CreateClump
      <4>1. hdr' = [hdr EXCEPT ![1] = [Zeroed EXCEPT !.size = N - 1]] /\ pc = "create"
        BY <3>2 DEF CreateClump
      <4>2. [Zeroed EXCEPT !.size = N - 1].state = "FREE"
        BY DEF Zeroed
      <4>3. QED
        BY <3>1, <4>1, <4>2 DEF AtomicOK, StepOK, TypeInv, HeadersOK
    <3>3. CASE CreateSync
      BY <3>1, <3>3 DEF CreateSync
    <3>4. QED
      BY <1>4, <3>1, <3>2, <3>3
  <2>2. Busy = {} /\ Busy' = {}
    BY <2>1 DEF Busy, AtomicOK, StepOK, LiveShape
  <2>3. cell' = cell
    BY <1>4 DEF CreateClump, CreateSync
  <2>4. QED
    BY <1>1, <2>2, <2>3, QuietLists DEF AtomicOK, StepOK, ListInv, Entries
<1>5. QED
  BY <1>2, <1>3, <1>4

LEMMA RecoverLists ==
  ASSUME AtomicOK, RecoverClump
  PROVE  Entries' /\ FrameLists' /\ Stays
<1>1. UNCHANGED <<hdr, phdr, cell>> /\ fr \in Frame
  BY DEF RecoverClump, image, AtomicOK, StepOK, TypeInv, FrameOK
<1>2. Entries' /\ Stays
  BY <1>1, SameEntries
<1>3. CASE pc' \in {"coalesce", "recover"}
  BY <1>2, <1>3, FreeFrame DEF OnePcs, RunPcs, ClearPcs, ActivatePcs, FreePcs
<1>4. CASE pc' \notin {"coalesce", "recover"}
  <2>1. \/ /\ pc' = "recover.clear" /\ fr'.clp = fr.clp /\ fr'.k = NumOn
           /\ hdr[fr.clp].state = "RESERVED"
        \/ /\ pc' = "recover.run" /\ fr'.k = 1
    BY <1>1, <1>4 DEF RecoverClump, StartCoalesce, Frame
  <2>2. \A i \in Slots : ~(i > NumOn) /\ ~(i < 1)
    BY NumOnAssumption DEF Slots
  <2>3. FrameLists'
    BY <1>1, <2>1, <2>2 DEF FrameLists, OnePcs, RunPcs, ClearPcs, ActivatePcs, FreePcs
  <2>4. QED
    BY <1>2, <2>3
<1>5. QED
  BY <1>3, <1>4

\* The clump whose list a loop executes or clears.
LEMMA LoopClump ==
  ASSUME AtomicOK, pc \in RunPcs \cup ClearPcs
  PROVE  /\ fr.clp \in Live /\ fr.clp \in Busy /\ fr.clp \in Chunks /\ fr.clp # Null
         /\ hdr[fr.clp].state \in DirtyStates
         /\ pc \in RunPcs => hdr[fr.clp].state \in HalfwayStates
         /\ ListOK(fr.clp) /\ fr \in Frame /\ fr.k \in Int
<1>1. fr.clp \in Live
  BY DEF AtomicOK, ListInv, FrameLists, OnePcs, RunPcs, ClearPcs, ActivatePcs, FreePcs, StepOK,
         ClumpInv, WalkInv, RecoverPcs
<1>2. /\ hdr[fr.clp].state \in DirtyStates
      /\ pc \in RunPcs => hdr[fr.clp].state \in HalfwayStates
  BY DEF AtomicOK, MediaInv, FrameStates, RunPcs, ClearPcs, RecoverPcs, ActivatePcs, DirtyStates,
         HalfwayStates
<1>3. fr.clp \in Busy
  BY <1>1, <1>2 DEF Busy, DirtyStates
<1>4. fr \in Frame /\ fr.k \in Int
  BY DEF AtomicOK, StepOK, TypeInv, FrameOK, RunPcs, ClearPcs
<1>5. QED
  BY <1>1, <1>2, <1>3, <1>4, BusyFacts DEF AtomicOK, StepOK, ListInv, Lists

\* One assignment of a list.
LEMMA AssignLists ==
  ASSUME AtomicOK, pc \in RunPcs, pc' = pc, fr.k \in Slots, hdr[fr.clp].on[fr.k].off # None,
         Assign(hdr[fr.clp].on[fr.k], FALSE), fr' = [fr EXCEPT !.k = fr.k + 1],
         UNCHANGED <<hdr, phdr>>
  PROVE  Entries' /\ FrameLists' /\ Stays
<1> DEFINE x == fr.clp
           o == hdr[x].on[fr.k].off
<1>1. /\ x \in Live /\ x \in Busy /\ x \in Chunks /\ x # Null
      /\ hdr[x].state \in HalfwayStates /\ ListOK(x) /\ fr \in Frame /\ fr.k \in Int
  BY LoopClump
<1>2. Live' = Live /\ Busy' = Busy
  <2>1. Live' = Live
    BY SameSizesLive DEF AtomicOK, StepOK
  <2>2. QED
    BY <2>1 DEF Busy
<1>3. o \in Roots /\ o = phdr[x].on[fr.k].off /\ hdr[x].on[fr.k].ptr = Target(x)
  BY <1>1 DEF ListOK, EntryOK
<1>4. \A c \in Roots : cell'[c] = IF c = o THEN Target(x) ELSE cell[c]
  <2>1. cell' = [cell EXCEPT ![o] = Target(x)]
    BY <1>3 DEF Assign
  <2> HIDE DEF o
  <2>2. QED
    BY <2>1, ChunkFacts DEF AtomicOK, StepOK, TypeInv, CellsOK
<1>5. fr'.clp = x /\ fr'.k = fr.k + 1
  BY <1>1 DEF Frame
<1>6. Target(x)' = Target(x)
  BY DEF Target
<1>7. Target(x) = IF hdr[x].state = "ACTIVATING" THEN x ELSE Null
  BY <1>1 DEF Target, HalfwayStates
<1> HIDE DEF o
<1>8. \A q \in Busy \ {x}, j \in Slots : phdr[q].on[j].off # o
  <2>1. SUFFICES ASSUME NEW q \in Busy, q # x, NEW j \in Slots, phdr[q].on[j].off = o
                 PROVE  FALSE
    OBVIOUS
  <2>2. phdr[x].on[fr.k].off = None
    BY <1>1, <1>3, <2>1, OneLister DEF AtomicOK, ListInv
  <2>3. QED
    BY <1>3, <2>2, ChunkFacts
<1>9. ListOK(x)'
  <2>1. ASSUME NEW i \in Slots PROVE EntryOK(x, i)'
    <3>1. EntryOK(x, i)
      BY <1>1 DEF ListOK
    <3>2. QED
      BY <1>1, <1>4, <1>6, <3>1 DEF EntryOK, HalfwayStates
  <2>2. QED
    BY <1>1, <2>1 DEF ListOK
<1>10. Entries'
  <2>1. \A i \in Slots : phdr'[x].on[i].off # None =>
          \A q \in Busy \ {x}, j \in Slots : phdr[q].on[j].off # phdr'[x].on[i].off
    BY <1>1, OneLister DEF AtomicOK, ListInv
  <2>2. \A c \in Roots : cell'[c] # cell[c] =>
          /\ cell'[c] = Null \/ cell'[c] = x
          /\ \A q \in Busy \ {x}, j \in Slots : phdr[q].on[j].off # c
    BY <1>4, <1>7, <1>8
  <2>3. \A c \in Roots : cell'[c] = x /\ x # Null =>
          /\ x \in Busy'
          /\ \/ hdr'[x].state \in {"ACTIVATING", "ACTIVE"}
             \/ hdr'[x].state = "FREEING" /\ \E i \in Slots : hdr'[x].on[i].off = c
    <3>1. SUFFICES ASSUME NEW c \in Roots, cell'[c] = x
                   PROVE \/ hdr[x].state \in {"ACTIVATING", "ACTIVE"}
                         \/ hdr[x].state = "FREEING" /\ \E i \in Slots : hdr[x].on[i].off = c
      BY <1>1, <1>2
    <3>2. CASE hdr[x].state = "ACTIVATING"
      BY <3>2
    <3>3. CASE hdr[x].state # "ACTIVATING"
      <4>1. cell[c] = x
        BY <1>1, <1>4, <1>7, <3>1, <3>3
      <4>2. QED
        BY <1>1, <4>1 DEF AtomicOK, ListInv, Linked
    <3>4. QED
      BY <3>2, <3>3
  <2>4. \A p : p # x => (p \in Busy' <=> p \in Busy) /\ (p \in Busy => Kept(p))
    BY <1>2 DEF Kept
  <2>5. QED
    BY <1>9, <2>1, <2>2, <2>3, <2>4, ListStep DEF AtomicOK, ListInv, Entries
<1>11. FrameLists'
  <2>1. ASSUME NEW i \in Slots, i < fr.k + 1
        PROVE  Done(x, i)'
    <3>1. i = fr.k \/ i < fr.k
      BY <1>1, <2>1 DEF Slots
    <3>2. CASE i = fr.k
      BY <1>3, <1>4, <1>6, <3>2 DEF Done, o
    <3>3. CASE i < fr.k
      <4>1. Done(x, i) /\ (hdr[x].on[i].off # None => hdr[x].on[i].off \in Roots)
        BY <1>1, <3>3 DEF AtomicOK, ListInv, FrameLists, ListOK, EntryOK
      <4>2. QED
        BY <1>4, <1>6, <4>1 DEF Done
    <3>4. QED
      BY <3>1, <3>2, <3>3
  <2>2. pc' \in RunPcs /\ fr'.clp \in Live'
    BY <1>1, <1>2, <1>5
  <2>3. QED
    BY <1>5, <2>1, <2>2 DEF FrameLists, RunPcs, ClearPcs, OnePcs, ActivatePcs, FreePcs
<1>12. Stays
  <2> SUFFICES ASSUME NEW q, q = x PROVE Stays
    OBVIOUS
  <2> HIDE DEF x
  <2>1. \A p : p # q => (p \in Busy' <=> p \in Busy) /\ (p \in Busy => Kept(p))
    BY <1>2 DEF Kept
  <2>2. Target(q)' = Target(q) /\ (q \in Used' <=> q \in Used) /\ hdr'[q].size = hdr[q].size
    BY <1>2 DEF Used, Target
  <2>3. \A c : Named(q, c)' <=> Named(q, c)
    BY <1>2 DEF Named
  <2>4. \A c \in Roots : cell'[c] # cell[c] => Named(q, c)
    BY <1>1, <1>3, <1>4 DEF Named
  <2>5. QED
    BY <2>1, <2>2, <2>3, <2>4, StaysStep DEF AtomicOK, ListInv
<1>13. QED
  BY <1>10, <1>11, <1>12

LEMMA RunLists ==
  ASSUME AtomicOK, RecoverRun \/ ActivateRun \/ FreeRun
  PROVE  Entries' /\ FrameLists' /\ Stays
<1>1. fr.lazy = FALSE
  BY DEF AtomicOK, StepOK, TypeInv, FrameOK, Frame, MediaInv, FrameStates
<1>2. PICK here, next :
        /\ \/ here = "recover.run" /\ next = "recover.clear"
           \/ here = "activate.run" /\ next = "activate.clear"
           \/ here = "free.run" /\ next = "free.clear"
        /\ RunOn(here, next, FALSE)
  BY <1>1 DEF RecoverRun, ActivateRun, FreeRun
<1>3. pc = here /\ UNCHANGED <<hdr, phdr>> /\ pc \in RunPcs
  BY <1>2 DEF RunOn, RunPcs
<1>4. fr.k \in 1 .. NumOn + 1 /\ fr \in Frame
  BY <1>3 DEF AtomicOK, StepOK, TypeInv, FrameOK
<1>5. CASE fr.k <= NumOn /\ hdr[fr.clp].on[fr.k].off # None
  <2>1. fr.k \in Slots
    BY <1>4, <1>5, NumOnAssumption DEF Slots
  <2>2. /\ Assign(hdr[fr.clp].on[fr.k], FALSE) /\ fr' = [fr EXCEPT !.k = fr.k + 1] /\ pc' = pc
    BY <1>2, <1>5 DEF RunOn
  <2>3. QED
    BY <1>3, <1>5, <2>1, <2>2, AssignLists
<1>6. CASE ~(fr.k <= NumOn /\ hdr[fr.clp].on[fr.k].off # None)
  <2>1. fr' = [fr EXCEPT !.k = NumOn] /\ pc' = next /\ UNCHANGED <<cell, pcell>>
    BY <1>2, <1>6 DEF RunOn
  <2>2. Entries' /\ Stays /\ Live' = Live /\ fr'.clp = fr.clp /\ fr'.k = NumOn
    BY <1>3, <1>4, <2>1, SameEntries DEF Frame
  <2>3. /\ fr.clp \in Live /\ Filled(hdr[fr.clp].on)
        /\ \A i \in Slots : i < fr.k => Done(fr.clp, i)
    BY <1>3, LoopClump DEF AtomicOK, ListInv, FrameLists, ListOK
  <2>4. ASSUME NEW i \in Slots PROVE Done(fr.clp, i)
    <3>1. CASE i < fr.k
      BY <2>3, <3>1
    <3>2. CASE ~(i < fr.k)
      <4>1. fr.k \in Slots /\ hdr[fr.clp].on[fr.k].off = None /\ (i = fr.k \/ fr.k < i)
        BY <1>4, <1>6, <3>2, NumOnAssumption DEF Slots
      <4>2. hdr[fr.clp].on[i].off = None
        BY <2>3, <4>1 DEF Filled
      <4>3. QED
        BY <4>2 DEF Done
    <3>3. QED
      BY <3>1, <3>2
  <2>5. \A i \in Slots : Done(fr.clp, i)' /\ ~(i > NumOn)
    BY <1>3, <2>1, <2>4, NumOnAssumption DEF Done, Target, Slots
  <2>6. pc' \in ClearPcs
    BY <1>2, <2>1 DEF ClearPcs
  <2>7. QED
    BY <2>2, <2>3, <2>5, <2>6 DEF FrameLists, RunPcs, ClearPcs, OnePcs, ActivatePcs, FreePcs
<1>7. QED
  BY <1>5, <1>6

\* The entries of a header with one field stored.
LEMMA WithEntries ==
  ASSUME TypeInv, NEW p \in Chunks, NEW i \in Slots, NEW v
  PROVE  \A j \in Slots :
           /\ WithOff(p, i, v).on[j].off = IF j = i THEN v ELSE hdr[p].on[j].off
           /\ WithOff(p, i, v).on[j].ptr = hdr[p].on[j].ptr
           /\ WithPtr(p, i, v).on[j].ptr = IF j = i THEN v ELSE hdr[p].on[j].ptr
           /\ WithPtr(p, i, v).on[j].off = hdr[p].on[j].off
<1> DEFINE on == hdr[p].on
<1>1. hdr[p] \in Header
  BY DEF TypeInv, HeadersOK
<1>2. on \in [Slots -> Entry] /\ hdr[p] = [size |-> hdr[p].size, state |-> hdr[p].state, on |-> on]
  BY <1>1 DEF Header
<1>3. /\ WithOff(p, i, v) = [hdr[p] EXCEPT !.on = [on EXCEPT ![i] = [on[i] EXCEPT !.off = v]]]
      /\ WithPtr(p, i, v) = [hdr[p] EXCEPT !.on = [on EXCEPT ![i] = [on[i] EXCEPT !.ptr = v]]]
  BY Zenon DEF WithOff, WithPtr
<1> HIDE DEF on
<1>4. /\ WithOff(p, i, v).on = [on EXCEPT ![i] = [on[i] EXCEPT !.off = v]]
      /\ WithPtr(p, i, v).on = [on EXCEPT ![i] = [on[i] EXCEPT !.ptr = v]]
  BY <1>2, <1>3
<1>5. \A j \in Slots : on[j] \in Entry
  BY <1>2
<1>6. QED
  BY <1>2, <1>4, <1>5 DEF Entry, on

\* One entry of a list is cleared in the cache.
LEMMA ClearOneLists ==
  ASSUME AtomicOK, pc \in ClearPcs, pc' = pc, fr.k \in Slots,
         hdr' = [hdr EXCEPT ![fr.clp] = WithOff(fr.clp, fr.k, None)],
         fr' = [fr EXCEPT !.k = fr.k - 1], UNCHANGED <<phdr, cell>>, Live' = Live
  PROVE  Entries' /\ FrameLists' /\ Stays
<1> DEFINE x == fr.clp
           z == WithOff(fr.clp, fr.k, None)
<1>1. /\ x \in Live /\ x \in Busy /\ x \in Chunks /\ x # Null
      /\ hdr[x].state \in DirtyStates /\ ListOK(x) /\ fr \in Frame /\ fr.k \in Int
  BY LoopClump
<1>2. /\ fr'.clp = x /\ fr'.k = fr.k - 1
      /\ \A p \in Chunks : p # x => hdr'[p] = hdr[p]
      /\ hdr'[x].state = hdr[x].state /\ hdr'[x].size = hdr[x].size
      /\ \A j \in Slots : hdr'[x].on[j].off = IF j = fr.k THEN None ELSE hdr[x].on[j].off
      /\ \A j \in Slots : hdr'[x].on[j].ptr = hdr[x].on[j].ptr
  <2>1. /\ z.state = hdr[x].state /\ z.size = hdr[x].size
        /\ \A j \in Slots : z.on[j].off = IF j = fr.k THEN None ELSE hdr[x].on[j].off
        /\ \A j \in Slots : z.on[j].ptr = hdr[x].on[j].ptr
    <3>1. TypeInv
      BY DEF AtomicOK, StepOK
    <3>2. z.state = hdr[x].state /\ z.size = hdr[x].size
      BY <1>1, <3>1, WithState
    <3>3. QED
      BY <1>1, <3>1, <3>2, WithEntries
  <2>2. hdr' = [hdr EXCEPT ![x] = z]
    OBVIOUS
  <2> HIDE DEF z
  <2>3. hdr'[x] = z /\ \A p \in Chunks : p # x => hdr'[p] = hdr[p]
    BY <1>1, <2>2 DEF AtomicOK, StepOK, TypeInv, HeadersOK
  <2>4. fr'.clp = x /\ fr'.k = fr.k - 1
    BY <1>1 DEF Frame
  <2>5. QED
    BY <2>1, <2>3, <2>4
<1> HIDE DEF z
<1>3. Target(x)' = Target(x)
  BY <1>2 DEF Target
<1>4. Busy' = Busy /\ \A p \in Busy : p # x => Kept(p)
  BY <1>1, <1>2, BusyFacts DEF Busy, Kept, AtomicOK, StepOK
<1>5. /\ \A i \in Slots : i > fr.k => hdr[x].on[i].off = None
      /\ hdr[x].state # "RESERVED" => \A i \in Slots : Done(x, i)
  BY DEF AtomicOK, ListInv, FrameLists
<1>6. ListOK(x)'
  <2>1. Filled(hdr'[x].on)
    <3>1. SUFFICES ASSUME NEW i \in Slots, NEW j \in Slots, j < i, hdr'[x].on[i].off # None
                   PROVE  hdr'[x].on[j].off # None
      BY DEF Filled
    <3>2. hdr[x].on[i].off # None /\ i # fr.k
      BY <1>2, <3>1
    <3>3. i < fr.k /\ j # fr.k
      BY <1>1, <1>5, <3>1, <3>2 DEF Slots
    <3>4. QED
      BY <1>1, <1>2, <3>1, <3>2, <3>3 DEF ListOK, Filled
  <2>2. ASSUME NEW i \in Slots PROVE EntryOK(x, i)'
    <3>1. EntryOK(x, i) /\ (hdr[x].state \in HalfwayStates => Done(x, i))
      BY <1>1, <1>5 DEF ListOK, HalfwayStates
    <3>2. /\ hdr'[x].on[i].ptr = hdr[x].on[i].ptr
          /\ hdr'[x].on[i].off = hdr[x].on[i].off \/ hdr'[x].on[i].off = None
      BY <1>2
    <3>3. QED
      BY SMTT(30), <1>2, <1>3, <3>1, <3>2 DEF EntryOK, Done
  <2>3. QED
    BY <1>1, <2>1, <2>2 DEF ListOK
<1>7. Entries'
  <2>1. \A i \in Slots : phdr'[x].on[i].off # None =>
          \A q \in Busy \ {x}, j \in Slots : phdr[q].on[j].off # phdr'[x].on[i].off
    BY <1>1, OneLister DEF AtomicOK, ListInv
  <2>2. \A c \in Roots : cell'[c] = x /\ x # Null =>
          /\ x \in Busy'
          /\ \/ hdr'[x].state \in {"ACTIVATING", "ACTIVE"}
             \/ hdr'[x].state = "FREEING" /\ \E i \in Slots : hdr'[x].on[i].off = c
    <3>1. SUFFICES ASSUME NEW c \in Roots, cell[c] = x
                   PROVE  hdr[x].state \in {"ACTIVATING", "ACTIVE"}
      BY <1>1, <1>2, <1>4
    <3>2. \/ hdr[x].state \in {"ACTIVATING", "ACTIVE"}
          \/ hdr[x].state = "FREEING" /\ \E i \in Slots : hdr[x].on[i].off = c
      BY <1>1, <3>1 DEF AtomicOK, ListInv, Linked
    <3>3. CASE hdr[x].state = "FREEING"
      <4>1. PICK i \in Slots : hdr[x].on[i].off = c
        BY <3>2, <3>3
      <4>2. cell[c] = Target(x)
        BY <1>5, <3>3, <4>1, ChunkFacts DEF Done
      <4>3. QED
        BY <1>1, <3>1, <3>3, <4>2 DEF Target
    <3>4. QED
      BY <3>2, <3>3
  <2>3. \A c \in Roots : cell'[c] = cell[c]
    OBVIOUS
  <2>4. \A p : p # x => (p \in Busy' <=> p \in Busy) /\ (p \in Busy => Kept(p))
    BY <1>4
  <2>5. QED
    BY <1>6, <2>1, <2>2, <2>3, <2>4, ListStep DEF AtomicOK, ListInv, Entries
<1>8. FrameLists'
  <2>1. \A i \in Slots : i > fr'.k => hdr'[x].on[i].off = None
    BY <1>1, <1>2, <1>5 DEF Slots
  <2>2. hdr'[x].state # "RESERVED" => \A i \in Slots : Done(x, i)'
    BY <1>2, <1>3, <1>5 DEF Done
  <2>3. pc' \in ClearPcs /\ x \in Live'
    BY <1>1
  <2>4. QED
    BY <1>2, <2>1, <2>2, <2>3 DEF FrameLists, RunPcs, ClearPcs, OnePcs, ActivatePcs, FreePcs
<1>9. Stays
  <2> SUFFICES ASSUME NEW q, q = x PROVE Stays
    OBVIOUS
  <2> HIDE DEF x
  <2>1. Target(q)' = Target(q) /\ (q \in Used' <=> q \in Used) /\ hdr'[q].size = hdr[q].size
    BY <1>2 DEF Used, Target
  <2>2. \A c : Named(q, c)' <=> Named(q, c)
    BY <1>2 DEF Named
  <2>3. \A c \in Roots : cell'[c] = cell[c]
    OBVIOUS
  <2>4. QED
    BY <1>4, <2>1, <2>2, <2>3, StaysStep DEF AtomicOK, ListInv
<1>10. QED
  BY <1>7, <1>8, <1>9

LEMMA ClearLists ==
  ASSUME AtomicOK, RecoverClear \/ ActivateClear \/ FreeClear
  PROVE  Entries' /\ FrameLists' /\ Stays
<1>1. PICK here, next :
        /\ \/ here = "recover.clear" /\ next = "recover.done"
           \/ here = "activate.clear" /\ next = "activate.done"
           \/ here = "free.clear" /\ next = "free.done"
        /\ ClearOn(here, next)
  BY DEF RecoverClear, ActivateClear, FreeClear
<1>2. /\ pc = here /\ cell' = cell /\ SameHeaders /\ pc \in ClearPcs
      /\ fr.clp \in Chunks /\ fr.k \in 0 .. NumOn /\ Live' = Live
  BY <1>1, ClearOnHeaders, SameHeadersLive
  DEF ClearOn, ClearPcs, AtomicOK, StepOK, TypeInv, FrameOK, InCall
<1>3. CASE fr.k >= 1
  <2>1. /\ pc' = pc /\ phdr' = phdr /\ hdr' = [hdr EXCEPT ![fr.clp] = WithOff(fr.clp, fr.k, None)]
        /\ fr' = [fr EXCEPT !.k = fr.k - 1]
    BY <1>1, <1>3, Zenon DEF ClearOn
  <2>2. fr.k \in Slots
    BY <1>2, <1>3, NumOnAssumption DEF Slots
  <2>3. QED
    BY <1>2, <2>1, <2>2, ClearOneLists
<1>4. CASE ~(fr.k >= 1)
  <2>1. pc' = next /\ hdr' = hdr /\ phdr' = [phdr EXCEPT ![fr.clp] = hdr[fr.clp]] /\ fr' = fr
    BY <1>1, <1>4 DEF ClearOn, Persist, Elided
  <2>2. Busy' = Busy /\ \A p \in Busy : Kept(p)
    <3>1. \A p \in Busy : p \in Chunks
      BY BusyFacts DEF AtomicOK, StepOK
    <3>2. QED
      BY <1>2, <2>1, <3>1 DEF Busy, Kept, AtomicOK, StepOK, TypeInv, HeadersOK
  <2>3. Entries' /\ Stays
    BY <1>2, <2>2, QuietLists DEF AtomicOK, StepOK, ListInv, Entries
  <2>4. \A i \in Slots : i > fr.k
    BY <1>2, <1>4, NumOnAssumption DEF Slots
  <2>5. Cleared(fr.clp)' /\ fr.clp \in Live'
    BY <1>2, <2>1, <2>4, LoopClump DEF Cleared, AtomicOK, ListInv, FrameLists
  <2>6. FrameLists'
    BY <1>1, <2>1, <2>5 DEF FrameLists, RunPcs, ClearPcs, OnePcs, ActivatePcs, FreePcs
  <2>7. QED
    BY <2>3, <2>6
<1>5. QED
  BY <1>3, <1>4

\* A list stays as it was when the state of its clump moves on.
LEMMA MovedList ==
  ASSUME NEW x, ListOK(x), NEW s, hdr'[x].state = s, s # "FREE",
         hdr'[x].on = hdr[x].on, phdr'[x].on = hdr[x].on, cell' = cell,
         \/ Cleared(x)
         \/ /\ phdr[x].on = hdr[x].on
            /\ \/ hdr[x].state = "RESERVED" /\ s = "ACTIVATING"
               \/ hdr[x].state = "ACTIVE" /\ s = "FREEING"
  PROVE  ListOK(x)'
<1>1. Filled(hdr'[x].on) /\ Filled(phdr'[x].on)
  BY DEF ListOK
<1>2. ASSUME NEW i \in Slots PROVE EntryOK(x, i)'
  <2>1. EntryOK(x, i)
    BY DEF ListOK
  <2>2. CASE Cleared(x)
    BY <2>1, <2>2 DEF EntryOK, Cleared
  <2>3. CASE /\ phdr[x].on = hdr[x].on
             /\ hdr[x].state = "RESERVED" /\ s = "ACTIVATING"
    <3>1. Target(x)' = Target(x)
      BY <2>3 DEF Target
    <3>2. QED
      BY <2>1, <2>3, <3>1 DEF EntryOK
  <2>4. CASE /\ phdr[x].on = hdr[x].on
             /\ hdr[x].state = "ACTIVE" /\ s = "FREEING"
    <3>1. Target(x)' = Target(x)
      BY <2>4 DEF Target
    <3>2. QED
      BY <2>1, <2>4, <3>1 DEF EntryOK
  <2>5. QED
    BY <2>2, <2>3, <2>4
<1>3. QED
  BY <1>1, <1>2 DEF ListOK

\* The clump x ends what a call or the recovery does to it in the state s.
Completes(x, s) ==
  \/ s = "ACTIVE" /\ hdr[x].state = "ACTIVATING" /\ Cleared(x)
  \/ s = "FREE" /\ hdr[x].state = "RESERVED"
  \/ s = "FREE" /\ hdr[x].state = "FREEING" /\ Cleared(x)

\* A call, or the recovery, moves its clump on to the state s.
LEMMA SetStateLists ==
  ASSUME AtomicOK, pc \in InCall, fr.clp \in Busy, NEW s \in States,
         Commit(fr.clp, InState(fr.clp, s), FALSE), cell' = cell,
         \/ s = "FREE" \/ Cleared(fr.clp)
         \/ /\ Synced(fr.clp)
            /\ \/ hdr[fr.clp].state = "RESERVED" /\ s = "ACTIVATING"
               \/ hdr[fr.clp].state = "ACTIVE" /\ s = "FREEING",
         \A c \in Roots : cell[c] = fr.clp =>
           \/ s \in {"ACTIVATING", "ACTIVE"}
           \/ s = "FREEING" /\ \E i \in Slots : hdr[fr.clp].on[i].off = c
  PROVE  Entries' /\ Live' = Live /\ (Completes(fr.clp, s) => Stays)
<1> SUFFICES ASSUME NEW x, x = fr.clp
             PROVE  Entries' /\ Live' = Live /\ (Completes(x, s) => Stays)
  OBVIOUS
<1> DEFINE z == InState(x, s)
<1>1. x \in Live /\ x \in Chunks /\ x # Null /\ ListOK(x)
  BY BusyFacts DEF AtomicOK, StepOK, ListInv, Lists
<1>2. Live' = Live
  BY SetStateLive DEF AtomicOK
<1>3. /\ hdr'[x].state = s /\ hdr'[x].on = hdr[x].on /\ phdr'[x] = hdr'[x]
      /\ hdr'[x].size = hdr[x].size
      /\ \A p \in Chunks : p # x => hdr'[p] = hdr[p] /\ phdr'[p] = phdr[p]
  <2>1. z.state = s /\ z.on = hdr[x].on /\ z.size = hdr[x].size
    BY <1>1 DEF InState, AtomicOK, StepOK, TypeInv, HeadersOK, Header
  <2>2. Commit(x, z, FALSE)
    OBVIOUS
  <2> HIDE DEF z
  <2>3. QED
    BY <1>1, <2>1, <2>2, CommitBoth DEF AtomicOK, StepOK
<1> HIDE DEF z
<1>4. \A p : p # x => (p \in Busy' <=> p \in Busy) /\ (p \in Busy => Kept(p))
  BY <1>2, <1>3, BusyFacts DEF Busy, Kept, AtomicOK, StepOK
<1>5. ASSUME s = "FREE" PROVE Entries' /\ Live' = Live
  <2>1. x \notin Busy'
    BY <1>3, <1>5 DEF Busy
  <2>2. \A c \in Roots : cell'[c] # x
    BY <1>5
  <2>3. QED
    BY <1>2, <1>4, <2>1, <2>2, ListStep DEF AtomicOK, ListInv, Entries
<1>6. ASSUME s # "FREE" PROVE Entries' /\ Live' = Live
  <2>1. x \in Busy'
    BY <1>1, <1>2, <1>3, <1>6 DEF Busy
  <2>2. ListOK(x)'
    <3>1. \/ Cleared(x)
          \/ /\ phdr[x].on = hdr[x].on
             /\ \/ hdr[x].state = "RESERVED" /\ s = "ACTIVATING"
                \/ hdr[x].state = "ACTIVE" /\ s = "FREEING"
      BY <1>6 DEF Synced
    <3>2. /\ hdr'[x].state = s /\ hdr'[x].on = hdr[x].on /\ phdr'[x].on = hdr[x].on
      BY <1>3
    <3>3. QED
      BY <1>1, <1>6, <3>1, <3>2, MovedList
  <2>3. \A i \in Slots : phdr'[x].on[i].off # None =>
          \A q \in Busy \ {x}, j \in Slots : phdr[q].on[j].off # phdr'[x].on[i].off
    <3>1. \A i \in Slots : phdr'[x].on[i].off # None => phdr'[x].on[i].off = phdr[x].on[i].off
      BY <1>1, <1>3 DEF ListOK, EntryOK
    <3>2. QED
      BY <3>1, OneLister DEF AtomicOK, ListInv
  <2>4. \A c \in Roots : cell'[c] = x /\ x # Null =>
          /\ x \in Busy'
          /\ \/ hdr'[x].state \in {"ACTIVATING", "ACTIVE"}
             \/ hdr'[x].state = "FREEING" /\ \E i \in Slots : hdr'[x].on[i].off = c
    BY <1>3, <2>1
  <2>5. \A c \in Roots : cell'[c] = cell[c]
    OBVIOUS
  <2>6. Lists /\ Exclusive /\ Linked
    BY DEF AtomicOK, ListInv
  <2>7. QED
    BY <1>2, <1>4, <2>1, <2>2, <2>3, <2>4, <2>5, <2>6, ListStep DEF Entries
<1>7. ASSUME Completes(x, s) PROVE Stays
  <2>1. (x \in Used' <=> x \in Used) /\ hdr'[x].size = hdr[x].size
    BY <1>1, <1>2, <1>3, <1>7 DEF Used, Completes
  <2>2. \A c : ~Named(x, c)'
    BY <1>3, <1>7 DEF Named, HalfwayStates, Completes
  <2>3. \A c \in Roots : Named(x, c) => cell'[c] = Target(x)
    <3>1. SUFFICES ASSUME NEW c \in Roots, NEW i \in Slots, phdr[x].on[i].off = c,
                          hdr[x].state \in HalfwayStates
                   PROVE  cell[c] = Target(x)
      BY DEF Named
    <3>2. EntryOK(x, i) /\ c # None /\ hdr[x].on[i].off = None
      BY <1>1, <1>7, <3>1, ChunkFacts DEF ListOK, Completes, Cleared, HalfwayStates
    <3>3. QED
      BY <3>1, <3>2 DEF EntryOK
  <2>4. \A c \in Roots : cell'[c] = cell[c]
    OBVIOUS
  <2>5. QED
    BY <1>4, <2>1, <2>2, <2>3, <2>4, StaysStep DEF AtomicOK, ListInv
<1>8. QED
  BY <1>5, <1>6, <1>7

\* What a root that points at x says about it.
LEMMA Pointed ==
  ASSUME Linked, NEW c \in Roots, cell[c] # Null
  PROVE  /\ cell[c] \in Live
         /\ \/ hdr[cell[c]].state \in {"ACTIVATING", "ACTIVE"}
            \/ hdr[cell[c]].state = "FREEING" /\ \E i \in Slots : hdr[cell[c]].on[i].off = c
BY DEF Linked

LEMMA RecoverDoneLists ==
  ASSUME AtomicOK, RecoverDone
  PROVE  Entries' /\ FrameLists' /\ Stays
<1> DEFINE s == IF hdr[fr.clp].state = "ACTIVATING" THEN "ACTIVE" ELSE "FREE"
<1>1. /\ Commit(fr.clp, InState(fr.clp, s), FALSE) /\ s \in States
      /\ pc = "recover.done" /\ pc' = "recover" /\ cell' = cell
  BY Zenon DEF RecoverDone, States
<1>2. fr.clp \in Busy /\ fr.clp # Null /\ Cleared(fr.clp) /\ Linked
      /\ hdr[fr.clp].state \in DirtyStates
  BY <1>1, BusyFacts DEF AtomicOK, StepOK, ListInv, ClumpInv, WalkInv, MediaInv, FrameStates, Busy,
     DirtyStates, FrameLists, RecoverPcs
<1>3. \A c \in Roots : cell[c] = fr.clp => hdr[fr.clp].state = "ACTIVATING"
  BY <1>2, Pointed, ChunkFacts DEF Cleared, DirtyStates
<1>4. Entries' /\ Stays
  <2>1. \A c \in Roots : cell[c] = fr.clp => s \in {"ACTIVATING", "ACTIVE"}
    BY <1>3
  <2>2. Completes(fr.clp, s)
    BY <1>2 DEF Completes, DirtyStates
  <2> HIDE DEF s
  <2>3. QED
    BY <1>1, <1>2, <2>1, <2>2, SetStateLists DEF InCall
<1>5. FrameLists'
  BY <1>1, FreeFrame DEF OnePcs, RunPcs, ClearPcs, ActivatePcs, FreePcs
<1>6. QED
  BY <1>4, <1>5

LEMMA ActivateLists ==
  ASSUME AtomicOK, CallActivate \/ ActivateBegin \/ ActivateDone
  PROVE  Entries' /\ FrameLists' /\ (ActivateBegin \/ Stays)
<1>1. CASE CallActivate
  <2>1. PICK p \in handles : Activate(p)
    BY <1>1 DEF CallActivate
  <2> DEFINE n == p + hdr[p].size
  <2>2. /\ pc = "idle" /\ hdr' = hdr /\ cell' = cell
        /\ phdr' = [phdr EXCEPT ![n] = hdr[n]]
        /\ pc' = "activate.begin" /\ fr'.clp = p
    BY <2>1 DEF Activate, NoFrame
  <2> HIDE DEF n
  <2>3. Live' = Live
    BY <2>2, SameSizesLive DEF AtomicOK, StepOK
  <2>4. p \in Live
    BY <2>2, RestingFacts DEF AtomicOK, CalmPcs
  <2>5. Busy' = Busy /\ \A q \in Busy : Kept(q)
    <3>1. \A q \in Busy : q \in Chunks
      BY BusyFacts DEF AtomicOK, StepOK
    <3>2. QED
      BY <2>2, <2>3, <3>1 DEF Busy, Kept, AtomicOK, StepOK, TypeInv, HeadersOK
  <2>6. Entries' /\ Stays
    BY <2>2, <2>5, QuietLists DEF AtomicOK, StepOK, ListInv, Entries
  <2>7. FrameLists'
    BY <2>2, <2>3, <2>4 DEF FrameLists, RunPcs, ClearPcs, OnePcs, ActivatePcs, FreePcs
  <2>8. QED
    BY <2>6, <2>7
<1>2. CASE ActivateBegin
  <2>1. /\ pc = "activate.begin" /\ Commit(fr.clp, InState(fr.clp, "ACTIVATING"), FALSE)
        /\ pc' = "activate.run" /\ fr' = [fr EXCEPT !.k = 1] /\ cell' = cell
    BY <1>2, Zenon DEF ActivateBegin
  <2>2. fr'.clp = fr.clp /\ fr'.k = 1
    BY <2>1, NumOnAssumption DEF AtomicOK, StepOK, TypeInv, FrameOK, Frame
  <2>3. fr.clp \in Live /\ hdr[fr.clp].state = "RESERVED" /\ fr.clp \in Busy /\ Synced(fr.clp)
    BY <2>1 DEF AtomicOK, ListInv, FrameLists, OnePcs, MediaInv, FrameStates, Busy, Mirrored, Behind,
       Dirty, RecoverPcs
  <2>4. Entries' /\ Live' = Live
    BY <2>1, <2>3, SetStateLists DEF InCall, States
  <2>5. \A i \in Slots : ~(i < 1)
    BY NumOnAssumption DEF Slots
  <2>6. QED
    BY <1>2, <2>1, <2>2, <2>3, <2>4, <2>5
    DEF FrameLists, RunPcs, ClearPcs, OnePcs, ActivatePcs, FreePcs
<1>3. CASE ActivateDone
  <2>1. /\ pc = "activate.done" /\ Commit(fr.clp, InState(fr.clp, "ACTIVE"), FALSE)
        /\ pc' = "idle" /\ cell' = cell
    BY <1>3, Zenon DEF ActivateDone, Return
  <2>2. fr.clp \in Busy /\ Cleared(fr.clp) /\ Completes(fr.clp, "ACTIVE")
    BY <2>1 DEF AtomicOK, ListInv, FrameLists, OnePcs, MediaInv, FrameStates, Busy, ActivatePcs,
       Completes
  <2>3. Entries' /\ Stays
    BY <2>1, <2>2, SetStateLists DEF InCall, States
  <2>4. QED
    BY <2>1, <2>3, FreeFrame DEF OnePcs, RunPcs, ClearPcs, ActivatePcs, FreePcs
<1>4. QED
  BY <1>1, <1>2, <1>3

LEMMA FreeLists ==
  ASSUME AtomicOK, CallFree \/ FreeBegin \/ FreeDone
  PROVE  Entries' /\ FrameLists' /\ (FreeBegin \/ Stays)
<1>1. fr.lazy = FALSE
  BY DEF AtomicOK, MediaInv, FrameStates, StepOK, TypeInv, FrameOK, Frame
<1>2. CASE CallFree
  <2>1. PICK p \in Known : Unlinks(p) /\ Free(p)
    BY <1>2 DEF CallFree
  <2>2. /\ pc = "idle" /\ fr'.clp = p /\ UNCHANGED <<hdr, phdr, cell>>
        /\ \/ hdr[p].state = "RESERVED" /\ pc' = "free.done"
           \/ hdr[p].state = "ACTIVE" /\ pc' = "free.begin"
    BY <2>1 DEF Free, image, NoFrame
  <2>3. Entries' /\ Stays /\ Live' = Live
    BY <2>2, SameEntries
  <2>4. p \in Live
    <3>1. CASE p \in handles
      BY <2>2, <3>1, RestingFacts DEF AtomicOK, CalmPcs
    <3>2. CASE p \notin handles
      BY <2>1, <3>2 DEF Known, AtomicOK, ListInv, Linked
    <3>3. QED
      BY <3>1, <3>2
  <2>5. Unlinks(p)'
    BY <2>1, <2>2 DEF Unlinks
  <2>6. QED
    BY <2>2, <2>3, <2>4, <2>5 DEF FrameLists, RunPcs, ClearPcs, OnePcs, ActivatePcs, FreePcs
<1>3. CASE FreeBegin
  <2>1. /\ pc = "free.begin" /\ Commit(fr.clp, InState(fr.clp, "FREEING"), FALSE)
        /\ pc' = "free.run" /\ fr' = [fr EXCEPT !.k = 1] /\ cell' = cell
    BY <1>1, <1>3, Zenon DEF FreeBegin
  <2>2. fr'.clp = fr.clp /\ fr'.k = 1
    BY <2>1, NumOnAssumption DEF AtomicOK, StepOK, TypeInv, FrameOK, Frame
  <2>3. fr.clp \in Live /\ hdr[fr.clp].state = "ACTIVE" /\ fr.clp \in Busy /\ Synced(fr.clp)
        /\ Unlinks(fr.clp)
    BY <2>1 DEF AtomicOK, ListInv, FrameLists, OnePcs, MediaInv, FrameStates, Busy, Mirrored, Behind,
       Dirty, RecoverPcs
  <2>4. \A c \in Roots : cell[c] = fr.clp => \E i \in Slots : hdr[fr.clp].on[i].off = c
    <3>1. \A c \in Roots : cell[c] = fr.clp =>
            \E i \in Slots : hdr[fr.clp].on[i] = [off |-> c, ptr |-> Null]
      BY <2>3 DEF Unlinks
    <3>2. \A c : [off |-> c, ptr |-> Null].off = c
      OBVIOUS
    <3>3. QED
      BY <3>1, <3>2
  <2>5. Entries' /\ Live' = Live
    BY <2>1, <2>3, <2>4, SetStateLists DEF InCall, States
  <2>6. \A i \in Slots : ~(i < 1)
    BY NumOnAssumption DEF Slots
  <2>7. QED
    BY <1>3, <2>1, <2>2, <2>3, <2>5, <2>6
    DEF FrameLists, RunPcs, ClearPcs, OnePcs, ActivatePcs, FreePcs
<1>4. CASE FreeDone
  <2>1. /\ pc = "free.done" /\ Commit(fr.clp, InState(fr.clp, "FREE"), FALSE)
        /\ pc' = "coalesce" /\ cell' = cell
    BY <1>1, <1>4, Zenon DEF FreeDone, StartCoalesce
  <2>2. /\ fr.clp \in Busy /\ fr.clp # Null /\ Linked
        /\ hdr[fr.clp].state = "RESERVED" \/ (hdr[fr.clp].state = "FREEING" /\ Cleared(fr.clp))
    BY <2>1, BusyFacts DEF AtomicOK, StepOK, ListInv, FrameLists, OnePcs, MediaInv, FrameStates, Busy,
       FreePcs
  <2>3. \A c \in Roots : cell[c] # fr.clp
    BY <2>2, Pointed, ChunkFacts DEF Cleared
  <2>4. Completes(fr.clp, "FREE")
    BY <2>2 DEF Completes
  <2>5. Entries' /\ Stays
    BY <2>1, <2>2, <2>3, <2>4, SetStateLists DEF InCall, States
  <2>6. QED
    BY <2>1, <2>5, FreeFrame DEF OnePcs, RunPcs, ClearPcs, ActivatePcs, FreePcs
<1>5. QED
  BY <1>2, <1>3, <1>4

LEMMA CoalesceLists ==
  ASSUME AtomicOK, CoalesceStep \/ CoalesceEnd
  PROVE  Entries' /\ FrameLists' /\ Stays
<1>1. /\ pc = "coalesce" /\ pc' \in {"coalesce", "idle"} /\ cell' = cell /\ fr.lazy = FALSE
  BY DEF CoalesceStep, CoalesceEnd, Return, AtomicOK, MediaInv, FrameStates, StepOK, TypeInv,
         FrameOK, Frame
<1>2. FrameLists'
  BY <1>1, FreeFrame DEF OnePcs, RunPcs, ClearPcs, ActivatePcs, FreePcs
<1>3. CASE UNCHANGED <<hdr, phdr>>
  BY <1>1, <1>2, <1>3, SameEntries
<1>4. CASE RunOfTwo /\ Merge(FALSE)
  <2>1. /\ Live' \subseteq Live
        /\ \A p \in Live : hdr[p].state # "FREE" => p \in Live' /\ hdr'[p] = hdr[p]
        /\ \A p \in Live' : hdr'[p].state = hdr[p].state
    BY <1>1, <1>4, MergeLive DEF AtomicOK
  <2>2. fr.first \in Chunks
    BY <1>1, <1>4 DEF AtomicOK, StepOK, ClumpInv, WalkInv, LiveShape, RunOfTwo
  <2>3. Through
    BY <1>4, <2>2, CommitThrough, Zenon DEF Merge, AtomicOK, StepOK
  <2>4. Busy' = Busy /\ \A p \in Busy : p \in Live /\ p \in Chunks /\ hdr[p].state # "FREE"
    BY <2>1 DEF Busy, AtomicOK, StepOK, LiveShape
  <2>5. \A p \in Busy : Kept(p)
    BY <2>1, <2>3, <2>4 DEF Kept, Through
  <2>6. Entries' /\ Stays
    BY <1>1, <2>4, <2>5, QuietLists DEF AtomicOK, StepOK, ListInv, Entries
  <2>7. QED
    BY <1>2, <2>6
<1>5. QED
  BY <1>1, <1>3, <1>4 DEF CoalesceStep, CoalesceEnd, Merge

LEMMA ReserveLists ==
  ASSUME AtomicOK,
         CallReserve \/ ReserveScan \/ ReserveSplit \/ ReserveClear \/ ReserveClaim
  PROVE  Entries' /\ FrameLists' /\ Stays
<1>1. CASE CallReserve \/ ReserveScan
  <2>1. /\ UNCHANGED <<hdr, phdr, cell>>
        /\ pc' \in {"down", "idle", "reserve.scan", "reserve.split", "reserve.clear"}
    BY <1>1 DEF CallReserve, Reserve, Fatal, ProcessGone, ReserveScan, Return, image
  <2>2. QED
    BY <2>1, SameEntries, FreeFrame DEF OnePcs, RunPcs, ClearPcs, ActivatePcs, FreePcs
<1>2. CASE ReserveSplit
  <2> DEFINE q == fr.clp + fr.nsize
             z == [Zeroed EXCEPT !.size = hdr[fr.clp].size - fr.nsize]
  <2>1. pc = "reserve.split" /\ Commit(q, z, FALSE) /\ pc' = "reserve.clear" /\ cell' = cell
    BY <1>2, Zenon DEF ReserveSplit
  <2>2. q \in Chunks /\ q \notin Live /\ Live' = Live
    BY <1>2, <2>1, SplitChunk, SplitLive DEF AtomicOK
  <2> HIDE DEF q, z
  <2>3. \A p \in Chunks : p # q => hdr'[p] = hdr[p] /\ phdr'[p] = phdr[p]
    BY <2>1, <2>2, CommitBoth DEF AtomicOK, StepOK
  <2>4. Busy' = Busy /\ \A p \in Busy : Kept(p)
    BY <2>2, <2>3 DEF Busy, Kept, AtomicOK, StepOK, LiveShape
  <2>5. Entries' /\ Stays
    BY <2>1, <2>4, QuietLists DEF AtomicOK, StepOK, ListInv, Entries
  <2>6. QED
    BY <2>1, <2>5, FreeFrame DEF OnePcs, RunPcs, ClearPcs, ActivatePcs, FreePcs
<1>3. CASE ReserveClear
  <2> DEFINE z == [hdr[fr.clp] EXCEPT !.on = Zeroed.on]
  <2>1. /\ pc = "reserve.clear" /\ Commit(fr.clp, z, FALSE) /\ pc' = "reserve.claim"
        /\ cell' = cell /\ fr' = fr
    BY <1>3, Zenon DEF ReserveClear
  <2>2. fr.clp \in Chunks /\ hdr[fr.clp].state = "FREE"
    BY <2>1 DEF AtomicOK, StepOK, ClumpInv, WalkInv, SplitPcs, LiveShape
  <2>3. z.size = hdr[fr.clp].size /\ z.state = hdr[fr.clp].state /\ z.on = Zeroed.on
    BY <2>2 DEF AtomicOK, StepOK, TypeInv, HeadersOK, Header
  <2> HIDE DEF z
  <2>4. /\ hdr'[fr.clp] = z
        /\ \A p \in Chunks : p # fr.clp => hdr'[p] = hdr[p] /\ phdr'[p] = phdr[p]
    BY <2>1, <2>2, CommitBoth DEF AtomicOK, StepOK
  <2>5. SameHeaders
    BY <2>1, <2>2, <2>3, CommitSameHeaders DEF AtomicOK, StepOK
  <2>6. Live' = Live
    BY <2>5, SameHeadersLive DEF AtomicOK
  <2>7. Busy' = Busy
    BY <2>5, <2>6 DEF Busy, SameHeaders, AtomicOK, StepOK, LiveShape
  <2>8. \A p \in Busy : Kept(p)
    BY <2>2, <2>4, <2>5 DEF Busy, Kept, AtomicOK, StepOK, LiveShape
  <2>9. Entries' /\ Stays
    BY <2>1, <2>7, <2>8, QuietLists DEF AtomicOK, StepOK, ListInv, Entries
  <2>10. Cleared(fr.clp)'
    BY <2>1, <2>3, <2>4 DEF Cleared, Zeroed
  <2>11. FrameLists'
    BY <2>1, <2>10 DEF FrameLists, RunPcs, ClearPcs, OnePcs, ActivatePcs, FreePcs
  <2>12. QED
    BY <2>9, <2>11
<1>4. CASE ReserveClaim
  <2> DEFINE z == [hdr[fr.clp] EXCEPT !.size = fr.csize, !.state = "RESERVED"]
  <2>1. pc = "reserve.claim" /\ pc' = "idle" /\ Commit(fr.clp, z, FALSE) /\ cell' = cell
    BY <1>4, Zenon DEF ReserveClaim, Return
  <2>2. PICK x \in Live : x = fr.clp
    BY <2>1 DEF AtomicOK, StepOK, ClumpInv, WalkInv, SplitPcs
  <2>3. x \in Chunks /\ hdr[x].state = "FREE" /\ x # Null /\ Cleared(x)
    BY <2>1, <2>2, ChunkFacts DEF AtomicOK, StepOK, ClumpInv, WalkInv, SplitPcs, LiveShape, ListInv,
       FrameLists
  <2>4. z.state = "RESERVED" /\ z.on = hdr[x].on
    BY <2>2, <2>3 DEF AtomicOK, StepOK, TypeInv, HeadersOK, Header
  <2> HIDE DEF z
  <2>5. /\ hdr'[x] = z /\ phdr'[x] = z
        /\ \A p \in Chunks : p # x => hdr'[p] = hdr[p] /\ phdr'[p] = phdr[p]
    BY <2>1, <2>2, <2>3, CommitBoth DEF AtomicOK, StepOK
  <2>6. Live \subseteq Live' /\ \A p \in Live' \ Live : hdr'[p].state = "FREE"
    BY <1>4, ClaimLive DEF AtomicOK
  <2>7. \A p : p # x => (p \in Busy' <=> p \in Busy) /\ (p \in Busy => Kept(p))
    <3>1. \A p \in Live : p \in Chunks
      BY DEF AtomicOK, StepOK, LiveShape
    <3>2. QED
      BY <2>5, <2>6, <3>1 DEF Busy, Kept
  <2>8. /\ hdr'[x].state = "RESERVED"
        /\ \A i \in Slots : /\ hdr'[x].on[i].off = None /\ phdr'[x].on[i].off = None
                            /\ hdr'[x].on[i].ptr = phdr'[x].on[i].ptr
    BY <2>3, <2>4, <2>5 DEF Cleared
  <2>9. ListOK(x)'
    BY <2>8 DEF ListOK, Filled, EntryOK
  <2>10. \A c \in Roots : cell[c] # x
    BY <2>3, Pointed DEF AtomicOK, ListInv
  <2>11. Lists /\ Exclusive /\ Linked
    BY DEF AtomicOK, ListInv
  <2>12. Entries'
    BY <2>1, <2>7, <2>8, <2>9, <2>10, <2>11, ListStep DEF Entries
  <2>13. Stays
    <3>1. x \notin Used /\ x \notin Used' /\ \A c : ~Named(x, c) /\ ~Named(x, c)'
      BY <2>3, <2>8 DEF Used, Named, HalfwayStates
    <3>2. \A c \in Roots : cell'[c] = cell[c]
      BY <2>1
    <3>3. QED
      BY <2>7, <2>11, <3>1, <3>2, StaysStep
  <2>14. QED
    BY <2>1, <2>12, <2>13, FreeFrame DEF OnePcs, RunPcs, ClearPcs, ActivatePcs, FreePcs
<1>5. QED
  BY <1>1, <1>2, <1>3, <1>4

LEMMA CrashLists ==
  ASSUME AtomicOK, ~CrashInCreate, Crash
  PROVE  Entries' /\ FrameLists' /\ Stays
<1>1. pc' = "down"
  BY DEF Crash, Exit, PowerFail, ProcessGone
<1>2. FrameLists'
  BY <1>1, FreeFrame DEF OnePcs, RunPcs, ClearPcs, ActivatePcs, FreePcs
<1>3. CASE Exit
  BY <1>2, <1>3, SameEntries DEF Exit, image
<1>4. CASE PowerFail
  <2>1. hdr' = phdr /\ phdr' = phdr /\ cell' = pcell /\ pc # "fsync"
    BY <1>4 DEF PowerFail
  <2>2. Live' = Live
    BY <2>1, KeptIsLive DEF Live, AtomicOK, StepOK
  <2>3. \A p \in Live : hdr'[p].state = hdr[p].state /\ hdr'[p].size = hdr[p].size
    BY <2>1 DEF AtomicOK, MediaInv, Mirrored, Synced, Behind
  <2>4. Busy' = Busy /\ \A p \in Busy : Kept(p)
    BY <2>1, <2>2, <2>3 DEF Busy, Kept
  <2>5. \A c \in Roots : cell'[c] = cell[c]
    BY <2>1 DEF AtomicOK, MediaInv, RootsSynced
  <2>6. QED
    BY <1>2, <2>4, <2>5, QuietLists DEF AtomicOK, StepOK, ListInv, Entries
<1>5. QED
  BY <1>3, <1>4 DEF Crash

\* Between calls a root that some list names is the one the list is about: it is
\* null for a reserved block, and points at an active one.
LEMMA NamedRoot ==
  ASSUME AtomicOK, pc = "idle", NEW q \in Busy, NEW i \in Slots, phdr[q].on[i].off # None
  PROVE  /\ phdr[q].on[i].off \in Roots
         /\ \/ hdr[q].state = "RESERVED" /\ q \in handles /\ cell[phdr[q].on[i].off] = Null
            \/ hdr[q].state = "ACTIVE" /\ cell[phdr[q].on[i].off] = q
         /\ hdr[q].on[i].off = phdr[q].on[i].off
<1>1. \/ hdr[q].state = "RESERVED" /\ q \in handles
      \/ hdr[q].state = "ACTIVE"
  BY RestingFacts DEF AtomicOK, CalmPcs, Busy
<1>2. EntryOK(q, i)
  BY DEF AtomicOK, ListInv, Lists, ListOK
<1>3. phdr[q] = hdr[q]
  BY DEF AtomicOK, MediaInv, Mirrored, Synced, Behind, Dirty, RecoverPcs, Busy
<1>4. QED
  BY <1>1, <1>2, <1>3 DEF EntryOK

\* A list in which one unused entry has a new pointer, or an entry a call was
\* filling in counts: the clump is x, its line is on the media before and after.
LEMMA StoredList ==
  ASSUME NEW x, ListOK(x), NEW k \in Slots, Slots \subseteq Int, cell' = cell,
         phdr[x].on = hdr[x].on, phdr'[x].on = hdr'[x].on, hdr'[x].state = hdr[x].state,
         \A j \in Slots \ {k} : /\ hdr'[x].on[j].off = hdr[x].on[j].off
                                /\ hdr'[x].on[j].ptr = hdr[x].on[j].ptr,
         hdr[x].on[k].off = None,
         \/ hdr'[x].on[k].off = None
         \/ /\ hdr'[x].on[k].off \in Roots /\ hdr'[x].on[k].ptr = Target(x)
            /\ \/ hdr[x].state = "RESERVED" /\ cell[hdr'[x].on[k].off] = Null
               \/ hdr[x].state = "ACTIVE" /\ cell[hdr'[x].on[k].off] = x
            /\ \A j \in Slots : j < k => hdr[x].on[j].off # None
  PROVE  ListOK(x)'
<1>1. Target(x)' = Target(x)
  BY DEF Target
<1>2. ASSUME NEW i \in Slots PROVE EntryOK(x, i)'
  <2>1. EntryOK(x, i)
    BY DEF ListOK
  <2>2. CASE i # k
    BY <1>1, <2>1, <2>2 DEF EntryOK
  <2>3. CASE i = k
    BY <1>1, <2>3, ChunkFacts DEF EntryOK, HalfwayStates
  <2>4. QED
    BY <2>2, <2>3
<1>3. Filled(hdr'[x].on)
  <2>1. SUFFICES ASSUME NEW i \in Slots, NEW j \in Slots, j < i, hdr'[x].on[i].off # None
                 PROVE  hdr'[x].on[j].off # None
    BY DEF Filled
  <2>2. CASE i = k
    BY <2>1, <2>2
  <2>3. CASE i # k
    <3>1. hdr[x].on[i].off # None
      BY <2>1, <2>3
    <3>2. hdr[x].on[j].off # None
      BY <2>1, <3>1 DEF ListOK, Filled
    <3>3. j # k
      BY <3>2
    <3>4. QED
      BY <3>2, <3>3
  <2>4. QED
    BY <2>2, <2>3
<1>4. QED
  BY <1>2, <1>3 DEF ListOK

\* The first of the two stores of pmemalloc_onactive and pmemalloc_onfree.
LEMMA PutPtrLists ==
  ASSUME AtomicOK, pc = "idle", NEW p \in Live, NEW c \in Roots, NEW v,
         NEW next \in {"onactive.off", "onfree.off"}, PutPtr(p, c, v, FALSE, next),
         \/ /\ next = "onactive.off" /\ hdr[p].state = "RESERVED" /\ v = p
            /\ cell[c] = Null /\ ~Awaited(c)
         \/ /\ next = "onfree.off" /\ hdr[p].state = "ACTIVE" /\ v = Null /\ cell[c] = p
  PROVE  Entries' /\ FrameLists' /\ Stays
<1>1. /\ p \in Chunks /\ p # Null /\ p \in Busy /\ ListOK(p) /\ Synced(p) /\ cell' = cell
      /\ Lists /\ Exclusive /\ Linked
  BY BusyFacts DEF AtomicOK, StepOK, Busy, ListInv, Lists, MediaInv, Mirrored, Behind, Dirty,
     RecoverPcs, PutPtr, Fatal, image
<1>2. CASE FreeSlots(p) = {}
  <2>1. UNCHANGED <<hdr, phdr, cell>> /\ pc' = "down"
    BY <1>2 DEF PutPtr, Fatal, ProcessGone, image
  <2>2. QED
    BY <2>1, SameEntries, FreeFrame DEF OnePcs, RunPcs, ClearPcs, ActivatePcs, FreePcs
<1>3. CASE FreeSlots(p) # {}
  <2>1. PICK k \in FreeSlots(p) :
          /\ \A j \in FreeSlots(p) : k <= j
          /\ Commit(p, WithPtr(p, k, v), FALSE) /\ pc' = next
          /\ fr' = [NoFrame EXCEPT !.clp = p, !.k = k, !.dest = c]
    BY <1>3 DEF PutPtr
  <2>2. k \in Slots /\ hdr[p].on[k].off = None /\ Slots \subseteq Int
        /\ fr'.clp = p /\ fr'.k = k /\ fr'.dest = c
    BY <2>1 DEF FreeSlots, NoFrame, Slots
  <2> DEFINE z == WithPtr(p, k, v)
  <2>3. /\ z.size = hdr[p].size /\ z.state = hdr[p].state
        /\ \A j \in Slots : /\ z.on[j].ptr = IF j = k THEN v ELSE hdr[p].on[j].ptr
                            /\ z.on[j].off = hdr[p].on[j].off
    <3>1. v \in Ptrs /\ 0 \in Ptrs
      BY <1>1, NAssumption DEF Chunks, Ptrs, Null
    <3>2. QED
      BY <1>1, <2>2, <3>1, WithType, WithState, WithEntries DEF AtomicOK, StepOK, TypeInv
  <2>4. Commit(p, z, FALSE)
    BY <2>1
  <2> HIDE DEF z
  <2>5. /\ hdr'[p] = z /\ phdr'[p] = z
        /\ \A q \in Chunks : q # p => hdr'[q] = hdr[q] /\ phdr'[q] = phdr[q]
    BY <1>1, <2>4, CommitBoth DEF AtomicOK, StepOK
  <2>6. Live' = Live
    BY <1>1, <2>3, <2>4, CommitSameHeaders, SameHeadersLive DEF AtomicOK, StepOK
  <2>7. Busy' = Busy /\ \A q \in Busy : q # p => Kept(q)
    BY <1>1, <2>3, <2>5, <2>6, BusyFacts DEF Busy, Kept, AtomicOK, StepOK
  <2>8. ListOK(p)'
    BY <1>1, <2>2, <2>3, <2>5, StoredList DEF Synced
  <2>9. Entries'
    <3>1. \A i \in Slots : phdr'[p].on[i].off # None =>
            \A q \in Busy \ {p}, j \in Slots : phdr[q].on[j].off # phdr'[p].on[i].off
      BY <1>1, <2>3, <2>5, OneLister DEF Synced
    <3>2. \A d \in Roots : cell'[d] = p => hdr'[p].state \in {"ACTIVATING", "ACTIVE"}
      BY <1>1, <2>3, <2>5, Pointed
    <3>3. p \in Busy' /\ \A d \in Roots : cell'[d] = cell[d]
      BY <1>1, <2>7
    <3>4. QED
      BY <1>1, <2>7, <2>8, <3>1, <3>2, <3>3, ListStep DEF Entries
  <2>10. Filling'
    <3>1. Target(p)' = v /\ hdr'[p].on[k].ptr = v /\ hdr'[p].on[k].off = None
      BY <2>2, <2>3, <2>5 DEF Target
    <3>2. \A j \in Slots : j < k => hdr'[p].on[j].off # None
      BY <2>1, <2>2, <2>3, <2>5 DEF FreeSlots
    <3>3. cell'[c] = IF pc' = "onactive.off" THEN Null ELSE p
      BY <1>1, <2>1
    <3>4. ASSUME NEW q \in Busy, q # p, NEW i \in Slots, phdr'[q].on[i].off = c
          PROVE  FALSE
      <4>1. phdr[q].on[i].off = c /\ c # None
        BY <2>5, <3>4, BusyFacts, ChunkFacts DEF AtomicOK, StepOK
      <4>2. /\ \/ hdr[q].state = "RESERVED" /\ q \in handles /\ cell[c] = Null
               \/ cell[c] = q
            /\ hdr[q].on[i].off = c /\ q # Null
        BY <3>4, <4>1, NamedRoot, BusyFacts DEF AtomicOK, StepOK
      <4>3. QED
        BY <1>1, <3>4, <4>2 DEF Awaited
    <3>5. QED
      BY <2>2, <2>7, <3>1, <3>2, <3>3, <3>4 DEF Filling
  <2>11. FrameLists'
    BY <2>1, <2>2, <2>6, <2>10 DEF FrameLists, RunPcs, ClearPcs, OnePcs, ActivatePcs, FreePcs
  <2>12. Stays
    <3>1. /\ (p \in Used' <=> p \in Used) /\ hdr'[p].size = hdr[p].size
          /\ \A d : ~Named(p, d) /\ ~Named(p, d)'
      BY <2>3, <2>5, <2>6 DEF Used, Named, HalfwayStates
    <3>2. \A d \in Roots : cell'[d] = cell[d]
      BY <1>1
    <3>3. QED
      BY <1>1, <2>7, <3>1, <3>2, StaysStep
  <2>13. QED
    BY <2>9, <2>11, <2>12
<1>4. QED
  BY <1>2, <1>3

\* The second: the entry counts.
LEMMA PutOffLists ==
  ASSUME AtomicOK, NEW here \in {"onactive.off", "onfree.off"}, PutOff(here)
  PROVE  Entries' /\ FrameLists' /\ Stays
<1>1. /\ pc = here /\ Commit(fr.clp, WithOff(fr.clp, fr.k, fr.dest), FALSE) /\ pc' = "idle"
      /\ cell' = cell
  BY Zenon DEF PutOff, Return
<1>2. PICK p \in Live, k \in Slots, c \in Roots : p = fr.clp /\ k = fr.k /\ c = fr.dest
  <2>1. fr.clp \in Live /\ fr.k \in Slots
    BY <1>1 DEF AtomicOK, StepOK, TypeInv, FrameOK, ListInv, FrameLists, OnePcs
  <2>2. fr.dest \in Roots
    BY <1>1 DEF AtomicOK, ListInv, FrameLists, Filling
  <2>3. QED
    BY <2>1, <2>2
<1>3. /\ p \in Chunks /\ p # Null /\ Lists /\ Exclusive /\ Linked
      /\ hdr[p].state = IF here = "onactive.off" THEN "RESERVED" ELSE "ACTIVE"
  BY <1>1, <1>2, BusyFacts DEF AtomicOK, StepOK, ListInv, MediaInv, FrameStates
<1>4. p \in Busy /\ ListOK(p) /\ Synced(p) /\ Slots \subseteq Int
  BY <1>1, <1>3 DEF Busy, Lists, AtomicOK, MediaInv, Mirrored, Behind, Dirty, RecoverPcs, Slots
<1>5. /\ hdr[p].on[k].off = None /\ hdr[p].on[k].ptr = Target(p)
      /\ \A j \in Slots : j < k => hdr[p].on[j].off # None
      /\ cell[c] = IF here = "onactive.off" THEN Null ELSE p
      /\ \A q \in Busy \ {p}, i \in Slots : phdr[q].on[i].off # c
  BY <1>1, <1>2 DEF AtomicOK, ListInv, FrameLists, Filling
<1> DEFINE z == WithOff(p, k, c)
<1>6. /\ z.size = hdr[p].size /\ z.state = hdr[p].state
      /\ \A j \in Slots : /\ z.on[j].off = IF j = k THEN c ELSE hdr[p].on[j].off
                          /\ z.on[j].ptr = hdr[p].on[j].ptr
  <2>1. c \in Cells \cup {None} /\ 0 \in Ptrs
    BY NAssumption, ChunkFacts DEF Ptrs
  <2>2. QED
    BY <1>3, <2>1, WithType, WithState, WithEntries DEF AtomicOK, StepOK, TypeInv
<1>7. Commit(p, z, FALSE)
  BY <1>1, <1>2
<1> HIDE DEF z
<1>8. /\ hdr'[p] = z /\ phdr'[p] = z
      /\ \A q \in Chunks : q # p => hdr'[q] = hdr[q] /\ phdr'[q] = phdr[q]
  BY <1>3, <1>7, CommitBoth DEF AtomicOK, StepOK
<1>9. Live' = Live
  BY <1>3, <1>6, <1>7, CommitSameHeaders, SameHeadersLive DEF AtomicOK, StepOK
<1>10. Busy' = Busy /\ \A q \in Busy : q # p => Kept(q)
  BY <1>3, <1>6, <1>8, <1>9, BusyFacts DEF Busy, Kept, AtomicOK, StepOK
<1>11. /\ phdr[p].on = hdr[p].on /\ phdr'[p].on = hdr'[p].on /\ hdr'[p].state = hdr[p].state
       /\ \A j \in Slots : /\ hdr'[p].on[j].off = IF j = k THEN c ELSE hdr[p].on[j].off
                           /\ hdr'[p].on[j].ptr = hdr[p].on[j].ptr
  BY <1>4, <1>6, <1>8 DEF Synced
<1>12. \/ hdr[p].state = "RESERVED" /\ cell[c] = Null
       \/ hdr[p].state = "ACTIVE" /\ cell[c] = p
  BY <1>3, <1>5
<1>13. ListOK(p)'
  <2>1. /\ \A j \in Slots \ {k} : /\ hdr'[p].on[j].off = hdr[p].on[j].off
                                  /\ hdr'[p].on[j].ptr = hdr[p].on[j].ptr
        /\ hdr'[p].on[k].off = c /\ hdr'[p].on[k].ptr = Target(p)
    BY <1>5, <1>11
  <2>2. /\ hdr'[p].on[k].off \in Roots /\ hdr'[p].on[k].ptr = Target(p)
        /\ \/ hdr[p].state = "RESERVED" /\ cell[hdr'[p].on[k].off] = Null
           \/ hdr[p].state = "ACTIVE" /\ cell[hdr'[p].on[k].off] = p
    BY <1>12, <2>1
  <2>3. /\ phdr[p].on = hdr[p].on /\ phdr'[p].on = hdr'[p].on /\ hdr'[p].state = hdr[p].state
        /\ hdr[p].on[k].off = None /\ Slots \subseteq Int /\ cell' = cell /\ ListOK(p)
        /\ \A j \in Slots : j < k => hdr[p].on[j].off # None
    BY <1>1, <1>4, <1>5, <1>11
  <2>4. QED
    BY <2>1, <2>2, <2>3, StoredList, Zenon
<1>14. \A i \in Slots : phdr'[p].on[i].off # None =>
         \A q \in Busy \ {p}, j \in Slots : phdr[q].on[j].off # phdr'[p].on[i].off
  <2>1. SUFFICES ASSUME NEW i \in Slots, phdr'[p].on[i].off # None,
                        NEW q \in Busy, q # p, NEW j \in Slots
                 PROVE  phdr[q].on[j].off # phdr'[p].on[i].off
    OBVIOUS
  <2>2. CASE i = k
    BY <1>5, <1>11, <2>1, <2>2
  <2>3. CASE i # k
    <3>1. phdr'[p].on[i].off = phdr[p].on[i].off
      BY <1>11, <2>3
    <3>2. QED
      BY <1>3, <1>4, <2>1, <3>1, OneLister
  <2>4. QED
    BY <2>2, <2>3
<1>15. \A d \in Roots : cell'[d] = p => hdr'[p].state \in {"ACTIVATING", "ACTIVE"}
  BY <1>1, <1>3, <1>11, Pointed
<1>16. p \in Busy' /\ \A d \in Roots : cell'[d] = cell[d]
  BY <1>1, <1>4, <1>10
<1>17. Entries'
  BY <1>3, <1>10, <1>13, <1>14, <1>15, <1>16, ListStep DEF Entries
<1>18. Stays
  <2>1. /\ (p \in Used' <=> p \in Used) /\ hdr'[p].size = hdr[p].size
        /\ \A d : ~Named(p, d) /\ ~Named(p, d)'
    BY <1>3, <1>6, <1>8, <1>9 DEF Used, Named, HalfwayStates
  <2>2. QED
    BY <1>3, <1>10, <1>16, <2>1, StaysStep
<1>19. QED
  BY <1>1, <1>17, <1>18, FreeFrame DEF OnePcs, RunPcs, ClearPcs, ActivatePcs, FreePcs

LEMMA OnListLists ==
  ASSUME AtomicOK, ~NoDataPersist, CallOnActive \/ CallOnFree \/ OnActiveOff \/ OnFreeOff
  PROVE  Entries' /\ FrameLists' /\ Stays
<1>1. CASE CallOnActive
  <2>1. PICK p \in handles, c \in Roots : cell[c] = Null /\ ~Awaited(c) /\ OnActive(p, c, p)
    BY <1>1 DEF CallOnActive
  <2>2. pc = "idle" /\ hdr[p].state = "RESERVED" /\ PutPtr(p, c, p, FALSE, "onactive.off")
    BY <2>1 DEF OnActive
  <2>3. p \in Live
    BY <2>2, RestingFacts DEF AtomicOK, CalmPcs
  <2>4. QED
    BY <2>1, <2>2, <2>3, PutPtrLists
<1>2. CASE CallOnFree
  <2>1. PICK p \in Known, c \in Roots : cell[c] = p /\ OnFree(p, c, Null)
    BY <1>2 DEF CallOnFree
  <2>2. pc = "idle" /\ hdr[p].state = "ACTIVE" /\ PutPtr(p, c, Null, FALSE, "onfree.off")
    BY <2>1, EagerNow DEF OnFree
  <2>3. p \in Live
    BY <2>1 DEF Known, AtomicOK, ListInv, Linked
  <2>4. QED
    BY <2>1, <2>2, <2>3, PutPtrLists
<1>3. QED
  BY <1>1, <1>2, PutOffLists DEF OnActiveOff, OnFreeOff

LEMMA EnvironmentLists ==
  ASSUME AtomicOK, CallFill \/ Evict \/ Epoch \/ UNCHANGED vars
  PROVE  Entries' /\ FrameLists' /\ Stays
<1>1. /\ hdr' = hdr /\ UNCHANGED <<pc, fr>>
      /\ \A q \in Chunks : phdr'[q] = phdr[q] \/ phdr'[q] = hdr[q]
  <2>1. ASSUME NEW p \in Chunks, EvictHdr(p)
        PROVE  \A q \in Chunks : phdr'[q] = phdr[q] \/ phdr'[q] = hdr[q]
    BY <2>1 DEF EvictHdr, AtomicOK, StepOK, TypeInv, HeadersOK
  <2>2. ~(\E p \in Chunks : EvictHdr(p)) => phdr' = phdr
    BY DEF CallFill, Fill, Evict, EvictCell, Epoch, image, vars
  <2>3. hdr' = hdr /\ UNCHANGED <<pc, fr>>
    BY DEF CallFill, Fill, Evict, EvictHdr, EvictCell, Epoch, image, vars
  <2>4. QED
    BY <2>1, <2>2, <2>3
<1>2. \A c \in Roots : cell'[c] = cell[c]
  <2>1. CASE CallFill
    <3>1. PICK c \in Cells : \E v : Fill(c, v)
      BY <2>1 DEF CallFill
    <3>2. PICK p \in handles : c \in BodyCells(p)
      BY <3>1 DEF Fill
    <3>3. c \notin Roots
      <4>1. p \in Nat /\ p >= 1 /\ p < At[c]
        BY <3>2 DEF BodyCells, AtomicOK, StepOK, TypeInv, RestOK, Chunks
      <4>2. QED
        BY <4>1 DEF Roots
    <3>4. \E v : cell' = [cell EXCEPT ![c] = v]
      BY <3>1 DEF Fill
    <3>5. QED
      BY <3>3, <3>4, ChunkFacts DEF AtomicOK, StepOK, TypeInv, CellsOK
  <2>2. CASE ~CallFill
    BY <2>2 DEF Evict, EvictHdr, EvictCell, Epoch, image, vars
  <2>3. QED
    BY <2>1, <2>2
<1>3. Live' = Live
  BY <1>1, SameSizesLive DEF AtomicOK, StepOK
<1>4. Busy' = Busy /\ \A p \in Busy : p \in Chunks /\ Kept(p)
  BY <1>1, <1>3, BusyFacts DEF Busy, Kept, AtomicOK, StepOK
<1>5. Entries' /\ Stays
  BY <1>2, <1>4, QuietLists DEF AtomicOK, StepOK, ListInv, Entries
<1>6. FrameLists'
  <2>1. ASSUME Filling PROVE Filling'
    <3>1. ASSUME NEW q \in Busy, q # fr.clp, NEW i \in Slots PROVE phdr'[q].on[i].off # fr.dest
      <4>1. phdr[q].on[i].off # fr.dest /\ fr.dest # None
        BY <2>1, <3>1, ChunkFacts DEF Filling
      <4>2. CASE phdr'[q].on[i].off = None
        BY <4>1, <4>2
      <4>3. CASE phdr'[q].on[i].off # None
        BY <1>4, <4>1, <4>3, NamesKept DEF AtomicOK, ListInv, Lists
      <4>4. QED
        BY <4>2, <4>3
    <3>2. QED
      BY <1>1, <1>2, <1>4, <2>1, <3>1 DEF Filling, Target
  <2>2. \A p \in Busy : \A i \in Slots : Done(p, i) => Done(p, i)'
    <3>1. SUFFICES ASSUME NEW p \in Busy, NEW i \in Slots, hdr[p].on[i].off # None
                   PROVE  hdr[p].on[i].off \in Roots
      BY <1>1, <1>2 DEF Done, Target
    <3>2. QED
      BY <3>1 DEF AtomicOK, ListInv, Lists, ListOK, EntryOK
  <2>3. Unlinks(fr.clp) => Unlinks(fr.clp)'
    BY <1>1, <1>2 DEF Unlinks
  <2>4. Cleared(fr.clp) => Cleared(fr.clp)'
    BY <1>1 DEF Cleared
  <2>5. pc \in RunPcs \cup ClearPcs => fr.clp \in Busy
    BY LoopClump
  <2>6. FrameLists
    BY DEF AtomicOK, ListInv
  <2>7. QED
    BY <1>1, <1>3, <2>1, <2>2, <2>3, <2>4, <2>5, <2>6 DEF FrameLists, RunPcs, ClearPcs
<1>7. QED
  BY <1>5, <1>6

\* A file, once it exists, is not lost: none dies while it is created.
LEMMA CreationStep ==
  ASSUME AtomicOK, ~CrashInCreate, [Next]_vars
  PROVE  Creation'
<1>1. Creation
  BY DEF AtomicOK, ListInv
<1>2. ASSUME UNCHANGED <<hdr, phdr, cell, pcell, file>>, pc' \in {pc, "down"}
      PROVE  Creation'
  BY <1>1, <1>2 DEF Creation
<1>3. ASSUME file, file' = file, pc' \notin {"create", "fsync"}
      PROVE  Creation'
  BY <1>3 DEF Creation
<1>4. CASE Start
  <2>1. CASE Create
    BY <2>1 DEF Create, Creation, Zeroed
  <2>2. CASE Open
    BY <1>3, <2>2 DEF Open, StartRecover
  <2>3. QED
    BY <1>4, <2>1, <2>2 DEF Start
<1>5. CASE CreateClump
  <2>1. /\ pc = "create" /\ file /\ file' = file /\ phdr' = phdr /\ cell' = cell /\ pc' = "fsync"
        /\ hdr' = [hdr EXCEPT ![1] = [Zeroed EXCEPT !.size = N - 1]]
    BY <1>1, <1>5 DEF CreateClump, Creation, env
  <2>2. [Zeroed EXCEPT !.size = N - 1].state = "FREE"
    BY DEF Zeroed
  <2>3. QED
    BY <1>1, <2>1, <2>2 DEF Creation, AtomicOK, StepOK, TypeInv, HeadersOK
<1>6. pc # "down" => file
  BY <1>1 DEF Creation, AtomicOK, StepOK, TypeInv, RestOK
<1>7. CASE Step
  <2>1. CASE CreateSync \/ RecoverClump \/ RecoverRun \/ RecoverClear \/ RecoverDone
    BY <1>3, <1>6, <2>1
    DEF CreateSync, StartRecover, RecoverClump, StartCoalesce, RecoverRun, RunOn, RecoverClear,
        ClearOn, RecoverDone, env
  <2>2. CASE \/ CoalesceStep \/ CoalesceEnd
             \/ ReserveScan \/ ReserveSplit \/ ReserveClear \/ ReserveClaim
    BY <1>3, <1>6, <2>2
    DEF CoalesceStep, CoalesceEnd, Return, ReserveScan, ReserveSplit, ReserveClear, ReserveClaim,
        env
  <2>3. CASE \/ OnActiveOff \/ OnFreeOff
             \/ ActivateBegin \/ ActivateRun \/ ActivateClear \/ ActivateDone
             \/ FreeBegin \/ FreeRun \/ FreeClear \/ FreeDone
    BY <1>3, <1>6, <2>3
    DEF OnActiveOff, OnFreeOff, PutOff, Return, ActivateBegin, ActivateRun, RunOn, ActivateClear,
        ClearOn, ActivateDone, FreeBegin, FreeRun, FreeClear, FreeDone, StartCoalesce, env
  <2>4. QED
    BY <1>5, <1>7, <2>1, <2>2, <2>3 DEF Step
<1>8. CASE Call
  <2>1. CASE CallReserve \/ CallFill \/ CallActivate \/ CallFree
    BY <1>3, <1>6, <2>1
    DEF CallReserve, Reserve, Fatal, ProcessGone, CallFill, Fill, CallActivate, Activate, CallFree,
        Free, env
  <2>2. CASE CallOnActive \/ CallOnFree
    BY <1>3, <1>6, <2>2
    DEF CallOnActive, OnActive, CallOnFree, OnFree, PutPtr, Fatal, ProcessGone, env
  <2>3. QED
    BY <1>8, <2>1, <2>2 DEF Call
<1>9. CASE Crash
  <2>1. CASE Exit
    BY <1>2, <2>1 DEF Exit, ProcessGone, image, env
  <2>2. CASE PowerFail
    <3>1. hdr' = phdr /\ cell' = pcell /\ phdr' = phdr /\ pcell' = pcell /\ file' = file
          /\ pc' = "down"
      BY <2>2 DEF PowerFail, ProcessGone
    <3>2. QED
      BY <1>1, <3>1 DEF Creation
  <2>3. QED
    BY <1>9, <2>1, <2>2 DEF Crash
<1>10. CASE Evict
  <2>1. ASSUME NEW p \in Chunks, EvictHdr(p)
        PROVE  Creation'
    <3>1. /\ phdr' = [phdr EXCEPT ![p] = hdr[p]] /\ hdr' = hdr /\ cell' = cell /\ pc' = pc
          /\ file' = file /\ phdr # hdr
      BY <2>1 DEF EvictHdr, env
    <3>2. file
      BY <1>1, <3>1 DEF Creation, AtomicOK, StepOK, TypeInv, RestOK
    <3>3. QED
      BY <1>1, <3>1, <3>2 DEF Creation, AtomicOK, StepOK, TypeInv, HeadersOK
  <2>2. ASSUME NEW c \in Cells, EvictCell(c)
        PROVE  Creation'
    <3>1. hdr' = hdr /\ phdr' = phdr /\ cell' = cell /\ pc' = pc /\ file' = file /\ pcell # cell
      BY <2>2 DEF EvictCell, env
    <3>2. file
      BY <1>1, <3>1 DEF Creation, AtomicOK, StepOK, TypeInv, RestOK
    <3>3. QED
      BY <1>1, <3>1, <3>2 DEF Creation
  <2>3. QED
    BY <1>10, <2>1, <2>2 DEF Evict
<1>11. CASE Epoch \/ UNCHANGED vars
  BY <1>2, <1>11 DEF Epoch, image, vars
<1>12. QED
  BY <1>4, <1>7, <1>8, <1>9, <1>10, <1>11 DEF Next

LEMMA AtomicStep ==
  ASSUME AtomicOK, ~NoDataPersist, ~CrashInCreate, [Next]_vars
  PROVE  ListInv' /\ (ActivateBegin \/ FreeBegin \/ Stays)
<1>1. Creation'
  BY CreationStep
<1>2. Entries' /\ FrameLists' /\ (ActivateBegin \/ FreeBegin \/ Stays)
  <2>1. CASE Start \/ Step
    BY <2>1, StartLists, RecoverLists, RunLists, ClearLists, RecoverDoneLists, CoalesceLists,
       ReserveLists, OnListLists, ActivateLists, FreeLists
    DEF Start, Step
  <2>2. CASE Call
    BY <2>2, EnvironmentLists, ReserveLists, OnListLists, ActivateLists, FreeLists DEF Call
  <2>3. CASE Crash \/ Evict \/ Epoch \/ UNCHANGED vars
    BY <2>3, CrashLists, EnvironmentLists
  <2>4. QED
    BY <2>1, <2>2, <2>3 DEF Next
<1>3. QED
  BY <1>1, <1>2 DEF ListInv, Entries

LEMMA ListInvInductive ==
  ASSUME ~Remix, ~NoDataPersist, ~CrashInCreate
  PROVE  Spec => []ListInv
<1>1. Init => ListInv
  <2>1. SUFFICES ASSUME Init PROVE ListInv
    OBVIOUS
  <2>2. /\ pc = "down" /\ hdr = [p \in Chunks |-> Zeroed] /\ phdr = hdr
        /\ cell = [c \in Cells |-> Null] /\ pcell = cell
    BY <2>1 DEF Init
  <2>3. Live \subseteq Chunks
    <3>1. 1 \in Chunks /\ hdr[1].size = 0
      BY <2>2, NAssumption DEF Zeroed, Chunks
    <3>2. Image(hdr)
      BY <2>2, NAssumption DEF Image, Zeroed, Chunks
    <3>3. QED
      BY <3>1, <3>2, NoClumps DEF Live
  <2>4. Busy = {}
    BY <2>2, <2>3 DEF Busy, Zeroed
  <2>5. QED
    BY <2>2, <2>4, ChunkFacts DEF ListInv, Lists, Exclusive, Linked, FrameLists, Creation, OnePcs,
       RunPcs, ClearPcs, ActivatePcs, FreePcs
<1>2. /\ TypeInv /\ TileInv /\ LiveShape /\ ClumpInv /\ MediaInv /\ ListInv /\ [Next]_vars
      /\ TypeInv' /\ TileInv' /\ LiveShape'
      => ListInv'
  BY AtomicStep DEF StepOK, AtomicOK
<1>3. Spec => [](LiveShape /\ ClumpInv)
  BY ClumpInvInductive
<1>4. Spec => []MediaInv
  BY MediaInvInductive
<1>5. QED
  BY <1>1, <1>2, <1>3, <1>4, TypeInvInductive, TileInvInductive, PTL DEF Spec

-----------------------------------------------------------------------------
(* What a recovery would find, told from the cache                          *)

Surviving == {q \in Clumps(phdr) : phdr[q].state \in {"ACTIVATING", "ACTIVE"}}

ViewOK ==
  /\ Surviving = Used /\ \A p \in Used : phdr[p].size = hdr[p].size
  /\ \A c \in Roots : RootIs(c, RecoveredRoot(c))

\* Between the first store and the fsync of a new pool there is no block at all.
LEMMA CreationView ==
  ASSUME TypeInv, TileInv, ListInv, pc = "fsync"
  PROVE  Surviving = {} /\ Used = {} /\ \A c : Redone(c) = {} /\ \A p : ~Named(p, c)
<1>1. \A p \in Chunks : hdr[p].state = "FREE" /\ phdr[p].state = "FREE"
  BY DEF ListInv, Creation
<1>2. Live \subseteq Chunks
  BY LiveFacts DEF LiveShape
<1>3. Clumps(phdr) \subseteq Chunks
  <2>1. Image(phdr) /\ Tiled(phdr)
    BY ImagesOK, InvariantTiles DEF PoolTiled
  <2>2. CASE phdr[1].size = 0
    BY <2>1, <2>2, NoClumps
  <2>3. CASE phdr[1].size # 0
    BY <2>1, <2>3, TiledWalk DEF Walk
  <2>4. QED
    BY <2>2, <2>3
<1>4. Surviving = {} /\ Used = {}
  BY <1>1, <1>2, <1>3 DEF Surviving, Used
<1>5. \A c : \A p : ~Named(p, c)
  BY <1>1, <1>2 DEF Named, HalfwayStates
<1>6. ASSUME NEW c PROVE Redone(c) = {}
  <2>1. {p \in Clumps(phdr) : phdr[p].state \in {"ACTIVATING", "FREEING"}} = {}
    BY <1>1, <1>3
  <2>2. QED
    BY <2>1 DEF Redone
<1>7. QED
  BY <1>4, <1>5, <1>6

\* Once there is a pool on the media, the assignments that recovery would redo are
\* those of the entries in use of the clumps caught half way.
LEMMA RedoneIs ==
  ASSUME TypeInv, TileInv, MediaInv, ListInv, pc # "fsync", NEW c \in Roots
  PROVE  Redone(c) = {e \in {p \in Live : hdr[p].state \in HalfwayStates} \X Slots :
                        phdr[e[1]].on[e[2]].off = c}
<1> DEFINE H == {p \in Live : hdr[p].state \in HalfwayStates}
<1>1. H = {p \in Clumps(phdr) : phdr[p].state \in {"ACTIVATING", "FREEING"}}
  BY KeptIsLive DEF MediaInv, Mirrored, Synced, Behind, HalfwayStates
<1>2. Redone(c) = {e \in H \X Slots : /\ phdr[e[1]].on[e[2]].off = c
                                      /\ \A j \in 1 .. e[2] : phdr[e[1]].on[j].off # None}
  BY <1>1, Zenon DEF Redone
<1>3. ASSUME NEW p \in H, NEW i \in Slots, phdr[p].on[i].off = c, NEW j \in 1 .. i
      PROVE  phdr[p].on[j].off # None
  <2>1. Filled(phdr[p].on)
    BY DEF ListInv, Lists, ListOK, Busy, HalfwayStates
  <2>2. c # None /\ j \in Slots /\ (j < i \/ j = i)
    BY NumOnAssumption, ChunkFacts DEF Slots
  <2>3. QED
    BY <1>3, <2>1, <2>2 DEF Filled
<1> HIDE DEF H
<1>4. Redone(c) = {e \in H \X Slots : phdr[e[1]].on[e[2]].off = c}
  BY <1>2, <1>3
<1>5. QED
  BY <1>4 DEF H

LEMMA ViewHolds ==
  ASSUME TypeInv, TileInv, MediaInv, ListInv
  PROVE  ViewOK
<1>1. CASE pc = "fsync"
  <2>1. \A c \in Roots : RecoveredRoot(c) = cell[c]
    BY <1>1, CreationView DEF RecoveredRoot, MediaInv, RootsSynced
  <2>2. QED
    BY <1>1, <2>1, CreationView DEF ViewOK, RootIs
<1>2. CASE pc # "fsync"
  <2>1. Surviving = Used /\ \A p \in Used : phdr[p].size = hdr[p].size
    BY <1>2, KeptIsLive DEF Surviving, Used, MediaInv, Mirrored, Synced, Behind
  <2>2. ASSUME NEW c \in Roots PROVE RootIs(c, RecoveredRoot(c))
    <3> DEFINE H == {p \in Live : hdr[p].state \in HalfwayStates}
               R == Redone(c)
    <3>1. R = {e \in H \X Slots : phdr[e[1]].on[e[2]].off = c}
      BY <1>2, RedoneIs
    <3>2. \A p : Named(p, c) <=> p \in H /\ \E i \in Slots : phdr[p].on[i].off = c
      BY DEF Named
    <3> HIDE DEF H
    <3>3. CASE R = {}
      <4>1. \A p \in H, i \in Slots : phdr[p].on[i].off # c
        <5>1. SUFFICES ASSUME NEW p \in H, NEW i \in Slots, phdr[p].on[i].off = c
                       PROVE  FALSE
          OBVIOUS
        <5>2. <<p, i>> \in R
          BY <3>1, <5>1
        <5>3. QED
          BY <3>3, <5>2
      <4>2. RecoveredRoot(c) = cell[c]
        BY <3>3 DEF RecoveredRoot, MediaInv, RootsSynced
      <4>3. QED
        BY <3>2, <4>1, <4>2 DEF RootIs
    <3>4. CASE R # {}
      <4> DEFINE P(x) == \A y \in R : y[2] <= x[2]
                 e == CHOOSE x \in R : P(x)
      <4>1. \E x \in R : P(x)
        <5> DEFINE S == {x[2] : x \in R}
        <5>1. S \subseteq 1 .. NumOn /\ S # {} /\ NumOn \in Nat
          BY <3>1, <3>4, NumOnAssumption DEF Slots
        <5>2. PICK k \in S : \A j \in S : j <= k
          <6> HIDE DEF S
          <6>1. QED
            BY <5>1, GreatestNumber
        <5>3. QED
          BY <5>2
      <4>2. e \in R
        <5> HIDE DEF P
        <5>1. QED
          BY <4>1
      <4>3. RecoveredRoot(c) = phdr[e[1]].on[e[2]].ptr
        BY <3>4, Zenon DEF RecoveredRoot
      <4> HIDE DEF e, P
      <4>4. PICK p \in H, i \in Slots : p = e[1] /\ i = e[2] /\ phdr[p].on[i].off = c
        BY <3>1, <4>2
      <4>5. Named(p, c)
        BY <3>2, <4>4
      <4>6. p \in Busy /\ ListOK(p)
        BY <4>5, NamedList DEF ListInv
      <4>7. phdr[p].on[i].ptr = Target(p)
        BY <4>4, <4>6, ChunkFacts DEF ListOK, EntryOK
      <4>8. ASSUME NEW q, Named(q, c) PROVE q = p
        <5>1. q \in Busy
          BY <4>8, NamedList DEF ListInv
        <5>2. PICK j \in Slots : phdr[q].on[j].off = c
          BY <4>8 DEF Named
        <5>3. QED
          BY <4>4, <4>6, <5>1, <5>2, OneLister, ChunkFacts DEF ListInv
      <4>9. QED
        BY <4>3, <4>4, <4>5, <4>7, <4>8 DEF RootIs
    <3>5. QED
      BY <3>3, <3>4
  <2>3. QED
    BY <2>1, <2>2 DEF ViewOK
<1>3. QED
  BY <1>1, <1>2

LEMMA RootUnique ==
  ASSUME NEW c, NEW v, NEW w, RootIs(c, v), RootIs(c, w)
  PROVE  v = w
BY DEF RootIs

-----------------------------------------------------------------------------
(* Every step is one of PmemPool's, or changes nothing it sees               *)

Blocks == [p \in Surviving |-> phdr[p].size]
Root   == [c \in Roots |-> RecoveredRoot(c)]

LEMMA StutterView ==
  ASSUME ViewOK, ViewOK', Stays
  PROVE  Blocks' = Blocks /\ Root' = Root
<1>1. Surviving' = Surviving /\ \A p \in Surviving : phdr'[p].size = phdr[p].size
  BY DEF ViewOK, Stays
<1>2. ASSUME NEW c \in Roots PROVE RecoveredRoot(c)' = RecoveredRoot(c)
  <2>1. PICK v : v = RecoveredRoot(c)
    OBVIOUS
  <2>2. RootIs(c, v)' /\ RootIs(c, RecoveredRoot(c))'
    BY <2>1 DEF ViewOK, Stays
  <2>3. QED
    BY <2>1, <2>2 DEF RootIs
<1>3. QED
  BY <1>1, <1>2 DEF Blocks, Root

\* The commit of an activation: the block, and the roots its list names.
LEMMA ActivateView ==
  ASSUME AtomicOK, ViewOK, ViewOK', ActivateBegin
  PROVE  Pool!Next
<1>1. PICK x : x = fr.clp
  OBVIOUS
<1>2. /\ pc = "activate.begin" /\ Commit(x, InState(x, "ACTIVATING"), FALSE) /\ cell' = cell
  BY <1>1, Zenon DEF ActivateBegin
<1>3. x \in Live /\ x \in Chunks /\ hdr[x].state = "RESERVED" /\ x \in Busy /\ Synced(x) /\ ListOK(x)
      /\ Lists /\ Exclusive
  BY <1>1, <1>2, BusyFacts
  DEF AtomicOK, StepOK, ListInv, FrameLists, OnePcs, MediaInv, FrameStates, Busy, Mirrored, Behind,
      Dirty, RecoverPcs, Lists
<1>4. /\ hdr'[x].state = "ACTIVATING" /\ phdr'[x] = hdr'[x] /\ hdr'[x].size = hdr[x].size
      /\ hdr'[x].on = hdr[x].on
      /\ \A p \in Chunks : p # x => hdr'[p] = hdr[p] /\ phdr'[p] = phdr[p]
  <2> DEFINE z == InState(x, "ACTIVATING")
  <2>1. z.state = "ACTIVATING" /\ z.on = hdr[x].on /\ z.size = hdr[x].size
    BY <1>3 DEF InState, AtomicOK, StepOK, TypeInv, HeadersOK, Header
  <2>2. Commit(x, z, FALSE)
    BY <1>2
  <2> HIDE DEF z
  <2>3. QED
    BY <1>3, <2>1, <2>2, CommitBoth DEF AtomicOK, StepOK
<1>5. Live' = Live /\ Live \subseteq Chunks
  <2>1. Live' = Live
    BY <1>1, <1>2, <1>3, SetStateLive DEF AtomicOK, States, InCall
  <2>2. QED
    BY <2>1 DEF AtomicOK, StepOK, LiveShape
<1>6. Used' = Used \cup {x} /\ x \notin Used /\ \A p \in Used : hdr'[p].size = hdr[p].size
  BY <1>3, <1>4, <1>5 DEF Used
<1>7. Surviving' = Surviving \cup {x} /\ x \notin Surviving
      /\ \A p \in Surviving : phdr'[p].size = phdr[p].size /\ phdr[p].size = hdr[p].size
  BY <1>6 DEF ViewOK
<1> DEFINE D == {c \in Roots : \E i \in Slots : phdr[x].on[i].off = c}
<1>8. \A c \in Roots : RecoveredRoot(c)' = IF c \in D THEN x ELSE RecoveredRoot(c)
  <2>1. SUFFICES ASSUME NEW c \in Roots
                 PROVE  RecoveredRoot(c)' = IF c \in D THEN x ELSE RecoveredRoot(c)
    OBVIOUS
  <2>2. RootIs(c, RecoveredRoot(c)) /\ RootIs(c, RecoveredRoot(c))'
    BY DEF ViewOK
  <2>3. \A p : p # x => (Named(p, c)' <=> Named(p, c)) /\ (Named(p, c) => Target(p)' = Target(p))
    BY <1>4, <1>5 DEF Named, Target
  <2>4. ~Named(x, c) /\ (Named(x, c)' <=> c \in D) /\ Target(x)' = x
    BY <1>3, <1>4, <1>5 DEF Named, Target, HalfwayStates, Synced
  <2>5. CASE c \in D
    BY <2>2, <2>4, <2>5 DEF RootIs
  <2>6. CASE c \notin D
    BY <1>2, <2>2, <2>3, <2>4, <2>6 DEF RootIs
  <2>7. QED
    BY <2>5, <2>6
<1>9. \A q \in Surviving : Pool!Disjoint(x, phdr'[x].size, q, phdr[q].size)
  <2>1. SUFFICES ASSUME NEW q \in Live, q # x
                 PROVE  x + hdr[x].size <= q \/ q + hdr[q].size <= x
    BY <1>3, <1>4, <1>6, <1>7 DEF Pool!Disjoint, ViewOK, Used
  <2>2. q <= x \/ x <= q
    BY <1>3, <1>5, ChunksNat
  <2>3. QED
    BY <1>3, <2>1, <2>2, Neighbours DEF AtomicOK, StepOK
<1>10. /\ Blocks' = [p \in Surviving \cup {x} |-> IF p = x THEN phdr'[x].size ELSE Blocks[p]]
       /\ Blocks'[x] = phdr'[x].size /\ \A q \in Surviving : Blocks[q] = phdr[q].size
       /\ DOMAIN Blocks = Surviving
  BY <1>7 DEF Blocks
<1>11. Root' = [c \in Roots |-> IF c \in D THEN x ELSE Root[c]]
  BY <1>8 DEF Root
<1>12. PICK E : E = D /\ E \in SUBSET Roots
  OBVIOUS
<1> HIDE DEF D
<1>13. Pool!Used = Surviving /\ Pool!Used' = Surviving'
  BY DEF Pool!Used, Surviving
<1>14. \E p \in Pool!Used' \ Pool!Used, A \in SUBSET Roots :
         /\ p \notin Pool!Used
         /\ \A q \in Pool!Used : Pool!Disjoint(p, Blocks'[p], q, Blocks[q])
         /\ Blocks' = [q \in Pool!Used \cup {p} |-> IF q = p THEN Blocks'[p] ELSE Blocks[q]]
         /\ Root' = [c \in Roots |-> IF c \in A THEN p ELSE Root[c]]
  <2>1. x \in Pool!Used' \ Pool!Used
    BY <1>7, <1>13
  <2>2. \A q \in Pool!Used : Pool!Disjoint(x, Blocks'[x], q, Blocks[q])
    BY <1>9, <1>10, <1>13
  <2>3. Blocks' = [q \in Pool!Used \cup {x} |-> IF q = x THEN Blocks'[x] ELSE Blocks[q]]
    BY <1>10, <1>13
  <2>4. Root' = [c \in Roots |-> IF c \in E THEN x ELSE Root[c]]
    BY <1>11, <1>12
  <2>5. QED
    BY <1>12, <2>1, <2>2, <2>3, <2>4, Zenon
<1>15. QED
  BY <1>14, Zenon DEF Pool!Next, Pool!Activate, Blocks, Root, Surviving

\* The commit of a free: the block goes, and every root that points at it.
LEMMA FreeView ==
  ASSUME AtomicOK, ViewOK, ViewOK', FreeBegin
  PROVE  Pool!Next
<1>1. PICK x : x = fr.clp
  OBVIOUS
<1>2. /\ pc = "free.begin" /\ Commit(x, InState(x, "FREEING"), FALSE) /\ cell' = cell
  <2>1. fr.lazy = FALSE
    BY DEF AtomicOK, MediaInv, FrameStates, StepOK, TypeInv, FrameOK, Frame
  <2>2. QED
    BY <1>1, <2>1, Zenon DEF FreeBegin
<1>3. x \in Live /\ x \in Chunks /\ hdr[x].state = "ACTIVE" /\ x \in Busy /\ Synced(x) /\ ListOK(x)
      /\ x # Null /\ Exclusive /\ Unlinks(x)
  BY <1>1, <1>2, BusyFacts
  DEF AtomicOK, StepOK, ListInv, FrameLists, OnePcs, MediaInv, FrameStates, Busy, Mirrored, Behind,
      Dirty, RecoverPcs, Lists
<1>4. /\ hdr'[x].state = "FREEING" /\ phdr'[x] = hdr'[x] /\ hdr'[x].size = hdr[x].size
      /\ hdr'[x].on = hdr[x].on
      /\ \A p \in Chunks : p # x => hdr'[p] = hdr[p] /\ phdr'[p] = phdr[p]
  <2> DEFINE z == InState(x, "FREEING")
  <2>1. z.state = "FREEING" /\ z.on = hdr[x].on /\ z.size = hdr[x].size
    BY <1>3 DEF InState, AtomicOK, StepOK, TypeInv, HeadersOK, Header
  <2>2. Commit(x, z, FALSE)
    BY <1>2
  <2> HIDE DEF z
  <2>3. QED
    BY <1>3, <2>1, <2>2, CommitBoth DEF AtomicOK, StepOK
<1>5. Live' = Live /\ Live \subseteq Chunks
  <2>1. Live' = Live
    BY <1>1, <1>2, <1>3, SetStateLive DEF AtomicOK, States, InCall
  <2>2. QED
    BY <2>1 DEF AtomicOK, StepOK, LiveShape
<1>6. Used' = Used \ {x} /\ x \in Used /\ \A p \in Used : hdr'[p].size = hdr[p].size
  BY <1>3, <1>4, <1>5 DEF Used
<1>7. Surviving' = Surviving \ {x} /\ x \in Surviving
      /\ \A p \in Surviving' : phdr'[p].size = phdr[p].size
  BY <1>6 DEF ViewOK
<1> DEFINE D == {c \in Roots : \E i \in Slots : phdr[x].on[i].off = c}
<1>8. \A c \in Roots : RecoveredRoot(c)' = IF RecoveredRoot(c) = x THEN Null ELSE RecoveredRoot(c)
  <2>1. SUFFICES ASSUME NEW c \in Roots
                 PROVE  RecoveredRoot(c)' = IF RecoveredRoot(c) = x THEN Null ELSE RecoveredRoot(c)
    OBVIOUS
  <2>2. RootIs(c, RecoveredRoot(c)) /\ RootIs(c, RecoveredRoot(c))'
    BY DEF ViewOK
  <2>3. \A p : p # x => (Named(p, c)' <=> Named(p, c)) /\ (Named(p, c) => Target(p)' = Target(p))
    BY <1>4, <1>5 DEF Named, Target
  <2>4. ~Named(x, c) /\ (Named(x, c)' <=> c \in D) /\ Target(x)' = Null
    BY <1>3, <1>4, <1>5 DEF Named, Target, HalfwayStates, Synced
  <2>5. CASE c \in D
    <3>1. PICK i \in Slots : phdr[x].on[i].off = c
      BY <2>5
    <3>2. cell[c] = x
      BY <1>3, <3>1, ChunkFacts DEF ListOK, EntryOK
    <3>3. ASSUME NEW p, Named(p, c) PROVE FALSE
      <4>1. p \in Busy /\ p # x
        BY <2>4, <3>3, NamedList DEF AtomicOK, ListInv
      <4>2. PICK j \in Slots : phdr[p].on[j].off = c
        BY <3>3 DEF Named
      <4>3. QED
        BY <1>3, <3>1, <4>1, <4>2, OneLister, ChunkFacts
    <3>4. RecoveredRoot(c) = x
      BY <2>2, <3>2, <3>3 DEF RootIs
    <3>5. RecoveredRoot(c)' = Null
      BY <2>2, <2>4, <2>5 DEF RootIs
    <3>6. QED
      BY <3>4, <3>5
  <2>6. CASE c \notin D
    <3>1. RecoveredRoot(c)' = RecoveredRoot(c)
      BY <1>2, <2>2, <2>3, <2>4, <2>6 DEF RootIs
    <3>2. ASSUME RecoveredRoot(c) = x PROVE FALSE
      <4>1. \A p : Named(p, c) => p # x /\ x = Target(p)
        BY <2>2, <2>4, <3>2 DEF RootIs
      <4>2. \A p : ~Named(p, c)
        BY <1>3, <4>1 DEF Target
      <4>3. cell[c] = x
        BY <2>2, <3>2, <4>2 DEF RootIs
      <4>4. PICK i \in Slots : hdr[x].on[i] = [off |-> c, ptr |-> Null]
        BY <1>3, <4>3 DEF Unlinks
      <4>5. [off |-> c, ptr |-> Null].off = c
        OBVIOUS
      <4>6. phdr[x].on[i].off = c
        BY <1>3, <4>4, <4>5 DEF Synced
      <4>7. QED
        BY <2>6, <4>6
    <3>3. QED
      BY <3>1, <3>2
  <2>7. QED
    BY <2>5, <2>6
<1> HIDE DEF D
<1>9. Pool!Used = Surviving /\ Pool!Used' = Surviving'
  BY DEF Pool!Used, Surviving
<1>10. x \in Pool!Used \ Pool!Used'
  BY <1>7, <1>9
<1>11. Blocks' = [q \in Pool!Used \ {x} |-> Blocks[q]]
  BY <1>7, <1>9 DEF Blocks
<1>12. Root' = [c \in Roots |-> IF Root[c] = x THEN Pool!Null ELSE Root[c]]
  BY <1>8 DEF Root, Pool!Null, Null
<1>13. \E p \in Pool!Used \ Pool!Used' :
         /\ p \in Pool!Used
         /\ Blocks' = [q \in Pool!Used \ {p} |-> Blocks[q]]
         /\ Root' = [c \in Roots |-> IF Root[c] = p THEN Pool!Null ELSE Root[c]]
  BY <1>10, <1>11, <1>12, Zenon
<1>14. QED
  BY <1>13, Zenon DEF Pool!Next, Pool!Free, Blocks, Root, Surviving

LEMMA ViewStep ==
  ASSUME AtomicOK, ~NoDataPersist, ~CrashInCreate, [Next]_vars, ViewOK, ViewOK'
  PROVE  Pool!Next \/ UNCHANGED <<Blocks, Root>>
<1>1. ActivateBegin \/ FreeBegin \/ Stays
  BY AtomicStep
<1>2. QED
  BY <1>1, ActivateView, FreeView, StutterView

\* What a crash would leave in the pool, once recovered, changes only by whole
\* activations and whole frees: a block and every root assigned with it appear at
\* the one persist of the ACTIVATING header, a block and every root that points at
\* it go at the one persist of the FREEING header, and no other step of a call, of
\* the recovery, of a crash or of the hardware is seen (pmemalloc_activate,
\* pmemalloc_free, pmemalloc_recover).  Default build; a process that has freed
\* does not reserve again, and none dies while the pool file is created.
THEOREM PoolIsAtomic ==
  ASSUME ~Remix, ~NoDataPersist, ~CrashInCreate
  PROVE  Spec => AtomicPool
<1>1. Init => Pool!Init
  <2> SUFFICES ASSUME Init PROVE Pool!Init
    OBVIOUS
  <2>1. Clumps(phdr) = {}
    <3>1. 1 \in Chunks /\ phdr[1].size = 0 /\ Image(phdr)
      BY NAssumption DEF Init, Image, Zeroed, Chunks
    <3>2. QED
      BY <3>1, NoClumps
  <2>2. \A c \in Roots : RecoveredRoot(c) = Null
    BY <2>1, ChunkFacts DEF Init, RecoveredRoot, Redone
  <2>3. Surviving = {}
    BY <2>1 DEF Surviving
  <2>4. Blocks = [p \in {} |-> 0] /\ Root = [c \in Roots |-> Pool!Null]
    BY <2>2, <2>3 DEF Blocks, Root, Null, Pool!Null
  <2>5. QED
    BY <2>4, Zenon DEF Pool!Init, Blocks, Root, Surviving
<1>2. Spec => [](LiveShape /\ ClumpInv)
  BY ClumpInvInductive
<1>3. Spec => []MediaInv
  BY MediaInvInductive
<1>4. Spec => []ListInv
  BY ListInvInductive
<1>5. TypeInv /\ TileInv /\ MediaInv /\ ListInv => ViewOK
  BY ViewHolds
<1>6. /\ TypeInv /\ TileInv /\ LiveShape /\ ClumpInv /\ MediaInv /\ ListInv /\ ViewOK
      /\ [Next]_vars /\ TypeInv' /\ TileInv' /\ LiveShape' /\ ViewOK'
      => [Pool!Next]_<<Blocks, Root>>
  BY ViewStep DEF StepOK, AtomicOK
<1>7. Spec => Pool!Init /\ [][Pool!Next]_<<Blocks, Root>>
  BY <1>1, <1>2, <1>3, <1>4, <1>5, <1>6, TypeInvInductive, TileInvInductive, PTL DEF Spec
<1>8. QED
  BY <1>7, PTL DEF AtomicPool, Pool!Spec, Blocks, Root, Surviving

\* In the default build the claim of pmemalloc.c:754-760 holds: no crash leaves a
\* root that points at memory recovery gives back.  (With -D_NODATAPERSIST it does
\* not, README.md says where.)
THEOREM RootsAreRecoverable ==
  ASSUME ~Remix, ~NoDataPersist, ~CrashInCreate
  PROVE  Spec => []RootsRecoverable
<1>1. ASSUME TypeInv, TileInv, MediaInv, ListInv PROVE RootsRecoverable
  <2>1. ViewOK
    BY <1>1, ViewHolds
  <2>2. SUFFICES ASSUME NEW c \in Roots, NEW v, v = RecoveredRoot(c), v # Null
                 PROVE  v \in Used
    BY <2>1 DEF RootsRecoverable, ViewOK, Surviving
  <2>3. RootIs(c, v)
    BY <2>1, <2>2 DEF ViewOK
  <2>4. CASE \E p : Named(p, c)
    <3>1. PICK p : Named(p, c)
      BY <2>4
    <3>2. v = Target(p)
      BY <2>3, <3>1 DEF RootIs
    <3>3. QED
      BY <2>2, <3>1, <3>2 DEF Named, Target, HalfwayStates, Used
  <2>5. CASE \A p : ~Named(p, c)
    <3>1. v = cell[c]
      BY <2>3, <2>5 DEF RootIs
    <3>2. /\ v \in Live
          /\ \/ hdr[v].state \in {"ACTIVATING", "ACTIVE"}
             \/ hdr[v].state = "FREEING" /\ \E i \in Slots : hdr[v].on[i].off = c
      BY <1>1, <2>2, <3>1, Pointed DEF ListInv
    <3>3. CASE hdr[v].state = "FREEING"
      <4>1. PICK i \in Slots : hdr[v].on[i].off = c
        BY <3>2, <3>3
      <4>2. EntryOK(v, i)
        BY <1>1, <3>2, <3>3 DEF ListInv, Lists, ListOK, Busy
      <4>3. Named(v, c)
        BY <3>2, <3>3, <4>1, <4>2, ChunkFacts DEF EntryOK, Named, HalfwayStates
      <4>4. QED
        BY <2>5, <4>3
    <3>4. QED
      BY <3>2, <3>3 DEF Used
  <2>6. QED
    BY <2>4, <2>5
<1>2. Spec => []MediaInv
  BY MediaInvInductive
<1>3. Spec => []ListInv
  BY ListInvInductive
<1>4. TypeInv /\ TileInv /\ MediaInv /\ ListInv => RootsRecoverable
  BY <1>1
<1>5. QED
  BY <1>2, <1>3, <1>4, TypeInvInductive, TileInvInductive, PTL

-----------------------------------------------------------------------------
(* The data                                                                 *)

BodySynced(p) == \A c \in BodyCells(p) : pcell[c] = cell[c]

\* The fields of the blocks in use are on the media, and so are those of the block
\* whose activation is about to commit.
DataInv ==
  /\ \A p \in Used : BodySynced(p)
  /\ pc = "activate.begin" => BodySynced(fr.clp)

\* The words of a block are in no other block, and none is a root.
LEMMA Bodies ==
  ASSUME LiveShape, NEW p \in Live, NEW c \in BodyCells(p)
  PROVE  c \in Cells \ Roots /\ \A q \in Live : c \in BodyCells(q) => q = p
<1>1. c \in Cells /\ At[c] \in Int /\ p < At[c] /\ At[c] < p + hdr[p].size
  BY CellsAssumption DEF BodyCells
<1>2. p \in Nat /\ p # 0 /\ hdr[p].size \in Nat
  BY ChunksNat DEF LiveShape, Chunks
<1>3. ASSUME NEW q \in Live, c \in BodyCells(q), q # p
      PROVE  FALSE
  <2>1. q \in Nat
    BY ChunksNat DEF LiveShape
  <2>2. q < p \/ p < q
    BY <1>2, <1>3, <2>1
  <2>3. /\ hdr[q].size \in Nat
        /\ q < p => q + hdr[q].size <= p
        /\ p < q => p + hdr[p].size <= q
    BY <1>3 DEF LiveShape
  <2>4. QED
    BY <1>1, <1>2, <1>3, <2>1, <2>2, <2>3 DEF BodyCells
<1>4. c \notin Roots
  BY <1>1, <1>2 DEF Roots
<1>5. QED
  BY <1>1, <1>3, <1>4

\* The assignments of a list are to roots.
LEMMA RunWords ==
  ASSUME AtomicOK, RecoverRun \/ ActivateRun \/ FreeRun, NEW c \in Cells \ Roots
  PROVE  cell'[c] = cell[c] /\ pcell'[c] = pcell[c]
<1>1. fr.lazy = FALSE
  BY DEF AtomicOK, StepOK, TypeInv, FrameOK, Frame, MediaInv, FrameStates
<1>2. PICK here, next : RunOn(here, next, FALSE) /\ here \in RunPcs
  BY <1>1 DEF RecoverRun, ActivateRun, FreeRun, RunPcs
<1>3. pc \in RunPcs
  BY <1>2 DEF RunOn
<1>4. fr.k \in 1 .. NumOn + 1
  BY <1>3 DEF AtomicOK, StepOK, TypeInv, FrameOK
<1> DEFINE e == hdr[fr.clp].on[fr.k]
<1>5. CASE fr.k <= NumOn /\ e.off # None
  <2>1. fr.k \in Slots
    BY <1>4, <1>5, NumOnAssumption DEF Slots
  <2>2. Assign(e, FALSE)
    BY <1>2, <1>5 DEF RunOn
  <2>3. e.off \in Roots
    BY <1>3, <1>5, <2>1, LoopClump DEF AtomicOK, ListInv, ListOK, EntryOK
  <2> HIDE DEF e
  <2>4. e.off # c /\ c \notin Line(e.off)
    BY <2>3 DEF Line, Roots
  <2>5. QED
    BY <2>2, <2>4
    DEF Assign, Elided, WrittenBack, AtomicOK, StepOK, TypeInv, CellsOK
<1>6. CASE ~(fr.k <= NumOn /\ e.off # None)
  BY <1>2, <1>6 DEF RunOn
<1>7. QED
  BY <1>5, <1>6

\* Only the caller stores into a block: another step may write a word back, or
\* lose what was never written back, and does neither to a word that is on the
\* media.
LEMMA WordStep ==
  ASSUME AtomicOK, [Next]_vars, ~CallFill, NEW c \in Cells \ Roots, pcell[c] = cell[c]
  PROVE  pcell'[c] = cell'[c]
<1>1. CASE Start \/ Crash
  BY <1>1 DEF Start, Create, Open, Crash, Exit, PowerFail, image
<1>2. CASE Step
  <2>1. CASE \/ CreateClump \/ CreateSync \/ RecoverClump \/ RecoverClear \/ RecoverDone
             \/ CoalesceStep \/ CoalesceEnd
             \/ ReserveScan \/ ReserveSplit \/ ReserveClear \/ ReserveClaim
    BY <2>1 DEF CreateClump, CreateSync, RecoverClump, RecoverClear, ClearOn, RecoverDone,
       CoalesceStep, CoalesceEnd, ReserveScan, ReserveSplit, ReserveClear, ReserveClaim, image
  <2>2. CASE \/ OnActiveOff \/ OnFreeOff \/ ActivateBegin \/ ActivateClear \/ ActivateDone
             \/ FreeBegin \/ FreeClear \/ FreeDone
    BY <2>2 DEF OnActiveOff, OnFreeOff, PutOff, ActivateBegin, ActivateClear, ClearOn,
       ActivateDone, FreeBegin, FreeClear, FreeDone
  <2>3. CASE RecoverRun \/ ActivateRun \/ FreeRun
    BY <2>3, RunWords
  <2>4. QED
    BY <1>2, <2>1, <2>2, <2>3 DEF Step
<1>3. CASE Call
  <2>1. CASE CallActivate
    BY <2>1 DEF CallActivate, Activate
  <2>2. CASE CallReserve \/ CallOnActive \/ CallOnFree \/ CallFree
    BY <2>2 DEF CallReserve, Reserve, Fatal, CallOnActive, OnActive, CallOnFree, OnFree, PutPtr,
       CallFree, Free, image
  <2>3. QED
    BY <1>3, <2>1, <2>2 DEF Call
<1>4. CASE Evict
  BY <1>4 DEF Evict, EvictHdr, EvictCell, WrittenBack
<1>5. CASE Epoch \/ UNCHANGED vars
  BY <1>5 DEF Epoch, image, vars
<1>6. QED
  BY <1>1, <1>2, <1>3, <1>4, <1>5 DEF Next

\* Who brings the process to the commit of an activation, or leaves it there.
LEMMA AtTheCommit ==
  ASSUME [Next]_vars, pc' = "activate.begin", ~CallActivate
  PROVE  pc = "activate.begin" /\ UNCHANGED <<hdr, fr>>
<1>1. ~Start /\ ~Crash
  BY DEF Start, Create, Open, StartRecover, Crash, Exit, PowerFail, ProcessGone
<1>2. ~Step
  <2>1. ~(\/ CreateClump \/ CreateSync \/ RecoverClump \/ RecoverClear \/ RecoverDone
          \/ CoalesceStep \/ CoalesceEnd
          \/ ReserveScan \/ ReserveSplit \/ ReserveClear \/ ReserveClaim)
    BY DEF CreateClump, CreateSync, StartRecover, RecoverClump, StartCoalesce, RecoverClear,
       ClearOn, RecoverDone, CoalesceStep, CoalesceEnd, Return, ReserveScan, ReserveSplit,
       ReserveClear, ReserveClaim
  <2>2. ~(\/ OnActiveOff \/ OnFreeOff \/ ActivateBegin \/ ActivateClear \/ ActivateDone
          \/ FreeBegin \/ FreeClear \/ FreeDone)
    BY DEF OnActiveOff, OnFreeOff, PutOff, Return, ActivateBegin, ActivateClear, ClearOn,
       ActivateDone, FreeBegin, FreeClear, FreeDone, StartCoalesce
  <2>3. ~(RecoverRun \/ ActivateRun \/ FreeRun)
    BY DEF RecoverRun, ActivateRun, FreeRun, RunOn
  <2>4. QED
    BY <2>1, <2>2, <2>3 DEF Step
<1>3. ASSUME Call PROVE CallFill
  BY <1>3 DEF Call, CallReserve, Reserve, Fatal, ProcessGone, CallOnActive, OnActive, CallOnFree,
     OnFree, PutPtr, CallFree, Free
<1>4. QED
  BY <1>1, <1>2, <1>3 DEF Next, CallFill, Fill, Evict, EvictHdr, EvictCell, Epoch, image, vars

LEMMA FilledBody ==
  ASSUME AtomicOK, DataInv, CallFill
  PROVE  DataInv'
<1>1. PICK c \in Cells, p \in handles :
        /\ pc = "idle" /\ hdr[p].state = "RESERVED" /\ c \in BodyCells(p)
        /\ \A d \in Cells : d # c => cell'[d] = cell[d]
        /\ UNCHANGED <<hdr, pcell, pc>>
  BY DEF CallFill, Fill, AtomicOK, StepOK, TypeInv, CellsOK
<1>2. p \in Live /\ p \notin Used
  BY <1>1, RestingFacts DEF AtomicOK, CalmPcs, Used
<1>3. Live' = Live /\ Used' = Used
  BY <1>1, SameSizesLive DEF AtomicOK, StepOK, Used
<1>4. ASSUME NEW q \in Used PROVE BodySynced(q)'
  <2>1. q \in Live /\ BodySynced(q)
    BY DEF Used, DataInv
  <2>2. c \notin BodyCells(q)
    BY <1>1, <1>2, <2>1, Bodies DEF AtomicOK, StepOK
  <2>3. QED
    BY <1>1, <2>1, <2>2 DEF BodySynced, BodyCells, AtomicOK, StepOK, TypeInv, CellsOK
<1>5. QED
  BY <1>1, <1>3, <1>4 DEF DataInv

\* The commits of an activation and of a free change a state and no size.
LEMMA CommittedState ==
  ASSUME AtomicOK, NEW s \in States, pc \in InCall, NEW lazy,
         Commit(fr.clp, InState(fr.clp, s), lazy)
  PROVE  /\ Live' = Live /\ \A p \in Live : hdr'[p].size = hdr[p].size
         /\ \A p \in Live : hdr'[p].state = IF p = fr.clp THEN s ELSE hdr[p].state
<1>1. fr.clp \in Chunks /\ hdr \in [Chunks -> Header]
  BY DEF AtomicOK, StepOK, TypeInv, FrameOK, HeadersOK
<1>2. hdr' = [hdr EXCEPT ![fr.clp] = InState(fr.clp, s)]
  BY DEF Commit
<1>3. InState(fr.clp, s).size = hdr[fr.clp].size
  BY <1>1 DEF InState, Header
<1>4. \A p \in Live : hdr'[p].size = hdr[p].size
  BY <1>1, <1>2, <1>3 DEF AtomicOK, StepOK, LiveShape
<1>5. QED
  BY <1>4, SetStateLive DEF AtomicOK

LEMMA DataStep ==
  ASSUME AtomicOK, ~NoDataPersist, ~CrashInCreate, [Next]_vars, DataInv
  PROVE  DataInv'
<1>1. CASE CallFill
  BY <1>1, FilledBody
<1>2. CASE ~CallFill
  <2>1. ASSUME NEW p \in Live, BodySynced(p), hdr'[p].size = hdr[p].size
        PROVE  BodySynced(p)'
    <3>1. ASSUME NEW c \in BodyCells(p) PROVE pcell'[c] = cell'[c]
      BY <1>2, <2>1, Bodies, WordStep DEF BodySynced, AtomicOK, StepOK
    <3>2. BodyCells(p)' = BodyCells(p)
      BY <2>1 DEF BodyCells
    <3>3. QED
      BY <3>1, <3>2 DEF BodySynced
  <2>2. \A p \in Used' : /\ p \in Live /\ hdr'[p].size = hdr[p].size
                         /\ p \in Used \/ (ActivateBegin /\ p = fr.clp)
    <3>1. CASE Stays
      BY <3>1 DEF Stays, Used
    <3>2. CASE ActivateBegin
      <4>1. pc = "activate.begin" /\ Commit(fr.clp, InState(fr.clp, "ACTIVATING"), FALSE)
        BY <3>2, Zenon DEF ActivateBegin
      <4>2. QED
        BY <3>2, <4>1, CommittedState DEF Used, States, InCall
    <3>3. CASE FreeBegin
      <4>1. pc = "free.begin" /\ Commit(fr.clp, InState(fr.clp, "FREEING"), fr.lazy)
        BY <3>3, Zenon DEF FreeBegin
      <4>2. QED
        BY <4>1, CommittedState DEF Used, States, InCall
    <3>4. QED
      BY <3>1, <3>2, <3>3, AtomicStep
  <2>3. ASSUME NEW p \in Used' PROVE BodySynced(p)'
    BY <2>1, <2>2 DEF DataInv, ActivateBegin
  <2>4. ASSUME pc' = "activate.begin" PROVE BodySynced(fr.clp)'
    <3>1. CASE CallActivate
      <4>1. PICK p \in handles : Activate(p)
        BY <3>1 DEF CallActivate
      <4>2. fr'.clp = p /\ UNCHANGED <<hdr, cell>>
            /\ pcell' = [c \in Cells |-> IF c \in BodyCells(p) THEN cell[c] ELSE pcell[c]]
        BY <4>1 DEF Activate, NoFrame
      <4>3. BodySynced(p)'
        BY <4>2 DEF BodySynced, BodyCells
      <4>4. QED
        BY <4>2, <4>3 DEF BodySynced, BodyCells
    <3>2. CASE ~CallActivate
      <4>1. pc = "activate.begin" /\ UNCHANGED <<hdr, fr>>
        BY <2>4, <3>2, AtTheCommit
      <4>2. PICK p : p = fr.clp
        OBVIOUS
      <4>3. p \in Live /\ BodySynced(p)
        BY <4>1, <4>2 DEF AtomicOK, ListInv, FrameLists, OnePcs, DataInv
      <4>4. BodySynced(p)' /\ p = fr'.clp
        BY <2>1, <4>1, <4>2, <4>3
      <4>5. QED
        BY <4>4 DEF BodySynced, BodyCells
    <3>3. QED
      BY <3>1, <3>2
  <2>5. QED
    BY <2>3, <2>4 DEF DataInv
<1>3. QED
  BY <1>1, <1>2

\* What a crash leaves of a block is whole: from the persist that commits its
\* activation on, the media holds what the caller stored in it (step 1 of
\* pmemalloc_activate; pmemalloc_recover does not touch the data).
THEOREM CommittedIsWhole ==
  ASSUME ~Remix, ~NoDataPersist, ~CrashInCreate
  PROVE  Spec => []DataBeforeCommit
<1>1. Init => DataInv
  <2> SUFFICES ASSUME Init PROVE DataInv
    OBVIOUS
  <2>1. 1 \in Chunks /\ hdr[1].size = 0 /\ Image(hdr)
    BY NAssumption DEF Init, Image, Zeroed, Chunks
  <2>2. Live = {}
    BY <2>1, NoClumps DEF Live
  <2>3. QED
    BY <2>2 DEF Init, DataInv, Used
<1>2. Spec => [](LiveShape /\ ClumpInv)
  BY ClumpInvInductive
<1>3. Spec => []MediaInv
  BY MediaInvInductive
<1>4. Spec => []ListInv
  BY ListInvInductive
<1>5. /\ TypeInv /\ TileInv /\ LiveShape /\ ClumpInv /\ MediaInv /\ ListInv /\ DataInv
      /\ [Next]_vars /\ TypeInv' /\ TileInv' /\ LiveShape'
      => DataInv'
  BY DataStep DEF StepOK, AtomicOK
<1>6. ASSUME TypeInv, TileInv, MediaInv, ListInv, DataInv
      PROVE  DataBeforeCommit
  <2>1. ViewOK
    BY <1>6, ViewHolds
  <2>2. QED
    BY <1>6, <2>1 DEF ViewOK, DataBeforeCommit, Surviving, DataInv, BodySynced, BodyCells
<1>7. TypeInv /\ TileInv /\ MediaInv /\ ListInv /\ DataInv => DataBeforeCommit
  BY <1>6
<1>8. QED
  BY <1>1, <1>2, <1>3, <1>4, <1>5, <1>7, TypeInvInductive, TileInvInductive, PTL DEF Spec
================================================================================
