----------------------------- MODULE IcountProofs -----------------------------
(***************************************************************************)
(* icount counts exactly and kills on time: proved for code of any length,   *)
(* any life_remaining and any number of counts, whatever the scheduling and  *)
(* whatever call of the tracer fails.                                       *)
(*                                                                         *)
(* What makes it inductive is where the parent can be in each phase of the   *)
(* tracer, and that the two counters go in step: ran, which the parent       *)
(* advances, is count while the parent runs one instruction and one more     *)
(* while it is stopped after it.                                            *)
(***************************************************************************)
EXTENDS Icount, TLAPS

\* Where icount_start is before the signal takes the parent out of pretrigger.
Waiting == {"fork", "close", "pretrigger", "getpid", "loop"}

\* What the parent has run: nothing at trigger, trigger's call at the first
\* instruction of the snippet, and so on.
RanOK ==
  /\ at = "trigger" => ran = 0
  /\ at = "snippet" => left \in 1 .. Snippet /\ ran + left = Snippet + 1

Untriggered ==
  /\ count = 0
  /\ ~signaled => at \in Waiting
  /\ run = "free" => at \in Waiting /\ ~signaled
  /\ sigstop => run = "free"
  /\ \/ at \in Waiting
     \/ at = "handler" /\ run = "syscall"
     \/ at = "close(-1)"
     \/ at = "trigger" /\ run = "stopped"

\* One instruction at a time, counted when the parent stops after it.
Counting ==
  /\ ~sigstop
  /\ at \in {"trigger", "snippet", "icount_stop", "exited"}
  /\ run \in {"step", "stopped"}
  /\ run = "step" => at \in {"trigger", "snippet"} /\ count = ran
  /\ run = "stopped" /\ at # "exited" => at # "trigger" /\ count + 1 = ran
  /\ ttl # 0 => count < ttl

\* The count, once it is over: on its way, or read.
Reported ==
  \/ at \in {"icount_stop", "read"} /\ total = 0 /\ pipe = <<ran>>
  \/ at \in {"waitpid", "main", "exited"} /\ total = ran
  \/ at = "killed" /\ ran = ttl /\ total = 0

Phases ==
  /\ tracer = "none" => at = "main" /\ round = 0 /\ total = 0
  /\ tracer = "attach" =>
       /\ at \in Waiting /\ run = "free" /\ ~triggered /\ ~signaled /\ count = 0
       /\ pipe = <<>> /\ total = 0
  /\ tracer = "wait" =>
       /\ pipe = <<>> /\ total = 0
       /\ IF triggered THEN Counting ELSE Untriggered
  /\ tracer = "write" =>
       at \in {"icount_stop", "read"} /\ count = ran /\ pipe = <<>> /\ total = 0
  /\ tracer = "exit" => Reported
  /\ tracer = "failed" => pipe = <<>> /\ total = 0 /\ at # "killed"

IInv == TypeOK /\ RanOK /\ Phases


LEMMA InitInv == Init => IInv
<1> SUFFICES ASSUME Init PROVE IInv
  OBVIOUS
<1> USE SnippetAssumption, RoundsAssumption DEF Init
<1>1. /\ blocked \in BOOLEAN /\ sigstop \in BOOLEAN
      /\ active \in BOOLEAN /\ nested \in BOOLEAN
      /\ triggered \in BOOLEAN /\ signaled \in BOOLEAN
      /\ run # "free" \/ sigstop => tracer = "wait"
  OBVIOUS
<1>2. TypeOK
  BY <1>1 DEF TypeOK, Syscalls
<1>3. RanOK /\ Phases
  BY DEF RanOK, Phases
<1> QED
  BY <1>2, <1>3 DEF IInv

-----------------------------------------------------------------------------
(* The parent                                                               *)

LEMMA StartInv ==
  ASSUME IInv, NEW life \in Ttls, IcountStart(life) PROVE IInv'
<1> USE SnippetAssumption, TtlsAssumption, RoundsAssumption
    DEF IInv, IcountStart, kernel
<1>1. run = "free" /\ ~sigstop
  BY DEF TypeOK, Phases, Counting, Untriggered, Waiting
<1>2. TypeOK'
  <2>1. /\ blocked' \in BOOLEAN /\ sigstop' \in BOOLEAN
        /\ active' \in BOOLEAN /\ nested' \in BOOLEAN
        /\ triggered' \in BOOLEAN /\ signaled' \in BOOLEAN
    BY DEF TypeOK
  <2>2. round' \in 0 .. Rounds
    BY DEF TypeOK
  <2> QED
    BY <1>1, <2>1, <2>2 DEF TypeOK, Syscalls
<1>3. RanOK' /\ Phases'
  BY <1>1 DEF RanOK, Phases, Waiting
<1> QED
  BY <1>2, <1>3

LEMMA ParentStepInv ==
  ASSUME IInv, ParentStep PROVE IInv'
<1> USE SnippetAssumption DEF IInv, ParentStep, Runs, child
<1>1. TypeOK'
  <2>1. /\ at' \in {"close", "pretrigger", "getpid", "loop", "close(-1)", "trigger",
                     "snippet", "icount_stop", "read"}
        /\ left' \in 0 .. Snippet /\ ran' \in 0 .. Snippet + 1
    BY DEF TypeOK, RanOK, Instruction, Move, EnterTrigger, BeforeTrigger, Nested
  <2>2. nested' \in BOOLEAN
    BY DEF TypeOK, Instruction, Move, EnterTrigger, BeforeTrigger, Nested
  <2> QED
    BY <2>1, <2>2 DEF TypeOK, Syscalls
<1>2. RanOK'
  BY DEF TypeOK, RanOK, Instruction, Move, EnterTrigger, BeforeTrigger, Nested
<1>3. CASE tracer \in {"none", "attach", "write", "exit", "failed"}
  BY <1>3, <1>1, <1>2 DEF TypeOK, RanOK, Phases, Reported, Waiting,
       Instruction, Move, EnterTrigger, BeforeTrigger, Nested
<1>4. CASE tracer = "wait" /\ triggered
  BY <1>4, <1>1, <1>2 DEF TypeOK, RanOK, Phases, Counting,
       Instruction, Move, EnterTrigger, BeforeTrigger, Nested
<1>5. CASE tracer = "wait" /\ ~triggered
  BY <1>5, <1>1, <1>2 DEF TypeOK, RanOK, Phases, Untriggered, Waiting, Syscalls,
       Instruction, Move, EnterTrigger, BeforeTrigger, Nested
<1> QED
  BY <1>3, <1>4, <1>5 DEF TypeOK

LEMMA ParentExitsInv ==
  ASSUME IInv, ParentExits PROVE IInv'
<1> USE SnippetAssumption DEF IInv, ParentExits, Runs, SnippetExits, child
<1>1. TypeOK'
  BY DEF TypeOK, Syscalls
<1>2. RanOK' /\ Phases'
  BY DEF TypeOK, RanOK, Phases, Reported, Counting, Untriggered, Waiting, Syscalls
<1> QED
  BY <1>1, <1>2

LEMMA SyscallStopInv ==
  ASSUME IInv, SyscallStop PROVE IInv'
<1> USE SnippetAssumption DEF IInv, SyscallStop, parent, child
<1>1. TypeOK'
  BY DEF TypeOK, Syscalls
<1>2. RanOK' /\ Phases'
  BY DEF TypeOK, RanOK, Phases, Reported, Counting, Untriggered, Waiting, Syscalls
<1> QED
  BY <1>1, <1>2

LEMMA ReadCountInv ==
  ASSUME IInv, ReadCount PROVE IInv'
<1> USE SnippetAssumption DEF IInv, ReadCount, Ended, child
<1>1. /\ run = "free" /\ total = 0
      /\ \/ tracer = "failed" /\ pipe = <<>>
         \/ tracer = "exit" /\ pipe = <<ran>>
  BY DEF TypeOK, Phases, Reported, Counting, Untriggered, Waiting
<1>2. total' = IF tracer = "exit" THEN ran ELSE 0
  BY <1>1
<1>3. TypeOK'
  BY <1>1, <1>2 DEF TypeOK, Syscalls
<1>4. RanOK' /\ Phases'
  BY <1>1, <1>2 DEF TypeOK, RanOK, Phases, Reported
<1> QED
  BY <1>3, <1>4

LEMMA WaitChildInv ==
  ASSUME IInv, WaitChild PROVE IInv'
<1> USE SnippetAssumption DEF IInv, WaitChild, Ended, kernel, child
<1>1. TypeOK'
  BY DEF TypeOK, Syscalls
<1>2. RanOK' /\ Phases'
  BY DEF TypeOK, RanOK, Phases, Reported, Counting, Untriggered, Waiting, Syscalls
<1> QED
  BY <1>1, <1>2

LEMMA AttachStopInv ==
  ASSUME IInv, AttachStop PROVE IInv'
<1> USE SnippetAssumption DEF IInv, AttachStop, parent, child
<1>1. TypeOK'
  BY DEF TypeOK, Syscalls
<1>2. RanOK' /\ Phases'
  BY DEF TypeOK, RanOK, Phases, Reported, Counting, Untriggered, Waiting, Syscalls
<1> QED
  BY <1>1, <1>2

-----------------------------------------------------------------------------
(* The tracer                                                               *)

\* The calls that fail do so before the count is written.
LEMMA TracerFailsInv ==
  ASSUME IInv, TracerFails, tracer \in {"attach", "wait", "write"} PROVE IInv'
<1> USE SnippetAssumption DEF IInv, TracerFails, parent
<1>1. TypeOK'
  BY DEF TypeOK, Syscalls
<1>2. RanOK'
  BY DEF TypeOK, RanOK
<1>3. Phases'
  BY ZenonT(30) DEF TypeOK, Phases, Counting, Untriggered, Waiting
<1> QED
  BY <1>1, <1>2, <1>3

LEMMA AttachInv ==
  ASSUME IInv, Attach PROVE IInv'
<1>1. CASE TracerFails
  BY <1>1, TracerFailsInv DEF Attach
<1>2. CASE ~TracerFails
  <2> USE <1>2, SnippetAssumption DEF IInv, Attach, parent
  <2>1. TypeOK'
    BY ZenonT(30) DEF TypeOK, Syscalls
  <2>2. RanOK' /\ Phases'
    BY DEF TypeOK, RanOK, Phases, Untriggered, Waiting
  <2> QED
    BY <2>1, <2>2
<1> QED
  BY <1>1, <1>2

LEMMA WriteInv ==
  ASSUME IInv, Write PROVE IInv'
<1>1. CASE TracerFails
  BY <1>1, TracerFailsInv DEF Write
<1>2. CASE ~TracerFails
  <2> USE <1>2, SnippetAssumption DEF IInv, Write, parent, kernel
  <2>1. TypeOK'
    BY DEF TypeOK, Syscalls, Phases
  <2>2. RanOK' /\ Phases'
    BY DEF TypeOK, RanOK, Phases, Reported
  <2> QED
    BY <2>1, <2>2
<1> QED
  BY <1>1, <1>2

\* A stop of the parent that is not its exit: what the tracer knows then.
LEMMA AtStop ==
  ASSUME IInv, Stopped
  PROVE  /\ tracer = "wait" /\ run = "stopped" /\ at # "exited"
         /\ pipe = <<>> /\ total = 0
         /\ ~sigstop
         /\ triggered => /\ at \in {"snippet", "icount_stop"}
                         /\ count + 1 = ran /\ Counted = ran
                         /\ (ttl # 0 => count < ttl)
         /\ ~triggered => /\ Counted = 0
                          /\ at \in Waiting \cup {"close(-1)", "trigger"}
                          /\ (~signaled => at \in Waiting)
BY DEF IInv, TypeOK, Phases, Counting, Untriggered, Stopped, Counted

\* The count reaches ttl one by one, so it does not jump over it.
LEMMA KillInv ==
  ASSUME IInv, Stopped, Kill PROVE IInv'
<1> USE SnippetAssumption, TtlsAssumption DEF IInv
<1>1. triggered /\ ran = ttl /\ Counted = ran
  BY AtStop DEF TypeOK, Kill, TimeUp
<1>2. TypeOK'
  BY AtStop, <1>1 DEF TypeOK, Syscalls, Kill, Dead
<1>3. RanOK' /\ Phases'
  BY AtStop, <1>1 DEF Phases, RanOK, Reported, Kill, Dead
<1> QED
  BY <1>2, <1>3

LEMMA SignalInv ==
  ASSUME IInv, Stopped, Signal PROVE IInv'
<1> USE SnippetAssumption DEF IInv, Signal, Resume, InPretrigger
<1>1. ~triggered /\ Counted = 0
  BY AtStop DEF Waiting
<1>2. TypeOK'
  BY AtStop, <1>1 DEF TypeOK, Syscalls
<1>3. RanOK' /\ Phases'
  BY AtStop, <1>1 DEF TypeOK, RanOK, Phases, Untriggered, Waiting
<1> QED
  BY <1>2, <1>3

LEMMA TriggeredInv ==
  ASSUME IInv, Stopped, ~TimeUp, Triggered PROVE IInv'
<1> USE SnippetAssumption DEF IInv, Triggered, Resume
<1>1. ~triggered /\ Counted = 0 /\ ran = 0
  BY AtStop DEF RanOK, Waiting
<1>2. TypeOK'
  BY AtStop, <1>1 DEF TypeOK, Syscalls
<1>3. RanOK' /\ Phases'
  BY AtStop, <1>1, TtlsAssumption DEF TypeOK, RanOK, Phases, Counting, TimeUp
<1> QED
  BY <1>2, <1>3

LEMMA DetachInv ==
  ASSUME IInv, Stopped, Detach PROVE IInv'
<1> USE SnippetAssumption DEF IInv, Detach, parent
<1>1. triggered /\ Counted = ran
  BY AtStop DEF Waiting
<1>2. TypeOK'
  BY AtStop, <1>1 DEF TypeOK, Syscalls
<1>3. RanOK' /\ Phases'
  BY AtStop, <1>1 DEF RanOK, Phases
<1> QED
  BY <1>2, <1>3

LEMMA SingleStepInv ==
  ASSUME IInv, Stopped, ~TimeUp, SingleStep PROVE IInv'
<1> USE SnippetAssumption, TtlsAssumption DEF IInv, SingleStep, Resume
<1>1. TypeOK'
  BY AtStop DEF TypeOK, Syscalls
<1>2. RanOK'
  BY DEF RanOK
<1>3. CASE triggered
  BY AtStop, <1>1, <1>2, <1>3 DEF TypeOK, Phases, Counting, TimeUp
<1>4. CASE ~triggered
  BY AtStop, <1>1, <1>2, <1>4 DEF Phases, Untriggered, Waiting
<1> QED
  BY <1>3, <1>4

-----------------------------------------------------------------------------
\* Each step of the parent, the tracer and the kernel keeps the invariant.
LEMMA InvariantHolds == Spec => []IInv
<1>1. ASSUME IInv, [Next]_vars PROVE IInv'
  <2>1. CASE \E life \in Ttls : IcountStart(life)
    BY <1>1, <2>1, StartInv
  <2>2. CASE Parent
    BY <1>1, <2>2, ParentStepInv, ParentExitsInv, SyscallStopInv, ReadCountInv,
       WaitChildInv, AttachStopInv DEF Parent
  <2>3. CASE Attach \/ Write
    BY <1>1, <2>3, AttachInv, WriteInv
  <2>4. CASE Stopped
    <3>1. CASE TracerFails
      BY <1>1, <2>4, <3>1, TracerFailsInv, AtStop
    <3>2. CASE ~TracerFails
      BY <1>1, <2>4, <3>2, KillInv, SignalInv, TriggeredInv, DetachInv, SingleStepInv
         DEF Stopped
    <3> QED
      BY <3>1, <3>2
  <2>5. CASE TraceeExited
    BY <1>1, <2>5, TracerFailsInv DEF TraceeExited
  <2>6. CASE UNCHANGED vars
    BY <1>1, <2>6 DEF vars, IInv, TypeOK, RanOK, Phases, Reported, Counting, Untriggered
  <2> QED
    BY <1>1, <2>1, <2>2, <2>3, <2>4, <2>5, <2>6 DEF Next, Tracer
<1> QED
  BY InitInv, <1>1, PTL DEF Spec

\* The parent is never run by a tracer that is gone, and every counter stays
\* within the length of the code under test (icount.c:137-206, tracer).
THEOREM TypeCorrect == Spec => []TypeOK
<1>1. IInv => TypeOK
  BY DEF IInv
<1> QED
  BY InvariantHolds, <1>1, PTL

\* However the scheduler runs the two processes and whichever call of the tracer
\* fails, the count returned is the number of instructions run, or 0.
THEOREM CountIsExact == Spec => []CountExact
<1>1. IInv => CountExact
  BY DEF IInv, TypeOK, Phases, Reported, Counting, Untriggered, Waiting, CountExact
<1> QED
  BY InvariantHolds, <1>1, PTL

\* Nor does the simulated crash come early or late, for any life_remaining.
THEOREM DeathIsOnTime == Spec => []DiesOnTime
<1>1. IInv => DiesOnTime
  BY DEF IInv, TypeOK, Phases, Reported, Counting, Untriggered, Waiting, DiesOnTime
<1> QED
  BY InvariantHolds, <1>1, PTL
================================================================================
