-------------------------------- MODULE Icount --------------------------------
(***************************************************************************)
(* icount: a program counts its own instructions, or dies after a number of  *)
(* them, with the help of a child that traces it.  Two processes: the        *)
(* parent, which calls icount_start, runs the code under test and calls      *)
(* icount_stop, and the tracer that icount_start forks.  They meet through   *)
(* ptrace stops, one real-time signal, and a pipe.                          *)
(*                                                                         *)
(* The parent's program counter is a place in the code; what matters of the  *)
(* kernel is how it runs a tracee: freely, one instruction, or up to the     *)
(* next system call, after which it is stopped until the tracer resumes it.  *)
(***************************************************************************)
EXTENDS Naturals, Sequences

CONSTANTS
  Snippet,   \* number of instructions of the code under test
  Ttls,      \* values of life_remaining: 0 for "only count"
  Rounds     \* how often the program starts a count

ASSUME SnippetAssumption == Snippet \in Nat \ {0}
ASSUME TtlsAssumption == Ttls \subseteq Nat
ASSUME RoundsAssumption == Rounds \in Nat

VARIABLES
  at,          \* where the parent is
  left,        \* instructions of the code under test still to run
  ran,         \* instructions it has run since it entered trigger
  blocked,     \* SIGRTMIN+15 is blocked in the parent
  run,         \* how the kernel runs the parent
  sigstop,     \* the SIGSTOP of PTRACE_ATTACH is on its way
  active,      \* Tracer_pid # 0
  nested,      \* icount_start was called while a count was active
  total,       \* the parent's Total
  round,       \* counts started so far
  tracer,      \* where the tracer is
  triggered, signaled, count, ttl, \* locals of tracer(), its copy of Total
  pipe         \* what was written to Tracerpipe

parent == <<at, left, ran, active, nested, total, round>>
kernel == <<blocked, run, sigstop>>
child  == <<tracer, triggered, signaled, count, ttl, pipe>>
vars   == <<at, left, ran, blocked, run, sigstop, active, nested, total,
            round, tracer, triggered, signaled, count, ttl, pipe>>

\* The write end is open in the tracer only: its end is the end of file.
Ended == tracer \in {"exit", "failed"}

\* The places a range test on rip finds, and those where a system call begins.
InPretrigger == at \in {"pretrigger", "loop"}
Syscalls == {"close", "getpid", "close(-1)", "read", "waitpid"}

-----------------------------------------------------------------------------
(* The parent                                                               *)

\* icount_start: pipe, signal and fork.
IcountStart(life) ==
  /\ at = "main" /\ round < Rounds
  /\ round' = round + 1
  /\ active' = TRUE
  /\ total' = 0
  /\ at' = "fork"
  /\ tracer' = "attach" /\ ttl' = life
  /\ triggered' = FALSE /\ signaled' = FALSE /\ count' = 0
  /\ pipe' = <<>>
  /\ UNCHANGED <<left, ran, nested, kernel>>

\* icount_start inside the code under test: icount_stop, then FATAL.
Nested ==
  /\ at = "snippet" /\ left = Snippet /\ active
  /\ at' = "icount_stop"
  /\ nested' = TRUE
  /\ ran' = ran + 1
  /\ UNCHANGED left

\* The code under test ends the process.
SnippetExits == at = "snippet" /\ at' = "exited" /\ UNCHANGED <<left, ran, nested>>

Move(from, to) == at = from /\ at' = to /\ UNCHANGED <<left, ran, nested>>

EnterTrigger(from) == at = from /\ at' = "trigger" /\ ran' = 0 /\ UNCHANGED <<left, nested>>

\* Mutant: no system call between the longjmp and trigger.
BeforeTriggerNoClose == EnterTrigger("handler")

\* handler does its longjmp to icount_start, which calls close(-1), then trigger.
BeforeTrigger == Move("handler", "close(-1)") \/ EnterTrigger("close(-1)")

\* One instruction of the parent outside icount_stop's waits.
Instruction ==
  \/ Move("fork", "close")
  \/ Move("close", "pretrigger")
  \/ Move("pretrigger", "getpid")
  \/ Move("getpid", "loop")
  \/ Move("loop", "loop")
  \/ BeforeTrigger
  \/ /\ at = "trigger" /\ at' = "snippet"
     /\ left' = Snippet /\ ran' = ran + 1
     /\ UNCHANGED nested
  \/ /\ at = "snippet"
     /\ left' = left - 1 /\ ran' = ran + 1
     /\ at' = IF left = 1 THEN "icount_stop" ELSE at
     /\ UNCHANGED nested
  \/ Nested
  \/ Move("icount_stop", "read")

\* A tracee that is resumed for one instruction is stopped after it, one that is
\* resumed up to the next system call is stopped there.
Runs(step) ==
  /\ step
  /\ run' = IF run = "step" THEN "stopped" ELSE run
  /\ \/ run \in {"free", "step"}
     \/ (run = "syscall" /\ at \notin Syscalls)

ParentStep ==
  /\ Runs(Instruction)
  /\ UNCHANGED <<active, total, round, blocked, sigstop, child>>

ParentExits ==
  /\ Runs(SnippetExits)
  /\ UNCHANGED <<active, total, round, blocked, sigstop, child>>

SyscallStop ==
  /\ run = "syscall" /\ at \in Syscalls
  /\ run' = "stopped"
  /\ UNCHANGED <<parent, blocked, sigstop, child>>

\* icount_stop: the read blocks until the count, or the end of file, is there.
ReadCount ==
  /\ at = "read" /\ (pipe # <<>> \/ Ended)
  /\ run \in {"free", "step"}
  /\ total' = IF pipe = <<>> THEN total ELSE Head(pipe)
  /\ at' = "waitpid"
  /\ run' = IF run = "step" THEN "stopped" ELSE run
  /\ UNCHANGED <<left, ran, active, nested, round, blocked, sigstop, child>>

WaitChild ==
  /\ at = "waitpid" /\ Ended
  /\ run = "free"
  /\ active' = FALSE
  /\ at' = IF nested THEN "exited" ELSE "main"
  /\ UNCHANGED <<left, ran, nested, total, round, kernel, child>>

\* The SIGSTOP of the attach reaches the parent.
AttachStop ==
  /\ sigstop
  /\ sigstop' = FALSE
  /\ run' = "stopped"
  /\ UNCHANGED <<parent, blocked, child>>

-----------------------------------------------------------------------------
(* The tracer                                                               *)

\* FATAL, FATALSYS: the tracer exits, and the kernel lets go of its tracee.
TracerFails ==
  /\ tracer' = "failed"
  /\ run' = "free"
  /\ sigstop' = FALSE
  /\ UNCHANGED <<parent, blocked, triggered, signaled, count, ttl, pipe>>

Attach ==
  /\ tracer = "attach"
  /\ \/ /\ tracer' = "wait"
        /\ sigstop' = TRUE
        /\ UNCHANGED <<parent, blocked, run, triggered, signaled, count, ttl, pipe>>
     \/ TracerFails

Counted == IF triggered THEN count + 1 ELSE count

Dead == at' = "killed" /\ UNCHANGED <<left, ran, active, nested, total, round>>

\* Mutant: the stop is counted only after the test.
TimeUpLate == ttl # 0 /\ count >= ttl

TimeUp == ttl # 0 /\ Counted >= ttl

\* A stop of the parent: count it, and kill the parent when its time is up.
Kill ==
  /\ TimeUp
  /\ count' = Counted
  /\ Dead
  /\ run' = "free" /\ tracer' = "exit"
  /\ UNCHANGED <<blocked, sigstop, triggered, signaled, ttl, pipe>>

Resume(how) ==
  /\ run' = how
  /\ count' = Counted
  /\ UNCHANGED <<sigstop, active, nested, total, round, tracer, ttl, pipe>>

\* The parent waits in pretrigger: PTRACE_SYSCALL with SIGRTMIN+15.  The kernel
\* enters the handler with the signal blocked, and leaves a signal that is
\* blocked already pending.  longjmp does not unblock it: setjmp saves no mask.
Signal ==
  /\ InPretrigger /\ ~signaled
  /\ signaled' = TRUE
  /\ at' = IF blocked THEN at ELSE "handler"
  /\ blocked' = TRUE
  /\ Resume("syscall")
  /\ UNCHANGED <<left, ran, triggered>>

\* Mutant: the call of trigger itself is counted too.
TriggeredCounts ==
  /\ at = "trigger"
  /\ triggered' = TRUE
  /\ run' = "step" /\ count' = 1
  /\ UNCHANGED <<parent, blocked, signaled, sigstop, tracer, ttl, pipe>>

Triggered ==
  /\ at = "trigger"
  /\ triggered' = TRUE
  /\ Resume("step")
  /\ UNCHANGED <<at, left, ran, blocked, signaled>>

Detach ==
  /\ at = "icount_stop"
  /\ run' = "free"
  /\ tracer' = "write"
  /\ count' = Counted
  /\ UNCHANGED <<parent, blocked, sigstop, triggered, signaled, ttl, pipe>>

SingleStep ==
  /\ ~(InPretrigger /\ ~signaled)
  /\ at \notin {"trigger", "icount_stop", "exited"}
  /\ Resume("step")
  /\ UNCHANGED <<at, left, ran, blocked, triggered, signaled>>

\* waitpid reports a stop of the parent.
Stopped ==
  /\ tracer = "wait" /\ run = "stopped" /\ at # "exited"
  /\ \/ Kill
     \/ /\ ~TimeUp
        /\ Signal \/ Triggered \/ Detach \/ SingleStep
     \/ TracerFails

\* waitpid reports that the parent has exited: FATAL.
TraceeExited == tracer = "wait" /\ at = "exited" /\ TracerFails

Write ==
  /\ tracer = "write"
  /\ \/ /\ tracer' = "exit"
        /\ pipe' = <<count>>
        /\ UNCHANGED <<parent, kernel, triggered, signaled, count, ttl>>
     \/ TracerFails

-----------------------------------------------------------------------------
Init ==
  /\ at = "main" /\ left = 0 /\ ran = 0
  /\ blocked = FALSE /\ run = "free" /\ sigstop = FALSE
  /\ active = FALSE /\ nested = FALSE /\ total = 0 /\ round = 0
  /\ tracer = "none" /\ triggered = FALSE /\ signaled = FALSE
  /\ count = 0 /\ ttl = 0 /\ pipe = <<>>

Parent == ParentStep \/ ParentExits \/ SyscallStop \/ ReadCount \/ WaitChild \/ AttachStop

Tracer == Attach \/ Stopped \/ TraceeExited \/ Write

Next == (\E life \in Ttls : IcountStart(life)) \/ Parent \/ Tracer

\* The scheduler runs every process that can run.
Spec == Init /\ [][Next]_vars /\ WF_vars(Parent) /\ WF_vars(Tracer)

-----------------------------------------------------------------------------
(* What a program may rely on                                               *)

TypeOK ==
  /\ at \in {"main", "fork", "pretrigger", "loop", "handler", "trigger", "snippet",
            "icount_stop", "exited", "killed"} \cup Syscalls
  /\ left \in 0 .. Snippet /\ ran \in 0 .. Snippet + 1
  /\ blocked \in BOOLEAN /\ sigstop \in BOOLEAN
  /\ active \in BOOLEAN /\ nested \in BOOLEAN
  /\ triggered \in BOOLEAN /\ signaled \in BOOLEAN
  /\ run \in {"free", "stopped", "step", "syscall"}
  /\ run # "free" \/ sigstop => tracer = "wait"
  /\ total \in 0 .. Snippet + 1 /\ count \in 0 .. Snippet + 1
  /\ round \in 0 .. Rounds
  /\ tracer \in {"none", "attach", "wait", "write", "exit", "failed"}
  /\ ttl \in Ttls \cup {0}

\* However far the parent had got when the tracer attached to it, the count that
\* icount_total returns is the number of instructions run from the call of
\* trigger to icount_stop; when the tracer failed it is 0, never a part of it.
CountExact ==
  at = "main" /\ round > 0 => total = ran \/ (tracer = "failed" /\ total = 0)

\* A simulated crash comes after exactly life_remaining instructions of the code
\* under test, neither one early nor one late.
DiesOnTime == at = "killed" => ran = ttl

\* README:45-52 has the program start to count and stop more than once ("the last
\* pair of icount_start/icount_stop calls"): a count that was started returns,
\* or the program dies, or the tracer has failed.
CountsEnd == at # "main" ~> at \in {"main", "exited", "killed"} \/ tracer = "failed"
================================================================================
