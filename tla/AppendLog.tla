------------------------------- MODULE AppendLog -------------------------------
(***************************************************************************)
(* What libpmemlog promises: a log that grows by whole records and is emptied *)
(* as a whole, and that no crash changes.                                    *)
(***************************************************************************)
EXTENDS Naturals, Sequences

CONSTANTS
  Records,   \* what may be appended, in one call
  Space      \* usable size of the log

VARIABLE log

Init == log = <<>>

Append1(r) == Len(log) + Len(r) <= Space /\ log' = log \o r

Rewind == log' = <<>>

Next == Rewind \/ \E r \in Records : Append1(r)

Spec == Init /\ [][Next]_log
===============================================================================
