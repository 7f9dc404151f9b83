------------------------------ MODULE MCPmemalloc ------------------------------
(***************************************************************************)
(* Small pools for TLC: roots in the static area, and a word b in the first  *)
(* data chunk of the pool.                                                  *)
(***************************************************************************)
EXTENDS Pmemalloc, TLC

CONSTANTS r1, r2, b

OneRoot  == [c \in {r1} |-> 0]
TwoRoots == [c \in {r1, r2} |-> 0]
RootAndData == [c \in {r1, b} |-> IF c = b THEN 2 ELSE 0]
===============================================================================
