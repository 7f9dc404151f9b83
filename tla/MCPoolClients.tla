---------------------------- MODULE MCPoolClients ----------------------------
(***************************************************************************)
(* A pool of six chunks for TLC.  A node with a short word lies in two of    *)
(* them, one with a long word in three, so that nodes start at 1, 3, 4 and   *)
(* 5; chunks 5 and 6 are the last of a long node and the first of a short    *)
(* one, and 4 to 6 may have been a header before.                            *)
(***************************************************************************)
EXTENDS PoolClients, TLC

Starts == {1, 3, 4, 5}

MCCells == {root} \cup ({"left", "right", "count", "text"} \X Starts)
MCMaxNodes == [p \in Programs |-> IF p \in {"tree", "tree_orig"} THEN 2 ELSE 4]
MCAt == [c \in MCCells |-> IF c = root THEN 0 ELSE c[2] + 1]
MCLength == <<10, 100>>
===============================================================================
