------------------------------- MODULE PmemPool -------------------------------
(***************************************************************************)
(* What pmemalloc_activate and pmemalloc_free promise a program: a pool of   *)
(* allocated blocks and a few root pointers, both of which change only in    *)
(* whole steps and survive every crash.  A root is null or points at an      *)
(* allocated block, and no two allocated blocks share memory.                *)
(***************************************************************************)
EXTENDS Integers

CONSTANT Roots

VARIABLES
  blocks,   \* allocated blocks: the size of each, by its first chunk
  root      \* the program's root pointers, 0 for a null one

Null == 0
Used == DOMAIN blocks

Disjoint(p, s, q, t) == p + s <= q \/ q + t <= p

RootsValid == \A c \in Roots : root[c] \in Used \cup {Null}

Init == blocks = [p \in {} |-> 0] /\ root = [c \in Roots |-> Null]

\* A new block that overlaps no other, linked from the roots in D.
Activate(p, s, D) ==
  /\ p \notin Used
  /\ \A q \in Used : Disjoint(p, s, q, blocks[q])
  /\ blocks' = [q \in Used \cup {p} |-> IF q = p THEN s ELSE blocks[q]]
  /\ root' = [c \in Roots |-> IF c \in D THEN p ELSE root[c]]

\* A block goes away together with every root that points at it.
Free(p) ==
  /\ p \in Used
  /\ blocks' = [q \in Used \ {p} |-> blocks[q]]
  /\ root' = [c \in Roots |-> IF root[c] = p THEN Null ELSE root[c]]

Next ==
  \/ \E p \in Used' \ Used, D \in SUBSET Roots : Activate(p, blocks'[p], D)
  \/ \E p \in Used \ Used' : Free(p)

Spec == Init /\ [][Next]_<<blocks, root>>
=============================================================================
