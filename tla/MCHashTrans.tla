------------------------------ MODULE MCHashTrans ------------------------------
(***************************************************************************)
(* Three items in a table of two slots that grows to three: the third insertion *)
(* expands it, and equal, zero and colliding hash values all occur.            *)
(***************************************************************************)
EXTENDS HashTrans

AllBuilds   == {"obj", "word", "redo", "nv"}
TwoThree    == <<2, 3>>
SmallHashes == [1 .. ITEM_COUNT -> 0 .. 2]
================================================================================
