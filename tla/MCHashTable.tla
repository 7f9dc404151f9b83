------------------------------ MODULE MCHashTable ------------------------------
(***************************************************************************)
(* A small table: two pairs of equal keys and a fifth, whose hash values meet  *)
(* in different slots at each length.                                        *)
(***************************************************************************)
EXTENDS HashTable

FiveObjects == 1 .. 5
PairsOf     == [o \in FiveObjects |-> CASE o \in {1, 2} -> "a" [] o \in {3, 4} -> "b"
                                        [] OTHER -> "c"]
SpreadHash  == [n \in {"a", "b", "c"} |-> CASE n = "a" -> 1 [] n = "b" -> 6
                                            [] OTHER -> 3]
OneTwoFive  == <<1, 2, 5>>
================================================================================
