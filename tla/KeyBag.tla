--------------------------------- MODULE KeyBag ---------------------------------
(***************************************************************************)
(* What a B-tree and a hash table promise: a bag of keys.                    *)
(***************************************************************************)
EXTENDS Naturals

CONSTANTS Keys, None

VARIABLES
  keys,   \* how often each key is in the bag
  ret     \* what the last removal handed back

Init == keys = [k \in Keys |-> 0] /\ ret = None

Insert(k) == UNCHANGED ret /\ keys' = [keys EXCEPT ![k] = @ + 1]

Delete(k) == ret' = k /\ keys[k] > 0 /\ keys' = [keys EXCEPT ![k] = @ - 1]

Next == \E k \in Keys : Insert(k) \/ Delete(k)

Spec == Init /\ [][Next]_<<keys, ret>>
================================================================================
