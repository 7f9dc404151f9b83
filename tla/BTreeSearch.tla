------------------------------ MODULE BTreeSearch ------------------------------
(***************************************************************************)
(* The binary search within a node of the B-tree (btree-1.0/bt_code.c), the   *)
(* table of logarithms it uses, which all trees of a process share, and the   *)
(* parameters bt_create computes.                                            *)
(***************************************************************************)
EXTENDS Integers, Sequences, FiniteSetsExt

CONSTANTS
  Keys,      \* the keys, compared as numbers
  Fits,      \* how many keys the node size of a caller leaves room for
  MaxTrees   \* bound on the trees of a process

ASSUME SearchAssumption == Keys \subseteq Nat /\ Fits \subseteq Nat /\ MaxTrees \in Nat

VARIABLES
  trees,     \* <<nkeys, nbits>> of the trees created
  table,     \* table[a + 1] is the code's table[a]; its length is alloced
  pc,
  key, k, nbits,   \* the node that is searched, what for, and in which tree
  a, i, r    \* the locals of findkindex

vars == <<trees, table, pc, key, k, nbits, a, i, r>>

IntBits == 32

\* real_log2: the bits of the logarithm, from the highest.
RealLog2(v, bits) ==
  LET half[b \in Nat, u \in Nat, log \in Nat] ==
        IF b = 0 THEN log
        ELSE IF u >= 2 ^ b THEN half[b \div 2, u \div 2 ^ b, 2 * log + 1]
        ELSE half[b \div 2, u % 2 ^ b, 2 * log]
  IN half[(bits + 1) \div 2, v, 0]

\* log2: the table after log2(v, bits), which has then read table[v].
Extended(tab, v) ==
  IF v > Len(tab) THEN tab \o [j \in 1 .. v + 1 - Len(tab) |-> -1] ELSE tab

Cached(tab, v, bits) ==
  LET e == Extended(tab, v)
  IN IF e[v + 1] = -1 THEN [e EXCEPT ![v + 1] = RealLog2(v, bits)] ELSE e

\* The test v > alloced lets v = alloced through: table[v] is then past the end.
Wild(tab, v) == v = Len(tab)

\* bt_create.  Mutant: a node uses all the room there is, not 2t - 1 keys.
CreateFull ==
  /\ pc = "idle" /\ Cardinality(trees) < MaxTrees
  /\ \E n \in Fits :
       /\ (n + 1) \div 2 >= 2
       /\ IF Wild(table, n)
            THEN pc' = "wild" /\ UNCHANGED <<trees, table>>
            ELSE LET t1 == Cached(table, n, IntBits)
                     bits == t1[n + 1] + 1
                     t2 == Cached(t1, bits, IntBits)
                 IN /\ table' = t2
                    /\ trees' = trees \cup {<<n, 2 ^ (t2[bits + 1] + 1)>>}
                    /\ pc' = pc
  /\ UNCHANGED <<key, k, nbits, a, i, r>>

Create ==
  /\ pc = "idle" /\ Cardinality(trees) < MaxTrees
  /\ \E fit \in Fits :
       LET t == (fit + 1) \div 2
           n == 2 * t - 1
           t1 == Cached(table, n, IntBits)
           bits == t1[n + 1] + 1
           t2 == Cached(t1, bits, IntBits)
       IN /\ t >= 2
          /\ IF Wild(table, n) \/ Wild(t1, bits)
               THEN pc' = "wild" /\ UNCHANGED <<trees, table>>
               ELSE /\ table' = t2
                    /\ trees' = trees \cup {<<n, 2 ^ (t2[bits + 1] + 1)>>}
                    /\ pc' = pc
  /\ UNCHANGED <<key, k, nbits, a, i, r>>

Ordered(n) == {q \in [1 .. n -> Keys] : \A j \in 1 .. n - 1 : q[j] <= q[j + 1]}

\* findkindex, on a node with at least one key.
Search ==
  /\ pc = "idle"
  /\ \E tree \in trees, want \in Keys :
       \E n \in 1 .. tree[1] : \E q \in Ordered(n) :
         /\ key' = q /\ k' = want /\ nbits' = tree[2]
         /\ a' = n - 1 /\ i' = 0 /\ r' = 0
  /\ pc' = "probe"
  /\ UNCHANGED <<trees, table>>

\* What cmp returns: its sign.
Cmp(e) == IF k < e THEN -1 ELSE IF k = e THEN 0 ELSE 1

\* Mutant: an equal key sends the search to the left.
ProbeEqualLeft ==
  /\ pc = "probe" /\ a > 0
  /\ table' = Cached(table, a, nbits)
  /\ LET p == 2 ^ table'[a + 1]
     IN /\ r' = Cmp(key[p + i + 1])
        /\ IF r' <= 0 THEN a' = p - 1 /\ i' = i
                      ELSE a' = a - p /\ i' = i + p
  /\ UNCHANGED <<trees, pc, key, k, nbits>>

Probe ==
  /\ pc = "probe" /\ a > 0
  /\ ~Wild(table, a)
  /\ table' = Cached(table, a, nbits)
  /\ LET p == 2 ^ table'[a + 1]
     IN /\ r' = Cmp(key[p + i + 1])
        /\ IF r' < 0 THEN a' = p - 1 /\ i' = i
                     ELSE a' = a - p /\ i' = i + p
  /\ UNCHANGED <<trees, pc, key, k, nbits>>

ProbeLast ==
  /\ pc = "probe" /\ a = 0
  /\ r' = Cmp(key[i + 1])
  /\ i' = IF r' < 0 THEN i - 1 ELSE i
  /\ pc' = "found"
  /\ UNCHANGED <<trees, table, key, k, nbits, a>>

Return ==
  /\ pc = "found"
  /\ pc' = "idle" /\ key' = <<>> /\ k' = 0 /\ nbits' = 0 /\ a' = 0 /\ i' = 0 /\ r' = 0
  /\ UNCHANGED <<trees, table>>

Init ==
  /\ trees = {} /\ table = <<>> /\ pc = "idle"
  /\ key = <<>> /\ k = 0 /\ nbits = 0 /\ a = 0 /\ i = 0 /\ r = 0

Next == Create \/ Search \/ Probe \/ ProbeLast \/ Return

Spec == Init /\ [][Next]_vars

-----------------------------------------------------------------------------
\* No read leaves the table or the node: the off-by-one of the test a > alloced
\* (bt_code.c:227) is harmless, and every probe hits a key in use.
NoWildRead ==
  /\ pc # "wild"
  /\ pc = "probe" => a # Len(table) /\ a + i < Len(key)

\* findkindex finds the last key that is not greater than k, and r says whether it is equal: what nodedeletekey and
\* findnodekey conclude from them.
SearchIsRank ==
  pc = "found" =>
    /\ i = Quantify(DOMAIN key, LAMBDA j : key[j] <= k) - 1
    /\ r = 0 <=> i >= 0 /\ key[i + 1] = k
================================================================================
