--------------------------------- MODULE BTree ---------------------------------
(***************************************************************************)
(* The B-tree of btree-1.0/bt_code.c.  One action per turn of the descending *)
(* recursion of an insertion and of each case of a deletion.                 *)
(*                                                                         *)
(* A node is its keys in use and, when it is not a leaf, its children: n is   *)
(* the number of keys, and what the arrays hold beyond n is left out.        *)
(***************************************************************************)
EXTENDS Integers, Sequences, SequencesExt, FiniteSetsExt

CONSTANTS
  Keys,       \* the keys callers use, compared as numbers
  None,       \* no key
  T,          \* btr->t
  MaxNodes,   \* nodes the pool has room for
  MaxKeys,    \* bound on the keys in the tree
  Bags        \* bound: how often each key may be in the tree, one of these

ASSUME KeysAssumption == Keys \subseteq Nat /\ None \notin Keys
ASSUME SizesAssumption ==
  /\ T \in Nat /\ T >= 2
  /\ MaxNodes \in Nat \ {0} /\ MaxKeys \in Nat
  /\ Bags \subseteq [Keys -> Nat]

VARIABLES
  heap,    \* the nodes, in the order of their reservation
  root,    \* btr->root
  pc,      \* what the running call does next
  x, k, s, \* the arguments of the running activation
  pend,    \* <<x, i>>: KEYS(btr, x)[i] waits for the result of a deletion, or <<>>
  kp,      \* the key a finished activation returns
  ret,     \* what the last bt_delete returned
  before   \* the bag of keys when the running call began, for the properties

vars == <<heap, root, pc, x, k, s, pend, kp, ret, before>>

Full == 2 * T - 1

Node  == [leaf : BOOLEAN, key : Seq(Keys), kid : Seq(Nat)]
Empty == [leaf |-> TRUE, key |-> <<>>, kid |-> <<>>]

\* FREE does nothing in this build: the node stays reserved.  Nobody reads it.
Freed == Empty

Base == 0   \* PMEM(Pmp, NULL), the pool itself

-----------------------------------------------------------------------------
(* Indices are those of the code: KEYS(btr, x)[i] is Key(n, i).              *)

N(n)      == Len(n.key)
Key(n, i) == n.key[i + 1]
Kid(n, i) == n.kid[i + 1]

SetKey(n, i, e)  == [n EXCEPT !.key[i + 1] = e]
PutKey(n, i, e)  == [n EXCEPT !.key = InsertAt(@, i + 1, e)]
DropKey(n, i)    == [n EXCEPT !.key = RemoveAt(@, i + 1)]
PutKid(n, i, e)  == IF n.leaf THEN n ELSE [n EXCEPT !.kid = InsertAt(@, i + 1, e)]
DropKid(n, i)    == IF n.leaf THEN n ELSE [n EXCEPT !.kid = RemoveAt(@, i + 1)]

\* findkindex: the last index whose key is not greater than e, or -1.  The
\* binary search itself is BTreeSearch.
FindKIndex(n, e) == Quantify(1 .. N(n), LAMBDA j : n.key[j] <= e) - 1

Reachable ==
  LET below[d \in 0 .. Len(heap)] ==
        IF d = 0 THEN {root}
        ELSE LET above == below[d - 1] IN above \cup UNION {ToSet(heap[n].kid) : n \in above}
  IN below[Len(heap)]

\* Where the keys of the tree are, and how often each of them is in it.
Places == {p \in Reachable \X (1 .. Full) : p[2] <= N(heap[p[1]])}

Bag == [e \in Keys |-> Quantify(Places, LAMBDA p : heap[p[1]].key[p[2]] = e)]

-----------------------------------------------------------------------------
NoBag == [e \in Keys |-> 0]

\* The call returns; its locals are gone.
Return == pc' = "idle" /\ x' = 1 /\ k' = None /\ s' = 0 /\ kp' = None /\ before' = NoBag

(* Insertion                                                                *)

\* btreesplitchild: y, the full child i of n, gives its upper half to a new z.
Half(q, first, last) == IF q = <<>> THEN q ELSE SubSeq(q, first, last)

\* Mutant: the key that goes up is the first of z, not the last of y.
SplitChildUp(h, n, i) ==
  LET yid == Kid(h[n], i)
      y == h[yid]
      z == [leaf |-> y.leaf, key |-> SubSeq(y.key, T + 1, Full), kid |-> Half(y.kid, T + 1, 2 * T)]
  IN Append([h EXCEPT ![yid].key = SubSeq(y.key, 1, T - 1), ![yid].kid = Half(y.kid, 1, T),
                      ![n] = PutKey(PutKid(@, i + 1, Len(h) + 1), i, Key(y, T))], z)

SplitChild(h, n, i) ==
  LET yid == Kid(h[n], i)
      y == h[yid]
      z == [leaf |-> y.leaf, key |-> SubSeq(y.key, T + 1, Full), kid |-> Half(y.kid, T + 1, 2 * T)]
  IN Append([h EXCEPT ![yid].key = SubSeq(y.key, 1, T - 1), ![yid].kid = Half(y.kid, 1, T),
                      ![n] = PutKey(PutKid(@, i + 1, Len(h) + 1), i, Key(y, T - 1))], z)

\* A reservation that fails is not noticed: the node is laid over the pool header.
Overwrite ==
  /\ pc' = "lost" /\ before' = IF pc = "idle" THEN Bag ELSE before
  /\ UNCHANGED <<heap, root, x, k, s, pend, kp, ret>>

Room(n) == Len(heap) + n <= MaxNodes

\* bt_insert, which alone makes the tree higher.
Grow(e) ==
  /\ N(heap[root]) = Full
  /\ IF Room(2)
       THEN LET top == Len(heap) + 1
            IN /\ heap' = SplitChild(Append(heap, [Empty EXCEPT !.leaf = FALSE, !.kid = <<root>>]),
                                     top, 0)
               /\ root' = top /\ x' = top
               /\ pc' = "insert" /\ k' = e /\ before' = Bag
               /\ UNCHANGED <<s, pend, kp, ret>>
       ELSE Overwrite

Insert(e) ==
  /\ pc = "idle"
  /\ Cardinality(Places) < MaxKeys
  /\ LET more == [Bag EXCEPT ![e] = @ + 1]
     IN \E b \in Bags : \A d \in Keys : more[d] <= b[d]
  /\ \/ Grow(e)
     \/ /\ N(heap[root]) # Full
        /\ pc' = "insert" /\ x' = root /\ k' = e /\ before' = Bag
        /\ UNCHANGED <<heap, root, s, pend, kp, ret>>

\* btreeinsertnonfull.
InsertLeaf ==
  /\ pc = "insert" /\ heap[x].leaf
  /\ heap' = [heap EXCEPT ![x] = PutKey(@, FindKIndex(@, k) + 1, k)]
  /\ pc' = "idle"
  /\ UNCHANGED <<root, x, k, s, pend, kp, ret, before>>

InsertDescend ==
  /\ pc = "insert" /\ ~heap[x].leaf
  /\ LET i == FindKIndex(heap[x], k) + 1
         full == N(heap[Kid(heap[x], i)]) = Full
         h == IF full THEN SplitChild(heap, x, i) ELSE heap
         next == IF full /\ k > Key(h[x], i) THEN i + 1 ELSE i
     IN IF full /\ ~Room(1) THEN Overwrite
        ELSE /\ heap' = h /\ x' = Kid(h[x], next)
             /\ UNCHANGED <<root, pc, k, s, pend, kp, ret, before>>

-----------------------------------------------------------------------------
(* Deletion: nodedeletekey.  s = 0 deletes k, 1 the greatest key of x, 2 the  *)
(* smallest.  "If the key doesn't exist in it, unexpected results may         *)
(* happen" (line 631): callers delete keys the tree has.                     *)

Delete(e) ==
  /\ pc = "idle" /\ Bag[e] > 0
  /\ pc' = "delete" /\ x' = root /\ k' = e /\ s' = 0 /\ before' = Bag
  /\ UNCHANGED <<heap, root, pend, kp, ret>>

Index == CASE s = 0 -> FindKIndex(heap[x], k)
           [] s = 1 -> N(heap[x]) - 1
           [] s = 2 -> -1

\* r == 0: the key is in this inner node.
Hit == s = 0 /\ Index >= 0 /\ Key(heap[x], Index) = k

Inner == pc = "delete" /\ ~heap[x].leaf
Child(i) == Kid(heap[x], i)
Kids(i)  == N(heap[Child(i)])

\* Case 1.
DeleteLeaf ==
  /\ pc = "delete" /\ heap[x].leaf
  /\ LET i == IF s = 2 THEN Index + 1 ELSE Index
     IN /\ kp' = Key(heap[x], i)
        /\ heap' = [heap EXCEPT ![x] = DropKey(@, i)]
  /\ pc' = IF pend = <<>> THEN "shrink" ELSE "replace"
  /\ UNCHANGED <<root, x, k, s, pend, ret, before>>

\* Cases 2a and 2b: delete the neighbouring key below, then put it in place of k.
DeleteBelow(i, which) ==
  /\ pend' = <<x, Index>>
  /\ x' = Child(i) /\ s' = which
  /\ UNCHANGED <<heap, root, pc, k, kp, ret, before>>

DeletePred == Inner /\ Hit /\ Kids(Index) >= T /\ DeleteBelow(Index, 1)

DeleteSucc ==
  Inner /\ Hit /\ Kids(Index) < T /\ Kids(Index + 1) >= T /\ DeleteBelow(Index + 1, 2)

Replace ==
  /\ pc = "replace"
  /\ kp' = Key(heap[pend[1]], pend[2])
  /\ heap' = [heap EXCEPT ![pend[1]] = SetKey(@, pend[2], kp)]
  /\ pend' = <<>> /\ pc' = "shrink"
  /\ UNCHANGED <<root, x, k, s, ret, before>>

\* Child i, the key e and child i + 1 become child i.
Merged(i, e) ==
  LET y == Child(i)
      z == Child(i + 1)
  IN [heap EXCEPT ![y].key = @ \o <<e>> \o heap[z].key, ![y].kid = @ \o heap[z].kid,
                  ![x] = DropKid(DropKey(@, i), i + 1), ![z] = Freed]

GoOn(h, child) ==
  /\ heap' = h /\ x' = child
  /\ UNCHANGED <<root, pc, k, s, pend, kp, ret, before>>

\* Case 2c.
MergeAround ==
  /\ Inner /\ Hit
  /\ Kids(Index) = T - 1 /\ Kids(Index + 1) = T - 1
  /\ GoOn(Merged(Index, k), Child(Index))

\* Case 3: the child to go on in, and whether it needs another key first.
Next3 == Index + 1
Thin == Inner /\ ~Hit /\ Kids(Next3) = T - 1

\* Mutant: a sibling that has no key to spare lends one.
RichLeftPoor == Next3 > 0

RichLeft  == Next3 > 0 /\ Kids(Next3 - 1) >= T
RichRight == Next3 < N(heap[x]) /\ Kids(Next3 + 1) >= T

\* Mutant: the recursion goes on in x.
DescendNowhere == Inner /\ ~Hit /\ ~Thin /\ GoOn(heap, x)

Descend == Inner /\ ~Hit /\ ~Thin /\ GoOn(heap, Child(Next3))

\* Case 3a, with the left and with the right sibling.
\* Mutant: the left sibling lends its first key.
BorrowLeftFirst ==
  /\ Thin /\ RichLeft
  /\ LET i == Next3
         y == heap[Child(i - 1)]
         moved == IF y.leaf THEN 0 ELSE Kid(y, 0)
     IN GoOn([heap EXCEPT
                ![Child(i)] = PutKid(PutKey(@, 0, Key(heap[x], i - 1)), 0, moved),
                ![x] = SetKey(@, i - 1, Key(y, 0)),
                ![Child(i - 1)] = DropKid(DropKey(@, 0), 0)],
             Child(i))

BorrowLeft ==
  /\ Thin /\ RichLeft
  /\ LET i == Next3
         y == heap[Child(i - 1)]
         moved == IF y.leaf THEN 0 ELSE Kid(y, N(y))
     IN GoOn([heap EXCEPT
                ![Child(i)] = PutKid(PutKey(@, 0, Key(heap[x], i - 1)), 0, moved),
                ![x] = SetKey(@, i - 1, Key(y, N(y) - 1)),
                ![Child(i - 1)] = DropKid(DropKey(@, N(y) - 1), N(y))],
             Child(i))

BorrowRight ==
  /\ Thin /\ ~RichLeft /\ RichRight
  /\ LET i == Next3
         y == heap[Child(i + 1)]
         moved == IF y.leaf THEN 0 ELSE Kid(y, 0)
     IN GoOn([heap EXCEPT
                ![Child(i)] = PutKid(PutKey(@, T - 1, Key(heap[x], i)), T, moved),
                ![x] = SetKey(@, i, Key(y, 0)),
                ![Child(i + 1)] = DropKid(DropKey(@, 0), 0)],
             Child(i))

\* Case 3b, with the left and with the right sibling.
MergeLeft ==
  /\ Thin /\ ~RichLeft /\ ~RichRight /\ Next3 > 0
  /\ GoOn(Merged(Next3 - 1, Key(heap[x], Next3 - 1)), Child(Next3 - 1))

MergeRight ==
  /\ Thin /\ ~RichRight /\ Next3 = 0
  /\ GoOn(Merged(0, Key(heap[x], 0)), Child(0))

\* The end of bt_delete, which alone makes the tree lower.
Shrink ==
  /\ pc = "shrink"
  /\ IF heap[root].key = <<>> /\ ~heap[root].leaf
       THEN root' = Kid(heap[root], 0) /\ heap' = [heap EXCEPT ![root] = Freed]
       ELSE UNCHANGED <<root, heap>>
  /\ ret' = kp /\ Return
  /\ UNCHANGED pend

-----------------------------------------------------------------------------
(* The calls that only read: findnodekey, findminnode and findmaxnode.       *)

Find(e) ==
  LET nodes == Reachable
      find[d \in 0 .. Len(heap)] ==
        [n \in nodes |->
           LET i == FindKIndex(heap[n], e)
           IN IF i >= 0 /\ Key(heap[n], i) = e THEN e
              ELSE IF heap[n].leaf \/ d = 0 THEN None
              ELSE find[d - 1][Kid(heap[n], i + 1)]]
  IN find[Len(heap)][root]

EndKey(last) ==
  LET nodes == Reachable
      end[d \in 0 .. Len(heap)] ==
        [n \in nodes |->
           IF heap[n].leaf \/ d = 0 THEN Key(heap[n], IF last THEN N(heap[n]) - 1 ELSE 0)
           ELSE end[d - 1][Kid(heap[n], IF last THEN N(heap[n]) ELSE 0)]]
  IN end[Len(heap)][root]

MinMax == <<EndKey(FALSE), EndKey(TRUE)>>

Look == pc = "idle" /\ UNCHANGED vars

-----------------------------------------------------------------------------
\* bt_create: one empty leaf.
Init ==
  /\ heap = <<Empty>> /\ root = 1 /\ pc = "idle"
  /\ x = 1 /\ k = None /\ s = 0 /\ pend = <<>> /\ kp = None /\ ret = None
  /\ before = NoBag

Step ==
  \/ InsertLeaf \/ InsertDescend
  \/ DeleteLeaf \/ DeletePred \/ DeleteSucc \/ Replace \/ MergeAround
  \/ Descend \/ BorrowLeft \/ BorrowRight \/ MergeLeft \/ MergeRight \/ Shrink

Next == Step \/ Look \/ \E e \in Keys : Insert(e) \/ Delete(e)

Spec == Init /\ [][Next]_vars

FairSpec == Spec /\ WF_vars(Step)

-----------------------------------------------------------------------------
TypeOK ==
  /\ heap \in Seq(Node) /\ Len(heap) \in 1 .. MaxNodes
  /\ root \in DOMAIN heap /\ x \in DOMAIN heap
  /\ pc \in {"idle", "insert", "delete", "replace", "shrink", "lost"}
  /\ k \in Keys \cup {None} /\ kp \in Keys \cup {None} /\ ret \in Keys \cup {None}
  /\ s \in 0 .. 2
  /\ pend = <<>> \/ pend \in (DOMAIN heap) \X (0 .. Full - 1)
  /\ before \in [Keys -> 0 .. MaxKeys]

\* The shape of a B-tree, at every step of every call: all leaves are equally deep,
\* no node but the root has less than T - 1 keys and none more than 2T - 1, and no
\* node has two parents.  bt_output.c:91 exits on "node, to few or to many".
LeafDepths ==
  LET nodes == Reachable
      deep[d \in 0 .. Len(heap)] ==
        [n \in nodes |-> IF heap[n].leaf \/ d = 0 THEN {d}
                         ELSE UNION {deep[d - 1][c] : c \in ToSet(heap[n].kid)}]
  IN deep[Len(heap)][root]

WellShaped ==
  /\ TypeOK
  /\ Cardinality(LeafDepths) = 1
  /\ \A n \in Reachable :
       /\ n # root => N(heap[n]) >= T - 1
       /\ N(heap[n]) <= Full
       /\ ~heap[n].leaf => Len(heap[n].kid) = N(heap[n]) + 1
       /\ \A m \in Reachable : m # n => ToSet(heap[m].kid) \cap ToSet(heap[n].kid) = {}

\* checkbtreenode: 1 when every key lies strictly between its neighbours.
CheckNode(kmin, kmax) ==
  LET nodes == Reachable
      check[d \in 0 .. Len(heap)] ==
        [n \in nodes |-> [lo \in Int |-> [hi \in Int |->
           LET bound == <<lo>> \o heap[n].key \o <<hi>>
           IN \A i \in 1 .. N(heap[n]) + 1 :
                IF heap[n].leaf \/ d = 0 THEN bound[i] < bound[i + 1]
                ELSE check[d - 1][heap[n].kid[i]][bound[i]][bound[i + 1]]]]]
  IN check[Len(heap)][root][kmin][kmax]

CheckTree == CheckNode(-1, Max(Keys \cup {0}) + 1)

\* Between calls, and also with keys that are in the tree several times, bt_find
\* finds exactly the keys in it, bt_min its smallest and bt_max its greatest; as
\* long as no key is in it twice, bt_checktree accepts the tree.
Searchable ==
  pc = "idle" =>
    /\ (\A e \in Keys : Bag[e] <= 1) => CheckTree
    /\ \A e \in Keys : Find(e) = IF Bag[e] > 0 THEN e ELSE None
    /\ Places # {} =>
         LET all == {e \in Keys : Bag[e] > 0} IN MinMax = <<Min(all), Max(all)>>

KB == INSTANCE KeyBag WITH keys <- IF pc = "idle" THEN Bag ELSE before

\* An insertion adds its key and nothing else, a deletion takes its key and nothing
\* else and returns it, whatever splits, borrows and merges happen on the way.
ImplementsBag == KB!Spec

\* Every call returns, or finds the pool full.
CallsReturn == pc # "idle" ~> pc \in {"idle", "lost"}
================================================================================
