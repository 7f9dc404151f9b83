------------------------------ MODULE BTreeShapes ------------------------------
(***************************************************************************)
(* B-trees as such, for every t and every set of keys: what a tree is, and    *)
(* what the operations of btree-1.0 on one, two or three of its nodes make    *)
(* of it.                                                                    *)
(*                                                                         *)
(* A tree is given by a set V of nodes, for each its height L above the       *)
(* leaves and the range R of the keys it has room for.  Held says that these  *)
(* fit the nodes and that no node is too full or too thin.  Every operation   *)
(* on nodes takes a held tree to a held tree: a split is a Cut, a merge the   *)
(* same Cut backwards, and a loan a merge with another cut.                  *)
(***************************************************************************)
EXTENDS BTree, SequenceTheorems, FiniteSetTheorems, FunctionTheorems,
        WellFoundedInduction, TLAPS

-----------------------------------------------------------------------------
(* Induction and recursion                                                  *)

\* A set of numbers that holds 0 and the successor of each of its numbers up to n holds
\* them all.
LEMMA UpTo ==
  ASSUME NEW n \in Nat, NEW S, 0 \in S, \A j \in 0 .. n : j < n /\ j \in S => j + 1 \in S
  PROVE  \A j \in 0 .. n : j \in S
  <1> DEFINE Bad == {j \in 0 .. n : j \notin S}
  <1>1. SUFFICES ASSUME Bad # {} PROVE FALSE  OBVIOUS
  <1>2. PICK p \in Bad : \A q \in Bad : ~ (<<q, p>> \in OpToRel(<, Nat))
    <2>1. Bad \subseteq Nat  OBVIOUS
    <2> HIDE DEF Bad
    <2> QED  BY <1>1, <2>1, WFMin, NatLessThanWellFounded
  <1>3. p \in Nat /\ p # 0  OBVIOUS
  <1>4. PICK m \in 0 .. n : m = p - 1 /\ m < n /\ p = m + 1  BY <1>3
  <1>5. m \notin Bad
    <2>1. <<m, p>> \in {z \in Nat \X Nat : z[1] < z[2]}  BY <1>3, <1>4
    <2> QED  BY <1>2, <2>1 DEF OpToRel
  <1> QED  BY <1>4, <1>5

\* Each value of f from 1 to n is a step from the one before.
Stepped(f, w, step, n) == f[0] = w /\ \A j \in 1 .. n : f[j] = step[j][f[j - 1]]

\* A function whose value at j + 1 is a step from its value at j exists.
LEMMA Recursion ==
  ASSUME NEW W, NEW w \in W, NEW step \in [Nat -> [W -> W]], NEW n \in Nat
  PROVE  \E f \in [0 .. n -> W] : Stepped(f, w, step, n)
  <1> DEFINE Upto(f, m) ==
               f \in [0 .. m -> W] /\ f[0] = w /\ \A j \in 1 .. m : f[j] = step[j][f[j - 1]]
             S == {m \in 0 .. n : \E f : Upto(f, m)}
  <1>1. 0 \in S
    <2> DEFINE g == [j \in {0} |-> w]
    <2>1. g \in [0 .. 0 -> W]
      <3>1. 0 .. 0 = {0}  OBVIOUS
      <3> QED  BY <3>1
    <2>2. g[0] = w /\ \A j \in 1 .. 0 : g[j] = step[j][g[j - 1]]  OBVIOUS
    <2>3. Upto(g, 0)
      <3> HIDE DEF g
      <3> QED  BY <2>1, <2>2
    <2>4. 0 \in 0 .. n  OBVIOUS
    <2> HIDE DEF g, Upto
    <2> QED  BY <2>3, <2>4
  <1>2. ASSUME NEW m \in 0 .. n, m < n, m \in S  PROVE m + 1 \in S
    <2>1. PICK f : Upto(f, m)  BY <1>2
    <2> DEFINE g == [j \in 0 .. m + 1 |-> IF j = m + 1 THEN step[m + 1][f[m]] ELSE f[j]]
    <2>2. m \in Nat /\ m + 1 \in Nat  OBVIOUS
    <2>3. f[m] \in W  BY <2>1
    <2>4. step[m + 1][f[m]] \in W  BY <2>2, <2>3
    <2>5. g \in [0 .. m + 1 -> W]
      <3>1. ASSUME NEW j \in 0 .. m + 1, j # m + 1 PROVE f[j] \in W
        <4>1. j \in 0 .. m  BY <3>1
        <4> QED  BY <2>1, <4>1
      <3> QED  BY <2>4, <3>1
    <2>6. g[0] = w  BY <2>1, <2>2
    <2>7. ASSUME NEW j \in 1 .. m + 1 PROVE g[j] = step[j][g[j - 1]]
      <3>1. j - 1 \in 0 .. m + 1 /\ j - 1 # m + 1 /\ g[j - 1] = f[j - 1]  OBVIOUS
      <3>2. CASE j = m + 1
        <4>1. j - 1 = m /\ g[j] = step[m + 1][f[m]]  BY <3>2
        <4> QED  BY <3>1, <3>2, <4>1
      <3>3. CASE j # m + 1
        <4>1. j \in 1 .. m /\ g[j] = f[j]  BY <3>3
        <4> QED  BY <2>1, <3>1, <4>1
      <3> QED  BY <3>2, <3>3
    <2>8. Upto(g, m + 1)
      <3> HIDE DEF g
      <3> QED  BY <2>5, <2>6, <2>7
    <2>9. m + 1 \in 0 .. n  BY <1>2
    <2> HIDE DEF g, Upto
    <2> QED  BY <2>8, <2>9
  <1>3. \A j \in 0 .. n : j \in S
    <2> HIDE DEF S
    <2> QED  BY <1>1, <1>2, UpTo
  <1>4. n \in S  BY <1>3
  <1> QED  BY <1>4 DEF Stepped

\* The elements of a sequence.
LEMMA ElementsOf ==
  ASSUME NEW E, NEW q \in Seq(E)
  PROVE  /\ \A e : e \in ToSet(q) <=> \E i \in 1 .. Len(q) : q[i] = e
         /\ ToSet(q) \subseteq E
  <1>1. DOMAIN q = 1 .. Len(q) /\ \A i \in 1 .. Len(q) : q[i] \in E  BY LenProperties, ElementOfSeq
  <1> QED  BY <1>1 DEF ToSet

-----------------------------------------------------------------------------
(* Sequences with one element more or less.                                  *)

\* q is p with e put in at i.
Inserted(q, p, i, e) ==
  /\ Len(q) = Len(p) + 1 /\ i \in 1 .. Len(q) /\ q[i] = e
  /\ \A j \in 1 .. Len(p) : (j < i => q[j] = p[j]) /\ (j >= i => q[j + 1] = p[j])

\* InsertAt puts the element in.
LEMMA InsertedAt ==
  ASSUME NEW S, NEW p \in Seq(S), NEW e \in S, NEW i \in 1 .. Len(p) + 1
  PROVE  InsertAt(p, i, e) \in Seq(S) /\ Inserted(InsertAt(p, i, e), p, i, e)
  <1> DEFINE a == SubSeq(p, 1, i - 1)
             b == SubSeq(p, i, Len(p))
  <1>1. /\ a \in Seq(S) /\ Len(a) = i - 1 /\ \A j \in 1 .. i - 1 : a[j] = p[j]
    BY SubSeqProperties
  <1>2. /\ b \in Seq(S) /\ Len(b) = Len(p) - i + 1
        /\ \A j \in 1 .. Len(p) - i + 1 : b[j] = p[i + j - 1]
    BY SubSeqProperties
  <1> HIDE DEF a, b
  <1>3. /\ a \o <<e>> \in Seq(S) /\ Len(a \o <<e>>) = i /\ (a \o <<e>>)[i] = e
        /\ \A j \in 1 .. i - 1 : (a \o <<e>>)[j] = p[j]
    BY <1>1
  <1>4. PICK q : q = a \o <<e>>  OBVIOUS
  <1>5. /\ q \in Seq(S) /\ Len(q) = i /\ q[i] = e /\ \A j \in 1 .. i - 1 : q[j] = p[j]
    BY <1>3, <1>4
  <1>6. /\ q \o b \in Seq(S) /\ Len(q \o b) = Len(p) + 1 /\ (q \o b)[i] = e
        /\ \A j \in 1 .. i - 1 : (q \o b)[j] = p[j]
        /\ \A j \in i .. Len(p) : (q \o b)[j + 1] = p[j]
    <2>1. /\ q \o b \in Seq(S) /\ Len(q \o b) = Len(p) + 1
          /\ \A j \in 1 .. i : (q \o b)[j] = q[j]
          /\ \A j \in i + 1 .. Len(p) + 1 : (q \o b)[j] = b[j - i]
      BY <1>2, <1>5
    <2>2. \A j \in i .. Len(p) : b[j + 1 - i] = p[j]
      <3> SUFFICES ASSUME NEW j \in i .. Len(p)  PROVE b[j + 1 - i] = p[j]  OBVIOUS
      <3>1. j + 1 - i \in 1 .. Len(p) - i + 1 /\ i + (j + 1 - i) - 1 = j  OBVIOUS
      <3> QED  BY <1>2, <3>1
    <2> QED  BY <1>5, <2>1, <2>2
  <1>7. InsertAt(p, i, e) = q \o b  BY <1>4 DEF InsertAt, a, b
  <1>8. PICK t : t = q \o b  OBVIOUS
  <1>9. /\ t \in Seq(S) /\ Len(t) = Len(p) + 1 /\ t[i] = e
        /\ \A j \in 1 .. i - 1 : t[j] = p[j]
        /\ \A j \in i .. Len(p) : t[j + 1] = p[j]
    BY <1>6, <1>8
  <1>10. ASSUME NEW j \in 1 .. Len(p)  PROVE (j < i => t[j] = p[j]) /\ (j >= i => t[j + 1] = p[j])
    <2>1. CASE j < i  BY <1>9, <2>1
    <2>2. CASE j >= i  BY <1>9, <2>2
    <2> QED  BY <2>1, <2>2
  <1>11. i \in 1 .. Len(t)  BY <1>9
  <1>12. Inserted(t, p, i, e)  BY <1>9, <1>10, <1>11 DEF Inserted
  <1> QED  BY <1>7, <1>8, <1>9, <1>12

\* RemoveAt takes the element out.
LEMMA RemovedAt ==
  ASSUME NEW S, NEW p \in Seq(S), NEW i \in 1 .. Len(p)
  PROVE  RemoveAt(p, i) \in Seq(S) /\ Inserted(p, RemoveAt(p, i), i, p[i])
  <1> DEFINE a == SubSeq(p, 1, i - 1)
             b == SubSeq(p, i + 1, Len(p))
  <1>1. /\ a \in Seq(S) /\ Len(a) = i - 1 /\ \A j \in 1 .. i - 1 : a[j] = p[j]
    BY SubSeqProperties
  <1>2. /\ b \in Seq(S) /\ Len(b) = Len(p) - i
        /\ \A j \in 1 .. Len(p) - i : b[j] = p[i + j]
    BY SubSeqProperties
  <1> HIDE DEF a, b
  <1>3. /\ a \o b \in Seq(S) /\ Len(a \o b) = Len(p) - 1
        /\ \A j \in 1 .. i - 1 : (a \o b)[j] = p[j]
        /\ \A j \in i .. Len(p) - 1 : (a \o b)[j] = p[j + 1]
    <2>1. /\ a \o b \in Seq(S) /\ Len(a \o b) = Len(p) - 1
          /\ \A j \in 1 .. i - 1 : (a \o b)[j] = a[j]
          /\ \A j \in i .. Len(p) - 1 : (a \o b)[j] = b[j - (i - 1)]
      <3>1. Len(a) + Len(b) = Len(p) - 1  BY <1>1, <1>2
      <3>2. /\ a \o b \in Seq(S) /\ Len(a \o b) = Len(a) + Len(b)
            /\ \A j \in 1 .. Len(a) + Len(b) :
                 (a \o b)[j] = IF j <= Len(a) THEN a[j] ELSE b[j - Len(a)]
        BY <1>1, <1>2, ConcatProperties
      <3> QED  BY <1>1, <1>2, <3>1, <3>2
    <2>2. \A j \in i .. Len(p) - 1 : b[j - (i - 1)] = p[j + 1]
      <3> SUFFICES ASSUME NEW j \in i .. Len(p) - 1  PROVE b[j - (i - 1)] = p[j + 1]  OBVIOUS
      <3>1. j - (i - 1) \in 1 .. Len(p) - i /\ i + (j - (i - 1)) = j + 1  OBVIOUS
      <3> QED  BY <1>2, <3>1
    <2> QED  BY <1>1, <2>1, <2>2
  <1>4. PICK q : q = a \o b  OBVIOUS
  <1>5. q \in Seq(S) /\ Len(q) = Len(p) - 1
    BY <1>3, <1>4
  <1>6. /\ \A j \in 1 .. i - 1 : q[j] = p[j]
        /\ \A j \in i .. Len(p) - 1 : q[j] = p[j + 1]
    BY <1>3, <1>4
  <1>7. RemoveAt(p, i) = q  BY <1>4 DEF RemoveAt, a, b
  <1> QED  BY <1>5, <1>6, <1>7 DEF Inserted

Sorted(q) == \A i, j \in 1 .. Len(q) : i <= j => q[i] <= q[j]

\* The members of A that have their place before the j-th key of q and after the
\* one in front of it, or are equal to one of these.
Between(q, j, e) ==
  /\ j - 1 \in 1 .. Len(q) => q[j - 1] <= e
  /\ j \in 1 .. Len(q) => e <= q[j]

Gap(A, q, j) == {e \in A : Between(q, j, e)}

Lower(A, e) == {d \in A : d <= e}
Upper(A, e) == {d \in A : e <= d}

\* p is q1 with q2 after it, and e in between.
Around(p, q1, e, q2) ==
  /\ Len(p) = Len(q1) + 1 + Len(q2)
  /\ \A j \in 1 .. Len(q1) : p[j] = q1[j]
  /\ p[Len(q1) + 1] = e
  /\ \A j \in 1 .. Len(q2) : p[Len(q1) + 1 + j] = q2[j]

\* A sequence over a set is one over a greater set.
LEMMA Widened ==
  ASSUME NEW A, NEW B, A \subseteq B, NEW q \in Seq(A)
  PROVE  q \in Seq(B)
  <1>1. \A j \in 1 .. Len(q) : q[j] \in A  OBVIOUS
  <1>2. q \in [1 .. Len(q) -> B] /\ Len(q) \in Nat  BY <1>1
  <1> QED  BY <1>2

\* In a greater set a gap is no smaller.
LEMMA WidenedGap ==
  ASSUME NEW A, NEW B, A \subseteq B, NEW q, NEW j
  PROVE  Gap(A, q, j) \subseteq Gap(B, q, j)
  BY DEF Gap

\* A part of a sequence.
LEMMA PartOf ==
  ASSUME NEW S, NEW q \in Seq(S), NEW m \in Nat, NEW n \in Nat, NEW d \in Nat,
         m + d = n, n <= Len(q)
  PROVE  /\ SubSeq(q, m + 1, n) \in Seq(S) /\ Len(SubSeq(q, m + 1, n)) = d
         /\ \A j \in 1 .. d : SubSeq(q, m + 1, n)[j] = q[m + j]
  <1>1. m + 1 \in 1 .. Len(q) + 1 /\ n \in (m + 1) - 1 .. Len(q) /\ n - (m + 1) + 1 = d  OBVIOUS
  <1>2. /\ SubSeq(q, m + 1, n) \in Seq(S)
        /\ Len(SubSeq(q, m + 1, n)) = IF m + 1 <= n THEN n - (m + 1) + 1 ELSE 0
        /\ \A j \in 1 .. n - (m + 1) + 1 : SubSeq(q, m + 1, n)[j] = q[(m + 1) + j - 1]
    BY <1>1, SubSeqProperties
  <1>3. \A j \in Nat : (m + 1) + j - 1 = m + j  OBVIOUS
  <1>4. ~ (m + 1 <= n) => d = 0  OBVIOUS
  <1> QED  BY <1>1, <1>2, <1>3, <1>4

\* The gaps of a sequence with one more key.
LEMMA InsertedGaps ==
  ASSUME NEW A \in SUBSET Nat, NEW p \in Seq(A), NEW q \in Seq(A), NEW i, NEW e,
         Inserted(q, p, i, e)
  PROVE  /\ \A j \in 1 .. i - 1 : Gap(A, q, j) = Gap(A, p, j)
         /\ \A j \in i + 1 .. Len(p) + 1 : Gap(A, q, j + 1) = Gap(A, p, j)
  <1>1. /\ Len(q) = Len(p) + 1 /\ i \in 1 .. Len(q) /\ q[i] = e /\ Len(p) \in Nat
        /\ \A j \in 1 .. Len(p) : (j < i => q[j] = p[j]) /\ (j >= i => q[j + 1] = p[j])
    BY DEF Inserted
  <1>2. ASSUME NEW j \in 1 .. i - 1  PROVE Gap(A, q, j) = Gap(A, p, j)
    <2>1. /\ j \in 1 .. Len(q) /\ j \in 1 .. Len(p) /\ q[j] = p[j]
          /\ j - 1 \in 1 .. Len(q) <=> j - 1 \in 1 .. Len(p)
      BY <1>1
    <2>2. j - 1 \in 1 .. Len(p) => q[j - 1] = p[j - 1]  BY <1>1
    <2> QED  BY <2>1, <2>2 DEF Gap, Between
  <1>3. ASSUME NEW j \in i + 1 .. Len(p) + 1  PROVE Gap(A, q, j + 1) = Gap(A, p, j)
    <2>1. /\ j \in 1 .. Len(q) /\ j - 1 \in 1 .. Len(p)
          /\ j + 1 \in 1 .. Len(q) <=> j \in 1 .. Len(p)
          /\ (j + 1) - 1 = j /\ (j - 1) + 1 = j /\ j - 1 >= i
      BY <1>1
    <2>2. q[(j - 1) + 1] = p[j - 1]  BY <1>1, <2>1
    <2>3. j \in 1 .. Len(p) => q[j + 1] = p[j]  BY <1>1
    <2> QED  BY <2>1, <2>2, <2>3 DEF Gap, Between
  <1> QED  BY <1>2, <1>3

\* A key put in its place.
LEMMA InsertedSorted ==
  ASSUME NEW A \in SUBSET Nat, NEW p \in Seq(A), NEW q \in Seq(A), NEW i, NEW e \in A,
         Inserted(q, p, i, e), Sorted(p), Between(p, i, e)
  PROVE  /\ Sorted(q)
         /\ Gap(A, q, i) = {d \in Gap(A, p, i) : d <= e}
         /\ Gap(A, q, i + 1) = {d \in Gap(A, p, i) : e <= d}
  <1>1. /\ Len(q) = Len(p) + 1 /\ i \in 1 .. Len(q) /\ q[i] = e /\ Len(p) \in Nat
        /\ \A j \in 1 .. Len(p) : (j < i => q[j] = p[j]) /\ (j >= i => q[j + 1] = p[j])
    BY DEF Inserted
  <1>2. /\ \A j \in 1 .. Len(p) : p[j] \in Nat
        /\ \A j \in 1 .. Len(q) : q[j] \in Nat
    <2>1. A \subseteq Nat /\ e \in Nat  OBVIOUS
    <2>2. /\ \A j \in 1 .. Len(p) : p[j] \in A
          /\ \A j \in 1 .. Len(q) : q[j] \in A
      OBVIOUS
    <2> QED  BY <2>1, <2>2
  <1>3. ASSUME NEW j \in 1 .. Len(p), j < i  PROVE p[j] <= e
    <2>1. i - 1 \in 1 .. Len(p) /\ j <= i - 1  BY <1>1, <1>3
    <2>2. p[i - 1] <= e /\ p[j] <= p[i - 1]  BY <2>1 DEF Between, Sorted
    <2> QED  BY <1>2, <2>1, <2>2
  <1>4. ASSUME NEW j \in 1 .. Len(p), j >= i  PROVE e <= p[j]
    <2>1. i \in 1 .. Len(p)  BY <1>1, <1>4
    <2>2. e <= p[i] /\ p[i] <= p[j]  BY <1>4, <2>1 DEF Between, Sorted
    <2> QED  BY <1>2, <2>1, <2>2
  <1>5. ASSUME NEW j \in i + 1 .. Len(q)
        PROVE  q[j] = p[j - 1] /\ j - 1 \in 1 .. Len(p) /\ j - 1 >= i
    <2>1. j - 1 \in 1 .. Len(p) /\ j - 1 >= i /\ (j - 1) + 1 = j  BY <1>1
    <2> QED  BY <1>1, <2>1
  <1>6. Sorted(q)
    <2> SUFFICES ASSUME NEW j \in 1 .. Len(q), NEW d \in 1 .. Len(q), j < d  PROVE q[j] <= q[d]
      <3>1. \A j \in 1 .. Len(q) : q[j] <= q[j]  BY <1>2
      <3>2. \A j, d \in 1 .. Len(q) : j <= d => j < d \/ j = d  BY <1>1
      <3> QED  BY <3>1, <3>2 DEF Sorted
    <2>1. CASE d < i
      <3>1. j \in 1 .. Len(p) /\ d \in 1 .. Len(p)  BY <1>1, <2>1
      <3> QED  BY <1>1, <2>1, <3>1 DEF Sorted
    <2>2. CASE d = i
      <3>1. j \in 1 .. Len(p)  BY <1>1, <2>2
      <3> QED  BY <1>1, <1>3, <2>2, <3>1
    <2>3. CASE d > i
      <3>0. d \in i + 1 .. Len(q)  BY <1>1, <2>3
      <3>1. q[d] = p[d - 1] /\ d - 1 \in 1 .. Len(p) /\ d - 1 >= i  BY <1>5, <3>0
      <3>2. CASE j < i
        <4>1. j \in 1 .. Len(p) /\ q[j] = p[j] /\ j <= d - 1  BY <1>1, <3>2
        <4> QED  BY <3>1, <4>1 DEF Sorted
      <3>3. CASE j = i  BY <1>1, <1>4, <3>1, <3>3
      <3>4. CASE j > i
        <4>0. j \in i + 1 .. Len(q) /\ j - 1 <= d - 1  BY <1>1, <3>4
        <4>1. q[j] = p[j - 1] /\ j - 1 \in 1 .. Len(p) /\ j - 1 <= d - 1  BY <1>5, <4>0
        <4> QED  BY <3>1, <4>1 DEF Sorted
      <3> QED  BY <1>1, <3>2, <3>3, <3>4
    <2> QED  BY <1>1, <2>1, <2>2, <2>3
  <1>7. /\ i - 1 \in 1 .. Len(q) <=> i - 1 \in 1 .. Len(p)
        /\ i - 1 \in 1 .. Len(p) => q[i - 1] = p[i - 1] /\ p[i - 1] <= e /\ p[i - 1] \in Nat
        /\ i \in 1 .. Len(p) => q[i + 1] = p[i] /\ e <= p[i] /\ p[i] \in Nat
        /\ i + 1 \in 1 .. Len(q) <=> i \in 1 .. Len(p)
        /\ (i + 1) - 1 = i
    BY <1>1, <1>2, <1>3, <1>4
  <1>8. ASSUME NEW d \in A
        PROVE  /\ Between(q, i, d) <=> Between(p, i, d) /\ d <= e
               /\ Between(q, i + 1, d) <=> Between(p, i, d) /\ e <= d
    <2>1. d \in Nat /\ e \in Nat  OBVIOUS
    <2>2. /\ (d <= e /\ i \in 1 .. Len(p)) => d <= p[i]
          /\ (e <= d /\ i - 1 \in 1 .. Len(p)) => p[i - 1] <= d
      BY <1>7, <2>1
    <2> QED  BY <1>1, <1>7, <2>2 DEF Between
  <1> QED  BY <1>6, <1>8 DEF Gap

\* Around e, p is cut into two sorted parts, and its gaps with it.
Parted(A, p, q1, e, q2) ==
  /\ Sorted(q1) /\ Sorted(q2) /\ e \in A
  /\ \A j \in 1 .. Len(q1) : q1[j] \in Lower(A, e)
  /\ \A j \in 1 .. Len(q2) : q2[j] \in Upper(A, e)
  /\ \A j \in 1 .. Len(q1) + 1 : Gap(Lower(A, e), q1, j) = Gap(A, p, j)
  /\ \A j \in 1 .. Len(q2) + 1 : Gap(Upper(A, e), q2, j) = Gap(A, p, Len(q1) + 1 + j)

\* A sorted sequence cut in two.
LEMMA AroundSorted ==
  ASSUME NEW A \in SUBSET Nat, NEW p \in Seq(A), NEW q1 \in Seq(Nat), NEW q2 \in Seq(Nat), NEW e,
         Around(p, q1, e, q2), Sorted(p)
  PROVE  Parted(A, p, q1, e, q2)
  <1> SUFFICES /\ Sorted(q1) /\ Sorted(q2) /\ e \in A
               /\ \A j \in 1 .. Len(q1) : q1[j] \in Lower(A, e)
               /\ \A j \in 1 .. Len(q2) : q2[j] \in Upper(A, e)
               /\ \A j \in 1 .. Len(q1) + 1 : Gap(Lower(A, e), q1, j) = Gap(A, p, j)
               /\ \A j \in 1 .. Len(q2) + 1 : Gap(Upper(A, e), q2, j) = Gap(A, p, Len(q1) + 1 + j)
      BY DEF Parted
  <1> DEFINE B == Lower(A, e)
             C == Upper(A, e)
  <1>a. B = {d \in A : d <= e} /\ C = {d \in A : e <= d}  BY DEF Lower, Upper
  <1> HIDE DEF B, C
  <1>0. PICK c, b : c = Len(q1) /\ b = Len(q2)  OBVIOUS
  <1>1. /\ c \in Nat /\ b \in Nat /\ Len(p) = c + 1 + b /\ p[c + 1] = e
        /\ \A j \in 1 .. c : p[j] = q1[j]
        /\ \A j \in 1 .. b : p[c + 1 + j] = q2[j]
        /\ 1 .. Len(q1) = 1 .. c /\ 1 .. Len(q2) = 1 .. b
    BY <1>0 DEF Around
  <1>2. /\ \A j \in 1 .. c + 1 + b : p[j] \in A /\ p[j] \in Nat
        /\ \A i, j \in 1 .. c + 1 + b : i <= j => p[i] <= p[j]
    <2>1. A \subseteq Nat  OBVIOUS
    <2>2. \A j \in 1 .. Len(p) : p[j] \in A  OBVIOUS
    <2> QED  BY <1>1, <2>1, <2>2 DEF Sorted
  <1>3. e \in A /\ e \in Nat  BY <1>1, <1>2
  <1>4. \A j \in 1 .. c : j \in 1 .. c + 1 + b /\ p[j] <= e
    BY <1>1, <1>2
  <1>5. ASSUME NEW j \in 1 .. b  PROVE c + 1 + j \in 1 .. c + 1 + b /\ e <= p[c + 1 + j]
    <2>1. c + 1 + j \in 1 .. c + 1 + b /\ c + 1 \in 1 .. c + 1 + b /\ c + 1 <= c + 1 + j
      BY <1>1
    <2> QED  BY <1>1, <1>2, <2>1
  <1>6. Sorted(q1)
    <2> SUFFICES ASSUME NEW i \in 1 .. c, NEW j \in 1 .. c, i <= j  PROVE q1[i] <= q1[j]
      BY <1>1 DEF Sorted
    <2> QED  BY <1>1, <1>2, <1>4
  <1>7. Sorted(q2)
    <2> SUFFICES ASSUME NEW i \in 1 .. b, NEW j \in 1 .. b, i <= j  PROVE q2[i] <= q2[j]
      BY <1>1 DEF Sorted
    <2>1. p[c + 1 + i] <= p[c + 1 + j]
      <3>1. c + 1 + i <= c + 1 + j  BY <1>1
      <3> QED  BY <1>2, <1>5, <3>1
    <2> QED  BY <1>1, <2>1
  <1>8. ASSUME NEW j \in 1 .. c + 1  PROVE Gap(B, q1, j) = Gap(A, p, j)
    <2>1. /\ j \in 1 .. Len(p) /\ (j \in 1 .. c => q1[j] = p[j])
          /\ j - 1 \in 1 .. Len(p) <=> j - 1 \in 1 .. c
          /\ j - 1 \in 1 .. c => q1[j - 1] = p[j - 1]
          /\ p[j] \in Nat /\ p[j] <= e
      BY <1>1, <1>2, <1>3, <1>4
    <2>2. j \notin 1 .. c => p[j] = e  BY <1>1
    <2>3. ASSUME NEW d \in A  PROVE (d <= e /\ Between(q1, j, d)) <=> Between(p, j, d)
      <3>1. d \in Nat /\ (d <= p[j] => d <= e)  BY <1>3, <2>1
      <3>2. CASE j \in 1 .. c  BY <1>1, <2>1, <3>1, <3>2 DEF Between
      <3>3. CASE j \notin 1 .. c  BY <1>1, <2>1, <2>2, <3>1, <3>3 DEF Between
      <3> QED  BY <3>2, <3>3
    <2> QED  BY <1>a, <2>3 DEF Gap
  <1>9. ASSUME NEW j \in 1 .. b + 1  PROVE Gap(C, q2, j) = Gap(A, p, c + 1 + j)
    <2>0. PICK m : m = c + 1 + j  OBVIOUS
    <2>1. /\ m \in 1 .. Len(p) <=> j \in 1 .. b
          /\ m - 1 \in 1 .. Len(p)
          /\ j \in 1 .. b => q2[j] = p[m]
          /\ p[m - 1] \in Nat
      BY <1>1, <1>2, <2>0
    <2>2. CASE j = 1
      <3>1. m - 1 = c + 1 /\ j - 1 \notin 1 .. b  BY <1>1, <2>0, <2>2
      <3>2. \A d \in A : (e <= d /\ Between(q2, j, d)) <=> Between(p, m, d)
        BY <1>1, <2>1, <3>1 DEF Between
      <3> QED  BY <1>a, <2>0, <3>2 DEF Gap
    <2>3. CASE j > 1
      <3>1. j - 1 \in 1 .. b /\ m - 1 = c + 1 + (j - 1)  BY <1>1, <2>0, <2>3
      <3>2. q2[j - 1] = p[m - 1] /\ e <= p[m - 1]  BY <1>1, <1>5, <3>1
      <3>3. ASSUME NEW d \in A  PROVE (e <= d /\ Between(q2, j, d)) <=> Between(p, m, d)
        <4>1. d \in Nat /\ (p[m - 1] <= d => e <= d)  BY <1>3, <2>1, <3>2
        <4> QED  BY <1>1, <2>1, <3>1, <3>2, <4>1 DEF Between
      <3> QED  BY <1>a, <2>0, <3>3 DEF Gap
    <2> QED  BY <1>1, <2>2, <2>3
  <1>10. \A j \in 1 .. c : q1[j] \in B  BY <1>a, <1>1, <1>2, <1>4
  <1>11. \A j \in 1 .. b : q2[j] \in C  BY <1>a, <1>1, <1>2, <1>5
  <1> QED  BY <1>0, <1>3, <1>6, <1>7, <1>8, <1>9, <1>10, <1>11 DEF B, C

\* A key taken out.
LEMMA DroppedSorted ==
  ASSUME NEW A \in SUBSET Nat, NEW p \in Seq(Nat), NEW q \in Seq(A), NEW i, NEW e,
         Inserted(q, p, i, e), Sorted(q)
  PROVE  p \in Seq(A) /\ Sorted(p) /\ Between(p, i, e) /\ e \in A
  <1>1. /\ Len(q) = Len(p) + 1 /\ i \in 1 .. Len(q) /\ q[i] = e /\ Len(p) \in Nat
        /\ \A j \in 1 .. Len(p) : (j < i => q[j] = p[j]) /\ (j >= i => q[j + 1] = p[j])
    BY DEF Inserted
  <1>2. \A j \in 1 .. Len(q) : q[j] \in A  OBVIOUS
  <1>3. \A j, d \in 1 .. Len(q) : j <= d => q[j] <= q[d]  BY DEF Sorted
  <1> DEFINE At(j) == IF j < i THEN j ELSE j + 1
  <1>4. ASSUME NEW j \in 1 .. Len(p)  PROVE At(j) \in 1 .. Len(q) /\ p[j] = q[At(j)]
    <2>1. CASE j < i
      <3>1. At(j) = j /\ j \in 1 .. Len(q)  BY <1>1, <2>1
      <3> QED  BY <1>1, <2>1, <3>1
    <2>2. CASE j >= i
      <3>1. At(j) = j + 1 /\ j + 1 \in 1 .. Len(q)  BY <1>1, <2>2
      <3> QED  BY <1>1, <2>2, <3>1
    <2> QED  BY <1>1, <2>1, <2>2
  <1>5. p \in Seq(A)
    <2>1. \A j \in 1 .. Len(p) : p[j] \in A  BY <1>2, <1>4
    <2>2. p \in [1 .. Len(p) -> A]  BY <2>1
    <2> QED  BY <1>1, <2>2
  <1>6. Sorted(p)
    <2> SUFFICES ASSUME NEW j \in 1 .. Len(p), NEW d \in 1 .. Len(p), j <= d  PROVE p[j] <= p[d]
      BY DEF Sorted
    <2>1. At(j) <= At(d)  BY <1>1
    <2> QED  BY <1>3, <1>4, <2>1
  <1>7. Between(p, i, e)
    <2>1. ASSUME i - 1 \in 1 .. Len(p)  PROVE p[i - 1] <= e
      <3>1. p[i - 1] = q[i - 1] /\ i - 1 \in 1 .. Len(q) /\ i - 1 <= i  BY <1>1, <2>1
      <3>2. q[i - 1] <= q[i]  BY <1>1, <1>3, <3>1
      <3> QED  BY <1>1, <3>1, <3>2
    <2>2. ASSUME i \in 1 .. Len(p)  PROVE e <= p[i]
      <3>1. p[i] = q[i + 1] /\ i + 1 \in 1 .. Len(q) /\ i <= i + 1  BY <1>1, <2>2
      <3>2. q[i] <= q[i + 1]  BY <1>1, <1>3, <3>1
      <3> QED  BY <1>1, <3>1, <3>2
    <2> QED  BY <2>1, <2>2 DEF Between
  <1> QED  BY <1>1, <1>2, <1>5, <1>6, <1>7

\* Two sorted sequences joined around a key between them.
LEMMA AroundJoined ==
  ASSUME NEW A \in SUBSET Nat, NEW p \in Seq(Nat), NEW e \in A,
         NEW q1 \in Seq(Lower(A, e)), NEW q2 \in Seq(Upper(A, e)),
         Around(p, q1, e, q2), Sorted(q1), Sorted(q2)
  PROVE  p \in Seq(A) /\ Sorted(p)
  <1>0. PICK c, b : c = Len(q1) /\ b = Len(q2)  OBVIOUS
  <1>1. /\ c \in Nat /\ b \in Nat /\ Len(p) = c + 1 + b /\ p[c + 1] = e
        /\ \A j \in 1 .. c : p[j] = q1[j]
        /\ \A j \in 1 .. b : p[c + 1 + j] = q2[j]
        /\ 1 .. Len(q1) = 1 .. c /\ 1 .. Len(q2) = 1 .. b
    BY <1>0 DEF Around
  <1>2. /\ \A j \in 1 .. c : q1[j] \in A /\ q1[j] <= e
        /\ \A j \in 1 .. b : q2[j] \in A /\ e <= q2[j]
        /\ \A j, d \in 1 .. c : j <= d => q1[j] <= q1[d]
        /\ \A j, d \in 1 .. b : j <= d => q2[j] <= q2[d]
        /\ \A d \in A : d \in Nat
    <2>1. /\ \A j \in 1 .. Len(q1) : q1[j] \in Lower(A, e)
          /\ \A j \in 1 .. Len(q2) : q2[j] \in Upper(A, e)
      OBVIOUS
    <2>2. /\ \A j, d \in 1 .. c : j <= d => q1[j] <= q1[d]
          /\ \A j, d \in 1 .. b : j <= d => q2[j] <= q2[d]
      BY <1>1 DEF Sorted
    <2>3. /\ \A d \in Lower(A, e) : d \in A /\ d <= e
          /\ \A d \in Upper(A, e) : d \in A /\ e <= d
      BY DEF Lower, Upper
    <2> QED  BY <1>1, <2>1, <2>2, <2>3
  <1>3. ASSUME NEW j \in 1 .. c + 1 + b
        PROVE  \/ j \in 1 .. c
               \/ j = c + 1
               \/ j - (c + 1) \in 1 .. b /\ p[j] = q2[j - (c + 1)]
    <2>1. CASE j > c + 1
      <3>1. j - (c + 1) \in 1 .. b /\ c + 1 + (j - (c + 1)) = j  BY <1>1, <2>1
      <3> QED  BY <1>1, <3>1
    <2> QED  BY <1>1, <2>1
  <1>4. ASSUME NEW j \in 1 .. c + 1 + b  PROVE p[j] \in A
    <2>1. CASE j \in 1 .. c  BY <1>1, <1>2, <2>1
    <2>2. CASE j = c + 1  BY <1>1, <2>2
    <2>3. CASE j - (c + 1) \in 1 .. b /\ p[j] = q2[j - (c + 1)]  BY <1>2, <2>3
    <2> QED  BY <1>3, <2>1, <2>2, <2>3
  <1>5. p \in Seq(A)
    <2>1. p \in [1 .. Len(p) -> A] /\ Len(p) \in Nat  BY <1>1, <1>4
    <2> QED  BY SMTT(30), <2>1
  <1>6. Sorted(p)
    <2> SUFFICES ASSUME NEW j \in 1 .. c + 1 + b, NEW d \in 1 .. c + 1 + b, j <= d
                 PROVE  p[j] <= p[d]
      BY <1>1 DEF Sorted
    <2>0. p[j] \in Nat /\ p[d] \in Nat /\ e \in Nat  BY <1>2, <1>4
    <2>1. CASE d \in 1 .. c
      <3>1. j \in 1 .. c  BY <1>1, <2>1
      <3>2. p[j] = q1[j] /\ p[d] = q1[d]  BY <1>1, <2>1, <3>1
      <3>3. q1[j] <= q1[d]  BY <1>2, <2>1, <3>1
      <3> QED  BY <3>2, <3>3
    <2>2. CASE d = c + 1
      <3>1. j \in 1 .. c \/ j = c + 1  BY <1>1, <2>2
      <3>2. p[d] = e  BY <1>1, <2>2
      <3>3. j \in 1 .. c => p[j] <= e  BY <1>1, <1>2
      <3>4. j = c + 1 => p[j] = e  BY <1>1
      <3> QED  BY <2>0, <3>1, <3>2, <3>3, <3>4
    <2>3. CASE d - (c + 1) \in 1 .. b /\ p[d] = q2[d - (c + 1)]
      <3>1. e <= p[d]  BY <1>2, <2>3
      <3>2. CASE j \in 1 .. c
        <4>1. p[j] <= e  BY <1>1, <1>2, <3>2
        <4> QED  BY <2>0, <3>1, <4>1
      <3>3. CASE j = c + 1  BY <1>1, <3>1, <3>3
      <3>4. CASE j - (c + 1) \in 1 .. b /\ p[j] = q2[j - (c + 1)]
        <4>1. j - (c + 1) <= d - (c + 1)  BY <1>1
        <4> QED  BY <1>2, <2>3, <3>4, <4>1
      <3> QED  BY <1>3, <3>2, <3>3, <3>4
    <2> QED  BY <1>3, <2>1, <2>2, <2>3
  <1> QED  BY <1>5, <1>6

-----------------------------------------------------------------------------
(* Trees.  V is the set of nodes, L[n] how far n is above the leaves, R[n] the *)
(* keys for which there is room below n: all keys, for the root.              *)

Sons(h, n) == {h[n].kid[j] : j \in 1 .. Len(h[n].kid)}

\* A leaf has no children; the children of an inner node are one level down.
Noded(h, n, V, L) ==
  /\ h[n] \in Node
  /\ h[n].leaf => Len(h[n].kid) = 0 /\ L[n] = 0
  /\ ~h[n].leaf => /\ Len(h[n].kid) = Len(h[n].key) + 1
                   /\ \A j \in 1 .. Len(h[n].kid) : h[n].kid[j] \in V /\ L[n] = L[h[n].kid[j]] + 1

\* No node is the child of two nodes, or twice of one.
Single(h, V) ==
  \A m, n \in V : \A i \in 1 .. Len(h[m].kid), j \in 1 .. Len(h[n].kid) :
    h[m].kid[i] = h[n].kid[j] => m = n /\ i = j

Tree(h, r, V, L) ==
  /\ r \in V /\ L \in [V -> Nat]
  /\ \A n \in V : Noded(h, n, V, L) /\ L[n] <= L[r]
  /\ \A n \in V : n # r => \E m \in V : \E j \in 1 .. Len(h[m].kid) : h[m].kid[j] = n
  /\ Single(h, V)

Ranged(h, n, R) ==
  /\ Sorted(h[n].key)
  /\ \A j \in 1 .. Len(h[n].key) : h[n].key[j] \in R[n]
  /\ \A j \in 1 .. Len(h[n].kid) : R[h[n].kid[j]] \subseteq Gap(R[n], h[n].key, j)

Good(h, r, V, L, R) ==
  /\ Tree(h, r, V, L)
  /\ R \in [V -> SUBSET Keys] /\ R[r] = Keys
  /\ \A n \in V : Ranged(h, n, R)

-----------------------------------------------------------------------------
(* In g, child i of a, which is y, is cut in two, y and z, and a key of it goes up. *)

Cut(h, g, V, a, i, y, z) ==
  /\ a \in V /\ i \in 1 .. Len(h[a].kid) /\ y = h[a].kid[i] /\ z \notin V
  /\ h[a] \in Node /\ h[y] \in Node /\ g[a] \in Node /\ g[y] \in Node /\ g[z] \in Node
  /\ ~h[a].leaf /\ ~g[a].leaf /\ g[y].leaf = h[y].leaf /\ g[z].leaf = h[y].leaf
  /\ Inserted(g[a].key, h[a].key, i, g[a].key[i])
  /\ Inserted(g[a].kid, h[a].kid, i + 1, z)
  /\ Around(h[y].key, g[y].key, g[a].key[i], g[z].key)
  /\ Len(g[y].kid) = (IF h[y].leaf THEN 0 ELSE Len(g[y].key) + 1)
  /\ Len(g[z].kid) = (IF h[y].leaf THEN 0 ELSE Len(g[z].key) + 1)
  /\ Len(h[y].kid) = Len(g[y].kid) + Len(g[z].kid)
  /\ \A j \in 1 .. Len(g[y].kid) : g[y].kid[j] = h[y].kid[j]
  /\ \A j \in 1 .. Len(g[z].kid) : g[z].kid[j] = h[y].kid[Len(g[y].kid) + j]
  /\ \A n \in V \ {a, y} : g[n] = h[n]

CutL(V, L, y, z) == [n \in V \cup {z} |-> IF n = z THEN L[y] ELSE L[n]]

CutR(V, R, y, z, up) ==
  [n \in V \cup {z} |-> IF n = z THEN {e \in R[y] : up <= e}
                        ELSE IF n = y THEN {e \in R[y] : e <= up} ELSE R[n]]

\* Where the children of h are in g.
LEMMA CutKids ==
  ASSUME NEW h, NEW g, NEW r, NEW V, NEW L, Tree(h, r, V, L),
         NEW a, NEW i, NEW y, NEW z, Cut(h, g, V, a, i, y, z)
  PROVE  /\ y \in V /\ y # a /\ y # z /\ a # z /\ L[a] = L[y] + 1 /\ L[y] \in Nat
         /\ i \in 1 .. Len(h[a].key) + 1
         /\ Len(g[a].kid) = Len(g[a].key) + 1
         /\ \A n \in V \ {a, y} : \A j \in 1 .. Len(h[n].kid) : h[n].kid[j] # y
  <1>1. /\ a \in V /\ L \in [V -> Nat] /\ Noded(h, a, V, L) /\ Single(h, V)  BY DEF Cut, Tree
  <1>2. /\ i \in 1 .. Len(h[a].kid) /\ y = h[a].kid[i] /\ z \notin V /\ ~h[a].leaf  BY DEF Cut
  <1>3. /\ Len(h[a].kid) = Len(h[a].key) + 1 /\ y \in V /\ L[a] = L[y] + 1
    BY <1>1, <1>2 DEF Noded
  <1>4. L[y] \in Nat /\ L[a] \in Nat  BY <1>1, <1>3
  <1>5. Len(g[a].key) = Len(h[a].key) + 1 /\ Len(g[a].kid) = Len(h[a].kid) + 1
    BY DEF Cut, Inserted
  <1>6. \A n \in V \ {a, y} : \A j \in 1 .. Len(h[n].kid) : h[n].kid[j] # y
    BY <1>1, <1>2 DEF Single
  <1> QED  BY <1>1, <1>2, <1>3, <1>4, <1>5, <1>6

\* After a cut the nodes are still a tree.
LEMMA CutTree ==
  ASSUME NEW h, NEW g, NEW r, NEW V, NEW L, Tree(h, r, V, L),
         NEW a, NEW i, NEW y, NEW z, Cut(h, g, V, a, i, y, z)
  PROVE  Tree(g, r, V \cup {z}, CutL(V, L, y, z))
  <1> DEFINE W == V \cup {z}
             M == CutL(V, L, y, z)
             c == Len(g[y].kid)
             Src(n) == IF n = z THEN y ELSE n
             At(n, j) == IF n = a THEN (IF j <= i THEN j ELSE j - 1)
                         ELSE IF n = z THEN c + j ELSE j
  <1>1. /\ y \in V /\ y # a /\ y # z /\ a # z /\ L[a] = L[y] + 1 /\ L[y] \in Nat
        /\ Len(g[a].kid) = Len(g[a].key) + 1 /\ a \in V /\ z \notin V
    <2>1. a \in V /\ z \notin V  BY DEF Cut
    <2> QED  BY CutKids, <2>1
  <1>2. /\ r \in V /\ L \in [V -> Nat] /\ \A n \in V : Noded(h, n, V, L) /\ L[n] <= L[r]
        /\ Single(h, V)
    BY DEF Tree
  <1>3. /\ M \in [W -> Nat] /\ M[z] = L[y] /\ \A n \in V : M[n] = L[n]
    BY <1>1, <1>2 DEF CutL
  <1>4. /\ g[a].kid[i + 1] = z /\ i + 1 \in 1 .. Len(g[a].kid) /\ i \in 1 .. Len(h[a].kid)
        /\ Len(g[a].kid) = Len(h[a].kid) + 1 /\ Len(h[a].kid) \in Nat
        /\ \A j \in 1 .. Len(h[a].kid) : /\ j < i + 1 => g[a].kid[j] = h[a].kid[j]
                                         /\ j >= i + 1 => g[a].kid[j + 1] = h[a].kid[j]
    <2>1. h[a] \in Node  BY <1>1, <1>2 DEF Noded
    <2>2. Len(h[a].kid) \in Nat  BY <2>1 DEF Node
    <2> QED  BY <2>2 DEF Cut, Inserted
  <1>5. /\ c \in Nat /\ Len(g[z].kid) \in Nat /\ Len(h[y].kid) = c + Len(g[z].kid)
    <2>1. /\ g[y] \in Node /\ g[z] \in Node /\ Noded(h, y, V, L)  BY <1>1, <1>2 DEF Cut
    <2>2. /\ Len(g[y].kid) \in Nat /\ Len(g[z].kid) \in Nat /\ Len(g[y].key) \in Nat
          /\ Len(g[z].key) \in Nat
      BY <2>1 DEF Node
    <2>3. Len(h[y].key) = Len(g[y].key) + 1 + Len(g[z].key)  BY DEF Cut, Around
    <2>4. /\ c = (IF h[y].leaf THEN 0 ELSE Len(g[y].key) + 1)
          /\ Len(g[z].kid) = (IF h[y].leaf THEN 0 ELSE Len(g[z].key) + 1)
      BY DEF Cut
    <2>5. Len(h[y].kid) = (IF h[y].leaf THEN 0 ELSE Len(h[y].key) + 1)  BY <2>1 DEF Noded
    <2> HIDE DEF c
    <2>6. c \in Nat  BY <2>2 DEF c
    <2>7. PICK ly, lz, lk, ky, kz, kh :
            /\ ly = c /\ lz = Len(g[z].kid) /\ lk = Len(h[y].kid) /\ ky = Len(g[y].key)
            /\ kz = Len(g[z].key) /\ kh = Len(h[y].key)
      OBVIOUS
    <2>8. CASE h[y].leaf  BY <2>4, <2>5, <2>8
    <2>9. CASE ~h[y].leaf
      <3>1. ly = ky + 1 /\ lz = kz + 1 /\ lk = kh + 1 /\ kh = ky + 1 + kz /\ ky \in Nat /\ kz \in Nat
        BY <2>2, <2>3, <2>4, <2>5, <2>7, <2>9
      <3>2. ly \in Nat /\ lz \in Nat /\ lk = ly + lz  BY <3>1
      <3> QED  BY <2>7, <3>2
    <2> QED  BY <2>8, <2>9
  <1>6. /\ \A j \in 1 .. c : g[y].kid[j] = h[y].kid[j]
        /\ \A j \in 1 .. Len(g[z].kid) : g[z].kid[j] = h[y].kid[c + j]
        /\ \A n \in V \ {a, y} : g[n] = h[n]
    BY DEF Cut
  <1> HIDE DEF c, M, W
  <1>7. ASSUME NEW n \in W, NEW j \in 1 .. Len(g[n].kid), ~ (n = a /\ j = i + 1)
        PROVE  /\ Src(n) \in V /\ At(n, j) \in 1 .. Len(h[Src(n)].kid)
               /\ g[n].kid[j] = h[Src(n)].kid[At(n, j)]
    <2>1. CASE n = a
      <3>1. CASE j <= i  BY <1>1, <1>4, <2>1, <3>1
      <3>2. CASE j > i + 1
        <4>1. j - 1 \in 1 .. Len(h[a].kid) /\ j - 1 >= i + 1 /\ (j - 1) + 1 = j
          BY <1>4, <2>1, <3>2
        <4>2. g[a].kid[(j - 1) + 1] = h[a].kid[j - 1]  BY <1>4, <4>1
        <4> QED  BY <1>1, <1>4, <2>1, <3>2, <4>1, <4>2
      <3> QED  BY <1>4, <1>7, <2>1, <3>1, <3>2
    <2>2. CASE n = y
      <3>1. Src(n) = y /\ At(n, j) = j /\ j \in 1 .. c  BY <1>1, <2>2 DEF c
      <3>2. j \in 1 .. Len(h[y].kid)  BY <1>5, <3>1
      <3> QED  BY <1>1, <1>6, <2>2, <3>1, <3>2
    <2>3. CASE n = z  BY <1>1, <1>5, <1>6, <2>3
    <2>4. CASE n \notin {a, y, z}  BY <1>6, <2>4 DEF W
    <2> QED  BY <2>1, <2>2, <2>3, <2>4
  <1>8. ASSUME NEW m \in W, NEW n \in W, NEW b \in 1 .. Len(g[m].kid), NEW j \in 1 .. Len(g[n].kid),
               ~ (m = a /\ b = i + 1), ~ (n = a /\ j = i + 1),
               Src(m) = Src(n), At(m, b) = At(n, j)
        PROVE  m = n /\ b = j
    <2>1. CASE Src(m) = a  BY <1>1, <1>4, <1>8, <2>1
    <2>2. CASE Src(m) # a
      <3>1. m # a /\ n # a  BY <1>1, <1>8, <2>2
      <3>2. CASE m = n  BY <1>5, <1>8, <3>1, <3>2
      <3>3. CASE m # n
        <4>1. (m = y /\ n = z) \/ (m = z /\ n = y)  BY <1>8, <3>3
        <4> QED  BY <1>1, <1>5, <1>8, <3>1, <4>1 DEF c
      <3> QED  BY <3>2, <3>3
    <2> QED  BY <2>1, <2>2
  <1> HIDE DEF Src, At
  <1>9. Single(g, W)
    <2> SUFFICES ASSUME NEW m \in W, NEW n \in W, NEW b \in 1 .. Len(g[m].kid),
                        NEW j \in 1 .. Len(g[n].kid), g[m].kid[b] = g[n].kid[j]
                 PROVE  m = n /\ b = j
      BY DEF Single
    <2>1. \A u \in V : \A d \in 1 .. Len(h[u].kid) : h[u].kid[d] \in V
      <3> SUFFICES ASSUME NEW u \in V, NEW d \in 1 .. Len(h[u].kid)  PROVE h[u].kid[d] \in V  OBVIOUS
      <3>1. Noded(h, u, V, L)  BY <1>2
      <3> QED  BY <3>1 DEF Noded
    <2>2. CASE m = a /\ b = i + 1
      <3>1. g[n].kid[j] = z  BY <1>4, <2>2
      <3> QED  BY <1>1, <1>7, <2>1, <2>2, <3>1
    <2>3. CASE n = a /\ j = i + 1
      <3>1. g[m].kid[b] = z  BY <1>4, <2>3
      <3> QED  BY <1>1, <1>7, <2>1, <2>3, <3>1
    <2>4. CASE ~ (m = a /\ b = i + 1) /\ ~ (n = a /\ j = i + 1)
      <3>1. /\ Src(m) \in V /\ At(m, b) \in 1 .. Len(h[Src(m)].kid)
            /\ Src(n) \in V /\ At(n, j) \in 1 .. Len(h[Src(n)].kid)
            /\ h[Src(m)].kid[At(m, b)] = h[Src(n)].kid[At(n, j)]
        BY <1>7, <2>4
      <3>2. \A p, q \in V : \A d \in 1 .. Len(h[p].kid), u \in 1 .. Len(h[q].kid) :
              h[p].kid[d] = h[q].kid[u] => p = q /\ d = u
        BY <1>2 DEF Single
      <3>3. Src(m) = Src(n) /\ At(m, b) = At(n, j)  BY SMTT(30), <3>1, <3>2
      <3> QED  BY <1>8, <2>4, <3>3
    <2> QED  BY <2>2, <2>3, <2>4
  <1>10. ASSUME NEW n \in W  PROVE Noded(g, n, W, M) /\ M[n] <= M[r]
    <2>1. g[n] \in Node
      <3>1. CASE n \in {a, y, z}  BY <3>1 DEF Cut
      <3>2. CASE n \notin {a, y, z}  BY <1>2, <1>6, <3>2 DEF W, Noded
      <3> QED  BY <3>1, <3>2
    <2>2. Src(n) \in V /\ g[n].leaf = h[Src(n)].leaf /\ M[n] = L[Src(n)] /\ Noded(h, Src(n), V, L)
      <3>1. Src(n) \in V /\ M[n] = L[Src(n)]  BY <1>1, <1>3 DEF Src, W
      <3>2. g[n].leaf = h[Src(n)].leaf
        <4>1. /\ g[a].leaf = h[a].leaf /\ g[y].leaf = h[y].leaf /\ g[z].leaf = h[y].leaf
          BY <1>1, <1>2, <2>1 DEF Cut, Noded, Node
        <4> QED  BY <1>1, <1>6, <4>1 DEF Src, W
      <3> QED  BY <1>2, <3>1, <3>2
    <2>3. g[n].leaf => Len(g[n].kid) = 0 /\ M[n] = 0
      <3> SUFFICES ASSUME g[n].leaf  PROVE Len(g[n].kid) = 0 /\ M[n] = 0  OBVIOUS
      <3>1. Len(h[Src(n)].kid) = 0 /\ M[n] = 0  BY <2>2 DEF Noded
      <3>2. n # a  BY DEF Cut
      <3>3. CASE n \in {y, z}
        <4>1. Len(h[y].kid) = 0  BY <1>1, <3>1, <3>3 DEF Src
        <4>2. c = 0 /\ Len(g[z].kid) = 0  BY <1>5, <4>1
        <4>3. Len(g[n].kid) = 0  BY <3>3, <4>2 DEF c
        <4> QED  BY <3>1, <4>3
      <3>4. CASE n \notin {y, z}  BY <1>6, <3>1, <3>2, <3>4 DEF Src, W
      <3> QED  BY <3>3, <3>4
    <2>4. ~g[n].leaf => Len(g[n].kid) = Len(g[n].key) + 1
      <3> SUFFICES ASSUME ~g[n].leaf  PROVE Len(g[n].kid) = Len(g[n].key) + 1  OBVIOUS
      <3>1. CASE n = a  BY <1>1, <3>1
      <3>2. CASE n \in {y, z}  BY <2>2, <3>2 DEF Cut
      <3>3. CASE n \notin {a, y, z}  BY <2>2, <1>6, <3>3 DEF W, Src, Noded
      <3> QED  BY <3>1, <3>2, <3>3
    <2>5. ASSUME NEW j \in 1 .. Len(g[n].kid)
          PROVE  g[n].kid[j] \in W /\ M[n] = M[g[n].kid[j]] + 1
      <3>1. CASE n = a /\ j = i + 1
        BY <1>1, <1>3, <1>4, <3>1 DEF W
      <3>2. CASE ~ (n = a /\ j = i + 1)
        <4>1. /\ At(n, j) \in 1 .. Len(h[Src(n)].kid) /\ g[n].kid[j] = h[Src(n)].kid[At(n, j)]
          BY <1>7, <3>2
        <4>2. ~h[Src(n)].leaf  BY <2>2, <4>1 DEF Noded
        <4>3. h[Src(n)].kid[At(n, j)] \in V /\ L[Src(n)] = L[h[Src(n)].kid[At(n, j)]] + 1
          BY <2>2, <4>1, <4>2 DEF Noded
        <4> QED  BY <1>3, <2>2, <4>1, <4>3 DEF W
      <3> QED  BY <3>1, <3>2
    <2>6. M[n] <= M[r]  BY <1>2, <1>3, <2>2
    <2> QED  BY <2>1, <2>3, <2>4, <2>5, <2>6 DEF Noded
  <1>11. ASSUME NEW n \in W, n # r
         PROVE  \E m \in W : \E j \in 1 .. Len(g[m].kid) : g[m].kid[j] = n
    <2>1. CASE n = z  BY <1>1, <1>4, <2>1 DEF W
    <2>2. CASE n # z
      <3>1. n \in V  BY <2>2 DEF W
      <3>0. PICK m \in V : \E d \in 1 .. Len(h[m].kid) : h[m].kid[d] = n  BY <1>11, <3>1 DEF Tree
      <3>2. PICK d \in 1 .. Len(h[m].kid) : h[m].kid[d] = n  BY <3>0
      <3>3. CASE m = a
        <4>1. CASE d < i + 1
          <5>1. g[a].kid[d] = n /\ d \in 1 .. Len(g[a].kid)  BY SMTT(30), <1>4, <3>2, <3>3, <4>1
          <5> QED  BY <1>1, <5>1 DEF W
        <4>2. CASE d >= i + 1
          <5>0. d \in 1 .. Len(h[a].kid) /\ h[a].kid[d] = n  BY <3>2, <3>3
          <5>2. g[a].kid[d + 1] = h[a].kid[d]  BY <1>4, <4>2, <5>0
          <5>3. Len(h[a].kid) \in Nat /\ Len(g[a].kid) = Len(h[a].kid) + 1  BY <1>4
          <5>1. g[a].kid[d + 1] = n /\ d + 1 \in 1 .. Len(g[a].kid)  BY <5>0, <5>2, <5>3
          <5> QED  BY <1>1, <5>1 DEF W
        <4> QED  BY <1>4, <3>3, <4>1, <4>2
      <3>4. CASE m = y
        <4>1. CASE d <= c
          <5>1. g[y].kid[d] = n /\ d \in 1 .. Len(g[y].kid)
            BY <1>5, <1>6, <3>2, <3>4, <4>1 DEF c
          <5> QED  BY <1>1, <5>1 DEF W
        <4>2. CASE d > c
          <5>1. d - c \in 1 .. Len(g[z].kid) /\ c + (d - c) = d  BY <1>5, <3>2, <3>4, <4>2
          <5>2. g[z].kid[d - c] = n  BY <1>6, <3>2, <3>4, <5>1
          <5> QED  BY <5>1, <5>2 DEF W
        <4> QED  BY <1>5, <3>4, <4>1, <4>2
      <3>5. CASE m \notin {a, y}
        <4>1. g[m].kid[d] = n /\ d \in 1 .. Len(g[m].kid)  BY <1>6, <3>2, <3>5
        <4> QED  BY <3>2, <4>1 DEF W
      <3> QED  BY <3>3, <3>4, <3>5
    <2> QED  BY <2>1, <2>2
  <1> QED
    <2>1. r \in W  BY <1>2 DEF W
    <2>2. Tree(g, r, W, M)  BY <1>3, <1>9, <1>10, <1>11, <2>1 DEF Tree
    <2> QED  BY <2>2 DEF W, M

\* The other way round: y and z joined.
JoinL(V, L) == [n \in V |-> L[n]]

JoinR(V, R, y, B) == [n \in V |-> IF n = y THEN B ELSE R[n]]

Adds(W, V, z) == W = V \cup {z}

\* y and z are neighbours below a.
Adjoin(h, g, r, V, L, a, i, y, z) ==
  /\ a \in V /\ y \in V /\ r \in V /\ y # a /\ z \notin V
  /\ L[a] = L[y] + 1 /\ L[z] = L[y] /\ L[y] \in Nat
  /\ i \in 1 .. Len(g[a].kid) /\ i + 1 \in 1 .. Len(g[a].kid)
  /\ g[a].kid[i] = y /\ g[a].kid[i + 1] = z
  /\ i \in 1 .. Len(h[a].key) + 1 /\ i \in 1 .. Len(h[a].kid)
  /\ Len(h[a].kid) = Len(h[a].key) + 1

\* The two nodes that are joined are neighbours.
LEMMA JoinKids ==
  ASSUME NEW h, NEW g, NEW r, NEW V, NEW L, NEW W, Tree(g, r, W, L),
         NEW a, NEW i, NEW y, NEW z, Cut(h, g, V, a, i, y, z), Adds(W, V, z)
  PROVE  Adjoin(h, g, r, V, L, a, i, y, z)
  <1>1. /\ a \in V /\ i \in 1 .. Len(h[a].kid) /\ y = h[a].kid[i] /\ z \notin V /\ ~g[a].leaf
        /\ Inserted(g[a].key, h[a].key, i, g[a].key[i])
        /\ Inserted(g[a].kid, h[a].kid, i + 1, z) /\ h[a] \in Node /\ g[a] \in Node
    BY DEF Cut
  <1>w. W = V \cup {z}  BY DEF Adds
  <1> USE <1>w
  <1>2. Noded(g, a, W, L) /\ L \in [W -> Nat] /\ r \in W
        /\ \A n \in W : L[n] <= L[r]
    BY <1>1, <1>w DEF Tree
  <1>3. /\ Len(h[a].key) \in Nat /\ Len(h[a].kid) \in Nat
        /\ Len(g[a].key) \in Nat /\ Len(g[a].kid) \in Nat
    BY <1>1 DEF Node
  <1>4. /\ Len(g[a].kid) = Len(g[a].key) + 1 /\ Len(g[a].key) = Len(h[a].key) + 1
        /\ Len(g[a].kid) = Len(h[a].kid) + 1 /\ g[a].kid[i + 1] = z /\ g[a].kid[i] = y
    <2>1. i < i + 1  BY <1>1
    <2> QED  BY <1>1, <1>2, <2>1 DEF Noded, Inserted
  <1>5. /\ i \in 1 .. Len(g[a].kid) /\ i + 1 \in 1 .. Len(g[a].kid)
        /\ i \in 1 .. Len(h[a].key) + 1 /\ Len(h[a].kid) = Len(h[a].key) + 1
    <2>1. PICK kh, qh, kg, qg : /\ kh = Len(h[a].key) /\ qh = Len(h[a].kid)
                                /\ kg = Len(g[a].key) /\ qg = Len(g[a].kid)
      OBVIOUS
    <2>2. /\ kh \in Nat /\ qh \in Nat /\ kg \in Nat /\ qg \in Nat /\ i \in 1 .. qh
          /\ qg = kg + 1 /\ kg = kh + 1 /\ qg = qh + 1
      BY <1>1, <1>3, <1>4, <2>1
    <2>3. i \in 1 .. qg /\ i + 1 \in 1 .. qg /\ i \in 1 .. kh + 1 /\ qh = kh + 1  BY <2>2
    <2> QED  BY <2>1, <2>3
  <1>6. /\ y \in W /\ L[a] = L[y] + 1 /\ L[a] = L[z] + 1
    BY <1>1, <1>2, <1>4, <1>5 DEF Noded
  <1>7. L[a] \in Nat /\ L[y] \in Nat /\ L[z] \in Nat  BY <1>1, <1>2, <1>6
  <1>8. y # z
    <2>1. Single(g, W)  BY DEF Tree
    <2>2. i # i + 1  BY <1>1
    <2> QED  BY <1>1, <1>4, <1>5, <1>w, <2>1, <2>2 DEF Single
  <1>9. r # z
    <2>1. L[a] <= L[r] /\ L[a] # L[z] /\ L[z] = L[a] - 1  BY <1>1, <1>2, <1>6, <1>7
    <2> QED  BY <1>7, <2>1
  <1>10. y # a /\ L[z] = L[y]  BY <1>6, <1>7
  <1> QED  BY <1>1, <1>2, <1>4, <1>5, <1>6, <1>7, <1>8, <1>9, <1>10 DEF Adjoin

\* After a join the nodes are still a tree.
LEMMA JoinTree ==
  ASSUME NEW h, NEW g, NEW r, NEW V, NEW L, NEW W, Tree(g, r, W, L),
         NEW a, NEW i, NEW y, NEW z, Cut(h, g, V, a, i, y, z), Adds(W, V, z)
  PROVE  Tree(h, r, V, JoinL(V, L))
  <1> DEFINE M == JoinL(V, L)
             c == Len(g[y].kid)
             Dst(n, j) == IF n = y /\ j > c THEN z ELSE n
             At(n, j) == IF n = a /\ j > i THEN j + 1
                         ELSE IF n = y /\ j > c THEN j - c ELSE j
  <1>1. /\ a \in V /\ y \in V /\ r \in V /\ y # a /\ z \notin V
        /\ L[a] = L[y] + 1 /\ L[z] = L[y] /\ L[y] \in Nat
        /\ i \in 1 .. Len(g[a].kid) /\ i + 1 \in 1 .. Len(g[a].kid)
        /\ g[a].kid[i] = y /\ g[a].kid[i + 1] = z
        /\ i \in 1 .. Len(h[a].kid) /\ Len(h[a].kid) = Len(h[a].key) + 1
    <2>1. Adjoin(h, g, r, V, L, a, i, y, z)  BY Zenon, JoinKids
    <2> QED  BY <2>1 DEF Adjoin
  <1>w. W = V \cup {z}  BY DEF Adds
  <1> USE <1>w
  <1>2. /\ L \in [W -> Nat] /\ \A n \in W : Noded(g, n, W, L) /\ L[n] <= L[r]
    BY DEF Tree
  <1>b. \A m, n \in W : \A d \in 1 .. Len(g[m].kid), j \in 1 .. Len(g[n].kid) :
          g[m].kid[d] = g[n].kid[j] => m = n /\ d = j
    BY DEF Tree, Single
  <1>3. /\ M \in [V -> Nat] /\ \A n \in V : M[n] = L[n]  BY <1>1, <1>2 DEF JoinL
  <1>4. /\ h[a] \in Node /\ h[y] \in Node /\ ~h[a].leaf
        /\ g[y].leaf = h[y].leaf /\ g[z].leaf = h[y].leaf
        /\ Len(g[a].kid) = Len(h[a].kid) + 1
        /\ \A j \in 1 .. Len(h[a].kid) : /\ j < i + 1 => g[a].kid[j] = h[a].kid[j]
                                         /\ j >= i + 1 => g[a].kid[j + 1] = h[a].kid[j]
    BY DEF Cut, Inserted
  <1>5. /\ c \in Nat /\ Len(g[z].kid) \in Nat /\ Len(h[y].kid) = c + Len(g[z].kid)
        /\ Len(h[a].kid) \in Nat
    <2>1. h[a] \in Node /\ g[y] \in Node /\ g[z] \in Node  BY DEF Cut
    <2>2. c \in Nat /\ Len(g[z].kid) \in Nat /\ Len(h[a].kid) \in Nat  BY <2>1 DEF Node
    <2>3. Len(h[y].kid) = c + Len(g[z].kid)  BY DEF Cut
    <2> QED  BY <2>2, <2>3
  <1>6. /\ \A j \in 1 .. c : g[y].kid[j] = h[y].kid[j]
        /\ \A j \in 1 .. Len(g[z].kid) : g[z].kid[j] = h[y].kid[c + j]
        /\ \A n \in V \ {a, y} : g[n] = h[n]
    BY DEF Cut
  <1> HIDE DEF c, M
  <1>7. ASSUME NEW n \in V, NEW j \in 1 .. Len(h[n].kid)
        PROVE  /\ Dst(n, j) \in W /\ At(n, j) \in 1 .. Len(g[Dst(n, j)].kid)
               /\ h[n].kid[j] = g[Dst(n, j)].kid[At(n, j)]
               /\ ~ (Dst(n, j) = a /\ At(n, j) = i + 1)
    <2>1. CASE n = a
      <3>1. Dst(n, j) = a  BY <1>1, <2>1
      <3>2. CASE j <= i
        <4>1. At(n, j) = j /\ j \in 1 .. Len(g[a].kid) /\ j < i + 1  BY SMTT(30), <1>1, <1>4, <1>5, <2>1, <3>2
        <4>2. i + 1 # j /\ g[a].kid[j] = h[a].kid[j]  BY <1>1, <1>4, <2>1, <3>2, <4>1
        <4> QED  BY <1>1, <2>1, <3>1, <4>1, <4>2
      <3>3. CASE j > i
        <4>0. PICK l : l = Len(h[a].kid)  OBVIOUS
        <4>1. j + 1 \in 1 .. Len(g[a].kid) /\ j >= i + 1 /\ j # i /\ j + 1 # i + 1
          <5>1. j \in 1 .. l /\ l \in Nat /\ Len(g[a].kid) = l + 1 /\ i \in 1 .. l
            BY <1>1, <1>4, <1>5, <2>1, <4>0
          <5> QED  BY <3>3, <5>1
        <4>2. At(n, j) = j + 1  BY <1>1, <2>1, <3>3
        <4> QED  BY <1>1, <1>4, <2>1, <3>1, <4>1, <4>2
      <3> QED  BY <1>1, <1>5, <2>1, <3>2, <3>3
    <2>2. CASE n = y
      <3>1. CASE j <= c
        <4>1. Dst(n, j) = y /\ At(n, j) = j /\ j \in 1 .. c  BY <1>1, <1>5, <2>2, <3>1
        <4> QED  BY <1>1, <1>6, <2>2, <4>1 DEF c
      <3>2. CASE j > c
        <4>1. Dst(n, j) = z /\ At(n, j) = j - c  BY <1>1, <2>2, <3>2
        <4>2. j - c \in 1 .. Len(g[z].kid) /\ c + (j - c) = j  BY <1>5, <2>2, <3>2
        <4> QED  BY SMTT(30), <1>1, <1>6, <2>2, <4>1, <4>2
      <3> QED  BY <1>5, <2>2, <3>1, <3>2
    <2>3. CASE n \notin {a, y}  BY <1>1, <1>6, <2>3
    <2> QED  BY <2>1, <2>2, <2>3
  <1>8. ASSUME NEW m \in V, NEW n \in V, NEW d \in 1 .. Len(h[m].kid), NEW j \in 1 .. Len(h[n].kid),
               Dst(m, d) = Dst(n, j), At(m, d) = At(n, j)
        PROVE  m = n /\ d = j
    <2>1. m = n  BY <1>1, <1>8
    <2>2. CASE n = a  BY <1>1, <1>5, <1>8, <2>1, <2>2
    <2>3. CASE n = y
      <3>1. (d > c) <=> (j > c)  BY <1>1, <1>8, <2>1, <2>3
      <3> QED  BY <1>1, <1>5, <1>8, <2>1, <2>3, <3>1
    <2>4. CASE n \notin {a, y}  BY <1>8, <2>1, <2>4
    <2> QED  BY <2>1, <2>2, <2>3, <2>4
  <1> HIDE DEF Dst, At
  <1>9. Single(h, V)
    <2> SUFFICES ASSUME NEW m \in V, NEW n \in V, NEW d \in 1 .. Len(h[m].kid),
                        NEW j \in 1 .. Len(h[n].kid), h[m].kid[d] = h[n].kid[j]
                 PROVE  m = n /\ d = j
      BY DEF Single
    <2>1. /\ Dst(m, d) \in W /\ At(m, d) \in 1 .. Len(g[Dst(m, d)].kid)
          /\ Dst(n, j) \in W /\ At(n, j) \in 1 .. Len(g[Dst(n, j)].kid)
          /\ g[Dst(m, d)].kid[At(m, d)] = g[Dst(n, j)].kid[At(n, j)]
      BY <1>7
    <2>2. Dst(m, d) = Dst(n, j) /\ At(m, d) = At(n, j)
      <3>1. PICK m2, n2, d2, j2 : m2 = Dst(m, d) /\ n2 = Dst(n, j) /\ d2 = At(m, d) /\ j2 = At(n, j)
        OBVIOUS
      <3>2. /\ m2 \in W /\ n2 \in W /\ d2 \in 1 .. Len(g[m2].kid) /\ j2 \in 1 .. Len(g[n2].kid)
            /\ g[m2].kid[d2] = g[n2].kid[j2]
        BY <2>1, <3>1
      <3>4. m2 = n2 /\ d2 = j2  BY SMT, <1>b, <3>2
      <3> QED  BY <3>1, <3>4
    <2> QED  BY <1>8, <2>2
  <1>10. ASSUME NEW n \in V  PROVE Noded(h, n, V, M) /\ M[n] <= M[r]
    <2>1. h[n] \in Node /\ Noded(g, n, W, L)
      <3>1. Noded(g, n, W, L)  BY <1>2
      <3>2. CASE n \in {a, y}  BY <1>4, <3>1, <3>2
      <3>3. CASE n \notin {a, y}  BY <1>6, <3>1, <3>3 DEF Noded
      <3> QED  BY <3>2, <3>3
    <2>2. h[n].leaf = g[n].leaf
      <3>1. ~g[a].leaf  BY DEF Cut
      <3>2. g[a].leaf = h[a].leaf
        <4>1. g[a] \in Node  BY DEF Cut
        <4> QED  BY <1>4, <3>1, <4>1 DEF Node
      <3> QED  BY <1>4, <1>6, <3>2
    <2>3. h[n].leaf => Len(h[n].kid) = 0 /\ M[n] = 0
      <3> SUFFICES ASSUME h[n].leaf  PROVE Len(h[n].kid) = 0 /\ M[n] = 0  OBVIOUS
      <3>1. Len(g[n].kid) = 0 /\ M[n] = 0  BY <1>3, <2>1, <2>2 DEF Noded
      <3>2. n # a  BY <1>4
      <3>3. CASE n = y
        <4>1. Noded(g, z, W, L)  BY <1>2
        <4>2. Len(g[z].kid) = 0  BY <1>4, <3>3, <4>1 DEF Noded
        <4> QED  BY <1>5, <3>1, <3>3, <4>2 DEF c
      <3>4. CASE n # y  BY <1>6, <3>1, <3>2, <3>4
      <3> QED  BY <3>3, <3>4
    <2>4. ~h[n].leaf => Len(h[n].kid) = Len(h[n].key) + 1
      <3> SUFFICES ASSUME ~h[n].leaf  PROVE Len(h[n].kid) = Len(h[n].key) + 1  OBVIOUS
      <3>1. CASE n = a  BY <1>1, <3>1
      <3>2. CASE n = y
        <4>1. g[y] \in Node /\ g[z] \in Node  BY DEF Cut
        <4>2. Len(g[y].key) \in Nat /\ Len(g[z].key) \in Nat  BY <4>1 DEF Node
        <4>3. Len(h[y].key) = Len(g[y].key) + 1 + Len(g[z].key)  BY DEF Cut, Around
        <4>4. c = Len(g[y].key) + 1 /\ Len(g[z].kid) = Len(g[z].key) + 1  BY <3>2 DEF Cut, c
        <4>5. PICK ky, kz : ky = Len(g[y].key) /\ kz = Len(g[z].key)  OBVIOUS
        <4>6. Len(h[y].kid) = (ky + 1) + (kz + 1) /\ Len(h[y].key) = ky + 1 + kz
          BY <1>5, <4>3, <4>4, <4>5
        <4>7. ky \in Nat /\ kz \in Nat  BY <4>2, <4>5
        <4>8. (ky + 1) + (kz + 1) = ky + 1 + kz + 1  BY <4>7
        <4> QED  BY <3>2, <4>6, <4>8
      <3>3. CASE n \notin {a, y}  BY <1>6, <2>1, <2>2, <3>3 DEF Noded
      <3> QED  BY <3>1, <3>2, <3>3
    <2>5. ASSUME NEW j \in 1 .. Len(h[n].kid)
          PROVE  h[n].kid[j] \in V /\ M[n] = M[h[n].kid[j]] + 1
      <3>1. PICK m, d : m = Dst(n, j) /\ d = At(n, j)  OBVIOUS
      <3>2. /\ m \in W /\ d \in 1 .. Len(g[m].kid) /\ h[n].kid[j] = g[m].kid[d]
            /\ ~ (m = a /\ d = i + 1)
        BY <1>7, <3>1
      <3>3. Noded(g, m, W, L)  BY <1>2, <3>2
      <3>4. ~g[m].leaf  BY <3>2, <3>3 DEF Noded
      <3>5. g[m].kid[d] \in W /\ L[m] = L[g[m].kid[d]] + 1  BY <3>2, <3>3, <3>4 DEF Noded
      <3>6. g[m].kid[d] # z
        <4>1. ASSUME g[m].kid[d] = z  PROVE FALSE
          <5>1. a \in W /\ i + 1 \in 1 .. Len(g[a].kid) /\ g[m].kid[d] = g[a].kid[i + 1]
            BY <1>1, <4>1
          <5>2. m = a /\ d = i + 1  BY <1>b, <3>2, <5>1
          <5> QED  BY <3>2, <5>2
        <4> QED  BY <4>1
      <3>7. L[m] = L[n]  BY <1>1, <3>1 DEF Dst
      <3> QED  BY <1>3, <3>2, <3>5, <3>6, <3>7
    <2>6. M[n] <= M[r]  BY <1>1, <1>2, <1>3
    <2> QED  BY <2>1, <2>3, <2>4, <2>5, <2>6 DEF Noded
  <1>11. ASSUME NEW n \in V, n # r
         PROVE  \E m \in V : \E j \in 1 .. Len(h[m].kid) : h[m].kid[j] = n
    <2>0. PICK m \in W : \E d \in 1 .. Len(g[m].kid) : g[m].kid[d] = n  BY <1>11 DEF Tree
    <2>1. PICK d \in 1 .. Len(g[m].kid) : g[m].kid[d] = n  BY <2>0
    <2>2. CASE m = a
      <3>1. d # i + 1  BY <1>1, <2>1, <2>2
      <3>2. CASE d <= i
        <4>1. d \in 1 .. Len(h[a].kid) /\ d < i + 1  BY <1>1, <1>4, <1>5, <2>1, <2>2, <3>2
        <4>2. h[a].kid[d] = n  BY <1>4, <2>1, <2>2, <4>1
        <4> QED  BY <1>1, <4>1, <4>2
      <3>3. CASE d > i
        <4>1. d - 1 \in 1 .. Len(h[a].kid) /\ d - 1 >= i + 1 /\ (d - 1) + 1 = d
          BY <1>1, <1>4, <1>5, <2>1, <2>2, <3>1, <3>3
        <4>2. h[a].kid[d - 1] = n  BY <1>4, <2>1, <2>2, <4>1
        <4> QED  BY <1>1, <4>1, <4>2
      <3> QED  BY <1>1, <1>4, <1>5, <2>2, <3>2, <3>3
    <2>3. CASE m = y
      <3>1. d \in 1 .. Len(h[y].kid) /\ h[y].kid[d] = n
        <4>1. d \in 1 .. c  BY <2>1, <2>3 DEF c
        <4> QED  BY <1>5, <1>6, <2>1, <2>3, <4>1
      <3> QED  BY <1>1, <3>1
    <2>4. CASE m = z
      <3>1. c + d \in 1 .. Len(h[y].kid) /\ h[y].kid[c + d] = n  BY <1>5, <1>6, <2>1, <2>4
      <3> QED  BY <1>1, <3>1
    <2>5. CASE m \notin {a, y, z}
      <3>1. d \in 1 .. Len(h[m].kid) /\ h[m].kid[d] = n  BY <1>6, <2>1, <2>5
      <3> QED  BY <2>5, <3>1
    <2> QED  BY <2>2, <2>3, <2>4, <2>5
  <1> QED
    <2>1. Tree(h, r, V, M)  BY <1>1, <1>3, <1>9, <1>10, <1>11 DEF Tree
    <2> QED  BY <2>1 DEF M

\* What is written of a tree is written of each of its nodes.
LEMMA NodeFacts ==
  ASSUME NEW h, NEW r, NEW V, NEW L, NEW R, Good(h, r, V, L, R), NEW n \in V
  PROVE  /\ h[n].key \in Seq(R[n]) /\ h[n].key \in Seq(Nat) /\ h[n].key \in Seq(Keys)
         /\ h[n].kid \in Seq(Nat) /\ h[n].leaf \in BOOLEAN
         /\ R[n] \in SUBSET Nat /\ R[n] \subseteq Keys /\ L[n] \in Nat
         /\ \A j \in 1 .. Len(h[n].kid) :
              h[n].kid[j] \in V /\ R[h[n].kid[j]] \subseteq Gap(R[n], h[n].key, j)
         /\ h[n].leaf => Len(h[n].kid) = 0 /\ L[n] = 0
         /\ ~h[n].leaf => Len(h[n].kid) = Len(h[n].key) + 1
         /\ Sorted(h[n].key)
  <1>1. /\ Noded(h, n, V, L) /\ Ranged(h, n, R) /\ L \in [V -> Nat] /\ R \in [V -> SUBSET Keys]
    BY DEF Good, Tree
  <1>2. Keys \subseteq Nat  BY KeysAssumption
  <1>3. h[n] \in Node /\ R[n] \subseteq Keys /\ L[n] \in Nat  BY <1>1 DEF Noded
  <1>4. h[n].key \in Seq(Keys) /\ h[n].kid \in Seq(Nat) /\ h[n].leaf \in BOOLEAN
    BY <1>3 DEF Node
  <1>5. /\ \A j \in 1 .. Len(h[n].key) : h[n].key[j] \in R[n]
        /\ \A j \in 1 .. Len(h[n].kid) : R[h[n].kid[j]] \subseteq Gap(R[n], h[n].key, j)
        /\ Sorted(h[n].key)
    BY <1>1 DEF Ranged
  <1>6. h[n].key \in Seq(R[n]) /\ h[n].key \in Seq(Nat)
    <2>1. PICK q : q = h[n].key  OBVIOUS
    <2>2. q \in Seq(Keys) /\ \A j \in 1 .. Len(q) : q[j] \in R[n]  BY <1>4, <1>5, <2>1
    <2>3. \A j \in 1 .. Len(q) : q[j] \in Nat  BY <1>2, <1>3, <2>2
    <2>4. q \in [1 .. Len(q) -> R[n]] /\ q \in [1 .. Len(q) -> Nat] /\ Len(q) \in Nat
      BY <2>2, <2>3
    <2>5. q \in Seq(R[n]) /\ q \in Seq(Nat)  BY <2>4
    <2> QED  BY <2>1, <2>5
  <1>7. \A j \in 1 .. Len(h[n].kid) : h[n].kid[j] \in V
    <2>1. CASE h[n].leaf  BY <1>1, <2>1 DEF Noded
    <2>2. CASE ~h[n].leaf  BY <1>1, <2>2 DEF Noded
    <2> QED  BY <2>1, <2>2
  <1>8. R[n] \in SUBSET Nat  BY <1>2, <1>3
  <1> QED  BY <1>1, <1>3, <1>4, <1>5, <1>6, <1>7, <1>8 DEF Noded

\* What a node is, and what its children are.
LEMMA NodeShape ==
  ASSUME NEW h, NEW r, NEW V, NEW L, NEW R, Good(h, r, V, L, R), NEW n \in V
  PROVE  /\ h[n] \in Node /\ h[n].key \in Seq(Keys) /\ h[n].kid \in Seq(Nat)
         /\ h[n].leaf \in BOOLEAN /\ L[n] \in Nat
         /\ h[n].leaf => Len(h[n].kid) = 0
         /\ ~h[n].leaf => Len(h[n].kid) = Len(h[n].key) + 1
         /\ \A j \in 1 .. Len(h[n].kid) :
              h[n].kid[j] \in V /\ L[n] = L[h[n].kid[j]] + 1 /\ L[h[n].kid[j]] \in Nat
  <1>1. Noded(h, n, V, L) /\ L \in [V -> Nat]  BY DEF Good, Tree
  <1>2. h[n] \in Node  BY <1>1 DEF Noded
  <1>3. h[n].key \in Seq(Keys) /\ h[n].kid \in Seq(Nat) /\ h[n].leaf \in BOOLEAN
    BY <1>2 DEF Node
  <1>4. \A j \in 1 .. Len(h[n].kid) : h[n].kid[j] \in V /\ L[n] = L[h[n].kid[j]] + 1
    <2>1. CASE h[n].leaf  BY <1>1, <2>1 DEF Noded
    <2>2. CASE ~h[n].leaf  BY <1>1, <2>2 DEF Noded
    <2> QED  BY <2>1, <2>2
  <1>5. \A j \in 1 .. Len(h[n].kid) : L[h[n].kid[j]] \in Nat  BY <1>1, <1>4
  <1> QED  BY <1>1, <1>2, <1>3, <1>4, <1>5 DEF Noded

\* After a cut the keys are still in their ranges.
LEMMA CutKeeps ==
  ASSUME NEW h, NEW g, NEW r, NEW V, NEW L, NEW R, Good(h, r, V, L, R),
         NEW a, NEW i, NEW y, NEW z, Cut(h, g, V, a, i, y, z)
  PROVE  Good(g, r, V \cup {z}, CutL(V, L, y, z), CutR(V, R, y, z, g[a].key[i]))
  <1> DEFINE W == V \cup {z}
             Q == CutR(V, R, y, z, g[a].key[i])
  <1>0. PICK up, A, p, q, B, py, qy, qz :
          /\ up = g[a].key[i] /\ A = R[a] /\ p = h[a].key /\ q = g[a].key
          /\ B = R[y] /\ py = h[y].key /\ qy = g[y].key /\ qz = g[z].key
    OBVIOUS
  <1>1. Tree(g, r, W, CutL(V, L, y, z))  BY CutTree DEF Good
  <1>2. /\ y \in V /\ y # a /\ y # z /\ a # z /\ a \in V /\ z \notin V
        /\ i \in 1 .. Len(p) + 1 /\ i \in 1 .. Len(h[a].kid) /\ h[a].kid[i] = y
        /\ \A n \in V \ {a, y} : \A j \in 1 .. Len(h[n].kid) : h[n].kid[j] # y
        /\ L[a] = L[y] + 1 /\ L[y] \in Nat
    <2>1. a \in V /\ z \notin V /\ h[a].kid[i] = y /\ i \in 1 .. Len(h[a].kid)  BY DEF Cut
    <2> QED  BY <1>0, CutKids, <2>1 DEF Good
  <1>3. R \in [V -> SUBSET Keys] /\ R[r] = Keys /\ r \in V  BY DEF Good, Tree
  <1>4. /\ py \in Seq(B) /\ B \in SUBSET Nat /\ B \subseteq Keys /\ Sorted(py)
        /\ \A j \in 1 .. Len(h[y].kid) : h[y].kid[j] \in V /\ R[h[y].kid[j]] \subseteq Gap(B, py, j)
        /\ ~h[y].leaf => Len(h[y].kid) = Len(py) + 1
        /\ h[y].leaf => Len(h[y].kid) = 0
    BY SMTT(30), <1>0, <1>2, NodeFacts
  <1>5. /\ p \in Seq(A) /\ A \in SUBSET Nat /\ A \subseteq Keys /\ Sorted(p)
        /\ \A j \in 1 .. Len(h[a].kid) : h[a].kid[j] \in V /\ R[h[a].kid[j]] \subseteq Gap(A, p, j)
        /\ Len(h[a].kid) = Len(p) + 1
    <2>1. ~h[a].leaf  BY DEF Cut
    <2> QED  BY <1>0, <1>2, <2>1, NodeFacts
  <1>6. /\ Inserted(q, p, i, up) /\ Around(py, qy, up, qz)
        /\ Inserted(g[a].kid, h[a].kid, i + 1, z)
    BY <1>0 DEF Cut
  <1>7. /\ q \in Seq(Keys) /\ qy \in Seq(Nat) /\ qz \in Seq(Nat)
    <2>1. g[a] \in Node /\ g[y] \in Node /\ g[z] \in Node  BY DEF Cut
    <2>2. q \in Seq(Keys) /\ qy \in Seq(Keys) /\ qz \in Seq(Keys)  BY <1>0, <2>1 DEF Node
    <2>3. Keys \subseteq Nat  BY KeysAssumption
    <2>4. ASSUME NEW u \in Seq(Keys)  PROVE u \in Seq(Nat)
      <3>1. \A j \in 1 .. Len(u) : u[j] \in Keys  OBVIOUS
      <3>2. \A j \in 1 .. Len(u) : u[j] \in Nat  BY <2>3, <3>1
      <3>3. u \in [1 .. Len(u) -> Nat] /\ Len(u) \in Nat  BY <3>2
      <3> QED  BY <3>3
    <2> QED  BY <2>2, <2>4
  <1>8. /\ Q \in [W -> SUBSET Keys] /\ Q[r] = Keys
        /\ Q[z] = {e \in B : up <= e} /\ Q[y] = {e \in B : e <= up}
        /\ \A n \in V \ {y} : Q[n] = R[n]
    <2>1. /\ Q[z] = {e \in B : up <= e} /\ Q[y] = {e \in B : e <= up}
          /\ \A n \in V \ {y} : Q[n] = R[n]
      BY <1>0, <1>2 DEF CutR
    <2>2. y # r
      <3>1. L[a] <= L[r]  BY <1>2 DEF Good, Tree
      <3> QED  BY <1>2, <3>1
    <2>3. Q \in [W -> SUBSET Keys]  BY <1>2, <1>3 DEF CutR
    <2> QED  BY <1>3, <2>1, <2>2, <2>3
  <1> HIDE DEF Q, W
  <1>9. /\ Sorted(qy) /\ Sorted(qz) /\ up \in B
        /\ \A j \in 1 .. Len(qy) : qy[j] \in Q[y]
        /\ \A j \in 1 .. Len(qz) : qz[j] \in Q[z]
        /\ \A j \in 1 .. Len(qy) + 1 : Gap(Q[y], qy, j) = Gap(B, py, j)
        /\ \A j \in 1 .. Len(qz) + 1 : Gap(Q[z], qz, j) = Gap(B, py, Len(qy) + 1 + j)
    <2>1. Q[y] = Lower(B, up) /\ Q[z] = Upper(B, up)  BY <1>8 DEF Lower, Upper
    <2>2. /\ Sorted(qy) /\ Sorted(qz) /\ up \in B
          /\ \A j \in 1 .. Len(qy) : qy[j] \in Lower(B, up)
          /\ \A j \in 1 .. Len(qz) : qz[j] \in Upper(B, up)
          /\ \A j \in 1 .. Len(qy) + 1 : Gap(Lower(B, up), qy, j) = Gap(B, py, j)
          /\ \A j \in 1 .. Len(qz) + 1 : Gap(Upper(B, up), qz, j) = Gap(B, py, Len(qy) + 1 + j)
      <3>1. B \in SUBSET Nat /\ py \in Seq(B) /\ Sorted(py) /\ qy \in Seq(Nat) /\ qz \in Seq(Nat)
            /\ Around(py, qy, up, qz)
        BY <1>4, <1>6, <1>7
      <3>2. Parted(B, py, qy, up, qz)  BY Zenon, <3>1, AroundSorted
      <3> QED  BY <3>2 DEF Parted
    <2> QED  BY <2>1, <2>2
  <1>10. /\ B \subseteq Gap(A, p, i) /\ up \in A /\ Between(p, i, up)
    <2>1. B \subseteq Gap(A, p, i)  BY <1>0, <1>2, <1>5
    <2> QED  BY <1>9, <2>1 DEF Gap
  <1>11. q \in Seq(A)
    <2>1. /\ Len(q) = Len(p) + 1 /\ q[i] = up /\ i \in 1 .. Len(q)
          /\ \A j \in 1 .. Len(p) : (j < i => q[j] = p[j]) /\ (j >= i => q[j + 1] = p[j])
      BY <1>6 DEF Inserted
    <2>2. ASSUME NEW j \in 1 .. Len(q)  PROVE q[j] \in A
      <3>1. CASE j < i
        <4>1. j \in 1 .. Len(p) /\ q[j] = p[j]  BY <1>2, <1>5, <2>1, <3>1
        <4> QED  BY <1>5, <4>1
      <3>2. CASE j = i  BY <1>10, <2>1, <3>2
      <3>3. CASE j > i
        <4>1. j - 1 \in 1 .. Len(p) /\ (j - 1) + 1 = j /\ j - 1 >= i  BY <1>2, <1>5, <2>1, <3>3
        <4>2. q[(j - 1) + 1] = p[j - 1] /\ p[j - 1] \in A  BY <1>5, <2>1, <4>1
        <4> QED  BY <4>1, <4>2
      <3> QED  BY <2>1, <3>1, <3>2, <3>3
    <2>3. q \in [1 .. Len(q) -> A] /\ Len(q) \in Nat  BY <1>7, <2>2
    <2> QED  BY <2>3
  <1>12. /\ Sorted(q)
         /\ Gap(A, q, i) = {e \in Gap(A, p, i) : e <= up}
         /\ Gap(A, q, i + 1) = {e \in Gap(A, p, i) : up <= e}
         /\ \A j \in 1 .. i - 1 : Gap(A, q, j) = Gap(A, p, j)
         /\ \A j \in i + 1 .. Len(p) + 1 : Gap(A, q, j + 1) = Gap(A, p, j)
    BY <1>5, <1>6, <1>10, <1>11, InsertedSorted, InsertedGaps
  <1>13. \A j \in 1 .. Len(h[a].kid) : j # i => h[a].kid[j] # y /\ Q[h[a].kid[j]] \subseteq Gap(A, p, j)
    <2> SUFFICES ASSUME NEW j \in 1 .. Len(h[a].kid), j # i
                 PROVE  h[a].kid[j] # y /\ Q[h[a].kid[j]] \subseteq Gap(A, p, j)
      OBVIOUS
    <2>1. Single(h, V)  BY DEF Good, Tree
    <2>2. h[a].kid[j] # y  BY <1>2, <2>1 DEF Single
    <2> QED  BY <1>5, <1>8, <2>2
  <1>14. Ranged(g, a, Q)
    <2>1. Q[a] = A  BY <1>0, <1>2, <1>8
    <2>2. /\ Len(g[a].kid) = Len(h[a].kid) + 1 /\ g[a].kid[i + 1] = z
          /\ \A j \in 1 .. Len(h[a].kid) : /\ j < i + 1 => g[a].kid[j] = h[a].kid[j]
                                           /\ j >= i + 1 => g[a].kid[j + 1] = h[a].kid[j]
      BY <1>6 DEF Inserted
    <2>3. ASSUME NEW j \in 1 .. Len(g[a].kid)  PROVE Q[g[a].kid[j]] \subseteq Gap(A, q, j)
      <3>0. Len(p) \in Nat  BY <1>5
      <3>1. CASE j < i
        <4>1. j \in 1 .. Len(h[a].kid) /\ j \in 1 .. i - 1 /\ g[a].kid[j] = h[a].kid[j]
          BY <1>2, <1>5, <2>2, <3>0, <3>1
        <4> QED  BY <1>12, <1>13, <3>1, <4>1
      <3>2. CASE j = i
        <4>0. i \in 1 .. Len(h[a].kid) /\ i < i + 1  BY <1>2
        <4>1. g[a].kid[j] = y  BY <1>2, <2>2, <3>2, <4>0
        <4>2. Q[y] \subseteq Gap(A, q, i)  BY <1>8, <1>10, <1>12
        <4> QED  BY <3>2, <4>1, <4>2
      <3>3. CASE j = i + 1
        <4>1. Q[z] \subseteq Gap(A, q, i + 1)  BY <1>8, <1>10, <1>12
        <4> QED  BY <2>2, <3>3, <4>1
      <3>4. CASE j > i + 1
        <4>0. PICK d : d = j - 1  OBVIOUS
        <4>1. /\ d \in 1 .. Len(h[a].kid) /\ d \in i + 1 .. Len(p) + 1 /\ j = d + 1 /\ d # i
          BY <1>2, <1>5, <2>2, <3>0, <3>4, <4>0
        <4>2. g[a].kid[d + 1] = h[a].kid[d]  BY <2>2, <4>1
        <4> QED  BY <1>12, <1>13, <4>1, <4>2
      <3> QED  BY <1>2, <3>1, <3>2, <3>3, <3>4
    <2>4. \A j \in 1 .. Len(q) : q[j] \in A  BY <1>11
    <2> QED  BY <1>0, <1>12, <2>1, <2>3, <2>4 DEF Ranged
  <1>15. ASSUME NEW n \in V \ {a, y}  PROVE Ranged(g, n, Q)
    <2>1. g[n] = h[n]  BY DEF Cut
    <2>2. Q[n] = R[n]  BY <1>8
    <2>3. ASSUME NEW j \in 1 .. Len(h[n].kid)  PROVE Q[h[n].kid[j]] = R[h[n].kid[j]]
      <3>1. h[n].kid[j] \in V  BY NodeFacts
      <3>2. h[n].kid[j] # y  BY <1>2
      <3> QED  BY <1>8, <3>1, <3>2
    <2>4. Ranged(h, n, R)  BY DEF Good
    <2> QED  BY <2>1, <2>2, <2>3, <2>4 DEF Ranged
  <1>16. ASSUME NEW j \in 1 .. Len(h[y].kid)  PROVE Q[h[y].kid[j]] \subseteq Gap(B, py, j)
    <2>1. h[y].kid[j] # y
      <3>1. Single(h, V)  BY DEF Good, Tree
      <3> QED  BY <1>2, <3>1 DEF Single
    <2> QED  BY <1>4, <1>8, <2>1
  <1>17. /\ Len(g[y].kid) = (IF h[y].leaf THEN 0 ELSE Len(qy) + 1)
         /\ Len(g[z].kid) = (IF h[y].leaf THEN 0 ELSE Len(qz) + 1)
         /\ Len(py) = Len(qy) + 1 + Len(qz)
         /\ \A j \in 1 .. Len(g[y].kid) : g[y].kid[j] = h[y].kid[j]
         /\ \A j \in 1 .. Len(g[z].kid) : g[z].kid[j] = h[y].kid[Len(g[y].kid) + j]
    BY <1>0 DEF Cut, Around
  <1>18. Ranged(g, y, Q)
    <2>1. ASSUME NEW j \in 1 .. Len(g[y].kid)  PROVE Q[g[y].kid[j]] \subseteq Gap(Q[y], qy, j)
      <3>1. j \in 1 .. Len(qy) + 1 /\ j \in 1 .. Len(h[y].kid)
        <4>1. ~h[y].leaf  BY <1>17
        <4>2. Len(h[y].kid) = Len(qy) + Len(qz) + 2 /\ Len(g[y].kid) = Len(qy) + 1
          BY <1>4, <1>7, <1>17, <4>1
        <4> QED  BY <1>7, <4>2
      <3> QED  BY <1>9, <1>16, <1>17, <3>1
    <2> QED  BY <1>0, <1>9, <2>1 DEF Ranged
  <1>19. Ranged(g, z, Q)
    <2>1. ASSUME NEW j \in 1 .. Len(g[z].kid)  PROVE Q[g[z].kid[j]] \subseteq Gap(Q[z], qz, j)
      <3>1. /\ j \in 1 .. Len(qz) + 1 /\ Len(qy) + 1 + j \in 1 .. Len(h[y].kid)
            /\ Len(g[y].kid) = Len(qy) + 1
        <4>1. ~h[y].leaf  BY <1>17
        <4>2. /\ Len(h[y].kid) = Len(qy) + Len(qz) + 2 /\ Len(g[y].kid) = Len(qy) + 1
              /\ Len(g[z].kid) = Len(qz) + 1
          BY <1>4, <1>7, <1>17, <4>1
        <4> QED  BY <1>7, <4>2
      <3> QED  BY <1>9, <1>16, <1>17, <3>1
    <2> QED  BY <1>0, <1>9, <2>1 DEF Ranged
  <1> QED
    <2>1. \A n \in W : Ranged(g, n, Q)  BY <1>14, <1>15, <1>18, <1>19 DEF W
    <2>2. Good(g, r, W, CutL(V, L, y, z), Q)  BY <1>1, <1>8, <2>1 DEF Good
    <2> QED  BY <2>2 DEF Q, W

\* After a join the keys are still in their ranges.
LEMMA JoinKeeps ==
  ASSUME NEW h, NEW g, NEW r, NEW V, NEW L, NEW W, NEW R, Good(g, r, W, L, R),
         NEW a, NEW i, NEW y, NEW z, Cut(h, g, V, a, i, y, z), Adds(W, V, z)
  PROVE  Good(h, r, V, JoinL(V, L), JoinR(V, R, y, Gap(R[a], h[a].key, i)))
  <1> DEFINE Q == JoinR(V, R, y, Gap(R[a], h[a].key, i))
  <1>0. PICK up, A, p, q, B, py, qy, qz :
          /\ up = g[a].key[i] /\ A = R[a] /\ p = h[a].key /\ q = g[a].key
          /\ B = Gap(A, p, i) /\ py = h[y].key /\ qy = g[y].key /\ qz = g[z].key
    OBVIOUS
  <1>1. Tree(h, r, V, JoinL(V, L)) /\ Adjoin(h, g, r, V, L, a, i, y, z)
    <2>1. Tree(g, r, W, L)  BY DEF Good
    <2> QED  BY Zenon, <2>1, JoinTree, JoinKids
  <1>2. /\ a \in V /\ y \in V /\ r \in V /\ y # a /\ z \notin V
        /\ L[a] = L[y] + 1 /\ L[z] = L[y] /\ L[y] \in Nat
        /\ i \in 1 .. Len(g[a].kid) /\ i + 1 \in 1 .. Len(g[a].kid)
        /\ g[a].kid[i] = y /\ g[a].kid[i + 1] = z
        /\ i \in 1 .. Len(p) + 1 /\ i \in 1 .. Len(h[a].kid)
        /\ Len(h[a].kid) = Len(p) + 1 /\ h[a].kid[i] = y
        /\ \A n : n \in W <=> n \in V \/ n = z
    <2>1. h[a].kid[i] = y  BY DEF Cut
    <2>2. \A n : n \in W <=> n \in V \/ n = z  BY DEF Adds
    <2> QED  BY <1>0, <1>1, <2>1, <2>2 DEF Adjoin
  <1>3. R \in [W -> SUBSET Keys] /\ R[r] = Keys  BY DEF Good, Tree
  <1>4. /\ h[a] \in Node /\ h[y] \in Node
        /\ Inserted(q, p, i, up) /\ Around(py, qy, up, qz)
        /\ Inserted(g[a].kid, h[a].kid, i + 1, z)
        /\ \A n \in V \ {a, y} : g[n] = h[n]
    BY <1>0 DEF Cut
  <1>5. p \in Seq(Nat) /\ py \in Seq(Nat) /\ Len(p) \in Nat /\ h[a].kid \in Seq(Nat)
    <2>1. p \in Seq(Keys) /\ py \in Seq(Keys) /\ h[a].kid \in Seq(Nat)  BY <1>0, <1>4 DEF Node
    <2>3. Keys \subseteq Nat  BY KeysAssumption
    <2>4. ASSUME NEW u \in Seq(Keys)  PROVE u \in Seq(Nat)
      <3>1. \A j \in 1 .. Len(u) : u[j] \in Keys  OBVIOUS
      <3>2. \A j \in 1 .. Len(u) : u[j] \in Nat  BY <2>3, <3>1
      <3>3. u \in [1 .. Len(u) -> Nat] /\ Len(u) \in Nat  BY <3>2
      <3> QED  BY <3>3
    <2> QED  BY <2>1, <2>4
  <1>6. /\ q \in Seq(A) /\ A \in SUBSET Nat /\ A \subseteq Keys /\ Sorted(q)
        /\ \A j \in 1 .. Len(g[a].kid) : g[a].kid[j] \in W /\ R[g[a].kid[j]] \subseteq Gap(A, q, j)
    <2>1. a \in W  BY <1>2
    <2>2. /\ g[a].key \in Seq(R[a]) /\ Sorted(g[a].key) /\ R[a] \in SUBSET Nat /\ R[a] \subseteq Keys
          /\ \A j \in 1 .. Len(g[a].kid) : g[a].kid[j] \in W /\ R[g[a].kid[j]] \subseteq Gap(R[a], g[a].key, j)
      BY <2>1, NodeFacts
    <2> QED  BY <1>0, <2>2
  <1>7. p \in Seq(A) /\ Sorted(p) /\ Between(p, i, up) /\ up \in A
    BY Zenon, <1>4, <1>5, <1>6, DroppedSorted
  <1>8. /\ R[y] \subseteq Lower(B, up) /\ R[z] \subseteq Upper(B, up)
        /\ \A j \in 1 .. i - 1 : Gap(A, q, j) = Gap(A, p, j)
        /\ \A j \in i + 1 .. Len(p) + 1 : Gap(A, q, j + 1) = Gap(A, p, j)
    <2>1. /\ Gap(A, q, i) = {d \in Gap(A, p, i) : d <= up}
          /\ Gap(A, q, i + 1) = {d \in Gap(A, p, i) : up <= d}
          /\ \A j \in 1 .. i - 1 : Gap(A, q, j) = Gap(A, p, j)
          /\ \A j \in i + 1 .. Len(p) + 1 : Gap(A, q, j + 1) = Gap(A, p, j)
      <3>1. /\ A \in SUBSET Nat /\ p \in Seq(A) /\ q \in Seq(A) /\ up \in A /\ Inserted(q, p, i, up)
            /\ Sorted(p) /\ Between(p, i, up)
        BY <1>4, <1>6, <1>7
      <3> QED  BY <3>1, InsertedSorted, InsertedGaps
    <2>2. R[y] \subseteq Gap(A, q, i) /\ R[z] \subseteq Gap(A, q, i + 1)  BY <1>2, <1>6
    <2> QED  BY <1>0, <2>1, <2>2 DEF Lower, Upper
  <1>9. /\ B \in SUBSET Nat /\ B \subseteq Keys /\ up \in B
    BY <1>0, <1>6, <1>7 DEF Gap
  <1>10. /\ Q \in [V -> SUBSET Keys] /\ Q[r] = Keys /\ Q[y] = B
         /\ \A n \in V \ {y} : Q[n] = R[n]
    <2>1. Q[y] = B /\ \A n \in V \ {y} : Q[n] = R[n]  BY <1>0, <1>2 DEF JoinR
    <2>2. y # r
      <3>1. L[a] <= L[r]  BY <1>2 DEF Good, Tree
      <3> QED  BY <1>2, <3>1
    <2>3. Q \in [V -> SUBSET Keys]
      <3>1. Gap(R[a], h[a].key, i) \subseteq Keys  BY <1>0, <1>9
      <3> QED  BY <1>2, <1>3, <3>1 DEF JoinR
    <2> QED  BY <1>2, <1>3, <2>1, <2>2, <2>3
  <1> HIDE DEF Q
  <1>11. /\ qy \in Seq(Lower(B, up)) /\ Sorted(qy)
         /\ \A j \in 1 .. Len(g[y].kid) : g[y].kid[j] \in W /\ R[g[y].kid[j]] \subseteq Gap(Lower(B, up), qy, j)
    <2>1. y \in W  BY <1>2
    <2>2. /\ g[y].key \in Seq(R[y]) /\ Sorted(g[y].key)
          /\ \A j \in 1 .. Len(g[y].kid) : g[y].kid[j] \in W /\ R[g[y].kid[j]] \subseteq Gap(R[y], g[y].key, j)
      BY <2>1, NodeFacts
    <2>3. R[y] \subseteq Lower(B, up)  BY <1>8
    <2>5. qy \in Seq(Lower(B, up))  BY <1>0, <2>2, <2>3, Widened
    <2>6. \A j : Gap(R[y], qy, j) \subseteq Gap(Lower(B, up), qy, j)  BY <2>3, WidenedGap
    <2> QED  BY <1>0, <2>2, <2>5, <2>6
  <1>12. /\ qz \in Seq(Upper(B, up)) /\ Sorted(qz)
         /\ \A j \in 1 .. Len(g[z].kid) : g[z].kid[j] \in W /\ R[g[z].kid[j]] \subseteq Gap(Upper(B, up), qz, j)
    <2>1. z \in W  BY <1>2
    <2>2. /\ g[z].key \in Seq(R[z]) /\ Sorted(g[z].key)
          /\ \A j \in 1 .. Len(g[z].kid) : g[z].kid[j] \in W /\ R[g[z].kid[j]] \subseteq Gap(R[z], g[z].key, j)
      BY <2>1, NodeFacts
    <2>3. R[z] \subseteq Upper(B, up)  BY <1>8
    <2>5. qz \in Seq(Upper(B, up))  BY <1>0, <2>2, <2>3, Widened
    <2>6. \A j : Gap(R[z], qz, j) \subseteq Gap(Upper(B, up), qz, j)  BY <2>3, WidenedGap
    <2> QED  BY <1>0, <2>2, <2>5, <2>6
  <1>13. py \in Seq(B) /\ Sorted(py)
    BY Zenon, <1>4, <1>5, <1>9, <1>11, <1>12, AroundJoined
  <1>14. qy \in Seq(Nat) /\ qz \in Seq(Nat)
    <2>1. Lower(B, up) \in SUBSET Nat /\ Upper(B, up) \in SUBSET Nat  BY <1>9 DEF Lower, Upper
    <2>2. ASSUME NEW S \in SUBSET Nat, NEW u \in Seq(S)  PROVE u \in Seq(Nat)
      <3>1. \A j \in 1 .. Len(u) : u[j] \in S  OBVIOUS
      <3>2. \A j \in 1 .. Len(u) : u[j] \in Nat  BY <3>1
      <3>3. u \in [1 .. Len(u) -> Nat] /\ Len(u) \in Nat  BY <3>2
      <3> QED  BY <3>3
    <2> QED  BY <1>11, <1>12, <2>1, <2>2
  <1>15. /\ \A j \in 1 .. Len(qy) + 1 : Gap(Lower(B, up), qy, j) = Gap(B, py, j)
         /\ \A j \in 1 .. Len(qz) + 1 : Gap(Upper(B, up), qz, j) = Gap(B, py, Len(qy) + 1 + j)
    <2>1. /\ B \in SUBSET Nat /\ py \in Seq(B) /\ Sorted(py) /\ qy \in Seq(Nat) /\ qz \in Seq(Nat)
          /\ Around(py, qy, up, qz)
      BY <1>4, <1>9, <1>13, <1>14
    <2>2. Parted(B, py, qy, up, qz)  BY Zenon, <2>1, AroundSorted
    <2> QED  BY <2>2 DEF Parted
  <1>16. \A m, n \in W : \A d \in 1 .. Len(g[m].kid), j \in 1 .. Len(g[n].kid) :
           g[m].kid[d] = g[n].kid[j] => m = n /\ d = j
    BY DEF Good, Tree, Single
  <1>17. ASSUME NEW m \in W, NEW d \in 1 .. Len(g[m].kid), ~ (m = a /\ d \in {i, i + 1}),
                g[m].kid[d] \in W
         PROVE  g[m].kid[d] \in V /\ g[m].kid[d] # y /\ Q[g[m].kid[d]] = R[g[m].kid[d]]
    <2>1. g[m].kid[d] # y
      <3>1. SUFFICES ASSUME g[m].kid[d] = g[a].kid[i]  PROVE FALSE  BY <1>2
      <3>2. m = a /\ d = i  BY SMTT(30), <1>2, <1>16, <3>1
      <3> QED  BY <1>17, <3>2
    <2>2. g[m].kid[d] # z
      <3>1. SUFFICES ASSUME g[m].kid[d] = g[a].kid[i + 1]  PROVE FALSE  BY <1>2
      <3>2. m = a /\ d = i + 1  BY <1>2, <1>16, <3>1
      <3> QED  BY <1>17, <3>2
    <2> QED  BY <1>2, <1>10, <1>17, <2>1, <2>2
  <1>18. Ranged(h, a, Q)
    <2>1. Q[a] = A  BY <1>0, <1>2, <1>10
    <2>2. /\ Len(g[a].kid) = Len(h[a].kid) + 1
          /\ \A j \in 1 .. Len(h[a].kid) : /\ j < i + 1 => g[a].kid[j] = h[a].kid[j]
                                           /\ j >= i + 1 => g[a].kid[j + 1] = h[a].kid[j]
      BY <1>4 DEF Inserted
    <2>3. ASSUME NEW j \in 1 .. Len(h[a].kid)  PROVE Q[h[a].kid[j]] \subseteq Gap(A, p, j)
      <3>1. CASE j < i
        <4>1. j \in 1 .. Len(g[a].kid) /\ j \in 1 .. i - 1 /\ j < i + 1 /\ j \notin {i, i + 1}
          <5>1. PICK m : m = Len(h[a].kid)  OBVIOUS
          <5>2. m \in Nat /\ i \in 1 .. m /\ j \in 1 .. m /\ Len(g[a].kid) = m + 1
            BY <1>2, <1>5, <2>2, <5>1
          <5>3. j \in 1 .. m + 1 /\ j \in 1 .. i - 1 /\ j < i + 1 /\ j \notin {i, i + 1}
            BY <3>1, <5>2
          <5> QED  BY <5>2, <5>3
        <4>2. h[a].kid[j] = g[a].kid[j] /\ g[a].kid[j] \in W  BY <1>6, <2>2, <4>1
        <4>3. Q[g[a].kid[j]] = R[g[a].kid[j]]  BY <1>2, <1>17, <4>1, <4>2
        <4> QED  BY <1>6, <1>8, <4>1, <4>2, <4>3
      <3>2. CASE j = i  BY <1>0, <1>2, <1>10, <3>2
      <3>3. CASE j > i
        <4>0. PICK d : d = j + 1  OBVIOUS
        <4>1. /\ d \in 1 .. Len(g[a].kid) /\ j \in i + 1 .. Len(p) + 1 /\ j >= i + 1
              /\ d \notin {i, i + 1}
          BY <1>2, <1>5, <2>2, <3>3, <4>0
        <4>2. h[a].kid[j] = g[a].kid[d] /\ g[a].kid[d] \in W  BY <1>6, <2>2, <4>0, <4>1
        <4>3. Q[g[a].kid[d]] = R[g[a].kid[d]]  BY <1>2, <1>17, <4>1, <4>2
        <4>4. Gap(A, q, d) = Gap(A, p, j)  BY <1>8, <4>0, <4>1
        <4> QED  BY <1>6, <4>1, <4>2, <4>3, <4>4
      <3> QED  BY <1>2, <3>1, <3>2, <3>3
    <2>4. \A j \in 1 .. Len(p) : p[j] \in A  BY <1>7
    <2> QED  BY <1>0, <1>7, <2>1, <2>3, <2>4 DEF Ranged
  <1>19. ASSUME NEW n \in V \ {a, y}  PROVE Ranged(h, n, Q)
    <2>1. g[n] = h[n] /\ n \in W  BY <1>2, <1>4
    <2>2. Q[n] = R[n]  BY <1>10
    <2>3. ASSUME NEW j \in 1 .. Len(h[n].kid)  PROVE Q[h[n].kid[j]] = R[h[n].kid[j]]
      <3>1. g[n].kid[j] \in W /\ j \in 1 .. Len(g[n].kid)  BY <2>1, NodeFacts
      <3> QED  BY <1>17, <2>1, <3>1
    <2>4. Ranged(g, n, R)  BY <2>1 DEF Good
    <2> QED  BY <2>1, <2>2, <2>3, <2>4 DEF Ranged
  <1>20. Ranged(h, y, Q)
    <2>1. /\ Len(g[y].kid) = (IF h[y].leaf THEN 0 ELSE Len(qy) + 1)
          /\ Len(g[z].kid) = (IF h[y].leaf THEN 0 ELSE Len(qz) + 1)
          /\ Len(h[y].kid) = Len(g[y].kid) + Len(g[z].kid)
          /\ \A j \in 1 .. Len(g[y].kid) : g[y].kid[j] = h[y].kid[j]
          /\ \A j \in 1 .. Len(g[z].kid) : g[z].kid[j] = h[y].kid[Len(g[y].kid) + j]
      BY <1>0 DEF Cut
    <2>2. ASSUME NEW j \in 1 .. Len(h[y].kid)  PROVE Q[h[y].kid[j]] \subseteq Gap(B, py, j)
      <3>0. PICK ly, lz : ly = Len(qy) /\ lz = Len(qz)  OBVIOUS
      <3>1. /\ Len(g[y].kid) = ly + 1 /\ Len(g[z].kid) = lz + 1 /\ Len(h[y].kid) = (ly + 1) + (lz + 1)
            /\ ly \in Nat /\ lz \in Nat
        BY <1>14, <2>1, <3>0
      <3>2. CASE j <= ly + 1
        <4>1. j \in 1 .. Len(g[y].kid) /\ j \in 1 .. ly + 1  BY <3>1, <3>2
        <4>2. h[y].kid[j] = g[y].kid[j] /\ g[y].kid[j] \in W  BY <1>11, <2>1, <4>1
        <4>3. Q[g[y].kid[j]] = R[g[y].kid[j]]  BY <1>2, <1>17, <4>1, <4>2
        <4>4. R[g[y].kid[j]] \subseteq Gap(Lower(B, up), qy, j)  BY <1>11, <4>1
        <4> QED  BY <1>15, <3>0, <4>1, <4>2, <4>3, <4>4
      <3>3. CASE j > ly + 1
        <4>0. PICK d : d = j - (ly + 1)  OBVIOUS
        <4>1. d \in 1 .. Len(g[z].kid) /\ d \in 1 .. lz + 1 /\ j = ly + 1 + d  BY <3>1, <3>3, <4>0
        <4>2. h[y].kid[j] = g[z].kid[d] /\ g[z].kid[d] \in W  BY <1>12, <2>1, <3>1, <4>1
        <4>3. Q[g[z].kid[d]] = R[g[z].kid[d]]  BY <1>2, <1>17, <4>1, <4>2
        <4>4. R[g[z].kid[d]] \subseteq Gap(Upper(B, up), qz, d)  BY <1>12, <4>1
        <4>5. Gap(Upper(B, up), qz, d) = Gap(B, py, j)  BY <1>15, <3>0, <4>1
        <4> QED  BY <4>2, <4>3, <4>4, <4>5
      <3> QED  BY <3>1, <3>2, <3>3
    <2>3. \A j \in 1 .. Len(py) : py[j] \in B  BY <1>13
    <2> QED  BY <1>0, <1>10, <1>13, <2>2, <2>3 DEF Ranged
  <1> QED
    <2>1. \A n \in V : Ranged(h, n, Q)  BY <1>18, <1>19, <1>20
    <2>2. Good(h, r, V, JoinL(V, L), Q)  BY <1>1, <1>10, <2>1 DEF Good
    <2> QED  BY <2>2 DEF Q

-----------------------------------------------------------------------------
(* What the operations on one node do to it.                                 *)

\* PUTKEY, the insertion of a key into the keys of a node.
LEMMA PutKeyNode ==
  ASSUME NEW n \in Node, NEW i \in 0 .. N(n), NEW e \in Keys
  PROVE  /\ PutKey(n, i, e) \in Node /\ PutKey(n, i, e).leaf = n.leaf
         /\ PutKey(n, i, e).kid = n.kid /\ Inserted(PutKey(n, i, e).key, n.key, i + 1, e)
  <1>1. n.key \in Seq(Keys) /\ n.kid \in Seq(Nat) /\ n.leaf \in BOOLEAN  BY DEF Node
  <1>2. i + 1 \in 1 .. Len(n.key) + 1  BY <1>1 DEF N
  <1>3. PICK q : q = InsertAt(n.key, i + 1, e)  OBVIOUS
  <1>4. q \in Seq(Keys) /\ Inserted(q, n.key, i + 1, e)  BY <1>1, <1>2, <1>3, InsertedAt
  <1>5. PutKey(n, i, e) = [n EXCEPT !.key = q]  BY <1>3 DEF PutKey
  <1> QED  BY <1>1, <1>4, <1>5 DEF Node

\* The removal of a key from the keys of a node.
LEMMA DropKeyNode ==
  ASSUME NEW n \in Node, NEW i \in 0 .. N(n) - 1
  PROVE  /\ DropKey(n, i) \in Node /\ DropKey(n, i).leaf = n.leaf /\ DropKey(n, i).kid = n.kid
         /\ Inserted(n.key, DropKey(n, i).key, i + 1, n.key[i + 1])
  <1>1. n.key \in Seq(Keys) /\ n.kid \in Seq(Nat) /\ n.leaf \in BOOLEAN  BY DEF Node
  <1>2. i + 1 \in 1 .. Len(n.key)  BY <1>1 DEF N
  <1>3. PICK q : q = RemoveAt(n.key, i + 1)  OBVIOUS
  <1>4. q \in Seq(Keys) /\ Inserted(n.key, q, i + 1, n.key[i + 1])
    BY <1>1, <1>2, <1>3, RemovedAt
  <1>5. DropKey(n, i) = [n EXCEPT !.key = q]  BY <1>3 DEF DropKey
  <1> QED  BY <1>1, <1>4, <1>5 DEF Node

\* The insertion of a child into the children of a node.
LEMMA PutKidNode ==
  ASSUME NEW n \in Node, NEW i \in 0 .. Len(n.kid), NEW e \in Nat
  PROVE  /\ PutKid(n, i, e) \in Node /\ PutKid(n, i, e).leaf = n.leaf
         /\ PutKid(n, i, e).key = n.key
         /\ n.leaf => PutKid(n, i, e).kid = n.kid
         /\ ~n.leaf => Inserted(PutKid(n, i, e).kid, n.kid, i + 1, e)
  <1>1. n.key \in Seq(Keys) /\ n.kid \in Seq(Nat) /\ n.leaf \in BOOLEAN  BY DEF Node
  <1>2. i + 1 \in 1 .. Len(n.kid) + 1  BY <1>1
  <1>3. PICK q : q = InsertAt(n.kid, i + 1, e)  OBVIOUS
  <1>4. q \in Seq(Nat) /\ Inserted(q, n.kid, i + 1, e)  BY <1>1, <1>2, <1>3, InsertedAt
  <1>5. PutKid(n, i, e) = IF n.leaf THEN n ELSE [n EXCEPT !.kid = q]  BY <1>3 DEF PutKid
  <1> QED  BY <1>1, <1>4, <1>5 DEF Node

\* The removal of a child from the children of a node.
LEMMA DropKidNode ==
  ASSUME NEW n \in Node, NEW i, ~n.leaf => i \in 0 .. Len(n.kid) - 1
  PROVE  /\ DropKid(n, i) \in Node /\ DropKid(n, i).leaf = n.leaf
         /\ DropKid(n, i).key = n.key
         /\ n.leaf => DropKid(n, i).kid = n.kid
         /\ ~n.leaf => Inserted(n.kid, DropKid(n, i).kid, i + 1, n.kid[i + 1])
  <1>1. n.key \in Seq(Keys) /\ n.kid \in Seq(Nat) /\ n.leaf \in BOOLEAN  BY DEF Node
  <1>2. CASE n.leaf  BY <1>2 DEF DropKid
  <1>3. CASE ~n.leaf
    <2>2. i + 1 \in 1 .. Len(n.kid)  BY <1>1, <1>3
    <2>3. PICK q : q = RemoveAt(n.kid, i + 1)  OBVIOUS
    <2>4. q \in Seq(Nat) /\ Inserted(n.kid, q, i + 1, n.kid[i + 1])
      BY <1>1, <2>2, <2>3, RemovedAt
    <2>5. DropKid(n, i) = [n EXCEPT !.kid = q]  BY <1>3, <2>3 DEF DropKid
    <2> QED  BY <1>1, <1>3, <2>4, <2>5 DEF Node
  <1> QED  BY <1>2, <1>3

\* The assignment to a key of a node.
LEMMA SetKeyNode ==
  ASSUME NEW n \in Node, NEW i \in 0 .. N(n) - 1, NEW e \in Keys
  PROVE  /\ SetKey(n, i, e) \in Node /\ SetKey(n, i, e).leaf = n.leaf /\ SetKey(n, i, e).kid = n.kid
         /\ Len(SetKey(n, i, e).key) = Len(n.key)
         /\ \A j \in 1 .. Len(n.key) :
              SetKey(n, i, e).key[j] = IF j = i + 1 THEN e ELSE n.key[j]
  <1>1. n.key \in Seq(Keys) /\ n.kid \in Seq(Nat) /\ n.leaf \in BOOLEAN  BY DEF Node
  <1>2. i + 1 \in 1 .. Len(n.key)  BY <1>1 DEF N
  <1>3. PICK q : q = [n.key EXCEPT ![i + 1] = e]  OBVIOUS
  <1>4. /\ q \in Seq(Keys) /\ Len(q) = Len(n.key)
        /\ \A j \in 1 .. Len(n.key) : q[j] = IF j = i + 1 THEN e ELSE n.key[j]
    BY <1>1, <1>2, <1>3
  <1>5. SetKey(n, i, e) = [n EXCEPT !.key = q]  BY <1>3 DEF SetKey
  <1> QED  BY <1>1, <1>4, <1>5 DEF Node

\* Two sequences with an element between them.
LEMMA JoinedAround ==
  ASSUME NEW S, NEW q1 \in Seq(S), NEW q2 \in Seq(S), NEW e \in S
  PROVE  q1 \o <<e>> \o q2 \in Seq(S) /\ Around(q1 \o <<e>> \o q2, q1, e, q2)
  <1>1. PICK q : q = q1 \o <<e>>  OBVIOUS
  <1>2. /\ q \in Seq(S) /\ Len(q) = Len(q1) + 1 /\ q[Len(q1) + 1] = e
        /\ \A j \in 1 .. Len(q1) : q[j] = q1[j]
    BY <1>1
  <1>3. PICK p : p = q \o q2  OBVIOUS
  <1>4. /\ p \in Seq(S) /\ Len(p) = Len(q) + Len(q2)
        /\ \A j \in 1 .. Len(q) + Len(q2) : p[j] = IF j <= Len(q) THEN q[j] ELSE q2[j - Len(q)]
    <2>1. q \in Seq(S)  BY <1>2
    <2>2. /\ q \o q2 \in Seq(S) /\ Len(q \o q2) = Len(q) + Len(q2)
          /\ \A j \in 1 .. Len(q) + Len(q2) :
               (q \o q2)[j] = IF j <= Len(q) THEN q[j] ELSE q2[j - Len(q)]
      BY <2>1, ConcatProperties
    <2> QED  BY <1>3, <2>2
  <1>5. PICK c, b : c = Len(q1) /\ b = Len(q2)  OBVIOUS
  <1>6. c \in Nat /\ b \in Nat /\ Len(q) = c + 1  BY <1>2, <1>5
  <1>7. /\ Len(p) = c + 1 + b
        /\ \A j \in 1 .. c : p[j] = q1[j]
        /\ p[c + 1] = e
    <2>1. Len(p) = c + 1 + b  BY <1>4, <1>5, <1>6
    <2>2. \A j \in 1 .. c + 1 : j \in 1 .. Len(q) + Len(q2) /\ j <= Len(q)  BY <1>5, <1>6
    <2>3. \A j \in 1 .. c + 1 : p[j] = q[j]  BY <1>4, <2>2
    <2>4. c + 1 \in 1 .. c + 1 /\ \A j \in 1 .. c : j \in 1 .. c + 1  BY <1>6
    <2>5. q[c + 1] = e /\ \A j \in 1 .. c : q[j] = q1[j]  BY <1>2, <1>5
    <2>6. p[c + 1] = e  BY <2>3, <2>4, <2>5
    <2>7. \A j \in 1 .. c : p[j] = q1[j]  BY <2>3, <2>4, <2>5
    <2> QED  BY <2>1, <2>6, <2>7
  <1>8. ASSUME NEW j \in 1 .. b  PROVE p[c + 1 + j] = q2[j]
    <2>1. c + 1 + j \in 1 .. Len(q) + Len(q2) /\ ~ (c + 1 + j <= Len(q)) /\ (c + 1 + j) - Len(q) = j
      BY <1>5, <1>6
    <2> QED  BY <1>4, <2>1
  <1> QED  BY <1>1, <1>3, <1>4, <1>5, <1>7, <1>8 DEF Around

-----------------------------------------------------------------------------
(* Splits, merges and borrows are cuts.                                      *)

Heap(h, V) == h \in Seq(Node) /\ V \subseteq 1 .. Len(h)

\* btreesplitchild cuts a full child in two.
LEMMA SplitIsCut ==
  ASSUME NEW h, NEW r, NEW V, NEW L, NEW R, Good(h, r, V, L, R), Heap(h, V),
         NEW a \in V, ~h[a].leaf, NEW i, i + 1 \in 1 .. Len(h[a].kid), i \in Nat,
         NEW y, y = h[a].kid[i + 1], N(h[y]) = Full,
         NEW g, g = SplitChild(h, a, i)
  PROVE  /\ Cut(h, g, V, a, i + 1, y, Len(h) + 1)
         /\ g \in Seq(Node) /\ Len(g) = Len(h) + 1
         /\ Len(g[y].key) = T - 1 /\ Len(g[Len(h) + 1].key) = T - 1
         /\ g[a].key[i + 1] = h[y].key[T]
         /\ \A n \in 1 .. Len(h) : n \notin {a, y} => g[n] = h[n]
  <1>0. T \in Nat /\ T >= 2 /\ Full = 2 * T - 1  BY SizesAssumption DEF Full
  <1>1. /\ h \in Seq(Node) /\ V \subseteq 1 .. Len(h) /\ Len(h) \in Nat  BY DEF Heap
  <1>2. /\ Len(h[a].kid) = Len(h[a].key) + 1 /\ y \in V /\ L[a] = L[y] + 1 /\ L[y] \in Nat
        /\ h[a] \in Node
    BY NodeShape
  <1>3. h[a] \in Node /\ h[y] \in Node /\ L[a] = L[y] + 1 /\ L[y] \in Nat
    BY <1>2, NodeShape
  <1>4. a # y /\ a \in 1 .. Len(h) /\ y \in 1 .. Len(h)  BY <1>1, <1>2, <1>3
  <1>5. PICK z : z = Len(h) + 1  OBVIOUS
  <1>6. z \notin V /\ z \notin 1 .. Len(h) /\ z \in Nat  BY <1>1, <1>5
  <1>7. PICK p : p = h[y]  OBVIOUS
  <1>8. /\ p.key \in Seq(Keys) /\ p.kid \in Seq(Nat) /\ p.leaf \in BOOLEAN /\ Len(p.key) = 2 * T - 1
        /\ p.leaf => Len(p.kid) = 0
        /\ ~p.leaf => Len(p.kid) = 2 * T
    <2>1. /\ p.leaf => Len(p.kid) = 0
          /\ ~p.leaf => Len(p.kid) = Len(p.key) + 1
      <3>1. /\ h[y].leaf => Len(h[y].kid) = 0
            /\ ~h[y].leaf => Len(h[y].kid) = Len(h[y].key) + 1
        <4>1. Noded(h, y, V, L)  BY <1>2 DEF Good, Tree
        <4> QED  BY <4>1 DEF Noded
      <3> QED  BY <1>7, <3>1
    <2>2. Len(p.key) = 2 * T - 1  BY <1>0, <1>7 DEF N
    <2>3. (2 * T - 1) + 1 = 2 * T  BY <1>0
    <2>4. p \in Node  BY <1>3, <1>7
    <2>5. p.key \in Seq(Keys) /\ p.kid \in Seq(Nat) /\ p.leaf \in BOOLEAN  BY <2>4 DEF Node
    <2> QED  BY <2>1, <2>2, <2>3, <2>5
  <1>9. PICK k1, k2, c1, c2 :
          /\ k1 = SubSeq(p.key, 1, T - 1) /\ k2 = SubSeq(p.key, T + 1, Full)
          /\ c1 = Half(p.kid, 1, T) /\ c2 = Half(p.kid, T + 1, 2 * T)
    OBVIOUS
  <1>10. /\ k1 \in Seq(Keys) /\ Len(k1) = T - 1 /\ \A j \in 1 .. T - 1 : k1[j] = p.key[j]
         /\ k2 \in Seq(Keys) /\ Len(k2) = T - 1 /\ \A j \in 1 .. T - 1 : k2[j] = p.key[T + j]
    <2>0. PICK q, m : q = p.key /\ m = T - 1  OBVIOUS
    <2>1. /\ q \in Seq(Keys) /\ Len(q) = 2 * T - 1 /\ m \in Nat /\ 2 * T - 1 \in Nat
          /\ 0 + m = m /\ m <= Len(q) /\ T + m = 2 * T - 1 /\ 2 * T - 1 <= Len(q)
      BY <1>0, <1>8, <2>0
    <2>2. /\ SubSeq(q, 0 + 1, m) \in Seq(Keys) /\ Len(SubSeq(q, 0 + 1, m)) = m
          /\ \A j \in 1 .. m : SubSeq(q, 0 + 1, m)[j] = q[0 + j]
      BY <2>1, PartOf
    <2>3. /\ SubSeq(q, T + 1, 2 * T - 1) \in Seq(Keys) /\ Len(SubSeq(q, T + 1, 2 * T - 1)) = m
          /\ \A j \in 1 .. m : SubSeq(q, T + 1, 2 * T - 1)[j] = q[T + j]
      BY <1>0, <2>1, PartOf
    <2>4. k1 = SubSeq(q, 0 + 1, m) /\ k2 = SubSeq(q, T + 1, 2 * T - 1)  BY <1>0, <1>9, <2>0
    <2> QED  BY SMTT(30), <2>0, <2>2, <2>3, <2>4
  <1>11. p.leaf => c1 = p.kid /\ c2 = p.kid
    <2>1. p.leaf => p.kid = <<>>  BY <1>8
    <2> QED  BY <1>9, <2>1 DEF Half
  <1>12. ~p.leaf =>
           /\ c1 \in Seq(Nat) /\ Len(c1) = T /\ \A j \in 1 .. T : c1[j] = p.kid[j]
           /\ c2 \in Seq(Nat) /\ Len(c2) = T /\ \A j \in 1 .. T : c2[j] = p.kid[T + j]
    <2> SUFFICES ASSUME ~p.leaf
                 PROVE  /\ c1 \in Seq(Nat) /\ Len(c1) = T /\ \A j \in 1 .. T : c1[j] = p.kid[j]
                        /\ c2 \in Seq(Nat) /\ Len(c2) = T /\ \A j \in 1 .. T : c2[j] = p.kid[T + j]
      OBVIOUS
    <2>0. Len(p.kid) = 2 * T /\ c1 = SubSeq(p.kid, 1, T) /\ c2 = SubSeq(p.kid, T + 1, 2 * T)
      <3>1. Len(p.kid) = 2 * T  BY <1>8
      <3>2. p.kid # <<>>  BY <1>0, <3>1
      <3> QED  BY <1>9, <3>1, <3>2 DEF Half
    <2>1. PICK q : q = p.kid  OBVIOUS
    <2>2. /\ q \in Seq(Nat) /\ Len(q) = 2 * T /\ 2 * T \in Nat
          /\ 0 + T = T /\ T <= Len(q) /\ T + T = 2 * T /\ 2 * T <= Len(q)
      BY SMTT(30), <1>0, <1>8, <2>0, <2>1
    <2>3. /\ SubSeq(q, 0 + 1, T) \in Seq(Nat) /\ Len(SubSeq(q, 0 + 1, T)) = T
          /\ \A j \in 1 .. T : SubSeq(q, 0 + 1, T)[j] = q[0 + j]
      BY <1>0, <2>2, PartOf
    <2>4. /\ SubSeq(q, T + 1, 2 * T) \in Seq(Nat) /\ Len(SubSeq(q, T + 1, 2 * T)) = T
          /\ \A j \in 1 .. T : SubSeq(q, T + 1, 2 * T)[j] = q[T + j]
      BY SMTT(30), <1>0, <2>2, PartOf
    <2>5. c1 = SubSeq(q, 0 + 1, T) /\ c2 = SubSeq(q, T + 1, 2 * T)  BY <2>0, <2>1
    <2>6. c1 \in Seq(Nat) /\ Len(c1) = T /\ \A j \in 1 .. T : c1[j] = q[j]  BY <1>0, <2>3, <2>5
    <2>7. c2 \in Seq(Nat) /\ Len(c2) = T /\ \A j \in 1 .. T : c2[j] = q[T + j]  BY <2>4, <2>5
    <2> QED  BY <2>1, <2>6, <2>7
  <1>13. PICK py, pz, pa :
           /\ py = [p EXCEPT !.key = k1, !.kid = c1]
           /\ pz = [leaf |-> p.leaf, key |-> k2, kid |-> c2]
           /\ pa = PutKey(PutKid(h[a], i + 1, z), i, p.key[T])
    OBVIOUS
  <1>14. /\ py \in Node /\ py.leaf = p.leaf /\ py.key = k1 /\ py.kid = c1
         /\ pz \in Node /\ pz.leaf = p.leaf /\ pz.key = k2 /\ pz.kid = c2
    <2>1. p \in Node /\ c1 \in Seq(Nat) /\ c2 \in Seq(Nat)  BY <1>3, <1>7, <1>8, <1>11, <1>12
    <2> QED  BY <1>8, <1>10, <1>13, <2>1 DEF Node
  <1>15. /\ pa \in Node /\ pa.leaf = h[a].leaf
         /\ Inserted(pa.key, h[a].key, i + 1, p.key[T])
         /\ Inserted(pa.kid, h[a].kid, i + 2, z)
    <2>1. p.key[T] \in Keys  BY <1>0, <1>8
    <2>2. i + 1 \in 0 .. Len(h[a].kid) /\ (i + 1) + 1 = i + 2  OBVIOUS
    <2>3. PICK u : u = PutKid(h[a], i + 1, z)  OBVIOUS
    <2>4. /\ u \in Node /\ u.leaf = h[a].leaf /\ u.key = h[a].key
          /\ Inserted(u.kid, h[a].kid, i + 2, z)
      BY <1>3, <1>6, <2>2, <2>3, PutKidNode
    <2>5. i \in 0 .. N(u)
      <3>1. Len(h[a].key) \in Nat  BY <1>3 DEF Node
      <3> QED  BY <1>2, <2>4, <3>1 DEF N
    <2>6. /\ PutKey(u, i, p.key[T]) \in Node /\ PutKey(u, i, p.key[T]).leaf = u.leaf
          /\ PutKey(u, i, p.key[T]).kid = u.kid
          /\ Inserted(PutKey(u, i, p.key[T]).key, u.key, i + 1, p.key[T])
      BY <2>1, <2>4, <2>5, PutKeyNode
    <2> QED  BY <1>13, <2>3, <2>4, <2>6
  <1>16. g = Append([h EXCEPT ![y] = py, ![a] = pa], pz)
    <2>1. Kid(h[a], i) = y /\ Key(p, T - 1) = p.key[T]
      <3>1. (T - 1) + 1 = T  BY <1>0
      <3> QED  BY <3>1 DEF Kid, Key
    <2>2. g = Append([h EXCEPT ![y].key = k1, ![y].kid = c1,
                               ![a] = PutKey(PutKid(@, i + 1, z), i, p.key[T])], pz)
      BY <1>5, <1>7, <1>9, <1>13, <2>1 DEF SplitChild
    <2>3. [h EXCEPT ![y].key = k1, ![y].kid = c1,
                    ![a] = PutKey(PutKid(@, i + 1, z), i, p.key[T])]
            = [h EXCEPT ![y] = py, ![a] = pa]
      BY <1>1, <1>4, <1>7, <1>13
    <2> QED  BY <2>2, <2>3
  <1>17. /\ g \in Seq(Node) /\ Len(g) = Len(h) + 1
         /\ g[a] = pa /\ g[y] = py /\ g[z] = pz
         /\ \A n \in 1 .. Len(h) : n \notin {a, y} => g[n] = h[n]
    <2>1. PICK f : f = [h EXCEPT ![y] = py, ![a] = pa]  OBVIOUS
    <2>2. /\ f \in Seq(Node) /\ Len(f) = Len(h) /\ f[a] = pa /\ f[y] = py
          /\ \A n \in 1 .. Len(h) : n \notin {a, y} => f[n] = h[n]
      BY <1>1, <1>4, <1>14, <1>15, <2>1
    <2>3. g = Append(f, pz)  BY <1>16, <2>1
    <2>4. /\ g \in Seq(Node) /\ Len(g) = Len(h) + 1 /\ g[Len(h) + 1] = pz
          /\ \A n \in 1 .. Len(h) : g[n] = f[n]
      BY <1>14, <2>2, <2>3
    <2> QED  BY <1>4, <1>5, <2>2, <2>4
  <1>18. g[a].key[i + 1] = p.key[T]  BY <1>15, <1>17 DEF Inserted
  <1>19. Around(p.key, k1, p.key[T], k2)
    <2>1. (T - 1) + 1 = T /\ (T - 1) + 1 + (T - 1) = 2 * T - 1  BY <1>0
    <2> QED  BY <1>8, <1>10, <2>1 DEF Around
  <1>20. /\ Len(c1) = (IF p.leaf THEN 0 ELSE T) /\ Len(c2) = (IF p.leaf THEN 0 ELSE T)
         /\ Len(p.kid) = Len(c1) + Len(c2)
         /\ \A j \in 1 .. Len(c1) : c1[j] = p.kid[j]
         /\ \A j \in 1 .. Len(c2) : c2[j] = p.kid[Len(c1) + j]
    <2>1. CASE p.leaf  BY <1>8, <1>11, <2>1
    <2>2. CASE ~p.leaf
      <3>1. T + T = 2 * T  BY <1>0
      <3> QED  BY <1>8, <1>12, <2>2, <3>1
    <2> QED  BY <2>1, <2>2
  <1>21. (T - 1) + 1 = T /\ (i + 1) + 1 = i + 2  BY <1>0
  <1>22. Cut(h, g, V, a, i + 1, y, z)
    <2>1. \A n \in V \ {a, y} : g[n] = h[n]  BY <1>1, <1>17
    <2>2. /\ Inserted(g[a].key, h[a].key, i + 1, g[a].key[i + 1])
          /\ Inserted(g[a].kid, h[a].kid, (i + 1) + 1, z)
          /\ Around(h[y].key, g[y].key, g[a].key[i + 1], g[z].key)
      BY <1>7, <1>14, <1>15, <1>17, <1>18, <1>19, <1>21
    <2>3. /\ Len(g[y].kid) = (IF h[y].leaf THEN 0 ELSE Len(g[y].key) + 1)
          /\ Len(g[z].kid) = (IF h[y].leaf THEN 0 ELSE Len(g[z].key) + 1)
          /\ Len(h[y].kid) = Len(g[y].kid) + Len(g[z].kid)
          /\ \A j \in 1 .. Len(g[y].kid) : g[y].kid[j] = h[y].kid[j]
          /\ \A j \in 1 .. Len(g[z].kid) : g[z].kid[j] = h[y].kid[Len(g[y].kid) + j]
      BY <1>7, <1>10, <1>14, <1>17, <1>20, <1>21
    <2>4. /\ g[a] \in Node /\ g[y] \in Node /\ g[z] \in Node
          /\ ~g[a].leaf /\ g[y].leaf = h[y].leaf /\ g[z].leaf = h[y].leaf
      BY <1>7, <1>14, <1>15, <1>17
    <2> QED  BY <1>3, <1>6, <2>1, <2>2, <2>3, <2>4 DEF Cut
  <1> QED  BY <1>5, <1>7, <1>10, <1>14, <1>17, <1>18, <1>22

\* The leaves are the nodes that have nothing below them.
LEMMA LeafLevel ==
  ASSUME NEW h, NEW r, NEW V, NEW L, NEW R, Good(h, r, V, L, R), NEW n \in V
  PROVE  h[n].leaf <=> L[n] = 0
  <1>1. Noded(h, n, V, L) /\ L \in [V -> Nat]  BY DEF Good, Tree
  <1>2. h[n].key \in Seq(Keys) /\ h[n].leaf \in BOOLEAN  BY <1>1 DEF Noded, Node
  <1>3. CASE ~h[n].leaf
    <2>1. Len(h[n].kid) = Len(h[n].key) + 1 /\ Len(h[n].key) \in Nat  BY <1>1, <1>2, <1>3 DEF Noded
    <2>2. 1 \in 1 .. Len(h[n].kid)  BY <2>1
    <2>3. h[n].kid[1] \in V /\ L[n] = L[h[n].kid[1]] + 1  BY <1>1, <1>3, <2>2 DEF Noded
    <2>4. L[h[n].kid[1]] \in Nat  BY <1>1, <2>3
    <2> QED  BY <1>3, <2>3, <2>4
  <1>4. CASE h[n].leaf  BY <1>1, <1>4 DEF Noded
  <1> QED  BY <1>3, <1>4

\* Two neighbouring children.
LEMMA Siblings ==
  ASSUME NEW h, NEW r, NEW V, NEW L, NEW R, Good(h, r, V, L, R),
         NEW a \in V, NEW i \in 1 .. Len(h[a].kid), NEW j \in 1 .. Len(h[a].kid), i # j
  PROVE  /\ ~h[a].leaf /\ h[a].kid[i] # h[a].kid[j]
         /\ h[a].kid[i] \in V \ {a} /\ h[a].kid[j] \in V \ {a}
         /\ L[h[a].kid[i]] = L[h[a].kid[j]]
         /\ h[h[a].kid[i]].leaf = h[h[a].kid[j]].leaf
  <1>1. Noded(h, a, V, L) /\ Single(h, V) /\ L \in [V -> Nat]  BY DEF Good, Tree
  <1>2. PICK y, z : y = h[a].kid[i] /\ z = h[a].kid[j]  OBVIOUS
  <1>3. ~h[a].leaf  BY <1>1 DEF Noded
  <1>4. y \in V /\ z \in V /\ L[a] = L[y] + 1 /\ L[a] = L[z] + 1  BY <1>1, <1>2, <1>3 DEF Noded
  <1>5. L[y] \in Nat /\ L[z] \in Nat  BY <1>1, <1>4
  <1>6. y # z  BY <1>1, <1>2 DEF Single
  <1>7. /\ h[y].leaf <=> L[y] = 0
        /\ h[z].leaf <=> L[z] = 0
    BY <1>4, LeafLevel
  <1>8. h[y].leaf \in BOOLEAN /\ h[z].leaf \in BOOLEAN
    <2>1. Noded(h, y, V, L) /\ Noded(h, z, V, L)  BY <1>4 DEF Good, Tree
    <2> QED  BY <2>1 DEF Noded, Node
  <1>9. h[y].leaf = h[z].leaf  BY <1>4, <1>5, <1>7, <1>8
  <1>10. y # a /\ z # a /\ L[y] = L[z]  BY <1>4, <1>5
  <1> QED  BY <1>2, <1>3, <1>4, <1>6, <1>9, <1>10

\* What Merged(i, e) makes of the tree, with a for x.
Merge(h, a, i, e) ==
  [h EXCEPT ![h[a].kid[i + 1]].key = @ \o <<e>> \o h[h[a].kid[i + 2]].key,
            ![h[a].kid[i + 1]].kid = @ \o h[h[a].kid[i + 2]].kid,
            ![a] = DropKid(DropKey(@, i), i + 1), ![h[a].kid[i + 2]] = Freed]

MergeAt(h, g, a, i, y, z) ==
  /\ i \in Nat /\ i + 1 \in 1 .. Len(h[a].kid) /\ i + 2 \in 1 .. Len(h[a].kid)
  /\ y = h[a].kid[i + 1] /\ z = h[a].kid[i + 2]
  /\ g = Merge(h, a, i, h[a].key[i + 1])

MergeGives(h, g, V, a, i, y, z) ==
  /\ Cut(g, h, V \ {z}, a, i + 1, y, z) /\ Adds(V, V \ {z}, z) /\ Heap(g, V \ {z})
  /\ Len(g) = Len(h) /\ Len(g[y].key) = Len(h[y].key) + 1 + Len(h[z].key)
  /\ Len(g[a].key) = Len(h[a].key) - 1
  /\ \A n \in V \ {a, y, z} : g[n] = h[n]

\* The merge of cases 2c and 3b, read backwards, is a cut.
LEMMA MergeIsCut ==
  ASSUME NEW h, NEW r, NEW V, NEW L, NEW R, Good(h, r, V, L, R), Heap(h, V),
         NEW a \in V, NEW i, NEW y, NEW z, NEW g, MergeAt(h, g, a, i, y, z)
  PROVE  MergeGives(h, g, V, a, i, y, z)
  <1> /\ i \in Nat /\ i + 1 \in 1 .. Len(h[a].kid) /\ i + 2 \in 1 .. Len(h[a].kid)
      /\ y = h[a].kid[i + 1] /\ z = h[a].kid[i + 2]
      /\ g = Merge(h, a, i, h[a].key[i + 1])
    BY DEF MergeAt
  <1> SUFFICES /\ Cut(g, h, V \ {z}, a, i + 1, y, z) /\ Adds(V, V \ {z}, z) /\ Heap(g, V \ {z})
               /\ Len(g) = Len(h) /\ Len(g[y].key) = Len(h[y].key) + 1 + Len(h[z].key)
               /\ Len(g[a].key) = Len(h[a].key) - 1
               /\ \A n \in V \ {a, y, z} : g[n] = h[n]
    BY DEF MergeGives
  <1>1. /\ h \in Seq(Node) /\ V \subseteq 1 .. Len(h) /\ Len(h) \in Nat  BY DEF Heap
  <1>2. /\ ~h[a].leaf /\ y # z /\ y \in V /\ z \in V /\ y # a /\ z # a
        /\ L[y] = L[z] /\ h[y].leaf = h[z].leaf
    <2>1. i + 1 # i + 2  OBVIOUS
    <2> QED  BY <2>1, Siblings
  <1>3. a \in 1 .. Len(h) /\ y \in 1 .. Len(h) /\ z \in 1 .. Len(h)  BY <1>1, <1>2
  <1>4. PICK p, py, pz : p = h[a] /\ py = h[y] /\ pz = h[z]  OBVIOUS
  <1>5. /\ p \in Node /\ p.key \in Seq(Keys) /\ p.kid \in Seq(Nat) /\ Len(p.kid) = Len(p.key) + 1
        /\ ~p.leaf
    <2>1. Noded(h, a, V, L)  BY DEF Good, Tree
    <2> QED  BY <1>2, <1>4, <2>1 DEF Noded, Node
  <1>6. /\ py \in Node /\ py.key \in Seq(Keys) /\ py.kid \in Seq(Nat)
        /\ Len(py.kid) = (IF py.leaf THEN 0 ELSE Len(py.key) + 1)
    <2>1. Noded(h, y, V, L)  BY <1>2 DEF Good, Tree
    <2> QED  BY <1>4, <2>1 DEF Noded, Node
  <1>7. /\ pz \in Node /\ pz.key \in Seq(Keys) /\ pz.kid \in Seq(Nat) /\ pz.leaf = py.leaf
        /\ Len(pz.kid) = (IF py.leaf THEN 0 ELSE Len(pz.key) + 1)
    <2>1. Noded(h, z, V, L)  BY <1>2 DEF Good, Tree
    <2> QED  BY <1>2, <1>4, <2>1 DEF Noded, Node
  <1>8. i + 1 \in 1 .. Len(p.key) /\ i \in 0 .. N(p) - 1 /\ p.key[i + 1] \in Keys
    <2>1. Len(p.key) \in Nat  BY <1>5
    <2>3. PICK l, d : l = Len(p.key) /\ d = Len(p.kid)  OBVIOUS
    <2>6. d = Len(h[a].kid)  BY <1>4, <2>3
    <2>7. d = l + 1 /\ l \in Nat  BY <1>5, <2>1, <2>3
    <2>4. l \in Nat /\ d = l + 1 /\ i + 2 \in 1 .. d /\ i \in Nat  BY <2>6, <2>7
    <2>5. i + 1 \in 1 .. l  BY <2>4
    <2>2. i + 1 \in 1 .. Len(p.key)  BY <2>3, <2>5
    <2>8. i \in 0 .. l - 1  BY <2>4, <2>5
    <2>9. \A j \in 1 .. Len(p.key) : p.key[j] \in Keys  BY <1>5
    <2>10. p.key[i + 1] \in Keys  BY <2>2, <2>9
    <2> QED  BY <2>2, <2>3, <2>8, <2>10 DEF N
  <1>9. PICK e : e = p.key[i + 1]  OBVIOUS
  <1>10. PICK q, c : q = py.key \o <<e>> \o pz.key /\ c = py.kid \o pz.kid  OBVIOUS
  <1>11. q \in Seq(Keys) /\ Around(q, py.key, e, pz.key)
    <2>1. PICK q1, q2 : q1 = py.key /\ q2 = pz.key  OBVIOUS
    <2>2. q1 \in Seq(Keys) /\ q2 \in Seq(Keys) /\ e \in Keys  BY <1>6, <1>7, <1>8, <1>9, <2>1
    <2>3. q1 \o <<e>> \o q2 \in Seq(Keys) /\ Around(q1 \o <<e>> \o q2, q1, e, q2)
      BY Zenon, <2>2, JoinedAround
    <2>4. q = q1 \o <<e>> \o q2  BY <1>10, <2>1
    <2>5. q \in Seq(Keys) /\ Around(q, q1, e, q2)  BY Zenon, <2>3, <2>4
    <2> QED  BY <2>1, <2>5
  <1>12. /\ c \in Seq(Nat) /\ Len(c) = Len(py.kid) + Len(pz.kid)
         /\ \A j \in 1 .. Len(py.kid) : c[j] = py.kid[j]
         /\ \A j \in 1 .. Len(pz.kid) : c[Len(py.kid) + j] = pz.kid[j]
    <2>1. PICK c1, c2 : c1 = py.kid /\ c2 = pz.kid  OBVIOUS
    <2>0. c1 \in Seq(Nat) /\ c2 \in Seq(Nat)  BY <1>6, <1>7, <2>1
    <2>2. c1 \in Seq(Nat) /\ c2 \in Seq(Nat) /\ Len(c1) \in Nat /\ Len(c2) \in Nat
      BY <2>0
    <2>3. /\ c1 \o c2 \in Seq(Nat) /\ Len(c1 \o c2) = Len(c1) + Len(c2)
          /\ \A j \in 1 .. Len(c1) + Len(c2) :
               (c1 \o c2)[j] = IF j <= Len(c1) THEN c1[j] ELSE c2[j - Len(c1)]
      BY <2>2, ConcatProperties
    <2>4. ASSUME NEW j \in 1 .. Len(c2)  PROVE (c1 \o c2)[Len(c1) + j] = c2[j]
      <3>1. /\ Len(c1) + j \in 1 .. Len(c1) + Len(c2) /\ ~ (Len(c1) + j <= Len(c1))
            /\ (Len(c1) + j) - Len(c1) = j
        BY <2>2
      <3> QED  BY <2>3, <3>1
    <2>5. \A j \in 1 .. Len(c1) : (c1 \o c2)[j] = c1[j]
      <3>1. \A j \in 1 .. Len(c1) : j \in 1 .. Len(c1) + Len(c2) /\ j <= Len(c1)  BY <2>2
      <3> QED  BY <2>3, <3>1
    <2> QED  BY <1>10, <2>1, <2>3, <2>4, <2>5
  <1>13. PICK gy, ga : /\ gy = [py EXCEPT !.key = q, !.kid = c]
                       /\ ga = DropKid(DropKey(p, i), i + 1)
    OBVIOUS
  <1>14. gy \in Node /\ gy.leaf = py.leaf /\ gy.key = q /\ gy.kid = c
    BY <1>6, <1>11, <1>12, <1>13 DEF Node
  <1>15. /\ ga \in Node /\ ga.leaf = p.leaf
         /\ Inserted(p.key, ga.key, i + 1, p.key[i + 1])
         /\ Inserted(p.kid, ga.kid, i + 2, p.kid[i + 2])
    <2>1. PICK u : u = DropKey(p, i)  OBVIOUS
    <2>2. /\ u \in Node /\ u.leaf = p.leaf /\ u.kid = p.kid
          /\ Inserted(p.key, u.key, i + 1, p.key[i + 1])
      BY <1>5, <1>8, <2>1, DropKeyNode
    <2>3. i + 1 \in 0 .. Len(u.kid) - 1 /\ (i + 1) + 1 = i + 2
      <3>1. Len(u.kid) \in Nat  BY <1>5, <2>2
      <3> QED  BY <1>4, <2>2, <3>1
    <2>4. /\ ga \in Node /\ ga.leaf = u.leaf /\ ga.key = u.key
          /\ Inserted(u.kid, ga.kid, (i + 1) + 1, u.kid[(i + 1) + 1])
      BY <1>5, <1>13, <2>1, <2>2, <2>3, DropKidNode
    <2> QED  BY <2>2, <2>3, <2>4
  <1>16. /\ DOMAIN g = DOMAIN h /\ g = [n \in DOMAIN g |-> g[n]]
         /\ g[y] = gy /\ g[a] = ga /\ g[z] = Freed
         /\ \A n \in DOMAIN h : n \notin {a, y, z} => g[n] = h[n]
    <2>1. g = [h EXCEPT ![y].key = @ \o <<e>> \o h[z].key, ![y].kid = @ \o h[z].kid,
                        ![a] = DropKid(DropKey(@, i), i + 1), ![z] = Freed]
      BY <1>4, <1>9 DEF Merge
    <2>2. /\ gy = [h[y] EXCEPT !.key = q, !.kid = c]
          /\ h[y].key \o <<e>> \o h[z].key = q /\ h[y].kid \o h[z].kid = c
      BY <1>4, <1>10, <1>13
    <2>3. ga = DropKid(DropKey(h[a], i), i + 1)  BY <1>4, <1>13
    <2>4. DOMAIN h = 1 .. Len(h)  BY <1>1
    <2>5. DOMAIN g = DOMAIN h /\ g = [n \in DOMAIN g |-> g[n]]  BY <1>1, <2>1
    <2>6. g[y] = gy
      <3>1. g[y] = [h[y] EXCEPT !.key = q, !.kid = c]
        BY <1>2, <1>3, <1>4, <1>6, <2>1, <2>2, <2>4 DEF Node
      <3> QED  BY <2>2, <3>1
    <2>7. g[a] = ga  BY <1>2, <1>3, <2>1, <2>3, <2>4
    <2>8. g[z] = Freed  BY <1>3, <2>1, <2>4
    <2>9. \A n \in DOMAIN h : n \notin {a, y, z} => g[n] = h[n]  BY <2>1
    <2> QED  BY <2>5, <2>6, <2>7, <2>8, <2>9
  <1>17. /\ g \in Seq(Node) /\ Len(g) = Len(h) /\ g[y] = gy /\ g[a] = ga
         /\ \A n \in 1 .. Len(h) : n \notin {a, y, z} => g[n] = h[n]
    <2>1. Freed \in Node  BY DEF Freed, Empty, Node
    <2>2. DOMAIN h = 1 .. Len(h) /\ \A n \in 1 .. Len(h) : h[n] \in Node  BY <1>1
    <2>3. \A n \in 1 .. Len(h) : g[n] \in Node  BY <1>14, <1>15, <1>16, <2>1, <2>2
    <2>4. g \in [1 .. Len(h) -> Node]  BY <1>16, <2>2, <2>3
    <2>5. Len(h) \in Nat  BY <1>1
    <2>6. g \in Seq(Node) /\ Len(g) = Len(h)  BY <2>4, <2>5
    <2> QED  BY <1>16, <2>2, <2>6
  <1>18. /\ Inserted(h[a].key, g[a].key, i + 1, h[a].key[i + 1])
         /\ Inserted(h[a].kid, g[a].kid, (i + 1) + 1, z)
    <2>1. (i + 1) + 1 = i + 2  OBVIOUS
    <2> QED  BY <1>4, <1>15, <1>17, <2>1
  <1>19. i + 1 \in 1 .. Len(g[a].kid) /\ y = g[a].kid[i + 1] /\ Len(g[a].key) = Len(h[a].key) - 1
    <2>1. ga.kid \in Seq(Nat) /\ ga.key \in Seq(Keys)  BY <1>15 DEF Node
    <2>2. /\ Len(p.kid) = Len(ga.kid) + 1 /\ Len(p.key) = Len(ga.key) + 1
          /\ \A j \in 1 .. Len(ga.kid) : j < i + 2 => p.kid[j] = ga.kid[j]
      BY <1>15 DEF Inserted
    <2>3. Len(ga.kid) \in Nat /\ Len(ga.key) \in Nat  BY <2>1
    <2>4. i + 1 \in 1 .. Len(ga.kid) /\ i + 1 < i + 2  BY <1>4, <2>2, <2>3
    <2>5. Len(ga.key) = Len(p.key) - 1  BY <2>2, <2>3
    <2> QED  BY <1>4, <1>17, <2>2, <2>4, <2>5
  <1>20. Cut(g, h, V \ {z}, a, i + 1, y, z)
    <2>1. \A n \in (V \ {z}) \ {a, y} : h[n] = g[n]  BY <1>1, <1>17
    <2>2. /\ Around(g[y].key, h[y].key, h[a].key[i + 1], h[z].key)
          /\ Len(h[y].kid) = (IF g[y].leaf THEN 0 ELSE Len(h[y].key) + 1)
          /\ Len(h[z].kid) = (IF g[y].leaf THEN 0 ELSE Len(h[z].key) + 1)
          /\ Len(g[y].kid) = Len(h[y].kid) + Len(h[z].kid)
          /\ \A j \in 1 .. Len(h[y].kid) : h[y].kid[j] = g[y].kid[j]
          /\ \A j \in 1 .. Len(h[z].kid) : h[z].kid[j] = g[y].kid[Len(h[y].kid) + j]
      BY <1>4, <1>6, <1>7, <1>9, <1>11, <1>12, <1>14, <1>17
    <2>3. /\ g[a] \in Node /\ g[y] \in Node /\ h[a] \in Node /\ h[y] \in Node /\ h[z] \in Node
          /\ ~g[a].leaf /\ ~h[a].leaf /\ h[y].leaf = g[y].leaf /\ h[z].leaf = g[y].leaf
      BY <1>4, <1>5, <1>6, <1>7, <1>14, <1>15, <1>17
    <2>4. a \in V \ {z} /\ z \notin V \ {z}  BY <1>2
    <2> QED  BY <1>18, <1>19, <2>1, <2>2, <2>3, <2>4 DEF Cut
  <1>21. Adds(V, V \ {z}, z)  BY <1>2 DEF Adds
  <1>22. Heap(g, V \ {z})  BY <1>1, <1>17 DEF Heap
  <1>23. Len(g[y].key) = Len(h[y].key) + 1 + Len(h[z].key)  BY <1>4, <1>11, <1>14, <1>17 DEF Around
  <1>24. \A n \in V \ {a, y, z} : g[n] = h[n]  BY <1>1, <1>17
  <1> QED  BY <1>17, <1>19, <1>20, <1>21, <1>22, <1>23, <1>24

-----------------------------------------------------------------------------
(* A borrow is a merge that is cut again, one key further to a side.         *)

\* p is q1 with q2 after it.
Joined(p, q1, q2) ==
  /\ Len(p) = Len(q1) + Len(q2)
  /\ \A j \in 1 .. Len(q1) : p[j] = q1[j]
  /\ \A j \in 1 .. Len(q2) : p[Len(q1) + j] = q2[j]

\* The last key of the first part goes up, and the one that was up goes in front of
\* the second.
LEMMA KeyToRight ==
  ASSUME NEW S, NEW p \in Seq(S), NEW q1 \in Seq(S), NEW q2 \in Seq(S), NEW e,
         NEW r1 \in Seq(S), NEW r2 \in Seq(S), NEW u, Around(p, q1, e, q2),
         Inserted(q1, r1, Len(q1), u), Inserted(r2, q2, 1, e)
  PROVE  Around(p, r1, u, r2)
  <1>1. PICK c, b, d, f : c = Len(q1) /\ b = Len(q2) /\ d = Len(r1) /\ f = Len(r2)  OBVIOUS
  <1>2. c \in Nat /\ b \in Nat /\ d \in Nat /\ f \in Nat  BY <1>1
  <1>3. /\ Len(p) = c + 1 + b /\ p[c + 1] = e
        /\ \A j \in 1 .. c : p[j] = q1[j]
        /\ \A j \in 1 .. b : p[c + 1 + j] = q2[j]
    BY <1>1 DEF Around
  <1>4. /\ c = d + 1 /\ q1[c] = u
        /\ \A j \in 1 .. d : (j < c => q1[j] = r1[j])
    BY <1>1 DEF Inserted
  <1>5. /\ f = b + 1 /\ r2[1] = e
        /\ \A j \in 1 .. b : (j >= 1 => r2[j + 1] = q2[j])
    BY <1>1 DEF Inserted
  <1>0. d + 1 = c /\ f = b + 1  BY <1>2, <1>4, <1>5
  <1>6. Len(p) = d + 1 + f /\ d + 1 = c  BY <1>2, <1>3, <1>4, <1>5
  <1>7. \A j \in 1 .. d : p[j] = r1[j]
    <2>1. \A j \in 1 .. d : j \in 1 .. c /\ j < c  BY <1>2, <1>4
    <2> QED  BY <1>3, <1>4, <2>1
  <1>8. p[d + 1] = u
    <2>1. c \in 1 .. c  BY <1>2, <1>4
    <2> QED  BY <1>3, <1>4, <1>6, <2>1
  <1>9. ASSUME NEW j \in 1 .. f  PROVE p[d + 1 + j] = r2[j]
    <2>1. CASE j = 1
      <3>1. d + 1 + j = c + 1  BY <1>6, <2>1
      <3> QED  BY <1>3, <1>5, <2>1, <3>1
    <2>2. CASE j # 1
      <3>1. PICK w : w = j - 1  OBVIOUS
      <3>2. w \in 1 .. b /\ w >= 1 /\ w + 1 = j /\ d + 1 + j = c + 1 + w
        BY <1>0, <1>2, <2>2, <3>1
      <3> QED  BY <1>3, <1>5, <3>2
    <2> QED  BY <2>1, <2>2
  <1> QED  BY <1>1, <1>6, <1>7, <1>8, <1>9 DEF Around

\* A key that moves over the key between two nodes.
LEMMA KeyToLeft ==
  ASSUME NEW S, NEW p \in Seq(S), NEW q1 \in Seq(S), NEW q2 \in Seq(S), NEW e,
         NEW r1 \in Seq(S), NEW r2 \in Seq(S), NEW u, Around(p, q1, e, q2),
         Inserted(r1, q1, Len(q1) + 1, e), Inserted(q2, r2, 1, u)
  PROVE  Around(p, r1, u, r2)
  <1>1. PICK c, b, d, f : c = Len(q1) /\ b = Len(q2) /\ d = Len(r1) /\ f = Len(r2)  OBVIOUS
  <1>2. c \in Nat /\ b \in Nat /\ d \in Nat /\ f \in Nat  BY <1>1
  <1>3. /\ Len(p) = c + 1 + b /\ p[c + 1] = e
        /\ \A j \in 1 .. c : p[j] = q1[j]
        /\ \A j \in 1 .. b : p[c + 1 + j] = q2[j]
    BY <1>1 DEF Around
  <1>4. /\ d = c + 1 /\ r1[c + 1] = e
        /\ \A j \in 1 .. c : (j < c + 1 => r1[j] = q1[j])
    BY <1>1 DEF Inserted
  <1>5. /\ b = f + 1 /\ q2[1] = u
        /\ \A j \in 1 .. f : (j >= 1 => q2[j + 1] = r2[j])
    BY <1>1 DEF Inserted
  <1>0. d = c + 1 /\ b = f + 1  BY <1>4, <1>5
  <1>6. Len(p) = d + 1 + f /\ d = c + 1  BY <1>2, <1>3, <1>4, <1>5
  <1>7. ASSUME NEW j \in 1 .. d  PROVE p[j] = r1[j]
    <2>1. CASE j = c + 1  BY <1>3, <1>4, <2>1
    <2>2. CASE j # c + 1
      <3>1. j \in 1 .. c /\ j < c + 1  BY <1>2, <1>6, <2>2
      <3> QED  BY <1>3, <1>4, <3>1
    <2> QED  BY <2>1, <2>2
  <1>8. p[d + 1] = u
    <2>1. 1 \in 1 .. b /\ c + 1 + 1 = d + 1  BY <1>2, <1>5, <1>6
    <2> QED  BY <1>3, <1>5, <2>1
  <1>9. ASSUME NEW j \in 1 .. f  PROVE p[d + 1 + j] = r2[j]
    <2>1. PICK w : w = j + 1  OBVIOUS
    <2>2. w \in 1 .. b /\ j >= 1 /\ d + 1 + j = c + 1 + w  BY <1>0, <1>2, <2>1
    <2> QED  BY <1>3, <1>5, <2>1, <2>2
  <1> QED  BY <1>1, <1>6, <1>7, <1>8, <1>9 DEF Around

\* A child goes with it.
LEMMA KidToRight ==
  ASSUME NEW S, NEW p \in Seq(S), NEW q1 \in Seq(S), NEW q2 \in Seq(S),
         NEW r1 \in Seq(S), NEW r2 \in Seq(S), NEW u, Joined(p, q1, q2),
         Inserted(q1, r1, Len(q1), u), Inserted(r2, q2, 1, u)
  PROVE  Joined(p, r1, r2)
  <1>1. PICK c, b, d, f : c = Len(q1) /\ b = Len(q2) /\ d = Len(r1) /\ f = Len(r2)  OBVIOUS
  <1>2. c \in Nat /\ b \in Nat /\ d \in Nat /\ f \in Nat  BY <1>1
  <1>3. /\ Len(p) = c + b
        /\ \A j \in 1 .. c : p[j] = q1[j]
        /\ \A j \in 1 .. b : p[c + j] = q2[j]
    BY <1>1 DEF Joined
  <1>4. /\ c = d + 1 /\ q1[c] = u
        /\ \A j \in 1 .. d : (j < c => q1[j] = r1[j])
    BY <1>1 DEF Inserted
  <1>5. /\ f = b + 1 /\ r2[1] = u
        /\ \A j \in 1 .. b : (j >= 1 => r2[j + 1] = q2[j])
    BY <1>1 DEF Inserted
  <1>6. Len(p) = d + f  BY <1>2, <1>3, <1>4, <1>5
  <1>7. \A j \in 1 .. d : p[j] = r1[j]
    <2>1. \A j \in 1 .. d : j \in 1 .. c /\ j < c  BY <1>2, <1>4
    <2> QED  BY <1>3, <1>4, <2>1
  <1>8. ASSUME NEW j \in 1 .. f  PROVE p[d + j] = r2[j]
    <2>1. CASE j = 1
      <3>1. d + j = c /\ c \in 1 .. c  BY <1>2, <1>4, <2>1
      <3> QED  BY <1>3, <1>4, <1>5, <2>1, <3>1
    <2>2. CASE j # 1
      <3>1. PICK w : w = j - 1  OBVIOUS
      <3>2. w \in 1 .. b /\ w >= 1 /\ w + 1 = j /\ d + j = c + w
        BY <1>2, <1>4, <1>5, <2>2, <3>1
      <3> QED  BY <1>3, <1>5, <3>2
    <2> QED  BY <2>1, <2>2
  <1> QED  BY <1>1, <1>6, <1>7, <1>8 DEF Joined

\* The child that moves with it.
LEMMA KidToLeft ==
  ASSUME NEW S, NEW p \in Seq(S), NEW q1 \in Seq(S), NEW q2 \in Seq(S),
         NEW r1 \in Seq(S), NEW r2 \in Seq(S), NEW u, Joined(p, q1, q2),
         Inserted(r1, q1, Len(q1) + 1, u), Inserted(q2, r2, 1, u)
  PROVE  Joined(p, r1, r2)
  <1>1. PICK c, b, d, f : c = Len(q1) /\ b = Len(q2) /\ d = Len(r1) /\ f = Len(r2)  OBVIOUS
  <1>2. c \in Nat /\ b \in Nat /\ d \in Nat /\ f \in Nat  BY <1>1
  <1>3. /\ Len(p) = c + b
        /\ \A j \in 1 .. c : p[j] = q1[j]
        /\ \A j \in 1 .. b : p[c + j] = q2[j]
    BY <1>1 DEF Joined
  <1>4. /\ d = c + 1 /\ r1[c + 1] = u
        /\ \A j \in 1 .. c : (j < c + 1 => r1[j] = q1[j])
    BY <1>1 DEF Inserted
  <1>5. /\ b = f + 1 /\ q2[1] = u
        /\ \A j \in 1 .. f : (j >= 1 => q2[j + 1] = r2[j])
    BY <1>1 DEF Inserted
  <1>6. Len(p) = d + f  BY <1>2, <1>3, <1>4, <1>5
  <1>7. ASSUME NEW j \in 1 .. d  PROVE p[j] = r1[j]
    <2>1. CASE j = c + 1
      <3>1. 1 \in 1 .. b  BY <1>2, <1>5
      <3> QED  BY <1>3, <1>4, <1>5, <2>1, <3>1
    <2>2. CASE j # c + 1
      <3>1. j \in 1 .. c /\ j < c + 1  BY <1>2, <1>4, <2>2
      <3> QED  BY <1>3, <1>4, <3>1
    <2> QED  BY <2>1, <2>2
  <1>8. ASSUME NEW j \in 1 .. f  PROVE p[d + j] = r2[j]
    <2>1. PICK w : w = j + 1  OBVIOUS
    <2>2. w \in 1 .. b /\ j >= 1 /\ d + j = c + w  BY <1>2, <1>4, <1>5, <2>1
    <2> QED  BY <1>3, <1>5, <2>1, <2>2
  <1> QED  BY <1>1, <1>6, <1>7, <1>8 DEF Joined

\* What Noded says of a node.
LEMMA NodedFacts ==
  ASSUME NEW h, NEW V, NEW L, NEW n, Noded(h, n, V, L)
  PROVE  /\ h[n] \in Node /\ h[n].key \in Seq(Keys) /\ h[n].kid \in Seq(Nat) /\ h[n].leaf \in BOOLEAN
         /\ Len(h[n].key) \in Nat /\ Len(h[n].kid) \in Nat
         /\ h[n].leaf => Len(h[n].kid) = 0
         /\ ~h[n].leaf => Len(h[n].kid) = Len(h[n].key) + 1
  <1>1. h[n] \in Node /\ (h[n].leaf => Len(h[n].kid) = 0)
        /\ (~h[n].leaf => Len(h[n].kid) = Len(h[n].key) + 1)
    BY DEF Noded
  <1>2. h[n].key \in Seq(Keys) /\ h[n].kid \in Seq(Nat) /\ h[n].leaf \in BOOLEAN
    BY <1>1 DEF Node
  <1>3. Len(h[n].key) \in Nat /\ Len(h[n].kid) \in Nat  BY <1>2
  <1> QED  BY <1>1, <1>2, <1>3

\* The same of all the nodes of a tree.
LEMMA AllNoded ==
  ASSUME NEW h, NEW r, NEW V, NEW L, NEW R, Good(h, r, V, L, R)
  PROVE  \A n \in V : /\ h[n] \in Node /\ h[n].key \in Seq(Keys) /\ h[n].kid \in Seq(Nat)
                      /\ Len(h[n].key) \in Nat
                      /\ h[n].leaf => Len(h[n].kid) = 0
                      /\ ~h[n].leaf => Len(h[n].kid) = Len(h[n].key) + 1
  <1> SUFFICES ASSUME NEW n \in V
               PROVE  /\ h[n] \in Node /\ h[n].key \in Seq(Keys) /\ h[n].kid \in Seq(Nat)
                      /\ Len(h[n].key) \in Nat
                      /\ h[n].leaf => Len(h[n].kid) = 0
                      /\ ~h[n].leaf => Len(h[n].kid) = Len(h[n].key) + 1
    OBVIOUS
  <1>1. Noded(h, n, V, L)  BY DEF Good, Tree
  <1> QED  BY Zenon, <1>1, NodedFacts

\* In g the children y and z share what they have, and the key of a between them, in
\* another way than in h.
Reshared(m, h, g, V, a, i, y, z) ==
  /\ g[a] \in Node /\ g[y] \in Node /\ g[z] \in Node
  /\ g[a].leaf = h[a].leaf /\ g[y].leaf = h[y].leaf /\ g[z].leaf = h[z].leaf
  /\ g[a].kid = h[a].kid /\ Len(g[a].key) = Len(h[a].key)
  /\ \A j \in 1 .. Len(h[a].key) : j # i => g[a].key[j] = h[a].key[j]
  /\ Around(m[y].key, g[y].key, g[a].key[i], g[z].key)
  /\ Joined(m[y].kid, g[y].kid, g[z].kid)
  /\ Len(g[y].kid) = (IF h[y].leaf THEN 0 ELSE Len(g[y].key) + 1)
  /\ Len(g[z].kid) = (IF h[y].leaf THEN 0 ELSE Len(g[z].key) + 1)
  /\ \A n \in V \ {a, y} : g[n] = h[n]

\* A loan: the joined node is cut at another place.
LEMMA CutAgain ==
  ASSUME NEW m, NEW h, NEW V, NEW a, NEW i, NEW y, NEW z, Cut(m, h, V, a, i, y, z), NEW g,
         Reshared(m, h, g, V, a, i, y, z)
  PROVE  Cut(m, g, V, a, i, y, z)
  <1> USE DEF Reshared
  <1>1. /\ a \in V /\ i \in 1 .. Len(m[a].kid) /\ y = m[a].kid[i] /\ z \notin V
        /\ m[a] \in Node /\ m[y] \in Node
        /\ ~m[a].leaf /\ ~h[a].leaf /\ h[y].leaf = m[y].leaf /\ h[z].leaf = m[y].leaf
        /\ Inserted(h[a].key, m[a].key, i, h[a].key[i])
        /\ Inserted(h[a].kid, m[a].kid, i + 1, z)
        /\ \A n \in V \ {a, y} : h[n] = m[n]
    BY DEF Cut
  <1>0. /\ Len(g[a].key) = Len(h[a].key)
        /\ \A j \in 1 .. Len(h[a].key) : j # i => g[a].key[j] = h[a].key[j]
    OBVIOUS
  <1> HIDE DEF Reshared
  <1>2. Inserted(g[a].key, m[a].key, i, g[a].key[i])
    <2>1. PICK p, q, u : p = m[a].key /\ q = h[a].key /\ u = g[a].key  OBVIOUS
    <2>2. Len(p) \in Nat  BY <1>1, <2>1 DEF Node
    <2>3. /\ Len(q) = Len(p) + 1 /\ i \in 1 .. Len(q)
          /\ \A j \in 1 .. Len(p) : (j < i => q[j] = p[j]) /\ (j >= i => q[j + 1] = p[j])
      BY <1>1, <2>1 DEF Inserted
    <2>4. Len(u) = Len(q) /\ \A j \in 1 .. Len(q) : j # i => u[j] = q[j]  BY <1>0, <2>1
    <2>5. ASSUME NEW j \in 1 .. Len(p)
          PROVE  (j < i => u[j] = p[j]) /\ (j >= i => u[j + 1] = p[j])
      <3>1. CASE j < i
        <4>1. j \in 1 .. Len(q) /\ j # i /\ ~ (j >= i)  BY <2>2, <2>3, <3>1
        <4> QED  BY <2>3, <2>4, <3>1, <4>1
      <3>2. CASE j >= i
        <4>1. j + 1 \in 1 .. Len(q) /\ j + 1 # i /\ ~ (j < i)  BY <2>2, <2>3, <3>2
        <4> QED  BY <2>3, <2>4, <3>2, <4>1
      <3> QED  BY <2>3, <3>1, <3>2
    <2>6. Len(u) = Len(p) + 1 /\ i \in 1 .. Len(u)  BY <2>3, <2>4
    <2> QED  BY <2>1, <2>5, <2>6 DEF Inserted
  <1>3. Inserted(g[a].kid, m[a].kid, i + 1, z)  BY <1>1 DEF Reshared
  <1>4. \A n \in V \ {a, y} : g[n] = m[n]  BY <1>1 DEF Reshared
  <1> QED  BY <1>1, <1>2, <1>3, <1>4 DEF Cut, Joined, Reshared

\* Two children as they are, and as they are merged.
LEMMA MergedPair ==
  ASSUME NEW m, NEW h, NEW V, NEW a, NEW i, NEW y, NEW z, Cut(m, h, V, a, i, y, z)
  PROVE  /\ Around(m[y].key, h[y].key, h[a].key[i], h[z].key)
         /\ Joined(m[y].kid, h[y].kid, h[z].kid)
         /\ m[y].key \in Seq(Keys) /\ m[y].kid \in Seq(Nat)
  BY DEF Cut, Joined, Node

\* What BorrowLeft makes of the tree: the i-th child of a lends to the next one.
LendRight(h, a, i) ==
  LET y == h[h[a].kid[i]]
      moved == IF y.leaf THEN 0 ELSE Kid(y, N(y))
  IN [h EXCEPT ![h[a].kid[i + 1]] = PutKid(PutKey(@, 0, h[a].key[i]), 0, moved),
               ![a] = SetKey(@, i - 1, Key(y, N(y) - 1)),
               ![h[a].kid[i]] = DropKid(DropKey(@, N(y) - 1), N(y))]

LendAt(h, a, i, y, z) ==
  /\ i \in Nat /\ i \in 1 .. Len(h[a].kid) /\ i + 1 \in 1 .. Len(h[a].kid)
  /\ y = h[a].kid[i] /\ z = h[a].kid[i + 1]

LendGives(m, h, g, V, a, i, y, z, from, to) ==
  /\ Cut(m, g, V \ {z}, a, i, y, z) /\ Heap(g, V) /\ Len(g) = Len(h)
  /\ Len(g[from].key) = Len(h[from].key) - 1 /\ Len(g[to].key) = Len(h[to].key) + 1
  /\ \E j : Inserted(g[to].key, h[to].key, j, h[a].key[i])
  /\ g[a].kid = h[a].kid /\ Len(g[a].key) = Len(h[a].key)
  /\ \A n \in V \ {a, y, z} : g[n] = h[n]

\* Case 3a with the left sibling is such a loan.
LEMMA LendRightIsCut ==
  ASSUME NEW h, NEW r, NEW V, NEW L, NEW R, Good(h, r, V, L, R), Heap(h, V),
         NEW a \in V, NEW i, NEW y, NEW z, LendAt(h, a, i, y, z), Len(h[y].key) >= 1,
         NEW g, g = LendRight(h, a, i), NEW m, Cut(m, h, V \ {z}, a, i, y, z)
  PROVE  LendGives(m, h, g, V, a, i, y, z, y, z)
  <1> /\ i \in Nat /\ i \in 1 .. Len(h[a].kid) /\ i + 1 \in 1 .. Len(h[a].kid)
      /\ y = h[a].kid[i] /\ z = h[a].kid[i + 1]
    BY DEF LendAt
  <1> SUFFICES
         /\ Cut(m, g, V \ {z}, a, i, y, z) /\ Heap(g, V) /\ Len(g) = Len(h)
         /\ Len(g[y].key) = Len(h[y].key) - 1 /\ Len(g[z].key) = Len(h[z].key) + 1
         /\ Inserted(g[z].key, h[z].key, 1, h[a].key[i])
         /\ g[a].kid = h[a].kid /\ Len(g[a].key) = Len(h[a].key)
         /\ \A n \in V \ {a, y, z} : g[n] = h[n]
    BY DEF LendGives
  <1>1. /\ h \in Seq(Node) /\ V \subseteq 1 .. Len(h) /\ Len(h) \in Nat  BY DEF Heap
  <1>2. /\ ~h[a].leaf /\ y # z /\ y \in V /\ z \in V /\ y # a /\ z # a
        /\ L[y] = L[z] /\ h[y].leaf = h[z].leaf
    <2>1. i # i + 1  OBVIOUS
    <2> QED  BY <2>1, Siblings
  <1>3. a \in 1 .. Len(h) /\ y \in 1 .. Len(h) /\ z \in 1 .. Len(h)  BY <1>1, <1>2
  <1>4. PICK p, py, pz : p = h[a] /\ py = h[y] /\ pz = h[z]  OBVIOUS
  <1>5. /\ p \in Node /\ p.key \in Seq(Keys) /\ p.kid \in Seq(Nat) /\ Len(p.kid) = Len(p.key) + 1
        /\ ~p.leaf
    <2>1. Noded(h, a, V, L)  BY DEF Good, Tree
    <2> QED  BY <1>2, <1>4, <2>1 DEF Noded, Node
  <1>5a. \A n \in V : /\ h[n] \in Node /\ h[n].key \in Seq(Keys) /\ h[n].kid \in Seq(Nat)
                      /\ Len(h[n].key) \in Nat
                      /\ h[n].leaf => Len(h[n].kid) = 0
                      /\ ~h[n].leaf => Len(h[n].kid) = Len(h[n].key) + 1
    BY AllNoded
  <1>6. /\ py \in Node /\ py.key \in Seq(Keys) /\ py.kid \in Seq(Nat) /\ Len(py.key) \in Nat
        /\ (py.leaf => Len(py.kid) = 0) /\ (~py.leaf => Len(py.kid) = Len(py.key) + 1)
    BY <1>2, <1>4, <1>5a
  <1>7. /\ pz \in Node /\ pz.key \in Seq(Keys) /\ pz.kid \in Seq(Nat) /\ Len(pz.key) \in Nat
        /\ pz.leaf = py.leaf
        /\ (py.leaf => Len(pz.kid) = 0) /\ (~py.leaf => Len(pz.kid) = Len(pz.key) + 1)
    <2>1. pz.leaf = py.leaf  BY <1>2, <1>4
    <2> QED  BY <1>2, <1>4, <1>5a, <2>1
  <1>8. /\ i \in 1 .. Len(p.key) /\ i - 1 \in 0 .. N(p) - 1 /\ p.key[i] \in Keys /\ (i - 1) + 1 = i
    <2>1. PICK lp : lp = Len(p.key)  OBVIOUS
    <2>2. lp \in Nat /\ Len(p.kid) = lp + 1 /\ Len(h[a].kid) = lp + 1  BY <1>4, <1>5, <2>1
    <2>3. i \in 1 .. lp /\ i - 1 \in 0 .. lp - 1 /\ (i - 1) + 1 = i  BY <2>2
    <2>4. p.key[i] \in Keys  BY <1>5, <2>1, <2>3
    <2> QED  BY <2>1, <2>3, <2>4 DEF N
  <1>9. PICK b, up, moved :
          /\ b = N(py) /\ up = py.key[b] /\ moved = IF py.leaf THEN 0 ELSE py.kid[b + 1]
    OBVIOUS
  <1>10. /\ b = Len(py.key) /\ b \in Nat /\ b >= 1 /\ b - 1 \in 0 .. N(py) - 1 /\ up \in Keys
         /\ (b - 1) + 1 = b /\ moved \in Nat /\ 0 \in Nat
    <2>1. b = Len(py.key) /\ b \in Nat /\ b >= 1  BY <1>4, <1>6, <1>9 DEF N
    <2>2. up \in Keys  BY <1>6, <1>9, <2>1
    <2>3. ~py.leaf => b + 1 \in 1 .. Len(py.kid)  BY <1>6, <2>1
    <2>4. moved \in Nat  BY <1>6, <1>9, <2>3
    <2> QED  BY <1>9, <2>1, <2>2, <2>4
  <1>11. PICK gz, ga, gy :
           /\ gz = PutKid(PutKey(pz, 0, p.key[i]), 0, moved)
           /\ ga = SetKey(p, i - 1, up)
           /\ gy = DropKid(DropKey(py, b - 1), b)
    OBVIOUS
  <1>12. /\ gz \in Node /\ gz.leaf = pz.leaf /\ Inserted(gz.key, pz.key, 1, p.key[i])
         /\ pz.leaf => gz.kid = pz.kid
         /\ ~pz.leaf => Inserted(gz.kid, pz.kid, 1, moved)
    <2>1. PICK u : u = PutKey(pz, 0, p.key[i])  OBVIOUS
    <2>2. 0 \in 0 .. N(pz) /\ 0 + 1 = 1  BY <1>7 DEF N
    <2>3. u \in Node /\ u.leaf = pz.leaf /\ u.kid = pz.kid /\ Inserted(u.key, pz.key, 1, p.key[i])
      BY <1>7, <1>8, <2>1, <2>2, PutKeyNode
    <2>4. 0 \in 0 .. Len(u.kid)
      <3>1. Len(u.kid) \in Nat  BY <1>7, <2>3
      <3> QED  BY <3>1
    <2>5. /\ gz \in Node /\ gz.leaf = u.leaf /\ gz.key = u.key
          /\ u.leaf => gz.kid = u.kid
          /\ ~u.leaf => Inserted(gz.kid, u.kid, 0 + 1, moved)
      BY <1>10, <1>11, <2>1, <2>3, <2>4, PutKidNode
    <2> QED  BY <2>2, <2>3, <2>5
  <1>13. /\ ga \in Node /\ ga.leaf = p.leaf /\ ga.kid = p.kid /\ Len(ga.key) = Len(p.key)
         /\ \A j \in 1 .. Len(p.key) : ga.key[j] = IF j = i THEN up ELSE p.key[j]
    <2>1. PICK d : d = i - 1  OBVIOUS
    <2>2. p \in Node /\ d \in 0 .. N(p) - 1 /\ up \in Keys /\ d + 1 = i /\ ga = SetKey(p, d, up)
      BY <1>5, <1>8, <1>10, <1>11, <2>1
    <2>3. /\ ga \in Node /\ ga.leaf = p.leaf /\ ga.kid = p.kid /\ Len(ga.key) = Len(p.key)
          /\ \A j \in 1 .. Len(p.key) : ga.key[j] = IF j = d + 1 THEN up ELSE p.key[j]
      BY <2>2, SetKeyNode
    <2> QED  BY <2>2, <2>3
  <1>14. /\ gy \in Node /\ gy.leaf = py.leaf /\ Inserted(py.key, gy.key, b, up)
         /\ py.leaf => gy.kid = py.kid
         /\ ~py.leaf => Inserted(py.kid, gy.kid, b + 1, moved)
    <2>1. PICK u : u = DropKey(py, b - 1)  OBVIOUS
    <2>2. /\ u \in Node /\ u.leaf = py.leaf /\ u.kid = py.kid
          /\ Inserted(py.key, u.key, (b - 1) + 1, py.key[(b - 1) + 1])
      BY <1>6, <1>10, <2>1, DropKeyNode
    <2>3. ~u.leaf => b \in 0 .. Len(u.kid) - 1
      <3>1. ~u.leaf => Len(u.kid) = b + 1  BY <1>6, <1>10, <2>2
      <3> QED  BY <1>10, <3>1
    <2>4. /\ gy \in Node /\ gy.leaf = u.leaf /\ gy.key = u.key
          /\ u.leaf => gy.kid = u.kid
          /\ ~u.leaf => Inserted(u.kid, gy.kid, b + 1, u.kid[b + 1])
      BY <1>10, <1>11, <2>1, <2>2, <2>3, DropKidNode
    <2> QED  BY <1>9, <1>10, <2>2, <2>4
  <1>15. /\ DOMAIN g = DOMAIN h /\ g = [n \in DOMAIN g |-> g[n]]
         /\ g[y] = gy /\ g[a] = ga /\ g[z] = gz
         /\ \A n \in DOMAIN h : n \notin {a, y, z} => g[n] = h[n]
    <2>1. Kid(py, b) = py.kid[b + 1] /\ Key(py, b - 1) = up  BY <1>9, <1>10 DEF Kid, Key
    <2>2. g = [h EXCEPT ![z] = PutKid(PutKey(@, 0, p.key[i]), 0, moved),
                        ![a] = SetKey(@, i - 1, up),
                        ![y] = DropKid(DropKey(@, b - 1), b)]
      BY <1>4, <1>9, <2>1 DEF LendRight
    <2>3. DOMAIN h = 1 .. Len(h)  BY <1>1
    <2>4. DOMAIN g = DOMAIN h /\ g = [n \in DOMAIN g |-> g[n]]  BY <1>1, <2>2
    <2>5. g[y] = gy  BY <1>2, <1>3, <1>4, <1>11, <2>2, <2>3
    <2>6. g[a] = ga  BY <1>2, <1>3, <1>4, <1>11, <2>2, <2>3
    <2>7. g[z] = gz  BY <1>2, <1>3, <1>4, <1>11, <2>2, <2>3
    <2>8. \A n \in DOMAIN h : n \notin {a, y, z} => g[n] = h[n]  BY <2>2
    <2> QED  BY <2>4, <2>5, <2>6, <2>7, <2>8
  <1>16. g \in Seq(Node) /\ Len(g) = Len(h)
    <2>1. DOMAIN h = 1 .. Len(h) /\ \A n \in 1 .. Len(h) : h[n] \in Node  BY <1>1
    <2>2. \A n \in 1 .. Len(h) : g[n] \in Node  BY <1>12, <1>13, <1>14, <1>15, <2>1
    <2>3. g \in [1 .. Len(h) -> Node] /\ DOMAIN g = 1 .. Len(h)  BY <1>15, <2>1, <2>2
    <2> QED  BY <1>1, <2>3
  <1>17. PICK q, c : q = m[y].key /\ c = m[y].kid  OBVIOUS
  <1>18. /\ q \in Seq(Keys) /\ c \in Seq(Nat) /\ Around(q, py.key, p.key[i], pz.key)
         /\ Joined(c, py.kid, pz.kid)
    BY <1>4, <1>17, MergedPair
  <1>19. gy.key \in Seq(Keys) /\ gy.kid \in Seq(Nat) /\ gz.key \in Seq(Keys) /\ gz.kid \in Seq(Nat)
    BY <1>12, <1>14 DEF Node
  <1>20. Around(q, gy.key, up, gz.key)
    <2>1. Inserted(py.key, gy.key, Len(py.key), up)  BY <1>10, <1>14
    <2>2. PICK q1, q2, r1, r2, e : /\ q1 = py.key /\ q2 = pz.key /\ e = p.key[i]
                                   /\ r1 = gy.key /\ r2 = gz.key
      OBVIOUS
    <2>3. q1 \in Seq(Keys) /\ q2 \in Seq(Keys) /\ r1 \in Seq(Keys) /\ r2 \in Seq(Keys)
      BY <1>6, <1>7, <1>19, <2>2
    <2>4. Around(q, q1, e, q2) /\ Inserted(q1, r1, Len(q1), up) /\ Inserted(r2, q2, 1, e)
      BY <1>12, <1>18, <2>1, <2>2
    <2>5. Around(q, r1, up, r2)  BY Zenon, <1>18, <2>3, <2>4, KeyToRight
    <2> QED  BY <2>2, <2>5
  <1>21. /\ Len(gy.key) = b - 1 /\ Len(gz.key) = Len(pz.key) + 1 /\ Len(gy.key) \in Nat
    <2>1. Len(py.key) = Len(gy.key) + 1 /\ Len(gz.key) = Len(pz.key) + 1
      BY <1>12, <1>14 DEF Inserted
    <2>2. Len(gy.key) \in Nat  BY <1>19
    <2> QED  BY <1>10, <2>1, <2>2
  <1>22. /\ Joined(c, gy.kid, gz.kid)
         /\ (py.leaf => Len(gy.kid) = 0) /\ (~py.leaf => Len(gy.kid) = Len(gy.key) + 1)
         /\ (py.leaf => Len(gz.kid) = 0) /\ (~py.leaf => Len(gz.kid) = Len(gz.key) + 1)
    <2>1. CASE py.leaf  BY <1>6, <1>7, <1>12, <1>14, <1>18, <2>1
    <2>2. CASE ~py.leaf
      <3>1. Inserted(gz.kid, pz.kid, 1, moved) /\ Inserted(py.kid, gy.kid, Len(py.kid), moved)
        BY <1>6, <1>7, <1>10, <1>12, <1>14, <2>2
      <3>2. Joined(c, gy.kid, gz.kid)
        BY <1>6, <1>7, <1>18, <1>19, <3>1, KidToRight
      <3>3. Len(gz.kid) = Len(pz.kid) + 1 /\ Len(py.kid) = Len(gy.kid) + 1 /\ Len(gy.kid) \in Nat
        BY <1>19, <3>1 DEF Inserted
      <3>4. Len(gz.kid) = Len(gz.key) + 1
        <4>1. Len(gz.kid) = (Len(pz.key) + 1) + 1  BY <1>7, <2>2, <3>3
        <4> QED  BY <1>21, <4>1
      <3>5. Len(gy.kid) = Len(gy.key) + 1
        <4>1. Len(py.kid) = b + 1  BY <1>6, <1>10, <2>2
        <4>2. Len(gy.kid) = b  BY <1>10, <3>3, <4>1
        <4> QED  BY <1>10, <1>21, <4>2
      <3> QED  BY <2>2, <3>2, <3>4, <3>5
    <2> QED  BY <2>1, <2>2
  <1>23. Cut(m, g, V \ {z}, a, i, y, z)
    <2>0. PICK W : W = V \ {z}  OBVIOUS
    <2>1. g[a].key[i] = up  BY <1>8, <1>13, <1>15
    <2>2. /\ g[a] \in Node /\ g[y] \in Node /\ g[z] \in Node
          /\ g[a].leaf = h[a].leaf /\ g[y].leaf = h[y].leaf /\ g[z].leaf = h[z].leaf
          /\ g[a].kid = h[a].kid /\ Len(g[a].key) = Len(h[a].key)
          /\ \A j \in 1 .. Len(h[a].key) : j # i => g[a].key[j] = h[a].key[j]
      BY <1>4, <1>12, <1>13, <1>14, <1>15
    <2>3. /\ Around(m[y].key, g[y].key, g[a].key[i], g[z].key)
          /\ Joined(m[y].kid, g[y].kid, g[z].kid)
          /\ Len(g[y].kid) = (IF h[y].leaf THEN 0 ELSE Len(g[y].key) + 1)
          /\ Len(g[z].kid) = (IF h[y].leaf THEN 0 ELSE Len(g[z].key) + 1)
      BY <1>4, <1>15, <1>17, <1>20, <1>22, <2>1
    <2>4. \A n \in W \ {a, y} : g[n] = h[n]  BY <1>1, <1>15, <2>0
    <2>5. Cut(m, h, W, a, i, y, z)  BY <2>0
    <2>7. Reshared(m, h, g, W, a, i, y, z)  BY <2>2, <2>3, <2>4 DEF Reshared
    <2>6. Cut(m, g, W, a, i, y, z)  BY Zenon, <2>5, <2>7, CutAgain
    <2> QED  BY <2>0, <2>6
  <1>24. Heap(g, V)  BY <1>1, <1>16 DEF Heap
  <1>25. \A n \in V \ {a, y, z} : g[n] = h[n]  BY <1>1, <1>15
  <1> QED  BY <1>4, <1>10, <1>12, <1>13, <1>15, <1>16, <1>21, <1>23, <1>24, <1>25

\* What BorrowRight makes of the tree: child i + 1 of a lends to child i.
LendLeft(h, a, i) ==
  LET z == h[h[a].kid[i + 1]]
      moved == IF z.leaf THEN 0 ELSE Kid(z, 0)
  IN [h EXCEPT ![h[a].kid[i]] = PutKid(PutKey(@, T - 1, h[a].key[i]), T, moved),
               ![a] = SetKey(@, i - 1, Key(z, 0)),
               ![h[a].kid[i + 1]] = DropKid(DropKey(@, 0), 0)]

\* Case 3a with the right sibling is such a loan.
LEMMA LendLeftIsCut ==
  ASSUME NEW h, NEW r, NEW V, NEW L, NEW R, Good(h, r, V, L, R), Heap(h, V),
         NEW a \in V, NEW i, NEW y, NEW z, LendAt(h, a, i, y, z), Len(h[z].key) >= 1,
         Len(h[y].key) = T - 1,
         NEW g, g = LendLeft(h, a, i), NEW m, Cut(m, h, V \ {z}, a, i, y, z)
  PROVE  LendGives(m, h, g, V, a, i, y, z, z, y)
  <1> /\ i \in Nat /\ i \in 1 .. Len(h[a].kid) /\ i + 1 \in 1 .. Len(h[a].kid)
      /\ y = h[a].kid[i] /\ z = h[a].kid[i + 1]
    BY DEF LendAt
  <1> SUFFICES
         /\ Cut(m, g, V \ {z}, a, i, y, z) /\ Heap(g, V) /\ Len(g) = Len(h)
         /\ Len(g[y].key) = Len(h[y].key) + 1 /\ Len(g[z].key) = Len(h[z].key) - 1
         /\ Inserted(g[y].key, h[y].key, Len(h[y].key) + 1, h[a].key[i])
         /\ g[a].kid = h[a].kid /\ Len(g[a].key) = Len(h[a].key)
         /\ \A n \in V \ {a, y, z} : g[n] = h[n]
    BY DEF LendGives
  <1>0. T \in Nat /\ T >= 2 /\ T - 1 \in Nat /\ (T - 1) + 1 = T  BY SizesAssumption
  <1>1. /\ h \in Seq(Node) /\ V \subseteq 1 .. Len(h) /\ Len(h) \in Nat  BY DEF Heap
  <1>2. /\ ~h[a].leaf /\ y # z /\ y \in V /\ z \in V /\ y # a /\ z # a
        /\ L[y] = L[z] /\ h[y].leaf = h[z].leaf
    <2>1. i # i + 1  OBVIOUS
    <2> QED  BY <2>1, Siblings
  <1>3. a \in 1 .. Len(h) /\ y \in 1 .. Len(h) /\ z \in 1 .. Len(h)  BY <1>1, <1>2
  <1>4. PICK p, py, pz : p = h[a] /\ py = h[y] /\ pz = h[z]  OBVIOUS
  <1>5. /\ p \in Node /\ p.key \in Seq(Keys) /\ p.kid \in Seq(Nat) /\ Len(p.kid) = Len(p.key) + 1
        /\ ~p.leaf
    <2>1. Noded(h, a, V, L)  BY DEF Good, Tree
    <2> QED  BY <1>2, <1>4, <2>1 DEF Noded, Node
  <1>5a. \A n \in V : /\ h[n] \in Node /\ h[n].key \in Seq(Keys) /\ h[n].kid \in Seq(Nat)
                      /\ Len(h[n].key) \in Nat
                      /\ h[n].leaf => Len(h[n].kid) = 0
                      /\ ~h[n].leaf => Len(h[n].kid) = Len(h[n].key) + 1
    BY AllNoded
  <1>6. /\ py \in Node /\ py.key \in Seq(Keys) /\ py.kid \in Seq(Nat) /\ Len(py.key) \in Nat
        /\ (py.leaf => Len(py.kid) = 0) /\ (~py.leaf => Len(py.kid) = Len(py.key) + 1)
    BY <1>2, <1>4, <1>5a
  <1>7. /\ pz \in Node /\ pz.key \in Seq(Keys) /\ pz.kid \in Seq(Nat) /\ Len(pz.key) \in Nat
        /\ pz.leaf = py.leaf
        /\ (py.leaf => Len(pz.kid) = 0) /\ (~py.leaf => Len(pz.kid) = Len(pz.key) + 1)
    <2>1. pz.leaf = py.leaf  BY <1>2, <1>4
    <2> QED  BY <1>2, <1>4, <1>5a, <2>1
  <1>8. /\ i \in 1 .. Len(p.key) /\ i - 1 \in 0 .. N(p) - 1 /\ p.key[i] \in Keys /\ (i - 1) + 1 = i
    <2>1. PICK lp : lp = Len(p.key)  OBVIOUS
    <2>2. lp \in Nat /\ Len(p.kid) = lp + 1 /\ Len(h[a].kid) = lp + 1  BY <1>4, <1>5, <2>1
    <2>3. i \in 1 .. lp /\ i - 1 \in 0 .. lp - 1 /\ (i - 1) + 1 = i  BY <2>2
    <2>4. p.key[i] \in Keys  BY <1>5, <2>1, <2>3
    <2> QED  BY <2>1, <2>3, <2>4 DEF N
  <1>9. PICK b, up, moved :
          /\ b = N(pz) /\ up = pz.key[1] /\ moved = IF pz.leaf THEN 0 ELSE pz.kid[1]
    OBVIOUS
  <1>10. /\ b = Len(pz.key) /\ b \in Nat /\ b >= 1 /\ 0 \in 0 .. N(pz) - 1 /\ up \in Keys
         /\ 0 + 1 = 1 /\ moved \in Nat
    <2>1. b = Len(pz.key) /\ b \in Nat /\ b >= 1  BY <1>4, <1>7, <1>9 DEF N
    <2>2. up \in Keys  BY <1>7, <1>9, <2>1
    <2>3. ~pz.leaf => 1 \in 1 .. Len(pz.kid)  BY <1>7, <2>1
    <2>4. moved \in Nat  BY <1>7, <1>9, <2>3
    <2> QED  BY <1>9, <2>1, <2>2, <2>4
  <1>11. PICK gy, ga, gz :
           /\ gy = PutKid(PutKey(py, T - 1, p.key[i]), T, moved)
           /\ ga = SetKey(p, i - 1, up)
           /\ gz = DropKid(DropKey(pz, 0), 0)
    OBVIOUS
  <1>12. /\ gy \in Node /\ gy.leaf = py.leaf /\ Inserted(gy.key, py.key, T, p.key[i])
         /\ py.leaf => gy.kid = py.kid
         /\ ~py.leaf => Inserted(gy.kid, py.kid, T + 1, moved)
    <2>1. PICK u : u = PutKey(py, T - 1, p.key[i])  OBVIOUS
    <2>2. T - 1 \in 0 .. N(py) /\ (T - 1) + 1 = T  BY <1>0, <1>4, <1>6 DEF N
    <2>3. u \in Node /\ u.leaf = py.leaf /\ u.kid = py.kid /\ Inserted(u.key, py.key, T, p.key[i])
      BY <1>6, <1>8, <2>1, <2>2, PutKeyNode
    <2>4. CASE ~py.leaf
      <3>1. Len(py.kid) = (T - 1) + 1  BY <1>4, <1>6, <2>4
      <3>2. T \in 0 .. Len(u.kid)  BY <1>0, <2>3, <3>1
      <3>3. /\ gy \in Node /\ gy.leaf = u.leaf /\ gy.key = u.key
            /\ u.leaf => gy.kid = u.kid
            /\ ~u.leaf => Inserted(gy.kid, u.kid, T + 1, moved)
        BY <1>10, <1>11, <2>1, <2>3, <3>2, PutKidNode
      <3> QED  BY <2>3, <3>3
    <2>5. CASE py.leaf
      <3>1. gy = u  BY <1>11, <2>1, <2>3, <2>5 DEF PutKid
      <3> QED  BY <2>3, <2>5, <3>1
    <2> QED  BY <2>4, <2>5
  <1>13. /\ ga \in Node /\ ga.leaf = p.leaf /\ ga.kid = p.kid /\ Len(ga.key) = Len(p.key)
         /\ \A j \in 1 .. Len(p.key) : ga.key[j] = IF j = i THEN up ELSE p.key[j]
    <2>1. PICK d : d = i - 1  OBVIOUS
    <2>2. p \in Node /\ d \in 0 .. N(p) - 1 /\ up \in Keys /\ d + 1 = i /\ ga = SetKey(p, d, up)
      BY <1>5, <1>8, <1>10, <1>11, <2>1
    <2>3. /\ ga \in Node /\ ga.leaf = p.leaf /\ ga.kid = p.kid /\ Len(ga.key) = Len(p.key)
          /\ \A j \in 1 .. Len(p.key) : ga.key[j] = IF j = d + 1 THEN up ELSE p.key[j]
      BY <2>2, SetKeyNode
    <2> QED  BY <2>2, <2>3
  <1>14. /\ gz \in Node /\ gz.leaf = pz.leaf /\ Inserted(pz.key, gz.key, 1, up)
         /\ pz.leaf => gz.kid = pz.kid
         /\ ~pz.leaf => Inserted(pz.kid, gz.kid, 1, moved)
    <2>1. PICK u : u = DropKey(pz, 0)  OBVIOUS
    <2>2. /\ u \in Node /\ u.leaf = pz.leaf /\ u.kid = pz.kid
          /\ Inserted(pz.key, u.key, 0 + 1, pz.key[0 + 1])
      BY <1>7, <1>10, <2>1, DropKeyNode
    <2>3. ~u.leaf => 0 \in 0 .. Len(u.kid) - 1
      <3>1. ~u.leaf => Len(u.kid) = b + 1  BY <1>7, <1>10, <2>2
      <3> QED  BY <1>10, <3>1
    <2>4. /\ gz \in Node /\ gz.leaf = u.leaf /\ gz.key = u.key
          /\ u.leaf => gz.kid = u.kid
          /\ ~u.leaf => Inserted(u.kid, gz.kid, 0 + 1, u.kid[0 + 1])
      BY <1>10, <1>11, <2>1, <2>2, <2>3, DropKidNode
    <2> QED  BY <1>9, <1>10, <2>2, <2>4
  <1>15. /\ DOMAIN g = DOMAIN h /\ g = [n \in DOMAIN g |-> g[n]]
         /\ g[y] = gy /\ g[a] = ga /\ g[z] = gz
         /\ \A n \in DOMAIN h : n \notin {a, y, z} => g[n] = h[n]
    <2>1. Kid(pz, 0) = pz.kid[1] /\ Key(pz, 0) = up  BY <1>9, <1>10 DEF Kid, Key
    <2>2. g = [h EXCEPT ![y] = PutKid(PutKey(@, T - 1, p.key[i]), T, moved),
                        ![a] = SetKey(@, i - 1, up),
                        ![z] = DropKid(DropKey(@, 0), 0)]
      BY <1>4, <1>9, <2>1 DEF LendLeft
    <2>3. DOMAIN h = 1 .. Len(h)  BY <1>1
    <2>4. DOMAIN g = DOMAIN h /\ g = [n \in DOMAIN g |-> g[n]]  BY <1>1, <2>2
    <2>5. g[y] = gy  BY <1>2, <1>3, <1>4, <1>11, <2>2, <2>3
    <2>6. g[a] = ga  BY <1>2, <1>3, <1>4, <1>11, <2>2, <2>3
    <2>7. g[z] = gz  BY <1>2, <1>3, <1>4, <1>11, <2>2, <2>3
    <2>8. \A n \in DOMAIN h : n \notin {a, y, z} => g[n] = h[n]  BY <2>2
    <2> QED  BY <2>4, <2>5, <2>6, <2>7, <2>8
  <1>16. g \in Seq(Node) /\ Len(g) = Len(h)
    <2>1. DOMAIN h = 1 .. Len(h) /\ \A n \in 1 .. Len(h) : h[n] \in Node  BY <1>1
    <2>2. \A n \in 1 .. Len(h) : g[n] \in Node  BY <1>12, <1>13, <1>14, <1>15, <2>1
    <2>3. g \in [1 .. Len(h) -> Node] /\ DOMAIN g = 1 .. Len(h)  BY <1>15, <2>1, <2>2
    <2> QED  BY SMTT(30), <1>1, <2>3
  <1>17. PICK q, c : q = m[y].key /\ c = m[y].kid  OBVIOUS
  <1>18. /\ q \in Seq(Keys) /\ c \in Seq(Nat) /\ Around(q, py.key, p.key[i], pz.key)
         /\ Joined(c, py.kid, pz.kid)
    BY <1>4, <1>17, MergedPair
  <1>19. gy.key \in Seq(Keys) /\ gy.kid \in Seq(Nat) /\ gz.key \in Seq(Keys) /\ gz.kid \in Seq(Nat)
    BY <1>12, <1>14 DEF Node
  <1>20. Around(q, gy.key, up, gz.key)
    <2>1. Inserted(gy.key, py.key, Len(py.key) + 1, p.key[i])  BY <1>0, <1>4, <1>12
    <2>2. PICK q1, q2, r1, r2, e :
            q1 = py.key /\ q2 = pz.key /\ r1 = gy.key /\ r2 = gz.key /\ e = p.key[i]
      OBVIOUS
    <2>3. /\ q \in Seq(Keys) /\ q1 \in Seq(Keys) /\ q2 \in Seq(Keys) /\ r1 \in Seq(Keys)
          /\ r2 \in Seq(Keys) /\ Around(q, q1, e, q2) /\ Inserted(r1, q1, Len(q1) + 1, e)
          /\ Inserted(q2, r2, 1, up)
      BY <1>6, <1>7, <1>14, <1>18, <1>19, <2>1, <2>2
    <2>4. Around(q, r1, up, r2)  BY Zenon, <2>3, KeyToLeft
    <2> QED  BY <2>2, <2>4
  <1>21. /\ Len(gz.key) = b - 1 /\ Len(gy.key) = Len(py.key) + 1 /\ Len(gz.key) \in Nat
    <2>1. Len(pz.key) = Len(gz.key) + 1 /\ Len(gy.key) = Len(py.key) + 1
      BY <1>12, <1>14 DEF Inserted
    <2>2. Len(gz.key) \in Nat  BY <1>19
    <2> QED  BY <1>10, <2>1, <2>2
  <1>22. /\ Joined(c, gy.kid, gz.kid)
         /\ (py.leaf => Len(gy.kid) = 0) /\ (~py.leaf => Len(gy.kid) = Len(gy.key) + 1)
         /\ (py.leaf => Len(gz.kid) = 0) /\ (~py.leaf => Len(gz.kid) = Len(gz.key) + 1)
    <2>1. CASE py.leaf  BY <1>6, <1>7, <1>12, <1>14, <1>18, <2>1
    <2>2. CASE ~py.leaf
      <3>0. Len(py.kid) = T  BY <1>0, <1>4, <1>6, <2>2
      <3>1. Inserted(pz.kid, gz.kid, 1, moved) /\ Inserted(gy.kid, py.kid, Len(py.kid) + 1, moved)
        BY <1>7, <1>12, <1>14, <2>2, <3>0
      <3>2. Joined(c, gy.kid, gz.kid)
        BY <1>6, <1>7, <1>18, <1>19, <3>1, KidToLeft
      <3>3. Len(pz.kid) = Len(gz.kid) + 1 /\ Len(gy.kid) = Len(py.kid) + 1 /\ Len(gz.kid) \in Nat
        BY <1>19, <3>1 DEF Inserted
      <3>4. Len(gy.kid) = Len(gy.key) + 1
        <4>1. Len(gy.kid) = (Len(py.key) + 1) + 1  BY <1>6, <2>2, <3>3
        <4> QED  BY <1>21, <4>1
      <3>5. Len(gz.kid) = Len(gz.key) + 1
        <4>1. Len(pz.kid) = b + 1  BY <1>7, <1>10, <2>2
        <4>2. Len(gz.kid) = b  BY <1>10, <3>3, <4>1
        <4> QED  BY <1>10, <1>21, <4>2
      <3> QED  BY <2>2, <3>2, <3>4, <3>5
    <2> QED  BY <2>1, <2>2
  <1>23. Cut(m, g, V \ {z}, a, i, y, z)
    <2>0. PICK W : W = V \ {z}  OBVIOUS
    <2>1. g[a].key[i] = up  BY <1>8, <1>13, <1>15
    <2>2. /\ g[a] \in Node /\ g[y] \in Node /\ g[z] \in Node
          /\ g[a].leaf = h[a].leaf /\ g[y].leaf = h[y].leaf /\ g[z].leaf = h[z].leaf
          /\ g[a].kid = h[a].kid /\ Len(g[a].key) = Len(h[a].key)
          /\ \A j \in 1 .. Len(h[a].key) : j # i => g[a].key[j] = h[a].key[j]
      BY <1>4, <1>12, <1>13, <1>14, <1>15
    <2>3. /\ Around(m[y].key, g[y].key, g[a].key[i], g[z].key)
          /\ Joined(m[y].kid, g[y].kid, g[z].kid)
          /\ Len(g[y].kid) = (IF h[y].leaf THEN 0 ELSE Len(g[y].key) + 1)
          /\ Len(g[z].kid) = (IF h[y].leaf THEN 0 ELSE Len(g[z].key) + 1)
      BY <1>4, <1>15, <1>17, <1>20, <1>22, <2>1
    <2>4. \A n \in W \ {a, y} : g[n] = h[n]  BY <1>1, <1>15, <2>0
    <2>5. Cut(m, h, W, a, i, y, z)  BY <2>0
    <2>7. Reshared(m, h, g, W, a, i, y, z)  BY <2>2, <2>3, <2>4 DEF Reshared
    <2>6. Cut(m, g, W, a, i, y, z)  BY Zenon, <2>5, <2>7, CutAgain
    <2> QED  BY <2>0, <2>6
  <1>24. Heap(g, V)  BY <1>1, <1>16 DEF Heap
  <1>25. \A n \in V \ {a, y, z} : g[n] = h[n]  BY <1>1, <1>15
  <1>26. Inserted(g[y].key, h[y].key, Len(h[y].key) + 1, h[a].key[i])
    <2>1. T = Len(h[y].key) + 1  BY <1>0
    <2> QED  BY <1>4, <1>12, <1>15, <2>1
  <1> QED  BY <1>4, <1>10, <1>13, <1>15, <1>16, <1>21, <1>23, <1>24, <1>25, <1>26

-----------------------------------------------------------------------------
(* What each step of a call does to the tree.                                *)

\* How many keys of a node are not greater than e: findkindex + 1.
LEMMA RankOf ==
  ASSUME NEW n, n.key \in Seq(Nat), Sorted(n.key), NEW e \in Nat
  PROVE  \E c \in 0 .. Len(n.key) :
           /\ FindKIndex(n, e) = c - 1
           /\ \A j \in 1 .. c : n.key[j] <= e
           /\ \A j \in c + 1 .. Len(n.key) : n.key[j] > e
  <1>0. PICK q : q = n.key  OBVIOUS
  <1>1. PICK l : l = Len(q)  OBVIOUS
  <1>2. l \in Nat /\ \A j \in 1 .. l : q[j] \in Nat  BY <1>0, <1>1
  <1>3. \A i, j \in 1 .. l : i <= j => q[i] <= q[j]  BY <1>0, <1>1 DEF Sorted
  <1> DEFINE Above == {j \in 1 .. l + 1 : j = l + 1 \/ q[j] > e}
  <1>4. PICK m \in Above : \A j \in Above : ~ (<<j, m>> \in OpToRel(<, Nat))
    <2>1. Above \subseteq Nat /\ l + 1 \in Above  BY <1>2
    <2> HIDE DEF Above
    <2> QED  BY <2>1, WFMin, NatLessThanWellFounded
  <1>5. m \in 1 .. l + 1 /\ (m = l + 1 \/ q[m] > e)  OBVIOUS
  <1>6. ASSUME NEW j \in 1 .. l, j < m  PROVE q[j] <= e
    <2>1. j \notin Above
      <3>1. SUFFICES ASSUME j \in Above  PROVE FALSE  OBVIOUS
      <3>2. <<j, m>> \in OpToRel(<, Nat)  BY <1>2, <1>5, <1>6 DEF OpToRel
      <3> QED  BY <1>4, <3>1, <3>2
    <2>2. j \in 1 .. l + 1  BY <1>2
    <2> QED  BY <1>2, <2>1, <2>2
  <1>7. ASSUME NEW j \in 1 .. l, j >= m  PROVE q[j] > e
    <2>1. m \in 1 .. l  BY <1>2, <1>5, <1>7
    <2>2. q[m] <= q[j] /\ q[m] > e  BY <1>2, <1>3, <1>5, <1>7, <2>1
    <2> QED  BY <1>2, <2>1, <2>2
  <1> HIDE DEF Above
  <1>8. {j \in 1 .. l : q[j] <= e} = 1 .. m - 1
    <2>1. ASSUME NEW j \in 1 .. l  PROVE q[j] <= e <=> j < m
      <3>1. j < m => q[j] <= e  BY <1>6
      <3>2. ~ (j < m) => j >= m  BY <1>2, <1>5
      <3>3. j >= m => ~ (q[j] <= e)  BY <1>2, <1>7
      <3> QED  BY <3>1, <3>2, <3>3
    <2>2. \A j : j \in 1 .. m - 1 <=> j \in 1 .. l /\ j < m  BY <1>2, <1>5
    <2> QED  BY <2>1, <2>2
  <1>9. Cardinality(1 .. m - 1) = m - 1
    <2>1. m - 1 \in Nat /\ 1 \in Int /\ m - 1 \in Int /\ (m - 1) - 1 + 1 = m - 1  BY <1>2, <1>5
    <2> QED  BY <2>1, FS_Interval
  <1>10. FindKIndex(n, e) = (m - 1) - 1
    <2>1. FindKIndex(n, e) = Cardinality({j \in 1 .. l : q[j] <= e}) - 1
      BY <1>0, <1>1 DEF FindKIndex, Quantify, N
    <2> QED  BY <1>8, <1>9, <2>1
  <1>11. m - 1 \in 0 .. l /\ \A j \in (m - 1) + 1 .. l : j >= m /\ j \in 1 .. l  BY <1>2, <1>5
  <1>12. \A j \in 1 .. m - 1 : j \in 1 .. l /\ j < m  BY <1>2, <1>5
  <1> QED  BY <1>0, <1>1, <1>6, <1>7, <1>10, <1>11, <1>12

\* Every node has room for its keys, and all but the root are half full.
Sized(h, r, V) == \A n \in V : N(h[n]) <= Full /\ (n # r => N(h[n]) >= T - 1)

Held(h, r, V, L, R) == Good(h, r, V, L, R) /\ Heap(h, V) /\ Sized(h, r, V) /\ L[r] <= Len(h)

\* From h to g only a and two children of it change.
Elsewhere(h, g, V, W, L, M, R, Q, a, y, z) ==
  /\ \A n \in V \ {a, y, z} : n \in W /\ g[n] = h[n] /\ M[n] = L[n] /\ Q[n] = R[n]
  /\ a \in W /\ M[a] = L[a] /\ Q[a] = R[a]

\* A key that has its place below a child may be meant for it.
Meant(h, R, a, i, y, e) ==
  i \in 1 .. Len(h[a].kid) /\ y = h[a].kid[i] /\ e \in R[a] /\ Between(h[a].key, i, e)

Wider(h, r, V, L, R, Q, y, e) ==
  Good(h, r, V, L, Q) /\ e \in Q[y] /\ \A n \in V \ {y} : Q[n] = R[n]

\* The range of a child may be widened by a key that is meant for it.
LEMMA WidenChild ==
  ASSUME NEW h, NEW r, NEW V, NEW L, NEW R, Good(h, r, V, L, R),
         NEW a \in V, NEW i, NEW y, NEW e, Meant(h, R, a, i, y, e)
  PROVE  \E Q : Wider(h, r, V, L, R, Q, y, e)
  <1> SUFFICES ASSUME i \in 1 .. Len(h[a].kid), y = h[a].kid[i],
                      e \in R[a], Between(h[a].key, i, e)
               PROVE  \E Q : /\ Good(h, r, V, L, Q) /\ e \in Q[y]
                             /\ \A n \in V \ {y} : Q[n] = R[n]
    BY DEF Meant, Wider
  <1> DEFINE Q == [n \in V |-> IF n = y THEN R[n] \cup {e} ELSE R[n]]
  <1>1. /\ Tree(h, r, V, L) /\ R \in [V -> SUBSET Keys] /\ R[r] = Keys /\ r \in V
        /\ \A n \in V : Ranged(h, n, R)
    BY DEF Good, Tree
  <1>2. y \in V \ {a}  
    <2>1. y \in V /\ L[a] = L[y] + 1 /\ L[y] \in Nat  BY NodeShape
    <2> QED  BY <2>1
  <1>3. e \in Keys  BY <1>1
  <1>4. Q \in [V -> SUBSET Keys] /\ Q[r] = Keys  BY <1>1, <1>3
  <1>5. \A n \in V : R[n] \subseteq Q[n] /\ (n # y => Q[n] = R[n])  BY <1>1
  <1>6. Q[y] = R[y] \cup {e}  BY <1>2
  <1> HIDE DEF Q
  <1>7. ASSUME NEW n \in V  PROVE Ranged(h, n, Q)
    <2>1. Ranged(h, n, R)  BY <1>1
    <2>2. \A j \in 1 .. Len(h[n].key) : h[n].key[j] \in Q[n]  BY <1>5, <2>1 DEF Ranged
    <2>3. ASSUME NEW j \in 1 .. Len(h[n].kid)  PROVE Q[h[n].kid[j]] \subseteq Gap(Q[n], h[n].key, j)
      <3>1. h[n].kid[j] \in V  BY NodeShape
      <3>2. R[h[n].kid[j]] \subseteq Gap(Q[n], h[n].key, j)
        <4>1. R[h[n].kid[j]] \subseteq Gap(R[n], h[n].key, j)  BY <2>1 DEF Ranged
        <4>2. Gap(R[n], h[n].key, j) \subseteq Gap(Q[n], h[n].key, j)  BY <1>5, WidenedGap
        <4> QED  BY <4>1, <4>2
      <3>3. CASE h[n].kid[j] # y  BY <1>5, <3>1, <3>2, <3>3
      <3>4. CASE h[n].kid[j] = y
        <4>1. n = a /\ j = i  BY <1>1, <3>4 DEF Tree, Single
        <4>2. e \in Gap(Q[a], h[a].key, i)  BY <1>5 DEF Gap
        <4> QED  BY <1>6, <3>2, <3>4, <4>1, <4>2
      <3> QED  BY <3>3, <3>4
    <2> QED  BY <2>1, <2>2, <2>3 DEF Ranged
  <1>8. Good(h, r, V, L, Q)  BY <1>1, <1>4, <1>7 DEF Good
  <1> QED  BY <1>5, <1>6, <1>8

Fact(h, V, L, R, n) ==
  /\ h[n].key \in Seq(R[n]) /\ h[n].key \in Seq(Nat) /\ h[n].key \in Seq(Keys)
  /\ h[n].kid \in Seq(Nat) /\ h[n].leaf \in BOOLEAN
  /\ R[n] \in SUBSET Nat /\ R[n] \subseteq Keys /\ L[n] \in Nat
  /\ \A j \in 1 .. Len(h[n].kid) :
       h[n].kid[j] \in V /\ R[h[n].kid[j]] \subseteq Gap(R[n], h[n].key, j)
  /\ h[n].leaf => Len(h[n].kid) = 0 /\ L[n] = 0
  /\ ~h[n].leaf => Len(h[n].kid) = Len(h[n].key) + 1
  /\ Sorted(h[n].key)

\* What the range and the heights say of one node.
LEMMA FactOf ==
  ASSUME NEW h, NEW r, NEW V, NEW L, NEW R, Good(h, r, V, L, R), NEW n \in V
  PROVE  Fact(h, V, L, R, n)
  BY NodeFacts DEF Fact

SplitAt(h, g, a, i, y, z) ==
  /\ ~h[a].leaf /\ i \in Nat /\ i + 1 \in 1 .. Len(h[a].kid)
  /\ y = h[a].kid[i + 1] /\ N(h[y]) = Full
  /\ g = SplitChild(h, a, i) /\ z = Len(h) + 1

\* btreesplitchild, as the steps below use it.
LEMMA SplitCut ==
  ASSUME NEW h, NEW r, NEW V, NEW L, NEW R, Good(h, r, V, L, R), Heap(h, V),
         NEW a \in V, NEW i, NEW y, NEW g, NEW z, SplitAt(h, g, a, i, y, z)
  PROVE  /\ Cut(h, g, V, a, i + 1, y, z)
         /\ g \in Seq(Node) /\ Len(g) = Len(h) + 1
         /\ Len(g[y].key) = T - 1 /\ Len(g[z].key) = T - 1
         /\ \A n \in 1 .. Len(h) : n \notin {a, y} => g[n] = h[n]
  BY SMTT(30), SplitIsCut DEF SplitAt

Apart(V, L, a, y, z) ==
  y \in V /\ y # a /\ y # z /\ a # z /\ L[a] = L[y] + 1 /\ L[y] \in Nat

\* The nodes of a cut are different, and a level apart.
LEMMA CutApart ==
  ASSUME NEW h, NEW g, NEW r, NEW V, NEW L, Tree(h, r, V, L),
         NEW a, NEW i, NEW y, NEW z, Cut(h, g, V, a, i, y, z)
  PROVE  Apart(V, L, a, y, z)
  BY CutKids DEF Apart

\* A split keeps the tree, and a key goes on into the half on its side of the key that
\* went up.
Halved(h, g, r, V, W, M, Q, a, i, y, z, e) ==
  /\ Held(g, r, W, M, Q) /\ W = V \cup {z} /\ Cut(h, g, V, a, i + 1, y, z)
  /\ Len(g) = Len(h) + 1 /\ y \in V
  /\ N(g[y]) = T - 1 /\ N(g[z]) = T - 1 /\ N(g[a]) = N(h[a]) + 1
  /\ e <= g[a].key[i + 1] => e \in Q[y]
  /\ g[a].key[i + 1] <= e => e \in Q[z]

\* The tree after btreesplitchild.
LEMMA SplitStep ==
  ASSUME NEW h, NEW r, NEW V, NEW L, NEW R, Held(h, r, V, L, R),
         NEW a \in V, N(h[a]) < Full, NEW i, NEW y, NEW g, NEW z, SplitAt(h, g, a, i, y, z),
         NEW e \in R[y]
  PROVE  \E W, M, Q : Halved(h, g, r, V, W, M, Q, a, i, y, z, e)
  <1> SUFFICES
         \E W, M, Q :
           /\ Held(g, r, W, M, Q) /\ W = V \cup {z} /\ Cut(h, g, V, a, i + 1, y, z)
           /\ Len(g) = Len(h) + 1 /\ y \in V
           /\ N(g[y]) = T - 1 /\ N(g[z]) = T - 1 /\ N(g[a]) = N(h[a]) + 1
           /\ e <= g[a].key[i + 1] => e \in Q[y]
           /\ g[a].key[i + 1] <= e => e \in Q[z]
    BY DEF Halved
  <1>1. Good(h, r, V, L, R) /\ Heap(h, V) /\ Sized(h, r, V) /\ L[r] <= Len(h)  BY DEF Held
  <1>2. PICK d : d = i + 1  OBVIOUS
  <1>3. /\ Cut(h, g, V, a, d, y, z) /\ g \in Seq(Node) /\ Len(g) = Len(h) + 1
        /\ Len(g[y].key) = T - 1 /\ Len(g[z].key) = T - 1
        /\ \A n \in 1 .. Len(h) : n \notin {a, y} => g[n] = h[n]
    <2>1. /\ Cut(h, g, V, a, i + 1, y, z) /\ g \in Seq(Node) /\ Len(g) = Len(h) + 1
          /\ Len(g[y].key) = T - 1 /\ Len(g[z].key) = T - 1
          /\ \A n \in 1 .. Len(h) : n \notin {a, y} => g[n] = h[n]
      BY <1>1, SplitCut
    <2> QED  BY <1>2, <2>1
  <1>4. PICK up : up = g[a].key[d]  OBVIOUS
  <1> DEFINE W == V \cup {z}
             M == CutL(V, L, y, z)
             Q == CutR(V, R, y, z, up)
  <1>5. Good(g, r, W, M, Q)  BY <1>1, <1>3, <1>4, CutKeeps
  <1>6. y \in V /\ y # a /\ y # z /\ a # z /\ r \in V /\ L \in [V -> Nat]
    <2>1. Tree(h, r, V, L)  BY <1>1 DEF Good
    <2>2. Cut(h, g, V, a, d, y, z)  BY <1>3
    <2>3. Apart(V, L, a, y, z)  BY Zenon, <2>1, <2>2, CutApart
    <2> QED  BY <2>1, <2>3 DEF Tree, Apart
  <1>7. Len(h) \in Nat /\ V \subseteq 1 .. Len(h) /\ r # z /\ z = Len(h) + 1
    BY <1>1, <1>6 DEF Heap, SplitAt
  <1>8. Heap(g, W)
    <2>1. z \in 1 .. Len(g) /\ 1 .. Len(h) \subseteq 1 .. Len(g)  BY <1>3, <1>7
    <2> QED  BY <1>3, <1>7, <2>1 DEF Heap
  <1>9. M[r] <= Len(g)
    <2>1. M[r] = L[r] /\ L[r] \in Nat  BY <1>6, <1>7 DEF CutL
    <2> QED  BY <1>1, <1>3, <1>7, <2>1
  <1>10. Len(g[a].key) = Len(h[a].key) + 1  BY <1>3 DEF Cut, Inserted
  <1>11. T \in Nat /\ T >= 2 /\ Full \in Nat /\ Full >= T - 1 /\ Full = 2 * T - 1  BY SizesAssumption DEF Full
  <1>12. Sized(g, r, W)
    <2>1. ASSUME NEW n \in W  PROVE N(g[n]) <= Full /\ (n # r => N(g[n]) >= T - 1)
      <3>1. CASE n \in {y, z}
        <4>1. N(g[n]) = T - 1  BY <1>3, <3>1 DEF N
        <4> QED  BY <1>11, <4>1
      <3>2. CASE n = a
        <4>1. Len(h[a].key) < Full /\ (a # r => Len(h[a].key) >= T - 1)  BY <1>1 DEF Sized, N
        <4>2. Len(h[a].key) \in Nat  BY <1>1, AllNoded
        <4>3. PICK l : l = Len(h[a].key)  OBVIOUS
        <4>4. l + 1 <= Full /\ (a # r => l + 1 >= T - 1)  BY <1>11, <4>1, <4>2, <4>3
        <4> QED  BY <1>10, <3>2, <4>3, <4>4 DEF N
      <3>3. CASE n \in V \ {a, y}
        <4>1. g[n] = h[n]  BY <1>3, <1>7, <3>3
        <4> QED  BY <1>1, <3>3, <4>1 DEF Sized
      <3> QED  BY <3>1, <3>2, <3>3
    <2> QED  BY <2>1 DEF Sized
  <1>13. Q[y] = {b \in R[y] : b <= up} /\ Q[z] = {b \in R[y] : up <= b}  BY <1>6 DEF CutR
  <1>14. Held(g, r, W, M, Q)  BY <1>5, <1>8, <1>9, <1>12 DEF Held
  <1> HIDE DEF W, M, Q
  <1>15. (e <= up => e \in Q[y]) /\ (up <= e => e \in Q[z])  BY <1>13
  <1>16. N(g[y]) = T - 1 /\ N(g[z]) = T - 1 /\ N(g[a]) = N(h[a]) + 1  BY <1>3, <1>10 DEF N
  <1> QED  BY <1>2, <1>3, <1>4, <1>6, <1>14, <1>15, <1>16 DEF W

\* The children a merge or a loan is about.
Pair(V, L, r, a, y, z) ==
  /\ a \in V /\ y \in V /\ z \in V /\ r \in V /\ y # a /\ z # a /\ y # z /\ y # r /\ z # r
  /\ L[a] = L[y] + 1 /\ L[z] = L[y] /\ L[y] \in Nat

\* The two children of a loan or of a merge.
LEMMA PairOf ==
  ASSUME NEW h, NEW r, NEW V, NEW L, NEW R, Good(h, r, V, L, R),
         NEW a \in V, NEW i, NEW y, NEW z, LendAt(h, a, i, y, z)
  PROVE  Pair(V, L, r, a, y, z)
  <1> i \in 1 .. Len(h[a].kid) /\ i + 1 \in 1 .. Len(h[a].kid) /\ i # i + 1
      /\ y = h[a].kid[i] /\ z = h[a].kid[i + 1]
    BY DEF LendAt
  <1>1. y # z /\ y \in V \ {a} /\ z \in V \ {a} /\ L[y] = L[z]  BY Siblings
  <1>2. L[a] = L[y] + 1 /\ L[y] \in Nat  BY NodeShape
  <1>3. r \in V /\ L[a] <= L[r]  BY DEF Good, Tree
  <1>4. y # r /\ z # r  BY <1>1, <1>2, <1>3
  <1> QED  BY <1>1, <1>2, <1>3, <1>4 DEF Pair

\* A merge keeps the tree: the two children and the key between them are one node.
LEMMA MergeStep ==
  ASSUME NEW h, NEW r, NEW V, NEW L, NEW R, Held(h, r, V, L, R),
         NEW a \in V, a = r \/ N(h[a]) >= T,
         NEW i, NEW y, NEW g, NEW z, MergeAt(h, g, a, i, y, z),
         N(h[y]) = T - 1, N(h[z]) = T - 1
  PROVE  \E W, M, Q :
           /\ Held(g, r, W, M, Q) /\ Cut(g, h, W, a, i + 1, y, z) /\ Adds(V, W, z)
           /\ Elsewhere(h, g, V, W, L, M, R, Q, a, y, z)
           /\ Pair(V, L, r, a, y, z) /\ y \in W /\ M[y] = L[y] /\ W \subseteq V
           /\ Q[y] = Gap(R[a], g[a].key, i + 1)
           /\ Len(g[y].key) = Full /\ Len(g[a].key) = Len(h[a].key) - 1
  <1>1. Good(h, r, V, L, R) /\ Heap(h, V) /\ Sized(h, r, V) /\ L[r] <= Len(h)  BY DEF Held
  <1> DEFINE W == V \ {z}
             M == JoinL(W, L)
             Q == JoinR(W, R, y, Gap(R[a], g[a].key, i + 1))
  <1>2. /\ Cut(g, h, W, a, i + 1, y, z) /\ Adds(V, W, z) /\ Heap(g, W)
        /\ Len(g) = Len(h) /\ Len(g[y].key) = Len(h[y].key) + 1 + Len(h[z].key)
        /\ Len(g[a].key) = Len(h[a].key) - 1
        /\ \A n \in V \ {a, y, z} : g[n] = h[n]
    <2>1. MergeGives(h, g, V, a, i, y, z)  BY Zenon, <1>1, MergeIsCut
    <2> QED  BY <2>1 DEF MergeGives
  <1>3. Good(g, r, W, M, Q)  BY Zenon, <1>1, <1>2, JoinKeeps
  <1>4. Pair(V, L, r, a, y, z)
    <2>1. PICK d : d = i + 1  OBVIOUS
    <2>2. LendAt(h, a, d, y, z)  BY <2>1 DEF MergeAt, LendAt
    <2> QED  BY Zenon, <1>1, <2>2, PairOf
  <1>5. /\ y \in W /\ a \in W /\ r \in W /\ y # a /\ W \subseteq V /\ z \notin W
    BY <1>4 DEF Pair
  <1>6. /\ \A n \in W : M[n] = L[n]
        /\ Q[y] = Gap(R[a], g[a].key, i + 1) /\ \A n \in W : n # y => Q[n] = R[n]
    BY <1>5 DEF JoinL, JoinR
  <1>7. T \in Nat /\ T >= 2 /\ Full = 2 * T - 1  BY SizesAssumption DEF Full
  <1>8. Len(g[y].key) = Full
    <2>1. Len(h[y].key) = T - 1 /\ Len(h[z].key) = T - 1  BY DEF N
    <2> QED  BY <1>2, <1>7, <2>1
  <1>9. Sized(g, r, W)
    <2>1. ASSUME NEW n \in W  PROVE N(g[n]) <= Full /\ (n # r => N(g[n]) >= T - 1)
      <3>1. CASE n = y
        <4>1. N(g[n]) = Full  BY <1>8, <3>1 DEF N
        <4> QED  BY <1>7, <4>1
      <3>2. CASE n = a
        <4>1. PICK l : l = Len(h[a].key)  OBVIOUS
        <4>2. l \in Nat  BY <1>1, <4>1, AllNoded
        <4>3. l <= Full /\ (a # r => l >= T)  BY <1>1, <4>1 DEF Sized, N
        <4>4. l - 1 <= Full /\ (a # r => l - 1 >= T - 1)  BY <1>7, <4>2, <4>3
        <4> QED  BY <1>2, <3>2, <4>1, <4>4 DEF N
      <3>3. CASE n \notin {a, y}
        <4>1. g[n] = h[n] /\ n \in V  BY <1>2, <1>5, <3>3
        <4> QED  BY <1>1, <4>1 DEF Sized
      <3> QED  BY <3>1, <3>2, <3>3
    <2> QED  BY <2>1 DEF Sized
  <1>10. M[r] <= Len(g)  BY <1>1, <1>2, <1>5, <1>6
  <1> HIDE DEF M, Q
  <1>11. Held(g, r, W, M, Q)  BY <1>2, <1>3, <1>9, <1>10 DEF Held
  <1>12. Elsewhere(h, g, V, W, L, M, R, Q, a, y, z)
    <2>1. \A n \in V \ {a, y, z} : n \in W /\ n # y  OBVIOUS
    <2> HIDE DEF W
    <2> QED  BY <1>2, <1>5, <1>6, <2>1 DEF Elsewhere
  <1> HIDE DEF W
  <1> QED  BY <1>2, <1>4, <1>5, <1>6, <1>8, <1>11, <1>12

\* Without the key between two gaps they are one.
LEMMA DroppedGaps ==
  ASSUME NEW A \in SUBSET Nat, NEW p \in Seq(Nat), NEW q \in Seq(A), NEW i, NEW e,
         Inserted(q, p, i, e), Sorted(q)
  PROVE  Gap(A, q, i) \subseteq Gap(A, p, i) /\ Gap(A, q, i + 1) \subseteq Gap(A, p, i)
  <1>1. p \in Seq(A) /\ Sorted(p) /\ Between(p, i, e) /\ e \in A  BY DroppedSorted
  <1>2. /\ Gap(A, q, i) = {d \in Gap(A, p, i) : d <= e}
        /\ Gap(A, q, i + 1) = {d \in Gap(A, p, i) : e <= d}
    BY <1>1, InsertedSorted
  <1> QED  BY <1>2

\* Two children merged: one step of a loan, and the step back.
LEMMA MergedFirst ==
  ASSUME NEW h, NEW r, NEW V, NEW L, NEW R, Good(h, r, V, L, R), Heap(h, V),
         NEW a \in V, NEW i, NEW y, NEW z, LendAt(h, a, i, y, z)
  PROVE  \E m : Cut(m, h, V \ {z}, a, i, y, z) /\ Adds(V, V \ {z}, z)
  <1>1. PICK d : d = i - 1  OBVIOUS
  <1>2. i \in Nat /\ i \in 1 .. Len(h[a].kid)  BY DEF LendAt
  <1>3. d \in Nat /\ d + 1 = i /\ d + 2 = i + 1
    <2>1. i >= 1
      <3>1. PICK l : l = Len(h[a].kid)  OBVIOUS
      <3> QED  BY <1>2, <3>1
    <2> QED  BY <1>1, <1>2, <2>1
  <1>4. PICK m : m = Merge(h, a, d, h[a].key[d + 1])  OBVIOUS
  <1>5. MergeAt(h, m, a, d, y, z)  BY <1>3, <1>4 DEF LendAt, MergeAt
  <1>6. MergeGives(h, m, V, a, d, y, z)  BY Zenon, <1>5, MergeIsCut
  <1> QED  BY <1>3, <1>6 DEF MergeGives

\* The key that goes up in a loan.
LEMMA LentKey ==
  ASSUME NEW m, NEW h, NEW g, NEW V, NEW a, NEW i, NEW y, NEW z,
         Cut(m, h, V, a, i, y, z), Cut(m, g, V, a, i, y, z)
  PROVE  /\ Len(g[y].key) = Len(h[y].key) - 1 => g[a].key[i] = h[y].key[Len(h[y].key)]
                                                 /\ Len(h[y].key) >= 1
         /\ Len(g[y].key) = Len(h[y].key) + 1 => g[a].key[i] = h[z].key[1]
                                                 /\ Len(h[z].key) >= 1
  <1>1. PICK p, q1, q2, r1, r2, e, u :
          /\ p = m[y].key /\ q1 = h[y].key /\ q2 = h[z].key /\ r1 = g[y].key /\ r2 = g[z].key
          /\ e = h[a].key[i] /\ u = g[a].key[i]
    OBVIOUS
  <1>2. Around(p, q1, e, q2) /\ Around(p, r1, u, r2)  BY <1>1 DEF Cut
  <1>3. q1 \in Seq(Keys) /\ q2 \in Seq(Keys) /\ r1 \in Seq(Keys) /\ r2 \in Seq(Keys)
    BY <1>1 DEF Cut, Node
  <1>4. PICK c, b, d, f : c = Len(q1) /\ b = Len(q2) /\ d = Len(r1) /\ f = Len(r2)  OBVIOUS
  <1>5. c \in Nat /\ b \in Nat /\ d \in Nat /\ f \in Nat  BY <1>3, <1>4
  <1>6. /\ c + 1 + b = d + 1 + f /\ p[d + 1] = u
        /\ \A j \in 1 .. c : p[j] = q1[j]
        /\ \A j \in 1 .. b : p[c + 1 + j] = q2[j]
    BY <1>2, <1>4 DEF Around
  <1>7. ASSUME d = c - 1  PROVE u = q1[c] /\ c >= 1
    <2>1. c >= 1 /\ d + 1 = c /\ c \in 1 .. c  BY <1>5, <1>7
    <2> QED  BY <1>6, <2>1
  <1>8. ASSUME d = c + 1  PROVE u = q2[1] /\ b >= 1
    <2>1. b = f + 1 /\ b >= 1 /\ 1 \in 1 .. b /\ c + 1 + 1 = d + 1  BY <1>5, <1>6, <1>8
    <2>2. p[c + 1 + 1] = q2[1]  BY <1>6, <2>1
    <2> QED  BY <1>6, <2>1, <2>2
  <1> QED  BY <1>1, <1>4, <1>7, <1>8

\* A loan keeps the tree, and a key that has its place below the borrower keeps it.
Lends(m, h, g, V, a, i, y, z, from, to) ==
  /\ LendAt(h, a, i, y, z) /\ Cut(m, h, V \ {z}, a, i, y, z) /\ Adds(V, V \ {z}, z)
  /\ LendGives(m, h, g, V, a, i, y, z, from, to)
  /\ (from = y /\ to = z) \/ (from = z /\ to = y)
  /\ N(h[from]) >= T /\ N(h[to]) = T - 1

Lent(h, g, r, V, L, M, R, Q, a, i, y, z, from, to) ==
  /\ Held(g, r, V, M, Q) /\ Elsewhere(h, g, V, V, L, M, R, Q, a, y, z)
  /\ Pair(V, L, r, a, y, z) /\ M[y] = L[y] /\ M[z] = L[y]
  /\ from = y => Gap(R[a], h[a].key, i + 1) \subseteq Q[z]
  /\ from = z => Gap(R[a], h[a].key, i) \subseteq Q[y]
  /\ Len(g[to].key) = T

\* The tree after a loan.
LEMMA LendStep ==
  ASSUME NEW h, NEW r, NEW V, NEW L, NEW R, Held(h, r, V, L, R),
         NEW a \in V, NEW m, NEW i, NEW y, NEW g, NEW z, NEW from, NEW to,
         Lends(m, h, g, V, a, i, y, z, from, to)
  PROVE  \E M, Q : Lent(h, g, r, V, L, M, R, Q, a, i, y, z, from, to)
  <1> SUFFICES ASSUME LendAt(h, a, i, y, z),
                      Cut(m, h, V \ {z}, a, i, y, z), Adds(V, V \ {z}, z),
                      LendGives(m, h, g, V, a, i, y, z, from, to),
                      (from = y /\ to = z) \/ (from = z /\ to = y),
                      N(h[from]) >= T, N(h[to]) = T - 1
               PROVE  \E M, Q : Lent(h, g, r, V, L, M, R, Q, a, i, y, z, from, to)
    BY DEF Lends
  <1>1. Good(h, r, V, L, R) /\ Heap(h, V) /\ Sized(h, r, V) /\ L[r] <= Len(h)  BY DEF Held
  <1>2. PICK W : W = V \ {z}  OBVIOUS
  <1>3. Cut(m, h, W, a, i, y, z) /\ Adds(V, W, z)  BY <1>2
  <1>4. /\ Cut(m, g, W, a, i, y, z) /\ Heap(g, V) /\ Len(g) = Len(h)
        /\ Len(g[from].key) = Len(h[from].key) - 1 /\ Len(g[to].key) = Len(h[to].key) + 1
        /\ g[a].kid = h[a].kid /\ Len(g[a].key) = Len(h[a].key)
        /\ \A n \in V \ {a, y, z} : g[n] = h[n]
    BY <1>2 DEF LendGives
  <1>5. Pair(V, L, r, a, y, z)  BY Zenon, <1>1, PairOf
  <1>6. PICK B, up : B = Gap(R[a], m[a].key, i) /\ up = g[a].key[i]  OBVIOUS
  <1>7. PICK L1, R1 : L1 = JoinL(W, L) /\ R1 = JoinR(W, R, y, B)  OBVIOUS
  <1>8. Good(m, r, W, L1, R1)  BY Zenon, <1>1, <1>3, <1>6, <1>7, JoinKeeps
  <1>9. PICK M, Q : M = CutL(W, L1, y, z) /\ Q = CutR(W, R1, y, z, up)  OBVIOUS
  <1>10. V = W \cup {z}  BY <1>3 DEF Adds
  <1>11. Good(g, r, V, M, Q)  BY Zenon, <1>4, <1>6, <1>8, <1>9, <1>10, CutKeeps
  <1>12. a \in W /\ y \in W /\ r \in W /\ z \in V /\ y # a /\ z # a /\ y # z /\ L[z] = L[y]
    BY <1>2, <1>5 DEF Pair
  <1>13. /\ \A n \in W : L1[n] = L[n]
         /\ R1[y] = B /\ \A n \in W : n # y => R1[n] = R[n]
    BY <1>7, <1>12 DEF JoinL, JoinR
  <1>14. /\ \A n \in V : n # z => M[n] = L1[n]
         /\ M[z] = L1[y]
         /\ Q[y] = {e \in R1[y] : e <= up} /\ Q[z] = {e \in R1[y] : up <= e}
         /\ \A n \in V : n # y /\ n # z => Q[n] = R1[n]
    BY <1>9, <1>10, <1>12 DEF CutL, CutR
  <1>15. \A n \in V \ {a, y, z} : n \in W  BY <1>2
  <1>16. Elsewhere(h, g, V, V, L, M, R, Q, a, y, z)
    <2>1. ASSUME NEW n \in V \ {a, y, z}  PROVE n \in V /\ g[n] = h[n] /\ M[n] = L[n] /\ Q[n] = R[n]
      BY <1>4, <1>13, <1>14, <1>15
    <2>2. a \in V /\ M[a] = L[a] /\ Q[a] = R[a]  BY <1>12, <1>13, <1>14
    <2> QED  BY <2>1, <2>2 DEF Elsewhere
  <1>17. M[y] = L[y] /\ M[z] = L[y]  BY <1>2, <1>12, <1>13, <1>14
  <1>18. M[r] = L[r]  BY <1>2, <1>12, <1>13, <1>14
  <1>19. Sized(g, r, V)
    <2>0. T \in Nat /\ T >= 2 /\ Full = 2 * T - 1  BY SizesAssumption DEF Full
    <2>1. ASSUME NEW n \in V  PROVE N(g[n]) <= Full /\ (n # r => N(g[n]) >= T - 1)
      <3>1. CASE n = from
        <4>1. PICK l : l = Len(h[from].key)  OBVIOUS
        <4>2. l \in Nat /\ l <= Full /\ l >= T  BY <1>1, <3>1, <4>1, AllNoded DEF Sized, N
        <4>3. l - 1 <= Full /\ l - 1 >= T - 1  BY <2>0, <4>2
        <4> QED  BY <1>4, <3>1, <4>1, <4>3 DEF N
      <3>2. CASE n = to
        <4>1. Len(h[to].key) = T - 1  BY DEF N
        <4>2. Len(g[to].key) = T  BY <1>4, <2>0, <4>1
        <4> QED  BY <2>0, <3>2, <4>2 DEF N
      <3>3. CASE n = a  BY <1>1, <1>4, <3>3 DEF Sized, N
      <3>4. CASE n \notin {a, from, to}
        <4>1. g[n] = h[n]  BY <1>4, <3>4
        <4> QED  BY <1>1, <4>1 DEF Sized
      <3> QED  BY <3>1, <3>2, <3>3, <3>4
    <2> QED  BY <2>1 DEF Sized
  <1>20. Held(g, r, V, M, Q)  BY <1>1, <1>4, <1>11, <1>18, <1>19 DEF Held
  <1>21. PICK A, p, q : A = R[a] /\ p = m[a].key /\ q = h[a].key  OBVIOUS
  <1>22. A \in SUBSET Nat /\ p \in Seq(Nat) /\ q \in Seq(A) /\ Sorted(q)
    <2>1. m[a].key \in Seq(Nat)  BY <1>8, <1>12, NodeFacts
    <2> QED  BY <1>1, <1>21, <2>1, NodeFacts
  <1>23. Inserted(q, p, i, q[i])  BY <1>3, <1>21 DEF Cut
  <1>24. Gap(A, q, i) \subseteq B /\ Gap(A, q, i + 1) \subseteq B
    BY <1>6, <1>21, <1>22, <1>23, DroppedGaps
  <1>25. i \in 1 .. Len(q) /\ q[i] \in Nat
    <2>1. i \in 1 .. Len(q)  BY <1>23 DEF Inserted
    <2>2. q[i] \in A  BY <1>22, <2>1
    <2> QED  BY <1>22, <2>1, <2>2
  <1>26. i \in 1 .. Len(h[a].kid) /\ i + 1 \in 1 .. Len(h[a].kid) /\ i \in Nat
         /\ y = h[a].kid[i] /\ z = h[a].kid[i + 1]
    BY DEF LendAt
  <1>27. ASSUME from = y  PROVE Gap(A, q, i + 1) \subseteq Q[z]
    <2>1. up = h[y].key[Len(h[y].key)] /\ Len(h[y].key) >= 1  BY SMTT(30), <1>3, <1>4, <1>6, <1>27, LentKey
    <2>2. up \in R[y]
      <3>1. h[y].key \in Seq(R[y])  BY <1>1, <1>12, <1>10, NodeFacts
      <3> QED  BY <2>1, <3>1
    <2>3. up \in Gap(A, q, i)
      <3>1. R[y] \subseteq Gap(A, q, i)  BY <1>1, <1>21, <1>26, NodeFacts
      <3> QED  BY <2>2, <3>1
    <2>4. up <= q[i] /\ up \in Nat  BY <1>22, <1>25, <2>3 DEF Gap, Between
    <2>5. ASSUME NEW e \in Gap(A, q, i + 1)  PROVE up <= e
      <3>1. (i + 1) - 1 = i  BY <1>26
      <3>2. q[i] <= e /\ e \in A  BY <1>25, <3>1 DEF Gap, Between
      <3> QED  BY <1>22, <1>25, <2>4, <3>2
    <2> QED  BY <1>13, <1>14, <1>24, <2>5
  <1>28. ASSUME from = z  PROVE Gap(A, q, i) \subseteq Q[y]
    <2>1. up = h[z].key[1] /\ Len(h[z].key) >= 1
      <3>1. Len(g[y].key) = Len(h[y].key) + 1  BY <1>4, <1>12, <1>28
      <3> QED  BY <1>3, <1>4, <1>6, <3>1, LentKey
    <2>2. up \in R[z]
      <3>1. h[z].key \in Seq(R[z])  BY <1>1, <1>12, NodeFacts
      <3> QED  BY <2>1, <3>1
    <2>3. up \in Gap(A, q, i + 1)
      <3>1. R[z] \subseteq Gap(A, q, i + 1)  BY <1>1, <1>21, <1>26, NodeFacts
      <3> QED  BY <2>2, <3>1
    <2>4. q[i] <= up /\ up \in Nat
      <3>1. (i + 1) - 1 = i  BY <1>26
      <3> QED  BY <1>22, <1>25, <2>3, <3>1 DEF Gap, Between
    <2>5. ASSUME NEW e \in Gap(A, q, i)  PROVE e <= up
      <3>2. e <= q[i] /\ e \in A  BY <1>25 DEF Gap, Between
      <3> QED  BY <1>22, <1>25, <2>4, <3>2
    <2> QED  BY <1>13, <1>14, <1>24, <2>5
  <1>29. Len(g[to].key) = T
    <2>1. Len(h[to].key) = T - 1 /\ T \in Nat  BY SizesAssumption DEF N
    <2> QED  BY <1>4, <2>1
  <1>30. Lent(h, g, r, V, L, M, R, Q, a, i, y, z, from, to)
    BY <1>5, <1>16, <1>17, <1>20, <1>21, <1>27, <1>28, <1>29 DEF Lent
  <1> QED  BY <1>30

-----------------------------------------------------------------------------
\* The root becomes the only child of a new one.
Top(r) == [Empty EXCEPT !.leaf = FALSE, !.kid = <<r>>]

GrowAt(h, g, r, t) == N(h[r]) = Full /\ g = Append(h, Top(r)) /\ t = Len(h) + 1

Grown(h, g, r, t, V, W, M, Q) ==
  /\ Held(g, t, W, M, Q) /\ W = V \cup {t} /\ t \notin V /\ Len(g) = Len(h) + 1
  /\ r \in V /\ r \in W /\ t \in W /\ Q[r] = Keys /\ Q[t] = Keys /\ g[r] = h[r]
  /\ ~g[t].leaf /\ g[t].key = <<>> /\ g[t].kid = <<r>>
  /\ \A n \in V : g[n] = h[n]

\* The tree after bt_insert has put a root on top of it.
LEMMA GrowStep ==
  ASSUME NEW h, NEW r, NEW V, NEW L, NEW R, Held(h, r, V, L, R),
         NEW g, NEW t, GrowAt(h, g, r, t)
  PROVE  \E W, M, Q : Grown(h, g, r, t, V, W, M, Q)
  <1> SUFFICES ASSUME N(h[r]) = Full, g = Append(h, Top(r)), t = Len(h) + 1
               PROVE  \E W, M, Q : Grown(h, g, r, t, V, W, M, Q)
    BY DEF GrowAt
  <1>1. Good(h, r, V, L, R) /\ Heap(h, V) /\ Sized(h, r, V) /\ L[r] <= Len(h)  BY DEF Held
  <1>2. h \in Seq(Node) /\ V \subseteq 1 .. Len(h) /\ Len(h) \in Nat  BY <1>1 DEF Heap
  <1>3. /\ Tree(h, r, V, L) /\ R \in [V -> SUBSET Keys] /\ R[r] = Keys
        /\ \A n \in V : Ranged(h, n, R)
    BY <1>1 DEF Good
  <1>4. /\ r \in V /\ L \in [V -> Nat] /\ \A n \in V : Noded(h, n, V, L) /\ L[n] <= L[r]
        /\ \A n \in V : n # r => \E m \in V : \E j \in 1 .. Len(h[m].kid) : h[m].kid[j] = n
        /\ Single(h, V)
    BY <1>3 DEF Tree
  <1>5. /\ Top(r) \in Node /\ ~Top(r).leaf /\ Top(r).key = <<>> /\ Top(r).kid = <<r>>
    <2>1. r \in Nat  BY <1>2, <1>4
    <2>2. PICK p, q : p = <<>> /\ q = <<r>>  OBVIOUS
    <2>3. p \in Seq(Keys) /\ p \in Seq(Nat) /\ q \in Seq(Nat)  BY <2>1, <2>2
    <2>4. PICK e : e = [leaf |-> TRUE, key |-> p, kid |-> p]  OBVIOUS
    <2>5. e \in Node /\ e.key = p  BY <2>3, <2>4 DEF Node
    <2>6. PICK f : f = [e EXCEPT !.leaf = FALSE, !.kid = q]  OBVIOUS
    <2>7. f \in Node /\ f.leaf = FALSE /\ f.key = p /\ f.kid = q  BY <2>3, <2>5, <2>6 DEF Node
    <2>8. Top(r) = f  BY <2>2, <2>4, <2>6 DEF Top, Empty
    <2> QED  BY <2>2, <2>7, <2>8
  <1>6. /\ g \in Seq(Node) /\ Len(g) = Len(h) + 1 /\ g[t] = Top(r)
        /\ \A n \in 1 .. Len(h) : g[n] = h[n]
    BY <1>2, <1>5
  <1>7. t \notin V /\ \A n \in V : g[n] = h[n]
    <2>1. t \notin 1 .. Len(h)  BY <1>2
    <2> QED  BY <1>2, <1>6, <2>1
  <1> DEFINE W == V \cup {t}
             M == [n \in W |-> IF n = t THEN L[r] + 1 ELSE L[n]]
             Q == [n \in W |-> IF n = t THEN Keys ELSE R[n]]
  <1>8. /\ M \in [W -> Nat] /\ M[t] = L[r] + 1 /\ \A n \in V : M[n] = L[n] /\ n # t
    BY <1>4, <1>7
  <1>9. /\ Q \in [W -> SUBSET Keys] /\ Q[t] = Keys /\ \A n \in V : Q[n] = R[n]
    BY <1>3, <1>7
  <1> HIDE DEF M, Q
  <1>10. \A n \in W : n = t \/ n \in V  OBVIOUS
  <1>11. V \subseteq W /\ t \in W  OBVIOUS
  <1> HIDE DEF W
  <1>12. /\ g[t] \in Node /\ ~g[t].leaf /\ g[t].key = <<>> /\ Len(g[t].kid) = 1 /\ g[t].kid[1] = r
         /\ Len(g[t].key) = 0 /\ g[t].kid = <<r>>
    <2>1. g[t] \in Node /\ ~g[t].leaf /\ g[t].key = <<>> /\ g[t].kid = <<r>>  BY <1>5, <1>6
    <2>2. PICK p, q : p = g[t].key /\ q = g[t].kid  OBVIOUS
    <2>3. Len(p) = 0 /\ Len(q) = 1 /\ q[1] = r  BY <2>1, <2>2
    <2> QED  BY <2>1, <2>2, <2>3
  <1>13. ASSUME NEW n \in W  PROVE Noded(g, n, W, M) /\ M[n] <= M[t]
    <2>1. CASE n = t
      <3>1. \A j \in 1 .. Len(g[t].kid) : g[t].kid[j] = r
        <4>1. \A j \in 1 .. Len(g[t].kid) : j = 1  BY <1>12
        <4> QED  BY <1>12, <4>1
      <3>2. M[t] = M[r] + 1 /\ M[t] \in Nat /\ r \in W  BY <1>4, <1>8, <1>11
      <3>3. Len(g[t].kid) = Len(g[t].key) + 1  BY <1>12
      <3>4. \A j \in 1 .. Len(g[t].kid) : g[t].kid[j] \in W /\ M[t] = M[g[t].kid[j]] + 1
        BY <3>1, <3>2
      <3>5. M[t] <= M[t]  BY <3>2
      <3>6. g[t] \in Node /\ ~g[t].leaf  BY <1>12
      <3> QED  BY <2>1, <3>3, <3>4, <3>5, <3>6 DEF Noded
    <2>2. CASE n \in V
      <3>1. Noded(h, n, V, L) /\ g[n] = h[n] /\ M[n] = L[n]  BY <1>4, <1>7, <1>8, <2>2
      <3>2. h[n].leaf => Len(h[n].kid) = 0 /\ L[n] = 0  BY <3>1 DEF Noded
      <3>3. ASSUME ~h[n].leaf
            PROVE  /\ Len(h[n].kid) = Len(h[n].key) + 1
                   /\ \A j \in 1 .. Len(h[n].kid) : h[n].kid[j] \in W /\ M[n] = M[h[n].kid[j]] + 1
        BY <1>8, <1>11, <3>1, <3>3 DEF Noded
      <3>4. h[n] \in Node  BY <3>1 DEF Noded
      <3>5. M[n] <= M[t]
        <4>1. L[n] <= L[r] /\ L[n] \in Nat /\ L[r] \in Nat  BY <1>4, <2>2
        <4> QED  BY <1>8, <3>1, <4>1
      <3> QED  BY <3>1, <3>2, <3>3, <3>4, <3>5 DEF Noded
    <2> QED  BY <1>10, <2>1, <2>2
  <1>14. ASSUME NEW n \in W, n # t
         PROVE  \E m \in W : \E j \in 1 .. Len(g[m].kid) : g[m].kid[j] = n
    <2>1. CASE n = r
      <3>1. 1 \in 1 .. Len(g[t].kid)  BY <1>12
      <3> QED  BY <1>11, <1>12, <2>1, <3>1
    <2>2. CASE n # r
      <3>1. n \in V  BY <1>10, <1>14
      <3>2. PICK m \in V : \E j \in 1 .. Len(h[m].kid) : h[m].kid[j] = n  BY <1>4, <2>2, <3>1
      <3>3. g[m] = h[m] /\ m \in W  BY <1>7, <1>11
      <3> QED  BY <3>2, <3>3
    <2> QED  BY <2>1, <2>2
  <1>15. \A n \in V : \A j \in 1 .. Len(h[n].kid) : h[n].kid[j] # r
    <2>1. ASSUME NEW n \in V, NEW j \in 1 .. Len(h[n].kid)  PROVE h[n].kid[j] # r
      <3>1. L[n] = L[h[n].kid[j]] + 1 /\ L[h[n].kid[j]] \in Nat  BY <1>1, NodeShape
      <3>2. L[n] <= L[r]  BY <1>4
      <3>3. SUFFICES ASSUME h[n].kid[j] = r  PROVE FALSE  OBVIOUS
      <3> QED  BY <3>1, <3>2, <3>3
    <2> QED  BY <2>1
  <1>16. Single(g, W)
    <2>1. ASSUME NEW m \in W, NEW n \in W, NEW i \in 1 .. Len(g[m].kid), NEW j \in 1 .. Len(g[n].kid),
                 g[m].kid[i] = g[n].kid[j]
          PROVE  m = n /\ i = j
      <3>0. \A l \in 1 .. Len(g[t].kid) : l = 1 /\ g[t].kid[l] = r
        <4>1. \A l \in 1 .. Len(g[t].kid) : l = 1  BY <1>12
        <4> QED  BY <1>12, <4>1
      <3>1. ASSUME m = t  PROVE g[m].kid[i] = r /\ i = 1  BY <3>0, <3>1
      <3>2. ASSUME n = t  PROVE g[n].kid[j] = r /\ j = 1  BY <3>0, <3>2
      <3>3. ASSUME m \in V  PROVE g[m] = h[m] /\ g[m].kid[i] # r  BY <1>7, <1>15, <3>3
      <3>4. ASSUME n \in V  PROVE g[n] = h[n] /\ g[n].kid[j] # r  BY <1>7, <1>15, <3>4
      <3>5. CASE m \in V /\ n \in V
        <4>1. g[m] = h[m] /\ g[n] = h[n]  BY <3>3, <3>4, <3>5
        <4>2. i \in 1 .. Len(h[m].kid) /\ j \in 1 .. Len(h[n].kid) /\ h[m].kid[i] = h[n].kid[j]
          BY <2>1, <4>1
        <4> QED  BY <1>4, <3>5, <4>2 DEF Single
      <3>6. CASE m = t /\ n = t  BY <3>1, <3>2, <3>6
      <3>7. CASE m = t /\ n \in V  BY <2>1, <3>1, <3>4, <3>7
      <3>8. CASE m \in V /\ n = t  BY <2>1, <3>2, <3>3, <3>8
      <3> QED  BY <1>10, <3>5, <3>6, <3>7, <3>8
    <2> QED  BY <2>1 DEF Single
  <1>17. Tree(g, t, W, M)  BY <1>8, <1>11, <1>13, <1>14, <1>16 DEF Tree
  <1>18. ASSUME NEW n \in W  PROVE Ranged(g, n, Q)
    <2>1. CASE n = t
      <3>1. \A j \in 1 .. Len(g[t].kid) : g[t].kid[j] = r /\ j = 1
        <4>1. \A j \in 1 .. Len(g[t].kid) : j = 1  BY <1>12
        <4> QED  BY <1>12, <4>1
      <3>2. Q[r] = Keys /\ \A j : j \notin 1 .. Len(g[t].key)  BY <1>3, <1>4, <1>9, <1>12
      <3>3. Gap(Q[t], g[t].key, 1) = Keys  BY <1>9, <3>2 DEF Gap, Between
      <3>4. Sorted(g[t].key)  BY <3>2 DEF Sorted
      <3> QED  BY <2>1, <3>1, <3>2, <3>3, <3>4 DEF Ranged
    <2>2. CASE n \in V
      <3>1. Ranged(h, n, R) /\ g[n] = h[n] /\ Q[n] = R[n]  BY <1>3, <1>7, <1>9, <2>2
      <3>2. \A j \in 1 .. Len(h[n].kid) : Q[h[n].kid[j]] = R[h[n].kid[j]]
        <4>1. \A j \in 1 .. Len(h[n].kid) : h[n].kid[j] \in V  BY <1>1, <2>2, NodeShape
        <4> QED  BY <1>9, <4>1
      <3> QED  BY <3>1, <3>2 DEF Ranged
    <2> QED  BY <1>10, <2>1, <2>2
  <1>19. Good(g, t, W, M, Q)  BY <1>9, <1>17, <1>18 DEF Good
  <1>20. Heap(g, W)
    <2>2. t \in 1 .. Len(g) /\ \A n \in 1 .. Len(h) : n \in 1 .. Len(g)  BY <1>2, <1>6
    <2>1. \A n \in W : n \in 1 .. Len(g)  BY <1>2, <1>10, <2>2
    <2> QED  BY <1>6, <2>1 DEF Heap
  <1>21. Sized(g, t, W)
    <2>0. T \in Nat /\ T >= 2 /\ Full = 2 * T - 1  BY SizesAssumption DEF Full
    <2>1. ASSUME NEW n \in W  PROVE N(g[n]) <= Full /\ (n # t => N(g[n]) >= T - 1)
      <3>1. CASE n = t
        <4>1. N(g[n]) = 0  BY <1>12, <3>1 DEF N
        <4> QED  BY <2>0, <3>1, <4>1
      <3>2. CASE n = r
        <4>1. N(g[n]) = Full  BY <1>4, <1>7, <3>2
        <4> QED  BY <2>0, <4>1
      <3>3. CASE n \in V /\ n # r  BY <1>1, <1>7, <3>3 DEF Sized
      <3> QED  BY <1>10, <3>1, <3>2, <3>3
    <2> QED  BY <2>1 DEF Sized
  <1>22. M[t] <= Len(g)
    <2>1. L[r] \in Nat  BY <1>4
    <2> QED  BY <1>1, <1>2, <1>6, <1>8, <2>1
  <1>23. Held(g, t, W, M, Q)  BY <1>19, <1>20, <1>21, <1>22 DEF Held
  <1>24. r \in W /\ Q[r] = Keys  BY <1>3, <1>4, <1>9, <1>11
  <1>25. W = V \cup {t}  BY DEF W
  <1>26. Grown(h, g, r, t, V, W, M, Q)
    BY <1>4, <1>6, <1>7, <1>9, <1>11, <1>12, <1>23, <1>24, <1>25 DEF Grown
  <1> QED  BY Zenon, <1>26

LeafRekeyed(h, g, r, V, R, l) ==
  /\ g \in Seq(Node) /\ Len(g) = Len(h) /\ \A n \in V \ {l} : g[n] = h[n]
  /\ g[l].leaf = h[l].leaf /\ g[l].kid = h[l].kid
  /\ Sorted(g[l].key) /\ g[l].key \in Seq(R[l])
  /\ N(g[l]) <= Full /\ (l # r => N(g[l]) >= T - 1)

\* The keys of a leaf may change, as long as they stay in order and in its range.
LEMMA LeafStep ==
  ASSUME NEW h, NEW r, NEW V, NEW L, NEW R, Held(h, r, V, L, R),
         NEW l \in V, h[l].leaf, NEW g, LeafRekeyed(h, g, r, V, R, l)
  PROVE  Held(g, r, V, L, R)
  <1> SUFFICES ASSUME g \in Seq(Node), Len(g) = Len(h), g[l].leaf = h[l].leaf, g[l].kid = h[l].kid,
                      Sorted(g[l].key), g[l].key \in Seq(R[l]), \A n \in V \ {l} : g[n] = h[n],
                      N(g[l]) <= Full, l # r => N(g[l]) >= T - 1
               PROVE  Held(g, r, V, L, R)
    BY DEF LeafRekeyed
  <1>1. Good(h, r, V, L, R) /\ Heap(h, V) /\ Sized(h, r, V) /\ L[r] <= Len(h)  BY DEF Held
  <1>2. h \in Seq(Node) /\ V \subseteq 1 .. Len(h) /\ Len(h) \in Nat  BY <1>1 DEF Heap
  <1>3. /\ Tree(h, r, V, L) /\ R \in [V -> SUBSET Keys] /\ R[r] = Keys
        /\ \A n \in V : Ranged(h, n, R)
    BY <1>1 DEF Good
  <1>4. /\ r \in V /\ L \in [V -> Nat] /\ \A n \in V : Noded(h, n, V, L) /\ L[n] <= L[r]
        /\ \A n \in V : n # r => \E m \in V : \E j \in 1 .. Len(h[m].kid) : h[m].kid[j] = n
        /\ Single(h, V)
    BY <1>3 DEF Tree
  <1>5. g[l] \in Node  BY <1>2
  <1>6. \A n \in V : g[n].kid = h[n].kid /\ g[n].leaf = h[n].leaf  OBVIOUS
  <1>7. ASSUME NEW n \in V  PROVE Noded(g, n, V, L)
    <2>1. CASE n = l
      <3>1. Len(h[l].kid) = 0 /\ L[l] = 0  BY <1>4 DEF Noded
      <3> QED  BY <1>5, <2>1, <3>1 DEF Noded
    <2>2. CASE n # l
      <3>1. g[n] = h[n] /\ Noded(h, n, V, L)  BY <1>4, <2>2
      <3>2. PICK w : w = h[n]  OBVIOUS
      <3> QED  BY <3>1, <3>2 DEF Noded
    <2> QED  BY <2>1, <2>2
  <1>8. Single(g, V)
    <2>1. ASSUME NEW m \in V, NEW n \in V, NEW i \in 1 .. Len(g[m].kid), NEW j \in 1 .. Len(g[n].kid),
                 g[m].kid[i] = g[n].kid[j]
          PROVE  m = n /\ i = j
      <3>1. g[m].kid = h[m].kid /\ g[n].kid = h[n].kid  BY <1>6
      <3>2. /\ i \in 1 .. Len(h[m].kid) /\ j \in 1 .. Len(h[n].kid)
            /\ h[m].kid[i] = h[n].kid[j]
        BY <2>1, <3>1
      <3> QED  BY SMTT(30), <1>4, <3>2 DEF Single
    <2> QED  BY <2>1 DEF Single
  <1>9. ASSUME NEW n \in V, n # r  PROVE \E m \in V : \E j \in 1 .. Len(g[m].kid) : g[m].kid[j] = n
    <2>1. PICK m \in V : \E j \in 1 .. Len(h[m].kid) : h[m].kid[j] = n  BY <1>4, <1>9
    <2>2. g[m].kid = h[m].kid  BY <1>6
    <2> QED  BY <2>1, <2>2
  <1>10. Tree(g, r, V, L)  BY <1>4, <1>7, <1>8, <1>9 DEF Tree
  <1>11. ASSUME NEW n \in V  PROVE Ranged(g, n, R)
    <2>1. CASE n = l
      <3>1. Len(h[l].kid) = 0  BY <1>4 DEF Noded
      <3>2. \A j : j \notin 1 .. Len(g[l].kid)  BY <3>1
      <3>3. \A j \in 1 .. Len(g[l].key) : g[l].key[j] \in R[l]  OBVIOUS
      <3> QED  BY <2>1, <3>2, <3>3 DEF Ranged
    <2>2. CASE n # l  BY <1>3, <2>2 DEF Ranged
    <2> QED  BY <2>1, <2>2
  <1>12. Good(g, r, V, L, R)  BY <1>3, <1>10, <1>11 DEF Good
  <1>13. Sized(g, r, V)
    <2>1. ASSUME NEW n \in V  PROVE N(g[n]) <= Full /\ (n # r => N(g[n]) >= T - 1)
      <3>1. CASE n = l  BY <3>1
      <3>2. CASE n # l  BY <1>1, <3>2 DEF Sized
      <3> QED  BY <3>1, <3>2
    <2> QED  BY <2>1 DEF Sized
  <1> QED  BY <1>1, <1>2, <1>12, <1>13 DEF Held, Heap

PutLeaf(h, l, e) == [h EXCEPT ![l] = PutKey(@, FindKIndex(@, e) + 1, e)]

PutAt(h, g, l, e) == h[l].leaf /\ g = PutLeaf(h, l, e)

LeafGot(h, g, r, V, L, R, l, e) ==
  /\ Held(g, r, V, L, R) /\ Len(g) = Len(h) /\ \A n \in V \ {l} : g[n] = h[n]
  /\ \E i : Inserted(g[l].key, h[l].key, i, e)
  /\ Len(g[l].key) = Len(h[l].key) + 1

\* The tree after a key was put into a leaf.
LEMMA PutLeafStep ==
  ASSUME NEW h, NEW r, NEW V, NEW L, NEW R, Held(h, r, V, L, R),
         NEW l \in V, N(h[l]) < Full, NEW e \in R[l], NEW g, PutAt(h, g, l, e)
  PROVE  LeafGot(h, g, r, V, L, R, l, e)
  <1> SUFFICES ASSUME h[l].leaf, g = PutLeaf(h, l, e)
      PROVE  /\ Held(g, r, V, L, R) /\ Len(g) = Len(h) /\ \A n \in V \ {l} : g[n] = h[n]
             /\ \E i : Inserted(g[l].key, h[l].key, i, e)
             /\ Len(g[l].key) = Len(h[l].key) + 1
    BY DEF PutAt, LeafGot
  <1>1. Good(h, r, V, L, R) /\ Heap(h, V) /\ Sized(h, r, V)  BY DEF Held
  <1>2. h \in Seq(Node) /\ V \subseteq 1 .. Len(h) /\ Len(h) \in Nat  BY <1>1 DEF Heap
  <1>3. PICK A, p, n : A = R[l] /\ n = h[l] /\ p = n.key  OBVIOUS
  <1>4. /\ p \in Seq(A) /\ p \in Seq(Nat) /\ Sorted(p) /\ A \in SUBSET Nat /\ A \subseteq Keys
    BY <1>1, <1>3, NodeFacts
  <1>5. n \in Node  BY <1>1, <1>3, AllNoded
  <1>6. e \in Nat /\ e \in Keys  BY <1>3, <1>4
  <1>7. PICK c \in 0 .. Len(n.key) :
          /\ FindKIndex(n, e) = c - 1
          /\ \A j \in 1 .. c : n.key[j] <= e
          /\ \A j \in c + 1 .. Len(n.key) : n.key[j] > e
    BY <1>3, <1>4, <1>6, RankOf
  <1>8. Len(p) \in Nat /\ c \in 0 .. Len(p) /\ c \in Nat  BY <1>3, <1>4
  <1>9. FindKIndex(n, e) + 1 = c  BY <1>7, <1>8
  <1>10. PICK u : u = PutKey(n, c, e)  OBVIOUS
  <1>11. /\ u \in Node /\ u.leaf = n.leaf /\ u.kid = n.kid /\ Inserted(u.key, p, c + 1, e)
    <2>1. c \in 0 .. N(n)  BY <1>7 DEF N
    <2> QED  BY <1>3, <1>5, <1>6, <1>10, <2>1, PutKeyNode
  <1>12. g = [h EXCEPT ![l] = u]  BY <1>3, <1>9, <1>10 DEF PutLeaf
  <1>13. /\ g \in Seq(Node) /\ Len(g) = Len(h) /\ g[l] = u /\ \A m \in V \ {l} : g[m] = h[m]
    BY <1>2, <1>11, <1>12
  <1>14. Between(p, c + 1, e)
    <2>1. (c + 1) - 1 \in 1 .. Len(p) => p[(c + 1) - 1] <= e
      <3>1. (c + 1) - 1 = c  BY <1>8
      <3>2. c \in 1 .. Len(p) => c \in 1 .. c  BY <1>8
      <3> QED  BY <1>3, <1>7, <3>1, <3>2
    <2>2. c + 1 \in 1 .. Len(p) => e <= p[c + 1]
      <3>1. c + 1 \in 1 .. Len(p) => c + 1 \in c + 1 .. Len(p) /\ p[c + 1] \in Nat  BY <1>4, <1>8
      <3> QED  BY <1>3, <1>6, <1>7, <3>1
    <2> QED  BY <2>1, <2>2 DEF Between
  <1>15. u.key \in Seq(A) /\ Sorted(u.key)
    <2>1. PICK q : q = u.key  OBVIOUS
    <2>2. q \in Seq(Keys)  BY <1>11, <2>1 DEF Node
    <2>3. Inserted(q, p, c + 1, e)  BY <1>11, <2>1
    <2>4. ASSUME NEW j \in 1 .. Len(q)  PROVE q[j] \in A
      <3>1. /\ Len(q) = Len(p) + 1 /\ q[c + 1] = e
            /\ \A i \in 1 .. Len(p) : (i < c + 1 => q[i] = p[i]) /\ (i >= c + 1 => q[i + 1] = p[i])
        BY <2>3 DEF Inserted
      <3>2. CASE j < c + 1
        <4>1. j \in 1 .. Len(p)  BY <1>8, <3>1, <3>2
        <4> QED  BY <1>4, <3>1, <3>2, <4>1
      <3>3. CASE j = c + 1  BY <1>3, <3>1, <3>3
      <3>4. CASE j > c + 1
        <4>1. PICK i : i = j - 1  OBVIOUS
        <4>2. i \in 1 .. Len(p) /\ i >= c + 1 /\ j = i + 1  BY <1>8, <3>1, <3>4, <4>1
        <4> QED  BY <1>4, <3>1, <4>2
      <3> QED  BY <1>8, <3>2, <3>3, <3>4
    <2>5. q \in Seq(A)
      <3>1. q \in [1 .. Len(q) -> A] /\ Len(q) \in Nat  BY <2>2, <2>4
      <3> QED  BY <3>1
    <2>6. e \in A  BY <1>3
    <2> QED  BY <1>4, <1>14, <2>1, <2>3, <2>5, <2>6, InsertedSorted
  <1>16. Len(u.key) = Len(p) + 1  BY <1>11 DEF Inserted
  <1>17. T \in Nat /\ T >= 2 /\ Full = 2 * T - 1  BY SizesAssumption DEF Full
  <1>18. N(g[l]) <= Full /\ (l # r => N(g[l]) >= T - 1)
    <2>1. Len(p) < Full /\ (l # r => Len(p) >= T - 1)  BY <1>1, <1>3 DEF Sized, N
    <2>2. Len(p) + 1 <= Full /\ (l # r => Len(p) + 1 >= T - 1)  BY <1>8, <1>17, <2>1
    <2> QED  BY <1>13, <1>16, <2>2 DEF N
  <1>19. Held(g, r, V, L, R)
    <2>1. /\ g[l].leaf = h[l].leaf /\ g[l].kid = h[l].kid /\ Sorted(g[l].key) /\ g[l].key \in Seq(R[l])
      BY <1>3, <1>11, <1>13, <1>15
    <2>2. LeafRekeyed(h, g, r, V, R, l)  BY <1>13, <1>18, <2>1 DEF LeafRekeyed
    <2> QED  BY Zenon, <2>2, LeafStep
  <1>20. Len(g[l].key) = Len(h[l].key) + 1 /\ Inserted(g[l].key, h[l].key, c + 1, e)
    BY <1>3, <1>11, <1>13, <1>16
  <1> QED  BY <1>13, <1>19, <1>20

DropLeaf(h, g, l, i) ==
  i \in 0 .. N(h[l]) - 1 /\ g = [h EXCEPT ![l] = DropKey(@, i)]

LeafDropped(h, g, r, V, L, R, l, i) ==
  /\ Held(g, r, V, L, R) /\ Len(g) = Len(h) /\ \A n \in V \ {l} : g[n] = h[n]
  /\ g[l].leaf /\ Inserted(h[l].key, g[l].key, i + 1, h[l].key[i + 1])

\* The tree after a key was taken out of a leaf.
LEMMA DropLeafStep ==
  ASSUME NEW h, NEW r, NEW V, NEW L, NEW R, Held(h, r, V, L, R),
         NEW l \in V, h[l].leaf, l = r \/ N(h[l]) >= T, NEW g, NEW i, DropLeaf(h, g, l, i)
  PROVE  LeafDropped(h, g, r, V, L, R, l, i)
  <1> SUFFICES ASSUME i \in 0 .. N(h[l]) - 1, g = [h EXCEPT ![l] = DropKey(@, i)]
               PROVE  LeafDropped(h, g, r, V, L, R, l, i)
    BY DEF DropLeaf
  <1>1. Good(h, r, V, L, R) /\ Heap(h, V) /\ Sized(h, r, V)  BY DEF Held
  <1>2. h \in Seq(Node) /\ V \subseteq 1 .. Len(h) /\ Len(h) \in Nat  BY <1>1 DEF Heap
  <1>3. PICK A, p, n : A = R[l] /\ n = h[l] /\ p = n.key  OBVIOUS
  <1>4. /\ p \in Seq(A) /\ Sorted(p) /\ A \in SUBSET Nat /\ A \subseteq Keys
    BY <1>1, <1>3, NodeFacts
  <1>5. n \in Node  BY <1>1, <1>3, AllNoded
  <1>6. PICK u : u = DropKey(n, i)  OBVIOUS
  <1>7. u \in Node /\ u.leaf = n.leaf /\ u.kid = n.kid /\ Inserted(p, u.key, i + 1, p[i + 1])
    BY <1>3, <1>5, <1>6, DropKeyNode
  <1>8. g = [h EXCEPT ![l] = u]  BY <1>3, <1>6
  <1>9. /\ g \in Seq(Node) /\ Len(g) = Len(h) /\ g[l] = u /\ \A m \in V \ {l} : g[m] = h[m]
    BY <1>2, <1>7, <1>8
  <1>10. u.key \in Seq(A) /\ Sorted(u.key)
    <2>1. PICK q, d, e : q = u.key /\ d = i + 1 /\ e = p[i + 1]  OBVIOUS
    <2>2. q \in Seq(Nat)
      <3>1. q \in Seq(Keys) /\ Keys \subseteq Nat  BY <1>7, <2>1, KeysAssumption DEF Node
      <3> QED  BY Zenon, <3>1, Widened
    <2>3. Inserted(p, q, d, e)  BY <1>7, <2>1
    <2>4. q \in Seq(A) /\ Sorted(q)  BY Zenon, <1>4, <2>2, <2>3, DroppedSorted
    <2> QED  BY <2>1, <2>4
  <1>11. Len(p) = Len(u.key) + 1 /\ Len(u.key) \in Nat  BY <1>7 DEF Inserted, Node
  <1>12. T \in Nat /\ T >= 2 /\ Full = 2 * T - 1  BY SizesAssumption DEF Full
  <1>13. N(g[l]) <= Full /\ (l # r => N(g[l]) >= T - 1)
    <2>1. Len(p) <= Full /\ (l # r => Len(p) >= T)  BY <1>1, <1>3 DEF Sized, N
    <2>2. Len(u.key) <= Full /\ (l # r => Len(u.key) >= T - 1)  BY <1>11, <1>12, <2>1
    <2> QED  BY <1>9, <2>2 DEF N
  <1>14. /\ g[l].leaf = h[l].leaf /\ g[l].kid = h[l].kid /\ Sorted(g[l].key) /\ g[l].key \in Seq(R[l])
    BY <1>3, <1>7, <1>9, <1>10
  <1>15. Held(g, r, V, L, R)
    <2>1. LeafRekeyed(h, g, r, V, R, l)  BY <1>9, <1>13, <1>14 DEF LeafRekeyed
    <2> QED  BY Zenon, <2>1, LeafStep
  <1>16. Inserted(h[l].key, g[l].key, i + 1, h[l].key[i + 1])  BY <1>3, <1>7, <1>9
  <1> QED  BY <1>9, <1>14, <1>15, <1>16 DEF LeafDropped

-----------------------------------------------------------------------------
\* The last, or the first, child of a node, and the side of e the rest of it is on.
End(n, last) == IF last THEN n.kid[Len(n.kid)] ELSE n.kid[1]

Beside(last, d, e) == (last => d <= e) /\ (~last => e <= d)

\* q is p with w at c.
Replaced(q, p, c, w) ==
  /\ Len(q) = Len(p) /\ c \in 1 .. Len(p)
  /\ \A j \in 1 .. Len(p) : q[j] = IF j = c THEN w ELSE p[j]

\* In gap f of p, on one side of its key c, is w.
Neighbour(p, c, w, f, last) ==
  /\ last => f = c /\ Between(p, c, w)
  /\ ~last => f = c + 1 /\ Between(p, c + 1, w)

Regapped(A, p, q, w, f, last) ==
  /\ Sorted(q)
  /\ \A j \in 1 .. Len(p) + 1 : j # f => Gap(A, p, j) \subseteq Gap(A, q, j)
  /\ {e \in Gap(A, p, f) : Beside(last, e, w)} \subseteq Gap(A, q, f)

\* A key in order takes the place of its neighbour.
LEMMA ReplacedGaps ==
  ASSUME NEW A \in SUBSET Nat, NEW p \in Seq(A), NEW q \in Seq(A), NEW c, NEW w \in A,
         NEW last \in BOOLEAN, Sorted(p), Replaced(q, p, c, w),
         NEW f, Neighbour(p, c, w, f, last)
  PROVE  Regapped(A, p, q, w, f, last)
  <1> /\ (last => f = c) /\ (~last => f = c + 1)
      /\ (last => Between(p, c, w)) /\ (~last => Between(p, c + 1, w))
    BY DEF Neighbour
  <1> /\ Len(q) = Len(p) /\ c \in 1 .. Len(p)
      /\ \A j \in 1 .. Len(p) : q[j] = IF j = c THEN w ELSE p[j]
    BY DEF Replaced
  <1>1. /\ Len(p) \in Nat /\ c \in Nat /\ w \in Nat /\ p[c] \in Nat
        /\ \A j \in 1 .. Len(p) : p[j] \in Nat /\ q[j] \in Nat
    <2>1. \A j \in 1 .. Len(p) : p[j] \in A  OBVIOUS
    <2>2. \A j \in 1 .. Len(p) : q[j] \in A  OBVIOUS
    <2>3. \A d \in A : d \in Nat  OBVIOUS
    <2>4. \A j \in 1 .. Len(p) : p[j] \in Nat /\ q[j] \in Nat  BY <2>1, <2>2, <2>3
    <2>5. Len(p) \in Nat /\ c \in Nat  OBVIOUS
    <2> QED  BY <2>3, <2>4, <2>5
  <1>2. q[c] = w /\ \A j \in 1 .. Len(p) : j # c => q[j] = p[j]  OBVIOUS
  <1>3. \A i, j \in 1 .. Len(p) : i <= j => p[i] <= p[j]  BY DEF Sorted
  <1>4. ASSUME NEW j \in 1 .. Len(p)
        PROVE  (j < c => p[j] <= w) /\ (j > c => w <= p[j])
    <2>1. CASE last
      <3>1. /\ c - 1 \in 1 .. Len(p) => p[c - 1] <= w
            /\ w <= p[c]
        BY <2>1 DEF Between
      <3>2. j < c => c - 1 \in 1 .. Len(p) /\ j <= c - 1 /\ p[j] <= p[c - 1]
        <4>1. PICK l : l = Len(p)  OBVIOUS
        <4>2. j \in 1 .. l /\ c \in 1 .. l /\ l \in Nat  BY <1>1, <4>1
        <4>3. j < c => c - 1 \in 1 .. l /\ j <= c - 1  BY <4>2
        <4> QED  BY <1>3, <4>1, <4>3
      <3>3. j > c => p[c] <= p[j]  BY <1>1, <1>3
      <3> QED  BY SMTT(30), <1>1, <3>1, <3>2, <3>3
    <2>2. CASE ~last
      <3>1. /\ c + 1 \in 1 .. Len(p) => w <= p[c + 1]
            /\ p[c] <= w
        <4>1. (c + 1) - 1 = c  BY <1>1
        <4> QED  BY <2>2, <4>1 DEF Between
      <3>2. j < c => p[j] <= p[c]  BY <1>1, <1>3
      <3>3. j > c => c + 1 \in 1 .. Len(p) /\ c + 1 <= j /\ p[c + 1] <= p[j]  BY <1>1, <1>3
      <3> QED  BY <1>1, <3>1, <3>2, <3>3
    <2> QED  BY <2>1, <2>2
  <1>5. Sorted(q)
    <2>1. ASSUME NEW i \in 1 .. Len(p), NEW j \in 1 .. Len(p), i <= j  PROVE q[i] <= q[j]
      <3>1. CASE i = c /\ j = c  BY <1>1, <1>2, <3>1
      <3>2. CASE i = c /\ j # c  BY <1>1, <1>2, <1>4, <2>1, <3>2
      <3>3. CASE i # c /\ j = c  BY <1>1, <1>2, <1>4, <2>1, <3>3
      <3>4. CASE i # c /\ j # c  BY <1>2, <1>3, <2>1, <3>4
      <3> QED  BY <3>1, <3>2, <3>3, <3>4
    <2> QED  BY <2>1 DEF Sorted
  <1>6. ASSUME NEW j \in 1 .. Len(p) + 1, j # f, NEW e \in Gap(A, p, j)  PROVE e \in Gap(A, q, j)
    <2>1. /\ e \in A /\ e \in Nat
          /\ j - 1 \in 1 .. Len(p) => p[j - 1] <= e
          /\ j \in 1 .. Len(p) => e <= p[j]
      BY DEF Gap, Between
    <2>2. j - 1 \in 1 .. Len(p) => q[j - 1] <= e
      <3>1. CASE j - 1 # c  BY <1>2, <2>1, <3>1
      <3>2. CASE j - 1 = c
        <4>1. last  BY <1>1, <1>6, <3>2
        <4>2. w <= p[c]  BY <4>1 DEF Between
        <4> QED  BY <1>1, <1>2, <2>1, <3>2, <4>2
      <3> QED  BY <3>1, <3>2
    <2>3. j \in 1 .. Len(p) => e <= q[j]
      <3>1. CASE j # c  BY <1>2, <2>1, <3>1
      <3>2. CASE j = c
        <4>1. ~last  BY <1>6, <3>2
        <4>2. p[c] <= w
          <5>1. (c + 1) - 1 = c  BY <1>1
          <5> QED  BY <4>1, <5>1 DEF Between
        <4> QED  BY <1>1, <1>2, <2>1, <3>2, <4>2
      <3> QED  BY <3>1, <3>2
    <2> QED  BY <2>1, <2>2, <2>3 DEF Gap, Between
  <1>7. ASSUME NEW e \in Gap(A, p, f), Beside(last, e, w)  PROVE e \in Gap(A, q, f)
    <2>1. /\ e \in A /\ e \in Nat
          /\ f - 1 \in 1 .. Len(p) => p[f - 1] <= e
          /\ f \in 1 .. Len(p) => e <= p[f]
      BY DEF Gap, Between
    <2>2. CASE last
      <3>1. f = c /\ e <= w  BY <1>7, <2>2 DEF Beside
      <3>2. c - 1 # c  BY <1>1
      <3> QED  BY <1>2, <2>1, <3>1, <3>2 DEF Gap, Between
    <2>3. CASE ~last
      <3>1. f = c + 1 /\ w <= e  BY <1>7, <2>3 DEF Beside
      <3>2. c + 1 # c /\ (c + 1) - 1 = c  BY <1>1
      <3> QED  BY <1>2, <2>1, <3>1, <3>2 DEF Gap, Between
    <2> QED  BY <2>2, <2>3
  <1> QED  BY <1>5, <1>6, <1>7 DEF Regapped

\* What is below the key i of p on one side of it, as far as its end is l: the node
\* that has the neighbour of this key.
Spine(h, V, L, R, p, i, l, S, last) ==
  /\ p \in V /\ i \in 0 .. Len(h[p].key) - 1 /\ ~h[p].leaf
  /\ l \in S /\ S \subseteq V
  /\ h[p].kid[IF last THEN i + 1 ELSE i + 2] \in S
  /\ \A n \in S : L[n] < L[p] /\ R[l] \subseteq R[n]
  /\ \A n \in S \ {l} :
       /\ L[n] > L[l] /\ End(h[n], last) \in S
       /\ \A j \in 1 .. Len(h[n].key), e \in R[l] : Beside(last, h[n].key[j], e)

KeysBeside(h, l, w, last) == \A j \in 1 .. Len(h[l].key) : Beside(last, h[l].key[j], w)

ReplaceKeyAt(h, g, p, i, w) == g = [h EXCEPT ![p] = SetKey(@, i, w)]

KeyReplaced(h, g, r, V, L, Q, p, i, w) ==
  /\ Held(g, r, V, L, Q) /\ Len(g) = Len(h) /\ p \in V
  /\ \A n \in V \ {p} : g[n] = h[n]
  /\ Len(g[p].key) = Len(h[p].key)
  /\ \A j \in 1 .. Len(h[p].key) : g[p].key[j] = IF j = i + 1 THEN w ELSE h[p].key[j]

\* The tree after a key was replaced by its neighbour in order.
LEMMA ReplaceStep ==
  ASSUME NEW h, NEW r, NEW V, NEW L, NEW R, Held(h, r, V, L, R),
         NEW p, NEW i, NEW l, NEW S, NEW last \in BOOLEAN, Spine(h, V, L, R, p, i, l, S, last),
         h[l].leaf, NEW w \in R[l], KeysBeside(h, l, w, last), NEW g, ReplaceKeyAt(h, g, p, i, w)
  PROVE  \E Q : KeyReplaced(h, g, r, V, L, Q, p, i, w)
  <1> SUFFICES ASSUME \A j \in 1 .. Len(h[l].key) : Beside(last, h[l].key[j], w),
                      g = [h EXCEPT ![p] = SetKey(@, i, w)]
      PROVE
         \E Q : /\ Held(g, r, V, L, Q) /\ Len(g) = Len(h) /\ p \in V
                /\ \A n \in V \ {p} : g[n] = h[n]
                /\ Len(g[p].key) = Len(h[p].key)
                /\ \A j \in 1 .. Len(h[p].key) : g[p].key[j] = IF j = i + 1 THEN w ELSE h[p].key[j]
    BY DEF KeysBeside, ReplaceKeyAt, KeyReplaced
  <1>1. Good(h, r, V, L, R) /\ Heap(h, V) /\ Sized(h, r, V) /\ L[r] <= Len(h)  BY DEF Held
  <1>2. h \in Seq(Node) /\ V \subseteq 1 .. Len(h) /\ Len(h) \in Nat  BY <1>1 DEF Heap
  <1>3. /\ Tree(h, r, V, L) /\ R \in [V -> SUBSET Keys] /\ R[r] = Keys
        /\ \A n \in V : Ranged(h, n, R)
    BY <1>1 DEF Good
  <1>4. /\ r \in V /\ L \in [V -> Nat] /\ \A n \in V : Noded(h, n, V, L) /\ L[n] <= L[r]
        /\ \A n \in V : n # r => \E m \in V : \E j \in 1 .. Len(h[m].kid) : h[m].kid[j] = n
        /\ Single(h, V)
    BY <1>3 DEF Tree
  <1>5. PICK c : c = i + 1  OBVIOUS
  <1>6. PICK f : f = IF last THEN c ELSE c + 1  OBVIOUS
  <1>7. PICK t : t = h[p].kid[f]  OBVIOUS
  <1>8. /\ p \in V /\ i \in 0 .. Len(h[p].key) - 1 /\ ~h[p].leaf
        /\ l \in S /\ S \subseteq V /\ t \in S
        /\ \A n \in S : L[n] < L[p] /\ R[l] \subseteq R[n]
        /\ \A n \in S \ {l} :
             /\ L[n] > L[l] /\ End(h[n], last) \in S
             /\ \A j \in 1 .. Len(h[n].key), e \in R[l] : Beside(last, h[n].key[j], e)
    <2>1. i \in 0 .. Len(h[p].key) - 1  BY DEF Spine
    <2>2. f = IF last THEN i + 1 ELSE i + 2
      <3>1. i \in Int  BY <2>1
      <3>2. (i + 1) + 1 = i + 2  BY <3>1
      <3> QED  BY <1>5, <1>6, <3>2
    <2> QED  BY <1>7, <2>2 DEF Spine
  <1>9. PICK A, q, z : A = R[p] /\ q = h[p].key /\ z = h[p]  OBVIOUS
  <1>10. /\ q \in Seq(A) /\ A \in SUBSET Nat /\ A \subseteq Keys /\ Sorted(q) /\ z \in Node
    BY <1>1, <1>8, <1>9, NodeFacts, AllNoded
  <1>11. /\ Len(q) \in Nat /\ c \in 1 .. Len(q) /\ i \in Nat /\ i \in 0 .. Len(q) - 1
         /\ f \in 1 .. Len(q) + 1 /\ f \in 1 .. Len(h[p].kid) /\ Len(h[p].kid) = Len(q) + 1
    <2>1. Len(q) \in Nat /\ i \in 0 .. Len(q) - 1  BY <1>8, <1>9, <1>10
    <2>2. Len(h[p].kid) = Len(q) + 1  BY <1>1, <1>8, <1>9, NodeShape
    <2>3. c \in 1 .. Len(q) /\ i \in Nat /\ c + 1 \in 1 .. Len(q) + 1 /\ c \in 1 .. Len(q) + 1
      BY <1>5, <2>1
    <2>4. f \in 1 .. Len(q) + 1  BY <1>6, <2>3
    <2> QED  BY <2>1, <2>2, <2>3, <2>4
  <1>12. w \in Gap(A, q, f) /\ w \in A /\ w \in Nat
    <2>1. w \in R[t] /\ R[t] \subseteq Gap(R[p], h[p].key, f)
      <3>1. Fact(h, V, L, R, p)  BY Zenon, <1>1, <1>8, FactOf
      <3>2. R[t] \subseteq Gap(R[p], h[p].key, f)  BY <1>7, <1>11, <3>1 DEF Fact
      <3> QED  BY <1>8, <3>2
    <2> QED  BY <1>9, <1>10, <2>1 DEF Gap
  <1>13. PICK u : u = SetKey(z, i, w)  OBVIOUS
  <1>14. /\ u \in Node /\ u.leaf = z.leaf /\ u.kid = z.kid /\ Len(u.key) = Len(q)
         /\ \A j \in 1 .. Len(q) : u.key[j] = IF j = c THEN w ELSE q[j]
    <2>1. w \in Keys /\ i \in 0 .. N(z) - 1  BY <1>9, <1>10, <1>11, <1>12 DEF N
    <2> QED  BY <1>5, <1>9, <1>10, <1>13, <2>1, SetKeyNode
  <1>15. g = [h EXCEPT ![p] = u]  BY <1>9, <1>13
  <1>16. /\ g \in Seq(Node) /\ Len(g) = Len(h) /\ g[p] = u /\ \A n \in V \ {p} : g[n] = h[n]
    BY <1>2, <1>8, <1>14, <1>15
  <1>17. PICK d : d = u.key  OBVIOUS
  <1>18. d \in Seq(A)
    <2>1. d \in Seq(Keys)  BY <1>14, <1>17 DEF Node
    <2>2. \A j \in 1 .. Len(q) : q[j] \in A  BY <1>10
    <2>3. \A j \in 1 .. Len(d) : d[j] \in A  BY <1>12, <1>14, <1>17, <2>2
    <2>4. d \in [1 .. Len(d) -> A] /\ Len(d) \in Nat  BY <2>1, <2>3
    <2> QED  BY <2>4
  <1>19. /\ Sorted(d)
         /\ \A j \in 1 .. Len(q) + 1 : j # f => Gap(A, q, j) \subseteq Gap(A, d, j)
         /\ {e \in Gap(A, q, f) : Beside(last, e, w)} \subseteq Gap(A, d, f)
    <2>1. (last => f = c) /\ (~last => f = c + 1)  BY <1>6
    <2>2. Between(q, f, w)  BY <1>12 DEF Gap
    <2>3. Neighbour(q, c, w, f, last)  BY <2>1, <2>2 DEF Neighbour
    <2>4. Len(d) = Len(q) /\ \A j \in 1 .. Len(q) : d[j] = IF j = c THEN w ELSE q[j]
      BY <1>14, <1>17
    <2>5. Replaced(d, q, c, w)  BY <1>11, <2>4 DEF Replaced
    <2>6. Regapped(A, q, d, w, f, last)
      BY Zenon, <1>10, <1>12, <1>18, <2>3, <2>5, ReplacedGaps
    <2> QED  BY <2>6 DEF Regapped
  <1> DEFINE Q == [n \in V |-> IF n \in S THEN {e \in R[n] : Beside(last, e, w)} ELSE R[n]]
  <1>20. /\ Q \in [V -> SUBSET Keys]
         /\ \A n \in S : Q[n] = {e \in R[n] : Beside(last, e, w)}
         /\ \A n \in V \ S : Q[n] = R[n]
         /\ \A n \in V : Q[n] \subseteq R[n]
    BY <1>3, <1>8
  <1> HIDE DEF Q
  <1>21. r \notin S /\ p \notin S
    <2>1. p \notin S
      <3>1. L[p] \in Nat  BY <1>4, <1>8
      <3> QED  BY <1>8, <3>1
    <2>2. r \notin S
      <3>1. L[p] \in Nat /\ L[r] \in Nat /\ L[p] <= L[r]  BY <1>4, <1>8
      <3>2. SUFFICES ASSUME r \in S  PROVE FALSE  OBVIOUS
      <3>3. L[r] < L[p]  BY <1>8, <3>2
      <3> QED  BY <3>1, <3>3
    <2> QED  BY <2>1, <2>2
  <1>22. Q[r] = Keys /\ Q[p] = A  BY <1>3, <1>4, <1>8, <1>9, <1>20, <1>21
  <1>23. \A n \in V : g[n].kid = h[n].kid /\ g[n].leaf = h[n].leaf /\ Len(g[n].key) = Len(h[n].key)
    BY <1>9, <1>14, <1>16
  <1>24. Tree(g, r, V, L)
    <2>1. ASSUME NEW n \in V  PROVE Noded(g, n, V, L)
      <3>1. Noded(h, n, V, L) /\ g[n] \in Node
        BY <1>2, <1>4, <1>16
      <3>2. PICK a, b : a = g[n] /\ b = h[n]  OBVIOUS
      <3>3. a.kid = b.kid /\ a.leaf = b.leaf /\ Len(a.key) = Len(b.key)  BY <1>23, <3>2
      <3> QED  BY <3>1, <3>2, <3>3 DEF Noded
    <2>2. Single(g, V)
      <3>1. ASSUME NEW m \in V, NEW n \in V, NEW b \in 1 .. Len(g[m].kid),
                   NEW j \in 1 .. Len(g[n].kid), g[m].kid[b] = g[n].kid[j]
            PROVE  m = n /\ b = j
        <4>1. g[m].kid = h[m].kid /\ g[n].kid = h[n].kid  BY <1>23
        <4>2. /\ b \in 1 .. Len(h[m].kid) /\ j \in 1 .. Len(h[n].kid)
              /\ h[m].kid[b] = h[n].kid[j]
          BY <3>1, <4>1
        <4> QED  BY SMTT(30), <1>4, <4>2 DEF Single
      <3> QED  BY <3>1 DEF Single
    <2>3. ASSUME NEW n \in V, n # r  PROVE \E m \in V : \E j \in 1 .. Len(g[m].kid) : g[m].kid[j] = n
      BY <1>4, <1>23, <2>3
    <2> QED  BY <1>4, <2>1, <2>2, <2>3 DEF Tree
  <1>25. ASSUME NEW n \in V  PROVE Ranged(g, n, Q)
    <2>1. Ranged(h, n, R)  BY <1>3
    <2>2. CASE n = p
      <3>1. \A j \in 1 .. Len(d) : d[j] \in A  BY <1>18
      <3>2. ASSUME NEW j \in 1 .. Len(u.kid)  PROVE Q[u.kid[j]] \subseteq Gap(A, d, j)
        <4>1. u.kid[j] = h[p].kid[j] /\ j \in 1 .. Len(h[p].kid) /\ j \in 1 .. Len(q) + 1
          BY <1>9, <1>11, <1>14
        <4>2. h[p].kid[j] \in V /\ R[h[p].kid[j]] \subseteq Gap(A, q, j)
          <5>1. Fact(h, V, L, R, p)  BY Zenon, <1>1, <1>8, FactOf
          <5> QED  BY <1>9, <4>1, <5>1 DEF Fact
        <4>3. CASE j # f  BY <1>19, <1>20, <4>1, <4>2, <4>3
        <4>4. CASE j = f
          <5>1. Q[t] \subseteq {e \in Gap(A, q, f) : Beside(last, e, w)}
            BY <1>7, <1>8, <1>20, <4>2, <4>4
          <5> QED  BY <1>7, <1>19, <4>1, <4>4, <5>1
        <4> QED  BY <4>3, <4>4
      <3> QED  BY <1>16, <1>17, <1>19, <1>22, <2>2, <3>1, <3>2 DEF Ranged
    <2>3. CASE n # p /\ n \notin S
      <3>1. g[n] = h[n] /\ Q[n] = R[n]  BY <1>16, <1>20, <2>3
      <3>2. \A j \in 1 .. Len(h[n].kid) : Q[h[n].kid[j]] \subseteq R[h[n].kid[j]]
        <4>1. \A j \in 1 .. Len(h[n].kid) : h[n].kid[j] \in V  BY <1>1, NodeShape
        <4> QED  BY <1>20, <4>1
      <3> QED  BY <2>1, <3>1, <3>2 DEF Ranged
    <2>4. CASE n \in S
      <3>1. n # p /\ g[n] = h[n] /\ Q[n] = {e \in R[n] : Beside(last, e, w)}
        BY <1>16, <1>20, <1>21, <2>4
      <3>2. PICK v, B : v = h[n] /\ B = R[n]  OBVIOUS
      <3>3. /\ v.key \in Seq(B) /\ v.key \in Seq(Nat) /\ B \in SUBSET Nat /\ Sorted(v.key)
            /\ v.leaf => Len(v.kid) = 0
            /\ ~v.leaf => Len(v.kid) = Len(v.key) + 1
            /\ \A j \in 1 .. Len(v.kid) : v.kid[j] \in V /\ R[v.kid[j]] \subseteq Gap(B, v.key, j)
        <4>1. Fact(h, V, L, R, n)  BY Zenon, <1>1, FactOf
        <4> QED  BY <3>2, <4>1 DEF Fact
      <3>4. \A j \in 1 .. Len(v.key) : Beside(last, v.key[j], w)
        <4>1. CASE n = l  BY <3>2, <4>1
        <4>2. CASE n # l  BY <1>8, <2>4, <3>2, <4>2
        <4> QED  BY <4>1, <4>2
      <3>5. \A j \in 1 .. Len(v.key) : v.key[j] \in Q[n]
        <4>1. \A j \in 1 .. Len(v.key) : v.key[j] \in B  BY <3>3
        <4> QED  BY <3>1, <3>2, <3>4, <4>1
      <3>6. ASSUME NEW j \in 1 .. Len(v.kid)  PROVE Q[v.kid[j]] \subseteq Gap(Q[n], v.key, j)
        <4>1. v.kid[j] \in V /\ R[v.kid[j]] \subseteq Gap(B, v.key, j)  BY <3>3
        <4>2. ASSUME NEW e \in Q[v.kid[j]]  PROVE Beside(last, e, w)
          <5>3. CASE v.kid[j] \in S  BY <1>20, <4>2, <5>3
          <5>4. CASE v.kid[j] \notin S
            <6>1. n # l
              <7>1. v.leaf => \A b : b \notin 1 .. Len(v.kid)  BY <3>3
              <7> QED  BY <3>2, <7>1
            <6>2. End(v, last) \in S  BY <1>8, <2>4, <3>2, <6>1
            <6>3. ~v.leaf
              <7>1. v.leaf => \A b : b \notin 1 .. Len(v.kid)  BY <3>3
              <7> QED  BY <7>1
            <6>4. Len(v.kid) = Len(v.key) + 1 /\ Len(v.key) \in Nat  BY <3>3, <6>3
            <6>5. e \in Nat /\ Between(v.key, j, e)
              <7>1. e \in Gap(B, v.key, j)  BY <1>20, <4>1, <4>2
              <7> QED  BY <3>3, <7>1 DEF Gap
            <6>6. CASE last
              <7>1. j # Len(v.kid)  BY <5>4, <6>2, <6>6 DEF End
              <7>2. j \in 1 .. Len(v.key)  BY <6>4, <7>1
              <7>3. e <= v.key[j] /\ v.key[j] <= w /\ v.key[j] \in Nat
                BY <3>3, <3>4, <6>5, <6>6, <7>2 DEF Between, Beside
              <7>4. e <= w  BY <1>12, <6>5, <7>3
              <7> QED  BY <6>6, <7>4 DEF Beside
            <6>7. CASE ~last
              <7>1. j # 1  BY <5>4, <6>2, <6>7 DEF End
              <7>2. PICK b : b = j - 1  OBVIOUS
              <7>3. b \in 1 .. Len(v.key) /\ j - 1 \in 1 .. Len(v.key)  BY <6>4, <7>1, <7>2
              <7>4. v.key[b] <= e /\ w <= v.key[b] /\ v.key[b] \in Nat
                BY SMTT(30), <3>3, <3>4, <6>5, <6>7, <7>2, <7>3 DEF Between, Beside
              <7>5. w <= e  BY <1>12, <6>5, <7>4
              <7> QED  BY <6>7, <7>5 DEF Beside
            <6> QED  BY <6>6, <6>7
          <5> QED  BY <5>3, <5>4
        <4>3. ASSUME NEW e \in Q[v.kid[j]]  PROVE e \in Gap(Q[n], v.key, j)
          <5>1. e \in Gap(B, v.key, j)  BY <1>20, <4>1, <4>3
          <5>2. e \in B /\ Between(v.key, j, e)  BY <5>1 DEF Gap
          <5> QED  BY <3>1, <3>2, <4>2, <4>3, <5>2 DEF Gap
        <4> QED  BY <4>3
      <3> QED  BY <3>1, <3>2, <3>3, <3>5, <3>6 DEF Ranged
    <2> QED  BY <2>2, <2>3, <2>4
  <1>26. Good(g, r, V, L, Q)  BY <1>20, <1>22, <1>24, <1>25 DEF Good
  <1>27. Sized(g, r, V)  BY <1>1, <1>23 DEF Sized, N
  <1>28. Held(g, r, V, L, Q)  BY <1>1, <1>2, <1>16, <1>26, <1>27 DEF Held, Heap
  <1>29. \A j \in 1 .. Len(h[p].key) : g[p].key[j] = IF j = i + 1 THEN w ELSE h[p].key[j]
    BY <1>5, <1>9, <1>14, <1>16
  <1> QED  BY <1>8, <1>16, <1>23, <1>28, <1>29

\* The only child of an empty root becomes the root.
ShrinkAt(h, g, r, c) ==
  h[r].key = <<>> /\ ~h[r].leaf /\ c = h[r].kid[1] /\ g = [h EXCEPT ![r] = Freed]

Shrunk(h, g, r, c, V, W, M, Q) ==
  Held(g, c, W, M, Q) /\ W = V \ {r} /\ Len(g) = Len(h) /\ \A n \in W : g[n] = h[n]

\* The tree after bt_delete has taken an empty root off.
LEMMA ShrinkStep ==
  ASSUME NEW h, NEW r, NEW V, NEW L, NEW R, Held(h, r, V, L, R), NEW c, NEW g, ShrinkAt(h, g, r, c)
  PROVE  \E W, M, Q : Shrunk(h, g, r, c, V, W, M, Q)
  <1> SUFFICES ASSUME h[r].key = <<>>, ~h[r].leaf, c = h[r].kid[1], g = [h EXCEPT ![r] = Freed]
      PROVE  \E W, M, Q :
           /\ Held(g, c, W, M, Q) /\ W = V \ {r} /\ Len(g) = Len(h)
           /\ \A n \in W : g[n] = h[n]
    BY DEF ShrinkAt, Shrunk
  <1>1. Good(h, r, V, L, R) /\ Heap(h, V) /\ Sized(h, r, V) /\ L[r] <= Len(h)  BY DEF Held
  <1>2. h \in Seq(Node) /\ V \subseteq 1 .. Len(h) /\ Len(h) \in Nat  BY <1>1 DEF Heap
  <1>3. /\ Tree(h, r, V, L) /\ R \in [V -> SUBSET Keys] /\ R[r] = Keys
        /\ \A n \in V : Ranged(h, n, R)
    BY <1>1 DEF Good
  <1>4. /\ r \in V /\ L \in [V -> Nat] /\ \A n \in V : Noded(h, n, V, L) /\ L[n] <= L[r]
        /\ \A n \in V : n # r => \E m \in V : \E j \in 1 .. Len(h[m].kid) : h[m].kid[j] = n
        /\ Single(h, V)
    BY <1>3 DEF Tree
  <1>5. Len(h[r].kid) = 1
    <2>1. PICK p : p = h[r].key  OBVIOUS
    <2>2. Len(p) = 0  BY <2>1
    <2>3. Len(h[r].kid) = Len(h[r].key) + 1  BY <1>4 DEF Noded
    <2> QED  BY <2>1, <2>2, <2>3
  <1>6. \A j \in 1 .. Len(h[r].kid) : j = 1  BY <1>5
  <1>7. c \in V /\ L[r] = L[c] + 1 /\ L[c] \in Nat /\ 1 \in 1 .. Len(h[r].kid)
    <2>1. 1 \in 1 .. Len(h[r].kid)  BY <1>5
    <2>2. c \in V /\ L[r] = L[c] + 1  BY <1>4, <2>1 DEF Noded
    <2> QED  BY <1>4, <2>1, <2>2
  <1>8. c # r  BY <1>7
  <1>9. Freed \in Node
    <2>1. PICK p : p = <<>>  OBVIOUS
    <2>2. p \in Seq(Keys) /\ p \in Seq(Nat)  BY <2>1
    <2> QED  BY <2>1, <2>2 DEF Freed, Empty, Node
  <1>10. g \in Seq(Node) /\ Len(g) = Len(h) /\ \A n \in V \ {r} : g[n] = h[n]
    BY <1>2, <1>4, <1>9
  <1> DEFINE W == V \ {r}
             M == [n \in W |-> L[n]]
             Q == [n \in W |-> IF n = c THEN Keys ELSE R[n]]
  <1>11. c \in W /\ W \subseteq V /\ r \notin W  BY <1>7, <1>8
  <1>12. M \in [W -> Nat] /\ \A n \in W : M[n] = L[n]  BY <1>4
  <1>13. /\ Q \in [W -> SUBSET Keys] /\ Q[c] = Keys /\ \A n \in W : n # c => Q[n] = R[n]
         /\ \A n \in W : R[n] \subseteq Q[n]
    BY <1>3, <1>11
  <1> HIDE DEF M, Q
  <1>14. \A n \in W : g[n] = h[n]  BY <1>10
  <1>15. \A n \in W : \A j \in 1 .. Len(h[n].kid) :
           h[n].kid[j] \in W /\ h[n].kid[j] # c /\ L[n] = L[h[n].kid[j]] + 1
    <2>1. ASSUME NEW n \in W, NEW j \in 1 .. Len(h[n].kid)
          PROVE  h[n].kid[j] \in W /\ h[n].kid[j] # c /\ L[n] = L[h[n].kid[j]] + 1
      <3>1. /\ h[n].kid[j] \in V /\ L[n] = L[h[n].kid[j]] + 1 /\ L[h[n].kid[j]] \in Nat
        BY <1>1, <1>11, NodeShape
      <3>2. L[n] <= L[r]  BY <1>4, <1>11
      <3>3. h[n].kid[j] # r
        <4>1. SUFFICES ASSUME h[n].kid[j] = r  PROVE FALSE  OBVIOUS
        <4> QED  BY <3>1, <3>2, <4>1
      <3>4. h[n].kid[j] # c
        <4>1. SUFFICES ASSUME h[n].kid[j] = c  PROVE FALSE  OBVIOUS
        <4>2. h[n].kid[j] = h[r].kid[1]  BY <4>1
        <4>3. n \in V /\ n # r /\ r \in V  BY <1>4, <1>11
        <4>4. Single(h, V)  BY <1>4
        <4>5. \A b \in 1 .. Len(h[n].kid), e \in 1 .. Len(h[r].kid) : h[n].kid[b] = h[r].kid[e] => n = r
          BY <4>3, <4>4 DEF Single
        <4> QED  BY <1>7, <4>2, <4>3, <4>5
      <3> QED  BY <3>1, <3>3, <3>4
    <2> QED  BY <2>1
  <1>16. \A n \in W : n # c => \E m \in W : \E j \in 1 .. Len(h[m].kid) : h[m].kid[j] = n
    <2>1. ASSUME NEW n \in W, n # c  PROVE \E m \in W : \E j \in 1 .. Len(h[m].kid) : h[m].kid[j] = n
      <3>1. PICK m \in V : \E j \in 1 .. Len(h[m].kid) : h[m].kid[j] = n  BY <1>4, <1>11
      <3>2. PICK j \in 1 .. Len(h[m].kid) : h[m].kid[j] = n  BY <3>1
      <3>3. m # r
        <4>1. m = r => h[m].kid[j] = c  BY <1>6
        <4> QED  BY <2>1, <3>2, <4>1
      <3> QED  BY <3>2, <3>3
    <2> QED  BY <2>1
  <1>17. \A n \in W : L[n] <= L[c]
    <2>1. ASSUME NEW n \in W, n # c  PROVE L[n] <= L[c]
      <3>1. PICK m \in W : \E j \in 1 .. Len(h[m].kid) : h[m].kid[j] = n  BY <1>16, <2>1
      <3>2. L[m] = L[n] + 1 /\ L[m] <= L[r] /\ L[n] \in Nat /\ L[m] \in Nat /\ L[r] \in Nat
        BY <1>4, <1>11, <1>15, <3>1
      <3> QED  BY <1>7, <3>2
    <2> QED  BY <1>7, <2>1
  <1> HIDE DEF W
  <1>18. Tree(g, c, W, M)
    <2>1. ASSUME NEW n \in W  PROVE Noded(g, n, W, M)
      <3>1. Noded(h, n, V, L) /\ g[n] = h[n] /\ M[n] = L[n]  BY <1>4, <1>11, <1>12, <1>14
      <3>2. \A j \in 1 .. Len(h[n].kid) : h[n].kid[j] \in W /\ M[n] = M[h[n].kid[j]] + 1
        BY <1>12, <1>15, <3>1
      <3>3. /\ h[n] \in Node /\ (h[n].leaf => Len(h[n].kid) = 0 /\ L[n] = 0)
            /\ (~h[n].leaf => Len(h[n].kid) = Len(h[n].key) + 1)
        BY <3>1 DEF Noded
      <3> QED  BY <3>1, <3>2, <3>3 DEF Noded
    <2>2. Single(g, W)
      <3>1. ASSUME NEW m \in W, NEW n \in W, NEW b \in 1 .. Len(g[m].kid),
                   NEW j \in 1 .. Len(g[n].kid), g[m].kid[b] = g[n].kid[j]
            PROVE  m = n /\ b = j
        <4>1. g[m].kid = h[m].kid /\ g[n].kid = h[n].kid /\ m \in V /\ n \in V  BY <1>11, <1>14
        <4>2. /\ b \in 1 .. Len(h[m].kid) /\ j \in 1 .. Len(h[n].kid)
              /\ h[m].kid[b] = h[n].kid[j]
          BY <3>1, <4>1
        <4>3. \A d \in 1 .. Len(h[m].kid), e \in 1 .. Len(h[n].kid) :
                h[m].kid[d] = h[n].kid[e] => m = n /\ d = e
          BY <1>4, <4>1 DEF Single
        <4> QED  BY <4>2, <4>3
      <3> QED  BY <3>1 DEF Single
    <2>3. ASSUME NEW n \in W, n # c  PROVE \E m \in W : \E j \in 1 .. Len(g[m].kid) : g[m].kid[j] = n
      BY <1>14, <1>16, <2>3
    <2>4. \A n \in W : M[n] <= M[c]  BY <1>11, <1>12, <1>17
    <2> QED  BY <1>11, <1>12, <2>1, <2>2, <2>3, <2>4 DEF Tree
  <1>19. ASSUME NEW n \in W  PROVE Ranged(g, n, Q)
    <2>1. Ranged(h, n, R) /\ g[n] = h[n] /\ R[n] \subseteq Q[n]  BY <1>3, <1>11, <1>13, <1>14
    <2>2. \A j \in 1 .. Len(h[n].key) : h[n].key[j] \in Q[n]  BY <2>1 DEF Ranged
    <2>3. ASSUME NEW j \in 1 .. Len(h[n].kid)  PROVE Q[h[n].kid[j]] \subseteq Gap(Q[n], h[n].key, j)
      <3>1. Q[h[n].kid[j]] = R[h[n].kid[j]]  BY <1>13, <1>15
      <3>2. R[h[n].kid[j]] \subseteq Gap(R[n], h[n].key, j)  BY <2>1 DEF Ranged
      <3>3. Gap(R[n], h[n].key, j) \subseteq Gap(Q[n], h[n].key, j)  BY <2>1, WidenedGap
      <3> QED  BY <3>1, <3>2, <3>3
    <2> QED  BY <2>1, <2>2, <2>3 DEF Ranged
  <1>20. Good(g, c, W, M, Q)  BY <1>13, <1>18, <1>19 DEF Good
  <1>21. Sized(g, c, W)
    <2>1. \A n \in W : n # r /\ n \in V  BY <1>11
    <2> QED  BY <1>1, <1>14, <2>1 DEF Sized
  <1>22. M[c] <= Len(g)
    <2>1. L[r] \in Nat  BY <1>4
    <2> QED  BY <1>1, <1>2, <1>7, <1>10, <1>11, <1>12, <2>1
  <1>23. Heap(g, W)  BY <1>2, <1>10, <1>11 DEF Heap
  <1>24. Held(g, c, W, M, Q)  BY <1>20, <1>21, <1>22, <1>23 DEF Held
  <1> QED  BY <1>10, <1>14, <1>24 DEF W

================================================================================
