------------------------------ MODULE BTreeProofs ------------------------------
(***************************************************************************)
(* The B-tree, for every t, every set of keys and every size of the pool: its *)
(* shape, what it holds and what a search finds.                             *)
(*                                                                         *)
(* TreeInv, the inductive invariant, says that the nodes in use are a held    *)
(* tree and how far the running call is: what an insertion brings has its     *)
(* place in the range of x, what a deletion looks for is on a way down from x *)
(* (Leads), and while it fetches the neighbour of the deleted key nothing     *)
(* lies between that neighbour and the key (Spine).                          *)
(***************************************************************************)
EXTENDS BTreeShapes

-----------------------------------------------------------------------------
(* Where the key of a deletion is.                                           *)

Has(n, e) == \E j \in 1 .. Len(n.key) : n.key[j] = e

\* From each node of S, l among them, the way down in S ends in a node with e.
Leads(h, V, R, l, e, S) ==
  /\ l \in S /\ S \subseteq V
  /\ \A n \in S : /\ e \in R[n]
                  /\ Has(h[n], e) \/ \E j \in 1 .. Len(h[n].kid) : h[n].kid[j] \in S

\* There is a way from the root to every key of the tree.
LEMMA LeadsFrom ==
  ASSUME NEW h, NEW r, NEW V, NEW L, NEW R, Good(h, r, V, L, R),
         NEW w \in V, NEW e, Has(h[w], e)
  PROVE  \E S : Leads(h, V, R, r, e, S)
  <1>1. /\ Tree(h, r, V, L) /\ \A n \in V : Ranged(h, n, R)  BY DEF Good
  <1>2. /\ r \in V /\ L \in [V -> Nat] /\ \A n \in V : Noded(h, n, V, L) /\ L[n] <= L[r]
        /\ \A n \in V : n # r => \E m \in V : \E j \in 1 .. Len(h[m].kid) : h[m].kid[j] = n
    BY <1>1 DEF Tree
  <1> DEFINE Up(P) == /\ P \subseteq V /\ w \in P
                      /\ \A m \in V : \A j \in 1 .. Len(h[m].kid) : h[m].kid[j] \in P => m \in P
             S == {n \in V : \A P \in SUBSET V : Up(P) => n \in P}
  <1>3. Up(S)
    <2>1. S \subseteq V /\ w \in S  OBVIOUS
    <2>2. ASSUME NEW m \in V, NEW j \in 1 .. Len(h[m].kid), h[m].kid[j] \in S  PROVE m \in S
      <3>1. ASSUME NEW P \in SUBSET V, Up(P)  PROVE m \in P
        <4>1. h[m].kid[j] \in P  BY <2>2, <3>1
        <4> QED  BY <3>1, <4>1
      <3> QED  BY <3>1
    <2> QED  BY <2>1, <2>2
  <1>4. \A P \in SUBSET V : Up(P) => S \subseteq P  OBVIOUS
  <1> HIDE DEF S
  <1>5. \A n \in S : e \in R[n]
    <2> DEFINE P == {n \in S : e \in R[n]}
    <2>1. e \in R[w]
      <3>1. Fact(h, V, L, R, w)  BY FactOf
      <3>2. PICK j \in 1 .. Len(h[w].key) : h[w].key[j] = e  BY DEF Has
      <3> QED  BY <3>1, <3>2 DEF Fact
    <2>2. ASSUME NEW m \in V, NEW j \in 1 .. Len(h[m].kid), h[m].kid[j] \in P  PROVE m \in P
      <3>1. m \in S  BY <1>3, <2>2
      <3>2. R[h[m].kid[j]] \subseteq R[m]
        <4>1. R[h[m].kid[j]] \subseteq Gap(R[m], h[m].key, j)  BY <1>1 DEF Ranged
        <4> QED  BY <4>1 DEF Gap
      <3> QED  BY <2>2, <3>1, <3>2
    <2>3. Up(P)  BY <1>3, <2>1, <2>2
    <2>4. P \in SUBSET V  BY <1>3
    <2>5. S \subseteq P
      <3> HIDE DEF P
      <3> QED  BY <1>4, <2>3, <2>4
    <2> QED  BY <2>5
  <1>6. \A n \in S : Has(h[n], e) \/ \E j \in 1 .. Len(h[n].kid) : h[n].kid[j] \in S
    <2> DEFINE P == {n \in S : Has(h[n], e) \/ \E j \in 1 .. Len(h[n].kid) : h[n].kid[j] \in S}
    <2>1. ASSUME NEW m \in V, NEW j \in 1 .. Len(h[m].kid), h[m].kid[j] \in P  PROVE m \in P
      <3>1. h[m].kid[j] \in S  BY <2>1
      <3>2. m \in S  BY <1>3, <3>1
      <3> QED  BY <3>1, <3>2
    <2>2. w \in P  BY <1>3
    <2>3. P \in SUBSET V  BY <1>3
    <2>4. Up(P)  BY <2>1, <2>2, <2>3
    <2>5. S \subseteq P
      <3> HIDE DEF P
      <3> QED  BY <1>4, <2>3, <2>4
    <2> QED  BY <2>5
  <1>7. r \in S
    <2> DEFINE D == {d \in Nat : \E n \in S : d = L[r] - L[n]}
    <2>1. \A n \in S : L[n] \in Nat /\ L[r] \in Nat /\ L[r] - L[n] \in Nat
      <3>1. \A n \in S : n \in V  BY <1>3
      <3>2. \A n \in V : L[n] \in Nat /\ L[r] \in Nat /\ L[n] <= L[r]  BY <1>2
      <3> QED  BY <3>1, <3>2
    <2>2. L[r] - L[w] \in D  BY <1>3, <2>1
    <2>3. PICK d \in D : \A b \in D : ~ (<<b, d>> \in OpToRel(<, Nat))
      <3>1. D \subseteq Nat  OBVIOUS
      <3> HIDE DEF D
      <3> QED  BY <2>2, <3>1, WFMin, NatLessThanWellFounded
    <2>4. PICK n \in S : d = L[r] - L[n]  OBVIOUS
    <2>5. n = r
      <3>1. SUFFICES ASSUME n # r  PROVE FALSE  OBVIOUS
      <3>2. n \in V  BY <1>3
      <3>3. PICK m \in V : \E j \in 1 .. Len(h[m].kid) : h[m].kid[j] = n  BY <1>2, <3>1, <3>2
      <3>4. m \in S  BY <1>3, <3>3
      <3>5. L[m] = L[n] + 1  BY NodeShape, <3>3
      <3>6. L[r] - L[m] \in D /\ L[r] - L[m] < d  BY <2>1, <2>4, <3>4, <3>5
      <3>7. <<L[r] - L[m], d>> \in OpToRel(<, Nat)
        <4>1. L[r] - L[m] \in Nat /\ d \in Nat  BY <2>1, <3>4
        <4> QED  BY <3>6, <4>1 DEF OpToRel
      <3> HIDE DEF D
      <3> QED  BY <2>3, <3>6, <3>7
    <2> QED  BY <2>4, <2>5
  <1> QED  BY <1>3, <1>5, <1>6, <1>7 DEF Leads

\* Either the search finds the key here, or it goes on in a child on the way.
LEMMA LeadsHere ==
  ASSUME NEW h, NEW r, NEW V, NEW L, NEW R, Good(h, r, V, L, R),
         NEW l, NEW e, NEW S, Leads(h, V, R, l, e, S)
  PROVE  \E c \in 0 .. Len(h[l].key) :
           /\ FindKIndex(h[l], e) = c - 1
           /\ Between(h[l].key, c + 1, e)
           /\ \/ c >= 1 /\ h[l].key[c] = e
              \/ /\ c >= 1 => h[l].key[c] # e
                 /\ ~h[l].leaf /\ c + 1 \in 1 .. Len(h[l].kid) /\ h[l].kid[c + 1] \in S
  <1>1. l \in V /\ l \in S /\ S \subseteq V /\ e \in R[l]  BY DEF Leads
  <1>2. Fact(h, V, L, R, l)  BY <1>1, FactOf
  <1>3. PICK n : n = h[l]  OBVIOUS
  <1>4. PICK p, q, A : p = n.key /\ q = n.kid /\ A = R[l]  OBVIOUS
  <1>5. /\ p \in Seq(Nat) /\ Sorted(p) /\ A \in SUBSET Nat /\ Len(p) \in Nat
        /\ n.leaf \in BOOLEAN
        /\ n.leaf => Len(q) = 0
        /\ ~n.leaf => Len(q) = Len(p) + 1
        /\ \A j \in 1 .. Len(q) : R[q[j]] \subseteq Gap(A, p, j)
    BY <1>2, <1>3, <1>4 DEF Fact
  <1>6. e \in Nat  BY <1>1, <1>4, <1>5
  <1>7. PICK c \in 0 .. Len(n.key) :
          /\ FindKIndex(n, e) = c - 1
          /\ \A j \in 1 .. c : n.key[j] <= e
          /\ \A j \in c + 1 .. Len(n.key) : n.key[j] > e
    BY <1>4, <1>5, <1>6, RankOf
  <1>8. /\ c \in 0 .. Len(p) /\ c \in Nat
        /\ \A j \in 1 .. c : p[j] <= e
        /\ \A j \in c + 1 .. Len(p) : p[j] > e
        /\ \A j \in 1 .. Len(p) : p[j] \in Nat
    BY <1>4, <1>5, <1>7
  <1>9. Between(p, c + 1, e)
    <2>1. (c + 1) - 1 = c  BY <1>8
    <2>2. c \in 1 .. Len(p) => p[c] <= e
      <3>1. c \in 1 .. Len(p) => c \in 1 .. c  BY <1>8
      <3> QED  BY <1>8, <3>1
    <2>3. c + 1 \in 1 .. Len(p) => e <= p[c + 1]
      <3>1. c + 1 \in 1 .. Len(p) => c + 1 \in c + 1 .. Len(p)  BY <1>8
      <3> QED  BY <1>6, <1>8, <3>1
    <2> QED  BY <2>1, <2>2, <2>3 DEF Between
  <1>10. ASSUME NEW j \in 1 .. Len(p), p[j] = e  PROVE c >= 1 /\ p[c] = e
    <2>1. j <= c
      <3>1. ~ (j \in c + 1 .. Len(p))  BY <1>8, <1>10, <1>6
      <3> QED  BY <1>8, <3>1
    <2>2. c \in 1 .. Len(p) /\ c \in 1 .. c /\ c >= 1  BY <1>8, <2>1
    <2>3. p[j] <= p[c] /\ p[c] <= e /\ p[c] \in Nat  BY <1>5, <1>8, <2>1, <2>2 DEF Sorted
    <2> QED  BY <1>6, <1>10, <2>2, <2>3
  <1>11. ASSUME ~ (c >= 1 /\ p[c] = e)
         PROVE  ~n.leaf /\ c + 1 \in 1 .. Len(q) /\ q[c + 1] \in S
    <2>1. ~Has(h[l], e)
      <3>1. SUFFICES ASSUME NEW j \in 1 .. Len(p), p[j] = e  PROVE FALSE
        BY <1>3, <1>4 DEF Has
      <3> QED  BY <1>10, <1>11, <3>1
    <2>2. PICK j \in 1 .. Len(q) : q[j] \in S  BY <1>1, <1>3, <1>4, <2>1 DEF Leads
    <2>3. ~n.leaf
      <3>1. n.leaf => \A b : b \notin 1 .. Len(q)  BY <1>5
      <3> QED  BY <3>1
    <2>4. e \in Gap(A, p, j)
      <3>1. e \in R[q[j]]  BY <2>2 DEF Leads
      <3> QED  BY <1>5, <3>1
    <2>5. /\ j - 1 \in 1 .. Len(p) => p[j - 1] <= e
          /\ j \in 1 .. Len(p) => e <= p[j]
      BY <2>4 DEF Gap, Between
    <2>6. j \in Nat /\ Len(q) = Len(p) + 1 /\ j >= 1 /\ j <= Len(p) + 1  BY <1>5, <2>3
    <2>7. ~ (j <= c)
      <3>1. SUFFICES ASSUME j <= c  PROVE FALSE  OBVIOUS
      <3>2. j \in 1 .. c /\ j \in 1 .. Len(p)  BY <1>8, <2>6, <3>1
      <3>3. p[j] = e  BY <1>6, <1>8, <2>5, <3>2
      <3> QED  BY <1>10, <1>11, <3>2, <3>3
    <2>8. ~ (j > c + 1)
      <3>1. SUFFICES ASSUME j > c + 1  PROVE FALSE  OBVIOUS
      <3>2. j - 1 \in c + 1 .. Len(p) /\ j - 1 \in 1 .. Len(p)  BY <1>8, <2>6, <3>1
      <3> QED  BY <1>6, <1>8, <2>5, <3>2
    <2>9. j = c + 1  BY <1>8, <2>6, <2>7, <2>8
    <2> QED  BY <2>2, <2>3, <2>9
  <1>12. c \in 0 .. Len(h[l].key) /\ FindKIndex(h[l], e) = c - 1 /\ Between(h[l].key, c + 1, e)
    BY <1>3, <1>4, <1>7, <1>8, <1>9
  <1>13. \/ c >= 1 /\ h[l].key[c] = e
         \/ /\ c >= 1 => h[l].key[c] # e
            /\ ~h[l].leaf /\ c + 1 \in 1 .. Len(h[l].kid) /\ h[l].kid[c + 1] \in S
    BY <1>3, <1>4, <1>11
  <1> QED  BY <1>12, <1>13

-----------------------------------------------------------------------------
(* The way of a call down the tree.                                          *)

\* In n is e, or a child that is in B.
Toward(n, e, B) == Has(n, e) \/ \E j \in 1 .. Len(n.kid) : n.kid[j] \in B

\* What is in n is also in m.
Absorbs(n, m) ==
  /\ \A j \in 1 .. Len(n.key) : \E i \in 1 .. Len(m.key) : m.key[i] = n.key[j]
  /\ \A j \in 1 .. Len(n.kid) : \E i \in 1 .. Len(m.kid) : m.kid[i] = n.kid[j]

\* A node that absorbs another leads where the other led.
LEMMA TowardToo ==
  ASSUME NEW n, NEW m, NEW e, NEW B, Toward(n, e, B), Absorbs(n, m)
  PROVE  Toward(m, e, B)
  <1>1. CASE Has(n, e)  BY <1>1 DEF Has, Absorbs, Toward
  <1>2. CASE \E j \in 1 .. Len(n.kid) : n.kid[j] \in B
    <2>1. PICK j \in 1 .. Len(n.kid) : n.kid[j] \in B  BY <1>2
    <2>2. PICK i \in 1 .. Len(m.kid) : m.kid[i] = n.kid[j]  BY <2>1 DEF Absorbs
    <2> QED  BY <2>1, <2>2 DEF Toward
  <1> QED  BY <1>1, <1>2 DEF Toward

\* A merged child has what both had.
LEMMA CutAbsorbs ==
  ASSUME NEW h, NEW g, NEW V, NEW a, NEW i, NEW y, NEW z, Cut(h, g, V, a, i, y, z)
  PROVE  Absorbs(g[y], h[y]) /\ Absorbs(g[z], h[y]) /\ Has(h[y], g[a].key[i])
  <1>1. PICK p, p1, p2, e : p = h[y].key /\ p1 = g[y].key /\ p2 = g[z].key /\ e = g[a].key[i]
    OBVIOUS
  <1>2. PICK q, q1, q2 : q = h[y].kid /\ q1 = g[y].kid /\ q2 = g[z].kid  OBVIOUS
  <1>3. /\ p1 \in Seq(Keys) /\ p2 \in Seq(Keys) /\ q1 \in Seq(Nat) /\ q2 \in Seq(Nat)
        /\ Around(p, p1, e, p2)
        /\ Len(q) = Len(q1) + Len(q2)
        /\ \A j \in 1 .. Len(q1) : q1[j] = q[j]
        /\ \A j \in 1 .. Len(q2) : q2[j] = q[Len(q1) + j]
    <2>1. g[y] \in Node /\ g[z] \in Node  BY DEF Cut
    <2>2. /\ Around(p, p1, e, p2) /\ Len(q) = Len(q1) + Len(q2)
          /\ \A j \in 1 .. Len(q1) : q1[j] = q[j]
          /\ \A j \in 1 .. Len(q2) : q2[j] = q[Len(q1) + j]
      BY <1>1, <1>2 DEF Cut
    <2> QED  BY <1>1, <1>2, <2>1, <2>2 DEF Node
  <1>4. PICK b, c, d, f : b = Len(p1) /\ c = Len(p2) /\ d = Len(q1) /\ f = Len(q2)  OBVIOUS
  <1>5. b \in Nat /\ c \in Nat /\ d \in Nat /\ f \in Nat  BY <1>3, <1>4
  <1>6. /\ Len(p) = b + 1 + c
        /\ \A j \in 1 .. b : p[j] = p1[j]
        /\ p[b + 1] = e
        /\ \A j \in 1 .. c : p[b + 1 + j] = p2[j]
    BY <1>3, <1>4 DEF Around
  <1>7. Absorbs(g[y], h[y])
    <2>1. ASSUME NEW j \in 1 .. b  PROVE \E n \in 1 .. Len(p) : p[n] = p1[j]
      <3>1. j \in 1 .. Len(p) /\ p[j] = p1[j]  BY <1>5, <1>6
      <3> QED  BY <3>1
    <2>2. ASSUME NEW j \in 1 .. d  PROVE \E n \in 1 .. Len(q) : q[n] = q1[j]
      <3>1. j \in 1 .. Len(q) /\ q[j] = q1[j]  BY <1>3, <1>4, <1>5
      <3> QED  BY <3>1
    <2> QED  BY <1>1, <1>2, <1>4, <2>1, <2>2 DEF Absorbs
  <1>8. Absorbs(g[z], h[y])
    <2>1. ASSUME NEW j \in 1 .. c  PROVE \E n \in 1 .. Len(p) : p[n] = p2[j]
      <3>1. b + 1 + j \in 1 .. Len(p) /\ p[b + 1 + j] = p2[j]  BY <1>5, <1>6
      <3> QED  BY <3>1
    <2>2. ASSUME NEW j \in 1 .. f  PROVE \E n \in 1 .. Len(q) : q[n] = q2[j]
      <3>1. d + j \in 1 .. Len(q) /\ q[d + j] = q2[j]  BY <1>3, <1>4, <1>5
      <3> QED  BY <3>1
    <2> QED  BY <1>1, <1>2, <1>4, <2>1, <2>2 DEF Absorbs
  <1>9. Has(h[y], e)
    <2>1. b + 1 \in 1 .. Len(p)  BY <1>5, <1>6
    <2> QED  BY <1>1, <1>6, <2>1 DEF Has
  <1> QED  BY <1>1, <1>7, <1>8, <1>9

\* A child that has borrowed has what it had.
LEMMA LendAbsorbs ==
  ASSUME NEW m, NEW h, NEW g, NEW V, NEW a, NEW i, NEW y, NEW z,
         Cut(m, h, V, a, i, y, z), Cut(m, g, V, a, i, y, z)
  PROVE  /\ Len(g[y].key) = Len(h[y].key) + 1 => Absorbs(h[y], g[y])
         /\ Len(g[z].key) = Len(h[z].key) + 1 => Absorbs(h[z], g[z])
  <1>1. /\ g[y] \in Node /\ g[z] \in Node /\ h[y] \in Node /\ h[z] \in Node /\ m[y] \in Node
        /\ Around(m[y].key, h[y].key, h[a].key[i], h[z].key)
        /\ Around(m[y].key, g[y].key, g[a].key[i], g[z].key)
    BY DEF Cut
  <1>1a. Len(h[y].kid) = (IF m[y].leaf THEN 0 ELSE Len(h[y].key) + 1)  BY DEF Cut
  <1>1b. Len(g[y].kid) = (IF m[y].leaf THEN 0 ELSE Len(g[y].key) + 1)  BY DEF Cut
  <1>1c. Len(h[z].kid) = (IF m[y].leaf THEN 0 ELSE Len(h[z].key) + 1)  BY DEF Cut
  <1>1d. Len(g[z].kid) = (IF m[y].leaf THEN 0 ELSE Len(g[z].key) + 1)  BY DEF Cut
  <1>1e. /\ \A j \in 1 .. Len(h[y].kid) : h[y].kid[j] = m[y].kid[j]
         /\ \A j \in 1 .. Len(h[z].kid) : h[z].kid[j] = m[y].kid[Len(h[y].kid) + j]
    BY DEF Cut
  <1>1f. /\ \A j \in 1 .. Len(g[y].kid) : g[y].kid[j] = m[y].kid[j]
         /\ \A j \in 1 .. Len(g[z].kid) : g[z].kid[j] = m[y].kid[Len(g[y].kid) + j]
    BY DEF Cut
  <1>2. PICK p, p1, p2, r1, r2 : /\ p = m[y].key /\ p1 = h[y].key /\ p2 = h[z].key
                                 /\ r1 = g[y].key /\ r2 = g[z].key
    OBVIOUS
  <1>3. PICK q, q1, q2, t1, t2 : /\ q = m[y].kid /\ q1 = h[y].kid /\ q2 = h[z].kid
                                 /\ t1 = g[y].kid /\ t2 = g[z].kid
    OBVIOUS
  <1>4. PICK b, c, d, f : b = Len(p1) /\ c = Len(p2) /\ d = Len(r1) /\ f = Len(r2)  OBVIOUS
  <1>5. /\ b \in Nat /\ c \in Nat /\ d \in Nat /\ f \in Nat
        /\ q1 \in Seq(Nat) /\ q2 \in Seq(Nat) /\ t1 \in Seq(Nat) /\ t2 \in Seq(Nat)
    BY SMTT(30), <1>1, <1>2, <1>3, <1>4 DEF Node
  <1>6. /\ Len(p) = b + 1 + c /\ Len(p) = d + 1 + f
        /\ \A j \in 1 .. b : p[j] = p1[j]
        /\ \A j \in 1 .. d : p[j] = r1[j]
        /\ \A j \in 1 .. c : p[b + 1 + j] = p2[j]
        /\ \A j \in 1 .. f : p[d + 1 + j] = r2[j]
    BY <1>1, <1>2, <1>4 DEF Around
  <1>7. ASSUME d = b + 1  PROVE Absorbs(h[y], g[y])
    <2>1. ASSUME NEW j \in 1 .. b  PROVE \E n \in 1 .. Len(r1) : r1[n] = p1[j]
      <3>1. j \in 1 .. d /\ r1[j] = p1[j]  BY <1>5, <1>6, <1>7
      <3> QED  BY <1>4, <3>1
    <2>2. ASSUME NEW j \in 1 .. Len(q1)  PROVE \E n \in 1 .. Len(t1) : t1[n] = q1[j]
      <3>1. Len(q1) = (IF m[y].leaf THEN 0 ELSE b + 1)  BY <1>1a, <1>2, <1>3, <1>4
      <3>2. Len(t1) = (IF m[y].leaf THEN 0 ELSE d + 1)  BY <1>1b, <1>2, <1>3, <1>4
      <3>3. j \in 1 .. Len(t1)  BY <1>5, <1>7, <3>1, <3>2
      <3>4. t1[j] = q[j] /\ q1[j] = q[j]  BY <1>1e, <1>1f, <1>3, <3>3
      <3> QED  BY <3>3, <3>4
    <2> QED  BY <1>2, <1>3, <1>4, <2>1, <2>2 DEF Absorbs
  <1>8. ASSUME f = c + 1  PROVE Absorbs(h[z], g[z])
    <2>0. d + 1 = b  BY <1>5, <1>6, <1>8
    <2>1. ASSUME NEW j \in 1 .. c  PROVE \E n \in 1 .. Len(r2) : r2[n] = p2[j]
      <3>1. j + 1 \in 1 .. f /\ d + 1 + (j + 1) = b + 1 + j  BY <1>5, <1>8, <2>0
      <3>2. r2[j + 1] = p2[j]  BY <1>6, <3>1
      <3> QED  BY <1>4, <3>1, <3>2
    <2>2. ASSUME NEW j \in 1 .. Len(q2)  PROVE \E n \in 1 .. Len(t2) : t2[n] = q2[j]
      <3>1. Len(q1) = (IF m[y].leaf THEN 0 ELSE b + 1)  BY <1>1a, <1>2, <1>3, <1>4
      <3>2. Len(t1) = (IF m[y].leaf THEN 0 ELSE d + 1)  BY <1>1b, <1>2, <1>3, <1>4
      <3>3. Len(q2) = (IF m[y].leaf THEN 0 ELSE c + 1)  BY <1>1c, <1>2, <1>3, <1>4
      <3>4. Len(t2) = (IF m[y].leaf THEN 0 ELSE f + 1)  BY <1>1d, <1>2, <1>3, <1>4
      <3>5. ~m[y].leaf  BY <3>3
      <3>6. j + 1 \in 1 .. Len(t2) /\ Len(t1) + (j + 1) = Len(q1) + j
        BY <1>5, <1>8, <2>0, <3>1, <3>2, <3>3, <3>4, <3>5
      <3>7. t2[j + 1] = q[Len(t1) + (j + 1)] /\ q2[j] = q[Len(q1) + j]
        BY <1>1e, <1>1f, <1>3, <3>6
      <3> QED  BY <3>6, <3>7
    <2> QED  BY <1>2, <1>3, <1>4, <2>1, <2>2 DEF Absorbs
  <1> QED  BY <1>2, <1>4, <1>7, <1>8

\* y and z are one level below a.
Under(V, L, a, y, z) ==
  a \in V /\ L \in [V -> Nat] /\ L[a] = L[y] + 1 /\ L[z] = L[y] /\ L[y] \in Nat

Nether(S, L, y) == {n \in S : L[n] < L[y]}

\* A step in a and two children of it, from one tree to the next.
Moves(h, g, r, t, V, W, L, M, R, Q, a, y, z) ==
  /\ Good(h, r, V, L, R) /\ Good(g, t, W, M, Q)
  /\ Under(V, L, a, y, z) /\ Elsewhere(h, g, V, W, L, M, R, Q, a, y, z)

\* It leaves the rest of the way as it is.
LEMMA LeadsOn ==
  ASSUME NEW h, NEW g, NEW r, NEW t, NEW V, NEW W, NEW L, NEW M, NEW R, NEW Q,
         NEW a, NEW y, NEW z, Moves(h, g, r, t, V, W, L, M, R, Q, a, y, z),
         NEW l, NEW e, NEW S, Leads(h, V, R, l, e, S),
         NEW c \in W, e \in Q[c], Toward(g[c], e, Nether(S, L, y))
  PROVE  \E P : Leads(g, W, Q, c, e, P)
  <1>0. /\ Good(h, r, V, L, R) /\ Under(V, L, a, y, z)
        /\ Elsewhere(h, g, V, W, L, M, R, Q, a, y, z)
    BY DEF Moves
  <1> DEFINE B == {n \in S : L[n] < L[y]}
             P == B \cup {c}
  <1>1. L \in [V -> Nat] /\ L[y] \in Nat /\ L[a] = L[y] + 1 /\ L[z] = L[y] /\ S \subseteq V
    BY <1>0 DEF Under, Leads
  <1>2. \A n \in B : n \in S /\ n \in V \ {a, y, z} /\ L[n] < L[y] /\ L[n] \in Nat
    <2> SUFFICES ASSUME NEW n \in B  PROVE n \in V \ {a, y, z} /\ L[n] \in Nat
      OBVIOUS
    <2>1. n \in V /\ L[n] \in Nat /\ L[n] < L[y]  BY <1>1
    <2> QED  BY <1>1, <2>1
  <1>3. \A n \in B : n \in W /\ g[n] = h[n] /\ Q[n] = R[n]  BY <1>0, <1>2 DEF Elsewhere
  <1>4. ASSUME NEW n \in B
        PROVE  e \in Q[n] /\ (Has(g[n], e) \/ \E j \in 1 .. Len(g[n].kid) : g[n].kid[j] \in P)
    <2>1. e \in R[n] /\ (Has(h[n], e) \/ \E j \in 1 .. Len(h[n].kid) : h[n].kid[j] \in S)
      BY <1>2 DEF Leads
    <2>2. ASSUME NEW j \in 1 .. Len(h[n].kid), h[n].kid[j] \in S  PROVE h[n].kid[j] \in B
      <3>1. L[n] = L[h[n].kid[j]] + 1 /\ L[h[n].kid[j]] \in Nat  BY <1>0, <1>2, NodeShape
      <3>2. L[h[n].kid[j]] < L[y]  BY <1>1, <1>2, <3>1
      <3> QED  BY <2>2, <3>2
    <2>3. h[n] = g[n] /\ R[n] = Q[n]  BY <1>3
    <2> QED  BY <2>1, <2>2, <2>3
  <1>5. Has(g[c], e) \/ \E j \in 1 .. Len(g[c].kid) : g[c].kid[j] \in P  BY DEF Toward, Nether
  <1>6. P \subseteq W /\ c \in P  BY <1>3
  <1>7. Leads(g, W, Q, c, e, P)
    <2> HIDE DEF B
    <2> QED  BY <1>4, <1>5, <1>6 DEF Leads
  <1> QED  BY <1>7

\* What the child of l on the way is, or has below it.
LEMMA LeadsBelow ==
  ASSUME NEW h, NEW r, NEW V, NEW L, NEW R, Good(h, r, V, L, R),
         NEW l, NEW e, NEW S, Leads(h, V, R, l, e, S), NEW c \in S
  PROVE  Toward(h[c], e, Nether(S, L, c))
  <1>1. c \in V /\ S \subseteq V  BY DEF Leads
  <1>2. Has(h[c], e) \/ \E j \in 1 .. Len(h[c].kid) : h[c].kid[j] \in S  BY DEF Leads
  <1>3. ASSUME NEW j \in 1 .. Len(h[c].kid), h[c].kid[j] \in S
        PROVE  h[c].kid[j] \in Nether(S, L, c)
    <2>1. L[c] = L[h[c].kid[j]] + 1 /\ L[h[c].kid[j]] \in Nat  BY <1>1, NodeShape
    <2>2. L[h[c].kid[j]] < L[c]  BY <2>1
    <2> QED  BY <1>3, <2>2 DEF Nether
  <1> QED  BY <1>2, <1>3 DEF Toward

\* All keys of an inner node are on one side of what is below its end.
EndsAt(h, V, L, R, a, last, c) ==
  /\ c \in V /\ L[a] = L[c] + 1 /\ L[c] \in Nat /\ R[c] \subseteq R[a]
  /\ \A j \in 1 .. Len(h[a].key), e \in R[c] : Beside(last, h[a].key[j], e)

\* The last child of a node has the greatest keys, the first the smallest.
LEMMA EndBeside ==
  ASSUME NEW h, NEW r, NEW V, NEW L, NEW R, Good(h, r, V, L, R),
         NEW a \in V, ~h[a].leaf, NEW last \in BOOLEAN, NEW c, c = End(h[a], last)
  PROVE  EndsAt(h, V, L, R, a, last, c)
  <1>1. Fact(h, V, L, R, a)  BY FactOf
  <1>2. PICK p, q, A : p = h[a].key /\ q = h[a].kid /\ A = R[a]  OBVIOUS
  <1>3. PICK b : b = Len(p)  OBVIOUS
  <1>4. /\ p \in Seq(Nat) /\ b \in Nat /\ Sorted(p) /\ A \in SUBSET Nat /\ Len(q) = b + 1
        /\ \A j \in 1 .. b : p[j] \in Nat
        /\ \A j \in 1 .. Len(q) : q[j] \in V /\ R[q[j]] \subseteq Gap(A, p, j)
    BY <1>1, <1>2, <1>3 DEF Fact
  <1>5. PICK f : f = IF last THEN b + 1 ELSE 1  OBVIOUS
  <1>6. f \in 1 .. Len(q) /\ c = q[f]
    <2>1. c = IF last THEN q[b + 1] ELSE q[1]  BY <1>2, <1>4 DEF End
    <2> QED  BY <1>4, <1>5, <2>1
  <1>7. R[c] \subseteq Gap(A, p, f) /\ c \in V  BY <1>4, <1>6
  <1>8. ASSUME NEW j \in 1 .. b, NEW e \in R[c]  PROVE Beside(last, p[j], e)
    <2>1. e \in Nat /\ Between(p, f, e)  BY <1>4, <1>7 DEF Gap
    <2>2. CASE last
      <3>1. f = b + 1 /\ f - 1 = b /\ b \in 1 .. b /\ j <= b  BY <1>4, <1>5, <2>2
      <3>2. p[b] <= e  BY <1>3, <2>1, <3>1 DEF Between
      <3>3. p[j] <= p[b]  BY <1>3, <1>4, <3>1 DEF Sorted
      <3>4. p[j] \in Nat /\ p[b] \in Nat  BY <1>4, <3>1
      <3>5. p[j] <= e  BY <2>1, <3>2, <3>3, <3>4
      <3> QED  BY <2>2, <3>5 DEF Beside
    <2>3. CASE ~last
      <3>1. f = 1 /\ 1 \in 1 .. b /\ 1 <= j  BY <1>4, <1>5, <2>3
      <3>2. e <= p[1]  BY <1>3, <2>1, <3>1 DEF Between
      <3>3. p[1] <= p[j]  BY <1>3, <1>4, <3>1 DEF Sorted
      <3>4. p[j] \in Nat /\ p[1] \in Nat  BY <1>4, <3>1
      <3>5. e <= p[j]  BY <2>1, <3>2, <3>3, <3>4
      <3> QED  BY <2>3, <3>5 DEF Beside
    <2> QED  BY <2>2, <2>3
  <1>9. L[a] = L[c] + 1 /\ L[c] \in Nat  BY <1>2, <1>6, NodeShape
  <1>10. R[c] \subseteq R[a]  BY <1>2, <1>7 DEF Gap
  <1> QED  BY <1>2, <1>3, <1>7, <1>8, <1>9, <1>10 DEF EndsAt

\* From the key i of p the way goes to the child next to it, and from there to the end.
NextTo(h, p, i, last, c) ==
  i \in 0 .. Len(h[p].key) - 1 /\ c = h[p].kid[IF last THEN i + 1 ELSE i + 2]

\* The way to the neighbour of a key starts at the child beside it.
LEMMA SpineStart ==
  ASSUME NEW h, NEW r, NEW V, NEW L, NEW R, Good(h, r, V, L, R),
         NEW p \in V, ~h[p].leaf, NEW i, NEW last \in BOOLEAN,
         NEW c, NextTo(h, p, i, last, c)
  PROVE  Spine(h, V, L, R, p, i, c, {c}, last) /\ c \in V
  <1>0. i \in 0 .. Len(h[p].key) - 1 /\ c = h[p].kid[IF last THEN i + 1 ELSE i + 2]
    BY DEF NextTo
  <1>1. h[p].key \in Seq(Keys) /\ Len(h[p].kid) = Len(h[p].key) + 1  BY NodeShape
  <1>2. PICK f : f = IF last THEN i + 1 ELSE i + 2  OBVIOUS
  <1>3. f \in 1 .. Len(h[p].kid) /\ c = h[p].kid[f]  BY <1>0, <1>1, <1>2
  <1>4. c \in V /\ L[p] = L[c] + 1 /\ L[c] \in Nat  BY <1>3, NodeShape
  <1>5. L[c] < L[p]  BY <1>4
  <1> QED  BY <1>0, <1>4, <1>5 DEF Spine

Reaches(h, g, W, M, Q, p, i, c, last) ==
  (\E P : Spine(g, W, M, Q, p, i, c, P, last)) /\ g[p] = h[p]

IsEnd(g, a, last, c) == ~g[a].leaf /\ c = End(g[a], last)

\* A step in the end of the way, and on to its own end.
LEMMA SpineOn ==
  ASSUME NEW h, NEW g, NEW r, NEW t, NEW V, NEW W, NEW L, NEW M, NEW R, NEW Q,
         NEW a, NEW y, NEW z, Moves(h, g, r, t, V, W, L, M, R, Q, a, y, z),
         NEW p, NEW i, NEW S, NEW last \in BOOLEAN, Spine(h, V, L, R, p, i, a, S, last),
         NEW c, IsEnd(g, a, last, c)
  PROVE  Reaches(h, g, W, M, Q, p, i, c, last)
  <1>0. c = End(g[a], last) /\ ~g[a].leaf  BY DEF IsEnd
  <1>0a. /\ Good(g, t, W, M, Q) /\ Under(V, L, a, y, z)
        /\ Elsewhere(h, g, V, W, L, M, R, Q, a, y, z)
    BY DEF Moves
  <1>1. /\ p \in V /\ i \in 0 .. Len(h[p].key) - 1 /\ ~h[p].leaf
        /\ a \in S /\ S \subseteq V
        /\ h[p].kid[IF last THEN i + 1 ELSE i + 2] \in S
        /\ \A n \in S : L[n] < L[p] /\ R[a] \subseteq R[n]
        /\ \A n \in S \ {a} :
             /\ L[n] > L[a] /\ End(h[n], last) \in S
             /\ \A j \in 1 .. Len(h[n].key), e \in R[a] : Beside(last, h[n].key[j], e)
    BY DEF Spine
  <1>2. L \in [V -> Nat] /\ L[a] = L[y] + 1 /\ L[z] = L[y] /\ L[y] \in Nat /\ a \in V
    BY <1>0a DEF Under
  <1>3. /\ \A n \in V \ {a, y, z} : n \in W /\ g[n] = h[n] /\ M[n] = L[n] /\ Q[n] = R[n]
        /\ a \in W /\ M[a] = L[a] /\ Q[a] = R[a]
    BY <1>0a DEF Elsewhere
  <1>4. EndsAt(g, W, M, Q, a, last, c)  BY <1>0, <1>0a, <1>3, EndBeside
  <1>5. /\ c \in W /\ M[a] = M[c] + 1 /\ M[c] \in Nat /\ Q[c] \subseteq Q[a]
        /\ \A j \in 1 .. Len(g[a].key), e \in Q[c] : Beside(last, g[a].key[j], e)
    BY <1>4 DEF EndsAt
  <1>6. \A n \in S \ {a} : n \in V \ {a, y, z} /\ L[n] \in Nat
    <2> SUFFICES ASSUME NEW n \in S \ {a}  PROVE n \notin {a, y, z} /\ n \in V /\ L[n] \in Nat
      OBVIOUS
    <2>1. n \in V /\ L[n] \in Nat /\ L[n] > L[a]  BY <1>1, <1>2
    <2> QED  BY <1>2, <2>1
  <1>7. p \in V \ {a, y, z} /\ L[p] \in Nat
    <2>1. L[p] \in Nat /\ L[p] > L[a]  BY <1>1, <1>2
    <2> QED  BY <1>1, <1>2, <2>1
  <1> DEFINE P == S \cup {c}
  <1>8. P \subseteq W /\ c \in P  BY <1>1, <1>3, <1>5, <1>6
  <1>9. p \in W /\ g[p] = h[p] /\ M[p] = L[p]  BY <1>3, <1>7
  <1>10. ASSUME NEW n \in S
         PROVE  /\ M[n] < M[p] /\ Q[c] \subseteq Q[n] /\ M[n] > M[c]
                /\ n \in W /\ M[n] = L[n] /\ Q[n] = R[n]
    <2>1. n \in W /\ M[n] = L[n] /\ Q[n] = R[n]  BY <1>3, <1>6
    <2>2. L[n] < L[p] /\ R[a] \subseteq R[n]  BY <1>1
    <2>3. M[n] > M[c]
      <3>1. n # a => L[n] > L[a] /\ L[n] \in Nat  BY <1>1, <1>6
      <3> QED  BY <1>2, <1>3, <1>5, <2>1, <3>1
    <2> QED  BY <1>3, <1>5, <1>9, <2>1, <2>2, <2>3
  <1>11. M[c] < M[p]
    <2>1. L[a] < L[p]  BY <1>1
    <2> QED  BY <1>2, <1>3, <1>5, <1>7, <1>9, <2>1
  <1>12. ASSUME NEW n \in P \ {c}
         PROVE  /\ M[n] > M[c] /\ End(g[n], last) \in P
                /\ \A j \in 1 .. Len(g[n].key), e \in Q[c] : Beside(last, g[n].key[j], e)
    <2>1. n \in S  OBVIOUS
    <2>2. CASE n = a  BY <1>0, <1>5, <1>10, <2>1, <2>2
    <2>3. CASE n # a
      <3>1. g[n] = h[n] /\ n \in S \ {a}  BY <1>3, <1>6, <2>1, <2>3
      <3>2. End(h[n], last) \in S  BY <1>1, <3>1
      <3>3. \A j \in 1 .. Len(h[n].key), e \in R[a] : Beside(last, h[n].key[j], e)
        BY <1>1, <3>1
      <3> QED  BY <1>3, <1>5, <1>10, <2>1, <3>1, <3>2, <3>3
    <2> QED  BY <2>2, <2>3
  <1>13. h[p].kid[IF last THEN i + 1 ELSE i + 2] \in P  BY <1>1
  <1>14. \A n \in P : M[n] < M[p] /\ Q[c] \subseteq Q[n]  BY <1>10, <1>11
  <1>15. Spine(g, W, M, Q, p, i, c, P, last)
    <2> HIDE DEF P
    <2> QED  BY <1>1, <1>8, <1>9, <1>12, <1>13, <1>14 DEF Spine
  <1> QED  BY <1>9, <1>15 DEF Reaches

-----------------------------------------------------------------------------
(* The activation of a deletion in a: it looks for e, st = 0, or fetches the   *)
(* key that takes the place of e, which is the key i of p.                   *)

Rooted(h, r) == h[r].leaf \/ N(h[r]) >= 1

Stout(h, r, V, a) == a \in V /\ (a = r => Rooted(h, r)) /\ (a = r \/ N(h[a]) >= T)

Searching(h, V, R, a, e) == \E S : Leads(h, V, R, a, e, S)

Fetching(h, V, L, R, a, e, st, p, i) ==
  /\ h[p].key[i + 1] = e
  /\ \E last \in BOOLEAN : (last <=> st = 1) /\ \E S : Spine(h, V, L, R, p, i, a, S, last)

Going(h, r, V, L, R, a, e, st, p, i) ==
  /\ Stout(h, r, V, a)
  /\ st = 0 => Searching(h, V, R, a, e)
  /\ st # 0 => Fetching(h, V, L, R, a, e, st, p, i)

\* It goes on in the child j, or in what becomes of it.
Heading(h, V, L, R, a, e, st, p, i, j) ==
  /\ j \in 1 .. Len(h[a].kid)
  /\ st = 0 => \E S : Leads(h, V, R, a, e, S) /\ h[a].kid[j] \in S
  /\ st # 0 => /\ Fetching(h, V, L, R, a, e, st, p, i)
               /\ (st = 1 => j = Len(h[a].kid)) /\ (st # 1 => j = 1)

Takes(h, g, W, L, Q, a, y, e, st, j, c) ==
  /\ Absorbs(h[h[a].kid[j]], g[c]) /\ L[h[a].kid[j]] = L[y]
  /\ ~g[a].leaf /\ c \in W
  /\ st = 0 => e \in Q[c]
  /\ st = 1 => c = g[a].kid[Len(g[a].kid)]
  /\ (st # 0 /\ st # 1) => c = g[a].kid[1]

\* The key has its place below that child.
LEMMA HeadingKey ==
  ASSUME NEW h, NEW r, NEW V, NEW L, NEW R, Good(h, r, V, L, R), NEW a \in V,
         NEW e, NEW st, st = 0, NEW p, NEW i, NEW j, Heading(h, V, L, R, a, e, st, p, i, j)
  PROVE  e \in R[h[a].kid[j]] /\ e \in Gap(R[a], h[a].key, j)
  <1>1. PICK S : Leads(h, V, R, a, e, S) /\ h[a].kid[j] \in S  BY DEF Heading
  <1>2. e \in R[h[a].kid[j]]  BY <1>1 DEF Leads
  <1>3. j \in 1 .. Len(h[a].kid)  BY DEF Heading
  <1>4. R[h[a].kid[j]] \subseteq Gap(R[a], h[a].key, j)  BY <1>3, NodeFacts
  <1> QED  BY <1>2, <1>4

\* A turn that goes on in a child with enough keys is on its way still.
LEMMA WayOn ==
  ASSUME NEW h, NEW g, NEW r, NEW t, NEW V, NEW W, NEW L, NEW M, NEW R, NEW Q,
         NEW a, NEW y, NEW z, Moves(h, g, r, t, V, W, L, M, R, Q, a, y, z),
         NEW e, NEW st, NEW p, NEW i, NEW j, Heading(h, V, L, R, a, e, st, p, i, j),
         NEW c, Takes(h, g, W, L, Q, a, y, e, st, j, c), N(g[c]) >= T
  PROVE  Going(g, t, W, M, Q, c, e, st, p, i)
  <1>0. Good(h, r, V, L, R) /\ Good(g, t, W, M, Q)  BY DEF Moves
  <1>1. /\ Absorbs(h[h[a].kid[j]], g[c]) /\ L[h[a].kid[j]] = L[y]
        /\ ~g[a].leaf /\ c \in W /\ (st = 0 => e \in Q[c])
    BY DEF Takes
  <1>2. Stout(g, t, W, c)
    <2>1. N(g[c]) >= 1
      <3>1. N(g[c]) \in Nat  BY <1>0, <1>1, NodeShape DEF N
      <3> QED  BY <3>1, SizesAssumption
    <2> QED  BY <1>1, <2>1 DEF Stout, Rooted
  <1>3. ASSUME st = 0  PROVE Searching(g, W, Q, c, e)
    <2>1. PICK S : Leads(h, V, R, a, e, S) /\ h[a].kid[j] \in S  BY <1>3 DEF Heading
    <2>2. e \in Q[c]  BY <1>1, <1>3
    <2>3. PICK b : b = h[a].kid[j]  OBVIOUS
    <2>4. Toward(h[b], e, Nether(S, L, b))
      <3>1. b \in S  BY <2>1, <2>3
      <3> QED  BY Zenon, <1>0, <2>1, <3>1, LeadsBelow
    <2>5. L[b] = L[y] /\ Absorbs(h[b], g[c])  BY <1>1, <2>3
    <2>6. Nether(S, L, b) = Nether(S, L, y)  BY <2>5 DEF Nether
    <2>7. Toward(g[c], e, Nether(S, L, b))  BY Zenon, <2>4, <2>5, TowardToo
    <2>8. Toward(g[c], e, Nether(S, L, y))  BY <2>6, <2>7
    <2>9. \E P : Leads(g, W, Q, c, e, P)  BY Zenon, <1>1, <2>1, <2>2, <2>8, LeadsOn
    <2> QED  BY <2>9 DEF Searching
  <1>4. ASSUME st # 0  PROVE Fetching(g, W, M, Q, c, e, st, p, i)
    <2>1. Fetching(h, V, L, R, a, e, st, p, i)  BY <1>4 DEF Heading
    <2>2. PICK last \in BOOLEAN : (last <=> st = 1) /\ \E S : Spine(h, V, L, R, p, i, a, S, last)
      BY <2>1 DEF Fetching
    <2>3. PICK S : Spine(h, V, L, R, p, i, a, S, last)  BY <2>2
    <2>4. IsEnd(g, a, last, c)  BY <1>4, <2>2 DEF End, IsEnd, Takes
    <2>5. last \in BOOLEAN  BY <2>2
    <2>6. Reaches(h, g, W, M, Q, p, i, c, last)
      BY Zenon, <2>5, <2>3, <2>4, SpineOn
    <2> QED  BY <2>1, <2>2, <2>6 DEF Fetching, Reaches
  <1> QED  BY <1>2, <1>3, <1>4 DEF Going

\* Case 3 with enough keys in the child.
LEMMA DescendStep ==
  ASSUME NEW h, NEW r, NEW V, NEW L, NEW R, Held(h, r, V, L, R), NEW a \in V, ~h[a].leaf,
         NEW e, NEW st, NEW p, NEW i, NEW j, Heading(h, V, L, R, a, e, st, p, i, j),
         NEW c, c = h[a].kid[j], N(h[c]) >= T
  PROVE  Going(h, r, V, L, R, c, e, st, p, i)
  <1>1. Good(h, r, V, L, R)  BY DEF Held
  <1>2. j \in 1 .. Len(h[a].kid)  BY DEF Heading
  <1>3. c \in V /\ L[a] = L[c] + 1 /\ L[c] \in Nat  BY <1>1, <1>2, NodeShape
  <1>4. L \in [V -> Nat]  BY <1>1 DEF Good, Tree
  <1>5. Under(V, L, a, c, c)  BY <1>3, <1>4 DEF Under
  <1>6. Elsewhere(h, h, V, V, L, L, R, R, a, c, c)  BY DEF Elsewhere
  <1>7. Absorbs(h[c], h[c])  BY DEF Absorbs
  <1>8. st = 0 => e \in R[c]  BY <1>1, HeadingKey
  <1>9. /\ st = 1 => c = h[a].kid[Len(h[a].kid)]
        /\ (st # 0 /\ st # 1) => c = h[a].kid[1]
    BY DEF Heading
  <1>10. Moves(h, h, r, r, V, V, L, L, R, R, a, c, c)  BY <1>1, <1>5, <1>6 DEF Moves
  <1>11. Takes(h, h, V, L, R, a, c, e, st, j, c)  BY <1>3, <1>7, <1>8, <1>9 DEF Takes
  <1> QED  BY Zenon, <1>10, <1>11, WayOn

\* What an activation may do to the tree, and where it then goes on.
GoesOn(g, t, W, M, Q, c, e, st, p, i) ==
  Held(g, t, W, M, Q) /\ Going(g, t, W, M, Q, c, e, st, p, i)

-----------------------------------------------------------------------------
(* The keys of a tree, counted.                                              *)

\* Where the keys of E are in the nodes V of h.
Spots(h, V, E) ==
  {p \in V \X Nat : p[2] \in 1 .. Len(h[p[1]].key) /\ h[p[1]].key[p[2]] \in E}

\* The same keys, each as often.
Alike(h, V, g, W) == \A E : ExistsBijection(Spots(h, V, E), Spots(g, W, E))

\* Two functions that undo each other are bijections.
LEMMA TwoWays ==
  ASSUME NEW S, NEW B, NEW F \in [S -> B], NEW G \in [B -> S],
         \A p \in S : G[F[p]] = p, \A p \in B : F[G[p]] = p
  PROVE  ExistsBijection(S, B)
  <1>1. \A p, q \in S : F[p] = F[q] => p = q  OBVIOUS
  <1>2. \A q \in B : \E p \in S : F[p] = q  OBVIOUS
  <1>3. F \in Injection(S, B)  BY <1>1, Fun_IsInj
  <1>4. F \in Surjection(S, B)  BY <1>2, Fun_IsSurj
  <1> QED  BY <1>3, <1>4 DEF Bijection, ExistsBijection

\* Alike is symmetric.
LEMMA AlikeOnce ==
  ASSUME NEW h, NEW V, NEW g, NEW W, Alike(h, V, g, W)
  PROVE  Alike(g, W, h, V)
  <1> SUFFICES ASSUME NEW E  PROVE ExistsBijection(Spots(g, W, E), Spots(h, V, E))
    BY DEF Alike
  <1>1. ExistsBijection(Spots(h, V, E), Spots(g, W, E))  BY DEF Alike
  <1> QED  BY <1>1, Fun_ExistsBijSymmetric

\* Alike is transitive.
LEMMA AlikeTwice ==
  ASSUME NEW h, NEW V, NEW m, NEW U, NEW g, NEW W, Alike(h, V, m, U), Alike(m, U, g, W)
  PROVE  Alike(h, V, g, W)
  <1> SUFFICES ASSUME NEW E  PROVE ExistsBijection(Spots(h, V, E), Spots(g, W, E))
    BY DEF Alike
  <1>1. ExistsBijection(Spots(h, V, E), Spots(m, U, E))  BY DEF Alike
  <1>2. ExistsBijection(Spots(m, U, E), Spots(g, W, E))  BY DEF Alike
  <1> QED  BY <1>1, <1>2, Fun_ExistsBijTransitive

\* A cut loses no key and makes none.
LEMMA CutAlike ==
  ASSUME NEW h, NEW g, NEW V, NEW a, NEW i, NEW y, NEW z, Cut(h, g, V, a, i, y, z),
         y \in V, y # a, NEW W, Adds(W, V, z)
  PROVE  Alike(h, V, g, W)
  <1> SUFFICES ASSUME NEW E  PROVE ExistsBijection(Spots(h, V, E), Spots(g, W, E))
    BY DEF Alike
  <1>1. /\ a \in V /\ z \notin V /\ W = V \cup {z}
        /\ h[a] \in Node /\ g[a] \in Node /\ g[y] \in Node /\ g[z] \in Node
        /\ Inserted(g[a].key, h[a].key, i, g[a].key[i])
        /\ Around(h[y].key, g[y].key, g[a].key[i], g[z].key)
        /\ \A n \in V \ {a, y} : g[n] = h[n]
    BY DEF Cut, Adds
  <1>2. PICK pa, qa, py, qy, qz : /\ pa = h[a].key /\ qa = g[a].key /\ py = h[y].key
                                  /\ qy = g[y].key /\ qz = g[z].key
    OBVIOUS
  <1>3. PICK b, c, d : b = Len(qy) /\ c = Len(pa) /\ d = Len(qz)  OBVIOUS
  <1>4. /\ b \in Nat /\ c \in Nat /\ d \in Nat /\ Len(qa) = c + 1 /\ i \in 1 .. c + 1
        /\ \A j \in 1 .. c : (j < i => qa[j] = pa[j]) /\ (j >= i => qa[j + 1] = pa[j])
        /\ Len(py) = b + 1 + d /\ py[b + 1] = qa[i]
        /\ \A j \in 1 .. b : py[j] = qy[j]
        /\ \A j \in 1 .. d : py[b + 1 + j] = qz[j]
    <2>1. b \in Nat /\ c \in Nat /\ d \in Nat  BY <1>1, <1>2, <1>3 DEF Node
    <2> QED  BY <1>1, <1>2, <1>3, <2>1 DEF Inserted, Around
  <1> DEFINE To(n, j) ==
        IF n = a THEN <<a, IF j < i THEN j ELSE j + 1>>
        ELSE IF n = y THEN IF j <= b THEN <<y, j>>
                           ELSE IF j = b + 1 THEN <<a, i>> ELSE <<z, j - (b + 1)>>
        ELSE <<n, j>>
             Back(n, j) ==
        IF n = a THEN IF j = i THEN <<y, b + 1>> ELSE <<a, IF j < i THEN j ELSE j - 1>>
        ELSE IF n = z THEN <<y, b + 1 + j>>
        ELSE <<n, j>>
             S == Spots(h, V, E)
             B == Spots(g, W, E)
  <1>5. \A n, j : <<n, j>> \in S <=> n \in V /\ j \in Nat /\ j \in 1 .. Len(h[n].key)
                                      /\ h[n].key[j] \in E
    BY DEF Spots
  <1>6. \A n, j : <<n, j>> \in B <=> n \in W /\ j \in Nat /\ j \in 1 .. Len(g[n].key)
                                      /\ g[n].key[j] \in E
    BY DEF Spots
  <1>7. \A p \in S : p = <<p[1], p[2]>>  BY DEF Spots
  <1>8. \A p \in B : p = <<p[1], p[2]>>  BY DEF Spots
  <1> HIDE DEF S, B
  <1>4a. /\ b \in Nat /\ c \in Nat /\ d \in Nat /\ i \in 1 .. c + 1 /\ i \in Nat
    BY <1>4
  <1>4b. /\ Len(h[a].key) = c /\ Len(g[a].key) = c + 1 /\ Len(h[y].key) = b + 1 + d
         /\ Len(g[y].key) = b /\ Len(g[z].key) = d
    BY <1>2, <1>3, <1>4
  <1>5a. /\ \A j \in Nat : j \in 1 .. c /\ pa[j] \in E => <<a, j>> \in S
         /\ \A j \in Nat : j \in 1 .. b + 1 + d /\ py[j] \in E => <<y, j>> \in S
    BY <1>1, <1>2, <1>3, <1>4, <1>5
  <1>6a. a \in W /\ y \in W /\ z \in W /\ Len(g[a].key) = c + 1
    BY <1>1, <1>2, <1>4
  <1>6b. /\ \A j \in Nat : j \in 1 .. c + 1 /\ qa[j] \in E => <<a, j>> \in B
         /\ \A j \in Nat : j \in 1 .. b /\ qy[j] \in E => <<y, j>> \in B
         /\ \A j \in Nat : j \in 1 .. d /\ qz[j] \in E => <<z, j>> \in B
    BY <1>2, <1>3, <1>6, <1>6a
  <1>9. ASSUME NEW n, NEW j, <<n, j>> \in S
        PROVE  \E m, l : To(n, j) = <<m, l>> /\ <<m, l>> \in B /\ Back(m, l) = <<n, j>>
    <2>1. n \in V /\ j \in Nat /\ j \in 1 .. Len(h[n].key) /\ h[n].key[j] \in E
      BY <1>5, <1>9
    <2>2. CASE n = a /\ j < i
      <3>1. j \in 1 .. c /\ j \in 1 .. c + 1 /\ qa[j] = pa[j] /\ j # i
        BY <1>2, <1>3, <1>4, <2>1, <2>2
      <3>2. <<a, j>> \in B  BY <1>1, <1>2, <1>4, <1>6, <2>1, <2>2, <3>1
      <3>7. To(n, j) = <<a, j>>  BY <1>1, <2>2, <3>1
      <3>8. Back(a, j) = <<n, j>>  BY <1>1, <2>2, <3>1
      <3> HIDE DEF To, Back
      <3> QED  BY <3>2, <3>7, <3>8
    <2>3. CASE n = a /\ ~(j < i)
      <3>1. /\ j \in 1 .. c /\ j + 1 \in 1 .. c + 1 /\ j + 1 \in Nat /\ qa[j + 1] = pa[j]
            /\ j + 1 # i /\ ~(j + 1 < i) /\ (j + 1) - 1 = j
        BY <1>2, <1>3, <1>4, <2>1, <2>3
      <3>2. <<a, j + 1>> \in B  BY <1>1, <1>2, <1>4, <1>6, <2>1, <2>3, <3>1
      <3>7. To(n, j) = <<a, j + 1>>  BY <1>1, <2>3, <3>1
      <3>8. Back(a, j + 1) = <<n, j>>  BY <1>1, <2>3, <3>1
      <3> HIDE DEF To, Back
      <3> QED  BY <3>2, <3>7, <3>8
    <2>4. CASE n = y /\ j <= b
      <3>1. j \in 1 .. b /\ py[j] = qy[j]  BY <1>2, <1>3, <1>4, <2>1, <2>4
      <3>2. <<y, j>> \in B  BY <1>1, <1>2, <1>3, <1>6, <2>1, <2>4, <3>1
      <3>7. To(n, j) = <<y, j>>  BY <1>1, <2>4, <3>1
      <3>8. Back(y, j) = <<n, j>>  BY <1>1, <2>4, <3>1
      <3> HIDE DEF To, Back
      <3> QED  BY <3>2, <3>7, <3>8
    <2>5. CASE n = y /\ j = b + 1
      <3>0. py[b + 1] \in E  BY <1>2, <2>1, <2>5
      <3>1. ~(j <= b) /\ qa[i] \in E /\ i \in Nat  BY <1>4, <1>4a, <2>5, <3>0
      <3>2. <<a, i>> \in B  BY <1>4, <1>6b, <3>1
      <3>7. To(n, j) = <<a, i>>  BY <1>1, <2>5, <3>1
      <3>8. Back(a, i) = <<n, j>>  BY <1>1, <2>5, <3>1
      <3> HIDE DEF To, Back
      <3> QED  BY <3>2, <3>7, <3>8
    <2>6. CASE n = y /\ ~(j <= b) /\ j # b + 1
      <3>1. /\ j - (b + 1) \in 1 .. d /\ j - (b + 1) \in Nat /\ b + 1 + (j - (b + 1)) = j
        <4>1. j \in Nat /\ j \in 1 .. b + 1 + d  BY <1>4b, <2>1, <2>6
        <4> QED  BY <1>4a, <2>6, <4>1
      <3>2. qz[j - (b + 1)] = py[j]  BY <1>4, <3>1
      <3>3. <<z, j - (b + 1)>> \in B
        <4>1. py[j] \in E  BY <1>2, <2>1, <2>6
        <4> QED  BY <1>6b, <3>1, <3>2, <4>1
      <3>7. To(n, j) = <<z, j - (b + 1)>>  BY <1>1, <2>6, <3>1
      <3>8. Back(z, j - (b + 1)) = <<n, j>>  BY <1>1, <2>6, <3>1
      <3> HIDE DEF To, Back
      <3> QED  BY <3>3, <3>7, <3>8
    <2>7. CASE n # a /\ n # y
      <3>1. g[n] = h[n] /\ n # z /\ n \in W  BY <1>1, <2>1, <2>7
      <3>2. <<n, j>> \in B  BY <1>6, <2>1, <3>1
      <3>7. To(n, j) = <<n, j>>  BY <1>1, <2>7, <3>1
      <3>8. Back(n, j) = <<n, j>>  BY <1>1, <2>7, <3>1
      <3> HIDE DEF To, Back
      <3> QED  BY <3>2, <3>7, <3>8
    <2> QED  BY <2>2, <2>3, <2>4, <2>5, <2>6, <2>7
  <1>10. ASSUME NEW n, NEW j, <<n, j>> \in B
         PROVE  \E m, l : Back(n, j) = <<m, l>> /\ <<m, l>> \in S /\ To(m, l) = <<n, j>>
    <2>1. n \in W /\ j \in Nat /\ j \in 1 .. Len(g[n].key) /\ g[n].key[j] \in E
      BY <1>6, <1>10
    <2>2. CASE n = a /\ j = i
      <3>1. /\ b + 1 \in 1 .. Len(py) /\ b + 1 \in Nat /\ ~(b + 1 <= b) /\ py[b + 1] \in E
        BY <1>2, <1>4, <2>1, <2>2
      <3>2. <<y, b + 1>> \in S  BY <1>2, <1>5, <3>1
      <3>7. Back(n, j) = <<y, b + 1>>  BY <1>1, <2>2, <3>1
      <3>8. To(y, b + 1) = <<n, j>>  BY <1>1, <2>2, <3>1
      <3> HIDE DEF To, Back
      <3> QED  BY <3>2, <3>7, <3>8
    <2>3. CASE n = a /\ j < i
      <3>0. j \in 1 .. c /\ j # i  BY <1>4a, <2>1, <2>3
      <3>1. j \in 1 .. c /\ qa[j] = pa[j] /\ j # i  BY <1>4, <2>3, <3>0
      <3>2. <<a, j>> \in S
        <4>1. qa[j] \in E  BY <1>2, <2>1, <2>3
        <4> QED  BY <1>5a, <2>1, <3>1, <4>1
      <3>7. Back(n, j) = <<a, j>>  BY <1>1, <2>3, <3>1
      <3>8. To(a, j) = <<n, j>>  BY <1>1, <2>3, <3>1
      <3> HIDE DEF To, Back
      <3> QED  BY <3>2, <3>7, <3>8
    <2>4. CASE n = a /\ j > i
      <3>1. /\ j - 1 \in 1 .. c /\ j - 1 \in Nat /\ j - 1 >= i /\ (j - 1) + 1 = j
            /\ ~(j < i) /\ j # i /\ ~(j - 1 < i)
        <4>1. j \in Nat /\ j \in 1 .. c + 1  BY <1>4b, <2>1, <2>4
        <4> QED  BY <1>4a, <2>4, <4>1
      <3>2. qa[j] = pa[j - 1]  BY <1>4, <3>1
      <3>3. <<a, j - 1>> \in S
        <4>1. qa[j] \in E  BY <1>2, <2>1, <2>4
        <4> QED  BY <1>5a, <3>1, <3>2, <4>1
      <3>7. Back(n, j) = <<a, j - 1>>  BY <1>1, <2>4, <3>1
      <3>8. To(a, j - 1) = <<n, j>>  BY <1>1, <2>4, <3>1
      <3> HIDE DEF To, Back
      <3> QED  BY <3>3, <3>7, <3>8
    <2>5. CASE n = z
      <3>0. j \in Nat /\ j \in 1 .. d  BY <1>4b, <2>1, <2>5
      <3>0a. /\ b + 1 + j \in 1 .. b + 1 + d /\ b + 1 + j \in Nat
             /\ ~(b + 1 + j <= b) /\ b + 1 + j # b + 1 /\ (b + 1 + j) - (b + 1) = j
        BY <1>4a, <3>0
      <3>1. /\ j \in 1 .. d /\ b + 1 + j \in 1 .. b + 1 + d /\ b + 1 + j \in Nat
            /\ py[b + 1 + j] = qz[j] /\ ~(b + 1 + j <= b) /\ b + 1 + j # b + 1
            /\ (b + 1 + j) - (b + 1) = j
        BY <1>4, <3>0, <3>0a
      <3>2. <<y, b + 1 + j>> \in S
        <4>1. qz[j] \in E  BY <1>2, <2>1, <2>5
        <4> QED  BY <1>5a, <3>1, <4>1
      <3>7. Back(n, j) = <<y, b + 1 + j>>  BY <1>1, <2>5, <3>1
      <3>8. To(y, b + 1 + j) = <<n, j>>  BY <1>1, <2>5, <3>1
      <3> HIDE DEF To, Back
      <3> QED  BY <3>2, <3>7, <3>8
    <2>6. CASE n = y
      <3>0. j \in 1 .. b /\ j \in 1 .. b + 1 + d /\ j <= b
        <4>1. j \in Nat /\ j \in 1 .. b  BY <1>4b, <2>1, <2>6
        <4> QED  BY <1>4a, <4>1
      <3>1. j \in 1 .. b /\ j \in 1 .. b + 1 + d /\ py[j] = qy[j] /\ j <= b
        BY <1>4, <3>0
      <3>2. <<y, j>> \in S
        <4>1. qy[j] \in E  BY <1>2, <2>1, <2>6
        <4> QED  BY <1>5a, <2>1, <3>1, <4>1
      <3>7. Back(n, j) = <<y, j>>  BY <1>1, <2>6, <3>1
      <3>8. To(y, j) = <<n, j>>  BY <1>1, <2>6, <3>1
      <3> HIDE DEF To, Back
      <3> QED  BY <3>2, <3>7, <3>8
    <2>7. CASE n # a /\ n # y /\ n # z
      <3>1. g[n] = h[n] /\ n \in V  BY <1>1, <2>1, <2>7
      <3>2. <<n, j>> \in S  BY <1>5, <2>1, <3>1
      <3>7. Back(n, j) = <<n, j>>  BY <1>1, <2>7, <3>1
      <3>8. To(n, j) = <<n, j>>  BY <1>1, <2>7, <3>1
      <3> HIDE DEF To, Back
      <3> QED  BY <3>2, <3>7, <3>8
    <2>8. i \in Nat  BY <1>4
    <2>9. j = i \/ j < i \/ j > i  BY <2>1, <2>8
    <2> HIDE DEF To, Back
    <2> QED  BY <2>2, <2>3, <2>4, <2>5, <2>6, <2>7, <2>9
  <1> DEFINE F == [p \in S |-> To(p[1], p[2])]
             G == [p \in B |-> Back(p[1], p[2])]
  <1>11. \A p \in S : To(p[1], p[2]) \in B /\ Back(To(p[1], p[2])[1], To(p[1], p[2])[2]) = p
    <2> HIDE DEF To, Back
    <2> SUFFICES ASSUME NEW p \in S
                 PROVE  To(p[1], p[2]) \in B /\ Back(To(p[1], p[2])[1], To(p[1], p[2])[2]) = p
      OBVIOUS
    <2>1. PICK n, j : n = p[1] /\ j = p[2]  OBVIOUS
    <2>2. p = <<n, j>>  BY <1>7, <2>1
    <2>3. PICK m, l : To(n, j) = <<m, l>> /\ <<m, l>> \in B /\ Back(m, l) = <<n, j>>
      BY <1>9, <2>2
    <2> QED  BY <2>1, <2>2, <2>3
  <1>12. \A p \in B : Back(p[1], p[2]) \in S /\ To(Back(p[1], p[2])[1], Back(p[1], p[2])[2]) = p
    <2> HIDE DEF To, Back
    <2> SUFFICES ASSUME NEW p \in B
                 PROVE  Back(p[1], p[2]) \in S /\ To(Back(p[1], p[2])[1], Back(p[1], p[2])[2]) = p
      OBVIOUS
    <2>1. PICK n, j : n = p[1] /\ j = p[2]  OBVIOUS
    <2>2. p = <<n, j>>  BY <1>8, <2>1
    <2>3. PICK m, l : Back(n, j) = <<m, l>> /\ <<m, l>> \in S /\ To(m, l) = <<n, j>>
      BY <1>10, <2>2
    <2> QED  BY <2>1, <2>2, <2>3
  <1> HIDE DEF To, Back
  <1>13. F \in [S -> B] /\ G \in [B -> S]  BY <1>11, <1>12
  <1>14. (\A p \in S : G[F[p]] = p) /\ (\A p \in B : F[G[p]] = p)  BY <1>11, <1>12
  <1> HIDE DEF F, G
  <1>15. ExistsBijection(S, B)  BY <1>13, <1>14, TwoWays
  <1> QED  BY <1>15 DEF S, B

-----------------------------------------------------------------------------
Count(h, V, E) == Cardinality(Spots(h, V, E))

\* Whether e is one of the keys that are counted.
Unit(e, E) == IF e \in E THEN 1 ELSE 0

\* The tree has finitely many keys.
LEMMA FiniteSpots ==
  ASSUME NEW h, NEW r, NEW V, NEW L, NEW R, Held(h, r, V, L, R), NEW E
  PROVE  IsFiniteSet(Spots(h, V, E)) /\ Count(h, V, E) \in Nat
  <1>1. Good(h, r, V, L, R) /\ h \in Seq(Node) /\ V \subseteq 1 .. Len(h) /\ Sized(h, r, V)
    BY DEF Held, Heap
  <1>2. IsFiniteSet(V)
    <2>1. IsFiniteSet(1 .. Len(h))  BY <1>1, FS_Interval
    <2> QED  BY <1>1, <2>1, FS_Subset
  <1>3. IsFiniteSet(1 .. Full)
    <2>1. Full \in Int  BY SizesAssumption DEF Full
    <2> QED  BY <2>1, FS_Interval
  <1>4. IsFiniteSet(V \X (1 .. Full))  BY <1>2, <1>3, FS_Product
  <1>5. Spots(h, V, E) \subseteq V \X (1 .. Full)
    <2> SUFFICES ASSUME NEW p \in Spots(h, V, E)  PROVE p \in V \X (1 .. Full)
      OBVIOUS
    <2>1. PICK n, j : p = <<n, j>> /\ n \in V /\ j \in Nat /\ j \in 1 .. Len(h[n].key)
      BY DEF Spots
    <2>2. Len(h[n].key) <= Full /\ Len(h[n].key) \in Nat /\ Full \in Int
      BY <1>1, <2>1, AllNoded, SizesAssumption DEF Sized, N, Full
    <2>3. j \in 1 .. Full  BY <2>1, <2>2
    <2> QED  BY <2>1, <2>3
  <1>6. IsFiniteSet(Spots(h, V, E))  BY <1>4, <1>5, FS_Subset
  <1> QED  BY <1>6, FS_CardinalityType DEF Count

\* Trees that are alike have each key equally often.
LEMMA CountAlike ==
  ASSUME NEW h, NEW r, NEW V, NEW L, NEW R, Held(h, r, V, L, R),
         NEW g, NEW W, Alike(h, V, g, W), NEW E
  PROVE  Count(g, W, E) = Count(h, V, E)
  <1>1. IsFiniteSet(Spots(h, V, E))  BY FiniteSpots
  <1>2. ExistsBijection(Spots(h, V, E), Spots(g, W, E))  BY DEF Alike
  <1> QED  BY <1>1, <1>2, FS_Bijection DEF Count

\* A node without a key makes no difference.
LEMMA EmptyAlike ==
  ASSUME NEW h, NEW g, NEW V, NEW t, Len(g[t].key) = 0, \A n \in V : g[n] = h[n],
         NEW W, Adds(W, V, t), t \notin V
  PROVE  Alike(h, V, g, W)
  <1> SUFFICES ASSUME NEW E  PROVE ExistsBijection(Spots(h, V, E), Spots(g, W, E))
    BY DEF Alike
  <1>1. W = V \cup {t}  BY DEF Adds
  <1>2. \A p : p \in Spots(g, W, E) => p[1] # t  BY DEF Spots
  <1>3. Spots(h, V, E) = Spots(g, W, E)
    <2>1. ASSUME NEW p \in Spots(h, V, E)  PROVE p \in Spots(g, W, E)
      BY <1>1 DEF Spots
    <2>2. ASSUME NEW p \in Spots(g, W, E)  PROVE p \in Spots(h, V, E)
      <3>1. p[1] # t /\ p \in W \X Nat /\ p[1] \in V  BY <1>1, <1>2 DEF Spots
      <3>2. g[p[1]] = h[p[1]]  BY <3>1
      <3>3. p \in V \X Nat  BY <3>1
      <3> QED  BY <3>2, <3>3 DEF Spots
    <2> QED  BY <2>1, <2>2
  <1> QED  BY <1>3, Fun_ExistsBijReflexive

\* In g the node l has e at i, and from there on what it has in h one place before.
MoreAt(h, g, V, l, i, e) ==
  /\ l \in V /\ h[l].key \in Seq(Keys) /\ \A n \in V \ {l} : g[n] = h[n]
  /\ Inserted(g[l].key, h[l].key, i, e)

SpotMore(h, g, V, l, i, e, E) ==
  /\ ExistsBijection(Spots(h, V, E), Spots(g, V, E) \ {<<l, i>>})
  /\ <<l, i>> \in Spots(g, V, E) <=> e \in E

\* A key put into a node, or taken out of it.
LEMMA InsertedAlike ==
  ASSUME NEW h, NEW g, NEW V, NEW l, NEW i, NEW e, MoreAt(h, g, V, l, i, e), NEW E
  PROVE  SpotMore(h, g, V, l, i, e, E)
  <1>0. /\ l \in V /\ h[l].key \in Seq(Keys) /\ \A n \in V \ {l} : g[n] = h[n]
        /\ Inserted(g[l].key, h[l].key, i, e)
    BY DEF MoreAt
  <1>1. PICK p, q : p = h[l].key /\ q = g[l].key  OBVIOUS
  <1>2. PICK c : c = Len(p)  OBVIOUS
  <1>3. /\ c \in Nat /\ Len(q) = c + 1 /\ i \in 1 .. c + 1 /\ i \in Nat /\ q[i] = e
        /\ \A j \in 1 .. c : (j < i => q[j] = p[j]) /\ (j >= i => q[j + 1] = p[j])
    <2>1. c \in Nat  BY <1>0, <1>1, <1>2
    <2>2. /\ Len(q) = c + 1 /\ i \in 1 .. Len(q) /\ q[i] = e
          /\ \A j \in 1 .. c : (j < i => q[j] = p[j]) /\ (j >= i => q[j + 1] = p[j])
      BY <1>0, <1>1, <1>2 DEF Inserted
    <2> QED  BY <2>1, <2>2
  <1> DEFINE S == Spots(h, V, E)
             B == Spots(g, V, E) \ {<<l, i>>}
             To(n, j) == <<n, IF n = l /\ ~(j < i) THEN j + 1 ELSE j>>
             Back(n, j) == <<n, IF n = l /\ ~(j < i) THEN j - 1 ELSE j>>
  <1>4. \A n, j : <<n, j>> \in S <=> n \in V /\ j \in Nat /\ j \in 1 .. Len(h[n].key)
                                      /\ h[n].key[j] \in E
    BY DEF Spots
  <1>5. \A n, j : <<n, j>> \in Spots(g, V, E) <=> n \in V /\ j \in Nat /\ j \in 1 .. Len(g[n].key)
                                      /\ g[n].key[j] \in E
    BY DEF Spots
  <1>6. \A n, j : <<n, j>> \in B <=> n \in V /\ j \in Nat /\ j \in 1 .. Len(g[n].key)
                                      /\ g[n].key[j] \in E /\ ~(n = l /\ j = i)
    BY <1>5
  <1>7. (\A v \in S : v = <<v[1], v[2]>>) /\ (\A v \in B : v = <<v[1], v[2]>>)  BY DEF Spots
  <1> HIDE DEF S, B
  <1>8. /\ \A j : <<l, j>> \in S <=> j \in Nat /\ j \in 1 .. c /\ p[j] \in E
        /\ \A j : <<l, j>> \in B <=> j \in Nat /\ j \in 1 .. c + 1 /\ q[j] \in E /\ j # i
    BY <1>0, <1>1, <1>2, <1>3, <1>4, <1>6
  <1>9. \A n, j : n # l => (<<n, j>> \in S <=> <<n, j>> \in B)
    <2> SUFFICES ASSUME NEW n, NEW j, n # l  PROVE <<n, j>> \in S <=> <<n, j>> \in B
      OBVIOUS
    <2>1. n \in V => g[n] = h[n]  BY <1>0
    <2> QED  BY <1>4, <1>6, <2>1
  <1>10. ASSUME NEW n, NEW j, <<n, j>> \in S
         PROVE  \E m, o : To(n, j) = <<m, o>> /\ <<m, o>> \in B /\ Back(m, o) = <<n, j>>
    <2>1. CASE n # l
      <3>1. To(n, j) = <<n, j>> /\ Back(n, j) = <<n, j>>  BY <2>1
      <3>2. <<n, j>> \in B  BY <1>9, <1>10, <2>1
      <3> HIDE DEF To, Back
      <3> QED  BY <3>1, <3>2
    <2>2. CASE n = l /\ j < i
      <3>1. To(n, j) = <<n, j>> /\ Back(n, j) = <<n, j>>  BY <2>2
      <3>2. j \in Nat /\ j \in 1 .. c /\ p[j] \in E  BY <1>8, <1>10, <2>2
      <3>3. j \in 1 .. c + 1 /\ j # i /\ q[j] = p[j]  BY <1>3, <2>2, <3>2
      <3>4. <<n, j>> \in B  BY <1>8, <2>2, <3>2, <3>3
      <3> HIDE DEF To, Back
      <3> QED  BY <3>1, <3>4
    <2>3. CASE n = l /\ ~(j < i)
      <3>1. j \in Nat /\ j \in 1 .. c /\ p[j] \in E  BY <1>8, <1>10, <2>3
      <3>2. /\ j + 1 \in 1 .. c + 1 /\ j + 1 \in Nat /\ j + 1 # i /\ ~(j + 1 < i)
            /\ (j + 1) - 1 = j /\ j >= i
        BY <1>3, <2>3, <3>1
      <3>3. q[j + 1] = p[j]  BY <1>3, <3>1, <3>2
      <3>4. <<n, j + 1>> \in B  BY <1>8, <2>3, <3>1, <3>2, <3>3
      <3>5. To(n, j) = <<n, j + 1>> /\ Back(n, j + 1) = <<n, j>>  BY <2>3, <3>2
      <3> HIDE DEF To, Back
      <3> QED  BY <3>4, <3>5
    <2> QED  BY <2>1, <2>2, <2>3
  <1>11. ASSUME NEW n, NEW j, <<n, j>> \in B
         PROVE  \E m, o : Back(n, j) = <<m, o>> /\ <<m, o>> \in S /\ To(m, o) = <<n, j>>
    <2>1. CASE n # l
      <3>1. To(n, j) = <<n, j>> /\ Back(n, j) = <<n, j>>  BY <2>1
      <3>2. <<n, j>> \in S  BY <1>9, <1>11, <2>1
      <3> HIDE DEF To, Back
      <3> QED  BY <3>1, <3>2
    <2>2. CASE n = l /\ j < i
      <3>1. To(n, j) = <<n, j>> /\ Back(n, j) = <<n, j>>  BY <2>2
      <3>2. j \in Nat /\ j \in 1 .. c + 1 /\ q[j] \in E  BY <1>8, <1>11, <2>2
      <3>3. j \in 1 .. c  BY <1>3, <2>2, <3>2
      <3>4. q[j] = p[j]  BY <1>3, <2>2, <3>3
      <3>5. <<n, j>> \in S  BY <1>8, <2>2, <3>2, <3>3, <3>4
      <3> HIDE DEF To, Back
      <3> QED  BY <3>1, <3>5
    <2>3. CASE n = l /\ ~(j < i)
      <3>1. j \in Nat /\ j \in 1 .. c + 1 /\ q[j] \in E /\ j # i  BY <1>8, <1>11, <2>3
      <3>2. /\ j - 1 \in 1 .. c /\ j - 1 \in Nat /\ ~(j - 1 < i) /\ (j - 1) + 1 = j /\ j - 1 >= i
        BY <1>3, <2>3, <3>1
      <3>3. q[j] = p[j - 1]  BY <1>3, <3>2
      <3>4. <<n, j - 1>> \in S  BY <1>8, <2>3, <3>1, <3>2, <3>3
      <3>5. Back(n, j) = <<n, j - 1>> /\ To(n, j - 1) = <<n, j>>  BY <2>3, <3>2
      <3> HIDE DEF To, Back
      <3> QED  BY <3>4, <3>5
    <2> QED  BY <2>1, <2>2, <2>3
  <1> DEFINE F == [v \in S |-> To(v[1], v[2])]
             G == [v \in B |-> Back(v[1], v[2])]
  <1>12. \A v \in S : To(v[1], v[2]) \in B /\ Back(To(v[1], v[2])[1], To(v[1], v[2])[2]) = v
    <2> HIDE DEF To, Back
    <2> SUFFICES ASSUME NEW v \in S
                 PROVE  To(v[1], v[2]) \in B /\ Back(To(v[1], v[2])[1], To(v[1], v[2])[2]) = v
      OBVIOUS
    <2>1. PICK n, j : n = v[1] /\ j = v[2]  OBVIOUS
    <2>2. v = <<n, j>>  BY <1>7, <2>1
    <2>3. PICK m, o : To(n, j) = <<m, o>> /\ <<m, o>> \in B /\ Back(m, o) = <<n, j>>
      BY <1>10, <2>2
    <2> QED  BY <2>1, <2>2, <2>3
  <1>13. \A v \in B : Back(v[1], v[2]) \in S /\ To(Back(v[1], v[2])[1], Back(v[1], v[2])[2]) = v
    <2> HIDE DEF To, Back
    <2> SUFFICES ASSUME NEW v \in B
                 PROVE  Back(v[1], v[2]) \in S /\ To(Back(v[1], v[2])[1], Back(v[1], v[2])[2]) = v
      OBVIOUS
    <2>1. PICK n, j : n = v[1] /\ j = v[2]  OBVIOUS
    <2>2. v = <<n, j>>  BY <1>7, <2>1
    <2>3. PICK m, o : Back(n, j) = <<m, o>> /\ <<m, o>> \in S /\ To(m, o) = <<n, j>>
      BY <1>11, <2>2
    <2> QED  BY <2>1, <2>2, <2>3
  <1> HIDE DEF To, Back
  <1>14. F \in [S -> B] /\ G \in [B -> S]  BY <1>12, <1>13
  <1>15. (\A v \in S : G[F[v]] = v) /\ (\A v \in B : F[G[v]] = v)  BY <1>12, <1>13
  <1> HIDE DEF F, G
  <1>16. ExistsBijection(S, B)  BY <1>14, <1>15, TwoWays
  <1>17. <<l, i>> \in Spots(g, V, E) <=> e \in E  BY <1>0, <1>1, <1>3, <1>5
  <1> QED  BY <1>16, <1>17 DEF S, B, SpotMore

OneMore(h, g, V, l, e) ==
  \E i : MoreAt(h, g, V, l, i, e)

\* With one key more the count is greater by this key.
LEMMA CountMore ==
  ASSUME NEW h, NEW r, NEW V, NEW L, NEW R, Held(h, r, V, L, R),
         NEW g, NEW l, NEW e, OneMore(h, g, V, l, e), NEW E
  PROVE  Count(g, V, E) = Count(h, V, E) + Unit(e, E)
  <1>1. IsFiniteSet(Spots(h, V, E)) /\ Count(h, V, E) \in Nat  BY FiniteSpots
  <1>2. PICK i : MoreAt(h, g, V, l, i, e)  BY DEF OneMore
  <1>3. SpotMore(h, g, V, l, i, e, E)  BY Zenon, <1>2, InsertedAlike
  <1>4. /\ ExistsBijection(Spots(h, V, E), Spots(g, V, E) \ {<<l, i>>})
        /\ <<l, i>> \in Spots(g, V, E) <=> e \in E
    BY <1>3 DEF SpotMore
  <1>5. PICK B, v : B = Spots(g, V, E) /\ v = <<l, i>>  OBVIOUS
  <1>6. IsFiniteSet(B \ {v}) /\ Cardinality(B \ {v}) = Count(h, V, E)
    BY <1>1, <1>4, <1>5, FS_Bijection DEF Count
  <1>7. CASE e \in E
    <2>1. v \notin B \ {v} /\ (B \ {v}) \cup {v} = B  BY <1>4, <1>5, <1>7
    <2>2. Cardinality((B \ {v}) \cup {v}) = Cardinality(B \ {v}) + 1
      BY <1>6, <2>1, FS_AddElement
    <2> QED  BY <1>5, <1>6, <1>7, <2>1, <2>2 DEF Count, Unit
  <1>8. CASE e \notin E
    <2>1. B \ {v} = B  BY <1>4, <1>5, <1>8
    <2> QED  BY <1>1, <1>5, <1>6, <1>8, <2>1 DEF Count, Unit
  <1> QED  BY <1>7, <1>8

\* In g, w has taken the place of the key c of p.
InPlace(h, g, V, p, c, w) ==
  /\ p \in V /\ \A n \in V \ {p} : g[n] = h[n]
  /\ h[p].key \in Seq(Keys) /\ Replaced(g[p].key, h[p].key, c, w)

\* A key put in place of another changes the count of these two.
LEMMA CountSwap ==
  ASSUME NEW h, NEW r, NEW V, NEW L, NEW R, Held(h, r, V, L, R),
         NEW g, NEW M, NEW Q, Held(g, r, V, M, Q),
         NEW p, NEW c, NEW w, InPlace(h, g, V, p, c, w), NEW E
  PROVE  Count(g, V, E) + Unit(h[p].key[c], E) = Count(h, V, E) + Unit(w, E)
  <1>1. PICK S, B, v : S = Spots(h, V, E) /\ B = Spots(g, V, E) /\ v = <<p, c>>  OBVIOUS
  <1>2. IsFiniteSet(S) /\ IsFiniteSet(B) /\ Cardinality(S) \in Nat /\ Cardinality(B) \in Nat
    BY <1>1, FiniteSpots DEF Count
  <1>3. PICK a, b : a = h[p].key /\ b = g[p].key  OBVIOUS
  <1>4. /\ p \in V /\ a \in Seq(Keys) /\ Len(b) = Len(a) /\ c \in 1 .. Len(a) /\ c \in Nat
        /\ \A j \in 1 .. Len(a) : b[j] = IF j = c THEN w ELSE a[j]
        /\ \A n \in V \ {p} : g[n] = h[n]
    BY <1>3 DEF InPlace, Replaced
  <1>5. \A n, j : <<n, j>> \in S <=> n \in V /\ j \in Nat /\ j \in 1 .. Len(h[n].key)
                                      /\ h[n].key[j] \in E
    BY <1>1 DEF Spots
  <1>6. \A n, j : <<n, j>> \in B <=> n \in V /\ j \in Nat /\ j \in 1 .. Len(g[n].key)
                                      /\ g[n].key[j] \in E
    BY <1>1 DEF Spots
  <1>7. (\A d \in S : d = <<d[1], d[2]>>) /\ (\A d \in B : d = <<d[1], d[2]>>)
    BY <1>1 DEF Spots
  <1>8. ASSUME NEW n, NEW j, ~(n = p /\ j = c)  PROVE <<n, j>> \in S <=> <<n, j>> \in B
    <2>1. CASE n = p
      <3>1. j \in 1 .. Len(a) => b[j] = a[j]  BY <1>4, <1>8, <2>1
      <3> QED  BY <1>3, <1>4, <1>5, <1>6, <2>1, <3>1
    <2>2. CASE n # p
      <3>1. n \in V => g[n] = h[n]  BY <1>4, <2>2
      <3> QED  BY <1>5, <1>6, <3>1
    <2> QED  BY <2>1, <2>2
  <1>9. S \ {v} = B \ {v}
    <2>1. ASSUME NEW d, d # v  PROVE d \in S <=> d \in B
      <3>1. ASSUME d \in S \/ d \in B  PROVE d = <<d[1], d[2]>> /\ ~(d[1] = p /\ d[2] = c)
        BY <1>1, <1>7, <2>1, <3>1
      <3> QED  BY <1>8, <3>1
    <2> QED  BY <2>1
  <1>10. (v \in S <=> a[c] \in E) /\ (v \in B <=> w \in E)
    <2>1. b[c] = w /\ c \in 1 .. Len(b)  BY <1>4
    <2> QED  BY <1>1, <1>3, <1>4, <1>5, <1>6, <2>1
  <1>11. PICK D : D = S \ {v}  OBVIOUS
  <1>12. /\ IsFiniteSet(D) /\ Cardinality(D) \in Nat /\ v \notin D
         /\ Cardinality(D \cup {v}) = Cardinality(D) + 1
    BY <1>2, <1>11, FS_Subset, FS_AddElement, FS_CardinalityType
  <1>13. Cardinality(S) = Cardinality(D) + Unit(a[c], E)
    <2>1. CASE v \in S
      <3>1. S = D \cup {v}  BY <1>11, <2>1
      <3> QED  BY <1>10, <1>12, <2>1, <3>1 DEF Unit
    <2>2. CASE v \notin S
      <3>1. S = D  BY <1>11, <2>2
      <3> QED  BY <1>10, <1>12, <2>2, <3>1 DEF Unit
    <2> QED  BY <2>1, <2>2
  <1>14. Cardinality(B) = Cardinality(D) + Unit(w, E)
    <2>1. CASE v \in B
      <3>1. B = D \cup {v}  BY <1>9, <1>11, <2>1
      <3> QED  BY <1>10, <1>12, <2>1, <3>1 DEF Unit
    <2>2. CASE v \notin B
      <3>1. B = D  BY <1>9, <1>11, <2>2
      <3> QED  BY <1>10, <1>12, <2>2, <3>1 DEF Unit
    <2> QED  BY <2>1, <2>2
  <1>15. Unit(w, E) \in Nat /\ Unit(a[c], E) \in Nat  BY DEF Unit
  <1> QED  BY <1>1, <1>3, <1>12, <1>13, <1>14, <1>15 DEF Count

-----------------------------------------------------------------------------
(* The turns of a deletion: what each does to the tree, and where it goes on.  *)

IndexOf(n, e, st) ==
  CASE st = 0 -> FindKIndex(n, e) [] st = 1 -> N(n) - 1 [] st = 2 -> -1

HitAt(n, e, st) == st = 0 /\ IndexOf(n, e, st) >= 0 /\ Key(n, IndexOf(n, e, st)) = e

\* The key before the child j is e.
HitHere(h, R, a, e, st, j) == st = 0 /\ j >= 2 /\ h[a].key[j - 1] = e /\ e \in R[a]

TurnsAt(h, V, L, R, a, e, st, p, i, j) ==
  /\ j \in 1 .. Len(h[a].kid) /\ Len(h[a].kid) = Len(h[a].key) + 1
  /\ IndexOf(h[a], e, st) = j - 2
  /\ HitAt(h[a], e, st) => HitHere(h, R, a, e, st, j)
  /\ ~HitAt(h[a], e, st) => Heading(h, V, L, R, a, e, st, p, i, j)

\* Where nodedeletekey turns in a node: the child it goes on in, or the key itself.
LEMMA TurnHere ==
  ASSUME NEW h, NEW r, NEW V, NEW L, NEW R, Good(h, r, V, L, R),
         NEW a, NEW e, NEW st \in 0 .. 2, NEW p, NEW i, Going(h, r, V, L, R, a, e, st, p, i),
         ~h[a].leaf
  PROVE  \E j : TurnsAt(h, V, L, R, a, e, st, p, i, j)
  <1>1. a \in V  BY DEF Going, Stout
  <1>2. Fact(h, V, L, R, a)  BY <1>1, FactOf
  <1>3. Len(h[a].kid) = Len(h[a].key) + 1 /\ Len(h[a].key) \in Nat  BY <1>2 DEF Fact
  <1>4. CASE st = 0
    <2>1. PICK S : Leads(h, V, R, a, e, S)  BY <1>4 DEF Going, Searching
    <2>2. PICK c \in 0 .. Len(h[a].key) :
            /\ FindKIndex(h[a], e) = c - 1
            /\ Between(h[a].key, c + 1, e)
            /\ \/ c >= 1 /\ h[a].key[c] = e
               \/ /\ c >= 1 => h[a].key[c] # e
                  /\ ~h[a].leaf /\ c + 1 \in 1 .. Len(h[a].kid) /\ h[a].kid[c + 1] \in S
      BY <2>1, LeadsHere
    <2>3. IndexOf(h[a], e, st) = c - 1  BY <1>4, <2>2 DEF IndexOf
    <2>4. e \in R[a]  BY <2>1 DEF Leads
    <2>5. HitAt(h[a], e, st) <=> (c >= 1 /\ h[a].key[c] = e)
      BY <1>4, <2>2, <2>3 DEF HitAt, Key
    <2>6. c + 1 \in 1 .. Len(h[a].kid) /\ c + 1 - 2 = c - 1 /\ (c >= 1 => c + 1 >= 2 /\ c + 1 - 1 = c)
      BY <1>3, <2>2
    <2>7. HitAt(h[a], e, st) => HitHere(h, R, a, e, st, c + 1)
      BY <1>4, <2>4, <2>5, <2>6 DEF HitHere
    <2>8. ~HitAt(h[a], e, st) => Heading(h, V, L, R, a, e, st, p, i, c + 1)
      BY <1>4, <2>1, <2>2, <2>5, <2>6 DEF Heading
    <2>9. TurnsAt(h, V, L, R, a, e, st, p, i, c + 1)
      BY <1>3, <2>3, <2>6, <2>7, <2>8 DEF TurnsAt
    <2> QED  BY <2>9
  <1>5. CASE st # 0
    <2>1. Fetching(h, V, L, R, a, e, st, p, i)  BY <1>5 DEF Going
    <2>2. ~HitAt(h[a], e, st)  BY <1>5 DEF HitAt
    <2>3. CASE st = 1
      <3>1. IndexOf(h[a], e, st) = Len(h[a].kid) - 2  BY <1>3, <2>3 DEF IndexOf, N
      <3>2. Len(h[a].kid) \in 1 .. Len(h[a].kid)  BY <1>3
      <3>3. Heading(h, V, L, R, a, e, st, p, i, Len(h[a].kid))  BY <2>1, <2>3, <3>2 DEF Heading
      <3>4. TurnsAt(h, V, L, R, a, e, st, p, i, Len(h[a].kid))
        BY <1>3, <2>2, <3>1, <3>2, <3>3 DEF TurnsAt
      <3> QED  BY <3>4
    <2>4. CASE st = 2
      <3>1. IndexOf(h[a], e, st) = 1 - 2  BY <2>4 DEF IndexOf
      <3>2. 1 \in 1 .. Len(h[a].kid)  BY <1>3
      <3>3. Heading(h, V, L, R, a, e, st, p, i, 1)  BY <2>1, <2>4, <3>2 DEF Heading
      <3>4. TurnsAt(h, V, L, R, a, e, st, p, i, 1)
        BY <1>3, <2>2, <3>1, <3>2, <3>3 DEF TurnsAt
      <3> QED  BY <3>4
    <2> QED  BY <1>5, <2>3, <2>4
  <1> QED  BY <1>4, <1>5

\* A turn that leaves g, has lost no key, and goes on in c.
Turned(h, V, g, r, c, e, st, p, i) ==
  /\ \E W, M, Q : GoesOn(g, r, W, M, Q, c, e, st, p, i) /\ Alike(h, V, g, W)
  /\ Len(g) = Len(h)

\* The children u + 1 and u + 2 of a are merged, and one of them was on the way.
LEMMA MergeOn ==
  ASSUME NEW h, NEW r, NEW V, NEW L, NEW R, Held(h, r, V, L, R),
         NEW a \in V, a = r \/ N(h[a]) >= T,
         NEW u, NEW y, NEW g, NEW z, MergeAt(h, g, a, u, y, z),
         N(h[y]) = T - 1, N(h[z]) = T - 1,
         NEW e, NEW st, NEW p, NEW i, NEW j, Heading(h, V, L, R, a, e, st, p, i, j),
         j = u + 1 \/ j = u + 2, st = 1 => j = u + 2, st # 0 /\ st # 1 => j = u + 1
  PROVE  Turned(h, V, g, r, y, e, st, p, i)
  <1>1. PICK W, M, Q :
          /\ Held(g, r, W, M, Q) /\ Cut(g, h, W, a, u + 1, y, z) /\ Adds(V, W, z)
          /\ Elsewhere(h, g, V, W, L, M, R, Q, a, y, z)
          /\ Pair(V, L, r, a, y, z) /\ y \in W /\ M[y] = L[y] /\ W \subseteq V
          /\ Q[y] = Gap(R[a], g[a].key, u + 1)
          /\ Len(g[y].key) = Full /\ Len(g[a].key) = Len(h[a].key) - 1
    BY MergeStep
  <1>2. Good(h, r, V, L, R) /\ Good(g, r, W, M, Q)  BY <1>1 DEF Held
  <1>3. Cut(g, h, W, a, u + 1, y, z) /\ Adds(V, W, z) /\ y \in W  BY <1>1
  <1>4. /\ a \in V /\ y \in V /\ z \in V /\ y # a /\ L[a] = L[y] + 1 /\ L[z] = L[y] /\ L[y] \in Nat
    BY <1>1 DEF Pair
  <1>5. Moves(h, g, r, r, V, W, L, M, R, Q, a, y, z)
    <2>1. L \in [V -> Nat]  BY <1>2 DEF Good, Tree
    <2>2. Under(V, L, a, y, z)  BY <1>4, <2>1 DEF Under
    <2> QED  BY <1>1, <1>2, <2>2 DEF Moves
  <1>6. Absorbs(h[y], g[y]) /\ Absorbs(h[z], g[y])  BY Zenon, <1>3, CutAbsorbs
  <1>7. u \in Nat /\ h[a].kid[u + 1] = y /\ h[a].kid[u + 2] = z  BY DEF MergeAt
  <1>8. h[a].kid[j] \in {y, z}  BY <1>7
  <1>9. Absorbs(h[h[a].kid[j]], g[y]) /\ L[h[a].kid[j]] = L[y]  BY <1>4, <1>6, <1>8
  <1>10. /\ ~g[a].leaf /\ Inserted(h[a].key, g[a].key, u + 1, h[a].key[u + 1])
         /\ y = g[a].kid[u + 1] /\ Len(h[a].kid) = Len(g[a].kid) + 1
    BY <1>3 DEF Cut, Inserted
  <1>11. ASSUME st = 0  PROVE e \in Q[y]
    <2>1. e \in Gap(R[a], h[a].key, j)  BY <1>2, <1>11, HeadingKey
    <2>2. Fact(h, V, L, R, a)  BY <1>2, FactOf
    <2>3. R[a] \in SUBSET Nat /\ h[a].key \in Seq(R[a]) /\ Sorted(h[a].key)  BY <2>2 DEF Fact
    <2>4. g[a].key \in Seq(Nat)
      <3>1. a \in W  BY <1>1 DEF Elsewhere
      <3> QED  BY <1>2, <3>1, NodeFacts
    <2>5. /\ Gap(R[a], h[a].key, u + 1) \subseteq Gap(R[a], g[a].key, u + 1)
          /\ Gap(R[a], h[a].key, u + 1 + 1) \subseteq Gap(R[a], g[a].key, u + 1)
      <3>1. PICK A, q, b, f : A = R[a] /\ q = h[a].key /\ b = g[a].key /\ f = h[a].key[u + 1]
        OBVIOUS
      <3>2. A \in SUBSET Nat /\ b \in Seq(Nat) /\ q \in Seq(A) /\ Sorted(q)  BY <2>3, <2>4, <3>1
      <3>3. Inserted(q, b, u + 1, f)  BY <1>10, <3>1
      <3>4. Gap(A, q, u + 1) \subseteq Gap(A, b, u + 1) /\ Gap(A, q, u + 1 + 1) \subseteq Gap(A, b, u + 1)
        BY Zenon, <3>2, <3>3, DroppedGaps
      <3> QED  BY <3>1, <3>4
    <2>6. u + 1 + 1 = u + 2  BY <1>7
    <2> QED  BY <1>1, <2>1, <2>5, <2>6
  <1>12. st = 1 => y = g[a].kid[Len(g[a].kid)]
    <2>1. ASSUME st = 1  PROVE Len(g[a].kid) = u + 1
      <3>1. j = Len(h[a].kid) /\ j = u + 2  BY <2>1 DEF Heading
      <3>2. Len(g[a].kid) \in Nat
        <4>1. a \in W  BY <1>1 DEF Elsewhere
        <4> QED  BY <1>2, <4>1, NodeShape
      <3> QED  BY <1>7, <1>10, <3>1, <3>2
    <2> QED  BY <1>10, <2>1
  <1>13. st # 0 /\ st # 1 => y = g[a].kid[1]
    <2>1. ASSUME st # 0 /\ st # 1  PROVE u + 1 = 1
      <3>1. j = 1 /\ j = u + 1  BY <2>1 DEF Heading
      <3> QED  BY <3>1
    <2> QED  BY <1>10, <2>1
  <1>14. Takes(h, g, W, L, Q, a, y, e, st, j, y)
    BY <1>3, <1>9, <1>10, <1>11, <1>12, <1>13 DEF Takes
  <1>15. N(g[y]) >= T  BY <1>1, SizesAssumption DEF N, Full
  <1>16. Going(g, r, W, M, Q, y, e, st, p, i)  BY Zenon, <1>5, <1>14, <1>15, WayOn
  <1>17. Alike(h, V, g, W)
    <2>1. Alike(g, W, h, V)  BY Zenon, <1>3, <1>4, CutAlike
    <2> QED  BY Zenon, <2>1, AlikeOnce
  <1>18. Held(g, r, W, M, Q)  BY <1>1
  <1>19. GoesOn(g, r, W, M, Q, y, e, st, p, i)  BY <1>16, <1>18 DEF GoesOn
  <1>20. Len(g) = Len(h)
    <2>1. Heap(h, V)  BY DEF Held
    <2>2. MergeGives(h, g, V, a, u, y, z)  BY Zenon, <1>2, <2>1, MergeIsCut
    <2> QED  BY <2>2 DEF MergeGives
  <1> QED  BY <1>17, <1>19, <1>20 DEF Turned

\* Case 2c: the key itself is between the two children.
LEMMA MergeKey ==
  ASSUME NEW h, NEW r, NEW V, NEW L, NEW R, Held(h, r, V, L, R),
         NEW a \in V, a = r \/ N(h[a]) >= T,
         NEW u, NEW y, NEW g, NEW z, MergeAt(h, g, a, u, y, z),
         N(h[y]) = T - 1, N(h[z]) = T - 1,
         NEW e, NEW st, NEW p, NEW i, HitHere(h, R, a, e, st, u + 2)
  PROVE  Turned(h, V, g, r, y, e, st, p, i)
  <1>1. PICK W, M, Q :
          /\ Held(g, r, W, M, Q) /\ Cut(g, h, W, a, u + 1, y, z) /\ Adds(V, W, z)
          /\ Elsewhere(h, g, V, W, L, M, R, Q, a, y, z)
          /\ Pair(V, L, r, a, y, z) /\ y \in W /\ M[y] = L[y] /\ W \subseteq V
          /\ Q[y] = Gap(R[a], g[a].key, u + 1)
          /\ Len(g[y].key) = Full /\ Len(g[a].key) = Len(h[a].key) - 1
    BY MergeStep
  <1>2. Good(h, r, V, L, R) /\ Good(g, r, W, M, Q)  BY <1>1 DEF Held
  <1>3. Cut(g, h, W, a, u + 1, y, z) /\ Adds(V, W, z) /\ y \in W /\ y # a  BY <1>1 DEF Pair
  <1>4. Has(g[y], h[a].key[u + 1])  BY Zenon, <1>3, CutAbsorbs
  <1>5. u \in Nat /\ u + 2 - 1 = u + 1  BY DEF MergeAt
  <1>6. st = 0 /\ h[a].key[u + 1] = e /\ e \in R[a]  BY <1>5 DEF HitHere
  <1>7. Inserted(h[a].key, g[a].key, u + 1, e)  BY <1>3, <1>6 DEF Cut
  <1>8. e \in Q[y]
    <2>1. PICK A, q, b : A = R[a] /\ q = h[a].key /\ b = g[a].key  OBVIOUS
    <2>2. Fact(h, V, L, R, a)  BY <1>2, FactOf
    <2>3. A \in SUBSET Nat /\ q \in Seq(A) /\ Sorted(q)  BY <2>1, <2>2 DEF Fact
    <2>4. b \in Seq(Nat)
      <3>1. a \in W  BY <1>1 DEF Elsewhere
      <3> QED  BY <1>2, <2>1, <3>1, NodeFacts
    <2>5. Inserted(q, b, u + 1, e)  BY <1>7, <2>1
    <2>6. Between(b, u + 1, e)  BY Zenon, <2>3, <2>4, <2>5, DroppedSorted
    <2> QED  BY <1>1, <1>6, <2>1, <2>6 DEF Gap
  <1>9. Leads(g, W, Q, y, e, {y})  BY <1>3, <1>4, <1>6, <1>8 DEF Leads
  <1>10. N(g[y]) >= T /\ N(g[y]) >= 1  BY <1>1, SizesAssumption DEF N, Full
  <1>11. Going(g, r, W, M, Q, y, e, st, p, i)
    BY <1>3, <1>6, <1>9, <1>10 DEF Going, Stout, Searching, Rooted
  <1>12. Alike(h, V, g, W)
    <2>1. Alike(g, W, h, V)  BY Zenon, <1>3, CutAlike
    <2> QED  BY Zenon, <2>1, AlikeOnce
  <1>13. Held(g, r, W, M, Q)  BY <1>1
  <1>14. GoesOn(g, r, W, M, Q, y, e, st, p, i)  BY <1>11, <1>13 DEF GoesOn
  <1>15. Len(g) = Len(h)
    <2>1. Heap(h, V)  BY DEF Held
    <2>2. MergeGives(h, g, V, a, u, y, z)  BY Zenon, <1>2, <2>1, MergeIsCut
    <2> QED  BY <2>2 DEF MergeGives
  <1> QED  BY <1>12, <1>14, <1>15 DEF Turned

\* Two children share their keys in another way.
LEMMA LendAlike ==
  ASSUME NEW m, NEW h, NEW g, NEW V, NEW a, NEW i, NEW y, NEW z,
         Cut(m, h, V \ {z}, a, i, y, z), Cut(m, g, V \ {z}, a, i, y, z),
         Adds(V, V \ {z}, z), y \in V, y # a, y # z
  PROVE  Alike(h, V, g, V)
  <1>1. y \in V \ {z}  OBVIOUS
  <1>2. Alike(m, V \ {z}, h, V)  BY Zenon, <1>1, CutAlike
  <1>3. Alike(m, V \ {z}, g, V)  BY Zenon, <1>1, CutAlike
  <1>4. Alike(h, V, m, V \ {z})  BY Zenon, <1>2, AlikeOnce
  <1> QED  BY Zenon, <1>3, <1>4, AlikeTwice

\* Cases 3a: the child that was on the way has got another key.

Aside(y, z, from, u, j) == (from = y => j = u + 1) /\ (from = z => j = u)

\* A loan to the child the call goes on in.
LEMMA LendOn ==
  ASSUME NEW h, NEW r, NEW V, NEW L, NEW R, Held(h, r, V, L, R),
         NEW a \in V, NEW m, NEW u, NEW y, NEW g, NEW z, NEW from, NEW to,
         Lends(m, h, g, V, a, u, y, z, from, to),
         NEW j, Aside(y, z, from, u, j), NEW e, NEW st, NEW p, NEW i, Heading(h, V, L, R, a, e, st, p, i, j)
  PROVE  Turned(h, V, g, r, to, e, st, p, i)
  <1>1. /\ LendAt(h, a, u, y, z) /\ Cut(m, h, V \ {z}, a, u, y, z) /\ Adds(V, V \ {z}, z)
        /\ LendGives(m, h, g, V, a, u, y, z, from, to)
        /\ N(h[from]) >= T /\ N(h[to]) = T - 1
    BY DEF Lends
  <1>2. (from = y /\ to = z /\ j = u + 1) \/ (from = z /\ to = y /\ j = u)
    BY DEF Lends, Aside
  <1>2a. PICK M, Q : Lent(h, g, r, V, L, M, R, Q, a, u, y, z, from, to)
    BY Zenon, LendStep
  <1>3. /\ Held(g, r, V, M, Q) /\ Elsewhere(h, g, V, V, L, M, R, Q, a, y, z)
        /\ Pair(V, L, r, a, y, z) /\ M[y] = L[y] /\ M[z] = L[y]
        /\ from = y => Gap(R[a], h[a].key, u + 1) \subseteq Q[z]
        /\ from = z => Gap(R[a], h[a].key, u) \subseteq Q[y]
        /\ Len(g[to].key) = T
    BY <1>2a DEF Lent
  <1>4. Good(h, r, V, L, R) /\ Good(g, r, V, M, Q)  BY <1>3 DEF Held
  <1>5. /\ a \in V /\ y \in V /\ z \in V /\ y # a /\ y # z
        /\ L[a] = L[y] + 1 /\ L[z] = L[y] /\ L[y] \in Nat
    BY <1>3 DEF Pair
  <1>6. Moves(h, g, r, r, V, V, L, M, R, Q, a, y, z)
    <2>1. L \in [V -> Nat]  BY <1>4 DEF Good, Tree
    <2>2. Under(V, L, a, y, z)  BY <1>5, <2>1 DEF Under
    <2>3. Elsewhere(h, g, V, V, L, M, R, Q, a, y, z)  BY <1>3
    <2> QED  BY <1>4, <2>2, <2>3 DEF Moves
  <1>7. /\ Cut(m, g, V \ {z}, a, u, y, z)
        /\ Len(g[to].key) = Len(h[to].key) + 1 /\ g[a].kid = h[a].kid
    BY <1>1 DEF LendGives
  <1>8. to \in V /\ L[to] = L[y]  BY <1>2, <1>5
  <1>9. h[a].kid[j] = to  BY <1>1, <1>2 DEF LendAt
  <1>10. Absorbs(h[to], g[to])
    <2>1. /\ Len(g[y].key) = Len(h[y].key) + 1 => Absorbs(h[y], g[y])
          /\ Len(g[z].key) = Len(h[z].key) + 1 => Absorbs(h[z], g[z])
      BY Zenon, <1>1, <1>7, LendAbsorbs
    <2> QED  BY <1>2, <1>7, <2>1
  <1>11. ASSUME st = 0  PROVE e \in Q[to]
    <2>1. e \in Gap(R[a], h[a].key, j)  BY <1>4, <1>11, HeadingKey
    <2> QED  BY <1>2, <1>3, <2>1
  <1>12. ~g[a].leaf  BY <1>7 DEF Cut
  <1>13. /\ st = 1 => to = g[a].kid[Len(g[a].kid)]
         /\ (st # 0 /\ st # 1) => to = g[a].kid[1]
    BY <1>7, <1>9 DEF Heading
  <1>14. Takes(h, g, V, L, Q, a, y, e, st, j, to)
    BY <1>8, <1>9, <1>10, <1>11, <1>12, <1>13 DEF Takes
  <1>15. N(g[to]) >= T  BY <1>3, SizesAssumption DEF N
  <1>16. Going(g, r, V, M, Q, to, e, st, p, i)  BY Zenon, <1>6, <1>14, <1>15, WayOn
  <1>17. Alike(h, V, g, V)  BY Zenon, <1>1, <1>5, <1>7, LendAlike
  <1>18. Held(g, r, V, M, Q)  BY <1>3
  <1>19. GoesOn(g, r, V, M, Q, to, e, st, p, i)  BY <1>16, <1>18 DEF GoesOn
  <1>20. Len(g) = Len(h)  BY <1>1 DEF LendGives
  <1> QED  BY <1>17, <1>19, <1>20 DEF Turned

\* Case 3a with the left sibling.
LEMMA LendRightTurn ==
  ASSUME NEW h, NEW r, NEW V, NEW L, NEW R, Held(h, r, V, L, R),
         NEW a \in V, NEW u, NEW y, NEW z, LendAt(h, a, u, y, z),
         N(h[y]) >= T, N(h[z]) = T - 1, NEW g, g = LendRight(h, a, u),
         NEW e, NEW st, NEW p, NEW i, Heading(h, V, L, R, a, e, st, p, i, u + 1)
  PROVE  Turned(h, V, g, r, z, e, st, p, i)
  <1>1. Good(h, r, V, L, R) /\ Heap(h, V)  BY DEF Held
  <1>2. Pair(V, L, r, a, y, z)  BY Zenon, <1>1, PairOf
  <1>3. PICK m : Cut(m, h, V \ {z}, a, u, y, z) /\ Adds(V, V \ {z}, z)  BY <1>1, MergedFirst
  <1>4. Len(h[y].key) >= 1
    <2>1. y \in V  BY <1>2 DEF Pair
    <2>2. Len(h[y].key) \in Nat  BY <1>1, <2>1, AllNoded
    <2> QED  BY <2>2, SizesAssumption DEF N
  <1>5. LendGives(m, h, g, V, a, u, y, z, y, z)  BY <1>1, <1>3, <1>4, LendRightIsCut
  <1>6. Lends(m, h, g, V, a, u, y, z, y, z)  BY <1>3, <1>5 DEF Lends
  <1>7. Aside(y, z, y, u, u + 1)  BY <1>2 DEF Pair, Aside
  <1> QED  BY Zenon, <1>6, <1>7, LendOn

\* Case 3a with the right sibling.
LEMMA LendLeftTurn ==
  ASSUME NEW h, NEW r, NEW V, NEW L, NEW R, Held(h, r, V, L, R),
         NEW a \in V, NEW u, NEW y, NEW z, LendAt(h, a, u, y, z),
         N(h[z]) >= T, N(h[y]) = T - 1, NEW g, g = LendLeft(h, a, u),
         NEW e, NEW st, NEW p, NEW i, Heading(h, V, L, R, a, e, st, p, i, u)
  PROVE  Turned(h, V, g, r, y, e, st, p, i)
  <1>1. Good(h, r, V, L, R) /\ Heap(h, V)  BY DEF Held
  <1>2. Pair(V, L, r, a, y, z)  BY Zenon, <1>1, PairOf
  <1>3. PICK m : Cut(m, h, V \ {z}, a, u, y, z) /\ Adds(V, V \ {z}, z)  BY <1>1, MergedFirst
  <1>4. Len(h[z].key) >= 1
    <2>1. z \in V  BY <1>2 DEF Pair
    <2>2. Len(h[z].key) \in Nat  BY <1>1, <2>1, AllNoded
    <2> QED  BY <2>2, SizesAssumption DEF N
  <1>4a. Len(h[y].key) = T - 1  BY DEF N
  <1>5. LendGives(m, h, g, V, a, u, y, z, z, y)  BY <1>1, <1>3, <1>4, <1>4a, LendLeftIsCut
  <1>6. Lends(m, h, g, V, a, u, y, z, z, y)  BY <1>3, <1>5 DEF Lends
  <1>7. Aside(y, z, z, u, u)  BY <1>2 DEF Pair, Aside
  <1> QED  BY Zenon, <1>6, <1>7, LendOn

\* A tree is like itself.
LEMMA AlikeSame ==
  ASSUME NEW h, NEW V
  PROVE  Alike(h, V, h, V)
  BY Fun_ExistsBijReflexive DEF Alike

\* Case 3 with enough keys in the child.
LEMMA DescendTurn ==
  ASSUME NEW h, NEW r, NEW V, NEW L, NEW R, Held(h, r, V, L, R), NEW a \in V, ~h[a].leaf,
         NEW e, NEW st, NEW p, NEW i, NEW j, Heading(h, V, L, R, a, e, st, p, i, j),
         NEW c, c = h[a].kid[j], N(h[c]) >= T
  PROVE  Turned(h, V, h, r, c, e, st, p, i)
  <1>1. Going(h, r, V, L, R, c, e, st, p, i)  BY Zenon, DescendStep
  <1>2. GoesOn(h, r, V, L, R, c, e, st, p, i)  BY <1>1 DEF GoesOn
  <1>3. Alike(h, V, h, V)  BY AlikeSame
  <1> QED  BY <1>2, <1>3 DEF Turned

\* Cases 2a and 2b: on to the key next to e, on the left or on the right.
KeyIs(h, a, i, e) == h[a].key[i + 1] = e

\* Cases 2a and 2b: the neighbour of the key is fetched from below.
LEMMA NextToTurn ==
  ASSUME NEW h, NEW r, NEW V, NEW L, NEW R, Held(h, r, V, L, R), NEW a \in V, ~h[a].leaf,
         NEW e, NEW i, KeyIs(h, a, i, e),
         NEW last \in BOOLEAN, NEW c, NextTo(h, a, i, last, c), N(h[c]) >= T,
         NEW to, last <=> to = 1, to # 0
  PROVE  Turned(h, V, h, r, c, e, to, a, i)
  <1>1. Good(h, r, V, L, R)  BY DEF Held

  <1>7. Spine(h, V, L, R, a, i, c, {c}, last) /\ c \in V  BY Zenon, <1>1, SpineStart
  <1>8. (last <=> to = 1) /\ to # 0  OBVIOUS
  <1>9. h[a].key[i + 1] = e  BY DEF KeyIs
  <1>10. Fetching(h, V, L, R, c, e, to, a, i)  BY <1>7, <1>8, <1>9 DEF Fetching
  <1>11. N(h[c]) >= 1
    <2>1. N(h[c]) \in Nat  BY <1>1, <1>7, AllNoded DEF N
    <2> QED  BY <2>1, SizesAssumption
  <1>12. Going(h, r, V, L, R, c, e, to, a, i)
    BY <1>7, <1>8, <1>10, <1>11 DEF Going, Stout, Rooted
  <1>13. GoesOn(h, r, V, L, R, c, e, to, a, i)  BY <1>12 DEF GoesOn
  <1>14. Alike(h, V, h, V)  BY AlikeSame
  <1> QED  BY <1>13, <1>14 DEF Turned

-----------------------------------------------------------------------------
(* The end of the way: a leaf loses a key, and a key above may take its place. *)

Replacing(h, V, L, R, a, w, p, i, e) ==
  /\ \E last \in BOOLEAN :
       /\ \E S : Spine(h, V, L, R, p, i, a, S, last)
       /\ KeysBeside(h, a, w, last)
  /\ h[a].leaf /\ w \in R[a] /\ KeyIs(h, p, i, e)

LeafAt(h, g, a, e, st, d, w) ==
  /\ d = (IF st = 2 THEN IndexOf(h[a], e, st) + 1 ELSE IndexOf(h[a], e, st))
  /\ w = Key(h[a], d)
  /\ g = [h EXCEPT ![a] = DropKey(@, d)]

\* The key that is taken out of the leaf.
LeafKeyIs(h, a, e, st, d, w) ==
  /\ d \in 0 .. Len(h[a].key) - 1 /\ w = h[a].key[d + 1]
  /\ st = 0 => w = e
  /\ st = 1 => d + 1 = Len(h[a].key)
  /\ st = 2 => d = 0

\* The leaf a deletion ends in has its key at the index of case 1.
LEMMA LeafKey ==
  ASSUME NEW h, NEW r, NEW V, NEW L, NEW R, Held(h, r, V, L, R),
         NEW a, NEW e, NEW st \in 0 .. 2, NEW p, NEW i, Going(h, r, V, L, R, a, e, st, p, i),
         h[a].leaf, NEW d, NEW w, NEW g, LeafAt(h, g, a, e, st, d, w)
  PROVE  LeafKeyIs(h, a, e, st, d, w)
  <1> SUFFICES /\ d \in 0 .. Len(h[a].key) - 1 /\ w = h[a].key[d + 1]
               /\ st = 0 => w = e
               /\ st = 1 => d + 1 = Len(h[a].key)
               /\ st = 2 => d = 0
    BY DEF LeafKeyIs
  <1>1. Good(h, r, V, L, R) /\ a \in V /\ (a = r \/ N(h[a]) >= T)  BY DEF Held, Going, Stout
  <1>2. Len(h[a].key) \in Nat  BY <1>1, AllNoded
  <1>3. w = h[a].key[d + 1]  BY DEF LeafAt, Key
  <1>4. CASE st = 0
    <2>1. PICK S : Leads(h, V, R, a, e, S)  BY <1>4 DEF Going, Searching
    <2>2. PICK c \in 0 .. Len(h[a].key) :
            /\ FindKIndex(h[a], e) = c - 1
            /\ Between(h[a].key, c + 1, e)
            /\ \/ c >= 1 /\ h[a].key[c] = e
               \/ /\ c >= 1 => h[a].key[c] # e
                  /\ ~h[a].leaf /\ c + 1 \in 1 .. Len(h[a].kid) /\ h[a].kid[c + 1] \in S
      BY <1>1, <2>1, LeadsHere
    <2>3. d = c - 1  BY <1>4, <2>2 DEF LeafAt, IndexOf
    <2>4. d \in 0 .. Len(h[a].key) - 1 /\ d + 1 = c  BY <1>2, <2>2, <2>3
    <2> QED  BY <1>3, <1>4, <2>2, <2>4
  <1>5. CASE st # 0
    <2>1. Fetching(h, V, L, R, a, e, st, p, i)  BY <1>5 DEF Going
    <2>2. L[a] < L[p] /\ p \in V /\ a \in V  BY <2>1 DEF Fetching, Spine
    <2>3. L[p] <= L[r] /\ L[p] \in Nat /\ L[a] \in Nat  BY <1>1, <2>2 DEF Good, Tree
    <2>4. a # r  BY <2>2, <2>3
    <2>5. Len(h[a].key) >= 1  BY <1>1, <1>2, <2>4, SizesAssumption DEF N
    <2>6. CASE st = 1
      <3>1. d = Len(h[a].key) - 1  BY <2>6 DEF LeafAt, IndexOf, N
      <3>2. d \in 0 .. Len(h[a].key) - 1 /\ d + 1 = Len(h[a].key)  BY <1>2, <2>5, <3>1
      <3> QED  BY <1>3, <2>6, <3>2
    <2>7. CASE st = 2
      <3>1. d = -1 + 1  BY <2>7 DEF LeafAt, IndexOf
      <3>2. d \in 0 .. Len(h[a].key) - 1 /\ d = 0  BY <1>2, <2>5, <3>1
      <3> QED  BY <1>3, <2>7, <3>2
    <2> QED  BY <1>5, <2>6, <2>7
  <1> QED  BY <1>4, <1>5

Dropped(h, g, r, V, L, R, a, e, st, p, i, w) ==
  /\ Held(g, r, V, L, R) /\ OneMore(g, h, V, a, w) /\ w \in Keys /\ Len(g) = Len(h)
  /\ st = 0 => w = e
  /\ st # 0 => Replacing(g, V, L, R, a, w, p, i, e)

\* Case 1: the key is taken out of the leaf.
LEMMA LeafTurn ==
  ASSUME NEW h, NEW r, NEW V, NEW L, NEW R, Held(h, r, V, L, R),
         NEW a, NEW e, NEW st \in 0 .. 2, NEW p, NEW i, Going(h, r, V, L, R, a, e, st, p, i),
         h[a].leaf, NEW d, NEW w, NEW g, LeafAt(h, g, a, e, st, d, w)
  PROVE  Dropped(h, g, r, V, L, R, a, e, st, p, i, w)
  <1>1. Good(h, r, V, L, R) /\ a \in V /\ (a = r \/ N(h[a]) >= T)  BY DEF Held, Going, Stout
  <1>2. /\ d \in 0 .. Len(h[a].key) - 1 /\ w = h[a].key[d + 1]
        /\ st = 0 => w = e
        /\ st = 1 => d + 1 = Len(h[a].key)
        /\ st = 2 => d = 0
    <2>1. LeafKeyIs(h, a, e, st, d, w)  BY Zenon, LeafKey
    <2> QED  BY <2>1 DEF LeafKeyIs
  <1>3. DropLeaf(h, g, a, d)  BY <1>2 DEF LeafAt, DropLeaf, N
  <1>4. /\ Held(g, r, V, L, R) /\ Len(g) = Len(h) /\ \A n \in V \ {a} : g[n] = h[n]
        /\ g[a].leaf /\ Inserted(h[a].key, g[a].key, d + 1, h[a].key[d + 1])
    <2>1. LeafDropped(h, g, r, V, L, R, a, d)  BY Zenon, <1>1, <1>3, DropLeafStep
    <2> QED  BY <2>1 DEF LeafDropped
  <1>5. Inserted(h[a].key, g[a].key, d + 1, w)  BY <1>2, <1>4
  <1>6. g[a].key \in Seq(Keys) /\ Len(g[a].key) \in Nat
    <2>1. Good(g, r, V, L, R)  BY <1>4 DEF Held
    <2> QED  BY <1>1, <2>1, AllNoded
  <1>7. OneMore(g, h, V, a, w)
    <2>1. MoreAt(g, h, V, a, d + 1, w)  BY <1>1, <1>4, <1>5, <1>6 DEF MoreAt
    <2> QED  BY <2>1 DEF OneMore
  <1>8. PICK q, A : q = h[a].key /\ A = R[a]  OBVIOUS
  <1>9. Fact(h, V, L, R, a)  BY <1>1, FactOf
  <1>10. q \in Seq(A) /\ A \subseteq Keys /\ A \in SUBSET Nat /\ Sorted(q) /\ Len(q) \in Nat
    BY <1>8, <1>9 DEF Fact
  <1>11. d + 1 \in 1 .. Len(q) /\ w = q[d + 1] /\ d \in Nat
    <2>1. d \in 0 .. Len(q) - 1 /\ w = q[d + 1]  BY <1>2, <1>8
    <2> QED  BY <1>10, <2>1
  <1>12. w \in A  BY <1>10, <1>11
  <1>13. w \in Keys /\ w \in R[a]  BY <1>8, <1>10, <1>12
  <1>14. ASSUME st # 0  PROVE Replacing(g, V, L, R, a, w, p, i, e)
    <2>1. Fetching(h, V, L, R, a, e, st, p, i)  BY <1>14 DEF Going
    <2>2. PICK last \in BOOLEAN : (last <=> st = 1) /\ \E S : Spine(h, V, L, R, p, i, a, S, last)
      BY <2>1 DEF Fetching
    <2>3. PICK S : Spine(h, V, L, R, p, i, a, S, last)  BY <2>2
    <2>4. /\ p \in V /\ i \in 0 .. Len(h[p].key) - 1 /\ ~h[p].leaf
          /\ a \in S /\ S \subseteq V
          /\ h[p].kid[IF last THEN i + 1 ELSE i + 2] \in S
          /\ \A n \in S : L[n] < L[p] /\ R[a] \subseteq R[n]
          /\ \A n \in S \ {a} :
               /\ L[n] > L[a] /\ End(h[n], last) \in S
               /\ \A j \in 1 .. Len(h[n].key), b \in R[a] : Beside(last, h[n].key[j], b)
      BY <2>3 DEF Spine
    <2>5. L[a] < L[p] /\ L[a] \in Nat  BY <1>1, <2>4 DEF Good, Tree
    <2>6. p \in V \ {a} /\ g[p] = h[p]
      <3>1. p # a  BY <2>5
      <3> QED  BY <1>4, <2>4, <3>1
    <2>7. \A n \in S \ {a} : g[n] = h[n]  BY <1>4, <2>4
    <2>8. Spine(g, V, L, R, p, i, a, S, last)  BY <2>4, <2>6, <2>7 DEF Spine
    <2>9. ASSUME NEW j \in 1 .. Len(g[a].key)  PROVE Beside(last, g[a].key[j], w)
      <3>1. PICK b : b \in 1 .. Len(q) /\ q[b] = g[a].key[j]
        <4>1. /\ Len(q) = Len(g[a].key) + 1
              /\ j < d + 1 => q[j] = g[a].key[j]
              /\ j >= d + 1 => q[j + 1] = g[a].key[j]
          BY <1>5, <1>8 DEF Inserted
        <4>2. j \in 1 .. Len(q) /\ j + 1 \in 1 .. Len(q) /\ j \in Nat  BY <1>6, <4>1
        <4> QED  BY <1>11, <4>1, <4>2
      <3>2. b \in Nat /\ 1 <= b /\ b <= Len(q)  BY <1>10, <3>1
      <3>3. CASE last
        <4>1. d + 1 = Len(q)  BY <1>2, <1>8, <2>2, <3>3
        <4>2. q[b] <= q[d + 1]  BY <1>11, <3>1, <3>2, <1>10, <4>1 DEF Sorted
        <4> QED  BY <1>11, <3>1, <3>3, <4>2 DEF Beside
      <3>4. CASE ~last
        <4>1. st = 2  BY <1>14, <2>2, <3>4
        <4>2. d = 0 /\ d + 1 <= b  BY <1>2, <3>2, <4>1
        <4>3. q[d + 1] <= q[b]  BY <1>10, <1>11, <3>1, <4>2 DEF Sorted
        <4> QED  BY <1>11, <3>1, <3>4, <4>3 DEF Beside
      <3> QED  BY <3>3, <3>4
    <2>10. KeyIs(g, p, i, e)  BY <2>1, <2>6 DEF Fetching, KeyIs
    <2>11. KeysBeside(g, a, w, last)  BY <2>9 DEF KeysBeside
    <2> QED  BY <1>4, <1>13, <2>2, <2>8, <2>10, <2>11 DEF Replacing
  <1> QED  BY <1>2, <1>4, <1>7, <1>13, <1>14 DEF Dropped

ReplacesAt(h, g, V, p, i, w, e) ==
  InPlace(h, g, V, p, i + 1, w) /\ h[p].key[i + 1] = e /\ Len(g) = Len(h)

\* The key fetched from below takes the place of the deleted one.
LEMMA ReplaceTurn ==
  ASSUME NEW h, NEW r, NEW V, NEW L, NEW R, Held(h, r, V, L, R),
         NEW a, NEW w, NEW p, NEW i, NEW e, Replacing(h, V, L, R, a, w, p, i, e),
         NEW g, ReplaceKeyAt(h, g, p, i, w)
  PROVE  /\ \E Q : Held(g, r, V, L, Q)
         /\ ReplacesAt(h, g, V, p, i, w, e)
  <1>1. PICK last \in BOOLEAN :
          /\ \E S : Spine(h, V, L, R, p, i, a, S, last)
          /\ KeysBeside(h, a, w, last)
    BY DEF Replacing
  <1>2. PICK S : Spine(h, V, L, R, p, i, a, S, last)  BY <1>1
  <1>3. h[a].leaf /\ w \in R[a] /\ h[p].key[i + 1] = e  BY DEF Replacing, KeyIs
  <1>3a. last \in BOOLEAN  BY <1>1
  <1>3b. PICK Q : KeyReplaced(h, g, r, V, L, Q, p, i, w)
    BY Zenon, <1>1, <1>2, <1>3, <1>3a, ReplaceStep
  <1>4. /\ Held(g, r, V, L, Q) /\ Len(g) = Len(h) /\ p \in V
        /\ \A n \in V \ {p} : g[n] = h[n]
        /\ Len(g[p].key) = Len(h[p].key)
        /\ \A j \in 1 .. Len(h[p].key) : g[p].key[j] = IF j = i + 1 THEN w ELSE h[p].key[j]
    BY <1>3b DEF KeyReplaced
  <1>5. h[p].key \in Seq(Keys) /\ Len(h[p].key) \in Nat
    <2>1. Good(h, r, V, L, R)  BY DEF Held
    <2> QED  BY <1>4, <2>1, AllNoded
  <1>6. i + 1 \in 1 .. Len(h[p].key)
    <2>1. i \in 0 .. Len(h[p].key) - 1  BY <1>2 DEF Spine
    <2> QED  BY <1>5, <2>1
  <1>7. Replaced(g[p].key, h[p].key, i + 1, w)  BY <1>4, <1>6 DEF Replaced
  <1>8. InPlace(h, g, V, p, i + 1, w)  BY <1>4, <1>5, <1>7 DEF InPlace
  <1> QED  BY <1>3, <1>4, <1>8 DEF ReplacesAt

\* A tree from which no key is lost.
Remains(h, V, g, r) ==
  \E W, M, Q : Held(g, r, W, M, Q) /\ Alike(h, V, g, W) /\ Rooted(g, r)



\* The end of bt_delete.
LEMMA ShrinkTurn ==
  ASSUME NEW h, NEW r, NEW V, NEW L, NEW R, Held(h, r, V, L, R),
         NEW c, NEW g, ShrinkAt(h, g, r, c)
  PROVE  Remains(h, V, g, c) /\ Len(g) = Len(h)
  <1>1. h[r].key = <<>> /\ ~h[r].leaf /\ c = h[r].kid[1] /\ g = [h EXCEPT ![r] = Freed]
    BY DEF ShrinkAt
  <1>1a. PICK W, M, Q : Shrunk(h, g, r, c, V, W, M, Q)  BY Zenon, ShrinkStep
  <1>2. /\ Held(g, c, W, M, Q) /\ W = V \ {r} /\ Len(g) = Len(h)
        /\ \A n \in W : g[n] = h[n]
    BY <1>1a DEF Shrunk
  <1>3. r \in V /\ Sized(h, r, V) /\ c \in W /\ Good(h, r, V, L, R)
    BY <1>2 DEF Held, Good, Tree
  <1>4. V = W \cup {r} /\ r \notin W  BY <1>2, <1>3
  <1>5. Alike(h, V, g, W)
    <2>1. Adds(V, W, r)  BY <1>4 DEF Adds
    <2>2. Len(h[r].key) = 0  BY <1>1
    <2>3. \A n \in W : h[n] = g[n]  BY <1>2
    <2>4. Alike(g, W, h, V)  BY <1>4, <2>1, <2>2, <2>3, EmptyAlike
    <2> QED  BY Zenon, <2>4, AlikeOnce
  <1>6. Rooted(g, c)
    <2>1. c \in V /\ c # r /\ g[c] = h[c]  BY <1>2, <1>3, <1>4
    <2>2. N(h[c]) >= T - 1  BY <1>3, <2>1 DEF Sized
    <2>3. N(h[c]) \in Nat  BY <1>3, <2>1, AllNoded DEF N
    <2>4. N(g[c]) >= 1  BY <2>1, <2>2, <2>3, SizesAssumption
    <2> QED  BY <2>4 DEF Rooted
  <1>7. Held(g, c, W, M, Q)  BY <1>2
  <1> QED  BY <1>2, <1>5, <1>6, <1>7 DEF Remains

-----------------------------------------------------------------------------
(* The turns of an insertion.                                                *)

Inserting(h, r, V, R, a, e) == a \in V /\ N(h[a]) < Full /\ e \in R[a] /\ Rooted(h, r)

Made(h, V, g, r, c, e) ==
  \E W, M, Q : Held(g, r, W, M, Q) /\ Inserting(g, r, W, Q, c, e) /\ Alike(h, V, g, W)



\* The end of bt_insert: the key is put into a leaf.
LEMMA PutTurn ==
  ASSUME NEW h, NEW r, NEW V, NEW L, NEW R, Held(h, r, V, L, R),
         NEW a, NEW e, Inserting(h, r, V, R, a, e), NEW g, PutAt(h, g, a, e)
  PROVE  Held(g, r, V, L, R) /\ Rooted(g, r) /\ OneMore(h, g, V, a, e) /\ Len(g) = Len(h)
  <1>1. /\ a \in V /\ N(h[a]) < Full /\ e \in R[a] /\ Rooted(h, r)
        /\ h[a].leaf /\ g = PutLeaf(h, a, e)
    BY DEF Inserting, PutAt
  <1>2. /\ Held(g, r, V, L, R) /\ Len(g) = Len(h) /\ \A n \in V \ {a} : g[n] = h[n]
        /\ \E i : Inserted(g[a].key, h[a].key, i, e)
        /\ Len(g[a].key) = Len(h[a].key) + 1
    <2>1. LeafGot(h, g, r, V, L, R, a, e)  BY Zenon, <1>1, PutLeafStep
    <2> QED  BY <2>1 DEF LeafGot
  <1>3. PICK i : Inserted(g[a].key, h[a].key, i, e)  BY <1>2
  <1>4. Good(h, r, V, L, R) /\ r \in V  BY DEF Held, Good, Tree
  <1>5. h[a].key \in Seq(Keys) /\ Len(h[a].key) \in Nat  BY <1>1, <1>4, AllNoded
  <1>6. MoreAt(h, g, V, a, i, e)  BY <1>1, <1>2, <1>3, <1>5 DEF MoreAt
  <1>7. Rooted(g, r)
    <2>1. CASE r = a
      <3>1. Len(g[a].key) >= 1  BY <1>2, <1>5
      <3> QED  BY <2>1, <3>1 DEF Rooted, N
    <2>2. CASE r # a
      <3>1. g[r] = h[r]  BY <1>2, <1>4, <2>2
      <3> QED  BY <1>1, <3>1 DEF Rooted
    <2> QED  BY <2>1, <2>2
  <1> QED  BY <1>2, <1>6, <1>7 DEF OneMore

\* The child an insertion goes on in.
LEMMA InsertHere ==
  ASSUME NEW h, NEW r, NEW V, NEW L, NEW R, Held(h, r, V, L, R),
         NEW a, NEW e, Inserting(h, r, V, R, a, e), ~h[a].leaf
  PROVE  \E i \in Nat : /\ i + 1 \in 1 .. Len(h[a].kid) /\ FindKIndex(h[a], e) + 1 = i
                        /\ Meant(h, R, a, i + 1, h[a].kid[i + 1], e)
  <1>1. Good(h, r, V, L, R) /\ a \in V /\ e \in R[a]  BY DEF Held, Inserting
  <1>2. Fact(h, V, L, R, a)  BY <1>1, FactOf
  <1>3. /\ h[a].key \in Seq(Nat) /\ Sorted(h[a].key) /\ Len(h[a].kid) = Len(h[a].key) + 1
        /\ Len(h[a].key) \in Nat /\ R[a] \in SUBSET Nat
    BY <1>2 DEF Fact
  <1>4. e \in Nat  BY <1>1, <1>3
  <1>5. PICK n : n = h[a]  OBVIOUS
  <1>6. PICK c \in 0 .. Len(n.key) :
          /\ FindKIndex(n, e) = c - 1
          /\ \A j \in 1 .. c : n.key[j] <= e
          /\ \A j \in c + 1 .. Len(n.key) : n.key[j] > e
    BY <1>3, <1>4, <1>5, RankOf
  <1>7. c \in Nat /\ c + 1 \in 1 .. Len(h[a].kid) /\ FindKIndex(h[a], e) + 1 = c
    BY <1>3, <1>5, <1>6
  <1>8. Between(n.key, c + 1, e)
    <2>1. c \in 1 .. Len(n.key) => n.key[c] <= e  BY <1>6, <1>7
    <2>2. c + 1 \in 1 .. Len(n.key) => e <= n.key[c + 1]
      <3>1. ASSUME c + 1 \in 1 .. Len(n.key)  PROVE e <= n.key[c + 1]
        <4>1. n.key[c + 1] > e /\ n.key[c + 1] \in Nat  BY <1>3, <1>5, <1>6, <3>1
        <4> QED  BY <1>4, <4>1
      <3> QED  BY <3>1
    <2>3. c + 1 - 1 = c  BY <1>7
    <2> QED  BY <2>1, <2>2, <2>3 DEF Between
  <1>9. Meant(h, R, a, c + 1, h[a].kid[c + 1], e)  BY <1>1, <1>5, <1>7, <1>8 DEF Meant
  <1> QED  BY <1>7, <1>9

\* An insertion may be let in at a child whose range it widens.
LEMMA WideHeld ==
  ASSUME NEW h, NEW r, NEW V, NEW L, NEW R, Held(h, r, V, L, R),
         NEW a \in V, NEW i, NEW y, NEW e, Meant(h, R, a, i, y, e)
  PROVE  \E Q : Held(h, r, V, L, Q) /\ e \in Q[y]
  <1>1. Good(h, r, V, L, R)  BY DEF Held
  <1>2. PICK Q : Wider(h, r, V, L, R, Q, y, e)  BY Zenon, <1>1, WidenChild
  <1> QED  BY <1>2 DEF Wider, Held

\* btreeinsertnonfull goes on in a child that is not full.
LEMMA WideTurn ==
  ASSUME NEW h, NEW r, NEW V, NEW L, NEW R, Held(h, r, V, L, R),
         NEW a, NEW e, Inserting(h, r, V, R, a, e), NEW i, NEW y, Meant(h, R, a, i, y, e),
         N(h[y]) # Full
  PROVE  Made(h, V, h, r, y, e)
  <1>1. a \in V /\ Rooted(h, r)  BY DEF Inserting
  <1>2. PICK Q : Held(h, r, V, L, Q) /\ e \in Q[y]  BY Zenon, <1>1, WideHeld
  <1>3. y \in V
    <2>1. i \in 1 .. Len(h[a].kid) /\ y = h[a].kid[i]  BY DEF Meant
    <2>2. Good(h, r, V, L, R)  BY DEF Held
    <2> QED  BY <1>1, <2>1, <2>2, NodeShape
  <1>4. N(h[y]) < Full
    <2>1. N(h[y]) <= Full  BY <1>3 DEF Held, Sized
    <2>2. N(h[y]) \in Nat  BY <1>2, <1>3, AllNoded DEF Held, N
    <2> QED  BY <2>1, <2>2, SizesAssumption DEF Full
  <1>5. Inserting(h, r, V, Q, y, e)  BY <1>1, <1>2, <1>3, <1>4 DEF Inserting
  <1>6. Alike(h, V, h, V)  BY AlikeSame
  <1> QED  BY <1>2, <1>5, <1>6 DEF Made

\* The half that gets the key.
HalfFor(g, a, i, e, c) ==
  c = IF e > g[a].key[i + 1] THEN g[a].kid[i + 2] ELSE g[a].kid[i + 1]

\* btreeinsertnonfull splits a full child and goes on in one of its halves.
LEMMA SplitTurn ==
  ASSUME NEW h, NEW r, NEW V, NEW L, NEW R, Held(h, r, V, L, R),
         NEW a, NEW e, Inserting(h, r, V, R, a, e),
         NEW i, NEW y, NEW g, NEW z, SplitAt(h, g, a, i, y, z), Meant(h, R, a, i + 1, y, e),
         NEW c, HalfFor(g, a, i, e, c)
  PROVE  Made(h, V, g, r, c, e) /\ Len(g) = Len(h) + 1
  <1>1. a \in V /\ N(h[a]) < Full /\ Rooted(h, r)  BY DEF Inserting
  <1>2. PICK Q0 : Held(h, r, V, L, Q0) /\ e \in Q0[y]  BY Zenon, <1>1, WideHeld
  <1>2a. e \in Q0[y]  BY <1>2
  <1>3. PICK W, M, Q : Halved(h, g, r, V, W, M, Q, a, i, y, z, e)
    BY Zenon, <1>1, <1>2, <1>2a, SplitStep
  <1>4. /\ Held(g, r, W, M, Q) /\ W = V \cup {z} /\ Cut(h, g, V, a, i + 1, y, z)
        /\ Len(g) = Len(h) + 1 /\ y \in V
        /\ N(g[y]) = T - 1 /\ N(g[z]) = T - 1 /\ N(g[a]) = N(h[a]) + 1
        /\ e <= g[a].key[i + 1] => e \in Q[y]
        /\ g[a].key[i + 1] <= e => e \in Q[z]
    BY <1>3 DEF Halved
  <1>5. Good(h, r, V, L, Q0) /\ Good(g, r, W, M, Q)  BY <1>2, <1>4 DEF Held
  <1>6. i \in Nat /\ y = h[a].kid[i + 1]  BY DEF SplitAt
  <1>7. /\ Inserted(g[a].key, h[a].key, i + 1, g[a].key[i + 1])
        /\ Inserted(g[a].kid, h[a].kid, i + 2, z) /\ i + 1 \in 1 .. Len(h[a].kid)
        /\ \A n \in V \ {a, y} : g[n] = h[n]
    <2>1. i + 1 + 1 = i + 2  BY <1>6
    <2> QED  BY <1>4, <2>1 DEF Cut
  <1>8. g[a].kid[i + 1] = y /\ g[a].kid[i + 2] = z
    <2>1. i + 1 < i + 2  BY <1>6
    <2> QED  BY <1>6, <1>7, <2>1 DEF Inserted
  <1>9. c = IF e > g[a].key[i + 1] THEN z ELSE y  BY <1>8 DEF HalfFor
  <1>10. g[a].key[i + 1] \in Nat /\ e \in Nat
    <2>1. i + 1 \in 1 .. Len(g[a].key)  BY <1>7 DEF Inserted
    <2>2. a \in W  BY <1>1, <1>4
    <2>3. g[a].key \in Seq(Nat)  BY <1>5, <2>2, NodeFacts
    <2>4. e \in Nat
      <3>1. Q0[y] \in SUBSET Nat  BY <1>4, <1>5, NodeFacts
      <3> QED  BY <1>2, <3>1
    <2> QED  BY <2>1, <2>3, <2>4
  <1>11. e \in Q[c] /\ c \in {y, z}  BY <1>4, <1>9, <1>10
  <1>12. c \in W  BY <1>4, <1>11
  <1>13. N(g[c]) < Full  BY <1>4, <1>11, SizesAssumption DEF Full
  <1>14. Rooted(g, r)
    <2>1. r \in V  BY <1>5 DEF Good, Tree
    <2>2. CASE r = y  BY <1>4, <2>2, SizesAssumption DEF Rooted
    <2>3. CASE r = a
      <3>1. N(h[a]) \in Nat  BY <1>1, <1>5, AllNoded DEF N
      <3>2. N(g[a]) >= 1  BY <1>4, <3>1
      <3> QED  BY <2>3, <3>2 DEF Rooted
    <2>4. CASE r \notin {a, y}
      <3>1. g[r] = h[r]  BY <1>7, <2>1, <2>4
      <3> QED  BY <1>1, <3>1 DEF Rooted
    <2> QED  BY <2>2, <2>3, <2>4
  <1>15. Inserting(g, r, W, Q, c, e)  BY <1>11, <1>12, <1>13, <1>14 DEF Inserting
  <1>16. Alike(h, V, g, W)
    <2>1. Apart(V, L, a, y, z)
      <3>1. Tree(h, r, V, L)  BY <1>5 DEF Good
      <3> QED  BY Zenon, <1>4, <3>1, CutApart
    <2>2. y \in V /\ y # a /\ Adds(W, V, z) /\ Cut(h, g, V, a, i + 1, y, z)
      BY <1>4, <2>1 DEF Apart, Adds
    <2> QED  BY Zenon, <2>2, CutAlike
  <1> QED  BY <1>4, <1>15, <1>16 DEF Made

\* bt_insert with a full root.
GrowSplitAt(h, g, r, t) ==
  t = Len(h) + 1 /\ N(h[r]) = Full /\ g = SplitChild(Append(h, Top(r)), t, 0)

\* bt_insert puts a new root on a full one and splits the old one.
LEMMA GrowTurn ==
  ASSUME NEW h, NEW r, NEW V, NEW L, NEW R, Held(h, r, V, L, R),
         NEW g, NEW t, GrowSplitAt(h, g, r, t), NEW e \in Keys
  PROVE  Made(h, V, g, t, t, e) /\ Len(g) = Len(h) + 2
  <1>1. t = Len(h) + 1 /\ N(h[r]) = Full /\ g = SplitChild(Append(h, Top(r)), t, 0)
    BY DEF GrowSplitAt
  <1>2. PICK m : m = Append(h, Top(r))  OBVIOUS
  <1>3. GrowAt(h, m, r, t)  BY <1>1, <1>2 DEF GrowAt
  <1>4. PICK U, K, P : Grown(h, m, r, t, V, U, K, P)  BY Zenon, <1>3, GrowStep
  <1>5. /\ Held(m, t, U, K, P) /\ U = V \cup {t} /\ t \notin V /\ Len(m) = Len(h) + 1
        /\ r \in V /\ r \in U /\ t \in U /\ P[r] = Keys /\ P[t] = Keys /\ m[r] = h[r]
        /\ ~m[t].leaf /\ m[t].key = <<>> /\ m[t].kid = <<r>>
        /\ \A n \in V : m[n] = h[n]
    BY <1>4 DEF Grown
  <1>6. PICK z : z = Len(m) + 1  OBVIOUS
  <1>7. PICK i : i = 0  OBVIOUS
  <1>8. SplitAt(m, g, t, i, r, z)
    <2>1. Len(m[t].kid) = 1 /\ m[t].kid[1] = r  BY <1>5
    <2>2. i \in Nat /\ i + 1 \in 1 .. Len(m[t].kid) /\ r = m[t].kid[i + 1]  BY <1>7, <2>1
    <2>3. N(m[r]) = Full /\ g = SplitChild(m, t, i)  BY <1>1, <1>2, <1>5, <1>7
    <2> QED  BY <1>5, <1>6, <2>2, <2>3 DEF SplitAt
  <1>9. Len(m[t].key) = 0 /\ N(m[t]) = 0  BY <1>5 DEF N
  <1>10. N(m[t]) < Full /\ e \in P[r]  BY <1>5, <1>9, SizesAssumption DEF Full
  <1>11. PICK W, M, Q : Halved(m, g, t, U, W, M, Q, t, i, r, z, e)
    BY Zenon, <1>5, <1>8, <1>10, SplitStep
  <1>12. /\ Held(g, t, W, M, Q) /\ W = U \cup {z} /\ Cut(m, g, U, t, i + 1, r, z)
         /\ Len(g) = Len(m) + 1 /\ N(g[t]) = N(m[t]) + 1
    BY <1>11 DEF Halved
  <1>13. N(g[t]) = 1 /\ N(g[t]) < Full  BY <1>9, <1>12, SizesAssumption DEF Full
  <1>14. Q[t] = Keys /\ t \in W  BY <1>12 DEF Held, Good, Tree
  <1>15. Inserting(g, t, W, Q, t, e)  BY <1>13, <1>14 DEF Inserting, Rooted
  <1>16. Alike(h, V, m, U)
    <2>1. Adds(U, V, t)  BY <1>5 DEF Adds
    <2> QED  BY <1>5, <1>9, <2>1, EmptyAlike
  <1>17. Alike(m, U, g, W)
    <2>1. Adds(W, U, z)  BY <1>12 DEF Adds
    <2>2. r # t /\ r \in U /\ Cut(m, g, U, t, i + 1, r, z)  BY <1>5, <1>12
    <2> QED  BY Zenon, <2>1, <2>2, CutAlike
  <1>18. Alike(h, V, g, W)  BY Zenon, <1>16, <1>17, AlikeTwice
  <1>19. Len(g) = Len(h) + 2
    <2>1. Len(h) \in Nat  BY DEF Held, Heap
    <2> QED  BY <1>5, <1>12, <2>1
  <1> QED  BY <1>12, <1>15, <1>18, <1>19 DEF Made

-----------------------------------------------------------------------------
(* What the program sees of a tree: the nodes it reaches and their keys.      *)

\* The nodes at most d levels below the root.
Above(V, L, r, d) == {n \in V : L[r] <= L[n] + d}

\* The nodes of A, and those below them.
Down(h, A) == A \cup UNION {ToSet(h[n].kid) : n \in A}

\* The nodes reached in d steps are those not more than d levels below the root.
LEMMA AboveGrows ==
  ASSUME NEW h, NEW r, NEW V, NEW L, NEW R, Held(h, r, V, L, R)
  PROVE  /\ Above(V, L, r, 0) = {r} /\ Above(V, L, r, Len(h)) = V
         /\ \A d \in 1 .. Len(h) :
              Down(h, Above(V, L, r, d - 1)) = Above(V, L, r, d)
  <1>1. Good(h, r, V, L, R) /\ Heap(h, V) /\ L[r] <= Len(h) /\ Len(h) \in Nat
    BY LenProperties DEF Held, Heap
  <1>2. /\ r \in V /\ \A n \in V : L[n] \in Nat /\ L[n] <= L[r]
        /\ \A n \in V : n # r => \E m \in V : \E j \in 1 .. Len(h[m].kid) : h[m].kid[j] = n
    BY <1>1 DEF Good, Tree
  <1>3. ASSUME NEW m \in V, NEW j \in 1 .. Len(h[m].kid)
        PROVE  h[m].kid[j] \in V /\ L[m] = L[h[m].kid[j]] + 1
    <2>1. \A l \in 1 .. Len(h[m].kid) :
            h[m].kid[l] \in V /\ L[m] = L[h[m].kid[l]] + 1 /\ L[h[m].kid[l]] \in Nat
      BY Zenon, <1>1, NodeShape
    <2> QED  BY Zenon, <2>1
  <1>4. ASSUME NEW n \in V, n # r  PROVE \E m \in V : L[m] = L[n] + 1 /\ n \in ToSet(h[m].kid)
    <2>1. PICK m \in V : \E j \in 1 .. Len(h[m].kid) : h[m].kid[j] = n  BY Zenon, <1>2, <1>4
    <2>2. PICK j \in 1 .. Len(h[m].kid) : h[m].kid[j] = n  BY Zenon, <2>1
    <2>3. L[m] = L[n] + 1  BY Zenon, <1>3, <2>2
    <2>4. h[m].kid \in Seq(Nat)  BY Zenon, <1>1, NodeShape
    <2>5. n \in ToSet(h[m].kid)  BY Zenon, <2>2, <2>4, ElementsOf
    <2> QED  BY Zenon, <2>3, <2>5
  <1>5. ASSUME NEW m \in V, NEW n \in ToSet(h[m].kid)  PROVE n \in V /\ L[m] = L[n] + 1
    <2>1. h[m].kid \in Seq(Nat)  BY Zenon, <1>1, NodeShape
    <2>2. PICK j \in 1 .. Len(h[m].kid) : h[m].kid[j] = n  BY Zenon, <2>1, ElementsOf
    <2> QED  BY Zenon, <1>3, <2>2
  <1>6. Above(V, L, r, 0) = {r}
    <2>1. ASSUME NEW n \in V, L[r] <= L[n] + 0, n # r  PROVE FALSE
      <3>1. PICK m \in V : L[m] = L[n] + 1  BY Zenon, <1>4, <2>1
      <3> QED  BY <1>2, <2>1, <3>1
    <2>2. L[r] <= L[r] + 0  BY <1>2
    <2> QED  BY Zenon, <1>2, <2>1, <2>2 DEF Above
  <1>7. Above(V, L, r, Len(h)) = V
    <2>1. ASSUME NEW n \in V PROVE L[r] <= L[n] + Len(h)  BY <1>1, <1>2
    <2> QED  BY Zenon, <2>1 DEF Above
  <1>8. ASSUME NEW d \in 1 .. Len(h)
        PROVE  Down(h, Above(V, L, r, d - 1)) = Above(V, L, r, d)
    <2>1. ASSUME NEW n \in Above(V, L, r, d - 1)  PROVE n \in Above(V, L, r, d)
      <3>1. n \in V /\ L[r] <= L[n] + (d - 1)  BY Zenon, <2>1 DEF Above
      <3>2. L[r] <= L[n] + d  BY <1>1, <1>2, <3>1
      <3> QED  BY Zenon, <3>1, <3>2 DEF Above
    <2>2. ASSUME NEW m \in Above(V, L, r, d - 1), NEW n \in ToSet(h[m].kid)
          PROVE  n \in Above(V, L, r, d)
      <3>1. m \in V /\ L[r] <= L[m] + (d - 1)  BY Zenon, <2>2 DEF Above
      <3>2. n \in V /\ L[m] = L[n] + 1  BY Zenon, <1>5, <2>2, <3>1
      <3>3. L[r] <= L[n] + d  BY <1>1, <1>2, <3>1, <3>2
      <3> QED  BY Zenon, <3>2, <3>3 DEF Above
    <2>3. ASSUME NEW n \in Above(V, L, r, d), n \notin Above(V, L, r, d - 1)
          PROVE  \E m \in Above(V, L, r, d - 1) : n \in ToSet(h[m].kid)
      <3>1. n \in V /\ L[r] <= L[n] + d /\ ~(L[r] <= L[n] + (d - 1))  BY Zenon, <2>3 DEF Above
      <3>2. n # r  BY <1>1, <1>2, <3>1
      <3>3. PICK m \in V : L[m] = L[n] + 1 /\ n \in ToSet(h[m].kid)  BY Zenon, <1>4, <3>1, <3>2
      <3>4. L[r] <= L[m] + (d - 1)  BY <1>1, <1>2, <3>1, <3>3
      <3> QED  BY Zenon, <3>3, <3>4 DEF Above
    <2> QED  BY Zenon, <2>1, <2>2, <2>3 DEF Down
  <1> QED  BY Zenon, <1>6, <1>7, <1>8

\* The nodes of a tree are those the program reaches from its root.
LEMMA ReachesAll ==
  \A V, L, R : Held(heap, root, V, L, R) => Reachable = V
  <1> SUFFICES ASSUME NEW V, NEW L, NEW R, Held(heap, root, V, L, R) PROVE Reachable = V
    OBVIOUS
  <1>4. Len(heap) \in Nat  BY LenProperties DEF Held, Heap
  <1> DEFINE P(f) == f = [d \in 0 .. Len(heap) |-> IF d = 0 THEN {root} ELSE Down(heap, f[d - 1])]
             g == [d \in 0 .. Len(heap) |-> Above(V, L, root, d)]
  <1>5. Reachable = (CHOOSE f : P(f))[Len(heap)]  BY Zenon DEF Reachable, Down
  <1>6. /\ Above(V, L, root, 0) = {root} /\ Above(V, L, root, Len(heap)) = V
        /\ \A d \in 1 .. Len(heap) : Down(heap, Above(V, L, root, d - 1)) = Above(V, L, root, d)
    BY AboveGrows
  <1>7. P(g)
    <2>1. ASSUME NEW d \in 0 .. Len(heap)
          PROVE  Above(V, L, root, d) = IF d = 0 THEN {root} ELSE Down(heap, g[d - 1])
      <3>1. CASE d = 0  BY Zenon, <1>6, <3>1
      <3>2. CASE d # 0
        <4>1. d \in 1 .. Len(heap) /\ d - 1 \in 0 .. Len(heap)  BY <1>4, <3>2
        <4>2. g[d - 1] = Above(V, L, root, d - 1)  BY Zenon, <4>1
        <4> QED  BY Zenon, <1>6, <3>2, <4>1, <4>2
      <3> QED  BY <3>1, <3>2
    <2> QED  BY Zenon, <2>1
  <1>8. PICK f : P(f) /\ Reachable = f[Len(heap)]
    <2> HIDE DEF P, g
    <2> QED  BY Zenon, <1>5, <1>7
  <1>9. f[0] = {root} /\ \A d \in 1 .. Len(heap) : f[d] = Down(heap, f[d - 1])
    <2>1. \A d \in 0 .. Len(heap) : f[d] = IF d = 0 THEN {root} ELSE Down(heap, f[d - 1])
      BY Zenon, <1>8
    <2>2. 0 \in 0 .. Len(heap) /\ \A d \in 1 .. Len(heap) : d \in 0 .. Len(heap) /\ d # 0  BY <1>4
    <2> QED  BY Zenon, <2>1, <2>2
  <1> DEFINE S == {d \in 0 .. Len(heap) : f[d] = Above(V, L, root, d)}
  <1>10. 0 \in S
    <2>1. 0 \in 0 .. Len(heap)  BY <1>4
    <2> QED  BY Zenon, <1>6, <1>9, <2>1
  <1>11. ASSUME NEW d \in 0 .. Len(heap), d < Len(heap), d \in S  PROVE d + 1 \in S
    <2>1. d + 1 \in 1 .. Len(heap) /\ d + 1 \in 0 .. Len(heap) /\ (d + 1) - 1 = d  BY <1>4, <1>11
    <2>2. f[d + 1] = Down(heap, Above(V, L, root, d))  BY <1>9, <1>11, <2>1
    <2>3. Down(heap, Above(V, L, root, d)) = Above(V, L, root, d + 1)  BY <1>6, <2>1
    <2> QED  BY <2>1, <2>2, <2>3
  <1>12. \A d \in 0 .. Len(heap) : d \in S
    <2> HIDE DEF S
    <2> QED  BY <1>4, <1>10, <1>11, UpTo
  <1>13. Len(heap) \in 0 .. Len(heap)  BY <1>4
  <1> QED  BY <1>6, <1>8, <1>12, <1>13

\* Each place of a key is counted once.
LEMMA PlacesAre ==
  \A V, L, R : Held(heap, root, V, L, R) =>
    /\ Places = Spots(heap, V, Keys) /\ Cardinality(Places) = Count(heap, V, Keys)
    /\ Bag \in [Keys -> Nat] /\ \A e \in Keys : Bag[e] = Count(heap, V, {e})
  <1> SUFFICES ASSUME NEW V, NEW L, NEW R, Held(heap, root, V, L, R)
               PROVE  /\ Places = Spots(heap, V, Keys)
                      /\ Cardinality(Places) = Count(heap, V, Keys)
                      /\ Bag \in [Keys -> Nat]
                      /\ \A e \in Keys : Bag[e] = Count(heap, V, {e})
    OBVIOUS
  <1>1. Reachable = V  BY Zenon, ReachesAll
  <1>2. Good(heap, root, V, L, R) /\ Sized(heap, root, V)  BY Zenon DEF Held
  <1>3. ASSUME NEW n \in V PROVE /\ heap[n].key \in Seq(Keys) /\ Len(heap[n].key) \in Nat
                                 /\ Len(heap[n].key) <= Full
    <2>1. heap[n].key \in Seq(Keys)  BY Zenon, <1>2, NodeShape
    <2>2. Len(heap[n].key) <= Full  BY Zenon, <1>2 DEF Sized, N
    <2> QED  BY Zenon, <2>1, <2>2, LenProperties
  <1>4. Full \in Nat  BY SizesAssumption DEF Full
  <1>5. Places = Spots(heap, V, Keys)
    <2>1. ASSUME NEW q \in V \X (1 .. Full), q[2] <= N(heap[q[1]])
          PROVE  q \in V \X Nat /\ q[2] \in 1 .. Len(heap[q[1]].key) /\ heap[q[1]].key[q[2]] \in Keys
      <3>1. q[1] \in V /\ q[2] \in 1 .. Full /\ q \in V \X Nat  BY <1>4
      <3>2. q[2] \in 1 .. Len(heap[q[1]].key)  BY <1>3, <2>1, <3>1 DEF N
      <3>3. heap[q[1]].key \in Seq(Keys)  BY Zenon, <1>3, <3>1
      <3> QED  BY Zenon, <3>1, <3>2, <3>3, ElementOfSeq
    <2>2. ASSUME NEW q \in V \X Nat, q[2] \in 1 .. Len(heap[q[1]].key)
          PROVE  q \in V \X (1 .. Full) /\ q[2] <= N(heap[q[1]])
      <3>1. q[1] \in V  OBVIOUS
      <3>2. Len(heap[q[1]].key) \in Nat /\ Len(heap[q[1]].key) <= Full  BY Zenon, <1>3, <3>1
      <3>3. q[2] \in 1 .. Full /\ q[2] <= N(heap[q[1]])  BY <1>4, <2>2, <3>2 DEF N
      <3> QED  BY <3>1, <3>3
    <2>3. Places = {q \in V \X (1 .. Full) : q[2] <= N(heap[q[1]])}  BY Zenon, <1>1 DEF Places
    <2> QED  BY <2>1, <2>2, <2>3 DEF Spots
  <1>6. ASSUME NEW e \in Keys PROVE Bag[e] = Count(heap, V, {e})
    <2>1. Bag[e] = Cardinality({q \in Places : heap[q[1]].key[q[2]] = e})
      BY Zenon DEF Bag, Quantify
    <2>2. {q \in Places : heap[q[1]].key[q[2]] = e} = Spots(heap, V, {e})
      BY <1>5 DEF Spots
    <2> QED  BY Zenon, <2>1, <2>2 DEF Count
  <1>7. \A e \in Keys : Count(heap, V, {e}) \in Nat  BY Zenon, FiniteSpots
  <1>8. Bag \in [Keys -> Nat]
    <2>1. \A e \in Keys : Bag[e] \in Nat  BY Zenon, <1>6, <1>7
    <2>2. Bag = [e \in Keys |-> Bag[e]]  BY Zenon DEF Bag
    <2> QED  BY Zenon, <2>1, <2>2
  <1> QED  BY Zenon, <1>5, <1>6, <1>8 DEF Count

\* The same after a step.
LEMMA PlacesAreNext ==
  \A V, L, R : Held(heap', root', V, L, R) =>
    /\ Cardinality(Places') = Count(heap', V, Keys)
    /\ Bag' \in [Keys -> Nat] /\ \A e \in Keys : Bag'[e] = Count(heap', V, {e})
  <1>1. (\A V, L, R : Held(heap, root, V, L, R) =>
         /\ Places = Spots(heap, V, Keys) /\ Cardinality(Places) = Count(heap, V, Keys)
         /\ Bag \in [Keys -> Nat] /\ \A e \in Keys : Bag[e] = Count(heap, V, {e}))'
    BY PlacesAre, PTL
  <1> QED  BY <1>1

-----------------------------------------------------------------------------
(* The inductive invariant.                                                  *)

\* How far the running call is: what it still looks for is on its way.
Running(h, r, at, a, e, st, pd, w, V, L, R) ==
  /\ at = "idle" => pd = <<>> /\ Rooted(h, r)
  /\ at = "insert" => pd = <<>> /\ e \in Keys /\ Inserting(h, r, V, R, a, e)
  /\ at = "delete" => e \in Keys /\ (st = 0 <=> pd = <<>>)
                      /\ Going(h, r, V, L, R, a, e, st, pd[1], pd[2])
  /\ at = "replace" => pd # <<>> /\ w \in Keys /\ e \in Keys
                       /\ Replacing(h, V, L, R, a, w, pd[1], pd[2], e)
  /\ at = "shrink" => pd = <<>> /\ w = e /\ e \in Keys
  /\ at = "lost" => pd = <<>>

\* The keys of the tree are those it had when the call began, but for the one that has
\* been taken out.
Counted(h, at, w, bf, V) ==
  /\ Count(h, V, Keys) <= MaxKeys
  /\ at = "insert" => Count(h, V, Keys) < MaxKeys
  /\ at = "insert" \/ at = "delete" => \A d \in Keys : bf[d] = Count(h, V, {d})
  /\ at = "replace" \/ at = "shrink" => \A d \in Keys : bf[d] = Count(h, V, {d}) + Unit(w, {d})

PcValues == {"idle", "insert", "delete", "replace", "shrink", "lost"}

Typed(h, at, a, e, st, pd, w, rt, bf) ==
  /\ Len(h) <= MaxNodes /\ a \in 1 .. Len(h)
  /\ at \in PcValues
  /\ e \in Keys \cup {None} /\ w \in Keys \cup {None} /\ rt \in Keys \cup {None}
  /\ st \in 0 .. 2
  /\ pd = <<>> \/ pd \in (1 .. Len(h)) \X (0 .. Full - 1)
  /\ bf \in [Keys -> 0 .. MaxKeys]

Kept(h, r, at, a, e, st, pd, w, bf) ==
  \E V, L, R : /\ Held(h, r, V, L, R) /\ Running(h, r, at, a, e, st, pd, w, V, L, R)
               /\ Counted(h, at, w, bf, V)

State(h, r, at, a, e, st, pd, w, rt, bf) ==
  Typed(h, at, a, e, st, pd, w, rt, bf) /\ Kept(h, r, at, a, e, st, pd, w, bf)

TreeInv == State(heap, root, pc, x, k, s, pend, kp, ret, before)

-----------------------------------------------------------------------------
\* The nodes of a tree are nodes of the heap.
LEMMA InHeap ==
  ASSUME NEW h, NEW r, NEW V, NEW L, NEW R, Held(h, r, V, L, R)
  PROVE  /\ h \in Seq(Node) /\ Len(h) \in Nat /\ r \in 1 .. Len(h)
         /\ \A n \in V : n \in 1 .. Len(h)
  BY LenProperties DEF Held, Good, Tree, Heap

\* A child has the keys that any node but the root has.
LEMMA KidSize ==
  ASSUME NEW h, NEW r, NEW V, NEW L, NEW R, Held(h, r, V, L, R),
         NEW a \in V, NEW j \in 1 .. Len(h[a].kid)
  PROVE  /\ h[a].kid[j] \in V /\ N(h[h[a].kid[j]]) \in T - 1 .. Full
         /\ Len(h[a].kid) = Len(h[a].key) + 1
  <1>1. Good(h, r, V, L, R) /\ Sized(h, r, V)  BY Zenon DEF Held
  <1>2. \A l \in 1 .. Len(h[a].kid) :
          h[a].kid[l] \in V /\ L[a] = L[h[a].kid[l]] + 1 /\ L[h[a].kid[l]] \in Nat
    BY Zenon, <1>1, NodeShape
  <1>3. PICK c \in V : c = h[a].kid[j] /\ L[a] = L[c] + 1 /\ L[c] \in Nat  BY Zenon, <1>2
  <1>4. c # r
    <2>1. L[a] <= L[r]  BY <1>1 DEF Good, Tree
    <2> QED  BY <1>3, <2>1
  <1>5. h[c].key \in Seq(Keys)  BY Zenon, <1>1, NodeShape
  <1>6. N(h[c]) <= Full /\ N(h[c]) >= T - 1  BY Zenon, <1>1, <1>4 DEF Sized
  <1>7. N(h[c]) \in Nat /\ T \in Nat /\ Full \in Nat
    BY <1>5, LenProperties, SizesAssumption DEF N, Full
  <1>8. N(h[c]) \in T - 1 .. Full  BY <1>6, <1>7
  <1>9. Len(h[a].kid) = Len(h[a].key) + 1
    <2>1. h[a].leaf => Len(h[a].kid) = 0  BY <1>1, NodeShape
    <2>2. ~h[a].leaf => Len(h[a].kid) = Len(h[a].key) + 1  BY <1>1, NodeShape
    <2> QED  BY <2>1, <2>2
  <1> QED  BY Zenon, <1>3, <1>8, <1>9

\* A turn of a deletion, and the state it leaves.
Pends(h, to, p, i, pd) ==
  /\ to = 0 <=> pd = <<>>
  /\ pd # <<>> => pd = <<p, i>> /\ p \in 1 .. Len(h) /\ i \in 0 .. Full - 1

\* The state after a turn of a deletion.
LEMMA TurnState ==
  ASSUME NEW h, NEW r, NEW V, NEW L, NEW R, Held(h, r, V, L, R),
         NEW g, NEW a, NEW c, NEW e \in Keys, NEW st, NEW to \in 0 .. 2, NEW pd, NEW w, NEW rt, NEW bf,
         NEW was, Typed(h, "delete", a, e, st, was, w, rt, bf), Counted(h, "delete", w, bf, V),
         NEW p, NEW i, p = pd[1], i = pd[2], Turned(h, V, g, r, c, e, to, p, i), Pends(h, to, p, i, pd)
  PROVE  State(g, r, "delete", c, e, to, pd, w, rt, bf)
  <1>1. PICK W, M, Q : GoesOn(g, r, W, M, Q, c, e, to, p, i) /\ Alike(h, V, g, W)
    BY Zenon DEF Turned
  <1>2. Held(g, r, W, M, Q) /\ Going(g, r, W, M, Q, c, e, to, p, i) /\ c \in W
    BY Zenon, <1>1 DEF GoesOn, Going, Stout
  <1>3. Len(g) = Len(h)  BY Zenon DEF Turned
  <1>4. c \in 1 .. Len(g)  BY Zenon, <1>2, InHeap
  <1>5. Typed(g, "delete", c, e, to, pd, w, rt, bf)
    <2>1. pd = <<>> \/ pd \in (1 .. Len(g)) \X (0 .. Full - 1)
      BY <1>3 DEF Pends
    <2> QED  BY <1>3, <1>4, <2>1 DEF Typed, PcValues
  <1>6. Running(g, r, "delete", c, e, to, pd, w, W, M, Q)
    <2>1. Going(g, r, W, M, Q, c, e, to, pd[1], pd[2])  BY <1>2
    <2>2. to = 0 <=> pd = <<>>  BY Zenon DEF Pends
    <2> QED  BY <2>1, <2>2 DEF Running
  <1>7. \A E : Count(g, W, E) = Count(h, V, E)  BY <1>1, CountAlike
  <1>8. Counted(g, "delete", w, bf, W)  BY <1>7 DEF Counted
  <1> QED  BY Zenon, <1>2, <1>5, <1>6, <1>8 DEF State, Kept
-----------------------------------------------------------------------------
(* The turns of a deletion.                                                  *)

Deleting(V, L, R) ==
  /\ Held(heap, root, V, L, R) /\ Going(heap, root, V, L, R, x, k, s, pend[1], pend[2])
  /\ Typed(heap, "delete", x, k, s, pend, kp, ret, before) /\ Counted(heap, "delete", kp, before, V)
  /\ k \in Keys /\ s \in 0 .. 2 /\ Pends(heap, s, pend[1], pend[2], pend)

\* What the invariant says while a deletion runs.
LEMMA DeleteNow ==
  ASSUME TreeInv, pc = "delete"
  PROVE  \E V, L, R : Deleting(V, L, R)
  <1>1. Typed(heap, "delete", x, k, s, pend, kp, ret, before)  BY DEF TreeInv, State
  <1>2. Kept(heap, root, "delete", x, k, s, pend, kp, before)  BY DEF TreeInv, State
  <1>3. PICK V, L, R : /\ Held(heap, root, V, L, R)
                       /\ Running(heap, root, "delete", x, k, s, pend, kp, V, L, R)
                       /\ Counted(heap, "delete", kp, before, V)
    BY Zenon, <1>2 DEF Kept
  <1>4. /\ k \in Keys /\ (s = 0 <=> pend = <<>>)
        /\ Going(heap, root, V, L, R, x, k, s, pend[1], pend[2])
    BY <1>3 DEF Running
  <1>5. s \in 0 .. 2 /\ (pend = <<>> \/ pend \in (1 .. Len(heap)) \X (0 .. Full - 1))
    BY <1>1 DEF Typed
  <1>6. Pends(heap, s, pend[1], pend[2], pend)  BY <1>4, <1>5 DEF Pends
  <1> QED  BY Zenon, <1>1, <1>3, <1>4, <1>5, <1>6 DEF Deleting

\* The child j is where the activation turns.
Turning(V, L, R, j) ==
  /\ Deleting(V, L, R) /\ TurnsAt(heap, V, L, R, x, k, s, pend[1], pend[2], j)
  /\ x \in V /\ (x = root \/ N(heap[x]) >= T) /\ N(heap[x]) >= 1 /\ ~heap[x].leaf

\* What it says in an inner node.
LEMMA TurnNow ==
  ASSUME TreeInv, Inner
  PROVE  \E V, L, R : \E j : Turning(V, L, R, j)
  <1>1. pc = "delete" /\ ~heap[x].leaf  BY DEF Inner
  <1>2. PICK V, L, R : Deleting(V, L, R)  BY Zenon, <1>1, DeleteNow
  <1>3. /\ Held(heap, root, V, L, R) /\ s \in 0 .. 2
        /\ Going(heap, root, V, L, R, x, k, s, pend[1], pend[2])
    BY Zenon, <1>2 DEF Deleting
  <1>4. Good(heap, root, V, L, R)  BY Zenon, <1>3 DEF Held
  <1>5. PICK j : TurnsAt(heap, V, L, R, x, k, s, pend[1], pend[2], j)
    BY Zenon, <1>1, <1>3, <1>4, TurnHere
  <1>6. x \in V /\ (x = root => Rooted(heap, root)) /\ (x = root \/ N(heap[x]) >= T)
    BY Zenon, <1>3 DEF Going, Stout
  <1>7. N(heap[x]) >= 1
    <2>1. CASE x = root  BY <1>1, <1>6, <2>1 DEF Rooted
    <2>2. CASE N(heap[x]) >= T
      <3>1. heap[x].key \in Seq(Keys)  BY Zenon, <1>4, <1>6, NodeShape
      <3> QED  BY <2>2, <3>1, LenProperties, SizesAssumption DEF N
    <2> QED  BY <1>6, <2>1, <2>2
  <1> QED  BY Zenon, <1>1, <1>2, <1>5, <1>6, <1>7 DEF Turning

\* What the code calls i is j - 2, and with it goes the rest.
LEMMA Turns ==
  ASSUME NEW V, NEW L, NEW R, NEW j, Turning(V, L, R, j)
  PROVE  /\ Held(heap, root, V, L, R) /\ x \in V /\ (x = root \/ N(heap[x]) >= T)
         /\ j \in Nat /\ N(heap[x]) \in Nat /\ N(heap[x]) >= 1 /\ j >= 1 /\ j <= N(heap[x]) + 1
         /\ Index = j - 2 /\ Next3 = j - 1
         /\ Hit => HitHere(heap, R, x, k, s, j)
         /\ ~Hit => Heading(heap, V, L, R, x, k, s, pend[1], pend[2], j)
         /\ \A i \in 0 .. N(heap[x]) : /\ Child(i) = heap[x].kid[i + 1]
                                       /\ Kids(i) \in T - 1 .. Full
                                       /\ i + 1 \in 1 .. Len(heap[x].kid)
  <1>1. /\ Held(heap, root, V, L, R) /\ x \in V /\ (x = root \/ N(heap[x]) >= T)
        /\ TurnsAt(heap, V, L, R, x, k, s, pend[1], pend[2], j)
        /\ N(heap[x]) >= 1
    BY Zenon DEF Turning, Deleting
  <1>2. j \in 1 .. Len(heap[x].kid) /\ Len(heap[x].kid) = Len(heap[x].key) + 1
    BY <1>1 DEF TurnsAt
  <1>3. N(heap[x]) \in Nat
    <2>1. Good(heap, root, V, L, R)  BY Zenon, <1>1 DEF Held
    <2>2. heap[x].key \in Seq(Keys)  BY Zenon, <1>1, <2>1, NodeShape
    <2> QED  BY <2>2, LenProperties DEF N
  <1>4. IndexOf(heap[x], k, s) = Index  BY DEF IndexOf, Index
  <1>5. IndexOf(heap[x], k, s) = j - 2  BY <1>1 DEF TurnsAt
  <1>6. Hit <=> HitAt(heap[x], k, s)  BY Zenon, <1>4 DEF Hit, HitAt
  <1>7. /\ HitAt(heap[x], k, s) => HitHere(heap, R, x, k, s, j)
        /\ ~HitAt(heap[x], k, s) => Heading(heap, V, L, R, x, k, s, pend[1], pend[2], j)
    BY Zenon, <1>1 DEF TurnsAt
  <1>8. j \in Nat /\ j >= 1 /\ j <= N(heap[x]) + 1  BY <1>2, <1>3 DEF N
  <1>9. Index = j - 2 /\ Next3 = j - 1  BY <1>4, <1>5, <1>8 DEF Next3
  <1>10. ASSUME NEW i \in 0 .. N(heap[x])
         PROVE  /\ Child(i) = heap[x].kid[i + 1] /\ Kids(i) \in T - 1 .. Full
                /\ i + 1 \in 1 .. Len(heap[x].kid)
    <2>1. i + 1 \in 1 .. Len(heap[x].kid)  BY <1>2, <1>3 DEF N
    <2>2. N(heap[heap[x].kid[i + 1]]) \in T - 1 .. Full  BY Zenon, <1>1, <2>1, KidSize
    <2> QED  BY <2>1, <2>2 DEF Child, Kids, Kid
  <1> QED  BY Zenon, <1>1, <1>3, <1>6, <1>7, <1>8, <1>9, <1>10

\* The activation goes on in another node.
LEMMA GoOnKeeps ==
  ASSUME NEW V, NEW L, NEW R, NEW j, Turning(V, L, R, j), NEW g, NEW c, pc = "delete",
         Turned(heap, V, g, root, c, k, s, pend[1], pend[2]), GoOn(g, c)
  PROVE  TreeInv'
  <1>1. /\ Held(heap, root, V, L, R) /\ k \in Keys /\ s \in 0 .. 2
        /\ Typed(heap, "delete", x, k, s, pend, kp, ret, before)
        /\ Counted(heap, "delete", kp, before, V) /\ Pends(heap, s, pend[1], pend[2], pend)
    BY Zenon DEF Turning, Deleting
  <1>2. State(g, root, "delete", c, k, s, pend, kp, ret, before)
    BY <1>1, TurnState
  <1> QED  BY <1>2 DEF GoOn, TreeInv

\* An action that keeps the invariant, as do those below: case 3 with enough keys.
LEMMA DescendKeeps ==
  ASSUME TreeInv, Descend  PROVE TreeInv'
  <1>1. Inner /\ ~Hit /\ ~Thin /\ GoOn(heap, Child(Next3)) /\ pc = "delete"
    BY Zenon DEF Descend, Inner
  <1>2. PICK V, L, R : \E j : Turning(V, L, R, j)  BY Zenon, <1>1, TurnNow
  <1>3. PICK j : Turning(V, L, R, j)  BY Zenon, <1>2
  <1>4. /\ Held(heap, root, V, L, R) /\ x \in V /\ ~heap[x].leaf
        /\ Heading(heap, V, L, R, x, k, s, pend[1], pend[2], j)
    BY Zenon, <1>1, <1>3, Turns DEF Turning
  <1>5. PICK i : i = Next3 /\ i \in 0 .. N(heap[x]) /\ j = i + 1
    <2>1. /\ j \in Nat /\ N(heap[x]) \in Nat /\ j >= 1 /\ j <= N(heap[x]) + 1 /\ Next3 = j - 1
      BY <1>3, Turns
    <2> QED  BY <2>1
  <1>6. Child(i) = heap[x].kid[j] /\ Kids(i) \in T - 1 .. Full
    BY <1>3, <1>5, Turns
  <1>7. N(heap[Child(i)]) >= T
    <2>1. Kids(i) # T - 1  BY <1>1, <1>5 DEF Thin
    <2> QED  BY <1>6, <2>1, SizesAssumption DEF Kids
  <1>8. Turned(heap, V, heap, root, Child(i), k, s, pend[1], pend[2])
    BY <1>4, <1>6, <1>7, DescendTurn
  <1> QED  BY <1>1, <1>3, <1>5, <1>8, GoOnKeeps

\* Case 2c.
LEMMA MergeAroundKeeps ==
  ASSUME TreeInv, MergeAround  PROVE TreeInv'
  <1>1. /\ Inner /\ Hit /\ Kids(Index) = T - 1 /\ Kids(Index + 1) = T - 1
        /\ GoOn(Merged(Index, k), Child(Index)) /\ pc = "delete"
    BY Zenon DEF MergeAround, Inner
  <1>2. PICK V, L, R : \E j : Turning(V, L, R, j)  BY Zenon, <1>1, TurnNow
  <1>3. PICK j : Turning(V, L, R, j)  BY Zenon, <1>2
  <1>4. /\ Held(heap, root, V, L, R) /\ x \in V /\ (x = root \/ N(heap[x]) >= T)
        /\ HitHere(heap, R, x, k, s, j)
    BY Zenon, <1>1, <1>3, Turns DEF Turning
  <1>5. j >= 2 /\ heap[x].key[j - 1] = k  BY <1>4 DEF HitHere
  <1>6. PICK i \in Nat : /\ i = Index /\ j = i + 2
                         /\ i \in 0 .. N(heap[x]) /\ i + 1 \in 0 .. N(heap[x])
    <2>1. /\ j \in Nat /\ N(heap[x]) \in Nat /\ j <= N(heap[x]) + 1 /\ Index = j - 2
      BY <1>3, Turns
    <2> QED  BY <1>5, <2>1
  <1>7. /\ Child(i) = heap[x].kid[i + 1] /\ Child(i + 1) = heap[x].kid[(i + 1) + 1]
        /\ i + 1 \in 1 .. Len(heap[x].kid) /\ (i + 1) + 1 \in 1 .. Len(heap[x].kid)
    BY <1>3, <1>6, Turns
  <1>8. MergeAt(heap, Merged(i, k), x, i, Child(i), Child(i + 1))
    <2>1. (i + 1) + 1 = i + 2 /\ j - 1 = i + 1  BY <1>6
    <2>2. heap[x].key[i + 1] = k  BY <1>5, <2>1
    <2>3. Merged(i, k) = Merge(heap, x, i, k)  BY <1>7, <2>1 DEF Merged, Merge
    <2> QED  BY <1>6, <1>7, <2>1, <2>2, <2>3 DEF MergeAt
  <1>9. N(heap[Child(i)]) = T - 1 /\ N(heap[Child(i + 1)]) = T - 1
    BY <1>1, <1>6 DEF Kids
  <1>10. HitHere(heap, R, x, k, s, i + 2)  BY <1>4, <1>6
  <1>11. Turned(heap, V, Merged(i, k), root, Child(i), k, s, pend[1], pend[2])
    BY <1>4, <1>8, <1>9, <1>10, MergeKey
  <1> QED  BY <1>1, <1>3, <1>6, <1>11, GoOnKeeps

\* The children of x around the one an activation is to go on in.
LEMMA ThinTurn ==
  ASSUME TreeInv, Thin
  PROVE  \E V, L, R : \E j :
           /\ Turning(V, L, R, j) /\ pc = "delete" /\ j \in Nat \ {0} /\ Next3 = j - 1
           /\ Heading(heap, V, L, R, x, k, s, pend[1], pend[2], j)
           /\ Child(j - 1) = heap[x].kid[j] /\ N(heap[heap[x].kid[j]]) = T - 1
           /\ j - 1 <= N(heap[x]) /\ N(heap[x]) \in Nat
  <1>1. Inner /\ ~Hit /\ pc = "delete" /\ Kids(Next3) = T - 1  BY Zenon DEF Thin, Inner
  <1>2. PICK V, L, R : \E j : Turning(V, L, R, j)  BY Zenon, <1>1, TurnNow
  <1>3. PICK j : Turning(V, L, R, j)  BY Zenon, <1>2
  <1>4. Heading(heap, V, L, R, x, k, s, pend[1], pend[2], j)  BY Zenon, <1>1, <1>3, Turns
  <1>5. /\ j \in Nat /\ N(heap[x]) \in Nat /\ j >= 1 /\ j <= N(heap[x]) + 1 /\ Next3 = j - 1
    BY <1>3, Turns
  <1>6. j - 1 \in 0 .. N(heap[x]) /\ (j - 1) + 1 = j  BY <1>5
  <1>7. Child(j - 1) = heap[x].kid[(j - 1) + 1]  BY <1>3, <1>6, Turns
  <1>8. N(heap[heap[x].kid[j]]) = T - 1  BY <1>1, <1>5, <1>6, <1>7 DEF Kids
  <1>9. j \in Nat \ {0} /\ j - 1 <= N(heap[x])  BY <1>5
  <1>10. Child(j - 1) = heap[x].kid[j]  BY <1>6, <1>7
  <1> QED  BY Zenon, <1>1, <1>3, <1>4, <1>5, <1>8, <1>9, <1>10

\* A child of x that has not T keys has one key less.
LEMMA PoorKid ==
  ASSUME NEW V, NEW L, NEW R, NEW j, Turning(V, L, R, j), NEW i \in 0 .. N(heap[x]), ~(Kids(i) >= T)
  PROVE  N(heap[Child(i)]) = T - 1
  <1>1. Kids(i) \in T - 1 .. Full  BY Turns
  <1> QED  BY <1>1, SizesAssumption DEF Full, Kids

\* Case 3a with the left sibling.
LEMMA BorrowLeftKeeps ==
  ASSUME TreeInv, BorrowLeft  PROVE TreeInv'
  <1>1. PICK V, L, R : \E j :
           /\ Turning(V, L, R, j) /\ pc = "delete" /\ j \in Nat \ {0} /\ Next3 = j - 1
           /\ Heading(heap, V, L, R, x, k, s, pend[1], pend[2], j)
           /\ Child(j - 1) = heap[x].kid[j] /\ N(heap[heap[x].kid[j]]) = T - 1
           /\ j - 1 <= N(heap[x]) /\ N(heap[x]) \in Nat
    BY ThinTurn DEF BorrowLeft
  <1>2. PICK j : /\ Turning(V, L, R, j) /\ pc = "delete" /\ j \in Nat \ {0} /\ Next3 = j - 1
           /\ Heading(heap, V, L, R, x, k, s, pend[1], pend[2], j)
           /\ Child(j - 1) = heap[x].kid[j] /\ N(heap[heap[x].kid[j]]) = T - 1
           /\ j - 1 <= N(heap[x]) /\ N(heap[x]) \in Nat
    BY Zenon, <1>1
  <1>3. Next3 > 0 /\ Kids(Next3 - 1) >= T  BY DEF BorrowLeft, RichLeft
  <1>4. PICK i \in Nat : i = Next3 /\ j = i + 1 /\ i >= 1 /\ i <= N(heap[x])  BY <1>2, <1>3
  <1>5. /\ i - 1 \in 0 .. N(heap[x]) /\ i \in 0 .. N(heap[x]) /\ (i - 1) + 1 = i
    BY <1>2, <1>4
  <1>6. /\ Child(i - 1) = heap[x].kid[i] /\ Child(i) = heap[x].kid[i + 1]
        /\ i \in 1 .. Len(heap[x].kid) /\ i + 1 \in 1 .. Len(heap[x].kid)
    BY <1>2, <1>5, Turns
  <1>7. N(heap[heap[x].kid[i]]) >= T /\ N(heap[heap[x].kid[i + 1]]) = T - 1
    BY <1>2, <1>3, <1>4, <1>6 DEF Kids
  <1>8. LendAt(heap, x, i, heap[x].kid[i], heap[x].kid[i + 1])  BY <1>4, <1>6 DEF LendAt
  <1>9. GoOn(LendRight(heap, x, i), Child(i))
    <2>1. Key(heap[x], i - 1) = heap[x].key[i]  BY <1>5 DEF Key
    <2> QED  BY <1>4, <1>6, <2>1 DEF BorrowLeft, LendRight
  <1>10. Heading(heap, V, L, R, x, k, s, pend[1], pend[2], i + 1)  BY <1>2, <1>4
  <1>11. Held(heap, root, V, L, R) /\ x \in V  BY Zenon, <1>2, Turns
  <1>12. Turned(heap, V, LendRight(heap, x, i), root, Child(i), k, s, pend[1], pend[2])
    BY <1>6, <1>7, <1>8, <1>10, <1>11, LendRightTurn
  <1> QED  BY <1>2, <1>9, <1>12, GoOnKeeps

\* Case 3a with the right sibling.
LEMMA BorrowRightKeeps ==
  ASSUME TreeInv, BorrowRight  PROVE TreeInv'
  <1>1. PICK V, L, R : \E j :
           /\ Turning(V, L, R, j) /\ pc = "delete" /\ j \in Nat \ {0} /\ Next3 = j - 1
           /\ Heading(heap, V, L, R, x, k, s, pend[1], pend[2], j)
           /\ Child(j - 1) = heap[x].kid[j] /\ N(heap[heap[x].kid[j]]) = T - 1
           /\ j - 1 <= N(heap[x]) /\ N(heap[x]) \in Nat
    BY ThinTurn DEF BorrowRight
  <1>2. PICK j : /\ Turning(V, L, R, j) /\ pc = "delete" /\ j \in Nat \ {0} /\ Next3 = j - 1
           /\ Heading(heap, V, L, R, x, k, s, pend[1], pend[2], j)
           /\ Child(j - 1) = heap[x].kid[j] /\ N(heap[heap[x].kid[j]]) = T - 1
           /\ j - 1 <= N(heap[x]) /\ N(heap[x]) \in Nat
    BY Zenon, <1>1
  <1>3. Next3 < N(heap[x]) /\ Kids(Next3 + 1) >= T  BY DEF BorrowRight, RichRight
  <1>4. PICK i \in Nat : i = Next3 /\ j = i + 1 /\ i + 1 <= N(heap[x])  BY <1>2, <1>3
  <1>5. /\ i + 1 \in 0 .. N(heap[x]) /\ i \in 0 .. N(heap[x]) /\ j \in Nat /\ j - 1 = i
    BY <1>2, <1>4
  <1>6. /\ Child(i) = heap[x].kid[j] /\ Child(i + 1) = heap[x].kid[j + 1]
        /\ j \in 1 .. Len(heap[x].kid) /\ j + 1 \in 1 .. Len(heap[x].kid)
    BY <1>2, <1>4, <1>5, Turns
  <1>7. N(heap[heap[x].kid[j + 1]]) >= T /\ N(heap[heap[x].kid[j]]) = T - 1
    BY <1>2, <1>3, <1>4, <1>6 DEF Kids
  <1>8. LendAt(heap, x, j, heap[x].kid[j], heap[x].kid[j + 1])  BY <1>5, <1>6 DEF LendAt
  <1>9. GoOn(LendLeft(heap, x, j), Child(i))
    <2>1. Key(heap[x], i) = heap[x].key[j]  BY <1>4 DEF Key
    <2> QED  BY <1>4, <1>5, <1>6, <2>1 DEF BorrowRight, LendLeft
  <1>10. Held(heap, root, V, L, R) /\ x \in V  BY Zenon, <1>2, Turns
  <1>11. Turned(heap, V, LendLeft(heap, x, j), root, Child(i), k, s, pend[1], pend[2])
    BY <1>2, <1>6, <1>7, <1>8, <1>10, LendLeftTurn
  <1> QED  BY <1>2, <1>9, <1>11, GoOnKeeps

\* Case 3b with the left sibling.
LEMMA MergeLeftKeeps ==
  ASSUME TreeInv, MergeLeft  PROVE TreeInv'
  <1>1. PICK V, L, R : \E j :
           /\ Turning(V, L, R, j) /\ pc = "delete" /\ j \in Nat \ {0} /\ Next3 = j - 1
           /\ Heading(heap, V, L, R, x, k, s, pend[1], pend[2], j)
           /\ Child(j - 1) = heap[x].kid[j] /\ N(heap[heap[x].kid[j]]) = T - 1
           /\ j - 1 <= N(heap[x]) /\ N(heap[x]) \in Nat
    BY ThinTurn DEF MergeLeft
  <1>2. PICK j : /\ Turning(V, L, R, j) /\ pc = "delete" /\ j \in Nat \ {0} /\ Next3 = j - 1
           /\ Heading(heap, V, L, R, x, k, s, pend[1], pend[2], j)
           /\ Child(j - 1) = heap[x].kid[j] /\ N(heap[heap[x].kid[j]]) = T - 1
           /\ j - 1 <= N(heap[x]) /\ N(heap[x]) \in Nat
    BY Zenon, <1>1
  <1>3. Next3 > 0 /\ ~(Kids(Next3 - 1) >= T)  BY DEF MergeLeft, RichLeft
  <1>4. PICK i \in Nat : Next3 - 1 = i /\ j = i + 2 /\ i + 1 <= N(heap[x])  BY <1>2, <1>3
  <1>5. /\ i + 1 \in 0 .. N(heap[x]) /\ i \in 0 .. N(heap[x]) /\ (i + 1) + 1 = i + 2
        /\ j - 1 = i + 1
    BY <1>2, <1>4
  <1>6. /\ Child(i) = heap[x].kid[i + 1] /\ Child(i + 1) = heap[x].kid[i + 2]
        /\ i + 1 \in 1 .. Len(heap[x].kid) /\ i + 2 \in 1 .. Len(heap[x].kid)
    BY <1>2, <1>4, <1>5, Turns
  <1>7. N(heap[Child(i)]) = T - 1 /\ N(heap[Child(i + 1)]) = T - 1
    <2>1. N(heap[Child(i)]) = T - 1  BY <1>2, <1>3, <1>4, <1>5, PoorKid
    <2> QED  BY <1>2, <1>4, <1>6, <2>1
  <1>8. PICK g : g = Merged(i, Key(heap[x], i))  OBVIOUS
  <1>9. MergeAt(heap, g, x, i, Child(i), Child(i + 1))
    BY <1>4, <1>5, <1>6, <1>8 DEF MergeAt, Merged, Merge, Key
  <1>10. GoOn(g, Child(i))  BY <1>4, <1>8 DEF MergeLeft
  <1>11. Held(heap, root, V, L, R) /\ x \in V /\ (x = root \/ N(heap[x]) >= T)
    BY Zenon, <1>2, Turns
  <1>12. s # 0 /\ s # 1 => j = 1  BY <1>2 DEF Heading
  <1>13. Turned(heap, V, g, root, Child(i), k, s, pend[1], pend[2])
    BY <1>2, <1>4, <1>7, <1>9, <1>11, <1>12, MergeOn
  <1> QED  BY <1>2, <1>10, <1>13, GoOnKeeps

\* Case 3b with the right sibling.
LEMMA MergeRightKeeps ==
  ASSUME TreeInv, MergeRight  PROVE TreeInv'
  <1>1. PICK V, L, R : \E j :
           /\ Turning(V, L, R, j) /\ pc = "delete" /\ j \in Nat \ {0} /\ Next3 = j - 1
           /\ Heading(heap, V, L, R, x, k, s, pend[1], pend[2], j)
           /\ Child(j - 1) = heap[x].kid[j] /\ N(heap[heap[x].kid[j]]) = T - 1
           /\ j - 1 <= N(heap[x]) /\ N(heap[x]) \in Nat
    BY ThinTurn DEF MergeRight
  <1>2. PICK j : /\ Turning(V, L, R, j) /\ pc = "delete" /\ j \in Nat \ {0} /\ Next3 = j - 1
           /\ Heading(heap, V, L, R, x, k, s, pend[1], pend[2], j)
           /\ Child(j - 1) = heap[x].kid[j] /\ N(heap[heap[x].kid[j]]) = T - 1
           /\ j - 1 <= N(heap[x]) /\ N(heap[x]) \in Nat
    BY Zenon, <1>1
  <1>3. Next3 = 0 /\ ~RichRight /\ j = 1  BY <1>2 DEF MergeRight
  <1>4. N(heap[x]) >= 1  BY Zenon, <1>2, Turns
  <1>5. 0 \in 0 .. N(heap[x]) /\ 1 \in 0 .. N(heap[x])  BY <1>2, <1>4
  <1>6. /\ Child(0) = heap[x].kid[0 + 1] /\ Child(1) = heap[x].kid[1 + 1]
        /\ 0 + 1 \in 1 .. Len(heap[x].kid) /\ 1 + 1 \in 1 .. Len(heap[x].kid)
    BY Zenon, <1>2, <1>5, Turns
  <1>7. N(heap[Child(0)]) = T - 1 /\ N(heap[Child(1)]) = T - 1
    <2>1. ~(Kids(1) >= T)  BY <1>2, <1>3, <1>4 DEF RichRight
    <2>2. N(heap[Child(1)]) = T - 1  BY Zenon, <1>2, <1>5, <2>1, PoorKid
    <2> QED  BY <1>2, <1>3, <1>6, <2>2
  <1>8. PICK g : g = Merged(0, Key(heap[x], 0))  OBVIOUS
  <1>9. MergeAt(heap, g, x, 0, Child(0), Child(1))
    <2>1. 1 + 1 = 0 + 2 /\ 0 + 1 = 1 /\ 0 \in Nat  OBVIOUS
    <2>2. g = Merge(heap, x, 0, heap[x].key[0 + 1])
      BY <1>6, <1>8, <2>1 DEF Merged, Merge, Key
    <2> QED  BY <1>6, <2>1, <2>2 DEF MergeAt
  <1>10. GoOn(g, Child(0))  BY <1>8 DEF MergeRight
  <1>11. Held(heap, root, V, L, R) /\ x \in V /\ (x = root \/ N(heap[x]) >= T)
    BY Zenon, <1>2, Turns
  <1>12. s # 1
    <2>1. s = 1 => j = Len(heap[x].kid)  BY <1>2 DEF Heading
    <2>2. Len(heap[x].kid) \in Nat /\ Len(heap[x].kid) >= 2
      <3>1. Good(heap, root, V, L, R)  BY Zenon, <1>11 DEF Held
      <3>2. heap[x].kid \in Seq(Nat)  BY Zenon, <1>11, <3>1, NodeShape
      <3> QED  BY <1>6, <3>2, LenProperties
    <2>3. j = 1  BY <1>3
    <2>4. Len(heap[x].kid) # 1
      <3>1. \A n \in Nat : n >= 2 => n # 1  OBVIOUS
      <3> QED  BY Zenon, <2>2, <3>1
    <2> QED  BY Zenon, <2>1, <2>3, <2>4
  <1>13. Turned(heap, V, g, root, Child(0), k, s, pend[1], pend[2])
    BY <1>2, <1>3, <1>7, <1>9, <1>11, <1>12, MergeOn
  <1> QED  BY <1>2, <1>10, <1>13, GoOnKeeps

\* Cases 2a and 2b.
LEMMA BelowKeeps ==
  ASSUME NEW V, NEW L, NEW R, NEW j, Turning(V, L, R, j), Hit, pc = "delete", NEW i, i = Index,
         NEW last \in BOOLEAN, NEW to \in {1, 2}, last <=> to = 1,
         NEW d, d = (IF last THEN i ELSE i + 1), Kids(d) >= T, DeleteBelow(d, to)
  PROVE  TreeInv'
  <1>1. /\ Held(heap, root, V, L, R) /\ x \in V /\ ~heap[x].leaf /\ HitHere(heap, R, x, k, s, j)
    BY Zenon, Turns DEF Turning
  <1>2. j >= 2 /\ heap[x].key[j - 1] = k  BY <1>1 DEF HitHere
  <1>3. /\ j \in Nat /\ N(heap[x]) \in Nat /\ j <= N(heap[x]) + 1 /\ i = j - 2  BY Turns
  <1>4. i \in Nat /\ i + 1 <= N(heap[x]) /\ j - 1 = i + 1 /\ d \in 0 .. N(heap[x])
        /\ d + 1 = IF last THEN i + 1 ELSE i + 2
    BY <1>2, <1>3
  <1>5. Child(d) = heap[x].kid[d + 1]  BY <1>4, Turns
  <1>6. NextTo(heap, x, i, last, Child(d))
    <2>1. i \in 0 .. Len(heap[x].key) - 1  BY <1>3, <1>4 DEF N
    <2>2. Child(d) = heap[x].kid[IF last THEN i + 1 ELSE i + 2]  BY <1>4, <1>5
    <2> QED  BY Zenon, <2>1, <2>2 DEF NextTo
  <1>7. KeyIs(heap, x, i, k)  BY <1>2, <1>4 DEF KeyIs
  <1>8. N(heap[Child(d)]) >= T  BY DEF Kids
  <1>9. Turned(heap, V, heap, root, Child(d), k, to, x, i)
    <2>1. to # 0  OBVIOUS
    <2> QED  BY <1>1, <1>6, <1>7, <1>8, <2>1, NextToTurn
  <1>10. /\ k \in Keys /\ Typed(heap, "delete", x, k, s, pend, kp, ret, before)
         /\ Counted(heap, "delete", kp, before, V)
    BY Zenon DEF Turning, Deleting
  <1>11. Pends(heap, to, x, i, <<x, i>>)
    <2>1. x \in 1 .. Len(heap)  BY Zenon, <1>1, InHeap
    <2>2. N(heap[x]) <= Full  BY Zenon, <1>1 DEF Held, Sized
    <2>3. i \in 0 .. Full - 1  BY <1>3, <1>4, <2>2, SizesAssumption DEF Full
    <2> QED  BY <2>1, <2>3 DEF Pends
  <1>12. State(heap, root, "delete", Child(d), k, to, <<x, i>>, kp, ret, before)
    <2>1. x = <<x, i>>[1] /\ i = <<x, i>>[2] /\ to \in 0 .. 2  OBVIOUS
    <2> QED  BY <1>1, <1>9, <1>10, <1>11, <2>1, TurnState
  <1> QED  BY <1>12 DEF DeleteBelow, TreeInv

\* Case 2a.
LEMMA DeletePredKeeps ==
  ASSUME TreeInv, DeletePred  PROVE TreeInv'
  <1>1. Inner /\ Hit /\ Kids(Index) >= T /\ DeleteBelow(Index, 1) /\ pc = "delete"
    BY DEF DeletePred, Inner
  <1>2. PICK V, L, R : \E j : Turning(V, L, R, j)  BY Zenon, <1>1, TurnNow
  <1>3. PICK j : Turning(V, L, R, j)  BY Zenon, <1>2
  <1>4. PICK i : i = Index  OBVIOUS
  <1>5. Kids(i) >= T /\ DeleteBelow(i, 1)  BY <1>1, <1>4
  <1> QED  BY <1>1, <1>3, <1>4, <1>5, BelowKeeps

\* Case 2b.
LEMMA DeleteSuccKeeps ==
  ASSUME TreeInv, DeleteSucc  PROVE TreeInv'
  <1>1. Inner /\ Hit /\ Kids(Index + 1) >= T /\ DeleteBelow(Index + 1, 2) /\ pc = "delete"
    BY DEF DeleteSucc, Inner
  <1>2. PICK V, L, R : \E j : Turning(V, L, R, j)  BY Zenon, <1>1, TurnNow
  <1>3. PICK j : Turning(V, L, R, j)  BY Zenon, <1>2
  <1>4. PICK i : i = Index  OBVIOUS
  <1>5. PICK d : d = i + 1  OBVIOUS
  <1>6. Kids(d) >= T /\ DeleteBelow(d, 2)  BY <1>1, <1>4, <1>5
  <1>7. /\ d = (IF FALSE THEN i ELSE i + 1) /\ FALSE \in BOOLEAN /\ 2 \in {1, 2}
        /\ (FALSE <=> 2 = 1)
    BY <1>5
  <1> QED  BY Zenon, <1>1, <1>3, <1>4, <1>6, <1>7, BelowKeeps

\* Case 1, the end of the way.
LEMMA DeleteLeafKeeps ==
  ASSUME TreeInv, DeleteLeaf  PROVE TreeInv'
  <1>1. pc = "delete" /\ heap[x].leaf  BY DEF DeleteLeaf
  <1>2. PICK V, L, R : Deleting(V, L, R)  BY Zenon, <1>1, DeleteNow
  <1>3. /\ Held(heap, root, V, L, R) /\ Going(heap, root, V, L, R, x, k, s, pend[1], pend[2])
        /\ Typed(heap, "delete", x, k, s, pend, kp, ret, before)
        /\ Counted(heap, "delete", kp, before, V)
        /\ k \in Keys /\ s \in 0 .. 2 /\ Pends(heap, s, pend[1], pend[2], pend)
    BY Zenon, <1>2 DEF Deleting
  <1>4. PICK d : d = (IF s = 2 THEN IndexOf(heap[x], k, s) + 1 ELSE IndexOf(heap[x], k, s))
    OBVIOUS
  <1>5. PICK w : w = Key(heap[x], d)  OBVIOUS
  <1>6. PICK g : g = [heap EXCEPT ![x] = DropKey(@, d)]  OBVIOUS
  <1>7. kp' = w /\ heap' = g
    <2>1. IndexOf(heap[x], k, s) = Index  BY DEF IndexOf, Index
    <2>2. d = IF s = 2 THEN Index + 1 ELSE Index  BY <1>4, <2>1
    <2> QED  BY <1>5, <1>6, <2>2 DEF DeleteLeaf
  <1>8. LeafAt(heap, g, x, k, s, d, w)  BY Zenon, <1>4, <1>5, <1>6 DEF LeafAt
  <1>9. Dropped(heap, g, root, V, L, R, x, k, s, pend[1], pend[2], w)
    BY Zenon, <1>1, <1>3, <1>8, LeafTurn
  <1>10. /\ Held(g, root, V, L, R) /\ OneMore(g, heap, V, x, w) /\ w \in Keys
         /\ Len(g) = Len(heap) /\ (s = 0 => w = k)
         /\ (s # 0 => Replacing(g, V, L, R, x, w, pend[1], pend[2], k))
    BY Zenon, <1>9 DEF Dropped
  <1>11. PICK at \in {"shrink", "replace"} : pc' = at /\ (at = "shrink" <=> pend = <<>>)
    BY DEF DeleteLeaf
  <1>12. Running(g, root, at, x, k, s, pend, w, V, L, R)
    <2>1. s = 0 <=> pend = <<>>  BY Zenon, <1>3 DEF Pends
    <2> QED  BY <1>3, <1>10, <1>11, <2>1 DEF Running
  <1>13. Counted(g, at, w, before, V)
    <2>1. \A E : Count(heap, V, E) = Count(g, V, E) + Unit(w, E)  BY <1>10, CountMore
    <2>2. Count(g, V, Keys) \in Nat  BY Zenon, <1>10, FiniteSpots
    <2>3. Count(heap, V, Keys) = Count(g, V, Keys) + 1
      <3>1. Unit(w, Keys) = 1  BY <1>10 DEF Unit
      <3> QED  BY <2>1, <3>1
    <2>4. /\ Count(heap, V, Keys) <= MaxKeys
          /\ \A c \in Keys : before[c] = Count(heap, V, {c})
      BY <1>3 DEF Counted
    <2>5. Count(g, V, Keys) <= MaxKeys  BY <2>2, <2>3, <2>4, SizesAssumption
    <2>6. \A c \in Keys : before[c] = Count(g, V, {c}) + Unit(w, {c})  BY <2>1, <2>4
    <2> QED  BY <1>11, <2>5, <2>6 DEF Counted
  <1>14. Typed(g, at, x, k, s, pend, w, ret, before)
    BY <1>3, <1>10, <1>11 DEF Typed, PcValues
  <1>15. State(g, root, at, x, k, s, pend, w, ret, before)
    BY Zenon, <1>10, <1>12, <1>13, <1>14 DEF State, Kept
  <1> QED  BY <1>7, <1>11, <1>15 DEF DeleteLeaf, TreeInv

\* The end of cases 2a and 2b.
LEMMA ReplaceKeeps ==
  ASSUME TreeInv, Replace  PROVE TreeInv'
  <1>1. /\ Typed(heap, "replace", x, k, s, pend, kp, ret, before)
        /\ Kept(heap, root, "replace", x, k, s, pend, kp, before)
    BY DEF Replace, TreeInv, State
  <1>2. PICK V, L, R : /\ Held(heap, root, V, L, R)
                       /\ Running(heap, root, "replace", x, k, s, pend, kp, V, L, R)
                       /\ Counted(heap, "replace", kp, before, V)
    BY Zenon, <1>1 DEF Kept
  <1>3. /\ pend # <<>> /\ kp \in Keys /\ k \in Keys
        /\ Replacing(heap, V, L, R, x, kp, pend[1], pend[2], k)
    BY <1>2 DEF Running
  <1>4. PICK g : g = [heap EXCEPT ![pend[1]] = SetKey(@, pend[2], kp)]  OBVIOUS
  <1>5. ReplaceKeyAt(heap, g, pend[1], pend[2], kp)  BY Zenon, <1>4 DEF ReplaceKeyAt
  <1>6. (\E Q : Held(g, root, V, L, Q)) /\ ReplacesAt(heap, g, V, pend[1], pend[2], kp, k)
    BY Zenon, <1>2, <1>3, <1>5, ReplaceTurn
  <1>7. PICK Q : Held(g, root, V, L, Q)  BY Zenon, <1>6
  <1>8. /\ InPlace(heap, g, V, pend[1], pend[2] + 1, kp)
        /\ heap[pend[1]].key[pend[2] + 1] = k /\ Len(g) = Len(heap)
    BY <1>6 DEF ReplacesAt
  <1>9. /\ heap' = g /\ kp' = k /\ pc' = "shrink" /\ pend' = <<>>
        /\ UNCHANGED <<root, x, k, s, ret, before>>
    BY <1>4, <1>8 DEF Replace, Key
  <1>10. \A E : Count(g, V, E) + Unit(k, E) = Count(heap, V, E) + Unit(kp, E)
    BY <1>2, <1>7, <1>8, CountSwap
  <1>11. Counted(g, "shrink", k, before, V)
    <2>1. /\ Count(heap, V, Keys) <= MaxKeys
          /\ \A c \in Keys : before[c] = Count(heap, V, {c}) + Unit(kp, {c})
      BY <1>2 DEF Counted
    <2>2. Unit(k, Keys) = 1 /\ Unit(kp, Keys) = 1  BY <1>3 DEF Unit
    <2>3. Count(g, V, Keys) \in Nat /\ Count(heap, V, Keys) \in Nat
      BY Zenon, <1>2, <1>7, FiniteSpots
    <2>4. Count(g, V, Keys) + 1 = Count(heap, V, Keys) + 1  BY <1>10, <2>2
    <2>5. Count(g, V, Keys) <= MaxKeys  BY <2>1, <2>3, <2>4
    <2>6. \A c \in Keys : before[c] = Count(g, V, {c}) + Unit(k, {c})  BY <1>10, <2>1
    <2> QED  BY <2>5, <2>6 DEF Counted
  <1>12. Running(g, root, "shrink", x, k, s, <<>>, k, V, L, Q)  BY <1>3 DEF Running
  <1>13. Typed(g, "shrink", x, k, s, <<>>, k, ret, before)
    BY <1>1, <1>3, <1>8 DEF Typed, PcValues
  <1>14. State(g, root, "shrink", x, k, s, <<>>, k, ret, before)
    BY Zenon, <1>7, <1>11, <1>12, <1>13 DEF State, Kept
  <1> QED  BY <1>9, <1>14 DEF TreeInv

\* The end of bt_delete.
LEMMA ShrinkKeeps ==
  ASSUME TreeInv, Shrink  PROVE TreeInv'
  <1>1. /\ Typed(heap, "shrink", x, k, s, pend, kp, ret, before)
        /\ Kept(heap, root, "shrink", x, k, s, pend, kp, before)
    BY DEF Shrink, TreeInv, State
  <1>2. PICK V, L, R : /\ Held(heap, root, V, L, R)
                       /\ Running(heap, root, "shrink", x, k, s, pend, kp, V, L, R)
                       /\ Counted(heap, "shrink", kp, before, V)
    BY Zenon, <1>1 DEF Kept
  <1>3. pend = <<>> /\ Count(heap, V, Keys) <= MaxKeys  BY <1>2 DEF Running, Counted
  <1>4. NoBag \in [Keys -> 0 .. MaxKeys]  BY SizesAssumption DEF NoBag
  <1>5. \E W, M, Q : /\ Held(heap', root', W, M, Q) /\ Alike(heap, V, heap', W)
                     /\ Rooted(heap', root') /\ Len(heap') = Len(heap)
    <2>1. CASE heap[root].key = <<>> /\ ~heap[root].leaf
      <3>1. PICK c : c = Kid(heap[root], 0)  OBVIOUS
      <3>2. PICK g : g = [heap EXCEPT ![root] = Freed]  OBVIOUS
      <3>3. ShrinkAt(heap, g, root, c)  BY <2>1, <3>1, <3>2 DEF ShrinkAt, Kid
      <3>4. heap' = g /\ root' = c  BY <2>1, <3>1, <3>2 DEF Shrink
      <3>5. Remains(heap, V, g, c) /\ Len(g) = Len(heap)  BY <1>2, <3>3, ShrinkTurn
      <3> QED  BY Zenon, <3>4, <3>5 DEF Remains
    <2>2. CASE ~(heap[root].key = <<>> /\ ~heap[root].leaf)
      <3>1. heap' = heap /\ root' = root  BY <2>2 DEF Shrink
      <3>2. Rooted(heap, root)
        <4>1. Good(heap, root, V, L, R) /\ root \in V  BY <1>2 DEF Held, Good, Tree
        <4>2. heap[root].key \in Seq(Keys)  BY Zenon, <4>1, NodeShape
        <4>3. heap[root].key # <<>> => Len(heap[root].key) >= 1
          <5>1. PICK q \in Seq(Keys) : q = heap[root].key  BY <4>2
          <5>2. q # <<>> => Len(q) >= 1  BY LenProperties, EmptySeq
          <5> QED  BY <5>1, <5>2
        <4> QED  BY <2>2, <4>3 DEF Rooted, N
      <3>3. Alike(heap, V, heap, V)  BY Zenon, AlikeSame
      <3> QED  BY <1>2, <3>1, <3>2, <3>3
    <2> QED  BY <2>1, <2>2
  <1>6. PICK g : g = heap'  OBVIOUS
  <1>7. PICK r : r = root'  OBVIOUS
  <1>8. PICK W, M, Q : /\ Held(g, r, W, M, Q) /\ Alike(heap, V, g, W)
                       /\ Rooted(g, r) /\ Len(g) = Len(heap)
    BY <1>5, <1>6, <1>7
  <1>9. Count(g, W, Keys) <= MaxKeys
    <2>1. Count(g, W, Keys) = Count(heap, V, Keys)  BY <1>2, <1>8, CountAlike
    <2> QED  BY <1>3, <2>1
  <1>10. Typed(g, "idle", 1, None, 0, <<>>, None, kp, NoBag)
    <2>1. Len(g) \in Nat /\ r \in 1 .. Len(g)  BY Zenon, <1>8, InHeap
    <2>2. 1 \in 1 .. Len(g)  BY <2>1
    <2> QED  BY <1>1, <1>4, <1>8, <2>2 DEF Typed, PcValues
  <1>11. Running(g, r, "idle", 1, None, 0, <<>>, None, W, M, Q)  BY <1>8 DEF Running
  <1>12. Counted(g, "idle", None, NoBag, W)  BY <1>9 DEF Counted
  <1>13. State(g, r, "idle", 1, None, 0, <<>>, None, kp, NoBag)
    BY Zenon, <1>8, <1>10, <1>11, <1>12 DEF State, Kept
  <1> QED  BY <1>3, <1>6, <1>7, <1>13 DEF Shrink, Return, TreeInv

-----------------------------------------------------------------------------
(* A call begins.                                                            *)

\* Between calls.
IdleAt(V, L, R) ==
  /\ Held(heap, root, V, L, R) /\ pend = <<>> /\ Rooted(heap, root)
  /\ Typed(heap, "idle", x, k, s, pend, kp, ret, before)
  /\ Count(heap, V, Keys) <= MaxKeys /\ Count(heap, V, Keys) = Cardinality(Places)
  /\ Bag \in [Keys -> 0 .. MaxKeys] /\ \A e \in Keys : Bag[e] = Count(heap, V, {e})

\* What the invariant says between calls.
LEMMA IdleNow ==
  ASSUME TreeInv, pc = "idle"
  PROVE  \E V, L, R : IdleAt(V, L, R)
  <1>1. /\ Typed(heap, "idle", x, k, s, pend, kp, ret, before)
        /\ Kept(heap, root, "idle", x, k, s, pend, kp, before)
    BY DEF TreeInv, State
  <1>2. PICK V, L, R : /\ Held(heap, root, V, L, R)
                       /\ Running(heap, root, "idle", x, k, s, pend, kp, V, L, R)
                       /\ Counted(heap, "idle", kp, before, V)
    BY Zenon, <1>1 DEF Kept
  <1>3. pend = <<>> /\ Rooted(heap, root) /\ Count(heap, V, Keys) <= MaxKeys
    BY <1>2 DEF Running, Counted
  <1>4. /\ Cardinality(Places) = Count(heap, V, Keys)
        /\ Bag \in [Keys -> Nat] /\ \A e \in Keys : Bag[e] = Count(heap, V, {e})
    BY <1>2, PlacesAre
  <1>5. ASSUME NEW e \in Keys PROVE Bag[e] \in 0 .. MaxKeys
    <2>1. Spots(heap, V, {e}) \subseteq Spots(heap, V, Keys)  BY DEF Spots
    <2>2. IsFiniteSet(Spots(heap, V, Keys))  BY Zenon, <1>2, FiniteSpots
    <2>3. Count(heap, V, {e}) <= Count(heap, V, Keys)  BY <2>1, <2>2, FS_Subset DEF Count
    <2>4. Count(heap, V, {e}) \in Nat /\ Count(heap, V, Keys) \in Nat
      BY Zenon, <1>2, FiniteSpots
    <2>5. Bag[e] = Count(heap, V, {e})  BY <1>4
    <2> QED  BY <1>3, <2>3, <2>4, <2>5, SizesAssumption
  <1>6. Bag \in [Keys -> 0 .. MaxKeys]
    <2>1. Bag = [e \in Keys |-> Bag[e]]  BY <1>4
    <2> HIDE DEF Bag
    <2> QED  BY <1>5, <2>1
  <1> QED  BY <1>1, <1>2, <1>3, <1>4, <1>6 DEF IdleAt

\* The start of bt_delete.
LEMMA DeleteKeeps ==
  ASSUME TreeInv, NEW e \in Keys, Delete(e)  PROVE TreeInv'
  <1>1. pc = "idle" /\ Bag[e] > 0  BY DEF Delete
  <1>2. PICK V, L, R : IdleAt(V, L, R)  BY Zenon, <1>1, IdleNow
  <1>3. /\ Held(heap, root, V, L, R) /\ pend = <<>> /\ Rooted(heap, root)
        /\ Typed(heap, "idle", x, k, s, pend, kp, ret, before)
        /\ Count(heap, V, Keys) <= MaxKeys
        /\ Bag \in [Keys -> 0 .. MaxKeys] /\ \A d \in Keys : Bag[d] = Count(heap, V, {d})
    BY Zenon, <1>2 DEF IdleAt
  <1>4. Good(heap, root, V, L, R)  BY Zenon, <1>3 DEF Held
  <1>5. \E n \in V : Has(heap[n], e)
    <2>1. Spots(heap, V, {e}) # {}
      <3>1. Cardinality({}) = 0  BY FS_EmptySet
      <3>2. Bag[e] = Count(heap, V, {e}) /\ Bag[e] # 0  BY <1>1, <1>3
      <3> QED  BY <3>1, <3>2 DEF Count
    <2>2. PICK q : q \in Spots(heap, V, {e})  BY <2>1
    <2>3. q[1] \in V /\ q[2] \in 1 .. Len(heap[q[1]].key) /\ heap[q[1]].key[q[2]] = e
      BY <2>2 DEF Spots
    <2> QED  BY Zenon, <2>3 DEF Has
  <1>6. PICK n \in V : Has(heap[n], e)  BY Zenon, <1>5
  <1>7. PICK S : Leads(heap, V, R, root, e, S)  BY Zenon, <1>4, <1>6, LeadsFrom
  <1>8. root \in V /\ root \in 1 .. Len(heap)
    <2>1. root \in V  BY <1>4 DEF Good, Tree
    <2> QED  BY Zenon, <1>3, <2>1, InHeap
  <1>9. \A p, i : Going(heap, root, V, L, R, root, e, 0, p, i)
    <2>1. Searching(heap, V, R, root, e)  BY Zenon, <1>7 DEF Searching
    <2> QED  BY <1>3, <1>8, <2>1 DEF Going, Stout
  <1>10. Running(heap, root, "delete", root, e, 0, <<>>, kp, V, L, R)
    BY <1>9 DEF Running
  <1>11. Counted(heap, "delete", kp, Bag, V)
    BY <1>3 DEF Counted
  <1>12. Typed(heap, "delete", root, e, 0, <<>>, kp, ret, Bag)
    BY <1>3, <1>8 DEF Typed, PcValues
  <1>13. State(heap, root, "delete", root, e, 0, <<>>, kp, ret, Bag)
    BY Zenon, <1>3, <1>10, <1>11, <1>12 DEF State, Kept
  <1> QED  BY <1>3, <1>13 DEF Delete, TreeInv

-----------------------------------------------------------------------------
(* Insertions.                                                               *)

\* A turn of an insertion, and the state it leaves.
LEMMA MadeState ==
  ASSUME NEW h, NEW r, NEW V, NEW L, NEW R, Held(h, r, V, L, R),
         NEW g, NEW t, NEW c, NEW e \in Keys, Made(h, V, g, t, c, e), Len(g) <= MaxNodes,
         NEW at, NEW a, NEW d, NEW st, NEW pd, NEW w, NEW rt, NEW b0,
         Typed(h, at, a, d, st, pd, w, rt, b0),
         NEW bf \in [Keys -> 0 .. MaxKeys],
         Count(h, V, Keys) < MaxKeys, \A f \in Keys : bf[f] = Count(h, V, {f})
  PROVE  State(g, t, "insert", c, e, st, <<>>, w, rt, bf)
  <1>1. PICK W, M, Q : Held(g, t, W, M, Q) /\ Inserting(g, t, W, Q, c, e) /\ Alike(h, V, g, W)
    BY Zenon DEF Made
  <1>2. \A E : Count(g, W, E) = Count(h, V, E)  BY <1>1, CountAlike
  <1>3. Count(h, V, Keys) \in Nat  BY Zenon, FiniteSpots
  <1>4. Counted(g, "insert", w, bf, W)
    <2>1. Count(g, W, Keys) < MaxKeys /\ Count(g, W, Keys) <= MaxKeys
      BY <1>2, <1>3, SizesAssumption
    <2>2. \A f \in Keys : bf[f] = Count(g, W, {f})  BY <1>2
    <2> QED  BY <2>1, <2>2 DEF Counted
  <1>5. Running(g, t, "insert", c, e, st, <<>>, w, W, M, Q)  BY <1>1 DEF Running
  <1>6. c \in 1 .. Len(g)
    <2>1. c \in W  BY <1>1 DEF Inserting
    <2> QED  BY Zenon, <1>1, <2>1, InHeap
  <1>7. Typed(g, "insert", c, e, st, <<>>, w, rt, bf)
    BY <1>6 DEF Typed, PcValues
  <1> QED  BY Zenon, <1>1, <1>4, <1>5, <1>7 DEF State, Kept

\* The start of bt_insert.
LEMMA InsertKeeps ==
  ASSUME TreeInv, NEW e \in Keys, Insert(e)  PROVE TreeInv'
  <1>1. pc = "idle" /\ Cardinality(Places) < MaxKeys  BY DEF Insert
  <1>2. PICK V, L, R : IdleAt(V, L, R)  BY Zenon, <1>1, IdleNow
  <1>3. /\ Held(heap, root, V, L, R) /\ pend = <<>> /\ Rooted(heap, root)
        /\ Typed(heap, "idle", x, k, s, pend, kp, ret, before)
        /\ Count(heap, V, Keys) <= MaxKeys /\ Count(heap, V, Keys) = Cardinality(Places)
        /\ Bag \in [Keys -> 0 .. MaxKeys] /\ \A d \in Keys : Bag[d] = Count(heap, V, {d})
    BY Zenon, <1>2 DEF IdleAt
  <1>4. Count(heap, V, Keys) < MaxKeys  BY <1>1, <1>3
  <1>5. CASE N(heap[root]) # Full
    <2>1. root \in V /\ R[root] = Keys  BY <1>3 DEF Held, Good, Tree
    <2>2. N(heap[root]) <= Full  BY Zenon, <1>3, <2>1 DEF Held, Sized
    <2>3. N(heap[root]) < Full
      <3>1. Good(heap, root, V, L, R)  BY Zenon, <1>3 DEF Held
      <3>2. heap[root].key \in Seq(Keys)  BY Zenon, <2>1, <3>1, NodeShape
      <3>3. N(heap[root]) \in Nat /\ Full \in Nat
        BY <3>2, LenProperties, SizesAssumption DEF N, Full
      <3> QED  BY <1>5, <2>2, <3>3
    <2>4. Inserting(heap, root, V, R, root, e)  BY <1>3, <2>1, <2>3 DEF Inserting
    <2>5. Made(heap, V, heap, root, root, e)
      <3>1. Alike(heap, V, heap, V)  BY Zenon, AlikeSame
      <3> QED  BY Zenon, <1>3, <2>4, <3>1 DEF Made
    <2>6. Len(heap) <= MaxNodes  BY <1>3 DEF Typed
    <2>7. State(heap, root, "insert", root, e, s, <<>>, kp, ret, Bag)
      <3> HIDE DEF Bag
      <3> QED  BY <1>3, <1>4, <2>5, <2>6, MadeState
    <2>8. /\ UNCHANGED <<heap, root, s, pend, kp, ret>> /\ pc' = "insert" /\ x' = root
          /\ k' = e /\ before' = Bag
      BY <1>5 DEF Insert, Grow
    <2> QED  BY <1>3, <2>7, <2>8 DEF TreeInv
  <1>6. CASE N(heap[root]) = Full /\ Room(2)
    <2>1. PICK t : t = Len(heap) + 1  OBVIOUS
    <2>2. PICK g : g = SplitChild(Append(heap, Top(root)), t, 0)  OBVIOUS
    <2>3. GrowSplitAt(heap, g, root, t)  BY <1>6, <2>1, <2>2 DEF GrowSplitAt
    <2>4. Made(heap, V, g, t, t, e) /\ Len(g) = Len(heap) + 2  BY <1>3, <2>3, GrowTurn
    <2>5. Len(g) <= MaxNodes  BY <1>6, <2>4 DEF Room
    <2>6. State(g, t, "insert", t, e, s, <<>>, kp, ret, Bag)
      <3> HIDE DEF Bag
      <3> QED  BY <1>3, <1>4, <2>4, <2>5, MadeState
    <2>7. /\ heap' = g /\ root' = t /\ x' = t /\ UNCHANGED <<s, pend, kp, ret>>
          /\ pc' = "insert" /\ k' = e /\ before' = Bag
      BY <1>6, <2>1, <2>2 DEF Insert, Grow, Top
    <2> QED  BY <1>3, <2>6, <2>7 DEF TreeInv
  <1>7. CASE N(heap[root]) = Full /\ ~Room(2)
    <2>1. pc' = "lost" /\ before' = Bag /\ UNCHANGED <<heap, root, x, k, s, pend, kp, ret>>
      BY <1>1, <1>7 DEF Insert, Grow, Overwrite
    <2>2. State(heap, root, "lost", x, k, s, pend, kp, ret, Bag)
      <3> HIDE DEF Bag
      <3>1. Typed(heap, "lost", x, k, s, pend, kp, ret, Bag)  BY <1>3 DEF Typed, PcValues
      <3>2. Running(heap, root, "lost", x, k, s, pend, kp, V, L, R)  BY <1>3 DEF Running
      <3>3. Counted(heap, "lost", kp, Bag, V)  BY <1>3 DEF Counted
      <3> QED  BY Zenon, <1>3, <3>1, <3>2, <3>3 DEF State, Kept
    <2> QED  BY <2>1, <2>2 DEF TreeInv
  <1> QED  BY <1>5, <1>6, <1>7

\* An insertion under way.
PutsAt(V, L, R) ==
  /\ Held(heap, root, V, L, R) /\ pend = <<>> /\ k \in Keys /\ Inserting(heap, root, V, R, x, k)
  /\ Typed(heap, "insert", x, k, s, pend, kp, ret, before)
  /\ Count(heap, V, Keys) < MaxKeys /\ \A e \in Keys : before[e] = Count(heap, V, {e})

\* What the invariant says while an insertion runs.
LEMMA InsertNow ==
  ASSUME TreeInv, pc = "insert"
  PROVE  \E V, L, R : PutsAt(V, L, R)
  <1>1. /\ Typed(heap, "insert", x, k, s, pend, kp, ret, before)
        /\ Kept(heap, root, "insert", x, k, s, pend, kp, before)
    BY DEF TreeInv, State
  <1>2. PICK V, L, R : /\ Held(heap, root, V, L, R)
                       /\ Running(heap, root, "insert", x, k, s, pend, kp, V, L, R)
                       /\ Counted(heap, "insert", kp, before, V)
    BY Zenon, <1>1 DEF Kept
  <1>3. /\ pend = <<>> /\ k \in Keys /\ Inserting(heap, root, V, R, x, k)
        /\ Count(heap, V, Keys) < MaxKeys /\ \A e \in Keys : before[e] = Count(heap, V, {e})
    BY <1>2 DEF Running, Counted
  <1> QED  BY Zenon, <1>1, <1>2, <1>3 DEF PutsAt

\* The end of an insertion.
LEMMA InsertLeafKeeps ==
  ASSUME TreeInv, InsertLeaf  PROVE TreeInv'
  <1>1. pc = "insert" /\ heap[x].leaf  BY DEF InsertLeaf
  <1>2. PICK V, L, R : PutsAt(V, L, R)  BY Zenon, <1>1, InsertNow
  <1>3. /\ Held(heap, root, V, L, R) /\ pend = <<>> /\ k \in Keys
        /\ Inserting(heap, root, V, R, x, k)
        /\ Typed(heap, "insert", x, k, s, pend, kp, ret, before)
        /\ Count(heap, V, Keys) < MaxKeys
    BY Zenon, <1>2 DEF PutsAt
  <1>4. PICK g : g = PutLeaf(heap, x, k)  OBVIOUS
  <1>5. PutAt(heap, g, x, k)  BY <1>1, <1>4 DEF PutAt
  <1>6. Held(g, root, V, L, R) /\ Rooted(g, root) /\ OneMore(heap, g, V, x, k) /\ Len(g) = Len(heap)
    BY <1>3, <1>5, PutTurn
  <1>7. heap' = g /\ pc' = "idle" /\ UNCHANGED <<root, x, k, s, pend, kp, ret, before>>
    BY <1>4 DEF InsertLeaf, PutLeaf
  <1>8. Count(g, V, Keys) <= MaxKeys
    <2>1. Count(g, V, Keys) = Count(heap, V, Keys) + Unit(k, Keys)  BY <1>3, <1>6, CountMore
    <2>2. Unit(k, Keys) = 1  BY <1>3 DEF Unit
    <2>3. Count(heap, V, Keys) \in Nat  BY Zenon, <1>3, FiniteSpots
    <2> QED  BY <1>3, <2>1, <2>2, <2>3, SizesAssumption
  <1>9. Counted(g, "idle", kp, before, V)  BY <1>8 DEF Counted
  <1>10. Running(g, root, "idle", x, k, s, pend, kp, V, L, R)  BY <1>3, <1>6 DEF Running
  <1>11. Typed(g, "idle", x, k, s, pend, kp, ret, before)  BY <1>3, <1>6 DEF Typed, PcValues
  <1>12. State(g, root, "idle", x, k, s, pend, kp, ret, before)
    BY Zenon, <1>6, <1>9, <1>10, <1>11 DEF State, Kept
  <1> QED  BY <1>7, <1>12 DEF TreeInv

\* A turn of an insertion in an inner node.
LEMMA InsertDescendKeeps ==
  ASSUME TreeInv, InsertDescend  PROVE TreeInv'
  <1>1. pc = "insert" /\ ~heap[x].leaf  BY DEF InsertDescend
  <1>2. PICK V, L, R : PutsAt(V, L, R)  BY Zenon, <1>1, InsertNow
  <1>3. /\ Held(heap, root, V, L, R) /\ pend = <<>> /\ k \in Keys
        /\ Inserting(heap, root, V, R, x, k)
        /\ Typed(heap, "insert", x, k, s, pend, kp, ret, before)
        /\ Count(heap, V, Keys) < MaxKeys /\ \A e \in Keys : before[e] = Count(heap, V, {e})
    BY Zenon, <1>2 DEF PutsAt
  <1>4. PICK i \in Nat : /\ i + 1 \in 1 .. Len(heap[x].kid) /\ FindKIndex(heap[x], k) + 1 = i
                         /\ Meant(heap, R, x, i + 1, heap[x].kid[i + 1], k)
    BY <1>1, <1>3, InsertHere
  <1>5. PICK y : y = heap[x].kid[i + 1]  OBVIOUS
  <1>6. before \in [Keys -> 0 .. MaxKeys] /\ Len(heap) <= MaxNodes  BY <1>3 DEF Typed
  <1>7. CASE N(heap[y]) # Full
    <2>1. Meant(heap, R, x, i + 1, y, k)  BY <1>4, <1>5
    <2>2. Made(heap, V, heap, root, y, k)  BY <1>3, <1>7, <2>1, WideTurn
    <2>3. State(heap, root, "insert", y, k, s, <<>>, kp, ret, before)
      BY <1>3, <1>6, <2>2, MadeState
    <2>4. heap' = heap /\ x' = y /\ UNCHANGED <<root, pc, k, s, pend, kp, ret, before>>
      BY <1>4, <1>5, <1>7 DEF InsertDescend, Kid
    <2> QED  BY <1>1, <1>3, <2>3, <2>4 DEF TreeInv
  <1>8. CASE N(heap[y]) = Full /\ Room(1)
    <2>1. PICK g : g = SplitChild(heap, x, i)  OBVIOUS
    <2>2. PICK z : z = Len(heap) + 1  OBVIOUS
    <2>3. SplitAt(heap, g, x, i, y, z)
      BY <1>1, <1>4, <1>5, <1>8, <2>1, <2>2 DEF SplitAt
    <2>4. PICK c : c = IF k > g[x].key[i + 1] THEN g[x].kid[i + 2] ELSE g[x].kid[i + 1]  OBVIOUS
    <2>5. HalfFor(g, x, i, k, c)  BY Zenon, <2>4 DEF HalfFor
    <2>6. Meant(heap, R, x, i + 1, y, k)  BY <1>4, <1>5
    <2>7. Made(heap, V, g, root, c, k) /\ Len(g) = Len(heap) + 1
      BY <1>3, <2>3, <2>5, <2>6, SplitTurn
    <2>8. Len(g) <= MaxNodes  BY <1>8, <2>7 DEF Room
    <2>9. State(g, root, "insert", c, k, s, <<>>, kp, ret, before)
      BY <1>3, <1>6, <2>7, <2>8, MadeState
    <2>10. heap' = g /\ x' = c /\ UNCHANGED <<root, pc, k, s, pend, kp, ret, before>>
      BY <1>4, <1>5, <1>8, <2>1, <2>4 DEF InsertDescend, Kid, Key
    <2> QED  BY <1>1, <1>3, <2>9, <2>10 DEF TreeInv
  <1>9. CASE N(heap[y]) = Full /\ ~Room(1)
    <2>1. pc' = "lost" /\ before' = before /\ UNCHANGED <<heap, root, x, k, s, pend, kp, ret>>
      BY <1>1, <1>4, <1>5, <1>9 DEF InsertDescend, Overwrite, Kid
    <2>2. State(heap, root, "lost", x, k, s, pend, kp, ret, before)
      <3>1. Typed(heap, "lost", x, k, s, pend, kp, ret, before)  BY <1>3 DEF Typed, PcValues
      <3>2. Running(heap, root, "lost", x, k, s, pend, kp, V, L, R)  BY <1>3 DEF Running
      <3>3. Counted(heap, "lost", kp, before, V)
        <4>1. Count(heap, V, Keys) \in Nat  BY Zenon, <1>3, FiniteSpots
        <4> QED  BY <1>3, <4>1, SizesAssumption DEF Counted
      <3> QED  BY Zenon, <1>3, <3>1, <3>2, <3>3 DEF State, Kept
    <2> QED  BY <2>1, <2>2 DEF TreeInv
  <1> QED  BY <1>7, <1>8, <1>9

-----------------------------------------------------------------------------
\* The tree of bt_create.
LEMMA InitHolds ==
  ASSUME Init  PROVE TreeInv
  <1>1. /\ heap = <<Empty>> /\ root = 1 /\ pc = "idle" /\ x = 1 /\ k = None /\ s = 0
        /\ pend = <<>> /\ kp = None /\ ret = None /\ before = NoBag
    BY DEF Init
  <1>2. PICK h : h = <<Empty>>  OBVIOUS
  <1>3. /\ h \in Seq(Node) /\ Len(h) = 1 /\ h[1] \in Node /\ h[1].leaf
        /\ h[1].key = <<>> /\ h[1].kid = <<>>
    <2>1. Empty.leaf /\ Empty.key = <<>> /\ Empty.kid = <<>>  BY DEF Empty
    <2>2. Empty \in Node
      <3>1. <<>> \in Seq(Keys) /\ <<>> \in Seq(Nat)  BY EmptySeq
      <3> QED  BY <3>1 DEF Empty, Node
    <2> HIDE DEF Empty
    <2> QED  BY <1>2, <2>1, <2>2
  <1>4. N(h[1]) = 0 /\ Len(h[1].key) = 0 /\ Len(h[1].kid) = 0  BY <1>3, EmptySeq DEF N
  <1> DEFINE L == [n \in {1} |-> 0]
             R == [n \in {1} |-> Keys]
  <1>5. L \in [{1} -> Nat] /\ L[1] = 0 /\ R \in [{1} -> SUBSET Keys] /\ R[1] = Keys  OBVIOUS
  <1> HIDE DEF L, R
  <1>6. Held(h, 1, {1}, L, R)
    <2>1. Tree(h, 1, {1}, L)
      <3>1. Noded(h, 1, {1}, L)  BY <1>3, <1>4, <1>5 DEF Noded
      <3>2. Single(h, {1})
        <4>1. 1 .. 0 = {}  OBVIOUS
        <4> QED  BY <1>4, <4>1 DEF Single
      <3> QED  BY <1>5, <3>1, <3>2 DEF Tree
    <2>2. Ranged(h, 1, R)
      <3>1. 1 .. 0 = {}  OBVIOUS
      <3> QED  BY <1>4, <3>1 DEF Ranged, Sorted
    <2>3. Good(h, 1, {1}, L, R)  BY <1>5, <2>1, <2>2 DEF Good
    <2>4. Heap(h, {1})  BY <1>3 DEF Heap
    <2>5. Sized(h, 1, {1})  BY <1>4, SizesAssumption DEF Sized, Full
    <2>6. L[1] <= Len(h)  BY <1>3, <1>5
    <2> QED  BY Zenon, <2>3, <2>4, <2>5, <2>6 DEF Held
  <1>7. Count(h, {1}, Keys) = 0
    <2>1. Spots(h, {1}, Keys) = {}
      <3>1. 1 .. 0 = {}  OBVIOUS
      <3> QED  BY <1>4, <3>1 DEF Spots
    <2> QED  BY <2>1, FS_EmptySet DEF Count
  <1>8. Running(h, 1, "idle", 1, None, 0, <<>>, None, {1}, L, R)  BY <1>3 DEF Running, Rooted
  <1>9. Counted(h, "idle", None, NoBag, {1})  BY <1>7, SizesAssumption DEF Counted
  <1>10. Typed(h, "idle", 1, None, 0, <<>>, None, None, NoBag)
    <2>1. NoBag \in [Keys -> 0 .. MaxKeys]  BY SizesAssumption DEF NoBag
    <2>2. Len(h) <= MaxNodes /\ 1 \in 1 .. Len(h)  BY <1>3, SizesAssumption
    <2> HIDE DEF NoBag
    <2> QED  BY <2>1, <2>2 DEF Typed, PcValues
  <1>11. State(h, 1, "idle", 1, None, 0, <<>>, None, None, NoBag)
    BY Zenon, <1>6, <1>8, <1>9, <1>10 DEF State, Kept
  <1> QED  BY <1>1, <1>2, <1>11 DEF TreeInv

\* Every step keeps the invariant.
LEMMA StepKeeps ==
  ASSUME TreeInv, [Next]_vars  PROVE TreeInv'
  <1>1. CASE Step
    <2>1. CASE InsertLeaf  BY Zenon, <2>1, InsertLeafKeeps
    <2>2. CASE InsertDescend  BY Zenon, <2>2, InsertDescendKeeps
    <2>3. CASE DeleteLeaf  BY Zenon, <2>3, DeleteLeafKeeps
    <2>4. CASE DeletePred  BY Zenon, <2>4, DeletePredKeeps
    <2>5. CASE DeleteSucc  BY Zenon, <2>5, DeleteSuccKeeps
    <2>6. CASE Replace  BY Zenon, <2>6, ReplaceKeeps
    <2>7. CASE MergeAround  BY Zenon, <2>7, MergeAroundKeeps
    <2>8. CASE Descend  BY Zenon, <2>8, DescendKeeps
    <2>9. CASE BorrowLeft  BY Zenon, <2>9, BorrowLeftKeeps
    <2>10. CASE BorrowRight  BY Zenon, <2>10, BorrowRightKeeps
    <2>11. CASE MergeLeft  BY Zenon, <2>11, MergeLeftKeeps
    <2>12. CASE MergeRight  BY Zenon, <2>12, MergeRightKeeps
    <2>13. CASE Shrink  BY Zenon, <2>13, ShrinkKeeps
    <2> QED  BY Zenon, <1>1, <2>1, <2>2, <2>3, <2>4, <2>5, <2>6, <2>7, <2>8, <2>9, <2>10, <2>11,
                <2>12, <2>13 DEF Step
  <1>2. CASE UNCHANGED vars  BY <1>2 DEF vars, TreeInv
  <1>3. CASE Look  BY <1>3 DEF Look, vars, TreeInv
  <1>4. ASSUME NEW e \in Keys, Insert(e)  PROVE TreeInv'  BY Zenon, <1>4, InsertKeeps
  <1>5. ASSUME NEW e \in Keys, Delete(e)  PROVE TreeInv'  BY Zenon, <1>5, DeleteKeeps
  <1> QED  BY Zenon, <1>1, <1>2, <1>3, <1>4, <1>5 DEF Next

\* The invariant holds in every state.
LEMMA AlwaysTree ==
  Spec => []TreeInv
  <1>1. Init => TreeInv  BY InitHolds
  <1>2. TreeInv /\ [Next]_vars => TreeInv'  BY StepKeeps
  <1> QED  BY <1>1, <1>2, PTL DEF Spec

-----------------------------------------------------------------------------
\* What is written of the tree says that the state has its type.
LEMMA StateTyped ==
  ASSUME TreeInv  PROVE TypeOK
  <1>1. /\ Typed(heap, pc, x, k, s, pend, kp, ret, before)
        /\ Kept(heap, root, pc, x, k, s, pend, kp, before)
    BY Zenon DEF TreeInv, State
  <1>2. PICK V, L, R : Held(heap, root, V, L, R)  BY Zenon, <1>1 DEF Kept
  <1>3. heap \in Seq(Node) /\ Len(heap) \in Nat /\ root \in 1 .. Len(heap)
    BY Zenon, <1>2, InHeap
  <1>4. DOMAIN heap = 1 .. Len(heap)  BY <1>3, LenProperties
  <1>5. Len(heap) \in 1 .. MaxNodes  BY <1>1, <1>3 DEF Typed
  <1> QED  BY <1>1, <1>3, <1>4, <1>5 DEF Typed, PcValues, TypeOK

-----------------------------------------------------------------------------
(* The bag of keys.                                                          *)

\* What the callers see: the keys of the tree before the running call.
View == IF pc = "idle" THEN Bag ELSE before

\* Bag as it is after a step.
LEMMA BagNext ==
  ASSUME NEW V, NEW L, NEW R, Held(heap', root', V, L, R),
         NEW F, F \in [Keys -> Nat], \A d \in Keys : F[d] = Count(heap', V, {d})
  PROVE  Bag' = F
  <1>1. Bag' \in [Keys -> Nat] /\ \A e \in Keys : Bag'[e] = Count(heap', V, {e})
    BY PlacesAreNext
  <1>2. PICK B : B = Bag'  OBVIOUS
  <1>3. B \in [Keys -> Nat] /\ \A e \in Keys : B[e] = F[e]  BY <1>1, <1>2
  <1>4. B = F  BY <1>3
  <1> QED  BY <1>2, <1>4

\* The end of an insertion adds its key and nothing else.
LEMMA InsertLeafAdds ==
  ASSUME TreeInv, InsertLeaf  PROVE k \in Keys /\ Bag' = [before EXCEPT ![k] = @ + 1]
  <1>1. pc = "insert" /\ heap[x].leaf  BY DEF InsertLeaf
  <1>2. PICK V, L, R : PutsAt(V, L, R)  BY Zenon, <1>1, InsertNow
  <1>3. /\ Held(heap, root, V, L, R) /\ k \in Keys /\ Inserting(heap, root, V, R, x, k)
        /\ Typed(heap, "insert", x, k, s, pend, kp, ret, before)
        /\ \A e \in Keys : before[e] = Count(heap, V, {e})
    BY Zenon, <1>2 DEF PutsAt
  <1>4. PICK g : g = PutLeaf(heap, x, k)  OBVIOUS
  <1>5. PutAt(heap, g, x, k)  BY <1>1, <1>4 DEF PutAt
  <1>6. Held(g, root, V, L, R) /\ OneMore(heap, g, V, x, k)  BY <1>3, <1>5, PutTurn
  <1>7. heap' = g /\ root' = root  BY <1>4 DEF InsertLeaf, PutLeaf
  <1>8. Held(heap', root', V, L, R)  BY <1>6, <1>7
  <1>9. before \in [Keys -> Nat]  BY <1>3 DEF Typed
  <1>10. PICK F : F = [before EXCEPT ![k] = @ + 1]  OBVIOUS
  <1>11. F \in [Keys -> Nat] /\ \A d \in Keys : F[d] = before[d] + Unit(k, {d})
    BY <1>3, <1>9, <1>10 DEF Unit
  <1>12. \A d \in Keys : F[d] = Count(heap', V, {d})
    <2>1. \A E : Count(g, V, E) = Count(heap, V, E) + Unit(k, E)  BY <1>3, <1>6, CountMore
    <2> QED  BY <1>3, <1>7, <1>11, <2>1
  <1>13. Bag' = F  BY <1>8, <1>11, <1>12, BagNext
  <1> QED  BY <1>3, <1>10, <1>13

\* The end of a deletion takes its key, which it returns, and nothing else.
LEMMA ShrinkTakes ==
  ASSUME TreeInv, Shrink
  PROVE  kp \in Keys /\ before[kp] > 0 /\ Bag' = [before EXCEPT ![kp] = @ - 1] /\ kp = k
  <1>1. /\ Typed(heap, "shrink", x, k, s, pend, kp, ret, before)
        /\ Kept(heap, root, "shrink", x, k, s, pend, kp, before)
    BY DEF Shrink, TreeInv, State
  <1>2. PICK V, L, R : /\ Held(heap, root, V, L, R)
                       /\ Running(heap, root, "shrink", x, k, s, pend, kp, V, L, R)
                       /\ Counted(heap, "shrink", kp, before, V)
    BY Zenon, <1>1 DEF Kept
  <1>3. /\ kp \in Keys /\ kp = k
        /\ \A d \in Keys : before[d] = Count(heap, V, {d}) + Unit(kp, {d})
    BY <1>2 DEF Running, Counted
  <1>4. \E W, M, Q : Held(heap', root', W, M, Q) /\ Alike(heap, V, heap', W)
    <2>1. CASE heap[root].key = <<>> /\ ~heap[root].leaf
      <3>1. PICK c : c = Kid(heap[root], 0)  OBVIOUS
      <3>2. PICK g : g = [heap EXCEPT ![root] = Freed]  OBVIOUS
      <3>3. ShrinkAt(heap, g, root, c)  BY <2>1, <3>1, <3>2 DEF ShrinkAt, Kid
      <3>4. heap' = g /\ root' = c  BY <2>1, <3>1, <3>2 DEF Shrink
      <3>5. Remains(heap, V, g, c)  BY <1>2, <3>3, ShrinkTurn
      <3> QED  BY Zenon, <3>4, <3>5 DEF Remains
    <2>2. CASE ~(heap[root].key = <<>> /\ ~heap[root].leaf)
      <3>1. heap' = heap /\ root' = root  BY <2>2 DEF Shrink
      <3>2. Alike(heap, V, heap, V)  BY Zenon, AlikeSame
      <3> QED  BY <1>2, <3>1, <3>2
    <2> QED  BY <2>1, <2>2
  <1>5. PICK W, M, Q : Held(heap', root', W, M, Q) /\ Alike(heap, V, heap', W)  BY Zenon, <1>4
  <1>6. \A d : Count(heap', W, {d}) = Count(heap, V, {d})  BY <1>2, <1>5, CountAlike
  <1>7. before \in [Keys -> Nat]  BY <1>1 DEF Typed
  <1>8. \A d \in Keys : Count(heap, V, {d}) \in Nat  BY Zenon, <1>2, FiniteSpots
  <1>9. before[kp] > 0
    <2>1. Unit(kp, {kp}) = 1  BY DEF Unit
    <2> QED  BY <1>3, <1>8, <2>1
  <1>10. PICK F : F = [before EXCEPT ![kp] = @ - 1]  OBVIOUS
  <1>11. F \in [Keys -> Nat]  BY <1>3, <1>7, <1>9, <1>10
  <1>12. \A d \in Keys : F[d] = Count(heap', W, {d})
    <2> TAKE d \in Keys
    <2>1. before[d] = Count(heap, V, {d}) + Unit(kp, {d}) /\ Count(heap, V, {d}) \in Nat
      BY <1>3, <1>8
    <2>2. F[d] = before[d] - Unit(kp, {d})  BY <1>3, <1>7, <1>10 DEF Unit
    <2>3. Unit(kp, {d}) \in Nat  BY DEF Unit
    <2>4. F[d] = Count(heap, V, {d})  BY <2>1, <2>2, <2>3
    <2> QED  BY <1>6, <2>4
  <1>13. Bag' = F  BY <1>5, <1>11, <1>12, BagNext
  <1> QED  BY <1>3, <1>9, <1>10, <1>13

\* A step that leaves the tree as it is leaves its bag as it is.
LEMMA SameBag ==
  ASSUME TreeInv, heap' = heap, root' = root  PROVE Bag' = Bag
  <1>1. Kept(heap, root, pc, x, k, s, pend, kp, before)  BY DEF TreeInv, State
  <1>2. PICK V, L, R : Held(heap, root, V, L, R)  BY Zenon, <1>1 DEF Kept
  <1>3. Held(heap', root', V, L, R)  BY <1>2
  <1>4. Bag \in [Keys -> Nat] /\ \A e \in Keys : Bag[e] = Count(heap, V, {e})
    BY <1>2, PlacesAre
  <1>5. PICK F : F = Bag  OBVIOUS
  <1>6. F \in [Keys -> Nat] /\ \A d \in Keys : F[d] = Count(heap', V, {d})
    <2> HIDE DEF Bag
    <2> QED  BY <1>4, <1>5
  <1>7. Bag' = F  BY <1>3, <1>6, BagNext
  <1> QED  BY <1>5, <1>7

\* The first tree has no key.
LEMMA InitBag ==
  ASSUME Init  PROVE Bag = NoBag
  <1>1. TreeInv  BY InitHolds
  <1>2. pc = "idle"  BY DEF Init
  <1>3. PICK V, L, R : IdleAt(V, L, R)  BY Zenon, <1>1, <1>2, IdleNow
  <1>4. /\ Held(heap, root, V, L, R) /\ Bag \in [Keys -> 0 .. MaxKeys]
        /\ \A e \in Keys : Bag[e] = Count(heap, V, {e})
    BY Zenon, <1>3 DEF IdleAt
  <1>5. V \subseteq {1}
    <2>1. Len(heap) = 1  BY DEF Init
    <2>2. \A n \in V : n \in 1 .. Len(heap)  BY Zenon, <1>4, InHeap
    <2> QED  BY <2>1, <2>2
  <1>6. Len(heap[1].key) = 0
    <2>1. heap[1].key = <<>>  BY DEF Init, Empty
    <2> QED  BY <2>1, EmptySeq
  <1>7. \A e : Count(heap, V, {e}) = 0
    <2>1. \A e : Spots(heap, V, {e}) = {}
      <3>1. 1 .. 0 = {}  OBVIOUS
      <3> QED  BY <1>5, <1>6, <3>1 DEF Spots
    <2> QED  BY <2>1, FS_EmptySet DEF Count
  <1>8. PICK B : B = Bag  OBVIOUS
  <1>9. B \in [Keys -> 0 .. MaxKeys] /\ \A e \in Keys : B[e] = 0  BY <1>4, <1>7, <1>8
  <1>10. B = NoBag  BY <1>9 DEF NoBag
  <1> QED  BY <1>8, <1>10

\* Each step is a stutter of the bag, or the step at which the call takes effect.
LEMMA StepRefines ==
  ASSUME TreeInv, [Next]_vars  PROVE [KB!Next]_<<View, ret>>
  <1> USE DEF View
  <1>1. CASE InsertLeaf
    <2>1. k \in Keys /\ Bag' = [before EXCEPT ![k] = @ + 1]  BY Zenon, <1>1, InsertLeafAdds
    <2>2. pc = "insert" /\ pc' = "idle" /\ ret' = ret  BY <1>1 DEF InsertLeaf
    <2>3. KB!Insert(k)  BY <2>1, <2>2 DEF KB!Insert
    <2> QED  BY <2>1, <2>3 DEF KB!Next
  <1>2. CASE Shrink
    <2>1. kp \in Keys /\ before[kp] > 0 /\ Bag' = [before EXCEPT ![kp] = @ - 1]
      BY Zenon, <1>2, ShrinkTakes
    <2>2. pc = "shrink" /\ pc' = "idle" /\ ret' = kp  BY <1>2 DEF Shrink, Return
    <2>3. KB!Delete(kp)  BY <2>1, <2>2 DEF KB!Delete
    <2> QED  BY <2>1, <2>3 DEF KB!Next
  <1>3. ASSUME pc # "idle", pc' # "idle", before' = before, ret' = ret  PROVE UNCHANGED <<View, ret>>
    BY <1>3
  <1>4. ASSUME pc = "idle", pc' # "idle", before' = Bag, ret' = ret  PROVE UNCHANGED <<View, ret>>
    <2> HIDE DEF View
    <2>1. View = Bag /\ View' = before'  BY <1>4 DEF View
    <2> QED  BY <1>4, <2>1
  <1>5. ASSUME heap' = heap, root' = root, pc' = pc, before' = before, ret' = ret
        PROVE  UNCHANGED <<View, ret>>
    <2>1. Bag' = Bag  BY Zenon, <1>5, SameBag
    <2> QED  BY <1>5, <2>1
  <1> HIDE DEF View
  <1>6. CASE InsertDescend
    <2>1. pc # "idle" /\ pc' # "idle" /\ before' = before /\ ret' = ret
      BY <1>6 DEF InsertDescend, Overwrite
    <2> QED  BY Zenon, <1>3, <2>1
  <1>7. CASE DeleteLeaf \/ Replace
    <2>1. pc # "idle" /\ pc' # "idle" /\ before' = before /\ ret' = ret
      BY <1>7 DEF DeleteLeaf, Replace
    <2> QED  BY Zenon, <1>3, <2>1
  <1>8. CASE DeletePred \/ DeleteSucc
    <2>1. pc # "idle" /\ pc' # "idle" /\ before' = before /\ ret' = ret
      BY <1>8 DEF DeletePred, DeleteSucc, DeleteBelow, Inner
    <2> QED  BY Zenon, <1>3, <2>1
  <1>9. CASE MergeAround \/ Descend \/ BorrowLeft \/ BorrowRight \/ MergeLeft \/ MergeRight
    <2>1. pc # "idle" /\ pc' # "idle" /\ before' = before /\ ret' = ret
      BY <1>9 DEF MergeAround, Descend, BorrowLeft, BorrowRight, MergeLeft, MergeRight, GoOn, Thin, Inner
    <2> QED  BY Zenon, <1>3, <2>1
  <1>10. ASSUME NEW e \in Keys, Insert(e)  PROVE UNCHANGED <<View, ret>>
    <2>1. pc = "idle" /\ pc' # "idle" /\ before' = Bag /\ ret' = ret
      <3> HIDE DEF Bag
      <3> QED  BY <1>10 DEF Insert, Grow, Overwrite
    <2> QED  BY Zenon, <1>4, <2>1
  <1>11. ASSUME NEW e \in Keys, Delete(e)  PROVE UNCHANGED <<View, ret>>
    <2>1. pc = "idle" /\ pc' # "idle" /\ before' = Bag /\ ret' = ret
      <3> HIDE DEF Bag
      <3> QED  BY <1>11 DEF Delete
    <2> QED  BY Zenon, <1>4, <2>1
  <1>12. CASE Look \/ UNCHANGED vars
    <2>1. heap' = heap /\ root' = root /\ pc' = pc /\ before' = before /\ ret' = ret
      BY <1>12 DEF Look, vars
    <2> QED  BY Zenon, <1>5, <2>1
  <1> QED  BY Zenon, <1>1, <1>2, <1>6, <1>7, <1>8, <1>9, <1>10, <1>11, <1>12 DEF Next, Step

\* bt_insert adds its key to the tree and nothing else, bt_delete takes its key out,
\* and nothing else, and returns it, whatever splits, loans and merges happen on the
\* way: every behaviour of BTree is one of KeyBag.
THEOREM TreeIsABag ==
  Spec => ImplementsBag
  <1>1. Init => KB!Init
    <2> SUFFICES ASSUME Init PROVE KB!Init  OBVIOUS
    <2>1. Bag = NoBag /\ pc = "idle" /\ ret = None
      <3>1. Bag = NoBag  BY InitBag
      <3> QED  BY <3>1 DEF Init
    <2> HIDE DEF Bag
    <2> QED  BY <2>1 DEF KB!Init, NoBag
  <1>2. TreeInv /\ [Next]_vars => [KB!Next]_<<View, ret>>  BY StepRefines
  <1>3. Spec => []TreeInv  BY AlwaysTree
  <1>4. [KB!Next]_<<View, ret>> <=> [KB!Next]_<<IF pc = "idle" THEN Bag ELSE before, ret>>
    BY DEF View
  <1> QED  BY <1>1, <1>2, <1>3, <1>4, PTL DEF Spec, ImplementsBag, KB!Spec

-----------------------------------------------------------------------------
(* The shape of the tree, and what a search finds.                           *)

\* How deep the leaves below n are, when d is how deep they may be.
DepthOf(L, d, n) == IF L[n] <= d THEN d - L[n] ELSE 0

DeepStep(h, V, L, d, n) ==
  {DepthOf(L, d, n)} = IF h[n].leaf \/ d = 0 THEN {d}
                       ELSE UNION {{DepthOf(L, d - 1, c)} : c \in ToSet(h[n].kid)}

\* DepthOf is what the recursion of LeafDepths computes.
LEMMA DeepSteps ==
  ASSUME NEW h, NEW r, NEW V, NEW L, NEW R, Held(h, r, V, L, R), NEW d \in Nat, NEW n \in V
  PROVE  DeepStep(h, V, L, d, n)
  <1>1. Good(h, r, V, L, R)  BY Zenon DEF Held
  <1>2. L[n] \in Nat /\ (h[n].leaf <=> L[n] = 0) /\ h[n].kid \in Seq(Nat)
    <2>1. h[n].leaf <=> L[n] = 0  BY Zenon, <1>1, LeafLevel
    <2> QED  BY Zenon, <1>1, <2>1, NodeShape
  <1>3. CASE h[n].leaf \/ d = 0
    <2>1. DepthOf(L, d, n) = d  BY <1>2, <1>3 DEF DepthOf
    <2> QED  BY <1>3, <2>1 DEF DeepStep
  <1>4. CASE ~(h[n].leaf \/ d = 0)
    <2>1. Len(h[n].kid) >= 1
      <3>1. ~h[n].leaf => Len(h[n].kid) = Len(h[n].key) + 1  BY <1>1, NodeShape
      <3>2. h[n].key \in Seq(Keys)  BY Zenon, <1>1, NodeShape
      <3> QED  BY <1>4, <3>1, <3>2, LenProperties
    <2>2. \A l \in 1 .. Len(h[n].kid) :
            h[n].kid[l] \in V /\ L[n] = L[h[n].kid[l]] + 1 /\ L[h[n].kid[l]] \in Nat
      BY Zenon, <1>1, NodeShape
    <2>3. ASSUME NEW c \in ToSet(h[n].kid)  PROVE DepthOf(L, d - 1, c) = DepthOf(L, d, n)
      <3>1. PICK l \in 1 .. Len(h[n].kid) : h[n].kid[l] = c  BY Zenon, <1>2, ElementsOf
      <3>2. L[n] = L[c] + 1 /\ L[c] \in Nat  BY Zenon, <2>2, <3>1
      <3> QED  BY <1>2, <1>4, <3>2 DEF DepthOf
    <2>4. \E c : c \in ToSet(h[n].kid)
      <3>1. 1 \in 1 .. Len(h[n].kid)  BY <1>2, <2>1, LenProperties
      <3>2. \A c : c \in ToSet(h[n].kid) <=> \E i \in 1 .. Len(h[n].kid) : h[n].kid[i] = c
        BY Zenon, <1>2, ElementsOf
      <3>3. h[n].kid[1] \in ToSet(h[n].kid)  BY <3>1, <3>2
      <3> QED  BY Zenon, <3>3
    <2>5. {DepthOf(L, d, n)} = UNION {{DepthOf(L, d - 1, c)} : c \in ToSet(h[n].kid)}
      BY <2>3, <2>4
    <2> QED  BY <1>4, <2>5 DEF DeepStep
  <1> QED  BY <1>3, <1>4

\* All leaves are equally deep.
LEMMA OneDepth ==
  ASSUME NEW V, NEW L, NEW R, Held(heap, root, V, L, R)
  PROVE  Cardinality(LeafDepths) = 1
  <1>1. Reachable = V  BY Zenon, ReachesAll
  <1>2. Len(heap) \in Nat /\ root \in V
    BY LenProperties DEF Held, Heap, Good, Tree
  <1> DEFINE Row(w, d) == [n \in V |-> IF heap[n].leaf \/ d = 0 THEN {d}
                                        ELSE UNION {w[c] : c \in ToSet(heap[n].kid)}]
             P(f) == f = [d \in 0 .. Len(heap) |->
                            [n \in V |-> IF heap[n].leaf \/ d = 0 THEN {d}
                                         ELSE UNION {f[d - 1][c] : c \in ToSet(heap[n].kid)}]]
             flat(d) == [n \in V |-> {DepthOf(L, d, n)}]
             g == [d \in 0 .. Len(heap) |-> flat(d)]
  <1>3. LeafDepths = (CHOOSE f : P(f))[Len(heap)][root]  BY Zenon, <1>1 DEF LeafDepths
  <1>4. ASSUME NEW d \in 0 .. Len(heap), NEW w, d # 0 => w = flat(d - 1)
        PROVE  Row(w, d) = flat(d)
    <2>1. ASSUME NEW n \in V
          PROVE  {DepthOf(L, d, n)} = IF heap[n].leaf \/ d = 0 THEN {d}
                                      ELSE UNION {w[c] : c \in ToSet(heap[n].kid)}
      <3>1. {DepthOf(L, d, n)} = IF heap[n].leaf \/ d = 0 THEN {d}
                                 ELSE UNION {{DepthOf(L, d - 1, c)} : c \in ToSet(heap[n].kid)}
        <4>1. d \in Nat  BY <1>2
        <4>2. DeepStep(heap, V, L, d, n)  BY Zenon, <4>1, DeepSteps
        <4> QED  BY Zenon, <4>2 DEF DeepStep
      <3>2. CASE ~(heap[n].leaf \/ d = 0)
        <4>1. \A c \in ToSet(heap[n].kid) : c \in V
          <5>1. Good(heap, root, V, L, R)  BY Zenon DEF Held
          <5>2. heap[n].kid \in Seq(Nat)  BY Zenon, <5>1, NodeShape
          <5>3. \A l \in 1 .. Len(heap[n].kid) : heap[n].kid[l] \in V
            BY Zenon, <5>1, NodeShape
          <5>4. \A c : c \in ToSet(heap[n].kid) <=> \E i \in 1 .. Len(heap[n].kid) : heap[n].kid[i] = c
            BY Zenon, <5>2, ElementsOf
          <5> QED  BY Zenon, <5>3, <5>4
        <4>2. \A c \in ToSet(heap[n].kid) : w[c] = {DepthOf(L, d - 1, c)}
          BY <1>4, <3>2, <4>1
        <4>3. {w[c] : c \in ToSet(heap[n].kid)} = {{DepthOf(L, d - 1, c)} : c \in ToSet(heap[n].kid)}
          BY <4>2
        <4> QED  BY <3>1, <3>2, <4>3
      <3> QED  BY <3>1, <3>2
    <2> QED  BY Zenon, <2>1
  <1>5. P(g)
    <2>1. ASSUME NEW d \in 0 .. Len(heap)  PROVE flat(d) = Row(g[d - 1], d)
      <3>1. d # 0 => g[d - 1] = flat(d - 1)
        <4> HIDE DEF flat
        <4>1. d # 0 => d - 1 \in 0 .. Len(heap)  BY <1>2
        <4> QED  BY <4>1
      <3> HIDE DEF g, flat, Row
      <3> QED  BY <1>4, <3>1
    <2> HIDE DEF flat
    <2> QED  BY Zenon, <2>1
  <1>6. PICK f : P(f) /\ LeafDepths = f[Len(heap)][root]
    <2> HIDE DEF P, g
    <2> QED  BY Zenon, <1>3, <1>5
  <1>7. \A d \in 0 .. Len(heap) : f[d] = Row(f[d - 1], d)  BY Zenon, <1>6
  <1> HIDE DEF P, Row
  <1> DEFINE S == {d \in 0 .. Len(heap) : f[d] = flat(d)}
  <1>8. 0 \in S
    <2>1. 0 \in 0 .. Len(heap)  BY <1>2
    <2>2. Row(f[0 - 1], 0) = flat(0)
      <3> HIDE DEF flat
      <3> QED  BY <1>4, <2>1
    <2> HIDE DEF flat
    <2> QED  BY Zenon, <1>7, <2>1, <2>2
  <1>9. ASSUME NEW d \in 0 .. Len(heap), d < Len(heap), d \in S  PROVE d + 1 \in S
    <2> HIDE DEF flat
    <2>1. d + 1 \in 0 .. Len(heap) /\ (d + 1) - 1 = d  BY <1>2, <1>9
    <2>2. f[d + 1] = Row(f[d], d + 1)
      <3>1. f[d + 1] = Row(f[(d + 1) - 1], d + 1)  BY Zenon, <1>7, <2>1
      <3> QED  BY <2>1, <3>1
    <2>3. f[d] = flat(d)  BY <1>9
    <2>4. Row(f[d], d + 1) = flat(d + 1)  BY <1>4, <2>1, <2>3
    <2> QED  BY <2>1, <2>2, <2>4
  <1>10. f[Len(heap)] = flat(Len(heap))
    <2>1. \A d \in 0 .. Len(heap) : d \in S
      <3> HIDE DEF S
      <3> QED  BY <1>2, <1>8, <1>9, UpTo
    <2>2. Len(heap) \in 0 .. Len(heap)  BY <1>2
    <2> HIDE DEF flat
    <2> QED  BY <2>1, <2>2
  <1>11. LeafDepths = {DepthOf(L, Len(heap), root)}  BY <1>2, <1>6, <1>10
  <1> QED  BY <1>11, FS_Singleton

\* At every step of every call all leaves are equally deep, every node but the root has
\* between t - 1 and 2t - 1 keys, one child more than keys unless it is a leaf, and no
\* child of another node.
THEOREM AlwaysWellShaped ==
  Spec => []WellShaped
  <1>1. ASSUME TreeInv  PROVE WellShaped
    <2>1. Kept(heap, root, pc, x, k, s, pend, kp, before)  BY <1>1 DEF TreeInv, State
    <2>2. PICK V, L, R : Held(heap, root, V, L, R)  BY Zenon, <2>1 DEF Kept
    <2>3. Good(heap, root, V, L, R) /\ Sized(heap, root, V)  BY Zenon, <2>2 DEF Held
    <2>4. Reachable = V  BY Zenon, <2>2, ReachesAll
    <2>5. TypeOK  BY Zenon, <1>1, StateTyped
    <2>6. Cardinality(LeafDepths) = 1  BY <2>2, OneDepth
    <2>7. ASSUME NEW n \in V
          PROVE  /\ n # root => N(heap[n]) >= T - 1
                 /\ N(heap[n]) <= Full
                 /\ ~heap[n].leaf => Len(heap[n].kid) = N(heap[n]) + 1
      <3>1. ~heap[n].leaf => Len(heap[n].kid) = Len(heap[n].key) + 1  BY <2>3, NodeShape
      <3> QED  BY <2>3, <3>1 DEF Sized, N
    <2>8. ASSUME NEW n \in V, NEW m \in V, m # n, NEW c \in ToSet(heap[m].kid) \cap ToSet(heap[n].kid)
          PROVE  FALSE
      <3>1. heap[n].kid \in Seq(Nat) /\ heap[m].kid \in Seq(Nat)  BY Zenon, <2>3, NodeShape
      <3>2. PICK i \in 1 .. Len(heap[m].kid) : heap[m].kid[i] = c  BY Zenon, <2>8, <3>1, ElementsOf
      <3>3. PICK j \in 1 .. Len(heap[n].kid) : heap[n].kid[j] = c  BY Zenon, <2>8, <3>1, ElementsOf
      <3>4. Single(heap, V)  BY <2>3 DEF Good, Tree
      <3> QED  BY Zenon, <2>8, <3>2, <3>3, <3>4 DEF Single
    <2> QED  BY Zenon, <2>4, <2>5, <2>6, <2>7, <2>8 DEF WellShaped
  <1>2. Spec => []TreeInv  BY AlwaysTree
  <1> QED  BY <1>1, <1>2, PTL

-----------------------------------------------------------------------------
(* The calls that only read.                                                 *)

\* A function that is defined by steps from a value on exists.
Unrolling(W, w, m, step, f) ==
  /\ f \in [0 .. m -> W] /\ f[0] = step[0][w]
  /\ \A d \in 1 .. m : f[d] = step[d][f[d - 1]]

LEMMA Unrolls ==
  ASSUME NEW W, NEW w \in W, NEW m \in Nat, NEW step, step \in [Nat -> [W -> W]]
  PROVE  \E f : Unrolling(W, w, m, step, f)
  <1>1. PICK v \in W : v = step[0][w]
    <2>1. step[0] \in [W -> W]  OBVIOUS
    <2> QED  BY <2>1
  <1>2. PICK f \in [0 .. m -> W] : Stepped(f, v, step, m)  BY Zenon, Recursion
  <1> QED  BY <1>1, <1>2 DEF Stepped, Unrolling

\* The key e is in the tree.
InTree(h, V, e) == \E n \in V : Has(h[n], e)

\* The bag has the keys of the tree.
LEMMA InBag ==
  ASSUME NEW V, NEW L, NEW R, IdleAt(V, L, R), NEW e \in Keys
  PROVE  Bag[e] > 0 <=> InTree(heap, V, e)
  <1>1. /\ Held(heap, root, V, L, R) /\ Bag[e] = Count(heap, V, {e})
    BY Zenon DEF IdleAt
  <1>2. IsFiniteSet(Spots(heap, V, {e})) /\ Count(heap, V, {e}) \in Nat  BY Zenon, <1>1, FiniteSpots
  <1>3. Count(heap, V, {e}) = 0 <=> Spots(heap, V, {e}) = {}  BY <1>2, FS_EmptySet DEF Count
  <1>4. ASSUME NEW q \in Spots(heap, V, {e})  PROVE InTree(heap, V, e)
    <2>1. q[1] \in V /\ q[2] \in 1 .. Len(heap[q[1]].key) /\ heap[q[1]].key[q[2]] = e
      BY DEF Spots
    <2> QED  BY Zenon, <2>1 DEF InTree, Has
  <1>5. ASSUME InTree(heap, V, e)  PROVE Spots(heap, V, {e}) # {}
    <2>1. PICK n \in V : Has(heap[n], e)  BY Zenon, <1>5 DEF InTree
    <2>2. PICK j \in 1 .. Len(heap[n].key) : heap[n].key[j] = e  BY Zenon, <2>1 DEF Has
    <2>3. Len(heap[n].key) \in Nat
      <3>1. Good(heap, root, V, L, R)  BY Zenon, <1>1 DEF Held
      <3>2. heap[n].key \in Seq(Keys)  BY Zenon, <3>1, NodeShape
      <3> QED  BY <3>2, LenProperties
    <2>4. <<n, j>> \in Spots(heap, V, {e})  BY <2>2, <2>3 DEF Spots
    <2> QED  BY Zenon, <2>4
  <1> QED  BY <1>1, <1>2, <1>3, <1>4, <1>5

\* Between calls a node has keys, unless the tree has none.
LEMMA SomeKeys ==
  ASSUME NEW h, NEW r, NEW V, NEW L, NEW R, Held(h, r, V, L, R), Rooted(h, r),
         NEW e, InTree(h, V, e), NEW n \in V
  PROVE  N(h[n]) \in Nat /\ N(h[n]) >= 1
  <1>1. Good(h, r, V, L, R)  BY Zenon DEF Held
  <1>2. h[n].key \in Seq(Keys)  BY Zenon, <1>1, NodeShape
  <1>3. N(h[n]) \in Nat  BY <1>2, LenProperties DEF N
  <1>4. CASE n # r
    <2>1. N(h[n]) >= T - 1  BY Zenon, <1>4 DEF Held, Sized
    <2> QED  BY <1>3, <2>1, SizesAssumption
  <1>5. CASE n = r /\ ~h[r].leaf  BY <1>3, <1>5 DEF Rooted
  <1>6. CASE n = r /\ h[r].leaf
    <2>1. PICK m \in V : Has(h[m], e)  BY Zenon DEF InTree
    <2>2. PICK S : Leads(h, V, R, r, e, S)  BY Zenon, <1>1, <2>1, LeadsFrom
    <2>3. Has(h[r], e) \/ \E j \in 1 .. Len(h[r].kid) : h[r].kid[j] \in S
      BY <2>2 DEF Leads
    <2>4. Len(h[r].kid) = 0  BY <1>1, <1>6, NodeShape
    <2>5. 1 .. 0 = {}  OBVIOUS
    <2>6. Has(h[r], e)  BY <2>3, <2>4, <2>5
    <2>7. PICK j : j \in 1 .. Len(h[r].key)  BY Zenon, <2>6 DEF Has
    <2> QED  BY <1>3, <1>6, <2>7 DEF N
  <1> QED  BY <1>3, <1>4, <1>5, <1>6

\* Where a search goes on.
LEMMA FindKid ==
  ASSUME NEW h, NEW r, NEW V, NEW L, NEW R, Good(h, r, V, L, R), NEW n \in V, NEW e \in Keys
  PROVE  /\ FindKIndex(h[n], e) >= 0 => Has(h[n], Key(h[n], FindKIndex(h[n], e)))
         /\ ~h[n].leaf => Kid(h[n], FindKIndex(h[n], e) + 1) \in V
  <1>1. /\ h[n].key \in Seq(Nat) /\ h[n].key \in Seq(Keys) /\ Sorted(h[n].key)
    BY Zenon, NodeFacts
  <1>2. e \in Nat  BY KeysAssumption
  <1>3. PICK c \in 0 .. Len(h[n].key) : FindKIndex(h[n], e) = c - 1
    BY Zenon, <1>1, <1>2, RankOf
  <1>4. Len(h[n].key) \in Nat  BY <1>1, LenProperties
  <1>5. c \in Nat /\ (c - 1) + 1 = c  BY <1>3, <1>4
  <1>6. ASSUME c - 1 >= 0  PROVE Has(h[n], Key(h[n], c - 1))
    <2>1. c \in 1 .. Len(h[n].key)  BY <1>3, <1>4, <1>6
    <2>2. Key(h[n], c - 1) = h[n].key[c]  BY <1>5 DEF Key
    <2> QED  BY Zenon, <2>1, <2>2 DEF Has
  <1>7. ASSUME ~h[n].leaf  PROVE Kid(h[n], c) \in V
    <2>1. Len(h[n].kid) = Len(h[n].key) + 1  BY <1>7, NodeShape
    <2>2. \A l \in 1 .. Len(h[n].kid) :
            h[n].kid[l] \in V /\ L[n] = L[h[n].kid[l]] + 1 /\ L[h[n].kid[l]] \in Nat
      BY Zenon, NodeShape
    <2>3. c + 1 \in 1 .. Len(h[n].kid)  BY <1>3, <1>4, <2>1
    <2> QED  BY Zenon, <2>2, <2>3 DEF Kid
  <1> QED  BY <1>3, <1>5, <1>6, <1>7

\* What bt_find does in n, when w is what it does a level further down.
FindIn(h, e, w, d, n) ==
  LET i == FindKIndex(h[n], e)
  IN IF i >= 0 /\ Key(h[n], i) = e THEN e
     ELSE IF h[n].leaf \/ d = 0 THEN None
     ELSE w[Kid(h[n], i + 1)]

Finds(h, V, e, f) ==
  /\ f \in [0 .. Len(h) -> [V -> Keys \cup {None}]]
  /\ \A d \in 0 .. Len(h), n \in V : f[d][n] = FindIn(h, e, f[d - 1], d, n)

\* A search in a node finds a key or none.
LEMMA FindInKeys ==
  ASSUME NEW h, NEW r, NEW V, NEW L, NEW R, Good(h, r, V, L, R), NEW n \in V, NEW e \in Keys,
         NEW d \in Nat, NEW w \in [V -> Keys \cup {None}]
  PROVE  FindIn(h, e, w, d, n) \in Keys \cup {None}
  <1>1. ~h[n].leaf => Kid(h[n], FindKIndex(h[n], e) + 1) \in V  BY Zenon, FindKid
  <1> QED  BY <1>1 DEF FindIn

\* The recursion of bt_find, level by level.
LEMMA FindUnrolls ==
  ASSUME NEW V, NEW L, NEW R, Held(heap, root, V, L, R), NEW e \in Keys
  PROVE  \E f : Finds(heap, V, e, f) /\ Find(e) = f[Len(heap)][root]
  <1>1. Reachable = V  BY Zenon, ReachesAll
  <1>2. Len(heap) \in Nat /\ Good(heap, root, V, L, R)
    BY LenProperties DEF Held, Heap
  <1> DEFINE W == [V -> Keys \cup {None}]
             Row(w, d) == [n \in V |-> FindIn(heap, e, w, d, n)]
             w0 == [n \in V |-> None]
             step == [d \in Nat |-> [w \in W |-> Row(w, d)]]
             P(f) == f = [d \in 0 .. Len(heap) |-> Row(f[d - 1], d)]
  <1>3. Find(e) = (CHOOSE f : P(f))[Len(heap)][root]  BY Zenon, <1>1 DEF Find, FindIn
  <1>4. ASSUME NEW d \in Nat, NEW w \in W  PROVE Row(w, d) \in W
    <2>1. \A n \in V : FindIn(heap, e, w, d, n) \in Keys \cup {None}
      BY Zenon, <1>2, FindInKeys
    <2> QED  BY <2>1
  <1>5. step \in [Nat -> [W -> W]] /\ w0 \in W
    <2>1. w0 \in W  OBVIOUS
    <2> HIDE DEF Row, W, w0
    <2> QED  BY <1>4, <2>1
  <1>6. ASSUME NEW v  PROVE Row(v, 0) = Row(w0, 0)
    BY DEF FindIn
  <1>7. \E f : P(f)
    <2> HIDE DEF W, w0, step, Row, P
    <2>0. PICK g : Unrolling(W, w0, Len(heap), step, g)  BY Zenon, <1>2, <1>5, Unrolls
    <2>1. /\ g \in [0 .. Len(heap) -> W] /\ g[0] = step[0][w0]
          /\ \A d \in 1 .. Len(heap) : g[d] = step[d][g[d - 1]]
      BY Zenon, <2>0 DEF Unrolling
    <2>2. ASSUME NEW d \in 0 .. Len(heap)  PROVE g[d] = Row(g[d - 1], d)
      <3>1. CASE d = 0
        <4>1. g[0] = Row(w0, 0)  BY <1>5, <2>1 DEF step
        <4> QED  BY <1>6, <3>1, <4>1
      <3>2. CASE d # 0
        <4>1. d \in 1 .. Len(heap) /\ d \in Nat /\ d - 1 \in 0 .. Len(heap)  BY <1>2, <3>2
        <4>2. g[d - 1] \in W  BY <2>1, <4>1
        <4> QED  BY <2>1, <4>1, <4>2 DEF step
      <3> QED  BY <3>1, <3>2
    <2>3. g = [d \in 0 .. Len(heap) |-> Row(g[d - 1], d)]  BY <2>1, <2>2
    <2> QED  BY Zenon, <2>3 DEF P
  <1>8. PICK f : P(f) /\ Find(e) = f[Len(heap)][root]
    <2> HIDE DEF P
    <2> QED  BY Zenon, <1>3, <1>7
  <1>9. \A d \in 0 .. Len(heap) : f[d] = Row(f[d - 1], d)
    <2> HIDE DEF Row
    <2> QED  BY <1>8
  <1>10. \A d \in 0 .. Len(heap) : f[d] \in W
    <2> HIDE DEF W, w0, step, Row, P
    <2> DEFINE S == {d \in 0 .. Len(heap) : f[d] \in W}
    <2>1. 0 \in S
      <3>1. f[0] = Row(w0, 0) /\ 0 \in 0 .. Len(heap)  BY <1>2, <1>6, <1>9
      <3> QED  BY <1>4, <1>5, <3>1
    <2>2. ASSUME NEW d \in 0 .. Len(heap), d < Len(heap), d \in S  PROVE d + 1 \in S
      <3>1. d + 1 \in 0 .. Len(heap) /\ (d + 1) - 1 = d /\ d + 1 \in Nat  BY <1>2, <2>2
      <3>2. f[d + 1] = Row(f[d], d + 1)  BY <1>9, <3>1
      <3> QED  BY <1>4, <2>2, <3>1, <3>2
    <2>3. \A d \in 0 .. Len(heap) : d \in S
      <3> HIDE DEF S
      <3> QED  BY <1>2, <2>1, <2>2, UpTo
    <2> QED  BY <2>3
  <1>11. f \in [0 .. Len(heap) -> W]
    <2>1. f = [d \in 0 .. Len(heap) |-> Row(f[d - 1], d)]  BY Zenon, <1>8
    <2> HIDE DEF W, Row
    <2> QED  BY <1>10, <2>1
  <1>12. \A d \in 0 .. Len(heap), n \in V : f[d][n] = FindIn(heap, e, f[d - 1], d, n)
    BY <1>9
  <1> HIDE DEF P
  <1> QED  BY <1>8, <1>11, <1>12 DEF Finds

\* A search that starts on the way to a key finds it.
LEMMA FindsOnWay ==
  ASSUME NEW h, NEW r, NEW V, NEW L, NEW R, Held(h, r, V, L, R), NEW e \in Keys,
         NEW f, Finds(h, V, e, f), NEW d \in 0 .. Len(h), NEW n \in V, L[n] <= d,
         NEW S, Leads(h, V, R, n, e, S)
  PROVE  f[d][n] = e
  <1>1. Good(h, r, V, L, R) /\ Len(h) \in Nat  BY LenProperties DEF Held, Heap
  <1> DEFINE D == {b \in 0 .. Len(h) : \A m \in V : \A B : L[m] <= b /\ Leads(h, V, R, m, e, B)
                                                            => f[b][m] = e}
  <1>2. ASSUME NEW b \in 0 .. Len(h), NEW m \in V, NEW B, L[m] <= b, Leads(h, V, R, m, e, B),
               b >= 1 => b - 1 \in D
        PROVE  f[b][m] = e
    <2>1. f[b][m] = FindIn(h, e, f[b - 1], b, m)  BY Zenon DEF Finds
    <2>2. PICK c \in 0 .. Len(h[m].key) :
            /\ FindKIndex(h[m], e) = c - 1
            /\ Between(h[m].key, c + 1, e)
            /\ \/ c >= 1 /\ h[m].key[c] = e
               \/ /\ c >= 1 => h[m].key[c] # e
                  /\ ~h[m].leaf /\ c + 1 \in 1 .. Len(h[m].kid) /\ h[m].kid[c + 1] \in B
      BY <1>1, <1>2, LeadsHere
    <2>3. h[m].key \in Seq(Keys) /\ L[m] \in Nat /\ (h[m].leaf <=> L[m] = 0)
      <3>1. h[m].leaf <=> L[m] = 0  BY Zenon, <1>1, LeafLevel
      <3> QED  BY Zenon, <1>1, <3>1, NodeShape
    <2>4. c \in Nat /\ (c - 1) + 1 = c /\ b \in Nat  BY <1>1, <2>2, <2>3, LenProperties
    <2>5. Key(h[m], c - 1) = h[m].key[c]  BY <2>4 DEF Key
    <2>6. Kid(h[m], (c - 1) + 1) = h[m].kid[c + 1]  BY <2>4 DEF Kid
    <2>7. CASE c >= 1 /\ h[m].key[c] = e
      <3>1. c - 1 >= 0  BY <2>4, <2>7
      <3>2. FindIn(h, e, f[b - 1], b, m) = e  BY Zenon, <2>2, <2>5, <2>7, <3>1 DEF FindIn
      <3> QED  BY Zenon, <2>1, <3>2
    <2>8. CASE /\ c >= 1 => h[m].key[c] # e
               /\ ~h[m].leaf /\ c + 1 \in 1 .. Len(h[m].kid) /\ h[m].kid[c + 1] \in B
      <3>1. PICK q : q = h[m].kid[c + 1]  OBVIOUS
      <3>2. q \in V /\ L[m] = L[q] + 1 /\ L[q] \in Nat
        <4>1. \A l \in 1 .. Len(h[m].kid) :
                h[m].kid[l] \in V /\ L[m] = L[h[m].kid[l]] + 1 /\ L[h[m].kid[l]] \in Nat
          BY Zenon, <1>1, NodeShape
        <4> QED  BY Zenon, <2>8, <3>1, <4>1
      <3>3. b >= 1 /\ b # 0 /\ L[q] <= b - 1  BY <1>2, <2>4, <3>2
      <3>4. Leads(h, V, R, q, e, B)  BY Zenon, <1>2, <2>8, <3>1 DEF Leads
      <3>5. f[b - 1][q] = e
        <4>1. b - 1 \in D  BY <1>2, <3>3
        <4> QED  BY <3>2, <3>3, <3>4, <4>1
      <3>6. ~(c - 1 >= 0 /\ h[m].key[c] = e)  BY <2>4, <2>8
      <3>7. FindIn(h, e, f[b - 1], b, m) = f[b - 1][q]
        BY Zenon, <2>2, <2>5, <2>6, <2>8, <3>1, <3>3, <3>6 DEF FindIn
      <3> QED  BY Zenon, <2>1, <3>5, <3>7
    <2> QED  BY Zenon, <2>2, <2>7, <2>8
  <1>3. 0 \in D
    <2>1. 0 \in 0 .. Len(h) /\ ~(0 >= 1)  BY <1>1
    <2>2. \A m \in V : \A B : L[m] <= 0 /\ Leads(h, V, R, m, e, B) => f[0][m] = e
      BY Zenon, <1>2, <2>1
    <2> QED  BY <2>1, <2>2
  <1>4. ASSUME NEW b \in 0 .. Len(h), b < Len(h), b \in D  PROVE b + 1 \in D
    <2>1. b + 1 \in 0 .. Len(h) /\ (b + 1) - 1 = b  BY <1>1, <1>4
    <2>2. \A m \in V : \A B : L[m] <= b + 1 /\ Leads(h, V, R, m, e, B) => f[b + 1][m] = e
      <3> HIDE DEF D
      <3> QED  BY Zenon, <1>2, <1>4, <2>1
    <2> QED  BY <2>1, <2>2
  <1>5. d \in D
    <2> HIDE DEF D
    <2> QED  BY <1>1, <1>3, <1>4, UpTo
  <1> QED  BY <1>5

\* A search for a key that is not in the tree finds none.
LEMMA FindsNone ==
  ASSUME NEW h, NEW r, NEW V, NEW L, NEW R, Held(h, r, V, L, R), NEW e \in Keys,
         NEW f, Finds(h, V, e, f), ~InTree(h, V, e), NEW d \in 0 .. Len(h), NEW n \in V
  PROVE  f[d][n] = None
  <1>1. Good(h, r, V, L, R) /\ Len(h) \in Nat  BY LenProperties DEF Held, Heap
  <1> DEFINE D == {b \in 0 .. Len(h) : \A m \in V : f[b][m] = None}
  <1>2. ASSUME NEW b \in 0 .. Len(h), NEW m \in V, b # 0 => b - 1 \in D
        PROVE  f[b][m] = None
    <2>1. f[b][m] = FindIn(h, e, f[b - 1], b, m)  BY Zenon DEF Finds
    <2>2. /\ FindKIndex(h[m], e) >= 0 => Has(h[m], Key(h[m], FindKIndex(h[m], e)))
          /\ ~h[m].leaf => Kid(h[m], FindKIndex(h[m], e) + 1) \in V
      BY Zenon, <1>1, FindKid
    <2>3. ~(FindKIndex(h[m], e) >= 0 /\ Key(h[m], FindKIndex(h[m], e)) = e)
      BY Zenon, <2>2 DEF InTree
    <2>4. CASE h[m].leaf \/ b = 0  BY Zenon, <2>1, <2>3, <2>4 DEF FindIn
    <2>5. CASE ~(h[m].leaf \/ b = 0)
      <3>1. f[b - 1][Kid(h[m], FindKIndex(h[m], e) + 1)] = None
        <4>1. b - 1 \in D  BY <1>2, <2>5
        <4> QED  BY <2>2, <2>5, <4>1
      <3> QED  BY Zenon, <2>1, <2>3, <2>5, <3>1 DEF FindIn
    <2> QED  BY <2>4, <2>5
  <1>3. 0 \in D
    <2>1. 0 \in 0 .. Len(h)  BY <1>1
    <2>2. \A m \in V : f[0][m] = None  BY Zenon, <1>2, <2>1
    <2> QED  BY <2>1, <2>2
  <1>4. ASSUME NEW b \in 0 .. Len(h), b < Len(h), b \in D  PROVE b + 1 \in D
    <2>1. b + 1 \in 0 .. Len(h) /\ (b + 1) - 1 = b  BY <1>1, <1>4
    <2>2. \A m \in V : f[b + 1][m] = None
      <3> HIDE DEF D
      <3> QED  BY Zenon, <1>2, <1>4, <2>1
    <2> QED  BY <2>1, <2>2
  <1>5. d \in D
    <2> HIDE DEF D
    <2> QED  BY <1>1, <1>3, <1>4, UpTo
  <1> QED  BY <1>5

\* Between calls bt_find finds exactly the keys in the tree.
LEMMA FindsAll ==
  ASSUME NEW V, NEW L, NEW R, IdleAt(V, L, R), NEW e \in Keys
  PROVE  Find(e) = IF Bag[e] > 0 THEN e ELSE None
  <1>1. Held(heap, root, V, L, R)  BY Zenon DEF IdleAt
  <1>2. PICK f : Finds(heap, V, e, f) /\ Find(e) = f[Len(heap)][root]
    BY <1>1, FindUnrolls
  <1>3. Good(heap, root, V, L, R) /\ Len(heap) \in 0 .. Len(heap) /\ root \in V /\ L[root] <= Len(heap)
    BY <1>1, LenProperties DEF Held, Heap, Good, Tree
  <1>4. Bag[e] > 0 <=> InTree(heap, V, e)  BY Zenon, InBag
  <1>5. CASE InTree(heap, V, e)
    <2>1. PICK w \in V : Has(heap[w], e)  BY Zenon, <1>5 DEF InTree
    <2>2. PICK S : Leads(heap, V, R, root, e, S)  BY Zenon, <1>3, <2>1, LeadsFrom
    <2>3. f[Len(heap)][root] = e  BY <1>1, <1>2, <1>3, <2>2, FindsOnWay
    <2> QED  BY <1>2, <1>4, <1>5, <2>3
  <1>6. CASE ~InTree(heap, V, e)
    <2>1. f[Len(heap)][root] = None  BY <1>1, <1>2, <1>3, <1>6, FindsNone
    <2> QED  BY <1>2, <1>4, <1>6, <2>1
  <1> QED  BY <1>5, <1>6

\* What bt_min and bt_max do in n.
EndIn(h, last, w, d, n) ==
  IF h[n].leaf \/ d = 0 THEN Key(h[n], IF last THEN N(h[n]) - 1 ELSE 0)
  ELSE w[Kid(h[n], IF last THEN N(h[n]) ELSE 0)]

Ends(h, V, last, f) ==
  /\ f \in [0 .. Len(h) -> [V -> Keys]]
  /\ \A d \in 0 .. Len(h), n \in V : f[d][n] = EndIn(h, last, f[d - 1], d, n)

\* The last key, or the first, and the child on its outer side.
LEMMA EndOf ==
  ASSUME NEW h, NEW r, NEW V, NEW L, NEW R, Good(h, r, V, L, R), NEW n \in V,
         N(h[n]) >= 1, NEW last \in BOOLEAN
  PROVE  /\ \E j \in 1 .. Len(h[n].key) :
              /\ Key(h[n], IF last THEN N(h[n]) - 1 ELSE 0) = h[n].key[j]
              /\ j = IF last THEN Len(h[n].key) ELSE 1
         /\ ~h[n].leaf => Kid(h[n], IF last THEN N(h[n]) ELSE 0) = End(h[n], last)
  <1>1. h[n].key \in Seq(Keys) /\ (~h[n].leaf => Len(h[n].kid) = Len(h[n].key) + 1)
    BY NodeShape
  <1>2. Len(h[n].key) \in Nat /\ Len(h[n].key) >= 1 /\ N(h[n]) = Len(h[n].key)
    BY <1>1, LenProperties DEF N
  <1>3. CASE last
    <2>1. Len(h[n].key) \in 1 .. Len(h[n].key) /\ (N(h[n]) - 1) + 1 = Len(h[n].key)  BY <1>2
    <2>2. Key(h[n], N(h[n]) - 1) = h[n].key[Len(h[n].key)]  BY <2>1 DEF Key
    <2>3. ~h[n].leaf => Kid(h[n], N(h[n])) = h[n].kid[Len(h[n].kid)]  BY <1>1, <1>2 DEF Kid
    <2> QED  BY Zenon, <1>3, <2>1, <2>2, <2>3 DEF End
  <1>4. CASE ~last
    <2>1. 1 \in 1 .. Len(h[n].key) /\ 0 + 1 = 1  BY <1>2
    <2>2. Key(h[n], 0) = h[n].key[1] /\ Kid(h[n], 0) = h[n].kid[1]  BY DEF Key, Kid
    <2> QED  BY Zenon, <1>4, <2>1, <2>2 DEF End
  <1> QED  BY <1>3, <1>4

\* bt_min and bt_max find a key in a node.
LEMMA EndInKeys ==
  ASSUME NEW h, NEW r, NEW V, NEW L, NEW R, Good(h, r, V, L, R), NEW n \in V,
         N(h[n]) >= 1, NEW last \in BOOLEAN, NEW d \in Nat, NEW w \in [V -> Keys]
  PROVE  EndIn(h, last, w, d, n) \in Keys
  <1>1. CASE h[n].leaf \/ d = 0
    <2>1. PICK j \in 1 .. Len(h[n].key) : Key(h[n], IF last THEN N(h[n]) - 1 ELSE 0) = h[n].key[j]
      BY EndOf
    <2>2. h[n].key \in Seq(Keys)  BY Zenon, NodeShape
    <2>3. h[n].key[j] \in Keys  BY <2>2, ElementOfSeq
    <2> QED  BY Zenon, <1>1, <2>1, <2>3 DEF EndIn
  <1>2. CASE ~(h[n].leaf \/ d = 0)
    <2>1. Kid(h[n], IF last THEN N(h[n]) ELSE 0) = End(h[n], last)  BY <1>2, EndOf
    <2>2. EndsAt(h, V, L, R, n, last, End(h[n], last))  BY Zenon, <1>2, EndBeside
    <2>3. End(h[n], last) \in V  BY Zenon, <2>2 DEF EndsAt
    <2>4. w[End(h[n], last)] \in Keys  BY <2>3
    <2> QED  BY Zenon, <1>2, <2>1, <2>4 DEF EndIn
  <1> QED  BY <1>1, <1>2

\* Their recursion, level by level.
LEMMA EndUnrolls ==
  ASSUME NEW V, NEW L, NEW R, IdleAt(V, L, R), NEW e, e \in Keys, InTree(heap, V, e),
         NEW last \in BOOLEAN
  PROVE  \E f : Ends(heap, V, last, f) /\ EndKey(last) = f[Len(heap)][root]
  <1>0. Held(heap, root, V, L, R) /\ Rooted(heap, root)  BY Zenon DEF IdleAt
  <1>1. Reachable = V  BY Zenon, <1>0, ReachesAll
  <1>2. Len(heap) \in Nat /\ Good(heap, root, V, L, R)
    BY <1>0, LenProperties DEF Held, Heap
  <1> DEFINE W == [V -> Keys]
             Row(w, d) == [n \in V |-> EndIn(heap, last, w, d, n)]
             w0 == [n \in V |-> e]
             step == [d \in Nat |-> [w \in W |-> Row(w, d)]]
             P(f) == f = [d \in 0 .. Len(heap) |-> Row(f[d - 1], d)]
  <1>3. EndKey(last) = (CHOOSE f : P(f))[Len(heap)][root]  BY Zenon, <1>1 DEF EndKey, EndIn
  <1>4. ASSUME NEW d \in Nat, NEW w \in W  PROVE Row(w, d) \in W
    <2>1. ASSUME NEW n \in V  PROVE EndIn(heap, last, w, d, n) \in Keys
      <3>1. N(heap[n]) >= 1  BY Zenon, <1>0, SomeKeys
      <3> QED  BY Zenon, <1>2, <3>1, EndInKeys
    <2> QED  BY <2>1
  <1>5. step \in [Nat -> [W -> W]] /\ w0 \in W
    <2>1. w0 \in W  OBVIOUS
    <2> HIDE DEF Row, W, w0
    <2> QED  BY <1>4, <2>1
  <1>6. ASSUME NEW v  PROVE Row(v, 0) = Row(w0, 0)
    BY DEF EndIn
  <1>7. \E f : P(f)
    <2> HIDE DEF W, w0, step, Row, P
    <2>0. PICK g : Unrolling(W, w0, Len(heap), step, g)  BY Zenon, <1>2, <1>5, Unrolls
    <2>1. /\ g \in [0 .. Len(heap) -> W] /\ g[0] = step[0][w0]
          /\ \A d \in 1 .. Len(heap) : g[d] = step[d][g[d - 1]]
      BY Zenon, <2>0 DEF Unrolling
    <2>2. ASSUME NEW d \in 0 .. Len(heap)  PROVE g[d] = Row(g[d - 1], d)
      <3>1. CASE d = 0
        <4>1. g[0] = Row(w0, 0)  BY <1>5, <2>1 DEF step
        <4> QED  BY <1>6, <3>1, <4>1
      <3>2. CASE d # 0
        <4>1. d \in 1 .. Len(heap) /\ d \in Nat /\ d - 1 \in 0 .. Len(heap)  BY <1>2, <3>2
        <4>2. g[d - 1] \in W  BY <2>1, <4>1
        <4> QED  BY <2>1, <4>1, <4>2 DEF step
      <3> QED  BY <3>1, <3>2
    <2>3. g = [d \in 0 .. Len(heap) |-> Row(g[d - 1], d)]  BY <2>1, <2>2
    <2> QED  BY Zenon, <2>3 DEF P
  <1>8. PICK f : P(f) /\ EndKey(last) = f[Len(heap)][root]
    <2> HIDE DEF P
    <2> QED  BY Zenon, <1>3, <1>7
  <1>9. \A d \in 0 .. Len(heap) : f[d] = Row(f[d - 1], d)
    <2> HIDE DEF Row
    <2> QED  BY <1>8
  <1>10. \A d \in 0 .. Len(heap) : f[d] \in W
    <2> HIDE DEF W, w0, step, Row, P
    <2> DEFINE S == {d \in 0 .. Len(heap) : f[d] \in W}
    <2>1. 0 \in S
      <3>1. f[0] = Row(w0, 0) /\ 0 \in 0 .. Len(heap)  BY <1>2, <1>6, <1>9
      <3> QED  BY <1>4, <1>5, <3>1
    <2>2. ASSUME NEW d \in 0 .. Len(heap), d < Len(heap), d \in S  PROVE d + 1 \in S
      <3>1. d + 1 \in 0 .. Len(heap) /\ (d + 1) - 1 = d /\ d + 1 \in Nat  BY <1>2, <2>2
      <3>2. f[d + 1] = Row(f[d], d + 1)  BY <1>9, <3>1
      <3> QED  BY <1>4, <2>2, <3>1, <3>2
    <2>3. \A d \in 0 .. Len(heap) : d \in S
      <3> HIDE DEF S
      <3> QED  BY <1>2, <2>1, <2>2, UpTo
    <2> QED  BY <2>3
  <1>11. f \in [0 .. Len(heap) -> W]
    <2>1. f = [d \in 0 .. Len(heap) |-> Row(f[d - 1], d)]  BY Zenon, <1>8
    <2> HIDE DEF W, Row
    <2> QED  BY <1>10, <2>1
  <1>12. \A d \in 0 .. Len(heap), n \in V : f[d][n] = EndIn(heap, last, f[d - 1], d, n)
    BY <1>9
  <1> HIDE DEF P
  <1> QED  BY <1>8, <1>11, <1>12 DEF Ends

\* Every key of the tree is below n, or on the inner side of all that may be below n.
Tip(h, V, R, n, last) ==
  \A e \in Keys : InTree(h, V, e) =>
    \/ \E S : Leads(h, V, R, n, e, S)
    \/ \A b \in R[n] : Beside(last, e, b)

Extreme(h, V, last, e) ==
  e \in Keys /\ InTree(h, V, e) /\ \A c \in Keys : InTree(h, V, c) => Beside(last, c, e)

\* A leaf at the end of the way has the outermost key.
LEMMA TipLeaf ==
  ASSUME NEW h, NEW r, NEW V, NEW L, NEW R, Good(h, r, V, L, R), NEW n \in V, h[n].leaf,
         NEW last \in BOOLEAN, Tip(h, V, R, n, last),
         NEW j \in 1 .. Len(h[n].key), j = IF last THEN Len(h[n].key) ELSE 1
  PROVE  Extreme(h, V, last, h[n].key[j])
  <1>1. /\ h[n].key \in Seq(R[n]) /\ h[n].key \in Seq(Keys) /\ Sorted(h[n].key)
        /\ Len(h[n].kid) = 0 /\ R[n] \subseteq Keys
    BY NodeFacts
  <1>2. Len(h[n].key) \in Nat /\ h[n].key[j] \in R[n] /\ h[n].key[j] \in Keys
    BY <1>1, LenProperties, ElementOfSeq
  <1>3. InTree(h, V, h[n].key[j])  BY Zenon DEF InTree, Has
  <1>4. ASSUME NEW c \in Keys, InTree(h, V, c)  PROVE Beside(last, c, h[n].key[j])
    <2>1. CASE \A b \in R[n] : Beside(last, c, b)  BY Zenon, <1>2, <2>1
    <2>2. CASE \E S : Leads(h, V, R, n, c, S)
      <3>1. Has(h[n], c) \/ \E l \in 1 .. Len(h[n].kid) : TRUE  BY <2>2 DEF Leads
      <3>2. 1 .. 0 = {}  OBVIOUS
      <3>3. Has(h[n], c)  BY <1>1, <3>1, <3>2
      <3>4. PICK i \in 1 .. Len(h[n].key) : h[n].key[i] = c  BY Zenon, <3>3 DEF Has
      <3>5. last => i <= j  BY <1>2
      <3>6. ~last => j <= i  BY <1>2
      <3> QED  BY <1>1, <3>4, <3>5, <3>6 DEF Sorted, Beside
    <2> QED  BY Zenon, <1>4, <2>1, <2>2 DEF Tip
  <1> QED  BY Zenon, <1>2, <1>3, <1>4 DEF Extreme

\* The way goes on in the outer child.
LEMMA TipBelow ==
  ASSUME NEW h, NEW r, NEW V, NEW L, NEW R, Good(h, r, V, L, R), NEW n \in V, ~h[n].leaf,
         NEW last \in BOOLEAN, Tip(h, V, R, n, last), NEW c, c = End(h[n], last)
  PROVE  c \in V /\ L[n] = L[c] + 1 /\ L[c] \in Nat /\ Tip(h, V, R, c, last)
  <1>1. EndsAt(h, V, L, R, n, last, c)  BY Zenon, EndBeside
  <1>2. /\ c \in V /\ L[n] = L[c] + 1 /\ L[c] \in Nat /\ R[c] \subseteq R[n]
        /\ \A j \in 1 .. Len(h[n].key), b \in R[c] : Beside(last, h[n].key[j], b)
    BY Zenon, <1>1 DEF EndsAt
  <1>3. /\ h[n].key \in Seq(R[n]) /\ h[n].key \in Seq(Nat) /\ R[n] \in SUBSET Nat
        /\ R[c] \in SUBSET Nat
    BY <1>2, NodeFacts
  <1>4. /\ Len(h[n].kid) = Len(h[n].key) + 1 /\ Len(h[n].key) \in Nat
    BY <1>3, NodeShape, LenProperties
  <1>5. \A j \in 1 .. Len(h[n].kid) :
          h[n].kid[j] \in V /\ R[h[n].kid[j]] \subseteq Gap(R[n], h[n].key, j)
    BY Zenon, NodeFacts
  <1>6. ASSUME NEW e \in Keys, InTree(h, V, e), ~\E S : Leads(h, V, R, c, e, S),
               NEW b \in R[c]
        PROVE  Beside(last, e, b)
    <2>1. CASE \A d \in R[n] : Beside(last, e, d)  BY Zenon, <1>2, <2>1
    <2>2. CASE \E S : Leads(h, V, R, n, e, S)
      <3>1. PICK S : Leads(h, V, R, n, e, S)  BY Zenon, <2>2
      <3>2. CASE Has(h[n], e)
        <4>1. PICK j \in 1 .. Len(h[n].key) : h[n].key[j] = e  BY Zenon, <3>2 DEF Has
        <4> QED  BY <1>2, <4>1
      <3>3. CASE \E j \in 1 .. Len(h[n].kid) : h[n].kid[j] \in S
        <4>1. PICK j \in 1 .. Len(h[n].kid) : h[n].kid[j] \in S  BY Zenon, <3>3
        <4>2. PICK q : q = h[n].kid[j]  OBVIOUS
        <4>3. Leads(h, V, R, q, e, S)  BY Zenon, <3>1, <4>1, <4>2 DEF Leads
        <4>4. q # c  BY Zenon, <1>6, <4>3
        <4>5. e \in R[q]  BY Zenon, <4>3 DEF Leads
        <4>6. e \in Gap(R[n], h[n].key, j)  BY <1>5, <4>2, <4>5
        <4>7. e \in Nat /\ b \in Nat /\ Between(h[n].key, j, e)  BY <1>3, <4>6, KeysAssumption DEF Gap
        <4>8. CASE last
          <5>1. c = h[n].kid[Len(h[n].kid)]  BY <4>8 DEF End
          <5>2. j \in 1 .. Len(h[n].key)
            <6>1. j # Len(h[n].kid)  BY Zenon, <4>2, <4>4, <5>1
            <6> QED  BY <1>4, <6>1
          <5>3. e <= h[n].key[j]  BY <4>7, <5>2 DEF Between
          <5>4. h[n].key[j] <= b  BY <1>2, <4>8, <5>2 DEF Beside
          <5>5. h[n].key[j] \in Nat  BY <1>3, <5>2, ElementOfSeq
          <5> QED  BY <4>7, <4>8, <5>3, <5>4, <5>5 DEF Beside
        <4>9. CASE ~last
          <5>1. c = h[n].kid[1]  BY <4>9 DEF End
          <5>2. j - 1 \in 1 .. Len(h[n].key)
            <6>1. j # 1  BY Zenon, <4>2, <4>4, <5>1
            <6> QED  BY <1>4, <6>1
          <5>3. h[n].key[j - 1] <= e  BY <4>7, <5>2 DEF Between
          <5>4. b <= h[n].key[j - 1]  BY <1>2, <4>9, <5>2 DEF Beside
          <5>5. h[n].key[j - 1] \in Nat  BY <1>3, <5>2, ElementOfSeq
          <5> QED  BY <4>7, <4>9, <5>3, <5>4, <5>5 DEF Beside
        <4> QED  BY <4>8, <4>9
      <3> QED  BY <3>1, <3>2, <3>3 DEF Leads
    <2> QED  BY Zenon, <1>6, <2>1, <2>2 DEF Tip
  <1>7. Tip(h, V, R, c, last)  BY Zenon, <1>6 DEF Tip
  <1> QED  BY Zenon, <1>2, <1>7

\* On the outer side of the tree is its outermost key.
LEMMA EndsRight ==
  ASSUME NEW h, NEW r, NEW V, NEW L, NEW R, Held(h, r, V, L, R), Rooted(h, r),
         NEW e \in Keys, InTree(h, V, e), NEW last \in BOOLEAN,
         NEW f, Ends(h, V, last, f), NEW d \in 0 .. Len(h), NEW n \in V, L[n] <= d,
         Tip(h, V, R, n, last)
  PROVE  Extreme(h, V, last, f[d][n])
  <1>1. Good(h, r, V, L, R) /\ Len(h) \in Nat  BY LenProperties DEF Held, Heap
  <1> DEFINE D == {b \in 0 .. Len(h) : \A m \in V : L[m] <= b /\ Tip(h, V, R, m, last)
                                                     => Extreme(h, V, last, f[b][m])}
  <1>2. ASSUME NEW b \in 0 .. Len(h), NEW m \in V, L[m] <= b, Tip(h, V, R, m, last),
               b >= 1 => b - 1 \in D
        PROVE  Extreme(h, V, last, f[b][m])
    <2>1. f[b][m] = EndIn(h, last, f[b - 1], b, m)  BY Zenon DEF Ends
    <2>2. N(h[m]) >= 1  BY Zenon, SomeKeys
    <2>3. (h[m].leaf <=> L[m] = 0) /\ L[m] \in Nat
      <3>1. h[m].leaf <=> L[m] = 0  BY Zenon, <1>1, LeafLevel
      <3> QED  BY Zenon, <1>1, <3>1, NodeShape
    <2>4. CASE h[m].leaf
      <3>1. PICK j \in 1 .. Len(h[m].key) :
              /\ Key(h[m], IF last THEN N(h[m]) - 1 ELSE 0) = h[m].key[j]
              /\ j = IF last THEN Len(h[m].key) ELSE 1
        BY <1>1, <2>2, EndOf
      <3>2. Extreme(h, V, last, h[m].key[j])
        BY <1>1, <1>2, <2>4, <3>1, TipLeaf
      <3> QED  BY Zenon, <2>1, <2>4, <3>1, <3>2 DEF EndIn
    <2>5. CASE ~h[m].leaf
      <3>1. PICK c : c = End(h[m], last)  OBVIOUS
      <3>2. c \in V /\ L[m] = L[c] + 1 /\ L[c] \in Nat /\ Tip(h, V, R, c, last)
        BY <1>1, <1>2, <2>5, <3>1, TipBelow
      <3>3. Kid(h[m], IF last THEN N(h[m]) ELSE 0) = End(h[m], last)
        BY <1>1, <2>2, <2>5, EndOf
      <3>4. b >= 1 /\ b # 0 /\ L[c] <= b - 1  BY <1>1, <1>2, <3>2
      <3>5. Extreme(h, V, last, f[b - 1][c])
        <4>1. b - 1 \in D  BY <1>2, <3>4
        <4> QED  BY <3>2, <3>4, <4>1
      <3> QED  BY Zenon, <2>1, <2>5, <3>1, <3>3, <3>4, <3>5 DEF EndIn
    <2> QED  BY <2>4, <2>5
  <1>3. 0 \in D
    <2>1. 0 \in 0 .. Len(h) /\ ~(0 >= 1)  BY <1>1
    <2>2. \A m \in V : L[m] <= 0 /\ Tip(h, V, R, m, last) => Extreme(h, V, last, f[0][m])
      BY Zenon, <1>2, <2>1
    <2> QED  BY <2>1, <2>2
  <1>4. ASSUME NEW b \in 0 .. Len(h), b < Len(h), b \in D  PROVE b + 1 \in D
    <2>1. b + 1 \in 0 .. Len(h) /\ (b + 1) - 1 = b  BY <1>1, <1>4
    <2>2. \A m \in V : L[m] <= b + 1 /\ Tip(h, V, R, m, last) => Extreme(h, V, last, f[b + 1][m])
      <3> HIDE DEF D
      <3> QED  BY Zenon, <1>2, <1>4, <2>1
    <2> QED  BY <2>1, <2>2
  <1>5. d \in D
    <2> HIDE DEF D
    <2> QED  BY <1>1, <1>3, <1>4, UpTo
  <1> QED  BY <1>5

\* bt_min finds the smallest key of the tree and bt_max the greatest.
LEMMA EndKeys ==
  ASSUME NEW V, NEW L, NEW R, IdleAt(V, L, R), NEW e \in Keys, InTree(heap, V, e),
         NEW last \in BOOLEAN
  PROVE  Extreme(heap, V, last, EndKey(last))
  <1>1. Held(heap, root, V, L, R) /\ Rooted(heap, root)  BY Zenon DEF IdleAt
  <1>2. PICK f : Ends(heap, V, last, f) /\ EndKey(last) = f[Len(heap)][root]
    BY EndUnrolls
  <1>3. Good(heap, root, V, L, R) /\ Len(heap) \in 0 .. Len(heap) /\ root \in V /\ L[root] <= Len(heap)
    BY <1>1, LenProperties DEF Held, Heap, Good, Tree
  <1>4. ASSUME NEW c \in Keys, InTree(heap, V, c)
        PROVE  \E S : Leads(heap, V, R, root, c, S)
    <2>1. PICK w \in V : Has(heap[w], c)  BY Zenon, <1>4 DEF InTree
    <2> QED  BY Zenon, <1>3, <2>1, LeadsFrom
  <1>5. Tip(heap, V, R, root, last)  BY Zenon, <1>4 DEF Tip
  <1>6. Extreme(heap, V, last, f[Len(heap)][root])
    BY Zenon, <1>1, <1>2, <1>3, <1>5, EndsRight
  <1> QED  BY Zenon, <1>2, <1>6

\* bt_min and bt_max find the smallest and the greatest of the keys of the tree.
LEMMA MinMaxIs ==
  ASSUME NEW V, NEW L, NEW R, IdleAt(V, L, R), Places # {}
  PROVE  MinMax = <<Min({e \in Keys : Bag[e] > 0}), Max({e \in Keys : Bag[e] > 0})>>
  <1>1. \A e \in Keys : Bag[e] > 0 <=> InTree(heap, V, e)  BY Zenon, InBag
  <1> DEFINE All == {e \in Keys : Bag[e] > 0}
  <1>2. PICK e \in Keys : InTree(heap, V, e)
    <2>1. Held(heap, root, V, L, R)  BY Zenon DEF IdleAt
    <2>2. Places = Spots(heap, V, Keys)  BY <2>1, PlacesAre
    <2>3. PICK p \in V \X Nat : /\ p[2] \in 1 .. Len(heap[p[1]].key)
                                /\ heap[p[1]].key[p[2]] \in Keys
      BY <2>2 DEF Spots
    <2>4. p[1] \in V  BY <2>3
    <2>5. InTree(heap, V, heap[p[1]].key[p[2]])  BY Zenon, <2>3, <2>4 DEF InTree, Has
    <2> QED  BY Zenon, <2>3, <2>5
  <1>3. Extreme(heap, V, FALSE, EndKey(FALSE))
    <2>1. FALSE \in BOOLEAN  OBVIOUS
    <2> QED  BY Zenon, <1>2, <2>1, EndKeys
  <1>4. Extreme(heap, V, TRUE, EndKey(TRUE))
    <2>1. TRUE \in BOOLEAN  OBVIOUS
    <2> QED  BY Zenon, <1>2, <2>1, EndKeys
  <1>5. EndKey(FALSE) \in All /\ \A c \in All : EndKey(FALSE) <= c
    <2>1. /\ EndKey(FALSE) \in Keys /\ InTree(heap, V, EndKey(FALSE))
          /\ \A c \in Keys : InTree(heap, V, c) => Beside(FALSE, c, EndKey(FALSE))
      BY Zenon, <1>3 DEF Extreme
    <2>2. EndKey(FALSE) \in All  BY <1>1, <2>1
    <2>3. ASSUME NEW c \in All  PROVE EndKey(FALSE) <= c
      <3>1. Beside(FALSE, c, EndKey(FALSE))  BY <1>1, <2>1
      <3> QED  BY <3>1 DEF Beside
    <2> QED  BY <2>2, <2>3
  <1>6. EndKey(TRUE) \in All /\ \A c \in All : c <= EndKey(TRUE)
    <2>1. /\ EndKey(TRUE) \in Keys /\ InTree(heap, V, EndKey(TRUE))
          /\ \A c \in Keys : InTree(heap, V, c) => Beside(TRUE, c, EndKey(TRUE))
      BY Zenon, <1>4 DEF Extreme
    <2>2. EndKey(TRUE) \in All  BY <1>1, <2>1
    <2>3. ASSUME NEW c \in All  PROVE c <= EndKey(TRUE)
      <3>1. Beside(TRUE, c, EndKey(TRUE))  BY <1>1, <2>1
      <3> QED  BY <3>1 DEF Beside
    <2> QED  BY <2>2, <2>3
  <1>7. All \subseteq Nat  BY KeysAssumption
  <1> HIDE DEF All
  <1>8. Min(All) = EndKey(FALSE)
    <2>1. /\ Min(All) \in All /\ \A c \in All : Min(All) <= c
      BY <1>5 DEF Min
    <2>2. Min(All) <= EndKey(FALSE) /\ EndKey(FALSE) <= Min(All)  BY Zenon, <1>5, <2>1
    <2>3. Min(All) \in Nat /\ EndKey(FALSE) \in Nat  BY <1>5, <1>7, <2>1
    <2> QED
      <3>1. PICK u : u = Min(All)  OBVIOUS
      <3>2. PICK w : w = EndKey(FALSE)  OBVIOUS
      <3>3. u <= w /\ w <= u /\ u \in Nat /\ w \in Nat  BY Zenon, <2>2, <2>3, <3>1, <3>2
      <3>4. u = w  BY <3>3
      <3> QED  BY Zenon, <3>1, <3>2, <3>4
  <1>9. Max(All) = EndKey(TRUE)
    <2>1. \A c \in All : EndKey(TRUE) >= c  BY <1>6, <1>7
    <2>2. /\ Max(All) \in All /\ \A c \in All : Max(All) >= c
      BY <1>6, <2>1 DEF Max
    <2>3. Max(All) >= EndKey(TRUE) /\ Max(All) <= EndKey(TRUE)  BY Zenon, <1>6, <2>2
    <2>4. Max(All) \in Nat /\ EndKey(TRUE) \in Nat  BY <1>6, <1>7, <2>2
    <2> QED
      <3>1. PICK u : u = Max(All)  OBVIOUS
      <3>2. PICK w : w = EndKey(TRUE)  OBVIOUS
      <3>3. u >= w /\ u <= w /\ u \in Nat /\ w \in Nat  BY Zenon, <2>3, <2>4, <3>1, <3>2
      <3>4. u = w  BY <3>3
      <3> QED  BY Zenon, <3>1, <3>2, <3>4
  <1>10. MinMax = <<Min(All), Max(All)>>  BY <1>8, <1>9 DEF MinMax
  <1> QED  BY Zenon, <1>10 DEF All

-----------------------------------------------------------------------------
(* bt_checktree.                                                             *)

\* A finite set of numbers has a greatest.
LEMMA Greatest ==
  ASSUME NEW S \in SUBSET Nat, IsFiniteSet(S), S # {}
  PROVE  Max(S) \in S /\ \A y \in S : Max(S) >= y
  <1>1. PICK c : c = Cardinality(S) /\ c \in Nat /\ ExistsBijection(1 .. c, S)
    BY Zenon, FS_CardinalityType
  <1>2. PICK f \in Bijection(1 .. c, S) : TRUE  BY <1>1 DEF ExistsBijection
  <1>3. /\ f \in [1 .. c -> S]
        /\ \A y \in S : \E i \in 1 .. c : f[i] = y
    BY <1>2 DEF Bijection, Injection, Surjection
  <1> DEFINE D == {n \in 0 .. c :
                     n = 0 \/ \E j \in 1 .. n : \A i \in 1 .. n : f[i] <= f[j]}
  <1>4. 0 \in D  BY <1>1
  <1>5. ASSUME NEW n \in 0 .. c, n < c, n \in D  PROVE n + 1 \in D
    <2>1. n + 1 \in 1 .. c /\ n \in Nat  BY <1>1, <1>5
    <2>2. \A i \in 1 .. n + 1 : i \in 1 .. c /\ f[i] \in Nat
      <3>1. \A i \in 1 .. n + 1 : i \in 1 .. c  BY <1>1, <2>1
      <3> QED  BY <1>3, <3>1
    <2>3. CASE n = 0
      <3>1. \A i \in 1 .. n + 1 : f[i] <= f[1]
        <4>1. \A i \in 1 .. n + 1 : i = 1  BY <2>3
        <4> QED  BY <2>2, <4>1
      <3> QED  BY <2>1, <2>3, <3>1
    <2>4. CASE n # 0
      <3>1. PICK j \in 1 .. n : \A i \in 1 .. n : f[i] <= f[j]  BY <1>5, <2>4
      <3>2. CASE f[n + 1] <= f[j]
        <4>1. \A i \in 1 .. n + 1 : f[i] <= f[j]
          <5>1. \A i \in 1 .. n + 1 : i = n + 1 \/ i \in 1 .. n  BY <2>1
          <5> QED  BY <3>1, <3>2, <5>1
        <4> QED  BY <2>1, <3>1, <4>1
      <3>3. CASE ~(f[n + 1] <= f[j])
        <4>1. \A i \in 1 .. n + 1 : f[i] <= f[n + 1]
          <5>1. \A i \in 1 .. n + 1 : i = n + 1 \/ i \in 1 .. n  BY <2>1
          <5>2. n + 1 \in 1 .. n + 1 /\ j \in 1 .. n + 1  BY <2>1
          <5>3. f[n + 1] \in Nat /\ f[j] \in Nat  BY <2>2, <5>2
          <5> QED  BY <2>2, <3>1, <3>3, <5>1, <5>3
        <4> QED  BY <2>1, <4>1
      <3> QED  BY <3>2, <3>3
    <2> QED  BY <2>3, <2>4
  <1>6. c \in D
    <2>1. \A n \in 0 .. c : n \in D
      <3> HIDE DEF D
      <3> QED  BY <1>1, <1>4, <1>5, UpTo
    <2>2. c \in 0 .. c  BY <1>1
    <2> QED  BY Zenon, <2>1, <2>2
  <1>7. c # 0  BY <1>1, FS_EmptySet
  <1>8. PICK j \in 1 .. c : \A i \in 1 .. c : f[i] <= f[j]
    BY <1>6, <1>7
  <1>9. f[j] \in S /\ \A y \in S : f[j] >= y
    <2>1. ASSUME NEW y \in S  PROVE f[j] >= y
      <3>1. PICK i \in 1 .. c : f[i] = y  BY <1>3
      <3>2. f[i] \in Nat /\ f[j] \in Nat  BY <1>3
      <3> QED  BY <1>8, <3>1, <3>2
    <2> QED  BY <1>3, <2>1
  <1> QED  BY <1>9 DEF Max

\* The keys of a node between two numbers.
Fenced(h, n, lo, hi) == <<lo>> \o h[n].key \o <<hi>>

\* The bounds of a key and of a child.
LEMMA FencedAt ==
  ASSUME NEW h, NEW n, h[n].key \in Seq(Keys), NEW lo \in Int, NEW hi \in Int
  PROVE  /\ Len(h[n].key) \in Nat
         /\ \A i \in 1 .. Len(h[n].key) + 1 :
              /\ Fenced(h, n, lo, hi)[i] \in Int /\ Fenced(h, n, lo, hi)[i + 1] \in Int
              /\ Fenced(h, n, lo, hi)[i] = IF i = 1 THEN lo ELSE h[n].key[i - 1]
              /\ Fenced(h, n, lo, hi)[i + 1] = IF i = Len(h[n].key) + 1 THEN hi ELSE h[n].key[i]
  <1> PICK q : q = h[n].key  OBVIOUS
  <1>1. q \in Seq(Keys) /\ q \in Seq(Int) /\ Len(q) \in Nat
    <2>1. q \in Seq(Keys)  OBVIOUS
    <2>2. Keys \subseteq Int  BY KeysAssumption
    <2>3. q \in Seq(Int)  BY <2>1, <2>2, Widened
    <2> QED  BY <2>1, <2>3, LenProperties
  <1>2. PICK p : p = <<lo>> \o q \o <<hi>>  OBVIOUS
  <1>3. /\ Len(p) = Len(q) + 2 /\ p[1] = lo /\ p[Len(q) + 2] = hi
        /\ \A j \in 1 .. Len(q) : p[j + 1] = q[j]
    <2>1. PICK o : o = <<lo>>  OBVIOUS
    <2>2. o \in Seq(Int) /\ Len(o) = 1 /\ o[1] = lo  BY <2>1
    <2>3. PICK u : u = o \o q  OBVIOUS
    <2>4. /\ u \in Seq(Int) /\ Len(u) = 1 + Len(q)
          /\ \A j \in 1 .. 1 + Len(q) : u[j] = IF j <= 1 THEN o[j] ELSE q[j - 1]
      <3>1. /\ o \o q \in Seq(Int) /\ Len(o \o q) = Len(o) + Len(q)
            /\ \A j \in 1 .. Len(o) + Len(q) :
                 (o \o q)[j] = IF j <= Len(o) THEN o[j] ELSE q[j - Len(o)]
        BY <1>1, <2>2, ConcatProperties
      <3> QED  BY <2>2, <2>3, <3>1
    <2>5. p = u \o <<hi>>  BY <1>2, <2>1, <2>3
    <2>6. Len(p) = Len(q) + 2 /\ p[Len(q) + 2] = hi /\ \A j \in 1 .. Len(q) + 1 : p[j] = u[j]
      <3>1. PICK w : w = <<hi>>  OBVIOUS
      <3>2. w \in Seq(Int) /\ Len(w) = 1 /\ w[1] = hi  BY <3>1
      <3>3. /\ Len(u \o w) = Len(u) + Len(w)
            /\ \A j \in 1 .. Len(u) + Len(w) :
                 (u \o w)[j] = IF j <= Len(u) THEN u[j] ELSE w[j - Len(u)]
        BY <2>4, <3>2, ConcatProperties
      <3>4. /\ Len(p) = Len(q) + 2
            /\ \A j \in 1 .. Len(q) + 2 :
                 p[j] = IF j <= Len(q) + 1 THEN u[j] ELSE w[j - (Len(q) + 1)]
        BY <1>1, <2>4, <2>5, <3>1, <3>2, <3>3
      <3>5. ASSUME NEW j \in 1 .. Len(q) + 1  PROVE p[j] = u[j]
        <4>1. j \in 1 .. Len(q) + 2 /\ j <= Len(q) + 1  BY <1>1
        <4> QED  BY <3>4, <4>1
      <3>6. p[Len(q) + 2] = hi
        <4>1. /\ Len(q) + 2 \in 1 .. Len(q) + 2 /\ ~(Len(q) + 2 <= Len(q) + 1)
              /\ (Len(q) + 2) - (Len(q) + 1) = 1
          BY <1>1
        <4> QED  BY <3>2, <3>4, <4>1
      <3> QED  BY <3>4, <3>5, <3>6
    <2>7. p[1] = lo
      <3>1. 1 \in 1 .. Len(q) + 1 /\ 1 \in 1 .. 1 + Len(q)  BY <1>1
      <3> QED  BY <2>2, <2>4, <2>6, <3>1
    <2>8. ASSUME NEW j \in 1 .. Len(q)  PROVE p[j + 1] = q[j]
      <3>1. /\ j + 1 \in 1 .. Len(q) + 1 /\ j + 1 \in 1 .. 1 + Len(q)
            /\ ~(j + 1 <= 1) /\ (j + 1) - 1 = j
        BY <1>1
      <3> QED  BY <2>4, <2>6, <3>1
    <2> QED  BY <2>6, <2>7, <2>8
  <1>4. \A j \in 1 .. Len(q) : q[j] \in Int  BY <1>1
  <1>5. ASSUME NEW i \in 1 .. Len(q) + 1
        PROVE  /\ p[i] \in Int /\ p[i + 1] \in Int
               /\ p[i] = IF i = 1 THEN lo ELSE q[i - 1]
               /\ p[i + 1] = IF i = Len(q) + 1 THEN hi ELSE q[i]
    <2>1. p[i] = (IF i = 1 THEN lo ELSE q[i - 1]) /\ p[i] \in Int
      <3>1. CASE i = 1  BY <1>3, <3>1
      <3>2. CASE i # 1
        <4>1. i - 1 \in 1 .. Len(q) /\ (i - 1) + 1 = i  BY <1>1, <3>2
        <4>2. p[(i - 1) + 1] = q[i - 1]  BY <1>3, <4>1
        <4> QED  BY <1>4, <3>2, <4>1, <4>2
      <3> QED  BY <3>1, <3>2
    <2>2. p[i + 1] = (IF i = Len(q) + 1 THEN hi ELSE q[i]) /\ p[i + 1] \in Int
      <3>1. CASE i = Len(q) + 1
        <4>1. i + 1 = Len(q) + 2  BY <1>1, <3>1
        <4> QED  BY <1>3, <3>1, <4>1
      <3>2. CASE i # Len(q) + 1
        <4>1. i \in 1 .. Len(q)  BY <1>1, <3>2
        <4> QED  BY <1>3, <1>4, <3>2, <4>1
      <3> QED  BY <3>1, <3>2
    <2> QED  BY <2>1, <2>2
  <1> QED  BY <1>1, <1>2, <1>5 DEF Fenced

\* No key is in the tree twice.
Once(h, V) ==
  \A m, n \in V : \A i \in 1 .. Len(h[m].key), j \in 1 .. Len(h[n].key) :
    h[m].key[i] = h[n].key[j] => m = n /\ i = j

\* When no key is in the bag twice, none is in the tree twice.
LEMMA OnceNow ==
  ASSUME NEW V, NEW L, NEW R, IdleAt(V, L, R), \A e \in Keys : Bag[e] <= 1
  PROVE  Once(heap, V)
  <1>1. Held(heap, root, V, L, R) /\ \A e \in Keys : Bag[e] = Count(heap, V, {e})
    BY Zenon DEF IdleAt
  <1>2. Good(heap, root, V, L, R)  BY Zenon, <1>1 DEF Held
  <1>3. ASSUME NEW m \in V, NEW n \in V, NEW i \in 1 .. Len(heap[m].key),
               NEW j \in 1 .. Len(heap[n].key), heap[m].key[i] = heap[n].key[j]
        PROVE  m = n /\ i = j
    <2>1. PICK e : e = heap[m].key[i]  OBVIOUS
    <2>2. heap[m].key \in Seq(Keys) /\ heap[n].key \in Seq(Keys)  BY Zenon, <1>2, NodeShape
    <2>3. e \in Keys /\ i \in Nat /\ j \in Nat  BY <2>1, <2>2, ElementOfSeq, LenProperties
    <2>4. <<m, i>> \in Spots(heap, V, {e}) /\ <<n, j>> \in Spots(heap, V, {e})
      BY <1>3, <2>1, <2>3 DEF Spots
    <2>5. IsFiniteSet(Spots(heap, V, {e})) /\ Count(heap, V, {e}) \in Nat
      BY Zenon, <1>1, FiniteSpots
    <2>6. Cardinality(Spots(heap, V, {e})) \in Nat /\ Cardinality(Spots(heap, V, {e})) <= 1
      BY <1>1, <2>3, <2>5 DEF Count
    <2>7. Cardinality(Spots(heap, V, {e})) # 0  BY <2>4, <2>5, FS_EmptySet
    <2>8. Cardinality(Spots(heap, V, {e})) = 1  BY <2>6, <2>7
    <2>9. PICK p : Spots(heap, V, {e}) = {p}  BY <2>5, <2>8, FS_Singleton
    <2>10. <<m, i>> = <<n, j>>  BY <2>4, <2>9
    <2> QED  BY <2>10
  <1> QED  BY Zenon, <1>3 DEF Once

\* The key is in a node above n.
Higher(h, V, L, n, e) == \E a \in V : L[a] > L[n] /\ Has(h[a], e)

\* What may be below n is between lo and hi.
Walled(h, V, L, R, n, lo, hi) ==
  /\ lo \in Int /\ hi \in Int /\ lo < hi
  /\ \A e \in R[n] : /\ lo <= e /\ e <= hi
                     /\ lo = e => Higher(h, V, L, n, e)
                     /\ hi = e => Higher(h, V, L, n, e)

\* The keys of a node between its walls ascend.
LEMMA WalledRises ==
  ASSUME NEW h, NEW r, NEW V, NEW L, NEW R, Good(h, r, V, L, R), Once(h, V), NEW n \in V,
         NEW lo, NEW hi, Walled(h, V, L, R, n, lo, hi),
         NEW i \in 1 .. Len(h[n].key) + 1
  PROVE  Fenced(h, n, lo, hi)[i] < Fenced(h, n, lo, hi)[i + 1]
  <1>1. /\ h[n].key \in Seq(R[n]) /\ h[n].key \in Seq(Nat) /\ h[n].key \in Seq(Keys)
        /\ Sorted(h[n].key) /\ L[n] \in Nat
    BY NodeFacts
  <1>2. lo \in Int /\ hi \in Int /\ lo < hi  BY DEF Walled
  <1>3. PICK len : len = Len(h[n].key)  OBVIOUS
  <1>4. /\ len \in Nat
        /\ Fenced(h, n, lo, hi)[i] = IF i = 1 THEN lo ELSE h[n].key[i - 1]
        /\ Fenced(h, n, lo, hi)[i + 1] = IF i = len + 1 THEN hi ELSE h[n].key[i]
    <2>1. /\ Len(h[n].key) \in Nat
          /\ \A l \in 1 .. Len(h[n].key) + 1 :
               /\ Fenced(h, n, lo, hi)[l] \in Int /\ Fenced(h, n, lo, hi)[l + 1] \in Int
               /\ Fenced(h, n, lo, hi)[l] = IF l = 1 THEN lo ELSE h[n].key[l - 1]
               /\ Fenced(h, n, lo, hi)[l + 1] = IF l = Len(h[n].key) + 1 THEN hi ELSE h[n].key[l]
      BY <1>1, <1>2, FencedAt
    <2> QED  BY <1>3, <2>1
  <1>5. ASSUME NEW j \in 1 .. len
        PROVE  h[n].key[j] \in R[n] /\ h[n].key[j] \in Nat /\ Has(h[n], h[n].key[j])
    BY <1>1, <1>3, ElementOfSeq DEF Has
  <1>6. ASSUME NEW j \in 1 .. len, Higher(h, V, L, n, h[n].key[j])  PROVE FALSE
    <2>1. PICK a \in V : L[a] > L[n] /\ Has(h[a], h[n].key[j])  BY Zenon, <1>6 DEF Higher
    <2>2. PICK b \in 1 .. Len(h[a].key) : h[a].key[b] = h[n].key[j]  BY Zenon, <2>1 DEF Has
    <2>3. a = n  BY <1>3, <2>2 DEF Once
    <2> QED  BY <1>1, <2>1, <2>3
  <1>7. CASE i = 1 /\ i = len + 1  BY <1>2, <1>4, <1>7
  <1>8. CASE i = 1 /\ i # len + 1
    <2>1. 1 \in 1 .. len  BY <1>3, <1>4, <1>8
    <2>2. lo <= h[n].key[1] /\ (lo = h[n].key[1] => Higher(h, V, L, n, h[n].key[1]))
      BY <1>5, <2>1 DEF Walled
    <2>3. lo # h[n].key[1] /\ h[n].key[1] \in Nat  BY <1>5, <1>6, <2>1, <2>2
    <2> QED  BY <1>2, <1>4, <1>8, <2>2, <2>3
  <1>9. CASE i # 1 /\ i = len + 1
    <2>1. i - 1 \in 1 .. len  BY <1>3, <1>4, <1>9
    <2>2. h[n].key[i - 1] <= hi /\ (hi = h[n].key[i - 1] => Higher(h, V, L, n, h[n].key[i - 1]))
      BY <1>5, <2>1 DEF Walled
    <2>3. hi # h[n].key[i - 1] /\ h[n].key[i - 1] \in Nat  BY <1>5, <1>6, <2>1, <2>2
    <2> QED  BY <1>2, <1>4, <1>9, <2>2, <2>3
  <1>10. CASE i # 1 /\ i # len + 1
    <2>1. i - 1 \in 1 .. len /\ i \in 1 .. len /\ i - 1 <= i /\ i - 1 # i  BY <1>3, <1>4, <1>10
    <2>2. h[n].key[i - 1] <= h[n].key[i]  BY <1>1, <1>3, <2>1 DEF Sorted
    <2>3. h[n].key[i - 1] # h[n].key[i]  BY <1>3, <2>1 DEF Once
    <2>4. h[n].key[i - 1] \in Nat /\ h[n].key[i] \in Nat  BY <1>5, <2>1
    <2> QED  BY <1>4, <1>10, <2>2, <2>3, <2>4
  <1> QED  BY <1>7, <1>8, <1>9, <1>10

\* Its children are between walls as well.
LEMMA WalledBelow ==
  ASSUME NEW h, NEW r, NEW V, NEW L, NEW R, Good(h, r, V, L, R), Once(h, V), NEW n \in V,
         ~h[n].leaf, NEW lo, NEW hi, Walled(h, V, L, R, n, lo, hi),
         NEW i \in 1 .. Len(h[n].key) + 1
  PROVE  Walled(h, V, L, R, h[n].kid[i], Fenced(h, n, lo, hi)[i], Fenced(h, n, lo, hi)[i + 1])
  <1>1. /\ h[n].key \in Seq(R[n]) /\ h[n].key \in Seq(Nat) /\ h[n].key \in Seq(Keys)
        /\ L[n] \in Nat
    BY NodeFacts
  <1>2. lo \in Int /\ hi \in Int /\ lo < hi  BY DEF Walled
  <1>3. PICK len : len = Len(h[n].key)  OBVIOUS
  <1>4. /\ len \in Nat
        /\ Fenced(h, n, lo, hi)[i] \in Int /\ Fenced(h, n, lo, hi)[i + 1] \in Int
        /\ Fenced(h, n, lo, hi)[i] = IF i = 1 THEN lo ELSE h[n].key[i - 1]
        /\ Fenced(h, n, lo, hi)[i + 1] = IF i = len + 1 THEN hi ELSE h[n].key[i]
    <2>1. /\ Len(h[n].key) \in Nat
          /\ \A l \in 1 .. Len(h[n].key) + 1 :
               /\ Fenced(h, n, lo, hi)[l] \in Int /\ Fenced(h, n, lo, hi)[l + 1] \in Int
               /\ Fenced(h, n, lo, hi)[l] = IF l = 1 THEN lo ELSE h[n].key[l - 1]
               /\ Fenced(h, n, lo, hi)[l + 1] = IF l = Len(h[n].key) + 1 THEN hi ELSE h[n].key[l]
      BY <1>1, <1>2, FencedAt
    <2> QED  BY <1>3, <2>1
  <1>5. PICK a, b : a = Fenced(h, n, lo, hi)[i] /\ b = Fenced(h, n, lo, hi)[i + 1]  OBVIOUS
  <1>6. a < b  BY <1>5, WalledRises
  <1>7. PICK c : c = h[n].kid[i]  OBVIOUS
  <1>8. i \in 1 .. Len(h[n].kid)
    <2>1. Len(h[n].kid) = Len(h[n].key) + 1  BY NodeShape
    <2> QED  BY <2>1
  <1>9. c \in V /\ L[n] = L[c] + 1 /\ L[c] \in Nat
    <2>1. \A l \in 1 .. Len(h[n].kid) :
            h[n].kid[l] \in V /\ L[n] = L[h[n].kid[l]] + 1 /\ L[h[n].kid[l]] \in Nat
      BY Zenon, NodeShape
    <2> QED  BY Zenon, <1>7, <1>8, <2>1
  <1>10. R[c] \subseteq Gap(R[n], h[n].key, i)
    <2>1. \A j \in 1 .. Len(h[n].kid) :
            h[n].kid[j] \in V /\ R[h[n].kid[j]] \subseteq Gap(R[n], h[n].key, j)
      BY Zenon, NodeFacts
    <2> QED  BY Zenon, <1>7, <1>8, <2>1
  <1>11. Tree(h, r, V, L)  BY DEF Good
  <1>12. ASSUME NEW e, Higher(h, V, L, n, e)  PROVE Higher(h, V, L, c, e)
    <2>1. PICK p \in V : L[p] > L[n] /\ Has(h[p], e)  BY Zenon, <1>12 DEF Higher
    <2>2. L[p] \in Nat  BY <1>11 DEF Tree
    <2>3. L[p] > L[c]  BY <1>9, <2>1, <2>2
    <2> QED  BY Zenon, <2>1, <2>3 DEF Higher
  <1>13. ASSUME NEW j \in 1 .. len  PROVE Higher(h, V, L, c, h[n].key[j])
    <2>1. Has(h[n], h[n].key[j])  BY <1>3 DEF Has
    <2>2. L[n] > L[c]  BY <1>9
    <2> QED  BY Zenon, <2>1, <2>2 DEF Higher
  <1>14. ASSUME NEW e \in R[c]
         PROVE  /\ a <= e /\ e <= b
                /\ a = e => Higher(h, V, L, c, e)
                /\ b = e => Higher(h, V, L, c, e)
    <2>1. e \in R[n] /\ Between(h[n].key, i, e)  BY <1>10 DEF Gap
    <2>2. a <= e /\ (a = e => Higher(h, V, L, c, e))
      <3>1. CASE i = 1
        <4>1. a = lo  BY <1>4, <1>5, <3>1
        <4> QED  BY <1>12, <2>1, <4>1 DEF Walled
      <3>2. CASE i # 1
        <4>1. i - 1 \in 1 .. len  BY <1>3, <1>4, <3>2
        <4>2. a = h[n].key[i - 1]  BY <1>4, <1>5, <3>2
        <4>3. a <= e  BY <1>3, <2>1, <4>1, <4>2 DEF Between
        <4>4. Higher(h, V, L, c, a)  BY <1>13, <4>1, <4>2
        <4> QED  BY <4>3, <4>4
      <3> QED  BY <3>1, <3>2
    <2>3. e <= b /\ (b = e => Higher(h, V, L, c, e))
      <3>1. CASE i = len + 1
        <4>1. b = hi  BY <1>4, <1>5, <3>1
        <4> QED  BY <1>12, <2>1, <4>1 DEF Walled
      <3>2. CASE i # len + 1
        <4>1. i \in 1 .. len  BY <1>3, <1>4, <3>2
        <4>2. b = h[n].key[i]  BY <1>4, <1>5, <3>2
        <4>3. e <= b  BY <1>3, <2>1, <4>1, <4>2 DEF Between
        <4>4. Higher(h, V, L, c, b)  BY <1>13, <4>1, <4>2
        <4> QED  BY <4>3, <4>4
      <3> QED  BY <3>1, <3>2
    <2> QED  BY <2>2, <2>3
  <1>15. Walled(h, V, L, R, c, a, b)  BY <1>4, <1>5, <1>6, <1>14 DEF Walled
  <1> QED  BY Zenon, <1>5, <1>7, <1>15

\* What checkbtreenode does in n.
CheckIn(h, w, d, n, lo, hi) ==
  \A i \in 1 .. N(h[n]) + 1 :
    IF h[n].leaf \/ d = 0 THEN Fenced(h, n, lo, hi)[i] < Fenced(h, n, lo, hi)[i + 1]
    ELSE w[h[n].kid[i]][Fenced(h, n, lo, hi)[i]][Fenced(h, n, lo, hi)[i + 1]]

Checks(h, V, f) ==
  \A d \in 0 .. Len(h), n \in V, lo \in Int, hi \in Int :
    f[d][n][lo][hi] = CheckIn(h, f[d - 1], d, n, lo, hi)

\* The recursion of checkbtreenode, level by level.
LEMMA CheckUnrolls ==
  ASSUME NEW V, NEW L, NEW R, Held(heap, root, V, L, R), NEW kmin \in Int, NEW kmax \in Int
  PROVE  \E f : Checks(heap, V, f) /\ CheckNode(kmin, kmax) = f[Len(heap)][root][kmin][kmax]
  <1>1. Reachable = V  BY Zenon, ReachesAll
  <1>2. Len(heap) \in Nat  BY LenProperties DEF Held, Heap
  <1> DEFINE W == [V -> [Int -> [Int -> BOOLEAN]]]
             Row(w, d) == [n \in V |-> [lo \in Int |-> [hi \in Int |-> CheckIn(heap, w, d, n, lo, hi)]]]
             w0 == [n \in V |-> [lo \in Int |-> [hi \in Int |-> TRUE]]]
             step == [d \in Nat |-> [w \in W |-> Row(w, d)]]
             P(f) == f = [d \in 0 .. Len(heap) |-> Row(f[d - 1], d)]
  <1>3. CheckNode(kmin, kmax) = (CHOOSE f : P(f))[Len(heap)][root][kmin][kmax]
    BY Zenon, <1>1 DEF CheckNode, CheckIn, Fenced
  <1>4. ASSUME NEW d, NEW w  PROVE Row(w, d) \in W
    <2>1. \A n, lo, hi : CheckIn(heap, w, d, n, lo, hi) \in BOOLEAN  BY DEF CheckIn
    <2> QED  BY <2>1
  <1>5. step \in [Nat -> [W -> W]] /\ w0 \in W
    <2>1. w0 \in W  OBVIOUS
    <2> HIDE DEF Row, W, w0
    <2> QED  BY <1>4, <2>1
  <1>6. ASSUME NEW v  PROVE Row(v, 0) = Row(w0, 0)
    <2>1. \A n, lo, hi : CheckIn(heap, v, 0, n, lo, hi) = CheckIn(heap, w0, 0, n, lo, hi)
      <3> HIDE DEF w0
      <3> QED  BY DEF CheckIn
    <2> HIDE DEF w0
    <2> QED  BY Zenon, <2>1
  <1>7. \E f : P(f)
    <2> HIDE DEF W, w0, step, Row, P
    <2>0. PICK g : Unrolling(W, w0, Len(heap), step, g)  BY Zenon, <1>2, <1>5, Unrolls
    <2>1. /\ g \in [0 .. Len(heap) -> W] /\ g[0] = step[0][w0]
          /\ \A d \in 1 .. Len(heap) : g[d] = step[d][g[d - 1]]
      BY Zenon, <2>0 DEF Unrolling
    <2>2. ASSUME NEW d \in 0 .. Len(heap)  PROVE g[d] = Row(g[d - 1], d)
      <3>1. CASE d = 0
        <4>1. g[0] = Row(w0, 0)  BY <1>5, <2>1 DEF step
        <4> QED  BY <1>6, <3>1, <4>1
      <3>2. CASE d # 0
        <4>1. d \in 1 .. Len(heap) /\ d \in Nat /\ d - 1 \in 0 .. Len(heap)  BY <1>2, <3>2
        <4>2. g[d - 1] \in W  BY <2>1, <4>1
        <4> QED  BY <2>1, <4>1, <4>2 DEF step
      <3> QED  BY <3>1, <3>2
    <2>3. g = [d \in 0 .. Len(heap) |-> Row(g[d - 1], d)]  BY <2>1, <2>2
    <2> QED  BY Zenon, <2>3 DEF P
  <1>8. PICK f : P(f) /\ CheckNode(kmin, kmax) = f[Len(heap)][root][kmin][kmax]
    <2> HIDE DEF P
    <2> QED  BY Zenon, <1>3, <1>7
  <1>9. \A d \in 0 .. Len(heap) : f[d] = Row(f[d - 1], d)
    <2> HIDE DEF Row
    <2> QED  BY <1>8
  <1>10. ASSUME NEW d \in 0 .. Len(heap), NEW n \in V, NEW lo \in Int, NEW hi \in Int
         PROVE  f[d][n][lo][hi] = CheckIn(heap, f[d - 1], d, n, lo, hi)
    <2>1. \A w : Row(w, d)[n][lo][hi] = CheckIn(heap, w, d, n, lo, hi)  BY DEF CheckIn
    <2>2. f[d] = Row(f[d - 1], d)  BY Zenon, <1>9
    <2> HIDE DEF Row
    <2> QED  BY Zenon, <2>1, <2>2
  <1> HIDE DEF P
  <1> QED  BY Zenon, <1>8, <1>10 DEF Checks

\* checkbtreenode accepts what is between its walls.
LEMMA ChecksWell ==
  ASSUME NEW h, NEW r, NEW V, NEW L, NEW R, Held(h, r, V, L, R), Once(h, V),
         NEW f, Checks(h, V, f), NEW d \in 0 .. Len(h), NEW n \in V, L[n] <= d,
         NEW lo, NEW hi, Walled(h, V, L, R, n, lo, hi)
  PROVE  f[d][n][lo][hi]
  <1>1. Good(h, r, V, L, R) /\ Len(h) \in Nat  BY LenProperties DEF Held, Heap
  <1> DEFINE D == {b \in 0 .. Len(h) : \A m \in V : \A u, w : L[m] <= b /\ Walled(h, V, L, R, m, u, w)
                                                             => f[b][m][u][w]}
  <1>2. ASSUME NEW b \in 0 .. Len(h), NEW m \in V, NEW u, NEW w, L[m] <= b,
               Walled(h, V, L, R, m, u, w), b >= 1 => b - 1 \in D
        PROVE  f[b][m][u][w]
    <2>1. u \in Int /\ w \in Int  BY <1>2 DEF Walled
    <2>2. f[b][m][u][w] = CheckIn(h, f[b - 1], b, m, u, w)  BY <2>1 DEF Checks
    <2>3. h[m].key \in Seq(Keys) /\ L[m] \in Nat /\ (h[m].leaf <=> L[m] = 0)
      <3>1. h[m].leaf <=> L[m] = 0  BY Zenon, <1>1, LeafLevel
      <3> QED  BY Zenon, <1>1, <3>1, NodeShape
    <2>4. CheckIn(h, f[b - 1], b, m, u, w)
      <3>1. ASSUME NEW i \in 1 .. N(h[m]) + 1
            PROVE  IF h[m].leaf \/ b = 0 THEN Fenced(h, m, u, w)[i] < Fenced(h, m, u, w)[i + 1]
                   ELSE f[b - 1][h[m].kid[i]][Fenced(h, m, u, w)[i]][Fenced(h, m, u, w)[i + 1]]
        <4>1. i \in 1 .. Len(h[m].key) + 1  BY Zenon DEF N
        <4>2. CASE h[m].leaf \/ b = 0
          <5>1. Fenced(h, m, u, w)[i] < Fenced(h, m, u, w)[i + 1]
            BY Zenon, <1>1, <1>2, <4>1, WalledRises
          <5> QED  BY Zenon, <4>2, <5>1
        <4>3. CASE ~(h[m].leaf \/ b = 0)
          <5>1. PICK c, p, q : /\ c = h[m].kid[i] /\ p = Fenced(h, m, u, w)[i]
                               /\ q = Fenced(h, m, u, w)[i + 1]
            OBVIOUS
          <5>2. Walled(h, V, L, R, h[m].kid[i], Fenced(h, m, u, w)[i], Fenced(h, m, u, w)[i + 1])
            BY Zenon, <1>1, <1>2, <4>1, <4>3, WalledBelow
          <5>3. Walled(h, V, L, R, c, p, q)  BY Zenon, <5>1, <5>2
          <5>4. c \in V /\ L[m] = L[c] + 1 /\ L[c] \in Nat
            <6>1. \A l \in 1 .. Len(h[m].kid) :
                    h[m].kid[l] \in V /\ L[m] = L[h[m].kid[l]] + 1 /\ L[h[m].kid[l]] \in Nat
              BY Zenon, <1>1, NodeShape
            <6>2. Len(h[m].kid) = Len(h[m].key) + 1  BY <1>1, <4>3, NodeShape
            <6>3. i \in 1 .. Len(h[m].kid)  BY <4>1, <6>2
            <6> QED  BY Zenon, <5>1, <6>1, <6>3
          <5>5. b >= 1 /\ L[c] <= b - 1  BY <1>1, <1>2, <4>3, <5>4
          <5>6. b - 1 \in D  BY <1>2, <5>5
          <5>7. f[b - 1][c][p][q]  BY <5>3, <5>4, <5>5, <5>6
          <5> QED  BY Zenon, <4>3, <5>1, <5>7
        <4> QED  BY <4>2, <4>3
      <3> QED  BY Zenon, <3>1 DEF CheckIn
    <2> QED  BY Zenon, <2>2, <2>4
  <1>3. 0 \in D
    <2>1. 0 \in 0 .. Len(h) /\ ~(0 >= 1)  BY <1>1
    <2>2. \A m \in V : \A u, w : L[m] <= 0 /\ Walled(h, V, L, R, m, u, w) => f[0][m][u][w]
      BY Zenon, <1>2, <2>1
    <2> QED  BY <2>1, <2>2
  <1>4. ASSUME NEW b \in 0 .. Len(h), b < Len(h), b \in D  PROVE b + 1 \in D
    <2>1. b + 1 \in 0 .. Len(h) /\ (b + 1) - 1 = b  BY <1>1, <1>4
    <2>2. \A m \in V : \A u, w : L[m] <= b + 1 /\ Walled(h, V, L, R, m, u, w) => f[b + 1][m][u][w]
      <3> HIDE DEF D
      <3> QED  BY Zenon, <1>2, <1>4, <2>1
    <2> QED  BY <2>1, <2>2
  <1>5. d \in D
    <2> HIDE DEF D
    <2> QED  BY <1>1, <1>3, <1>4, UpTo
  <1> QED  BY <1>5

\* bt_checktree accepts a tree between two calls that has no key twice.
LEMMA ChecksTree ==
  ASSUME NEW V, NEW L, NEW R, IdleAt(V, L, R), IsFiniteSet(Keys), \A e \in Keys : Bag[e] <= 1
  PROVE  CheckTree
  <1>1. Held(heap, root, V, L, R) /\ Once(heap, V)
    <2>1. Once(heap, V)  BY Zenon, OnceNow
    <2> QED  BY Zenon, <2>1 DEF IdleAt
  <1>2. /\ Good(heap, root, V, L, R) /\ Len(heap) \in 0 .. Len(heap) /\ root \in V
        /\ L[root] <= Len(heap) /\ R[root] = Keys
    BY <1>1, LenProperties DEF Held, Heap, Good, Tree
  <1>3. PICK top : top = Max(Keys \cup {0})  OBVIOUS
  <1>4. top \in Nat /\ \A e \in Keys : e <= top
    <2>1. PICK S : S = Keys \cup {0}  OBVIOUS
    <2>2. S \in SUBSET Nat /\ S # {}  BY <2>1, KeysAssumption
    <2>3. IsFiniteSet(S)  BY <2>1, FS_AddElement
    <2>4. Max(S) \in S /\ \A y \in S : Max(S) >= y  BY Zenon, <2>2, <2>3, Greatest
    <2>5. top \in S /\ \A y \in S : top >= y  BY <1>3, <2>1, <2>4
    <2> QED  BY <2>1, <2>2, <2>5
  <1>5. PICK lo, hi : lo = -1 /\ hi = top + 1  OBVIOUS
  <1>6. lo \in Int /\ hi \in Int  BY <1>4, <1>5
  <1>7. Walled(heap, V, L, R, root, lo, hi)
    <2>1. ASSUME NEW e \in Keys  PROVE lo < e /\ e < hi
      <3>1. e \in Nat /\ e <= top  BY <1>4, KeysAssumption
      <3> QED  BY <1>4, <1>5, <3>1
    <2>2. lo < hi  BY <1>4, <1>5
    <2>3. \A e \in Keys : lo <= e /\ e <= hi /\ lo # e /\ hi # e
      <3>1. \A e \in Keys : e \in Int  BY KeysAssumption
      <3> QED  BY <1>6, <2>1, <3>1
    <2> QED  BY <1>2, <1>6, <2>2, <2>3 DEF Walled
  <1>8. PICK f : Checks(heap, V, f) /\ CheckNode(lo, hi) = f[Len(heap)][root][lo][hi]
    BY <1>1, <1>6, CheckUnrolls
  <1>9. f[Len(heap)][root][lo][hi]  BY Zenon, <1>1, <1>2, <1>7, <1>8, ChecksWell
  <1>10. CheckTree = CheckNode(lo, hi)  BY <1>3, <1>5 DEF CheckTree
  <1> QED  BY Zenon, <1>8, <1>9, <1>10

\* Between calls bt_find finds exactly the keys in the tree, bt_min the smallest and
\* bt_max the greatest of them, also when keys are in the tree several times; and
\* bt_checktree accepts the tree as long as no key is in it twice.
THEOREM AlwaysSearchable ==
  ASSUME IsFiniteSet(Keys)  PROVE Spec => []Searchable
  <1>1. ASSUME TreeInv  PROVE Searchable
    <2>1. SUFFICES ASSUME pc = "idle"
                   PROVE  /\ (\A e \in Keys : Bag[e] <= 1) => CheckTree
                          /\ \A e \in Keys : Find(e) = IF Bag[e] > 0 THEN e ELSE None
                          /\ Places # {} =>
                               MinMax = <<Min({e \in Keys : Bag[e] > 0}), Max({e \in Keys : Bag[e] > 0})>>
      BY Zenon DEF Searchable
    <2>2. PICK V, L, R : IdleAt(V, L, R)  BY Zenon, <1>1, <2>1, IdleNow
    <2>3. (\A e \in Keys : Bag[e] <= 1) => CheckTree  BY Zenon, <2>2, ChecksTree
    <2>4. \A e \in Keys : Find(e) = IF Bag[e] > 0 THEN e ELSE None
      BY <2>2, FindsAll
    <2>5. Places # {} =>
            MinMax = <<Min({e \in Keys : Bag[e] > 0}), Max({e \in Keys : Bag[e] > 0})>>
      BY <2>2, MinMaxIs
    <2> QED  BY Zenon, <2>3, <2>4, <2>5
  <1>2. Spec => []TreeInv  BY AlwaysTree
  <1> QED  BY <1>1, <1>2, PTL
================================================================================
