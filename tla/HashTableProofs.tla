---------------------------- MODULE HashTableProofs ----------------------------
(***************************************************************************)
(* The hash table for any keys, any hash function and any list of primes       *)
(* whose load limits grow, with expansions that fail for want of memory among  *)
(* the steps: it grows in time and never reads beyond primes[], loses and      *)
(* doubles no entry, finds what it holds, and its iterations are exact.        *)
(*                                                                         *)
(* TableInv says what every call keeps: the chains repeat no entry, each entry *)
(* is in the slot of its hash value while no expansion has failed, and an      *)
(* iterator stands at a place of a chain with everything behind it to come.    *)
(***************************************************************************)
EXTENDS HashTable, SequenceTheorems, FiniteSetTheorems, WellFoundedInduction, TLAPS

-----------------------------------------------------------------------------
(* Induction and recursion                                                  *)

\* A set of numbers that holds 0 and the successor of each of its numbers up to n holds
\* them all.
LEMMA UpTo ==
  ASSUME NEW n \in Nat, NEW S, 0 \in S, \A k \in 0 .. n : k < n /\ k \in S => k + 1 \in S
  PROVE  \A k \in 0 .. n : k \in S
  <1> DEFINE Bad == {k \in 0 .. n : k \notin S}
  <1>1. SUFFICES ASSUME Bad # {} PROVE FALSE  OBVIOUS
  <1>2. PICK p \in Bad : \A q \in Bad : ~ (<<q, p>> \in OpToRel(<, Nat))
    <2>1. Bad \subseteq Nat  OBVIOUS
    <2> HIDE DEF Bad
    <2> QED  BY <1>1, <2>1, WFMin, NatLessThanWellFounded
  <1>3. p \in Nat /\ p # 0  OBVIOUS
  <1>4. PICK m \in 0 .. n : m = p - 1 /\ m < n /\ p = m + 1  BY <1>3
  <1>5. m \notin Bad
    <2>1. <<m, p>> \in {z \in Nat \X Nat : z[1] < z[2]}  BY <1>3, <1>4
    <2> QED  BY <1>2, <2>1 DEF OpToRel
  <1> QED  BY <1>4, <1>5

\* Each value of f from 1 to n is a step from the one before.
Stepped(f, w, step, n) == f[0] = w /\ \A k \in 1 .. n : f[k] = step[k][f[k - 1]]

\* A function whose value at k + 1 is a step from its value at k exists.
LEMMA Recursion ==
  ASSUME NEW W, NEW w \in W, NEW step \in [Nat -> [W -> W]], NEW n \in Nat
  PROVE  \E f \in [0 .. n -> W] : Stepped(f, w, step, n)
  <1> DEFINE Upto(f, m) ==
               f \in [0 .. m -> W] /\ f[0] = w /\ \A k \in 1 .. m : f[k] = step[k][f[k - 1]]
             S == {m \in 0 .. n : \E f : Upto(f, m)}
  <1>1. 0 \in S
    <2> DEFINE g == [k \in {0} |-> w]
    <2>1. g \in [0 .. 0 -> W]
      <3>1. 0 .. 0 = {0}  OBVIOUS
      <3> QED  BY <3>1
    <2>2. g[0] = w /\ \A k \in 1 .. 0 : g[k] = step[k][g[k - 1]]  OBVIOUS
    <2>3. Upto(g, 0)
      <3> HIDE DEF g
      <3> QED  BY <2>1, <2>2
    <2>4. 0 \in 0 .. n  OBVIOUS
    <2> HIDE DEF g, Upto
    <2> QED  BY <2>3, <2>4
  <1>2. ASSUME NEW m \in 0 .. n, m < n, m \in S  PROVE m + 1 \in S
    <2>1. PICK f : Upto(f, m)  BY <1>2
    <2> DEFINE g == [k \in 0 .. m + 1 |-> IF k = m + 1 THEN step[m + 1][f[m]] ELSE f[k]]
    <2>2. m \in Nat /\ m + 1 \in Nat  OBVIOUS
    <2>3. f[m] \in W  BY <2>1
    <2>4. step[m + 1][f[m]] \in W  BY <2>2, <2>3
    <2>5. g \in [0 .. m + 1 -> W]
      <3>1. ASSUME NEW k \in 0 .. m + 1, k # m + 1 PROVE f[k] \in W
        <4>1. k \in 0 .. m  BY <3>1
        <4> QED  BY <2>1, <4>1
      <3> QED  BY <2>4, <3>1
    <2>6. g[0] = w  BY <2>1, <2>2
    <2>7. ASSUME NEW k \in 1 .. m + 1 PROVE g[k] = step[k][g[k - 1]]
      <3>1. k - 1 \in 0 .. m + 1 /\ k - 1 # m + 1 /\ g[k - 1] = f[k - 1]  OBVIOUS
      <3>2. CASE k = m + 1
        <4>1. k - 1 = m /\ g[k] = step[m + 1][f[m]]  BY <3>2
        <4> QED  BY <3>1, <3>2, <4>1
      <3>3. CASE k # m + 1
        <4>1. k \in 1 .. m /\ g[k] = f[k]  BY <3>3
        <4> QED  BY <2>1, <3>1, <4>1
      <3> QED  BY <3>2, <3>3
    <2>8. Upto(g, m + 1)
      <3> HIDE DEF g
      <3> QED  BY <2>5, <2>6, <2>7
    <2>9. m + 1 \in 0 .. n  BY <1>2
    <2> HIDE DEF g, Upto
    <2> QED  BY <2>8, <2>9
  <1>3. \A k \in 0 .. n : k \in S
    <2> HIDE DEF S
    <2> QED  BY <1>1, <1>2, UpTo
  <1>4. n \in S  BY <1>3
  <1> QED  BY <1>4 DEF Stepped

\* FlattenSeq appends the sequences one after the other.
Joining(f, seqs, T) ==
  /\ f \in [0 .. Len(seqs) -> Seq(T)]
  /\ f[0] = <<>>
  /\ \A k \in 1 .. Len(seqs) : f[k] = f[k - 1] \o seqs[k]

LEMMA FlattenJoins ==
  ASSUME NEW T, NEW seqs \in Seq(Seq(T))
  PROVE  \E f : Joining(f, seqs, T) /\ FlattenSeq(seqs) = f[Len(seqs)]
  <1> DEFINE n == Len(seqs)
             item(k) == IF k \in 1 .. n THEN seqs[k] ELSE <<>>
             step == [k \in Nat |-> [x \in Seq(T) |-> x \o item(k)]]
             P(g) == g = [i \in 1 .. n |-> IF i = 1 THEN seqs[i] ELSE g[i - 1] \o seqs[i]]
  <1>1. n \in Nat /\ \A k \in 1 .. n : seqs[k] \in Seq(T) /\ item(k) = seqs[k]  OBVIOUS
  <1>2. \A k \in Nat : item(k) \in Seq(T)
    <2>1. <<>> \in Seq(T)  OBVIOUS
    <2> QED  BY <1>1, <2>1
  <1>3. step \in [Nat -> [Seq(T) -> Seq(T)]]
    <2>1. \A k \in Nat, x \in Seq(T) : x \o item(k) \in Seq(T)
      <3> HIDE DEF item
      <3> QED  BY <1>2
    <2> HIDE DEF item
    <2> QED  BY <2>1
  <1>4. PICK f \in [0 .. n -> Seq(T)] :
          f[0] = <<>> /\ \A k \in 1 .. n : f[k] = step[k][f[k - 1]]
    <2> HIDE DEF n, step, item, P
    <2>1. <<>> \in Seq(T)  OBVIOUS
    <2>2. \E f \in [0 .. n -> Seq(T)] : Stepped(f, <<>>, step, n)
      BY <1>1, <1>3, <2>1, Recursion
    <2> QED  BY <2>2 DEF Stepped
  <1>5. ASSUME NEW k \in 1 .. n  PROVE f[k] = f[k - 1] \o seqs[k]
    <2>1. k - 1 \in 0 .. n /\ k \in Nat  BY <1>1
    <2>2. f[k - 1] \in Seq(T)  BY <1>4, <2>1
    <2>3. step[k][f[k - 1]] = f[k - 1] \o item(k)
      <3> HIDE DEF item
      <3> QED  BY <2>1, <2>2
    <2> HIDE DEF item, step
    <2> QED  BY <1>1, <1>4, <2>3
  <1>6. Joining(f, seqs, T)  BY <1>4, <1>5 DEF Joining
  <1>7. CASE n = 0
    <2>1. FlattenSeq(seqs) = seqs /\ seqs = <<>>  BY <1>7 DEF FlattenSeq
    <2> QED  BY <1>4, <1>6, <1>7, <2>1
  <1>8. CASE n # 0
    <2>1. 1 \in 1 .. n /\ n \in 1 .. n  BY <1>1, <1>8
    <2>2. f[1] = seqs[1]
      <3>1. f[1] = <<>> \o seqs[1]
        <4>1. f[1] = f[1 - 1] \o seqs[1]  BY <1>5, <2>1
        <4>2. 1 - 1 = 0 /\ f[0] = <<>>
          <5> HIDE DEF step
          <5> QED  BY <1>4
        <4> QED  BY <4>1, <4>2
      <3>2. seqs[1] \in Seq(T)  BY <1>1, <2>1
      <3> QED  BY <3>1, <3>2, ConcatEmptySeq
    <2> DEFINE g == [i \in 1 .. n |-> f[i]]
    <2>3. P(g)
      <3>1. ASSUME NEW i \in 1 .. n
            PROVE  f[i] = IF i = 1 THEN seqs[i] ELSE g[i - 1] \o seqs[i]
        <4>1. CASE i = 1  BY <2>2, <4>1
        <4>2. CASE i # 1
          <5>1. i - 1 \in 1 .. n  BY <1>1, <4>2
          <5>2. g[i - 1] = f[i - 1]  BY <5>1
          <5> HIDE DEF g
          <5> QED  BY <1>5, <4>2, <5>2
        <4> QED  BY <4>1, <4>2
      <3> QED  BY <3>1
    <2>4. FlattenSeq(seqs) = (CHOOSE fn : P(fn))[n]
      <3>1. Len(seqs) # 0  BY <1>8
      <3> QED  BY Zenon, <3>1 DEF FlattenSeq
    <2>5. P(CHOOSE fn : P(fn))
      <3> HIDE DEF P, g
      <3> QED  BY <2>3
    <2>6. ASSUME NEW fn, P(fn)  PROVE fn[n] = f[n]
      <3> DEFINE S == {k \in 0 .. n : k = 0 \/ fn[k] = f[k]}
      <3>1. 0 \in S  BY <1>1
      <3>2. ASSUME NEW k \in 0 .. n, k < n, k \in S  PROVE k + 1 \in S
        <4>1. k + 1 \in 1 .. n /\ k + 1 \in 0 .. n /\ (k + 1) - 1 = k  BY <1>1, <3>2
        <4>2. fn[k + 1] = IF k + 1 = 1 THEN seqs[k + 1] ELSE fn[k] \o seqs[k + 1]
          BY <2>6, <4>1
        <4>3. f[k + 1] = f[k] \o seqs[k + 1]  BY <1>5, <4>1
        <4>4. fn[k + 1] = f[k + 1]
          <5>1. CASE k = 0  BY <2>2, <4>2, <5>1
          <5>2. CASE k # 0
            <6>1. fn[k] = f[k] /\ k + 1 # 1  BY <3>2, <5>2
            <6> QED  BY <4>2, <4>3, <6>1
          <5> QED  BY <5>1, <5>2
        <4> QED  BY <4>1, <4>4
      <3>3. \A k \in 0 .. n : k \in S
        <4> HIDE DEF S, n
        <4> QED  BY <1>1, <3>1, <3>2, UpTo
      <3>4. n \in S  BY <1>1, <3>3
      <3> QED  BY <1>8, <3>4
    <2>7. FlattenSeq(seqs) = f[n]
      <3> HIDE DEF P, n
      <3> QED  BY <2>4, <2>5, <2>6
    <2> QED  BY <1>6, <2>7
  <1> QED  BY <1>7, <1>8

-----------------------------------------------------------------------------
(* The elements of a sequence                                               *)

\* No element occurs twice.
Distinct(s) == \A i, j \in 1 .. Len(s) : s[i] = s[j] => i = j

Unrepeated(s, n) == \A i, j \in 1 .. n : s[i] = s[j] => i = j

LEMMA ElementsOf ==
  ASSUME NEW T, NEW s \in Seq(T)
  PROVE  /\ \A x : x \in ToSet(s) <=> \E i \in 1 .. Len(s) : s[i] = x
         /\ ToSet(s) \subseteq T
  <1>1. DOMAIN s = 1 .. Len(s) /\ \A i \in 1 .. Len(s) : s[i] \in T  BY LenProperties, ElementOfSeq
  <1> QED  BY <1>1 DEF ToSet

LEMMA ConcatElements ==
  ASSUME NEW T, NEW s \in Seq(T), NEW t \in Seq(T)
  PROVE  ToSet(s \o t) = ToSet(s) \cup ToSet(t)
  <1>1. /\ s \o t \in Seq(T) /\ Len(s \o t) = Len(s) + Len(t)
        /\ \A i \in 1 .. Len(s) + Len(t) : (s \o t)[i] = IF i <= Len(s) THEN s[i] ELSE t[i - Len(s)]
    BY ConcatProperties
  <1>2. PICK m \in Nat, n \in Nat : m = Len(s) /\ n = Len(t)  BY LenProperties
  <1>3. ASSUME NEW x \in ToSet(s \o t) PROVE x \in ToSet(s) \cup ToSet(t)
    <2>1. PICK i \in 1 .. m + n : (s \o t)[i] = x
      <3>1. s \o t \in Seq(T)  BY <1>1
      <3>2. \E i \in 1 .. Len(s \o t) : (s \o t)[i] = x  BY Zenon, <1>3, <3>1, ElementsOf
      <3> QED  BY <1>1, <1>2, <3>2
    <2>2. CASE i <= m
      <3>1. s[i] = x /\ i \in 1 .. Len(s)  BY <1>1, <1>2, <2>1, <2>2
      <3> QED  BY <3>1, ElementsOf
    <2>3. CASE ~ i <= m
      <3>1. t[i - m] = x /\ i - m \in 1 .. Len(t)  BY <1>1, <1>2, <2>1, <2>3
      <3> QED  BY <3>1, ElementsOf
    <2> QED  BY <2>2, <2>3
  <1>4. ASSUME NEW x \in ToSet(s) PROVE x \in ToSet(s \o t)
    <2>1. PICK i \in 1 .. m : s[i] = x  BY <1>2, ElementsOf
    <2>2. i \in 1 .. m + n /\ i <= m  BY <1>2
    <2>3. (s \o t)[i] = x  BY <1>1, <1>2, <2>1, <2>2
    <2> QED  BY <1>1, <1>2, <2>2, <2>3, ElementsOf
  <1>5. ASSUME NEW x \in ToSet(t) PROVE x \in ToSet(s \o t)
    <2>1. PICK i \in 1 .. n : t[i] = x  BY <1>2, ElementsOf
    <2>2. i + m \in 1 .. m + n /\ ~ i + m <= m /\ (i + m) - m = i  BY <1>2
    <2>3. (s \o t)[i + m] = x  BY <1>1, <1>2, <2>1, <2>2
    <2> QED  BY <1>1, <1>2, <2>2, <2>3, ElementsOf
  <1> QED  BY <1>3, <1>4, <1>5

LEMMA ConcatDistinct ==
  ASSUME NEW T, NEW s \in Seq(T), NEW t \in Seq(T), Distinct(s), Distinct(t),
         ToSet(s) \cap ToSet(t) = {}
  PROVE  Distinct(s \o t)
  <1>1. /\ Len(s \o t) = Len(s) + Len(t)
        /\ \A i \in 1 .. Len(s) + Len(t) : (s \o t)[i] = IF i <= Len(s) THEN s[i] ELSE t[i - Len(s)]
    BY ConcatProperties
  <1>2. PICK m \in Nat, n \in Nat : m = Len(s) /\ n = Len(t)  BY LenProperties
  <1>3. SUFFICES ASSUME NEW i \in 1 .. m + n, NEW j \in 1 .. m + n, (s \o t)[i] = (s \o t)[j]
                 PROVE  i = j
    BY <1>1, <1>2 DEF Distinct
  <1>4. \A k \in 1 .. m + n : IF k <= m THEN k \in 1 .. m /\ (s \o t)[k] = s[k]
                              ELSE k - m \in 1 .. n /\ (s \o t)[k] = t[k - m]
    BY <1>1, <1>2
  <1>5. \A k \in 1 .. m : s[k] \in ToSet(s)  BY <1>2, ElementsOf
  <1>6. \A k \in 1 .. n : t[k] \in ToSet(t)  BY <1>2, ElementsOf
  <1>7. CASE i <= m /\ j <= m
    <2>1. i \in 1 .. m /\ j \in 1 .. m /\ s[i] = s[j]  BY <1>3, <1>4, <1>7
    <2> QED  BY <1>2, <2>1 DEF Distinct
  <1>8. CASE i <= m /\ ~ j <= m
    <2>1. i \in 1 .. m /\ j - m \in 1 .. n /\ s[i] = t[j - m]  BY <1>3, <1>4, <1>8
    <2> QED  BY <1>5, <1>6, <2>1
  <1>9. CASE ~ i <= m /\ j <= m
    <2>1. j \in 1 .. m /\ i - m \in 1 .. n /\ s[j] = t[i - m]  BY <1>3, <1>4, <1>9
    <2> QED  BY <1>5, <1>6, <2>1
  <1>10. CASE ~ i <= m /\ ~ j <= m
    <2>1. i - m \in 1 .. n /\ j - m \in 1 .. n /\ t[i - m] = t[j - m]  BY <1>3, <1>4, <1>10
    <2>2. i - m = j - m  BY <1>2, <2>1 DEF Distinct
    <2> QED  BY <2>2
  <1> QED  BY <1>7, <1>8, <1>9, <1>10

\* A sequence without repetition has as many elements as places.
LEMMA DistinctCount ==
  ASSUME NEW T, NEW s \in Seq(T), Distinct(s)
  PROVE  IsFiniteSet(ToSet(s)) /\ Cardinality(ToSet(s)) = Len(s)
  <1>1. s \in [1 .. Len(s) -> T] /\ Len(s) \in Nat  BY LenProperties
  <1>2. s \in [1 .. Len(s) -> ToSet(s)]
    <2>1. \A i \in 1 .. Len(s) : s[i] \in ToSet(s)  BY ElementsOf
    <2> QED  BY <1>1, <2>1
  <1>3. s \in Surjection(1 .. Len(s), ToSet(s))
    <2>1. \A x \in ToSet(s) : \E i \in 1 .. Len(s) : s[i] = x  BY ElementsOf
    <2> QED  BY <1>2, <2>1 DEF Surjection
  <1>4. s \in Injection(1 .. Len(s), ToSet(s))
    <2>1. \A i, j \in 1 .. Len(s) : s[i] = s[j] => i = j  BY DEF Distinct
    <2>2. DOMAIN s = 1 .. Len(s)  BY <1>2
    <2> QED  BY <1>2, <2>1, <2>2 DEF Injection, IsInjective
  <1>5. IsFiniteSet(1 .. Len(s)) /\ Cardinality(1 .. Len(s)) = Len(s)
    <2>1. 1 \in Int /\ Len(s) \in Int  BY <1>1
    <2>2. /\ IsFiniteSet(1 .. Len(s))
          /\ Cardinality(1 .. Len(s)) = IF 1 > Len(s) THEN 0 ELSE Len(s) - 1 + 1
      BY <2>1, FS_Interval
    <2> QED  BY <1>1, <2>2
  <1> QED  BY <1>3, <1>4, <1>5, FS_Surjection

\* Sequences without repetition and without a common element are joined to one without
\* repetition.
LEMMA FlattenDistinct ==
  ASSUME NEW T, NEW seqs \in Seq(Seq(T)),
         \A k \in 1 .. Len(seqs) : Distinct(seqs[k]),
         \A j, k \in 1 .. Len(seqs) : j # k => ToSet(seqs[j]) \cap ToSet(seqs[k]) = {}
  PROVE  /\ FlattenSeq(seqs) \in Seq(T) /\ Distinct(FlattenSeq(seqs))
         /\ ToSet(FlattenSeq(seqs)) = UNION {ToSet(seqs[k]) : k \in 1 .. Len(seqs)}
  <1>1. PICK n \in Nat : n = Len(seqs)  BY LenProperties
  <1>2. \A k \in 1 .. n : seqs[k] \in Seq(T)  BY <1>1, ElementOfSeq
  <1>3. PICK f : Joining(f, seqs, T) /\ FlattenSeq(seqs) = f[n]  BY <1>1, FlattenJoins
  <1> DEFINE Past(k) == UNION {ToSet(seqs[j]) : j \in 1 .. k}
             S == {k \in 0 .. n : f[k] \in Seq(T) /\ Distinct(f[k]) /\ ToSet(f[k]) = Past(k)}
  <1>4. 0 \in S
    <2>1. f[0] = <<>>  BY <1>3 DEF Joining
    <2>2. <<>> \in Seq(T) /\ Len(<<>>) = 0  BY EmptySeq
    <2>3. Distinct(<<>>)  BY <2>2 DEF Distinct
    <2>4. ToSet(<<>>) = {}
      <3>1. \A x : x \in ToSet(<<>>) <=> \E i \in 1 .. Len(<<>>) : <<>>[i] = x
        BY <2>2, ElementsOf
      <3>2. 1 .. 0 = {}  OBVIOUS
      <3> QED  BY <2>2, <3>1, <3>2
    <2>5. Past(0) = {}  OBVIOUS
    <2> HIDE DEF Past
    <2>6. PICK e \in Seq(T) : f[0] = e /\ Distinct(e) /\ ToSet(e) = Past(0)
      BY <2>1, <2>2, <2>3, <2>4, <2>5
    <2> QED  BY <2>6
  <1>5. ASSUME NEW k \in 0 .. n, k < n, k \in S PROVE k + 1 \in S
    <2>1. k + 1 \in 1 .. n /\ k + 1 \in 0 .. n /\ (k + 1) - 1 = k  BY <1>5
    <2>2. f[k + 1] = f[k] \o seqs[k + 1]  BY <1>1, <1>3, <2>1 DEF Joining
    <2>3. f[k] \in Seq(T) /\ Distinct(f[k]) /\ ToSet(f[k]) = Past(k)  BY <1>5
    <2>4. seqs[k + 1] \in Seq(T) /\ Distinct(seqs[k + 1])  BY <1>1, <1>2, <2>1
    <2>5. ToSet(f[k]) \cap ToSet(seqs[k + 1]) = {}
      <3>1. \A j \in 1 .. k : j \in 1 .. n /\ j # k + 1  OBVIOUS
      <3>2. \A j \in 1 .. k : ToSet(seqs[j]) \cap ToSet(seqs[k + 1]) = {}  BY <1>1, <2>1, <3>1
      <3> QED  BY <2>3, <3>2
    <2>6. Past(k + 1) = Past(k) \cup ToSet(seqs[k + 1])
      <3>1. 1 .. k + 1 = (1 .. k) \cup {k + 1}  OBVIOUS
      <3> QED  BY <3>1
    <2> HIDE DEF Past
    <2>7. PICK s \in Seq(T), t \in Seq(T) : s = f[k] /\ t = seqs[k + 1]  BY <2>3, <2>4
    <2>8. f[k + 1] = s \o t /\ Distinct(s) /\ Distinct(t) /\ ToSet(s) \cap ToSet(t) = {}
      BY <2>2, <2>3, <2>4, <2>5, <2>7
    <2>9. s \o t \in Seq(T) /\ Distinct(s \o t) /\ ToSet(s \o t) = ToSet(s) \cup ToSet(t)
      BY <2>8, ConcatProperties, ConcatDistinct, ConcatElements
    <2>10. ToSet(f[k + 1]) = Past(k + 1)  BY <2>3, <2>6, <2>7, <2>8, <2>9
    <2> QED  BY <2>1, <2>8, <2>9, <2>10
  <1>6. \A k \in 0 .. n : k \in S
    <2> HIDE DEF S
    <2> QED  BY <1>4, <1>5, UpTo
  <1>7. n \in S
    <2>1. n \in 0 .. n  BY <1>1
    <2> HIDE DEF S
    <2> QED  BY <1>6, <2>1
  <1> QED  BY <1>1, <1>3, <1>7

LEMMA ConsType ==
  ASSUME NEW T, NEW s \in Seq(T), NEW x \in T
  PROVE  <<x>> \o s \in Seq(T)
  <1>1. <<x>> \in Seq(T)  OBVIOUS
  <1>2. PICK r \in Seq(T) : r = <<x>>  BY Zenon, <1>1
  <1> QED  BY <1>2, ConcatProperties

\* An element that is new to a sequence, in front of it.
LEMMA InFront ==
  ASSUME NEW T, NEW s \in Seq(T), Distinct(s), NEW x \in T, x \notin ToSet(s)
  PROVE  /\ <<x>> \o s \in Seq(T) /\ Distinct(<<x>> \o s)
         /\ ToSet(<<x>> \o s) = ToSet(s) \cup {x}
  <1>1. <<x>> \in Seq(T) /\ Len(<<x>>) = 1 /\ <<x>>[1] = x  OBVIOUS
  <1>2. Distinct(<<x>>)  BY <1>1 DEF Distinct
  <1>3. ToSet(<<x>>) = {x}
    <2>1. \A y : y \in ToSet(<<x>>) <=> \E i \in 1 .. Len(<<x>>) : <<x>>[i] = y
      <3>1. <<x>> \in Seq(T)  BY <1>1
      <3> QED  BY Zenon, <3>1, ElementsOf
    <2>2. 1 .. 1 = {1}  OBVIOUS
    <2>3. \A y : y \in ToSet(<<x>>) <=> <<x>>[1] = y  BY <1>1, <2>1, <2>2
    <2> QED  BY <1>1, <2>3
  <1>4. PICK r \in Seq(T) : r = <<x>>  BY <1>1
  <1>5. Distinct(r) /\ ToSet(r) = {x} /\ ToSet(r) \cap ToSet(s) = {}  BY <1>2, <1>3, <1>4
  <1>6. r \o s \in Seq(T) /\ Distinct(r \o s) /\ ToSet(r \o s) = ToSet(r) \cup ToSet(s)
    BY <1>5, ConcatProperties, ConcatDistinct, ConcatElements
  <1> QED  BY <1>4, <1>5, <1>6

\* A function r that takes the values of s at the places 1 to n in order but for the k-th.
Skips(r, s, k, n) == \A i \in 1 .. n - 1 : r[i] = IF i < k THEN s[i] ELSE s[i + 1]

OneLess(r, s, k, n) ==
  /\ \A i, j \in 1 .. n - 1 : r[i] = r[j] => i = j
  /\ \A x : (\E i \in 1 .. n - 1 : r[i] = x) <=> (\E j \in 1 .. n : s[j] = x) /\ x # s[k]

LEMMA SkipOne ==
  ASSUME NEW n \in Nat, NEW k \in 1 .. n, NEW r, NEW s, Skips(r, s, k, n), Unrepeated(s, n)
  PROVE  OneLess(r, s, k, n)
  <1> DEFINE At(i) == IF i < k THEN i ELSE i + 1
  <1>1. ASSUME NEW i \in 1 .. n - 1
        PROVE  At(i) \in 1 .. n /\ At(i) # k /\ r[i] = s[At(i)]
    BY DEF Skips
  <1>2. \A i, j \in 1 .. n - 1 : At(i) = At(j) => i = j  OBVIOUS
  <1>3. ASSUME NEW j \in 1 .. n, j # k PROVE \E i \in 1 .. n - 1 : At(i) = j
    <2>1. CASE j < k
      <3>1. j \in 1 .. n - 1 /\ At(j) = j  BY <2>1
      <3> QED  BY <3>1
    <2>2. CASE ~ j < k
      <3>1. j - 1 \in 1 .. n - 1 /\ At(j - 1) = j  BY <1>3, <2>2
      <3> QED  BY <3>1
    <2> QED  BY <2>1, <2>2
  <1> HIDE DEF At
  <1>4. ASSUME NEW i \in 1 .. n - 1, NEW j \in 1 .. n - 1, r[i] = r[j] PROVE i = j
    <2>1. At(i) = At(j)  BY <1>1, <1>4 DEF Unrepeated
    <2> QED  BY <1>2, <2>1
  <1>5. ASSUME NEW x, NEW i \in 1 .. n - 1, r[i] = x
        PROVE  (\E j \in 1 .. n : s[j] = x) /\ x # s[k]
    <2>1. At(i) \in 1 .. n /\ At(i) # k /\ s[At(i)] = x  BY <1>1, <1>5
    <2>2. s[At(i)] # s[k]  BY <2>1 DEF Unrepeated
    <2> QED  BY <2>1, <2>2
  <1>6. ASSUME NEW x, NEW j \in 1 .. n, s[j] = x, x # s[k]
        PROVE  \E i \in 1 .. n - 1 : r[i] = x
    <2>1. PICK i \in 1 .. n - 1 : At(i) = j  BY <1>3, <1>6
    <2>2. r[i] = s[j]
      <3>1. r[i] = s[At(i)]  BY <1>1
      <3> QED  BY <2>1, <3>1
    <2> QED  BY <1>6, <2>2
  <1> QED  BY Zenon, <1>4, <1>5, <1>6 DEF OneLess

\* A sequence without its k-th element.
CutAt(r, s, k) == r = SubSeq(s, 1, k - 1) \o SubSeq(s, k + 1, Len(s))
LEMMA CutOut ==
  ASSUME NEW T, NEW s \in Seq(T), Distinct(s), NEW k \in 1 .. Len(s),
         NEW r, CutAt(r, s, k)
  PROVE  /\ r \in Seq(T) /\ Distinct(r) /\ Len(r) = Len(s) - 1
         /\ Skips(r, s, k, Len(s))
         /\ ToSet(r) = ToSet(s) \ {s[k]}
  <1>1. PICK n \in Nat : n = Len(s)  BY LenProperties
  <1>2. k \in 1 .. n /\ \A i \in 1 .. n : s[i] \in T  BY <1>1, ElementOfSeq
  <1> DEFINE a == SubSeq(s, 1, k - 1)
             b == SubSeq(s, k + 1, n)
  <1>3. a \in Seq(T) /\ Len(a) = k - 1 /\ \A i \in 1 .. k - 1 : a[i] = s[i]
    <2>1. 1 \in Int /\ k - 1 \in Int /\ \A i \in 1 .. k - 1 : s[i] \in T  BY <1>2
    <2>2. /\ a \in Seq(T) /\ Len(a) = IF 1 <= k - 1 THEN (k - 1) - 1 + 1 ELSE 0
          /\ \A i \in 1 .. (k - 1) - 1 + 1 : a[i] = s[1 + i - 1]
      BY <2>1, SubSeqProperties
    <2> HIDE DEF a
    <2>3. (k - 1) - 1 + 1 = k - 1 /\ \A i \in 1 .. k - 1 : 1 + i - 1 = i  BY <1>2
    <2>4. Len(a) = k - 1  BY <1>2, <2>2
    <2> QED  BY <2>2, <2>3, <2>4
  <1>4. b \in Seq(T) /\ Len(b) = n - k /\ \A i \in 1 .. n - k : b[i] = s[k + i]
    <2>1. k + 1 \in Int /\ n \in Int /\ \A i \in k + 1 .. n : s[i] \in T  BY <1>2
    <2>2. /\ b \in Seq(T) /\ Len(b) = IF k + 1 <= n THEN n - (k + 1) + 1 ELSE 0
          /\ \A i \in 1 .. n - (k + 1) + 1 : b[i] = s[k + 1 + i - 1]
      BY <2>1, SubSeqProperties
    <2> HIDE DEF b
    <2>3. n - (k + 1) + 1 = n - k /\ \A i \in 1 .. n - k : k + 1 + i - 1 = k + i  BY <1>2
    <2>4. Len(b) = n - k  BY <1>2, <2>2
    <2> QED  BY <2>2, <2>3, <2>4
  <1>5. r = a \o b  BY <1>1 DEF CutAt
  <1> HIDE DEF a, b
  <1>6. /\ r \in Seq(T) /\ Len(r) = Len(a) + Len(b)
        /\ \A i \in 1 .. Len(a) + Len(b) : r[i] = IF i <= Len(a) THEN a[i] ELSE b[i - Len(a)]
    <2>1. /\ a \o b \in Seq(T) /\ Len(a \o b) = Len(a) + Len(b)
          /\ \A i \in 1 .. Len(a) + Len(b) :
               (a \o b)[i] = IF i <= Len(a) THEN a[i] ELSE b[i - Len(a)]
      BY <1>3, <1>4, ConcatProperties
    <2> QED  BY <1>5, <2>1
  <1>7. Len(r) = n - 1
    <2>1. (k - 1) + (n - k) = n - 1  BY <1>2
    <2> QED  BY <1>3, <1>4, <1>6, <2>1
  <1>8. Skips(r, s, k, n)
    <2>1. ASSUME NEW i \in 1 .. n - 1 PROVE r[i] = IF i < k THEN s[i] ELSE s[i + 1]
      <3>1. r[i] = IF i <= k - 1 THEN a[i] ELSE b[i - (k - 1)]  BY <1>3, <1>6, <1>7
      <3>2. CASE i < k
        <4>1. i \in 1 .. k - 1 /\ i <= k - 1  BY <1>2, <3>2
        <4> QED  BY <1>3, <3>1, <3>2, <4>1
      <3>3. CASE ~ i < k
        <4>1. i - (k - 1) \in 1 .. n - k /\ ~ i <= k - 1 /\ k + (i - (k - 1)) = i + 1
          BY <1>2, <3>3
        <4> QED  BY <1>4, <3>1, <3>3, <4>1
      <3> QED  BY <3>2, <3>3
    <2> QED  BY <2>1 DEF Skips
  <1>9. Unrepeated(s, n)  BY <1>1 DEF Distinct, Unrepeated
  <1>10. /\ \A i, j \in 1 .. n - 1 : r[i] = r[j] => i = j
         /\ \A x : (\E i \in 1 .. n - 1 : r[i] = x) <=> (\E j \in 1 .. n : s[j] = x) /\ x # s[k]
    <2>1. k \in 1 .. n  BY <1>2
    <2>2. OneLess(r, s, k, n)  BY Zenon, <2>1, <1>1, <1>8, <1>9, SkipOne
    <2> QED  BY Zenon, <2>2 DEF OneLess
  <1>11. \A x : x \in ToSet(r) <=> \E i \in 1 .. n - 1 : r[i] = x
    <2>1. r \in Seq(T)  BY <1>6
    <2>2. \A x : x \in ToSet(r) <=> \E i \in 1 .. Len(r) : r[i] = x  BY Zenon, <2>1, ElementsOf
    <2> QED  BY Zenon, <1>7, <2>2
  <1>12. \A x : x \in ToSet(s) <=> \E i \in 1 .. n : s[i] = x  BY Zenon, <1>1, ElementsOf
  <1>13. ToSet(r) = ToSet(s) \ {s[k]}
    <2>1. \A x : x \in ToSet(r) <=> x \in ToSet(s) /\ x # s[k]  BY Zenon, <1>10, <1>11, <1>12
    <2> QED  BY Zenon, <2>1
  <1>14. Distinct(r)  BY Zenon, <1>7, <1>10 DEF Distinct
  <1> QED  BY Zenon, <1>1, <1>6, <1>7, <1>8, <1>13, <1>14

-----------------------------------------------------------------------------
Fields == {"table", "tablelength", "primeindex", "entrycount", "loadlimit"}

\* struct hashtable, its table left open, with the length and limit of its prime.
Sized(g) ==
  /\ g = [f \in Fields |-> g[f]]
  /\ g.primeindex \in DOMAIN Primes
  /\ g.tablelength = Primes[g.primeindex]
  /\ g.loadlimit = LoadLimit(g.tablelength)
  /\ g.entrycount \in Int

Bounded(g) == g.entrycount <= g.loadlimit \/ g.primeindex = Len(Primes)

IInv == Sized(h) /\ Bounded(h)

LEMMA LimitType ==
  ASSUME NEW s \in Nat
  PROVE  LoadLimit(s) \in Nat
  BY DEF LoadLimit

\* The first prime above a size exists.
LEMMA FirstPrime ==
  ASSUME NEW m \in MinSizes
  PROVE  Min({j \in DOMAIN Primes : Primes[j] > m}) \in DOMAIN Primes
  <1> DEFINE T == {j \in DOMAIN Primes : Primes[j] > m}
  <1>1. T # {} /\ T \subseteq Nat  BY SizesAssumption
  <1>2. PICK x \in T : \A y \in T : ~ (<<y, x>> \in OpToRel(<, Nat))
    BY <1>1, WFMin, NatLessThanWellFounded
  <1>3. ASSUME NEW y \in T PROVE x <= y
    <2>1. x \in Nat /\ y \in Nat  BY <1>1
    <2>2. ~ (<<y, x>> \in {z \in Nat \X Nat : z[1] < z[2]})  BY <1>2 DEF OpToRel
    <2>3. ~ (y < x)  BY <2>1, <2>2
    <2> QED  BY <2>1, <2>3
  <1>4. Min(T) \in T  BY <1>3 DEF Min
  <1> QED  BY <1>4

LEMMA CreateSized ==
  ASSUME NEW m \in MinSizes
  PROVE  Sized(Create(m)) /\ Bounded(Create(m))
  <1>1. PICK j \in DOMAIN Primes : j = Min({i \in DOMAIN Primes : Primes[i] > m})
    BY FirstPrime
  <1>2. Primes[j] \in Nat /\ LoadLimit(Primes[j]) \in Nat
    <2>1. Primes[j] \in Nat  BY SizesAssumption
    <2> QED  BY <2>1, LimitType
  <1>3. Create(m) = [table |-> [i \in 0 .. Primes[j] - 1 |-> <<>>],
                     tablelength |-> Primes[j], primeindex |-> j, entrycount |-> 0,
                     loadlimit |-> LoadLimit(Primes[j])]
    BY <1>1 DEF Create
  <1> QED  BY <1>2, <1>3 DEF Sized, Bounded, Fields

\* A table with new entries or a new count keeps its length and limit.
Altered(g, t, n) == [g EXCEPT !.table = t, !.entrycount = n]

LEMMA SizedChange ==
  ASSUME NEW g, Sized(g), NEW t, NEW n \in Int
  PROVE  /\ Sized(Altered(g, t, n))
         /\ Altered(g, t, n).primeindex = g.primeindex
         /\ Altered(g, t, n).loadlimit = g.loadlimit
         /\ Altered(g, t, n).entrycount = n
  BY DEF Sized, Fields, Altered

\* An expansion, with a new table or without, raises the limit by one at least.
LEMMA ResizedSized ==
  ASSUME NEW g, Sized(g), g.primeindex # Len(Primes), NEW t
  PROVE  /\ Sized(Resized(g, t))
         /\ Resized(g, t).entrycount = g.entrycount
         /\ g.loadlimit + 1 <= Resized(g, t).loadlimit
  <1>1. PICK j \in DOMAIN Primes : j = g.primeindex  BY DEF Sized
  <1>2. j + 1 \in DOMAIN Primes /\ j + 1 \in 2 .. Len(Primes)
    BY <1>1, SizesAssumption
  <1>3. PICK a \in Nat, b \in Nat : a = LoadLimit(Primes[j]) /\ b = LoadLimit(Primes[j + 1])
    <2>1. Primes[j] \in Nat /\ Primes[j + 1] \in Nat  BY <1>2, SizesAssumption
    <2> QED  BY <2>1, LimitType
  <1>4. a < b
    <2>1. LoadLimit(Primes[(j + 1) - 1]) < LoadLimit(Primes[j + 1])
      BY <1>2, SizesAssumption
    <2>2. (j + 1) - 1 = j  BY <1>1, SizesAssumption
    <2> QED  BY <1>3, <2>1, <2>2
  <1>5. g.loadlimit = a /\ g.entrycount \in Int  BY <1>1, <1>3 DEF Sized
  <1>6. Resized(g, t) = [g EXCEPT !.table = t, !.tablelength = Primes[j + 1],
                                  !.primeindex = j + 1, !.loadlimit = b]
    BY <1>1, <1>3 DEF Resized, Sized, Fields
  <1>7. /\ Resized(g, t).primeindex = j + 1 /\ Resized(g, t).loadlimit = b
        /\ Resized(g, t).tablelength = Primes[j + 1]
        /\ Resized(g, t).entrycount = g.entrycount
        /\ Resized(g, t) = [f \in Fields |-> Resized(g, t)[f]]
    BY <1>6 DEF Sized, Fields
  <1> QED  BY <1>2, <1>3, <1>4, <1>5, <1>7 DEF Sized

LEMMA PutSized ==
  ASSUME NEW g, Sized(g), NEW o, g.entrycount + 1 <= g.loadlimit \/ g.primeindex = Len(Primes)
  PROVE  Sized(PutFirst(g, o)) /\ Bounded(PutFirst(g, o))
  <1> DEFINE t == [g.table EXCEPT ![IndexFor(g, o)] = <<o>> \o @]
  <1>1. PICK n \in Int : n = g.entrycount + 1
    <2>1. g.entrycount + 1 \in Int  BY DEF Sized
    <2> QED  BY <2>1
  <1>2. PutFirst(g, o) = Altered(g, t, n)
    BY <1>1 DEF PutFirst, Sized, Fields, Altered
  <1> HIDE DEF t
  <1>3. /\ Sized(PutFirst(g, o)) /\ PutFirst(g, o).entrycount = n
        /\ PutFirst(g, o).primeindex = g.primeindex /\ PutFirst(g, o).loadlimit = g.loadlimit
    BY <1>2, SizedChange
  <1> QED  BY <1>1, <1>3 DEF Bounded

\* An insertion expands the table before the count passes the limit.
LEMMA InsertInv == ASSUME IInv, NEW o \in Objects, Insert(o) PROVE IInv'
  <1>1. CASE h' = h  BY <1>1 DEF IInv
  <1>2. CASE h' # h
    <2>1. PICK g \in (IF Overfull(h) THEN Expanded(h) ELSE {h}) : h' = PutFirst(g, o) \/ h' = g
      BY <1>2 DEF Insert, Lost
    <2>2. /\ Sized(g)
          /\ g.entrycount + 1 <= g.loadlimit \/ g.primeindex = Len(Primes)
      <3>1. CASE ~ Overfull(h)
        <4>1. h.entrycount \in Int /\ h.loadlimit \in Nat
          <5>1. Primes[h.primeindex] \in Nat  BY SizesAssumption DEF IInv, Sized
          <5> QED  BY <5>1, LimitType DEF IInv, Sized
        <4> QED  BY <2>1, <3>1, <4>1 DEF Overfull, IInv
      <3>2. CASE Overfull(h) /\ h.primeindex = Len(Primes)
        BY <2>1, <3>2 DEF Expanded, IInv
      <3>3. CASE Overfull(h) /\ h.primeindex # Len(Primes)
        <4>1. PICK t : g = Resized(h, t)  BY <2>1, <3>3 DEF Expanded
        <4>2. Sized(g) /\ g.entrycount = h.entrycount /\ h.loadlimit + 1 <= g.loadlimit
          BY <3>3, <4>1, ResizedSized DEF IInv
        <4>3. h.entrycount <= h.loadlimit  BY <3>3 DEF IInv, Bounded
        <4>4. PICK x \in Int, y \in Nat, z \in Nat :
                x = h.entrycount /\ y = h.loadlimit /\ z = g.loadlimit
          <5>1. Primes[h.primeindex] \in Nat /\ Primes[g.primeindex] \in Nat
            BY <4>2, SizesAssumption DEF IInv, Sized
          <5> QED  BY <4>2, <5>1, LimitType DEF IInv, Sized
        <4>5. x + 1 <= z  BY <4>2, <4>3, <4>4
        <4> QED  BY <4>2, <4>4, <4>5
      <3> QED  BY <3>1, <3>2, <3>3
    <2>3. Bounded(g)
      <3>1. PICK x \in Int, z \in Nat : x = g.entrycount /\ z = g.loadlimit
        <4>1. Primes[g.primeindex] \in Nat  BY <2>2, SizesAssumption DEF Sized
        <4> QED  BY <2>2, <4>1, LimitType DEF Sized
      <3>2. x + 1 <= z => x <= z  OBVIOUS
      <3> QED  BY <2>2, <3>1, <3>2 DEF Bounded
    <2>4. CASE h' = g  BY <2>2, <2>3, <2>4 DEF IInv
    <2>5. CASE h' = PutFirst(g, o)  BY <2>2, <2>5, PutSized DEF IInv
    <2> QED  BY <2>1, <2>4, <2>5
  <1> QED  BY <1>1, <1>2

\* A removal takes one from the count.
LEMMA TakenInv ==
  ASSUME IInv, NEW t, h' = Altered(h, t, h.entrycount - 1)
  PROVE  IInv'
  <1>1. h.entrycount - 1 \in Int  BY DEF IInv, Sized
  <1>2. /\ Sized(h') /\ h'.primeindex = h.primeindex /\ h'.loadlimit = h.loadlimit
        /\ h'.entrycount = h.entrycount - 1
    <2>1. PICK n \in Int : n = h.entrycount - 1  BY <1>1
    <2>2. Sized(h)  BY DEF IInv
    <2>3. h' = Altered(h, t, n)  BY <2>1
    <2> QED  BY <2>1, <2>2, <2>3, SizedChange
  <1>3. PICK x \in Int, z \in Nat : x = h.entrycount /\ z = h.loadlimit
    <2>1. Primes[h.primeindex] \in Nat  BY SizesAssumption DEF IInv, Sized
    <2> QED  BY <2>1, LimitType DEF IInv, Sized
  <1>4. x <= z => x - 1 <= z  OBVIOUS
  <1>5. Bounded(h')  BY <1>2, <1>3, <1>4 DEF IInv, Bounded
  <1> QED  BY <1>2, <1>5 DEF IInv

LEMMA RemoveKeyInv == ASSUME IInv, NEW name \in Names, RemoveKey(name) PROVE IInv'
  <1>1. CASE h' = h  BY <1>1 DEF IInv
  <1>2. CASE h' # h
    <2> DEFINE t == [h.table EXCEPT ![Slot(name)] = Without(@, Search(name))]
    <2>1. h' = [h EXCEPT !.table[Slot(name)] = Without(@, Search(name)),
                         !.entrycount = @ - 1]
      BY <1>2 DEF RemoveKey, Lost
    <2>2. h' = Altered(h, t, h.entrycount - 1)
      BY <2>1 DEF IInv, Sized, Fields, Altered
    <2> HIDE DEF t
    <2> QED  BY <2>2, TakenInv
  <1> QED  BY <1>1, <1>2

LEMMA IteratorRemoveInv == ASSUME IInv, IteratorRemove PROVE IInv'
  <1>1. CASE h' = h  BY <1>1 DEF IInv
  <1>2. CASE h' # h
    <2>1. PICK kept : h' = [h EXCEPT !.table[itr.index] = kept, !.entrycount = @ - 1]
      BY <1>2 DEF IteratorRemove, Lost
    <2> DEFINE t == [h.table EXCEPT ![itr.index] = kept]
    <2>2. h' = Altered(h, t, h.entrycount - 1)
      BY <2>1 DEF IInv, Sized, Fields, Altered
    <2> HIDE DEF t
    <2> QED  BY <2>2, TakenInv
  <1> QED  BY <1>1, <1>2

LEMMA Invariant == Spec => []IInv
  <1>1. Init => IInv  BY CreateSized DEF Init, IInv
  <1>2. ASSUME IInv, [Next]_vars PROVE IInv'
    <2>1. CASE \E o \in Objects : Insert(o)  BY <1>2, <2>1, InsertInv
    <2>2. CASE \E name \in Names : RemoveKey(name)  BY <1>2, <2>2, RemoveKeyInv
    <2>3. CASE IteratorRemove  BY <1>2, <2>3, IteratorRemoveInv
    <2>4. CASE UNCHANGED h  BY <1>2, <2>4 DEF IInv
    <2> QED
      BY <1>2, <2>1, <2>2, <2>3, <2>4
         DEF Next, IteratorSearch, Iterator, IterAdvance, Destroy, Lost, Broken, vars
  <1> QED  BY <1>1, <1>2, PTL DEF Spec

\* The table expands in time: its load is within the limit of its length until the
\* primes end, also when an expansion finds no memory (hashtable.c:138-209, 219-253).
THEOREM LoadIsBounded == Spec => []LoadBounded
  <1>1. IInv => LoadBounded  BY DEF IInv, Bounded, LoadBounded
  <1> QED  BY <1>1, Invariant, PTL

-----------------------------------------------------------------------------
(* The chains of a table                                                    *)

\* All entries of the chains t.
Of(t) == UNION {ToSet(t[i]) : i \in DOMAIN t}

\* n chains; no entry is twice in one, or in two.
Tabled(t, n) ==
  /\ t \in [0 .. n - 1 -> Seq(Objects)]
  /\ \A i \in 0 .. n - 1 : Distinct(t[i])
  /\ \A i, j \in 0 .. n - 1 : i # j => ToSet(t[i]) \cap ToSet(t[j]) = {}

LEMMA ChainOf ==
  ASSUME NEW n \in Nat, NEW t, Tabled(t, n), NEW i \in 0 .. n - 1
  PROVE  /\ i \in DOMAIN t /\ t[i] \in Seq(Objects) /\ Distinct(t[i])
         /\ ToSet(t[i]) \subseteq Of(t) /\ ToSet(t[i]) \subseteq Objects
  <1>1. i \in DOMAIN t /\ t[i] \in Seq(Objects) /\ Distinct(t[i])  BY DEF Tabled
  <1>2. ToSet(t[i]) \subseteq Of(t)  BY <1>1 DEF Of
  <1>3. ToSet(t[i]) \subseteq Objects
    <2>1. PICK s \in Seq(Objects) : s = t[i]  BY <1>1
    <2> QED  BY Zenon, <2>1, ElementsOf
  <1> QED  BY <1>1, <1>2, <1>3

LEMMA OfTable ==
  ASSUME NEW n \in Nat, NEW t, Tabled(t, n)
  PROVE  /\ \A o : o \in Of(t) <=> \E i \in 0 .. n - 1 : o \in ToSet(t[i])
         /\ Of(t) \subseteq Objects
  <1>1. DOMAIN t = 0 .. n - 1  BY DEF Tabled
  <1>2. \A o : o \in Of(t) <=> \E i \in 0 .. n - 1 : o \in ToSet(t[i])  BY <1>1 DEF Of
  <1>3. \A i \in 0 .. n - 1 : ToSet(t[i]) \subseteq Objects  BY ChainOf
  <1> QED  BY <1>2, <1>3

\* Chains(g), one chain after the other, is without repetition.
LEMMA ChainsAre ==
  ASSUME NEW n \in Nat, NEW g, Tabled(g.table, n)
  PROVE  /\ Chains(g) \in Seq(Objects) /\ Distinct(Chains(g))
         /\ ToSet(Chains(g)) = Of(g.table)
         /\ IsFiniteSet(Of(g.table)) /\ Len(Chains(g)) = Cardinality(Of(g.table))
  <1>1. PICK t : t = g.table  OBVIOUS
  <1>2. Tabled(t, n) /\ DOMAIN t = 0 .. n - 1  BY <1>1 DEF Tabled
  <1>3. Length(g) = n
    <2>1. 0 \in Int /\ n - 1 \in Int  OBVIOUS
    <2>2. Cardinality(0 .. n - 1) = IF 0 > n - 1 THEN 0 ELSE (n - 1) - 0 + 1
      BY <2>1, FS_Interval
    <2>3. Cardinality(0 .. n - 1) = n  BY <2>2
    <2> QED  BY <1>1, <1>2, <2>3 DEF Length
  <1> DEFINE seqs == [j \in 1 .. n |-> t[j - 1]]
  <1>4. Chains(g) = FlattenSeq(seqs)  BY <1>1, <1>3 DEF Chains
  <1>5. \A j \in 1 .. n : j - 1 \in 0 .. n - 1  OBVIOUS
  <1>6. seqs \in Seq(Seq(Objects)) /\ Len(seqs) = n
    <2>1. \A j \in 1 .. n : t[j - 1] \in Seq(Objects)  BY <1>2, <1>5, ChainOf
    <2>2. seqs \in [1 .. n -> Seq(Objects)]  BY <2>1
    <2> HIDE DEF seqs
    <2> QED  BY <2>2
  <1>7. \A j \in 1 .. n : seqs[j] = t[j - 1]  OBVIOUS
  <1> HIDE DEF seqs
  <1>8. \A j \in 1 .. n : Distinct(seqs[j])  BY <1>2, <1>5, <1>7 DEF Tabled
  <1>9. \A j, k \in 1 .. n : j # k => ToSet(seqs[j]) \cap ToSet(seqs[k]) = {}
    <2>1. SUFFICES ASSUME NEW j \in 1 .. n, NEW k \in 1 .. n, j # k
                   PROVE  ToSet(seqs[j]) \cap ToSet(seqs[k]) = {}
      OBVIOUS
    <2>2. j - 1 # k - 1  BY <2>1
    <2> QED  BY <1>2, <1>5, <1>7, <2>2 DEF Tabled
  <1>10. PICK c : c = FlattenSeq(seqs)  OBVIOUS
  <1>11. /\ c \in Seq(Objects) /\ Distinct(c)
         /\ ToSet(c) = UNION {ToSet(seqs[k]) : k \in 1 .. n}
    <2>1. /\ FlattenSeq(seqs) \in Seq(Objects) /\ Distinct(FlattenSeq(seqs))
          /\ ToSet(FlattenSeq(seqs)) = UNION {ToSet(seqs[k]) : k \in 1 .. Len(seqs)}
      BY <1>6, <1>8, <1>9, FlattenDistinct
    <2> QED  BY <1>6, <1>10, <2>1
  <1>12. ToSet(c) = Of(t)
    <2>1. \A i \in 0 .. n - 1 : i + 1 \in 1 .. n /\ (i + 1) - 1 = i  OBVIOUS
    <2>2. ASSUME NEW o, NEW i \in 0 .. n - 1, o \in ToSet(t[i])
          PROVE  \E k \in 1 .. n : o \in ToSet(seqs[k])
      <3>1. o \in ToSet(seqs[i + 1])  BY <1>7, <2>1, <2>2
      <3> QED  BY <2>1, <3>1
    <2>3. \A o : o \in Of(t) <=> \E i \in 0 .. n - 1 : o \in ToSet(t[i])  BY <1>2, OfTable
    <2>4. \A k \in 1 .. n : \A o \in ToSet(seqs[k]) : o \in Of(t)  BY <1>5, <1>7, <2>3
    <2> QED  BY <1>11, <2>2, <2>3, <2>4
  <1>13. IsFiniteSet(ToSet(c)) /\ Cardinality(ToSet(c)) = Len(c)
    BY Zenon, <1>11, DistinctCount
  <1> QED  BY <1>1, <1>4, <1>10, <1>11, <1>12, <1>13

\* An entry in front of a chain, which no chain has.
HasNew(u, t, n, i, o) ==
  /\ Tabled(u, n) /\ Of(u) = Of(t) \cup {o}
  /\ \A j \in 0 .. n - 1 : ToSet(u[j]) = IF j = i THEN ToSet(t[j]) \cup {o} ELSE ToSet(t[j])

LEMMA PutInTable ==
  ASSUME NEW n \in Nat, NEW t, Tabled(t, n), NEW i \in 0 .. n - 1,
         NEW o \in Objects, o \notin Of(t)
  PROVE  HasNew([t EXCEPT ![i] = <<o>> \o @], t, n, i, o)
  <1>1. t[i] \in Seq(Objects) /\ Distinct(t[i]) /\ o \notin ToSet(t[i])  BY ChainOf
  <1>2. PICK s \in Seq(Objects) : s = t[i]  BY <1>1
  <1>3. PICK r \in Seq(Objects) : r = <<o>> \o s /\ Distinct(r) /\ ToSet(r) = ToSet(s) \cup {o}
    BY <1>1, <1>2, InFront
  <1>4. PICK u : u = [t EXCEPT ![i] = <<o>> \o @]  OBVIOUS
  <1>5. u = [t EXCEPT ![i] = r]  BY <1>2, <1>3, <1>4
  <1>6. /\ u \in [0 .. n - 1 -> Seq(Objects)]
        /\ \A j \in 0 .. n - 1 : u[j] = IF j = i THEN r ELSE t[j]
    BY <1>5 DEF Tabled
  <1>7. \A j \in 0 .. n - 1 :
          ToSet(u[j]) = IF j = i THEN ToSet(t[j]) \cup {o} ELSE ToSet(t[j])
    BY <1>2, <1>3, <1>6
  <1>8. Tabled(u, n)
    <2>1. \A j \in 0 .. n - 1 : Distinct(u[j])  BY <1>3, <1>6 DEF Tabled
    <2>2. \A j \in 0 .. n - 1 : o \notin ToSet(t[j])  BY ChainOf
    <2>3. \A j, k \in 0 .. n - 1 : j # k => ToSet(u[j]) \cap ToSet(u[k]) = {}
      BY <1>7, <2>2 DEF Tabled
    <2> QED  BY <1>6, <2>1, <2>3 DEF Tabled
  <1>9. Of(u) = Of(t) \cup {o}
    <2>1. \A x : x \in Of(u) <=> \E j \in 0 .. n - 1 : x \in ToSet(u[j])  BY <1>8, OfTable
    <2>2. \A x : x \in Of(t) <=> \E j \in 0 .. n - 1 : x \in ToSet(t[j])  BY OfTable
    <2> QED  BY <1>7, <2>1, <2>2
  <1> QED  BY Zenon, <1>4, <1>7, <1>8, <1>9 DEF HasNew

\* A chain that loses its k-th entry.
LacksOne(u, t, n, i, k, r) ==
  /\ Tabled(u, n) /\ Of(u) = Of(t) \ {t[i][k]} /\ t[i][k] \in Of(t)
  /\ \A j \in 0 .. n - 1 : u[j] = IF j = i THEN r ELSE t[j]
  /\ r \in Seq(Objects) /\ Skips(r, t[i], k, Len(t[i])) /\ Len(r) = Len(t[i]) - 1
  /\ ToSet(r) = ToSet(t[i]) \ {t[i][k]}

LEMMA TakeFromTable ==
  ASSUME NEW n \in Nat, NEW t, Tabled(t, n), NEW i \in 0 .. n - 1,
         NEW k \in 1 .. Len(t[i]), NEW r, CutAt(r, t[i], k)
  PROVE  LacksOne([t EXCEPT ![i] = r], t, n, i, k, r)
  <1>1. PICK s \in Seq(Objects) : s = t[i]  BY ChainOf
  <1>2. Distinct(s) /\ k \in 1 .. Len(s) /\ CutAt(r, s, k)  BY <1>1, ChainOf
  <1>3. /\ r \in Seq(Objects) /\ Distinct(r) /\ Len(r) = Len(s) - 1
        /\ Skips(r, s, k, Len(s))
        /\ ToSet(r) = ToSet(s) \ {s[k]}
    BY Zenon, <1>2, CutOut
  <1>4. s[k] \in ToSet(s)  BY Zenon, <1>2, ElementsOf
  <1>5. PICK u : u = [t EXCEPT ![i] = r]  OBVIOUS
  <1>6. /\ u \in [0 .. n - 1 -> Seq(Objects)]
        /\ \A j \in 0 .. n - 1 : u[j] = IF j = i THEN r ELSE t[j]
    BY <1>3, <1>5 DEF Tabled
  <1>7. \A j \in 0 .. n - 1 : j # i => s[k] \notin ToSet(t[j])  BY <1>1, <1>4 DEF Tabled
  <1>8. \A j \in 0 .. n - 1 : ToSet(u[j]) = ToSet(t[j]) \ {s[k]}  BY <1>1, <1>3, <1>6, <1>7
  <1>9. Tabled(u, n)
    <2>1. \A j \in 0 .. n - 1 : Distinct(u[j])
      <3>1. \A j \in 0 .. n - 1 : Distinct(t[j])  BY DEF Tabled
      <3>2. Distinct(r)  BY <1>3
      <3>3. ASSUME NEW j \in 0 .. n - 1 PROVE Distinct(u[j])
        <4>1. CASE j = i
          <5>1. u[j] = r  BY <1>6, <4>1
          <5> QED  BY Zenon, <3>2, <5>1
        <4>2. CASE j # i
          <5>1. u[j] = t[j]  BY <1>6, <4>2
          <5> QED  BY Zenon, <3>1, <5>1
        <4> QED  BY <4>1, <4>2
      <3> QED  BY Zenon, <3>3
    <2>2. \A j, l \in 0 .. n - 1 : j # l => ToSet(u[j]) \cap ToSet(u[l]) = {}
      BY <1>8 DEF Tabled
    <2> QED  BY <1>6, <2>1, <2>2 DEF Tabled
  <1>10. Of(u) = Of(t) \ {s[k]}
    <2>1. \A x : x \in Of(u) <=> \E j \in 0 .. n - 1 : x \in ToSet(u[j])  BY <1>9, OfTable
    <2>2. \A x : x \in Of(t) <=> \E j \in 0 .. n - 1 : x \in ToSet(t[j])  BY OfTable
    <2>3. \A x : x \in Of(u) <=> x \in Of(t) /\ x # s[k]
      <3>1. ASSUME NEW x, NEW j \in 0 .. n - 1
            PROVE  x \in ToSet(u[j]) <=> x \in ToSet(t[j]) /\ x # s[k]
        <4>1. ToSet(u[j]) = ToSet(t[j]) \ {s[k]}  BY <1>8
        <4> QED  BY Zenon, <4>1
      <3> QED  BY Zenon, <2>1, <2>2, <3>1
    <2> QED  BY Zenon, <2>3
  <1>11. s[k] \in Of(t)  BY <1>1, <1>4, ChainOf
  <1> QED  BY Zenon, <1>1, <1>3, <1>5, <1>6, <1>9, <1>10, <1>11 DEF LacksOne

-----------------------------------------------------------------------------
(* The search in a chain                                                    *)

\* The least of some places exists.
LEMMA LeastPlace ==
  ASSUME NEW T, T \subseteq Nat, T # {}
  PROVE  Min(T) \in T /\ \A y \in T : Min(T) <= y
  <1>1. PICK x \in T : \A y \in T : ~ (<<y, x>> \in OpToRel(<, Nat))
    BY WFMin, NatLessThanWellFounded
  <1>2. ASSUME NEW y \in T PROVE x <= y
    <2>1. x \in Nat /\ y \in Nat  OBVIOUS
    <2>2. ~ (<<y, x>> \in {z \in Nat \X Nat : z[1] < z[2]})  BY <1>1 DEF OpToRel
    <2>3. ~ (y < x)  BY <2>1, <2>2
    <2> QED  BY <2>1, <2>3
  <1>3. \E z \in T : \A y \in T : z <= y  BY <1>2
  <1> QED  BY <1>3 DEF Min

\* FirstOf finds a name exactly when an entry has it.
LEMMA FirstOfIs ==
  ASSUME NEW c \in Seq(Objects), NEW name
  PROVE  /\ FirstOf(c, name) = None <=> \A o \in ToSet(c) : NameOf[o] # name
         /\ FirstOf(c, name) # None =>
              \E k \in 1 .. Len(c) : FirstOf(c, name) = c[k] /\ NameOf[c[k]] = name
  <1> DEFINE T == {k \in DOMAIN c : NameOf[c[k]] = name}
  <1>1. PICK n \in Nat : n = Len(c) /\ DOMAIN c = 1 .. n  BY LenProperties
  <1>2. \A x : x \in ToSet(c) <=> \E k \in 1 .. n : c[k] = x  BY Zenon, <1>1, ElementsOf
  <1>3. \A k \in 1 .. n : c[k] \in Objects  BY <1>1, ElementOfSeq
  <1>4. T \subseteq Nat /\ \A k : k \in T <=> k \in 1 .. n /\ NameOf[c[k]] = name  BY <1>1
  <1>5. FirstOf(c, name) = IF T = {} THEN None ELSE c[Min(T)]  BY Zenon DEF FirstOf
  <1>6. T = {} <=> \A o \in ToSet(c) : NameOf[o] # name
    <2> HIDE DEF T
    <2> QED  BY Zenon, <1>2, <1>4
  <1>7. CASE T = {}  BY <1>5, <1>6, <1>7
  <1>8. CASE T # {}
    <2>1. Min(T) \in T
      <3> HIDE DEF T
      <3> QED  BY <1>4, <1>8, LeastPlace
    <2> HIDE DEF T
    <2>2. PICK k \in 1 .. n : k = Min(T) /\ NameOf[c[k]] = name  BY <1>4, <2>1
    <2>3. FirstOf(c, name) = c[k] /\ c[k] # None
      <3>1. c[k] \in Objects  BY <1>3
      <3> QED  BY <1>5, <1>8, <2>2, <3>1, ObjectsAssumption
    <2> QED  BY <1>1, <1>6, <1>8, <2>2, <2>3
  <1> QED  BY <1>7, <1>8

\* Place finds the only place of an entry.
LEMMA PlaceIs ==
  ASSUME NEW c \in Seq(Objects), Distinct(c), NEW k \in 1 .. Len(c)
  PROVE  Place(c, c[k]) = k
  <1> DEFINE T == {i \in 1 .. Len(c) : c[i] = c[k]}
  <1>1. T = {k}  BY DEF Distinct
  <1>2. Place(c, c[k]) = IF T # {} THEN Min(T) ELSE 0  BY Zenon DEF Place, SelectInSeq
  <1>3. k \in Nat
    <2>1. Len(c) \in Nat  BY LenProperties
    <2> QED  BY <2>1
  <1> HIDE DEF T
  <1>4. Min(T) \in T  BY <1>1, <1>3, LeastPlace
  <1> QED  BY <1>1, <1>2, <1>4

LEMMA WithoutIs ==
  ASSUME NEW c \in Seq(Objects), Distinct(c), NEW k \in 1 .. Len(c)
  PROVE  CutAt(Without(c, c[k]), c, k)
  BY Zenon, PlaceIs DEF Without, Behind, CutAt

-----------------------------------------------------------------------------
(* Expansion                                                                *)

Placement(t, n) ==
  \A i \in 0 .. n - 1 : \A o \in ToSet(t[i]) : HashOf[NameOf[o]] % n = i

LEMMA SlotType ==
  ASSUME NEW name \in Names, NEW n \in Nat \ {0}
  PROVE  HashOf[name] % n \in 0 .. n - 1
  <1>1. HashOf[name] \in Nat  BY ObjectsAssumption
  <1> QED  BY <1>1

LEMMA NameType == ASSUME NEW o \in Objects PROVE NameOf[o] \in Names
  BY ObjectsAssumption

\* A table the first k elements of the sequence c have been put in.
Filled(t, n, c, k) ==
  /\ Tabled(t, n) /\ Placement(t, n)
  /\ \A o : o \in Of(t) <=> \E l \in 1 .. k : c[l] = o

LEMMA FillOne ==
  ASSUME NEW n \in Nat \ {0}, NEW c \in Seq(Objects), Distinct(c), NEW k \in Nat, k < Len(c),
         NEW t, Filled(t, n, c, k)
  PROVE  Filled([t EXCEPT ![HashOf[NameOf[c[k + 1]]] % n] = <<c[k + 1]>> \o @], n, c, k + 1)
  <1>1. PICK m \in Nat : m = Len(c)  BY LenProperties
  <1>2. k + 1 \in 1 .. m  BY <1>1
  <1>3. PICK o \in Objects : o = c[k + 1]  BY <1>1, <1>2, ElementOfSeq
  <1>4. PICK i \in 0 .. n - 1 : i = HashOf[NameOf[o]] % n  BY SlotType, NameType
  <1>5. Tabled(t, n) /\ Placement(t, n) /\ \A x : x \in Of(t) <=> \E l \in 1 .. k : c[l] = x
    BY DEF Filled
  <1>6. o \notin Of(t)
    <2>1. \A l \in 1 .. k : l \in 1 .. m /\ l # k + 1  BY <1>1
    <2>2. \A l \in 1 .. k : c[l] # c[k + 1]  BY <1>1, <1>2, <2>1 DEF Distinct
    <2> QED  BY Zenon, <1>3, <1>5, <2>2
  <1>7. PICK u : u = [t EXCEPT ![i] = <<o>> \o @]  OBVIOUS
  <1>8. /\ Tabled(u, n) /\ Of(u) = Of(t) \cup {o}
        /\ \A j \in 0 .. n - 1 :
             ToSet(u[j]) = IF j = i THEN ToSet(t[j]) \cup {o} ELSE ToSet(t[j])
    <2>1. n \in Nat  OBVIOUS
    <2>2. HasNew([t EXCEPT ![i] = <<o>> \o @], t, n, i, o)  BY Zenon, <1>5, <1>6, <2>1, PutInTable
    <2> QED  BY Zenon, <1>7, <2>2 DEF HasNew
  <1>9. Placement(u, n)
    <2>1. ASSUME NEW j \in 0 .. n - 1, NEW x \in ToSet(u[j]) PROVE HashOf[NameOf[x]] % n = j
      <3>1. CASE x \in ToSet(t[j])  BY Zenon, <1>5, <3>1 DEF Placement
      <3>2. CASE x \notin ToSet(t[j])
        <4>1. j = i /\ x = o
          <5>1. ToSet(u[j]) = IF j = i THEN ToSet(t[j]) \cup {o} ELSE ToSet(t[j])  BY Zenon, <1>8
          <5> QED  BY Zenon, <2>1, <3>2, <5>1
        <4> QED  BY Zenon, <1>4, <4>1
      <3> QED  BY <3>1, <3>2
    <2> QED  BY Zenon, <2>1 DEF Placement
  <1>10. \A x : x \in Of(u) <=> \E l \in 1 .. k + 1 : c[l] = x
    <2>1. \A l : l \in 1 .. k + 1 <=> l \in 1 .. k \/ l = k + 1  OBVIOUS
    <2>2. \A x : x \in Of(u) <=> x \in Of(t) \/ x = o  BY Zenon, <1>8
    <2> QED  BY Zenon, <1>3, <1>5, <2>1, <2>2
  <1>11. Filled(u, n, c, k + 1)  BY Zenon, <1>8, <1>9, <1>10 DEF Filled
  <1> QED  BY Zenon, <1>3, <1>4, <1>7, <1>11

\* The expanded table holds the same entries, each in the chain its hash value names.
LEMMA RehashedIs ==
  ASSUME NEW p \in Nat, NEW g, Tabled(g.table, p), NEW n \in Nat \ {0}
  PROVE  /\ Tabled(Rehashed(g, n), n) /\ Placement(Rehashed(g, n), n)
         /\ Of(Rehashed(g, n)) = Of(g.table)
  <1> DEFINE c == Chains(g)
             m == Len(c)
             W == [0 .. n - 1 -> Seq(Objects)]
             none == [j \in 0 .. n - 1 |-> <<>>]
             Put(w, k) == [w EXCEPT ![HashOf[NameOf[c[k]]] % n] = <<c[k]>> \o @]
             step == [k \in Nat |-> [w \in W |-> IF k \in 1 .. m THEN Put(w, k) ELSE w]]
             P(f) == f = [k \in 0 .. m |-> IF k = 0 THEN none ELSE Put(f[k - 1], k)]
  <1>1. /\ c \in Seq(Objects) /\ Distinct(c) /\ ToSet(c) = Of(g.table) /\ m \in Nat
    <2>1. c \in Seq(Objects) /\ Distinct(c) /\ ToSet(c) = Of(g.table)  BY ChainsAre
    <2> HIDE DEF c
    <2> QED  BY <2>1, LenProperties
  <1>2. Rehashed(g, n) = (CHOOSE f : P(f))[m]  BY Zenon DEF Rehashed
  <1> HIDE DEF c, m
  <1>3. none \in W
    <2>1. <<>> \in Seq(Objects)  BY EmptySeq
    <2> QED  BY <2>1
  <1>4. ASSUME NEW k \in 1 .. m, NEW w \in W PROVE Put(w, k) \in W
    <2>1. c[k] \in Objects  BY Zenon, <1>1, ElementOfSeq DEF m
    <2>2. PICK i \in 0 .. n - 1 : i = HashOf[NameOf[c[k]]] % n
      <3>1. PICK name \in Names : name = NameOf[c[k]]  BY <2>1, NameType
      <3>2. HashOf[name] % n \in 0 .. n - 1  BY SlotType
      <3> QED  BY Zenon, <3>1, <3>2
    <2>3. <<c[k]>> \o w[i] \in Seq(Objects)
      <3>1. PICK s \in Seq(Objects) : s = w[i]  OBVIOUS
      <3>2. <<c[k]>> \o s \in Seq(Objects)  BY Zenon, <2>1, ConsType
      <3> QED  BY Zenon, <3>1, <3>2
    <2>4. Put(w, k) = [w EXCEPT ![i] = <<c[k]>> \o w[i]]  BY <2>2
    <2> HIDE DEF Put
    <2> QED  BY <2>3, <2>4
  <1>5. step \in [Nat -> [W -> W]]
    <2> HIDE DEF Put, W
    <2> QED  BY <1>4
  <1>6. \E f : P(f)
    <2>1. PICK f \in [0 .. m -> W] : Stepped(f, none, step, m)
      <3> HIDE DEF none, step, W
      <3> QED  BY Zenon, <1>1, <1>3, <1>5, Recursion
    <2>2. f[0] = none /\ \A k \in 1 .. m : f[k] = step[k][f[k - 1]]
      <3> HIDE DEF none, step
      <3> QED  BY Zenon, <2>1 DEF Stepped
    <2>3. ASSUME NEW k \in 0 .. m PROVE f[k] = IF k = 0 THEN none ELSE Put(f[k - 1], k)
      <3>1. CASE k = 0
        <4> HIDE DEF none, Put
        <4> QED  BY <2>2, <3>1
      <3>2. CASE k # 0
        <4>1. k \in 1 .. m /\ k \in Nat /\ k - 1 \in 0 .. m  BY <1>1, <3>2
        <4>2. f[k - 1] \in W  BY <2>1, <4>1
        <4>3. step[k][f[k - 1]] = Put(f[k - 1], k)
          <5> HIDE DEF Put, W
          <5> QED  BY <4>1, <4>2
        <4> HIDE DEF Put, step, none
        <4> QED  BY <2>2, <3>2, <4>1, <4>3
      <3> QED  BY <3>1, <3>2
    <2> HIDE DEF none, Put, W
    <2>4. P(f)  BY <2>1, <2>3
    <2> QED  BY Zenon, <2>4
  <1>7. PICK f : P(f) /\ Rehashed(g, n) = f[m]
    <2> HIDE DEF P
    <2> QED  BY Zenon, <1>2, <1>6
  <1>8. f[0] = none /\ \A k \in 1 .. m : f[k] = Put(f[k - 1], k)
    <2> HIDE DEF none, Put
    <2> QED  BY <1>1, <1>7
  <1> DEFINE S == {k \in 0 .. m : Filled(f[k], n, c, k)}
  <1>9. 0 \in S
    <2>1. none \in [0 .. n - 1 -> Seq(Objects)] /\ \A i \in 0 .. n - 1 : none[i] = <<>>  BY <1>3
    <2>2. Distinct(<<>>) /\ ToSet(<<>>) = {}
      <3>1. <<>> \in Seq(Objects) /\ Len(<<>>) = 0  BY EmptySeq
      <3>2. 1 .. 0 = {}  OBVIOUS
      <3>3. \A x : x \in ToSet(<<>>) <=> \E i \in 1 .. Len(<<>>) : <<>>[i] = x
        BY Zenon, <3>1, ElementsOf
      <3>4. Distinct(<<>>)  BY <3>1, <3>2 DEF Distinct
      <3> QED  BY <3>1, <3>2, <3>3, <3>4
    <2> HIDE DEF none
    <2>3. \A i \in 0 .. n - 1 : Distinct(none[i]) /\ ToSet(none[i]) = {}  BY Zenon, <2>1, <2>2
    <2>4. Tabled(none, n)  BY <2>1, <2>3 DEF Tabled
    <2>5. Placement(none, n)  BY <2>3 DEF Placement
    <2>6. \A o : o \in Of(none) <=> \E l \in 1 .. 0 : c[l] = o
      <3>1. \A o : o \in Of(none) <=> \E i \in 0 .. n - 1 : o \in ToSet(none[i])
        BY <2>4, OfTable
      <3>2. 1 .. 0 = {}  OBVIOUS
      <3> QED  BY <2>3, <3>1, <3>2
    <2>7. Filled(f[0], n, c, 0)  BY Zenon, <1>8, <2>4, <2>5, <2>6 DEF Filled
    <2> QED  BY <1>1, <2>7
  <1>10. ASSUME NEW k \in 0 .. m, k < m, k \in S PROVE k + 1 \in S
    <2>1. k \in Nat /\ k < Len(c) /\ k + 1 \in 1 .. m /\ k + 1 \in 0 .. m /\ (k + 1) - 1 = k
      BY <1>1, <1>10 DEF m
    <2>2. Filled(f[k], n, c, k)  BY <1>10
    <2>3. Filled(Put(f[k], k + 1), n, c, k + 1)  BY Zenon, <1>1, <2>1, <2>2, FillOne
    <2>4. f[k + 1] = Put(f[k], k + 1)
      <3> HIDE DEF Put
      <3> QED  BY Zenon, <1>8, <2>1
    <2>5. Filled(f[k + 1], n, c, k + 1)
      <3> HIDE DEF Put
      <3> QED  BY Zenon, <2>3, <2>4
    <2> QED  BY <2>1, <2>5
  <1>11. \A k \in 0 .. m : k \in S
    <2> HIDE DEF S
    <2> QED  BY <1>1, <1>9, <1>10, UpTo
  <1>12. Filled(f[m], n, c, m)
    <2>1. m \in 0 .. m  BY <1>1
    <2> HIDE DEF Put, none
    <2> QED  BY Zenon, <1>11, <2>1
  <1>13. Of(f[m]) = Of(g.table)
    <2>1. \A x : x \in ToSet(c) <=> \E l \in 1 .. m : c[l] = x  BY Zenon, <1>1, ElementsOf DEF m
    <2>2. \A x : x \in Of(f[m]) <=> x \in Of(g.table)
      <3>1. \A x : x \in Of(f[m]) <=> \E l \in 1 .. m : c[l] = x  BY Zenon, <1>12 DEF Filled
      <3> QED  BY Zenon, <1>1, <2>1, <3>1
    <2> QED  BY Zenon, <2>2
  <1> QED  BY Zenon, <1>7, <1>12, <1>13 DEF Filled

-----------------------------------------------------------------------------
(* The shape of the table                                                   *)

\* The array is as long as one of the primes so far; where no expansion failed it is as
\* long as tablelength, and every entry is in the chain of its hash value.
ShapedBy(g, j) ==
  /\ j \in 1 .. g.primeindex
  /\ Tabled(g.table, Primes[j]) /\ Primes[j] <= g.tablelength
  /\ Primes[j] = g.tablelength => Placement(g.table, Primes[j])

Shaped(g) == \E j \in Nat : ShapedBy(g, j)

Counted(g) == g.entrycount = Cardinality(Of(g.table))

LEMMA PrimeTypes ==
  ASSUME NEW g, Sized(g), NEW j \in 1 .. g.primeindex
  PROVE  /\ j \in DOMAIN Primes /\ Primes[j] \in Nat \ {0}
         /\ g.tablelength \in Nat \ {0} /\ g.primeindex \in Nat
  <1>1. PICK m \in Nat : m = Len(Primes) /\ DOMAIN Primes = 1 .. m
    BY SizesAssumption, LenProperties
  <1>2. g.primeindex \in 1 .. m  BY <1>1 DEF Sized
  <1>3. j \in 1 .. m  BY <1>2
  <1>4. \A k \in 1 .. m : Primes[k] \in Nat \ {0}  BY <1>1, SizesAssumption, ElementOfSeq
  <1>5. g.tablelength = Primes[g.primeindex]  BY DEF Sized
  <1> QED  BY <1>1, <1>2, <1>3, <1>4, <1>5

LEMMA WholeIs ==
  ASSUME NEW g, Sized(g), NEW j, ShapedBy(g, j)
  PROVE  /\ Whole(g) <=> Primes[j] = g.tablelength
         /\ DOMAIN g.table = 0 .. Primes[j] - 1 /\ Primes[j] \in Nat \ {0}
  <1>1. PICK n \in Nat \ {0}, l \in Nat \ {0} : n = Primes[j] /\ l = g.tablelength
    <2>1. j \in 1 .. g.primeindex  BY DEF ShapedBy
    <2>2. Primes[j] \in Nat \ {0} /\ g.tablelength \in Nat \ {0}  BY <2>1, PrimeTypes
    <2> QED  BY <2>2
  <1>2. DOMAIN g.table = 0 .. n - 1  BY <1>1 DEF ShapedBy, Tabled
  <1>3. 0 .. n - 1 = 0 .. l - 1 => n = l
    <2>1. \A i : i \in 0 .. n - 1 <=> i \in Int /\ 0 <= i /\ i <= n - 1  OBVIOUS
    <2>2. \A i : i \in 0 .. l - 1 <=> i \in Int /\ 0 <= i /\ i <= l - 1  OBVIOUS
    <2>3. n < l => n \in 0 .. l - 1 /\ n \notin 0 .. n - 1  BY <2>1, <2>2
    <2>4. l < n => l \in 0 .. n - 1 /\ l \notin 0 .. l - 1  BY <2>1, <2>2
    <2> QED  BY <2>3, <2>4
  <1> QED  BY <1>1, <1>2, <1>3 DEF Whole

LEMMA AlteredFields ==
  ASSUME NEW g, Sized(g), NEW t, NEW c \in Int
  PROVE  /\ Altered(g, t, c).table = t /\ Altered(g, t, c).entrycount = c
         /\ Altered(g, t, c).primeindex = g.primeindex
         /\ Altered(g, t, c).tablelength = g.tablelength
  BY DEF Sized, Fields, Altered

LEMMA AlteredShaped ==
  ASSUME NEW g, Sized(g), NEW j \in Nat, ShapedBy(g, j), NEW c \in Int,
         NEW t, Tabled(t, Primes[j]), Primes[j] = g.tablelength => Placement(t, Primes[j])
  PROVE  ShapedBy(Altered(g, t, c), j)
  <1>1. PICK u : u = Altered(g, t, c)  OBVIOUS
  <1>2. u.table = t /\ u.primeindex = g.primeindex /\ u.tablelength = g.tablelength
    <2>1. /\ Altered(g, t, c).table = t
          /\ Altered(g, t, c).primeindex = g.primeindex
          /\ Altered(g, t, c).tablelength = g.tablelength
      BY AlteredFields
    <2> QED  BY <1>1, <2>1
  <1>3. j \in 1 .. g.primeindex /\ Primes[j] <= g.tablelength  BY Zenon DEF ShapedBy
  <1>4. ShapedBy(u, j)  BY Zenon, <1>2, <1>3 DEF ShapedBy
  <1> QED  BY Zenon, <1>1, <1>4

\* A new table is empty.
LEMMA CreateShaped ==
  ASSUME NEW m \in MinSizes
  PROVE  Shaped(Create(m)) /\ Counted(Create(m)) /\ Of(Create(m).table) = {}
  <1>1. PICK j \in DOMAIN Primes : j = Min({i \in DOMAIN Primes : Primes[i] > m})
    BY FirstPrime
  <1>2. j \in Nat /\ j \in 1 .. j /\ Primes[j] \in Nat \ {0}
    <2>1. DOMAIN Primes = 1 .. Len(Primes) /\ Len(Primes) \in Nat
      BY SizesAssumption, LenProperties
    <2> QED  BY <2>1, SizesAssumption, ElementOfSeq
  <1>3. PICK n \in Nat \ {0} : n = Primes[j]  BY <1>2
  <1> DEFINE t == [i \in 0 .. n - 1 |-> <<>>]
  <1>4. /\ Create(m).table = t /\ Create(m).tablelength = n
        /\ Create(m).primeindex = j /\ Create(m).entrycount = 0
    BY <1>1, <1>3 DEF Create
  <1>5. <<>> \in Seq(Objects) /\ Distinct(<<>>) /\ ToSet(<<>>) = {}
    <2>1. <<>> \in Seq(Objects) /\ Len(<<>>) = 0  BY EmptySeq
    <2>2. 1 .. 0 = {}  OBVIOUS
    <2>3. \A x : x \in ToSet(<<>>) <=> \E i \in 1 .. Len(<<>>) : <<>>[i] = x
      BY Zenon, <2>1, ElementsOf
    <2>4. Distinct(<<>>)  BY <2>1, <2>2 DEF Distinct
    <2> QED  BY <2>1, <2>2, <2>3, <2>4
  <1>6. t \in [0 .. n - 1 -> Seq(Objects)] /\ \A i \in 0 .. n - 1 : t[i] = <<>>  BY <1>5
  <1> HIDE DEF t
  <1>7. \A i \in 0 .. n - 1 : Distinct(t[i]) /\ ToSet(t[i]) = {}  BY Zenon, <1>5, <1>6
  <1>8. Tabled(t, n) /\ Placement(t, n)  BY <1>6, <1>7 DEF Tabled, Placement
  <1>9. Of(t) = {}
    <2>1. \A o : o \in Of(t) <=> \E i \in 0 .. n - 1 : o \in ToSet(t[i])  BY <1>8, OfTable
    <2> QED  BY <1>7, <2>1
  <1>10. ShapedBy(Create(m), j)
    <2>1. n <= n  OBVIOUS
    <2> QED  BY Zenon, <1>2, <1>3, <1>4, <1>8, <2>1 DEF ShapedBy
  <1>11. Cardinality({}) = 0  BY FS_EmptySet
  <1>12. Shaped(Create(m))  BY Zenon, <1>2, <1>10 DEF Shaped
  <1>13. Counted(Create(m))  BY Zenon, <1>4, <1>9, <1>11 DEF Counted
  <1> QED  BY Zenon, <1>4, <1>9, <1>12, <1>13

\* A resized table has the same entries.  One that is not whole is not expanded; one
\* whose new array was not to be had is no longer whole.
LEMMA ExpandedShaped ==
  ASSUME NEW g, Sized(g), Shaped(g), NEW x \in Expanded(g), x.table = g.table \/ Whole(g)
  PROVE  /\ Sized(x) /\ Shaped(x) /\ Of(x.table) = Of(g.table) /\ x.entrycount = g.entrycount
         /\ Whole(x) => Whole(g)
  <1>1. CASE g.primeindex = Len(Primes)  BY <1>1 DEF Expanded
  <1>2. CASE g.primeindex # Len(Primes)
    <2>1. PICK j \in Nat : ShapedBy(g, j)  BY DEF Shaped
    <2>2. j \in 1 .. g.primeindex /\ Tabled(g.table, Primes[j]) /\ Primes[j] <= g.tablelength
      BY <2>1 DEF ShapedBy
    <2>3. PICK i \in Nat, n \in Nat \ {0}, l \in Nat \ {0} :
            i = g.primeindex /\ n = Primes[j] /\ l = g.tablelength
      BY <2>2, PrimeTypes
    <2>4. PICK size \in Nat \ {0} : size = Primes[i + 1] /\ l < size
      <3>1. PICK m \in Nat : m = Len(Primes) /\ DOMAIN Primes = 1 .. m
        BY SizesAssumption, LenProperties
      <3>2. i \in 1 .. m /\ i # m /\ l = Primes[i]  BY <1>2, <2>3, <3>1 DEF Sized
      <3>3. i + 1 \in 2 .. m /\ i + 1 \in 1 .. m /\ (i + 1) - 1 = i  BY <3>2
      <3>4. Primes[(i + 1) - 1] < Primes[i + 1]  BY <3>1, <3>3, SizesAssumption
      <3>5. Primes[i + 1] \in Nat \ {0}  BY <3>1, <3>3, SizesAssumption, ElementOfSeq
      <3> QED  BY <3>2, <3>3, <3>4, <3>5
    <2>5. PICK t : x = Resized(g, t) /\ (t = g.table \/ t = Rehashed(g, size))
      BY <1>2, <2>3, <2>4 DEF Expanded
    <2>6. Sized(x) /\ x.entrycount = g.entrycount  BY <1>2, <2>5, ResizedSized
    <2>7. x.table = t /\ x.tablelength = size /\ x.primeindex = i + 1
      BY <2>3, <2>4, <2>5 DEF Resized, Sized, Fields
    <2>8. CASE t = g.table
      <3>1. j \in 1 .. x.primeindex /\ n <= size /\ n # size  BY <2>2, <2>3, <2>4, <2>7
      <3>2. ShapedBy(x, j)  BY <2>2, <2>3, <2>7, <2>8, <3>1 DEF ShapedBy
      <3>3. ~ Whole(x)  BY <2>3, <2>6, <2>7, <3>1, <3>2, WholeIs
      <3> QED  BY Zenon, <2>6, <2>7, <2>8, <3>2, <3>3 DEF Shaped
    <2>9. CASE t # g.table
      <3>1. Whole(g) /\ t = Rehashed(g, size)  BY <2>5, <2>7, <2>9
      <3>2. Tabled(t, size) /\ Placement(t, size) /\ Of(t) = Of(g.table)
        <4>1. Tabled(g.table, n) /\ n \in Nat  BY <2>2, <2>3
        <4> QED  BY Zenon, <3>1, <4>1, RehashedIs
      <3>3. i + 1 \in Nat /\ i + 1 \in 1 .. x.primeindex /\ size <= size  BY <2>7
      <3>4. ShapedBy(x, i + 1)  BY Zenon, <2>4, <2>7, <3>2, <3>3 DEF ShapedBy
      <3> QED  BY Zenon, <2>6, <2>7, <3>1, <3>2, <3>3, <3>4 DEF Shaped
    <2> QED  BY <2>8, <2>9
  <1> QED  BY <1>1, <1>2

-----------------------------------------------------------------------------
(* One entry more, one entry less                                           *)

LEMMA PutShaped ==
  ASSUME NEW g, Sized(g), Shaped(g), NEW o \in Objects, o \notin Of(g.table),
         IndexFor(g, o) \in DOMAIN g.table
  PROVE  /\ Shaped(PutFirst(g, o)) /\ Of(PutFirst(g, o).table) = Of(g.table) \cup {o}
         /\ PutFirst(g, o).entrycount = g.entrycount + 1
  <1>1. PICK j \in Nat : ShapedBy(g, j)  BY DEF Shaped
  <1>2. PICK n \in Nat \ {0} : n = Primes[j] /\ DOMAIN g.table = 0 .. n - 1  BY <1>1, WholeIs
  <1>3. PICK i \in 0 .. n - 1 : i = IndexFor(g, o)  BY <1>2
  <1>4. PICK s : s = g.table  OBVIOUS
  <1>5. PICK t : t = [s EXCEPT ![i] = <<o>> \o @]  OBVIOUS
  <1>6. PICK c \in Int : c = g.entrycount + 1
    <2>1. g.entrycount + 1 \in Int  BY DEF Sized
    <2> QED  BY <2>1
  <1>7. PutFirst(g, o) = Altered(g, t, c)
    BY <1>3, <1>4, <1>5, <1>6 DEF PutFirst, Sized, Fields, Altered
  <1>8. Tabled(s, n) /\ n = Primes[j] /\ n \in Nat  BY <1>1, <1>2, <1>4 DEF ShapedBy
  <1>9. HasNew(t, s, n, i, o)  BY Zenon, <1>4, <1>5, <1>8, PutInTable
  <1>10. Tabled(t, n) /\ Of(t) = Of(s) \cup {o}  BY Zenon, <1>9 DEF HasNew
  <1>11. ASSUME n = g.tablelength PROVE Placement(t, n)
    <2>1. Placement(s, n)  BY Zenon, <1>1, <1>2, <1>4, <1>11 DEF ShapedBy
    <2>2. HashOf[NameOf[o]] % n = i  BY <1>3, <1>11 DEF IndexFor
    <2>3. ASSUME NEW k \in 0 .. n - 1, NEW x \in ToSet(t[k]) PROVE HashOf[NameOf[x]] % n = k
      <3>1. ToSet(t[k]) = IF k = i THEN ToSet(s[k]) \cup {o} ELSE ToSet(s[k])
        BY Zenon, <1>9 DEF HasNew
      <3>2. CASE x \in ToSet(s[k])  BY Zenon, <2>1, <3>2 DEF Placement
      <3>3. CASE x \notin ToSet(s[k])
        <4>1. k = i /\ x = o  BY Zenon, <2>3, <3>1, <3>3
        <4> QED  BY Zenon, <2>2, <4>1
      <3> QED  BY <3>2, <3>3
    <2> QED  BY Zenon, <2>3 DEF Placement
  <1>12. ShapedBy(Altered(g, t, c), j)  BY Zenon, <1>1, <1>8, <1>10, <1>11, AlteredShaped
  <1>13. Altered(g, t, c).table = t /\ Altered(g, t, c).entrycount = c  BY AlteredFields
  <1> QED  BY Zenon, <1>4, <1>6, <1>7, <1>10, <1>12, <1>13 DEF Shaped

LEMMA TakeShaped ==
  ASSUME NEW g, Sized(g), Shaped(g), NEW i \in DOMAIN g.table, NEW k \in 1 .. Len(g.table[i]),
         NEW r, CutAt(r, g.table[i], k), NEW c \in Int
  PROVE  /\ Shaped(Altered(g, [g.table EXCEPT ![i] = r], c))
         /\ Of([g.table EXCEPT ![i] = r]) = Of(g.table) \ {g.table[i][k]}
         /\ g.table[i][k] \in Of(g.table)
  <1>1. PICK j \in Nat : ShapedBy(g, j)  BY DEF Shaped
  <1>2. PICK n \in Nat \ {0} : n = Primes[j] /\ DOMAIN g.table = 0 .. n - 1  BY <1>1, WholeIs
  <1>3. PICK s : s = g.table  OBVIOUS
  <1>4. PICK t : t = [s EXCEPT ![i] = r]  OBVIOUS
  <1>5. Tabled(s, n) /\ n \in Nat /\ i \in 0 .. n - 1 /\ k \in 1 .. Len(s[i]) /\ CutAt(r, s[i], k)
    BY <1>1, <1>2, <1>3 DEF ShapedBy
  <1>6. LacksOne(t, s, n, i, k, r)  BY Zenon, <1>4, <1>5, TakeFromTable
  <1>7. Tabled(t, n) /\ Of(t) = Of(s) \ {s[i][k]} /\ s[i][k] \in Of(s)  BY Zenon, <1>6 DEF LacksOne
  <1>8. ASSUME n = g.tablelength PROVE Placement(t, n)
    <2>1. Placement(s, n)  BY Zenon, <1>1, <1>2, <1>3, <1>8 DEF ShapedBy
    <2>2. ASSUME NEW m \in 0 .. n - 1, NEW x \in ToSet(t[m]) PROVE x \in ToSet(s[m])
      <3>1. t[m] = IF m = i THEN r ELSE s[m]  BY Zenon, <1>6 DEF LacksOne
      <3>2. ToSet(r) = ToSet(s[i]) \ {s[i][k]}  BY Zenon, <1>6 DEF LacksOne
      <3>3. CASE m = i
        <4>1. x \in ToSet(r)  BY Zenon, <2>2, <3>1, <3>3
        <4> QED  BY Zenon, <3>2, <3>3, <4>1
      <3>4. CASE m # i  BY Zenon, <2>2, <3>1, <3>4
      <3> QED  BY <3>3, <3>4
    <2> QED  BY Zenon, <2>1, <2>2 DEF Placement
  <1>9. ShapedBy(Altered(g, t, c), j)  BY Zenon, <1>1, <1>2, <1>7, <1>8, AlteredShaped
  <1> QED  BY Zenon, <1>3, <1>4, <1>7, <1>9 DEF Shaped

-----------------------------------------------------------------------------
(* The positions of an iterator                                             *)

\* The entries of the chains from the j-th on, and those from place k of chain i on.
Rest(t, j) == UNION {ToSet(t[x]) : x \in {y \in DOMAIN t : y >= j}}
From(t, i, k) == {t[i][l] : l \in k .. Len(t[i])} \cup Rest(t, i + 1)

PositionAt(t, i, k) ==
  [e |-> t[i][k], parent |-> IF k = 1 THEN None ELSE t[i][k - 1], index |-> i]

Positioned(t, p, rest) ==
  \E i \in DOMAIN t : \E k \in 1 .. Len(t[i]) : p = PositionAt(t, i, k) /\ rest = From(t, i, k)

AtEnd(g) == [e |-> None, parent |-> None, index |-> g.tablelength]

LEMMA RestIs ==
  ASSUME NEW n \in Nat, NEW t, Tabled(t, n), NEW j \in Nat
  PROVE  \A o : o \in Rest(t, j) <=> \E x \in 0 .. n - 1 : j <= x /\ o \in ToSet(t[x])
  <1>1. DOMAIN t = 0 .. n - 1  BY DEF Tabled
  <1>2. \A x : x \in {y \in DOMAIN t : y >= j} <=> x \in 0 .. n - 1 /\ j <= x  BY <1>1
  <1>3. \A o : o \in Rest(t, j) <=> \E x \in {y \in DOMAIN t : y >= j} : o \in ToSet(t[x])
    BY Zenon DEF Rest
  <1> QED  BY Zenon, <1>2, <1>3

\* The head of the first chain from the j-th on that has one, or the end.
LEMMA HeadFromIs ==
  ASSUME NEW n \in Nat, NEW g, Tabled(g.table, n), NEW j \in Nat
  PROVE  \/ HeadFrom(g, j) = AtEnd(g) /\ Rest(g.table, j) = {}
         \/ Positioned(g.table, HeadFrom(g, j), Rest(g.table, j)) /\ HeadFrom(g, j).parent = None
  <1> DEFINE t == g.table
             full == {i \in DOMAIN t : i >= j /\ t[i] # <<>>}
  <1>1. DOMAIN t = 0 .. n - 1  BY DEF Tabled
  <1>2. \A i : i \in full <=> i \in 0 .. n - 1 /\ j <= i /\ t[i] # <<>>  BY <1>1
  <1>3. HeadFrom(g, j) = IF full = {}
                           THEN [e |-> None, parent |-> None, index |-> g.tablelength]
                           ELSE [e |-> Head(t[Min(full)]), parent |-> None, index |-> Min(full)]
    BY Zenon DEF HeadFrom
  <1> HIDE DEF full
  <1>4. \A o : o \in Rest(t, j) <=> \E x \in 0 .. n - 1 : j <= x /\ o \in ToSet(t[x])
    <2>1. PICK u : u = g.table  OBVIOUS
    <2> QED  BY Zenon, <2>1, RestIs
  <1>5. ToSet(<<>>) = {}
    <2>1. <<>> \in Seq(Objects) /\ Len(<<>>) = 0  BY EmptySeq
    <2>2. 1 .. 0 = {}  OBVIOUS
    <2>3. \A x : x \in ToSet(<<>>) <=> \E i \in 1 .. Len(<<>>) : <<>>[i] = x
      BY Zenon, <2>1, ElementsOf
    <2> QED  BY <2>1, <2>2, <2>3
  <1>6. CASE full = {}
    <2>1. HeadFrom(g, j) = AtEnd(g)  BY Zenon, <1>3, <1>6 DEF AtEnd
    <2>2. Rest(t, j) = {}
      <3>1. ASSUME NEW o \in Rest(t, j) PROVE FALSE
        <4>1. PICK x \in 0 .. n - 1 : j <= x /\ o \in ToSet(t[x])  BY Zenon, <1>4, <3>1
        <4>2. t[x] = <<>>  BY Zenon, <1>2, <1>6, <4>1
        <4> QED  BY Zenon, <1>5, <4>1, <4>2
      <3> QED  BY Zenon, <3>1
    <2> QED  BY Zenon, <2>1, <2>2
  <1>7. CASE full # {}
    <2>1. full \subseteq Nat
      <3>1. \A i \in 0 .. n - 1 : i \in Nat  OBVIOUS
      <3> QED  BY Zenon, <1>2, <3>1
    <2>2. Min(full) \in full /\ \A y \in full : Min(full) <= y  BY Zenon, <1>7, <2>1, LeastPlace
    <2>3. PICK i \in 0 .. n - 1 : i = Min(full) /\ j <= i /\ t[i] # <<>> /\ i \in DOMAIN t
      BY Zenon, <1>1, <1>2, <2>2
    <2>4. PICK s \in Seq(Objects) : s = t[i]  BY <2>3, ChainOf
    <2>5. PICK m \in Nat : m = Len(s)  BY LenProperties
    <2>6. 1 \in 1 .. m /\ Head(s) = s[1]
      <3>1. m \in Nat \ {0}  BY <2>3, <2>4, <2>5, EmptySeq
      <3>2. 1 \in 1 .. m  BY <3>1
      <3> QED  BY <2>4, <3>2 DEF Head
    <2>7. HeadFrom(g, j) = PositionAt(t, i, 1) /\ HeadFrom(g, j).parent = None
      <3>1. HeadFrom(g, j) = [e |-> Head(s), parent |-> None, index |-> i]
        BY Zenon, <1>3, <1>7, <2>3, <2>4
      <3>2. PositionAt(t, i, 1) = [e |-> s[1], parent |-> None, index |-> i]
        BY Zenon, <2>4 DEF PositionAt
      <3> HIDE DEF t
      <3> QED  BY <2>6, <3>1, <3>2
    <2>8. Rest(t, j) = From(t, i, 1)
      <3>1. \A x : x \in ToSet(s) <=> \E l \in 1 .. m : s[l] = x  BY Zenon, <2>5, ElementsOf
      <3>2. \A x : x \in From(t, i, 1) <=> x \in ToSet(s) \/ x \in Rest(t, i + 1)
        <4>1. From(t, i, 1) = {s[l] : l \in 1 .. m} \cup Rest(t, i + 1)
          BY Zenon, <2>4, <2>5 DEF From
        <4>2. \A x : x \in {s[l] : l \in 1 .. m} <=> \E l \in 1 .. m : s[l] = x  OBVIOUS
        <4> QED  BY Zenon, <3>1, <4>1, <4>2
      <3>3. \A o : o \in Rest(t, i + 1) <=> \E x \in 0 .. n - 1 : i + 1 <= x /\ o \in ToSet(t[x])
        <4>1. PICK u : u = g.table  OBVIOUS
        <4>2. i + 1 \in Nat  OBVIOUS
        <4> QED  BY Zenon, <4>1, <4>2, RestIs
      <3>4. ASSUME NEW x \in 0 .. n - 1, j <= x, NEW o \in ToSet(t[x])
            PROVE  x = i \/ i + 1 <= x
        <4>1. t[x] # <<>>  BY Zenon, <1>5, <3>4
        <4>2. i <= x  BY Zenon, <1>2, <2>2, <2>3, <3>4, <4>1
        <4> QED  BY <4>2
      <3>5. \A x \in 0 .. n - 1 : i + 1 <= x => j <= x  BY <2>3
      <3>6. \A o : o \in Rest(t, j) <=> o \in From(t, i, 1)
        <4>1. ASSUME NEW o, o \in Rest(t, j) PROVE o \in From(t, i, 1)
          BY Zenon, <1>4, <2>4, <3>2, <3>3, <3>4, <4>1
        <4>2. ASSUME NEW o, o \in From(t, i, 1) PROVE o \in Rest(t, j)
          BY Zenon, <1>4, <2>3, <2>4, <3>2, <3>3, <3>5, <4>2
        <4> QED  BY Zenon, <4>1, <4>2
      <3> QED  BY Zenon, <3>6
    <2> HIDE DEF t
    <2>9. Positioned(t, HeadFrom(g, j), Rest(t, j))
      <3>1. 1 \in 1 .. Len(t[i])  BY Zenon, <2>4, <2>5, <2>6
      <3> QED  BY Zenon, <2>3, <2>7, <2>8, <3>1 DEF Positioned
    <2> USE DEF t
    <2> QED  BY Zenon, <2>7, <2>9
  <1> QED  BY <1>6, <1>7

\* What is left when the entry at a position has been passed.
LeftBehind(rest, t, i, k) ==
  /\ k < Len(t[i]) => rest = From(t, i, k + 1)
  /\ ~ k < Len(t[i]) => rest = Rest(t, i + 1)

LEMMA Passed ==
  ASSUME NEW n \in Nat, NEW t, Tabled(t, n), NEW i \in 0 .. n - 1, NEW k \in 1 .. Len(t[i])
  PROVE  /\ t[i][k] \in From(t, i, k) /\ From(t, i, k) \subseteq Of(t)
         /\ LeftBehind(From(t, i, k) \ {t[i][k]}, t, i, k)
  <1>1. PICK s \in Seq(Objects) : s = t[i]  BY ChainOf
  <1>2. PICK m \in Nat : m = Len(s)  BY LenProperties
  <1>3. k \in 1 .. m /\ \A a, b \in 1 .. m : s[a] = s[b] => a = b
    <2>1. Distinct(s)  BY <1>1, ChainOf
    <2> QED  BY <1>1, <1>2, <2>1 DEF Distinct
  <1>4. \A l : \A x : x \in From(t, i, l) <=> (\E a \in l .. m : s[a] = x) \/ x \in Rest(t, i + 1)
    <2>1. \A l : From(t, i, l) = {s[a] : a \in l .. m} \cup Rest(t, i + 1)
      BY Zenon, <1>1, <1>2 DEF From
    <2>2. \A l : \A x : x \in {s[a] : a \in l .. m} <=> \E a \in l .. m : s[a] = x  BY Zenon
    <2> QED  BY Zenon, <2>1, <2>2
  <1>5. \A x : x \in ToSet(s) <=> \E l \in 1 .. m : s[l] = x  BY Zenon, <1>2, ElementsOf
  <1>6. \A o : o \in Rest(t, i + 1) <=> \E x \in 0 .. n - 1 : i + 1 <= x /\ o \in ToSet(t[x])
    <2>1. i + 1 \in Nat  OBVIOUS
    <2> QED  BY Zenon, <2>1, RestIs
  <1>7. \A o : o \in Of(t) <=> \E x \in 0 .. n - 1 : o \in ToSet(t[x])  BY Zenon, OfTable
  <1>8. s[k] \notin Rest(t, i + 1)
    <2>1. SUFFICES ASSUME NEW x \in 0 .. n - 1, i + 1 <= x, s[k] \in ToSet(t[x]) PROVE FALSE
      BY Zenon, <1>6
    <2>2. x # i  BY <2>1
    <2>3. s[k] \in ToSet(t[i])  BY Zenon, <1>1, <1>3, <1>5
    <2>4. ToSet(t[x]) \cap ToSet(t[i]) = {}  BY <2>2 DEF Tabled
    <2> QED  BY Zenon, <2>1, <2>3, <2>4
  <1>9. \A a : a \in k .. m => a \in 1 .. m /\ (a = k \/ a \in k + 1 .. m)  BY <1>3
  <1>10. \A a : a \in k + 1 .. m => a \in k .. m /\ a \in 1 .. m /\ a # k  BY <1>3
  <1>11. k \in k .. m  BY <1>3
  <1>12. s[k] \in From(t, i, k)  BY Zenon, <1>4, <1>11
  <1>13. From(t, i, k) \subseteq Of(t)
    <2>1. ASSUME NEW x, x \in From(t, i, k) PROVE x \in Of(t)
      <3>1. CASE \E a \in k .. m : s[a] = x
        <4>1. x \in ToSet(t[i])  BY Zenon, <1>1, <1>5, <1>9, <3>1
        <4> QED  BY Zenon, <1>7, <4>1
      <3>2. CASE x \in Rest(t, i + 1)  BY Zenon, <1>6, <1>7, <3>2
      <3> QED  BY Zenon, <1>4, <2>1, <3>1, <3>2
    <2> QED  BY Zenon, <2>1
  <1>14. \A x : x \in From(t, i, k) /\ x # s[k] <=>
                 (\E a \in k + 1 .. m : s[a] = x) \/ x \in Rest(t, i + 1)
    <2>1. ASSUME NEW x, x \in From(t, i, k), x # s[k]
          PROVE  (\E a \in k + 1 .. m : s[a] = x) \/ x \in Rest(t, i + 1)
      BY Zenon, <1>4, <1>9, <2>1
    <2>2. ASSUME NEW x, NEW a \in k + 1 .. m, s[a] = x PROVE x \in From(t, i, k) /\ x # s[k]
      <3>1. a \in k .. m /\ a \in 1 .. m /\ a # k  BY Zenon, <1>10
      <3>2. x # s[k]  BY Zenon, <1>3, <2>2, <3>1
      <3> QED  BY Zenon, <1>4, <2>2, <3>1, <3>2
    <2>3. ASSUME NEW x, x \in Rest(t, i + 1) PROVE x \in From(t, i, k) /\ x # s[k]
      BY Zenon, <1>4, <1>8, <2>3
    <2> QED  BY Zenon, <2>1, <2>2, <2>3
  <1>15. \A x : x \in From(t, i, k) \ {s[k]} <=> x \in From(t, i, k + 1)  BY Zenon, <1>4, <1>14
  <1>16. From(t, i, k) \ {s[k]} = From(t, i, k + 1)  BY Zenon, <1>15
  <1>17. ASSUME ~ k < m PROVE From(t, i, k) \ {s[k]} = Rest(t, i + 1)
    <2>1. \A a : a \notin k + 1 .. m  BY <1>3, <1>17
    <2>2. \A x : x \in From(t, i, k) \ {s[k]} <=> x \in Rest(t, i + 1)  BY Zenon, <1>14, <2>1
    <2> QED  BY Zenon, <2>2
  <1> QED  BY Zenon, <1>1, <1>2, <1>12, <1>13, <1>16, <1>17 DEF LeftBehind

IsAt(p, e, parent, index) == p = [e |-> e, parent |-> parent, index |-> index]

LEMMA StepOn ==
  ASSUME NEW p, NEW a, NEW q, NEW i, IsAt(p, a, q, i), NEW b, NEW d
  PROVE  IsAt([p EXCEPT !.parent = b, !.e = d], d, b, i)
  <1>1. [p EXCEPT !.parent = b] = [e |-> a, parent |-> b, index |-> i]  BY DEF IsAt
  <1>2. [[e |-> a, parent |-> b, index |-> i] EXCEPT !.e = d] = [e |-> d, parent |-> b, index |-> i]
    OBVIOUS
  <1>3. [p EXCEPT !.parent = b, !.e = d] = [[p EXCEPT !.parent = b] EXCEPT !.e = d]  OBVIOUS
  <1> QED  BY <1>1, <1>2, <1>3 DEF IsAt

\* hashtable_iterator_advance takes the entry behind, or the head of a later chain.
LEMMA BehindIs ==
  ASSUME NEW c \in Seq(Objects), Distinct(c), NEW k \in 1 .. Len(c)
  PROVE  /\ Behind(c, c[k]) = SubSeq(c, k + 1, Len(c))
         /\ k < Len(c) => Behind(c, c[k]) # <<>> /\ Head(Behind(c, c[k])) = c[k + 1]
         /\ ~ k < Len(c) => Behind(c, c[k]) = <<>>
  <1>1. PICK m \in Nat : m = Len(c)  BY LenProperties
  <1>2. Behind(c, c[k]) = SubSeq(c, k + 1, m)  BY Zenon, <1>1, PlaceIs DEF Behind
  <1>3. ASSUME k < m PROVE SubSeq(c, k + 1, m) # <<>> /\ Head(SubSeq(c, k + 1, m)) = c[k + 1]
    <2>1. k + 1 \in 1 .. m /\ m \in k + 1 .. m  BY <1>1, <1>3
    <2>2. Head(SubSeq(c, k + 1, m)) = c[k + 1]  BY Zenon, <1>1, <2>1, HeadTailOfSubSeq
    <2>3. SubSeq(c, k + 1, m) # <<>>
      <3>1. k + 1 \in Int /\ m \in Int /\ \A i \in k + 1 .. m : c[i] \in Objects
        <4>1. \A i \in k + 1 .. m : i \in 1 .. m  BY <1>1
        <4>2. \A i \in 1 .. m : c[i] \in Objects  BY Zenon, <1>1, ElementOfSeq
        <4> QED  BY <4>1, <4>2
      <3>2. Len(SubSeq(c, k + 1, m)) = IF k + 1 <= m THEN m - (k + 1) + 1 ELSE 0
        BY Zenon, <3>1, SubSeqProperties
      <3>3. Len(SubSeq(c, k + 1, m)) = m - k /\ m - k # 0  BY <1>1, <1>3, <3>2
      <3>4. Len(<<>>) = 0  BY EmptySeq
      <3> QED  BY Zenon, <3>3, <3>4
    <2> QED  BY <2>2, <2>3
  <1>4. ASSUME ~ k < m PROVE SubSeq(c, k + 1, m) = <<>>
    <2>1. k + 1 \in Int /\ m \in Int /\ m < k + 1  BY <1>1, <1>4
    <2> QED  BY Zenon, <2>1, SubSeqEmpty
  <1> QED  BY Zenon, <1>1, <1>2, <1>3, <1>4

AdvancesTo(x, g, c, k, i) ==
  /\ k < Len(c) => IsAt(x, c[k + 1], c[k], i)
  /\ ~ k < Len(c) => x = HeadFrom(g, i + 1)

LEMMA AdvancedIs ==
  ASSUME NEW c \in Seq(Objects), Distinct(c), NEW k \in 1 .. Len(c), NEW g,
         NEW p, NEW q, NEW i, IsAt(p, c[k], q, i)
  PROVE  AdvancesTo(Advanced(g, c, p), g, c, k, i)
  <1>1. p.e = c[k] /\ p.index = i  BY DEF IsAt
  <1>2. PICK b : b = Behind(c, c[k])  OBVIOUS
  <1>3. Advanced(g, c, p) = IF b # <<>> THEN [p EXCEPT !.parent = c[k], !.e = Head(b)]
                                        ELSE HeadFrom(g, i + 1)
    BY <1>1, <1>2 DEF Advanced
  <1>4. CASE k < Len(c)
    <2>1. b # <<>> /\ Head(b) = c[k + 1]  BY Zenon, <1>2, <1>4, BehindIs
    <2>2. IsAt([p EXCEPT !.parent = c[k], !.e = c[k + 1]], c[k + 1], c[k], i)  BY Zenon, StepOn
    <2> QED  BY Zenon, <1>3, <1>4, <2>1, <2>2 DEF AdvancesTo
  <1>5. CASE ~ k < Len(c)
    <2>1. b = <<>>  BY Zenon, <1>2, <1>5, BehindIs
    <2> QED  BY Zenon, <1>3, <1>5, <2>1 DEF AdvancesTo
  <1> QED  BY <1>4, <1>5

\* The positions behind a removed entry move up by one.
MovesUp(u, t, i, k) ==
  /\ Rest(u, i + 1) = Rest(t, i + 1)
  /\ k < Len(t[i]) =>
       /\ From(u, i, k) = From(t, i, k + 1) /\ k \in 1 .. Len(u[i])
       /\ PositionAt(u, i, k) = [PositionAt(t, i, k) EXCEPT !.e = t[i][k + 1]]

LEMMA MovedUp ==
  ASSUME NEW n \in Nat, NEW t, Tabled(t, n), NEW i \in 0 .. n - 1, NEW k \in 1 .. Len(t[i]),
         NEW r, NEW u, LacksOne(u, t, n, i, k, r)
  PROVE  MovesUp(u, t, i, k)
  <1>1. PICK s \in Seq(Objects) : s = t[i]  BY ChainOf
  <1>2. PICK m \in Nat : m = Len(s)  BY LenProperties
  <1>3. k \in 1 .. m  BY <1>1, <1>2
  <1>4. /\ Tabled(u, n) /\ \A j \in 0 .. n - 1 : u[j] = IF j = i THEN r ELSE t[j]
        /\ Skips(r, s, k, m) /\ Len(r) = m - 1
    BY Zenon, <1>1, <1>2 DEF LacksOne
  <1>5. u[i] = r  BY Zenon, <1>4
  <1>6. Rest(u, i + 1) = Rest(t, i + 1)
    <2>1. i + 1 \in Nat  OBVIOUS
    <2>2. \A o : o \in Rest(t, i + 1) <=> \E x \in 0 .. n - 1 : i + 1 <= x /\ o \in ToSet(t[x])
      BY Zenon, <2>1, RestIs
    <2>3. \A o : o \in Rest(u, i + 1) <=> \E x \in 0 .. n - 1 : i + 1 <= x /\ o \in ToSet(u[x])
      BY Zenon, <1>4, <2>1, RestIs
    <2>4. \A x \in 0 .. n - 1 : i + 1 <= x => u[x] = t[x]
      <3>1. \A x \in 0 .. n - 1 : i + 1 <= x => x # i  OBVIOUS
      <3> QED  BY Zenon, <1>4, <3>1
    <2>5. \A o : o \in Rest(u, i + 1) <=> o \in Rest(t, i + 1)  BY Zenon, <2>2, <2>3, <2>4
    <2> QED  BY Zenon, <2>5
  <1>7. ASSUME k < m
        PROVE  /\ From(u, i, k) = From(t, i, k + 1) /\ k \in 1 .. Len(u[i])
               /\ PositionAt(u, i, k) = [PositionAt(t, i, k) EXCEPT !.e = t[i][k + 1]]
    <2>1. k \in 1 .. m - 1  BY <1>3, <1>7
    <2>2. \A l \in 1 .. m - 1 : r[l] = IF l < k THEN s[l] ELSE s[l + 1]  BY Zenon, <1>4 DEF Skips
    <2>3. \A l \in k .. m - 1 : r[l] = s[l + 1] /\ l + 1 \in k + 1 .. m
      <3>1. \A l \in k .. m - 1 : l \in 1 .. m - 1 /\ ~ l < k /\ l + 1 \in k + 1 .. m  BY <1>3
      <3> QED  BY Zenon, <2>2, <3>1
    <2>4. \A l \in k + 1 .. m : s[l] = r[l - 1] /\ l - 1 \in k .. m - 1
      <3>1. \A l \in k + 1 .. m : l - 1 \in k .. m - 1 /\ (l - 1) + 1 = l  BY <1>3
      <3> QED  BY <2>3, <3>1
    <2>5. {r[l] : l \in k .. m - 1} = {s[l] : l \in k + 1 .. m}
      <3>1. ASSUME NEW l \in k .. m - 1 PROVE r[l] \in {s[a] : a \in k + 1 .. m}  BY <2>3
      <3>2. ASSUME NEW l \in k + 1 .. m PROVE s[l] \in {r[a] : a \in k .. m - 1}  BY <2>4
      <3> QED  BY Zenon, <3>1, <3>2
    <2>6. From(u, i, k) = {r[l] : l \in k .. m - 1} \cup Rest(u, i + 1)
      BY Zenon, <1>4, <1>5 DEF From
    <2>7. From(t, i, k + 1) = {s[l] : l \in k + 1 .. m} \cup Rest(t, i + 1)
      BY Zenon, <1>1, <1>2 DEF From
    <2>8. From(u, i, k) = From(t, i, k + 1)  BY Zenon, <1>6, <2>5, <2>6, <2>7
    <2>9. r[k] = s[k + 1]
      <3>1. k \in k .. m - 1  BY <2>1
      <3> QED  BY Zenon, <2>3, <3>1
    <2>10. k # 1 => r[k - 1] = s[k - 1]
      <3>1. k # 1 => k - 1 \in 1 .. m - 1 /\ k - 1 < k  BY <1>3
      <3> QED  BY Zenon, <2>2, <3>1
    <2>11. PICK q : q = IF k = 1 THEN None ELSE s[k - 1]  OBVIOUS
    <2>12. q = IF k = 1 THEN None ELSE r[k - 1]  BY Zenon, <2>10, <2>11
    <2>13. PositionAt(t, i, k) = [e |-> s[k], parent |-> q, index |-> i]
      BY Zenon, <1>1, <2>11 DEF PositionAt
    <2>14. PositionAt(u, i, k) = [e |-> r[k], parent |-> q, index |-> i]
      BY Zenon, <1>5, <2>12 DEF PositionAt
    <2>15. [PositionAt(t, i, k) EXCEPT !.e = s[k + 1]] = [e |-> s[k + 1], parent |-> q, index |-> i]
      BY <2>13
    <2> QED  BY Zenon, <1>1, <1>4, <1>5, <2>1, <2>8, <2>9, <2>14, <2>15
  <1> QED  BY Zenon, <1>1, <1>2, <1>6, <1>7 DEF MovesUp

\* What hashtable_iterator_remove leaves of a chain lacks the entry only.
LEMMA KeptIs ==
  ASSUME NEW c \in Seq(Objects), Distinct(c), NEW k \in 1 .. Len(c),
         NEW q, q = IF k = 1 THEN None ELSE c[k - 1]
  PROVE  /\ q \in {None} \cup ToSet(c)
         /\ CutAt((IF q = None THEN <<>> ELSE SubSeq(c, 1, Place(c, q))) \o Behind(c, c[k]), c, k)
  <1>1. PICK m \in Nat : m = Len(c)  BY LenProperties
  <1>2. Behind(c, c[k]) = SubSeq(c, k + 1, Len(c))  BY Zenon, BehindIs
  <1>3. CASE k = 1
    <2>1. SubSeq(c, 1, k - 1) = <<>>
      <3>1. 1 \in Int /\ k - 1 \in Int /\ k - 1 < 1  BY <1>3
      <3> QED  BY Zenon, <3>1, SubSeqEmpty
    <2> QED  BY Zenon, <1>2, <1>3, <2>1 DEF CutAt
  <1>4. CASE k # 1
    <2>1. k - 1 \in 1 .. Len(c)  BY <1>1, <1>4
    <2>2. q = c[k - 1] /\ q \in Objects /\ q \in ToSet(c)
      <3>1. c[k - 1] \in Objects  BY Zenon, <2>1, ElementOfSeq
      <3>2. c[k - 1] \in ToSet(c)  BY Zenon, <2>1, ElementsOf
      <3> QED  BY Zenon, <1>4, <3>1, <3>2
    <2>3. q # None  BY <2>2, ObjectsAssumption
    <2>4. Place(c, c[k - 1]) = k - 1  BY Zenon, <2>1, PlaceIs
    <2>5. Place(c, q) = k - 1  BY Zenon, <2>2, <2>4
    <2> QED  BY Zenon, <1>2, <2>2, <2>3, <2>5 DEF CutAt
  <1> QED  BY <1>3, <1>4

\* What hashtable_iterator_search leaves out is what is before its position.
LEMMA FromIs ==
  ASSUME NEW n \in Nat, NEW t, Tabled(t, n), NEW i \in 0 .. n - 1, NEW k \in 1 .. Len(t[i])
  PROVE  Of(t) \ (ToSet(SubSeq(t[i], 1, k - 1)) \cup UNION {ToSet(t[j]) : j \in 0 .. i - 1})
           = From(t, i, k)
  <1>1. PICK s \in Seq(Objects) : s = t[i]  BY ChainOf
  <1>2. PICK m \in Nat : m = Len(s)  BY LenProperties
  <1>3. k \in 1 .. m /\ \A a, b \in 1 .. m : s[a] = s[b] => a = b
    <2>1. Distinct(s)  BY <1>1, ChainOf
    <2> QED  BY <1>1, <1>2, <2>1 DEF Distinct
  <1>4. \A x : x \in ToSet(s) <=> \E l \in 1 .. m : s[l] = x  BY Zenon, <1>2, ElementsOf
  <1>5. PICK v : v = SubSeq(s, 1, k - 1)  OBVIOUS
  <1>6. \A x : x \in ToSet(v) <=> \E l \in 1 .. k - 1 : s[l] = x
    <2>1. 1 \in Int /\ k - 1 \in Int /\ \A l \in 1 .. k - 1 : s[l] \in Objects
      <3>1. \A l \in 1 .. k - 1 : l \in 1 .. m  BY <1>3
      <3>2. \A l \in 1 .. m : s[l] \in Objects  BY Zenon, <1>2, ElementOfSeq
      <3> QED  BY <1>3, <3>1, <3>2
    <2>2. /\ v \in Seq(Objects) /\ Len(v) = IF 1 <= k - 1 THEN (k - 1) - 1 + 1 ELSE 0
          /\ \A l \in 1 .. (k - 1) - 1 + 1 : v[l] = s[1 + l - 1]
      <3>1. /\ SubSeq(s, 1, k - 1) \in Seq(Objects)
            /\ Len(SubSeq(s, 1, k - 1)) = IF 1 <= k - 1 THEN (k - 1) - 1 + 1 ELSE 0
            /\ \A l \in 1 .. (k - 1) - 1 + 1 : SubSeq(s, 1, k - 1)[l] = s[1 + l - 1]
        BY <2>1, SubSeqProperties
      <3> QED  BY Zenon, <1>5, <3>1
    <2>3. Len(v) = k - 1  BY <1>3, <2>2
    <2>4. \A l \in 1 .. k - 1 : v[l] = s[l]
      <3>1. (k - 1) - 1 + 1 = k - 1 /\ \A l \in 1 .. k - 1 : 1 + l - 1 = l  BY <1>3
      <3> QED  BY <2>2, <3>1
    <2>5. v \in Seq(Objects)  BY <2>2
    <2>6. \A x : x \in ToSet(v) <=> \E l \in 1 .. Len(v) : v[l] = x  BY Zenon, <2>5, ElementsOf
    <2> QED  BY Zenon, <2>3, <2>4, <2>6
  <1>7. From(t, i, k) = {s[a] : a \in k .. m} \cup Rest(t, i + 1)  BY Zenon, <1>1, <1>2 DEF From
  <1>8. \A o : o \in Rest(t, i + 1) <=> \E x \in 0 .. n - 1 : i + 1 <= x /\ o \in ToSet(t[x])
    <2>1. i + 1 \in Nat  OBVIOUS
    <2> QED  BY Zenon, <2>1, RestIs
  <1>9. \A o : o \in Of(t) <=> \E x \in 0 .. n - 1 : o \in ToSet(t[x])  BY Zenon, OfTable
  <1>10. \A j, x \in 0 .. n - 1 : j # x => \A o \in ToSet(t[j]) : o \notin ToSet(t[x])
    <2>1. \A j, x \in 0 .. n - 1 : j # x => ToSet(t[j]) \cap ToSet(t[x]) = {}  BY Zenon DEF Tabled
    <2> QED  BY Zenon, <2>1
  <1>11. \A j : j \in 0 .. i - 1 => j \in 0 .. n - 1 /\ j # i /\ ~ i + 1 <= j  OBVIOUS
  <1> DEFINE Before(x) == x \in ToSet(v) \/ \E j \in 0 .. i - 1 : x \in ToSet(t[j])
  <1>12. ASSUME NEW x, x \in Of(t), ~ Before(x) PROVE x \in From(t, i, k)
    <2>1. PICK y \in 0 .. n - 1 : x \in ToSet(t[y])  BY Zenon, <1>9, <1>12
    <2>2. y \notin 0 .. i - 1  BY Zenon, <1>12, <2>1
    <2>3. y = i \/ i + 1 <= y  BY <2>2
    <2>4. CASE y = i
      <3>1. PICK l \in 1 .. m : s[l] = x  BY Zenon, <1>1, <1>4, <2>1, <2>4
      <3>2. l \notin 1 .. k - 1  BY Zenon, <1>6, <1>12, <3>1
      <3>3. l \in k .. m  BY <1>3, <3>2
      <3> QED  BY Zenon, <1>7, <3>1, <3>3
    <2>5. CASE i + 1 <= y  BY Zenon, <1>7, <1>8, <2>1, <2>5
    <2> QED  BY <2>3, <2>4, <2>5
  <1>13. ASSUME NEW x, NEW a \in k .. m, s[a] = x PROVE x \in Of(t) /\ ~ Before(x)
    <2>1. a \in 1 .. m /\ \A l \in 1 .. k - 1 : l \in 1 .. m /\ l # a  BY <1>3
    <2>2. x \in ToSet(t[i])  BY Zenon, <1>1, <1>4, <1>13, <2>1
    <2>3. x \notin ToSet(v)
      <3>1. \A l \in 1 .. k - 1 : s[l] # s[a]  BY <1>3, <2>1
      <3> QED  BY Zenon, <1>6, <1>13, <3>1
    <2>4. \A j \in 0 .. i - 1 : x \notin ToSet(t[j])  BY Zenon, <1>10, <1>11, <2>2
    <2> QED  BY Zenon, <1>9, <2>2, <2>3, <2>4
  <1>14. ASSUME NEW x, NEW y \in 0 .. n - 1, i + 1 <= y, x \in ToSet(t[y])
         PROVE  x \in Of(t) /\ ~ Before(x)
    <2>1. y # i /\ \A j \in 0 .. i - 1 : j # y  BY <1>14
    <2>2. x \notin ToSet(v)
      <3>1. x \notin ToSet(s)  BY Zenon, <1>1, <1>10, <1>14, <2>1
      <3>2. \A l \in 1 .. k - 1 : l \in 1 .. m  BY <1>3
      <3> QED  BY Zenon, <1>4, <1>6, <3>1, <3>2
    <2>3. \A j \in 0 .. i - 1 : x \notin ToSet(t[j])  BY Zenon, <1>10, <1>11, <1>14, <2>1
    <2> QED  BY Zenon, <1>9, <1>14, <2>2, <2>3
  <1>15. \A x : x \in From(t, i, k) <=> x \in Of(t) /\ ~ Before(x)
    <2> HIDE DEF Before
    <2>1. ASSUME NEW x, x \in From(t, i, k) PROVE x \in Of(t) /\ ~ Before(x)
      BY Zenon, <1>7, <1>8, <1>13, <1>14, <2>1
    <2> QED  BY Zenon, <1>12, <2>1
  <1>16. \A x : x \in ToSet(v) \cup UNION {ToSet(t[j]) : j \in 0 .. i - 1} <=> Before(x)
    BY Zenon
  <1>17. Of(t) \ (ToSet(v) \cup UNION {ToSet(t[j]) : j \in 0 .. i - 1}) = From(t, i, k)
    <2> HIDE DEF Before
    <2> QED  BY Zenon, <1>15, <1>16
  <1> QED  BY Zenon, <1>1, <1>5, <1>17

-----------------------------------------------------------------------------
(* The invariant of the table and its iterator                              *)

\* An iterator is before an entry that is still in the table, or at the end, and todo is
\* what is from there on.
Iterating(g, p, rest) ==
  \/ p = NoItr /\ rest = {}
  \/ p = AtEnd(g) /\ rest = {}
  \/ Positioned(g.table, p, rest)

Typed == pmem \in BOOLEAN /\ ret \in Names \cup {None} /\ pc \in {"ok", "gone", "lost"}

Entries == Of(h.table)

TableInv == IInv /\ Shaped(h) /\ Counted(h) /\ Iterating(h, itr, todo) /\ Typed

\* What a step does to the entries, and what it tells its caller of them.
NoEntry  == Entries' = Entries /\ ret' = ret
NewEntry == \E o \in Objects \ Entries : Entries' = Entries \cup {o} /\ ret' = ret
OldEntry == \E o \in Entries : Entries' = Entries \ {o} /\ ret' = NameOf[o]

Steady == Shaped(h') /\ Counted(h') /\ Iterating(h', itr', todo') /\ Typed'

LEMMA MembersAre ==
  ASSUME NEW g, Sized(g), Shaped(g)
  PROVE  /\ Chains(g) \in Seq(Objects) /\ ToSet(Chains(g)) = Of(g.table)
         /\ Of(g.table) \subseteq Objects /\ IsFiniteSet(Of(g.table))
         /\ Len(Chains(g)) = Cardinality(Of(g.table))
  <1>1. PICK j \in Nat : ShapedBy(g, j)  BY DEF Shaped
  <1>2. PICK n \in Nat : n = Primes[j]  BY <1>1, WholeIs
  <1>3. Tabled(g.table, n)  BY Zenon, <1>1, <1>2 DEF ShapedBy
  <1> QED  BY Zenon, <1>3, ChainsAre, OfTable

LEMMA CountMore ==
  ASSUME NEW g, Counted(g), IsFiniteSet(Of(g.table)), NEW o, o \notin Of(g.table),
         NEW x, Of(x.table) = Of(g.table) \cup {o}, x.entrycount = g.entrycount + 1
  PROVE  Counted(x)
  <1>1. PICK S : S = Of(g.table)  OBVIOUS
  <1>2. Cardinality(S \cup {o}) = Cardinality(S) + 1  BY <1>1, FS_AddElement
  <1> QED  BY <1>1, <1>2 DEF Counted

LEMMA CountLess ==
  ASSUME NEW g, Counted(g), IsFiniteSet(Of(g.table)), NEW o, o \in Of(g.table),
         NEW x, Of(x.table) = Of(g.table) \ {o}, x.entrycount = g.entrycount - 1
  PROVE  Counted(x)
  <1>1. PICK S : S = Of(g.table)  OBVIOUS
  <1>2. Cardinality(S \ {o}) = Cardinality(S) - 1  BY <1>1, FS_RemoveElement
  <1> QED  BY <1>1, <1>2 DEF Counted

LEMMA LostStep ==
  ASSUME TableInv, Lost
  PROVE  Steady /\ NoEntry
  <1>1. h' = h /\ itr' = itr /\ todo' = todo /\ pmem' = pmem /\ ret' = ret /\ pc' = "lost"
    BY DEF Lost
  <1>2. Typed'  BY <1>1 DEF TableInv, Typed
  <1>3. Entries' = Entries  BY <1>1 DEF Entries
  <1>4. Shaped(h') /\ Counted(h') /\ Iterating(h', itr', todo')  BY <1>1 DEF TableInv
  <1> QED  BY Zenon, <1>1, <1>2, <1>3, <1>4 DEF Steady, NoEntry

\* A step that leaves the iterator broken.
LEMMA BrokenStep ==
  ASSUME TableInv, Broken, UNCHANGED <<pmem, pc>>, ret' \in Names \cup {None},
         Shaped(h'), Counted(h')
  PROVE  Steady
  <1>1. Typed'  BY DEF TableInv, Typed
  <1>2. Iterating(h', itr', todo')
    <2>1. itr' = NoItr /\ todo' = {}  BY DEF Broken
    <2> QED  BY Zenon, <2>1 DEF Iterating
  <1> QED  BY Zenon, <1>1, <1>2 DEF Steady

\* hashtable_insert puts one entry in, or none.
LEMMA InsertStep ==
  ASSUME TableInv, NEW o \in Objects, Insert(o)
  PROVE  Steady /\ (NoEntry \/ NewEntry)
  <1>1. CASE Lost  BY Zenon, <1>1, LostStep
  <1>2. CASE ~ Lost
    <2>1. Sized(h) /\ Shaped(h) /\ Counted(h) /\ ret \in Names \cup {None}
      BY Zenon DEF TableInv, IInv, Typed
    <2>2. o \notin Entries
      <3>1. o \notin ToSet(Chains(h))  BY Zenon DEF Insert, Members
      <3> QED  BY Zenon, <2>1, <3>1, MembersAre DEF Entries
    <2>3. PICK g \in (IF Overfull(h) THEN Expanded(h) ELSE {h}) :
            /\ g.table = h.table \/ Whole(h)
            /\ \/ IndexFor(g, o) \in DOMAIN g.table /\ h' = PutFirst(g, o)
               \/ h' = g
            /\ Broken /\ UNCHANGED <<pmem, ret, pc>>
      BY Zenon, <1>2 DEF Insert
    <2>4. Sized(g) /\ Shaped(g) /\ Of(g.table) = Of(h.table) /\ g.entrycount = h.entrycount
      <3>1. CASE g = h  BY Zenon, <2>1, <3>1
      <3>2. CASE g # h
        <4>1. g \in Expanded(h)  BY Zenon, <2>3, <3>2
        <4> QED  BY Zenon, <2>1, <2>3, <4>1, ExpandedShaped
      <3> QED  BY <3>1, <3>2
    <2>5. Counted(g) /\ IsFiniteSet(Of(g.table))
      <3>1. Counted(g)  BY Zenon, <2>1, <2>4 DEF Counted
      <3> QED  BY Zenon, <2>4, <3>1, MembersAre
    <2>6. ret' = ret /\ ret' \in Names \cup {None} /\ UNCHANGED <<pmem, pc>> /\ Broken
      BY Zenon, <2>1, <2>3
    <2>7. CASE h' = g
      <3>1. Shaped(h') /\ Counted(h')  BY Zenon, <2>4, <2>5, <2>7
      <3>2. Of(h'.table) = Of(h.table)  BY Zenon, <2>4, <2>7
      <3>3. NoEntry  BY Zenon, <2>6, <3>2 DEF NoEntry, Entries
      <3> QED  BY Zenon, <2>6, <3>1, <3>3, BrokenStep
    <2>8. CASE IndexFor(g, o) \in DOMAIN g.table /\ h' = PutFirst(g, o)
      <3>1. o \notin Of(g.table)  BY Zenon, <2>2, <2>4 DEF Entries
      <3>2. /\ Shaped(PutFirst(g, o)) /\ Of(PutFirst(g, o).table) = Of(g.table) \cup {o}
            /\ PutFirst(g, o).entrycount = g.entrycount + 1
        BY Zenon, <2>4, <2>8, <3>1, PutShaped
      <3>3. Counted(PutFirst(g, o))  BY Zenon, <2>5, <3>1, <3>2, CountMore
      <3>4. Shaped(h') /\ Counted(h') /\ Of(h'.table) = Of(h.table) \cup {o}
        BY Zenon, <2>4, <2>8, <3>2, <3>3
      <3>5. NewEntry  BY Zenon, <2>2, <2>6, <3>4 DEF NewEntry, Entries
      <3> QED  BY Zenon, <2>6, <3>4, <3>5, BrokenStep
    <2> QED  BY Zenon, <2>3, <2>7, <2>8
  <1> QED  BY <1>1, <1>2

\* The slot of a name that is not wild, and what the search in it found.
LEMMA SearchIs ==
  ASSUME TableInv, NEW name \in Names, ~ SlotWild(name), Search(name) # None
  PROVE  /\ Slot(name) \in DOMAIN h.table
         /\ \E k \in 1 .. Len(h.table[Slot(name)]) :
              /\ Search(name) = h.table[Slot(name)][k]
              /\ NameOf[Search(name)] = name
              /\ Place(h.table[Slot(name)], Search(name)) = k
              /\ CutAt(Without(h.table[Slot(name)], Search(name)), h.table[Slot(name)], k)
  <1>1. Sized(h) /\ Shaped(h)  BY Zenon DEF TableInv, IInv
  <1>2. PICK j \in Nat : ShapedBy(h, j)  BY <1>1 DEF Shaped
  <1>3. PICK n \in Nat : n = Primes[j] /\ DOMAIN h.table = 0 .. n - 1  BY <1>1, <1>2, WholeIs
  <1>4. Slot(name) \in DOMAIN h.table  BY Zenon DEF SlotWild
  <1>5. PICK i \in 0 .. n - 1 : i = Slot(name)  BY <1>3, <1>4
  <1>6. PICK t : t = h.table  OBVIOUS
  <1>7. Tabled(t, n)  BY Zenon, <1>2, <1>3, <1>6 DEF ShapedBy
  <1>8. PICK c \in Seq(Objects) : c = t[i] /\ Distinct(c)  BY Zenon, <1>7, ChainOf
  <1>9. PICK o : o = FirstOf(c, name) /\ o = Search(name) /\ o # None
    BY Zenon, <1>5, <1>6, <1>8 DEF Search
  <1>10. PICK k \in 1 .. Len(c) : o = c[k] /\ NameOf[o] = name
    <2>1. FirstOf(c, name) # None  BY Zenon, <1>9
    <2>2. \E k \in 1 .. Len(c) : FirstOf(c, name) = c[k] /\ NameOf[c[k]] = name
      BY Zenon, <2>1, FirstOfIs
    <2> QED  BY Zenon, <1>9, <2>2
  <1>11. Place(c, o) = k  BY Zenon, <1>8, <1>10, PlaceIs
  <1>12. CutAt(Without(c, o), c, k)  BY Zenon, <1>8, <1>10, WithoutIs
  <1> QED  BY Zenon, <1>4, <1>5, <1>6, <1>8, <1>9, <1>10, <1>11, <1>12

\* hashtable_remove takes an entry of the name out.
LEMMA RemoveKeyStep ==
  ASSUME TableInv, NEW name \in Names, RemoveKey(name)
  PROVE  Steady /\ (NoEntry \/ OldEntry)
  <1>1. CASE Lost  BY Zenon, <1>1, LostStep
  <1>2. CASE ~ Lost
    <2>1. /\ ~ SlotWild(name) /\ Search(name) # None
          /\ h' = [h EXCEPT !.table[Slot(name)] = Without(@, Search(name)), !.entrycount = @ - 1]
          /\ ret' = name /\ Broken /\ UNCHANGED <<pmem, pc>>
      BY Zenon, <1>2 DEF RemoveKey
    <2>2. Sized(h) /\ Shaped(h) /\ Counted(h) /\ h.entrycount \in Int
      BY Zenon DEF TableInv, IInv, Sized
    <2>3. PICK i \in DOMAIN h.table : i = Slot(name)  BY Zenon, <2>1, SearchIs
    <2>4. PICK r : r = Without(h.table[i], Search(name))  OBVIOUS
    <2>5. PICK k \in 1 .. Len(h.table[i]) :
            Search(name) = h.table[i][k] /\ NameOf[h.table[i][k]] = name /\ CutAt(r, h.table[i], k)
      BY Zenon, <2>1, <2>3, <2>4, SearchIs
    <2>6. PICK c \in Int : c = h.entrycount - 1
      <3>1. h.entrycount - 1 \in Int  BY <2>2
      <3> QED  BY <3>1
    <2>7. h' = Altered(h, [h.table EXCEPT ![i] = r], c)
      BY <2>1, <2>2, <2>3, <2>4, <2>6 DEF Sized, Fields, Altered
    <2>8. /\ Shaped(h') /\ Of([h.table EXCEPT ![i] = r]) = Of(h.table) \ {h.table[i][k]}
          /\ h.table[i][k] \in Of(h.table)
      <3>1. CutAt(r, h.table[i], k)  BY Zenon, <2>5
      <3>2. /\ Shaped(Altered(h, [h.table EXCEPT ![i] = r], c))
            /\ Of([h.table EXCEPT ![i] = r]) = Of(h.table) \ {h.table[i][k]}
            /\ h.table[i][k] \in Of(h.table)
        BY Zenon, <2>2, <3>1, TakeShaped
      <3> QED  BY Zenon, <2>7, <3>2
    <2>9. h'.table = [h.table EXCEPT ![i] = r] /\ h'.entrycount = h.entrycount - 1
      BY <2>2, <2>6, <2>7, AlteredFields
    <2>10. Of(h'.table) = Of(h.table) \ {h.table[i][k]}  BY Zenon, <2>8, <2>9
    <2>11. Counted(h')
      <3>1. IsFiniteSet(Of(h.table))  BY Zenon, <2>2, MembersAre
      <3> QED  BY Zenon, <2>2, <2>8, <2>9, <2>10, <3>1, CountLess
    <2>12. OldEntry  BY Zenon, <2>1, <2>5, <2>8, <2>10 DEF OldEntry, Entries
    <2> QED  BY Zenon, <2>1, <2>8, <2>11, <2>12, BrokenStep
  <1> QED  BY <1>1, <1>2

\* hashtable_destroy leaves the table as it is.
LEMMA DestroyStep ==
  ASSUME TableInv, Destroy
  PROVE  Steady /\ NoEntry
  <1>1. CASE Lost  BY Zenon, <1>1, LostStep
  <1>2. CASE ~ Lost
    <2>1. pc' = "gone" /\ Broken /\ pmem' = pmem /\ h' = h /\ ret' = ret
      BY <1>2 DEF Destroy
    <2>2. Shaped(h') /\ Counted(h')  BY Zenon, <2>1 DEF TableInv
    <2>3. Typed'  BY <2>1 DEF TableInv, Typed
    <2>4. Iterating(h', itr', todo')
      <3>1. itr' = NoItr /\ todo' = {}  BY <2>1 DEF Broken
      <3> QED  BY Zenon, <3>1 DEF Iterating
    <2>5. NoEntry  BY Zenon, <2>1 DEF NoEntry, Entries
    <2> QED  BY Zenon, <2>2, <2>3, <2>4, <2>5 DEF Steady
  <1> QED  BY <1>1, <1>2

\* A call of the iterator that leaves the table alone.
LEMMA QuietStep ==
  ASSUME TableInv, UNCHANGED <<pmem, h, ret, pc>>, Iterating(h, itr', todo')
  PROVE  Steady /\ NoEntry
  <1>1. h' = h /\ pmem' = pmem /\ ret' = ret /\ pc' = pc  OBVIOUS
  <1>2. Typed'  BY <1>1 DEF TableInv, Typed
  <1>3. Shaped(h') /\ Counted(h') /\ Iterating(h', itr', todo')  BY Zenon, <1>1 DEF TableInv
  <1>4. NoEntry  BY Zenon, <1>1 DEF NoEntry, Entries
  <1> QED  BY Zenon, <1>2, <1>3, <1>4 DEF Steady

LEMMA TableIs ==
  ASSUME NEW g, Sized(g), Shaped(g)
  PROVE  \E n \in Nat : Tabled(g.table, n) /\ DOMAIN g.table = 0 .. n - 1
  <1>1. PICK j \in Nat : ShapedBy(g, j)  BY DEF Shaped
  <1>2. PICK n \in Nat : n = Primes[j] /\ DOMAIN g.table = 0 .. n - 1  BY <1>1, WholeIs
  <1>3. Tabled(g.table, n)  BY Zenon, <1>1, <1>2 DEF ShapedBy
  <1> QED  BY Zenon, <1>2, <1>3

LEMMA RestFromStart ==
  ASSUME NEW n \in Nat, NEW t, Tabled(t, n)
  PROVE  Rest(t, 0) = Of(t)
  <1>1. 0 \in Nat /\ \A x \in 0 .. n - 1 : 0 <= x  OBVIOUS
  <1>2. \A o : o \in Rest(t, 0) <=> \E x \in 0 .. n - 1 : 0 <= x /\ o \in ToSet(t[x])
    BY Zenon, <1>1, RestIs
  <1>3. \A o : o \in Of(t) <=> \E x \in 0 .. n - 1 : o \in ToSet(t[x])  BY Zenon, OfTable
  <1>4. \A o : o \in Rest(t, 0) <=> o \in Of(t)  BY Zenon, <1>1, <1>2, <1>3
  <1> QED  BY Zenon, <1>4

\* hashtable_iterator begins at the first entry.
LEMMA IteratorStep ==
  ASSUME TableInv, Iterator
  PROVE  Steady /\ NoEntry
  <1>1. CASE Lost  BY Zenon, <1>1, LostStep
  <1>2. CASE ~ Lost
    <2>1. Sized(h) /\ Shaped(h) /\ Counted(h)  BY Zenon DEF TableInv, IInv
    <2>2. PICK n \in Nat : Tabled(h.table, n)  BY Zenon, <2>1, TableIs
    <2>3. /\ itr' = IF h.entrycount = 0
                      THEN [e |-> None, parent |-> None, index |-> h.tablelength]
                      ELSE HeadFrom(h, 0)
          /\ todo' = Members /\ UNCHANGED <<pmem, h, ret, pc>>
      BY Zenon, <1>2 DEF Iterator
    <2>4. todo' = Of(h.table)  BY Zenon, <2>1, <2>3, MembersAre DEF Members
    <2>5. CASE h.entrycount = 0
      <3>1. itr' = AtEnd(h)  BY Zenon, <2>3, <2>5 DEF AtEnd
      <3>2. Of(h.table) = {}
        <4>1. IsFiniteSet(Of(h.table))  BY Zenon, <2>1, MembersAre
        <4>2. Cardinality(Of(h.table)) = 0  BY Zenon, <2>1, <2>5 DEF Counted
        <4> QED  BY Zenon, <4>1, <4>2, FS_EmptySet
      <3>3. Iterating(h, itr', todo')  BY Zenon, <2>4, <3>1, <3>2 DEF Iterating
      <3> QED  BY Zenon, <2>3, <3>3, QuietStep
    <2>6. CASE h.entrycount # 0
      <3>1. itr' = HeadFrom(h, 0)  BY Zenon, <2>3, <2>6
      <3>2. todo' = Rest(h.table, 0)  BY Zenon, <2>2, <2>4, RestFromStart
      <3>3. \/ HeadFrom(h, 0) = AtEnd(h) /\ Rest(h.table, 0) = {}
            \/ Positioned(h.table, HeadFrom(h, 0), Rest(h.table, 0))
        <4>1. 0 \in Nat  OBVIOUS
        <4> QED  BY Zenon, <2>2, <4>1, HeadFromIs
      <3>4. Iterating(h, itr', todo')  BY Zenon, <3>1, <3>2, <3>3 DEF Iterating
      <3> QED  BY Zenon, <2>3, <3>4, QuietStep
    <2> QED  BY <2>5, <2>6
  <1> QED  BY <1>1, <1>2

\* hashtable_iterator_search begins at the entry it finds.
LEMMA IteratorSearchStep ==
  ASSUME TableInv, NEW name \in Names, IteratorSearch(name)
  PROVE  Steady /\ NoEntry
  <1>1. CASE Lost  BY Zenon, <1>1, LostStep
  <1>2. CASE ~ Lost
    <2>1. Sized(h) /\ Shaped(h)  BY Zenon DEF TableInv, IInv
    <2>2. PICK n \in Nat : Tabled(h.table, n) /\ DOMAIN h.table = 0 .. n - 1
      BY Zenon, <2>1, TableIs
    <2>3. PICK i, c : i = Slot(name) /\ c = h.table[i]  BY Zenon
    <2>4. PICK j : j = Place(c, Search(name))  BY Zenon
    <2>5. /\ ~ SlotWild(name) /\ Search(name) # None
          /\ itr' = [e |-> Search(name), index |-> i, parent |-> IF j = 1 THEN None ELSE c[j - 1]]
          /\ todo' = Members \ (ToSet(SubSeq(c, 1, j - 1))
                                 \cup UNION {ToSet(h.table[x]) : x \in 0 .. i - 1})
          /\ UNCHANGED <<pmem, h, ret, pc>>
      BY <1>2, <2>3, <2>4 DEF IteratorSearch
    <2>6. i \in 0 .. n - 1 /\ j \in 1 .. Len(c) /\ Search(name) = c[j]
      <3>1. /\ Slot(name) \in DOMAIN h.table
            /\ \E k \in 1 .. Len(h.table[Slot(name)]) :
                 Search(name) = h.table[Slot(name)][k] /\ Place(h.table[Slot(name)], Search(name)) = k
        BY Zenon, <2>5, SearchIs
      <3> QED  BY Zenon, <2>2, <2>3, <2>4, <3>1
    <2>7. todo' = From(h.table, i, j)
      <3>1. Members = Of(h.table)  BY Zenon, <2>1, MembersAre DEF Members
      <3>2. j \in 1 .. Len(h.table[i])  BY Zenon, <2>3, <2>6
      <3>3. Of(h.table) \ (ToSet(SubSeq(h.table[i], 1, j - 1))
                             \cup UNION {ToSet(h.table[x]) : x \in 0 .. i - 1})
              = From(h.table, i, j)
        BY Zenon, <2>2, <2>6, <3>2, FromIs
      <3> QED  BY Zenon, <2>3, <2>5, <3>1, <3>3
    <2>8. itr' = PositionAt(h.table, i, j)
      <3>1. PICK q : q = IF j = 1 THEN None ELSE c[j - 1]  OBVIOUS
      <3>2. itr' = [e |-> c[j], parent |-> q, index |-> i]  BY <2>5, <2>6, <3>1
      <3> QED  BY Zenon, <2>3, <3>1, <3>2 DEF PositionAt
    <2>9. Iterating(h, itr', todo')
      BY Zenon, <2>2, <2>3, <2>6, <2>7, <2>8 DEF Iterating, Positioned
    <2> QED  BY Zenon, <2>5, <2>9, QuietStep
  <1> QED  BY <1>1, <1>2

\* The position an iterator that has an entry is at.
LEMMA PositionOf ==
  ASSUME TableInv, AtEntry
  PROVE  \E n \in Nat : \E i \in 0 .. n - 1 : \E k \in 1 .. Len(h.table[i]) :
           /\ Tabled(h.table, n) /\ DOMAIN h.table = 0 .. n - 1
           /\ itr = PositionAt(h.table, i, k) /\ todo = From(h.table, i, k)
  <1>1. Sized(h) /\ Shaped(h) /\ Iterating(h, itr, todo)  BY Zenon DEF TableInv, IInv
  <1>2. PICK n \in Nat : Tabled(h.table, n) /\ DOMAIN h.table = 0 .. n - 1
    BY Zenon, <1>1, TableIs
  <1>3. itr # NoItr /\ itr.e # None  BY DEF AtEntry
  <1>4. itr # AtEnd(h)  BY <1>3 DEF AtEnd
  <1>5. Positioned(h.table, itr, todo)  BY Zenon, <1>1, <1>3, <1>4 DEF Iterating
  <1> QED  BY Zenon, <1>2, <1>5 DEF Positioned

LEMMA PositionIs ==
  ASSUME NEW t, NEW i, NEW k
  PROVE  /\ IsAt(PositionAt(t, i, k), t[i][k], (IF k = 1 THEN None ELSE t[i][k - 1]), i)
         /\ PositionAt(t, i, k).e = t[i][k] /\ PositionAt(t, i, k).index = i
         /\ PositionAt(t, i, k).parent = IF k = 1 THEN None ELSE t[i][k - 1]
  BY DEF PositionAt, IsAt

At(t, p, i, k) == p = PositionAt(t, i, k)

IteratesOn(g, p, i, rest) ==
  p.index = i /\ Iterating(g, Advanced(g, g.table[i], p), rest \ {p.e})

\* What is left of an iteration behind a position.
LEMMA AdvancedFrom ==
  ASSUME NEW n \in Nat, NEW g, Tabled(g.table, n), NEW i \in 0 .. n - 1,
         NEW k \in 1 .. Len(g.table[i]), NEW p, At(g.table, p, i, k)
  PROVE  IteratesOn(g, p, i, From(g.table, i, k))
  <1>1. PICK t : t = g.table /\ Tabled(t, n) /\ DOMAIN t = 0 .. n - 1  BY DEF Tabled
  <1>2. PICK c \in Seq(Objects) : c = t[i] /\ Distinct(c)  BY Zenon, <1>1, ChainOf
  <1>3. PICK m \in Nat : m = Len(c)  BY LenProperties
  <1>4. k \in 1 .. m /\ k \in 1 .. Len(c)  BY Zenon, <1>1, <1>2, <1>3
  <1>5. PICK q : q = IF k = 1 THEN None ELSE t[i][k - 1]  OBVIOUS
  <1>6. IsAt(p, c[k], q, i) /\ p.e = c[k] /\ p.index = i
    <2>1. p = [e |-> c[k], parent |-> q, index |-> i]
      BY <1>1, <1>2, <1>5 DEF PositionAt, At
    <2> QED  BY <2>1 DEF IsAt
  <1>7. PICK r : r = Advanced(g, c, p)  OBVIOUS
  <1>8. PICK rest : rest = From(t, i, k) \ {c[k]}  OBVIOUS
  <1>9. AdvancesTo(r, g, c, k, i)  BY Zenon, <1>2, <1>4, <1>6, <1>7, AdvancedIs
  <1>10. LeftBehind(rest, t, i, k)
    <2>1. k \in 1 .. Len(t[i])  BY Zenon, <1>1
    <2>2. LeftBehind(From(t, i, k) \ {t[i][k]}, t, i, k)  BY Zenon, <1>1, <2>1, Passed
    <2> QED  BY Zenon, <1>2, <1>8, <2>2
  <1>11. CASE k < m
    <2>1. k + 1 \in 1 .. m /\ k + 1 # 1 /\ (k + 1) - 1 = k  BY <1>4, <1>11
    <2>2. PositionAt(t, i, k + 1) = [e |-> c[k + 1], parent |-> c[k], index |-> i]
      BY Zenon, <1>2, <2>1 DEF PositionAt
    <2>3. r = PositionAt(t, i, k + 1)
      BY Zenon, <1>3, <1>9, <1>11, <2>2 DEF AdvancesTo, IsAt
    <2>4. rest = From(t, i, k + 1)  BY Zenon, <1>2, <1>3, <1>10, <1>11 DEF LeftBehind
    <2>5. Positioned(t, r, rest)
      BY Zenon, <1>1, <1>2, <1>3, <2>1, <2>3, <2>4 DEF Positioned
    <2> QED  BY Zenon, <1>1, <1>2, <1>6, <1>7, <1>8, <2>5 DEF Iterating, IteratesOn
  <1>12. CASE ~ k < m
    <2>1. i + 1 \in Nat  OBVIOUS
    <2>2. \/ HeadFrom(g, i + 1) = AtEnd(g) /\ Rest(g.table, i + 1) = {}
          \/ Positioned(g.table, HeadFrom(g, i + 1), Rest(g.table, i + 1))
      BY Zenon, <2>1, HeadFromIs
    <2>3. r = HeadFrom(g, i + 1)  BY Zenon, <1>3, <1>9, <1>12 DEF AdvancesTo
    <2>4. rest = Rest(t, i + 1)  BY Zenon, <1>2, <1>3, <1>10, <1>12 DEF LeftBehind
    <2>5. Iterating(g, r, rest)  BY Zenon, <1>1, <2>2, <2>3, <2>4 DEF Iterating
    <2> QED  BY Zenon, <1>1, <1>2, <1>6, <1>7, <1>8, <2>5 DEF IteratesOn
  <1> QED  BY <1>11, <1>12

\* hashtable_iterator_advance passes one entry.
LEMMA IterAdvanceStep ==
  ASSUME TableInv, IterAdvance
  PROVE  Steady /\ NoEntry
  <1>1. CASE Lost  BY Zenon, <1>1, LostStep
  <1>2. CASE ~ Lost
    <2>1. /\ itr' = Advanced(h, h.table[itr.index], itr) /\ todo' = todo \ {itr.e}
          /\ UNCHANGED <<pmem, h, ret, pc>> /\ AtEntry
      BY Zenon, <1>2 DEF IterAdvance
    <2>2. PICK n \in Nat : \E i \in 0 .. n - 1 : \E k \in 1 .. Len(h.table[i]) :
            /\ Tabled(h.table, n) /\ DOMAIN h.table = 0 .. n - 1
            /\ itr = PositionAt(h.table, i, k) /\ todo = From(h.table, i, k)
      BY Zenon, <2>1, PositionOf
    <2>3. PICK i \in 0 .. n - 1 : \E k \in 1 .. Len(h.table[i]) :
            /\ Tabled(h.table, n)
            /\ itr = PositionAt(h.table, i, k) /\ todo = From(h.table, i, k)
      BY Zenon, <2>2
    <2>4. PICK k \in 1 .. Len(h.table[i]) :
            /\ Tabled(h.table, n)
            /\ itr = PositionAt(h.table, i, k) /\ todo = From(h.table, i, k)
      BY Zenon, <2>3
    <2>5. At(h.table, itr, i, k)  BY Zenon, <2>4 DEF At
    <2>6. IteratesOn(h, itr, i, From(h.table, i, k))  BY Zenon, <2>4, <2>5, AdvancedFrom
    <2>7. Iterating(h, itr', todo')  BY Zenon, <2>1, <2>4, <2>6 DEF IteratesOn
    <2> QED  BY Zenon, <2>1, <2>7, QuietStep
  <1> QED  BY <1>1, <1>2

\* What hashtable_iterator_remove makes of the position it advanced to.
Corrected(p, a) == [a EXCEPT !.parent = ParentOf(p, a)]

LEMMA ParentMoves ==
  ASSUME NEW p, NEW o, NEW q, NEW i, IsAt(p, o, q, i), NEW a, NEW d, IsAt(a, d, o, i)
  PROVE  IsAt(Corrected(p, a), d, q, i)
  <1>1. p.e = o /\ p.parent = q  BY DEF IsAt
  <1>2. a = [e |-> d, parent |-> o, index |-> i] /\ a.parent = o  BY DEF IsAt
  <1>3. ParentOf(p, a) = q  BY <1>1, <1>2 DEF ParentOf
  <1>4. [[e |-> d, parent |-> o, index |-> i] EXCEPT !.parent = q]
          = [e |-> d, parent |-> q, index |-> i]
    OBVIOUS
  <1>5. Corrected(p, a) = [e |-> d, parent |-> q, index |-> i]
    BY Zenon, <1>2, <1>3, <1>4 DEF Corrected
  <1> QED  BY Zenon, <1>5 DEF IsAt

LEMMA ParentStays ==
  ASSUME NEW p, p.e # None, NEW a, NEW d, NEW i, IsAt(a, d, None, i)
  PROVE  Corrected(p, a) = a
  <1>1. a = [e |-> d, parent |-> None, index |-> i] /\ a.parent = None  BY DEF IsAt
  <1>2. ParentOf(p, a) = None  BY <1>1 DEF ParentOf
  <1>3. [[e |-> d, parent |-> None, index |-> i] EXCEPT !.parent = None]
          = [e |-> d, parent |-> None, index |-> i]
    OBVIOUS
  <1> QED  BY Zenon, <1>1, <1>2, <1>3 DEF Corrected

\* The head of a later chain has no entry before it.
LEMMA HeadIsAt ==
  ASSUME NEW n \in Nat, NEW g, Tabled(g.table, n), NEW j \in Nat
  PROVE  \E d, i : IsAt(HeadFrom(g, j), d, None, i)
  <1>1. PICK full : full = {i \in DOMAIN g.table : i >= j /\ g.table[i] # <<>>}  OBVIOUS
  <1>2. HeadFrom(g, j) = IF full = {}
                           THEN [e |-> None, parent |-> None, index |-> g.tablelength]
                           ELSE [e |-> Head(g.table[Min(full)]), parent |-> None, index |-> Min(full)]
    BY Zenon, <1>1 DEF HeadFrom
  <1> QED  BY Zenon, <1>2 DEF IsAt

RemovesFrom(x, g, p, i, rest) ==
  p.index = i /\ Iterating(x, Corrected(p, Advanced(x, g.table[i], p)), rest \ {p.e})

\* What is left of an iteration that removes its entry.
LEMMA RemovedFrom ==
  ASSUME NEW n \in Nat, NEW g, Tabled(g.table, n), NEW i \in 0 .. n - 1,
         NEW k \in 1 .. Len(g.table[i]), NEW p, At(g.table, p, i, k),
         NEW r, NEW x, LacksOne(x.table, g.table, n, i, k, r)
  PROVE  RemovesFrom(x, g, p, i, From(g.table, i, k))
  <1>1. PICK t : t = g.table /\ Tabled(t, n)  OBVIOUS
  <1>2. PICK c \in Seq(Objects) : c = t[i] /\ Distinct(c)  BY Zenon, <1>1, ChainOf
  <1>3. PICK m \in Nat : m = Len(c)  BY LenProperties
  <1>4. k \in 1 .. m /\ k \in 1 .. Len(c) /\ k \in 1 .. Len(t[i])  BY Zenon, <1>1, <1>2, <1>3
  <1>5. PICK q : q = IF k = 1 THEN None ELSE t[i][k - 1]  OBVIOUS
  <1>6. IsAt(p, c[k], q, i) /\ p.e = c[k] /\ p.index = i
    <2>1. p = [e |-> c[k], parent |-> q, index |-> i]
      BY <1>1, <1>2, <1>5 DEF PositionAt, At
    <2> QED  BY <2>1 DEF IsAt
  <1>7. PICK a : a = Advanced(x, c, p)  OBVIOUS
  <1>8. PICK rest : rest = From(t, i, k) \ {c[k]}  OBVIOUS
  <1>9. AdvancesTo(a, x, c, k, i)  BY Zenon, <1>2, <1>4, <1>6, <1>7, AdvancedIs
  <1>10. LeftBehind(rest, t, i, k)
    <2>1. LeftBehind(From(t, i, k) \ {t[i][k]}, t, i, k)  BY Zenon, <1>1, <1>4, Passed
    <2> QED  BY Zenon, <1>2, <1>8, <2>1
  <1>11. PICK u : u = x.table /\ LacksOne(u, t, n, i, k, r)  BY Zenon, <1>1
  <1>12. Tabled(u, n) /\ DOMAIN u = 0 .. n - 1  BY <1>11 DEF LacksOne, Tabled
  <1>13. MovesUp(u, t, i, k)  BY Zenon, <1>1, <1>4, <1>11, MovedUp
  <1>14. Iterating(x, Corrected(p, a), rest)
    <2>1. CASE k < m
      <3>1. /\ From(u, i, k) = From(t, i, k + 1) /\ k \in 1 .. Len(u[i])
            /\ PositionAt(u, i, k) = [PositionAt(t, i, k) EXCEPT !.e = t[i][k + 1]]
        BY Zenon, <1>2, <1>3, <1>13, <2>1 DEF MovesUp
      <3>2. IsAt(a, c[k + 1], c[k], i)  BY Zenon, <1>3, <1>9, <2>1 DEF AdvancesTo
      <3>3. IsAt(Corrected(p, a), c[k + 1], q, i)  BY Zenon, <1>6, <3>2, ParentMoves
      <3>4. PositionAt(t, i, k) = [e |-> c[k], parent |-> q, index |-> i]
        BY <1>1, <1>2, <1>5 DEF PositionAt
      <3>5. [[e |-> c[k], parent |-> q, index |-> i] EXCEPT !.e = c[k + 1]]
              = [e |-> c[k + 1], parent |-> q, index |-> i]
        OBVIOUS
      <3>6. Corrected(p, a) = PositionAt(u, i, k)
        BY Zenon, <1>2, <3>1, <3>3, <3>4, <3>5 DEF IsAt
      <3>7. rest = From(u, i, k)  BY Zenon, <1>2, <1>3, <1>10, <2>1, <3>1 DEF LeftBehind
      <3> QED  BY Zenon, <1>11, <1>12, <3>1, <3>6, <3>7 DEF Iterating, Positioned
    <2>2. CASE ~ k < m
      <3>1. i + 1 \in Nat  OBVIOUS
      <3>2. a = HeadFrom(x, i + 1)  BY Zenon, <1>3, <1>9, <2>2 DEF AdvancesTo
      <3>3. PICK d, l : IsAt(a, d, None, l)  BY Zenon, <1>11, <1>12, <3>1, <3>2, HeadIsAt
      <3>4. p.e # None
        <4>1. c[k] \in Objects  BY Zenon, <1>4, ElementOfSeq
        <4> QED  BY <1>6, <4>1, ObjectsAssumption
      <3>5. Corrected(p, a) = a  BY Zenon, <3>3, <3>4, ParentStays
      <3>6. Rest(u, i + 1) = Rest(t, i + 1)  BY Zenon, <1>13 DEF MovesUp
      <3>7. rest = Rest(u, i + 1)
        BY Zenon, <1>2, <1>3, <1>10, <2>2, <3>6 DEF LeftBehind
      <3>8. \/ HeadFrom(x, i + 1) = AtEnd(x) /\ Rest(x.table, i + 1) = {}
            \/ Positioned(x.table, HeadFrom(x, i + 1), Rest(x.table, i + 1))
        BY Zenon, <1>11, <1>12, <3>1, HeadFromIs
      <3> QED  BY Zenon, <1>11, <3>2, <3>5, <3>7, <3>8 DEF Iterating
    <2> QED  BY <2>1, <2>2
  <1> QED  BY Zenon, <1>1, <1>2, <1>6, <1>7, <1>8, <1>14 DEF RemovesFrom

\* hashtable_iterator_remove takes the entry it is at out and goes on behind it.
LEMMA IteratorRemoveStep ==
  ASSUME TableInv, IteratorRemove
  PROVE  Steady /\ (NoEntry \/ OldEntry)
  <1>1. CASE Lost  BY Zenon, <1>1, LostStep
  <1>2. CASE ~ Lost
    <2>1. PICK n \in Nat : \E i \in 0 .. n - 1 : \E k \in 1 .. Len(h.table[i]) :
            /\ Tabled(h.table, n) /\ DOMAIN h.table = 0 .. n - 1
            /\ itr = PositionAt(h.table, i, k) /\ todo = From(h.table, i, k)
      <3>1. AtEntry  BY Zenon DEF IteratorRemove
      <3> QED  BY Zenon, <3>1, PositionOf
    <2>2. PICK i \in 0 .. n - 1 : \E k \in 1 .. Len(h.table[i]) :
            /\ Tabled(h.table, n) /\ DOMAIN h.table = 0 .. n - 1
            /\ itr = PositionAt(h.table, i, k) /\ todo = From(h.table, i, k)
      BY Zenon, <2>1
    <2>3. PICK k \in 1 .. Len(h.table[i]) :
            /\ Tabled(h.table, n) /\ DOMAIN h.table = 0 .. n - 1
            /\ itr = PositionAt(h.table, i, k) /\ todo = From(h.table, i, k)
      BY Zenon, <2>2
    <2>4. At(h.table, itr, i, k) /\ i \in DOMAIN h.table  BY Zenon, <2>3 DEF At
    <2>5. PICK c \in Seq(Objects) : c = h.table[i] /\ Distinct(c) /\ k \in 1 .. Len(c)
      BY Zenon, <2>3, ChainOf
    <2>6. PICK q : q = IF k = 1 THEN None ELSE c[k - 1]  OBVIOUS
    <2>7. itr.e = c[k] /\ itr.parent = q /\ itr.index = i
      <3>1. itr = [e |-> c[k], parent |-> q, index |-> i]
        BY <2>3, <2>5, <2>6 DEF PositionAt
      <3> QED  BY <3>1
    <2>8. PICK r : r = (IF q = None THEN <<>> ELSE SubSeq(c, 1, Place(c, q))) \o Behind(c, c[k])
      OBVIOUS
    <2>9. q \in {None} \cup ToSet(c) /\ CutAt(r, c, k)  BY <2>5, <2>6, <2>8, KeptIs
    <2>10. PICK g : g = [h EXCEPT !.table[i] = r, !.entrycount = @ - 1]  OBVIOUS
    <2>11. /\ h' = g /\ itr' = Corrected(itr, Advanced(g, h.table[i], itr))
           /\ ret' = NameOf[c[k]] /\ todo' = todo \ {itr.e} /\ UNCHANGED <<pmem, pc>>
      <3>1. LET chain == h.table[i]
                before == IF q = None THEN <<>> ELSE SubSeq(chain, 1, Place(chain, q))
                kept == IF q \in {None} \cup ToSet(chain)
                          THEN before \o Behind(chain, c[k]) ELSE chain
                w == [h EXCEPT !.table[i] = kept, !.entrycount = @ - 1]
                p == Advanced(w, chain, itr)
            IN /\ h' = w /\ itr' = Corrected(itr, p)
               /\ ret' = NameOf[c[k]] /\ todo' = todo \ {itr.e} /\ UNCHANGED <<pmem, pc>>
        BY Zenon, <1>2, <2>7 DEF IteratorRemove, Corrected
      <3> QED  BY Zenon, <2>5, <2>8, <2>9, <2>10, <3>1
    <2>12. Sized(h) /\ Shaped(h) /\ Counted(h) /\ h.entrycount \in Int
      BY Zenon DEF TableInv, IInv, Sized
    <2>13. PICK d \in Int : d = h.entrycount - 1
      <3>1. h.entrycount - 1 \in Int  BY <2>12
      <3> QED  BY <3>1
    <2>14. g = Altered(h, [h.table EXCEPT ![i] = r], d)
      BY <2>10, <2>12, <2>13 DEF Sized, Fields, Altered
    <2>15. CutAt(r, h.table[i], k)  BY Zenon, <2>5, <2>9
    <2>16. /\ Shaped(g) /\ Of([h.table EXCEPT ![i] = r]) = Of(h.table) \ {h.table[i][k]}
           /\ h.table[i][k] \in Of(h.table)
      <3>1. /\ Shaped(Altered(h, [h.table EXCEPT ![i] = r], d))
            /\ Of([h.table EXCEPT ![i] = r]) = Of(h.table) \ {h.table[i][k]}
            /\ h.table[i][k] \in Of(h.table)
        BY Zenon, <2>4, <2>12, <2>15, TakeShaped
      <3> QED  BY Zenon, <2>14, <3>1
    <2>17. g.table = [h.table EXCEPT ![i] = r] /\ g.entrycount = h.entrycount - 1
      <3>1. /\ Altered(h, [h.table EXCEPT ![i] = r], d).table = [h.table EXCEPT ![i] = r]
            /\ Altered(h, [h.table EXCEPT ![i] = r], d).entrycount = d
        BY <2>12, AlteredFields
      <3> QED  BY Zenon, <2>13, <2>14, <3>1
    <2>18. LacksOne(g.table, h.table, n, i, k, r)
      <3>1. LacksOne([h.table EXCEPT ![i] = r], h.table, n, i, k, r)
        BY Zenon, <2>3, <2>15, TakeFromTable
      <3> QED  BY Zenon, <2>17, <3>1
    <2>19. Counted(g)
      <3>1. IsFiniteSet(Of(h.table))  BY Zenon, <2>12, MembersAre
      <3>2. Of(g.table) = Of(h.table) \ {h.table[i][k]}  BY Zenon, <2>16, <2>17
      <3> QED  BY Zenon, <2>12, <2>16, <2>17, <3>1, <3>2, CountLess
    <2>20. Iterating(h', itr', todo')
      <3>1. RemovesFrom(g, h, itr, i, From(h.table, i, k))
        BY Zenon, <2>3, <2>4, <2>18, RemovedFrom
      <3> QED  BY Zenon, <2>3, <2>11, <3>1 DEF RemovesFrom
    <2>21. OldEntry
      <3>1. Entries' = Entries \ {h.table[i][k]}  BY Zenon, <2>11, <2>16, <2>17 DEF Entries
      <3> QED  BY Zenon, <2>5, <2>11, <2>16, <3>1 DEF OldEntry, Entries
    <2>22. Typed'
      <3>1. c[k] \in Objects  BY Zenon, <2>5, ElementOfSeq
      <3>2. NameOf[c[k]] \in Names  BY Zenon, <3>1 DEF Names
      <3>3. pmem' = pmem /\ pc' = pc /\ ret' \in Names \cup {None}  BY Zenon, <2>11, <3>2
      <3> QED  BY <3>3 DEF TableInv, Typed
    <2> QED  BY Zenon, <2>11, <2>16, <2>19, <2>20, <2>21, <2>22 DEF Steady
  <1> QED  BY <1>1, <1>2

-----------------------------------------------------------------------------
(* The theorems                                                             *)

LEMMA TableInit == ASSUME Init PROVE TableInv
  <1>1. PICK m \in MinSizes : h = Create(m)  BY DEF Init
  <1>2. pmem \in BOOLEAN /\ itr = NoItr /\ todo = {} /\ ret = None /\ pc = "ok"  BY DEF Init
  <1>3. Sized(h) /\ Bounded(h)  BY Zenon, <1>1, CreateSized
  <1>4. Shaped(h) /\ Counted(h)  BY Zenon, <1>1, CreateShaped
  <1>5. Iterating(h, itr, todo)  BY Zenon, <1>2 DEF Iterating
  <1>6. Typed  BY <1>2 DEF Typed
  <1> QED  BY Zenon, <1>3, <1>4, <1>5, <1>6 DEF TableInv, IInv

LEMMA TableStep ==
  ASSUME TableInv, Next
  PROVE  Steady /\ (NoEntry \/ NewEntry \/ OldEntry)
  <1>1. CASE \E o \in Objects : Insert(o)  BY Zenon, <1>1, InsertStep
  <1>2. CASE \E name \in Names : RemoveKey(name)  BY Zenon, <1>2, RemoveKeyStep
  <1>3. CASE \E name \in Names : IteratorSearch(name)  BY Zenon, <1>3, IteratorSearchStep
  <1>4. CASE Iterator  BY Zenon, <1>4, IteratorStep
  <1>5. CASE IterAdvance  BY Zenon, <1>5, IterAdvanceStep
  <1>6. CASE IteratorRemove  BY Zenon, <1>6, IteratorRemoveStep
  <1>7. CASE Destroy  BY Zenon, <1>7, DestroyStep
  <1> QED  BY Zenon, <1>1, <1>2, <1>3, <1>4, <1>5, <1>6, <1>7 DEF Next

LEMMA TableNext == ASSUME TableInv, IInv', [Next]_vars PROVE TableInv'
  <1>1. CASE Next
    <2>1. Steady  BY Zenon, <1>1, TableStep
    <2> QED  BY Zenon, <2>1 DEF Steady, TableInv
  <1>2. CASE UNCHANGED vars
    <2>1. h' = h /\ itr' = itr /\ todo' = todo /\ pmem' = pmem /\ ret' = ret /\ pc' = pc
      BY <1>2 DEF vars
    <2>2. Typed'  BY <2>1 DEF TableInv, Typed
    <2> QED  BY Zenon, <2>1, <2>2 DEF TableInv
  <1> QED  BY <1>1, <1>2

LEMMA TableInvariant == Spec => []TableInv
  <1>1. Init => TableInv  BY TableInit
  <1>2. TableInv /\ IInv' /\ [Next]_vars => TableInv'  BY TableNext
  <1>3. Spec => []IInv  BY Invariant
  <1> QED  BY <1>1, <1>2, <1>3, PTL DEF Spec

LEMMA ShapeIs ==
  ASSUME TableInv
  PROVE  \E j \in 1 .. h.primeindex : \E n \in Nat :
           /\ n = Primes[j] /\ n <= h.tablelength /\ h.tablelength \in Nat
           /\ Tabled(h.table, n) /\ DOMAIN h.table = 0 .. n - 1
           /\ Whole(h) => n = h.tablelength /\ n # 0 /\ Placement(h.table, n)
  <1>1. Sized(h) /\ Shaped(h)  BY Zenon DEF TableInv, IInv
  <1>2. PICK j \in Nat : ShapedBy(h, j)  BY Zenon, <1>1 DEF Shaped
  <1>3. j \in 1 .. h.primeindex  BY Zenon, <1>2 DEF ShapedBy
  <1>4. PICK n \in Nat \ {0} : n = Primes[j] /\ DOMAIN h.table = 0 .. n - 1
    BY Zenon, <1>1, <1>2, WholeIs
  <1>5. Whole(h) <=> Primes[j] = h.tablelength  BY Zenon, <1>1, <1>2, WholeIs
  <1>6. h.tablelength \in Nat
    <2>1. h.tablelength \in Nat \ {0}  BY Zenon, <1>1, <1>3, PrimeTypes
    <2> QED  BY <2>1
  <1>7. Tabled(h.table, n) /\ n <= h.tablelength /\ (n = h.tablelength => Placement(h.table, n))
    BY Zenon, <1>2, <1>4 DEF ShapedBy
  <1>8. n \in Nat /\ n # 0  BY <1>4
  <1> QED  BY Zenon, <1>3, <1>4, <1>5, <1>6, <1>7, <1>8

LEMMA TodoIs ==
  ASSUME TableInv, itr # NoItr
  PROVE  /\ itr.e = None => todo = {}
         /\ itr.e # None => itr.e \in todo /\ todo \subseteq Entries
  <1>1. CASE itr = AtEnd(h) /\ todo = {}
    <2>1. itr.e = None  BY <1>1 DEF AtEnd
    <2> QED  BY Zenon, <1>1, <2>1
  <1>2. CASE ~ (itr = AtEnd(h) /\ todo = {})
    <2>1. Positioned(h.table, itr, todo)  BY Zenon, <1>2 DEF TableInv, Iterating
    <2>2. PICK n \in Nat : Tabled(h.table, n) /\ DOMAIN h.table = 0 .. n - 1
      BY Zenon, ShapeIs
    <2>3. PICK i \in 0 .. n - 1 : \E k \in 1 .. Len(h.table[i]) :
            itr = PositionAt(h.table, i, k) /\ todo = From(h.table, i, k)
      BY Zenon, <2>1, <2>2 DEF Positioned
    <2>4. PICK k \in 1 .. Len(h.table[i]) :
            itr = PositionAt(h.table, i, k) /\ todo = From(h.table, i, k)
      BY Zenon, <2>3
    <2>5. h.table[i][k] \in From(h.table, i, k) /\ From(h.table, i, k) \subseteq Of(h.table)
      BY Zenon, <2>2, Passed
    <2>6. itr.e = h.table[i][k]  BY <2>4 DEF PositionAt
    <2>7. itr.e # None
      <3>1. Of(h.table) \subseteq Objects  BY Zenon, <2>2, OfTable
      <3> QED  BY <2>5, <2>6, <3>1, ObjectsAssumption
    <2> QED  BY Zenon, <2>4, <2>5, <2>6, <2>7 DEF Entries
  <1> QED  BY <1>1, <1>2

\* An iteration meets each entry from its start on once and leaves out none, whatever it
\* removes on the way (hashtable_itr.c:57-137).
THEOREM IterationsAreExact == Spec => []IterExact
  <1>1. ASSUME TableInv PROVE IterExact
    <2>1. Members = Entries
      <3>1. Sized(h) /\ Shaped(h)  BY Zenon, <1>1 DEF TableInv, IInv
      <3> QED  BY Zenon, <3>1, MembersAre DEF Members, Entries
    <2> QED  BY Zenon, <1>1, <2>1, TodoIs DEF IterExact
  <1> QED  BY <1>1, TableInvariant, PTL

\* A search finds a name exactly when an entry has it, after any expansions that all
\* found memory: every entry is in the chain its hash value and the length name
\* (hashtable.c:138-209, 256-271).
THEOREM SearchesFind == Spec => []Findable
  <1>1. ASSUME TableInv, Whole(h), NEW name \in Names
        PROVE  Search(name) # None <=> \E o \in Members : NameOf[o] = name
    <2>1. PICK n \in Nat : /\ Tabled(h.table, n) /\ DOMAIN h.table = 0 .. n - 1
                           /\ n = h.tablelength /\ n # 0 /\ Placement(h.table, n)
      BY Zenon, <1>1, ShapeIs
    <2>2. PICK i \in 0 .. n - 1 : i = HashOf[name] % n /\ i = Slot(name)
      <3>1. n \in Nat \ {0}  BY <2>1
      <3>2. HashOf[name] % n \in 0 .. n - 1  BY Zenon, <3>1, SlotType
      <3> QED  BY Zenon, <2>1, <3>2 DEF Slot
    <2>3. PICK c \in Seq(Objects) : c = h.table[i]  BY Zenon, <2>1, ChainOf
    <2>4. Search(name) = FirstOf(c, name)  BY Zenon, <2>2, <2>3 DEF Search
    <2>5. FirstOf(c, name) = None <=> \A o \in ToSet(c) : NameOf[o] # name
      BY Zenon, FirstOfIs
    <2>6. \A o : o \in Members <=> \E l \in 0 .. n - 1 : o \in ToSet(h.table[l])
      <3>1. Sized(h) /\ Shaped(h)  BY Zenon, <1>1 DEF TableInv, IInv
      <3>2. Members = Of(h.table)  BY Zenon, <3>1, MembersAre DEF Members
      <3> QED  BY Zenon, <2>1, <3>2, OfTable
    <2>7. \A l \in 0 .. n - 1 : \A o \in ToSet(h.table[l]) : NameOf[o] = name => l = i
      BY Zenon, <2>1, <2>2 DEF Placement
    <2> QED  BY Zenon, <2>3, <2>4, <2>5, <2>6, <2>7
  <1>2. TableInv => Findable  BY Zenon, <1>1 DEF Findable
  <1> QED  BY <1>2, TableInvariant, PTL

LEMMA ItrType ==
  ASSUME TableInv
  PROVE  itr = NoItr \/ itr \in [e : Objects \cup {None}, parent : Objects \cup {None},
                                 index : 0 .. h.tablelength]
  <1>1. PICK n \in Nat : /\ Tabled(h.table, n) /\ DOMAIN h.table = 0 .. n - 1
                         /\ n <= h.tablelength /\ h.tablelength \in Nat
    BY Zenon, ShapeIs
  <1>2. PICK l \in Nat : l = h.tablelength  BY <1>1
  <1>3. CASE itr = AtEnd(h)
    <2>1. itr = [e |-> None, parent |-> None, index |-> l] /\ l \in 0 .. l
      BY <1>2, <1>3 DEF AtEnd
    <2> QED  BY <1>2, <2>1
  <1>4. CASE Positioned(h.table, itr, todo)
    <2>1. PICK i \in 0 .. n - 1 : \E k \in 1 .. Len(h.table[i]) : itr = PositionAt(h.table, i, k)
      BY Zenon, <1>1, <1>4 DEF Positioned
    <2>2. PICK c \in Seq(Objects) : c = h.table[i]  BY Zenon, <1>1, ChainOf
    <2>3. PICK m \in Nat : m = Len(c)  BY LenProperties
    <2>4. PICK k \in 1 .. m : itr = PositionAt(h.table, i, k)  BY Zenon, <2>1, <2>2, <2>3
    <2>5. PICK q : q = IF k = 1 THEN None ELSE c[k - 1]  OBVIOUS
    <2>6. itr = [e |-> c[k], parent |-> q, index |-> i]
      BY <2>2, <2>4, <2>5 DEF PositionAt
    <2>7. \A a \in 1 .. m : c[a] \in Objects  BY Zenon, <2>3, ElementOfSeq
    <2>8. c[k] \in Objects \cup {None} /\ q \in Objects \cup {None}
      <3>1. k # 1 => k - 1 \in 1 .. m  OBVIOUS
      <3> QED  BY <2>5, <2>7, <3>1
    <2>9. i \in 0 .. l
      <3>1. n <= l  BY <1>1, <1>2
      <3> QED  BY <3>1
    <2> QED  BY <1>2, <2>6, <2>8, <2>9
  <1> QED  BY Zenon, <1>3, <1>4 DEF TableInv, Iterating

LEMMA Types == ASSUME TableInv PROVE TypeOK
  <1>1. Sized(h) /\ Shaped(h) /\ Counted(h)  BY Zenon DEF TableInv, IInv
  <1>2. PICK j \in 1 .. h.primeindex, n \in Nat :
          n = Primes[j] /\ Tabled(h.table, n) /\ DOMAIN h.table = 0 .. n - 1
    BY Zenon, ShapeIs
  <1>3. \A i \in DOMAIN h.table : h.table[i] \in Seq(Objects)
    BY Zenon, <1>2, ChainOf
  <1>4. /\ h.primeindex \in DOMAIN Primes /\ h.tablelength = Primes[h.primeindex]
        /\ h.loadlimit = LoadLimit(h.tablelength)
    BY Zenon, <1>1 DEF Sized
  <1>5. h.entrycount \in 0 .. Cardinality(Objects)
    <2>1. PICK S : S = Of(h.table)  OBVIOUS
    <2>2. S \subseteq Objects /\ h.entrycount = Cardinality(S)
      BY Zenon, <1>1, <2>1, MembersAre DEF Counted
    <2>3. /\ IsFiniteSet(S) /\ Cardinality(S) <= Cardinality(Objects)
          /\ Cardinality(S) \in Nat /\ Cardinality(Objects) \in Nat
      BY <2>2, ObjectsAssumption, FS_Subset, FS_CardinalityType
    <2> QED  BY <2>2, <2>3
  <1>6. todo \subseteq Objects
    <2>1. CASE itr = NoItr
      <3>1. todo = {} \/ itr = AtEnd(h) \/ Positioned(h.table, itr, todo)
        BY Zenon DEF TableInv, Iterating
      <3>2. itr # AtEnd(h)  BY <2>1 DEF NoItr, AtEnd
      <3>3. ~ Positioned(h.table, itr, todo)  BY <2>1 DEF Positioned, PositionAt, NoItr
      <3> QED  BY <3>1, <3>2, <3>3
    <2>2. CASE itr # NoItr
      <3>1. Entries \subseteq Objects  BY Zenon, <1>2, OfTable DEF Entries
      <3> QED  BY Zenon, <2>2, <3>1, TodoIs
    <2> QED  BY <2>1, <2>2
  <1>7. Length(h) = n
    <2>1. 0 \in Int /\ n - 1 \in Int  BY <1>2
    <2>2. Cardinality(0 .. n - 1) = IF 0 > n - 1 THEN 0 ELSE (n - 1) - 0 + 1
      BY <2>1, FS_Interval
    <2>3. Cardinality(0 .. n - 1) = n  BY <1>2, <2>2
    <2> QED  BY Zenon, <1>2, <2>3 DEF Length
  <1>8. Length(h) \in {Primes[i] : i \in 1 .. h.primeindex}  BY Zenon, <1>2, <1>7
  <1>9. Typed  BY Zenon DEF TableInv
  <1> QED  BY Zenon, <1>3, <1>4, <1>5, <1>6, <1>8, <1>9, ItrType DEF TypeOK, Typed

\* The table is well formed and entrycount counts its entries: none is in two chains, and
\* none was lost by an expansion, a removal or a removal by iterator (hashtable_count,
\* hashtable.c:212-216).
THEOREM CountsAreExact == Spec => []CountExact
  <1>1. ASSUME TableInv PROVE CountExact
    <2>1. Sized(h) /\ Shaped(h) /\ Counted(h)  BY Zenon, <1>1 DEF TableInv, IInv
    <2>2. Len(Chains(h)) = Cardinality(Of(h.table)) /\ Members = Of(h.table)
      BY Zenon, <2>1, MembersAre DEF Members
    <2> QED  BY Zenon, <1>1, <2>1, <2>2, Types DEF CountExact, Counted
  <1> QED  BY <1>1, TableInvariant, PTL

-----------------------------------------------------------------------------
(* The bag of names                                                         *)

NamesOf(S) == [name \in Names |-> Cardinality({o \in S : NameOf[o] = name})]

\* How a bag of names changes by one.
OneMore(b, c, k) == k \in Names /\ b = [c EXCEPT ![k] = @ + 1]
OneFewer(b, c, k) == k \in Names /\ c[k] > 0 /\ b = [c EXCEPT ![k] = @ - 1]

LEMMA NamesMore ==
  ASSUME NEW S, S \subseteq Objects, NEW o \in Objects \ S
  PROVE  OneMore(NamesOf(S \cup {o}), NamesOf(S), NameOf[o])
  <1> DEFINE Have(T, name) == {x \in T : NameOf[x] = name}
  <1>1. IsFiniteSet(S)  BY ObjectsAssumption, FS_Subset
  <1>2. ASSUME NEW name \in Names
        PROVE  Cardinality(Have(S \cup {o}, name)) =
                 IF name = NameOf[o] THEN Cardinality(Have(S, name)) + 1
                                     ELSE Cardinality(Have(S, name))
    <2>1. CASE name = NameOf[o]
      <3>1. Have(S \cup {o}, name) = Have(S, name) \cup {o} /\ o \notin Have(S, name)
        BY <2>1
      <3>2. IsFiniteSet(Have(S, name))
        <4>1. Have(S, name) \subseteq S  OBVIOUS
        <4> HIDE DEF Have
        <4> QED  BY <1>1, <4>1, FS_Subset
      <3> HIDE DEF Have
      <3>3. Cardinality(Have(S, name) \cup {o}) = Cardinality(Have(S, name)) + 1
        BY <3>1, <3>2, FS_AddElement
      <3> QED  BY <2>1, <3>1, <3>3
    <2>2. CASE name # NameOf[o]
      <3>1. Have(S \cup {o}, name) = Have(S, name)  BY <2>2
      <3> HIDE DEF Have
      <3> QED  BY <2>2, <3>1
    <2> QED  BY <2>1, <2>2
  <1>3. \A T : NamesOf(T) = [name \in Names |-> Cardinality(Have(T, name))]  BY DEF NamesOf
  <1>4. NameOf[o] \in Names  BY NameType
  <1> HIDE DEF Have
  <1> QED  BY <1>2, <1>3, <1>4 DEF OneMore

LEMMA NamesFewer ==
  ASSUME NEW S, S \subseteq Objects, NEW o \in S
  PROVE  OneFewer(NamesOf(S \ {o}), NamesOf(S), NameOf[o])
  <1>1. PICK T : T = S \ {o} /\ T \subseteq Objects /\ S = T \cup {o} /\ o \in Objects \ T
    <2>1. PICK T : T = S \ {o}  OBVIOUS
    <2>2. \A x : x \in S <=> x \in T \cup {o}  BY <2>1
    <2>3. S = T \cup {o}  BY Zenon, <2>2
    <2> QED  BY <2>1, <2>3
  <1>2. PICK k \in Names : k = NameOf[o]  BY NameType
  <1>3. NamesOf(S) = [NamesOf(T) EXCEPT ![k] = @ + 1]
    BY Zenon, <1>1, <1>2, NamesMore DEF OneMore
  <1>4. PICK f : f = NamesOf(T)  OBVIOUS
  <1>5. f = [name \in Names |-> f[name]] /\ f[k] \in Nat
    <2>1. {x \in T : NameOf[x] = k} \subseteq Objects  BY <1>1
    <2>2. PICK C : C = {x \in T : NameOf[x] = k}  OBVIOUS
    <2>3. Cardinality(C) \in Nat
      BY <2>1, <2>2, ObjectsAssumption, FS_Subset, FS_CardinalityType
    <2> QED  BY <1>4, <2>2, <2>3 DEF NamesOf
  <1>6. PICK g : g = [f EXCEPT ![k] = @ + 1]  OBVIOUS
  <1>7. g[k] > 0 /\ f = [g EXCEPT ![k] = @ - 1]  BY <1>5, <1>6
  <1> QED  BY <1>1, <1>2, <1>3, <1>4, <1>6, <1>7 DEF OneFewer

LEMMA BagInit == ASSUME Init PROVE Bag!Init
  <1>1. PICK m \in MinSizes : h = Create(m)  BY DEF Init
  <1>2. Sized(h) /\ Shaped(h) /\ Of(h.table) = {}
    BY Zenon, <1>1, CreateSized, CreateShaped
  <1>3. Members = {}  BY Zenon, <1>2, MembersAre DEF Members
  <1>4. \A name \in Names : Cardinality({o \in Members : NameOf[o] = name}) = 0
    <2>1. \A name : {o \in Members : NameOf[o] = name} = {}  BY <1>3
    <2> QED  BY <2>1, FS_EmptySet
  <1> QED  BY <1>4 DEF Bag!Init, Init

\* The table is a bag of names that each call changes by one, and a removal hands back the
\* name it took (hashtable.c:219-310, hashtable_itr.c:102-137).
THEOREM TableIsABag == Spec => ImplementsBag
  <1>1. Init => Bag!Init  BY BagInit
  <1>2. ASSUME TableInv, TableInv', [Next]_vars
        PROVE  [Bag!Next]_<<[name \in Names |->
                               Cardinality({o \in Members : NameOf[o] = name})], ret>>
    <2>1. Members = Entries /\ Entries \subseteq Objects
      <3>1. Sized(h) /\ Shaped(h)  BY Zenon, <1>2 DEF TableInv, IInv
      <3> QED  BY Zenon, <3>1, MembersAre DEF Members, Entries
    <2>2. Members' = Entries'
      <3>1. Sized(h') /\ Shaped(h')  BY Zenon, <1>2 DEF TableInv, IInv
      <3> QED  BY Zenon, <3>1, MembersAre DEF Members, Entries
    <2>3. PICK S, T : S = Entries /\ T = Entries'  OBVIOUS
    <2>4. PICK b, c : b = NamesOf(T) /\ c = NamesOf(S)  OBVIOUS
    <2>5. /\ [name \in Names |-> Cardinality({o \in Members : NameOf[o] = name})] = c
          /\ [name \in Names |-> Cardinality({o \in Members : NameOf[o] = name})]' = b
      BY <2>1, <2>2, <2>3, <2>4 DEF NamesOf
    <2>6. \/ b = c /\ ret' = ret
          \/ \E k \in Names : OneMore(b, c, k) /\ ret' = ret
          \/ \E k \in Names : OneFewer(b, c, k) /\ ret' = k
      <3>1. CASE UNCHANGED vars
        <4>1. h' = h /\ ret' = ret  BY <3>1 DEF vars
        <4>2. S = T  BY Zenon, <2>3, <4>1 DEF Entries
        <4> QED  BY Zenon, <2>4, <4>1, <4>2
      <3>2. CASE Next
        <4>1. NoEntry \/ NewEntry \/ OldEntry  BY Zenon, <1>2, <3>2, TableStep
        <4>2. CASE NoEntry  BY Zenon, <2>3, <2>4, <4>2 DEF NoEntry
        <4>3. CASE NewEntry
          <5>1. PICK o \in Objects \ S : T = S \cup {o} /\ ret' = ret
            BY Zenon, <2>3, <4>3 DEF NewEntry
          <5>2. OneMore(NamesOf(S \cup {o}), NamesOf(S), NameOf[o])
            BY Zenon, <2>1, <2>3, <5>1, NamesMore
          <5>3. NameOf[o] \in Names  BY Zenon, <5>2 DEF OneMore
          <5> QED  BY Zenon, <2>4, <5>1, <5>2, <5>3
        <4>4. CASE OldEntry
          <5>1. PICK o \in S : T = S \ {o} /\ ret' = NameOf[o]
            BY Zenon, <2>3, <4>4 DEF OldEntry
          <5>2. OneFewer(NamesOf(S \ {o}), NamesOf(S), NameOf[o])
            BY Zenon, <2>1, <2>3, NamesFewer
          <5>3. NameOf[o] \in Names  BY Zenon, <5>2 DEF OneFewer
          <5> QED  BY Zenon, <2>4, <5>1, <5>2, <5>3
        <4> QED  BY <4>1, <4>2, <4>3, <4>4
      <3> QED  BY <1>2, <3>1, <3>2
    <2>7. CASE b = c /\ ret' = ret  BY <2>5, <2>7
    <2>8. CASE \E k \in Names : OneMore(b, c, k) /\ ret' = ret
      BY <2>5, <2>8 DEF Bag!Next, Bag!Insert, OneMore
    <2>9. CASE \E k \in Names : OneFewer(b, c, k) /\ ret' = k
      BY <2>5, <2>9 DEF Bag!Next, Bag!Delete, OneFewer
    <2> QED  BY <2>6, <2>7, <2>8, <2>9
  <1> QED  BY <1>1, <1>2, TableInvariant, PTL DEF Spec, ImplementsBag, Bag!Spec
===============================================================================
