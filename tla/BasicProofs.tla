------------------------------ MODULE BasicProofs ------------------------------
(***************************************************************************)
(* What pmem_persist promises holds for a file, a line, a page and a redo    *)
(* log of every size, at every alignment and in every mode of libpmem: a     *)
(* string is durable once the call has returned, cl mode flushes nothing it   *)
(* has not logged, and a run in fit mode leaves nothing it did not flush.     *)
(*                                                                         *)
(* The promise is about what the call leaves; what makes it inductive is how  *)
(* far a running call has come: below the loop's pointer, a multiple of a     *)
(* line, every byte of the range is where it will be kept.                   *)
(***************************************************************************)
EXTENDS Basic, SequenceTheorems, WellFoundedInduction, TLAPS

-----------------------------------------------------------------------------
(* Induction and recursion                                                  *)

\* A set of numbers that holds 0 and the successor of each of its numbers up to n holds
\* them all.
LEMMA UpTo ==
  ASSUME NEW n \in Nat, NEW S, 0 \in S, \A k \in 0 .. n : k < n /\ k \in S => k + 1 \in S
  PROVE  \A k \in 0 .. n : k \in S
  <1> DEFINE Bad == {k \in 0 .. n : k \notin S}
  <1>1. SUFFICES ASSUME Bad # {} PROVE FALSE  OBVIOUS
  <1>2. PICK p \in Bad : \A q \in Bad : ~ (<<q, p>> \in OpToRel(<, Nat))
    <2>1. Bad \subseteq Nat  OBVIOUS
    <2> HIDE DEF Bad
    <2> QED  BY <1>1, <2>1, WFMin, NatLessThanWellFounded
  <1>3. p \in Nat /\ p # 0  OBVIOUS
  <1>4. PICK m \in 0 .. n : m = p - 1 /\ m < n /\ p = m + 1  BY <1>3
  <1>5. m \notin Bad
    <2>1. <<m, p>> \in {z \in Nat \X Nat : z[1] < z[2]}  BY <1>3, <1>4
    <2> QED  BY <1>2, <2>1 DEF OpToRel
  <1> QED  BY <1>4, <1>5

\* Each value of f from 1 to n is a step from the one before.
Stepped(f, w, step, n) == f[0] = w /\ \A k \in 1 .. n : f[k] = step[k][f[k - 1]]

\* A function whose value at k + 1 is a step from its value at k exists.
LEMMA Recursion ==
  ASSUME NEW W, NEW w \in W, NEW step \in [Nat -> [W -> W]], NEW n \in Nat
  PROVE  \E f \in [0 .. n -> W] : Stepped(f, w, step, n)
  <1> DEFINE Upto(f, m) ==
               f \in [0 .. m -> W] /\ f[0] = w /\ \A k \in 1 .. m : f[k] = step[k][f[k - 1]]
             S == {m \in 0 .. n : \E f : Upto(f, m)}
  <1>1. 0 \in S
    <2> DEFINE g == [k \in {0} |-> w]
    <2>1. g \in [0 .. 0 -> W]
      <3>1. 0 .. 0 = {0}  OBVIOUS
      <3> QED  BY <3>1
    <2>2. g[0] = w /\ \A k \in 1 .. 0 : g[k] = step[k][g[k - 1]]  OBVIOUS
    <2>3. Upto(g, 0)
      <3> HIDE DEF g
      <3> QED  BY <2>1, <2>2
    <2>4. 0 \in 0 .. n  OBVIOUS
    <2> HIDE DEF g, Upto
    <2> QED  BY <2>3, <2>4
  <1>2. ASSUME NEW m \in 0 .. n, m < n, m \in S  PROVE m + 1 \in S
    <2>1. PICK f : Upto(f, m)  BY <1>2
    <2> DEFINE g == [k \in 0 .. m + 1 |-> IF k = m + 1 THEN step[m + 1][f[m]] ELSE f[k]]
    <2>2. m \in Nat /\ m + 1 \in Nat  OBVIOUS
    <2>3. f[m] \in W  BY <2>1
    <2>4. step[m + 1][f[m]] \in W  BY <2>2, <2>3
    <2>5. g \in [0 .. m + 1 -> W]
      <3>1. ASSUME NEW k \in 0 .. m + 1, k # m + 1 PROVE f[k] \in W
        <4>1. k \in 0 .. m  BY <3>1
        <4> QED  BY <2>1, <4>1
      <3> QED  BY <2>4, <3>1
    <2>6. g[0] = w  BY <2>1, <2>2
    <2>7. ASSUME NEW k \in 1 .. m + 1 PROVE g[k] = step[k][g[k - 1]]
      <3>1. k - 1 \in 0 .. m + 1 /\ k - 1 # m + 1 /\ g[k - 1] = f[k - 1]  OBVIOUS
      <3>2. CASE k = m + 1
        <4>1. k - 1 = m /\ g[k] = step[m + 1][f[m]]  BY <3>2
        <4> QED  BY <3>1, <3>2, <4>1
      <3>3. CASE k # m + 1
        <4>1. k \in 1 .. m /\ g[k] = f[k]  BY <3>3
        <4> QED  BY <2>1, <3>1, <4>1
      <3> QED  BY <3>2, <3>3
    <2>8. Upto(g, m + 1)
      <3> HIDE DEF g
      <3> QED  BY <2>5, <2>6, <2>7
    <2>9. m + 1 \in 0 .. n  BY <1>2
    <2> HIDE DEF g, Upto
    <2> QED  BY <2>8, <2>9
  <1>3. \A k \in 0 .. n : k \in S
    <2> HIDE DEF S
    <2> QED  BY <1>1, <1>2, UpTo
  <1>4. n \in S  BY <1>3
  <1> QED  BY <1>4 DEF Stepped

\* FlattenSeq appends the sequences one after the other.
Joining(f, seqs, T) ==
  /\ f \in [0 .. Len(seqs) -> Seq(T)]
  /\ f[0] = <<>>
  /\ \A k \in 1 .. Len(seqs) : f[k] = f[k - 1] \o seqs[k]

LEMMA FlattenJoins ==
  ASSUME NEW T, NEW seqs \in Seq(Seq(T))
  PROVE  \E f : Joining(f, seqs, T) /\ FlattenSeq(seqs) = f[Len(seqs)]
  <1> DEFINE n == Len(seqs)
             item(k) == IF k \in 1 .. n THEN seqs[k] ELSE <<>>
             step == [k \in Nat |-> [x \in Seq(T) |-> x \o item(k)]]
             P(g) == g = [i \in 1 .. n |-> IF i = 1 THEN seqs[i] ELSE g[i - 1] \o seqs[i]]
  <1>1. n \in Nat /\ \A k \in 1 .. n : seqs[k] \in Seq(T) /\ item(k) = seqs[k]  OBVIOUS
  <1>2. \A k \in Nat : item(k) \in Seq(T)
    <2>1. <<>> \in Seq(T)  OBVIOUS
    <2> QED  BY <1>1, <2>1
  <1>3. step \in [Nat -> [Seq(T) -> Seq(T)]]
    <2>1. \A k \in Nat, x \in Seq(T) : x \o item(k) \in Seq(T)
      <3> HIDE DEF item
      <3> QED  BY <1>2
    <2> HIDE DEF item
    <2> QED  BY <2>1
  <1>4. PICK f \in [0 .. n -> Seq(T)] :
          f[0] = <<>> /\ \A k \in 1 .. n : f[k] = step[k][f[k - 1]]
    <2> HIDE DEF n, step, item, P
    <2>1. <<>> \in Seq(T)  OBVIOUS
    <2>2. \E f \in [0 .. n -> Seq(T)] : Stepped(f, <<>>, step, n)
      BY <1>1, <1>3, <2>1, Recursion
    <2> QED  BY <2>2 DEF Stepped
  <1>5. ASSUME NEW k \in 1 .. n  PROVE f[k] = f[k - 1] \o seqs[k]
    <2>1. k - 1 \in 0 .. n /\ k \in Nat  BY <1>1
    <2>2. f[k - 1] \in Seq(T)  BY <1>4, <2>1
    <2>3. step[k][f[k - 1]] = f[k - 1] \o item(k)
      <3> HIDE DEF item
      <3> QED  BY <2>1, <2>2
    <2> HIDE DEF item, step
    <2> QED  BY <1>1, <1>4, <2>3
  <1>6. Joining(f, seqs, T)  BY <1>4, <1>5 DEF Joining
  <1>7. CASE n = 0
    <2>1. FlattenSeq(seqs) = seqs /\ seqs = <<>>  BY <1>7 DEF FlattenSeq
    <2> QED  BY <1>4, <1>6, <1>7, <2>1
  <1>8. CASE n # 0
    <2>1. 1 \in 1 .. n /\ n \in 1 .. n  BY <1>1, <1>8
    <2>2. f[1] = seqs[1]
      <3>1. f[1] = <<>> \o seqs[1]
        <4>1. f[1] = f[1 - 1] \o seqs[1]  BY <1>5, <2>1
        <4>2. 1 - 1 = 0 /\ f[0] = <<>>
          <5> HIDE DEF step
          <5> QED  BY <1>4
        <4> QED  BY <4>1, <4>2
      <3>2. seqs[1] \in Seq(T)  BY <1>1, <2>1
      <3> QED  BY <3>1, <3>2, ConcatEmptySeq
    <2> DEFINE g == [i \in 1 .. n |-> f[i]]
    <2>3. P(g)
      <3>1. ASSUME NEW i \in 1 .. n
            PROVE  f[i] = IF i = 1 THEN seqs[i] ELSE g[i - 1] \o seqs[i]
        <4>1. CASE i = 1  BY <2>2, <4>1
        <4>2. CASE i # 1
          <5>1. i - 1 \in 1 .. n  BY <1>1, <4>2
          <5>2. g[i - 1] = f[i - 1]  BY <5>1
          <5> HIDE DEF g
          <5> QED  BY <1>5, <4>2, <5>2
        <4> QED  BY <4>1, <4>2
      <3> QED  BY <3>1
    <2>4. FlattenSeq(seqs) = (CHOOSE h : P(h))[n]
      <3>1. Len(seqs) # 0  BY <1>8
      <3> QED  BY Zenon, <3>1 DEF FlattenSeq
    <2>5. P(CHOOSE h : P(h))
      <3> HIDE DEF P, g
      <3> QED  BY <2>3
    <2>6. ASSUME NEW h, P(h)  PROVE h[n] = f[n]
      <3> DEFINE S == {k \in 0 .. n : k = 0 \/ h[k] = f[k]}
      <3>1. 0 \in S  BY <1>1
      <3>2. ASSUME NEW k \in 0 .. n, k < n, k \in S  PROVE k + 1 \in S
        <4>1. k + 1 \in 1 .. n /\ k + 1 \in 0 .. n /\ (k + 1) - 1 = k  BY <1>1, <3>2
        <4>2. h[k + 1] = IF k + 1 = 1 THEN seqs[k + 1] ELSE h[k] \o seqs[k + 1]
          BY <2>6, <4>1
        <4>3. f[k + 1] = f[k] \o seqs[k + 1]  BY <1>5, <4>1
        <4>4. h[k + 1] = f[k + 1]
          <5>1. CASE k = 0  BY <2>2, <4>2, <5>1
          <5>2. CASE k # 0
            <6>1. h[k] = f[k] /\ k + 1 # 1  BY <3>2, <5>2
            <6> QED  BY <4>2, <4>3, <6>1
          <5> QED  BY <5>1, <5>2
        <4> QED  BY <4>1, <4>4
      <3>3. \A k \in 0 .. n : k \in S
        <4> HIDE DEF S, n
        <4> QED  BY <1>1, <3>1, <3>2, UpTo
      <3>4. n \in S  BY <1>1, <3>3
      <3> QED  BY <1>8, <3>4
    <2>7. FlattenSeq(seqs) = f[n]
      <3> HIDE DEF P, n
      <3> QED  BY <2>4, <2>5, <2>6
    <2> QED  BY <1>6, <2>7
  <1> QED  BY <1>7, <1>8

-----------------------------------------------------------------------------
(* Rounding                                                                 *)

\* A product grows with its second factor.
LEMMA MulLe ==
  ASSUME NEW p \in Int, NEW q \in Int, NEW u \in Nat, p <= q
  PROVE  u * p <= u * q
  BY SMT

LEMMA MulNext ==
  ASSUME NEW p \in Int, NEW u \in Nat
  PROVE  u * (p + 1) = u * p + u
  BY SMT

\* A number that is neither below u * q nor beyond the next multiple has quotient q.
LEMMA DivUnique ==
  ASSUME NEW u \in Nat, NEW p \in Int, NEW q \in Int, NEW s \in Nat,
         u * q <= u * p + s, u * p + s < u * q + u, s < u
  PROVE  p = q
  <1>1. u * p \in Int /\ u * q \in Int  OBVIOUS
  <1>2. ~ p < q
    <2>1. SUFFICES ASSUME p < q PROVE FALSE  OBVIOUS
    <2>2. p + 1 <= q  BY <2>1
    <2>3. u * (p + 1) <= u * q  BY <2>2, MulLe
    <2>4. u * p + u <= u * q  BY <2>3, MulNext
    <2> QED  BY <2>4, <1>1
  <1>3. ~ q < p
    <2>1. SUFFICES ASSUME q < p PROVE FALSE  OBVIOUS
    <2>2. q + 1 <= p  BY <2>1
    <2>3. u * (q + 1) <= u * p  BY <2>2, MulLe
    <2>4. u * q + u <= u * p  BY <2>3, MulNext
    <2> QED  BY <2>4, <1>1
  <1> QED  BY <1>2, <1>3

LEMMA ModDiv ==
  ASSUME NEW n \in Nat, NEW u \in Nat \ {0}
  PROVE  /\ n \div u \in Nat /\ (n % u) \in Nat /\ (n % u) < u
         /\ n = (u * (n \div u)) + (n % u)
  <1>1. n \div u \in Nat  BY SMT
  <1>2. (n % u) \in Nat /\ (n % u) < u  BY SMT
  <1>3. n = (u * (n \div u)) + (n % u)  BY SMT
  <1> QED  BY <1>1, <1>2, <1>3

\* One unit further, at the same place in the unit.
LEMMA ModAdd ==
  ASSUME NEW n \in Nat, NEW u \in Nat \ {0}
  PROVE  ((n + u) % u) = (n % u)
  <1>1. PICK q \in Nat, r \in Nat : r = n % u /\ r < u /\ n = (u * q) + r  BY ModDiv
  <1>2. PICK p \in Nat, s \in Nat : s = (n + u) % u /\ s < u /\ n + u = (u * p) + s
    <2>1. n + u \in Nat  OBVIOUS
    <2> QED  BY <2>1, ModDiv
  <1>3. u * (q + 1) = u * q + u  BY MulNext
  <1>4. u * p \in Int /\ u * q \in Int /\ u * (q + 1) \in Int  OBVIOUS
  <1>5. u * (q + 1) <= u * p + s /\ u * p + s < u * (q + 1) + u
    BY <1>1, <1>2, <1>3, <1>4
  <1>6. p = q + 1  BY <1>5, <1>2, DivUnique
  <1>7. u * p = u * q + u  BY <1>6, <1>3
  <1> QED  BY <1>1, <1>2, <1>7, <1>4

\* RoundDown is a multiple of the unit, at most a unit below.
LEMMA DownProps ==
  ASSUME NEW n \in Nat, NEW u \in Nat \ {0}
  PROVE  /\ RoundDown(n, u) \in Nat /\ RoundDown(n, u) <= n /\ n < RoundDown(n, u) + u
         /\ (RoundDown(n, u) % u) = 0
  <1>1. PICK q \in Nat, r \in Nat : r = n % u /\ r < u /\ n = (u * q) + r  BY ModDiv
  <1>2. u * q \in Nat
    <2>1. u * 0 <= u * q  BY MulLe
    <2>2. u * 0 = 0 /\ u * q \in Int  OBVIOUS
    <2> QED  BY <2>1, <2>2
  <1>3. PICK d \in Nat : d = n - r /\ d = u * q
    <2>1. PICK d \in Nat : d = u * q  BY <1>2
    <2>2. n = d + r  BY <1>1, <2>1
    <2> QED  BY <2>1, <2>2
  <1>4. PICK p \in Nat, s \in Nat : s = d % u /\ s < u /\ d = (u * p) + s  BY ModDiv
  <1>5. u * q <= u * p + s /\ u * p + s < u * q + u  BY <1>3, <1>4
  <1>6. p = q  BY <1>5, <1>4, DivUnique
  <1>7. s = 0
    <2>1. u * p = d  BY <1>6, <1>3
    <2>2. d = d + s  BY <2>1, <1>4
    <2> QED  BY <2>2
  <1>8. RoundDown(n, u) = d  BY <1>1, <1>3 DEF RoundDown
  <1>9. d <= n /\ n < d + u  BY <1>1, <1>3
  <1> QED  BY <1>4, <1>7, <1>8, <1>9

\* The bytes of the unit that starts at a multiple are those rounded down to it.
LEMMA DownTo ==
  ASSUME NEW n \in Nat, NEW b \in Nat, NEW u \in Nat \ {0}, n % u = 0, n <= b, b < n + u
  PROVE  RoundDown(b, u) = n
  <1>1. PICK q \in Nat : n = u * q
    <2>1. n = (u * (n \div u)) + (n % u) /\ n \div u \in Nat  BY ModDiv
    <2>2. u * (n \div u) \in Int  BY <2>1
    <2> QED  BY <2>1, <2>2
  <1>2. PICK p \in Nat, s \in Nat : s = b % u /\ s < u /\ b = (u * p) + s
    <2>1. /\ b \div u \in Nat /\ (b % u) \in Nat /\ (b % u) < u
          /\ b = (u * (b \div u)) + (b % u)
      BY ModDiv
    <2> QED  BY Zenon, <2>1
  <1>3. u * q <= u * p + s /\ u * p + s < u * q + u  BY <1>1, <1>2
  <1>4. p = q  BY <1>3, <1>2, DivUnique
  <1>5. u * q \in Int  OBVIOUS
  <1> QED  BY <1>4, <1>2, <1>1, <1>5 DEF RoundDown

\* RoundUp is not below its argument, and a unit that starts below the argument
\* ends at it or before.
LEMMA UpProps ==
  ASSUME NEW n \in Nat, NEW u \in Nat \ {0}
  PROVE  /\ RoundUp(n, u) \in Nat /\ n <= RoundUp(n, u)
         /\ \A m \in Nat : m % u = 0 /\ m < n => m + u <= RoundUp(n, u)
  <1>1. PICK k \in Nat : k = n + u - 1  OBVIOUS
  <1>2. PICK d \in Nat : d = RoundDown(k, u) /\ d <= k /\ k < d + u /\ d % u = 0
    BY DownProps
  <1>3. RoundUp(n, u) = d  BY <1>1, <1>2 DEF RoundUp
  <1>4. n <= d  BY <1>1, <1>2
  <1>5. ASSUME NEW m \in Nat, m % u = 0, m < n, ~ m + u <= d  PROVE FALSE
    <2>1. m <= d /\ d < m + u  BY <1>4, <1>5
    <2>2. RoundDown(d, u) = m  BY <2>1, <1>5, DownTo
    <2>3. RoundDown(d, u) = d  BY <1>2 DEF RoundDown
    <2>4. m = d  BY <2>2, <2>3
    <2> QED  BY <2>4, <1>5, <1>4
  <1> QED  BY <1>3, <1>4, <1>5

LEMMA PageFits == Page <= Size
  <1>1. PICK q \in Nat : Size = Page * q
    <2>1. Size = (Page * (Size \div Page)) + (Size % Page) /\ Size \div Page \in Nat
      BY ModDiv, SizesAssumption
    <2>2. Page * (Size \div Page) \in Int  BY <2>1, SizesAssumption
    <2> QED  BY <2>1, <2>2, SizesAssumption
  <1>2. q # 0
    <2>1. Page * 0 = 0 /\ Size # 0  BY SizesAssumption
    <2> QED  BY <1>1, <2>1
  <1>3. Page * 1 <= Page * q  BY <1>2, MulLe, SizesAssumption
  <1> QED  BY <1>1, <1>3, SizesAssumption

-----------------------------------------------------------------------------
(* What a dump prints                                                       *)

Scans == [out : Seq(Nat), sep : BOOLEAN]

\* The recursion of Dump.
Scanning(f, image) ==
  /\ f \in [0 .. Size -> Scans]
  /\ f[0] = [out |-> <<>>, sep |-> FALSE]
  /\ \A k \in 1 .. Size :
       f[k] = IF image[k - 1] # 0 THEN [out |-> Append(f[k - 1].out, image[k - 1]), sep |-> TRUE]
              ELSE [out |-> IF f[k - 1].sep THEN Append(f[k - 1].out, NewLine) ELSE f[k - 1].out,
                    sep |-> FALSE]

LEMMA DumpScans ==
  ASSUME NEW image \in Images
  PROVE  \E f : Scanning(f, image) /\ Dump(image) = f[Size].out
  <1> DEFINE none == [out |-> <<>>, sep |-> FALSE]
             char(k) == IF k \in 1 .. Size THEN image[k - 1] ELSE 0
             after(x, c) == IF c # 0 THEN [out |-> Append(x.out, c), sep |-> TRUE]
                            ELSE [out |-> IF x.sep THEN Append(x.out, NewLine) ELSE x.out,
                                  sep |-> FALSE]
             step == [k \in Nat |-> [x \in Scans |-> after(x, char(k))]]
             P(f) == f = [k \in 0 .. Size |-> IF k = 0 THEN none
                                               ELSE after(f[k - 1], image[k - 1])]
  <1>1. Size \in Nat /\ NewLine \in Nat  BY SizesAssumption DEF NewLine
  <1>2. \A k \in 1 .. Size : image[k - 1] \in Nat /\ char(k) = image[k - 1]
    BY <1>1 DEF Images, Addrs
  <1>3. none \in Scans  BY DEF Scans
  <1>4. \A x \in Scans, c \in Nat : after(x, c) \in Scans
    <2> SUFFICES ASSUME NEW x \in Scans, NEW c \in Nat PROVE after(x, c) \in Scans  OBVIOUS
    <2>1. x.out \in Seq(Nat) /\ x.sep \in BOOLEAN  BY DEF Scans
    <2>2. Append(x.out, c) \in Seq(Nat) /\ Append(x.out, NewLine) \in Seq(Nat)  BY <1>1, <2>1
    <2> QED  BY <2>1, <2>2 DEF Scans
  <1>5. \A k \in Nat : char(k) \in Nat  BY <1>2
  <1>6. step \in [Nat -> [Scans -> Scans]]
    <2> HIDE DEF after, char
    <2> QED  BY <1>4, <1>5
  <1>7. PICK f \in [0 .. Size -> Scans] :
          f[0] = none /\ \A k \in 1 .. Size : f[k] = step[k][f[k - 1]]
    <2> HIDE DEF none, step, char, after, P
    <2>1. \E f \in [0 .. Size -> Scans] : Stepped(f, none, step, Size)
      BY <1>1, <1>3, <1>6, Recursion
    <2> QED  BY <2>1 DEF Stepped
  <1>8. ASSUME NEW k \in 1 .. Size PROVE f[k] = after(f[k - 1], image[k - 1])
    <2>1. k - 1 \in 0 .. Size /\ k \in Nat  BY <1>1
    <2>2. f[k - 1] \in Scans  BY <1>7, <2>1
    <2>3. step[k][f[k - 1]] = after(f[k - 1], char(k))
      <3> HIDE DEF after, char
      <3> QED  BY <2>1, <2>2
    <2> HIDE DEF after, char, step
    <2> QED  BY <1>2, <1>7, <2>3
  <1>9. P(f)
    <2>1. \A k \in 0 .. Size : k # 0 => k \in 1 .. Size  BY <1>1
    <2> HIDE DEF after, none
    <2> QED  BY <1>1, <1>7, <1>8, <2>1
  <1>10. Dump(image) = (CHOOSE g : P(g))[Size].out  BY DEF Dump
  <1>11. P(CHOOSE g : P(g))
    <2> HIDE DEF P
    <2> QED  BY <1>9
  <1>12. ASSUME NEW g, P(g)  PROVE g = f
    <2>1. DOMAIN g = 0 .. Size /\ DOMAIN f = 0 .. Size  BY <1>12
    <2> DEFINE S == {k \in 0 .. Size : g[k] = f[k]}
    <2>2. 0 \in S  BY <1>1, <1>7, <1>12
    <2>3. ASSUME NEW k \in 0 .. Size, k < Size, k \in S PROVE k + 1 \in S
      <3>1. k + 1 \in 1 .. Size /\ k + 1 \in 0 .. Size /\ k + 1 # 0 /\ (k + 1) - 1 = k
        BY <1>1, <2>3
      <3>2. g[k + 1] = after(g[k], image[k])
        <4> HIDE DEF after, none
        <4> QED  BY <1>12, <3>1
      <3>3. f[k + 1] = after(f[k], image[k])
        <4> HIDE DEF after
        <4> QED  BY <1>8, <3>1
      <3>4. g[k] = f[k]  BY <2>3
      <3> HIDE DEF after
      <3> QED  BY <3>1, <3>2, <3>3, <3>4
    <2>4. \A k \in 0 .. Size : k \in S
      <3> HIDE DEF S
      <3> QED  BY <1>1, <2>2, <2>3, UpTo
    <2>5. \A k \in 0 .. Size : g[k] = f[k]  BY <2>4
    <2>6. g = [k \in 0 .. Size |-> g[k]]
      <3> HIDE DEF after, none
      <3> QED  BY <1>12
    <2>7. f = [k \in 0 .. Size |-> f[k]]  BY <1>7
    <2> HIDE DEF P, S
    <2> QED  BY <2>5, <2>6, <2>7
  <1>13. Dump(image) = f[Size].out
    <2> HIDE DEF P
    <2> QED  BY <1>10, <1>11, <1>12
  <1>14. Scanning(f, image)  BY <1>7, <1>8 DEF Scanning
  <1> QED  BY <1>13, <1>14

-----------------------------------------------------------------------------
(* One string of the file in the dump                                       *)

\* The first j bytes of a string.
Cut(t, j) == SubSeq(t, 1, j)

LEMMA CutProps ==
  ASSUME NEW t \in Seq(Nat), NEW j \in 0 .. Len(t)
  PROVE  /\ Cut(t, j) \in Seq(Nat)
         /\ j = 0 => Cut(t, j) = <<>>
         /\ j < Len(t) => Cut(t, j + 1) = Append(Cut(t, j), t[j + 1])
  <1>1. Len(t) \in Nat /\ j \in Nat /\ \A k \in 1 .. Len(t) : t[k] \in Nat  OBVIOUS
  <1>2. Cut(t, j) \in Seq(Nat)
    <2>1. \A k \in 1 .. j : t[k] \in Nat  BY <1>1
    <2> QED  BY <1>1, <2>1, SubSeqProperties DEF Cut
  <1>3. ASSUME j = 0 PROVE Cut(t, j) = <<>>
    <2>1. 0 < 1 /\ 0 \in Int /\ 1 \in Int  OBVIOUS
    <2> QED  BY <1>3, <2>1, SubSeqEmpty DEF Cut
  <1>4. ASSUME j < Len(t) PROVE Cut(t, j + 1) = Append(Cut(t, j), t[j + 1])
    <2>1. j + 1 \in 1 .. Len(t) /\ 1 \in 1 .. Len(t) /\ (j + 1) - 1 = j  BY <1>1, <1>4
    <2>2. SubSeq(t, 1, j + 1) = SubSeq(t, 1, (j + 1) - 1) \o <<t[j + 1]>>
      BY <2>1, SubSeqRecursiveSecond
    <2>3. Append(Cut(t, j), t[j + 1]) = Cut(t, j) \o <<t[j + 1]>>
      BY <1>1, <1>2, <2>1, AppendIsConcat
    <2> QED  BY <2>1, <2>2, <2>3 DEF Cut
  <1> QED  BY <1>2, <1>3, <1>4

LEMMA AppendJoined ==
  ASSUME NEW o \in Seq(Nat), NEW t \in Seq(Nat), NEW c \in Nat
  PROVE  Append(o \o t, c) = o \o Append(t, c)
  <1>1. <<c>> \in Seq(Nat)  OBVIOUS
  <1>2. o \o t \in Seq(Nat)  BY ConcatProperties
  <1>3. Append(o \o t, c) = (o \o t) \o <<c>>  BY <1>2, AppendIsConcat
  <1>4. Append(t, c) = t \o <<c>>  BY AppendIsConcat
  <1> QED  BY <1>1, <1>3, <1>4, ConcatAssociative

LEMMA ScanStep ==
  ASSUME NEW image \in Images, NEW f, Scanning(f, image), NEW q \in Nat, q + 1 <= Size
  PROVE  /\ f[q].out \in Seq(Nat)
         /\ image[q] # 0 => f[q + 1].out = Append(f[q].out, image[q]) /\ f[q + 1].sep
         /\ image[q] = 0 =>
              /\ f[q + 1].out = IF f[q].sep THEN Append(f[q].out, NewLine) ELSE f[q].out
              /\ ~ f[q + 1].sep
  <1>1. q + 1 \in 1 .. Size /\ (q + 1) - 1 = q /\ q \in 0 .. Size  BY SizesAssumption
  <1>2. f[q] \in Scans  BY <1>1 DEF Scanning
  <1>3. f[q + 1] =
          IF image[q] # 0 THEN [out |-> Append(f[q].out, image[q]), sep |-> TRUE]
          ELSE [out |-> IF f[q].sep THEN Append(f[q].out, NewLine) ELSE f[q].out,
                sep |-> FALSE]
    <2>1. f[q + 1] =
            IF image[(q + 1) - 1] # 0
            THEN [out |-> Append(f[(q + 1) - 1].out, image[(q + 1) - 1]), sep |-> TRUE]
            ELSE [out |-> IF f[(q + 1) - 1].sep THEN Append(f[(q + 1) - 1].out, NewLine)
                          ELSE f[(q + 1) - 1].out,
                  sep |-> FALSE]
      BY Zenon, <1>1 DEF Scanning
    <2> QED  BY Zenon, <1>1, <2>1
  <1>4. CASE image[q] # 0
    <2>1. f[q + 1] = [out |-> Append(f[q].out, image[q]), sep |-> TRUE]  BY Zenon, <1>3, <1>4
    <2>2. f[q].out \in Seq(Nat)  BY <1>2 DEF Scans
    <2> QED  BY <1>4, <2>1, <2>2
  <1>5. CASE image[q] = 0
    <2>1. f[q + 1] = [out |-> IF f[q].sep THEN Append(f[q].out, NewLine) ELSE f[q].out,
                      sep |-> FALSE]
      BY Zenon, <1>3, <1>5
    <2>2. f[q].out \in Seq(Nat)  BY <1>2 DEF Scans
    <2> QED  BY <1>5, <2>1, <2>2
  <1> QED  BY <1>4, <1>5

\* The bytes of t lie at address p.
Lies(t, p, image) == \A k \in 1 .. Len(t) : image[p + k - 1] = t[k]

LEMMA ScanString ==
  ASSUME NEW image \in Images, NEW f, Scanning(f, image), NEW t, CString(t),
         NEW p \in Nat, p + Len(t) <= Size, ~ f[p].sep, Lies(t, p, image)
  PROVE  /\ f[p + Len(t)].out = f[p].out \o Printed(t)
         /\ ~ f[p + Len(t)].sep
  <1>1. PICK n \in Nat : n = Len(t) /\ 1 <= n /\ p + n <= Size  BY DEF CString
  <1>2. Size \in Nat  BY SizesAssumption
  <1> DEFINE o == f[p].out
  <1>3. o \in Seq(Nat)
    <2>1. p + 1 <= Size  BY <1>1, <1>2
    <2> QED  BY <2>1, ScanStep
  <1> HIDE DEF o
  <1> DEFINE S == {j \in 0 .. n - 1 : f[p + j].out = o \o Cut(t, j) /\ (f[p + j].sep <=> j # 0)}
  <1>4. 0 \in S
    <2>1. o \o Cut(t, 0) = o
      <3>1. 0 \in 0 .. Len(t)  BY <1>1
      <3>2. Cut(t, 0) = <<>>  BY <3>1, CutProps DEF CString
      <3> QED  BY <1>3, <3>2, ConcatEmptySeq
    <2>2. p + 0 = p /\ 0 \in 0 .. n - 1  BY <1>1
    <2>3. f[p + 0].out = o \o Cut(t, 0) /\ (f[p + 0].sep <=> 0 # 0)
      BY Zenon, <2>1, <2>2 DEF o
    <2> QED  BY <2>2, <2>3
  <1>5. ASSUME NEW j \in 0 .. n - 1, j < n - 1, j \in S  PROVE j + 1 \in S
    <2>1. PICK q \in Nat : q = p + j /\ q + 1 <= Size /\ p + (j + 1) = q + 1
      BY <1>1, <1>2, <1>5
    <2>2. image[q] = t[j + 1] /\ t[j + 1] # 0 /\ t[j + 1] \in Nat /\ j < Len(t) /\ j \in 0 .. Len(t)
      <3>1. j + 1 \in 1 .. Len(t) /\ j + 1 # Len(t) /\ p + (j + 1) - 1 = q
        BY <1>1, <1>5, <2>1
      <3>2. image[p + (j + 1) - 1] = t[j + 1] /\ t[j + 1] # 0  BY <3>1 DEF CString, Lies
      <3>3. j < Len(t) /\ j \in 0 .. Len(t)  BY <1>1, <1>5
      <3>4. t[j + 1] \in Nat  BY <3>1 DEF CString
      <3> QED  BY Zenon, <3>1, <3>2, <3>3, <3>4
    <2>3. f[q].out = o \o Cut(t, j)  BY <1>5, <2>1
    <2>4. f[q + 1].out = Append(f[q].out, image[q]) /\ f[q + 1].sep
      <3>1. image[q] # 0  BY <2>2
      <3> QED  BY <2>1, <3>1, ScanStep
    <2>5. Append(o \o Cut(t, j), t[j + 1]) = o \o Cut(t, j + 1)
      <3>1. /\ Cut(t, j) \in Seq(Nat)
            /\ Cut(t, j + 1) = Append(Cut(t, j), t[j + 1])
        BY <2>2, CutProps DEF CString
      <3>2. \A u \in Seq(Nat), c \in Nat : Append(o \o u, c) = o \o Append(u, c)
        BY <1>3, AppendJoined
      <3> QED  BY Zenon, <2>2, <3>1, <3>2
    <2>6. f[p + (j + 1)].out = o \o Cut(t, j + 1) /\ f[p + (j + 1)].sep
      BY Zenon, <2>1, <2>2, <2>3, <2>4, <2>5
    <2>7. j + 1 # 0 /\ j + 1 \in 0 .. n - 1  BY <1>1, <1>5
    <2> QED  BY <2>6, <2>7
  <1>6. PICK m \in 0 .. n - 1 : m = n - 1  BY <1>1
  <1>7. PICK q \in Nat : q = p + m /\ q + 1 = p + n /\ q + 1 <= Size  BY <1>1, <1>2, <1>6
  <1>8. f[q].out = o \o Cut(t, m) /\ (f[q].sep <=> m # 0)
    <2>1. \A j \in 0 .. n - 1 : j \in S
      <3>1. n - 1 \in Nat  BY <1>1
      <3> HIDE DEF S
      <3> QED  BY <1>4, <1>5, <3>1, UpTo
    <2>2. m \in S  BY <2>1
    <2> QED  BY <1>7, <2>2
  <1>9. image[q] = 0
    <2>1. n \in 1 .. Len(t) /\ p + n - 1 = q  BY <1>1, <1>7
    <2>2. t[n] = 0  BY <1>1, <2>1 DEF CString
    <2>3. image[p + n - 1] = t[n]  BY <2>1 DEF Lies
    <2> QED  BY <2>1, <2>2, <2>3
  <1>10. /\ f[q + 1].out = IF f[q].sep THEN Append(f[q].out, NewLine) ELSE f[q].out
         /\ ~ f[q + 1].sep
    BY <1>7, <1>9, ScanStep
  <1>11. m \in 0 .. Len(t) /\ Cut(t, m) \in Seq(Nat)
    <2>1. m \in 0 .. Len(t)  BY <1>1, <1>6
    <2> QED  BY <2>1, CutProps DEF CString
  <1>12. f[q + 1].out = o \o Printed(t)
    <2>1. CASE m = 0
      <3>1. Len(t) = 1
        <4>1. 0 = n - 1  BY <1>6, <2>1
        <4>2. n = 1  BY <4>1
        <4> QED  BY <1>1, <4>2
      <3>2. Printed(t) = <<>>  BY <3>1 DEF Printed
      <3>3. Cut(t, m) = <<>>  BY <1>11, <2>1, CutProps DEF CString
      <3> QED  BY Zenon, <1>8, <1>10, <2>1, <3>2, <3>3
    <2>2. CASE m # 0
      <3>1. Len(t) # 1 /\ m = Len(t) - 1  BY <1>1, <1>6, <2>2
      <3>2. Printed(t) = Append(Cut(t, m), NewLine)  BY <3>1 DEF Printed, Front, Cut
      <3>3. f[q + 1].out = Append(o \o Cut(t, m), NewLine)  BY Zenon, <1>8, <1>10, <2>2
      <3>4. NewLine \in Nat  BY DEF NewLine
      <3>5. \A u \in Seq(Nat), c \in Nat : Append(o \o u, c) = o \o Append(u, c)
        BY <1>3, AppendJoined
      <3> QED  BY Zenon, <1>11, <3>2, <3>3, <3>4, <3>5
    <2> QED  BY <2>1, <2>2
  <1> QED  BY Zenon, <1>1, <1>7, <1>10, <1>12 DEF o

-----------------------------------------------------------------------------
(* All the strings                                                          *)

Begins(s, t) == \E u \in Seq(Nat) : t = s \o u

LEMMA BeginsSelf ==
  ASSUME NEW s \in Seq(Nat)
  PROVE  Begins(s, s)
  <1>1. <<>> \in Seq(Nat)  BY EmptySeq
  <1>2. s = s \o <<>>  BY ConcatEmptySeq
  <1> QED  BY <1>1, <1>2 DEF Begins

LEMMA BeginsAppend ==
  ASSUME NEW s \in Seq(Nat), NEW t \in Seq(Nat), Begins(s, t), NEW c \in Nat
  PROVE  Begins(s, Append(t, c))
  <1>1. PICK u \in Seq(Nat) : t = s \o u  BY DEF Begins
  <1>2. Append(u, c) \in Seq(Nat)  BY AppendProperties
  <1>3. Append(t, c) = s \o Append(u, c)  BY <1>1, AppendJoined
  <1> QED  BY <1>2, <1>3 DEF Begins

LEMMA BeginsIsPrefix ==
  ASSUME NEW s \in Seq(Nat), NEW t \in Seq(Nat), Begins(s, t)
  PROVE  IsPrefix(s, t)
  <1>1. PICK u \in Seq(Nat) : t = s \o u  BY DEF Begins
  <1>2. Len(t) = Len(s) + Len(u) /\ Len(s) \in Nat /\ Len(u) \in Nat
    BY <1>1, ConcatProperties, LenProperties
  <1>3. SubSeq(s, 1, Len(s)) = SubSeq(t, 1, Len(s))
    <2>1. CASE Len(s) = 0
      <3>1. Len(s) \in Int /\ 1 \in Int /\ Len(s) < 1  BY <1>2, <2>1
      <3> QED  BY <3>1, SubSeqEmpty
    <2>2. CASE Len(s) # 0
      <3>1. 1 \in 1 .. Len(s) /\ Len(s) \in 1 .. Len(s)  BY <1>2, <2>2
      <3> QED  BY <1>1, <3>1, SubSeqOfConcat1
    <2> QED  BY <2>1, <2>2
  <1> QED  BY <1>2, <1>3 DEF IsPrefix

\* What a dump has printed it does not take back.
LEMMA ScanGrows ==
  ASSUME NEW image \in Images, NEW f, Scanning(f, image), NEW p \in 0 .. Size
  PROVE  Begins(f[p].out, f[Size].out)
  <1>1. Size \in Nat /\ p \in Nat /\ p <= Size  BY SizesAssumption
  <1>2. \A k \in 0 .. Size : f[k].out \in Seq(Nat) /\ f[k].sep \in BOOLEAN
    <2> SUFFICES ASSUME NEW k \in 0 .. Size PROVE f[k].out \in Seq(Nat) /\ f[k].sep \in BOOLEAN
      OBVIOUS
    <2>1. f[k] \in Scans  BY DEF Scanning
    <2> QED  BY <2>1 DEF Scans
  <1> DEFINE S == {k \in 0 .. Size : p <= k => Begins(f[p].out, f[k].out)}
  <1>3. \A k \in 0 .. Size : k <= p => k \in S
    <2> SUFFICES ASSUME NEW k \in 0 .. Size, k <= p PROVE k \in S  OBVIOUS
    <2>1. CASE k = p
      <3>1. Begins(f[p].out, f[p].out)  BY <1>2, BeginsSelf
      <3> QED  BY <2>1, <3>1
    <2>2. CASE k # p
      <3>1. ~ p <= k  BY <1>1, <2>2
      <3> QED  BY <3>1
    <2> QED  BY <2>1, <2>2
  <1>4. 0 \in S
    <2>1. 0 \in 0 .. Size /\ 0 <= p  BY <1>1
    <2> QED  BY <1>3, <2>1
  <1>5. ASSUME NEW k \in 0 .. Size, k < Size, k \in S PROVE k + 1 \in S
    <2>1. k \in Nat /\ k + 1 <= Size /\ k + 1 \in 0 .. Size  BY <1>1, <1>5
    <2>2. CASE k + 1 <= p  BY <1>3, <2>1, <2>2
    <2>3. CASE ~ k + 1 <= p
      <3>1. p <= k  BY <1>1, <2>1, <2>3
      <3>2. Begins(f[p].out, f[k].out)  BY <1>5, <3>1
      <3>3. f[p].out \in Seq(Nat) /\ f[k].out \in Seq(Nat) /\ NewLine \in Nat
        BY <1>2 DEF NewLine
      <3>4. \A c \in Nat : Begins(f[p].out, Append(f[k].out, c))
        BY <3>2, <3>3, BeginsAppend
      <3>5. image[k] \in Nat
        <4>1. k \in Addrs  BY <1>1, <1>5 DEF Addrs
        <4> QED  BY <4>1 DEF Images
      <3>6. f[k + 1].out \in {Append(f[k].out, image[k]), Append(f[k].out, NewLine), f[k].out}
        BY <2>1, ScanStep
      <3>7. Begins(f[p].out, f[k + 1].out)  BY Zenon, <3>2, <3>3, <3>4, <3>5, <3>6
      <3> QED  BY <2>1, <3>7
    <2> QED  BY <2>2, <2>3
  <1>6. \A k \in 0 .. Size : k \in S
    <2> HIDE DEF S
    <2> QED  BY <1>1, <1>4, <1>5, UpTo
  <1>7. Size \in S /\ p <= Size  BY <1>1, <1>6
  <1> QED  BY <1>7

\* What was acknowledged: a string, its address and the flags of the call.
FlagSet == {"none", "data"}
Acks    == [text : Seq(Nat), at : Nat, flags : FlagSet]

\* The strings lie one after the other, from the start of the file.
Strung(A) ==
  \A i \in 1 .. Len(A) :
    /\ CString(A[i].text)
    /\ A[i].at = IF i = 1 THEN 0 ELSE A[i - 1].at + Len(A[i - 1].text)

EndOf(A, i) == IF i = 0 THEN 0 ELSE A[i].at + Len(A[i].text)

LEMMA PrintedType ==
  ASSUME NEW t, CString(t)
  PROVE  Printed(t) \in Seq(Nat)
  <1>1. Len(t) \in Nat /\ t \in Seq(Nat) /\ 0 \in Nat  BY DEF CString
  <1>2. CASE Len(t) = 1
    <2>1. <<>> \in Seq(Nat)  BY EmptySeq
    <2> QED  BY <1>2, <2>1 DEF Printed
  <1>3. CASE Len(t) # 1
    <2>1. Len(t) - 1 \in 0 .. Len(t)  BY <1>1 DEF CString
    <2>2. Cut(t, Len(t) - 1) \in Seq(Nat)  BY <1>1, <2>1, CutProps
    <2>3. Append(Cut(t, Len(t) - 1), 0) \in Seq(Nat)  BY <1>1, <2>2, AppendProperties
    <2> QED  BY <1>3, <2>3 DEF Printed, Front, Cut, NewLine
  <1> QED  BY <1>2, <1>3

LEMMA DumpPrints ==
  ASSUME NEW image \in Images, NEW A \in Seq(Acks), Strung(A),
         \A i \in 1 .. Len(A) : Held(A[i], image) /\ EndOf(A, i) <= Size
  PROVE  IsPrefix(FlattenSeq([i \in 1 .. Len(A) |-> Printed(A[i].text)]), Dump(image))
  <1> DEFINE n == Len(A)
             seqs == [i \in 1 .. n |-> Printed(A[i].text)]
  <1>1. n \in Nat /\ \A i \in 1 .. n : A[i] \in Acks  OBVIOUS
  <1>2. seqs \in Seq(Seq(Nat)) /\ Len(seqs) = n
    <2>1. \A i \in 1 .. n : Printed(A[i].text) \in Seq(Nat)  BY PrintedType DEF Strung
    <2> HIDE DEF n
    <2> QED  BY <1>1, <2>1
  <1>3. \A i \in 1 .. n : seqs[i] = Printed(A[i].text)  OBVIOUS
  <1> HIDE DEF seqs
  <1>4. PICK f : Scanning(f, image) /\ Dump(image) = f[Size].out  BY DumpScans
  <1>5. PICK g : Joining(g, seqs, Nat) /\ FlattenSeq(seqs) = g[n]  BY <1>2, FlattenJoins
  <1> DEFINE S == {i \in 0 .. n : g[i] = f[EndOf(A, i)].out /\ ~ f[EndOf(A, i)].sep}
  <1>6. 0 \in S
    <2>1. f[0] = [out |-> <<>>, sep |-> FALSE]  BY Zenon, <1>4 DEF Scanning
    <2>2. g[0] = <<>>  BY Zenon, <1>5 DEF Joining
    <2>3. EndOf(A, 0) = 0 /\ 0 \in 0 .. n  BY <1>1 DEF EndOf
    <2>4. f[0].out = <<>> /\ ~ f[0].sep  BY <2>1
    <2> QED  BY <2>2, <2>3, <2>4
  <1>7. ASSUME NEW i \in 0 .. n, i < n, i \in S  PROVE i + 1 \in S
    <2>1. i + 1 \in 1 .. n /\ i + 1 \in 0 .. n /\ (i + 1) - 1 = i /\ i \in Nat /\ i + 1 # 0
      BY <1>1, <1>7
    <2> DEFINE t == A[i + 1].text
               p == A[i + 1].at
    <2>2. CString(t) /\ p \in Nat
      <3>1. A[i + 1] \in Acks  BY <1>1, <2>1
      <3> QED  BY <2>1, <3>1 DEF Strung, Acks
    <2>3. p = EndOf(A, i)
      <3>1. A[i + 1].at = IF i + 1 = 1 THEN 0 ELSE A[(i + 1) - 1].at + Len(A[(i + 1) - 1].text)
        BY Zenon, <2>1 DEF Strung
      <3>2. i + 1 = 1 <=> i = 0  BY <2>1
      <3> QED  BY Zenon, <2>1, <3>1, <3>2 DEF EndOf
    <2>4. p + Len(t) = EndOf(A, i + 1)  BY Zenon, <2>1 DEF EndOf
    <2>5. p + Len(t) <= Size  BY <2>1, <2>4
    <2>6. Lies(t, p, image)
      <3>1. Held(A[i + 1], image)  BY <2>1
      <3> QED  BY Zenon, <3>1 DEF Held, Lies
    <2>7. g[i] = f[p].out /\ ~ f[p].sep  BY <1>7, <2>3
    <2>8. f[p + Len(t)].out = f[p].out \o Printed(t) /\ ~ f[p + Len(t)].sep
      <3> HIDE DEF t, p
      <3> QED  BY <1>4, <2>2, <2>5, <2>6, <2>7, ScanString
    <2>9. g[i + 1] = g[i] \o Printed(t)
      <3>1. g[i + 1] = g[(i + 1) - 1] \o seqs[i + 1]  BY Zenon, <1>2, <1>5, <2>1 DEF Joining
      <3> QED  BY Zenon, <1>3, <2>1, <3>1
    <2>10. g[i + 1] = f[EndOf(A, i + 1)].out /\ ~ f[EndOf(A, i + 1)].sep
      BY Zenon, <2>4, <2>7, <2>8, <2>9
    <2> QED  BY <2>1, <2>10
  <1>8. \A i \in 0 .. n : i \in S
    <2> HIDE DEF S, n
    <2> QED  BY <1>1, <1>6, <1>7, UpTo
  <1>9. g[n] = f[EndOf(A, n)].out  BY <1>1, <1>8
  <1>10. EndOf(A, n) \in 0 .. Size
    <2>1. CASE n = 0  BY <2>1, SizesAssumption DEF EndOf
    <2>2. CASE n # 0
      <3>1. n \in 1 .. n  BY <1>1, <2>2
      <3>2. A[n] \in Acks /\ EndOf(A, n) <= Size  BY <1>1, <3>1
      <3>3. EndOf(A, n) \in Nat  BY <2>2, <3>2 DEF EndOf, Acks
      <3> QED  BY <3>2, <3>3, SizesAssumption
    <2> QED  BY <2>1, <2>2
  <1>11. Begins(g[n], Dump(image))  BY <1>4, <1>9, <1>10, ScanGrows
  <1>12. g[n] \in Seq(Nat) /\ Dump(image) \in Seq(Nat)
    <2>1. n \in 0 .. n /\ Size \in 0 .. Size  BY <1>1, SizesAssumption
    <2>2. g[n] \in Seq(Nat)  BY <1>2, <1>5, <2>1 DEF Joining
    <2>3. f[Size] \in Scans  BY <1>4, <2>1 DEF Scanning
    <2> QED  BY <1>4, <2>2, <2>3 DEF Scans
  <1>13. IsPrefix(FlattenSeq(seqs), Dump(image))  BY <1>5, <1>11, <1>12, BeginsIsPrefix
  <1> QED  BY <1>13 DEF seqs

-----------------------------------------------------------------------------
(* The invariant                                                            *)

Entries == {"none", "persist", "flushcache"}
Frames  == [entry : Entries, addr : Nat, len : Nat, flags : FlagSet, uptr : Nat]

InCall == {"persist", "flushcache", "persist.mode", "log", "flush.mode", "flush", "fence",
           "returned"}
Busy   == InCall \cup {"strcpy"}

Typed ==
  /\ TypeOK
  /\ program \in {"basic", "trivial"}
  /\ args \in Seq(Seq(Nat))
  /\ ptr \in Nat /\ todo \in Nat
  /\ acked \in Seq(Acks)
  /\ Len(acked) <= Len(args)
  /\ redo \in Seq(Nat)
  /\ fr \in Frames
  /\ pc \in Busy \cup {"down", "allocate", "map", "args"}

\* Where each program can be, and what its call is about.
Control ==
  /\ pc \in {"allocate", "map"} => acked = <<>> /\ ptr = 0
  /\ pc = "map" => fsize # Absent
  /\ pc \in Busy \cup {"args"} /\ program = "basic" => fsize = Size
  /\ pc \in Busy => Len(acked) < Len(args) /\ ptr + Len(Text) <= Size /\ todo <= Len(Text)
  /\ pc \in InCall => todo = 0
  /\ pc \in InCall /\ program = "basic" => fr.addr = ptr /\ fr.len = Len(Text)
  /\ pc \in {"persist", "flushcache"} => fr.entry = pc

TrivialControl ==
  program = "trivial" =>
    /\ mode = "msync" /\ args = <<Hello>>
    /\ pc \in {"down", "strcpy", "flush", "fence", "returned", "args"}
    /\ acked = <<>> => ptr = 0
    /\ pc = "args" => Len(acked) = 1
    /\ pc \in InCall => fr.addr = 0 /\ fr.len = Page /\ fr.flags = "none"

\* The part of the string that strcpy has stored.
Copying == pc \in Busy => \A k \in 1 .. Len(Text) - todo : mem[ptr + k - 1] = Text[k]

\* The bytes of the call's range, up to an address, are where they will be kept.
Reached(to) ==
  \A b \in Addrs : fr.addr <= b /\ b < fr.addr + fr.len /\ b < to => Kept[b] = mem[b]

Flushing ==
  /\ pc = "flush" /\ mode = "msync" => fr.uptr = RoundDown(fr.addr, Page)
  /\ pc = "flush" /\ mode # "msync" =>
       /\ fr.uptr % Line = 0 /\ RoundDown(fr.addr, Line) <= fr.uptr
       /\ Reached(fr.uptr)
  /\ pc \in {"fence", "returned"} /\ Lasting(fr) => Reached(fr.addr + fr.len)

\* What was made durable lies behind the next string, and is still there to read.
Behind == \A i \in 1 .. Len(acked) : acked[i].at + Len(acked[i].text) <= ptr
Seen   == \A i \in 1 .. Len(acked) : Lasting(acked[i]) => Held(acked[i], mem)

\* A running call has put its lines among those asked for.
Asked ==
  mode = "fit" /\ pc \in InCall =>
    \A b \in Addrs : RoundDown(fr.addr, Line) <= b /\ b < RoundUp(fr.addr + fr.len, Line)
                       => b \in asked

IInv ==
  /\ Typed /\ Control /\ TrivialControl
  /\ Copying /\ Flushing
  /\ Behind /\ Seen /\ Durable
  /\ Asked /\ FitDropsUnflushed /\ LoggedFirst

-----------------------------------------------------------------------------
(* Steps                                                                    *)

LEMMA InitInv == Init => IInv
  <1> SUFFICES ASSUME Init PROVE IInv  OBVIOUS
  <1> USE DEF Init, LibInit
  <1>1. Typed
    <2>1. Zeros \in Images  BY DEF Zeros, Images
    <2>2. fr \in Frames  BY DEF NoCall, Frames, Entries, FlagSet
    <2>3. fr.addr + fr.len <= Size  BY SizesAssumption DEF NoCall
    <2>4. TypeOK
      <3>1. Len(redo) <= LogSpace /\ ptr <= Size /\ todo <= Size  BY SizesAssumption
      <3>2. persistSet \in BOOLEAN  OBVIOUS
      <3>3. mode \in Modes /\ asked \subseteq Addrs  OBVIOUS
      <3> QED  BY <2>1, <2>3, <3>1, <3>2, <3>3 DEF TypeOK
    <2>5. args \in Seq(Seq(Nat)) /\ redo \in Seq(Nat)
           /\ acked \in Seq(Acks)
      OBVIOUS
    <2> QED  BY <2>2, <2>4, <2>5 DEF Typed
  <1>2. Control /\ TrivialControl /\ Copying /\ Flushing /\ Asked
    BY DEF Control, TrivialControl, Copying, Flushing, Asked, Busy, InCall
  <1>3. Behind /\ Seen /\ Durable  BY DEF Behind, Seen, Durable
  <1>4. FitDropsUnflushed /\ LoggedFirst  BY DEF FitDropsUnflushed, LoggedFirst
  <1> QED  BY <1>1, <1>2, <1>3, <1>4 DEF IInv

\* What was made durable is a matter of the bytes and of what was acknowledged.
LEMMA BytesKeep ==
  ASSUME IInv, UNCHANGED <<mode, mem, file, media, asked, old, acked, ptr>>
  PROVE  Behind' /\ Seen' /\ Durable' /\ FitDropsUnflushed'
  <1> USE DEF IInv
  <1>1. Behind'  BY DEF Behind
  <1>2. Seen'  BY DEF Seen, Held, Lasting
  <1>3. Durable'  BY DEF Durable, Held, Lasting, Kept
  <1>4. FitDropsUnflushed'  BY DEF FitDropsUnflushed
  <1> QED  BY <1>1, <1>2, <1>3, <1>4

\* What was acknowledged lies below ptr.
LEMMA AckedType ==
  ASSUME IInv, NEW i \in 1 .. Len(acked)
  PROVE  /\ acked[i].at \in Nat /\ Len(acked[i].text) \in Nat
         /\ acked[i].at + Len(acked[i].text) <= ptr
         /\ acked[i].text \in Seq(Nat)
  <1>1. acked \in Seq(Acks)  BY DEF IInv, Typed
  <1>2. acked[i] \in Acks  BY <1>1
  <1>3. acked[i].at + Len(acked[i].text) <= ptr  BY DEF IInv, Behind
  <1> QED  BY <1>2, <1>3 DEF Acks

LEMMA AckedBelow ==
  ASSUME IInv, NEW i \in 1 .. Len(acked), NEW j \in 1 .. Len(acked[i].text)
  PROVE  acked[i].at + j - 1 \in Nat /\ acked[i].at + j - 1 < ptr
  <1>1. PICK a \in Nat, l \in Nat :
          a = acked[i].at /\ l = Len(acked[i].text) /\ a + l <= ptr
    BY AckedType
  <1>2. PICK c \in Nat : c = j /\ 1 <= c /\ c <= l  BY <1>1
  <1>3. ptr \in Nat  BY DEF IInv, Typed
  <1>4. a + c - 1 \in Nat /\ a + c - 1 < ptr  BY <1>1, <1>2, <1>3
  <1> QED  BY <1>1, <1>2, <1>4

\* The end of the process.
LEMMA FatalInv ==
  ASSUME IInv, Fatal, UNCHANGED main
  PROVE  IInv'
  <1> USE DEF Fatal, Gone, history, main
  <1>1. Typed'
    <2>1. fr' \in Frames /\ fr'.addr + fr'.len <= Size
      BY SizesAssumption DEF NoCall, Frames, Entries, FlagSet
    <2>2. TypeOK'  BY <2>1 DEF IInv, Typed, TypeOK
    <2> QED  BY <2>1, <2>2 DEF IInv, Typed
  <1>2. Control' /\ Copying' /\ Flushing' /\ Asked'
    BY DEF Control, Copying, Flushing, Asked, Busy, InCall
  <1>3. TrivialControl'  BY DEF IInv, TrivialControl, InCall
  <1>4. Seen'
    <2> SUFFICES ASSUME NEW i \in 1 .. Len(acked), Lasting(acked[i])
                 PROVE  Held(acked[i], file)
      BY DEF Seen, Held, Lasting
    <2>1. CASE mode = "fit"  BY <2>1 DEF IInv, Durable, Kept
    <2>2. CASE mode # "fit"  BY <2>2 DEF IInv, Typed, TypeOK, Seen
    <2> QED  BY <2>1, <2>2
  <1>5. Behind'  BY DEF IInv, Behind
  <1>6. Durable'  BY DEF IInv, Durable, Held, Lasting, Kept
  <1>7. FitDropsUnflushed'  BY DEF IInv, FitDropsUnflushed
  <1>8. LoggedFirst'  BY DEF LoggedFirst
  <1> QED  BY <1>1, <1>2, <1>3, <1>4, <1>5, <1>6, <1>7, <1>8 DEF IInv

\* The steps before the first string: the file exists, the mapping is made.
LEMMA AllocateInv == ASSUME IInv, Allocate PROVE IInv'
  <1>1. CASE Fatal /\ fsize' = fsize  BY <1>1, FatalInv DEF Allocate, main
  <1>2. CASE ~ (Fatal /\ fsize' = fsize)
    <2> USE <1>2 DEF Allocate, bytes, epoch, history
    <2>1. Typed'
      <3>1. TypeOK'  BY DEF IInv, Typed, TypeOK, Absent
      <3> QED  BY <3>1 DEF IInv, Typed
    <2>2. Control'
      BY SizesAssumption DEF IInv, Control, Busy, InCall, Absent
    <2>3. TrivialControl' /\ Copying' /\ Flushing' /\ Asked' /\ LoggedFirst'
      BY DEF IInv, TrivialControl, Copying, Flushing, Asked, LoggedFirst, Busy, InCall
    <2> QED  BY <2>1, <2>2, <2>3, BytesKeep DEF IInv
  <1> QED  BY <1>1, <1>2 DEF Allocate

LEMMA MapFileInv == ASSUME IInv, MapFile PROVE IInv'
  <1>1. CASE Fatal  BY <1>1, FatalInv DEF MapFile
  <1>2. CASE ~ Fatal
    <2> USE <1>2 DEF MapFile, Mapped, history, main
    <2>1. Typed'
      <3>1. TypeOK'  BY DEF IInv, Typed, TypeOK
      <3> QED  BY <3>1 DEF IInv, Typed
    <2>2. acked = <<>> /\ program = "basic" /\ fsize = Size
      BY DEF IInv, Control, TrivialControl, Typed, TypeOK
    <2>3. Control' /\ TrivialControl' /\ Copying' /\ Flushing' /\ Asked' /\ LoggedFirst'
      BY <2>2 DEF Control, TrivialControl, Copying, Flushing, Asked, LoggedFirst, Busy, InCall
    <2>4. Behind' /\ Seen' /\ Durable'  BY <2>2 DEF Behind, Seen, Durable
    <2>5. FitDropsUnflushed'  BY DEF IInv, FitDropsUnflushed
    <2> QED  BY <2>1, <2>3, <2>4, <2>5 DEF IInv
  <1> QED  BY <1>1, <1>2

LEMMA StartInv == ASSUME IInv, Start PROVE IInv'
  <1> USE DEF Start, Begun, bytes, epoch
  <1>1. Typed'
    <2>1. TypeOK'
      <3>1. Zeros \in Images  BY DEF Zeros, Images
      <3> QED  BY <3>1, SizesAssumption DEF IInv, Typed, TypeOK
    <2>2. args' \in Seq(Seq(Nat))  BY ArgsAssumption
    <2>3. acked' \in Seq(Acks) /\ Len(acked') = 0
      OBVIOUS
    <2>4. Len(args') \in Nat  BY <2>2
    <2> QED  BY <2>1, <2>2, <2>3, <2>4 DEF IInv, Typed
  <1>2. Control' /\ TrivialControl' /\ Copying' /\ Flushing' /\ Asked' /\ LoggedFirst'
    BY DEF Control, TrivialControl, Copying, Flushing, Asked, LoggedFirst, Busy, InCall
  <1>3. Behind' /\ Seen' /\ Durable'  BY DEF Behind, Seen, Durable
  <1>4. FitDropsUnflushed'  BY DEF FitDropsUnflushed
  <1> QED  BY <1>1, <1>2, <1>3, <1>4 DEF IInv

LEMMA TrivialStartInv == ASSUME IInv, TrivialStart PROVE IInv'
  <1> USE DEF TrivialStart, Begun, epoch
  <1>1. Len(Hello) \in Nat /\ Len(Hello) <= Size
    BY ArgsAssumption, SizesAssumption, PageFits
  <1>2. Typed'
    <2>1. TypeOK'
      <3>1. Zeros \in Images  BY DEF Zeros, Images
      <3> QED  BY <1>1, <3>1, SizesAssumption DEF IInv, Typed, TypeOK
    <2>2. args' \in Seq(Seq(Nat)) /\ Len(args') = 1  BY ArgsAssumption
    <2>3. acked' \in Seq(Acks) /\ Len(acked') = 0
      OBVIOUS
    <2> QED  BY <1>1, <2>1, <2>2, <2>3 DEF IInv, Typed, Busy
  <1>3. Text' = Hello /\ Len(acked') = 0 /\ Len(args') = 1  BY DEF Text
  <1>4. Control' /\ TrivialControl'
    BY <1>1, <1>3 DEF Control, TrivialControl, Busy, InCall
  <1>5. Copying'  BY <1>1, <1>3 DEF Copying
  <1>6. Flushing' /\ Asked' /\ LoggedFirst'
    BY DEF Flushing, Asked, LoggedFirst, InCall
  <1>7. Behind' /\ Seen' /\ Durable'  BY <1>3 DEF Behind, Seen, Durable
  <1>8. FitDropsUnflushed'  BY DEF FitDropsUnflushed
  <1> QED  BY <1>2, <1>4, <1>5, <1>6, <1>7, <1>8 DEF IInv

LEMMA NextArgInv == ASSUME IInv, NextArg PROVE IInv'
  <1>1. CASE Fatal /\ todo' = todo  BY <1>1, FatalInv DEF NextArg, main
  <1>2. CASE ~ (Fatal /\ todo' = todo)
    <2> USE <1>2 DEF NextArg, bytes, epoch, history
    <2>1. PICK n \in Nat : n = Len(Text) /\ todo' = n /\ ptr + n <= fsize
      <3>1. Text \in Seq(Nat)  BY DEF IInv, Typed, Text
      <3> QED  BY <3>1
    <2>2. program = "basic" /\ fsize = Size
      <3>1. program # "trivial"
        <4> SUFFICES ASSUME program = "trivial" PROVE FALSE  OBVIOUS
        <4>1. Len(acked) = 1 /\ args = <<Hello>>  BY DEF IInv, TrivialControl
        <4> QED  BY <4>1
      <3> QED  BY <3>1 DEF IInv, Typed, Control
    <2>3. Text' = Text  BY DEF Text
    <2>4. Typed'
      <3>1. TypeOK'  BY <2>1, <2>2, SizesAssumption DEF IInv, Typed, TypeOK
      <3> QED  BY <2>1, <3>1 DEF IInv, Typed, Busy
    <2>5. Control' /\ TrivialControl'
      BY <2>1, <2>2, <2>3 DEF IInv, Control, TrivialControl, Busy, InCall
    <2>6. Copying'  BY <2>1, <2>3 DEF Copying
    <2>7. Flushing' /\ Asked' /\ LoggedFirst'
      BY DEF Flushing, Asked, LoggedFirst, InCall
    <2> QED  BY <2>4, <2>5, <2>6, <2>7, BytesKeep DEF IInv
  <1> QED  BY <1>1, <1>2

\* strcpy stores at or above ptr, where nothing was made durable.
LEMMA StrcpyByteInv == ASSUME IInv, StrcpyByte PROVE IInv'
  <1> USE DEF StrcpyByte, epoch, history
  <1>1. Text \in Seq(Nat) /\ Text' = Text
    <2>1. Len(acked) < Len(args) /\ Len(acked) \in Nat /\ args \in Seq(Seq(Nat))
      BY DEF IInv, Typed, Control, Busy
    <2> QED  BY <2>1 DEF Text
  <1>2. PICK n \in Nat, k \in Nat :
          /\ n = Len(Text) /\ todo <= n /\ k = n - todo /\ k < n /\ ptr + k < Size
          /\ todo' = todo - 1 /\ Store(ptr + k, Text[k + 1])
    BY <1>1, SizesAssumption DEF IInv, Typed, Control, Busy
  <1>3. ptr + k \in Addrs /\ Text[k + 1] \in Nat /\ ptr \in Nat /\ todo \in Nat
    <2>1. ptr \in Nat /\ todo \in Nat  BY DEF IInv, Typed
    <2>2. k + 1 \in 1 .. Len(Text)  BY <1>1, <1>2
    <2>3. Text[k + 1] \in Nat  BY <1>1, <2>2
    <2>4. ptr + k \in Addrs  BY <1>2, <2>1, SizesAssumption DEF Addrs
    <2> QED  BY <2>1, <2>3, <2>4
  <1>4. /\ mem \in Images /\ file \in Images
        /\ mem' = [mem EXCEPT ![ptr + k] = Text[k + 1]]
        /\ mode # "fit" => mem = file /\ file' = [file EXCEPT ![ptr + k] = Text[k + 1]]
        /\ mode = "fit" => file' = file
    BY <1>2 DEF Store, IInv, Typed, TypeOK
  <1>5. mem' \in Images /\ file' \in Images
    BY <1>3, <1>4 DEF Images
  <1>6. Typed'
    <2>1. TypeOK'
      <3>1. todo' <= Size /\ ptr' <= Size
        BY <1>2, <1>3, SizesAssumption DEF IInv, Typed, TypeOK
      <3>2. mode' # "fit" => mem' = file'  BY <1>4
      <3> QED  BY <1>5, <3>1, <3>2 DEF IInv, Typed, TypeOK
    <2> QED  BY <1>2, <1>3, <2>1 DEF IInv, Typed
  <1>7. Control' /\ TrivialControl'
    BY <1>1, <1>2, <1>3 DEF IInv, Control, TrivialControl, Busy, InCall
  <1>8. Copying'
    <2> SUFFICES ASSUME NEW j \in 1 .. n - todo' PROVE mem'[ptr + j - 1] = Text[j]
      BY <1>1, <1>2 DEF Copying
    <2>1. j \in 1 .. k + 1 /\ ptr + j - 1 \in Addrs
      BY <1>2, <1>3, SizesAssumption DEF Addrs
    <2>2. CASE j = k + 1  BY <1>3, <1>4, <2>1, <2>2 DEF Images
    <2>3. CASE j # k + 1
      <3>1. j \in 1 .. Len(Text) - todo /\ ptr + j - 1 # ptr + k  BY <1>2, <1>3, <2>1, <2>3
      <3>2. mem[ptr + j - 1] = Text[j]  BY <3>1 DEF IInv, Copying, Busy
      <3> QED  BY <1>3, <1>4, <2>1, <3>1, <3>2 DEF Images
    <2> QED  BY <2>2, <2>3
  <1>9. Flushing' /\ Asked' /\ LoggedFirst'
    BY DEF Flushing, Asked, LoggedFirst, InCall
  <1>10. Behind'  BY DEF IInv, Behind
  <1>11. ASSUME NEW i \in 1 .. Len(acked), NEW j \in 1 .. Len(acked[i].text)
         PROVE  acked[i].at + j - 1 \in Nat /\ acked[i].at + j - 1 < ptr + k
    <2>1. PICK b \in Nat : b = acked[i].at + j - 1 /\ b < ptr  BY AckedBelow
    <2>2. ptr \in Nat /\ k \in Nat  BY <1>3
    <2> QED  BY <2>1, <2>2
  <1>12. Seen'
    <2> SUFFICES ASSUME NEW i \in 1 .. Len(acked), Lasting(acked[i]),
                        NEW j \in 1 .. Len(acked[i].text)
                 PROVE  mem'[acked[i].at + j - 1] = acked[i].text[j]
      BY DEF Seen, Held, Lasting
    <2>1. mem[acked[i].at + j - 1] = acked[i].text[j]
      BY DEF IInv, Seen, Held
    <2>2. PICK b \in Nat : b = acked[i].at + j - 1 /\ b < ptr + k  BY <1>11
    <2>3. b \in Addrs /\ b # ptr + k
      <3>1. PICK p \in Nat : p = ptr + k /\ p < Size  BY <1>2, <1>3
      <3> QED  BY <2>2, <3>1, SizesAssumption DEF Addrs
    <2> QED  BY <1>4, <2>1, <2>2, <2>3 DEF Images
  <1>13. Durable'
    <2> SUFFICES ASSUME NEW i \in 1 .. Len(acked), Lasting(acked[i]),
                        NEW j \in 1 .. Len(acked[i].text)
                 PROVE  Kept'[acked[i].at + j - 1] = acked[i].text[j]
      BY DEF Durable, Held, Lasting
    <2>1. Kept' = Kept  BY <1>4 DEF Kept
    <2> QED  BY <2>1 DEF IInv, Durable, Held
  <1>14. FitDropsUnflushed'  BY <1>4 DEF IInv, FitDropsUnflushed
  <1> QED  BY <1>6, <1>7, <1>8, <1>9, <1>10, <1>12, <1>13, <1>14 DEF IInv

-----------------------------------------------------------------------------
(* The call                                                                 *)

LEMMA PersistInv == ASSUME IInv, Persist PROVE IInv'
  <1> USE DEF Persist, bytes, epoch, main
  <1>1. PICK entry \in Calls, flags \in Flags : Called(entry, ptr, Len(Text), flags)
    OBVIOUS
  <1>2. entry \in {"persist", "flushcache"} /\ flags \in FlagSet
    BY ArgsAssumption DEF FlagSet
  <1>3. Text \in Seq(Nat) /\ Text' = Text
    <2>1. Len(acked) < Len(args) /\ Len(acked) \in Nat /\ args \in Seq(Seq(Nat))
      BY DEF IInv, Typed, Control, Busy
    <2> QED  BY <2>1 DEF Text
  <1>4. PICK n \in Nat : n = Len(Text) /\ ptr + n <= Size
    BY <1>3 DEF IInv, Control, Busy
  <1>5. fr' = [entry |-> entry, addr |-> ptr, len |-> n, flags |-> flags, uptr |-> 0]
    BY <1>1, <1>4 DEF Called
  <1>6. Typed'
    <2>1. fr' \in Frames /\ fr'.addr + fr'.len <= Size
      BY <1>2, <1>4, <1>5 DEF IInv, Typed, Frames, Entries
    <2>2. asked' \subseteq Addrs  BY <1>1 DEF Called, IInv, Typed, TypeOK
    <2>3. TypeOK'  BY <1>1, <2>1, <2>2 DEF Called, IInv, Typed, TypeOK
    <2> QED  BY <1>1, <1>2, <2>1, <2>3 DEF Called, IInv, Typed, Busy, InCall
  <1>7. Control'
    BY <1>1, <1>2, <1>3, <1>4, <1>5 DEF Called, IInv, Control, Busy, InCall
  <1>8. TrivialControl'  BY DEF TrivialControl
  <1>9. Copying'  BY <1>1, <1>3 DEF Called, IInv, Copying, Busy
  <1>10. Flushing' /\ LoggedFirst'  BY <1>1, <1>2 DEF Called, Flushing, LoggedFirst
  <1>11. Asked'
    <2> SUFFICES ASSUME mode = "fit",
                        NEW b \in Addrs, RoundDown(ptr, Line) <= b, b < RoundUp(ptr + n, Line)
                 PROVE  b \in asked'
      BY <1>1, <1>5 DEF Called, Asked
    <2> QED  BY <1>1, <1>4 DEF Called
  <1>12. Behind' /\ Seen' /\ Durable'
    <2>1. UNCHANGED <<mode, mem, file, media, acked, ptr>>  BY <1>1 DEF Called
    <2> QED  BY <2>1 DEF IInv, Behind, Seen, Durable, Held, Lasting, Kept
  <1>13. FitDropsUnflushed'  BY <1>1 DEF Called, IInv, FitDropsUnflushed
  <1> QED  BY <1>6, <1>7, <1>8, <1>9, <1>10, <1>11, <1>12, <1>13 DEF IInv

\* A step of the call that only moves on: what it has to show is at the next place.
LEMMA MovesOn ==
  ASSUME IInv, NEW next \in InCall, pc \in InCall, Goto(next), UNCHANGED main,
         next \in {"persist", "flushcache"} => FALSE,
         program = "trivial" => next \in {"fence", "returned"},
         Flushing', LoggedFirst'
  PROVE  IInv'
  <1> USE DEF Goto, bytes, epoch, history, main
  <1>1. Typed'
    <2>1. TypeOK'  BY DEF IInv, Typed, TypeOK
    <2> QED  BY <2>1 DEF IInv, Typed, Busy
  <1>2. Text' = Text  BY DEF Text
  <1>3. Control' /\ TrivialControl'
    BY <1>2 DEF IInv, Control, TrivialControl, Busy, InCall
  <1>4. Copying'  BY <1>2 DEF IInv, Copying, Busy
  <1>5. Asked'  BY DEF IInv, Asked
  <1> QED  BY <1>1, <1>3, <1>4, <1>5, BytesKeep DEF IInv

LEMMA DispatchInv == ASSUME IInv, Dispatch, UNCHANGED main PROVE IInv'
  <1> USE DEF Dispatch, Goto, main
  <1> DEFINE next == IF DispatchDrops THEN "returned"
                     ELSE IF pc = "persist" THEN "persist.mode" ELSE "flush.mode"
  <1>1. program = "basic"  BY DEF IInv, Typed, TrivialControl
  <1>2. Flushing'
    BY DEF Flushing, Lasting, DispatchDrops, LazyCall
  <1>3. LoggedFirst'  BY DEF IInv, Control, LoggedFirst
  <1>4. next \in InCall /\ Goto(next) /\ pc \in InCall  BY DEF InCall
  <1> QED  BY <1>1, <1>2, <1>3, <1>4, MovesOn

LEMMA PersistModeInv == ASSUME IInv, PersistMode, UNCHANGED main PROVE IInv'
  <1> USE DEF PersistMode, Goto, main
  <1> DEFINE next == IF ModeDrops THEN "returned" ELSE IF mode = "cl" THEN "log"
                     ELSE "flush.mode"
  <1>1. program = "basic"  BY DEF IInv, Typed, TrivialControl
  <1>2. Flushing'  BY DEF Flushing, Lasting, ModeDrops, LazyCall
  <1>3. LoggedFirst'  BY DEF LoggedFirst
  <1>4. next \in InCall /\ Goto(next) /\ pc \in InCall  BY DEF InCall
  <1> QED  BY <1>1, <1>2, <1>3, <1>4, MovesOn

LEMMA FenceInv == ASSUME IInv, Fence, UNCHANGED main PROVE IInv'
  <1> USE DEF Fence, Goto, bytes
  <1>1. Flushing'  BY DEF IInv, Flushing, Lasting, Reached, Kept
  <1>2. LoggedFirst'  BY DEF LoggedFirst
  <1>3. "returned" \in InCall /\ pc \in InCall  BY DEF InCall
  <1> QED  BY <1>1, <1>2, <1>3, MovesOn

\* A sequence is a suffix of whatever it is appended to.
LEMMA SuffixOfConcat ==
  ASSUME NEW r \in Seq(Nat), NEW s \in Seq(Nat)
  PROVE  IsSuffix(s, r \o s)
  <1>1. PICK m \in Nat, n \in Nat : m = Len(r) /\ n = Len(s)  OBVIOUS
  <1> DEFINE t == r \o s
  <1>2. t \in Seq(Nat) /\ Len(t) = m + n /\ \A k \in 1 .. n : t[m + k] = s[k]  BY <1>1
  <1>3. /\ Reverse(s) = [k \in 1 .. n |-> s[(n - k) + 1]]
        /\ Reverse(t) = [k \in 1 .. m + n |-> t[(m + n - k) + 1]]
    BY <1>1, <1>2 DEF Reverse
  <1> HIDE DEF t
  <1>4. \A k \in 1 .. n : Reverse(t)[k] = Reverse(s)[k]
    <2> SUFFICES ASSUME NEW k \in 1 .. n PROVE Reverse(t)[k] = Reverse(s)[k]  OBVIOUS
    <2>1. PICK j \in 1 .. n : j = (n - k) + 1 /\ (m + n - k) + 1 = m + j  OBVIOUS
    <2>2. k \in 1 .. m + n  OBVIOUS
    <2> QED  BY <1>2, <1>3, <2>1, <2>2
  <1>5. /\ Reverse(s) \in Seq(Nat) /\ Len(Reverse(s)) = n
        /\ Reverse(t) \in Seq(Nat) /\ Len(Reverse(t)) = m + n
    <2>1. \A k \in 1 .. n : s[(n - k) + 1] \in Nat  BY <1>1
    <2>2. \A k \in 1 .. m + n : t[(m + n - k) + 1] \in Nat  BY <1>2
    <2> QED  BY <1>3, <2>1, <2>2
  <1>6. SubSeq(Reverse(s), 1, n) = SubSeq(Reverse(t), 1, n)  BY <1>4, <1>5
  <1> QED  BY <1>5, <1>6 DEF IsSuffix, IsPrefix, t

LEMMA ConcatType ==
  ASSUME NEW r \in Seq(Nat), NEW s \in Seq(Nat)
  PROVE  r \o s \in Seq(Nat) /\ Len(r \o s) = Len(r) + Len(s)
  OBVIOUS

LEMMA RecordType ==
  ASSUME IInv
  PROVE  fr.len \in Nat /\ Record \in Seq(Nat) /\ Len(Record) = fr.len
  <1>1. PICK a \in Nat, l \in Nat : a = fr.addr /\ l = fr.len /\ a + l <= Size
    BY DEF IInv, Typed, TypeOK, Frames
  <1>2. ASSUME NEW k \in 1 .. l PROVE mem[a + k - 1] \in Nat
    <2>1. a + k - 1 \in Addrs  BY <1>1, SizesAssumption DEF Addrs
    <2>2. mem \in Images  BY DEF IInv, Typed, TypeOK
    <2> QED  BY <2>1, <2>2 DEF Images
  <1>3. Record = [k \in 1 .. l |-> mem[a + k - 1]]  BY <1>1 DEF Record
  <1> QED  BY <1>1, <1>2, <1>3

LEMMA WriteLogInv == ASSUME IInv, WriteLog, UNCHANGED main PROVE IInv'
  <1>1. CASE Fatal  BY <1>1, FatalInv
  <1>2. CASE ~ Fatal
    <2> USE <1>2 DEF WriteLog, bytes, epoch, history, main
    <2>1. PICK l \in Nat : l = fr.len /\ Record \in Seq(Nat) /\ Len(Record) = l
      BY RecordType
    <2>2. redo \in Seq(Nat)  BY DEF IInv, Typed
    <2>3. redo' \in Seq(Nat) /\ Len(redo') = Len(redo) + l /\ Len(redo) + l <= LogSpace
      <3>1. PICK r \in Seq(Nat) : r = Record /\ Len(r) = l  BY <2>1
      <3>2. redo' = redo \o r /\ Len(redo) + l <= LogSpace  BY <2>1, <3>1
      <3>3. redo \o r \in Seq(Nat) /\ Len(redo \o r) = Len(redo) + l
        BY <2>2, <3>1, ConcatType
      <3> QED  BY <3>2, <3>3
    <2>4. Typed'
      <3>1. TypeOK'  BY <2>3 DEF IInv, Typed, TypeOK
      <3> QED  BY <2>3, <3>1 DEF IInv, Typed, Busy, InCall
    <2>5. Text' = Text /\ Record' = Record  BY DEF Text, Record
    <2>6. program = "basic"  BY DEF IInv, Typed, TrivialControl
    <2>7. Control' /\ TrivialControl'
      BY <2>5, <2>6 DEF IInv, Control, TrivialControl, Busy, InCall
    <2>8. Copying'  BY <2>5 DEF IInv, Copying, Busy, InCall
    <2>9. Flushing' /\ Asked'  BY DEF IInv, Flushing, Asked, InCall
    <2>10. LoggedFirst'  BY <2>1, <2>2, <2>5, SuffixOfConcat DEF LoggedFirst
    <2> QED  BY <2>4, <2>7, <2>8, <2>9, <2>10, BytesKeep DEF IInv
  <1> QED  BY <1>1, <1>2

LEMMA FlushModeInv == ASSUME IInv, FlushMode, UNCHANGED main PROVE IInv'
  <1> USE DEF FlushMode, bytes, epoch, history, main
  <1>1. program = "basic"  BY DEF IInv, Typed, TrivialControl
  <1>2. fr \in Frames  BY DEF IInv, Typed
  <1>3. PICK u \in Nat :
          /\ u = RoundDown(fr.addr, IF mode = "msync" THEN Page ELSE Line)
          /\ u <= fr.addr
          /\ mode # "msync" => u % Line = 0
    BY <1>2, DownProps, SizesAssumption DEF Frames
  <1>4. fr' \in Frames /\ fr' = [fr EXCEPT !.uptr = u]
    BY <1>2, <1>3 DEF Frames
  <1>5. /\ fr'.addr = fr.addr /\ fr'.len = fr.len /\ fr'.flags = fr.flags
        /\ fr'.entry = fr.entry /\ fr'.uptr = u
    BY <1>2, <1>4 DEF Frames
  <1>6. Text' = Text /\ Record' = Record  BY <1>5 DEF Text, Record
  <1>7. Typed'
    <2>1. TypeOK'  BY <1>5 DEF IInv, Typed, TypeOK
    <2> QED  BY <1>4, <2>1 DEF IInv, Typed, Busy, InCall
  <1>8. Control' /\ TrivialControl'
    BY <1>1, <1>5, <1>6 DEF IInv, Control, TrivialControl, Busy, InCall
  <1>9. Copying'  BY <1>6 DEF IInv, Copying, Busy, InCall
  <1>10. Flushing'
    <2>1. CASE ModeDrops
      BY <1>5, <2>1 DEF Flushing, Lasting, ModeDrops, LazyCall
    <2>2. CASE ~ ModeDrops
      <3>1. pc' = "flush"  BY <2>2
      <3>2. Reached(fr.uptr)'
        BY <1>2, <1>3, <1>5 DEF Reached, Addrs, Frames
      <3>3. mode = "msync" => fr'.uptr = RoundDown(fr'.addr, Page)  BY <1>3, <1>5
      <3>4. mode # "msync" => fr'.uptr % Line = 0 /\ RoundDown(fr'.addr, Line) <= fr'.uptr
        BY <1>3, <1>5
      <3> QED  BY <3>1, <3>2, <3>3, <3>4 DEF Flushing
    <2> QED  BY <2>1, <2>2
  <1>11. Asked'  BY <1>5 DEF IInv, Asked, InCall
  <1>12. LoggedFirst'  BY <1>5, <1>6 DEF IInv, LoggedFirst
  <1> QED  BY <1>7, <1>8, <1>9, <1>10, <1>11, <1>12, BytesKeep DEF IInv

\* trivial.c flushes the page that its string lies in.
LEMMA TrivialSyncInv == ASSUME IInv, TrivialSync PROVE IInv'
  <1> USE DEF TrivialSync, bytes, epoch, history, main
  <1>1. Page \in Nat /\ Page <= Size  BY PageFits, SizesAssumption
  <1>2. fr' \in Frames /\ fr'.addr = 0 /\ fr'.len = Page /\ fr'.flags = "none" /\ fr'.uptr = 0
         /\ fr'.entry = "none"
    BY <1>1 DEF NoCall, Frames, Entries, FlagSet
  <1>3. Text' = Text  BY DEF Text
  <1>4. Typed'
    <2>1. TypeOK'  BY <1>1, <1>2 DEF IInv, Typed, TypeOK
    <2> QED  BY <1>2, <2>1 DEF IInv, Typed, Busy, InCall
  <1>5. mode = "msync"  BY DEF IInv, TrivialControl
  <1>6. Control' /\ TrivialControl'
    BY <1>2, <1>3 DEF IInv, Control, TrivialControl, Busy, InCall
  <1>7. Copying'  BY <1>3 DEF IInv, Copying, Busy, InCall
  <1>8. Flushing'
    <2>1. RoundDown(0, Page) = 0
      <3>1. RoundDown(0, Page) \in Nat /\ RoundDown(0, Page) <= 0
        BY DownProps, SizesAssumption
      <3> QED  BY <3>1
    <2> QED  BY <1>2, <1>5, <2>1 DEF Flushing
  <1>9. Asked' /\ LoggedFirst'  BY <1>5 DEF Asked, LoggedFirst
  <1> QED  BY <1>4, <1>6, <1>7, <1>8, <1>9, BytesKeep DEF IInv

-----------------------------------------------------------------------------
(* What reaches the file and the media                                      *)

\* A byte that is kept either stays or becomes what the process sees, so that
\* nothing durable is lost.
LEMMA FlushKeeps ==
  ASSUME IInv, UNCHANGED <<mode, mem, acked, ptr>>,
         \A b \in Addrs : Kept'[b] \in {Kept[b], mem[b]}
  PROVE  Behind' /\ Seen' /\ Durable'
  <1>1. Behind' /\ Seen'  BY DEF IInv, Behind, Seen, Held, Lasting
  <1>2. Durable'
    <2> SUFFICES ASSUME NEW i \in 1 .. Len(acked), Lasting(acked[i]),
                        NEW j \in 1 .. Len(acked[i].text)
                 PROVE  Kept'[acked[i].at + j - 1] = acked[i].text[j]
      BY DEF Durable, Held, Lasting
    <2>1. PICK b \in Nat : b = acked[i].at + j - 1 /\ b < ptr  BY AckedBelow
    <2>2. b \in Addrs
      BY <2>1, SizesAssumption DEF Addrs, IInv, Typed, TypeOK
    <2>3. mem[b] = acked[i].text[j] /\ Kept[b] = acked[i].text[j]
      BY <2>1 DEF IInv, Seen, Durable, Held
    <2> QED  BY <2>1, <2>2, <2>3
  <1> QED  BY <1>1, <1>2

\* A line or a page of one image over another is an image.
LEMMA CopiedType ==
  ASSUME NEW src \in Images, NEW dst \in Images, NEW from, NEW to
  PROVE  /\ Copied(from, to, src, dst) \in Images
         /\ \A b \in Addrs : Copied(from, to, src, dst)[b] =
                               IF from <= b /\ b < to THEN src[b] ELSE dst[b]
  <1>1. \A b \in Addrs : src[b] \in Nat /\ dst[b] \in Nat  BY DEF Images
  <1> QED  BY <1>1 DEF Copied, Images

LEMMA FlushLineInv == ASSUME IInv, FlushLine, UNCHANGED main PROVE IInv'
  <1>1. CASE Fatal  BY <1>1, FatalInv
  <1>2. CASE fr.uptr >= fr.addr + fr.len /\ Goto("fence")
    <2>1. pc = "flush" /\ mode # "msync"  BY DEF FlushLine
    <2>2. Flushing'
      BY <1>2, <2>1 DEF Goto, bytes, IInv, Typed, Frames, Flushing, Lasting, Reached, Kept, Addrs
    <2>3. LoggedFirst'
      BY <1>2, <2>1 DEF Goto, bytes, IInv, LoggedFirst, Record
    <2>4. "fence" \in InCall /\ pc \in InCall  BY <2>1 DEF InCall
    <2> QED  BY <1>2, <2>2, <2>3, <2>4, MovesOn
  <1>3. CASE /\ fr.uptr < fr.addr + fr.len
             /\ FlushedLine
             /\ fr' = [fr EXCEPT !.uptr = @ + Line]
             /\ UNCHANGED <<mode, mem, epoch, redo, history, pc>>
    <2>1. pc = "flush" /\ mode # "msync"  BY DEF FlushLine
    <2> USE <1>3 DEF epoch, history, main
    <2>2. fr \in Frames /\ Line \in Nat \ {0}  BY SizesAssumption DEF IInv, Typed
    <2>3. PICK u \in Nat, a \in Nat, l \in Nat :
            /\ u = fr.uptr /\ a = fr.addr /\ l = fr.len
            /\ u % Line = 0 /\ u < a + l /\ RoundDown(a, Line) <= u
      BY <2>1, <2>2 DEF IInv, Flushing, Frames
    <2>4. LineOf(u) = u  BY <2>2, <2>3 DEF LineOf, RoundDown
    <2>5. /\ fr' \in Frames /\ fr'.uptr = u + Line /\ fr'.addr = a /\ fr'.len = l
          /\ fr'.flags = fr.flags /\ fr'.entry = fr.entry
      BY <2>2, <2>3 DEF Frames
    <2>6. mem \in Images /\ file \in Images /\ media \in Images /\ (mode # "fit" => mem = file)
      BY DEF IInv, Typed, TypeOK
    <2>7. /\ file' \in Images /\ media' \in Images
          /\ mode # "fit" => file' = file
          /\ mode = "fit" => media' = media
          /\ \A b \in Addrs : Kept'[b] = IF u <= b /\ b < u + Line THEN mem[b] ELSE Kept[b]
      <3>1. CASE mode = "fit"
        BY <2>3, <2>4, <2>6, <3>1, CopiedType DEF FlushedLine, Kept
      <3>2. CASE mode # "fit"
        BY <2>3, <2>4, <2>6, <3>2, CopiedType DEF FlushedLine, Kept
      <3> QED  BY <3>1, <3>2
    <2>8. Typed'
      <3>1. TypeOK'  BY <2>3, <2>5, <2>7 DEF IInv, Typed, TypeOK
      <3> QED  BY <2>5, <3>1 DEF IInv, Typed
    <2>9. Text' = Text /\ Record' = Record  BY <2>3, <2>5 DEF Text, Record
    <2>10. Control' /\ TrivialControl'
      BY <2>1, <2>3, <2>5, <2>9 DEF IInv, Control, TrivialControl
    <2>11. Copying'  BY <2>9 DEF IInv, Copying
    <2>12. Flushing'
      <3>1. (u + Line) % Line = 0  BY <2>2, <2>3, ModAdd
      <3>2. RoundDown(a, Line) \in Nat  BY <2>2, DownProps
      <3>3. RoundDown(a, Line) <= u + Line  BY <2>2, <2>3, <3>2
      <3>4. ASSUME NEW b \in Addrs, a <= b, b < a + l, b < u + Line
            PROVE  Kept'[b] = mem[b]
        <4>1. CASE u <= b  BY <2>7, <3>4, <4>1
        <4>2. CASE ~ u <= b
          <5>1. b < u  BY <4>2, SizesAssumption DEF Addrs
          <5>2. Kept[b] = mem[b]
            BY <2>1, <2>3, <3>4, <5>1 DEF IInv, Flushing, Reached
          <5> QED  BY <2>7, <4>2, <5>2
        <4> QED  BY <4>1, <4>2
      <3>5. Reached(fr.uptr)'  BY <2>5, <3>4 DEF Reached
      <3> QED  BY <2>1, <2>5, <3>1, <3>3, <3>5 DEF Flushing
    <2>13. Asked'  BY <2>3, <2>5 DEF IInv, Asked
    <2>14. FitDropsUnflushed'
      <3> SUFFICES ASSUME mode = "fit", NEW b \in Addrs \ asked PROVE file'[b] = old[b]
        BY DEF FitDropsUnflushed
      <3>1. ~ (u <= b /\ b < u + Line)
        <4> SUFFICES ASSUME u <= b, b < u + Line PROVE FALSE  OBVIOUS
        <4>1. b \in Nat  BY SizesAssumption DEF Addrs
        <4>2. PICK n \in Nat : n = a + l  OBVIOUS
        <4>3. u + Line <= RoundUp(n, Line) /\ RoundUp(n, Line) \in Nat
          BY <2>2, <2>3, <4>2, UpProps
        <4>4. b < RoundUp(n, Line)  BY <2>2, <4>1, <4>3
        <4>5. RoundDown(a, Line) \in Nat  BY <2>2, DownProps
        <4>6. RoundDown(a, Line) <= b  BY <2>3, <4>1, <4>5
        <4>7. b \in asked  BY <2>1, <2>3, <4>2, <4>4, <4>6 DEF IInv, Asked, InCall
        <4> QED  BY <4>7
      <3>2. file'[b] = file[b]  BY <2>7, <3>1 DEF Kept
      <3> QED  BY <3>2 DEF IInv, FitDropsUnflushed
    <2>15. LoggedFirst'  BY <2>5, <2>9 DEF IInv, LoggedFirst
    <2>16. Behind' /\ Seen' /\ Durable'  BY <2>7, FlushKeeps
    <2> QED  BY <2>8, <2>10, <2>11, <2>12, <2>13, <2>14, <2>15, <2>16 DEF IInv
  <1> QED  BY <1>1, <1>2, <1>3 DEF FlushLine

LEMMA FlushPagesInv == ASSUME IInv, FlushPages, UNCHANGED main PROVE IInv'
  <1>1. CASE Fatal  BY <1>1, FatalInv
  <1>2. CASE ~ Fatal
    <2>1. /\ pc = "flush" /\ mode = "msync" /\ pc' = "fence"
          /\ media' = Copied(fr.uptr, fr.uptr + RoundUp(fr.len + (fr.addr % Page), Page),
                             file, media)
          /\ UNCHANGED <<mode, mem, file, epoch, redo, history, fr, main>>
      BY <1>2 DEF FlushPages
    <2> USE DEF epoch, history, main
    <2>2. PICK a \in Nat, l \in Nat, u \in Nat, r \in Nat :
            /\ a = fr.addr /\ l = fr.len /\ u = fr.uptr /\ r = a % Page /\ u = a - r
      <3>1. fr.addr \in Nat /\ fr.len \in Nat /\ fr.uptr \in Nat
        BY DEF IInv, Typed, Frames
      <3>2. fr.addr % Page \in Nat  BY <3>1, ModDiv, SizesAssumption
      <3>3. fr.uptr = fr.addr - (fr.addr % Page)
        BY <2>1 DEF IInv, Flushing, RoundDown
      <3> QED  BY <3>1, <3>2, <3>3
    <2>3. PICK up \in Nat : up = RoundUp(l + r, Page) /\ l + r <= up
      <3>1. l + r \in Nat  OBVIOUS
      <3> QED  BY <3>1, UpProps, SizesAssumption
    <2>4. mem = file /\ file \in Images /\ media \in Images
      BY <2>1 DEF IInv, Typed, TypeOK
    <2>5. /\ media' \in Images
          /\ \A b \in Addrs : media'[b] = IF u <= b /\ b < u + up THEN mem[b] ELSE media[b]
      BY <2>1, <2>2, <2>3, <2>4, CopiedType
    <2>6. Typed'
      <3>1. TypeOK'  BY <2>1, <2>5 DEF IInv, Typed, TypeOK
      <3> QED  BY <2>1, <3>1 DEF IInv, Typed, Busy, InCall
    <2>7. Text' = Text  BY <2>1 DEF Text
    <2>8. Control' /\ TrivialControl'
      BY <2>1, <2>7 DEF IInv, Control, TrivialControl, Busy, InCall
    <2>9. Copying'  BY <2>1, <2>7 DEF IInv, Copying, Busy, InCall
    <2>10. Flushing'
      <3>1. ASSUME NEW b \in Addrs, a <= b, b < a + l  PROVE media'[b] = mem[b]
        <4>1. b \in Nat  BY SizesAssumption DEF Addrs
        <4>2. u <= b /\ b < u + up  BY <2>2, <2>3, <3>1, <4>1
        <4> QED  BY <2>5, <4>2
      <3>2. Reached(fr.addr + fr.len)'  BY <2>1, <2>2, <3>1 DEF Reached, Kept
      <3> QED  BY <2>1, <3>2 DEF Flushing
    <2>11. Asked' /\ FitDropsUnflushed' /\ LoggedFirst'
      BY <2>1 DEF Asked, FitDropsUnflushed, LoggedFirst
    <2>12. Behind' /\ Seen' /\ Durable'  BY <2>1, <2>5, FlushKeeps DEF Kept
    <2> QED  BY <2>6, <2>8, <2>9, <2>10, <2>11, <2>12 DEF IInv
  <1> QED  BY <1>1, <1>2

\* The call has returned: the string counts as durable, and it is.
LEMMA PersistedInv == ASSUME IInv, Persisted PROVE IInv'
  <1> USE DEF bytes, epoch, history
  <1>1. /\ pc = "returned" /\ pc' = "args" /\ fr' = NoCall /\ Ack
        /\ ptr' = ptr + Len(Text)
        /\ UNCHANGED <<mode, bytes, epoch, redo, history, program, fsize, args, todo>>
    BY DEF Persisted
  <1>2. Len(acked) < Len(args) /\ acked \in Seq(Acks) /\ args \in Seq(Seq(Nat))
         /\ ptr \in Nat /\ fr \in Frames
    BY <1>1 DEF IInv, Typed, Control, Busy, InCall
  <1>3. Text \in Seq(Nat)  BY <1>2 DEF Text
  <1>4. PICK n \in Nat, l \in Nat, t \in Seq(Nat) :
          /\ n = Len(acked) /\ t = Text /\ l = Len(t) /\ ptr + l <= Size
    BY <1>1, <1>2, <1>3 DEF IInv, Control, Busy, InCall
  <1>5. PICK a \in Acks : a = [text |-> t, at |-> fr.addr, flags |-> fr.flags]
    <2>1. fr.addr \in Nat /\ fr.flags \in FlagSet  BY <1>2 DEF Frames
    <2>2. [text |-> t, at |-> fr.addr, flags |-> fr.flags] \in Acks  BY <2>1 DEF Acks
    <2> QED  BY <2>2
  <1>6. acked' = Append(acked, a)  BY <1>1, <1>4, <1>5 DEF Ack
  <1>7. /\ acked' \in Seq(Acks) /\ Len(acked') = n + 1
        /\ acked'[n + 1] = a
        /\ \A i \in 1 .. n : acked'[i] = acked[i]
    BY <1>2, <1>4, <1>5, <1>6
  <1>8. fr.addr = ptr /\ l <= fr.len
    <2>1. CASE program = "basic"
      BY <1>1, <1>4, <2>1 DEF IInv, Control, InCall
    <2>2. CASE program = "trivial"
      <3>1. fr.addr = 0 /\ fr.len = Page /\ args = <<Hello>> /\ (acked = <<>> => ptr = 0)
        BY <1>1, <2>2 DEF IInv, TrivialControl, InCall
      <3>2. Len(acked) = 0  BY <1>2, <3>1
      <3>3. acked = <<>>  BY <1>2, <3>2
      <3>4. Text = Hello  BY <3>1, <3>2 DEF Text
      <3> QED  BY <1>4, <3>1, <3>3, <3>4, ArgsAssumption
    <2> QED  BY <2>1, <2>2 DEF IInv, Typed
  <1>9. ASSUME NEW j \in 1 .. l
        PROVE  /\ mem[a.at + j - 1] = a.text[j]
               /\ Lasting(a) => Kept[a.at + j - 1] = a.text[j]
    <2>1. PICK c \in Nat : c = ptr + j - 1 /\ ptr <= c /\ c < ptr + l  BY <1>2, <1>4
    <2>2. c \in Addrs  BY <1>2, <1>4, <2>1, SizesAssumption DEF Addrs
    <2>3. a.at = ptr /\ a.text = t /\ a.flags = fr.flags  BY <1>5, <1>8
    <2>4. mem[c] = t[j]
      <3>1. todo = 0  BY <1>1 DEF IInv, Control, InCall
      <3>2. j \in 1 .. Len(Text) - todo  BY <1>4, <3>1
      <3> QED  BY <1>1, <1>4, <2>1, <3>2 DEF IInv, Copying, Busy, InCall
    <2>5. ASSUME Lasting(a) PROVE Kept[c] = mem[c]
      <3>1. Lasting(fr)  BY <2>3, <2>5 DEF Lasting
      <3>2. Reached(fr.addr + fr.len)  BY <1>1, <3>1 DEF IInv, Flushing
      <3>3. PICK m \in Nat : m = fr.len /\ l <= m  BY <1>2, <1>8 DEF Frames
      <3>4. fr.addr <= c /\ c < fr.addr + fr.len  BY <1>2, <1>8, <2>1, <3>3
      <3> QED  BY <2>2, <3>2, <3>4 DEF Reached
    <2> QED  BY <2>1, <2>3, <2>4, <2>5
  <1>10. Typed'
    <2>1. ptr' \in Nat /\ ptr' <= Size  BY <1>1, <1>2, <1>4
    <2>2. fr' \in Frames /\ fr'.addr + fr'.len <= Size
      BY <1>1, SizesAssumption DEF NoCall, Frames, Entries, FlagSet
    <2>3. TypeOK'  BY <1>1, <2>1, <2>2 DEF IInv, Typed, TypeOK
    <2>4. Len(acked') <= Len(args')  BY <1>1, <1>2, <1>4, <1>7
    <2> QED  BY <1>1, <1>7, <2>1, <2>2, <2>3, <2>4 DEF IInv, Typed
  <1>11. Control'
    BY <1>1 DEF IInv, Control, Busy, InCall
  <1>12. TrivialControl'
    <2> SUFFICES ASSUME program = "trivial" PROVE TrivialControl'
      BY <1>1 DEF TrivialControl
    <2>1. mode = "msync" /\ args = <<Hello>>  BY DEF IInv, TrivialControl
    <2>2. n = 0  BY <1>2, <1>4, <2>1
    <2>3. Len(acked') = 1  BY <1>7, <2>2
    <2>4. acked' = <<>> => Len(acked') = 0  OBVIOUS
    <2> QED  BY <1>1, <2>1, <2>3, <2>4 DEF TrivialControl, InCall
  <1>13. Copying' /\ Flushing' /\ Asked' /\ LoggedFirst'
    BY <1>1 DEF Copying, Flushing, Asked, LoggedFirst, Busy, InCall
  <1>14. Behind'
    <2> SUFFICES ASSUME NEW i \in 1 .. n + 1
                 PROVE  acked'[i].at + Len(acked'[i].text) <= ptr'
      BY <1>7 DEF Behind
    <2>1. CASE i = n + 1
      <3>1. acked'[i].at = ptr /\ acked'[i].text = t  BY <1>5, <1>7, <1>8, <2>1
      <3> QED  BY <1>1, <1>2, <1>4, <3>1
    <2>2. CASE i # n + 1
      <3>1. i \in 1 .. Len(acked) /\ acked'[i] = acked[i]  BY <1>4, <1>7, <2>2
      <3>2. PICK x \in Nat, y \in Nat :
              x = acked[i].at /\ y = Len(acked[i].text) /\ x + y <= ptr
        BY <3>1, AckedType
      <3>3. ptr' = ptr + l  BY <1>1, <1>4
      <3>4. x + y <= ptr + l
        <4>1. PICK q \in Nat : q = ptr  BY <1>2
        <4>2. x + y <= q  BY <3>2, <4>1
        <4>3. x + y <= q + l  BY <4>2
        <4> QED  BY <4>1, <4>3
      <3> QED  BY <3>1, <3>2, <3>3, <3>4
    <2> QED  BY <2>1, <2>2
  <1>15. Seen'
    <2> SUFFICES ASSUME NEW i \in 1 .. n + 1, Lasting(acked'[i])
                 PROVE  Held(acked'[i], mem)
      BY <1>1, <1>7 DEF Seen, Held, Lasting
    <2>1. CASE i = n + 1
      <3>1. acked'[i] = a /\ Len(a.text) = l  BY <1>4, <1>5, <1>7, <2>1
      <3> QED  BY <1>9, <3>1 DEF Held
    <2>2. CASE i # n + 1
      <3>1. i \in 1 .. Len(acked) /\ acked'[i] = acked[i]  BY <1>4, <1>7, <2>2
      <3> QED  BY <3>1 DEF IInv, Seen
    <2> QED  BY <2>1, <2>2
  <1>16. Durable'
    <2> SUFFICES ASSUME NEW i \in 1 .. n + 1, Lasting(acked'[i])
                 PROVE  Held(acked'[i], Kept)
      BY <1>1, <1>7 DEF Durable, Held, Lasting, Kept
    <2>1. CASE i = n + 1
      <3>1. acked'[i] = a /\ Len(a.text) = l  BY <1>4, <1>5, <1>7, <2>1
      <3> QED  BY <1>9, <3>1 DEF Held
    <2>2. CASE i # n + 1
      <3>1. i \in 1 .. Len(acked) /\ acked'[i] = acked[i]  BY <1>4, <1>7, <2>2
      <3> QED  BY <3>1 DEF IInv, Durable
    <2> QED  BY <2>1, <2>2
  <1>17. FitDropsUnflushed'  BY <1>1 DEF IInv, FitDropsUnflushed
  <1> QED  BY <1>10, <1>11, <1>12, <1>13, <1>14, <1>15, <1>16, <1>17 DEF IInv

-----------------------------------------------------------------------------
(* The environment                                                          *)

LEMMA EpochInv == ASSUME IInv, EpochStart \/ EpochFlip, UNCHANGED main PROVE IInv'
  <1>1. CASE Fatal  BY <1>1, FatalInv
  <1>2. CASE ~ Fatal
    <2>1. /\ UNCHANGED <<mode, bytes, redo, history, pc, fr, main>>
          /\ thread' \in {"none", "new", "running"} /\ persistSet' \in BOOLEAN
      <3>1. CASE EpochStart
        BY <1>2, <3>1 DEF EpochStart, IInv, Typed, TypeOK
      <3>2. CASE EpochFlip
        BY <3>2 DEF EpochFlip, IInv, Typed, TypeOK
      <3> QED  BY <3>1, <3>2
    <2> USE DEF bytes, history, main
    <2>2. Typed'
      <3>1. TypeOK'  BY <2>1 DEF IInv, Typed, TypeOK
      <3> QED  BY <2>1, <3>1 DEF IInv, Typed
    <2>3. Text' = Text /\ Record' = Record /\ Kept' = Kept  BY <2>1 DEF Text, Record, Kept
    <2>4. Control' /\ TrivialControl' /\ Copying'
      BY <2>1, <2>3 DEF IInv, Control, TrivialControl, Copying
    <2>5. Flushing'  BY <2>1, <2>3 DEF IInv, Flushing, Reached, Lasting
    <2>6. Asked' /\ LoggedFirst'  BY <2>1, <2>3 DEF IInv, Asked, LoggedFirst
    <2> QED  BY <2>1, <2>2, <2>4, <2>5, <2>6, BytesKeep DEF IInv
  <1> QED  BY <1>1, <1>2

\* The cache writes back what the process sees: a byte that reached the media stays.
LEMMA WriteBackInv ==
  ASSUME IInv, NEW b \in Addrs, WriteBack(LineOf(b)), UNCHANGED main
  PROVE  IInv'
  <1> USE DEF epoch, history, main
  <1> DEFINE f == LineOf(b)
             t == LineOf(b) + Line
  <1>1. /\ media' = Copied(f, t, file, media)
        /\ UNCHANGED <<mode, mem, file, thread, persistSet, redo, asked, old, pc, fr, main>>
    BY DEF WriteBack
  <1>2. file \in Images /\ media \in Images /\ (mode # "fit" => mem = file)
    BY DEF IInv, Typed, TypeOK
  <1>3. /\ media' \in Images
        /\ \A c \in Addrs : Kept'[c] \in {Kept[c], mem[c]}
    BY <1>1, <1>2, CopiedType DEF Kept
  <1>4. Typed'
    <2>1. TypeOK'  BY <1>1, <1>3 DEF IInv, Typed, TypeOK
    <2> QED  BY <1>1, <2>1 DEF IInv, Typed
  <1>5. Text' = Text /\ Record' = Record  BY <1>1 DEF Text, Record
  <1>6. Control' /\ TrivialControl' /\ Copying'
    BY <1>1, <1>5 DEF IInv, Control, TrivialControl, Copying
  <1>7. Flushing'
    <2>1. UNCHANGED <<pc, mode, fr>>  BY <1>1
    <2>2. Reached(fr.uptr) => Reached(fr.uptr)'
      BY <1>1, <1>3 DEF Reached
    <2>3. Reached(fr.addr + fr.len) => Reached(fr.addr + fr.len)'
      BY <1>1, <1>3 DEF Reached
    <2> QED  BY <2>1, <2>2, <2>3 DEF IInv, Flushing, Lasting
  <1>8. Asked' /\ FitDropsUnflushed' /\ LoggedFirst'
    BY <1>1, <1>5 DEF IInv, Asked, FitDropsUnflushed, LoggedFirst
  <1>9. Behind' /\ Seen' /\ Durable'  BY <1>1, <1>3, FlushKeeps
  <1> QED  BY <1>4, <1>6, <1>7, <1>8, <1>9 DEF IInv

\* A power failure: what is durable is what the next process sees.
LEMMA RealCrashInv == ASSUME IInv, RealCrash PROVE IInv'
  <1> USE DEF RealCrash, PowerFail, Gone
  <1>1. Typed'
    <2>1. fr' \in Frames /\ fr'.addr + fr'.len <= Size
      BY SizesAssumption DEF NoCall, Frames, Entries, FlagSet
    <2>2. acked' \in Seq(Acks) /\ Len(acked') <= Len(args)
      <3>1. acked \in Seq(Acks) /\ Len(acked) <= Len(args) /\ Len(args) \in Nat
        BY DEF IInv, Typed
      <3>2. <<>> \in Seq(Acks) /\ Len(<<>>) <= Len(args)  BY <3>1
      <3> QED  BY <3>1, <3>2
    <2>3. TypeOK'  BY <2>1 DEF IInv, Typed, TypeOK
    <2> QED  BY <2>1, <2>2, <2>3 DEF IInv, Typed
  <1>2. Control' /\ Copying' /\ Flushing' /\ Asked' /\ LoggedFirst'
    BY DEF Control, Copying, Flushing, Asked, LoggedFirst, Busy, InCall
  <1>3. TrivialControl'  BY DEF IInv, TrivialControl, InCall
  <1>4. Behind' /\ Seen' /\ Durable'
    <2>1. CASE mode = "fit"  BY <2>1 DEF Behind, Seen, Durable
    <2>2. CASE mode # "fit"
      BY <2>2 DEF IInv, Behind, Seen, Durable, Held, Lasting, Kept
    <2> QED  BY <2>1, <2>2
  <1>5. FitDropsUnflushed'  BY DEF IInv, FitDropsUnflushed
  <1> QED  BY <1>1, <1>2, <1>3, <1>4, <1>5 DEF IInv

LEMMA StutterInv == ASSUME IInv, UNCHANGED vars PROVE IInv'
  <1> USE DEF vars, libvars, main
  <1>1. Text' = Text /\ Record' = Record /\ Kept' = Kept  BY DEF Text, Record, Kept
  <1>2. Typed'
    <2>1. TypeOK'  BY DEF IInv, Typed, TypeOK
    <2> QED  BY <2>1 DEF IInv, Typed
  <1>3. Control' /\ TrivialControl' /\ Copying'
    BY <1>1 DEF IInv, Control, TrivialControl, Copying
  <1>4. Flushing'  BY <1>1 DEF IInv, Flushing, Reached, Lasting
  <1>5. Asked' /\ LoggedFirst'  BY <1>1 DEF IInv, Asked, LoggedFirst
  <1> QED  BY <1>2, <1>3, <1>4, <1>5, BytesKeep DEF IInv

LEMMA NextInv == ASSUME IInv, [Next]_vars PROVE IInv'
  <1>1. CASE Start  BY <1>1, StartInv
  <1>2. CASE TrivialStart  BY <1>2, TrivialStartInv
  <1>3. CASE RealCrash  BY <1>3, RealCrashInv
  <1>4. CASE Step
    <2>1. CASE Allocate \/ MapFile \/ NextArg
      BY <2>1, AllocateInv, MapFileInv, NextArgInv
    <2>2. CASE Persist \/ Persisted \/ StrcpyByte
      BY <2>2, PersistInv, PersistedInv, StrcpyByteInv
    <2>3. CASE Done \/ TrivialBus  BY <2>3, FatalInv DEF Done, TrivialBus
    <2>4. CASE TrivialSync  BY <2>4, TrivialSyncInv
    <2>5. CASE Library /\ UNCHANGED main
      BY <2>5, DispatchInv, PersistModeInv, WriteLogInv, FlushModeInv, FlushLineInv,
         FlushPagesInv, FenceInv DEF Library
    <2> QED  BY <1>4, <2>1, <2>2, <2>3, <2>4, <2>5 DEF Step
  <1>5. CASE Environment /\ UNCHANGED main
    <2>1. CASE EpochStart \/ EpochFlip  BY <1>5, <2>1, EpochInv
    <2>2. CASE Killed  BY <1>5, <2>2, FatalInv DEF Killed
    <2>3. CASE \E b \in Addrs : WriteBack(LineOf(b))  BY <1>5, <2>3, WriteBackInv
    <2> QED  BY <1>5, <2>1, <2>2, <2>3 DEF Environment
  <1>6. CASE UNCHANGED vars  BY <1>6, StutterInv
  <1> QED  BY <1>1, <1>2, <1>3, <1>4, <1>5, <1>6 DEF Next

-----------------------------------------------------------------------------
(* Where the strings lie                                                    *)

Argv == \A i \in 1 .. Len(args) : CString(args[i])

\* The strings made durable lie one after the other, and a running process puts the
\* next one where the last one ends.
StringsInv ==
  /\ Argv
  /\ Strung(acked)
  /\ pc # "down" => ptr = EndOf(acked, Len(acked))

\* The call that has returned was about the string at ptr.
LEMMA PersistedAt == ASSUME IInv, Persisted PROVE fr.addr = ptr
  <1>1. pc = "returned"  BY DEF Persisted
  <1>2. CASE program = "basic"  BY <1>1, <1>2 DEF IInv, Control, InCall
  <1>3. CASE program = "trivial"
    <2>1. fr.addr = 0 /\ args = <<Hello>> /\ (acked = <<>> => ptr = 0)
      BY <1>1, <1>3 DEF IInv, TrivialControl, InCall
    <2>2. Len(acked) < Len(args) /\ acked \in Seq(Acks)
      BY <1>1 DEF IInv, Control, Busy, InCall, Typed
    <2>3. acked = <<>>  BY <2>1, <2>2
    <2> QED  BY <2>1, <2>3
  <1> QED  BY <1>2, <1>3 DEF IInv, Typed

LEMMA PersistedStrings == ASSUME IInv, StringsInv, Persisted PROVE StringsInv'
  <1>1. /\ acked' = Append(acked, [text |-> Text, at |-> fr.addr, flags |-> fr.flags])
        /\ ptr' = ptr + Len(Text) /\ args' = args /\ pc = "returned"
    BY DEF Persisted, Ack
  <1>2. Len(acked) < Len(args) /\ acked \in Seq(Acks) /\ args \in Seq(Seq(Nat))
    BY <1>1 DEF IInv, Typed, Control, Busy, InCall
  <1>3. PICK n \in Nat : n = Len(acked) /\ n + 1 \in 1 .. Len(args)  BY <1>2
  <1>4. CString(Text)  BY <1>3 DEF Text, StringsInv, Argv
  <1>5. fr.addr = ptr /\ ptr = EndOf(acked, n)  BY <1>1, <1>3, PersistedAt DEF StringsInv
  <1> DEFINE a == [text |-> Text, at |-> fr.addr, flags |-> fr.flags]
  <1>6. a \in Acks
    <2>1. fr \in Frames  BY DEF IInv, Typed
    <2> QED  BY <2>1, <1>4 DEF Acks, Frames, CString
  <1>7. a.text = Text /\ a.at = ptr  BY <1>5
  <1> HIDE DEF a
  <1>8. /\ Len(acked') = n + 1 /\ acked'[n + 1] = a
        /\ \A i \in 1 .. n : acked'[i] = acked[i]
    BY <1>1, <1>2, <1>3, <1>6, AppendProperties DEF a
  <1>9. ASSUME NEW i \in 1 .. n + 1
        PROVE  /\ CString(acked'[i].text)
               /\ acked'[i].at = IF i = 1 THEN 0 ELSE acked'[i - 1].at + Len(acked'[i - 1].text)
    <2>1. i # 1 => i - 1 \in 1 .. n /\ acked'[i - 1] = acked[i - 1]  BY <1>8
    <2>2. CASE i = n + 1
      <3>1. acked'[i].text = Text /\ acked'[i].at = EndOf(acked, n)
        BY <1>5, <1>7, <1>8, <2>2
      <3>2. (i = 1 <=> n = 0) /\ (i # 1 => i - 1 = n)  BY <2>2
      <3> QED  BY Zenon, <1>4, <2>1, <3>1, <3>2 DEF EndOf
    <2>3. CASE i # n + 1
      <3>1. i \in 1 .. Len(acked) /\ acked'[i] = acked[i]  BY <1>3, <1>8, <2>3
      <3>2. /\ CString(acked[i].text)
            /\ acked[i].at = IF i = 1 THEN 0 ELSE acked[i - 1].at + Len(acked[i - 1].text)
        BY Zenon, <3>1 DEF StringsInv, Strung
      <3> QED  BY Zenon, <2>1, <3>1, <3>2
    <2> QED  BY <2>2, <2>3
  <1>10. Strung(acked')
    <2> QED  BY <1>8, <1>9 DEF Strung
  <1>11. ptr' = EndOf(acked', n + 1)
    <2>1. n + 1 # 0  OBVIOUS
    <2> QED  BY <1>1, <1>7, <1>8, <2>1 DEF EndOf
  <1>12. Argv'  BY <1>1 DEF StringsInv, Argv
  <1> QED  BY <1>8, <1>10, <1>11, <1>12 DEF StringsInv

\* A new process, that of basic or that of trivial.
LEMMA StartedStrings == ASSUME IInv, Start \/ TrivialStart PROVE StringsInv'
  <1>1. acked' = <<>> /\ ptr' = 0  BY DEF Start, TrivialStart
  <1>2. Argv'
    <2>1. args' \in ArgLists \/ args' = <<Hello>>  BY DEF Start, TrivialStart
    <2> QED  BY <2>1, StringsAssumption DEF Argv
  <1>3. Len(acked') = 0  BY <1>1
  <1>4. Strung(acked')  BY <1>3 DEF Strung
  <1>5. ptr' = EndOf(acked', Len(acked'))  BY <1>1, <1>3 DEF EndOf
  <1> QED  BY <1>2, <1>4, <1>5 DEF StringsInv

LEMMA OtherStrings ==
  ASSUME StringsInv, UNCHANGED <<args, ptr, acked>>, pc' # "down" => pc # "down"
  PROVE  StringsInv'
  BY DEF StringsInv, Argv

LEMMA StepsKeepStrings ==
  ASSUME IInv, StringsInv, [Next]_vars
  PROVE  StringsInv'
  <1>1. CASE Start \/ TrivialStart  BY <1>1, StartedStrings
  <1>2. CASE Persisted  BY <1>2, PersistedStrings
  <1>3. CASE RealCrash
    <2>1. args' = args /\ pc' = "down" /\ (acked' = acked \/ acked' = <<>>)
      BY <1>3 DEF RealCrash, PowerFail, Gone
    <2>2. Strung(acked')  BY <2>1 DEF StringsInv, Strung
    <2> QED  BY <2>1, <2>2 DEF StringsInv, Argv
  <1>4. CASE Step /\ ~ Persisted
    <2>1. UNCHANGED <<args, ptr, acked>>
      BY Zenon, <1>4 DEF Step, Allocate, MapFile, NextArg, Persist, Done, TrivialBus, TrivialSync,
                         StrcpyByte, main
    <2>2. pc # "down"
      BY <1>4 DEF Step, Allocate, MapFile, NextArg, Persist, Done, TrivialBus, TrivialSync,
                  StrcpyByte, Library, Dispatch, PersistMode, WriteLog, FlushMode, FlushLine,
                  FlushPages, Fence
    <2> QED  BY <2>1, <2>2, OtherStrings
  <1>5. CASE Environment /\ UNCHANGED main
    <2>1. pc' # "down" => pc # "down"
      BY <1>5 DEF Environment, EpochStart, EpochFlip, WriteBack, Killed, Fatal, Gone
    <2> QED  BY <1>5, <2>1, OtherStrings DEF main
  <1>6. CASE UNCHANGED vars  BY <1>6, OtherStrings DEF vars, libvars, main
  <1> QED  BY <1>1, <1>2, <1>3, <1>4, <1>5, <1>6 DEF Next

LEMMA InitStrings == ASSUME Init PROVE StringsInv
  <1>1. Len(args) = 0 /\ Len(acked) = 0 /\ pc = "down"  BY DEF Init, LibInit
  <1> QED  BY <1>1 DEF StringsInv, Argv, Strung

\* What a dump prints first is what was made durable.
LEMMA StringsPrinted == ASSUME IInv, StringsInv PROVE DumpStartsWithAcked
  <1> SUFFICES ASSUME \A i \in 1 .. Len(acked) : Lasting(acked[i])
               PROVE  IsPrefix(FlattenSeq([i \in 1 .. Len(acked) |-> Printed(acked[i].text)]),
                               Dump(Kept))
    BY DEF DumpStartsWithAcked
  <1>1. Kept \in Images /\ acked \in Seq(Acks)  BY DEF Kept, IInv, Typed, TypeOK
  <1>2. ASSUME NEW i \in 1 .. Len(acked)
        PROVE  Held(acked[i], Kept) /\ EndOf(acked, i) <= Size
    <2>1. Held(acked[i], Kept)  BY DEF IInv, Durable
    <2>2. PICK a \in Nat, l \in Nat : a = acked[i].at /\ l = Len(acked[i].text) /\ a + l <= ptr
      BY AckedType
    <2>3. ptr \in Nat /\ ptr <= Size  BY DEF IInv, Typed, TypeOK
    <2>4. i # 0  BY <1>1
    <2>5. EndOf(acked, i) = a + l  BY <2>2, <2>4 DEF EndOf
    <2> QED  BY <2>1, <2>2, <2>3, <2>5, SizesAssumption
  <1>3. Strung(acked)  BY DEF StringsInv
  <1> QED  BY <1>1, <1>2, <1>3, DumpPrints

-----------------------------------------------------------------------------
LEMMA Invariant == Spec => []IInv
  BY InitInv, NextInv, PTL DEF Spec

\* A string is durable once pmem_persist, or its three parts, has returned: in every
\* mode, for every file, line and page size and every alignment, whatever the epoch
\* thread does and whatever ends the process (pmem.c:76-131, pmem_cl.c, pmem_msync.c,
\* pmem_fit.c).
THEOREM PersistIsDurable == Spec => []Durable
  <1>1. IInv => Durable  BY DEF IInv
  <1> QED  BY <1>1, Invariant, PTL

\* Whatever ended the run, the next run of basic without strings prints first the strings
\* whose pmem_persist has returned, each whole and in their order, for every list of
\* strings, file, line and page size and in every mode (basic.c:126-172).
THEOREM DumpShowsAcked == Spec => []DumpStartsWithAcked
  <1>1. Init => StringsInv  BY InitStrings
  <1>2. IInv /\ StringsInv /\ [Next]_vars => StringsInv'  BY StepsKeepStrings
  <1>3. IInv /\ StringsInv => DumpStartsWithAcked  BY StringsPrinted
  <1>4. Spec => []IInv  BY Invariant
  <1> QED  BY <1>1, <1>2, <1>3, <1>4, PTL DEF Spec

\* pmem_persist_cl flushes nothing that is not the last record of the redo log, however
\* much room the log has (pmem_cl.c).
THEOREM LogsBeforeFlush == Spec => []LoggedFirst
  <1>1. IInv => LoggedFirst  BY DEF IInv
  <1> QED  BY <1>1, Invariant, PTL

\* A run with fault injection changes the file only on lines that it asked to be
\* flushed (pmem_fit.c).
THEOREM FitDropsTheRest == Spec => []FitDropsUnflushed
  <1>1. IInv => FitDropsUnflushed  BY DEF IInv
  <1> QED  BY <1>1, Invariant, PTL

\* Every state of the example programs and of the library under them is well typed: no
\* store and no call leaves the mapped file, and the redo log never overflows.
THEOREM TypeCorrect == Spec => []TypeOK
  <1>1. IInv => TypeOK  BY DEF IInv, Typed
  <1> QED  BY <1>1, Invariant, PTL
=============================================================================
