---------------------------- MODULE HashTransProofs ----------------------------
(***************************************************************************)
(* The hash tables on transactions, for every list of primes, number of      *)
(* items and hash.  A call is a sequence of operations, and what has to be    *)
(* known of it is what it does to one word: that it commits the word last,    *)
(* or applies it, or leaves it alone.  For the chains the order counts too:   *)
(* the slot of a new entry is not touched before the words of the entry are   *)
(* what they will be (the word file), or not before all of them are applied   *)
(* at once (the redo file).                                                   *)
(***************************************************************************)
EXTENDS HashTrans, SequenceTheorems, FiniteSetTheorems, WellFoundedInduction, TLAPS

-----------------------------------------------------------------------------
(* Induction and recursion                                                  *)

\* A set of numbers that holds 0 and the successor of each of its numbers up to n holds
\* them all.
LEMMA UpTo ==
  ASSUME NEW n \in Nat, NEW S, 0 \in S, \A k \in 0 .. n : k < n /\ k \in S => k + 1 \in S
  PROVE  \A k \in 0 .. n : k \in S
  <1> DEFINE Bad == {k \in 0 .. n : k \notin S}
  <1>1. SUFFICES ASSUME Bad # {} PROVE FALSE  OBVIOUS
  <1>2. PICK p \in Bad : \A q \in Bad : ~ (<<q, p>> \in OpToRel(<, Nat))
    <2>1. Bad \subseteq Nat  OBVIOUS
    <2> HIDE DEF Bad
    <2> QED  BY <1>1, <2>1, WFMin, NatLessThanWellFounded
  <1>3. p \in Nat /\ p # 0  OBVIOUS
  <1>4. PICK m \in 0 .. n : m = p - 1 /\ m < n /\ p = m + 1  BY <1>3
  <1>5. m \notin Bad
    <2>1. <<m, p>> \in {z \in Nat \X Nat : z[1] < z[2]}  BY <1>3, <1>4
    <2> QED  BY <1>2, <2>1 DEF OpToRel
  <1> QED  BY <1>4, <1>5

\* Each value of f from 1 to n is a step from the one before.
Stepped(f, w, step, n) == f[0] = w /\ \A k \in 1 .. n : f[k] = step[k][f[k - 1]]

\* A function whose value at k + 1 is a step from its value at k exists.
LEMMA Recursion ==
  ASSUME NEW W, NEW w \in W, NEW step \in [Nat -> [W -> W]], NEW n \in Nat
  PROVE  \E f \in [0 .. n -> W] : Stepped(f, w, step, n)
  <1> DEFINE Upto(f, m) ==
               f \in [0 .. m -> W] /\ f[0] = w /\ \A k \in 1 .. m : f[k] = step[k][f[k - 1]]
             S == {m \in 0 .. n : \E f : Upto(f, m)}
  <1>1. 0 \in S
    <2> DEFINE g == [k \in {0} |-> w]
    <2>1. g \in [0 .. 0 -> W]
      <3>1. 0 .. 0 = {0}  OBVIOUS
      <3> QED  BY <3>1
    <2>2. g[0] = w /\ \A k \in 1 .. 0 : g[k] = step[k][g[k - 1]]  OBVIOUS
    <2>3. Upto(g, 0)
      <3> HIDE DEF g
      <3> QED  BY <2>1, <2>2
    <2>4. 0 \in 0 .. n  OBVIOUS
    <2> HIDE DEF g, Upto
    <2> QED  BY <2>3, <2>4
  <1>2. ASSUME NEW m \in 0 .. n, m < n, m \in S  PROVE m + 1 \in S
    <2>1. PICK f : Upto(f, m)  BY <1>2
    <2> DEFINE g == [k \in 0 .. m + 1 |-> IF k = m + 1 THEN step[m + 1][f[m]] ELSE f[k]]
    <2>2. m \in Nat /\ m + 1 \in Nat  OBVIOUS
    <2>3. f[m] \in W  BY <2>1
    <2>4. step[m + 1][f[m]] \in W  BY <2>2, <2>3
    <2>5. g \in [0 .. m + 1 -> W]
      <3>1. ASSUME NEW k \in 0 .. m + 1, k # m + 1 PROVE f[k] \in W
        <4>1. k \in 0 .. m  BY <3>1
        <4> QED  BY <2>1, <4>1
      <3> QED  BY <2>4, <3>1
    <2>6. g[0] = w  BY <2>1, <2>2
    <2>7. ASSUME NEW k \in 1 .. m + 1 PROVE g[k] = step[k][g[k - 1]]
      <3>1. k - 1 \in 0 .. m + 1 /\ k - 1 # m + 1 /\ g[k - 1] = f[k - 1]  OBVIOUS
      <3>2. CASE k = m + 1
        <4>1. k - 1 = m /\ g[k] = step[m + 1][f[m]]  BY <3>2
        <4> QED  BY <3>1, <3>2, <4>1
      <3>3. CASE k # m + 1
        <4>1. k \in 1 .. m /\ g[k] = f[k]  BY <3>3
        <4> QED  BY <2>1, <3>1, <4>1
      <3> QED  BY <3>2, <3>3
    <2>8. Upto(g, m + 1)
      <3> HIDE DEF g
      <3> QED  BY <2>5, <2>6, <2>7
    <2>9. m + 1 \in 0 .. n  BY <1>2
    <2> HIDE DEF g, Upto
    <2> QED  BY <2>8, <2>9
  <1>3. \A k \in 0 .. n : k \in S
    <2> HIDE DEF S
    <2> QED  BY <1>1, <1>2, UpTo
  <1>4. n \in S  BY <1>3
  <1> QED  BY <1>4 DEF Stepped

-----------------------------------------------------------------------------
(* Sequences of operations                                                   *)

IsSeq(s) == \E S : s \in Seq(S)
Ops(s)   == {s[i] : i \in DOMAIN s}

\* One operation is a sequence.
LEMMA OpsOfOne ==
  ASSUME NEW x  PROVE IsSeq(<<x>>) /\ Ops(<<x>>) = {x} /\ DOMAIN <<x>> = {1}
  <1>1. <<x>> \in Seq({x}) /\ DOMAIN <<x>> = {1} /\ <<x>>[1] = x  OBVIOUS
  <1> QED  BY <1>1 DEF IsSeq, Ops

\* No operation is a sequence.
LEMMA OpsOfNone == IsSeq(<<>>) /\ Ops(<<>>) = {} /\ DOMAIN <<>> = {}
  <1>1. <<>> \in Seq({}) /\ DOMAIN <<>> = {}  OBVIOUS
  <1> QED  BY <1>1 DEF IsSeq, Ops

\* Two sequences, one after the other.
LEMMA Joined ==
  ASSUME NEW s, NEW t, IsSeq(s), IsSeq(t)
  PROVE  /\ IsSeq(s \o t) /\ Len(s) \in Nat /\ Len(t) \in Nat
         /\ DOMAIN s = 1 .. Len(s) /\ DOMAIN t = 1 .. Len(t)
         /\ DOMAIN (s \o t) = 1 .. Len(s) + Len(t)
         /\ \A i \in 1 .. Len(s) + Len(t) :
              (s \o t)[i] = IF i \in DOMAIN s THEN s[i] ELSE t[i - Len(s)]
  <1>1. PICK S : s \in Seq(S)  BY DEF IsSeq
  <1>2. PICK T : t \in Seq(T)  BY DEF IsSeq
  <1>3. s \in Seq(S \cup T) /\ t \in Seq(S \cup T)  BY <1>1, <1>2
  <1>4. s \o t \in Seq(S \cup T)  BY <1>3
  <1> QED  BY <1>3, <1>4 DEF IsSeq

\* The operations of two sequences, one after the other.
LEMMA OpsJoined ==
  ASSUME NEW s, NEW t, IsSeq(s), IsSeq(t)
  PROVE  IsSeq(s \o t) /\ Ops(s \o t) = Ops(s) \cup Ops(t)
  <1> DEFINE n == Len(s)
             m == Len(t)
             u == s \o t
  <1>1. /\ IsSeq(u) /\ n \in Nat /\ m \in Nat /\ DOMAIN s = 1 .. n /\ DOMAIN t = 1 .. m
        /\ DOMAIN u = 1 .. n + m
        /\ \A i \in 1 .. n + m : u[i] = IF i \in DOMAIN s THEN s[i] ELSE t[i - n]
    BY Joined
  <1> HIDE DEF n, m, u
  <1>2. ASSUME NEW x \in Ops(u)  PROVE x \in Ops(s) \cup Ops(t)
    <2>1. PICK i \in 1 .. n + m : x = u[i]  BY <1>1, <1>2 DEF Ops
    <2>2. CASE i \in DOMAIN s  BY <1>1, <2>1, <2>2 DEF Ops
    <2>3. CASE i \notin DOMAIN s
      <3>1. i - n \in 1 .. m  BY <1>1, <2>1, <2>3
      <3> QED  BY <1>1, <2>1, <2>3, <3>1 DEF Ops
    <2> QED  BY <2>2, <2>3
  <1>3. ASSUME NEW x \in Ops(s)  PROVE x \in Ops(u)
    <2>1. PICK i \in 1 .. n : x = s[i]  BY <1>1, <1>3 DEF Ops
    <2>2. i \in 1 .. n + m /\ u[i] = x  BY <1>1, <2>1
    <2> QED  BY <1>1, <2>2 DEF Ops
  <1>4. ASSUME NEW x \in Ops(t)  PROVE x \in Ops(u)
    <2>1. PICK i \in 1 .. m : x = t[i]  BY <1>1, <1>4 DEF Ops
    <2>2. i + n \in 1 .. n + m /\ i + n \notin DOMAIN s /\ i + n - n = i  BY <1>1, <2>1
    <2>3. u[i + n] = x  BY <1>1, <2>1, <2>2
    <2> QED  BY <1>1, <2>2, <2>3 DEF Ops
  <1>5. Ops(u) = Ops(s) \cup Ops(t)  BY <1>2, <1>3, <1>4
  <1> QED  BY <1>1, <1>5 DEF u

\* The first operation and the rest.
LEMMA Behead ==
  ASSUME NEW s, IsSeq(s), s # <<>>
  PROVE  /\ IsSeq(Tail(s)) /\ Len(s) \in Nat \ {0} /\ DOMAIN s = 1 .. Len(s)
         /\ Head(s) = s[1] /\ 1 \in DOMAIN s
         /\ DOMAIN Tail(s) = 1 .. Len(s) - 1
         /\ \A i \in 1 .. Len(s) - 1 : Tail(s)[i] = s[i + 1]
         /\ Ops(Tail(s)) \subseteq Ops(s) /\ Head(s) \in Ops(s)
         /\ \A x \in Ops(s) : x = Head(s) \/ x \in Ops(Tail(s))
  <1>1. PICK S : s \in Seq(S)  BY DEF IsSeq
  <1>2. /\ Tail(s) \in Seq(S) /\ Len(s) \in Nat \ {0} /\ DOMAIN s = 1 .. Len(s)
        /\ Head(s) = s[1] /\ DOMAIN Tail(s) = 1 .. Len(s) - 1
        /\ \A i \in 1 .. Len(s) - 1 : Tail(s)[i] = s[i + 1]
    BY <1>1
  <1>3. 1 \in DOMAIN s  BY <1>2
  <1>4. ASSUME NEW x \in Ops(Tail(s))  PROVE x \in Ops(s)
    <2>1. PICK i \in 1 .. Len(s) - 1 : x = Tail(s)[i]  BY <1>2, <1>4 DEF Ops
    <2>2. i + 1 \in DOMAIN s /\ x = s[i + 1]  BY <1>2, <2>1
    <2> QED  BY <2>2 DEF Ops
  <1>5. ASSUME NEW x \in Ops(s), x # Head(s)  PROVE x \in Ops(Tail(s))
    <2>1. PICK i \in 1 .. Len(s) : x = s[i]  BY <1>2, <1>5 DEF Ops
    <2>2. i # 1  BY <1>2, <1>5, <2>1
    <2>3. i - 1 \in 1 .. Len(s) - 1 /\ Tail(s)[i - 1] = s[i - 1 + 1] /\ i - 1 + 1 = i
      BY <1>2, <2>1, <2>2
    <2> QED  BY <1>2, <2>1, <2>3 DEF Ops
  <1>6. Head(s) \in Ops(s)  BY <1>2, <1>3 DEF Ops
  <1> QED  BY <1>2, <1>3, <1>4, <1>5, <1>6 DEF IsSeq

-----------------------------------------------------------------------------
(* A word, while the operations of a call are made                            *)

\* The value of an overridden function at x.
LEMMA OverAt ==
  ASSUME NEW f, NEW g, NEW x
  PROVE  /\ DOMAIN Over(f, g) = DOMAIN f \cup DOMAIN g
         /\ x \in DOMAIN f => Over(f, g)[x] = f[x]
         /\ x \notin DOMAIN f /\ x \in DOMAIN g => Over(f, g)[x] = g[x]
  BY DEF Over

\* The value of a word in memory is that of the program, and is not in a transaction.
Settled(w) == media[w] = {now[w]} /\ w \notin DOMAIN undo /\ w \notin DOMAIN buf

\* Nothing is done to a word but to store what it has.
Idles(s, w, v) == \A o \in Ops(s) : w \in o.at => o.do = "put" /\ o.val = v

\* The last that is done to a word is to commit it.
Closes(s, w) ==
  \E j \in DOMAIN s :
    /\ s[j].do = "commit" /\ w \in s[j].at
    /\ \A i \in DOMAIN s : w \in s[i].at => s[i].do # "store" /\ i <= j

\* A word is stored in the redo log, or was, and the log is applied after.
Applies(s, w, stored) ==
  \E j \in DOMAIN s :
    /\ s[j].do = "apply"
    /\ stored \/ \E i \in 1 .. j - 1 : s[i].do = "store" /\ w \in s[i].at
    /\ \A i \in 1 .. j - 1 : s[i].do # "apply"
    /\ \A i \in DOMAIN s : w \in s[i].at => i < j /\ s[i].do \in {"put", "store"}

\* When the call has made all its operations the word is settled.
EndsWell(w) ==
  \/ Settled(w) /\ Idles(todo, w, now[w])
  \/ w \notin DOMAIN buf /\ Closes(todo, w)
  \/ w \notin DOMAIN undo /\ Applies(todo, w, w \in DOMAIN buf)

\* What a word is and may be found to be is one of R.
Within(w, R) ==
  /\ now[w] \in R /\ media[w] \subseteq R /\ media[w] # {}
  /\ w \in DOMAIN undo => undo[w] \in R
  /\ w \in DOMAIN buf => buf[w] \in R
  /\ \A o \in Ops(todo) : o.do \in {"put", "store"} /\ w \in o.at => o.val \in R

\* When the call has made all its operations the word is v.
Ends(w, v) ==
  /\ w \in DOMAIN buf => buf[w] = v
  /\ \A o \in Ops(todo) : o.do \in {"put", "store"} /\ w \in o.at => o.val = v
  /\ \/ LOAD(w) = v
     \/ \E o \in Ops(todo) : o.do \in {"put", "store"} /\ w \in o.at

\* The word is in the redo log, or will be, and stays there.
Buffered(w) ==
  /\ w \notin DOMAIN undo
  /\ w \in DOMAIN buf \/ \E o \in Ops(todo) : o.do = "store" /\ w \in o.at
  /\ \A o \in Ops(todo) : o.do # "apply" /\ (w \in o.at => o.do = "store")

\* The memory has all words, and operations follow one another.
MemOK == Words \subseteq DOMAIN now /\ Words \subseteq DOMAIN media /\ IsSeq(todo)

SameAt(w) ==
  /\ now'[w] = now[w] /\ media'[w] = media[w]
  /\ (w \in DOMAIN undo') = (w \in DOMAIN undo)
  /\ w \in DOMAIN undo => undo'[w] = undo[w]

KeptIn(w) ==
  (w \in DOMAIN buf') = (w \in DOMAIN buf) /\ (w \in DOMAIN buf => buf'[w] = buf[w])

\* What the next operation does to a word.
Effect(op, w) ==
  /\ op.do \in {"begin", "put", "commit", "store", "apply"}
  /\ w \in op.at /\ op.do = "begin" =>
       /\ now'[w] = now[w] /\ media'[w] = media[w] /\ KeptIn(w) /\ w \in DOMAIN undo'
       /\ undo'[w] = IF w \in DOMAIN undo THEN undo[w] ELSE now[w]
  /\ w \in op.at /\ op.do = "put" =>
       /\ now'[w] = op.val /\ media'[w] = media[w] \cup {op.val} /\ KeptIn(w)
       /\ (w \in DOMAIN undo') = (w \in DOMAIN undo)
       /\ w \in DOMAIN undo => undo'[w] = undo[w]
  /\ w \in op.at /\ op.do = "commit" =>
       now'[w] = now[w] /\ media'[w] = {now[w]} /\ w \notin DOMAIN undo' /\ KeptIn(w)
  /\ w \in op.at /\ op.do = "store" =>
       SameAt(w) /\ w \in DOMAIN buf' /\ buf'[w] = op.val
  /\ op.do = "apply" =>
       /\ w \notin DOMAIN buf'
       /\ (w \in DOMAIN undo') = (w \in DOMAIN undo)
       /\ w \in DOMAIN undo => undo'[w] = undo[w]
       /\ now'[w] = LOAD(w)
       /\ media'[w] = IF w \in DOMAIN buf THEN {buf[w]} ELSE media[w]
  /\ w \notin op.at /\ op.do # "apply" => SameAt(w) /\ KeptIn(w)

\* The next operation is one of the five, and what each does to a word is Effect.
LEMMA StepEffect ==
  ASSUME NEW w, w \in DOMAIN now, w \in DOMAIN media, NEW op, op = Head(todo), Step
  PROVE  Effect(op, w)
  <1>1. CASE BeginTrans(op)
    <2>1. w \in op.at => w \in DOMAIN undo' /\ undo'[w] = IF w \in DOMAIN undo THEN undo[w] ELSE now[w]
      BY <1>1 DEF BeginTrans, Over
    <2>2. w \notin op.at => (w \in DOMAIN undo') = (w \in DOMAIN undo)
                            /\ (w \in DOMAIN undo => undo'[w] = undo[w])
      BY <1>1 DEF BeginTrans, Over
    <2> QED  BY <1>1, <2>1, <2>2 DEF BeginTrans, Effect, SameAt, KeptIn
  <1>2. CASE PutWord(op)
    <2>1. w \in op.at => now'[w] = op.val /\ media'[w] = media[w] \cup {op.val}
      BY <1>2 DEF PutWord, Over
    <2>2. w \notin op.at => now'[w] = now[w] /\ media'[w] = media[w]
      BY <1>2 DEF PutWord, Over
    <2> QED  BY <1>2, <2>1, <2>2 DEF PutWord, Effect, SameAt, KeptIn
  <1>3. CASE CommitTrans(op)
    <2>1. w \in op.at => media'[w] = {now[w]} /\ w \notin DOMAIN undo'
      BY <1>3 DEF CommitTrans, Over, Without
    <2>2. w \notin op.at => media'[w] = media[w] /\ (w \in DOMAIN undo') = (w \in DOMAIN undo)
                            /\ (w \in DOMAIN undo => undo'[w] = undo[w])
      BY <1>3 DEF CommitTrans, Over, Without
    <2> QED  BY <1>3, <2>1, <2>2 DEF CommitTrans, Effect, SameAt, KeptIn
  <1>4. CASE StoreWord(op)
    <2>1. w \in op.at => w \in DOMAIN buf' /\ buf'[w] = op.val
      BY <1>4 DEF StoreWord, Over
    <2>2. w \notin op.at => KeptIn(w)
      BY <1>4 DEF StoreWord, Over, KeptIn
    <2> QED  BY <1>4, <2>1, <2>2 DEF StoreWord, Effect, SameAt
  <1>5. CASE ApplyRedo(op)
    <2>1. now'[w] = LOAD(w) /\ media'[w] = IF w \in DOMAIN buf THEN {buf[w]} ELSE media[w]
      BY <1>5 DEF ApplyRedo, Over, LOAD
    <2>2. DOMAIN buf' = {}
      <3>1. DOMAIN <<>> = {}  BY OpsOfNone
      <3> QED  BY <1>5, <3>1 DEF ApplyRedo
    <2> QED  BY <1>5, <2>1, <2>2 DEF ApplyRedo, Effect
  <1> QED  BY <1>1, <1>2, <1>3, <1>4, <1>5 DEF Step

\* The first operation of a sequence that closes a word, and the rest of it.
LEMMA ClosesTail ==
  ASSUME NEW s, NEW w, IsSeq(s), s # <<>>, Closes(s, w)
  PROVE  /\ w \in Head(s).at => Head(s).do # "store"
         /\ \/ /\ Head(s).do = "commit" /\ w \in Head(s).at
               /\ \A o \in Ops(Tail(s)) : w \notin o.at
            \/ Closes(Tail(s), w)
  <1> DEFINE t == Tail(s)
             n == Len(s)
  <1>1. /\ n \in Nat \ {0} /\ DOMAIN s = 1 .. n /\ Head(s) = s[1] /\ 1 \in DOMAIN s
        /\ DOMAIN t = 1 .. n - 1 /\ \A i \in 1 .. n - 1 : t[i] = s[i + 1]
    BY Behead
  <1> HIDE DEF t, n
  <1>2. PICK j \in DOMAIN s :
          /\ s[j].do = "commit" /\ w \in s[j].at
          /\ \A i \in DOMAIN s : w \in s[i].at => s[i].do # "store" /\ i <= j
    BY DEF Closes
  <1>3. CASE j = 1
    <2>1. ASSUME NEW i \in 1 .. n - 1  PROVE w \notin t[i].at
      <3>1. i + 1 \in DOMAIN s /\ ~ (i + 1 <= j) /\ t[i] = s[i + 1]  BY <1>1, <1>3
      <3> QED  BY <1>2, <3>1
    <2> QED  BY <1>1, <1>2, <1>3, <2>1 DEF Ops, t
  <1>4. CASE j # 1
    <2>1. j - 1 \in 1 .. n - 1 /\ j - 1 + 1 = j  BY <1>1, <1>4
    <2>2. t[j - 1] = s[j]  BY <1>1, <2>1
    <2>3. ASSUME NEW i \in 1 .. n - 1, w \in t[i].at
          PROVE  t[i].do # "store" /\ i <= j - 1
      <3>1. i + 1 \in DOMAIN s /\ t[i] = s[i + 1]  BY <1>1
      <3>2. s[i + 1].do # "store" /\ i + 1 <= j  BY <1>2, <2>3, <3>1
      <3> QED  BY <1>1, <3>1, <3>2
    <2>4. Closes(t, w)  BY <1>1, <1>2, <2>1, <2>2, <2>3 DEF Closes
    <2> QED  BY <1>1, <1>2, <2>4 DEF t
  <1> QED  BY <1>3, <1>4

\* The same of a sequence that applies a word.
LEMMA AppliesTail ==
  ASSUME NEW s, NEW w, NEW stored \in BOOLEAN, IsSeq(s), s # <<>>, Applies(s, w, stored)
  PROVE  \/ /\ Head(s).do = "apply" /\ stored /\ w \notin Head(s).at
            /\ \A o \in Ops(Tail(s)) : w \notin o.at
         \/ /\ Head(s).do # "apply" /\ (w \in Head(s).at => Head(s).do \in {"put", "store"})
            /\ Applies(Tail(s), w, stored \/ (Head(s).do = "store" /\ w \in Head(s).at))
  <1> DEFINE t == Tail(s)
             n == Len(s)
  <1>1. /\ n \in Nat \ {0} /\ DOMAIN s = 1 .. n /\ Head(s) = s[1] /\ 1 \in DOMAIN s
        /\ DOMAIN t = 1 .. n - 1 /\ \A i \in 1 .. n - 1 : t[i] = s[i + 1]
    BY Behead
  <1> HIDE DEF t, n
  <1>2. PICK j \in DOMAIN s :
          /\ s[j].do = "apply"
          /\ stored \/ \E i \in 1 .. j - 1 : s[i].do = "store" /\ w \in s[i].at
          /\ \A i \in 1 .. j - 1 : s[i].do # "apply"
          /\ \A i \in DOMAIN s : w \in s[i].at => i < j /\ s[i].do \in {"put", "store"}
    BY DEF Applies
  <1>3. CASE j = 1
    <2>1. ASSUME NEW i \in 1 .. n - 1  PROVE w \notin t[i].at
      <3>1. i + 1 \in DOMAIN s /\ ~ (i + 1 < j) /\ t[i] = s[i + 1]  BY <1>1, <1>3
      <3> QED  BY <1>2, <3>1
    <2>2. stored /\ w \notin s[1].at  BY <1>1, <1>2, <1>3
    <2> QED  BY <1>1, <1>2, <1>3, <2>1, <2>2 DEF Ops, t
  <1>4. CASE j # 1
    <2> DEFINE st == stored \/ (s[1].do = "store" /\ w \in s[1].at)
    <2>1. j - 1 \in 1 .. n - 1 /\ j - 1 + 1 = j /\ 1 \in 1 .. j - 1  BY <1>1, <1>4
    <2>2. t[j - 1] = s[j]  BY <1>1, <2>1
    <2>3. ASSUME NEW i \in 1 .. n - 1, w \in t[i].at
          PROVE  i < j - 1 /\ t[i].do \in {"put", "store"}
      <3>1. i + 1 \in DOMAIN s /\ t[i] = s[i + 1]  BY <1>1
      <3>2. i + 1 < j /\ s[i + 1].do \in {"put", "store"}  BY <1>2, <2>3, <3>1
      <3> QED  BY <1>1, <3>1, <3>2
    <2>4. ASSUME NEW i \in 1 .. (j - 1) - 1  PROVE t[i].do # "apply"
      <3>1. i + 1 \in 1 .. j - 1 /\ i \in 1 .. n - 1  BY <1>1, <2>1
      <3> QED  BY <1>1, <1>2, <3>1
    <2>5. st \/ \E i \in 1 .. (j - 1) - 1 : t[i].do = "store" /\ w \in t[i].at
      <3>1. CASE ~stored
        <4>1. PICK i \in 1 .. j - 1 : s[i].do = "store" /\ w \in s[i].at  BY <1>2, <3>1
        <4>2. CASE i = 1  BY <4>1, <4>2
        <4>3. CASE i # 1
          <5>1. i - 1 \in 1 .. (j - 1) - 1 /\ i - 1 \in 1 .. n - 1 /\ i - 1 + 1 = i
            BY <1>1, <2>1, <4>3
          <5>2. t[i - 1] = s[i]  BY <1>1, <5>1
          <5> QED  BY <4>1, <5>1, <5>2
        <4> QED  BY <4>2, <4>3
      <3>2. CASE stored  BY <3>2
      <3> QED  BY Zenon, <3>1, <3>2
    <2> HIDE DEF st
    <2>6. Applies(t, w, st)  BY <1>1, <1>2, <2>1, <2>2, <2>3, <2>4, <2>5 DEF Applies
    <2>7. s[1].do # "apply" /\ (w \in s[1].at => s[1].do \in {"put", "store"})
      BY <1>1, <1>2, <2>1
    <2> QED  BY <1>1, <2>6, <2>7 DEF t, st
  <1> QED  BY <1>3, <1>4

\* A word that is done with when the call ends stays so, or is one, with each operation.
LEMMA StepEndsWell ==
  ASSUME NEW w, w \in DOMAIN now, w \in DOMAIN media, IsSeq(todo), Step, EndsWell(w)
  PROVE  EndsWell(w)'
  <1> DEFINE op == Head(todo)
  <1>1. todo # <<>> /\ todo' = Tail(todo)  BY DEF Step
  <1>2. Effect(op, w)  BY StepEffect
  <1>3. /\ Ops(todo') \subseteq Ops(todo) /\ op \in Ops(todo)  BY <1>1, Behead
  <1> HIDE DEF op
  <1>4. CASE Settled(w) /\ Idles(todo, w, now[w])
    <2>1. w \in op.at => op.do = "put" /\ op.val = now[w]  BY <1>3, <1>4 DEF Idles
    <2>2. now'[w] = now[w] /\ media'[w] = {now[w]} /\ w \notin DOMAIN undo' /\ w \notin DOMAIN buf'
      BY <1>2, <1>4, <2>1 DEF Effect, Settled, SameAt, KeptIn, LOAD
    <2>3. Idles(todo', w, now'[w])  BY <1>3, <1>4, <2>2 DEF Idles
    <2> QED  BY <2>2, <2>3 DEF EndsWell, Settled
  <1>5. CASE w \notin DOMAIN buf /\ Closes(todo, w)
    <2>1. w \in op.at => op.do # "store"  BY <1>1, <1>5, ClosesTail DEF op
    <2>2. w \notin DOMAIN buf'
      BY <1>2, <1>5, <2>1 DEF Effect, KeptIn
    <2>3. CASE Closes(todo', w)  BY <2>2, <2>3 DEF EndsWell
    <2>4. CASE ~Closes(todo', w)
      <3>1. op.do = "commit" /\ w \in op.at /\ \A o \in Ops(todo') : w \notin o.at
        BY <1>1, <1>5, <2>4, ClosesTail DEF op
      <3>2. now'[w] = now[w] /\ media'[w] = {now[w]} /\ w \notin DOMAIN undo'
        BY <1>2, <3>1 DEF Effect
      <3>3. Idles(todo', w, now'[w])  BY <3>1 DEF Idles
      <3> QED  BY <2>2, <3>2, <3>3 DEF EndsWell, Settled
    <2> QED  BY <2>3, <2>4
  <1>6. CASE w \notin DOMAIN undo /\ Applies(todo, w, w \in DOMAIN buf)
    <2>1. \/ /\ op.do = "apply" /\ w \in DOMAIN buf /\ w \notin op.at
             /\ \A o \in Ops(todo') : w \notin o.at
          \/ /\ op.do # "apply" /\ (w \in op.at => op.do \in {"put", "store"})
             /\ Applies(todo', w, w \in DOMAIN buf \/ (op.do = "store" /\ w \in op.at))
      <3>1. PICK st \in BOOLEAN : st <=> w \in DOMAIN buf  OBVIOUS
      <3>2. Applies(todo, w, st)  BY <1>6, <3>1 DEF Applies
      <3>3. \/ /\ op.do = "apply" /\ st /\ w \notin op.at
               /\ \A o \in Ops(todo') : w \notin o.at
            \/ /\ op.do # "apply" /\ (w \in op.at => op.do \in {"put", "store"})
               /\ Applies(todo', w, st \/ (op.do = "store" /\ w \in op.at))
        BY Zenon, <1>1, <3>2, AppliesTail DEF op
      <3>4. ASSUME Applies(todo', w, st \/ (op.do = "store" /\ w \in op.at))
            PROVE  Applies(todo', w, w \in DOMAIN buf \/ (op.do = "store" /\ w \in op.at))
        BY <3>1, <3>4 DEF Applies
      <3> QED  BY <3>1, <3>3, <3>4
    <2>2. CASE op.do = "apply" /\ w \in DOMAIN buf /\ \A o \in Ops(todo') : w \notin o.at
      <3>1. now'[w] = buf[w] /\ media'[w] = {buf[w]} /\ w \notin DOMAIN undo' /\ w \notin DOMAIN buf'
        BY <1>2, <1>6, <2>2 DEF Effect, LOAD
      <3>2. Idles(todo', w, now'[w])  BY <2>2 DEF Idles
      <3> QED  BY <3>1, <3>2 DEF EndsWell, Settled
    <2>3. CASE /\ op.do # "apply" /\ (w \in op.at => op.do \in {"put", "store"})
               /\ Applies(todo', w, w \in DOMAIN buf \/ (op.do = "store" /\ w \in op.at))
      <3>1. w \notin DOMAIN undo'
        BY <1>2, <1>6, <2>3 DEF Effect, SameAt
      <3>2. (w \in DOMAIN buf') = (w \in DOMAIN buf \/ (op.do = "store" /\ w \in op.at))
        BY <1>2, <2>3 DEF Effect, KeptIn
      <3>3. Applies(todo', w, w \in DOMAIN buf')  BY <2>3, <3>2
      <3> QED  BY <3>1, <3>3 DEF EndsWell
    <2> QED  BY <2>1, <2>2, <2>3
  <1> QED  BY <1>4, <1>5, <1>6 DEF EndsWell

\* A word stays within what it is, and what is yet to be stored in it.
LEMMA StepWithin ==
  ASSUME NEW w, w \in DOMAIN now, w \in DOMAIN media, IsSeq(todo), Step, NEW R, Within(w, R)
  PROVE  Within(w, R)'
  <1> DEFINE op == Head(todo)
  <1>1. todo # <<>> /\ todo' = Tail(todo)  BY DEF Step
  <1>2. Effect(op, w)  BY StepEffect
  <1>3. Ops(todo') \subseteq Ops(todo) /\ op \in Ops(todo)  BY <1>1, Behead
  <1> HIDE DEF op
  <1>4. w \in op.at /\ op.do \in {"put", "store"} => op.val \in R  BY <1>3 DEF Within
  <1>5. \A o \in Ops(todo') : o.do \in {"put", "store"} /\ w \in o.at => o.val \in R
    BY <1>3 DEF Within
  <1>6. LOAD(w) \in R  BY DEF Within, LOAD
  <1>7. now'[w] \in R
    BY <1>2, <1>4, <1>6 DEF Effect, Within, SameAt
  <1>8. media'[w] \subseteq R /\ media'[w] # {}
    BY <1>2, <1>4, <1>6 DEF Effect, Within, SameAt
  <1>9. w \in DOMAIN undo' => undo'[w] \in R
    BY <1>2, <1>4 DEF Effect, Within, SameAt
  <1>10. w \in DOMAIN buf' => buf'[w] \in R
    BY <1>2, <1>4 DEF Effect, Within, KeptIn
  <1> QED  BY <1>5, <1>7, <1>8, <1>9, <1>10 DEF Within

\* What a word ends with does not change on the way.
LEMMA StepEnds ==
  ASSUME NEW w, w \in DOMAIN now, w \in DOMAIN media, IsSeq(todo), Step, NEW v, Ends(w, v)
  PROVE  Ends(w, v)'
  <1> DEFINE op == Head(todo)
  <1>1. todo # <<>> /\ todo' = Tail(todo)  BY DEF Step
  <1>2. Effect(op, w)  BY StepEffect
  <1>3. /\ Ops(todo') \subseteq Ops(todo) /\ op \in Ops(todo)
        /\ \A o \in Ops(todo) : o = op \/ o \in Ops(todo')
    BY <1>1, Behead
  <1> HIDE DEF op
  <1>4. w \in op.at /\ op.do \in {"put", "store"} => op.val = v  BY <1>3 DEF Ends
  <1>5. \A o \in Ops(todo') : o.do \in {"put", "store"} /\ w \in o.at => o.val = v
    BY <1>3 DEF Ends
  <1>6. w \in DOMAIN buf' => buf'[w] = v
    BY <1>2, <1>4 DEF Effect, Ends, KeptIn
  <1>7. ASSUME LOAD(w) = v \/ (w \in op.at /\ op.do \in {"put", "store"})  PROVE LOAD(w)' = v
    <2>1. w \notin DOMAIN buf' => now'[w] = v
      BY <1>2, <1>4, <1>7 DEF Effect, SameAt, KeptIn, LOAD
    <2> QED  BY <1>6, <2>1 DEF LOAD
  <1>8. \/ LOAD(w)' = v
        \/ \E o \in Ops(todo') : o.do \in {"put", "store"} /\ w \in o.at
    BY <1>3, <1>7 DEF Ends
  <1> QED  BY <1>5, <1>6, <1>8 DEF Ends

\* A word that is in the redo log, or will be, is so after each operation.
LEMMA StepBuffered ==
  ASSUME NEW w, w \in DOMAIN now, w \in DOMAIN media, IsSeq(todo), Step, Buffered(w)
  PROVE  Buffered(w)'
  <1> DEFINE op == Head(todo)
  <1>1. todo # <<>> /\ todo' = Tail(todo)  BY DEF Step
  <1>2. Effect(op, w)  BY StepEffect
  <1>3. /\ Ops(todo') \subseteq Ops(todo) /\ op \in Ops(todo)
        /\ \A o \in Ops(todo) : o = op \/ o \in Ops(todo')
    BY <1>1, Behead
  <1> HIDE DEF op
  <1>4. op.do # "apply" /\ (w \in op.at => op.do = "store")  BY <1>3 DEF Buffered
  <1>5. w \notin DOMAIN undo'  BY <1>2, <1>4 DEF Effect, SameAt, Buffered
  <1>6. w \in DOMAIN buf \/ w \in op.at => w \in DOMAIN buf'  BY <1>2, <1>4 DEF Effect, KeptIn
  <1>7. w \in DOMAIN buf' \/ \E o \in Ops(todo') : o.do = "store" /\ w \in o.at
    BY <1>3, <1>6 DEF Buffered
  <1> QED  BY <1>3, <1>5, <1>7 DEF Buffered

-----------------------------------------------------------------------------
(* What the calls do to a word                                                *)

Untouched(s, w) == \A o \in Ops(s) : w \notin o.at
NotStored(s, w) == \A o \in Ops(s) : w \in o.at => o.do # "store"
Unapplied(s, w) ==
  \A o \in Ops(s) : o.do # "apply" /\ (w \in o.at => o.do \in {"put", "store"})
StoredBy(s, w)  == \E o \in Ops(s) : o.do = "store" /\ w \in o.at

\* The sequences of one operation.
LEMMA Operations ==
  ASSUME NEW ws, NEW w, NEW v
  PROVE  /\ IsSeq(Begin(ws)) /\ Ops(Begin(ws)) = {[do |-> "begin", at |-> ws, val |-> 0]}
         /\ IsSeq(Put(w, v)) /\ Ops(Put(w, v)) = {[do |-> "put", at |-> {w}, val |-> v]}
         /\ IsSeq(Commit(ws)) /\ Ops(Commit(ws)) = {[do |-> "commit", at |-> ws, val |-> 0]}
         /\ IsSeq(STORE(w, v)) /\ Ops(STORE(w, v)) = {[do |-> "store", at |-> {w}, val |-> v]}
         /\ IsSeq(COMMIT) /\ Ops(COMMIT) = {[do |-> "apply", at |-> {}, val |-> 0]}
  BY Zenon, OpsOfOne DEF Begin, Put, Commit, STORE, COMMIT

\* What ends with a commit of the word closes it, and so does what has others before and
\* behind.
LEMMA CommitCloses ==
  ASSUME NEW ws, NEW w \in ws  PROVE Closes(Commit(ws), w)
  <1> DEFINE r == [do |-> "commit", at |-> ws, val |-> 0]
  <1>1. DOMAIN <<r>> = {1} /\ <<r>>[1] = r  OBVIOUS
  <1>2. r.do = "commit" /\ r.at = ws  OBVIOUS
  <1> HIDE DEF r
  <1>3. Closes(<<r>>, w)
    <2>1. 1 \in DOMAIN <<r>> /\ <<r>>[1].do = "commit" /\ w \in <<r>>[1].at  BY <1>1, <1>2
    <2>2. \A i \in DOMAIN <<r>> : w \in <<r>>[i].at => <<r>>[i].do # "store" /\ i <= 1
      BY <1>1, <1>2
    <2> QED  BY <2>1, <2>2 DEF Closes
  <1> QED  BY <1>3 DEF Commit, r

\* A sequence that closes a word, followed by one that leaves it alone.
LEMMA ClosesThen ==
  ASSUME NEW s, NEW t, NEW w, IsSeq(s), IsSeq(t), Closes(s, w), Untouched(t, w)
  PROVE  Closes(s \o t, w)
  <1> DEFINE n == Len(s)
             m == Len(t)
             u == s \o t
  <1>1. /\ n \in Nat /\ m \in Nat /\ DOMAIN s = 1 .. n /\ DOMAIN t = 1 .. m
        /\ DOMAIN u = 1 .. n + m
        /\ \A i \in 1 .. n + m : u[i] = IF i \in DOMAIN s THEN s[i] ELSE t[i - n]
    BY Joined
  <1> HIDE DEF n, m, u
  <1>2. PICK j \in DOMAIN s :
          /\ s[j].do = "commit" /\ w \in s[j].at
          /\ \A i \in DOMAIN s : w \in s[i].at => s[i].do # "store" /\ i <= j
    BY DEF Closes
  <1>3. j \in DOMAIN u /\ u[j] = s[j]  BY <1>1
  <1>4. ASSUME NEW i \in DOMAIN u, w \in u[i].at  PROVE u[i].do # "store" /\ i <= j
    <2>1. CASE i \in DOMAIN s  BY <1>1, <1>2, <1>4, <2>1
    <2>2. CASE i \notin DOMAIN s
      <3>1. i - n \in DOMAIN t /\ u[i] = t[i - n]  BY <1>1, <2>2
      <3> QED  BY <1>4, <3>1 DEF Untouched, Ops
    <2> QED  BY <2>1, <2>2
  <1>5. Closes(u, w)  BY <1>2, <1>3, <1>4 DEF Closes
  <1> QED  BY <1>5 DEF u

\* A sequence that closes a word, after one that does not store it.
LEMMA ThenCloses ==
  ASSUME NEW s, NEW t, NEW w, IsSeq(s), IsSeq(t), NotStored(s, w), Closes(t, w)
  PROVE  Closes(s \o t, w)
  <1> DEFINE n == Len(s)
             m == Len(t)
             u == s \o t
  <1>1. /\ n \in Nat /\ m \in Nat /\ DOMAIN s = 1 .. n /\ DOMAIN t = 1 .. m
        /\ DOMAIN u = 1 .. n + m
        /\ \A i \in 1 .. n + m : u[i] = IF i \in DOMAIN s THEN s[i] ELSE t[i - n]
    BY Joined
  <1> HIDE DEF n, m, u
  <1>2. PICK j \in DOMAIN t :
          /\ t[j].do = "commit" /\ w \in t[j].at
          /\ \A i \in DOMAIN t : w \in t[i].at => t[i].do # "store" /\ i <= j
    BY DEF Closes
  <1>3. j + n \in DOMAIN u /\ j + n \notin DOMAIN s /\ j + n - n = j  BY <1>1
  <1>4. u[j + n] = t[j]  BY <1>1, <1>3
  <1>5. ASSUME NEW i \in DOMAIN u, w \in u[i].at  PROVE u[i].do # "store" /\ i <= j + n
    <2>1. CASE i \in DOMAIN s
      <3>1. u[i] = s[i] /\ i <= j + n  BY <1>1, <2>1
      <3> QED  BY <1>5, <2>1, <3>1 DEF NotStored, Ops
    <2>2. CASE i \notin DOMAIN s
      <3>1. i - n \in DOMAIN t /\ u[i] = t[i - n]  BY <1>1, <2>2
      <3>2. t[i - n].do # "store" /\ i - n <= j  BY <1>2, <1>5, <3>1
      <3> QED  BY <1>1, <3>1, <3>2
    <2> QED  BY <2>1, <2>2
  <1>6. Closes(u, w)  BY <1>2, <1>3, <1>4, <1>5 DEF Closes
  <1> QED  BY <1>6 DEF u

\* What is in the redo log, or comes into it, is applied by the COMMIT at the end.
LEMMA CommitApplies ==
  ASSUME NEW s, NEW w, NEW stored \in BOOLEAN, IsSeq(s), Unapplied(s, w),
         stored \/ StoredBy(s, w)
  PROVE  Applies(s \o COMMIT, w, stored)
  <1> DEFINE r == [do |-> "apply", at |-> {}, val |-> 0]
             n == Len(s)
             u == s \o <<r>>
  <1>1. r.do = "apply" /\ r.at = {}  OBVIOUS
  <1>2. IsSeq(<<r>>) /\ Len(<<r>>) = 1 /\ <<r>>[1] = r
    BY Zenon, OpsOfOne
  <1>3. /\ n \in Nat /\ DOMAIN s = 1 .. n /\ DOMAIN u = 1 .. n + 1
        /\ \A i \in 1 .. n + 1 : u[i] = IF i \in DOMAIN s THEN s[i] ELSE <<r>>[i - n]
    <2> HIDE DEF r
    <2> QED  BY <1>2, Joined
  <1> HIDE DEF r, n, u
  <1>4. n + 1 \in DOMAIN u /\ u[n + 1] = r /\ \A i \in 1 .. n : u[i] = s[i] /\ i \in DOMAIN u
    <2>1. n + 1 - n = 1 /\ n + 1 \notin DOMAIN s  BY <1>3
    <2> QED  BY <1>2, <1>3, <2>1
  <1>5. \A i \in 1 .. n : s[i].do # "apply" /\ (w \in s[i].at => s[i].do \in {"put", "store"})
    BY <1>3 DEF Unapplied, Ops
  <1>6. StoredBy(s, w) => \E i \in 1 .. n : s[i].do = "store" /\ w \in s[i].at
    BY <1>3 DEF StoredBy, Ops
  <1>7. \A i \in DOMAIN u : i \in 1 .. n \/ i = n + 1  BY <1>3
  <1>8. /\ u[n + 1].do = "apply"
        /\ stored \/ \E i \in 1 .. (n + 1) - 1 : u[i].do = "store" /\ w \in u[i].at
        /\ \A i \in 1 .. (n + 1) - 1 : u[i].do # "apply"
        /\ \A i \in DOMAIN u : w \in u[i].at => i < n + 1 /\ u[i].do \in {"put", "store"}
    <2>1. (n + 1) - 1 = n /\ \A i \in 1 .. n : i < n + 1  BY <1>3
    <2>2. stored \/ \E i \in 1 .. n : u[i].do = "store" /\ w \in u[i].at  BY <1>4, <1>6
    <2>3. \A i \in 1 .. n : u[i].do # "apply"  BY <1>4, <1>5
    <2>4. ASSUME NEW i \in DOMAIN u, w \in u[i].at PROVE i < n + 1 /\ u[i].do \in {"put", "store"}
      BY <1>1, <1>4, <1>5, <1>7, <2>1, <2>4
    <2> QED  BY <1>1, <1>4, <2>1, <2>2, <2>3, <2>4
  <1>9. Applies(u, w, stored)  BY <1>4, <1>8 DEF Applies
  <1> QED  BY <1>9 DEF u, r, COMMIT

\* What one operation does and does not do to a word.
LEMMA OneOperation ==
  ASSUME NEW ws, NEW x, NEW v, NEW w
  PROVE  /\ w \notin ws => Untouched(Begin(ws), w) /\ Untouched(Commit(ws), w)
         /\ w # x => Untouched(Put(x, v), w) /\ Untouched(STORE(x, v), w)
         /\ Untouched(COMMIT, w)
         /\ NotStored(Begin(ws), w) /\ NotStored(Put(x, v), w) /\ NotStored(Commit(ws), w)
         /\ Unapplied(Put(x, v), w) /\ Unapplied(STORE(x, v), w)
         /\ StoredBy(STORE(w, v), w)
         /\ Idles(Put(x, v), x, v)
  <1>1. /\ Ops(Begin(ws)) = {[do |-> "begin", at |-> ws, val |-> 0]}
        /\ Ops(Put(x, v)) = {[do |-> "put", at |-> {x}, val |-> v]}
        /\ Ops(Commit(ws)) = {[do |-> "commit", at |-> ws, val |-> 0]}
        /\ Ops(STORE(x, v)) = {[do |-> "store", at |-> {x}, val |-> v]}
        /\ Ops(STORE(w, v)) = {[do |-> "store", at |-> {w}, val |-> v]}
        /\ Ops(COMMIT) = {[do |-> "apply", at |-> {}, val |-> 0]}
    BY Operations
  <1>2. w \notin ws => Untouched(Begin(ws), w) /\ Untouched(Commit(ws), w)
    BY <1>1 DEF Untouched
  <1>3. w # x => Untouched(Put(x, v), w) /\ Untouched(STORE(x, v), w)
    BY <1>1 DEF Untouched
  <1>4. Untouched(COMMIT, w)  BY <1>1 DEF Untouched
  <1>5. NotStored(Begin(ws), w) /\ NotStored(Put(x, v), w) /\ NotStored(Commit(ws), w)
    BY <1>1 DEF NotStored
  <1>6. Unapplied(Put(x, v), w) /\ Unapplied(STORE(x, v), w)
    BY <1>1 DEF Unapplied
  <1>7. StoredBy(STORE(w, v), w)  BY <1>1 DEF StoredBy
  <1>8. Idles(Put(x, v), x, v)  BY <1>1 DEF Idles
  <1> QED  BY <1>2, <1>3, <1>4, <1>5, <1>6, <1>7, <1>8

\* The same of two sequences one after the other.
LEMMA BothDo ==
  ASSUME NEW s, NEW t, IsSeq(s), IsSeq(t), NEW w, NEW v
  PROVE  /\ IsSeq(s \o t)
         /\ Untouched(s \o t, w) <=> Untouched(s, w) /\ Untouched(t, w)
         /\ NotStored(s \o t, w) <=> NotStored(s, w) /\ NotStored(t, w)
         /\ Unapplied(s \o t, w) <=> Unapplied(s, w) /\ Unapplied(t, w)
         /\ StoredBy(s \o t, w) <=> StoredBy(s, w) \/ StoredBy(t, w)
         /\ Idles(s \o t, w, v) <=> Idles(s, w, v) /\ Idles(t, w, v)
  <1>1. IsSeq(s \o t) /\ Ops(s \o t) = Ops(s) \cup Ops(t)  BY OpsJoined
  <1> DEFINE u == s \o t
  <1> HIDE DEF u
  <1>2. Ops(u) = Ops(s) \cup Ops(t)  BY <1>1 DEF u
  <1>3. Untouched(u, w) <=> Untouched(s, w) /\ Untouched(t, w)  BY <1>2 DEF Untouched
  <1>4. NotStored(u, w) <=> NotStored(s, w) /\ NotStored(t, w)  BY <1>2 DEF NotStored
  <1>5. Unapplied(u, w) <=> Unapplied(s, w) /\ Unapplied(t, w)  BY <1>2 DEF Unapplied
  <1>6. StoredBy(u, w) <=> StoredBy(s, w) \/ StoredBy(t, w)  BY <1>2 DEF StoredBy
  <1>7. Idles(u, w, v) <=> Idles(s, w, v) /\ Idles(t, w, v)  BY <1>2 DEF Idles
  <1> QED  BY <1>1, <1>3, <1>4, <1>5, <1>6, <1>7 DEF u

\* What is not touched is not stored, not applied by itself, and idle.
LEMMA UntouchedIs ==
  ASSUME NEW s, NEW w, NEW v, Untouched(s, w)
  PROVE  NotStored(s, w) /\ Idles(s, w, v)
  BY DEF Untouched, NotStored, Idles

\* A word that is logged, stored and committed.
LEMMA LoggedCloses ==
  ASSUME NEW x, NEW v
  PROVE  /\ IsSeq(Logged(x, v)) /\ Closes(Logged(x, v), x)
         /\ \A w : w # x => Untouched(Logged(x, v), w)
         /\ \A o \in Ops(Logged(x, v)) : o.do = "put" => o.val = v
         /\ \A o \in Ops(Logged(x, v)) : o.do # "store"
         /\ \E o \in Ops(Logged(x, v)) : o.do = "put" /\ x \in o.at
  <1> DEFINE a == Begin({x})
             b == Put(x, v)
             c == Commit({x})
  <1>1. /\ IsSeq(a) /\ IsSeq(b) /\ IsSeq(c)
        /\ Ops(a) = {[do |-> "begin", at |-> {x}, val |-> 0]}
        /\ Ops(b) = {[do |-> "put", at |-> {x}, val |-> v]}
        /\ Ops(c) = {[do |-> "commit", at |-> {x}, val |-> 0]}
    BY Zenon, Operations
  <1>2. Closes(c, x) /\ NotStored(a, x) /\ NotStored(b, x)
    <2>1. x \in {x}  OBVIOUS
    <2> QED  BY Zenon, <2>1, CommitCloses, OneOperation
  <1> HIDE DEF a, b, c
  <1>3. IsSeq(a \o b) /\ Ops(a \o b) = Ops(a) \cup Ops(b)  BY <1>1, OpsJoined
  <1>4. NotStored(a \o b, x)  BY Zenon, <1>1, <1>2, BothDo
  <1>5. /\ IsSeq(a \o b \o c) /\ Ops(a \o b \o c) = Ops(a \o b) \cup Ops(c)
        /\ Closes(a \o b \o c, x)
    BY Zenon, <1>1, <1>2, <1>3, <1>4, OpsJoined, ThenCloses
  <1> DEFINE u == a \o b \o c
  <1> HIDE DEF u
  <1>6. Ops(u) = {[do |-> "begin", at |-> {x}, val |-> 0], [do |-> "put", at |-> {x}, val |-> v],
                  [do |-> "commit", at |-> {x}, val |-> 0]}
    BY <1>1, <1>3, <1>5 DEF u
  <1>7. /\ \A w : w # x => Untouched(u, w)
        /\ \A o \in Ops(u) : o.do = "put" => o.val = v
        /\ \A o \in Ops(u) : o.do # "store"
        /\ \E o \in Ops(u) : o.do = "put" /\ x \in o.at
    BY <1>6 DEF Untouched
  <1>8. Logged(x, v) = u  BY DEF Logged, u, a, b, c
  <1> QED  BY <1>5, <1>7, <1>8 DEF u

\* A word that a sequence closes, or leaves as it is.
Done(s, w) == Closes(s, w) \/ Idles(s, w, now[w])

\* A word that is done with, and then left alone.
LEMMA DoneThen ==
  ASSUME NEW s, NEW t, IsSeq(s), IsSeq(t), NEW w, Done(s, w), Untouched(t, w)
  PROVE  Done(s \o t, w)
  <1>1. CASE Closes(s, w)  BY Zenon, <1>1, ClosesThen DEF Done
  <1>2. CASE Idles(s, w, now[w])
    <2>1. PICK v : v = now[w]  OBVIOUS
    <2>2. Idles(s, w, v) /\ Idles(t, w, v)  BY <1>2, <2>1, UntouchedIs
    <2>3. Idles(s \o t, w, v)  BY Zenon, <2>2, BothDo
    <2> QED  BY <2>1, <2>3 DEF Done
  <1> QED  BY <1>1, <1>2 DEF Done

\* A word that is left alone, and then done with.
LEMMA ThenDone ==
  ASSUME NEW s, NEW t, IsSeq(s), IsSeq(t), NEW w, Untouched(s, w), Done(t, w)
  PROVE  Done(s \o t, w)
  <1>1. PICK v : v = now[w]  OBVIOUS
  <1>2. NotStored(s, w) /\ Idles(s, w, v)  BY Zenon, UntouchedIs
  <1>3. CASE Closes(t, w)  BY Zenon, <1>2, <1>3, ThenCloses DEF Done
  <1>4. CASE Idles(t, w, now[w])
    <2>1. Idles(t, w, v)  BY <1>1, <1>4
    <2>3. Idles(s \o t, w, v)  BY Zenon, <1>2, <2>1, BothDo
    <2> QED  BY <1>1, <2>3 DEF Done
  <1> QED  BY <1>3, <1>4 DEF Done

\* WordSet commits what it stores, unless it stores a zero where there is one.
LEMMA WordSetDoes ==
  ASSUME NEW x, NEW v
  PROVE  /\ IsSeq(WordSet(x, v)) /\ \A w : w # x => Untouched(WordSet(x, v), w)
         /\ v # 0 \/ now[x] = 0 => Done(WordSet(x, v), x)
  <1> DEFINE a == IF now[x] # 0 THEN Begin({x}) ELSE <<>>
             b == Put(x, v)
             c == IF v # 0 THEN Commit({x}) ELSE <<>>
  <1>1. /\ IsSeq(Begin({x})) /\ IsSeq(b) /\ IsSeq(Commit({x})) /\ IsSeq(<<>>) /\ Ops(<<>>) = {}
    BY Zenon, Operations, OpsOfNone
  <1>2. IsSeq(a) /\ IsSeq(c)  BY <1>1
  <1>3. \A w : Untouched(<<>>, w) /\ NotStored(<<>>, w)  BY <1>1 DEF Untouched, NotStored
  <1>4. ASSUME NEW w, w # x  PROVE Untouched(a, w) /\ Untouched(b, w) /\ Untouched(c, w)
    <2>1. w \notin {x}  BY <1>4
    <2>2. Untouched(Begin({x}), w) /\ Untouched(b, w) /\ Untouched(Commit({x}), w)
      BY Zenon, <1>4, <2>1, OneOperation
    <2> QED  BY <1>3, <2>2
  <1>5. NotStored(a, x) /\ NotStored(b, x)
    <2>1. NotStored(Begin({x}), x) /\ NotStored(b, x)  BY Zenon, OneOperation
    <2> QED  BY <1>3, <2>1
  <1>6. WordSet(x, v) = a \o b \o c  BY DEF WordSet
  <1> DEFINE abc == a \o b \o c
  <1> HIDE DEF abc
  <1>9. IsSeq(abc) /\ \A w : w # x => Untouched(abc, w)
    <2> HIDE DEF a, b, c
    <2>1. IsSeq(a \o b)  BY Zenon, <1>1, <1>2, BothDo
    <2>2. IsSeq(abc)  BY Zenon, <1>2, <2>1, BothDo DEF abc
    <2>3. ASSUME NEW w, w # x  PROVE Untouched(abc, w)
      BY Zenon, <1>1, <1>2, <1>4, <2>1, <2>3, BothDo DEF abc
    <2> QED  BY Zenon, <2>2, <2>3
  <1>7. ASSUME v # 0  PROVE Done(abc, x)
    <2>1. x \in {x}  OBVIOUS
    <2>2. Closes(Commit({x}), x)  BY Zenon, <2>1, CommitCloses
    <2>3. Closes(c, x)  BY <1>7, <2>2
    <2> HIDE DEF a, b, c
    <2>4. IsSeq(a \o b) /\ NotStored(a \o b, x)  BY Zenon, <1>1, <1>2, <1>5, BothDo
    <2>5. Closes(abc, x)
      BY Zenon, <1>2, <2>3, <2>4, ThenCloses DEF abc
    <2> QED  BY <2>5 DEF Done
  <1>8. ASSUME v = 0, now[x] = 0  PROVE Done(abc, x)
    <2>1. a = <<>> /\ c = <<>>  BY <1>8
    <2>2. Idles(b, x, 0)  BY Zenon, <1>8, OneOperation
    <2>3. Idles(a, x, 0) /\ Idles(c, x, 0)  BY <1>1, <2>1 DEF Idles
    <2> HIDE DEF a, b, c
    <2>4. IsSeq(a \o b) /\ Idles(a \o b, x, 0)  BY Zenon, <1>1, <1>2, <2>2, <2>3, BothDo
    <2>5. Idles(abc, x, 0)  BY Zenon, <1>2, <2>3, <2>4, BothDo DEF abc
    <2> QED  BY <1>8, <2>5 DEF Done
  <1>10. WordSet(x, v) = abc  BY <1>6 DEF abc
  <1> QED  BY <1>7, <1>8, <1>9, <1>10

\* The words of an entry, and its slot, differ from each other and from the header.
LEMMA WordsDiffer ==
  ASSUME NEW e, NEW t, NEW j
  PROVE  /\ Key(e) # HashIn(e) /\ Key(e) # NextOf(e) /\ HashIn(e) # NextOf(e)
         /\ Slot(t, j) \notin Entry(e) /\ Slot(t, j) \notin Header
         /\ Entry(e) \cap Header = {}
  BY DEF Key, HashIn, NextOf, Slot, Entry, Header, HeaderWord, Table, TableLength, EntryCount,
         LimitWord, PrimeIndex

\* hashtable_insert of the word file commits the words of the entry and its slot.
LEMMA LinkWordDoes ==
  ASSUME NEW e, NEW t, NEW j, e # 0
  PROVE  LET s == Slot(t, j)
         IN /\ IsSeq(LinkWord(e, s))
            /\ \A w : w \notin Entry(e) \cup {s} => Untouched(LinkWord(e, s), w)
            /\ (\A w \in Entry(e) : now[w] = 0) =>
                 \A w \in Entry(e) \cup {s} : Done(LinkWord(e, s), w)
  <1> DEFINE s == Slot(t, j)
             k == Key(e)
             h == HashIn(e)
             x == NextOf(e)
             a == WordSet(h, hash[e])
             b == WordSet(k, e)
             c == WordSet(x, now[s])
             d == WordSet(s, e)
  <1>1. k # h /\ k # x /\ h # x /\ s # k /\ s # h /\ s # x /\ Entry(e) = {k, h, x}
    BY WordsDiffer DEF Entry
  <1> DEFINE fresh == \A w \in Entry(e) : now[w] = 0
  <1>2. fresh => now[h] = 0 /\ now[k] = 0 /\ now[x] = 0  BY DEF Entry
  <1>3. LinkWord(e, s) = a \o b \o c \o d  BY DEF LinkWord
  <1> HIDE DEF s, k, h, x
  <1>4. IsSeq(a) /\ (fresh => Done(a, h)) /\ \A w : w # h => Untouched(a, w)
    BY <1>2, WordSetDoes
  <1>5. IsSeq(b) /\ Done(b, k) /\ \A w : w # k => Untouched(b, w)  BY WordSetDoes
  <1>6. IsSeq(c) /\ (fresh => Done(c, x)) /\ \A w : w # x => Untouched(c, w)
    BY <1>2, WordSetDoes
  <1>7. IsSeq(d) /\ Done(d, s) /\ \A w : w # s => Untouched(d, w)  BY WordSetDoes
  <1> HIDE DEF fresh
  <1> HIDE DEF a, b, c, d
  <1>8. /\ IsSeq(a \o b) /\ (fresh => Done(a \o b, h) /\ Done(a \o b, k))
        /\ \A w : w \notin {h, k} => Untouched(a \o b, w)
    <2>1. IsSeq(a \o b)  BY Zenon, <1>4, <1>5, BothDo
    <2>2. Untouched(b, h) /\ Untouched(a, k)  BY <1>1, <1>4, <1>5
    <2>3. fresh => Done(a \o b, h) /\ Done(a \o b, k)
      BY Zenon, <1>4, <1>5, <2>2, DoneThen, ThenDone
    <2>4. ASSUME NEW w, w \notin {h, k}  PROVE Untouched(a \o b, w)
      <3>1. Untouched(a, w) /\ Untouched(b, w)  BY <1>4, <1>5, <2>4
      <3> QED  BY Zenon, <1>4, <1>5, <3>1, BothDo
    <2> QED  BY <2>1, <2>3, <2>4
  <1> DEFINE ab == a \o b
             abc == ab \o c
             abcd == abc \o d
  <1>9. /\ IsSeq(ab) /\ (fresh => Done(ab, h) /\ Done(ab, k))
        /\ \A w : w \notin {h, k} => Untouched(ab, w)
    BY <1>8
  <1> HIDE DEF ab
  <1>10. /\ IsSeq(abc) /\ (fresh => Done(abc, h) /\ Done(abc, k) /\ Done(abc, x))
         /\ \A w : w \notin {h, k, x} => Untouched(abc, w)
    <2>1. IsSeq(abc)  BY Zenon, <1>9, <1>6, BothDo
    <2>2. Untouched(c, h) /\ Untouched(c, k) /\ Untouched(ab, x)  BY <1>1, <1>6, <1>9
    <2>3. fresh => Done(abc, h) /\ Done(abc, k) /\ Done(abc, x)
      BY Zenon, <1>9, <1>6, <2>2, DoneThen, ThenDone
    <2>4. ASSUME NEW w, w \notin {h, k, x}  PROVE Untouched(abc, w)
      <3>1. Untouched(ab, w) /\ Untouched(c, w)  BY <1>9, <1>6, <2>4
      <3> QED  BY Zenon, <1>9, <1>6, <3>1, BothDo
    <2> QED  BY <2>1, <2>3, <2>4
  <1> HIDE DEF abc
  <1>11. /\ IsSeq(abcd)
         /\ fresh => Done(abcd, h) /\ Done(abcd, k) /\ Done(abcd, x) /\ Done(abcd, s)
         /\ \A w : w \notin {h, k, x, s} => Untouched(abcd, w)
    <2>1. IsSeq(abcd)  BY Zenon, <1>10, <1>7, BothDo
    <2>2. Untouched(d, h) /\ Untouched(d, k) /\ Untouched(d, x) /\ Untouched(abc, s)
      BY <1>1, <1>7, <1>10
    <2>3. fresh => Done(abcd, h) /\ Done(abcd, k) /\ Done(abcd, x) /\ Done(abcd, s)
      BY Zenon, <1>10, <1>7, <2>2, DoneThen, ThenDone
    <2>4. ASSUME NEW w, w \notin {h, k, x, s}  PROVE Untouched(abcd, w)
      <3>1. Untouched(abc, w) /\ Untouched(d, w)  BY <1>10, <1>7, <2>4
      <3> QED  BY Zenon, <1>10, <1>7, <3>1, BothDo
    <2> QED  BY <2>1, <2>3, <2>4
  <1>12. LinkWord(e, s) = abcd  BY <1>3 DEF abcd, abc, ab
  <1> HIDE DEF abcd
  <1>13. fresh => \A w \in Entry(e) \cup {s} : Done(abcd, w)  BY <1>1, <1>11
  <1>14. \A w : w \notin Entry(e) \cup {s} => Untouched(abcd, w)  BY <1>1, <1>11
  <1> QED  BY <1>11, <1>12, <1>13, <1>14 DEF s, fresh

\* Operations of transactions, on the words W.
Inside(s, W) ==
  IsSeq(s) /\ (\A w : NotStored(s, w)) /\ (\A w : w \notin W => Untouched(s, w))

\* One operation on a word of a set is inside that set.
LEMMA InsideOne ==
  ASSUME NEW W, NEW ws \in SUBSET W, NEW x \in W, NEW v
  PROVE  Inside(Begin(ws), W) /\ Inside(Commit(ws), W) /\ Inside(Put(x, v), W)
  <1>1. IsSeq(Begin(ws)) /\ IsSeq(Commit(ws)) /\ IsSeq(Put(x, v))  BY Zenon, Operations
  <1>2. \A w : NotStored(Begin(ws), w) /\ NotStored(Commit(ws), w) /\ NotStored(Put(x, v), w)
    BY Zenon, OneOperation
  <1>3. ASSUME NEW w, w \notin W
        PROVE  Untouched(Begin(ws), w) /\ Untouched(Commit(ws), w) /\ Untouched(Put(x, v), w)
    <2>1. w \notin ws /\ w # x  BY <1>3
    <2> QED  BY Zenon, <2>1, OneOperation
  <1> QED  BY <1>1, <1>2, <1>3 DEF Inside

\* Two sequences inside a set, one after the other.
LEMMA InsideBoth ==
  ASSUME NEW W, NEW s, NEW t, Inside(s, W), Inside(t, W)
  PROVE  Inside(s \o t, W)
  <1>1. IsSeq(s) /\ IsSeq(t)  BY DEF Inside
  <1>2. IsSeq(s \o t)  BY Zenon, <1>1, BothDo
  <1>3. \A w : NotStored(s \o t, w)
    <2>1. TAKE w
    <2>2. NotStored(s, w) /\ NotStored(t, w)  BY DEF Inside
    <2> QED  BY Zenon, <1>1, <2>2, BothDo
  <1>4. ASSUME NEW w, w \notin W  PROVE Untouched(s \o t, w)
    <2>1. Untouched(s, w) /\ Untouched(t, w)  BY <1>4 DEF Inside
    <2> QED  BY Zenon, <1>1, <2>1, BothDo
  <1> QED  BY Zenon, <1>2, <1>3, <1>4 DEF Inside

\* Operations of the redo log on the words W, of which V are logged.
Logging(s, W, V) ==
  /\ IsSeq(s) /\ \A w : Unapplied(s, w)
  /\ \A w : w \notin W => Untouched(s, w)
  /\ \A w \in V : StoredBy(s, w)

\* One operation that logs or stores, and applies nothing.
LEMMA LoggingOne ==
  ASSUME NEW x, NEW v
  PROVE  Logging(STORE(x, v), {x}, {x}) /\ Logging(Put(x, v), {x}, {})
  <1>1. IsSeq(STORE(x, v)) /\ IsSeq(Put(x, v))  BY Zenon, Operations
  <1>2. \A w : Unapplied(STORE(x, v), w) /\ Unapplied(Put(x, v), w)  BY Zenon, OneOperation
  <1>3. \A w : w \notin {x} => Untouched(STORE(x, v), w) /\ Untouched(Put(x, v), w)
    BY Zenon, OneOperation
  <1>4. \A w \in {x} : StoredBy(STORE(x, v), w)  BY Zenon, OneOperation
  <1> QED  BY <1>1, <1>2, <1>3, <1>4 DEF Logging

\* Two sequences that apply nothing, one after the other.
LEMMA LoggingBoth ==
  ASSUME NEW s, NEW t, NEW W, NEW V, NEW X, NEW Y, Logging(s, W, V), Logging(t, X, Y)
  PROVE  Logging(s \o t, W \cup X, V \cup Y)
  <1>1. IsSeq(s) /\ IsSeq(t)  BY DEF Logging
  <1>2. IsSeq(s \o t)  BY Zenon, <1>1, BothDo
  <1>3. \A w : Unapplied(s \o t, w)
    <2>1. TAKE w
    <2>2. Unapplied(s, w) /\ Unapplied(t, w)  BY DEF Logging
    <2> QED  BY Zenon, <1>1, <2>2, BothDo
  <1>4. ASSUME NEW w, w \notin W \cup X  PROVE Untouched(s \o t, w)
    <2>1. Untouched(s, w) /\ Untouched(t, w)  BY <1>4 DEF Logging
    <2> QED  BY Zenon, <1>1, <2>1, BothDo
  <1>5. ASSUME NEW w \in V \cup Y  PROVE StoredBy(s \o t, w)
    <2>1. StoredBy(s, w) \/ StoredBy(t, w)  BY <1>5 DEF Logging
    <2> QED  BY Zenon, <1>1, <2>1, BothDo
  <1> QED  BY Zenon, <1>2, <1>3, <1>4, <1>5 DEF Logging

\* hashtable_insert of the object file commits the slot, and then the entry.
LEMMA LinkObjDoes ==
  ASSUME NEW e, NEW t, NEW j
  PROVE  LET s == Slot(t, j)
         IN /\ IsSeq(LinkObj(e, s))
            /\ \A w \in Entry(e) \cup {s} : Closes(LinkObj(e, s), w)
            /\ \A w : w \notin Entry(e) \cup {s} => Untouched(LinkObj(e, s), w)
  <1> DEFINE s == Slot(t, j)
             W == Entry(e) \cup {s}
             o1 == Begin(Entry(e))
             o2 == o1 \o Put(HashIn(e), hash[e])
             o3 == o2 \o Put(Key(e), e)
             o4 == o3 \o Put(NextOf(e), now[s])
             o5 == o4 \o Begin({s})
             o6 == o5 \o Put(s, e)
             o7 == o6 \o Commit({s})
             o8 == o7 \o Commit(Entry(e))
  <1>1. LinkObj(e, s) = o8  BY DEF LinkObj
  <1>2. HashIn(e) \in W /\ Key(e) \in W /\ NextOf(e) \in W /\ s \in W /\ {s} \in SUBSET W
        /\ Entry(e) \in SUBSET W /\ s \notin Entry(e) /\ s \in {s}
    BY WordsDiffer DEF Entry
  <1> HIDE DEF s, W
  <1>3. /\ Inside(o1, W) /\ Inside(Put(HashIn(e), hash[e]), W) /\ Inside(Put(Key(e), e), W)
        /\ Inside(Put(NextOf(e), now[s]), W) /\ Inside(Begin({s}), W) /\ Inside(Put(s, e), W)
        /\ Inside(Commit({s}), W) /\ Inside(Commit(Entry(e)), W)
    BY Zenon, <1>2, InsideOne
  <1> HIDE DEF o1, o2, o3, o4, o5, o6, o7, o8
  <1>4. Inside(o2, W)  BY Zenon, <1>3, InsideBoth DEF o2
  <1>5. Inside(o3, W)  BY Zenon, <1>3, <1>4, InsideBoth DEF o3
  <1>6. Inside(o4, W)  BY Zenon, <1>3, <1>5, InsideBoth DEF o4
  <1>7. Inside(o5, W)  BY Zenon, <1>3, <1>6, InsideBoth DEF o5
  <1>8. Inside(o6, W)  BY Zenon, <1>3, <1>7, InsideBoth DEF o6
  <1>9. Inside(o7, W)  BY Zenon, <1>3, <1>8, InsideBoth DEF o7
  <1>10. Inside(o8, W)  BY Zenon, <1>3, <1>9, InsideBoth DEF o8
  <1>11. ASSUME NEW w \in Entry(e)  PROVE Closes(o8, w)
    <2>1. Closes(Commit(Entry(e)), w)  BY Zenon, CommitCloses
    <2>2. IsSeq(o7) /\ NotStored(o7, w) /\ IsSeq(Commit(Entry(e)))
      BY Zenon, <1>3, <1>9 DEF Inside
    <2> QED  BY Zenon, <2>1, <2>2, ThenCloses DEF o8
  <1>12. Closes(o8, s)
    <2>1. Closes(Commit({s}), s)  BY Zenon, <1>2, CommitCloses
    <2>2. IsSeq(o6) /\ NotStored(o6, s) /\ IsSeq(Commit({s})) /\ IsSeq(o7) /\ IsSeq(Commit(Entry(e)))
      BY Zenon, <1>3, <1>8, <1>9 DEF Inside
    <2>3. Closes(o7, s)  BY Zenon, <2>1, <2>2, ThenCloses DEF o7
    <2>4. Untouched(Commit(Entry(e)), s)  BY Zenon, <1>2, OneOperation
    <2> QED  BY Zenon, <2>2, <2>3, <2>4, ClosesThen DEF o8
  <1>13. \A w \in Entry(e) \cup {s} : Closes(o8, w)  BY <1>11, <1>12
  <1>14. \A w : w \notin Entry(e) \cup {s} => Untouched(o8, w)  BY Zenon, <1>10 DEF Inside, W
  <1>15. IsSeq(o8)  BY Zenon, <1>10 DEF Inside
  <1> QED  BY Zenon, <1>1, <1>13, <1>14, <1>15 DEF s

\* hashtable_insert of the redo file logs the words of the entry and its slot, and then
\* applies the log.
LEMMA LinkRedoDoes ==
  ASSUME NEW e, NEW s, NEW w
  PROVE  /\ IsSeq(LinkRedo(e, s))
         /\ w \in Entry(e) \cup {s} => Applies(LinkRedo(e, s), w, FALSE)
         /\ Applies(LinkRedo(e, s), w, TRUE)
         /\ w \notin Entry(e) \cup {s} => Untouched(LinkRedo(e, s), w)
  <1> DEFINE h == HashIn(e)
             k == Key(e)
             x == NextOf(e)
             W == Entry(e) \cup {s}
             o1 == STORE(h, hash[e])
             o2 == o1 \o Put(k, 0)
             o3 == o2 \o STORE(k, e)
             o4 == o3 \o Put(k, e)
             o5 == o4 \o STORE(x, now[s])
             o6 == o5 \o STORE(s, e)
             o7 == o6 \o COMMIT
  <1>1. LinkRedo(e, s) = o7  BY DEF LinkRedo
  <1>2. W = {h, k, x, s}  BY DEF Entry
  <1> HIDE DEF h, k, x, W
  <1>3. /\ Logging(o1, {h}, {h}) /\ Logging(Put(k, 0), {k}, {}) /\ Logging(STORE(k, e), {k}, {k})
        /\ Logging(Put(k, e), {k}, {}) /\ Logging(STORE(x, now[s]), {x}, {x})
        /\ Logging(STORE(s, e), {s}, {s})
    BY Zenon, LoggingOne
  <1> HIDE DEF o1, o2, o3, o4, o5, o6, o7
  <1>4. Logging(o2, {h} \cup {k}, {h} \cup {})  BY Zenon, <1>3, LoggingBoth DEF o2
  <1>5. Logging(o3, {h} \cup {k} \cup {k}, {h} \cup {} \cup {k})
    BY Zenon, <1>3, <1>4, LoggingBoth DEF o3
  <1>6. Logging(o4, {h} \cup {k} \cup {k} \cup {k}, {h} \cup {} \cup {k} \cup {})
    BY Zenon, <1>3, <1>5, LoggingBoth DEF o4
  <1>7. Logging(o5, {h} \cup {k} \cup {k} \cup {k} \cup {x}, {h} \cup {} \cup {k} \cup {} \cup {x})
    BY Zenon, <1>3, <1>6, LoggingBoth DEF o5
  <1>8. Logging(o6, {h} \cup {k} \cup {k} \cup {k} \cup {x} \cup {s},
                    {h} \cup {} \cup {k} \cup {} \cup {x} \cup {s})
    BY Zenon, <1>3, <1>7, LoggingBoth DEF o6
  <1>9. /\ {h} \cup {k} \cup {k} \cup {k} \cup {x} \cup {s} = W
        /\ {h} \cup {} \cup {k} \cup {} \cup {x} \cup {s} = W
    BY <1>2
  <1>10. Logging(o6, W, W)  BY <1>8, <1>9
  <1>11. IsSeq(o6) /\ Unapplied(o6, w) /\ (w \in W => StoredBy(o6, w))
         /\ (w \notin W => Untouched(o6, w))
    BY <1>10 DEF Logging
  <1>12. w \in W => Applies(o7, w, FALSE)
    <2>1. FALSE \in BOOLEAN  OBVIOUS
    <2> QED  BY Zenon, <1>11, <2>1, CommitApplies DEF o7
  <1>13. Applies(o7, w, TRUE)
    <2>1. TRUE \in BOOLEAN  OBVIOUS
    <2> QED  BY Zenon, <1>11, <2>1, CommitApplies DEF o7
  <1>14. IsSeq(COMMIT) /\ Untouched(COMMIT, w)  BY Zenon, Operations, OneOperation
  <1>15. IsSeq(o7) /\ (w \notin W => Untouched(o7, w))
    BY Zenon, <1>11, <1>14, BothDo DEF o7
  <1> QED  BY Zenon, <1>1, <1>12, <1>13, <1>15 DEF W

\* What is stored in the words of a new table's header.
Fills(s, t, V) ==
  /\ IsSeq(s)
  /\ \A o \in Ops(s) : o.do \in {"put", "store"} =>
       /\ Table \in o.at => o.val = t
       /\ TableLength \in o.at => o.val = Primes[t]
       /\ EntryCount \in o.at => o.val = 0
  /\ \A w \in V : \E o \in Ops(s) : o.do \in {"put", "store"} /\ w \in o.at

\* Two sequences that fill in a header, one after the other.
LEMMA FillsBoth ==
  ASSUME NEW s, NEW u, NEW t, NEW V, NEW X, Fills(s, t, V), Fills(u, t, X)
  PROVE  Fills(s \o u, t, V \cup X)
  <1>1. IsSeq(s \o u) /\ Ops(s \o u) = Ops(s) \cup Ops(u)  BY OpsJoined DEF Fills
  <1> DEFINE r == s \o u
  <1> HIDE DEF r
  <1>2. IsSeq(r) /\ Ops(r) = Ops(s) \cup Ops(u)  BY <1>1 DEF r
  <1>3. Fills(r, t, V \cup X)
    <2>1. \A o \in Ops(r) : o.do \in {"put", "store"} =>
            /\ Table \in o.at => o.val = t
            /\ TableLength \in o.at => o.val = Primes[t]
            /\ EntryCount \in o.at => o.val = 0
      BY <1>2 DEF Fills
    <2>2. \A w \in V \cup X : \E o \in Ops(r) : o.do \in {"put", "store"} /\ w \in o.at
      BY <1>2 DEF Fills
    <2> QED  BY <1>2, <2>1, <2>2 DEF Fills
  <1> QED  BY <1>3 DEF r

\* The words of the header are five.
LEMMA FiveWords ==
  /\ Table # TableLength /\ Table # EntryCount /\ Table # LimitWord /\ Table # PrimeIndex
  /\ TableLength # EntryCount /\ TableLength # LimitWord /\ TableLength # PrimeIndex
  /\ EntryCount # LimitWord /\ EntryCount # PrimeIndex /\ LimitWord # PrimeIndex
  BY DEF HeaderWord, Table, TableLength, EntryCount, LimitWord, PrimeIndex

\* One operation that fills in a word of the header.
LEMMA FillsOne ==
  ASSUME NEW t, NEW ws
  PROVE  /\ Fills(Begin(ws), t, {}) /\ Fills(Commit(ws), t, {}) /\ Fills(COMMIT, t, {})
         /\ Fills(Put(Table, t), t, {Table})
         /\ Fills(Put(TableLength, Primes[t]), t, {TableLength})
         /\ Fills(STORE(TableLength, Primes[t]), t, {TableLength})
         /\ Fills(Put(EntryCount, 0), t, {EntryCount})
         /\ Fills(STORE(EntryCount, 0), t, {EntryCount})
         /\ \A v : /\ Fills(Put(PrimeIndex, v), t, {}) /\ Fills(STORE(PrimeIndex, v), t, {})
                   /\ Fills(Put(LimitWord, v), t, {}) /\ Fills(STORE(LimitWord, v), t, {})
  <1>1. Fills(Begin(ws), t, {}) /\ Fills(Commit(ws), t, {}) /\ Fills(COMMIT, t, {})
    BY Operations DEF Fills
  <1>2. ASSUME NEW x, NEW v,
               /\ x = Table => v = t
               /\ x = TableLength => v = Primes[t]
               /\ x = EntryCount => v = 0
        PROVE  Fills(Put(x, v), t, {x}) /\ Fills(STORE(x, v), t, {x})
    <2>1. /\ IsSeq(Put(x, v)) /\ Ops(Put(x, v)) = {[do |-> "put", at |-> {x}, val |-> v]}
          /\ IsSeq(STORE(x, v)) /\ Ops(STORE(x, v)) = {[do |-> "store", at |-> {x}, val |-> v]}
      BY Zenon, Operations
    <2>2. Fills(Put(x, v), t, {x})  BY <1>2, <2>1 DEF Fills
    <2>3. Fills(STORE(x, v), t, {x})  BY <1>2, <2>1 DEF Fills
    <2> QED  BY <2>2, <2>3
  <1>3. ASSUME NEW x, NEW s, Fills(s, t, {x})  PROVE Fills(s, t, {})
    BY <1>3 DEF Fills
  <1>4. /\ Fills(Put(Table, t), t, {Table})
        /\ Fills(Put(TableLength, Primes[t]), t, {TableLength})
        /\ Fills(STORE(TableLength, Primes[t]), t, {TableLength})
        /\ Fills(Put(EntryCount, 0), t, {EntryCount})
        /\ Fills(STORE(EntryCount, 0), t, {EntryCount})
    BY Zenon, <1>2, FiveWords
  <1>5. \A v : /\ Fills(Put(PrimeIndex, v), t, {}) /\ Fills(STORE(PrimeIndex, v), t, {})
               /\ Fills(Put(LimitWord, v), t, {}) /\ Fills(STORE(LimitWord, v), t, {})
    <2>1. TAKE v
    <2>2. Fills(Put(PrimeIndex, v), t, {PrimeIndex}) /\ Fills(STORE(PrimeIndex, v), t, {PrimeIndex})
      BY Zenon, <1>2, FiveWords
    <2>3. Fills(Put(LimitWord, v), t, {LimitWord}) /\ Fills(STORE(LimitWord, v), t, {LimitWord})
      BY Zenon, <1>2, FiveWords
    <2> QED  BY Zenon, <1>3, <2>2, <2>3
  <1> QED  BY Zenon, <1>1, <1>4, <1>5

\* The three of them one behind the other, however they are put together.
LEMMA Associates ==
  ASSUME NEW s, NEW t, NEW u, IsSeq(s), IsSeq(t), IsSeq(u)
  PROVE  s \o (t \o u) = (s \o t) \o u
  <1>1. PICK S : s \in Seq(S)  BY DEF IsSeq
  <1>2. PICK T : t \in Seq(T)  BY DEF IsSeq
  <1>3. PICK U : u \in Seq(U)  BY DEF IsSeq
  <1> DEFINE A == S \cup T \cup U
  <1>4. s \in Seq(A) /\ t \in Seq(A) /\ u \in Seq(A)  BY <1>1, <1>2, <1>3
  <1>5. PICK B : s \in Seq(B) /\ t \in Seq(B) /\ u \in Seq(B)  BY <1>4
  <1> QED  BY <1>5, ConcatAssociative

\* create_hashtable of the object file.
LEMMA CreateObjDoes ==
  ASSUME NEW t
  PROVE  LET s == Put(Table, t) \o CreateObj(t)
         IN /\ Inside(s, Header) /\ \A w \in Header : Closes(s, w)
            /\ Fills(s, t, {Table, TableLength, EntryCount})
  <1> DEFINE a == Put(TableLength, Primes[t])
             b == Put(PrimeIndex, t)
             c == Put(EntryCount, 0)
             d == Put(LimitWord, LoadLimit(Primes[t]))
             o2 == a \o b
             o3 == o2 \o c
             o4 == o3 \o d
             p == Begin(Header) \o o4
             q == p \o Commit(Header)
             r == Put(Table, t) \o q
  <1>1. Put(Table, t) \o CreateObj(t) = r  BY DEF CreateObj, InEach
  <1>2. /\ Table \in Header /\ TableLength \in Header /\ EntryCount \in Header
        /\ LimitWord \in Header /\ PrimeIndex \in Header /\ Header \in SUBSET Header
    BY DEF Header
  <1>3. /\ Inside(Put(Table, t), Header) /\ Inside(a, Header) /\ Inside(b, Header)
        /\ Inside(c, Header) /\ Inside(d, Header) /\ Inside(Begin(Header), Header)
        /\ Inside(Commit(Header), Header)
    BY Zenon, <1>2, InsideOne
  <1>4. /\ Fills(Put(Table, t), t, {Table}) /\ Fills(a, t, {TableLength}) /\ Fills(b, t, {})
        /\ Fills(c, t, {EntryCount}) /\ Fills(d, t, {}) /\ Fills(Begin(Header), t, {})
        /\ Fills(Commit(Header), t, {})
    BY Zenon, FillsOne
  <1> HIDE DEF a, b, c, d, o2, o3, o4, p, q, r
  <1>5. Inside(o2, Header) /\ Fills(o2, t, {TableLength} \cup {})
    BY Zenon, <1>3, <1>4, InsideBoth, FillsBoth DEF o2
  <1>6. Inside(o3, Header) /\ Fills(o3, t, {TableLength} \cup {} \cup {EntryCount})
    BY Zenon, <1>3, <1>4, <1>5, InsideBoth, FillsBoth DEF o3
  <1>7. Inside(o4, Header) /\ Fills(o4, t, {TableLength} \cup {} \cup {EntryCount} \cup {})
    BY Zenon, <1>3, <1>4, <1>6, InsideBoth, FillsBoth DEF o4
  <1>8. /\ Inside(p, Header)
        /\ Fills(p, t, {} \cup ({TableLength} \cup {} \cup {EntryCount} \cup {}))
    BY Zenon, <1>3, <1>4, <1>7, InsideBoth, FillsBoth DEF p
  <1>9. /\ Inside(q, Header)
        /\ Fills(q, t, {} \cup ({TableLength} \cup {} \cup {EntryCount} \cup {}) \cup {})
    BY Zenon, <1>3, <1>4, <1>8, InsideBoth, FillsBoth DEF q
  <1>10. /\ Inside(r, Header)
         /\ Fills(r, t, {Table} \cup ({} \cup ({TableLength} \cup {} \cup {EntryCount} \cup {})
                                      \cup {}))
    BY Zenon, <1>3, <1>4, <1>9, InsideBoth, FillsBoth DEF r
  <1>11. {Table} \cup ({} \cup ({TableLength} \cup {} \cup {EntryCount} \cup {}) \cup {})
           = {Table, TableLength, EntryCount}
    OBVIOUS
  <1>12. Fills(r, t, {Table, TableLength, EntryCount})  BY <1>10, <1>11
  <1>13. ASSUME NEW w \in Header  PROVE Closes(r, w)
    <2>1. Closes(Commit(Header), w)  BY Zenon, CommitCloses
    <2>2. /\ IsSeq(p) /\ NotStored(p, w) /\ IsSeq(Commit(Header)) /\ IsSeq(q)
          /\ IsSeq(Put(Table, t)) /\ NotStored(Put(Table, t), w)
      BY Zenon, <1>3, <1>8, <1>9 DEF Inside
    <2>3. Closes(q, w)  BY Zenon, <2>1, <2>2, ThenCloses DEF q
    <2> QED  BY Zenon, <2>2, <2>3, ThenCloses DEF r
  <1> QED  BY Zenon, <1>1, <1>10, <1>12, <1>13

\* A word that is stored and committed.
LEMMA SetAndCommitDoes ==
  ASSUME NEW x \in Header, NEW v
  PROVE  /\ Inside(SetAndCommit(x, v), Header) /\ Closes(SetAndCommit(x, v), x)
         /\ \A w : w # x => Untouched(SetAndCommit(x, v), w)
         /\ \A t, V : Fills(Put(x, v), t, V) => Fills(SetAndCommit(x, v), t, V)
  <1> DEFINE a == Put(x, v)
             b == Commit({x})
  <1>1. {x} \in SUBSET Header /\ x \in {x}  OBVIOUS
  <1>2. Inside(a, Header) /\ Inside(b, Header)  BY Zenon, <1>1, InsideOne
  <1>3. Closes(b, x) /\ NotStored(a, x) /\ IsSeq(a) /\ IsSeq(b)
    BY Zenon, <1>1, <1>2, CommitCloses DEF Inside
  <1>4. ASSUME NEW w, w # x  PROVE Untouched(a, w) /\ Untouched(b, w)
    <2>1. w \notin {x}  BY <1>4
    <2> QED  BY Zenon, <1>4, <2>1, OneOperation
  <1>5. ASSUME NEW t, NEW V, Fills(a, t, V)  PROVE Fills(a \o b, t, V)
    <2>1. Fills(b, t, {})  BY Zenon, FillsOne
    <2> HIDE DEF a, b
    <2>2. Fills(a \o b, t, V \cup {})  BY Zenon, <1>5, <2>1, FillsBoth
    <2>3. V \cup {} = V  OBVIOUS
    <2> QED  BY Zenon, <2>2, <2>3
  <1>6. SetAndCommit(x, v) = a \o b  BY DEF SetAndCommit
  <1> HIDE DEF b
  <1>7. Inside(a \o b, Header)
    <2> HIDE DEF a
    <2> QED  BY Zenon, <1>2, InsideBoth
  <1>8. Closes(a \o b, x)
    <2> HIDE DEF a
    <2> QED  BY Zenon, <1>3, ThenCloses
  <1>9. ASSUME NEW w, w # x  PROVE Untouched(a \o b, w)
    <2>1. Untouched(a, w) /\ Untouched(b, w)  BY <1>4, <1>9
    <2> HIDE DEF a
    <2> QED  BY Zenon, <1>3, <2>1, BothDo
  <1> QED  BY Zenon, <1>5, <1>6, <1>7, <1>8, <1>9

\* create_hashtable of the word file.
LEMMA CreateWordDoes ==
  ASSUME NEW t
  PROVE  LET s == Put(Table, t) \o CreateWord(t)
         IN /\ Inside(s, Header) /\ \A w \in Header \ {Table} : Closes(s, w)
            /\ Idles(s, Table, t)
            /\ Fills(s, t, {Table, TableLength, EntryCount})
  <1> DEFINE a == SetAndCommit(TableLength, Primes[t])
             b == SetAndCommit(PrimeIndex, t)
             c == SetAndCommit(EntryCount, 0)
             d == SetAndCommit(LimitWord, LoadLimit(Primes[t]))
             o2 == a \o b
             o3 == o2 \o c
             o4 == o3 \o d
             r == Put(Table, t) \o o4
  <1>1. Put(Table, t) \o CreateWord(t) = r  BY DEF CreateWord, InEach
  <1>2. /\ Table \in Header /\ TableLength \in Header /\ EntryCount \in Header
        /\ LimitWord \in Header /\ PrimeIndex \in Header
    BY DEF Header
  <1>3. Fills(Put(Table, t), t, {Table}) /\ Inside(Put(Table, t), Header)
    <2>1. {} \in SUBSET Header  OBVIOUS
    <2> QED  BY Zenon, <1>2, <2>1, FillsOne, InsideOne
  <1>4. /\ Fills(a, t, {TableLength}) /\ Inside(a, Header) /\ Closes(a, TableLength)
        /\ \A w : w # TableLength => Untouched(a, w)
    BY Zenon, <1>2, FillsOne, SetAndCommitDoes
  <1>5. /\ Fills(b, t, {}) /\ Inside(b, Header) /\ Closes(b, PrimeIndex)
        /\ \A w : w # PrimeIndex => Untouched(b, w)
    BY Zenon, <1>2, FillsOne, SetAndCommitDoes
  <1>6. /\ Fills(c, t, {EntryCount}) /\ Inside(c, Header) /\ Closes(c, EntryCount)
        /\ \A w : w # EntryCount => Untouched(c, w)
    BY Zenon, <1>2, FillsOne, SetAndCommitDoes
  <1>7. /\ Fills(d, t, {}) /\ Inside(d, Header) /\ Closes(d, LimitWord)
        /\ \A w : w # LimitWord => Untouched(d, w)
    BY Zenon, <1>2, FillsOne, SetAndCommitDoes
  <1>8. Idles(Put(Table, t), Table, t)  BY Zenon, OneOperation
  <1>9. /\ \A w : w # Table => Untouched(Put(Table, t), w)
    BY Zenon, OneOperation
  <1> HIDE DEF a, b, c, d, o2, o3, o4, r
  <1>10. Inside(o2, Header) /\ Fills(o2, t, {TableLength} \cup {})
    BY Zenon, <1>4, <1>5, InsideBoth, FillsBoth DEF o2
  <1>11. Inside(o3, Header) /\ Fills(o3, t, {TableLength} \cup {} \cup {EntryCount})
    BY Zenon, <1>6, <1>10, InsideBoth, FillsBoth DEF o3
  <1>12. Inside(o4, Header) /\ Fills(o4, t, {TableLength} \cup {} \cup {EntryCount} \cup {})
    BY Zenon, <1>7, <1>11, InsideBoth, FillsBoth DEF o4
  <1>13. /\ Inside(r, Header)
         /\ Fills(r, t, {Table} \cup ({TableLength} \cup {} \cup {EntryCount} \cup {}))
    BY Zenon, <1>3, <1>12, InsideBoth, FillsBoth DEF r
  <1>14. {Table} \cup ({TableLength} \cup {} \cup {EntryCount} \cup {})
           = {Table, TableLength, EntryCount}
    OBVIOUS
  <1>15. Fills(r, t, {Table, TableLength, EntryCount})  BY <1>13, <1>14
  <1>16. /\ IsSeq(a) /\ IsSeq(b) /\ IsSeq(c) /\ IsSeq(d) /\ IsSeq(o2) /\ IsSeq(o3) /\ IsSeq(o4)
         /\ IsSeq(Put(Table, t)) /\ \A w : NotStored(Put(Table, t), w)
         /\ \A w : NotStored(a, w) /\ NotStored(o2, w) /\ NotStored(o3, w)
    BY Zenon, <1>3, <1>4, <1>5, <1>6, <1>7, <1>10, <1>11, <1>12 DEF Inside
  <1>17. Closes(o2, TableLength) /\ Closes(o2, PrimeIndex)
    BY Zenon, <1>4, <1>5, <1>16, FiveWords, ClosesThen, ThenCloses DEF o2
  <1>18. Closes(o3, TableLength) /\ Closes(o3, PrimeIndex) /\ Closes(o3, EntryCount)
    BY Zenon, <1>6, <1>16, <1>17, FiveWords, ClosesThen, ThenCloses DEF o3
  <1>19. /\ Closes(o4, TableLength) /\ Closes(o4, PrimeIndex) /\ Closes(o4, EntryCount)
         /\ Closes(o4, LimitWord)
    BY Zenon, <1>7, <1>16, <1>18, FiveWords, ClosesThen, ThenCloses DEF o4
  <1>20. ASSUME NEW w \in Header \ {Table}  PROVE Closes(r, w)
    <2>1. Closes(o4, w)  BY <1>19 DEF Header
    <2> QED  BY Zenon, <1>16, <2>1, ThenCloses DEF r
  <1>21. Idles(r, Table, t)
    <2>1. /\ Untouched(a, Table) /\ Untouched(b, Table) /\ Untouched(c, Table)
          /\ Untouched(d, Table)
      BY <1>4, <1>5, <1>6, <1>7, FiveWords
    <2>2. Untouched(o2, Table)  BY Zenon, <1>16, <2>1, BothDo DEF o2
    <2>3. Untouched(o3, Table)  BY Zenon, <1>16, <2>1, <2>2, BothDo DEF o3
    <2>4. Untouched(o4, Table)  BY Zenon, <1>16, <2>1, <2>3, BothDo DEF o4
    <2>5. Idles(o4, Table, t)  BY Zenon, <2>4, UntouchedIs
    <2> QED  BY Zenon, <1>8, <1>16, <2>5, BothDo DEF r
  <1> QED  BY Zenon, <1>1, <1>13, <1>15, <1>20, <1>21

\* create_hashtable of the redo file.
LEMMA CreateRedoDoes ==
  ASSUME NEW t
  PROVE  LET s == Put(Table, t) \o CreateRedo(t)
         IN /\ IsSeq(s) /\ \A w \in Header \ {Table} : Applies(s, w, FALSE)
            /\ \A w : w \notin Header => Untouched(s, w)
            /\ Idles(s, Table, t)
            /\ Fills(s, t, {Table, TableLength, EntryCount})
  <1> DEFINE a == STORE(TableLength, Primes[t])
             b == STORE(PrimeIndex, t)
             c == STORE(EntryCount, 0)
             d == STORE(LimitWord, LoadLimit(Primes[t]))
             o2 == a \o b
             o3 == o2 \o c
             o4 == o3 \o d
             q == Put(Table, t) \o o4
             r == q \o COMMIT
             A == {TableLength} \cup {PrimeIndex} \cup {EntryCount} \cup {LimitWord}
  <1>1. Put(Table, t) \o CreateRedo(t) = Put(Table, t) \o (o4 \o COMMIT)
    BY DEF CreateRedo, InEach
  <1>2. /\ Fills(Put(Table, t), t, {Table}) /\ Fills(a, t, {TableLength}) /\ Fills(b, t, {})
        /\ Fills(c, t, {EntryCount}) /\ Fills(d, t, {}) /\ Fills(COMMIT, t, {})
    BY Zenon, FillsOne
  <1>3. /\ Logging(a, {TableLength}, {TableLength}) /\ Logging(b, {PrimeIndex}, {PrimeIndex})
        /\ Logging(c, {EntryCount}, {EntryCount}) /\ Logging(d, {LimitWord}, {LimitWord})
        /\ Logging(Put(Table, t), {Table}, {})
    BY Zenon, LoggingOne
  <1>4. Idles(Put(Table, t), Table, t)  BY Zenon, OneOperation
  <1> HIDE DEF a, b, c, d, o2, o3, o4, q, r
  <1>5. /\ Logging(o2, {TableLength} \cup {PrimeIndex}, {TableLength} \cup {PrimeIndex})
        /\ Fills(o2, t, {TableLength} \cup {})
    BY Zenon, <1>2, <1>3, LoggingBoth, FillsBoth DEF o2
  <1>6. /\ Logging(o3, {TableLength} \cup {PrimeIndex} \cup {EntryCount},
                       {TableLength} \cup {PrimeIndex} \cup {EntryCount})
        /\ Fills(o3, t, {TableLength} \cup {} \cup {EntryCount})
    BY Zenon, <1>2, <1>3, <1>5, LoggingBoth, FillsBoth DEF o3
  <1>7. Logging(o4, A, A) /\ Fills(o4, t, {TableLength} \cup {} \cup {EntryCount} \cup {})
    BY Zenon, <1>2, <1>3, <1>6, LoggingBoth, FillsBoth DEF o4
  <1> HIDE DEF A
  <1>8. /\ Logging(q, {Table} \cup A, {} \cup A)
        /\ Fills(q, t, {Table} \cup ({TableLength} \cup {} \cup {EntryCount} \cup {}))
    BY Zenon, <1>2, <1>3, <1>7, LoggingBoth, FillsBoth DEF q
  <1>9. Fills(r, t, {Table} \cup ({TableLength} \cup {} \cup {EntryCount} \cup {}) \cup {})
    BY Zenon, <1>2, <1>8, FillsBoth DEF r
  <1>10. {Table} \cup ({TableLength} \cup {} \cup {EntryCount} \cup {}) \cup {}
           = {Table, TableLength, EntryCount}
    OBVIOUS
  <1>11. Fills(r, t, {Table, TableLength, EntryCount})  BY <1>9, <1>10
  <1>12. /\ IsSeq(Put(Table, t)) /\ IsSeq(o4) /\ IsSeq(COMMIT) /\ IsSeq(q)
         /\ \A w : Unapplied(q, w)
    BY Zenon, <1>3, <1>7, <1>8, Operations DEF Logging
  <1>13. Put(Table, t) \o CreateRedo(t) = r
    <2>1. Put(Table, t) \o (o4 \o COMMIT) = (Put(Table, t) \o o4) \o COMMIT
      <3>1. PICK p : p = Put(Table, t)  OBVIOUS
      <3>2. PICK z : z = COMMIT  OBVIOUS
      <3>3. IsSeq(p) /\ IsSeq(o4) /\ IsSeq(z)  BY <1>12, <3>1, <3>2
      <3>4. p \o (o4 \o z) = (p \o o4) \o z  BY <3>3, Associates
      <3> QED  BY <3>1, <3>2, <3>4
    <2> QED  BY <1>1, <2>1 DEF r, q
  <1>14. ASSUME NEW w \in Header \ {Table}  PROVE Applies(r, w, FALSE)
    <2>1. w \in {} \cup A  BY DEF Header, A
    <2>2. StoredBy(q, w)  BY Zenon, <1>8, <2>1 DEF Logging
    <2>3. FALSE \in BOOLEAN  OBVIOUS
    <2> QED  BY Zenon, <1>12, <2>2, <2>3, CommitApplies DEF r
  <1>15. \A w : Untouched(COMMIT, w)  BY Zenon, OneOperation
  <1>16. ASSUME NEW w, w \notin Header  PROVE Untouched(r, w)
    <2>1. w \notin {Table} \cup A  BY <1>16 DEF Header, A
    <2>2. Untouched(q, w)  BY Zenon, <1>8, <2>1 DEF Logging
    <2> QED  BY Zenon, <1>12, <1>15, <2>2, BothDo DEF r
  <1>17. Idles(r, Table, t)
    <2>1. Table \notin A  BY FiveWords DEF A
    <2>2. Untouched(o4, Table)  BY Zenon, <1>7, <2>1 DEF Logging
    <2>3. Idles(o4, Table, t) /\ Idles(COMMIT, Table, t)  BY Zenon, <1>15, <2>2, UntouchedIs
    <2>4. Idles(q, Table, t)  BY Zenon, <1>4, <1>12, <2>3, BothDo DEF q
    <2> QED  BY Zenon, <1>12, <2>3, <2>4, BothDo DEF r
  <1>18. IsSeq(r)  BY Zenon, <1>11 DEF Fills
  <1> QED  BY Zenon, <1>11, <1>13, <1>14, <1>16, <1>17, <1>18

-----------------------------------------------------------------------------
(* What a stop of the machine leaves                                          *)

\* The values of a function on a finite set are finitely many.
LEMMA FiniteImage ==
  ASSUME NEW S, IsFiniteSet(S), NEW f, DOMAIN f = S
  PROVE  IsFiniteSet({f[x] : x \in S})
  <1> DEFINE T == {f[x] : x \in S}
             g == [x \in S |-> f[x]]
  <1>1. g \in [S -> T] /\ \A y \in T : \E x \in S : g[x] = y  OBVIOUS
  <1> HIDE DEF g, T
  <1>2. g \in Surjection(S, T)  BY <1>1 DEF Surjection
  <1>3. IsFiniteSet(T)  BY <1>2, FS_Surjection
  <1> QED  BY <1>3 DEF T

\* The words are finitely many.
LEMMA FiniteWords == IsFiniteSet(Words)
  <1>1. IsFiniteSet(Header)
    <2>1. /\ IsFiniteSet({Table}) /\ IsFiniteSet({Table} \cup {TableLength})
          /\ IsFiniteSet({Table} \cup {TableLength} \cup {EntryCount})
          /\ IsFiniteSet({Table} \cup {TableLength} \cup {EntryCount} \cup {LimitWord})
          /\ IsFiniteSet({Table} \cup {TableLength} \cup {EntryCount} \cup {LimitWord}
                           \cup {PrimeIndex})
      <3>1. IsFiniteSet({Table})  BY FS_Singleton
      <3>2. IsFiniteSet({Table} \cup {TableLength})  BY <3>1, FS_AddElement
      <3>3. IsFiniteSet({Table} \cup {TableLength} \cup {EntryCount})  BY <3>2, FS_AddElement
      <3>4. IsFiniteSet({Table} \cup {TableLength} \cup {EntryCount} \cup {LimitWord})
        BY <3>3, FS_AddElement
      <3>5. IsFiniteSet({Table} \cup {TableLength} \cup {EntryCount} \cup {LimitWord}
                          \cup {PrimeIndex})
        BY <3>4, FS_AddElement
      <3> QED  BY <3>1, <3>2, <3>3, <3>4, <3>5
    <2>2. Header = {Table} \cup {TableLength} \cup {EntryCount} \cup {LimitWord} \cup {PrimeIndex}
      BY DEF Header
    <2> QED  BY <2>1, <2>2
  <1>2. IsFiniteSet(Slots)
    <2> DEFINE row == [t \in DOMAIN Primes |-> {Slot(t, j) : j \in 0 .. Primes[t] - 1}]
               rows == {row[t] : t \in DOMAIN Primes}
    <2>1. Primes \in Seq(Nat \ {0})  BY TransAssumption
    <2>2. IsFiniteSet(DOMAIN Primes)
      <3>1. DOMAIN Primes = 1 .. Len(Primes) /\ 1 \in Int /\ Len(Primes) \in Int  BY <2>1
      <3> QED  BY <3>1, FS_Interval
    <2>3. ASSUME NEW t \in DOMAIN Primes  PROVE IsFiniteSet(row[t])
      <3> DEFINE J == 0 .. Primes[t] - 1
                 g == [j \in J |-> Slot(t, j)]
      <3>1. Primes[t] - 1 \in Int /\ 0 \in Int  BY <2>1
      <3>2. IsFiniteSet(J)  BY <3>1, FS_Interval
      <3>3. DOMAIN g = J /\ \A j \in J : g[j] = Slot(t, j)  OBVIOUS
      <3>4. {g[j] : j \in J} = {Slot(t, j) : j \in J}  BY <3>3
      <3>5. row[t] = {Slot(t, j) : j \in J}  OBVIOUS
      <3> HIDE DEF g, J, row
      <3>6. IsFiniteSet({g[j] : j \in J})  BY Zenon, <3>2, <3>3, FiniteImage
      <3> QED  BY <3>4, <3>5, <3>6
    <2>4. DOMAIN row = DOMAIN Primes  OBVIOUS
    <2>5. Slots = UNION rows  BY DEF Slots
    <2> HIDE DEF row
    <2>6. IsFiniteSet(rows)  BY Zenon, <2>2, <2>4, FiniteImage
    <2>7. \A T \in rows : IsFiniteSet(T)  BY <2>3
    <2> HIDE DEF rows
    <2> QED  BY <2>5, <2>6, <2>7, FS_UNION
  <1>3. IsFiniteSet(UNION {Entry(e) : e \in Items})
    <2> DEFINE g == [e \in Items |-> Entry(e)]
               all == {g[e] : e \in Items}
    <2>1. IsFiniteSet(Items)  BY TransAssumption, FS_Interval DEF Items
    <2>2. ASSUME NEW e \in Items  PROVE IsFiniteSet(g[e])
      <3>1. IsFiniteSet({Key(e)})  BY FS_Singleton
      <3>2. IsFiniteSet({Key(e)} \cup {HashIn(e)})  BY <3>1, FS_AddElement
      <3>3. IsFiniteSet({Key(e)} \cup {HashIn(e)} \cup {NextOf(e)})  BY <3>2, FS_AddElement
      <3>4. g[e] = {Key(e)} \cup {HashIn(e)} \cup {NextOf(e)}  BY DEF Entry
      <3> QED  BY <3>3, <3>4
    <2>3. UNION {Entry(e) : e \in Items} = UNION all  OBVIOUS
    <2>4. DOMAIN g = Items  OBVIOUS
    <2> HIDE DEF g
    <2>5. IsFiniteSet(all)  BY Zenon, <2>1, <2>4, FiniteImage
    <2>6. \A T \in all : IsFiniteSet(T)  BY <2>2
    <2> HIDE DEF all
    <2> QED  BY <2>3, <2>5, <2>6, FS_UNION
  <1>4. IsFiniteSet(Header \cup Slots)  BY <1>1, <1>2, FS_Union
  <1>5. IsFiniteSet((Header \cup Slots) \cup UNION {Entry(e) : e \in Items})
    BY <1>3, <1>4, FS_Union
  <1> QED  BY <1>5 DEF Words

\* An image has of each word one of the values that the memory may hold.
LEMMA ImagesFit ==
  ASSUME NEW f \in Images, NEW w \in DOMAIN f
  PROVE  f[w] \in media[w]
  <1> DEFINE n == Cardinality(Unsure)
             L(g) == g = [k \in 0 .. n |->
                            IF k = 0 THEN Unsure
                            ELSE LET ws == g[k - 1] IN ws \ {CHOOSE x \in ws : TRUE}]
             left == CHOOSE g : L(g)
             word(k) == CHOOSE x \in left[k - 1] : TRUE
             with(x, v, h) == Over([y \in {x} |-> v], h)
             ext(k, fs) == {with(word(k), v, h) : h \in fs, v \in media[word(k)]}
             P(g) == g = [k \in 0 .. n |-> IF k = 0 THEN {<<>>} ELSE ext(k, g[k - 1])]
  <1>1. n \in Nat
    <2>1. Unsure \in SUBSET Words  BY DEF Unsure
    <2>2. IsFiniteSet(Unsure)  BY <2>1, FiniteWords, FS_Subset
    <2> QED  BY <2>2, FS_CardinalityType
  <1>2. Images = (CHOOSE g : P(g))[n]  BY DEF Images
  <1> HIDE DEF left, word, with
  <1> DEFINE X == {word(k) : k \in 1 .. n}
             M == UNION {media[word(k)] : k \in 1 .. n}
             F == UNION {[D -> M] : D \in SUBSET X}
             W == SUBSET F
             step == [k \in Nat |-> [fs \in W |-> IF k \in 1 .. n THEN ext(k, fs) ELSE {}]]
  <1>3. ASSUME NEW k \in 1 .. n, NEW fs \in W  PROVE ext(k, fs) \in W
    <2>1. ASSUME NEW h \in fs, NEW v \in media[word(k)]
          PROVE  with(word(k), v, h) \in F
      <3>1. PICK wk : wk = word(k)  OBVIOUS
      <3>2. wk \in X /\ v \in M  BY <3>1
      <3> HIDE DEF M, X
      <3>3. PICK D \in SUBSET X : h \in [D -> M]  OBVIOUS
      <3>4. Over([x \in {wk} |-> v], h) \in [D \cup {wk} -> M]  BY <3>2, <3>3 DEF Over
      <3>5. D \cup {wk} \in SUBSET X  BY <3>2, <3>3
      <3>6. with(wk, v, h) \in F  BY <3>4, <3>5 DEF with
      <3> QED  BY <3>1, <3>6
    <2>2. \A h \in ext(k, fs) : h \in F
      <3> HIDE DEF F
      <3> QED  BY <2>1
    <2> HIDE DEF F, ext
    <2> QED  BY <2>2
  <1>4. {<<>>} \in W
    <2>1. <<>> \in [{} -> M]
      <3>1. DOMAIN <<>> = {}  BY OpsOfNone
      <3>2. <<>> = [x \in {} |-> 0]  OBVIOUS
      <3> HIDE DEF M
      <3> QED  BY <3>2
    <2>2. {} \in SUBSET X  OBVIOUS
    <2> HIDE DEF M, X
    <2> QED  BY <2>1, <2>2
  <1>5. step \in [Nat -> [W -> W]]
    <2>1. {} \in W  OBVIOUS
    <2>2. ASSUME NEW k \in Nat, NEW fs \in W
          PROVE  (IF k \in 1 .. n THEN ext(k, fs) ELSE {}) \in W
      <3> HIDE DEF W, ext, n
      <3> QED  BY <1>3, <2>1
    <2> HIDE DEF W, ext, n
    <2> QED  BY <2>2
  <1>6. PICK g \in [0 .. n -> W] : Stepped(g, {<<>>}, step, n)
    <2> HIDE DEF W, step, n
    <2> QED  BY <1>1, <1>4, <1>5, Recursion
  <1>7. P(g)
    <2>1. ASSUME NEW k \in 1 .. n  PROVE g[k] = ext(k, g[k - 1])
      <3>1. k - 1 \in 0 .. n /\ k \in Nat  BY <1>1
      <3>2. g[k - 1] \in W  BY <1>6, <3>1
      <3>3. step[k][g[k - 1]] = ext(k, g[k - 1])
        <4> HIDE DEF W, ext, n
        <4> QED  BY <3>1, <3>2
      <3> HIDE DEF W, ext, n, step
      <3> QED  BY <1>6, <3>3 DEF Stepped
    <2>2. g[0] = {<<>>}
      <3> HIDE DEF W, step, n
      <3> QED  BY <1>6 DEF Stepped
    <2> HIDE DEF W, ext, step
    <2>3. g = [k \in 0 .. n |-> IF k = 0 THEN {<<>>} ELSE ext(k, g[k - 1])]
      <3> HIDE DEF n
      <3>1. \A k \in 0 .. n : k = 0 \/ k \in 1 .. n  BY <1>1
      <3> QED  BY <1>6, <2>1, <2>2, <3>1
    <2> QED  BY <2>3
  <1> DEFINE u == CHOOSE h : P(h)
  <1>8. P(u)
    <2> HIDE DEF P
    <2> QED  BY <1>7
  <1>9. /\ u[0] = {<<>>}
        /\ \A k \in 1 .. n : u[k] = ext(k, u[k - 1])
    <2>1. 0 \in 0 .. n /\ \A k \in 1 .. n : k \in 0 .. n /\ k # 0  BY <1>1
    <2> HIDE DEF u, ext, n
    <2> QED  BY <1>8, <2>1
  <1> HIDE DEF u, P, n
  <1> DEFINE S == {k \in 0 .. n : \A h \in u[k] : \A x \in DOMAIN h : h[x] \in media[x]}
  <1>10. 0 \in S
    <2>1. DOMAIN <<>> = {}  BY OpsOfNone
    <2> QED  BY <1>1, <1>9, <2>1
  <1>11. ASSUME NEW k \in 0 .. n, k < n, k \in S  PROVE k + 1 \in S
    <2>1. k + 1 \in 1 .. n /\ k + 1 - 1 = k  BY <1>1, <1>11
    <2>2. u[k + 1] = ext(k + 1, u[k])
      <3> HIDE DEF ext
      <3> QED  BY <1>9, <2>1
    <2> DEFINE wk == word(k + 1)
    <2>3. ASSUME NEW h \in u[k], NEW v \in media[wk], NEW x \in DOMAIN with(wk, v, h)
          PROVE  with(wk, v, h)[x] \in media[x]
      <3> HIDE DEF wk
      <3>1. \A y \in DOMAIN h : h[y] \in media[y]  BY <1>11
      <3> QED  BY <2>3, <3>1 DEF Over, with
    <2>4. ASSUME NEW h \in u[k + 1]  PROVE \A x \in DOMAIN h : h[x] \in media[x]
      <3>1. h \in ext(k + 1, u[k])
        <4> HIDE DEF ext
        <4> QED  BY <2>2
      <3>2. PICK o \in u[k], v \in media[wk] : h = with(wk, v, o)
        BY <3>1
      <3> HIDE DEF wk
      <3> QED  BY <2>3, <3>2
    <2> QED  BY <1>1, <2>1, <2>4
  <1>12. n \in S
    <2> HIDE DEF S
    <2>1. \A k \in 0 .. n : k \in S  BY <1>1, <1>10, <1>11, UpTo
    <2> QED  BY <1>1, <2>1
  <1>13. f \in u[n]  BY <1>2 DEF u
  <1> QED  BY <1>12, <1>13

-----------------------------------------------------------------------------
(* The words between two calls                                                *)

\* When a call has made its operations a word that ends well is settled.
LEMMA CallOver ==
  ASSUME NEW w, todo = <<>>, EndsWell(w)
  PROVE  Settled(w)
  <1>1. DOMAIN <<>> = {}  BY OpsOfNone
  <1>2. ~Closes(<<>>, w) /\ ~Applies(<<>>, w, w \in DOMAIN buf)  BY <1>1 DEF Closes, Applies
  <1> QED  BY <1>2 DEF EndsWell

\* A call that does to a settled word what it should, or applies one that is logged.
LEMMA NewCall ==
  ASSUME NEW w, UNCHANGED memory,
         \/ Settled(w) /\ Done(todo', w)
         \/ Settled(w) /\ Untouched(todo', w)
         \/ Settled(w) /\ Applies(todo', w, FALSE)
         \/ w \in DOMAIN buf /\ w \notin DOMAIN undo /\ Applies(todo', w, TRUE)
  PROVE  EndsWell(w)'
  <1>1. now' = now /\ media' = media /\ undo' = undo /\ buf' = buf  BY DEF memory
  <1>2. CASE Settled(w) /\ Done(todo', w)
    BY <1>1, <1>2 DEF EndsWell, Settled, Done
  <1>3. CASE Settled(w) /\ Untouched(todo', w)
    <2>1. Idles(todo', w, now[w])  BY <1>3 DEF Untouched, Idles
    <2> QED  BY <1>1, <1>3, <2>1 DEF EndsWell, Settled
  <1>4. CASE Settled(w) /\ Applies(todo', w, FALSE)
    <2>1. Applies(todo', w, w \in DOMAIN buf)  BY <1>4 DEF Applies, Settled
    <2> QED  BY <1>1, <1>4, <2>1 DEF EndsWell, Settled
  <1>5. CASE w \in DOMAIN buf /\ w \notin DOMAIN undo /\ Applies(todo', w, TRUE)
    <2>1. Applies(todo', w, w \in DOMAIN buf)  BY <1>5 DEF Applies
    <2> QED  BY <1>1, <1>5, <2>1 DEF EndsWell
  <1> QED  BY <1>2, <1>3, <1>4, <1>5

\* A call that stores nothing else in a word.
LEMMA NewWithin ==
  ASSUME NEW w, NEW R, UNCHANGED memory, Within(w, R),
         \A o \in Ops(todo') : o.do \in {"put", "store"} /\ w \in o.at => o.val \in R
  PROVE  Within(w, R)'
  BY DEF memory, Within

\* Without a call under way, what a word ends with is what it is.
LEMMA EndsNow ==
  ASSUME NEW w, NEW v, todo = <<>>, Ends(w, v)
  PROVE  LOAD(w) = v
  BY OpsOfNone DEF Ends

\* What is within a set is within a larger one.
LEMMA WithinMore ==
  ASSUME NEW w, NEW R, NEW S, R \subseteq S, Within(w, R)
  PROVE  Within(w, S)
  BY DEF Within

\* Memory and operations as they were.
LEMMA Unchanged ==
  ASSUME NEW w, UNCHANGED <<memory, todo>>
  PROVE  /\ EndsWell(w)' <=> EndsWell(w)
         /\ Buffered(w)' <=> Buffered(w)
         /\ \A v : Ends(w, v)' <=> Ends(w, v)
         /\ \A R : Within(w, R)' <=> Within(w, R)
         /\ MemOK' <=> MemOK
  <1>1. now' = now /\ media' = media /\ undo' = undo /\ buf' = buf /\ todo' = todo
    BY DEF memory
  <1>2. EndsWell(w)' <=> EndsWell(w)  BY <1>1 DEF EndsWell, Settled
  <1>3. Buffered(w)' <=> Buffered(w)  BY <1>1 DEF Buffered
  <1>4. \A v : Ends(w, v)' <=> Ends(w, v)  BY <1>1 DEF Ends, LOAD
  <1>5. \A R : Within(w, R)' <=> Within(w, R)  BY <1>1 DEF Within
  <1>6. MemOK' <=> MemOK  BY <1>1 DEF MemOK
  <1> QED  BY <1>2, <1>3, <1>4, <1>5, <1>6

\* No operation takes a word away.
LEMMA StepMemOK ==
  ASSUME MemOK, Step
  PROVE  MemOK'
  <1>1. todo # <<>> /\ todo' = Tail(todo)  BY DEF Step
  <1>2. IsSeq(todo')  BY <1>1, Behead DEF MemOK
  <1>3. PICK op : op = Head(todo)  OBVIOUS
  <1>4. \/ BeginTrans(op) \/ PutWord(op) \/ CommitTrans(op) \/ StoreWord(op) \/ ApplyRedo(op)
    BY <1>3 DEF Step
  <1>5. DOMAIN now \subseteq DOMAIN now' /\ DOMAIN media \subseteq DOMAIN media'
    <2>1. CASE BeginTrans(op)  BY <2>1 DEF BeginTrans
    <2>2. CASE PutWord(op)
      <3>1. /\ DOMAIN now' = op.at \cup DOMAIN now
            /\ DOMAIN media' = op.at \cup DOMAIN media
        BY <2>2 DEF PutWord, Over
      <3> QED  BY <3>1
    <2>3. CASE CommitTrans(op)
      <3>1. now' = now /\ DOMAIN media' = op.at \cup DOMAIN media
        BY <2>3 DEF CommitTrans, Over
      <3> QED  BY <3>1
    <2>4. CASE StoreWord(op)  BY <2>4 DEF StoreWord
    <2>5. CASE ApplyRedo(op)
      <3>1. /\ DOMAIN now' = DOMAIN buf \cup DOMAIN now
            /\ DOMAIN media' = DOMAIN buf \cup DOMAIN media
        BY <2>5 DEF ApplyRedo, Over
      <3> QED  BY <3>1
    <2> QED  BY <1>4, <2>1, <2>2, <2>3, <2>4, <2>5
  <1> QED  BY <1>2, <1>5 DEF MemOK

\* The words that an expansion stores are slots, links of entries, and four of the
\* header: never the count.
LEMMA ExpandKeeps ==
  ASSUME Expand
  PROVE  /\ DOMAIN now \subseteq DOMAIN now' /\ DOMAIN media \subseteq DOMAIN media'
         /\ EntryCount \in DOMAIN now => now'[EntryCount] = now[EntryCount]
         /\ EntryCount \in DOMAIN media => media'[EntryCount] = media[EntryCount]
         /\ undo' = undo /\ buf' = buf
  <1> DEFINE t == now[PrimeIndex] + 1
             oldSlots == {Slot(now[Table], j) : j \in 0 .. now[TableLength] - 1}
             newSlots == {Slot(t, j) : j \in 0 .. Primes[t] - 1}
             links == {NextOf(e) : e \in ToSet(AllEntries)}
             fields == {Table, TableLength, PrimeIndex, LimitWord}
             D == oldSlots \cup newSlots \cup links \cup fields
             new == [w \in D |->
                CASE w \in oldSlots -> 0
                  [] w \in newSlots -> HeadOf(NewChain(t, w[3]))
                  [] w \in links -> NewNext(t, w[2])
                  [] w \in {Table, PrimeIndex} -> t
                  [] w = TableLength -> Primes[t]
                  [] w = LimitWord -> LoadLimit(Primes[t])]
             passed(w) == IF w \in newSlots THEN ToSet(NewChain(t, w[3]))
                   ELSE IF w \in oldSlots THEN ToSet(Path(now, now[w])) ELSE {}
             may == [w \in DOMAIN new |-> media[w] \cup {new[w]} \cup passed(w)]
  <1>1. /\ now' = Over(new, now) /\ media' = Over(may, media)
        /\ undo' = undo /\ buf' = buf
    BY DEF Expand
  <1>2. DOMAIN new = D  OBVIOUS
  <1>3. DOMAIN may = DOMAIN new  OBVIOUS
  <1>4. EntryCount \notin D
    <2>1. \A u, j : EntryCount # Slot(u, j)  BY WordsDiffer DEF Header
    <2>2. \A e : EntryCount # NextOf(e)  BY WordsDiffer DEF Header, Entry
    <2> HIDE DEF t
    <2>3. EntryCount \notin oldSlots /\ EntryCount \notin newSlots  BY <2>1
    <2>4. EntryCount \notin links  BY <2>2
    <2>5. EntryCount \notin fields  BY FiveWords
    <2> HIDE DEF oldSlots, newSlots, links, fields
    <2> QED  BY <2>3, <2>4, <2>5
  <1> HIDE DEF D, new, may
  <1>5. PICK f, g : f = new /\ g = may  OBVIOUS
  <1>6. DOMAIN f = D /\ DOMAIN g = D /\ now' = Over(f, now) /\ media' = Over(g, media)
    BY <1>1, <1>2, <1>3, <1>5
  <1>7. /\ DOMAIN now' = D \cup DOMAIN now
        /\ EntryCount \in DOMAIN now => now'[EntryCount] = now[EntryCount]
    BY <1>4, <1>6 DEF Over
  <1>8. /\ DOMAIN media' = D \cup DOMAIN media
        /\ EntryCount \in DOMAIN media => media'[EntryCount] = media[EntryCount]
    BY <1>4, <1>6 DEF Over
  <1> QED  BY <1>1, <1>7, <1>8

-----------------------------------------------------------------------------
(* The count after a stop                                                     *)

Points == {"create", "insert", "grow", "alloc", "linked", "search", "remove", "oom", "failed",
           "aborted", "overrun", "exited", "crashed", "restarted", "lost"}

\* Where the tester is, and what that says of the calls before.
Place ==
  /\ build \in {"obj", "word", "redo", "nv"} /\ pc \in Points /\ item \in Nat \ {0}
  /\ pc \in {"remove", "exited"} => "removals" \in torn
  /\ pc = "create" => item = 1 /\ todo = <<>>
  /\ pc \in {"alloc", "search", "crashed", "restarted", "lost"} => todo = <<>>
  /\ build = "nv" => ~Stopped

\* The count is that of the insertions that returned, and from the ++entrycount on, one
\* more: first in memory or in the redo log, and for good when the insertion returns.
Counting ==
  /\ pc \in {"create", "insert"} => EndsWell(EntryCount)
  /\ pc \in {"create", "insert", "search"} => Within(EntryCount, {item - 1})
  /\ pc \in {"grow", "alloc"} => EndsWell(EntryCount) \/ (build = "redo" /\ Buffered(EntryCount))
  /\ pc = "linked" => EndsWell(EntryCount)
  /\ pc \in {"grow", "alloc", "linked"} => Ends(EntryCount, item)
  /\ pc \in {"grow", "alloc", "linked", "oom", "failed", "aborted", "overrun"} =>
       Within(EntryCount, {item - 1, item})
  /\ Stopped => now[EntryCount] \in {item - 1, item}

Counts == build # "nv" /\ torn \subseteq {"grown"}

CountInv == Place /\ (Counts => MemOK /\ Counting)

\* The count is one of the words.
LEMMA CountWord ==
  MemOK => EntryCount \in DOMAIN now /\ EntryCount \in DOMAIN media /\ EntryCount \in Words
  BY DEF MemOK, Words, Header

\* Before create_hashtable the count is 0.
LEMMA CountInit ==
  ASSUME Init  PROVE CountInv
  <1>1. DOMAIN <<>> = {} /\ IsSeq(<<>>) /\ Ops(<<>>) = {}  BY OpsOfNone
  <1>2. DOMAIN now = Words /\ DOMAIN media = Words  BY DEF Init
  <1>3. MemOK  BY <1>1, <1>2 DEF Init, MemOK
  <1>4. EntryCount \in Words  BY DEF Words, Header
  <1>5. now[EntryCount] = 0 /\ media[EntryCount] = {0}  BY <1>4 DEF Init
  <1>6. build \in {"obj", "word", "redo", "nv"}  BY TransAssumption DEF Init
  <1>7. Place  BY <1>6 DEF Init, Place, Points, Stopped
  <1>8. EndsWell(EntryCount)
    BY <1>1, <1>5 DEF Init, EndsWell, Settled, Idles
  <1>9. Within(EntryCount, {item - 1})
    <2>1. item - 1 = 0 /\ undo = <<>> /\ buf = <<>> /\ todo = <<>>  BY DEF Init
    <2>2. Within(EntryCount, {0})  BY <1>1, <1>5, <2>1 DEF Within
    <2> QED  BY <2>1, <2>2
  <1>10. Counting  BY <1>8, <1>9 DEF Init, Counting, Stopped
  <1> QED  BY <1>3, <1>7, <1>10 DEF CountInv

\* An operation of a call, of any of the files.
LEMMA CountStep ==
  ASSUME CountInv, Step  PROVE CountInv'
  <1>1. /\ pc' = pc /\ build' = build /\ torn' = torn /\ item' = item /\ todo # <<>>
    BY DEF Step
  <1>2. Place'  BY <1>1 DEF CountInv, Place, Stopped
  <1>3. ASSUME Counts  PROVE MemOK' /\ Counting'
    <2>1. MemOK /\ MemOK' /\ Counting  BY <1>3, StepMemOK DEF CountInv
    <2>2. EntryCount \in DOMAIN now /\ EntryCount \in DOMAIN media /\ IsSeq(todo)
      BY <2>1, CountWord DEF MemOK
    <2>3. EndsWell(EntryCount) => EndsWell(EntryCount)'  BY <2>2, StepEndsWell
    <2>4. \A R : Within(EntryCount, R) => Within(EntryCount, R)'  BY <2>2, StepWithin
    <2>5. \A i : Ends(EntryCount, i) => Ends(EntryCount, i)'  BY <2>2, StepEnds
    <2>6. Buffered(EntryCount) => Buffered(EntryCount)'  BY <2>2, StepBuffered
    <2>7. PICK i : i = item /\ i = item'  BY <1>1
    <2>8. pc \in {"create", "insert", "linked"} => EndsWell(EntryCount)'
      BY <2>1, <2>3 DEF Counting
    <2>9. pc \in {"create", "insert", "search"} => Within(EntryCount, {i - 1})'
      BY <2>1, <2>4, <2>7 DEF Counting
    <2>10. pc \in {"grow", "alloc"} =>
             EndsWell(EntryCount)' \/ (build = "redo" /\ Buffered(EntryCount)')
      BY <2>1, <2>3, <2>6 DEF Counting
    <2>11. pc \in {"grow", "alloc", "linked"} => Ends(EntryCount, i)'
      BY <2>1, <2>5, <2>7 DEF Counting
    <2>12. pc \in {"grow", "alloc", "linked", "oom", "failed", "aborted", "overrun"} =>
             Within(EntryCount, {i - 1, i})'
      BY <2>1, <2>4, <2>7 DEF Counting
    <2>13. ~Stopped  BY <1>1 DEF CountInv, Place, Stopped
    <2> QED  BY <1>1, <2>1, <2>7, <2>8, <2>9, <2>10, <2>11, <2>12, <2>13 DEF Counting, Stopped
  <1> QED  BY <1>1, <1>2, <1>3 DEF CountInv, Counts

\* create_hashtable sets the count to 0 and commits or applies it.
LEMMA CountCreate ==
  ASSUME CountInv, CreateHashtable  PROVE CountInv'
  <1>1. /\ pc = "create" /\ pc' = "insert" /\ todo = <<>> /\ todo' = Create(FirstTable)
        /\ UNCHANGED memory /\ build' = build /\ item' = item /\ torn' = torn
    BY DEF CreateHashtable, At, Same
  <1>2. now' = now /\ media' = media  BY <1>1 DEF memory
  <1>3. PICK t : t = FirstTable  OBVIOUS
  <1>4. /\ EntryCount \in Header /\ EntryCount # Table /\ item = 1
        /\ build \in {"obj", "word", "redo", "nv"}
    BY <1>1, FiveWords DEF Header, CountInv, Place
  <1>5. /\ build = "obj" => todo' = Put(Table, t) \o CreateObj(t)
        /\ build = "word" => todo' = Put(Table, t) \o CreateWord(t)
        /\ build = "redo" => todo' = Put(Table, t) \o CreateRedo(t)
    BY <1>1, <1>3 DEF Create
  <1>6. ASSUME Counts
        PROVE  /\ IsSeq(todo')
               /\ Closes(todo', EntryCount) \/ Applies(todo', EntryCount, FALSE)
               /\ Fills(todo', t, {Table, TableLength, EntryCount})
    <2> DEFINE o == Put(Table, t) \o CreateObj(t)
               x == Put(Table, t) \o CreateWord(t)
               r == Put(Table, t) \o CreateRedo(t)
    <2>4. EntryCount \in Header \ {Table}  BY <1>4
    <2>1. CASE build = "obj"
      <3>1. IsSeq(o) /\ Closes(o, EntryCount) /\ Fills(o, t, {Table, TableLength, EntryCount})
        BY Zenon, <1>4, CreateObjDoes DEF Inside
      <3>2. todo' = o  BY <1>5, <2>1
      <3> QED  BY Zenon, <3>1, <3>2
    <2>2. CASE build = "word"
      <3>1. IsSeq(x) /\ Closes(x, EntryCount) /\ Fills(x, t, {Table, TableLength, EntryCount})
        BY Zenon, <2>4, CreateWordDoes DEF Inside
      <3>2. todo' = x  BY <1>5, <2>2
      <3> QED  BY Zenon, <3>1, <3>2
    <2>3. CASE build = "redo"
      <3>1. /\ IsSeq(r) /\ Applies(r, EntryCount, FALSE)
            /\ Fills(r, t, {Table, TableLength, EntryCount})
        BY Zenon, <2>4, CreateRedoDoes
      <3>2. todo' = r  BY <1>5, <2>3
      <3> QED  BY Zenon, <3>1, <3>2
    <2> QED  BY <1>4, <1>6, <2>1, <2>2, <2>3 DEF Counts
  <1>7. ASSUME Counts  PROVE MemOK' /\ Counting'
    <2>1. MemOK /\ EndsWell(EntryCount) /\ Within(EntryCount, {0})
      BY <1>1, <1>4, <1>7 DEF CountInv, Counting
    <2>2. MemOK'  BY <1>2, <1>6, <1>7, <2>1 DEF MemOK
    <2>3. Settled(EntryCount)  BY <1>1, <2>1, CallOver
    <2>4. EndsWell(EntryCount)'
      BY <1>1, <1>6, <1>7, <2>3, NewCall DEF Done
    <2>5. Within(EntryCount, {0})'
      <3>1. \A o \in Ops(todo') : o.do \in {"put", "store"} /\ EntryCount \in o.at => o.val \in {0}
        BY <1>6, <1>7 DEF Fills
      <3> QED  BY <1>1, <2>1, <3>1, NewWithin
    <2> QED  BY <1>1, <1>4, <2>2, <2>4, <2>5 DEF Counting, Stopped
  <1> QED  BY <1>1, <1>7 DEF CountInv, Place, Points, Counts, Stopped

\* ++entrycount: logged and committed, or stored in the redo log.
LEMMA CountInsert ==
  ASSUME CountInv, InsertSome  PROVE CountInv'
  <1>1. /\ pc = "insert" /\ todo = <<>> /\ UNCHANGED memory
        /\ build' = build /\ item' = item /\ torn' = torn
    BY DEF InsertSome, At, Same
  <1>2. now' = now /\ media' = media /\ undo' = undo /\ buf' = buf  BY <1>1 DEF memory
  <1>3. CASE pc' = "search" /\ todo' = todo
    <2>1. Place'  BY <1>1, <1>3 DEF CountInv, Place, Points, Stopped
    <2>2. ASSUME Counts  PROVE MemOK' /\ Counting'
      <3>1. MemOK /\ Within(EntryCount, {item - 1})  BY <1>1, <2>2 DEF CountInv, Counting
      <3>2. MemOK'  BY <1>2, <1>3, <3>1 DEF MemOK
      <3>3. PICK i : i = item /\ i = item'  BY <1>1
      <3>4. Within(EntryCount, {i - 1})'  BY <1>2, <1>3, <3>1, <3>3 DEF Within
      <3> QED  BY <1>3, <3>2, <3>3, <3>4 DEF Counting, Stopped
    <2> QED  BY <1>1, <2>1, <2>2 DEF CountInv, Counts
  <1>4. CASE pc' = "grow" /\ todo' = CountUp
    <2>1. Place'  BY <1>1, <1>4 DEF CountInv, Place, Points, Stopped
    <2>2. ASSUME Counts  PROVE MemOK' /\ Counting'
      <3>1. MemOK /\ EndsWell(EntryCount) /\ Within(EntryCount, {item - 1}) /\ item \in Nat \ {0}
            /\ build \in {"obj", "word", "redo"}
        BY <1>1, <2>2 DEF CountInv, Counting, Counts, Place
      <3>2. Settled(EntryCount)  BY <1>1, <3>1, CallOver
      <3>3. PICK i : i = item /\ i = item'  BY <1>1
      <3>4. LOAD(EntryCount) + 1 = i
        BY <3>1, <3>2, <3>3 DEF LOAD, Settled, Within
      <3>5. /\ build \in {"obj", "word"} => todo' = Logged(EntryCount, i)
            /\ build = "redo" => todo' = STORE(EntryCount, i)
        BY <1>4, <3>4 DEF CountUp
      <3>6. IsSeq(todo')
        <4>1. IsSeq(Logged(EntryCount, i)) /\ IsSeq(STORE(EntryCount, i))
          BY Zenon, LoggedCloses, Operations
        <4> QED  BY <3>1, <3>5, <4>1
      <3>7. MemOK'  BY <1>2, <3>1, <3>6 DEF MemOK
      <3>8. /\ \A o \in Ops(todo') : o.do \in {"put", "store"} /\ EntryCount \in o.at => o.val = i
            /\ \E o \in Ops(todo') : o.do \in {"put", "store"} /\ EntryCount \in o.at
        <4>1. CASE build \in {"obj", "word"}  BY <3>5, <4>1, LoggedCloses
        <4>2. CASE build = "redo"
          <5>1. Ops(todo') = {[do |-> "store", at |-> {EntryCount}, val |-> i]}
            BY <3>5, <4>2, Operations
          <5> QED  BY <5>1
        <4> QED  BY <3>1, <4>1, <4>2
      <3>9. Within(EntryCount, {i - 1, i})'
        <4>1. Within(EntryCount, {i - 1, i})  BY <3>1, <3>3, WithinMore
        <4>2. \A o \in Ops(todo') : o.do \in {"put", "store"} /\ EntryCount \in o.at =>
                                     o.val \in {i - 1, i}
          BY <3>8
        <4> QED  BY <1>1, <4>1, <4>2, NewWithin
      <3>10. Ends(EntryCount, i)'
        BY <1>2, <3>2, <3>8 DEF Ends, Settled
      <3>11. EndsWell(EntryCount)' \/ (build = "redo" /\ Buffered(EntryCount)')
        <4>1. CASE build \in {"obj", "word"}
          <5>1. Closes(todo', EntryCount)  BY <3>5, <4>1, LoggedCloses
          <5> QED  BY <1>1, <3>2, <5>1, NewCall DEF Done
        <4>2. CASE build = "redo"
          <5>1. Ops(todo') = {[do |-> "store", at |-> {EntryCount}, val |-> i]}
            BY <3>5, <4>2, Operations
          <5>2. Buffered(EntryCount)'  BY <1>2, <3>2, <5>1 DEF Buffered, Settled
          <5> QED  BY <4>2, <5>2
        <4> QED  BY <3>1, <4>1, <4>2
      <3> QED  BY <1>1, <1>4, <3>3, <3>7, <3>9, <3>10, <3>11 DEF Counting, Stopped
    <2> QED  BY <1>1, <2>1, <2>2 DEF CountInv, Counts
  <1> QED  BY <1>3, <1>4 DEF InsertSome

\* An expansion leaves the count alone, and what it is in the course of an insertion.
LEMMA CountGrow ==
  ASSUME CountInv, GrowTable  PROVE CountInv'
  <1>1. /\ pc = "grow" /\ todo = <<>> /\ todo' = todo /\ item' = item /\ build' = build
        /\ pc' \in {"alloc", "overrun", "aborted"} /\ torn \subseteq torn'
    BY DEF GrowTable, At, PlanB
  <1>2. Place'  BY <1>1 DEF CountInv, Place, Points, Stopped
  <1>3. ASSUME Counts'  PROVE MemOK' /\ Counting'
    <2>1. Counts  BY <1>1, <1>3 DEF Counts
    <2>2. /\ MemOK /\ Ends(EntryCount, item) /\ Within(EntryCount, {item - 1, item})
          /\ EndsWell(EntryCount) \/ (build = "redo" /\ Buffered(EntryCount))
      BY <1>1, <2>1 DEF CountInv, Counting
    <2>3. EntryCount \in DOMAIN now /\ EntryCount \in DOMAIN media /\ EntryCount \in Words
      BY <2>2, CountWord
    <2>4. /\ now'[EntryCount] = now[EntryCount] /\ media'[EntryCount] = media[EntryCount]
          /\ undo' = undo /\ buf' = buf
          /\ DOMAIN now \subseteq DOMAIN now' /\ DOMAIN media \subseteq DOMAIN media'
      <3>1. CASE UNCHANGED memory  BY <3>1 DEF memory
      <3>2. CASE Expand  BY <2>3, <3>2, ExpandKeeps
      <3>3. CASE PlanB
        <4>1. now' = now /\ undo' = undo /\ buf' = buf  BY <3>3 DEF PlanB
        <4>2. PICK ws : media' = [media EXCEPT ![PrimeIndex] = ws]  BY <3>3 DEF PlanB
        <4>3. media'[EntryCount] = media[EntryCount] /\ DOMAIN media' = DOMAIN media
          BY <2>3, <4>2, FiveWords
        <4> QED  BY <4>1, <4>3
      <3> QED  BY <3>1, <3>2, <3>3 DEF GrowTable
    <2>5. MemOK'  BY <1>1, <2>2, <2>4 DEF MemOK
    <2>6. PICK i : i = item /\ i = item'  BY <1>1
    <2>7. Ends(EntryCount, i)'
      <3>1. Ends(EntryCount, i)  BY <2>2, <2>6
      <3> QED  BY <1>1, <2>4, <3>1 DEF Ends, LOAD
    <2>8. Within(EntryCount, {i - 1, i})'
      <3>1. Within(EntryCount, {i - 1, i})  BY <2>2, <2>6
      <3> QED  BY <1>1, <2>4, <3>1 DEF Within
    <2>9. EndsWell(EntryCount) => EndsWell(EntryCount)'
      <3>1. EndsWell(EntryCount) => Settled(EntryCount)  BY <1>1, CallOver
      <3>2. Settled(EntryCount) => Settled(EntryCount)'  BY <2>4 DEF Settled
      <3>3. Idles(todo', EntryCount, now'[EntryCount])  BY <1>1, OpsOfNone DEF Idles
      <3> QED  BY <3>1, <3>2, <3>3 DEF EndsWell
    <2>10. Buffered(EntryCount) => Buffered(EntryCount)'  BY <1>1, <2>4 DEF Buffered
    <2> QED  BY <1>1, <2>2, <2>5, <2>6, <2>7, <2>8, <2>9, <2>10 DEF Counting, Stopped
  <1> QED  BY <1>2, <1>3 DEF CountInv

\* The rest of an insertion leaves the count alone, and the redo file applies it; without
\* memory the count goes back to what it was.
LEMMA CountLink ==
  ASSUME CountInv, LinkEntry  PROVE CountInv'
  <1>1. /\ pc = "alloc" /\ todo = <<>> /\ UNCHANGED memory /\ item' = item /\ build' = build
    BY DEF LinkEntry, At, Same
  <1>2. now' = now /\ media' = media /\ undo' = undo /\ buf' = buf  BY <1>1 DEF memory
  <1>3. ASSUME Counts
        PROVE  /\ MemOK /\ Ends(EntryCount, item) /\ Within(EntryCount, {item - 1, item})
               /\ EndsWell(EntryCount) \/ (build = "redo" /\ Buffered(EntryCount))
               /\ build \in {"obj", "word", "redo"} /\ item \in Nat \ {0}
    BY <1>1, <1>3 DEF CountInv, Counting, Counts, Place
  <1>4. CASE pc' = "linked" /\ todo' = Link(item, SlotFor(item)) /\ torn' = torn
    <2>1. Place'  BY <1>1, <1>4 DEF CountInv, Place, Points, Stopped
    <2>2. ASSUME Counts  PROVE MemOK' /\ Counting'
      <3>1. PICK i : i = item /\ i = item'  BY <1>1
      <3>2. PICK t, j : t = now[Table] /\ j = hash[i] % now[TableLength]  OBVIOUS
      <3> DEFINE s == Slot(t, j)
      <3>3. SlotFor(item) = s  BY <3>1, <3>2 DEF SlotFor
      <3>4. EntryCount \notin Entry(i) \cup {s} /\ i # 0
        BY <1>3, <2>2, <3>1, WordsDiffer DEF Header
      <3>5. Untouched(todo', EntryCount) /\ IsSeq(todo')
            /\ (build = "redo" => Applies(todo', EntryCount, TRUE))
        <4>1. CASE build = "obj"
          <5>1. IsSeq(LinkObj(i, s)) /\ Untouched(LinkObj(i, s), EntryCount)
            BY Zenon, <3>4, LinkObjDoes
          <5>2. todo' = LinkObj(i, s)  BY <1>4, <3>1, <3>3, <4>1 DEF Link
          <5> QED  BY <4>1, <5>1, <5>2
        <4>2. CASE build = "redo"
          <5>1. /\ IsSeq(LinkRedo(i, s)) /\ Untouched(LinkRedo(i, s), EntryCount)
                /\ Applies(LinkRedo(i, s), EntryCount, TRUE)
            BY Zenon, <3>4, LinkRedoDoes
          <5>2. todo' = LinkRedo(i, s)  BY <1>4, <3>1, <3>3, <4>2 DEF Link
          <5> QED  BY Zenon, <5>1, <5>2
        <4>3. CASE build = "word"
          <5>1. IsSeq(LinkWord(i, s)) /\ Untouched(LinkWord(i, s), EntryCount)
            BY Zenon, <3>4, LinkWordDoes
          <5>2. todo' = LinkWord(i, s)  BY <1>4, <3>1, <3>3, <4>3 DEF Link
          <5> QED  BY <4>3, <5>1, <5>2
        <4> QED  BY <1>3, <2>2, <4>1, <4>2, <4>3
      <3>6. MemOK'  BY <1>2, <1>3, <2>2, <3>5 DEF MemOK
      <3>7. EndsWell(EntryCount)'
        <4>1. CASE EndsWell(EntryCount)
          <5>1. Settled(EntryCount)  BY <1>1, <4>1, CallOver
          <5> QED  BY <1>1, <3>5, <5>1, NewCall
        <4>2. CASE build = "redo" /\ Buffered(EntryCount)
          <5>1. EntryCount \in DOMAIN buf /\ EntryCount \notin DOMAIN undo
            BY <1>1, <4>2, OpsOfNone DEF Buffered
          <5> QED  BY <1>1, <3>5, <4>2, <5>1, NewCall
        <4> QED  BY <1>3, <2>2, <4>1, <4>2
      <3>8. \A o \in Ops(todo') : EntryCount \notin o.at  BY <3>5 DEF Untouched
      <3>9. Ends(EntryCount, i)'
        <4>1. Ends(EntryCount, i) /\ LOAD(EntryCount) = i
          BY <1>1, <1>3, <2>2, <3>1, EndsNow
        <4> QED  BY <1>2, <3>8, <4>1 DEF Ends, LOAD
      <3>10. Within(EntryCount, {i - 1, i})'
        <4>1. Within(EntryCount, {i - 1, i})  BY <1>3, <2>2, <3>1
        <4> QED  BY <1>1, <3>8, <4>1, NewWithin
      <3> QED  BY <1>4, <3>1, <3>6, <3>7, <3>9, <3>10 DEF Counting, Stopped
    <2> QED  BY <1>1, <1>4, <2>1, <2>2 DEF CountInv, Counts
  <1>5. CASE /\ pc' = "oom" /\ todo' = CountBack
             /\ torn' = torn \cup (IF build = "redo" THEN {"oom"} ELSE {})
    <2>1. Place'  BY <1>1, <1>5 DEF CountInv, Place, Points, Stopped
    <2>2. ASSUME Counts'  PROVE MemOK' /\ Counting'
      <3>1. Counts /\ build # "redo"
        <4>1. torn \subseteq torn' /\ (build = "redo" => "oom" \in torn')  BY <1>5
        <4> QED  BY <1>1, <2>2, <4>1 DEF Counts
      <3>2. PICK i : i = item /\ i = item'  BY <1>1
      <3>3. Settled(EntryCount) /\ i \in Nat  BY <1>1, <1>3, <3>1, <3>2, CallOver
      <3>4. now[EntryCount] = i
        <4>1. LOAD(EntryCount) = i  BY <1>1, <1>3, <3>1, <3>2, EndsNow
        <4> QED  BY <3>3, <4>1 DEF LOAD, Settled
      <3>5. todo' = Logged(EntryCount, i - 1)
        BY <1>3, <1>5, <3>1, <3>4 DEF CountBack
      <3>6. PICK m : m = i - 1  OBVIOUS
      <3>7. /\ IsSeq(Logged(EntryCount, m))
            /\ \A o \in Ops(Logged(EntryCount, m)) : o.do = "put" => o.val = m
            /\ \A o \in Ops(Logged(EntryCount, m)) : o.do # "store"
        BY Zenon, LoggedCloses
      <3>8. MemOK'  BY <1>2, <1>3, <3>1, <3>5, <3>6, <3>7 DEF MemOK
      <3>9. \A o \in Ops(todo') : o.do \in {"put", "store"} /\ EntryCount \in o.at =>
                                    o.val \in {i - 1, i}
        BY <3>5, <3>6, <3>7
      <3>10. Within(EntryCount, {i - 1, i})'
        <4>1. Within(EntryCount, {i - 1, i})  BY <1>3, <3>1, <3>2
        <4> QED  BY <1>1, <3>9, <4>1, NewWithin
      <3> QED  BY <1>5, <3>2, <3>8, <3>10 DEF Counting, Stopped
    <2> QED  BY <2>1, <2>2 DEF CountInv
  <1> QED  BY <1>4, <1>5 DEF LinkEntry

\* What EndsWell and Ends said of the whole call, now holds of the count itself.
LEMMA CountReturns ==
  ASSUME CountInv, InsertReturns  PROVE CountInv'
  <1>1. /\ pc = "linked" /\ pc' = "insert" /\ todo = <<>> /\ todo' = todo /\ UNCHANGED memory
        /\ item' = item + 1 /\ build' = build /\ torn' = torn
    BY DEF InsertReturns, At, Same
  <1>2. now' = now /\ media' = media /\ undo' = undo /\ buf' = buf  BY <1>1 DEF memory
  <1>3. item \in Nat \ {0}  BY DEF CountInv, Place
  <1>4. Place'  BY <1>1, <1>3 DEF CountInv, Place, Points, Stopped
  <1>5. ASSUME Counts  PROVE MemOK' /\ Counting'
    <2>1. MemOK /\ EndsWell(EntryCount) /\ Ends(EntryCount, item)
      BY <1>1, <1>5 DEF CountInv, Counting
    <2>2. PICK i : i = item /\ i = item' - 1  BY <1>1, <1>3
    <2>3. Settled(EntryCount)  BY <1>1, <2>1, CallOver
    <2>4. now[EntryCount] = i
      <3>1. LOAD(EntryCount) = i  BY <1>1, <2>1, <2>2, EndsNow
      <3> QED  BY <2>3, <3>1 DEF LOAD, Settled
    <2>5. Within(EntryCount, {i})
      BY <1>1, <2>3, <2>4, OpsOfNone DEF Within, Settled
    <2>6. Within(EntryCount, {i})' /\ EndsWell(EntryCount)' /\ MemOK'
      BY <1>1, <2>1, <2>5, Unchanged
    <2> QED  BY <1>1, <2>2, <2>6 DEF Counting, Stopped
  <1> QED  BY <1>1, <1>4, <1>5 DEF CountInv, Counts

\* The searches and the removals are past what the count is said to be.
LEMMA CountSearch ==
  ASSUME CountInv, SearchSome \/ RemoveSome  PROVE CountInv'
  <1>1. /\ build' = build /\ pc' = "remove" /\ "removals" \in torn' /\ item' \in Nat \ {0}
    <2>1. item \in Nat \ {0} /\ (pc = "remove" => "removals" \in torn)  BY DEF CountInv, Place
    <2>2. CASE SearchSome  BY <2>2 DEF SearchSome
    <2>3. CASE RemoveSome  BY <2>1, <2>3 DEF RemoveSome, At
    <2> QED  BY <2>2, <2>3
  <1>2. Place'  BY <1>1 DEF CountInv, Place, Points, Stopped
  <1>3. ~Counts'  BY <1>1 DEF Counts
  <1> QED  BY <1>2, <1>3 DEF CountInv

\* exit() leaves the memory alone.
LEMMA CountExit ==
  ASSUME CountInv, Exit  PROVE CountInv'
  <1>1. /\ \/ pc = "remove" /\ pc' = "exited"
           \/ pc = "oom" /\ pc' = "failed"
        /\ UNCHANGED <<memory, todo>> /\ item' = item /\ build' = build /\ torn' = torn
    BY DEF Exit, At, Same
  <1>2. Place'  BY <1>1 DEF CountInv, Place, Points, Stopped
  <1>3. ASSUME Counts  PROVE MemOK' /\ Counting'
    <2>1. pc = "oom" /\ pc' = "failed"  BY <1>1, <1>3 DEF CountInv, Place, Counts
    <2>2. PICK i : i = item /\ i = item'  BY <1>1
    <2>3. MemOK /\ Within(EntryCount, {i - 1, i})  BY <1>3, <2>1, <2>2 DEF CountInv, Counting
    <2>4. MemOK' /\ Within(EntryCount, {i - 1, i})'  BY <1>1, <2>3, Unchanged
    <2> QED  BY <2>1, <2>2, <2>4 DEF Counting, Stopped
  <1> QED  BY <1>1, <1>2, <1>3 DEF CountInv, Counts

\* A stop leaves in a word what the transaction kept, or something that memory may hold.
LEMMA CrashLeaves ==
  ASSUME Crash, NEW w \in Words, NEW R, media[w] # {}, media[w] \subseteq R,
         w \in DOMAIN undo => undo[w] \in R
  PROVE  now'[w] \in R
  <1> DEFINE g == [x \in Words |-> CHOOSE v \in media[x] : TRUE]
  <1>1. PICK f \in Images : now' = Over(undo, Over(f, g))  BY DEF Crash
  <1>2. w \in DOMAIN g /\ g[w] \in R
    <2>1. w \in DOMAIN g /\ g[w] = CHOOSE v \in media[w] : TRUE  OBVIOUS
    <2>2. PICK M : M = media[w]  OBVIOUS
    <2>3. \E v : v \in M  BY <2>2
    <2>4. (CHOOSE v \in M : TRUE) \in M  BY Zenon, <2>3
    <2>5. M \subseteq R  BY <2>2
    <2> HIDE DEF g
    <2> QED  BY <2>1, <2>2, <2>4, <2>5
  <1> HIDE DEF g
  <1>3. ASSUME w \in DOMAIN f  PROVE f[w] \in R
    <2>1. f[w] \in media[w]  BY Zenon, <1>3, <1>1, ImagesFit
    <2> QED  BY <2>1
  <1>4. PICK h : h = g  OBVIOUS
  <1>5. PICK i : i = Over(f, h)  OBVIOUS
  <1>6. w \in DOMAIN h /\ h[w] \in R  BY <1>2, <1>4
  <1>7. w \in DOMAIN i /\ i[w] \in R  BY <1>3, <1>5, <1>6 DEF Over
  <1>8. PICK u : u = undo  OBVIOUS
  <1>9. w \in DOMAIN u => u[w] \in R  BY <1>8
  <1>10. now' = Over(u, i)  BY <1>1, <1>4, <1>5, <1>8
  <1> QED  BY <1>7, <1>9, <1>10 DEF Over

\* A stop leaves in a word one of the values that it is within.
LEMMA CrashWithin ==
  ASSUME Crash, NEW w \in Words, NEW R, Within(w, R)
  PROVE  now'[w] \in R
  <1>1. media[w] # {} /\ media[w] \subseteq R /\ (w \in DOMAIN undo => undo[w] \in R)
    BY DEF Within
  <1> QED  BY <1>1, CrashLeaves

\* A stop: the count is the one kept by an open transaction, or one that memory may hold.
LEMMA CountCrash ==
  ASSUME CountInv, Crash  PROVE CountInv'
  <1>1. /\ pc \notin {"crashed", "restarted", "lost", "overrun"} /\ build # "nv"
        /\ pc' = "crashed" /\ todo' = <<>> /\ build' = build /\ item' = item /\ torn' = torn
        /\ media' = [w \in Words |-> {now'[w]}]
    BY DEF Crash
  <1>2. Place'  BY <1>1 DEF CountInv, Place, Points, Stopped
  <1>3. ASSUME Counts  PROVE MemOK' /\ Counting'
    <2>1. MemOK'
      <3>1. Words \subseteq DOMAIN now'
        <4>1. PICK f, g : DOMAIN g = Words /\ now' = Over(undo, Over(f, g))
          <5> DEFINE h == [x \in Words |-> CHOOSE v \in media[x] : TRUE]
          <5>1. DOMAIN h = Words  OBVIOUS
          <5>2. \E f \in Images : now' = Over(undo, Over(f, h))  BY DEF Crash
          <5> HIDE DEF h
          <5> QED  BY <5>1, <5>2
        <4> QED  BY <4>1 DEF Over
      <3> QED  BY <1>1, <3>1, OpsOfNone DEF MemOK
    <2>2. PICK i : i = item /\ i = item'  BY <1>1
    <2>3. Within(EntryCount, {i - 1, i})
      <3>1. pc \in {"create", "insert", "search"} \/
            pc \in {"grow", "alloc", "linked", "oom", "failed", "aborted", "overrun"}
        BY <1>1, <1>3 DEF CountInv, Place, Points, Counts
      <3> QED  BY <1>3, <2>2, <3>1, WithinMore DEF CountInv, Counting
    <2>4. EntryCount \in Words  BY DEF Words, Header
    <2>5. now'[EntryCount] \in {i - 1, i}  BY <2>3, <2>4, CrashWithin
    <2> QED  BY <1>1, <2>1, <2>2, <2>5 DEF Counting, Stopped
  <1> QED  BY <1>1, <1>2, <1>3 DEF CountInv, Counts

\* restart_hashtable of the word file leaves the count alone.
LEMMA CountRestart ==
  ASSUME CountInv, RestartHashtable  PROVE CountInv'
  <1>1. /\ pc = "crashed" /\ pc' \in {"restarted", "lost"} /\ todo' = todo /\ build = "word"
        /\ build' = build /\ item' = item /\ torn' = torn
    BY DEF RestartHashtable
  <1>2. PICK t, ws : /\ now' = [now EXCEPT ![Table] = t]
                     /\ media' = [media EXCEPT ![Table] = ws]
    BY DEF RestartHashtable
  <1>3. Place'  BY <1>1 DEF CountInv, Place, Points, Stopped
  <1>4. ASSUME Counts  PROVE MemOK' /\ Counting'
    <2>1. MemOK /\ now[EntryCount] \in {item - 1, item}
      BY <1>1, <1>4 DEF CountInv, Counting, Stopped
    <2>2. MemOK'  BY <1>1, <1>2, <2>1 DEF MemOK
    <2>3. now'[EntryCount] = now[EntryCount]  BY <1>2, <2>1, CountWord, FiveWords
    <2> QED  BY <1>1, <2>1, <2>2, <2>3 DEF Counting, Stopped
  <1> QED  BY <1>1, <1>3, <1>4 DEF CountInv, Counts

\* CountInv is inductive.
LEMMA CountNext ==
  ASSUME CountInv, [Next]_vars  PROVE CountInv'
  <1>1. CASE UNCHANGED vars
    <2>1. /\ UNCHANGED <<memory, todo>> /\ build' = build /\ pc' = pc /\ item' = item /\ torn' = torn
      BY <1>1 DEF vars
    <2>2. Place' /\ (Counts' <=> Counts)  BY <2>1 DEF CountInv, Place, Stopped, Counts
    <2>3. ASSUME Counts  PROVE MemOK' /\ Counting'
      <3>1. MemOK /\ Counting  BY <2>3 DEF CountInv
      <3>2. MemOK'  BY <2>1, <3>1, Unchanged
      <3>3. PICK i : i = item /\ i = item'  BY <2>1
      <3>4. PICK c : c = now[EntryCount] /\ c = now'[EntryCount]  BY <2>1 DEF memory
      <3>5. /\ EndsWell(EntryCount)' <=> EndsWell(EntryCount)
            /\ Buffered(EntryCount)' <=> Buffered(EntryCount)
            /\ Ends(EntryCount, i)' <=> Ends(EntryCount, i)
            /\ Within(EntryCount, {i - 1})' <=> Within(EntryCount, {i - 1})
            /\ Within(EntryCount, {i - 1, i})' <=> Within(EntryCount, {i - 1, i})
        BY <2>1, Unchanged
      <3> QED  BY <2>1, <3>1, <3>2, <3>3, <3>4, <3>5 DEF Counting, Stopped
    <2> QED  BY <2>2, <2>3 DEF CountInv
  <1>2. CASE Next
    BY <1>2, CountStep, CountCreate, CountInsert, CountGrow, CountLink, CountReturns, CountSearch,
       CountExit, CountCrash, CountRestart DEF Next
  <1> QED  BY <1>1, <1>2

\* After a stop the count of a transactional file is that of the insertions that
\* returned, or one more, with any number of buckets and any hash, and an expansion
\* before the stop or under way.
THEOREM CountIsCovered == Spec => []CountCovers
  <1>1. CountInv => CountCovers
    BY DEF CountInv, Place, Counting, Counts, CountCovers, Inserted, Stopped
  <1>2. Spec => []CountInv  BY CountInit, CountNext, PTL DEF Spec
  <1> QED  BY <1>1, <1>2, PTL

-----------------------------------------------------------------------------
(* Every word between two insertions, before the first expansion              *)

\* A word that no call has come to yet.
Fresh(w) == Settled(w) /\ now[w] = 0 /\ Untouched(todo, w)

IsFun(f) == f = [w \in DOMAIN f |-> f[w]]

\* Transactions and the redo log are about the words of the table.
InWords ==
  /\ DOMAIN undo \subseteq Words /\ DOMAIN buf \subseteq Words /\ IsFun(undo) /\ IsFun(buf)
  /\ \A o \in Ops(todo) : o.at \subseteq Words

\* All words but the count, of which CountInv speaks, and but h->table, which the object
\* file alone commits.
AllEndWell == \A w \in Words \ {EntryCount} : EndsWell(w) \/ (w = Table /\ build # "obj")

TableOnlyPut ==
  build # "obj" =>
    /\ Table \notin DOMAIN undo /\ Table \notin DOMAIN buf
    /\ \A o \in Ops(todo) : Table \in o.at => o.do = "put"

InFirstTable ==
  pc # "create" => Ends(Table, FirstTable) /\ Ends(TableLength, Primes[FirstTable])

\* The entries that have not been linked; the word file relies on their being zero.
FreshEntries ==
  \A e \in Items : e > item \/ (e = item /\ pc # "linked") => \A w \in Entry(e) : Fresh(w)

Quiet == build # "nv" /\ torn = {} /\ pc \in {"create", "insert", "grow", "alloc", "linked"}

Tidy ==
  /\ InWords /\ AllEndWell /\ TableOnlyPut /\ InFirstTable /\ FreshEntries
  /\ hash \in [Items -> Nat]
  /\ pc \in {"grow", "alloc", "linked"} => item \in Items

QuietInv == CountInv /\ (Quiet => Tidy)

\* A function on nothing is the empty sequence.
LEMMA EmptyIs ==
  /\ IsFun(<<>>)
  /\ \A f : IsFun(f) /\ DOMAIN f = {} => f = <<>>
  <1>1. DOMAIN <<>> = {}  BY OpsOfNone
  <1>2. <<>> = [w \in {} |-> w]  OBVIOUS
  <1>3. ASSUME NEW f, IsFun(f), DOMAIN f = {}  PROVE f = <<>>
    <2>1. [w \in {} |-> f[w]] = [w \in {} |-> w]  OBVIOUS
    <2> QED  BY <1>2, <1>3, <2>1 DEF IsFun
  <1>4. IsFun(<<>>)
    <2>1. [w \in {} |-> <<>>[w]] = [w \in {} |-> w]  OBVIOUS
    <2> QED  BY <1>1, <1>2, <2>1 DEF IsFun
  <1> QED  BY <1>3, <1>4

\* What Over and Without make is a function.
LEMMA FunsAre ==
  ASSUME NEW f, NEW g, NEW ws
  PROVE  IsFun(Over(f, g)) /\ IsFun(Without(f, ws))
  BY DEF IsFun, Over, Without

\* The words of two entries, a slot and a header are different words.
LEMMA EntriesDiffer ==
  ASSUME NEW e, NEW i, e # i
  PROVE  Entry(e) \cap Entry(i) = {}
  BY DEF Entry, Key, HashIn, NextOf

\* The words of an entry, of the header and of the first table.
LEMMA WordsOf ==
  /\ Header \subseteq Words /\ \A e \in Items : Entry(e) \subseteq Words
  /\ FirstTable \in DOMAIN Primes /\ Primes[FirstTable] \in Nat \ {0}
  /\ \A j \in 0 .. Primes[FirstTable] - 1 : Slot(FirstTable, j) \in Words
  <1>1. /\ Primes \in Seq(Nat \ {0}) /\ MinSize \in Nat
        /\ \E j \in DOMAIN Primes : Primes[j] > MinSize
    BY TransAssumption
  <1> DEFINE S == {j \in DOMAIN Primes : Primes[j] > MinSize}
  <1>2. S \subseteq Nat /\ \E j : j \in S  BY <1>1
  <1>3. \E x \in S : \A y \in S : x <= y
    <2> HIDE DEF S
    <2>1. PICK n \in S : \A m \in S : ~ (<<m, n>> \in OpToRel(<, Nat))
      BY <1>2, WFMin, NatLessThanWellFounded
    <2>2. ASSUME NEW y \in S  PROVE n <= y
      <3>1. n \in Nat /\ y \in Nat  BY <1>2
      <3>2. ~ (<<y, n>> \in {z \in Nat \X Nat : z[1] < z[2]})  BY <2>1 DEF OpToRel
      <3>3. ~ (y < n)  BY <3>1, <3>2
      <3> QED  BY <3>1, <3>3
    <2> QED  BY <2>1, <2>2
  <1>4. FirstTable \in S  
    <2>1. FirstTable = CHOOSE x \in S : \A y \in S : x <= y  BY DEF FirstTable, Min
    <2> HIDE DEF S
    <2> QED  BY <1>3, <2>1
  <1>5. FirstTable \in DOMAIN Primes /\ Primes[FirstTable] \in Nat \ {0}  BY <1>1, <1>4
  <1>6. \A j \in 0 .. Primes[FirstTable] - 1 : Slot(FirstTable, j) \in Words
    <2>1. PICK t : t = FirstTable  OBVIOUS
    <2>2. \A j \in 0 .. Primes[t] - 1 : Slot(t, j) \in Slots  BY <1>5, <2>1 DEF Slots
    <2> QED  BY <2>1, <2>2 DEF Words
  <1>7. Header \subseteq Words /\ \A e \in Items : Entry(e) \subseteq Words  BY DEF Words
  <1> QED  BY <1>5, <1>6, <1>7

\* A call that has nothing to do with a word.
LEMMA CallSpares ==
  ASSUME NEW w, todo = <<>>, UNCHANGED memory, Untouched(todo', w)
  PROVE  /\ EndsWell(w) => EndsWell(w)'
         /\ \A v : Ends(w, v) => Ends(w, v)'
         /\ Fresh(w) => Fresh(w)'
  <1>1. now' = now /\ media' = media /\ undo' = undo /\ buf' = buf  BY DEF memory
  <1>2. EndsWell(w) => EndsWell(w)'  BY CallOver, NewCall
  <1>3. ASSUME NEW v, Ends(w, v)  PROVE Ends(w, v)'
    <2>1. LOAD(w) = v  BY <1>3, EndsNow
    <2> QED  BY <1>1, <1>3, <2>1 DEF Ends, LOAD, Untouched
  <1>4. Fresh(w) => Fresh(w)'  BY <1>1 DEF Fresh, Settled
  <1> QED  BY <1>2, <1>3, <1>4

LEMMA StepFresh ==
  ASSUME NEW w, w \in DOMAIN now, w \in DOMAIN media, IsSeq(todo), Step, Fresh(w)
  PROVE  Fresh(w)'
  <1>1. todo # <<>> /\ todo' = Tail(todo)  BY DEF Step
  <1>2. PICK op : op = Head(todo)  OBVIOUS
  <1>3. Effect(op, w)  BY <1>2, StepEffect
  <1>4. Ops(todo') \subseteq Ops(todo) /\ op \in Ops(todo)  BY <1>1, <1>2, Behead
  <1>5. w \notin op.at /\ Untouched(todo', w)  BY <1>4 DEF Fresh, Untouched
  <1>6. Settled(w)' /\ now'[w] = 0
    BY <1>3, <1>5 DEF Effect, Fresh, Settled, SameAt, KeptIn, LOAD
  <1> QED  BY <1>5, <1>6 DEF Fresh

LEMMA StepInWords ==
  ASSUME InWords, IsSeq(todo), Step
  PROVE  InWords'
  <1>1. todo # <<>> /\ todo' = Tail(todo)  BY DEF Step
  <1>2. PICK op : op = Head(todo)  OBVIOUS
  <1>3. Ops(todo') \subseteq Ops(todo) /\ op \in Ops(todo)  BY <1>1, <1>2, Behead
  <1>4. \A o \in Ops(todo') : o.at \subseteq Words  BY <1>3 DEF InWords
  <1>5. op.at \subseteq Words  BY <1>3 DEF InWords
  <1>6. \/ BeginTrans(op) \/ PutWord(op) \/ CommitTrans(op) \/ StoreWord(op) \/ ApplyRedo(op)
    BY <1>2 DEF Step
  <1>7. DOMAIN undo' \subseteq Words /\ IsFun(undo')
    <2>1. CASE BeginTrans(op)
      <3>1. PICK g : undo' = Over(undo, g) /\ DOMAIN g = op.at
        <4> DEFINE h == [w \in op.at |-> now[w]]
        <4>1. undo' = Over(undo, h) /\ DOMAIN h = op.at  BY <2>1 DEF BeginTrans
        <4> HIDE DEF h
        <4> QED  BY <4>1
      <3>2. DOMAIN undo' = DOMAIN undo \cup op.at  BY <3>1 DEF Over
      <3> QED  BY <1>5, <3>1, <3>2, FunsAre DEF InWords
    <2>2. CASE CommitTrans(op)
      <3>1. undo' = Without(undo, op.at)  BY <2>2 DEF CommitTrans
      <3>2. DOMAIN undo' \subseteq DOMAIN undo  BY <3>1 DEF Without
      <3> QED  BY <3>1, <3>2, FunsAre DEF InWords
    <2>3. CASE undo' = undo  BY <2>3 DEF InWords
    <2> QED  BY <1>6, <2>1, <2>2, <2>3 DEF PutWord, StoreWord, ApplyRedo
  <1>8. DOMAIN buf' \subseteq Words /\ IsFun(buf')
    <2>1. CASE StoreWord(op)
      <3>1. PICK g : buf' = Over(g, buf) /\ DOMAIN g = op.at
        <4> DEFINE h == [w \in op.at |-> op.val]
        <4>1. buf' = Over(h, buf) /\ DOMAIN h = op.at  BY <2>1 DEF StoreWord
        <4> HIDE DEF h
        <4> QED  BY <4>1
      <3>2. DOMAIN buf' = DOMAIN buf \cup op.at  BY <3>1 DEF Over
      <3> QED  BY <1>5, <3>1, <3>2, FunsAre DEF InWords
    <2>2. CASE ApplyRedo(op)
      <3>1. buf' = <<>>  BY <2>2 DEF ApplyRedo
      <3> QED  BY <3>1, OpsOfNone, EmptyIs
    <2>3. CASE buf' = buf  BY <2>3 DEF InWords
    <2> QED  BY <1>6, <2>1, <2>2, <2>3 DEF PutWord, BeginTrans, CommitTrans
  <1> QED  BY <1>4, <1>7, <1>8 DEF InWords

LEMMA QuietInit ==
  ASSUME Init  PROVE QuietInv
  <1>1. CountInv  BY CountInit
  <1>2. DOMAIN <<>> = {} /\ Ops(<<>>) = {}  BY OpsOfNone
  <1>3. now = [w \in Words |-> 0] /\ media = [w \in Words |-> {0}] /\ undo = <<>> /\ buf = <<>>
        /\ todo = <<>> /\ pc = "create" /\ hash \in Hashes
    BY DEF Init
  <1>4. InWords  BY <1>2, <1>3, EmptyIs DEF InWords
  <1>5. ASSUME NEW w \in Words  PROVE EndsWell(w) /\ Fresh(w)
    <2>1. now[w] = 0 /\ media[w] = {0}  BY <1>3
    <2>2. Settled(w)  BY <1>2, <1>3, <2>1 DEF Settled
    <2> QED  BY <1>2, <1>3, <2>1, <2>2 DEF EndsWell, Fresh, Idles, Untouched
  <1>6. TableOnlyPut  BY <1>2, <1>3 DEF TableOnlyPut
  <1>7. FreshEntries  BY <1>5, WordsOf DEF FreshEntries
  <1>8. hash \in [Items -> Nat]  BY <1>3, TransAssumption
  <1> QED  BY <1>1, <1>3, <1>4, <1>5, <1>6, <1>7, <1>8 DEF QuietInv, Tidy, AllEndWell, InFirstTable

LEMMA QuietStep ==
  ASSUME QuietInv, Step, Quiet  PROVE Tidy'
  <1>1. /\ pc' = pc /\ build' = build /\ item' = item /\ hash' = hash
        /\ todo # <<>> /\ todo' = Tail(todo)
    BY DEF Step
  <1>2. Tidy /\ MemOK  BY DEF QuietInv, CountInv, Counts, Quiet
  <1>3. ASSUME NEW w \in Words  PROVE w \in DOMAIN now /\ w \in DOMAIN media /\ IsSeq(todo)
    BY <1>2 DEF MemOK
  <1>4. InWords'  BY <1>2, StepInWords DEF Tidy, MemOK
  <1>5. AllEndWell'
    <2>1. \A w \in Words : EndsWell(w) => EndsWell(w)'  BY <1>3, StepEndsWell
    <2> QED  BY <1>1, <1>2, <2>1 DEF Tidy, AllEndWell
  <1>6. Table \in Words /\ TableLength \in Words  BY WordsOf DEF Header
  <1>7. TableOnlyPut'
    <2>1. SUFFICES ASSUME build # "obj"
                   PROVE  /\ Table \notin DOMAIN undo' /\ Table \notin DOMAIN buf'
                          /\ \A o \in Ops(todo') : Table \in o.at => o.do = "put"
      BY <1>1 DEF TableOnlyPut
    <2>2. /\ Table \notin DOMAIN undo /\ Table \notin DOMAIN buf
          /\ \A o \in Ops(todo) : Table \in o.at => o.do = "put"
      BY <1>2, <2>1 DEF Tidy, TableOnlyPut
    <2>3. PICK op : op = Head(todo)  OBVIOUS
    <2>4. Effect(op, Table)  BY <1>3, <1>6, <2>3, StepEffect
    <2>5. Ops(todo') \subseteq Ops(todo) /\ op \in Ops(todo)
      BY <1>1, <1>3, <1>6, <2>3, Behead
    <2>6. Table \in op.at => op.do = "put"  BY <2>2, <2>5
    <2> QED  BY <2>2, <2>4, <2>5, <2>6 DEF Effect, SameAt, KeptIn
  <1>8. InFirstTable'
    <2>1. \A v : Ends(Table, v) => Ends(Table, v)'  BY <1>3, <1>6, StepEnds
    <2>2. \A v : Ends(TableLength, v) => Ends(TableLength, v)'  BY <1>3, <1>6, StepEnds
    <2> QED  BY <1>1, <1>2, <2>1, <2>2 DEF Tidy, InFirstTable
  <1>9. FreshEntries'
    <2>1. \A w \in Words : Fresh(w) => Fresh(w)'  BY <1>3, StepFresh
    <2> QED  BY <1>1, <1>2, <2>1, WordsOf DEF Tidy, FreshEntries
  <1> QED  BY <1>1, <1>2, <1>4, <1>5, <1>7, <1>8, <1>9 DEF Tidy

\* A call of which every operation is on words of W: what has to be shown of it.
LEMMA QuietCall ==
  ASSUME Tidy, todo = <<>>, UNCHANGED <<memory, hash, build>>, NEW W, W \subseteq Words,
         \A w : w \notin W => Untouched(todo', w),
         \A w \in W \ {EntryCount} : EndsWell(w)' \/ (w = Table /\ build # "obj"),
         build # "obj" => \A o \in Ops(todo') : Table \in o.at => o.do = "put",
         pc' \in {"grow", "alloc", "linked"} => item' \in Items,
         InFirstTable',
         \A e \in Items : e > item' \/ (e = item' /\ pc' # "linked") =>
           Entry(e) \cap W = {} /\ (e > item \/ (e = item /\ pc # "linked"))
  PROVE  Tidy'
  <1>1. now' = now /\ media' = media /\ undo' = undo /\ buf' = buf /\ build' = build /\ hash' = hash
    BY DEF memory
  <1>2. InWords'
    <2>1. \A o \in Ops(todo') : o.at \subseteq W  BY DEF Untouched
    <2> QED  BY <1>1, <2>1 DEF Tidy, InWords
  <1>3. AllEndWell'
    <2>1. \A w : w \notin W => (EndsWell(w) => EndsWell(w)')  BY CallSpares
    <2> QED  BY <1>1, <2>1 DEF Tidy, AllEndWell
  <1>4. TableOnlyPut'  BY <1>1 DEF Tidy, TableOnlyPut
  <1>5. FreshEntries'
    <2>1. \A w : w \notin W => (Fresh(w) => Fresh(w)')  BY CallSpares
    <2> QED  BY <2>1 DEF Tidy, FreshEntries
  <1> QED  BY <1>1, <1>2, <1>3, <1>4, <1>5 DEF Tidy

\* Every word of the new header is committed or applied, but for h->table.
LEMMA QuietCreate ==
  ASSUME QuietInv, CreateHashtable, Quiet  PROVE Tidy'
  <1>1. /\ pc = "create" /\ pc' = "insert" /\ todo = <<>> /\ todo' = Create(FirstTable)
        /\ UNCHANGED <<memory, hash, build, item>>
    BY DEF CreateHashtable, At, Same
  <1>2. PICK t : t = FirstTable  OBVIOUS
  <1>3. /\ build = "obj" => todo' = Put(Table, t) \o CreateObj(t)
        /\ build = "word" => todo' = Put(Table, t) \o CreateWord(t)
        /\ build = "redo" => todo' = Put(Table, t) \o CreateRedo(t)
    BY <1>1, <1>2 DEF Create
  <1>4. Tidy /\ build \in {"obj", "word", "redo"}  BY DEF QuietInv, CountInv, Place, Quiet
  <1>5. /\ \A w \in Header \ {Table} : Closes(todo', w) \/ Applies(todo', w, FALSE)
        /\ build = "obj" => Closes(todo', Table)
        /\ build # "obj" => Idles(todo', Table, t)
        /\ \A w : w \notin Header => Untouched(todo', w)
        /\ Fills(todo', t, {Table, TableLength, EntryCount})
    <2> DEFINE o == Put(Table, t) \o CreateObj(t)
               x == Put(Table, t) \o CreateWord(t)
               r == Put(Table, t) \o CreateRedo(t)
    <2>0. Table \in Header  BY DEF Header
    <2>1. CASE build = "obj"
      <3>1. /\ \A w \in Header : Closes(o, w)
            /\ \A w : w \notin Header => Untouched(o, w)
            /\ Fills(o, t, {Table, TableLength, EntryCount})
        BY Zenon, CreateObjDoes DEF Inside
      <3>2. todo' = o  BY <1>3, <2>1
      <3> HIDE DEF o
      <3> QED  BY <2>0, <2>1, <3>1, <3>2
    <2>2. CASE build = "word"
      <3>1. /\ \A w \in Header \ {Table} : Closes(x, w)
            /\ \A w : w \notin Header => Untouched(x, w)
            /\ Idles(x, Table, t)
            /\ Fills(x, t, {Table, TableLength, EntryCount})
        BY Zenon, CreateWordDoes DEF Inside
      <3>2. todo' = x  BY <1>3, <2>2
      <3> HIDE DEF x
      <3> QED  BY <2>2, <3>1, <3>2
    <2>3. CASE build = "redo"
      <3>1. /\ \A w \in Header \ {Table} : Applies(r, w, FALSE)
            /\ \A w : w \notin Header => Untouched(r, w)
            /\ Idles(r, Table, t)
            /\ Fills(r, t, {Table, TableLength, EntryCount})
        BY Zenon, CreateRedoDoes
      <3>2. todo' = r  BY <1>3, <2>3
      <3> HIDE DEF r
      <3> QED  BY Zenon, <2>3, <3>1, <3>2
    <2> QED  BY <1>4, <2>1, <2>2, <2>3
  <1>6. \A w \in Header \ {EntryCount} : EndsWell(w)' \/ (w = Table /\ build # "obj")
    <2>1. SUFFICES ASSUME NEW w \in Header \ {EntryCount}, w # Table \/ build = "obj"
                   PROVE  EndsWell(w)'
      OBVIOUS
    <2>2. EndsWell(w)  BY <1>4, <2>1, WordsOf DEF Tidy, AllEndWell
    <2>3. Settled(w)  BY <1>1, <2>2, CallOver
    <2>4. Closes(todo', w) \/ Applies(todo', w, FALSE)  BY <1>5, <2>1
    <2> QED  BY <1>1, <2>3, <2>4, NewCall DEF Done
  <1>7. build # "obj" => \A o \in Ops(todo') : Table \in o.at => o.do = "put"
    BY <1>5 DEF Idles
  <1>8. Table \notin DOMAIN buf /\ TableLength \notin DOMAIN buf
    <2>1. ASSUME NEW w \in {Table, TableLength}, w # Table \/ build = "obj"
          PROVE  w \notin DOMAIN buf
      <3>1. w \in Words /\ w # EntryCount  BY WordsOf, FiveWords DEF Header
      <3>2. EndsWell(w)  BY <1>4, <2>1, <3>1 DEF Tidy, AllEndWell
      <3> QED  BY <1>1, <3>2, CallOver DEF Settled
    <2> QED  BY <1>4, <2>1, FiveWords DEF Tidy, TableOnlyPut
  <1>9. Ends(Table, t)' /\ Ends(TableLength, Primes[t])'
    BY <1>1, <1>5, <1>8 DEF memory, Fills, Ends
  <1>10. InFirstTable'  BY <1>2, <1>9 DEF InFirstTable
  <1>11. \A e \in Items : Entry(e) \cap Header = {}  BY WordsDiffer
  <1>12. Header \subseteq Words  BY WordsOf
  <1> QED  BY <1>1, <1>4, <1>5, <1>6, <1>7, <1>10, <1>11, <1>12, QuietCall

\* The count goes up, and nothing else.
LEMMA QuietInsert ==
  ASSUME QuietInv, InsertSome, Quiet, Quiet'  PROVE Tidy'
  <1>1. /\ pc = "insert" /\ pc' = "grow" /\ todo = <<>> /\ todo' = CountUp
        /\ item <= ITEM_COUNT /\ UNCHANGED <<memory, hash, build, item>>
    BY DEF InsertSome, At, Same, Quiet
  <1>2. Tidy /\ build \in {"obj", "word", "redo"} /\ item \in Nat \ {0}
    BY DEF QuietInv, CountInv, Place, Quiet
  <1>3. item' \in Items  BY <1>1, <1>2, TransAssumption DEF Items
  <1>4. \A w : w \notin {EntryCount} => Untouched(todo', w)
    <2>1. PICK n : n = LOAD(EntryCount) + 1  OBVIOUS
    <2>2. CASE build \in {"obj", "word"}
      <3>1. todo' = Logged(EntryCount, n)  BY <1>1, <2>1, <2>2 DEF CountUp
      <3> QED  BY <3>1, LoggedCloses
    <2>3. CASE build = "redo"
      <3>1. todo' = STORE(EntryCount, n)  BY <1>1, <2>1, <2>3 DEF CountUp
      <3> QED  BY <3>1, OneOperation
    <2> QED  BY <1>2, <2>2, <2>3
  <1>5. {EntryCount} \subseteq Words /\ Table # EntryCount /\ TableLength # EntryCount
    BY WordsOf, FiveWords DEF Header
  <1>6. \A o \in Ops(todo') : Table \notin o.at  BY <1>4, <1>5 DEF Untouched
  <1>7. InFirstTable'
    <2>1. Untouched(todo', Table) /\ Untouched(todo', TableLength)  BY <1>4, <1>5
    <2>2. PICK t : t = FirstTable  OBVIOUS
    <2>3. Ends(Table, t) /\ Ends(TableLength, Primes[t])
      BY <1>1, <1>2, <2>2 DEF Tidy, InFirstTable
    <2>4. Ends(Table, t)' /\ Ends(TableLength, Primes[t])'  BY <1>1, <2>1, <2>3, CallSpares
    <2> QED  BY <2>2, <2>4 DEF InFirstTable
  <1>8. \A e \in Items : Entry(e) \cap {EntryCount} = {}  BY WordsDiffer DEF Header
  <1> QED  BY <1>1, <1>2, <1>3, <1>4, <1>5, <1>6, <1>7, <1>8, QuietCall

\* Memory, and the call, as they were.
LEMMA QuietSame ==
  ASSUME QuietInv, Quiet, todo = <<>>, UNCHANGED <<memory, todo, hash, build>>,
         pc' # "create", pc # "create",
         pc' \in {"grow", "alloc", "linked"} => item' \in Items,
         \A e \in Items : e > item' \/ (e = item' /\ pc' # "linked") =>
           (e > item \/ (e = item /\ pc # "linked"))
  PROVE  Tidy'
  <1>1. Tidy  BY DEF QuietInv
  <1>2. Ops(todo') = {}  BY OpsOfNone
  <1>3. \A w : w \notin {} => Untouched(todo', w)  BY <1>2 DEF Untouched
  <1>4. InFirstTable'
    <2>1. PICK t : t = FirstTable  OBVIOUS
    <2>2. Ends(Table, t) /\ Ends(TableLength, Primes[t])
      BY <1>1, <2>1 DEF Tidy, InFirstTable
    <2>3. Ends(Table, t)' /\ Ends(TableLength, Primes[t])'  BY <1>3, <2>2, CallSpares
    <2> QED  BY <2>1, <2>3 DEF InFirstTable
  <1>5. \A o \in Ops(todo') : Table \in o.at => o.do = "put"  BY <1>2
  <1> QED  BY <1>1, <1>3, <1>4, <1>5, QuietCall

\* The words of the entry and its slot are committed or applied; in the word file those
\* of the entry are committed only because they were zero.
LEMMA QuietLink ==
  ASSUME QuietInv, LinkEntry, Quiet, Quiet'  PROVE Tidy'
  <1>1. /\ pc = "alloc" /\ pc' = "linked" /\ todo = <<>> /\ todo' = Link(item, SlotFor(item))
        /\ UNCHANGED <<memory, hash, build, item>>
    BY DEF LinkEntry, At, Same, Quiet
  <1>2. /\ Tidy /\ build \in {"obj", "word", "redo"} /\ item \in Items
        /\ hash \in [Items -> Nat]
    BY <1>1 DEF QuietInv, CountInv, Place, Quiet, Tidy
  <1>3. PICK t : t = FirstTable  OBVIOUS
  <1>4. now[Table] = t /\ now[TableLength] = Primes[t]
    <2>1. Ends(Table, t) /\ Ends(TableLength, Primes[t])
      BY <1>1, <1>2, <1>3 DEF Tidy, InFirstTable
    <2>2. LOAD(Table) = t /\ LOAD(TableLength) = Primes[t]  BY <1>1, <2>1, EndsNow
    <2>3. ASSUME NEW w \in {Table, TableLength}, w # Table \/ build = "obj"
          PROVE  w \notin DOMAIN buf
      <3>1. w \in Words /\ w # EntryCount  BY WordsOf, FiveWords DEF Header
      <3>2. EndsWell(w)  BY <1>2, <2>3, <3>1 DEF Tidy, AllEndWell
      <3> QED  BY <1>1, <3>2, CallOver DEF Settled
    <2>4. Table \notin DOMAIN buf /\ TableLength \notin DOMAIN buf
      BY <1>2, <2>3, FiveWords DEF Tidy, TableOnlyPut
    <2> QED  BY <2>2, <2>4 DEF LOAD
  <1>5. PICK i : i = item  OBVIOUS
  <1>6. PICK j : j = hash[i] % Primes[t]  OBVIOUS
  <1> DEFINE s == Slot(t, j)
             W == Entry(i) \cup {s}
  <1>7. SlotFor(item) = s  BY <1>4, <1>5, <1>6 DEF SlotFor
  <1>8. s \in Words
    <2>1. Primes[t] \in Nat \ {0} /\ hash[i] \in Nat  BY <1>2, <1>3, <1>5, WordsOf
    <2>2. j \in 0 .. Primes[t] - 1  BY <1>6, <2>1
    <2> QED  BY <1>3, <2>2, WordsOf
  <1>9. W \subseteq Words /\ W \cap Header = {}
    BY <1>2, <1>5, <1>8, WordsOf, WordsDiffer
  <1>10. /\ \A e \in Items : e > i => Entry(e) \cap W = {}
         /\ i # 0
    <2>1. \A e : Slot(t, j) \notin Entry(e)  BY WordsDiffer
    <2>2. i \in Nat /\ i # 0  BY <1>2, <1>5, TransAssumption DEF Items
    <2>3. \A e \in Items : e > i => e # i  BY <2>2, TransAssumption DEF Items
    <2>4. \A e \in Items : e > i => Entry(e) \cap Entry(i) = {}  BY <2>3, EntriesDiffer
    <2> QED  BY <2>1, <2>2, <2>4
  <1>11. \A w \in W : Settled(w)
    <2>1. TAKE w \in W
    <2>2. w \in Words /\ w \notin Header  BY <1>9
    <2>3. w # EntryCount /\ w # Table  BY <2>2 DEF Header
    <2>4. EndsWell(w)  BY <1>2, <2>2, <2>3 DEF Tidy, AllEndWell
    <2> QED  BY <1>1, <2>4, CallOver
  <1>12. \A w \in Entry(i) : now[w] = 0
    BY <1>1, <1>2, <1>5 DEF Tidy, FreshEntries, Fresh
  <1>13. /\ \A w : w \notin W => Untouched(todo', w)
         /\ \A w \in W : Done(todo', w) \/ Applies(todo', w, FALSE)
    <2>1. CASE build = "obj"
      <3> DEFINE o == LinkObj(i, s)
      <3>1. (\A w \in W : Closes(o, w)) /\ \A w : w \notin W => Untouched(o, w)
        BY Zenon, LinkObjDoes
      <3>2. todo' = o  BY <1>1, <1>5, <1>7, <2>1 DEF Link
      <3> HIDE DEF o, W
      <3> QED  BY <3>1, <3>2 DEF Done
    <2>2. CASE build = "word"
      <3> DEFINE o == LinkWord(i, s)
      <3>1. (\A w \in W : Done(o, w)) /\ \A w : w \notin W => Untouched(o, w)
        BY Zenon, <1>10, <1>12, LinkWordDoes
      <3>2. todo' = o  BY <1>1, <1>5, <1>7, <2>2 DEF Link
      <3> HIDE DEF o, W
      <3> QED  BY Zenon, <3>1, <3>2
    <2>3. CASE build = "redo"
      <3> DEFINE o == LinkRedo(i, s)
      <3>1. (\A w \in W : Applies(o, w, FALSE)) /\ \A w : w \notin W => Untouched(o, w)
        BY Zenon, LinkRedoDoes
      <3>2. todo' = o  BY <1>1, <1>5, <1>7, <2>3 DEF Link
      <3> HIDE DEF o, W
      <3> QED  BY Zenon, <3>1, <3>2
    <2> QED  BY <1>2, <2>1, <2>2, <2>3
  <1> HIDE DEF W
  <1>14. \A w \in W : EndsWell(w)'  BY <1>1, <1>11, <1>13, NewCall
  <1>15. Untouched(todo', Table) /\ Untouched(todo', TableLength)
    BY <1>9, <1>13 DEF Header
  <1>16. InFirstTable'
    <2>1. Ends(Table, t) /\ Ends(TableLength, Primes[t])
      BY <1>1, <1>2, <1>3 DEF Tidy, InFirstTable
    <2>2. Ends(Table, t)' /\ Ends(TableLength, Primes[t])'  BY <1>1, <1>15, <2>1, CallSpares
    <2> QED  BY <1>3, <2>2 DEF InFirstTable
  <1>17. \A o \in Ops(todo') : Table \in o.at => o.do = "put"  BY <1>15 DEF Untouched
  <1>18. \A e \in Items : e > item' \/ (e = item' /\ pc' # "linked") =>
           Entry(e) \cap W = {} /\ (e > item \/ (e = item /\ pc # "linked"))
    BY <1>1, <1>5, <1>10
  <1> QED  BY <1>1, <1>2, <1>9, <1>13, <1>14, <1>16, <1>17, <1>18, QuietCall

LEMMA QuietNext ==
  ASSUME QuietInv, [Next]_vars  PROVE QuietInv'
  <1>1. CountInv /\ CountInv'  BY CountNext DEF QuietInv
  <1>2. SUFFICES ASSUME Quiet'  PROVE Tidy'  BY <1>1 DEF QuietInv
  <1>3. build' # "nv" /\ torn' = {} /\ pc' \in {"create", "insert", "grow", "alloc", "linked"}
    BY <1>2 DEF Quiet
  <1>4. CASE UNCHANGED vars
    <2>1. /\ UNCHANGED <<memory, todo, hash>> /\ build' = build /\ pc' = pc /\ item' = item
          /\ torn' = torn
      BY <1>4 DEF vars
    <2>2. Tidy  BY <1>3, <2>1 DEF QuietInv, Quiet
    <2>3. now' = now /\ media' = media /\ undo' = undo /\ buf' = buf  BY <2>1 DEF memory
    <2>4. /\ InWords' <=> InWords
          /\ AllEndWell' <=> AllEndWell
          /\ TableOnlyPut' <=> TableOnlyPut
          /\ InFirstTable' <=> InFirstTable
          /\ FreshEntries' <=> FreshEntries
      <3>1. InWords' <=> InWords  BY <2>1, <2>3 DEF InWords
      <3>2. AllEndWell' <=> AllEndWell
        BY <2>1, <2>3 DEF AllEndWell, EndsWell, Settled
      <3>3. TableOnlyPut' <=> TableOnlyPut  BY <2>1, <2>3 DEF TableOnlyPut
      <3>4. InFirstTable' <=> InFirstTable  BY <2>1, <2>3 DEF InFirstTable, Ends, LOAD
      <3>5. FreshEntries' <=> FreshEntries
        BY <2>1, <2>3 DEF FreshEntries, Fresh, Settled
      <3> QED  BY <3>1, <3>2, <3>3, <3>4, <3>5
    <2> QED  BY <2>1, <2>2, <2>4 DEF Tidy
  <1>5. CASE Step
    <2>1. Quiet  BY <1>3, <1>5 DEF Step, Quiet
    <2> QED  BY <1>5, <2>1, QuietStep
  <1>6. CASE CreateHashtable
    <2>1. Quiet  BY <1>3, <1>6 DEF CreateHashtable, At, Same, Quiet
    <2> QED  BY <1>6, <2>1, QuietCreate
  <1>7. CASE InsertSome
    <2>1. Quiet  BY <1>3, <1>7 DEF InsertSome, At, Same, Quiet
    <2> QED  BY <1>2, <1>7, <2>1, QuietInsert
  <1>8. CASE GrowTable
    <2>1. ~ (torn' = torn \cup {"grown"})  BY <1>3
    <2>2. /\ pc = "grow" /\ pc' = "alloc" /\ UNCHANGED <<memory, torn>> /\ todo = <<>>
          /\ UNCHANGED <<build, hash, todo, item>>
      BY <1>8, <2>1 DEF GrowTable, At, PlanB
    <2>3. Quiet  BY <1>3, <2>2 DEF Quiet
    <2>4. item' \in Items  BY <2>2, <2>3 DEF QuietInv, Tidy
    <2> QED  BY <2>2, <2>3, <2>4, QuietSame
  <1>9. CASE LinkEntry
    <2>1. Quiet
      <3>1. pc = "alloc" /\ build' = build /\ torn \subseteq torn'
        BY <1>9 DEF LinkEntry, At, Same
      <3> QED  BY <1>3, <3>1 DEF Quiet
    <2> QED  BY <1>2, <1>9, <2>1, QuietLink
  <1>10. CASE InsertReturns
    <2>1. /\ pc = "linked" /\ pc' = "insert" /\ todo = <<>> /\ item' = item + 1
          /\ UNCHANGED <<memory, todo, hash, build, torn>>
      BY <1>10 DEF InsertReturns, At, Same
    <2>2. Quiet  BY <1>3, <2>1 DEF Quiet
    <2>3. item \in Nat  BY <1>1 DEF CountInv, Place
    <2>4. \A e \in Items : e > item' \/ e = item' => e > item
      BY <2>1, <2>3, TransAssumption DEF Items
    <2> QED  BY <2>1, <2>2, <2>4, QuietSame
  <1>11. CASE SearchSome \/ RemoveSome \/ Exit \/ Crash \/ RestartHashtable
    BY <1>3, <1>11 DEF SearchSome, RemoveSome, Exit, Crash, RestartHashtable, At
  <1> QED
    BY <1>4, <1>5, <1>6, <1>7, <1>8, <1>9, <1>10, <1>11 DEF Next

\* Between insertions, until the first expansion, a transactional file has nothing open
\* or buffered, and the memory holds every word as the program reads it, but for h->table
\* in the files that do not commit it.
THEOREM QuietIsDurable == Spec => []QuietDurable
  <1>1. ASSUME QuietInv  PROVE QuietDurable
    <2>1. SUFFICES ASSUME pc = "insert", todo = <<>>, torn = {}, build # "nv"
                   PROVE  /\ undo = <<>> /\ buf = <<>>
                          /\ \A w \in Words : media[w] = {now[w]} \/ (w = Table /\ build # "obj")
      BY DEF QuietDurable, At
    <2>2. Tidy /\ EndsWell(EntryCount)
      BY <1>1, <2>1 DEF QuietInv, Quiet, CountInv, Counts, Counting
    <2>3. \A w \in Words : Settled(w) \/ (w = Table /\ build # "obj")
      BY <2>1, <2>2, CallOver DEF Tidy, AllEndWell
    <2>4. \A w \in Words : w \notin DOMAIN undo /\ w \notin DOMAIN buf
      BY <2>2, <2>3 DEF Settled, Tidy, TableOnlyPut
    <2>5. undo = <<>> /\ buf = <<>>
      BY <2>2, <2>4, EmptyIs DEF Tidy, InWords
    <2> QED  BY <2>3, <2>5 DEF Settled
  <1>2. Spec => []QuietInv  BY QuietInit, QuietNext, PTL DEF Spec
  <1> QED  BY <1>1, <1>2, PTL

-----------------------------------------------------------------------------
(* The chains of the first table                                              *)

\* A chain is empty at first, and an insertion puts its item in front of its chain.
LEMMA ChainGrows ==
  ASSUME NEW h \in [Items -> Nat], NEW j
  PROVE  /\ ChainAfter(h, 0, j) = <<>>
         /\ \A n \in Items :
              ChainAfter(h, n, j) = IF h[n] % Primes[FirstTable] = j
                                      THEN <<n>> \o ChainAfter(h, n - 1, j)
                                      ELSE ChainAfter(h, n - 1, j)
  <1> DEFINE more(k, c) == IF h[k] % Primes[FirstTable] = j THEN <<k>> \o c ELSE c
             P(g) == g = [k \in 0 .. ITEM_COUNT |-> IF k = 0 THEN <<>> ELSE more(k, g[k - 1])]
             W == Seq(Nat)
             step == [k \in Nat |-> [c \in W |-> more(k, c)]]
             u == CHOOSE g : P(g)
  <1>1. ITEM_COUNT \in Nat /\ Items = 1 .. ITEM_COUNT  BY TransAssumption DEF Items
  <1>2. <<>> \in W  OBVIOUS
  <1>3. ASSUME NEW k \in Nat, NEW c \in W  PROVE more(k, c) \in W
    <2>1. <<k>> \in Seq(Nat)  OBVIOUS
    <2> QED  BY <2>1, ConcatProperties
  <1>4. step \in [Nat -> [W -> W]]
    <2> HIDE DEF W, more
    <2> QED  BY <1>3
  <1>5. \E g : P(g)
    <2>1. PICK g \in [0 .. ITEM_COUNT -> W] : Stepped(g, <<>>, step, ITEM_COUNT)
      <3> HIDE DEF W, step
      <3> QED  BY <1>1, <1>2, <1>4, Recursion
    <2>2. \A k \in 1 .. ITEM_COUNT : g[k] = more(k, g[k - 1])
      <3>1. TAKE k \in 1 .. ITEM_COUNT
      <3>2. k \in Nat /\ k - 1 \in 0 .. ITEM_COUNT  BY <1>1
      <3>3. g[k - 1] \in W  BY <2>1, <3>2
      <3>4. step[k][g[k - 1]] = more(k, g[k - 1])
        <4> HIDE DEF W, more
        <4> QED  BY <3>2, <3>3
      <3> HIDE DEF W, step, more
      <3> QED  BY <2>1, <3>4 DEF Stepped
    <2>3. g[0] = <<>>  BY <2>1 DEF Stepped
    <2>4. \A k \in 0 .. ITEM_COUNT : k = 0 \/ k \in 1 .. ITEM_COUNT  BY <1>1
    <2>5. P(g)
      <3> HIDE DEF W, step, more
      <3> QED  BY <2>1, <2>2, <2>3, <2>4
    <2> HIDE DEF P
    <2> QED  BY <2>5
  <1>6. P(u)
    <2> HIDE DEF P
    <2> QED  BY <1>5
  <1>7. \A n : ChainAfter(h, n, j) = u[n]  BY DEF ChainAfter
  <1> HIDE DEF u
  <1>8. u[0] = <<>> /\ \A k \in 1 .. ITEM_COUNT : u[k] = more(k, u[k - 1])
    <2>1. 0 \in 0 .. ITEM_COUNT /\ \A k \in 1 .. ITEM_COUNT : k \in 0 .. ITEM_COUNT /\ k # 0
      BY <1>1
    <2> HIDE DEF more
    <2> QED  BY <1>6, <2>1
  <1> QED  BY <1>1, <1>7, <1>8

\* What a chain is: items up to n, those of the slot, and behind each item what was in
\* front before it came.
IsChain(h, n, j, c) ==
  /\ c \in Seq(1 .. n) /\ Len(c) <= n
  /\ \A i \in 1 .. Len(c) :
       /\ h[c[i]] % Primes[FirstTable] = j
       /\ HeadOf(ChainAfter(h, c[i] - 1, j)) = IF i < Len(c) THEN c[i + 1] ELSE 0
  /\ \A e \in 1 .. n : h[e] % Primes[FirstTable] = j => \E i \in 1 .. Len(c) : c[i] = e

LEMMA Chained ==
  ASSUME NEW h \in [Items -> Nat], NEW j, NEW n \in 0 .. ITEM_COUNT
  PROVE  IsChain(h, n, j, ChainAfter(h, n, j))
  <1>1. ITEM_COUNT \in Nat /\ Items = 1 .. ITEM_COUNT  BY TransAssumption DEF Items
  <1> DEFINE S == {k \in 0 .. ITEM_COUNT : IsChain(h, k, j, ChainAfter(h, k, j))}
  <1>2. 0 \in S
    <2>1. PICK c : c = ChainAfter(h, 0, j)  OBVIOUS
    <2>2. c = <<>>  BY <2>1, ChainGrows
    <2>3. c \in Seq(1 .. 0) /\ Len(c) = 0  BY <2>2
    <2>4. IsChain(h, 0, j, c)  BY <2>3 DEF IsChain
    <2> QED  BY <1>1, <2>1, <2>4
  <1>3. ASSUME NEW k \in 0 .. ITEM_COUNT, k < ITEM_COUNT, k \in S  PROVE k + 1 \in S
    <2>1. PICK e : e = k + 1  OBVIOUS
    <2>2. e \in Items /\ k = e - 1 /\ e \in 1 .. e /\ k \in Nat  BY <1>1, <1>3, <2>1
    <2>3. PICK b, c : b = ChainAfter(h, k, j) /\ c = ChainAfter(h, e, j)  OBVIOUS
    <2>4. IsChain(h, k, j, b)  BY <1>3, <2>3
    <2>5. c = IF h[e] % Primes[FirstTable] = j THEN <<e>> \o b ELSE b  BY <2>2, <2>3, ChainGrows
    <2>6. b \in Seq(1 .. k) /\ Len(b) <= k /\ Len(b) \in Nat /\ b \in Seq(1 .. e)
      <3>1. b \in Seq(1 .. k) /\ Len(b) <= k  BY <2>4 DEF IsChain
      <3>2. 1 .. k \subseteq 1 .. e  BY <2>1, <2>2
      <3>3. \A i \in 1 .. Len(b) : b[i] \in 1 .. e  BY <3>1, <3>2
      <3>4. b \in [1 .. Len(b) -> 1 .. e] /\ Len(b) \in Nat  BY <3>1, <3>3
      <3>5. PICK E : E = 1 .. e  OBVIOUS
      <3>6. b \in Seq(E)
        <4>1. b \in [1 .. Len(b) -> E]  BY <3>4, <3>5
        <4> QED  BY <3>4, <4>1
      <3> QED  BY <3>1, <3>4, <3>5, <3>6
    <2>7. IsChain(h, e, j, c)
      <3>1. CASE h[e] % Primes[FirstTable] # j
        <4>1. c = b  BY <2>5, <3>1
        <4>2. Len(b) <= e  BY <2>1, <2>2, <2>6
        <4>3. \A d \in 1 .. e : d = e \/ d \in 1 .. k  BY <2>1, <2>2
        <4> QED  BY <2>4, <2>6, <3>1, <4>1, <4>2, <4>3 DEF IsChain
      <3>2. CASE h[e] % Primes[FirstTable] = j
        <4>1. PICK l : l = Len(b)  OBVIOUS
        <4>2. l \in Nat /\ l <= k  BY <2>6, <4>1
        <4>3. /\ c \in Seq(1 .. e) /\ Len(c) = l + 1 /\ c[1] = e
              /\ \A i \in 1 .. l : c[i + 1] = b[i]
          <5>1. PICK a : a = <<e>>  OBVIOUS
          <5>2. a \in Seq(1 .. e) /\ Len(a) = 1 /\ a[1] = e  BY <2>2, <5>1
          <5>3. c = a \o b  BY <2>5, <3>2, <5>1
          <5>4. /\ a \o b \in Seq(1 .. e) /\ Len(a \o b) = Len(a) + Len(b)
                /\ \A i \in 1 .. Len(a) + Len(b) :
                     (a \o b)[i] = IF i <= Len(a) THEN a[i] ELSE b[i - Len(a)]
            BY <2>6, <5>2, ConcatProperties
          <5>5. \A i \in 1 .. 1 + l : c[i] = IF i <= 1 THEN a[i] ELSE b[i - 1]
            BY <4>1, <5>2, <5>3, <5>4
          <5>6. c[1] = e  BY <4>2, <5>2, <5>5
          <5>7. \A i \in 1 .. l : c[i + 1] = b[i]
            <6>1. TAKE i \in 1 .. l
            <6>2. i + 1 \in 1 .. 1 + l /\ ~ (i + 1 <= 1) /\ i + 1 - 1 = i  BY <4>2
            <6> QED  BY <5>5, <6>2
          <5>8. Len(c) = l + 1  BY <4>1, <4>2, <5>2, <5>3, <5>4
          <5> QED  BY <5>3, <5>4, <5>6, <5>7, <5>8
        <4>4. b = <<>> => l = 0  BY <4>1
        <4>5. HeadOf(b) = IF 0 < l THEN b[1] ELSE 0
          <5>1. CASE b = <<>>  BY <4>4, <5>1 DEF HeadOf
          <5>2. CASE b # <<>>
            <6>1. Head(b) = b[1] /\ l # 0  BY <2>6, <4>1, <5>2
            <6> QED  BY <4>2, <5>2, <6>1 DEF HeadOf
          <5> QED  BY <5>1, <5>2
        <4>6. \A i \in 1 .. l + 1 : i = 1 \/ \E d \in 1 .. l : i = d + 1
          <5>1. TAKE i \in 1 .. l + 1
          <5>2. i # 1 => i - 1 \in 1 .. l /\ i = (i - 1) + 1  BY <4>2
          <5> QED  BY <5>2
        <4>7. ASSUME NEW i \in 1 .. l + 1
              PROVE  /\ h[c[i]] % Primes[FirstTable] = j
                     /\ HeadOf(ChainAfter(h, c[i] - 1, j)) = IF i < l + 1 THEN c[i + 1] ELSE 0
          <5>1. CASE i = 1
            <6>1. c[i] = e /\ ChainAfter(h, c[i] - 1, j) = b  BY <2>2, <2>3, <4>3, <5>1
            <6>2. i < l + 1 => c[i + 1] = b[1] /\ 0 < l
              <7>1. i < l + 1 => 1 \in 1 .. l  BY <4>2, <5>1
              <7> QED  BY <4>2, <4>3, <5>1, <7>1
            <6>3. ~ (i < l + 1) => ~ (0 < l)  BY <4>2, <5>1
            <6> QED  BY <3>2, <4>5, <6>1, <6>2, <6>3
          <5>2. ASSUME NEW d \in 1 .. l, i = d + 1
                PROVE  /\ h[c[i]] % Primes[FirstTable] = j
                       /\ HeadOf(ChainAfter(h, c[i] - 1, j)) = IF i < l + 1 THEN c[i + 1] ELSE 0
            <6>1. c[i] = b[d]  BY <4>3, <5>2
            <6>2. /\ h[b[d]] % Primes[FirstTable] = j
                  /\ HeadOf(ChainAfter(h, b[d] - 1, j)) = IF d < l THEN b[d + 1] ELSE 0
              BY <2>4, <4>1 DEF IsChain
            <6>3. (i < l + 1) = (d < l)  BY <4>2, <5>2
            <6>4. d < l => c[i + 1] = b[d + 1]
              <7>1. d < l => d + 1 \in 1 .. l  BY <4>2
              <7> QED  BY <4>3, <5>2, <7>1
            <6> QED  BY <6>1, <6>2, <6>3, <6>4
          <5> QED  BY <4>6, <5>1, <5>2
        <4>8. ASSUME NEW d \in 1 .. e, h[d] % Primes[FirstTable] = j
              PROVE  \E i \in 1 .. l + 1 : c[i] = d
          <5>1. CASE d = e
            <6>1. 1 \in 1 .. l + 1  BY <4>2
            <6> QED  BY <4>3, <5>1, <6>1
          <5>2. CASE d # e
            <6>1. d \in 1 .. k  BY <2>1, <2>2, <5>2
            <6>2. PICK i \in 1 .. l : b[i] = d  BY <2>4, <4>1, <4>8, <6>1 DEF IsChain
            <6>3. i + 1 \in 1 .. l + 1 /\ c[i + 1] = d  BY <4>2, <4>3, <6>2
            <6> QED  BY <6>3
          <5> QED  BY <5>1, <5>2
        <4>9. l + 1 <= e  BY <2>1, <2>2, <4>2
        <4> QED  BY <4>3, <4>7, <4>8, <4>9 DEF IsChain
      <3> QED  BY <3>1, <3>2
    <2>8. e \in 0 .. ITEM_COUNT  BY <1>1, <2>2
    <2> QED  BY <2>1, <2>3, <2>7, <2>8
  <1>4. \A k \in 0 .. ITEM_COUNT : k \in S
    <2> HIDE DEF S
    <2> QED  BY <1>1, <1>2, <1>3, UpTo
  <1> QED  BY <1>4

\* The entries from the first of a chain on, until NULL, are the chain.
LEMMA PathIs ==
  ASSUME NEW m, NEW c \in Seq(Items), Len(c) <= ITEM_COUNT,
         \A i \in 1 .. Len(c) : m[NextOf(c[i])] = IF i < Len(c) THEN c[i + 1] ELSE 0
  PROVE  Path(m, HeadOf(c)) = c
  <1> DEFINE D == 0 .. ITEM_COUNT
             P(g) == g = [n \in D |-> IF n = 0 THEN HeadOf(c)
                                      ELSE IF g[n - 1] = 0 THEN 0 ELSE m[NextOf(g[n - 1])]]
             u == CHOOSE g : P(g)
  <1>1. ITEM_COUNT \in Nat /\ Items = 1 .. ITEM_COUNT  BY TransAssumption DEF Items
  <1>2. PICK l : l = Len(c)  OBVIOUS
  <1>3. l \in Nat /\ l <= ITEM_COUNT /\ \A i \in 1 .. l : c[i] # 0  BY <1>1, <1>2
  <1>4. HeadOf(c) = IF 0 < l THEN c[1] ELSE 0
    <2>1. CASE c = <<>>
      <3>1. l = 0  BY <1>2, <2>1
      <3> QED  BY <2>1, <3>1 DEF HeadOf
    <2>2. CASE c # <<>>
      <3>1. Head(c) = c[1] /\ l # 0  BY <1>2, <2>2
      <3> QED  BY <1>3, <2>2, <3>1 DEF HeadOf
    <2> QED  BY <2>1, <2>2
  <1>5. \A i \in 1 .. l : m[NextOf(c[i])] = IF i < l THEN c[i + 1] ELSE 0  BY <1>2
  <1> DEFINE v == [n \in D |-> IF n < l THEN c[n + 1] ELSE 0]
  <1>6. ASSUME NEW n \in 1 .. ITEM_COUNT
        PROVE  v[n] = IF v[n - 1] = 0 THEN 0 ELSE m[NextOf(v[n - 1])]
    <2>1. n \in D /\ n - 1 \in D /\ (n - 1) + 1 = n  BY <1>1
    <2>2. v[n - 1] = IF n - 1 < l THEN c[n] ELSE 0  BY <2>1
    <2>3. v[n] = IF n < l THEN c[n + 1] ELSE 0  BY <2>1
    <2> HIDE DEF v
    <2>4. CASE n - 1 < l
      <3>1. n \in 1 .. l  BY <1>3, <2>4
      <3> QED  BY <1>3, <1>5, <2>2, <2>3, <2>4, <3>1
    <2>5. CASE ~ (n - 1 < l)
      <3>1. ~ (n < l)  BY <1>3, <2>5
      <3> QED  BY <2>2, <2>3, <2>5, <3>1
    <2> QED  BY <2>4, <2>5
  <1>7. v[0] = HeadOf(c) /\ 0 \in D /\ \A n \in D : n = 0 \/ n \in 1 .. ITEM_COUNT
    BY <1>1, <1>4
  <1>8. P(v)
    <2>1. v \in [D -> {v[n] : n \in D}]  OBVIOUS
    <2> HIDE DEF v, D
    <2> QED  BY <1>6, <1>7, <2>1
  <1>9. P(u)
    <2> HIDE DEF P
    <2> QED  BY <1>8
  <1>10. \A f, k : Path(f, k) = LET g == CHOOSE g : g = [n \in D |-> IF n = 0 THEN k
                                      ELSE IF g[n - 1] = 0 THEN 0 ELSE f[NextOf(g[n - 1])]]
                                IN [n \in 1 .. Cardinality({b \in D : g[b] # 0}) |-> g[n - 1]]
    BY DEF Path
  <1>11. Path(m, HeadOf(c)) = [n \in 1 .. Cardinality({b \in D : u[b] # 0}) |-> u[n - 1]]
    BY <1>10
  <1> HIDE DEF u
  <1>12. /\ u[0] = HeadOf(c)
         /\ \A n \in 1 .. ITEM_COUNT : u[n] = IF u[n - 1] = 0 THEN 0 ELSE m[NextOf(u[n - 1])]
    <2>1. \A n \in 1 .. ITEM_COUNT : n \in D /\ n # 0  BY <1>1
    <2> HIDE DEF D
    <2> QED  BY <1>7, <1>9, <2>1
  <1>13. \A n \in D : u[n] = v[n]
    <2> DEFINE S == {n \in D : u[n] = v[n]}
    <2>1. 0 \in S  BY <1>7, <1>12
    <2>2. ASSUME NEW n \in 0 .. ITEM_COUNT, n < ITEM_COUNT, n \in S  PROVE n + 1 \in S
      <3>1. n + 1 \in 1 .. ITEM_COUNT /\ (n + 1) - 1 = n /\ n + 1 \in D  BY <1>1, <2>2
      <3>2. u[n] = v[n]  BY <2>2
      <3> HIDE DEF v, D
      <3> QED  BY <1>6, <1>12, <3>1, <3>2
    <2>3. \A n \in 0 .. ITEM_COUNT : n \in S
      <3> HIDE DEF S
      <3> QED  BY <1>1, <2>1, <2>2, UpTo
    <2> QED  BY <2>3
  <1>14. {b \in D : u[b] # 0} = 0 .. l - 1
    <2>1. ASSUME NEW b \in D  PROVE u[b] # 0 <=> b < l
      <3>1. u[b] = IF b < l THEN c[b + 1] ELSE 0  BY <1>13
      <3>2. b < l => b + 1 \in 1 .. l  BY <1>1, <1>3
      <3> QED  BY <1>3, <3>1, <3>2
    <2>2. \A b : b \in 0 .. l - 1 <=> b \in D /\ b < l  BY <1>1, <1>3
    <2> HIDE DEF D
    <2> QED  BY <2>1, <2>2
  <1>15. Cardinality(0 .. l - 1) = l
    <2>1. 0 \in Int /\ l - 1 \in Int  BY <1>3
    <2>2. Cardinality(0 .. l - 1) = IF 0 > l - 1 THEN 0 ELSE (l - 1) - 0 + 1  BY <2>1, FS_Interval
    <2> QED  BY <1>3, <2>2
  <1>16. Path(m, HeadOf(c)) = [n \in 1 .. l |-> u[n - 1]]  BY <1>11, <1>14, <1>15
  <1>17. \A n \in 1 .. l : u[n - 1] = c[n]
    <2>1. TAKE n \in 1 .. l
    <2>2. n - 1 \in D /\ n - 1 < l /\ (n - 1) + 1 = n  BY <1>1, <1>3
    <2>3. u[n - 1] = v[n - 1]  BY <1>13, <2>2
    <2> QED  BY <2>2, <2>3
  <1>18. c = [n \in 1 .. l |-> c[n]]  BY <1>2
  <1> HIDE DEF v
  <1> QED  BY <1>16, <1>17, <1>18

Buckets   == 0 .. Primes[FirstTable] - 1
Bucket(e) == hash[e] % Primes[FirstTable]
SlotOf(e) == Slot(FirstTable, Bucket(e))

\* The entry in front of chain j when n items are in the table.
FrontOf(n, j) == HeadOf(ChainAfter(hash, n, j))

\* The words of an entry that was linked, and while it is in the table.
EntryIs(e) ==
  /\ Within(Key(e), {e}) /\ Within(HashIn(e), {hash[e]})
  /\ Within(NextOf(e), {FrontOf(e - 1, Bucket(e))})
EntryNow(e) ==
  now[Key(e)] = e /\ now[HashIn(e)] = hash[e] /\ now[NextOf(e)] = FrontOf(e - 1, Bucket(e))
EntryEnds(e) ==
  /\ build # "redo" => Ends(Key(e), e)
  /\ Ends(HashIn(e), hash[e]) /\ Ends(NextOf(e), FrontOf(e - 1, Bucket(e)))

\* A stop leaves v in a word, whatever the redo log has.
Holds(w, v) == now[w] = v /\ media[w] = {v} /\ (w \in DOMAIN undo => undo[w] = v)

\* The redo log has v for the word, or will have, whatever is stored past it.
Logs(w, v) ==
  /\ w \in DOMAIN buf => buf[w] = v
  /\ \A o \in Ops(todo) : o.do = "store" /\ w \in o.at => o.val = v
  /\ w \in DOMAIN buf \/ \E o \in Ops(todo) : o.do = "store" /\ w \in o.at

\* The entries before i and the chains of J are those of the insertions that returned.
Standing(i, J) ==
  /\ \A e \in Items : e < i => EntryIs(e)
  /\ \A j \in J : Within(Slot(FirstTable, j), {FrontOf(i - 1, j)})
  /\ Within(TableLength, {0, Primes[FirstTable]})

\* The word file stores the slot after the words of the entry, and the redo file applies
\* all of them at once.
WordLinks(i) ==
  /\ \A o \in Ops(todo) : o.do # "apply"
  /\ \A m, n \in DOMAIN todo :
       SlotOf(i) \in todo[m].at /\ m <= n => \A w \in Entry(i) : w \notin todo[n].at
  /\ Within(SlotOf(i), {FrontOf(i - 1, Bucket(i)), i})
  /\ Holds(SlotOf(i), FrontOf(i - 1, Bucket(i))) \/ EntryIs(i)

RedoLinks(i) ==
  /\ \A n \in DOMAIN todo : todo[n].do = "apply" => n = Len(todo)
  /\ \A o \in Ops(todo) : EntryCount \notin o.at /\ (SlotOf(i) \in o.at => o.do = "store")
  /\ \/ Holds(SlotOf(i), FrontOf(i - 1, Bucket(i))) /\ Holds(EntryCount, i - 1) /\ Logs(Key(i), i)
     \/ todo = <<>> /\ Within(Key(i), {i})

RedoCounts(i) == Holds(EntryCount, i - 1) /\ \A o \in Ops(todo) : o.do = "store"

Linking(i) ==
  /\ i \in Items /\ EntryEnds(i) /\ Ends(SlotOf(i), i)
  /\ build = "word" => WordLinks(i)
  /\ build = "redo" => RedoLinks(i)

\* What the memory is after a stop.
Recovered(i) ==
  /\ now[TableLength] \in {0, Primes[FirstTable]}
  /\ \A e \in Items : e < i => EntryNow(e)
  /\ \A j \in Buckets : ~ (i \in Items /\ j = Bucket(i)) => now[Slot(FirstTable, j)] = FrontOf(i - 1, j)
  /\ i \notin Items /\ build = "redo" => now[EntryCount] = i - 1
  /\ i \in Items /\ build # "obj" =>
       \/ now[SlotOf(i)] = FrontOf(i - 1, Bucket(i)) /\ (build = "redo" => now[EntryCount] = i - 1)
       \/ now[SlotOf(i)] = i /\ EntryNow(i) /\ (build = "redo" => now[EntryCount] = i)

Chaining ==
  /\ hash \in [Items -> Nat] /\ item <= ITEM_COUNT + 1
  /\ ~Stopped /\ pc # "linked" => Standing(item, Buckets)
  /\ pc = "linked" => Standing(item, Buckets \ {Bucket(item)}) /\ Linking(item)
  /\ build = "redo" /\ pc \in {"grow", "alloc"} => RedoCounts(item)
  /\ Stopped => pc # "lost" /\ Recovered(item)

ChainInv ==
  /\ QuietInv
  /\ pc \in {"aborted", "overrun"} => "grown" \in torn
  /\ pc \in {"oom", "failed"} /\ build = "redo" => "oom" \in torn
  /\ build # "nv" /\ torn = {} => Chaining
-----------------------------------------------------------------------------
(* What can be read after a stop                                              *)

\* What is in front of a chain is the last item that was put there.
LEMMA FrontGrows ==
  ASSUME hash \in [Items -> Nat], NEW j
  PROVE  /\ FrontOf(0, j) = 0
         /\ \A n \in Items : FrontOf(n, j) = IF Bucket(n) = j THEN n ELSE FrontOf(n - 1, j)
  <1>1. ChainAfter(hash, 0, j) = <<>>  BY ChainGrows
  <1>2. FrontOf(0, j) = 0  BY <1>1 DEF FrontOf, HeadOf
  <1>3. ASSUME NEW n \in Items
        PROVE  FrontOf(n, j) = IF Bucket(n) = j THEN n ELSE FrontOf(n - 1, j)
    <2>1. PICK b, c : b = ChainAfter(hash, n - 1, j) /\ c = ChainAfter(hash, n, j)  OBVIOUS
    <2>2. c = IF Bucket(n) = j THEN <<n>> \o b ELSE b  BY <2>1, ChainGrows DEF Bucket
    <2>3. CASE Bucket(n) # j  BY <2>1, <2>2, <2>3 DEF FrontOf
    <2>4. CASE Bucket(n) = j
      <3>1. ITEM_COUNT \in Nat /\ Items = 1 .. ITEM_COUNT  BY TransAssumption DEF Items
      <3>2. n - 1 \in 0 .. ITEM_COUNT  BY <3>1
      <3>3. IsChain(hash, n - 1, j, b)  BY <2>1, <3>2, Chained
      <3>4. b \in Seq(1 .. n - 1)  BY <3>3 DEF IsChain
      <3>5. <<n>> \o b # <<>> /\ Head(<<n>> \o b) = n
        <4>1. PICK E : E = 1 .. n - 1  OBVIOUS
        <4>2. b \in Seq(E)  BY <3>4, <4>1
        <4> QED  BY <4>2
      <3> QED  BY <2>1, <2>2, <2>4, <3>5 DEF FrontOf, HeadOf
    <2> QED  BY <2>3, <2>4
  <1> QED  BY <1>2, <1>3

\* The chain of a slot, read from its front.
LEMMA ChainRead ==
  ASSUME hash \in [Items -> Nat], NEW j, NEW n \in 0 .. ITEM_COUNT,
         \A e \in 1 .. n : EntryNow(e), now[Slot(FirstTable, j)] = FrontOf(n, j)
  PROVE  Path(now, now[Slot(FirstTable, j)]) = ChainAfter(hash, n, j)
  <1>1. PICK c : c = ChainAfter(hash, n, j)  OBVIOUS
  <1>2. IsChain(hash, n, j, c)  BY <1>1, Chained
  <1>3. c \in Seq(1 .. n) /\ Len(c) <= n /\ Len(c) \in Nat  BY <1>2 DEF IsChain
  <1>4. ITEM_COUNT \in Nat /\ Items = 1 .. ITEM_COUNT /\ n \in Nat  BY TransAssumption DEF Items
  <1>5. \A i \in 1 .. Len(c) : c[i] \in 1 .. n  BY <1>3
  <1>6. c \in Seq(Items) /\ Len(c) <= ITEM_COUNT
    <2>1. \A e \in 1 .. n : e \in Items  BY <1>4
    <2>2. c \in [1 .. Len(c) -> Items]  BY <1>3, <1>5, <2>1
    <2>3. c \in Seq(Items)  BY <1>3, <2>2
    <2>4. PICK l : l = Len(c)  OBVIOUS
    <2>5. l <= ITEM_COUNT  BY <1>3, <1>4, <2>4
    <2> QED  BY <2>3, <2>4, <2>5
  <1>7. \A i \in 1 .. Len(c) : now[NextOf(c[i])] = IF i < Len(c) THEN c[i + 1] ELSE 0
    <2>1. TAKE i \in 1 .. Len(c)
    <2>2. now[NextOf(c[i])] = FrontOf(c[i] - 1, Bucket(c[i]))  BY <1>5 DEF EntryNow
    <2>3. /\ Bucket(c[i]) = j
          /\ HeadOf(ChainAfter(hash, c[i] - 1, j)) = IF i < Len(c) THEN c[i + 1] ELSE 0
      BY <1>2 DEF IsChain, Bucket
    <2> QED  BY <2>2, <2>3 DEF FrontOf
  <1>8. PICK f : f = now  OBVIOUS
  <1>9. Path(f, HeadOf(c)) = c  BY <1>6, <1>7, <1>8, PathIs
  <1>10. HeadOf(c) = now[Slot(FirstTable, j)]  BY <1>1 DEF FrontOf
  <1> QED  BY <1>1, <1>8, <1>9, <1>10

Spared(i, j) == build = "obj" /\ i \in Items /\ j = Bucket(i)

\* A memory with the first n items in it.
Reads(i, n) ==
  /\ n \in 0 .. ITEM_COUNT /\ (n = i - 1 \/ (n = i /\ i \in Items))
  /\ \A e \in 1 .. n : EntryNow(e)
  /\ \A j \in Buckets : ~Spared(i, j) => now[Slot(FirstTable, j)] = FrontOf(n, j)
  /\ build = "redo" => now[EntryCount] = n

LEMMA RecoveredReads ==
  ASSUME hash \in [Items -> Nat], NEW i \in 1 .. ITEM_COUNT + 1, Recovered(i)
  PROVE  \E n : Reads(i, n)
  <1>1. ITEM_COUNT \in Nat /\ Items = 1 .. ITEM_COUNT  BY TransAssumption DEF Items
  <1>2. PICK m : m = i - 1  OBVIOUS
  <1>3. m \in 0 .. ITEM_COUNT /\ \A e \in 1 .. m : e \in Items /\ e < i  BY <1>1, <1>2
  <1>4. \A e \in 1 .. m : EntryNow(e)  BY <1>3 DEF Recovered
  <1>5. \A j \in Buckets : ~ (i \in Items /\ j = Bucket(i)) => now[Slot(FirstTable, j)] = FrontOf(m, j)
    BY <1>2 DEF Recovered
  <1>6. CASE \/ i \notin Items \/ build = "obj"
             \/ now[SlotOf(i)] = FrontOf(m, Bucket(i)) /\ (build = "redo" => now[EntryCount] = m)
    <2>1. \A j \in Buckets : ~Spared(i, j) => now[Slot(FirstTable, j)] = FrontOf(m, j)
      BY <1>5, <1>6 DEF Spared, SlotOf
    <2>2. build = "redo" => now[EntryCount] = m  BY <1>2, <1>6 DEF Recovered
    <2>3. m \in 0 .. ITEM_COUNT /\ (m = i - 1 \/ (m = i /\ i \in Items))  BY <1>2, <1>3
    <2>4. Reads(i, m)  BY Zenon, <1>4, <2>1, <2>2, <2>3 DEF Reads
    <2> QED  BY <2>4
  <1>7. CASE /\ i \in Items /\ now[SlotOf(i)] = i /\ EntryNow(i)
             /\ (build = "redo" => now[EntryCount] = i)
    <2>1. i \in 0 .. ITEM_COUNT /\ \A e \in 1 .. i : e = i \/ e \in 1 .. m  BY <1>1, <1>2, <1>7
    <2>2. \A e \in 1 .. i : EntryNow(e)  BY <1>4, <1>7, <2>1
    <2>3. \A j \in Buckets : now[Slot(FirstTable, j)] = FrontOf(i, j)
      <3>1. TAKE j \in Buckets
      <3>2. FrontOf(i, j) = IF Bucket(i) = j THEN i ELSE FrontOf(m, j)  BY <1>2, <1>7, FrontGrows
      <3> QED  BY <1>5, <1>7, <3>2 DEF SlotOf
    <2>4. Reads(i, i)  BY <1>7, <2>1, <2>2, <2>3 DEF Reads
    <2> QED  BY <2>4
  <1> QED  BY <1>2, <1>6, <1>7 DEF Recovered

\* What can be read is the chains of the items.
LEMMA ReadsChains ==
  ASSUME hash \in [Items -> Nat], NEW i, NEW n, Reads(i, n), NEW j \in Buckets, ~Spared(i, j)
  PROVE  /\ Path(now, now[Slot(FirstTable, j)]) = ChainAfter(hash, n, j)
         /\ IsChain(hash, n, j, ChainAfter(hash, n, j))
  <1>1. n \in 0 .. ITEM_COUNT /\ \A e \in 1 .. n : EntryNow(e)  BY DEF Reads
  <1>2. now[Slot(FirstTable, j)] = FrontOf(n, j)  BY DEF Reads
  <1> QED  BY <1>1, <1>2, ChainRead, Chained

\* After a stop, what ChainInv says of the words is what ChainsRecover says of the chains.
LEMMA RecoveredChains ==
  ASSUME ChainInv  PROVE ChainsRecover
  <1> DEFINE t == FirstTable
             new == Inserted + 1
             spared(j) == build = "obj" /\ new \in Items /\ hash[new] % Primes[t] = j
             chain == [j \in 0 .. Primes[t] - 1 |-> Path(now, now[Slot(t, j)])]
             C1 == \A j \in DOMAIN chain :
                     ~spared(j) =>
                       /\ \/ chain[j] = ChainAfter(hash, Inserted, j)
                          \/ new \in Items /\ chain[j] = ChainAfter(hash, new, j)
                       /\ \A e \in ToSet(chain[j]) : now[Key(e)] = e /\ now[HashIn(e)] = hash[e]
             C2 == build = "redo" =>
                     now[EntryCount] = Cardinality(UNION {ToSet(chain[j]) : j \in DOMAIN chain})
  <1>1. SUFFICES ASSUME Stopped, torn = {}  PROVE pc # "lost" /\ C1 /\ C2
    BY DEF ChainsRecover
  <1>2. PICK i : i = item  OBVIOUS
  <1>3. /\ hash \in [Items -> Nat] /\ pc # "lost" /\ Recovered(i)
        /\ item \in Nat \ {0} /\ item <= ITEM_COUNT + 1
    BY <1>1, <1>2 DEF ChainInv, QuietInv, CountInv, Place, Chaining
  <1>4. i \in 1 .. ITEM_COUNT + 1 /\ new = i /\ Inserted = i - 1
    BY <1>2, <1>3, TransAssumption DEF Inserted
  <1>5. PICK n : Reads(i, n)  BY <1>3, <1>4, RecoveredReads
  <1>6. /\ n \in 0 .. ITEM_COUNT /\ (n = i - 1 \/ (n = i /\ i \in Items))
        /\ \A e \in 1 .. n : EntryNow(e)
        /\ build = "redo" => now[EntryCount] = n
    BY <1>5 DEF Reads
  <1>7. \A j : spared(j) <=> Spared(i, j)  BY <1>4 DEF Spared, Bucket
  <1>8. DOMAIN chain = Buckets /\ \A j \in Buckets : chain[j] = Path(now, now[Slot(t, j)])
    BY DEF Buckets
  <1>9. ASSUME NEW j \in Buckets, ~Spared(i, j)
        PROVE  chain[j] = ChainAfter(hash, n, j) /\ IsChain(hash, n, j, chain[j])
    <2>1. PICK c : c = Path(now, now[Slot(FirstTable, j)])  OBVIOUS
    <2>2. c = ChainAfter(hash, n, j) /\ IsChain(hash, n, j, c)
      BY <1>3, <1>5, <1>9, <2>1, ReadsChains
    <2>3. chain[j] = c  BY <1>8, <2>1
    <2> HIDE DEF chain
    <2> QED  BY <2>2, <2>3
  <1> HIDE DEF chain, spared, new
  <1>10. ASSUME NEW j \in Buckets, ~Spared(i, j), NEW e \in ToSet(chain[j])  PROVE e \in 1 .. n
    <2>1. PICK c : c = chain[j]  OBVIOUS
    <2>2. IsChain(hash, n, j, c)  BY <1>9, <1>10, <2>1
    <2>3. PICK E : E = 1 .. n  OBVIOUS
    <2>4. c \in Seq(E)  BY <2>2, <2>3 DEF IsChain
    <2>5. PICK k \in DOMAIN c : e = c[k]  BY <1>10, <2>1 DEF ToSet
    <2>6. c[k] \in E  BY <2>4, <2>5
    <2> QED  BY <2>3, <2>5, <2>6
  <1>11. C1
    <2>1. TAKE j \in DOMAIN chain
    <2>2. SUFFICES ASSUME ~spared(j)
                   PROVE  /\ \/ chain[j] = ChainAfter(hash, Inserted, j)
                             \/ new \in Items /\ chain[j] = ChainAfter(hash, new, j)
                          /\ \A e \in ToSet(chain[j]) : now[Key(e)] = e /\ now[HashIn(e)] = hash[e]
      OBVIOUS
    <2>3. j \in Buckets /\ ~Spared(i, j)  BY <1>7, <1>8, <2>2
    <2>4. chain[j] = ChainAfter(hash, n, j)  BY <1>9, <2>3
    <2>5. \A e \in ToSet(chain[j]) : e \in 1 .. n  BY <1>10, <2>3
    <2>6. n = Inserted \/ (n = new /\ new \in Items)  BY <1>4, <1>6
    <2> QED  BY <1>6, <2>4, <2>5, <2>6 DEF EntryNow
  <1>12. ASSUME build = "redo"
         PROVE  now[EntryCount] = Cardinality(UNION {ToSet(chain[j]) : j \in DOMAIN chain})
    <2> DEFINE all == UNION {ToSet(chain[j]) : j \in DOMAIN chain}
    <2>1. \A j : ~Spared(i, j)  BY <1>12 DEF Spared
    <2>2. \A e \in all : e \in 1 .. n  BY <1>8, <1>10, <2>1
    <2>3. ASSUME NEW e \in 1 .. n  PROVE e \in all
      <3>1. PICK j : j = hash[e] % Primes[FirstTable]  OBVIOUS
      <3>2. j \in Buckets
        <4>1. ITEM_COUNT \in Nat /\ Items = 1 .. ITEM_COUNT  BY TransAssumption DEF Items
        <4>2. e \in Items  BY <1>6, <4>1
        <4>3. hash[e] \in Nat /\ Primes[FirstTable] \in Nat \ {0}  BY <1>3, <4>2, WordsOf
        <4> QED  BY <3>1, <4>3 DEF Buckets
      <3>3. PICK c : c = chain[j]  OBVIOUS
      <3>4. IsChain(hash, n, j, c)  BY <1>9, <2>1, <3>2, <3>3
      <3>5. PICK k \in 1 .. Len(c) : c[k] = e  BY <3>1, <3>4 DEF IsChain
      <3>6. c \in Seq(1 .. n)  BY <3>4 DEF IsChain
      <3>7. e \in ToSet(c)  BY <3>5, <3>6 DEF ToSet
      <3> QED  BY <1>8, <3>2, <3>3, <3>7
    <2>4. all = 1 .. n
      <3> HIDE DEF all
      <3> QED  BY <2>2, <2>3
    <2>5. Cardinality(1 .. n) = n
      <3>1. 1 \in Int /\ n \in Int /\ n \in Nat  BY <1>6, TransAssumption
      <3>2. Cardinality(1 .. n) = IF 1 > n THEN 0 ELSE n - 1 + 1  BY <3>1, FS_Interval
      <3> QED  BY <3>1, <3>2
    <2> QED  BY <1>6, <1>12, <2>4, <2>5
  <1> QED  BY <1>3, <1>11, <1>12

-----------------------------------------------------------------------------
(* The words of the chains, while the tester inserts                          *)

\* No item changes its hash.
LEMMA SameHash ==
  ASSUME hash' = hash
  PROVE  /\ \A n, j : FrontOf(n, j)' = FrontOf(n, j)
         /\ \A e : Bucket(e)' = Bucket(e) /\ SlotOf(e)' = SlotOf(e)
  BY DEF FrontOf, Bucket, SlotOf

\* An item has its slot in the first table.
LEMMA BucketIs ==
  ASSUME hash \in [Items -> Nat], NEW e \in Items
  PROVE  /\ Bucket(e) \in Buckets /\ SlotOf(e) \in Words
         /\ SlotOf(e) \notin Header /\ SlotOf(e) \notin Entry(e)
  <1>1. hash[e] \in Nat /\ Primes[FirstTable] \in Nat \ {0}  BY WordsOf
  <1>2. PICK b, p : b = hash[e] % p /\ p = Primes[FirstTable]  OBVIOUS
  <1>3. b \in 0 .. p - 1  BY <1>1, <1>2
  <1>4. Slot(FirstTable, b) \in Words  BY <1>2, <1>3, WordsOf
  <1> QED  BY <1>2, <1>3, <1>4, WordsDiffer DEF Bucket, Buckets, SlotOf

\* A word of which the call says no more has what it ends with.
LEMMA HasEnded ==
  ASSUME NEW w, NEW v, EndsWell(w), Ends(w, v), Untouched(todo, w),
         \A o \in Ops(todo) : o.do # "apply"
  PROVE  Within(w, {v}) /\ Settled(w)
  <1>1. ~Closes(todo, w)  BY DEF Closes, Untouched, Ops
  <1>2. ~Applies(todo, w, w \in DOMAIN buf)  BY DEF Applies, Ops
  <1>3. Settled(w)  BY <1>1, <1>2 DEF EndsWell
  <1>4. LOAD(w) = v  BY DEF Ends, Untouched
  <1>5. now[w] = v  BY <1>3, <1>4 DEF LOAD, Settled
  <1> QED  BY <1>3, <1>5 DEF Within, Settled, Untouched

LEMMA CallEnded ==
  ASSUME NEW w, NEW v, todo = <<>>, EndsWell(w), Ends(w, v)
  PROVE  Within(w, {v}) /\ Settled(w)
  <1>1. Ops(todo) = {}  BY OpsOfNone
  <1> QED  BY <1>1, HasEnded DEF Untouched

\* What has one value only is left by a stop with that value.
LEMMA WithinHolds ==
  ASSUME NEW w, NEW v, Within(w, {v})  PROVE Holds(w, v)
  BY DEF Within, Holds

\* The words W stay what they are, and with them the entries and the chains.
LEMMA StandingKept ==
  ASSUME hash' = hash, NEW i, NEW J, Standing(i, J), NEW W,
         TableLength \in W, \A j \in J : Slot(FirstTable, j) \in W,
         \A e \in Items : e < i => Entry(e) \subseteq W,
         \A w \in W : \A R : Within(w, R) => Within(w, R)'
  PROVE  Standing(i, J)'
  <1>1. /\ \A n, j : FrontOf(n, j)' = FrontOf(n, j)
        /\ \A e : Bucket(e)' = Bucket(e)
    BY SameHash
  <1>2. ASSUME NEW e \in Items, e < i  PROVE EntryIs(e)'
    <2>1. PICK y, z : y = hash[e] /\ z = FrontOf(e - 1, Bucket(e))  OBVIOUS
    <2>2. Within(Key(e), {e}) /\ Within(HashIn(e), {y}) /\ Within(NextOf(e), {z})
      BY <1>2, <2>1 DEF Standing, EntryIs
    <2>3. Key(e) \in W /\ HashIn(e) \in W /\ NextOf(e) \in W  BY <1>2 DEF Entry
    <2>4. Within(Key(e), {e})' /\ Within(HashIn(e), {y})' /\ Within(NextOf(e), {z})'
      BY <2>2, <2>3
    <2>5. y = hash'[e] /\ z = FrontOf(e - 1, Bucket(e))'  BY <1>1, <2>1
    <2> QED  BY <2>4, <2>5 DEF EntryIs
  <1>3. ASSUME NEW j \in J  PROVE Within(Slot(FirstTable, j), {FrontOf(i - 1, j)})'
    <2>1. PICK x : x = FrontOf(i - 1, j)  OBVIOUS
    <2>2. Within(Slot(FirstTable, j), {x})  BY <2>1 DEF Standing
    <2>3. Within(Slot(FirstTable, j), {x})'  BY <2>2
    <2> QED  BY <1>1, <2>1, <2>3
  <1>4. Within(TableLength, {0, Primes[FirstTable]})'  BY DEF Standing
  <1> QED  BY <1>2, <1>3, <1>4 DEF Standing

\* An entry stays what it is with each operation.
LEMMA StepEntryIs ==
  ASSUME MemOK, Step, NEW e \in Items, EntryIs(e)  PROVE EntryIs(e)'
  <1>1. hash' = hash  BY DEF Step
  <1>2. PICK y, z : y = hash[e] /\ z = FrontOf(e - 1, Bucket(e))  OBVIOUS
  <1>3. y = hash'[e] /\ z = FrontOf(e - 1, Bucket(e))'  BY <1>1, <1>2, SameHash
  <1>4. Within(Key(e), {e}) /\ Within(HashIn(e), {y}) /\ Within(NextOf(e), {z})
    BY <1>2 DEF EntryIs
  <1>5. \A w \in Entry(e) : w \in DOMAIN now /\ w \in DOMAIN media  BY WordsOf DEF MemOK
  <1>6. IsSeq(todo)  BY DEF MemOK
  <1>7. Within(Key(e), {e})' /\ Within(HashIn(e), {y})' /\ Within(NextOf(e), {z})'
    BY <1>4, <1>5, <1>6, StepWithin DEF Entry
  <1> QED  BY <1>3, <1>7 DEF EntryIs

\* An operation of the word file's call: the slot is not touched before the entry is done.
LEMMA StepWordLinks ==
  ASSUME MemOK, Step, hash \in [Items -> Nat], NEW i \in Items, WordLinks(i), EntryEnds(i),
         build = "word", \A w \in Entry(i) : EndsWell(w)
  PROVE  WordLinks(i)'
  <1>1. hash' = hash /\ todo # <<>> /\ todo' = Tail(todo)  BY DEF Step
  <1>2. PICK s, x : s = SlotOf(i) /\ x = FrontOf(i - 1, Bucket(i))  OBVIOUS
  <1>3. s = SlotOf(i)' /\ x = FrontOf(i - 1, Bucket(i))'  BY <1>1, <1>2, SameHash
  <1>4. /\ \A o \in Ops(todo) : o.do # "apply"
        /\ \A m, n \in DOMAIN todo :
             s \in todo[m].at /\ m <= n => \A w \in Entry(i) : w \notin todo[n].at
        /\ Within(s, {x, i})
        /\ Holds(s, x) \/ EntryIs(i)
    BY <1>2 DEF WordLinks
  <1>5. PICK op : op = Head(todo)  OBVIOUS
  <1>6. PICK l : l = Len(todo)  OBVIOUS
  <1>7. IsSeq(todo) /\ s \in Words /\ s \in DOMAIN now /\ s \in DOMAIN media
    BY <1>2, BucketIs DEF MemOK
  <1>8. /\ l \in Nat \ {0} /\ DOMAIN todo = 1 .. l /\ op = todo[1] /\ 1 \in DOMAIN todo
        /\ DOMAIN todo' = 1 .. l - 1 /\ \A n \in 1 .. l - 1 : todo'[n] = todo[n + 1]
        /\ Ops(todo') \subseteq Ops(todo) /\ op \in Ops(todo)
    BY <1>1, <1>5, <1>6, <1>7, Behead
  <1>9. \A o \in Ops(todo') : o.do # "apply"  BY <1>4, <1>8
  <1>10. \A m, n \in DOMAIN todo' :
           s \in todo'[m].at /\ m <= n => \A w \in Entry(i) : w \notin todo'[n].at
    <2>1. SUFFICES ASSUME NEW m \in DOMAIN todo', NEW n \in DOMAIN todo', s \in todo'[m].at, m <= n
                   PROVE  \A w \in Entry(i) : w \notin todo'[n].at
      OBVIOUS
    <2>2. /\ m + 1 \in DOMAIN todo /\ n + 1 \in DOMAIN todo /\ m + 1 <= n + 1
          /\ todo'[m] = todo[m + 1] /\ todo'[n] = todo[n + 1]
      BY <1>8, <2>1
    <2> QED  BY <1>4, <2>1, <2>2
  <1>11. Within(s, {x, i})'  BY <1>4, <1>7, StepWithin
  <1>12. Holds(s, x)' \/ EntryIs(i)'
    <2>1. CASE EntryIs(i)  BY <2>1, StepEntryIs
    <2>2. CASE Holds(s, x) /\ s \in op.at
      <3>1. ASSUME NEW w \in Entry(i)  PROVE Untouched(todo, w)
        <4>1. \A n \in DOMAIN todo : 1 <= n /\ w \notin todo[n].at
          BY <1>4, <1>8, <2>2
        <4> QED  BY <4>1 DEF Untouched, Ops
      <3>2. PICK y, z : y = hash[i] /\ z = x  OBVIOUS
      <3>3. Ends(Key(i), i) /\ Ends(HashIn(i), y) /\ Ends(NextOf(i), z)
        BY <1>2, <3>2 DEF EntryEnds
      <3>4. Within(Key(i), {i}) /\ Within(HashIn(i), {y}) /\ Within(NextOf(i), {z})
        <4>1. Key(i) \in Entry(i) /\ HashIn(i) \in Entry(i) /\ NextOf(i) \in Entry(i)
          BY DEF Entry
        <4> QED  BY <1>4, <3>1, <3>3, <4>1, HasEnded
      <3>5. EntryIs(i)  BY <1>2, <3>2, <3>4 DEF EntryIs
      <3> QED  BY <3>5, StepEntryIs
    <2>3. CASE Holds(s, x) /\ s \notin op.at
      <3>1. Effect(op, s)  BY <1>5, <1>7, StepEffect
      <3>2. SameAt(s)  BY <1>4, <1>8, <2>3, <3>1 DEF Effect
      <3> QED  BY <2>3, <3>2 DEF Holds, SameAt
    <2> QED  BY <1>4, <2>1, <2>2, <2>3
  <1> QED  BY <1>3, <1>9, <1>10, <1>11, <1>12 DEF WordLinks

\* An operation of the redo file's call: nothing but its COMMIT changes the slot, the
\* count or the key for a stop.
LEMMA StepRedoLinks ==
  ASSUME MemOK, Step, hash \in [Items -> Nat], NEW i \in Items, RedoLinks(i), EndsWell(Key(i))
  PROVE  RedoLinks(i)'
  <1>1. hash' = hash /\ todo # <<>> /\ todo' = Tail(todo)  BY DEF Step
  <1>2. PICK s, x : s = SlotOf(i) /\ x = FrontOf(i - 1, Bucket(i))  OBVIOUS
  <1>3. s = SlotOf(i)' /\ x = FrontOf(i - 1, Bucket(i))'  BY <1>1, <1>2, SameHash
  <1>4. PICK k, c : k = Key(i) /\ c = EntryCount  OBVIOUS
  <1>5. /\ \A n \in DOMAIN todo : todo[n].do = "apply" => n = Len(todo)
        /\ \A o \in Ops(todo) : c \notin o.at /\ (s \in o.at => o.do = "store")
        /\ Holds(s, x) /\ Holds(c, i - 1) /\ Logs(k, i)
    BY <1>1, <1>2, <1>4 DEF RedoLinks
  <1>6. PICK op : op = Head(todo)  OBVIOUS
  <1>7. PICK l : l = Len(todo)  OBVIOUS
  <1>8. /\ IsSeq(todo) /\ s \in DOMAIN now /\ s \in DOMAIN media
        /\ c \in DOMAIN now /\ c \in DOMAIN media /\ k \in DOMAIN now /\ k \in DOMAIN media
    <2>1. s \in Words  BY <1>2, BucketIs
    <2>2. Key(i) \in Entry(i) /\ EntryCount \in Header  BY DEF Entry, Header
    <2>3. c \in Words /\ k \in Words  BY <1>4, <2>2, WordsOf
    <2> QED  BY <2>1, <2>3 DEF MemOK
  <1>9. /\ l \in Nat \ {0} /\ DOMAIN todo = 1 .. l /\ op = todo[1] /\ 1 \in DOMAIN todo
        /\ DOMAIN todo' = 1 .. l - 1 /\ \A n \in 1 .. l - 1 : todo'[n] = todo[n + 1]
        /\ Ops(todo') \subseteq Ops(todo) /\ op \in Ops(todo)
        /\ \A o \in Ops(todo) : o = op \/ o \in Ops(todo')
    BY <1>1, <1>6, <1>7, <1>8, Behead
  <1>10. Effect(op, s) /\ Effect(op, c) /\ Effect(op, k)  BY <1>6, <1>8, StepEffect
  <1>11. \A n \in DOMAIN todo' : todo'[n].do = "apply" => n = Len(todo')
    <2>1. SUFFICES ASSUME NEW n \in DOMAIN todo', todo'[n].do = "apply"  PROVE n = Len(todo')
      OBVIOUS
    <2>2. n + 1 \in DOMAIN todo /\ todo'[n] = todo[n + 1] /\ n \in Nat  BY <1>9
    <2>3. n + 1 = l  BY <1>5, <1>7, <2>1, <2>2
    <2>4. Len(todo') = l - 1
      <3>1. PICK S : todo \in Seq(S)  BY <1>8 DEF IsSeq
      <3> QED  BY <1>1, <1>7, <3>1
    <2> QED  BY <1>9, <2>2, <2>3, <2>4
  <1>12. \A o \in Ops(todo') : c \notin o.at /\ (s \in o.at => o.do = "store")  BY <1>5, <1>9
  <1>13. \/ Holds(s, x)' /\ Holds(c, i - 1)' /\ Logs(k, i)'
         \/ todo' = <<>> /\ Within(k, {i})'
    <2>1. CASE op.do = "apply"
      <3>1. 1 = l  BY <1>5, <1>7, <1>9, <2>1
      <3>2. todo' = <<>>
        <4>1. PICK S : todo \in Seq(S)  BY <1>8 DEF IsSeq
        <4>2. todo' \in Seq(S) /\ Len(todo') = 0  BY <1>1, <1>7, <3>1, <4>1
        <4> QED  BY <4>2
      <3>3. Ops(todo') = {}  BY <3>2, OpsOfNone
      <3>4. k \in DOMAIN buf /\ buf[k] = i  BY <1>5, <1>9, <2>1, <3>3 DEF Logs
      <3>5. k \notin DOMAIN undo  BY <1>4, <3>4 DEF EndsWell, Settled
      <3>6. k \notin DOMAIN buf' /\ k \notin DOMAIN undo' /\ now'[k] = i /\ media'[k] = {i}
        BY <1>10, <2>1, <3>4, <3>5 DEF Effect, LOAD
      <3>7. Within(k, {i})'  BY <3>3, <3>6 DEF Within
      <3> QED  BY <3>2, <3>7
    <2>2. CASE op.do # "apply"
      <3>1. SameAt(s)  BY <1>5, <1>9, <1>10, <2>2 DEF Effect
      <3>2. SameAt(c)  BY <1>5, <1>9, <1>10, <2>2 DEF Effect
      <3>3. Holds(s, x)' /\ Holds(c, i - 1)'  BY <1>5, <3>1, <3>2 DEF Holds, SameAt
      <3>4. \/ k \in op.at /\ op.do = "store" /\ op.val = i /\ k \in DOMAIN buf' /\ buf'[k] = i
            \/ ~ (op.do = "store" /\ k \in op.at) /\ KeptIn(k)
        BY <1>5, <1>9, <1>10, <2>2 DEF Effect, Logs
      <3>5. Logs(k, i)'
        <4>1. \A o \in Ops(todo') : o.do = "store" /\ k \in o.at => o.val = i
          BY <1>5, <1>9 DEF Logs
        <4>2. k \in DOMAIN buf' => buf'[k] = i  BY <1>5, <3>4 DEF Logs, KeptIn
        <4>3. k \in DOMAIN buf' \/ \E o \in Ops(todo') : o.do = "store" /\ k \in o.at
          <5>1. CASE k \in DOMAIN buf  BY <3>4, <5>1 DEF KeptIn
          <5>2. CASE k \notin DOMAIN buf
            <6>1. PICK o \in Ops(todo) : o.do = "store" /\ k \in o.at  BY <1>5, <5>2 DEF Logs
            <6> QED  BY <1>9, <3>4, <6>1
          <5> QED  BY <5>1, <5>2
        <4> QED  BY <4>1, <4>2, <4>3 DEF Logs
      <3> QED  BY <3>3, <3>5
    <2> QED  BY <2>1, <2>2
  <1> QED  BY <1>3, <1>4, <1>11, <1>12, <1>13 DEF RedoLinks

\* An operation of a call that links an entry.
LEMMA StepLinking ==
  ASSUME MemOK, Step, hash \in [Items -> Nat], NEW i, Linking(i),
         \A w \in Entry(i) : EndsWell(w)
  PROVE  Linking(i)'
  <1>1. /\ hash' = hash /\ build' = build /\ i \in Items /\ EntryEnds(i) /\ Ends(SlotOf(i), i)
        /\ build = "word" => WordLinks(i)
        /\ build = "redo" => RedoLinks(i)
    BY DEF Step, Linking
  <1>2. PICK s, y, z : s = SlotOf(i) /\ y = hash[i] /\ z = FrontOf(i - 1, Bucket(i))  OBVIOUS
  <1>3. s = SlotOf(i)' /\ y = hash'[i] /\ z = FrontOf(i - 1, Bucket(i))'
    BY <1>1, <1>2, SameHash
  <1>4. /\ build # "redo" => Ends(Key(i), i)
        /\ Ends(HashIn(i), y) /\ Ends(NextOf(i), z) /\ Ends(s, i)
    BY <1>1, <1>2 DEF EntryEnds
  <1>5. \A w \in Entry(i) \cup {s} : w \in DOMAIN now /\ w \in DOMAIN media
    BY <1>1, <1>2, BucketIs, WordsOf DEF MemOK
  <1>6. IsSeq(todo)  BY DEF MemOK
  <1>7. /\ build # "redo" => Ends(Key(i), i)'
        /\ Ends(HashIn(i), y)' /\ Ends(NextOf(i), z)' /\ Ends(s, i)'
    BY <1>4, <1>5, <1>6, StepEnds DEF Entry
  <1>8. EntryEnds(i)' /\ Ends(SlotOf(i), i)'  BY <1>1, <1>3, <1>7 DEF EntryEnds
  <1>9. build = "word" => WordLinks(i)'  BY <1>1, StepWordLinks
  <1>10. build = "redo" => RedoLinks(i)'
    <2>1. Key(i) \in Entry(i)  BY DEF Entry
    <2> QED  BY <1>1, <2>1, StepRedoLinks
  <1> QED  BY <1>1, <1>8, <1>9, <1>10 DEF Linking

\* Before create_hashtable nothing is in the table.
LEMMA ChainInit ==
  ASSUME Init  PROVE ChainInv
  <1>1. QuietInv  BY QuietInit
  <1>2. DOMAIN <<>> = {} /\ Ops(<<>>) = {}  BY OpsOfNone
  <1>3. now = [w \in Words |-> 0] /\ media = [w \in Words |-> {0}] /\ undo = <<>> /\ buf = <<>>
        /\ todo = <<>> /\ pc = "create" /\ hash \in Hashes /\ item = 1
    BY DEF Init
  <1>4. hash \in [Items -> Nat] /\ ITEM_COUNT \in Nat  BY <1>3, TransAssumption
  <1>5. ASSUME NEW w \in Words, NEW R, 0 \in R  PROVE Within(w, R)
    <2>1. now[w] = 0 /\ media[w] = {0}  BY <1>3
    <2> QED  BY <1>2, <1>3, <1>5, <2>1 DEF Within
  <1>6. Within(TableLength, {0, Primes[FirstTable]})
    <2>1. TableLength \in Words  BY WordsOf DEF Header
    <2> QED  BY <1>5, <2>1
  <1>7. ASSUME NEW j \in Buckets  PROVE Within(Slot(FirstTable, j), {FrontOf(0, j)})
    <2>1. FrontOf(0, j) = 0  BY <1>4, FrontGrows
    <2>2. Slot(FirstTable, j) \in Words  BY WordsOf DEF Buckets
    <2> QED  BY <1>5, <2>1, <2>2
  <1>8. \A e \in Items : ~ (e < 1)  BY <1>4 DEF Items
  <1>9. Standing(item, Buckets)  BY <1>3, <1>6, <1>7, <1>8 DEF Standing
  <1>10. item <= ITEM_COUNT + 1  BY <1>3, <1>4
  <1> QED  BY <1>1, <1>3, <1>4, <1>9, <1>10 DEF ChainInv, Chaining, Stopped

\* What ChainInv says while nothing was done outside the transactions.
LEMMA ChainParts ==
  ASSUME ChainInv, build # "nv", torn = {}
  PROVE  /\ Chaining /\ MemOK /\ Place /\ Counting
         /\ pc \in {"create", "insert", "grow", "alloc", "linked"} => Tidy
  <1>1. QuietInv /\ Chaining  BY DEF ChainInv
  <1>2. Counts  BY DEF Counts
  <1>3. CountInv /\ (Quiet => Tidy)  BY <1>1 DEF QuietInv
  <1>4. pc \in {"create", "insert", "grow", "alloc", "linked"} => Quiet  BY DEF Quiet
  <1> QED  BY <1>1, <1>2, <1>3, <1>4 DEF CountInv

\* An operation of a call.
LEMMA ChainStep ==
  ASSUME ChainInv, Step, build # "nv", torn = {}  PROVE Chaining'
  <1>1. /\ todo # <<>> /\ todo' = Tail(todo) /\ hash' = hash /\ build' = build /\ pc' = pc
        /\ item' = item
    BY DEF Step
  <1>2. Chaining /\ MemOK /\ Place /\ (pc = "linked" => Tidy)
    <2>1. /\ Chaining /\ MemOK /\ Place
          /\ pc \in {"create", "insert", "grow", "alloc", "linked"} => Tidy
      BY Zenon, ChainParts
    <2> QED  BY <2>1
  <1>3. ~Stopped  BY <1>1, <1>2 DEF Place, Stopped
  <1>4. IsSeq(todo)  BY <1>2 DEF MemOK
  <1>5. \A w \in Words : \A R : Within(w, R) => Within(w, R)'
    <2>1. \A w \in Words : w \in DOMAIN now /\ w \in DOMAIN media  BY <1>2 DEF MemOK
    <2> QED  BY <1>4, <2>1, StepWithin
  <1>6. ASSUME NEW J, J \subseteq Buckets, NEW i, Standing(i, J)  PROVE Standing(i, J)'
    <2>1. TableLength \in Words  BY WordsOf DEF Header
    <2>2. \A j \in J : Slot(FirstTable, j) \in Words  BY <1>6, WordsOf DEF Buckets
    <2>3. \A e \in Items : e < i => Entry(e) \subseteq Words  BY WordsOf
    <2> QED  BY <1>1, <1>5, <1>6, <2>1, <2>2, <2>3, StandingKept
  <1>7. PICK i : i = item /\ i = item'  BY <1>1
  <1>8. hash \in [Items -> Nat] /\ hash' \in [Items -> Nat] /\ item' <= ITEM_COUNT + 1
    BY <1>1, <1>2 DEF Chaining
  <1>9. pc # "linked" => Standing(i, Buckets)'
    BY <1>2, <1>3, <1>6, <1>7 DEF Chaining
  <1>10. pc = "linked" => Standing(i, Buckets \ {Bucket(i)})' /\ Linking(i)'
    <2>1. SUFFICES ASSUME pc = "linked"
                   PROVE  Standing(i, Buckets \ {Bucket(i)})' /\ Linking(i)'
      OBVIOUS
    <2>2. PICK J : J = Buckets \ {Bucket(i)}  OBVIOUS
    <2>3. Standing(i, J) /\ Linking(i)  BY <1>2, <1>7, <2>1, <2>2 DEF Chaining
    <2>4. Standing(i, J)'  BY <1>6, <2>2, <2>3
    <2>5. J = (Buckets \ {Bucket(i)})'  BY <1>1, <2>2, SameHash DEF Buckets
    <2>6. \A w \in Entry(i) : EndsWell(w)
      <3>1. i \in Items  BY <2>3 DEF Linking
      <3>2. ASSUME NEW w \in Entry(i)  PROVE w \in Words /\ w # EntryCount /\ w # Table
        BY <3>1, WordsOf, WordsDiffer DEF Header
      <3> QED  BY <1>2, <2>1, <3>2 DEF Tidy, AllEndWell
    <2>7. Linking(i)'  BY <1>2, <1>8, <2>3, <2>6, StepLinking
    <2> QED  BY <2>4, <2>5, <2>7
  <1>11. build = "redo" /\ pc \in {"grow", "alloc"} => RedoCounts(i)'
    <2>1. SUFFICES ASSUME build = "redo", pc \in {"grow", "alloc"}  PROVE RedoCounts(i)'
      OBVIOUS
    <2>2. RedoCounts(i)  BY <1>2, <1>7, <2>1 DEF Chaining
    <2>3. PICK op : op = Head(todo)  OBVIOUS
    <2>4. Ops(todo') \subseteq Ops(todo) /\ op \in Ops(todo)  BY <1>1, <1>4, <2>3, Behead
    <2>5. Effect(op, EntryCount)  BY <1>2, <2>3, CountWord, StepEffect
    <2>6. op.do = "store"  BY <2>2, <2>4 DEF RedoCounts
    <2>7. SameAt(EntryCount)  BY <2>5, <2>6 DEF Effect
    <2>8. Holds(EntryCount, i - 1)'  BY <2>2, <2>7 DEF RedoCounts, Holds, SameAt
    <2> QED  BY <2>2, <2>4, <2>8 DEF RedoCounts
  <1>12. ~Stopped'  BY <1>1, <1>3 DEF Stopped
  <1> QED  BY <1>1, <1>7, <1>8, <1>9, <1>10, <1>11, <1>12 DEF Chaining

\* A call of which every operation is on words of T.
LEMMA CallStanding ==
  ASSUME UNCHANGED <<memory, hash>>, NEW i, NEW J, J \subseteq Buckets, Standing(i, J),
         NEW T, \A w : w \notin T => Untouched(todo', w),
         TableLength \notin T, \A j \in J : Slot(FirstTable, j) \notin T,
         \A e \in Items : e < i => Entry(e) \cap T = {}
  PROVE  Standing(i, J)'
  <1> DEFINE W == Words \ T
  <1>1. \A w \in W : \A R : Within(w, R) => Within(w, R)'
    BY NewWithin DEF Untouched
  <1>2. TableLength \in W  BY WordsOf DEF Header
  <1>3. \A j \in J : Slot(FirstTable, j) \in W  BY WordsOf DEF Buckets
  <1>4. \A e \in Items : e < i => Entry(e) \subseteq W  BY WordsOf
  <1> HIDE DEF W
  <1> QED  BY <1>1, <1>2, <1>3, <1>4, StandingKept

\* A call about the count.
LEMMA CountStanding ==
  ASSUME UNCHANGED <<memory, hash>>, NEW i, Standing(i, Buckets),
         \A w : w \notin {EntryCount} => Untouched(todo', w)
  PROVE  Standing(i, Buckets)'
  <1>1. TableLength \notin {EntryCount}  BY FiveWords
  <1>2. EntryCount \in Header  BY DEF Header
  <1>3. \A j : Slot(FirstTable, j) \notin {EntryCount}  BY <1>2, WordsDiffer
  <1>4. \A e : Entry(e) \cap {EntryCount} = {}  BY <1>2, WordsDiffer
  <1> QED  BY <1>1, <1>3, <1>4, CallStanding

\* Memory, and the call, as they were.
LEMMA SameStanding ==
  ASSUME UNCHANGED <<memory, todo, hash>>, NEW i, NEW J, J \subseteq Buckets, Standing(i, J)
  PROVE  Standing(i, J)'
  <1>1. \A w \in Words : \A R : Within(w, R) => Within(w, R)'  BY Unchanged
  <1>2. TableLength \in Words  BY WordsOf DEF Header
  <1>3. \A j \in J : Slot(FirstTable, j) \in Words  BY WordsOf DEF Buckets
  <1>4. \A e \in Items : e < i => Entry(e) \subseteq Words  BY WordsOf
  <1> QED  BY <1>1, <1>2, <1>3, <1>4, StandingKept

\* A call that linked an entry has made all its operations.
LEMMA LinkedIs ==
  ASSUME todo = <<>>, NEW i, Linking(i), \A w \in Entry(i) \cup {SlotOf(i)} : EndsWell(w)
  PROVE  EntryIs(i) /\ Within(SlotOf(i), {i})
  <1>1. /\ EntryEnds(i) /\ Ends(SlotOf(i), i)
        /\ build = "redo" => RedoLinks(i)
    BY DEF Linking
  <1>2. Within(SlotOf(i), {i})  BY <1>1, CallEnded
  <1>3. /\ Key(i) \in Entry(i) /\ HashIn(i) \in Entry(i) /\ NextOf(i) \in Entry(i)
    BY DEF Entry
  <1>4. PICK y, z : y = hash[i] /\ z = FrontOf(i - 1, Bucket(i))  OBVIOUS
  <1>5. Within(HashIn(i), {y}) /\ Within(NextOf(i), {z})
    <2>1. Ends(HashIn(i), y) /\ Ends(NextOf(i), z)  BY <1>1, <1>4 DEF EntryEnds
    <2> QED  BY <1>3, <2>1, CallEnded
  <1>6. Within(Key(i), {i})
    <2>1. CASE build # "redo"
      <3>1. Ends(Key(i), i)  BY <1>1, <2>1 DEF EntryEnds
      <3> QED  BY <1>3, <3>1, CallEnded
    <2>2. CASE build = "redo"
      <3>1. Settled(Key(i)) /\ Ops(todo) = {}  BY <1>3, CallOver, OpsOfNone
      <3>2. ~Logs(Key(i), i)  BY <3>1 DEF Logs, Settled
      <3> QED  BY <1>1, <2>2, <3>2 DEF RedoLinks
    <2> QED  BY <2>1, <2>2
  <1> QED  BY <1>2, <1>4, <1>5, <1>6 DEF EntryIs

\* create_hashtable sets the length of the table, and no slot.
LEMMA ChainCreate ==
  ASSUME ChainInv, CreateHashtable, build # "nv", torn = {}  PROVE Chaining'
  <1>1. /\ pc = "create" /\ pc' = "insert" /\ todo = <<>> /\ todo' = Create(FirstTable)
        /\ UNCHANGED <<memory, hash, build, item>>
    BY DEF CreateHashtable, At, Same
  <1>2. Chaining /\ Place
    <2>1. /\ Chaining /\ MemOK /\ Place
          /\ pc \in {"create", "insert", "grow", "alloc", "linked"} => Tidy
      BY Zenon, ChainParts
    <2> QED  BY <2>1
  <1>3. PICK i : i = item /\ i = item'  BY <1>1
  <1>4. i = 1 /\ Standing(i, Buckets) /\ build \in {"obj", "word", "redo"}
    BY <1>1, <1>2, <1>3 DEF Place, Chaining, Stopped
  <1>5. PICK t : t = FirstTable  OBVIOUS
  <1>6. Fills(todo', t, {Table, TableLength, EntryCount}) /\ \A w : w \notin Header => Untouched(todo', w)
    <2> DEFINE o == Put(Table, t) \o CreateObj(t)
               x == Put(Table, t) \o CreateWord(t)
               r == Put(Table, t) \o CreateRedo(t)
    <2>1. CASE build = "obj"
      <3>1. /\ \A w : w \notin Header => Untouched(o, w)
            /\ Fills(o, t, {Table, TableLength, EntryCount})
        BY Zenon, CreateObjDoes DEF Inside
      <3>2. todo' = o  BY <1>1, <1>5, <2>1 DEF Create
      <3> HIDE DEF o
      <3> QED  BY Zenon, <3>1, <3>2
    <2>2. CASE build = "word"
      <3>1. /\ \A w : w \notin Header => Untouched(x, w)
            /\ Fills(x, t, {Table, TableLength, EntryCount})
        BY Zenon, CreateWordDoes DEF Inside
      <3>2. todo' = x  BY <1>1, <1>5, <2>2 DEF Create
      <3> HIDE DEF x
      <3> QED  BY Zenon, <3>1, <3>2
    <2>3. CASE build = "redo"
      <3>1. /\ \A w : w \notin Header => Untouched(r, w)
            /\ Fills(r, t, {Table, TableLength, EntryCount})
        BY Zenon, CreateRedoDoes
      <3>2. todo' = r  BY <1>1, <1>5, <2>3 DEF Create
      <3> HIDE DEF r
      <3> QED  BY Zenon, <3>1, <3>2
    <2> QED  BY <1>4, <2>1, <2>2, <2>3
  <1>7. Within(TableLength, {0, Primes[t]})'
    <2>1. PICK R : R = {0, Primes[t]}  OBVIOUS
    <2>2. Within(TableLength, R)  BY <1>4, <1>5, <2>1 DEF Standing
    <2>3. \A o \in Ops(todo') : o.do \in {"put", "store"} /\ TableLength \in o.at => o.val \in R
      BY <1>6, <2>1 DEF Fills
    <2>4. Within(TableLength, R)'  BY <1>1, <2>2, <2>3, NewWithin
    <2> QED  BY <2>1, <2>4
  <1>8. ASSUME NEW j \in Buckets  PROVE Within(Slot(FirstTable, j), {FrontOf(i - 1, j)})'
    <2>1. PICK s, x : s = Slot(FirstTable, j) /\ x = FrontOf(i - 1, j)  OBVIOUS
    <2>2. Within(s, {x})  BY <1>4, <2>1 DEF Standing
    <2>3. Untouched(todo', s)  BY <1>6, <2>1, WordsDiffer
    <2>4. Within(s, {x})'  BY <1>1, <2>2, <2>3, NewWithin DEF Untouched
    <2>5. x = FrontOf(i - 1, j)'  BY <1>1, <2>1, SameHash
    <2> QED  BY <2>1, <2>4, <2>5
  <1>9. \A e \in Items : ~ (e < i)  BY <1>4, TransAssumption DEF Items
  <1>10. Standing(i, Buckets)'  BY <1>5, <1>7, <1>8, <1>9 DEF Standing, Buckets
  <1> QED  BY <1>1, <1>2, <1>3, <1>10 DEF Chaining, Stopped

\* hashtable_insert counts the item, and in the redo file not yet for a stop.
LEMMA ChainInsert ==
  ASSUME ChainInv, InsertSome, build # "nv", torn = {}  PROVE Chaining'
  <1>1. /\ pc = "insert" /\ todo = <<>> /\ UNCHANGED <<memory, hash, build, item>>
    BY DEF InsertSome, At, Same
  <1>2. Chaining /\ Place /\ Counting
    <2>1. /\ Chaining /\ MemOK /\ Place /\ Counting
          /\ pc \in {"create", "insert", "grow", "alloc", "linked"} => Tidy
      BY Zenon, ChainParts
    <2> QED  BY <2>1
  <1>3. PICK i : i = item /\ i = item'  BY <1>1
  <1>4. Standing(i, Buckets)  BY <1>1, <1>2, <1>3 DEF Chaining, Stopped
  <1>5. CASE pc' = "search" /\ todo' = todo
    <2>1. Standing(i, Buckets)'  BY <1>1, <1>4, <1>5, SameStanding
    <2> QED  BY <1>1, <1>2, <1>3, <1>5, <2>1 DEF Chaining, Stopped
  <1>6. CASE pc' = "grow" /\ todo' = CountUp
    <2>1. /\ \A w : w \notin {EntryCount} => Untouched(todo', w)
          /\ build = "redo" => \A o \in Ops(todo') : o.do = "store"
      <3>1. PICK n : n = LOAD(EntryCount) + 1  OBVIOUS
      <3>2. CASE build \in {"obj", "word"}
        <4>1. todo' = Logged(EntryCount, n)  BY <1>6, <3>1, <3>2 DEF CountUp
        <4> QED  BY <3>2, <4>1, LoggedCloses
      <3>3. CASE build = "redo"
        <4>1. todo' = STORE(EntryCount, n)  BY <1>6, <3>1, <3>3 DEF CountUp
        <4>2. Ops(STORE(EntryCount, n)) = {[do |-> "store", at |-> {EntryCount}, val |-> n]}
          BY Operations
        <4>3. \A o \in Ops(todo') : o.do = "store"  BY <4>1, <4>2
        <4> QED  BY <4>1, <4>3, OneOperation
      <3> QED  BY <1>2, <3>2, <3>3 DEF Place
    <2>2. Standing(i, Buckets)'  BY <1>1, <1>4, <2>1, CountStanding
    <2>3. build = "redo" => RedoCounts(i)'
      <3>1. Within(EntryCount, {i - 1})  BY <1>1, <1>2, <1>3 DEF Counting
      <3>2. Holds(EntryCount, i - 1)  BY <3>1, WithinHolds
      <3>3. Holds(EntryCount, i - 1)'  BY <1>1, <3>2 DEF Holds, memory
      <3> QED  BY <2>1, <3>3 DEF RedoCounts
    <2> QED  BY <1>1, <1>2, <1>3, <1>6, <2>2, <2>3 DEF Chaining, Stopped
  <1> QED  BY <1>5, <1>6 DEF InsertSome

\* A table that is not too full is left alone.
LEMMA ChainGrow ==
  ASSUME ChainInv, GrowTable, build # "nv", torn' = {}  PROVE Chaining'
  <1>1. ~ (torn' = torn \cup {"grown"})  OBVIOUS
  <1>2. /\ pc = "grow" /\ pc' = "alloc" /\ UNCHANGED <<memory, torn>>
        /\ UNCHANGED <<build, hash, todo, item>>
    BY <1>1 DEF GrowTable, At, PlanB
  <1>3. Chaining  BY <1>2 DEF ChainInv
  <1>4. PICK i : i = item /\ i = item'  BY <1>2
  <1>5. Standing(i, Buckets)  BY <1>2, <1>3, <1>4 DEF Chaining, Stopped
  <1>6. Standing(i, Buckets)'  BY <1>2, <1>5, SameStanding
  <1>7. build = "redo" => RedoCounts(i)'
    <2>1. build = "redo" => RedoCounts(i)  BY <1>2, <1>3, <1>4 DEF Chaining
    <2> QED  BY <1>2, <2>1 DEF RedoCounts, Holds, memory
  <1> QED  BY <1>2, <1>3, <1>4, <1>6, <1>7 DEF Chaining, Stopped

\* hashtable_insert has made all its operations, and the item is in front of its chain.
LEMMA ChainReturns ==
  ASSUME ChainInv, InsertReturns, build # "nv", torn = {}  PROVE Chaining'
  <1>1. /\ pc = "linked" /\ todo = <<>> /\ pc' = "insert" /\ item' = item + 1 /\ todo' = todo
        /\ UNCHANGED <<memory, hash, build>>
    BY DEF InsertReturns, At, Same
  <1>2. Chaining /\ Tidy
    <2>1. /\ Chaining /\ MemOK /\ Place
          /\ pc \in {"create", "insert", "grow", "alloc", "linked"} => Tidy
      BY Zenon, ChainParts
    <2> QED  BY <1>1, <2>1
  <1>3. PICK i : i = item /\ item' = i + 1  BY <1>1
  <1>4. hash \in [Items -> Nat] /\ Standing(i, Buckets \ {Bucket(i)}) /\ Linking(i)
    BY <1>1, <1>2, <1>3 DEF Chaining
  <1>5. ITEM_COUNT \in Nat /\ Items = 1 .. ITEM_COUNT /\ i \in Items
    BY <1>4, TransAssumption DEF Items, Linking
  <1>6. \A w \in Entry(i) \cup {SlotOf(i)} : EndsWell(w)
    <2>1. \A w \in Entry(i) \cup {SlotOf(i)} : w \in Words /\ w \notin Header
      BY <1>4, <1>5, WordsOf, WordsDiffer, BucketIs
    <2> QED  BY <1>2, <2>1 DEF Tidy, AllEndWell, Header
  <1>7. EntryIs(i) /\ Within(SlotOf(i), {i})  BY <1>1, <1>4, <1>6, LinkedIs
  <1>8. Standing(i + 1, Buckets)
    <2>1. \A e \in Items : e < i + 1 => e < i \/ e = i  BY <1>5
    <2>2. \A e \in Items : e < i + 1 => EntryIs(e)  BY <1>4, <1>7, <2>1 DEF Standing
    <2>3. ASSUME NEW j \in Buckets  PROVE Within(Slot(FirstTable, j), {FrontOf(i, j)})
      <3>1. FrontOf(i, j) = IF Bucket(i) = j THEN i ELSE FrontOf(i - 1, j)
        BY <1>4, <1>5, FrontGrows
      <3>2. CASE Bucket(i) = j  BY <1>7, <3>1, <3>2 DEF SlotOf
      <3>3. CASE Bucket(i) # j
        <4>1. j \in Buckets \ {Bucket(i)}  BY <3>3
        <4> QED  BY <1>4, <3>1, <3>3, <4>1 DEF Standing
      <3> QED  BY <3>2, <3>3
    <2>4. PICK k : k = i + 1 /\ k - 1 = i  BY <1>5
    <2>5. Within(TableLength, {0, Primes[FirstTable]})  BY <1>4 DEF Standing
    <2>6. \A j \in Buckets : Within(Slot(FirstTable, j), {FrontOf(k - 1, j)})  BY <2>3, <2>4
    <2>7. \A e \in Items : e < k => EntryIs(e)  BY <2>2, <2>4
    <2>8. Standing(k, Buckets)  BY Zenon, <2>5, <2>6, <2>7 DEF Standing
    <2> QED  BY <2>4, <2>8
  <1>9. PICK k : k = i + 1  OBVIOUS
  <1>10. Standing(k, Buckets)'  BY <1>1, <1>8, <1>9, SameStanding
  <1>11. item' = k /\ item' <= ITEM_COUNT + 1  BY <1>3, <1>5, <1>9
  <1> QED  BY <1>1, <1>4, <1>10, <1>11 DEF Chaining, Stopped

-----------------------------------------------------------------------------
(* What is stored in a new entry and its slot                                 *)

\* All that is stored in a word is v, and it is stored.
Gives(q, w, v) ==
  /\ \A o \in Ops(q) : o.do \in {"put", "store"} /\ w \in o.at => o.val = v
  /\ \E o \in Ops(q) : o.do \in {"put", "store"} /\ w \in o.at

GivesLink(q, e, s) ==
  Gives(q, HashIn(e), hash[e]) /\ Gives(q, NextOf(e), now[s]) /\ Gives(q, s, e)

\* The object file's operations.
LEMMA LinkObjGives ==
  ASSUME NEW e, NEW s, s \notin Entry(e)
  PROVE  GivesLink(LinkObj(e, s), e, s) /\ Gives(LinkObj(e, s), Key(e), e)
  <1> DEFINE h == HashIn(e)
             k == Key(e)
             x == NextOf(e)
             y == hash[e]
             z == now[s]
             E == Entry(e)
             b == Begin(E)
             p1 == Put(h, y)
             p2 == Put(k, e)
             p3 == Put(x, z)
             b2 == Begin({s})
             p4 == Put(s, e)
             c2 == Commit({s})
             c == Commit(E)
             o2 == b \o p1
             o3 == o2 \o p2
             o4 == o3 \o p3
             o5 == o4 \o b2
             o6 == o5 \o p4
             o7 == o6 \o c2
             o8 == o7 \o c
  <1>1. LinkObj(e, s) = o8  BY DEF LinkObj
  <1>2. h # k /\ h # x /\ k # x /\ s # h /\ s # k /\ s # x
    BY WordsDiffer DEF Entry
  <1>3. /\ IsSeq(b) /\ Ops(b) = {[do |-> "begin", at |-> E, val |-> 0]}
        /\ IsSeq(p1) /\ Ops(p1) = {[do |-> "put", at |-> {h}, val |-> y]}
        /\ IsSeq(p2) /\ Ops(p2) = {[do |-> "put", at |-> {k}, val |-> e]}
        /\ IsSeq(p3) /\ Ops(p3) = {[do |-> "put", at |-> {x}, val |-> z]}
        /\ IsSeq(b2) /\ Ops(b2) = {[do |-> "begin", at |-> {s}, val |-> 0]}
        /\ IsSeq(p4) /\ Ops(p4) = {[do |-> "put", at |-> {s}, val |-> e]}
        /\ IsSeq(c2) /\ Ops(c2) = {[do |-> "commit", at |-> {s}, val |-> 0]}
        /\ IsSeq(c) /\ Ops(c) = {[do |-> "commit", at |-> E, val |-> 0]}
    BY Zenon, Operations
  <1>4. /\ GivesLink(o8, e, s) <=> Gives(o8, h, y) /\ Gives(o8, x, z) /\ Gives(o8, s, e)
        /\ Gives(o8, Key(e), e) <=> Gives(o8, k, e)
    BY DEF GivesLink
  <1> HIDE DEF h, k, x, y, z, E, b, p1, p2, p3, b2, p4, c2, c
  <1> HIDE DEF o2, o3, o4, o5, o6, o7, o8
  <1>15. /\ IsSeq(b) /\ IsSeq(p1) /\ IsSeq(p2) /\ IsSeq(p3)
         /\ IsSeq(b2) /\ IsSeq(p4) /\ IsSeq(c2) /\ IsSeq(c)
    BY Zenon, <1>3
  <1>5. IsSeq(o2) /\ Ops(o2) = Ops(b) \cup Ops(p1)  BY Zenon, <1>15, OpsJoined DEF o2
  <1>6. IsSeq(o3) /\ Ops(o3) = Ops(o2) \cup Ops(p2)  BY Zenon, <1>15, <1>5, OpsJoined DEF o3
  <1>7. IsSeq(o4) /\ Ops(o4) = Ops(o3) \cup Ops(p3)  BY Zenon, <1>15, <1>6, OpsJoined DEF o4
  <1>8. IsSeq(o5) /\ Ops(o5) = Ops(o4) \cup Ops(b2)  BY Zenon, <1>15, <1>7, OpsJoined DEF o5
  <1>9. IsSeq(o6) /\ Ops(o6) = Ops(o5) \cup Ops(p4)  BY Zenon, <1>15, <1>8, OpsJoined DEF o6
  <1>10. IsSeq(o7) /\ Ops(o7) = Ops(o6) \cup Ops(c2)  BY Zenon, <1>15, <1>9, OpsJoined DEF o7
  <1>11. Ops(o8) = Ops(o7) \cup Ops(c)  BY Zenon, <1>15, <1>10, OpsJoined DEF o8
  <1>12. \A o \in Ops(o8) : o.do \in {"put", "store"} =>
           \/ o.at = {h} /\ o.val = y
           \/ o.at = {k} /\ o.val = e
           \/ o.at = {x} /\ o.val = z
           \/ o.at = {s} /\ o.val = e
    <2>1. TAKE o \in Ops(o8)
    <2>2. \/ o \in Ops(b) \/ o \in Ops(p1) \/ o \in Ops(p2) \/ o \in Ops(p3)
          \/ o \in Ops(b2) \/ o \in Ops(p4) \/ o \in Ops(c2) \/ o \in Ops(c)
      BY <1>5, <1>6, <1>7, <1>8, <1>9, <1>10, <1>11
    <2> QED  BY <1>3, <2>2
  <1>13. /\ \E o \in Ops(o8) : o.do \in {"put", "store"} /\ h \in o.at
         /\ \E o \in Ops(o8) : o.do \in {"put", "store"} /\ k \in o.at
         /\ \E o \in Ops(o8) : o.do \in {"put", "store"} /\ x \in o.at
         /\ \E o \in Ops(o8) : o.do \in {"put", "store"} /\ s \in o.at
    <2>1. /\ Ops(p1) \subseteq Ops(o8) /\ Ops(p2) \subseteq Ops(o8)
          /\ Ops(p3) \subseteq Ops(o8) /\ Ops(p4) \subseteq Ops(o8)
      BY <1>5, <1>6, <1>7, <1>8, <1>9, <1>10, <1>11
    <2>2. /\ \E o \in Ops(p1) : o.do \in {"put", "store"} /\ h \in o.at
          /\ \E o \in Ops(p2) : o.do \in {"put", "store"} /\ k \in o.at
          /\ \E o \in Ops(p3) : o.do \in {"put", "store"} /\ x \in o.at
          /\ \E o \in Ops(p4) : o.do \in {"put", "store"} /\ s \in o.at
      BY <1>3
    <2> QED  BY <2>1, <2>2
  <1>14. Gives(o8, h, y) /\ Gives(o8, x, z) /\ Gives(o8, s, e) /\ Gives(o8, k, e)
    BY <1>2, <1>12, <1>13 DEF Gives
  <1> QED  BY <1>1, <1>4, <1>14

\* The operations of WordSet are on its word, and one of them stores v.
Sets(q, w, v) ==
  /\ IsSeq(q)
  /\ \A o \in Ops(q) :
       o.at = {w} /\ o.do \in {"begin", "put", "commit"} /\ (o.do = "put" => o.val = v)
  /\ \E o \in Ops(q) : o.do = "put"

LEMMA WordSets ==
  ASSUME NEW w, NEW v  PROVE Sets(WordSet(w, v), w, v)
  <1> DEFINE a == IF now[w] # 0 THEN Begin({w}) ELSE <<>>
             b == Put(w, v)
             c == IF v # 0 THEN Commit({w}) ELSE <<>>
             ab == a \o b
             abc == ab \o c
  <1>1. WordSet(w, v) = abc  BY DEF WordSet
  <1>2. /\ IsSeq(Begin({w})) /\ Ops(Begin({w})) = {[do |-> "begin", at |-> {w}, val |-> 0]}
        /\ IsSeq(b) /\ Ops(b) = {[do |-> "put", at |-> {w}, val |-> v]}
        /\ IsSeq(Commit({w})) /\ Ops(Commit({w})) = {[do |-> "commit", at |-> {w}, val |-> 0]}
        /\ IsSeq(<<>>) /\ Ops(<<>>) = {}
    BY Zenon, Operations, OpsOfNone
  <1>3. /\ IsSeq(a) /\ \A o \in Ops(a) : o.at = {w} /\ o.do = "begin"
        /\ IsSeq(c) /\ \A o \in Ops(c) : o.at = {w} /\ o.do = "commit"
    <2>1. (a = Begin({w}) \/ a = <<>>) /\ (c = Commit({w}) \/ c = <<>>)  OBVIOUS
    <2> HIDE DEF a, b, c
    <2>2. /\ \A o \in Ops(Begin({w})) : o.at = {w} /\ o.do = "begin"
          /\ \A o \in Ops(Commit({w})) : o.at = {w} /\ o.do = "commit"
          /\ \A o \in Ops(<<>>) : FALSE
      <3>1. PICK r : r = [do |-> "begin", at |-> {w}, val |-> 0]  OBVIOUS
      <3>2. PICK u : u = [do |-> "commit", at |-> {w}, val |-> 0]  OBVIOUS
      <3>3. r.at = {w} /\ r.do = "begin" /\ u.at = {w} /\ u.do = "commit"  BY <3>1, <3>2
      <3>4. Ops(Begin({w})) = {r} /\ Ops(Commit({w})) = {u} /\ Ops(<<>>) = {}
        BY Zenon, <1>2, <3>1, <3>2
      <3> QED  BY Zenon, <3>3, <3>4
    <2> QED  BY <1>2, <2>1, <2>2
  <1>4. /\ \A o \in Ops(b) : o.at = {w} /\ o.do = "put" /\ o.val = v
        /\ \E o \in Ops(b) : o.do = "put"
    BY <1>2
  <1> HIDE DEF a, b, c, ab, abc
  <1>5. IsSeq(ab) /\ Ops(ab) = Ops(a) \cup Ops(b)  BY Zenon, <1>2, <1>3, OpsJoined DEF ab
  <1>6. IsSeq(abc) /\ Ops(abc) = Ops(ab) \cup Ops(c)  BY Zenon, <1>3, <1>5, OpsJoined DEF abc
  <1> QED  BY <1>1, <1>3, <1>4, <1>5, <1>6 DEF Sets

\* The word file's operations; those of the slot are the last.
LEMMA LinkWordGives ==
  ASSUME NEW e, NEW s, s \notin Entry(e)
  PROVE  LET q == LinkWord(e, s)
         IN /\ GivesLink(q, e, s) /\ Gives(q, Key(e), e)
            /\ \A o \in Ops(q) : o.do # "apply"
            /\ \A m, n \in DOMAIN q :
                 s \in q[m].at /\ m <= n => \A w \in Entry(e) : w \notin q[n].at
  <1> DEFINE h == HashIn(e)
             k == Key(e)
             x == NextOf(e)
             y == hash[e]
             z == now[s]
             q1 == WordSet(h, y)
             q2 == WordSet(k, e)
             q3 == WordSet(x, z)
             q4 == WordSet(s, e)
             o2 == q1 \o q2
             o3 == o2 \o q3
             q == o3 \o q4
  <1>1. LinkWord(e, s) = q  BY DEF LinkWord
  <1>2. h # k /\ h # x /\ k # x /\ s # h /\ s # k /\ s # x
    BY WordsDiffer DEF Entry
  <1>3. Sets(q1, h, y) /\ Sets(q2, k, e) /\ Sets(q3, x, z) /\ Sets(q4, s, e)
    BY Zenon, WordSets
  <1>4. /\ GivesLink(q, e, s) <=> Gives(q, h, y) /\ Gives(q, x, z) /\ Gives(q, s, e)
        /\ Gives(q, Key(e), e) <=> Gives(q, k, e)
        /\ Entry(e) = {k, h, x}
    BY DEF GivesLink, Entry
  <1> HIDE DEF h, k, x, y, z, q1, q2, q3, q4, o2, o3, q
  <1>5. IsSeq(q1) /\ IsSeq(q2) /\ IsSeq(q3) /\ IsSeq(q4)  BY <1>3 DEF Sets
  <1>6. IsSeq(o2) /\ Ops(o2) = Ops(q1) \cup Ops(q2)  BY Zenon, <1>5, OpsJoined DEF o2
  <1>7. IsSeq(o3) /\ Ops(o3) = Ops(o2) \cup Ops(q3)  BY Zenon, <1>5, <1>6, OpsJoined DEF o3
  <1>8. Ops(q) = Ops(o3) \cup Ops(q4)  BY Zenon, <1>5, <1>7, OpsJoined DEF q
  <1>9. \A o \in Ops(q) :
          /\ o.do \in {"begin", "put", "commit"}
          /\ \/ o.at = {h} /\ (o.do = "put" => o.val = y)
             \/ o.at = {k} /\ (o.do = "put" => o.val = e)
             \/ o.at = {x} /\ (o.do = "put" => o.val = z)
             \/ o.at = {s} /\ (o.do = "put" => o.val = e)
    BY <1>3, <1>6, <1>7, <1>8 DEF Sets
  <1>10. /\ \E o \in Ops(q) : o.do \in {"put", "store"} /\ h \in o.at
         /\ \E o \in Ops(q) : o.do \in {"put", "store"} /\ k \in o.at
         /\ \E o \in Ops(q) : o.do \in {"put", "store"} /\ x \in o.at
         /\ \E o \in Ops(q) : o.do \in {"put", "store"} /\ s \in o.at
    <2>1. /\ Ops(q1) \subseteq Ops(q) /\ Ops(q2) \subseteq Ops(q)
          /\ Ops(q3) \subseteq Ops(q) /\ Ops(q4) \subseteq Ops(q)
      BY <1>6, <1>7, <1>8
    <2>2. /\ \E o \in Ops(q1) : o.do \in {"put", "store"} /\ h \in o.at
          /\ \E o \in Ops(q2) : o.do \in {"put", "store"} /\ k \in o.at
          /\ \E o \in Ops(q3) : o.do \in {"put", "store"} /\ x \in o.at
          /\ \E o \in Ops(q4) : o.do \in {"put", "store"} /\ s \in o.at
      BY <1>3 DEF Sets
    <2> QED  BY <2>1, <2>2
  <1>11. Gives(q, h, y) /\ Gives(q, x, z) /\ Gives(q, s, e) /\ Gives(q, k, e)
    BY <1>2, <1>9, <1>10 DEF Gives
  <1>12. \A m, n \in DOMAIN q :
           s \in q[m].at /\ m <= n => \A w \in Entry(e) : w \notin q[n].at
    <2>1. PICK a, b : a = Len(o3) /\ b = Len(q4)  OBVIOUS
    <2>2. /\ a \in Nat /\ b \in Nat /\ DOMAIN o3 = 1 .. a /\ DOMAIN q4 = 1 .. b
          /\ DOMAIN q = 1 .. a + b
          /\ \A n \in 1 .. a + b : q[n] = IF n \in DOMAIN o3 THEN o3[n] ELSE q4[n - a]
      BY <1>5, <1>7, <2>1, Joined DEF q
    <2>3. \A o \in Ops(o3) : s \notin o.at
      <3>1. \A o \in Ops(o3) : o.at = {h} \/ o.at = {k} \/ o.at = {x}
        BY <1>3, <1>6, <1>7 DEF Sets
      <3> QED  BY <1>2, <3>1
    <2>4. \A o \in Ops(q4) : \A w \in Entry(e) : w \notin o.at
      <3>1. \A o \in Ops(q4) : o.at = {s}  BY <1>3 DEF Sets
      <3> QED  BY <1>2, <1>4, <3>1
    <2>5. SUFFICES ASSUME NEW m \in DOMAIN q, NEW n \in DOMAIN q, s \in q[m].at, m <= n
                   PROVE  \A w \in Entry(e) : w \notin q[n].at
      OBVIOUS
    <2>6. m \notin DOMAIN o3  BY <2>2, <2>3, <2>5 DEF Ops
    <2>7. n \notin DOMAIN o3 /\ n - a \in DOMAIN q4  BY <2>2, <2>5, <2>6
    <2>8. q[n] \in Ops(q4)  BY <2>2, <2>5, <2>7 DEF Ops
    <2> QED  BY <2>4, <2>8
  <1>13. \A o \in Ops(q) : o.do # "apply"  BY <1>9
  <1> QED  BY <1>1, <1>4, <1>11, <1>12, <1>13

\* The redo file's operations: the slot and the count are logged only, the key is logged
\* whatever else is stored in it, and the COMMIT is the last.
LEMMA LinkRedoGives ==
  ASSUME NEW e, NEW s, s \notin Entry(e)
  PROVE  LET q == LinkRedo(e, s)
         IN /\ GivesLink(q, e, s)
            /\ \A n \in DOMAIN q : q[n].do = "apply" => n = Len(q)
            /\ \A o \in Ops(q) : s \in o.at => o.do = "store"
            /\ \A o \in Ops(q) : o.do = "store" /\ Key(e) \in o.at => o.val = e
            /\ \E o \in Ops(q) : o.do = "store" /\ Key(e) \in o.at
  <1> DEFINE h == HashIn(e)
             k == Key(e)
             x == NextOf(e)
             y == hash[e]
             z == now[s]
             p1 == STORE(h, y)
             p2 == Put(k, 0)
             p3 == STORE(k, e)
             p4 == Put(k, e)
             p5 == STORE(x, z)
             p6 == STORE(s, e)
             o2 == p1 \o p2
             o3 == o2 \o p3
             o4 == o3 \o p4
             o5 == o4 \o p5
             o6 == o5 \o p6
             q == o6 \o COMMIT
  <1>1. LinkRedo(e, s) = q  BY DEF LinkRedo
  <1>2. h # k /\ h # x /\ k # x /\ s # h /\ s # k /\ s # x
    BY WordsDiffer DEF Entry
  <1>3. /\ IsSeq(p1) /\ Ops(p1) = {[do |-> "store", at |-> {h}, val |-> y]}
        /\ IsSeq(p2) /\ Ops(p2) = {[do |-> "put", at |-> {k}, val |-> 0]}
        /\ IsSeq(p3) /\ Ops(p3) = {[do |-> "store", at |-> {k}, val |-> e]}
        /\ IsSeq(p4) /\ Ops(p4) = {[do |-> "put", at |-> {k}, val |-> e]}
        /\ IsSeq(p5) /\ Ops(p5) = {[do |-> "store", at |-> {x}, val |-> z]}
        /\ IsSeq(p6) /\ Ops(p6) = {[do |-> "store", at |-> {s}, val |-> e]}
        /\ IsSeq(COMMIT) /\ Ops(COMMIT) = {[do |-> "apply", at |-> {}, val |-> 0]}
    BY Zenon, Operations
  <1>4. /\ GivesLink(q, e, s) <=> Gives(q, h, y) /\ Gives(q, x, z) /\ Gives(q, s, e)
        /\ Key(e) = k
    BY DEF GivesLink
  <1> HIDE DEF h, k, x, y, z, p1, p2, p3, p4, p5, p6, o2, o3, o4, o5, o6, q
  <1>17. /\ IsSeq(p1) /\ IsSeq(p2) /\ IsSeq(p3)
         /\ IsSeq(p4) /\ IsSeq(p5) /\ IsSeq(p6) /\ IsSeq(COMMIT)
    BY Zenon, <1>3
  <1>5. IsSeq(o2) /\ Ops(o2) = Ops(p1) \cup Ops(p2)  BY Zenon, <1>17, OpsJoined DEF o2
  <1>6. IsSeq(o3) /\ Ops(o3) = Ops(o2) \cup Ops(p3)  BY Zenon, <1>17, <1>5, OpsJoined DEF o3
  <1>7. IsSeq(o4) /\ Ops(o4) = Ops(o3) \cup Ops(p4)  BY Zenon, <1>17, <1>6, OpsJoined DEF o4
  <1>8. IsSeq(o5) /\ Ops(o5) = Ops(o4) \cup Ops(p5)  BY Zenon, <1>17, <1>7, OpsJoined DEF o5
  <1>9. IsSeq(o6) /\ Ops(o6) = Ops(o5) \cup Ops(p6)  BY Zenon, <1>17, <1>8, OpsJoined DEF o6
  <1>10. IsSeq(q) /\ Ops(q) = Ops(o6) \cup Ops(COMMIT)  BY Zenon, <1>17, <1>9, OpsJoined DEF q
  <1>11. \A o \in Ops(o6) :
           \/ o.do = "store" /\ o.at = {h} /\ o.val = y
           \/ o.do = "put" /\ o.at = {k}
           \/ o.do = "store" /\ o.at = {k} /\ o.val = e
           \/ o.do = "store" /\ o.at = {x} /\ o.val = z
           \/ o.do = "store" /\ o.at = {s} /\ o.val = e
    <2>1. TAKE o \in Ops(o6)
    <2>2. \/ o \in Ops(p1) \/ o \in Ops(p2) \/ o \in Ops(p3) \/ o \in Ops(p4) \/ o \in Ops(p5)
          \/ o \in Ops(p6)
      BY <1>5, <1>6, <1>7, <1>8, <1>9
    <2> QED  BY <1>3, <2>2
  <1>12. \A o \in Ops(COMMIT) : o.do = "apply" /\ o.at = {}  BY <1>3
  <1>13. /\ \E o \in Ops(q) : o.do = "store" /\ h \in o.at
         /\ \E o \in Ops(q) : o.do = "store" /\ k \in o.at
         /\ \E o \in Ops(q) : o.do = "store" /\ x \in o.at
         /\ \E o \in Ops(q) : o.do = "store" /\ s \in o.at
    <2>1. /\ Ops(p1) \subseteq Ops(q) /\ Ops(p3) \subseteq Ops(q)
          /\ Ops(p5) \subseteq Ops(q) /\ Ops(p6) \subseteq Ops(q)
      BY <1>5, <1>6, <1>7, <1>8, <1>9, <1>10
    <2>2. /\ \E o \in Ops(p1) : o.do = "store" /\ h \in o.at
          /\ \E o \in Ops(p3) : o.do = "store" /\ k \in o.at
          /\ \E o \in Ops(p5) : o.do = "store" /\ x \in o.at
          /\ \E o \in Ops(p6) : o.do = "store" /\ s \in o.at
      BY <1>3
    <2> QED  BY <2>1, <2>2
  <1>14. Gives(q, h, y) /\ Gives(q, x, z) /\ Gives(q, s, e)
    BY <1>2, <1>10, <1>11, <1>12, <1>13 DEF Gives
  <1>15. /\ \A o \in Ops(q) : s \in o.at => o.do = "store"
         /\ \A o \in Ops(q) : o.do = "store" /\ k \in o.at => o.val = e
    BY <1>2, <1>10, <1>11, <1>12
  <1>16. \A n \in DOMAIN q : q[n].do = "apply" => n = Len(q)
    <2>1. PICK a, b, c : a = Len(o6) /\ b = Len(COMMIT) /\ c = COMMIT  OBVIOUS
    <2>2. /\ a \in Nat /\ b \in Nat /\ DOMAIN o6 = 1 .. a /\ DOMAIN c = 1 .. b
          /\ DOMAIN q = 1 .. a + b
          /\ \A n \in 1 .. a + b : q[n] = IF n \in DOMAIN o6 THEN o6[n] ELSE c[n - a]
      BY <1>3, <1>9, <2>1, Joined DEF q
    <2>3. b = 1  BY <2>1 DEF COMMIT
    <2>4. Len(q) = a + 1
      <3>1. PICK S : q \in Seq(S)  BY <1>10 DEF IsSeq
      <3>2. DOMAIN q = 1 .. Len(q) /\ Len(q) \in Nat  BY <3>1
      <3> QED  BY <2>2, <2>3, <3>2
    <2>5. \A n \in DOMAIN o6 : o6[n].do # "apply"  BY <1>11 DEF Ops
    <2>6. \A n \in DOMAIN q : n \in DOMAIN o6 \/ n = a + 1  BY <2>2, <2>3
    <2>7. \A n \in DOMAIN o6 : q[n] = o6[n]  BY <2>2, <2>3
    <2> QED  BY <2>4, <2>5, <2>6, <2>7
  <1> QED  BY <1>1, <1>4, <1>13, <1>14, <1>15, <1>16

\* A word that is not in the redo log ends with what the call gives it.
LEMMA NewEnds ==
  ASSUME NEW w, NEW v, UNCHANGED memory, w \notin DOMAIN buf, Gives(todo', w, v)
  PROVE  Ends(w, v)'
  BY DEF Ends, Gives, memory

\* The slot of an item before it is linked is the one in the first table.
LEMMA SlotIs ==
  ASSUME Tidy, todo = <<>>, pc = "alloc"  PROVE SlotFor(item) = SlotOf(item)
  <1>1. PICK t : t = FirstTable  OBVIOUS
  <1>2. Ends(Table, t) /\ Ends(TableLength, Primes[t])
    BY <1>1 DEF Tidy, InFirstTable
  <1>3. LOAD(Table) = t /\ LOAD(TableLength) = Primes[t]  BY <1>2, EndsNow
  <1>4. ASSUME NEW w \in {Table, TableLength}, w # Table \/ build = "obj"
        PROVE  w \notin DOMAIN buf
    <2>1. w \in Words /\ w # EntryCount  BY WordsOf, FiveWords DEF Header
    <2>2. EndsWell(w)  BY <1>4, <2>1 DEF Tidy, AllEndWell
    <2> QED  BY <2>2, CallOver DEF Settled
  <1>5. Table \notin DOMAIN buf /\ TableLength \notin DOMAIN buf
    BY <1>4, FiveWords DEF Tidy, TableOnlyPut
  <1>6. now[Table] = t /\ now[TableLength] = Primes[t]  BY <1>3, <1>5 DEF LOAD
  <1> QED  BY <1>1, <1>6 DEF SlotFor, SlotOf, Bucket

\* hashtable_insert links the entry of the item, or finds no memory for it.
LEMMA ChainLink ==
  ASSUME ChainInv, LinkEntry, build # "nv", torn' = {}  PROVE Chaining'
  <1>1. /\ pc = "alloc" /\ todo = <<>> /\ UNCHANGED <<memory, hash, build, item>>
    BY DEF LinkEntry, At, Same
  <1>2. torn = {} /\ ~ (torn' = torn \cup {"oom"})  BY DEF LinkEntry
  <1>3. Chaining /\ Place /\ Tidy
    <2>1. /\ Chaining /\ MemOK /\ Place
          /\ pc \in {"create", "insert", "grow", "alloc", "linked"} => Tidy
      BY Zenon, <1>2, ChainParts
    <2> QED  BY <1>1, <2>1
  <1>4. PICK i : i = item /\ i = item'  BY <1>1
  <1>5. /\ i \in Items /\ Standing(i, Buckets) /\ hash \in [Items -> Nat]
        /\ hash' \in [Items -> Nat] /\ item' <= ITEM_COUNT + 1
        /\ build = "redo" => RedoCounts(i)
        /\ build \in {"obj", "word", "redo"}
    BY <1>1, <1>3, <1>4 DEF Chaining, Stopped, Tidy, Place
  <1>6. CASE pc' = "oom" /\ todo' = CountBack /\ build # "redo"
    <2>1. todo' = Logged(EntryCount, now[EntryCount] - 1)  BY <1>5, <1>6 DEF CountBack
    <2>2. \A w : w \notin {EntryCount} => Untouched(todo', w)  BY <2>1, LoggedCloses
    <2>3. Standing(i, Buckets)'  BY <1>1, <1>5, <2>2, CountStanding
    <2> QED  BY <1>4, <1>5, <1>6, <2>3 DEF Chaining, Stopped
  <1>7. CASE pc' = "linked" /\ todo' = Link(item, SlotFor(item))
    <2>1. PICK s, b, x : s = SlotOf(i) /\ b = Bucket(i) /\ x = FrontOf(i - 1, b)  OBVIOUS
    <2>2. s = SlotOf(i)' /\ b = Bucket(i)' /\ x = FrontOf(i - 1, b)'
      BY <1>1, <2>1, SameHash
    <2>3. todo' = Link(i, s)  BY <1>1, <1>3, <1>4, <1>7, <2>1, SlotIs
    <2>4. b \in Buckets /\ s \in Words /\ s \notin Header /\ s \notin Entry(i)
      BY <1>5, <2>1, BucketIs
    <2>5. \A w \in Entry(i) \cup {s} : w \notin DOMAIN buf
      <3>1. ASSUME NEW w \in Entry(i) \cup {s}
            PROVE  w \in Words /\ w # EntryCount /\ w # Table
        BY <1>5, <2>4, WordsOf, WordsDiffer DEF Header
      <3> QED  BY <1>1, <1>3, <3>1, CallOver DEF Tidy, AllEndWell, Settled
    <2>6. Within(s, {x}) /\ Holds(s, x) /\ now[s] = x
      <3>1. Within(s, {x})  BY <1>5, <2>1, <2>4 DEF Standing, SlotOf
      <3> QED  BY <3>1, WithinHolds DEF Holds
    <2>7. /\ GivesLink(todo', i, s)
          /\ build # "redo" => Gives(todo', Key(i), i)
          /\ \A w : w \notin Entry(i) \cup {s} => Untouched(todo', w)
      <3>1. CASE build = "obj"
        <4>1. todo' = LinkObj(i, s)  BY <2>3, <3>1 DEF Link
        <4> QED  BY <2>1, <2>4, <4>1, LinkObjGives, LinkObjDoes DEF SlotOf
      <3>2. CASE build = "word"
        <4>1. todo' = LinkWord(i, s)  BY <2>3, <3>2 DEF Link
        <4>2. i # 0  BY <1>5, TransAssumption DEF Items
        <4> QED  BY <2>1, <2>4, <4>1, <4>2, LinkWordGives, LinkWordDoes DEF SlotOf
      <3>3. CASE build = "redo"
        <4>1. todo' = LinkRedo(i, s)  BY <2>3, <3>3 DEF Link
        <4> QED  BY <2>4, <3>3, <4>1, LinkRedoGives, LinkRedoDoes
      <3> QED  BY <1>5, <3>1, <3>2, <3>3
    <2>8. EntryEnds(i)' /\ Ends(SlotOf(i), i)'
      <3>1. PICK y : y = hash[i] /\ y = hash'[i]  BY <1>1
      <3>2. /\ Gives(todo', HashIn(i), y) /\ Gives(todo', NextOf(i), x) /\ Gives(todo', s, i)
            /\ build # "redo" => Gives(todo', Key(i), i)
        BY <2>6, <2>7, <3>1 DEF GivesLink
      <3>3. \A w \in {Key(i), HashIn(i), NextOf(i), s} : w \notin DOMAIN buf
        BY <2>5 DEF Entry
      <3>4. /\ Ends(HashIn(i), y)' /\ Ends(NextOf(i), x)' /\ Ends(s, i)'
            /\ build # "redo" => Ends(Key(i), i)'
        BY <1>1, <3>2, <3>3, NewEnds
      <3> QED  BY <1>1, <2>2, <3>1, <3>4 DEF EntryEnds
    <2>9. Standing(i, Buckets \ {b})'
      <3>1. PICK J : J = Buckets \ {b}  OBVIOUS
      <3>2. PICK T : T = Entry(i) \cup {s}  OBVIOUS
      <3>3. J \subseteq Buckets /\ Standing(i, J)  BY <1>5, <3>1 DEF Standing
      <3>4. \A w : w \notin T => Untouched(todo', w)  BY <2>7, <3>2
      <3>5. TableLength \notin T
        <4>1. TableLength \in Header  BY DEF Header
        <4> QED  BY <2>4, <3>2, <4>1, WordsDiffer
      <3>6. \A j \in J : Slot(FirstTable, j) \notin T
        <4>1. TAKE j \in J
        <4>2. Slot(FirstTable, j) \notin Entry(i)  BY WordsDiffer
        <4>3. Slot(FirstTable, j) # s  BY <2>1, <3>1 DEF SlotOf, Slot
        <4> QED  BY <3>2, <4>2, <4>3
      <3>7. \A e \in Items : e < i => Entry(e) \cap T = {}
        <4>1. SUFFICES ASSUME NEW e \in Items, e < i  PROVE Entry(e) \cap T = {}
          OBVIOUS
        <4>2. e # i  BY <1>5, <4>1, TransAssumption DEF Items
        <4>3. Entry(e) \cap Entry(i) = {}  BY <4>2, EntriesDiffer
        <4>4. s \notin Entry(e)  BY <2>1, WordsDiffer DEF SlotOf
        <4> QED  BY <3>2, <4>3, <4>4
      <3>8. Standing(i, J)'  BY <1>1, <3>3, <3>4, <3>5, <3>6, <3>7, CallStanding
      <3> QED  BY <2>2, <3>1, <3>8 DEF Buckets
    <2>10. build = "word" => WordLinks(i)'
      <3>1. SUFFICES ASSUME build = "word"  PROVE WordLinks(i)'  OBVIOUS
      <3>2. todo' = LinkWord(i, s)  BY <2>3, <3>1 DEF Link
      <3>3. /\ \A o \in Ops(todo') : o.do # "apply"
            /\ \A m, n \in DOMAIN todo' :
                 s \in todo'[m].at /\ m <= n => \A w \in Entry(i) : w \notin todo'[n].at
        BY <2>4, <3>2, LinkWordGives
      <3>4. PICK R : R = {x, i}  OBVIOUS
      <3>5. Within(s, R)  BY <2>6, <3>4, WithinMore
      <3>6. \A o \in Ops(todo') : o.do \in {"put", "store"} /\ s \in o.at => o.val \in R
        BY <2>7, <3>4 DEF GivesLink, Gives
      <3>7. Within(s, R)'  BY <1>1, <3>5, <3>6, NewWithin
      <3>8. Holds(s, x)'  BY <1>1, <2>6 DEF Holds, memory
      <3> QED  BY <2>2, <3>3, <3>4, <3>7, <3>8 DEF WordLinks
    <2>11. build = "redo" => RedoLinks(i)'
      <3>1. SUFFICES ASSUME build = "redo"  PROVE RedoLinks(i)'  OBVIOUS
      <3>2. todo' = LinkRedo(i, s)  BY <2>3, <3>1 DEF Link
      <3>3. /\ \A n \in DOMAIN todo' : todo'[n].do = "apply" => n = Len(todo')
            /\ \A o \in Ops(todo') : s \in o.at => o.do = "store"
            /\ \A o \in Ops(todo') : o.do = "store" /\ Key(i) \in o.at => o.val = i
            /\ \E o \in Ops(todo') : o.do = "store" /\ Key(i) \in o.at
        BY <2>4, <3>2, LinkRedoGives
      <3>4. \A o \in Ops(todo') : EntryCount \notin o.at
        <4>1. EntryCount \in Header  BY DEF Header
        <4>2. EntryCount \notin Entry(i) \cup {s}  BY <2>4, <4>1, WordsDiffer
        <4> QED  BY <2>7, <4>2 DEF Untouched
      <3>5. Holds(s, x)' /\ Holds(EntryCount, i - 1)'
        BY <1>1, <1>5, <2>6, <3>1 DEF RedoCounts, Holds, memory
      <3>6. Key(i) \notin DOMAIN buf'  BY <1>1, <2>5 DEF Entry, memory
      <3>7. Logs(Key(i), i)'  BY <3>3, <3>6 DEF Logs
      <3> QED  BY <2>2, <3>3, <3>4, <3>5, <3>7 DEF RedoLinks
    <2>12. Linking(i)'  BY <1>1, <1>5, <2>8, <2>10, <2>11 DEF Linking
    <2> QED  BY <1>4, <1>5, <1>7, <2>2, <2>9, <2>12 DEF Chaining, Stopped
  <1> QED  BY <1>2, <1>6, <1>7 DEF LinkEntry

\* exit() without memory.
LEMMA ChainExit ==
  ASSUME ChainInv, Exit, build # "nv", torn = {}  PROVE Chaining'
  <1>1. Chaining /\ Place
    <2>1. /\ Chaining /\ MemOK /\ Place
          /\ pc \in {"create", "insert", "grow", "alloc", "linked"} => Tidy
      BY Zenon, ChainParts
    <2> QED  BY <2>1
  <1>2. pc # "remove"  BY <1>1 DEF Place
  <1>3. /\ pc = "oom" /\ pc' = "failed"
        /\ UNCHANGED <<memory, todo, hash, build, item>>
    BY <1>2 DEF Exit, At, Same
  <1>4. PICK i : i = item /\ i = item'  BY <1>3
  <1>5. Standing(i, Buckets)  BY <1>1, <1>3, <1>4 DEF Chaining, Stopped
  <1>6. Standing(i, Buckets)'  BY <1>3, <1>5, SameStanding
  <1> QED  BY <1>1, <1>3, <1>4, <1>6 DEF Chaining, Stopped

-----------------------------------------------------------------------------
(* The chains after a stop                                                    *)

\* A stop leaves v where the memory and an open transaction have nothing else.
LEMMA CrashHolds ==
  ASSUME Crash, NEW w \in Words, NEW v, Holds(w, v)
  PROVE  now'[w] = v
  <1>1. media[w] = {v} /\ (w \in DOMAIN undo => undo[w] = v)  BY DEF Holds
  <1>2. PICK R : R = {v}  OBVIOUS
  <1>3. media[w] # {} /\ media[w] \subseteq R /\ (w \in DOMAIN undo => undo[w] \in R)
    BY <1>1, <1>2
  <1>4. now'[w] \in R  BY <1>3, CrashLeaves
  <1> QED  BY <1>2, <1>4

\* A stop leaves the entries that are in the table.
LEMMA CrashEntry ==
  ASSUME Crash, NEW e \in Items, EntryIs(e)
  PROVE  EntryNow(e)'
  <1>1. hash' = hash  BY DEF Crash
  <1>2. PICK y, z : y = hash[e] /\ z = FrontOf(e - 1, Bucket(e))  OBVIOUS
  <1>3. y = hash'[e] /\ z = FrontOf(e - 1, Bucket(e))'  BY <1>1, <1>2, SameHash
  <1>4. Holds(Key(e), e) /\ Holds(HashIn(e), y) /\ Holds(NextOf(e), z)
    BY <1>2, WithinHolds DEF EntryIs
  <1>5. Key(e) \in Words /\ HashIn(e) \in Words /\ NextOf(e) \in Words
    BY WordsOf DEF Entry
  <1>6. now'[Key(e)] = e /\ now'[HashIn(e)] = y /\ now'[NextOf(e)] = z
    BY <1>1, <1>4, <1>5, CrashHolds
  <1> QED  BY <1>3, <1>6 DEF EntryNow

\* A stop leaves the entries and chains that stand.
LEMMA CrashStanding ==
  ASSUME Crash, NEW i, NEW J, J \subseteq Buckets, Standing(i, J)
  PROVE  /\ now'[TableLength] \in {0, Primes[FirstTable]}
         /\ \A e \in Items : e < i => EntryNow(e)'
         /\ \A j \in J : now'[Slot(FirstTable, j)] = FrontOf(i - 1, j)'
  <1>1. hash' = hash  BY DEF Crash
  <1>2. now'[TableLength] \in {0, Primes[FirstTable]}
    <2>1. TableLength \in Words  BY WordsOf DEF Header
    <2>2. PICK R : R = {0, Primes[FirstTable]}  OBVIOUS
    <2>3. Within(TableLength, R)  BY <2>2 DEF Standing
    <2>4. now'[TableLength] \in R  BY <2>1, <2>3, CrashWithin
    <2> QED  BY <2>2, <2>4
  <1>3. \A e \in Items : e < i => EntryNow(e)'  BY CrashEntry DEF Standing
  <1>4. ASSUME NEW j \in J  PROVE now'[Slot(FirstTable, j)] = FrontOf(i - 1, j)'
    <2>1. PICK s, x : s = Slot(FirstTable, j) /\ x = FrontOf(i - 1, j)  OBVIOUS
    <2>2. x = FrontOf(i - 1, j)'  BY <1>1, <2>1, SameHash
    <2>3. s \in Words  BY <2>1, WordsOf DEF Buckets
    <2>4. Holds(s, x)  BY <2>1, WithinHolds DEF Standing
    <2>5. now'[s] = x  BY <2>3, <2>4, CrashHolds
    <2> QED  BY <2>1, <2>2, <2>5
  <1> QED  BY <1>2, <1>3, <1>4

\* A stop while an item is linked: its chain is as before, or has its entry in front.
LEMMA CrashLinking ==
  ASSUME ChainInv, Crash, build # "nv", torn = {}, pc = "linked", NEW i, i = item
  PROVE  build # "obj" =>
           \/ /\ now'[SlotOf(i)] = FrontOf(i - 1, Bucket(i))
              /\ build = "redo" => now'[EntryCount] = i - 1
           \/ now'[SlotOf(i)] = i /\ EntryNow(i)' /\ (build = "redo" => now'[EntryCount] = i)
  <1>1. Chaining /\ Tidy /\ Counting /\ build \in {"obj", "word", "redo"}
    <2>1. /\ Chaining /\ MemOK /\ Place /\ Counting
          /\ pc \in {"create", "insert", "grow", "alloc", "linked"} => Tidy
      BY Zenon, ChainParts
    <2> QED  BY <2>1 DEF Place
  <1>2. hash \in [Items -> Nat] /\ Linking(i) /\ i \in Items
    BY <1>1 DEF Chaining, Linking
  <1>3. PICK s, x : s = SlotOf(i) /\ x = FrontOf(i - 1, Bucket(i))  OBVIOUS
  <1>4. s \in Words /\ s \notin Header /\ EntryCount \in Words
    BY <1>2, <1>3, BucketIs, WordsOf DEF Header
  <1>5. ASSUME build = "word"
        PROVE  now'[s] = x \/ (now'[s] = i /\ EntryNow(i)')
    <2>1. Within(s, {x, i}) /\ (Holds(s, x) \/ EntryIs(i))
      BY <1>2, <1>3, <1>5 DEF Linking, WordLinks
    <2>2. CASE Holds(s, x)  BY <1>4, <2>2, CrashHolds
    <2>3. CASE EntryIs(i)
      <3>1. PICK R : R = {x, i}  OBVIOUS
      <3>2. now'[s] \in R  BY <1>4, <2>1, <3>1, CrashWithin
      <3>3. EntryNow(i)'  BY <1>2, <2>3, CrashEntry
      <3> QED  BY <3>1, <3>2, <3>3
    <2> QED  BY <2>1, <2>2, <2>3
  <1>6. ASSUME build = "redo"
        PROVE  \/ now'[s] = x /\ now'[EntryCount] = i - 1
               \/ now'[s] = i /\ EntryNow(i)' /\ now'[EntryCount] = i
    <2>1. \/ Holds(s, x) /\ Holds(EntryCount, i - 1)
          \/ todo = <<>>
      BY <1>2, <1>3, <1>6 DEF Linking, RedoLinks
    <2>2. CASE Holds(s, x) /\ Holds(EntryCount, i - 1)  BY <1>4, <2>2, CrashHolds
    <2>3. CASE todo = <<>>
      <3>1. \A w \in Entry(i) \cup {s} : EndsWell(w)
        <4>1. \A w \in Entry(i) \cup {s} : w \in Words /\ w \notin Header
          BY <1>2, <1>4, WordsOf, WordsDiffer
        <4> QED  BY <1>1, <4>1 DEF Tidy, AllEndWell, Header
      <3>2. EntryIs(i) /\ Within(s, {i})  BY <1>2, <1>3, <2>3, <3>1, LinkedIs
      <3>3. Within(EntryCount, {i})
        <4>1. EndsWell(EntryCount) /\ Ends(EntryCount, i)  BY <1>1 DEF Counting
        <4> QED  BY <2>3, <4>1, CallEnded
      <3>4. Holds(s, i) /\ Holds(EntryCount, i)  BY <3>2, <3>3, WithinHolds
      <3>5. now'[s] = i /\ now'[EntryCount] = i  BY <1>4, <3>4, CrashHolds
      <3> QED  BY <1>2, <3>2, <3>5, CrashEntry
    <2> QED  BY <2>1, <2>2, <2>3
  <1> QED  BY <1>1, <1>3, <1>5, <1>6

\* A stop of the machine.
LEMMA ChainCrash ==
  ASSUME ChainInv, Crash, build # "nv", torn = {}  PROVE Chaining'
  <1>1. /\ pc \notin {"crashed", "restarted", "lost", "overrun"}
        /\ pc' = "crashed" /\ todo' = <<>> /\ build' = build /\ item' = item /\ hash' = hash
    BY DEF Crash
  <1>2. Chaining /\ Place /\ Counting /\ ~Stopped
    <2>1. /\ Chaining /\ MemOK /\ Place /\ Counting
          /\ pc \in {"create", "insert", "grow", "alloc", "linked"} => Tidy
      BY Zenon, ChainParts
    <2> QED  BY <1>1, <2>1 DEF Stopped
  <1>3. PICK i : i = item /\ i = item'  BY <1>1
  <1>4. PICK b, c : b = Bucket(i) /\ c = EntryCount  OBVIOUS
  <1>5. /\ b = Bucket(i)' /\ SlotOf(i)' = SlotOf(i)
        /\ FrontOf(i - 1, Bucket(i))' = FrontOf(i - 1, Bucket(i))
    BY <1>1, <1>4, SameHash
  <1>6. CASE pc = "linked"
    <2>1. i \in Items /\ Standing(i, Buckets \ {b})
      BY <1>2, <1>3, <1>4, <1>6 DEF Chaining, Linking
    <2>2. PICK J : J = Buckets \ {b}  OBVIOUS
    <2>3. /\ now'[TableLength] \in {0, Primes[FirstTable]}
          /\ \A e \in Items : e < i => EntryNow(e)'
          /\ \A j \in J : now'[Slot(FirstTable, j)] = FrontOf(i - 1, j)'
      BY <2>1, <2>2, CrashStanding
    <2>4. build # "obj" =>
           \/ /\ now'[SlotOf(i)] = FrontOf(i - 1, Bucket(i))
              /\ build = "redo" => now'[EntryCount] = i - 1
           \/ now'[SlotOf(i)] = i /\ EntryNow(i)' /\ (build = "redo" => now'[EntryCount] = i)
      BY Zenon, <1>3, <1>6, CrashLinking
    <2>5. \A j \in Buckets : j # b => j \in J  BY <2>2
    <2>6. /\ now'[TableLength] \in {0, Primes[FirstTable]}
          /\ \A e \in Items : e < i => EntryNow(e)'
          /\ \A j \in Buckets : j # Bucket(i)' => now'[Slot(FirstTable, j)] = FrontOf(i - 1, j)'
          /\ build' # "obj" =>
               \/ /\ now'[SlotOf(i)'] = FrontOf(i - 1, Bucket(i))'
                  /\ build' = "redo" => now'[EntryCount] = i - 1
               \/ now'[SlotOf(i)'] = i /\ EntryNow(i)' /\ (build' = "redo" => now'[EntryCount] = i)
      BY <1>1, <1>4, <1>5, <2>3, <2>4, <2>5
    <2>7. Recovered(i)'  BY <2>1, <2>6 DEF Recovered, Buckets
    <2> QED  BY <1>1, <1>2, <1>3, <2>7 DEF Chaining, Stopped
  <1>7. CASE pc # "linked"
    <2>1. Standing(i, Buckets)  BY <1>2, <1>3, <1>7 DEF Chaining
    <2>2. /\ now'[TableLength] \in {0, Primes[FirstTable]}
          /\ \A e \in Items : e < i => EntryNow(e)'
          /\ \A j \in Buckets : now'[Slot(FirstTable, j)] = FrontOf(i - 1, j)'
      BY <2>1, CrashStanding
    <2>3. build = "redo" => now'[EntryCount] = i - 1
      <3>1. SUFFICES ASSUME build = "redo"  PROVE now'[EntryCount] = i - 1  OBVIOUS
      <3>2. pc \in {"create", "insert", "search", "grow", "alloc"}
        BY <1>1, <1>2, <1>7, <3>1 DEF ChainInv, Place, Points
      <3>3. Holds(EntryCount, i - 1)
        <4>1. CASE pc \in {"create", "insert", "search"}
          <5>1. Within(EntryCount, {i - 1})  BY <1>2, <1>3, <4>1 DEF Counting
          <5> QED  BY <5>1, WithinHolds
        <4>2. CASE pc \in {"grow", "alloc"}
          BY <1>2, <1>3, <3>1, <4>2 DEF Chaining, RedoCounts
        <4> QED  BY <3>2, <4>1, <4>2
      <3>4. EntryCount \in Words  BY WordsOf DEF Header
      <3> QED  BY <3>3, <3>4, CrashHolds
    <2>4. i \in Items => b \in Buckets  BY <1>2, <1>4, BucketIs DEF Chaining
    <2>5. i \in Items => now'[SlotOf(i)'] = FrontOf(i - 1, Bucket(i))'
      <3>1. SUFFICES ASSUME i \in Items
                     PROVE  now'[SlotOf(i)'] = FrontOf(i - 1, Bucket(i))'
        OBVIOUS
      <3>2. SlotOf(i)' = Slot(FirstTable, b)  BY <1>4, <1>5 DEF SlotOf
      <3>3. now'[Slot(FirstTable, b)] = FrontOf(i - 1, b)'  BY <2>2, <2>4, <3>1
      <3>4. FrontOf(i - 1, b)' = FrontOf(i - 1, Bucket(i))'  BY <1>1, <1>4, <1>5, SameHash
      <3> QED  BY <3>2, <3>3, <3>4
    <2>6. Recovered(i)'  BY <1>1, <2>2, <2>3, <2>5 DEF Recovered, Buckets
    <2> QED  BY <1>1, <1>2, <1>3, <2>6 DEF Chaining, Stopped
  <1> QED  BY <1>6, <1>7

\* What is left by a stop does not depend on h->table.
LEMMA RecoveredKept ==
  ASSUME hash' = hash, build' = build, \A w \in Words \ {Table} : now'[w] = now[w],
         hash \in [Items -> Nat], NEW i, Recovered(i)
  PROVE  Recovered(i)'
  <1>1. /\ \A n, j : FrontOf(n, j)' = FrontOf(n, j)
        /\ \A e : Bucket(e)' = Bucket(e) /\ SlotOf(e)' = SlotOf(e)
    BY SameHash
  <1>2. now'[TableLength] = now[TableLength] /\ now'[EntryCount] = now[EntryCount]
    BY WordsOf, FiveWords DEF Header
  <1>3. ASSUME NEW e \in Items, EntryNow(e)  PROVE EntryNow(e)'
    <2>1. \A w \in Entry(e) : w \in Words \ {Table}  BY WordsOf, WordsDiffer DEF Header
    <2>2. /\ now'[Key(e)] = now[Key(e)] /\ now'[HashIn(e)] = now[HashIn(e)]
          /\ now'[NextOf(e)] = now[NextOf(e)]
      BY <2>1 DEF Entry
    <2>3. PICK z : z = FrontOf(e - 1, Bucket(e)) /\ z = FrontOf(e - 1, Bucket(e))'  BY <1>1
    <2>4. now[Key(e)] = e /\ now[HashIn(e)] = hash[e] /\ now[NextOf(e)] = z
      BY <1>3, <2>3 DEF EntryNow
    <2> QED  BY <2>2, <2>3, <2>4 DEF EntryNow
  <1>4. \A j \in Buckets : now'[Slot(FirstTable, j)] = now[Slot(FirstTable, j)]
    <2>1. TAKE j \in Buckets
    <2>2. Slot(FirstTable, j) \in Words  BY WordsOf DEF Buckets
    <2>3. Slot(FirstTable, j) # Table  BY WordsDiffer DEF Header
    <2> QED  BY <2>2, <2>3
  <1>5. \A j \in Buckets : ~ (i \in Items /\ j = Bucket(i)) =>
          now'[Slot(FirstTable, j)] = FrontOf(i - 1, j)'
    BY <1>1, <1>4 DEF Recovered
  <1>6. i \in Items => now'[SlotOf(i)] = now[SlotOf(i)]
    <2>1. i \in Items => SlotOf(i) \in Words /\ SlotOf(i) # Table  BY BucketIs DEF Header
    <2> QED  BY <2>1
  <1>7. PICK s, x : /\ s = SlotOf(i) /\ s = SlotOf(i)'
                    /\ x = FrontOf(i - 1, Bucket(i)) /\ x = FrontOf(i - 1, Bucket(i))'
    BY <1>1
  <1>8. i \in Items /\ build # "obj" =>
          \/ now'[s] = x /\ (build = "redo" => now'[EntryCount] = i - 1)
          \/ now'[s] = i /\ EntryNow(i)' /\ (build = "redo" => now'[EntryCount] = i)
    <2>1. i \in Items /\ build # "obj" =>
            \/ now[s] = x /\ (build = "redo" => now[EntryCount] = i - 1)
            \/ now[s] = i /\ EntryNow(i) /\ (build = "redo" => now[EntryCount] = i)
      BY <1>7 DEF Recovered
    <2> QED  BY <1>2, <1>3, <1>6, <1>7, <2>1
  <1>9. /\ now'[TableLength] \in {0, Primes[FirstTable]}
        /\ \A e \in Items : e < i => EntryNow(e)'
        /\ i \notin Items /\ build = "redo" => now'[EntryCount] = i - 1
    BY <1>2, <1>3 DEF Recovered
  <1>10. \A j \in Buckets : ~ (i \in Items /\ j = Bucket(i)') =>
          now'[Slot(FirstTable, j)] = FrontOf(i - 1, j)'
    BY <1>1, <1>5
  <1> QED  BY <1>7, <1>8, <1>9, <1>10 DEF Recovered, Buckets

\* restart_hashtable of the word file finds the table whole and follows each chain to its
\* end.
LEMMA ChainRestart ==
  ASSUME ChainInv, RestartHashtable, build # "nv", torn = {}  PROVE Chaining'
  <1>1. /\ pc = "crashed" /\ build = "word"
        /\ UNCHANGED <<build, hash, todo, item>>
    BY DEF RestartHashtable
  <1>2. Chaining /\ MemOK /\ Place
    <2>1. /\ Chaining /\ MemOK /\ Place
          /\ pc \in {"create", "insert", "grow", "alloc", "linked"} => Tidy
      BY Zenon, ChainParts
    <2> QED  BY <2>1
  <1>3. PICK i : i = item /\ i = item'  BY <1>1
  <1>4. /\ hash \in [Items -> Nat] /\ item <= ITEM_COUNT + 1 /\ item \in Nat \ {0}
        /\ Recovered(i)
    BY <1>1, <1>2, <1>3 DEF Chaining, Stopped, Place
  <1>5. PICK t : t = FirstTable  OBVIOUS
  <1>6. /\ now' = [now EXCEPT ![Table] = t]
        /\ pc' = IF /\ now[TableLength] <= Primes[t]
                    /\ \A j \in 0 .. now[TableLength] - 1 :
                         Len(Path(now, now[Slot(t, j)])) <= ITEM_COUNT
                 THEN "restarted" ELSE "lost"
    BY <1>5 DEF RestartHashtable
  <1>7. PICK p : p = Primes[t]  OBVIOUS
  <1>8. p \in Nat \ {0} /\ now[TableLength] \in {0, p}
    BY <1>4, <1>5, <1>7, WordsOf DEF Recovered
  <1>9. ASSUME NEW j \in 0 .. now[TableLength] - 1
        PROVE  Len(Path(now, now[Slot(t, j)])) <= ITEM_COUNT
    <2>1. j \in 0 .. p - 1  BY <1>8
    <2>2. j \in Buckets  BY <1>5, <1>7, <2>1 DEF Buckets
    <2>3. i \in 1 .. ITEM_COUNT + 1  BY <1>3, <1>4, TransAssumption
    <2>4. PICK n : Reads(i, n)  BY <1>4, <2>3, RecoveredReads
    <2>5. ~Spared(i, j)  BY <1>1 DEF Spared
    <2>6. PICK c : c = ChainAfter(hash, n, j)  OBVIOUS
    <2>7. Path(now, now[Slot(FirstTable, j)]) = c /\ IsChain(hash, n, j, c)
      BY <1>4, <2>2, <2>4, <2>5, <2>6, ReadsChains
    <2>8. PICK l : l = Len(c)  OBVIOUS
    <2>9. c \in Seq(1 .. n) /\ l <= n  BY <2>7, <2>8 DEF IsChain
    <2>10. l \in Nat  BY <2>8, <2>9
    <2>11. n \in 0 .. ITEM_COUNT /\ ITEM_COUNT \in Nat  BY <2>4, TransAssumption DEF Reads
    <2>12. l <= ITEM_COUNT  BY <2>9, <2>10, <2>11
    <2> QED  BY <1>5, <2>7, <2>8, <2>12
  <1>10. now[TableLength] <= Primes[t]  BY <1>7, <1>8
  <1>11. pc' = "restarted"  BY <1>6, <1>9, <1>10
  <1>12. \A w \in Words \ {Table} : now'[w] = now[w]  BY <1>2, <1>6 DEF MemOK
  <1>13. Recovered(i)'  BY <1>1, <1>4, <1>12, RecoveredKept
  <1> QED  BY <1>1, <1>3, <1>4, <1>11, <1>13 DEF Chaining, Stopped

\* Memory, the call and the tester as they were.
LEMMA ChainSame ==
  ASSUME ChainInv, UNCHANGED vars, build # "nv", torn = {}  PROVE Chaining'
  <1>1. /\ UNCHANGED <<memory, todo, hash, build, pc, item>>
        /\ now' = now /\ media' = media /\ undo' = undo /\ buf' = buf
    BY DEF vars, memory
  <1>2. Chaining  BY DEF ChainInv
  <1>3. PICK i : i = item /\ i = item'  BY <1>1
  <1>4. /\ \A n, j : FrontOf(n, j)' = FrontOf(n, j)
        /\ \A e : Bucket(e)' = Bucket(e) /\ SlotOf(e)' = SlotOf(e)
    BY <1>1, SameHash
  <1>5. hash' \in [Items -> Nat] /\ item' <= ITEM_COUNT + 1  BY <1>1, <1>2 DEF Chaining
  <1>6. CASE ~Stopped /\ pc # "linked"
    <2>1. Standing(i, Buckets)  BY <1>2, <1>3, <1>6 DEF Chaining
    <2>2. Standing(i, Buckets)'  BY <1>1, <2>1, SameStanding
    <2>3. build = "redo" /\ pc \in {"grow", "alloc"} => RedoCounts(i)'
      BY <1>1, <1>2, <1>3 DEF Chaining, RedoCounts, Holds
    <2> QED  BY <1>1, <1>3, <1>5, <1>6, <2>2, <2>3 DEF Chaining, Stopped
  <1>7. CASE pc = "linked"
    <2>1. PICK b, s, x : /\ b = Bucket(i) /\ b = Bucket(i)' /\ s = SlotOf(i) /\ s = SlotOf(i)'
                         /\ x = FrontOf(i - 1, b) /\ x = FrontOf(i - 1, b)'
      BY <1>4
    <2>2. Standing(i, Buckets \ {b}) /\ Linking(i)  BY <1>2, <1>3, <1>7, <2>1 DEF Chaining
    <2>3. PICK J : J = Buckets \ {b}  OBVIOUS
    <2>4. Standing(i, J)'  BY <1>1, <2>2, <2>3, SameStanding
    <2>5. /\ \A w, v : Ends(w, v)' <=> Ends(w, v)
          /\ \A w, R : Within(w, R)' <=> Within(w, R)
      BY <1>1, Unchanged
    <2>6. x = FrontOf(i - 1, Bucket(i))' /\ x = FrontOf(i - 1, Bucket(i))  BY <1>4, <2>1
    <2>7. /\ \A w, v : Holds(w, v)' <=> Holds(w, v)
          /\ \A w, v : Logs(w, v)' <=> Logs(w, v)
      BY <1>1 DEF Holds, Logs
    <2>8. EntryEnds(i)' /\ Ends(SlotOf(i), i)'
      <3>1. PICK y : y = hash[i] /\ y = hash'[i]  BY <1>1
      <3>2. /\ build # "redo" => Ends(Key(i), i)
            /\ Ends(HashIn(i), y) /\ Ends(NextOf(i), x) /\ Ends(s, i)
        BY <2>1, <2>2, <2>6, <3>1 DEF Linking, EntryEnds
      <3>3. /\ build # "redo" => Ends(Key(i), i)'
            /\ Ends(HashIn(i), y)' /\ Ends(NextOf(i), x)' /\ Ends(s, i)'
        BY <2>5, <3>2
      <3> QED  BY <1>1, <2>1, <2>6, <3>1, <3>3 DEF EntryEnds
    <2>9. build = "word" => WordLinks(i)'
      <3>1. SUFFICES ASSUME build = "word"  PROVE WordLinks(i)'  OBVIOUS
      <3>2. /\ \A o \in Ops(todo) : o.do # "apply"
            /\ \A m, n \in DOMAIN todo :
                 s \in todo[m].at /\ m <= n => \A w \in Entry(i) : w \notin todo[n].at
            /\ Within(s, {x, i})
            /\ Holds(s, x) \/ EntryIs(i)
        BY <2>1, <2>2, <2>6, <3>1 DEF Linking, WordLinks
      <3>3. EntryIs(i) => EntryIs(i)'
        <4>1. PICK y : y = hash[i] /\ y = hash'[i]  BY <1>1
        <4>2. EntryIs(i) => /\ Within(Key(i), {i}) /\ Within(HashIn(i), {y})
                            /\ Within(NextOf(i), {x})
          BY <2>6, <4>1 DEF EntryIs
        <4>3. Within(Key(i), {i})' /\ Within(HashIn(i), {y})' /\ Within(NextOf(i), {x})'
                => EntryIs(i)'
          BY <2>6, <4>1 DEF EntryIs
        <4> QED  BY <2>5, <4>2, <4>3
      <3>4. Within(s, {x, i})'  BY <2>5, <3>2
      <3>5. Holds(s, x)' \/ EntryIs(i)'  BY <2>7, <3>2, <3>3
      <3> QED  BY <1>1, <2>1, <2>6, <3>2, <3>4, <3>5 DEF WordLinks
    <2>10. build = "redo" => RedoLinks(i)'
      <3>1. SUFFICES ASSUME build = "redo"  PROVE RedoLinks(i)'  OBVIOUS
      <3>2. /\ \A n \in DOMAIN todo : todo[n].do = "apply" => n = Len(todo)
            /\ \A o \in Ops(todo) : EntryCount \notin o.at /\ (s \in o.at => o.do = "store")
            /\ \/ Holds(s, x) /\ Holds(EntryCount, i - 1) /\ Logs(Key(i), i)
               \/ todo = <<>> /\ Within(Key(i), {i})
        BY <2>1, <2>2, <2>6, <3>1 DEF Linking, RedoLinks
      <3>3. \/ Holds(s, x)' /\ Holds(EntryCount, i - 1)' /\ Logs(Key(i), i)'
            \/ todo' = <<>> /\ Within(Key(i), {i})'
        BY <1>1, <2>5, <2>7, <3>2
      <3> QED  BY <1>1, <2>1, <2>6, <3>2, <3>3 DEF RedoLinks
    <2>11. Linking(i)'  BY <1>1, <2>2, <2>8, <2>9, <2>10 DEF Linking
    <2>12. J = (Buckets \ {Bucket(i)})'  BY <2>1, <2>3 DEF Buckets
    <2> QED  BY <1>1, <1>3, <1>5, <1>7, <2>4, <2>11, <2>12 DEF Chaining, Stopped
  <1>8. CASE Stopped
    <2>1. Recovered(i) /\ pc # "lost" /\ hash \in [Items -> Nat]
      BY <1>2, <1>3, <1>8 DEF Chaining
    <2>2. Recovered(i)'  BY <1>1, <2>1, RecoveredKept
    <2> QED  BY <1>1, <1>3, <1>5, <1>8, <2>1, <2>2 DEF Chaining, Stopped
  <1> QED  BY <1>6, <1>7, <1>8

LEMMA ChainNext ==
  ASSUME ChainInv, [Next]_vars  PROVE ChainInv'
  <1>1. QuietInv'  BY QuietNext DEF ChainInv
  <1>2. /\ pc' \in {"aborted", "overrun"} => "grown" \in torn'
        /\ pc' \in {"oom", "failed"} /\ build' = "redo" => "oom" \in torn'
    <2>1. /\ pc \in {"aborted", "overrun"} => "grown" \in torn
          /\ pc \in {"oom", "failed"} /\ build = "redo" => "oom" \in torn
      BY DEF ChainInv
    <2>2. CASE UNCHANGED vars  BY <2>1, <2>2 DEF vars
    <2>3. CASE Step  BY <2>1, <2>3 DEF Step
    <2>4. CASE GrowTable  BY <2>4 DEF GrowTable, PlanB
    <2>5. CASE LinkEntry  BY <2>5 DEF LinkEntry, Same
    <2>6. CASE Exit  BY <2>1, <2>6 DEF Exit, At, Same
    <2>7. CASE RemoveSome  BY <2>1, <2>7 DEF RemoveSome
    <2>8. CASE CreateHashtable \/ InsertSome \/ InsertReturns \/ SearchSome \/ Crash
      BY <2>8 DEF CreateHashtable, InsertSome, InsertReturns, SearchSome, Crash
    <2>9. CASE RestartHashtable  BY <2>9 DEF RestartHashtable
    <2> QED  BY <2>2, <2>3, <2>4, <2>5, <2>6, <2>7, <2>8, <2>9 DEF Next
  <1>3. ASSUME build' # "nv", torn' = {}  PROVE Chaining'
    <2>1. CASE UNCHANGED vars  BY <1>3, <2>1, ChainSame DEF vars
    <2>2. CASE Step  BY <1>3, <2>2, ChainStep DEF Step
    <2>3. CASE CreateHashtable
      <3>1. build # "nv" /\ torn = {}  BY <1>3, <2>3 DEF CreateHashtable, Same
      <3> QED  BY <2>3, <3>1, ChainCreate
    <2>4. CASE InsertSome
      <3>1. build # "nv" /\ torn = {}  BY <1>3, <2>4 DEF InsertSome, Same
      <3> QED  BY <2>4, <3>1, ChainInsert
    <2>5. CASE GrowTable
      <3>1. build # "nv"  BY <1>3, <2>5 DEF GrowTable
      <3> QED  BY <1>3, <2>5, <3>1, ChainGrow
    <2>6. CASE LinkEntry
      <3>1. build # "nv"  BY <1>3, <2>6 DEF LinkEntry, Same
      <3> QED  BY <1>3, <2>6, <3>1, ChainLink
    <2>7. CASE InsertReturns
      <3>1. build # "nv" /\ torn = {}  BY <1>3, <2>7 DEF InsertReturns, Same
      <3> QED  BY <2>7, <3>1, ChainReturns
    <2>8. CASE SearchSome  BY <1>3, <2>8 DEF SearchSome
    <2>9. CASE RemoveSome
      <3>1. pc = "remove" /\ torn = {}  BY <1>3, <2>9 DEF RemoveSome, At
      <3> QED  BY <3>1 DEF ChainInv, QuietInv, CountInv, Place
    <2>10. CASE Exit
      <3>1. build # "nv" /\ torn = {}  BY <1>3, <2>10 DEF Exit, Same
      <3> QED  BY <2>10, <3>1, ChainExit
    <2>11. CASE Crash
      <3>1. build # "nv" /\ torn = {}  BY <1>3, <2>11 DEF Crash
      <3> QED  BY <2>11, <3>1, ChainCrash
    <2>12. CASE RestartHashtable
      <3>1. build # "nv" /\ torn = {}  BY <1>3, <2>12 DEF RestartHashtable
      <3> QED  BY <2>12, <3>1, ChainRestart
    <2> QED
      BY <2>1, <2>2, <2>3, <2>4, <2>5, <2>6, <2>7, <2>8, <2>9, <2>10, <2>11, <2>12 DEF Next
  <1> QED  BY <1>1, <1>2, <1>3 DEF ChainInv

\* After a stop before the first expansion every chain of a transactional file is the one
\* of the insertions that returned, or has the entry of the insertion under way in front
\* (but for the one chain the object file was changing), whatever the hashes, the primes
\* and the number of items; the redo file's count agrees, and restart_hashtable comes to
\* an end.
THEOREM ChainsAreRecovered == Spec => []ChainsRecover
  <1>1. Spec => []ChainInv  BY ChainInit, ChainNext, PTL DEF Spec
  <1>2. ChainInv => ChainsRecover  BY RecoveredChains
  <1> QED  BY <1>1, <1>2, PTL
================================================================================
