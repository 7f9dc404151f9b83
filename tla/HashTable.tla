------------------------------- MODULE HashTable -------------------------------
(***************************************************************************)
(* The chained hash table of c-hashtable/hashtable.c and its iterator         *)
(* (hashtable_itr.c).  An entry is known by the key object its caller gave,    *)
(* and a chain is the sequence of its entries.                               *)
(***************************************************************************)
EXTENDS Integers, Sequences, SequencesExt, FiniteSetsExt

CONSTANTS
  Objects,       \* key objects
  NameOf,        \* what eqfn compares: objects of one name are equal keys
  HashOf,        \* hash(h, k) of each name
  None,
  Primes,        \* primes[]
  MinSizes       \* the sizes callers of create_hashtable ask for

Names == {NameOf[o] : o \in Objects}

\* loadlimit: ceil(size * max_load_factor).
LoadLimit(size) == (size * 65 + 99) \div 100

ASSUME ObjectsAssumption ==
  /\ IsFiniteSet(Objects) /\ NameOf \in [Objects -> Names]
  /\ None \notin Objects /\ None \notin Names
  /\ HashOf \in [Names -> Nat]
ASSUME SizesAssumption ==
  /\ Primes \in Seq(Nat \ {0}) /\ MinSizes \subseteq Nat
  /\ \A j \in 2 .. Len(Primes) :
       Primes[j - 1] < Primes[j] /\ LoadLimit(Primes[j - 1]) < LoadLimit(Primes[j])
  /\ \A m \in MinSizes : \E j \in DOMAIN Primes : Primes[j] > m

VARIABLES
  pmem,  \* TRUE: built with INTEL_PMEM, which keeps everything in the pool
  h,     \* struct hashtable
  itr,   \* struct hashtable_itr, or NoItr: none, or one that a call has broken
  todo,  \* the objects the iteration has not passed yet
  ret,   \* the name the last removal took
  pc     \* "ok"; "gone": destroyed; "lost": undefined behaviour

vars == <<pmem, h, itr, todo, ret, pc>>

NoItr == <<>>

-----------------------------------------------------------------------------
(* The chains.                                                              *)

Length(g)  == Cardinality(DOMAIN g.table)
Chains(g)  == FlattenSeq([j \in 1 .. Length(g) |-> g.table[j - 1]])
Members    == ToSet(Chains(h))

\* The table array is as long as tablelength says.
Whole(g) == DOMAIN g.table = 0 .. g.tablelength - 1

IndexFor(g, o) == HashOf[NameOf[o]] % g.tablelength

\* The first entry of a chain with a name, the entries behind an entry, and the chain
\* when what pointed at the entry points behind it.
FirstOf(chain, name) ==
  LET same == {k \in DOMAIN chain : NameOf[chain[k]] = name}
  IN IF same = {} THEN None ELSE chain[Min(same)]
Place(chain, o)   == SelectInSeq(chain, LAMBDA v : v = o)
Behind(chain, o)  == SubSeq(chain, Place(chain, o) + 1, Len(chain))
Without(chain, o) == SubSeq(chain, 1, Place(chain, o) - 1) \o Behind(chain, o)

\* The slot of a name, and what hashtable_search finds in it.
Slot(name)     == HashOf[name] % h.tablelength
SlotWild(name) == Slot(name) \notin DOMAIN h.table
Search(name)   == FirstOf(h.table[Slot(name)], name)

-----------------------------------------------------------------------------
(* create_hashtable and hashtable_insert.                                    *)

\* create_hashtable: the first prime above the wish.
Create(minsize) ==
  LET pindex == Min({j \in DOMAIN Primes : Primes[j] > minsize})
      size == Primes[pindex]
  IN [table |-> [j \in 0 .. size - 1 |-> <<>>], tablelength |-> size,
      primeindex |-> pindex, entrycount |-> 0, loadlimit |-> LoadLimit(size)]

\* Mutant: each is put behind its new chain.
RehashedStable(g, size) ==
  LET fill[k \in 0 .. Len(Chains(g))] ==
        IF k = 0 THEN [j \in 0 .. size - 1 |-> <<>>]
        ELSE [fill[k - 1] EXCEPT ![HashOf[NameOf[Chains(g)[k]]] % size] =
                                    Append(@, Chains(g)[k])]
  IN fill[Len(Chains(g))]

\* hashtable_expand takes the entries from the chains in their order and puts each
\* in front of its new chain.
Rehashed(g, size) ==
  LET fill[k \in 0 .. Len(Chains(g))] ==
        IF k = 0 THEN [j \in 0 .. size - 1 |-> <<>>]
        ELSE [fill[k - 1] EXCEPT ![HashOf[NameOf[Chains(g)[k]]] % size] =
                                    <<Chains(g)[k]>> \o @]
  IN fill[Len(Chains(g))]

\* The new length and limit, which are set whether there is a new table or not.
Resized(g, t) ==
  LET size == Primes[g.primeindex + 1]
  IN [g EXCEPT !.table = t, !.tablelength = size, !.primeindex = @ + 1,
               !.loadlimit = LoadLimit(size)]

\* hashtable_expand, with memory and without.
Expanded(g) ==
  IF g.primeindex = Len(Primes)
    THEN {g}
    ELSE {Resized(g, Rehashed(g, Primes[g.primeindex + 1])),
          Resized(g, g.table)}

\* ++entrycount > loadlimit.
Overfull(g) == g.entrycount + 1 > g.loadlimit

\* The new entry goes in front of its chain; mutant: of the chain it had before the
\* table expanded.
PutFirstEarly(g, o) ==
  [g EXCEPT !.table[IndexFor(h, o)] = <<o>> \o @, !.entrycount = @ + 1]
PutFirst(g, o) ==
  [g EXCEPT !.table[IndexFor(g, o)] = <<o>> \o @, !.entrycount = @ + 1]

Broken == itr' = NoItr /\ todo' = {}
Lost   == pc' = "lost" /\ UNCHANGED <<pmem, h, itr, todo, ret>>

\* hashtable_insert.  Without memory the pool build lays the table or the entry over
\* the pool's header (PMEM of a null pointer); the other build returns 0, with a
\* table that may have a new length.
Insert(o) ==
  /\ pc = "ok" /\ o \notin Members
  /\ \E g \in (IF Overfull(h) THEN Expanded(h) ELSE {h}) :
       LET stray == \/ g.table # h.table /\ ~Whole(h)
                    \/ pmem /\ ~Whole(g)
           wild  == stray \/ IndexFor(g, o) \notin DOMAIN g.table
       IN \/ ~wild /\ h' = PutFirst(g, o) /\ Broken /\ UNCHANGED <<pmem, ret, pc>>
          \/ ~stray /\ ~pmem /\ h' = g /\ Broken /\ UNCHANGED <<pmem, ret, pc>>
          \/ (wild \/ pmem) /\ Lost

-----------------------------------------------------------------------------
(* hashtable_remove and hashtable_destroy.                                   *)

\* A removal frees the key and the entry: the pool build gives pmemalloc_free
\* pointers where it expects offsets.
RemoveKey(name) ==
  /\ pc = "ok"
  /\ \/ ~SlotWild(name) /\ Search(name) # None /\ ~pmem
        /\ h' = [h EXCEPT !.table[Slot(name)] =
                            Without(@, Search(name)),
                          !.entrycount = @ - 1]
        /\ ret' = name /\ Broken /\ UNCHANGED <<pmem, pc>>
     \/ ~SlotWild(name) /\ Search(name) # None /\ pmem /\ Lost
     \/ SlotWild(name) /\ Lost

\* hashtable_destroy walks all chains and gives all to free(), in both builds.
Destroy ==
  /\ pc = "ok"
  /\ \/ ~pmem /\ Whole(h) /\ pc' = "gone" /\ Broken /\ UNCHANGED <<pmem, h, ret>>
     \/ (pmem \/ ~Whole(h)) /\ Lost

-----------------------------------------------------------------------------
(* The iterator.                                                            *)

\* The position at the head of the first chain from slot j on, or the end.
HeadFrom(g, j) ==
  LET full == {i \in DOMAIN g.table : i >= j /\ g.table[i] # <<>>}
  IN IF full = {}
       THEN [e |-> None, parent |-> None, index |-> g.tablelength]
       ELSE [e |-> Head(g.table[Min(full)]), parent |-> None, index |-> Min(full)]

\* A scan for a chain that does not stop inside the array.
ScanWild(p) == p.e = None /\ ~Whole(h)

\* Mutant: the scan begins one slot too far.
AdvancedTooFar(g, chain, p) ==
  IF Behind(chain, p.e) # <<>>
    THEN [p EXCEPT !.parent = p.e, !.e = Head(Behind(chain, p.e))]
    ELSE HeadFrom(g, p.index + 2)

\* hashtable_iterator_advance, from a position whose entry the chain need not have.
Advanced(g, chain, p) ==
  IF Behind(chain, p.e) # <<>>
    THEN [p EXCEPT !.parent = p.e, !.e = Head(Behind(chain, p.e))]
    ELSE HeadFrom(g, p.index + 1)

\* hashtable_iterator_remove corrects the parent after it advanced; mutant: it does not.
ParentLeft(before, after) == after.parent
ParentOf(before, after) ==
  IF after.parent = before.e THEN before.parent ELSE after.parent

\* hashtable_iterator.
Iterator ==
  /\ pc = "ok"
  /\ LET p == IF h.entrycount = 0
                THEN [e |-> None, parent |-> None, index |-> h.tablelength]
                ELSE HeadFrom(h, 0)
         wild == h.entrycount # 0 /\ ScanWild(p)
     IN \/ ~wild /\ itr' = p /\ todo' = Members /\ UNCHANGED <<pmem, h, ret, pc>>
        \/ wild /\ Lost

\* hashtable_iterator_search, which any iterator may be given to.
IteratorSearch(name) ==
  /\ pc = "ok"
  /\ \/ /\ ~SlotWild(name) /\ Search(name) # None
        /\ LET chain == h.table[Slot(name)]
               j == Place(chain, Search(name))
           IN /\ itr' = [e |-> Search(name), index |-> Slot(name),
                         parent |-> IF j = 1 THEN None ELSE chain[j - 1]]
              /\ todo' = Members \ (ToSet(SubSeq(chain, 1, j - 1))
                            \cup UNION {ToSet(h.table[i]) : i \in 0 .. Slot(name) - 1})
        /\ UNCHANGED <<pmem, h, ret, pc>>
     \/ SlotWild(name) /\ Lost

AtEntry == pc = "ok" /\ itr # NoItr /\ itr.e # None

IterAdvance ==
  /\ AtEntry
  /\ LET p == Advanced(h, h.table[itr.index], itr)
     IN \/ ~ScanWild(p) /\ itr' = p /\ todo' = todo \ {itr.e}
           /\ UNCHANGED <<pmem, h, ret, pc>>
        \/ ScanWild(p) /\ Lost

\* hashtable_iterator_remove: what the parent, or the slot, points at is now what the
\* entry pointed at; a parent that was freed points nowhere in the table.
IteratorRemove ==
  /\ AtEntry
  /\ LET chain == h.table[itr.index]
         before == IF itr.parent = None THEN <<>>
                   ELSE SubSeq(chain, 1, Place(chain, itr.parent))
         kept == IF itr.parent \in {None} \cup ToSet(chain)
                   THEN before \o Behind(chain, itr.e) ELSE chain
         g == [h EXCEPT !.table[itr.index] = kept, !.entrycount = @ - 1]
         p == Advanced(g, chain, itr)
     IN \/ ~ScanWild(p) /\ ~pmem
           /\ h' = g /\ itr' = [p EXCEPT !.parent = ParentOf(itr, p)]
           /\ ret' = NameOf[itr.e] /\ todo' = todo \ {itr.e} /\ UNCHANGED <<pmem, pc>>
        \/ (ScanWild(p) \/ pmem) /\ Lost

-----------------------------------------------------------------------------
Init ==
  /\ pmem \in BOOLEAN
  /\ \E m \in MinSizes : h = Create(m)
  /\ itr = NoItr /\ todo = {} /\ ret = None /\ pc = "ok"

Next ==
  \/ \E o \in Objects : Insert(o)
  \/ \E name \in Names : RemoveKey(name) \/ IteratorSearch(name)
  \/ Iterator \/ IterAdvance \/ IteratorRemove \/ Destroy

Spec == Init /\ [][Next]_vars

-----------------------------------------------------------------------------
(* Properties.                                                              *)

\* Every variable holds what it may; tablelength is the prime of primeindex, and the
\* array is as long as it, or as an earlier prime when an expansion failed.
TypeOK ==
  /\ \A j \in DOMAIN h.table : h.table[j] \in Seq(Objects)
  /\ h.primeindex \in DOMAIN Primes /\ h.tablelength = Primes[h.primeindex]
  /\ h.loadlimit = LoadLimit(h.tablelength) /\ h.entrycount \in 0 .. Cardinality(Objects)
  /\ itr = NoItr \/ itr \in [e : Objects \cup {None}, parent : Objects \cup {None},
                             index : 0 .. h.tablelength]
  /\ todo \subseteq Objects /\ ret \in Names \cup {None}
  /\ pmem \in BOOLEAN /\ pc \in {"ok", "gone", "lost"}
  /\ Length(h) \in {Primes[j] : j \in 1 .. h.primeindex}

\* A search finds a name exactly when an entry has it (hashtable_search), whatever
\* expansions came between, as long as none of them failed.
Findable ==
  Whole(h) => \A name \in Names : Search(name) # None <=> \E o \in Members : NameOf[o] = name

\* The table is well formed and entrycount counts its entries; none is in two chains,
\* and each is in one or was taken out: after a removal by iterator too, and when
\* memory ran out (hashtable_count).
CountExact ==
  /\ TypeOK
  /\ h.entrycount = Len(Chains(h)) /\ h.entrycount = Cardinality(Members)

\* The table expands in time: its load is within the limit until the primes end
\* (hashtable_insert).
LoadBounded == h.entrycount <= h.loadlimit \/ h.primeindex = Len(Primes)

\* An iteration meets each entry from its start on once and leaves out none, whatever
\* it removes on the way (hashtable_iterator_advance, _remove).
IterExact ==
  itr # NoItr =>
    /\ itr.e = None => todo = {}
    /\ itr.e # None => itr.e \in todo /\ todo \subseteq Members

\* "When the hashtable changes size, the order of retrieval of duplicate key entries
\* is reversed" (hashtable.h:121-123): only the entry just inserted comes before them.
DuplicatesReversed ==
  [][h'.tablelength # h.tablelength /\ h'.table # h.table /\ Whole(h)' =>
       \A name \in Names :
         LET Same(g) == SelectSeq(Chains(g), LAMBDA o : NameOf[o] = name)
         IN \E new \in {<<>>} \cup {<<o>> : o \in Objects \ Members} :
              Same(h)' = new \o Reverse(Same(h))]_vars

\* The table is a bag of names that each call changes by one (KeyBag).
Bag == INSTANCE KeyBag WITH
  Keys <- Names,
  keys <- [name \in Names |-> Cardinality({o \in Members : NameOf[o] = name})]
ImplementsBag == Bag!Spec
================================================================================
