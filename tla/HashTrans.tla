------------------------------- MODULE HashTrans -------------------------------
(***************************************************************************)
(* The hash tables of c-hashtable that keep their words in non-volatile       *)
(* memory: hashtable_wrdobj_trans.c (object and word transactions, undo),      *)
(* hashtable_word_only.c (word transactions), hashtable_redo.c (a redo log)    *)
(* and hashtable_nv.c (none), each under the program tester_nonintel_code.c.   *)
(* A call is its stores and transaction calls in their order (todo), and the   *)
(* machine may stop between any two.  The transaction library (nv_map.h,        *)
(* nv_def.h) is not in the repository: C_BEGIN_*TRANS keeps the old words until *)
(* p_c_nvcommit*, which makes the words durable; store_word buffers a word      *)
(* until commit_noarg makes all of them durable at once.                        *)
(***************************************************************************)
EXTENDS Integers, Sequences, SequencesExt, FiniteSetsExt

CONSTANTS
  Builds,      \* of {"obj", "word", "redo", "nv"}: the file that is linked
  ITEM_COUNT,  \* arg2 of the tester
  MinSize,     \* what the tester asks of create_hashtable
  Primes,      \* primes[]
  Hashes       \* what hash() may give the key of each item: a set of functions

Items == 1 .. ITEM_COUNT

\* ceil(size * max_load_factor).
LoadLimit(size) == (size * 65 + 99) \div 100

ASSUME TransAssumption ==
  /\ Builds \subseteq {"obj", "word", "redo", "nv"} /\ ITEM_COUNT \in Nat /\ MinSize \in Nat
  /\ Primes \in Seq(Nat \ {0}) /\ Hashes \subseteq [Items -> Nat]
  /\ \E j \in DOMAIN Primes : Primes[j] > MinSize

VARIABLES
  build,   \* which of the files
  hash,    \* hash() of each item's key
  now,     \* each word as the program reads it
  media,   \* what the memory itself may hold of each word
  undo,    \* the words of open transactions, with what they held
  buf,     \* the words stored since the last commit_noarg
  todo,    \* the stores and transaction calls the current call has yet to make
  pc,      \* where the tester is
  item,    \* i of its loops
  torn,    \* what was done outside all transactions: an expansion, the removals,
           \* the redo build's step back of its count
  bug      \* the tester has printed BUG

memory == <<now, media, undo, buf>>
vars   == <<build, hash, memory, todo, pc, item, torn, bug>>

-----------------------------------------------------------------------------
(* Words.  Entry e is the one of item e, 0 is NULL.                          *)

HeaderWord(n)  == <<n, 0, 0>>
Table          == HeaderWord("table")
TableLength    == HeaderWord("tablelength")
EntryCount     == HeaderWord("entrycount")
LimitWord      == HeaderWord("loadlimit")
PrimeIndex     == HeaderWord("primeindex")
Header         == {Table, TableLength, EntryCount, LimitWord, PrimeIndex}

Key(e)     == <<"k", e, 0>>
HashIn(e)  == <<"h", e, 0>>
NextOf(e)  == <<"next", e, 0>>
Entry(e)   == {Key(e), HashIn(e), NextOf(e)}

\* Slot j of the table that was allocated at prime t.
Slot(t, j) == <<"slot", t, j>>
Slots      == UNION {{Slot(t, j) : j \in 0 .. Primes[t] - 1} : t \in DOMAIN Primes}
Words      == Header \cup Slots \cup UNION {Entry(e) : e \in Items}

\* The entries from one on, until NULL or for as long as there are entries.
Path(m, first) ==
  LET node[n \in 0 .. ITEM_COUNT] ==
        IF n = 0 THEN first
        ELSE IF node[n - 1] = 0 THEN 0 ELSE m[NextOf(node[n - 1])]
  IN [n \in 1 .. Cardinality({k \in 0 .. ITEM_COUNT : node[k] # 0}) |-> node[n - 1]]

Chains(m, t, len) == FlattenSeq([j \in 1 .. len |-> Path(m, m[Slot(t, j - 1)])])

-----------------------------------------------------------------------------
(* The library and the cache.                                                *)

Begin(ws)    == <<[do |-> "begin", at |-> ws, val |-> 0]>>
Put(w, v)    == <<[do |-> "put", at |-> {w}, val |-> v]>>
Commit(ws)   == <<[do |-> "commit", at |-> ws, val |-> 0]>>
STORE(w, v)  == <<[do |-> "store", at |-> {w}, val |-> v]>>
COMMIT       == <<[do |-> "apply", at |-> {}, val |-> 0]>>
LOAD(w)      == IF w \in DOMAIN buf THEN buf[w] ELSE now[w]

Over(f, g)     == [w \in DOMAIN f \cup DOMAIN g |-> IF w \in DOMAIN f THEN f[w] ELSE g[w]]
Without(f, ws) == [w \in DOMAIN f \ ws |-> f[w]]

BeginTrans(op) ==
  /\ op.do = "begin"
  /\ undo' = Over(undo, [w \in op.at |-> now[w]]) /\ UNCHANGED <<now, media, buf>>

\* Until it is committed, a stored word may or may not have left the cache.
PutWord(op) ==
  /\ op.do = "put"
  /\ now' = Over([w \in op.at |-> op.val], now)
  /\ media' = Over([w \in op.at |-> media[w] \cup {op.val}], media)
  /\ UNCHANGED <<undo, buf>>

CommitTrans(op) ==
  /\ op.do = "commit"
  /\ media' = Over([w \in op.at |-> {now[w]}], media)
  /\ undo' = Without(undo, op.at) /\ UNCHANGED <<now, buf>>

StoreWord(op) ==
  /\ op.do = "store"
  /\ buf' = Over([w \in op.at |-> op.val], buf) /\ UNCHANGED <<now, media, undo>>

ApplyRedo(op) ==
  /\ op.do = "apply"
  /\ now' = Over(buf, now) /\ media' = Over([w \in DOMAIN buf |-> {buf[w]}], media)
  /\ buf' = <<>> /\ UNCHANGED undo

Step ==
  /\ todo # <<>> /\ todo' = Tail(todo)
  /\ LET op == Head(todo)
     IN BeginTrans(op) \/ PutWord(op) \/ CommitTrans(op) \/ StoreWord(op) \/ ApplyRedo(op)
  /\ UNCHANGED <<build, hash, pc, item, torn, bug>>

At(p)     == pc = p /\ todo = <<>>
Same      == UNCHANGED <<build, hash, memory, bug>>

-----------------------------------------------------------------------------
(* What each file makes of a store.                                          *)

\* A word that is logged, stored and committed; mutant: never committed.
LoggedNot(w, v) == Begin({w}) \o Put(w, v)
Logged(w, v)    == Begin({w}) \o Put(w, v) \o Commit({w})

\* hashtable_insert of hashtable_word_only.c: the transaction begins if the word is
\* not zero before, and is committed if it is not zero after; mutant: the other way.
WordSetSwapped(w, v) ==
  (IF v # 0 THEN Begin({w}) ELSE <<>>) \o Put(w, v)
     \o (IF now[w] # 0 THEN Commit({w}) ELSE <<>>)
WordSet(w, v) ==
  (IF now[w] # 0 THEN Begin({w}) ELSE <<>>) \o Put(w, v)
     \o (IF v # 0 THEN Commit({w}) ELSE <<>>)

\* The stores of a new entry of item e, whose slot is s.
LinkWord(e, s) ==
  WordSet(HashIn(e), hash[e]) \o WordSet(Key(e), e) \o WordSet(NextOf(e), now[s])
    \o WordSet(s, e)

LinkObj(e, s) ==
  Begin(Entry(e)) \o Put(HashIn(e), hash[e]) \o Put(Key(e), e) \o Put(NextOf(e), now[s])
    \o Begin({s}) \o Put(s, e) \o Commit({s}) \o Commit(Entry(e))

\* Mutant: the slot is stored past the redo log.
LinkRedoPlain(e, s) ==
  STORE(HashIn(e), hash[e]) \o STORE(Key(e), e) \o STORE(NextOf(e), now[s])
    \o Put(s, e) \o COMMIT
LinkRedo(e, s) ==
  STORE(HashIn(e), hash[e]) \o Put(Key(e), 0) \o STORE(Key(e), e) \o Put(Key(e), e)
    \o STORE(NextOf(e), now[s]) \o STORE(s, e) \o COMMIT

LinkPlain(e, s) ==
  Put(HashIn(e), hash[e]) \o Put(Key(e), e) \o Put(NextOf(e), now[s]) \o Put(s, e)

Link(e, s) ==
  CASE build = "word" -> LinkWord(e, s) [] build = "obj" -> LinkObj(e, s)
    [] build = "redo" -> LinkRedo(e, s) [] OTHER -> LinkPlain(e, s)

\* ++entrycount, before all else, and --entrycount, which the redo build does past its
\* log.
CountUp ==
  LET n == LOAD(EntryCount) + 1
  IN CASE build \in {"word", "obj"} -> Logged(EntryCount, n)
       [] build = "redo" -> STORE(EntryCount, n)
       [] OTHER -> Put(EntryCount, n)
CountBack ==
  IF build \in {"word", "obj"} THEN Logged(EntryCount, now[EntryCount] - 1)
                               ELSE Put(EntryCount, now[EntryCount] - 1)

\* hashtable_remove takes entry e out of the word p that points at it.
UnlinkWord(e, p) ==
  Put(p, now[NextOf(e)]) \o Logged(EntryCount, now[EntryCount] - 1)
    \o Begin({Key(e)}) \o Commit({Key(e)})

UnlinkObj(e, p) ==
  Begin(Entry(e)) \o Begin({EntryCount}) \o Put(p, now[NextOf(e)])
    \o Put(EntryCount, now[EntryCount] - 1) \o Commit({EntryCount}) \o Commit(Entry(e))

\* The entry is freed before COMMIT, which then stores 0 over the key of memory that is
\* no longer the entry's (hashtable_redo.c:434-438); what that store hits is left out.
UnlinkRedo(e, p) ==
  Put(p, now[NextOf(e)]) \o Put(EntryCount, LOAD(EntryCount))
    \o STORE(EntryCount, LOAD(EntryCount) - 1) \o STORE(Key(e), 0) \o COMMIT

\* Mutant: the rest of the chain goes too.
UnlinkPlainDropsRest(e, p) == Put(p, 0) \o Put(EntryCount, now[EntryCount] - 1)
UnlinkPlain(e, p) ==
  Put(p, now[NextOf(e)]) \o Put(EntryCount, now[EntryCount] - 1)

Unlink(e, p) ==
  CASE build = "word" -> UnlinkWord(e, p) [] build = "obj" -> UnlinkObj(e, p)
    [] build = "redo" -> UnlinkRedo(e, p) [] OTHER -> UnlinkPlain(e, p)

\* The prime of the tester's table: the first above its wish.
FirstTable == Min({j \in DOMAIN Primes : Primes[j] > MinSize})

\* The fields of a new table in the order in which create_hashtable sets them.
InEach(t, Set(_, _)) ==
  Set(TableLength, Primes[t]) \o Set(PrimeIndex, t) \o Set(EntryCount, 0)
    \o Set(LimitWord, LoadLimit(Primes[t]))

SetAndCommit(w, v) == Put(w, v) \o Commit({w})
CreateWord(t)  == InEach(t, SetAndCommit)
CreateObj(t)   == Begin(Header) \o InEach(t, Put) \o Commit(Header)
CreateRedo(t)  == InEach(t, STORE) \o COMMIT
CreatePlain(t) == InEach(t, Put)

Create(t) ==
  Put(Table, t) \o
    CASE build = "word" -> CreateWord(t) [] build = "obj" -> CreateObj(t)
      [] build = "redo" -> CreateRedo(t) [] OTHER -> CreatePlain(t)

-----------------------------------------------------------------------------
(* The tester and its calls.                                                 *)

\* create_hashtable; memset clears a table that no entry was ever in.
CreateHashtable ==
  /\ At("create") /\ pc' = "insert"
  /\ todo' = Create(FirstTable)
  /\ Same /\ UNCHANGED <<item, torn>>

\* The loop of insertions, and the first store of hashtable_insert.
InsertSome ==
  /\ At("insert")
  /\ \/ item <= ITEM_COUNT /\ pc' = "grow" /\ todo' = CountUp /\ UNCHANGED item
     \/ item > ITEM_COUNT /\ pc' = "search" /\ UNCHANGED <<item, todo>>
  /\ Same /\ UNCHANGED torn

Overfull == LOAD(EntryCount) > now[LimitWord] /\ now[PrimeIndex] < Len(Primes)

\* hashtable_expand goes through the old table and puts each entry in front of its new
\* chain: the entries of slot j of the table at prime t, and the one behind entry e.
AllEntries    == Chains(now, now[Table], now[TableLength])
NewChain(t, j) == Reverse(SelectSeq(AllEntries, LAMBDA e : hash[e] % Primes[t] = j))
HeadOf(c)     == IF c = <<>> THEN 0 ELSE Head(c)
NewNext(t, e) ==
  LET c == NewChain(t, hash[e] % Primes[t])
  IN HeadOf(SubSeq(c, SelectInSeq(c, LAMBDA v : v = e) + 1, Len(c)))

\* Nothing is logged or committed, and the memory may hold any of the words stored on
\* the way.
Expand ==
  LET t == now[PrimeIndex] + 1
      oldSlots == {Slot(now[Table], j) : j \in 0 .. now[TableLength] - 1}
      newSlots == {Slot(t, j) : j \in 0 .. Primes[t] - 1}
      links == {NextOf(e) : e \in ToSet(AllEntries)}
      fields == {Table, TableLength, PrimeIndex, LimitWord}
      new == [w \in oldSlots \cup newSlots \cup links \cup fields |->
                CASE w \in oldSlots -> 0
                  [] w \in newSlots -> HeadOf(NewChain(t, w[3]))
                  [] w \in links -> NewNext(t, w[2])
                  [] w \in {Table, PrimeIndex} -> t
                  [] w = TableLength -> Primes[t]
                  [] w = LimitWord -> LoadLimit(Primes[t])]
      passed(w) == IF w \in newSlots THEN ToSet(NewChain(t, w[3]))
                   ELSE IF w \in oldSlots THEN ToSet(Path(now, now[w])) ELSE {}
  IN /\ now' = Over(new, now)
     /\ media' = Over([w \in DOMAIN new |-> media[w] \cup {new[w]} \cup passed(w)], media)
     /\ UNCHANGED <<undo, buf>>

\* hashtable_expand without memory for the new table: the redo build goes on if realloc
\* fails too and overruns the table if it does not; the others assert.
PlanB ==
  /\ pc' \in (IF build = "redo" THEN {"alloc", "overrun"} ELSE {"aborted"})
  /\ media' = [media EXCEPT ![PrimeIndex] = @ \cup {now[PrimeIndex] + 1}]
  /\ torn' = torn \cup {"grown"} /\ UNCHANGED <<now, undo, buf>>

\* hashtable_insert checks the load, after it has counted the new entry.
GrowTable ==
  /\ At("grow")
  /\ \/ ~Overfull /\ pc' = "alloc" /\ UNCHANGED <<memory, torn>>
     \/ Overfull /\ Expand /\ pc' = "alloc" /\ torn' = torn \cup {"grown"}
     \/ Overfull /\ PlanB
  /\ UNCHANGED <<build, hash, todo, item, bug>>

SlotFor(e) == Slot(now[Table], hash[e] % now[TableLength])

\* The rest of hashtable_insert, with memory for the entry and without: there the
\* tester exits.
LinkEntry ==
  /\ At("alloc")
  /\ \/ pc' = "linked" /\ todo' = Link(item, SlotFor(item)) /\ UNCHANGED torn
     \/ /\ pc' = "oom" /\ todo' = CountBack
        /\ torn' = torn \cup (IF build = "redo" THEN {"oom"} ELSE {})
  /\ Same /\ UNCHANGED item

InsertReturns ==
  /\ At("linked") /\ pc' = "insert" /\ item' = item + 1
  /\ Same /\ UNCHANGED <<todo, torn>>

\* hashtable_search.
Found(e) ==
  \E j \in DOMAIN Path(now, now[SlotFor(e)]) :
    LET f == Path(now, now[SlotFor(e)])[j] IN now[HashIn(f)] = hash[e] /\ now[Key(f)] = e

\* The loops that search for each key, directly and with an iterator.
SearchSome ==
  /\ At("search") /\ pc' = "remove" /\ bug' = (bug \/ \E e \in Items : ~Found(e))
  /\ item' = 1 /\ torn' = torn \cup {"removals"}
  /\ UNCHANGED <<build, hash, memory, todo>>

\* The loop of removals; what points at the entry is its slot or the entry before it.
RemoveSome ==
  /\ At("remove") /\ item <= ITEM_COUNT /\ item' = item + 1
  /\ LET chain == Path(now, now[SlotFor(item)])
         j == SelectInSeq(chain, LAMBDA e : now[Key(e)] = item /\ now[HashIn(e)] = hash[item])
     IN \/ /\ j # 0
           /\ todo' = Unlink(chain[j], IF j = 1 THEN SlotFor(item) ELSE NextOf(chain[j - 1]))
           /\ UNCHANGED bug
        \/ j = 0 /\ bug' = TRUE /\ UNCHANGED todo
  /\ UNCHANGED <<build, hash, memory, pc, torn>>

\* exit(), with what hashtable_count says after the removals.
Exit ==
  /\ \/ At("remove") /\ item > ITEM_COUNT /\ pc' = "exited"
     \/ At("oom") /\ pc' = "failed"
  /\ Same /\ UNCHANGED <<todo, item, torn>>

-----------------------------------------------------------------------------
(* A stop of the machine, and restart_hashtable.                             *)

Unsure == {w \in Words \ DOMAIN undo : Cardinality(media[w]) > 1}
Images ==
  LET n == Cardinality(Unsure)
      left[k \in 0 .. n] ==
        IF k = 0 THEN Unsure ELSE LET ws == left[k - 1] IN ws \ {CHOOSE w \in ws : TRUE}
      upTo[k \in 0 .. n] ==
        IF k = 0 THEN {<<>>}
        ELSE LET w == CHOOSE w \in left[k - 1] : TRUE
             IN {Over([x \in {w} |-> v], f) : f \in upTo[k - 1], v \in media[w]}
  IN upTo[n]

\* The library undoes what is open and drops what is buffered.  Without transactions
\* (nv) nothing is said of what is left, and the machine is not stopped.
Crash ==
  /\ pc \notin {"crashed", "restarted", "lost", "overrun"} /\ build # "nv"
  /\ \E f \in Images :
       now' = Over(undo, Over(f, [w \in Words |-> CHOOSE v \in media[w] : TRUE]))
  /\ media' = [w \in Words |-> {now'[w]}] /\ undo' = <<>> /\ buf' = <<>>
  /\ todo' = <<>> /\ pc' = "crashed"
  /\ UNCHANGED <<build, hash, item, torn, bug>>

\* restart_hashtable of hashtable_word_only.c finds the header and a table by their
\* names and follows every chain to its end.  hashtable_nv.c:64-118 has the same
\* function; the model does not stop that file.
RestartHashtable ==
  /\ pc = "crashed" /\ build = "word"
  /\ \E t \in {FirstTable} \cup (IF "grown" \in torn THEN DOMAIN Primes ELSE {}) :
       /\ now' = [now EXCEPT ![Table] = t]
       /\ LET whole == now[TableLength] <= Primes[t]
              ends == \A j \in 0 .. now[TableLength] - 1 :
                        Len(Path(now, now[Slot(t, j)])) <= ITEM_COUNT
          IN pc' = IF whole /\ ends THEN "restarted" ELSE "lost"
  /\ media' = [media EXCEPT ![Table] = @ \cup {now'[Table]}]
  /\ UNCHANGED <<build, hash, undo, buf, todo, item, torn, bug>>

-----------------------------------------------------------------------------
Init ==
  /\ build \in Builds /\ hash \in Hashes
  /\ now = [w \in Words |-> 0] /\ media = [w \in Words |-> {0}]
  /\ undo = <<>> /\ buf = <<>> /\ todo = <<>>
  /\ pc = "create" /\ item = 1 /\ torn = {} /\ bug = FALSE

Next ==
  \/ Step \/ CreateHashtable \/ InsertSome \/ GrowTable \/ LinkEntry \/ InsertReturns
  \/ SearchSome \/ RemoveSome \/ Exit \/ Crash \/ RestartHashtable

Spec == Init /\ [][Next]_vars

-----------------------------------------------------------------------------
(* Properties.                                                              *)

Stopped  == pc \in {"crashed", "restarted", "lost"}
Inserted == item - 1

\* The chain of slot j in the first table when the first n items are in it, each put in
\* front of those before.
ChainAfter(h, n, j) ==
  LET chain[k \in 0 .. ITEM_COUNT] ==
        IF k = 0 THEN <<>>
        ELSE IF h[k] % Primes[FirstTable] = j THEN <<k>> \o chain[k - 1] ELSE chain[k - 1]
  IN chain[n]

\* The tester never prints BUG: in each of the four files each item is found after the
\* insertions and again when its turn to be removed comes, an expansion in between or
\* not (tester_nonintel_code.c:243, 290, 311).
NoBug == ~bug

\* After a stop the count is that of the insertions that returned, or one more, and
\* never less: in the transactional files ++entrycount is committed before anything
\* else of an insertion, an expansion included (hashtable_word_only.c:224).
CountCovers ==
  Stopped /\ torn \subseteq {"grown"} => now[EntryCount] \in {Inserted, Inserted + 1}

\* After a stop before the first expansion every chain is the one of the insertions
\* that returned, or has the entry of the insertion under way in front, with its key
\* and hash: none is cut, mixed up or endless.  The redo file's count agrees with its
\* chains.  The object file commits the slot before the entry
\* (hashtable_wrdobj_trans.c:348), and so loses the one chain that it was changing.
ChainsRecover ==
  Stopped /\ torn = {} =>
    LET t == FirstTable
        new == Inserted + 1
        spared(j) == build = "obj" /\ new \in Items /\ hash[new] % Primes[t] = j
        chain == [j \in 0 .. Primes[t] - 1 |-> Path(now, now[Slot(t, j)])]
    IN /\ pc # "lost"
       /\ \A j \in DOMAIN chain :
            ~spared(j) =>
              /\ \/ chain[j] = ChainAfter(hash, Inserted, j)
                 \/ new \in Items /\ chain[j] = ChainAfter(hash, new, j)
              /\ \A e \in ToSet(chain[j]) : now[Key(e)] = e /\ now[HashIn(e)] = hash[e]
       /\ build = "redo" =>
            now[EntryCount] = Cardinality(UNION {ToSet(chain[j]) : j \in DOMAIN chain})

\* Between insertions no transaction is open, nothing is buffered, and the memory holds
\* every word as the program reads it, until the first expansion; but for h->table,
\* which only the object file commits (hashtable_word_only.c:53).
QuietDurable ==
  At("insert") /\ torn = {} /\ build # "nv" =>
    /\ undo = <<>> /\ buf = <<>>
    /\ \A w \in Words : media[w] = {now[w]} \/ (w = Table /\ build # "obj")
================================================================================
