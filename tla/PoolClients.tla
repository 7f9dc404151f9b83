----------------------------- MODULE PoolClients -----------------------------
(***************************************************************************)
(* The programs of the repository that keep a data structure in a pool of   *)
(* libpmemalloc, run one process after the other on the same pool file:     *)
(*                                                                         *)
(*   "list"      libpmemalloc/pmemalloc_test1.c, a list that is changed at  *)
(*               its first node: insert, remove with -f, print              *)
(*   "tree"      binarytree/tree.c under tree_insert, tree_wordfreq,        *)
(*               tree_walk and tree_free: a search tree that counts words;  *)
(*               a new node is linked first and filled in afterwards        *)
(*   "tree_orig" binarytree/tree_orig.c: the same, filled in first          *)
(*   "test2"     libpmemalloc/pmemalloc_test2.c, blocks without links       *)
(*                                                                         *)
(* The library is Pmemalloc, every step of it, with its crashes; a call     *)
(* leaves pc at a step of the library, and the program goes on when pc is   *)
(* "idle" again.  The fields of a node share the cache line of its first    *)
(* data chunk; a long word goes on in the chunks that follow.  A chunk may   *)
(* have been a header, or part of a word, before it is the first of a node.  *)
(***************************************************************************)
EXTENDS Pmemalloc, Sequences

CONSTANTS
  root,       \* the word of the static area that holds rootnp_ or root_
  Words,      \* the strings, or the values, given as arguments
  Length,     \* strlen of each string
  MaxNodes,   \* bound: with so many nodes a program inserts no more
  Again,      \* bound: the words a tree counts up to two, the others to one
  NPtrs,      \* NPTRS of pmemalloc_test2
  Programs    \* the programs of this instance

ASSUME ClientAssumption ==
  /\ root \in Cells /\ Words \subseteq Ptrs \ {Null, N} /\ Again \subseteq Words
  /\ MaxNodes \in [Programs -> Nat] /\ NPtrs \in Nat
  /\ Programs \subseteq {"list", "tree", "tree_orig", "test2"}

\* Bound: a string, which begins at byte 20 of the node, ends past the fields in the
\* last chunk of its block.
ASSUME LengthAssumption ==
  Length \in [Words -> Nat] /\ \A w \in Words : (20 + Length[w]) % 64 \in 24 .. 59

VARIABLES
  prog,      \* the program that works on this pool file
  cpc,       \* where it is, "none" when no process runs
  word,      \* the argument of the operation that was begun last
  before,    \* ghost: what the file may have held when that operation began
  at,        \* rootp_: the word that holds the link being followed
  stack,     \* the rootp_ of the calls of tree_free_subtree that are active
  ptrs, i,   \* pmemalloc_test2: the blocks and the loop variable
  phase,     \* and which of its four loops it is in
  heads,     \* chunks whose bytes are still those of a clump header
  torn       \* ghost: a crash has cut tree.c short between link and fill

locals == <<at, stack, ptrs, i, phase>>
client == <<prog, cpc, word, before, at, stack, ptrs, i, phase>>
allvars == <<vars, client, heads, torn>>

Tree    == prog \in {"tree", "tree_orig"}
Left(p)  == <<"left", p>>     \* left_, and next_ of a list node
Right(p) == <<"right", p>>
Count(p) == <<"count", p>>
Text(p)  == <<"text", p>>     \* s, and value of a list node
Nodes   == {p \in Chunks : Left(p) \in Cells}

\* The bytes asked for: sizeof(*np_) of the list; sizeof(*tnp_) + strlen(s) + 1; 10 + i
\* and 1 + i of pmemalloc_test2, which fit one data chunk for the first blocks.
NodeSize(w) == IF prog = "list" THEN 16 ELSE 24 + Length[w] + 1
T2Size      == IF phase = 1 THEN 10 + i ELSE 1 + i

\* What a word is when the bytes of a clump header lie in it, or of a string: nothing
\* the program has stored there, and no node.
HeadBits     == N
StringBits(w) == N + w

\* The words in the chunks of the node p beyond the first, which the string covers.
Rest(p, w) == {c \in Cells : p + 1 < At[c] /\ At[c] < p + NSize(NodeSize(w))}

\* The node p has the word w in memory m, all of it.
Whole(m, p, w) == m[Text(p)] = w /\ \A c \in Rest(p, w) : m[c] = StringBits(w)

-----------------------------------------------------------------------------
(* What the file holds: the structure a process finds that opens it after a *)
(* power failure at this instant.  recovery completes the on lists first.   *)

Held(c) == IF c = root \/ c[1] \in {"left", "right"} THEN RecoveredRoot(c) ELSE pcell[c]

Children(p) == IF Tree THEN {Held(Left(p)), Held(Right(p))} \ {Null}
                       ELSE {Held(Left(p))} \ {Null}

Inner(ps) == {p \in ps : p \in Nodes}

\* tree_walk: the nodes reached from the root.
Reached ==
  LET step(ps) == ps \cup UNION {Children(p) : p \in Inner(ps)}
      r[k \in 0 .. N] == IF k = 0 THEN {Held(root)} \ {Null} ELSE step(r[k - 1])
  IN r[N]

\* The printing loop of pmemalloc_test1, cut off after N nodes.
Printed ==
  LET f[k \in 0 .. N] ==
        IF k = 0 THEN <<>>
        ELSE LET s == f[k - 1]
                 p == IF s = <<>> THEN Held(root) ELSE Held(Left(s[Len(s)]))
             IN IF p = Null \/ p \notin Nodes \/ Len(s) # k - 1 THEN s ELSE Append(s, p)
  IN f[N]

\* The node at which the search for w through the links of m ends, or Null.
Found(w) ==
  LET f[k \in 0 .. N] ==
        IF k = 0 THEN Held(root)
        ELSE LET p == f[k - 1] IN
             IF p \notin Nodes \/ Held(Text(p)) = w THEN p
             ELSE IF w < Held(Text(p)) THEN Held(Left(p)) ELSE Held(Right(p))
  IN IF f[N] \in Nodes /\ Whole(pcell, f[N], w) THEN f[N] ELSE Null

\* A list is the sequence of its values; a tree says how often each word came,
\* by the counts that memory m holds.
ContentIn(m) ==
  CASE prog = "list" -> [k \in 1 .. Len(Printed) |-> Held(Text(Printed[k]))]
    [] Tree -> [w \in Words |-> IF Found(w) = Null THEN 0 ELSE m[Count(Found(w))]]
    [] OTHER -> <<>>

Content == ContentIn(pcell)

\* A process that was killed may leave counts that are not on the media yet.
Contents == [media |-> Content, cache |-> ContentIn(cell)]

-----------------------------------------------------------------------------
(* Processes                                                                *)

NoLocals == at' = root /\ stack' = <<>> /\ ptrs' = <<>> /\ i' = 0 /\ phase' = 1

NoContents == [media |-> <<>>, cache |-> <<>>]

NoClient ==
  /\ cpc' = "none" /\ word' = Null /\ before' = NoContents
  /\ NoLocals /\ UNCHANGED prog

\* Follow the library: a process it has ended has no locals left.
Go(next) ==
  IF pc' = "down" THEN NoClient
  ELSE cpc' = next /\ UNCHANGED <<prog, word, before>>

\* The same, and the locals stay.
Pass(next) == Go(next) /\ (pc' # "down" => UNCHANGED locals)

\* pmemalloc_reserve makes a new header only where it splits a clump.
LibraryStep ==
  /\ Step /\ Pass(cpc)
  /\ heads' = IF pc = "reserve.split" THEN heads \cup {fr.clp + fr.nsize} ELSE heads

At0(here) == pc = "idle" /\ cpc = here

\* The commands of a program, and those that pass pmemalloc_init a size, so
\* that it creates a file that does not exist.
Commands ==
  CASE prog = "list" -> {"insert", "remove"}
    [] Tree          -> {"insert", "free"}
    [] OTHER         -> {"fill"}

Creates == IF Tree THEN {"insert"} ELSE Commands

StartCommand ==
  /\ cpc = "none"
  /\ \E c \in Commands :
       /\ (c \in Creates /\ Create) \/ Open
       /\ cpc' = c
  /\ before' = Contents
  /\ UNCHANGED <<prog, word, locals>>

\* exit(0), or a fatal message: FATALSYS when pmemalloc_reserve returned NULL,
\* FATAL when the list is empty or pmemalloc_check finds fault.
Gone == ProcessGone /\ NoClient /\ UNCHANGED <<image, env>>

-----------------------------------------------------------------------------
(* Insertion: the loop of pmemalloc_test1, tree_insert of binarytree.       *)

InUse == {p \in Clumps(hdr) \cap Nodes : hdr[p].state = "ACTIVE"}

\* The bounds: so many nodes, and in a tree a word once, those of Again twice.
Bounded(w) ==
  /\ Cardinality(InUse) < MaxNodes[prog]
  /\ Tree => \A p \in InUse : cell[Text(p)] = w =>
               cell[Count(p)] < IF w \in Again THEN 2 ELSE 1

Insert(w) ==
  /\ At0("insert")
  /\ Bounded(w)
  /\ word' = w
  /\ before' = Contents
  /\ at' = root
  /\ cpc' = IF prog = "list" THEN "reserve" ELSE "descend"
  /\ UNCHANGED <<vars, prog, stack, ptrs, i, phase>>

\* strcmp finds a string here: a word, or the empty string of memory that is zero.
Legible(p) == p \in Nodes /\ (cell[Text(p)] = Null \/ \E w \in Words : Whole(cell, p, w))

\* tree_insert_subtree on a node with another word.
Descend ==
  /\ At0("descend")
  /\ cell[at] # Null /\ Legible(cell[at])
  /\ word # cell[Text(cell[at])]
  /\ at' = IF word < cell[Text(cell[at])] THEN Left(cell[at]) ELSE Right(cell[at])
  /\ UNCHANGED <<vars, prog, cpc, word, before, stack, ptrs, i, phase>>

DescendOut ==
  /\ At0("descend")
  /\ cell[at] = Null
  /\ cpc' = "reserve"
  /\ UNCHANGED <<vars, prog, word, before, locals>>

\* count++ on the node that holds the word.
Bump ==
  /\ At0("descend")
  /\ cell[at] # Null /\ Legible(cell[at])
  /\ word = cell[Text(cell[at])]
  /\ LET c == Count(cell[at]) IN cell' = [cell EXCEPT ![c] = @ + 1]
  /\ cpc' = "bumped"
  /\ UNCHANGED <<hdr, phdr, pcell, pc, fr, gclp, handles, freed, env>>
  /\ UNCHANGED <<prog, word, before, locals>>

\* Mutant: the store is not persisted.
PersistWordsNot(cs) == UNCHANGED vars

\* pmem_persist(.., _DATAPERSIST) of the lines that the words cs lie in.
PersistWords(cs) ==
  /\ pcell' = IF Elided(NoDataPersist) THEN pcell
              ELSE [d \in Cells |-> IF d \in cs THEN cell[d] ELSE pcell[d]]
  /\ UNCHANGED <<hdr, phdr, cell, pc, fr, gclp, handles, freed, env>>

PersistCount ==
  /\ At0("bumped")
  /\ PersistWords(Line(Count(cell[at])))
  /\ cpc' = "insert"
  /\ UNCHANGED <<prog, word, before, locals>>

CallReserveNode ==
  /\ At0("reserve")
  /\ Reserve(NodeSize(word))
  /\ Pass("reserved")

\* The block the call returned; nothing when it returned NULL.
Reserved == {p \in handles : hdr[p].state = "RESERVED"}

AfterReserve == IF prog = "tree" THEN "link" ELSE "fill.node"

ReserveFailed ==
  /\ At0("reserved") /\ Reserved = {}
  /\ Gone

Node == CHOOSE p \in Reserved : TRUE

Newest == IF Reserved # {} THEN Node ELSE cell[at]

\* The first words of the chunks of a clump; where a header was, its size lies over
\* left_ and zeros over the rest (prevsize is never set, and off is cleared by then).
Body(p) == {c \in Chunks : p < c /\ c < p + hdr[p].size}
Uncovered(m, p) ==
  [c \in Cells |-> IF At[c] \in heads \cap Body(p)
                     THEN IF c[1] = "left" THEN HeadBits ELSE Null
                     ELSE m[c]]

\* The program gets the block with the bytes that lie in it.
ReserveDone ==
  /\ At0("reserved") /\ Reserved # {}
  /\ cell' = Uncovered(cell, Node) /\ pcell' = Uncovered(pcell, Node)
  /\ heads' = heads \ Body(Node)
  /\ cpc' = AfterReserve
  /\ UNCHANGED <<hdr, phdr, pc, fr, proc, env, prog, word, before, locals>>

\* Mutant: the list's new node forgets the old first node.
FilledNoNext(p) ==
  [c \in Cells |->
     CASE c \in {Left(p), Right(p)} -> Null
       [] c = Count(p) -> 1
       [] c = Text(p) -> word
       [] c \in Rest(p, word) -> StringBits(word)
       [] OTHER -> cell[c]]

\* The stores that fill in a node.
Filled(p) ==
  [c \in Cells |->
     CASE c = Left(p) /\ prog = "list" -> cell[root]
       [] c \in {Left(p), Right(p)} /\ Tree -> Null
       [] c = Count(p) /\ Tree -> 1
       [] c = Text(p) -> word
       [] c \in Rest(p, word) -> StringBits(word)
       [] OTHER -> cell[c]]

FillNode ==
  /\ At0("fill.node")
  /\ cell' = Filled(Newest)
  /\ cpc' = IF prog = "tree" THEN "persist" ELSE "link"
  /\ UNCHANGED <<hdr, phdr, pcell, pc, fr, gclp, handles, freed, env>>
  /\ UNCHANGED <<prog, word, before, locals>>

LinkNode ==
  /\ At0("link")
  /\ OnActive(Node, at, Node)
  /\ Pass("activate")

ActivateNode ==
  /\ At0("activate")
  /\ Activate(Node)
  /\ Pass(IF prog = "tree" THEN "fill.node" ELSE "insert")

PersistNode ==
  /\ At0("persist")
  /\ PersistWords(Line(Text(cell[at])) \cup Rest(cell[at], word))
  /\ cpc' = "insert"
  /\ UNCHANGED <<prog, word, before, locals>>

-----------------------------------------------------------------------------
(* Removal: pmemalloc_test1 -f, and tree_free.                              *)

RemoveEmpty == At0("remove") /\ cell[root] = Null /\ Gone

\* Mutant: the whole list goes, not its first node.
OnFreeFirstAll ==
  /\ At0("remove") /\ cell[root] # Null
  /\ OnFree(cell[root], root, Null)
  /\ Pass("remove.free")

OnFreeFirst ==
  /\ At0("remove") /\ cell[root] # Null
  /\ OnFree(cell[root], root, cell[Left(cell[root])])
  /\ Pass("remove.free")

FreeFirst ==
  /\ At0("remove.free")
  /\ Free(cell[root])
  /\ Pass("exit")

Top == stack[Len(stack)]

\* tree_free_subtree at a link: nothing to do, or the left subtree first.
FreeTree ==
  /\ At0("free")
  /\ stack' = <<root>>
  /\ cpc' = "free.left"
  /\ UNCHANGED <<vars, prog, word, before, at, ptrs, i, phase>>

Push(c, next) ==
  /\ stack' = Append(stack, c)
  /\ cpc' = next
  /\ UNCHANGED <<vars, prog, word, before, at, ptrs, i, phase>>

\* The subtree at the top of the stack is done; a left subtree is followed by
\* the right one of the same node, a right one by the node itself.
Popped ==
  /\ stack' = SubSeq(stack, 1, Len(stack) - 1)
  /\ cpc' = IF Len(stack) = 1 THEN "exit"
            ELSE IF Top[1] = "left" THEN "free.right" ELSE "free.node"
  /\ UNCHANGED <<vars, prog, word, before, at, ptrs, i, phase>>

FreeLeft ==
  /\ At0("free.left")
  /\ cell[Top] \in Nodes \cup {Null}
  /\ IF cell[Top] = Null THEN Popped ELSE Push(Left(cell[Top]), "free.left")

FreeRight ==
  /\ At0("free.right")
  /\ Push(Right(cell[Top]), "free.left")

FreeNode ==
  /\ At0("free.node")
  /\ OnFree(cell[Top], Top, Null)
  /\ Pass("free.free")

FreeNodeFree ==
  /\ At0("free.free")
  /\ Free(cell[Top])
  /\ Pass("free.done")

FreeDoneUp == At0("free.done") /\ Popped

-----------------------------------------------------------------------------
(* pmemalloc_check on the pool as a process maps it, and pmemalloc_test2.   *)

\* Its verdict: what it prints before it aborts, or "ok".
Verdict ==
  IF hdr[1].size = 0 \/ ~Tiled(hdr) THEN "fatal"
  ELSE IF \E p \in Clumps(hdr), k \in Slots :
            hdr[p].state \in {"FREE", "ACTIVE"} /\ hdr[p].on[k].off # None
         THEN "assert"
  ELSE "ok"

\* The loops reserve and activate (1 and 3) or free (2 and 4) the blocks, all of
\* them (1 and 4) or every other one, and each is followed by a check.
Allocates == phase \in {1, 3}
Stride    == IF phase \in {1, 4} THEN 1 ELSE 2
Looping   == At0("fill") /\ i < NPtrs

T2Reserve == Looping /\ Allocates /\ Reserve(T2Size) /\ Pass("fill.got")

T2Fail == At0("fill.got") /\ Reserved = {} /\ Gone

T2Activate ==
  /\ At0("fill.got") /\ Reserved # {}
  /\ Activate(Node)
  /\ ptrs' = [k \in DOMAIN ptrs \cup {i} |-> IF k = i THEN Node ELSE ptrs[k]]
  /\ i' = i + Stride
  /\ cpc' = "fill"
  /\ UNCHANGED <<prog, word, before, at, stack, phase>>

T2Free ==
  /\ Looping /\ ~Allocates
  /\ Free(ptrs[i])
  /\ i' = i + Stride
  /\ UNCHANGED <<prog, cpc, word, before, at, stack, ptrs, phase>>

\* pmemalloc_check(path) after a loop.
T2Check ==
  /\ At0("fill") /\ i >= NPtrs
  /\ IF Verdict = "ok"
       THEN /\ i' = 0
            /\ IF phase < 4 THEN phase' = phase + 1 /\ cpc' = cpc
                            ELSE phase' = phase /\ cpc' = "exit"
            /\ UNCHANGED <<vars, prog, word, before, at, stack, ptrs>>
       ELSE Gone

-----------------------------------------------------------------------------
\* The program follows bits that are no pointer, or compares with bytes that are no
\* string it has stored: undefined from here on, and the model stops.
Lost ==
  /\ \/ At0("descend") /\ cell[at] # Null /\ ~Legible(cell[at])
     \/ At0("free.left") /\ cell[Top] \notin Nodes \cup {Null}
  /\ cpc' = "lost"
  /\ UNCHANGED <<vars, prog, word, before, locals>>

\* exit(0), once the arguments have been dealt with.
Finish == At0("exit") /\ Gone

\* A process that inserts no more; one that inserts nothing, and prints what it finds,
\* is tree_walk, or pmemalloc_test1 without numbers.
NoMoreArguments == At0("insert") /\ Gone

ClientStep ==
  \/ (\E w \in Words : Insert(w)) \/ NoMoreArguments
  \/ Descend \/ DescendOut \/ Bump \/ PersistCount
  \/ CallReserveNode \/ ReserveFailed
  \/ FillNode \/ LinkNode \/ ActivateNode \/ PersistNode
  \/ RemoveEmpty \/ OnFreeFirst \/ FreeFirst
  \/ FreeTree \/ FreeLeft \/ FreeRight \/ FreeNode \/ FreeNodeFree \/ FreeDoneUp
  \/ T2Reserve \/ T2Fail \/ T2Activate \/ T2Free \/ T2Check
  \/ Lost \/ Finish

\* tree.c has linked a node and not yet persisted what it fills in.
Unfilled == prog = "tree" /\ cpc \in {"fill.node", "persist"}

\* The process is killed or the power fails; the hardware writes a line back.  Bound:
\* what comes after a crash that has torn a tree runs without another one.
ClientCrash == ~torn /\ Crash /\ NoClient /\ torn' = Unfilled
ClientEvict == cpc # "lost" /\ Evict /\ UNCHANGED client

ClientInit ==
  /\ Init
  /\ prog \in Programs
  /\ cpc = "none" /\ word = Null
  /\ before = NoContents
  /\ at = root /\ stack = <<>> /\ ptrs = <<>> /\ i = 0 /\ phase = 1
  /\ heads = {} /\ torn = FALSE

ClientNext ==
  \/ (StartCommand \/ ClientStep \/ ClientEvict) /\ UNCHANGED <<heads, torn>>
  \/ (LibraryStep \/ ReserveDone) /\ UNCHANGED torn
  \/ ClientCrash /\ UNCHANGED heads

ClientSpec == ClientInit /\ [][ClientNext]_allvars

-----------------------------------------------------------------------------
ClientTypeOK ==
  /\ prog \in Programs
  /\ word \in Words \cup {Null}
  /\ at \in Cells
  /\ \A k \in DOMAIN stack : stack[k] \in Cells
  /\ \A k \in DOMAIN ptrs : ptrs[k] \in Chunks
  /\ i \in Nat /\ phase \in 1 .. 4
  /\ (cpc = "none") = (pc = "down")
  /\ heads \subseteq Chunks \ {1} /\ torn \in BOOLEAN

Used == {p \in Clumps(phdr) : phdr[p].state \in {"ACTIVATING", "ACTIVE"}}

\* No crash leaks a block or leaves a link to memory that is given back: at every
\* instant the blocks a recovery would find in use are the nodes it would reach
\* from the root, each through one link (pmemalloc_onactive and pmemalloc_onfree
\* tie the link to the block), whatever lay in the memory of a node before.  Of
\* tree.c this is so until a crash hits the insertion of a node that is linked and
\* not filled in (tree.c:152-163).
BlocksAreNodes ==
  /\ ClientTypeOK
  /\ prog # "test2" /\ ~Unfilled /\ ~torn =>
    LET links == {root} \cup {Left(p) : p \in Used} \cup
                 (IF Tree THEN {Right(p) : p \in Used} ELSE {})
    IN /\ Reached = Used
       /\ \A c, d \in links : c # d /\ Held(c) = Held(d) => Held(c) = Null

\* The content is what it was when the last operation began, with n more of word
\* w; a count the cache was ahead with may have followed.
Grown(w, n) ==
  IF Tree THEN \A x \in Words :
                 Content[x] - (IF x = w THEN n ELSE 0)
                   \in before.media[x] .. before.cache[x]
  ELSE Content = [k \in 1 .. n |-> w] \o before.media

\* Nodes have gone: of a tree any, of a list the first one.
Shrunk ==
  IF Tree THEN \A x \in Words : Content[x] \in {0} \cup before.media[x] .. before.cache[x]
  ELSE before.media # <<>> /\ Content = Tail(before.media)

Emptied == Tree => \A x \in Words : Content[x] = 0

\* An insertion or a removal happens as a whole or not at all, whatever the
\* crash, and is on the media when it has returned; in tree.c unless a crash hits an
\* insertion that has linked its node and not filled it in.
OpsAtomic ==
  cpc \notin {"none", "lost"} /\ prog # "test2" /\ ~Unfilled /\ ~torn =>
    /\ Grown(word, 0) \/ (IF word = Null THEN Shrunk ELSE Grown(word, 1))
    /\ At0("insert") /\ word # Null => Grown(word, 1)
    /\ At0("exit") => Shrunk /\ Emptied

\* A crash between pmemalloc_onfree and pmemalloc_free leaves the assignment in
\* the header of a block in use, and pmemalloc_check then aborts.  All that pile
\* up there say the same, and what the next removal of the block would say.
PendingAgree ==
  \A p \in Clumps(phdr), k \in Slots :
    phdr[p].state = "ACTIVE" /\ phdr[p].on[k].off # None =>
      LET e == phdr[p].on[k] IN
      IF Tree THEN Held(e.off) = p /\ e.ptr = Null
              ELSE e.off = root /\ e.ptr = Held(Left(p))

Pending == \E p \in Clumps(hdr), k \in Slots :
             hdr[p].state = "ACTIVE" /\ hdr[p].on[k].off # None

\* pmemalloc_check finds no fault with a pool between the operations of a program,
\* whatever crash came before, but for one: a removal that a crash cut short
\* after pmemalloc_onfree fails its assertion on a block in use.
CheckAccepts ==
  pc = "idle" /\ cpc \in {"insert", "remove", "free", "fill", "exit"} =>
    Verdict = IF Pending THEN "assert" ELSE "ok"

-----------------------------------------------------------------------------
\* What v_tree refutes.  README:238-242: the tree "uses libpmemalloc to make sure
\* things stay consistent across crashes", and the string of an interrupted
\* tree_insert "either makes it completely into the tree or it doesn't": whatever
\* link a walk of the recovered tree follows leads to a node in use.
LinksLeadToNodes == prog = "tree" => Reached \subseteq Used
=============================================================================
