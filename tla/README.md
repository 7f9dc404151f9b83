# A TLA+ model of the Linux persistent-memory examples

The repository is a set of small C libraries and programs that keep data in persistent memory:
byte-addressable storage that is read and written with plain loads and stores through the
processor cache. Its difficulty is one question asked everywhere: *which of my stores survive if
the machine stops now?* The project models the libraries that answer it, checks them with TLC on
small instances, and proves the main results with TLAPS for instances of every size.

## Inventory

| component | state it keeps | operations | what makes it correct | modules |
|---|---|---|---|---|
| `libpmemalloc` (allocator) | the pool file: a chain of *clumps*, each a 64-byte header (size, state, three "on" assignments) and its data; the static area; the global `gclp` | `pmemalloc_init` (create, recover, coalesce), `_reserve`, `_onactive`, `_onfree`, `_activate`, `_free`, `_check` | the clumps always tile the pool; a crash loses or doubles nothing; activate and free are atomic with the pointer stores given to them; data is durable before it is published | `Pmemalloc`, `PmemPool`, `PmemallocProofs` |
| `libpmem` (persistence) | the bytes in the process, in the file and on the media; the flag `persist_set` of the epoch thread; the mode; the redo log of `pmem_cl.c` | `pmem_map`, `pmem_persist`, `pmem_flush_cache`, `pmem_fence`, `pmem_drain_pm_stores`, in cache-line, msync and fault-injection modes, and inline | every byte of the range is written back; a call is skipped only when it was marked as skippable; nothing is flushed that is not logged | `Libpmem`, `BasicProofs` |
| `libpmem/log.c` (`libpmemlog`) | a header and an append-only area | open, append, appendv, persist, tell, rewind, walk, check | an append is all or nothing; the write offset never passes the end; what is persisted stays | `PmemLog`, `AppendLog`, `PmemLogProofs` |
| `libpmemalloc/pmemalloc_test1` | a linked list in the static area | prepend, remove the first, print | the list is what the completed operations made it, whatever the crash | `PoolClients` |
| `libpmemalloc/pmemalloc_test2`, `pmemalloc_check` | an array of blocks | reserve, activate, free, check | the check accepts what the library leaves | `PoolClients` |
| `binarytree` | a word-count tree linked with allocator calls | insert, walk, free | a search tree with one node per word; a node is reachable only when whole | `PoolClients` |
| `btree-1.0` | a volatile/persistent B-tree | create, insert, delete, find | order, balance and minimum fill of the nodes | `BTree`, `BTreeSearch`, `KeyBag`, `BTreeShapes`, `BTreeProofs` |
| `c-hashtable` | a chained hash table and its iterator | create, insert, search, remove, expand, iterate | an inserted key is found until removed, also across an expansion | `HashTable`, `KeyBag`, `HashTableProofs` |
| `c-hashtable` on transactions | the same table, its words under a transaction library | create, insert, search, remove, expand, restart | after a stop of the machine, the words are those of the insertions that returned | `HashTrans`, `HashTransProofs` |
| `icount` | a child process that single-steps its parent | start, stop, the ptrace loop | the count covers exactly the instructions between start and stop; both processes always go on | `Icount`, `IcountProofs` |
| `basic`, `trivial` | strings in a mapped file | store and persist, dump | what was persisted is dumped, whatever ended the run | `Basic`, `BasicProofs` |
| `util` | none | messages, options, sizes | | as the ends of processes |

The parts interact by calls. The tree, the hash table and the list keep pointers in the pool and
change them through `pmemalloc_onactive`/`_onfree`; the allocator makes every store durable
through `pmem_persist`; the epoch thread of `libpmem` shares one unlocked flag with both;
`icount`'s two processes meet through ptrace stops, a signal and a pipe. The hard behaviours are
crashes between any two persisted stores (the cache may write back a line early, a power failure
loses the rest, the mere end of a process loses nothing), recovery that is itself interrupted, the
order in which two lines reach the media, a global cursor that goes stale, and a flag that changes
under a running call.

## The memory models

Each layer has the coarsest memory that still shows what can go wrong in it: bytes in `Libpmem`,
where the rounding of a range is the question; lines in `Pmemalloc`, cells in `PmemLog` and words
in `HashTrans`, where the order of stores is.

`Pmemalloc.tla` models the allocator and the memory under it. Every 64-byte line has two contents:
`hdr`/`cell` is what the processor reads, `phdr`/`pcell` is what is on the media. `pmem_persist`
copies the first to the second (`Persist`), the hardware may copy at any moment (`Evict`),
`PowerFail` replaces the first by the second, and `Exit` (the process ends or is killed) keeps
both. Lines are independent, so every order of write-back is covered.

A store and the `pmem_persist` that directly follows it form one step (`Commit`). No behaviour is
lost: in between, the line on the media holds the old or the new content, which are exactly the
two outcomes of a crash just before the step and just after it, and a clump header is one line.
Where the code stores several words before it persists (the clearing of an "on" list), each store
is a step. A header is written word by word, but the words of one line cannot reach the media out
of order with respect to a later persist, and every intermediate content that matters (`ptr_` set,
`off` not yet) has a step of its own.

The pool is measured in chunks of 64 bytes. `NSize` is the code's `roundup`, so that a request of
10 bytes needs two chunks and one of 100 bytes three.

## The modules

`Pmemalloc.tla`. One action per persisted step of each function. `pc` says where the process is,
`fr` holds the locals of the running call. `Create`, `CreateClump`, `CreateSync` and `Open` are
`pmemalloc_init`; `Recover*` is `pmemalloc_recover` and `Coalesce*` is `pmemalloc_coalesce_free`,
one action per turn of its loop; `Reserve*`, `OnActive*`, `OnFree*`, `Activate*` and `Free*` are
the calls. `RunOn` and `ClearOn` are the two loops over an "on" list, which occur in recovery,
activation and free. `Fatal` is the code's `FATAL`: the process ends.

The caller (`Call`) is the most general legal one. It makes any documented call in any order, with
pointers it can really have (`Known`: those it reserved, and those its roots contain after a
restart). It links a block from a root that is null, and frees a block only after asking for the
roots that hold it to be cleared, as `pmemalloc_test1.c` and `tree.c` do. It stores into blocks it
has reserved (`Fill`).

Three flags open variants. `NoDataPersist` is the `-D_NODATAPERSIST` of the shipped Makefile:
`pmemalloc_free` and `pmemalloc_onfree` then mark persists as skippable while the epoch thread
holds `persist_set` at 0. `Remix` lets a process reserve after it has freed; without it the defect
shown by `v_cursor` would hide everything else, because `gclp` may then point into the middle of a
free clump. `CrashInCreate` lets a crash hit the creation of the file, which the code does not
handle (see below). A creation that fails on the way returns NULL and leaves the same files behind
as a crash at that step, so that it has no action of its own.

`PmemPool.tla` is what an application is promised: blocks and roots that change only by whole
activations and whole frees. `Pmemalloc` implements it (`AtomicPool`) with the mapping `Pool`: the
blocks are the clumps that the *media* holds as ACTIVATING or ACTIVE, and a root has the value it
would have after recovery had run the "on" lists of the clumps caught half way (`RecoveredRoot`).
So an activation takes effect at the instant its ACTIVATING header reaches the media.

`MCPmemalloc.tla` gives the constants small values. The theorems are in `PmemallocProofs`: first
types, the tiling, which clumps a walk meets and in what state, and how far the media is behind
the cache; then the "on" lists, the refinement and the data.

`PmemLog.tla` models `libpmem/log.c` at the grain of stores. `hdr`, `desc` and `data` are the pool
header, the descriptor with its three offsets and the log space as the processor sees them;
`phdr`, `pdesc` and `pdata` are the media, written by `msync` and by `Evict`. Several threads are
in the library at once: an append takes the write lock (`AppendLock`), tests the space
(`AppendSpace`), copies cell by cell (`AppendCopy`), and `pmemlog_persist` is `PersistData` and
`PersistOffset`, `AppendCommit`; walks and tells take the read lock. Two opens of one pool do not
overlap in time, which the library leaves to its callers, but a pool that is open may be opened
again (`MaxOpens`), which stores a new rwlock in the shared mapping, as `log.c` does.
`AppendLog.tla` is the promise: the log grows by whole records or is emptied. `AtomicLog` maps it
to the log that a power failure would leave (`DurableLog`).

`BTree.tla` models `btree-1.0/bt_code.c`. `heap` is the sequence of nodes in the order of their
reservation. A call is a series of steps, one for each activation of the recursion: `InsertLeaf`
and `InsertDescend` are the two branches of `btreeinsertnonfull`, `DeleteLeaf`, `DeletePred`,
`DeleteSucc`, `MergeAround` and `Descend` with `BorrowLeft`, `BorrowRight`, `MergeLeft`,
`MergeRight` are cases 1, 2a, 2b, 2c, 3, 3a and 3b of `nodedeletekey`. `pend` is the one frame of
the C stack that has work left to do: cases 2a and 2b store the result of the recursive deletion
in the slot they came from. Searches and `bt_checktree` (`Find`, `MinMax`, `CheckNode`) change
nothing and are operators, which the properties use. `ImplementsBag` maps the tree to
`KeyBag.tla`; a running call counts as not yet done, so each call is one atomic change of the bag.

`BTreeSearch.tla` is the other half of that file: `bt_create`'s parameters, the bitwise
`real_log2`, the cache of logarithms that all trees of a process share and extend, and
`findkindex`, probe by probe. `BTree` uses the result of that search (`FindKIndex`);
`SearchIsRank` shows that the probes compute it.

`HashTable.tla` models `c-hashtable/hashtable.c` and `hashtable_itr.c`. `h` is `struct hashtable`
with the chains as sequences, `itr` the iterator with its `e`, `parent` and `index`. A call is one
action. `pmem` is the build: with the pool, each removal is undefined behaviour and so are the
calls that run out of memory, and the model stops there (`Lost`); without it, the model goes on
after an allocation that failed, and an expansion that failed leaves the old table with the new
length. An iterator survives no insertion and no removal by the table (`tester.c:201-205`), but
removes through itself. `ImplementsBag` maps to `KeyBag` again.

`PoolClients.tla` composes the allocator with the programs that keep a structure in a pool. It
EXTENDS `Pmemalloc` and replaces its most general caller by the four programs: a client action
runs when the library is "idle", calls the library (which leaves `pc` at a step of it), and goes
on when the library is idle again; `cpc` is the place in the client. `StartCommand` starts a
program on the file an earlier one left, after any number of crashes, and `LibraryStep` is every
step of the allocator. A node is asked for with the size the code computes from its word
(`NodeSize`), so that it takes a header and one data chunk or more: its fields are one cache line,
and a long word goes on in the chunks that follow. `Cells` holds the root and the fields of each
possible node, `At` the chunk where they lie. Memory comes with the bytes that lie in it: the words
of a node that was there, a piece of a long word (`StringBits`), or the header of a clump that has
been merged away (`heads`, `Uncovered`; its size lies over `left_`). `torn` records that a crash has
hit a node of `tree.c` that is linked and not filled in (`Unfilled`); a program that then follows a
link to no node, or compares with bytes that are no word, is `Lost` and the model stops.
Insertions of the list and of the tree, `pmemalloc_test1 -f`, `tree_free` with its recursion as a
stack of links, and the four loops of `pmemalloc_test2` with `pmemalloc_check` (`Verdict`) after
each are actions; walks and prints change nothing and are operators (`Reached`, `Printed`,
`Content`).

`Libpmem.tla` is the library itself, byte by byte. `mem`, `file` and `media` are what the process
sees, what the file holds for everyone else, and what a power failure leaves; shared modes have
`mem = file`, fault-injection mode maps privately and writes lines to the file. `Called` enters a
call, `fr` holds its arguments and its loop pointer `uptr`, and each turn of a flush loop is a
step; `WriteLog` is the redo log of `pmem_persist_cl`, which every line range is written to before
it is flushed; the epoch thread starts with the map and changes `persistSet` at any moment. `redo`
itself is a log of `log.c`, whose records are whole after any crash by `PmemLog`; here it is only
a sequence. `Basic.tla` runs `basic.c` and `trivial.c` on it: creation, the loop over the strings
(`NextArg`, `StrcpyByte`, `Persist`, `Persisted`), the dump as an operator, and restarts after a
kill or a power failure at any byte. `Flags` and `Calls` let the loop make the calls of the other
programs too.

`Icount.tla` has two processes. `at` is where the parent is, `tracer` where its child is; `run` is
how the kernel lets the parent run (freely, one instruction, to the next system call, stopped),
and `blocked` its signal mask. `Signal`, `Triggered`, `Detach` and `SingleStep` are what the
tracer does at a stop, by the place where it finds the parent; `TracerFails` is each `FATAL` of
the tracer. `ran` counts what the parent has really executed and is what `count` is compared with.

`HashTrans.tla` models the four files of `c-hashtable` that are written for a transaction library,
under the program `tester_nonintel_code.c`. A call is the sequence of its stores, begins and
commits (`todo`), and `Step` executes the first. The library (`nv_map.h`, `nv_def.h`) is not in
the repository: how the files use it is modelled, and marked external. An open undo transaction
keeps the old words and a commit makes the new ones durable; `store_word` buffers and
`commit_noarg` makes the buffer durable at once. `now` is what the program reads, `media` the set
of values each word may have after a stop. `RestartHashtable` is that of `hashtable_word_only.c`.
`hashtable_nv.c:64-118` compiles the same function, but has no transactions, and the model does not
stop that file; in `hashtable_redo.c` it returns NULL and in `hashtable_wrdobj_trans.c` it is
compiled out. These two also take their memory from plain `malloc`
(`hashtable_wrdobj_trans.c:31-33`, `hashtable_redo.c:206` and `344-346`): the model treats it as
the non-volatile memory their transactions are written for. What is left out: `hashtable_remove` of
the redo file commits a store into the entry after it has freed it (`hashtable_redo.c:434-438`).

`Basic`, `Icount` and the others are proved about in modules of their own, named `*Proofs`. Four of
them start with the same two lemmas about recursion along the numbers (`UpTo`, `Recursion`).
`BTreeShapes` holds the lemmas about B-trees that speak of no state: what a tree is and what each
operation on its nodes makes of it. `BTreeProofs` extends it with the running calls.

## The runs

| run | instance | what it shows |
|---|---|---|
| `pool` | 5 chunks, two sizes, two roots, two "on" entries | the clumps tile the pool, handles stay clumps, returned calls are durable; `Pmemalloc` implements `PmemPool`; every call and every recovery ends |
| `pool_lazy` | 5 chunks, two sizes, a field in a block, shipped build | with skipped persists a recovery still leaves nothing half done; data reaches the media before the header that publishes it |
| `v_cursor` | 6 chunks, `Remix` | violated: active memory inside a free clump |
| `v_tree` | 6 chunks, a short and a long word, `tree.c` | violated: a crash publishes a clump's header as a link |
| `clients` | 6 chunks, a short and a long word, four programs, two "on" entries | the blocks in use are the nodes of the structure; operations are all or nothing; entries of interrupted removals agree with the next removal; `pmemalloc_check` accepts every pool without such entries |
| `basic` | 8 bytes, lines of 2, pages of 4, a redo log of 3, four modes | what was persisted is durable and is what a dump starts with; nothing unlogged is flushed; fault injection drops what was not flushed |
| `icount` | three instructions, limits 0, 1, 4 and 9 | the count is exact, a crash is on time, each count ends |
| `log_all` | two threads, 3 cells | `PmemLog` implements `AppendLog`; a reader sees a snapshot, quiet data is durable, an openable pool stays openable, the lock is given back |
| `bt_all` | t = 2, up to ten keys of two or three values | the shape of a B-tree after every step, searches and `bt_checktree` after every call; `BTree` implements `KeyBag`; every call returns |
| `bt_search` | two trees, nodes of up to seven keys | the search is right and reads nothing outside the node or the table |
| `ht_all` | five keys, lengths 1, 2 and 5, both builds, memory may run out | `HashTable` implements `KeyBag`; iterations; the count; the order of equal keys |
| `htrans` | three items, tables of 2 and 3, four files | every item is found; after a stop the count covers the insertions that returned and the chains are whole |

Bounds. `N` is the chunk number of the end marker, so the pool has `N - 1` chunks. In five chunks
there are two blocks with a chunk to spare: a free run next to a block in use, runs that merge, a
split, an exact fit and a request that does not fit; `v_cursor` and `clients`, which need a third
block, have six. `NumOn` is 1 or 2 in place of 3: the loops stop, overflow and are interrupted at each
position already, and in `clients` the entries of two interrupted removals lie side by side while a
third one ends the program. No counter of the allocator is cut off: all state is finite. In
`clients`, a node with the short word takes two chunks and one with the long word three, so that a
node can begin where a header or the rest of a long word was. `LengthAssumption` lets a string end
beyond the place of the fields in its last chunk. `MaxNodes` stops a program that would insert more
and `Again` the counting of words. After a crash that has left a tree `torn` the following programs
run without another one.

The file of `basic` has two pages of two lines of two bytes, so that an address can be at, and a
range can end at, the start and the middle of a line or page; the empty string shifts the next one
to an odd address; the log has room for three bytes, so it fills in the first or the second call.
In `icount` the limits stand for none, the first instruction, the last (`icount_stop`'s call
counts) and one beyond the end. `Rounds` is 1, see below for the second count.

The log has 3 cells and records of up to two cells over two values: a record that fits exactly, one
that does not fit, and a torn one at every cell. Processes end between writing calls and the power
fails anywhere; that a pool stays openable also when processes are killed at any store and open it
several times is `OpenableForEver`. Up to ten keys with t = 2 fill a tree of height three and
shrink it again in every order, through every case of a deletion. The tree holds part of one of two
bags (`Bags`): six equal keys with a smaller and a greater one, or four and six of two keys with an
absent one between them. With eight nodes an inner node can have a key to spare, so that inner
nodes lend to each other, and predecessors and successors are fetched from two levels below their
pending slot with merges and loans on the way. `MaxNodes`, `MaxKeys` and
`Bags` bound the tree: freed nodes are never reused in this build, so a program that inserts and
deletes for ever ends at `MaxNodes`, where a reservation fails and the model stops (`pc` is
"lost"). The five hash table keys expand the table up to twice, share slots in each length in a
different way, and hold two pairs of equal keys. Its lengths stand for the primes of the code,
whose load limits grow just as strictly (`SizesAssumption`). In `htrans` the third insertion
expands the table from two slots to three, and all 27 hash functions into 0..2 are tried, so that
chains of one to three entries are split in every way. `CHECK_DEADLOCK FALSE` is in the runs of
programs that end: a hash table that is destroyed, a process that has exited, a program whose next
step is undefined.

Fairness. For the allocator `FairSpec` is weak fairness of `Step`, the code a process runs once it
is inside the library: a running process goes on. Callers, crashes, write-backs and the epoch
thread are not fair, and a crash may end any call. For the log it is weak fairness of the steps of
a thread that waits for nobody (`Locked`); no fairness is assumed of the `pthread_rwlock` calls,
so nothing is claimed about a thread that waits for the lock. For the B-tree it is weak fairness
of the running call. For `icount` it is weak fairness of each of the two processes, which is what
a scheduler gives. `Basic`, `PoolClients`, `HashTrans`, `HashTable` and `BTreeSearch` are checked
for safety only.

## The proofs

Each theorem holds for every value of the constants that the named assumptions of its module
admit; those say what values the constants may have, and nothing about behaviour. Every inductive
invariant was checked by TLC on the instances above before it was proved.

*The allocator.* `TypeCorrect` (`Spec => []TypeOK`). `TypeOK` is not inductive: a walk adds `size`
to a chunk number, so that it stays in the pool only if no header, live or left over inside a
merged clump, reaches past the end. `TypeInv` adds this (`HeadersOK`), and what the locals satisfy
at each `pc` (`FrameOK`: the size of the current free run is the distance walked since it began, a
split leaves room for a header, and so on). One lemma per function shows that its steps keep
`TypeInv`.

`PoolAlwaysTiled` (`Spec => []PoolTiled`). The clumps in the cache and those on the media can
differ, and the invariant must hold for whichever lines a crash keeps. `TileInv` therefore speaks
of a set `V` of chunks that is closed under *both*: from each chunk of `V` the size in the cache
and the size on the media lead to a chunk of `V`, and every clump pointer of the code is in `V`
(`Links`, `Pointers`). A split adds one chunk to `V`; no other step needs to change it. A walk
ends because sizes are positive. `NoClump` is the case of a pool file that was never completed.
The theorem needs no flag: it holds with stale cursors, skipped persists and crashes during
creation.

The other theorems of the allocator are about `Clumps(h)`, which is a recursive function on the
chunks. `FromEquation` derives its defining equation for every image in which sizes stay in the
pool, and `WalkIsClumps` turns it round: a set of chunks that contains chunk 1, is closed under
size, and in which clumps do not overlap *is* `Clumps(h)`. With `TileInv` this gives the shape of
the live clumps at every instant (`LiveFacts`), and each step is then described by what it does to
that set: a merge removes what lies inside the run (`MergeLive`), a split and the claim after it
add one clump (`ClaimLive`), everything else leaves it alone (`SameSizesLive`).

`HandlesStayClumps`, `RecoveryFinishes` and `ActiveIsNotFree` need `ClumpInv`: who holds what
(`OwnInv`: until the process frees, the cursor is a clump), where a walk stands (`WalkInv`: on a
clump, with a free run behind it) and which clumps may be half way (`SettledInv`: those recovery
has still to visit, and the one of the running call). They assume `~Remix`, because `v_cursor`
shows that all three fail without it; they do hold with skipped persists and with crashes during
creation.

`ReturnsAreDurable` needs `MediaInv`: every live clump is on the media as it is in the cache, but
for the list of a clump that is being cleared (`Behind`), and the rest of a split is there before
the clump shrinks. It assumes the default build (`~NoDataPersist`; a skipped persist is exactly a
call that returns before it is durable) and `~CrashInCreate`.

`PoolIsAtomic` is the refinement. `ListInv` says of each entry in the cache that it is the one on
the media, or cleared after it had been executed (`EntryOK`); that no root is named by two lists
(`Exclusive`); that a root points at a block in use, or at one on its way out that has the root in
its list (`Linked`); and how far the running loop has come (`FrameLists`). The value recovery
would give a root is a CHOOSE over the entries that would be executed; `RootIs` describes it
without one, `ViewHolds` shows that the two agree, and then every action either keeps the whole
view (`Stays`), or is the commit of an activation (`ActivateView`, a `PmemPool` activation of the
block with all the roots in its list) or of a free (`FreeView`). A crash in the middle of recovery
is no special case: the invariant holds for any place of the walk. `RootsAreRecoverable` is a
consequence. `CommittedIsWhole` adds that the words of the blocks in use are on the media
(`DataInv`): bodies of distinct clumps are disjoint (`Bodies`), and only the caller stores in them,
in a RESERVED one (`WordStep`).

*The log.* `PmemLogProofs` needs `IInv`: who may be where while a pool is created (`Sessions`,
`Creation`), that a copy in progress stays inside the log (`Inside`), and that the media is behind
the cache and never ahead of it (`Behind`). From it follow `StoresStayInside`
(of an open log the offsets are in order, and no copy, flush or walk leaves the log, whatever is
killed and also when several opens have each put their own lock in the pool), `OpenableForEver`
(`StaysOpenable`) and `OpenedIsOpenable`. The last assumes `~Kills`: a process killed between the last store of a creation and the `msync` after
it leaves a file that the next process opens although the offsets are not on the media, and a
power failure then loses them.

The three properties about data are proved under `OneOpen == ~Kills /\ MaxOpens = 1`,
because without either part TLC finds a counterexample (a killed append leaves a write offset that
only the cache has; a second open replaces the lock). `AInv` adds that one lock makes a writer
alone (`Exclusive`), that data below *either* write offset is on the media (`DataSynced`), that
the descriptors differ only while somebody is about to commit (`DescSynced`, `Committing`), and
that what an append has copied and what it still carries make up one record (`Carried`, with
`Split`). `LogIsAtomic` is the refinement: a step of `PmemLog` changes `DurableLog` by one whole
record or to the empty log, or not at all; the step that does so is the `msync` of the offset or
the write-back of its line.

*libpmem and basic.* What `pmem_persist` promises is about its return; what makes it inductive is
how far the running call has come: below the loop's pointer, which is a multiple of the line (of
the page in msync mode), every byte of the range is where the mode keeps it (`Flushing`), and what
a mode flushed is not undone by any later store (`Behind`, `Seen`, `Asked`). The rounding lemmas
(`DownProps`, `UpProps` and those before them) derive from division with remainder that the
rounded range covers the one asked for and stays in the file. `PersistIsDurable`,
`LogsBeforeFlush`, `FitDropsTheRest` and `TypeCorrect` follow, for all sizes, alignments and
strings. `DumpShowsAcked` says what the next run prints. It needs `StringsInv` (the strings made
durable lie one after the other, from the start of the file to `ptr`) and what two recursive
functions compute: `Recursion` shows by least number that a function defined by steps along the
numbers exists, `DumpScans` and `FlattenJoins` that it is the one of `Dump` and of `FlattenSeq`,
and `ScanString` what the scan adds for one string. `StringsAssumption` says that the arguments
are strings of C.

*icount.* `IInv` says where the parent can be in each phase of its tracer (`Phases`), and that the
two counters go in step: `ran` is `count` while the parent runs one instruction, and one more
while it is stopped after it (`Counting`). `CountIsExact` and `DeathIsOnTime` follow, for code of
any length and any number of counts.

*The hash table.* `LoadIsBounded`: the count stays within the limit of the current prime until the
primes end, also when expansions fail. It needs that `h` has the length and limit of its prime
(`Sized`) and that the limits grow; `FirstPrime` uses well-founded induction for the least prime
that is large enough.

The other theorems need `TableInv`, which adds: the array is as long as one of the primes so far
and no entry is twice in a chain or in two (`Tabled`); where no expansion has failed, each entry is
in the slot its hash value names (`Placement`); and an iterator is at a place of a chain, with the
entry before it as its parent, and `todo` is what the chains hold from that place on
(`Positioned`). An expansion is a recursive function along `Chains(h)`; `RehashedIs` shows, entry
by entry, that it keeps the entries and places them (`FillOne`). A removal cuts one element out of
a chain (`CutOut`), and the places behind it move up by one (`MovedUp`): so an iterator that
removes is again at a place, and its parent is right only because of the correction at the end of
`hashtable_iterator_remove` (`ParentMoves`). `CountsAreExact`, `SearchesFind` and
`IterationsAreExact` follow. `TableIsABag` is the refinement: a step puts in one object or takes
out one (`NewEntry`, `OldEntry`), which changes the bag of names by one (`NamesMore`,
`NamesFewer`).

*The B-tree.* The theory of trees is in `BTreeShapes`. A tree `h` is given by the set `V` of its nodes, the
height `L[n]` of each node above the leaves, and the range `R[n]`, the set of keys for which there
is room below it. `Tree` says that no node has two parents or two places in one (`Single`), that
each but the root has one, and that a child is one lower than its parent; `Good` adds that the keys
of a node are sorted and in its range, and that the range of a child lies in the gap between the
keys beside it (`Gap`); `Held` adds that a node has at most `2t - 1` keys and, but for the root, at
least `t - 1`. Heights and ranges are not in the code; they are what makes the invariant
inductive, because a global fact (all leaves are equally deep, a search from the root finds the
key) becomes one about each node and its children.

Every operation is one of few changes of such a tree. A split is a `Cut`: one child becomes two
and a key goes up (`SplitIsCut`, `CutKeeps`). A merge is a `Cut` read backwards (`MergeIsCut`,
`JoinKeeps`). A loan between siblings (case 3a of the deletion) is a merge that is cut again one key
further to a side (`CutAgain`), so it is proved by the lemmas on both. What is left is that a leaf
gains or loses a key (`PutLeafStep`, `DropLeafStep`), that a key is replaced by its neighbour
(`ReplaceStep`), and that the tree grows or shrinks by a level (`GrowStep`, `ShrinkStep`).

`TreeInv`, in `BTreeProofs`, says in addition how far the running call is. For an insertion: `x` is
not full and has room for the new key in its range, which may first have to be widened, because a
new key that equals one above it may go to either side (`WideTurn`). For a deletion: `x` has a key
to spare, and the key to delete is on a way down from `x` (`Leads`), a set of nodes that every turn
maps to another one, whatever it merges or lends (`CutAbsorbs`, `LendAbsorbs`). In cases 2a and 2b
the call fetches the predecessor or successor from below for the slot recorded in `pend`, with
merges and loans on its own way down. `Spine` says that the slot stays where it is meanwhile and
that all the nodes passed have their keys on the far side of what is still below, so that the
order is right when the fetched key arrives. One lemma per action (`...Keeps`) puts this together.

`AlwaysWellShaped` follows from the heights (`ReachesAll`: the nodes the program reaches are `V`).
`TreeIsABag` counts: the bag is the number of places `<<n, j>>` where a key lies (`Spots`); each
split, merge and loan is a bijection between the places before and after it (`CutAlike`), and the
only steps that are none are the one that puts a key into a leaf, the one that takes one out, and
the one that writes the fetched key over the deleted one (`CountMore`, `CountSwap`). `Counted`
compares with the bag the call began with. `AlwaysSearchable` takes the recursions of `Find`,
`MinMax` and `CheckNode` level by level (`Unrolls`): from a node of height `d` the recursion ends
after `d` turns, and what it finds follows from the ranges. The theorem assumes that `Keys` is
finite, as it is in C; without that the least and the greatest key of a bag would need a further
argument.

*The hash tables on transactions.* A call is a sequence of operations, and only what it does to one
word matters: it commits the word last (`Closes`), it stores it in the redo log and applies the log
(`Applies`), it stores only what is there (`Idles`) or it has nothing to do with it (`Untouched`).
Each file's calls are shown to be such sequences (`LinkWordDoes`, `CreateRedoDoes` and so on), and
each operation of such a sequence leaves a word one that will end well (`StepEndsWell`), so that
between calls the word is settled (`CallOver`). `CountIsCovered` follows the one word `EntryCount`:
at every point of an insertion all that the word is, was before its transaction, may be found to be
in memory or is yet to be stored is one of two values (`Within`), and what a stop leaves is one of
these (`CrashWithin`, from `ImagesFit`, which goes through the recursion of `Images`). An expansion
changes slots, links and four words of the header, never the count (`ExpandKeeps`).
`QuietIsDurable` follows all words (`Tidy`). It needs that the table is still the first one, for
the slot to be a word of it, and that the words of an entry not linked yet are zero
(`FreshEntries`): `hashtable_insert` of the word file begins a transaction only for words that are
not zero and commits only what is not zero after, which leaves all words committed just because of
that.

`ChainsAreRecovered` follows the chains (`ChainInv`). The entries linked and the chains of the
insertions that returned stand word by word (`Standing`, `EntryIs`). For the insertion under way
the order of its stores counts. The word file does not touch the slot before the words of the entry
are done: either a stop leaves the old front in the slot (`Holds`) or the entry is whole
(`WordLinks`). The redo file stores into its log alone, where each word is stored but once or with
the same value (`Logs`), until the commit, which comes last, applies all of it, the count included
(`RedoLinks`). `CrashHolds` and `CrashLinking` take this over a stop. What is read back is another
induction, over the items: the chain of a slot grows at the front (`FrontGrows`), so whoever
follows the links from the front passes just the entries of `ChainAfter` (`Chained`, `PathIs`,
`ChainRead`), and the walk of `restart_hashtable` ends.

Model-checked only: `DataBeforeCommit` in the shipped build, where the clumps on the media are finer
than those in the cache and both have to be followed at once (the theorem is about the default
build, the run `pool_lazy` about the shipped one); everything about `PoolClients`; `BTreeSearch`,
where the table of logarithms is a recursion over data and its bound a power of two, about which the
prover has no facts; `NoBug` of `HashTrans`, which needs the chains also through an expansion, which
relinks them all, and through the removals, in all four files; the order of equal keys in
`HashTable` (`DuplicatesReversed`), which would need lemmas about the recursion in `SelectSeq`.
Liveness under fairness stays with TLC in any case: the prover has no ENABLED. Nor has it induction
over an operator; where a proof needs induction it takes the least number of a set (`LeastNumber`,
`UpTo`).

## Where code and documents disagree

The runs `v_cursor` and `v_tree` show places where the code does not do what a document of the
repository says; `PROJECT.json` quotes them under "findings". Two more are in the models, and show with other
constants:

- A crash in the creation of a pool file leaves a file that the next `pmemalloc_init` takes for a
  pool without clumps (`pmemalloc.c:350`, while `pmemalloc.c:365-366` lists a file that "isn't
  even fully setup" among what its scan deals with). To see it: `pool.cfg` with
  `CrashInCreate = TRUE` and `INVARIANT InitSetsUp`.
- In the shipped build a free may leave a root that points at free memory after a crash
  (`pmemalloc.c:761`, while `pmemalloc.c:755` says "now we're committed towards STATE_FREE"). To
  see it: `pool_lazy.cfg` with `N = 5`, one root and `INVARIANT RootsRecoverable`. In the default
  build `RootsAreRecoverable` proves it.

The passing runs leave these places out by a constant (`Remix`, `CrashInCreate`, `NoDataPersist`)
where the defect would make everything after it meaningless. `clients` sets `Remix`, because
`pmemalloc_test2` reserves after it has freed; the other programs never do so in one process. More
disagreements were met while modelling:

- `icount_start` works once: `handler` leaves by `longjmp` (`icount.c:69` and `225`), which does
  not unblock the signal it is handling, so the next count waits in `pretrigger` for ever.
  `icount/README:44-51` describes repeated pairs of start and stop. To see it: `Rounds = 2` in
  `icount.cfg` violates `CountsEnd`. The proofs of `CountExact` and `DiesOnTime` hold for any
  `Rounds`.
- `tree.c` links and activates a node before it fills it in (`tree.c:152-158`), so a crash
  publishes what the memory held before: the size of a clump that has been merged away as `left_`
  (run `v_tree`), bytes of an old word, or a node with no word. `README:238-242` says that a word
  gets into the tree completely or not at all. `BlocksAreNodes` and `OpsAtomic` are claimed of
  `tree.c` until a crash hits such a node, and of `tree_orig.c` and the list without a condition.
- `pmemalloc_reserve` starts at `gclp` and never returns to the first clump (`pmemalloc.c:456`),
  so it fails with ENOMEM although a clump below is free; `design.txt:36-38` has it start "from
  the first entry". `pmemalloc_test2` ends this way in its third loop, which allocates what the
  second freed.
- `pmemalloc_free` of a RESERVED clump leaves its onactive entries (`pmemalloc.c:774`), and
  recovery leaves the entries of an interrupted `pmemalloc_onfree` on an ACTIVE clump; the
  assertions at `pmemalloc.c:928` and `943` say that there are none, so `pmemalloc_check` aborts
  on the list after a crash between `onfree` and `free` (`CheckAccepts` exempts such pools).
- A second open of a log pool replaces the address of the rwlock in the shared mapping
  (`log.c:201`), so a walk no longer keeps writers out, as `log.c:539-540` says it does.
- The header of a new log is synced before the offsets (`log.c:179` and `188`): a power failure in
  between leaves a valid header with offsets of 0, which no later open accepts or sets up anew
  (`log.c:126-142`). `OnceOpenable` and `StaysOpenable` speak of logs that were openable once.
- A tracer of `icount` that ends with FATAL before it sends its signal leaves the parent in the
  loop of `pretrigger` (`icount.c:227`); `CountsEnd` excuses a tracer that has failed.
- `pmemlog_pool_check` answers -1 for inconsistent offsets, which its own open has refused;
  `log.c:577-578` says zero.
- A failed reservation in the B-tree gives the address of the pool, so the checks for NULL
  (`bt_code.c:484` and `550`) do not notice it. Every activation of a node stores it over the root
  of the pool (`bt_code.c:93`), so the root is the last node allocated and not the root of the
  tree.
- `hashtable_expand` sets the new length also when it has no new table (`hashtable.c:202`), so
  entries are looked for in other slots, while `hashtable.c:229-232` expects that "one more
  element may be ok".
- `hashtable_remove` gives `pmemalloc_free` pointers where it takes offsets (`hashtable.c:298`),
  while `hashtable.h:113` says that the table frees the key on removal.
- `hashtable_wrdobj_trans.c:348` commits the slot before the entry it points to: a stop in between
  loses the chain (`ChainsRecover` spares that chain). Its `restart_hashtable` is under `#ifdef 0`
  (line 103), and the tester's call of it is a comment (`tester_nonintel_code.c:115`).
- In `hashtable_word_only.c`, `hashtable_redo.c` and `hashtable_nv.c` an expansion is in no
  transaction, and `h->table` is never committed (`hashtable_word_only.c:53`), so a stop after an
  expansion finds any mixture: the claims about chains end with the first expansion.
- `hashtable_redo.c:207` steps the count back without the buffer when memory runs out, which still
  holds the count of one entry more.

## What is left

- `DataBeforeCommit` and the atomicity of activations in the shipped build: an invariant about the
  clumps of the media and those of the cache that nest in each other.
- `NoBug` of the transactional hash table for any hash function and any items: `ChainInv` ends with
  the first expansion, where the order of a chain is turned round.
- `PoolClients` on `PmemPool` in place of `Pmemalloc`, with `AtomicPool` as the bridge: a smaller
  state space, and lists longer than three nodes.

## Not modelled, and why

The older copies of the programs (`*_orig`, `*_bck`, `*_full`, `*_fullpersist`, `*_intel`,
`*_powers`, `tree_nonpersistent.c`; not `tree_orig.c`, which is modelled) are not built by the
Makefiles and are earlier versions of what is modelled. `util` prints messages and ends the
process: that end is `Fatal` in `Libpmem` and `Basic`, `TracerFails` in `Icount` and `Gone` in
`PoolClients`; its debug output is left out. The drivers and scripts hold no state; the sequences
of calls they make are among those the models' callers make. `hashtable_destroy` of the four
transactional files is called by no program. In the file without transactions (`hashtable_nv.c`)
nothing is said of what a stop leaves, and the model does not stop it. Of what is modelled, the
text of messages, the layout of structures beyond the cache line that matters, and `hash()`'s
mixing of bits (any function of the name is allowed) are left out. The B-tree and the hash table
on `libpmemalloc` have no recovery to check: no code of the repository reads one that an earlier
process left (`bt_create` always makes a new tree).
