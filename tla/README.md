# Verification of lockfreec

TLA+ models of the lock-free structures in `src/basic` and `src/advance` and of
the transaction engine with its concurrency control algorithms in `src/bench`, the TLC
configurations that check them on small instances, and TLAPS proofs that hold
for any number of threads, elements and transactions.

## The system

`src/basic` holds the program's own structures, in C, for threads that share
memory. They synchronise with a single-word compare-and-swap, a double-word one
(`dcas`, `cmpxchg16b`) and an atomic increment (`lf_basic.c`). There are no locks.

| part | state | operations | relies on |
| --- | --- | --- | --- |
| free list, `lf_freelist.c` | `top` (pointer, counter), `next` of each element, `aba_counter`, `element_count` | new, pop, guaranteed_pop, push, delete, query | dcas |
| queue, `lf_queue.c` | `enqueue`, `dequeue`, `next` and `data` of each element, `aba_count` | new, enqueue, guaranteed_enqueue, dequeue, delete, query | dcas; a free list of its nodes |
| stack, `lf_stack.c` | `top`, `next` and `data` of each element, `aba_counter` | new, push, guaranteed_push, pop, clear, delete, query | dcas; a free list of its nodes |
| ring buffer, `lf_ringbuffer.c` | a free list and a queue | new, get_read, put_read, get_write, put_write, delete, query | free list and queue |
| list, `lf_slist.c` | `head`, `next` and (data, flag) of each element | new_head, new_next, logical and physical delete, get/set data, traversal | cas, dcas |

What makes them hard: a pair of words is compared and swapped at once but can
only be read and written one word at a time; elements are recycled while other
threads still hold pointers to them; a thread may stop anywhere inside a call;
the queue needs two steps to append, and others must finish the second.

`src/advance` holds a hash map and a trie for concurrent use. Both take their
nodes from lists allocated in advance, whose pop and push compare and swap the
first pointer alone.

| part | state | operations |
| --- | --- | --- |
| hash map, `lf_hashmap.c` | buckets of items in key order, each with a pointer to key and value; a list of items, a list of data | new, add (or replace), search |
| trie, `lf_memtrie.c` | nodes with a first sub-node and a brother, in key order; a list of nodes | new, insert, search, free |

What makes them hard: a place in a sorted list is found before the node is linked
there; a value is replaced and freed while others compare with it; a node of an
insertion that came too late returns to a list without counters.

`src/bench` is an engine for in-memory transactions that compares concurrency
control algorithms. Worker threads (`misc/thread.cpp`) take queries, run them
through a transaction manager (`misc/txn.cpp`) that gets rows
(`storage/row.cpp`), and commit or abort; an aborted query goes to the thread's
abort buffer and is run again. `CC_ALG` chooses at compile time what guards a row.

| `CC_ALG` | source in `bench/cc` | how a row is guarded |
| --- | --- | --- |
| NO_WAIT, WAIT_DIE, DL_DETECT | `row_lock.cpp`, `dl_detect.cpp` | shared and exclusive locks; on conflict abort, wait by timestamp, or wait and look for cycles |
| SILO | `silo.cpp`, `row_silo.cpp` | a word of lock bit and tid; reads validated at commit |
| TICTOC (the default) | `ticktoc.cpp`, `row_tictoc.cpp` | a word of lock bit, write timestamp and lease; leases extended at commit |
| OCC | `occ.cpp`, `row_occ.cpp` | a timestamp of the last write; all rows latched and compared at commit |
| HSTORE | `plock.cpp` | whole partitions locked before the transaction starts |
| MVCC | `row_mvcc.cpp` | versions, prewrites, queues of waiting requests |
| HEKATON | `hekaton.cpp`, `row_hekaton.cpp` | versions with begin and end, reads validated at commit |

What makes them hard: rows are copied while others write them; read sets are
validated row by row while the rows go on changing; locks are granted by whoever
releases one; waiters may be granted a lock while they give it up; versions are
recycled while transactions may still read them.

The remaining directories are listed in `PROJECT.json` under `components`.

## Modules

| module | models |
| --- | --- |
| `LfBasic` | `abstraction_dcas`, `abstraction_increment`, the (pointer, counter) pairs |
| `Freelist` | `lf_freelist.c`; `AtomicStack` is what it promises |
| `FreelistProofs` | the inductive invariant and the refinement |
| `Queue` | `lf_queue.c`; `AtomicQueue` is what it promises; the inductive invariant |
| `QueueSteps` | the steps as a few kinds, how each kind changes the lists in memory, and what the callers see of it |
| `QueueProofs` | what each kind does to the items; the inductive invariants and the theorems |
| `Stack` | `lf_stack.c`; `AtomicLifo` is what it promises |
| `StackProofs` | what each step does to the words and the list they form; the inductive invariant and the refinement |
| `RingBuffer` | `lf_ringbuffer.c` over a free list and a queue |
| `RingBufferProofs` | the proofs of all its safety properties |
| `Slist` | `lf_slist.c` |
| `SlistProofs` | what each step does to the invariant; the theorems |
| `Validate` | the validation queries of the four structures above the list |
| `ValidateProofs` | the proofs that the verdicts are exact |
| `RingBufferQuery` | a ring buffer and the query of it, composed |
| `NodeList` | the node lists of the hash map and the trie, `tnode_pop`, `tnode_push`, `hashlist_pop`, `datalist_pop` |
| `Hashmap` | `lf_hashmap.c`; `AtomicMap` is what it promises |
| `Memtrie` | `lf_memtrie.c`; `AtomicTrie` is what it promises |
| `Advance` | threads on one of the two, and the properties |
| `Txn` | the worker loop and the transaction manager, common to all algorithms |
| `RowLock` | the state of a row's lock and what `lock_get` and `lock_release` do to it |
| `LockTable` | what a row's lock promises to any number of transactions |
| `LockTableProofs` | the proofs about `LockTable` |
| `TwoPL` | NO_WAIT, WAIT_DIE and DL_DETECT, with the deadlock detector |
| `Silo`, `TicToc`, `Occ`, `Plock`, `Mvcc`, `Hekaton` | one algorithm each |
| `Bench` | the engine: all of the above over shared rows, and its properties |
| `MC...` | the scripts of the instances TLC checks |

In `Freelist`, `Queue`, `Stack` and `Slist` every access to a shared word is a
step, so all interleavings of word accesses are covered. Stores to an element
that no other thread can reach are merged with the next shared step only in
`Slist`, whose elements are never reused. Steps interleave sequentially
consistently. On x86, where the code's `cmpxchg16b` runs, each publication is a
locked instruction that drains the store buffer. We judge this enough for these
algorithms and do not model the store buffer.

`pc[t]` is the place of thread `t` in its call and `loc[t]` its local variables.
A definition keeps the name of the C function or of the step it is; `map` in
`PROJECT.json` gives the lines. Names such as `PopFree_Forget` are deliberate
mistakes, used to see that each property can fail; no specification uses them.

In `Advance` the variable `structure` says which of the two the threads use. The
keys of a bucket's items never change and neither does a `hash_data` once it is
filled in, so comparing a key is merged with reading the pointer to the item. A
pop of the hash map reads the first node and its successor in one step, because
its lists are only popped from. A counter changes together with its list, since
nobody reads it meanwhile. The map reads a `hash_data` that another thread may
have freed (`lf_hashmap.c:427`). In the model freed memory keeps its contents: the
block that `aligned_malloc` returns starts behind the words in which the allocator
links its free blocks, and nothing is allocated while the map is in use.

`tnode_pop` is wrong in two ways, and the variable `broken` is set when that
shows: a node that was pushed back with another successor makes a stale
compare-and-swap succeed, and a first pointer that was NULL at line 93 and is not
NULL at line 96 makes it follow NULL. TLC reaches both. After that memory is
corrupt and the model stops; the properties of the trie speak of the time before.
The hash map pushes nothing back and is never broken (`NodesConserved`).

In the engine `CC_ALG` is a variable that never changes, so that one instance
covers several builds, and every algorithm's step begins with a test of it. The
contents of a row are the id of the transaction that wrote them; a copy takes two
steps and leaves `Torn` in between, so that a dirty read is seen. `hist` lists
what each committed transaction read and wrote. Steps are merged in these places:

- What happens under a latch or mutex held throughout (`lock_get`,
  `lock_release`, `Row_mvcc::access`, `Row_hekaton::access`, `PartMan::lock`) is
  one step. What `row_t::get_row` and `txn_man` do after it is separate.
- `Manager::get_min_ts` reads the timestamps of all threads in a loop; the model
  takes one reading. `DL_detect::detect_cycle` searches in one step over
  dependencies that were registered, one by one, before.
- The two stores that end a write in Silo and TicToc happen while the lock bit is
  set, and nobody can tell them apart.

The build is the one in `config.h`: serializable, `ATOMIC_WORD`, pre-abort,
no-wait validation, per-row validation with OCC, in-place rollback.

### Composition

`Queue` and `Stack` call the free list in one atomic step. The theorem
`ImplementsAtomicStack` justifies this: the word-by-word free list implements
`AtomicStack`. `RingBuffer` uses two free lists the same way, but of the queue
it assumes less than first-in first-out, because `queue_order` below shows that
recycled nodes break the order. It assumes that an item linked is returned at
most once (`ItemsReturnedOnce`), that nodes are conserved (`ElementsConserved`),
and that a dequeue reports empty only if nothing is linked or some thread is
inside an enqueue. This last assumption is read off the `Private` clause of
`ElementsConserved`: an item that is not reachable from the dummy hangs behind
the element of an enqueue in progress. It is not checked as a refinement.

`Bench` composes the worker loop with all nine algorithms. Under the three
locking ones each row of `Bench` implements `LockTable` (`IsLockTable`), so the
theorems about `LockTable` apply to every row of the engine.

`RingBufferQuery` composes `RingBuffer` with `Validate`: at any moment between
calls the ring buffer may be asked for the validation of what its calls have left,
with the number of elements in its queue as bounds. Its behaviours may also begin
with a query of any of the four structures over damaged lists.

## Runs

| run | shows |
| --- | --- |
| `freelist` | memory is the list of pushes not yet popped; nothing lost or shared; the list implements `AtomicStack` |
| `queue` | dummy never passes the tail, elements conserved, items returned once, `queue_delete` frees all; without recycling the queue implements `AtomicQueue` |
| `queue_order` | violation, see Findings |
| `stack` | elements conserved, `stack_delete` frees all, the stack implements `AtomicLifo` |
| `ringbuffer` | elements conserved, the unchecked enqueue never fails, each item is read once or overwritten with notice; the validation queries, of the ring buffer as its calls leave it and of all four structures with damaged lists, end and are exact, and VALID for exact bounds means nothing is lost |
| `slist` | a traversal misses nothing; `delete_func` gets the last value set, once; no successful read returns a disposed value; the physical deletion reads no freed element and frees them all |
| `slist_insert` | violation, see Findings |
| `advance` | hash map: each node in one place, freed once, buckets sorted, implements `AtomicMap`; trie: the same while its list is intact, implements `AtomicTrie` |
| `bench` | under each of the nine algorithms: no dirty or torn read and no lost update, the program's assertions hold (but for one, see Findings), row locks lose no wake-up and implement `LockTable`, no query is lost, every transaction ends unless WAIT_DIE lets it wait in a circle; commits are serializable under eight of them, HEKATON is left out |
| `tictoc`, `mvcc`, `wait_die` | violations, see Findings |

`freelist`, `queue`, `stack`, `slist`, `ringbuffer` and `advance` also check
`EveryCallReturns`, under the fairness described below.

`Serializable` says that the precedence graph of the committed transactions has no
cycle. HEKATON is left out of it: `prepare_read` lets a reader commit beside an
uncommitted overwriter (`row_hekaton.cpp:167-169`), so two transactions that each
read what the other writes may both commit. `NoLostUpdate` holds for it too.

### Bounds

- Two threads, except three in `ringbuffer` and `advance`. Each thread follows a script of
  allowed calls (`MCQueue`, `MCStack`, `MCSlist`), chosen so that an element is
  taken, recycled and returned to the same place while the other thread holds it
  in its locals. That is the case the counters exist for. Removing the counter
  increment is caught in `freelist` and `stack`.
- `MaxElements` bounds allocation, so `guaranteed_` calls may also fail, as the
  code allows. `number_elements` is 2 for the queue and the stack.
- `ringbuffer` has two elements for three threads, so elements run out.
- The queries of `ringbuffer` take every list of up to three elements with every
  loop, and 4-bit words so that differences wrap.
- `advance` has three nodes per list for three threads. Its hash scripts add the
  same key with equal and different values, with one add more than there are data,
  and neighbours in one bucket while others search. Its trie scripts insert the
  same letter and brothers on both sides of it, and words with a common beginning,
  with one letter more than there are nodes when a thread comes too late.
- Counters are naturals. The wrap of a 64-bit counter is out of scope.
- `Garbage` in `Queue` is the content of `aba_count`, which `queue_new`
  increments (line 11, through line 260) before it is set (line 14).

- `bench` has three rows and, per workload, two or three threads with one or two
  queries each: two that cross each other's reads and writes and then look at the
  outcome, two that write the same rows in opposite orders, and for DL_DETECT a
  ring of three, the shortest cycle that no waiter can see by itself. Each thread
  starts at most two transactions, so a query may abort and be retried once
  (`max`).
- A row's history has two entries at first in `bench` (`HIS_LEN = 2`; four in the
  code), and grows to four. It is collected where the oldest transaction has moved
  on; a third workload for MVCC writes a row six times while an older transaction
  runs, so that two versions are recycled. Nobody reads that row meanwhile. What a
  recycled version does to its readers is shown by `mvcc`, with two threads and the
  four entries of the code. A lease of TICTOC is one bit long (`RTS_LEN = 1`), so
  that it overflows at once; the case of `tictoc` needs longer ones.
- `InitReserved` is what the memory of a new history may hold for the `reserved`
  flags, which `Row_mvcc::init` does not set. In `bench` each flag of each row is
  either; `mvcc` takes them as cleared.
- `wait_die` has two threads, since between two the rule it checks excludes a
  circle whatever the order of the waiters.

Deadlock is checked in `freelist`. In the other runs callers stop when their
scripts end, so it is not.

### Fairness

`FairSpec` gives weak fairness to the steps of threads in `Survivors` only: a
scheduled thread takes its next step, since no step waits for another thread.
Nothing is assumed of the rest. Scripts are finite, so the claim is that calls
return once competition ends, whatever the stopped threads left behind. This is
what lock-freedom implies of finitely many calls; it is not wait-freedom. In `RingBuffer`
all threads are fair and put back what they get, because `get_write` really
waits for elements held by others.

`Bench` gives weak fairness to the steps of every thread: threads are scheduled,
and a spin loop ends when what it waits for stays true. The time-out of a waiting
transaction (`g_timeout`) may never pass, so `EveryTxnEnds` does not rest on it:
the deadlock detector has to find every cycle by itself. A failed assertion ends
the process (`Stopped`), and with it what the threads are expected to do.

## Proofs

`FreelistProofs` proves, for any set of threads and any bounds allowed by
`FreelistAssumption`, all the safety properties of run `freelist`. The invariant
is the conjunction of `TypeOK`, `MemoryIsList`, `NoElementLostOrShared`,
`CountersMarkPushes` and `LocalsAgree`. The conjuncts rest on one another: even
the preservation of the types uses `MemoryIsList`, `CountersMarkPushes` and
`LocalsAgree`. That memory is a list survives a pop only if the next words the pop has
loaded are those of the current top. `LocalsAgree` says so for every pair a
thread holds that could still equal the top. It holds because a counter marks
one push (`CountersMarkPushes`) and because an element on the list is in nobody's
hands (`NoElementLostOrShared`), so its next words are not written. From the
invariant follow `NoTornPublish`, `ListedNextIsStable` and the step simulation
of `AtomicStack`.

`LockTableProofs` proves, for any set of transactions that ask for the lock of a
row, wait, give up and release in any order, for any timestamps and all three
locking builds: the lock has the type that each of its owners asked for, an
exclusive owner is alone, and the first waiter conflicts with the owners, so no
waiter that could run is left asleep (`LockSound`); and no transaction has two
entries (`LockOneEntry`). The invariant adds to these that each waiter's entry
records the type it asked for. It is needed at a release: the waiters that
are let in become owners, and what they asked for is only known from their
entries. The step that takes the most work is the grant loop (`GrantOK`): waiters
let in together have all asked to share, or one is let in alone. In `WaitInv` the
point is that a request that only queues behind others is never linked in before
the first of them. `bench` connects the theorems to the engine (`IsLockTable`).

`StackProofs` proves, for any set of threads, scripts and bounds, that no element
is lost or shared (`ElementsConserved`) and that the stack implements
`AtomicLifo`. The argument is that of the free list with three additions. An
element is on the stack, in the free list or in one thread's hands (`InOnePlace`,
`FreeOnce`); a pop returns it to the free list in a step of its own. The
items of the abstract stack are a walk along the next words, a recursive
function, so lemmas say what a push, a pop and a store to an element elsewhere do
to it. They assume that a walk finds the list that is there (`WalksFindLists`),
which is proved at the end (`ListsAreFound`), by induction over a set of numbers.
And the data of an
element on the stack are always an item (`StackedAreItems`). A push
takes effect in the compare-and-swap that succeeds, a pop likewise or, on an empty
stack, where it loads the NULL top. `LocalsAgree` again says what a thread's loads
are worth when its compare-and-swap succeeds. The theorems take the free list as
one atomic step, which `ImplementsAtomicStack` proves of it.

`QueueProofs` proves, for any set of threads, scripts and bounds allowed by
`QueueAssumption` and whatever `aba_count` held before `queue_new`, all the
invariants of run `queue`: `DequeueNeverPassesEnqueue`, `ElementsConserved`,
`ItemsReturnedOnce` and `DeleteReclaimsAll`. None of them is inductive. The
invariant `IInv` speaks of the lists in memory: `K`, the queue, and `L[t]`, what
thread `t` has in its hands. What is in a thread's hands may be a list of several elements,
because an enqueue that read `qs->enqueue` before that element was dequeued and
recycled can link its own element behind it there (this is also what breaks the
order in `queue_order`). Its conjuncts:

- `Shape`: each `L[t]` and `K` ends in NULL and has no element twice, they and
  the free list are disjoint and together all elements, and the element an enqueue
  may link to has a NULL next pointer only if it is on one of these lists.
  `Acyclic` says that the threads that may link behind one another's elements form
  no circle. Without it two enqueues could each link behind the other's element,
  and `ElementsConserved` would fail two steps later.
- `LocalsAgree`: the counters of `qs->enqueue` and `qs->dequeue` only grow, so
  the words a call has read are stale, and then its compare-and-swap fails, or they
  are still what memory holds.
- `Live`: an item is new when it is linked, and the items linked are those in the
  elements behind the dummy or behind an enqueue's own element, and those
  returned, each once. After `queue_delete`, `Deleted`.

A step is one of a few kinds: it takes an element, frees it, clears its next pointer,
links it, unlinks one, or does none of these (`QueueSteps`). Each kind is shown to
keep each conjunct for lists `K` and `L` that are given; `From`, the recursive
function that walks the next words in the model, is shown to find
these lists only at the end. The theorems take the free list as one atomic step,
as those about the stack do.

The theorem `ImplementsAtomicQueue` proves `IsAtomicQueue`: while no element is
recycled the queue is a first-in first-out queue to its callers. It needs a second
invariant, `FifoInv`, which holds beside the first as long as the scripts have no
`enqueue` (`Recycles` is false): the items linked and not yet taken are the data of
the elements behind the dummy, in order (`InOrder`); no call has a pointer to an
element that is still in another thread's hands (`NotRecycled`), so nothing is
linked behind one (`Alone`); an element that is no longer the dummy has a next
pointer (`Passed`); and a dequeue that is going to report an empty queue was inside
its call when the queue was empty (`Seen`). An enqueue takes effect where it links
its element, a dequeue where it moves `qs->dequeue`, and `queue_delete`
takes out what is left in order.

`RingBufferProofs` proves, for any number of elements and threads and any order of
calls, the four safety properties of run `ringbuffer`. They are not inductive by
themselves. `PutWriteNeverFails` follows from `NodesCounted`: the nodes that are
free and the elements that have a node make up `number_elements`, and a writer
holds an element that has none. `EveryWriteAccounted` needs that items are new
when they are written (`ItemsFresh`) and that no two places have the same one
(`ItemsApart`), since it compares a cardinality with a sum. The theorems rest on
the free list and on the queue that `RingBuffer` assumes, described under
Composition. Two of the three facts assumed of the queue, that items are returned
once and nodes conserved, are theorems of `QueueProofs`.

`SlistProofs` proves, for any set of threads and scripts: `delete_func` gets the
last value that was set, once for each deleted element (`DeleteGetsLastData`); no
successful read returns a value that was disposed of (`ReadNeverDisposed`); no
step takes an element out of the list or out of what follows an element of it
(`ReachNeverShrinks`); and the physical deletion never comes to an element it has
freed, frees every element of the list, those the threads hold among them, and has
then given the data of each to `delete_func`
(`PhysicalDeleteFreesEachOnce`). `DeletedOnce` says that the words of an element stop
changing with the compare-and-swap that deletes it, and that exactly the call that
made it has disposed of the data or is about to. A read loads the data before the
flag, so `DataDistinct` is needed to know that what was loaded is of the element
whose flag is then tested. For `ReachNeverShrinks` the point is that a new element
is known to nobody until it is linked (`NewIsHidden`), with the successor of the
element it is linked behind. The physical deletion is a loop that
frees what it walks over, so it needs a second invariant, `ListInv`. Before the
loop: no element is reached from its own next pointer (`Acyclic`), and what a thread
has created at the head or found is in the list (`HeldAreListed`). That a linking
keeps `Acyclic` is shown with sets closed under the next pointers, since a new
element is in no such set of the old ones. In the loop (`InLoop`): the elements
passed are those freed and the one about to be, all given to `delete_func`, and they
are never met again; those ahead are still to be given.

`ValidateProofs` proves, for lists of any length with any loop, that the verdict on
a structure is VALID exactly if its list has no loop (a stack's free list neither)
and its length is within the bounds (`VerdictIsExact`), and that exact bounds and VALID verdicts mean that nothing is
lost (`ValidMeansConserved`). It assumes that a length fits in half a word. The
invariant says how far the two cursors of the loop test may be apart: on a list
without a loop the fast one is ahead, so that they meet only on a loop, and on a
loop neither becomes NULL. That the test ends is left to TLC.

In the proof modules with `USE Zenon` a step that names no prover is proved by
Zenon, and one with arithmetic, sequences or records cites `SMT`.

Only model-checked:

- all liveness: fairness and `ENABLED` are out of the prover's reach;
- `NodesConserved` and the refinements of the hash map and the trie. The trie is
  correct only until `broken` is set, and its buckets are lists that are searched
  and linked in the middle, so the invariant would be one of its own;
- in the engine: `Serializable` is about cycles in a graph of histories of any
  length, and `NoLostUpdate`, `AssertsHold`, `LocksSound` and `QueriesConserved`
  range over nine algorithms in one specification, of which `LockTable` is the one
  part with an invariant that does not depend on the others; so is `IsLockTable`.

## Findings

1. `queue_order`: a torn read of the next words lets a stale enqueue link its
   item behind a recycled element that is not in the queue yet
   (`lf_queue.c:68-74`, `261-262`). Items of one producer can come out of order,
   which `cases/ut_queue.c:195` rejects.
2. `slist_insert`: the unsequenced condition at `lf_slist.c:25-27` may end the
   loop after a failed compare-and-swap. Compiled with gcc at -O0 and -O2 the
   function makes a single attempt. The element is then not in the list, against
   the count in `cases/ut_slist.c:46`, whose threads never share the element they
   insert after.
3. `tictoc`: in the default build `row_tictoc.cpp:152` compares the absolute `rts`
   with the distance field of the word; line 133 makes the same test with
   `delta_rts`. After a failed compare-and-swap the renewal is therefore repeated
   although another transaction has extended the lease further, and the shorter
   lease is stored. A transaction that committed under the longer one is
   overwritten inside it: three transactions commit in a cycle.
4. `mvcc`: `reserveRow` recycles a full history by giving the storage of `_row` to
   the new prewrite (`row_mvcc.cpp:283-285`), although a transaction may hold a
   pointer to it. `row_mvcc.h:14-15` says that a request for a recycled version
   aborts; here it reads other data and commits.
5. `wait_die`: the comment at `row_lock.cpp:88-94` lets a request wait only if its
   timestamp is larger than those of all owners. Line 99 lets it wait unless an
   owner's is smaller, and with WAIT_DIE no code sets the timestamps
   (`thread.cpp:113-117`): all are 0, everybody may wait and nobody dies. Two
   transactions that write two rows in opposite orders wait for each other for ever
   (`row.cpp:171-173`). `EveryTxnEnds` names this as the one way, with WAIT_DIE, in
   which a transaction does not end.

Also in the engine:

- The `reserved` flags of a new MVCC history are never set (`row_mvcc.cpp:22-26`).
  An entry whose memory was not zero is never used, so a prewrite may find no entry
  in a history that is not full, and the assertion at line 268 fails: at the first
  write if all entries are such, otherwise as soon as the others are taken. TLC
  reaches this in `bench`. `AssertsHold` says that it happens only in a row with
  such an entry, and that no other assertion fails.
- `ycsb_txn.cpp:78` writes through `row` and not through `row_local`. The model's
  queries write what `get_row` returns, as TPC-C does.

`lf_stack.c:148` tests `vi != NULL`, where the queue and the ring buffer test for
NULL, and so overwrites the bounded verdict on the stack's free list with an
unbounded one. `ValidMeansConserved` therefore leaves the stack out;
`cases/ut_stack.c:298-303` relies on that verdict.

Also modelled as the code has it, with no statement in the repository to compare
with: `slist_single_threaded_physically_delete_all_elements` gives `delete_func`
the data of logically deleted elements a second time, and `ringbuffer_delete`
does not free elements that are still queued (`DeleteLeavesOnlyUnread` says that
nothing else leaks). A validation query whose bounds differ and exceed the total
may report a sound free list as INVALID, since the bounds wrap
(`lf_queue.c:189-190`); `ValidMeansConserved` says that they never make a damaged
structure VALID.

## Not modelled

The map covers the structures of `src/basic`, the hash map and the trie of
`src/advance` and the concurrency control of `src/bench` nearly line by line, and with that a small part of the repository:
most of its lines belong to third-party systems kept beside the program's own
code.

In the parts that are modelled:

- the use of a list again after its physical deletion, which leaves it empty as
  `slist_new` does;
- failure branches inside `ringbuffer_new` and `stack_new` (they dereference
  NULL), the weak-memory effects mentioned above, and
  `freelist_get_data`/`_set_data` as separate steps;
- `hash_free`, which frees the head of the first bucket twice
  (`lf_hashmap.c:109` and `73`; `cases/ut_hashmap.c:50` says that it fails), and
  `hash_lookup`, which nothing calls and which masks with `bucket_max`;
- in the engine: inserts, indexes and statistics, and the builds that `config.h`
  does not choose (a mutex in place of `ATOMIC_WORD`, waiting validation,
  `central_validate`, TicToc with several versions or write permission locks).

Parts left out:

- TIMESTAMP (`row_ts.cpp`): `config.h:49` says that it does not work. VLL
  (`vll.cpp`): `beginTxn` never stores the transaction in its queue entry, which
  the main loop dereferences.
- `mwcas/ebr.h` and `gc.h`. On Linux `rel_ptr.h` defines `CAS` with the expected
  value before the new one while its callers pass the new one first, defines
  `EXCHANGE` as an addition, and `ebr_sync` returns nothing on its success path.
  A model of the code as built would only restate these lines.
- `mwcas/mmwcas.h` and `mwcas/harris/stm.h` declare types only.
- Systems of other projects, which `src/basic` and `bench/cc` do not use: `btree`,
  `memory`, `persist`, `sandbox`, `bench/stm`, `moody/concurrentqueue.h`.
- `advance/lf_binarytree.c`, a stub whose insertion returns 0, the hash functions
  of `advance/hashfunc`, and the headers there without an implementation.
- Benchmark workloads, tests and comparison programs.

## Plan

1. `hash/mhash/basic_hash_table.h`.
2. `moody/basiclockfreequeue.h`.
3. Proofs: that the nodes of the hash map and the trie are each in one place;
   `IsLockTable`; Silo's serializability.
4. A checked refinement from `Queue` to the queue that `RingBuffer` assumes.
