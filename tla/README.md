# lugce: a TLA+ model of its core

`lugce` is a C++ library of small header files: lock-free containers, a file
logger, a TCP listener with coroutine sessions, an observer, a Protocol-Buffers
style archive, an XML reader and writer, an HTTP message parser and a few
utilities.  This directory models what in it is hard to test, checks the models
with TLC and proves properties of the lock-free memory pool and stack, the atomic
integers, the hashing container, the logger, the listener with its sessions, the
HTTP messages, the urls, the shared buffers and the archive with TLAPS.

Line numbers refer to the source files (which are encoded in GBK).

## 1. Inventory

| component | state | operations | what makes it correct |
|---|---|---|---|
| `lugce/lockfree/memory_pool.hpp` | 16 free lists threaded through the free cells, two round-robin counters, a chain of blocks per list | `allocate`, `create_new_block`, `deallocate`, destructor | a cell has one owner at a time; none is lost; the destructor frees every block once |
| `lugce/lockfree/stack.hpp` | 8 list heads, two counters, a memory pool | `push`, `pop( v )`, `pop()` | what is popped was pushed, once; each head is a stack; nothing stays behind |
| `libs/lockfree/atomic_*.hpp` | one word | compare-and-set, exchange, add, `++` | the value returned is the one documented |
| `lugce/lockfree/queue.hpp` | segments of a ring | unfinished | - |
| `experiment/consistent_hashing` | ordered map from points to values, a shared mutex, handles | `set`, `get`, `handle::remove` | a set is all or nothing; a key goes to the next point; calls return |
| `lugce/logger` | bounded queue of lines, writer thread, current stream | `logger`, `print_line`, `log_work`, `reset`, `set_auto_reset` | lines in order, at most once; the limit; the stream in use stays open |
| `lugce/tcp/listener.hpp` | acceptor, one `io_service` and one pending accept per worker | `run`, `work`, `handle_accept`, `close` | every connection is delivered once; `close` returns; no socket leaks |
| `lugce/tcp/session.hpp` | socket, coroutine, callback, stream buffer | `accept`, `connect`, `fetch`, `sync`, `resume`, `destroy_` | the coroutine gets the completion it waits for; nothing runs after the session is deleted |
| `lugce/observer.hpp` | map from event to callback | `subscribe`, `unsubscribe`, `shot`, destructor | a callback in use is not deleted; each is deleted once |
| `lugce/gprotocol` | a stream and a table of decoders | varint, class, pair, container coders; `load` | load after save gives the value back; unknown fields are skipped |
| `lugce/buffer.hpp` | a counted block shared by copies | copy, `reserve`, `append`, `erase`, ... | copies keep a live block; the count reaches zero once |
| `lugce/http.hpp`, `lugce/url.hpp` | shared message data, a cache of the text, the state of the parser | setters, `parse`, `str` | copies are independent; the cache is current; every split of the input parses alike |
| `lugce/xml` | the state function of the SAX machine, buffers, the DOM's stack of nodes | one call per character, callbacks | text is delivered once; the tree matches the tags |
| `lugce/object.hpp`, `version.hpp`, `readable_data.hpp`, `initial.hpp`, `hasher.hpp`, ... | values | conversions | round trips |

How they interact: `stack` takes its nodes from `memory_pool` and frees them
into it, and the pool overwrites the first word of a freed node, which is the
node's `next`; both rest on the atomics.  `listener` inherits from `observer`
and delivers accepted sockets through it on the worker threads; the receiver
hands the socket to `session`, whose coroutine is resumed from the socket's
`io_service`.  `http` contains a `url`.  The logger and the hashing container
stand alone, each with its own locks.

The behaviours that are hard here are the interleavings of the lock-free
structures, the races of `reset`, `get` and `close` with other threads, the
order of completions in a session, deliveries in arbitrary pieces to the two
incremental parsers, and data shared between copies.  `PROJECT.json` lists them
as hazards, each at its line.

## 2. Modules

1. `CellAllocator`, `MemoryPool`, `MemoryPoolProofs` - the pool, the allocator it promises to be, and the proofs (section 3).
2. `StackArray`, `LockFreeStack`, `LockFreeStackProofs` - the stack over the promise of the pool, and the proofs (section 4).
3. `HashRing`, `ConsistentHashing`, `ConsistentHashingProofs` - the ring with atomic membership changes, the container with its lock, its unlocked test and its undo, and the proofs (section 5).
4. `Logger`, `LoggerProofs` - producers, writer and `reset`, and the proofs (section 6).
5. `Observer`, `Session`, `Listener`, `ListenerProofs` - the listener's threads with their services, the coroutine's completions, the table of callbacks, and the proofs (section 7).
6. `Varint`, `Archive`, `ArchiveProofs` - the coders with their width, loading with unknown fields and cuts, and the proofs (section 8).
7. `Url`, `Http`, `Buffer`, `Object`, `Initial`, `Readable`, `Version`, `Atomics`, and `ValuesProofs` (messages, urls and atomics), `BufferProofs` - the classes that stand alone (section 9).
8. `SimpleSax`, `Dom`, `Xml` - the character machine, the tree, and texts made of items whose meaning is known (section 10).
9. `Values` - one of the parts 6 to 8 as the subject of each behavior, for one run of them all (section 9).

`LockFreeStack` builds on `CellAllocator`; `Listener` extends `Session` and
`Observer`; `Archive` extends `Varint`; `Http` extends `Url`; `Dom` extends
`SimpleSax`; `Values` extends `Http`, `Buffer`, `Object`, `Initial`,
`Readable`, `Version`, `Atomics`, `Xml` and `Archive`.  The `MC...` modules give
the constants small values; `MCValues` has those of `MCXml` and `MCArchive`.
Where a value is long it has a name of its own (`ItemValue`) besides the one that
the `.cfg` gives the constant (`MCItem`), as TLC works out the latter again at
every use and looks the former up.  A definition whose comment begins with "Wrong:" is a version with a bug that a property must
find; nothing uses it.

## 3. The memory pool

### Module and code

`MemoryPool` models `memory_pool_base`.  One step of a thread is one access to
shared memory; accesses to memory that nobody else can reach yet (filling a new
block, the `data` of a register) are folded into the next shared one.

| code | actions |
|---|---|
| constructor, 36-45 | `Init` |
| `allocate`, 113-134 | `AllocPick`, `AllocReadHead`, `AllocReadNext`, `AllocCas` |
| `create_new_block` 63-88, `tadem_block` 91-107 | `CreateNew`, `CreateThrows`, `CreateWalk`, `CreateLink`, `CreateReadTop`, `CreatePush` |
| `deallocate`, 140-154 | `FreePick`, `FreeReadHead`, `FreeWriteWord`, `FreeCas` |
| destructor, 47-59 | `DestroyBegin`, `DestroyBlock` |
| a client using its cell | `ClientWrite` |

`head` is `_free_head`, `word` the first word of every cell, `nextBlock` the
header word of every block, `allocMark` and `deallocMark` the two counters
modulo the number of barrels, `first` `_first_block`.  `heap` and `held` are
history: the blocks obtained from `new`, and the cells handed out.  The code's
counters wrap at 2^32, a multiple of 16, so the barrel they select is what the
model's counters say.  The postfix `++` of the Windows build returns the
incremented value (`atomic_type_vc.hpp:89`), so the first barrel used is 1.

The `continue` at line 130 leads to the loop's condition, not to the loop's
top; the model has that: `CreatePush` goes to the label `cas` with a null
successor.

The pool is a free-list stack with a bare compare-and-set.  What it can promise
depends on how many threads call `allocate`, which is why `Allocator` is a
constant apart from `Thread`:

* any number of threads that free, **one** that allocates: everything below holds;
* **two** that allocate: `pool_aba` shows the top of a list become a cell that a
  client owns.  One thread has read the top; another pops it and the cell after
  it and returns the first; the successor that the one read from the first cell
  before it was returned is stale, but its compare-and-set sees the same top
  and installs it.  Where clients write to their cells, the word that is read
  and installed can even be a client's own data.

`CellAllocator` is the abstract specification: sets of free, held and returning
cells, with `Allocate` taking a free one.  `ImplementsAllocator` maps the cells
of the heap to it: what no client holds, no thread is returning and no thread
is still building is free.

### Runs

* `pool_one` (one allocating thread, two more that free, one barrel, two blocks
  of one data cell and a terminator): `HeadsAreFree`, `FreeListsDisjoint`, `FreeListsComplete`, the refinement, and
  `AllocateTerminates`.  82,029 states.  One barrel makes every call meet every
  other, and two blocks let a list run dry, grow, and fail to grow.
* `pool_many` (two allocating threads, two barrels, four blocks, at most
  `MaxCalls` = 6 calls): whatever has become of the free lists, the chains of
  blocks are whole, header words are written once, and the destructor frees
  every block.  332,477 states up to symmetry.  Six calls are enough for both
  threads to grow the same barrel at once and for two blocks on each chain.
* `pool_aba` (two allocating threads, one barrel, blocks of two data cells and
  a terminator, four calls, clients that write to no cell): `HeadsAreFree` is
  violated by exactly the calls described above.  One thread allocates twice
  and frees once, the other allocates once.

`AllocateTerminates` needs weak fairness of every thread that is inside the
pool, which any preemptive scheduler gives.  It holds though others push
without end in principle, because only the allocating thread hands out cells to
push: between two of its steps at most the held cells come back.

### Proofs (`MemoryPoolProofs`)

For every number of threads, barrels, blocks and cells, of which there are
finitely many (type correctness is proved and not model-checked).  With any
number of allocating threads:

* `TypeCorrect`: `Spec => []TypeOK`.  It says more than kinds: every pointer
  that the code follows without a test is a cell, except a head read in
  `allocate`.
* `HeadersAreStable`: `Spec => HeaderWrittenOnce`.
* `ChainInvariant`, and from it `ChainsKeepBlocks` (`ChainsHoldHeap`) and
  `DestructorLeavesNothing` (`DestructorFreesHeap`): a pool whose free lists are
  broken still gives all its memory back, each block once.

Under `OneAllocator` (at most one thread allocates):

* `PoolInvariant`, and from it `AllocatedCellWasFree` (`HeadsAreFree`),
  `ListsStayDisjoint` and `PoolImplementsAllocator`;
* `ListInvariant`, and from it `ListsKeepCells` (`FreeListsComplete`): no cell is
  lost and no list runs into a cycle.

`HeadsAreFree` is not inductive.  The invariant `IInv` adds: the words of free
cells are injective, stay inside the free cells and never lead to a head (so
the lists are disjoint paths); each cell has one owner among clients, returning
threads and builders; a block that is being built belongs to one thread and its
cells form a path to its terminator; and for the allocating thread at `cas`,
*if the head is still the cell it read, then that cell's word is still the
successor it read*.  The last part is where one allocating thread is needed:
other threads only push, so a cell that left the top can come back only through
`allocate`.

`IInv` does not say that a free cell is on a list: a cycle of free cells apart
from the lists would satisfy it.  `ListInv` does, with columns: there are heights
`n` and columns `c` such that `c[i][0]` is the terminator of list `i`,
`c[i][n[i]]` its head, each cell's word is the cell below it, and the places
hold the free cells, each once.  A push makes a column higher (by a whole block
in `create_new_block`), a pop lower, and the other places stay.  `ChainInv` does
the same for the blocks, from the first block on, and knows of each thread that
is about to link a block that the block is its own and that the place it looks
at is on a chain; behind the last block of whichever chain the
compare-and-set succeeds, the chain grows.  In the destructor the heap is what
lies on the columns from `dtor.next` on.

`Chain` and `OnList` are recursive functions.  What they compute is shown
without induction over data: the initial segments of a column satisfy the
function's equation, and two solutions cannot differ at a least argument
(`ReachesAll`, `BlocksFromFirst`, `CellsFromTop`); that the column fits into the
bound of the recursion is where the blocks must be finitely many.

`AllocateTerminates`, a liveness property, is left to TLC.

## 4. The stack

`LockFreeStack` models `stack.hpp` over the promise of `CellAllocator`:
`PushAllocate` is a whole `allocate`, and giving a node back takes three steps
(`PopDeliver` or `DropHandle`, `PoolLink`, `PoolTakesBack`) in which the pool
writes a free cell or a terminator into the node's first word, its `next`.
That promise holds when one thread pushes (section 3); with several it is an
assumption of this module, so that the stack's own logic is checked apart from
the pool's.

| code | actions |
|---|---|
| `push`, 42-52 | `PushAllocate`, `PushPick`, `PushReadHead`, `PushCas` |
| `pop`, 54-80 | `PopPick`, `PopReadHead`, `PopReadNext`, `PopCas`, then `PopDeliver` or `PopHandle` |
| `destorier`, 82-88 | `DropHandle` |
| `deallocate` of the pool | `PoolLink`, `PoolTakesBack` |

`StackArray` is what it should be: one stack per head, and for each thread the
value that its pop has removed.  The refinement takes effect at the successful
compare-and-set.

* `stack_one` (two pushing threads, one popping thread, two heads, two nodes,
  two values): `NodesInOnePlace`, `ImplementsStackArray`, `UsesPoolProperly`
  (the client's side of `CellAllocator`) and `PopsDrainStack`.  32,584 states.
  Two nodes suffice for a list of two, for two pushes that meet, and for a node
  to be freed and pushed again under a pop.
* `stack_bad` (one pushing thread, two popping threads, one head): a pop
  returns a value that was never pushed.  The test program looks for exactly
  that (`lockfree_test.cpp:64`) on four and more threads.

Fairness: a thread inside a call goes on (weak), the pool's compare-and-set
does not fail for ever (strong; the pool is lock-free, so this excludes only
endless contention on one of its 16 lists), and the popping thread calls `pop`
again and again, as the test's loop does.  Nothing is assumed of the pushing
threads: `PopsDrainStack` speaks of behaviours in which pushing stops.

### Proofs (`LockFreeStackProofs`)

`TypeCorrect` holds for any number of threads on both sides.  Everything else is
proved for any number of pushing threads, heads and values, finitely many nodes,
and at most one popping thread (`OnePopper`; `stack_bad` shows that two are too
many): `StackInvariant`, and from it

* `EveryNodeOnce`: `Spec => []NodesInOnePlace`;
* `StackImplementsArray`: the refinement of `StackArray`, step by step;
* `PoolUsedProperly`: the refinement of `CellAllocator`, the client's side;
* `PopsReturnPushed`: `Spec => []NeverBad`, what `stack_bad` refutes for two.

The properties speak of walks along `next` (`Place`), a recursive function, and
what a walk meets is not inductive: one changed word could change all of it.
`IInv` says instead that *there are* heights `n` and columns `c` such that
`c[i][k]`, counted from below, is the k-th cell of list i, different from every
other one, and its `next` is `c[i][k - 1]`.  Counted from below, a push or a pop
moves no other node, so each step either leaves `n` and `c` alone or changes one
column at its top.  The rest of `IInv` says who has each node (lists, threads,
handles, pool, exclusively), that a node in use has a pushed value, and (`Pops`)
that the node a pop has read is still on its list and the successor it has read
is current: only another pop could change that.  `WalkReads` connects both
views: the column satisfies the equation of the walk, and two functions that do
cannot differ, since there would be a least place where they do.

Proved apart, over `CellAllocator`'s promise, and not composed: that the pool
keeps its promise to several pushing threads is false (section 3), so the stack
as a whole is right for one thread that pushes and one that pops.

## 5. Consistent hashing

`ConsistentHashing` models the container of
`experiment/consistent_hashing/consistent_hashing.hpp`.  A step is one access to
the map, to a handle or to the mutex.

| code | actions |
|---|---|
| `set`, 65-87, with `set_one`, 89-93 | `SetBegin`, `SetLock`, `SetFirst`, `SetNext` |
| `handle::remove`, 30-38 | `RemoveBegin`, `RemoveLock`, `RemoveErase` |
| `get`, 53-63 | `GetBegin`, `GetEmpty`, `GetLock`, `GetFind` |

The constant `points` stands for `hash_value` and `hash_combine`: the points of
a key in the order in which `set` inserts them.  A handle is used through one
object; the code also lets it be copied, and a copy removed later would erase
points that by then may belong to somebody else; that is left out.

`HashRing` is what the container should be: a member joins with all its points
at one instant or not at all, leaves with all of them at one instant, and a
lookup is answered by the member with the next point.  Under the refinement a
`set` takes effect when it returns and a `remove` when it gets the lock, which
nobody can tell from inside; a lookup takes effect in `GetEmpty` (no member) or
in `GetFind`.

* `hash_ring` (two threads, two keys, a ring of three points, two handles, two
  values): `EntriesHaveHandles`, `ImplementsHashRing`, `CallsReturn`.  77,558
  states.  The keys have the points 0, 2 and 1, 0: a second `set` of a key finds
  its first point taken, a `set` of the second key after the first finds its
  second point taken and comes to the undo, lookups go around the end of the
  ring, and both threads meet at the lock in every combination.
* `hash_undo` (the same instance): `RemoveReturns` is violated.  The undo of a
  `set` (line 82) calls `remove()`, which waits for the lock that the `set`
  holds.

Two ends are states of the model, so deadlock is not an error there: the undo
just named, after which every thread waits, and `crashed`: `get` tests for an
empty map before it takes the lock, and a `remove` between the two leaves it
with `end()`, which it dereferences.  `CallsReturn` is about the behaviours that
come to neither.  Its fairness: a thread inside a call goes on (weak), and one
that waits for the mutex gets it if it is free again and again (strong), which
`boost::shared_mutex` gives, since it keeps new readers out while a writer waits.

### Proofs (`ConsistentHashingProofs`)

For any number of threads, handles, keys and values, any ring and any
`points` with at least one point for each key (`RingAssumption`):

* `ContainerInvariant`: `Spec => []IInv`.  `IInv` is inductive where the
  properties alone are not.  Its parts are `Threads` - who holds the lock
  (`Locking`), what each call has in its locals (`InHand`), that a `set` has its
  handle for itself until it returns it (`OwnHandle`), and that only granted
  handles and the `set` under way have keys (`KeysInUse`) - and `Agree`: a key is
  an entry unless the `remove` under way has passed it (`KeysAreEntries`), an entry
  is such a key (`EntriesAreKeys`), no point is a key twice (`KeysAreDistinct`), and
  all keys of a member have one value (`OneValue`).  The steps under the lock are
  first reduced to five (`Inserts`, `Returns`, `Undoes`, `ErasesOne`,
  `ErasesNoMore`); the others leave `Agree` alone by one frame lemma.
* `TypeCorrect`, and `EntriesAreOwned`: `Spec => []EntriesHaveHandles`, from `Agree`
  and the fact that nothing is being erased when `writer = None`.
* `ContainerImplementsRing`: `Spec => ImplementsHashRing`.  The `set` that returns
  with keys is `Join`, the `remove` that gets the lock with keys is `Leave`,
  `GetBegin` is `Ask`, an empty map in `GetEmpty` and an entry in `GetFind` are
  `Answer`; every other step, each point inserted or erased included, stutters.
  The answers need two lemmas: an empty map has no member, whoever holds the lock
  (`NoEntryNoMember`), and with the lock shared the members' points are the
  entries (`TakenAreEntries`).

`CallsReturn` and `RemoveReturns` are liveness and only model-checked.

## 6. The logger

`Logger` models `logger.cpp` with a file name set.  The lines are a number, as
the properties do not tell them apart, and so is time: the seconds since the
last reset, up to one more than the period.

| code | actions |
|---|---|
| `initialize`, 138-145 | `Init` |
| `print_line`, 84-94 | `PrintCheck`, `PrintPush` |
| `reset`, 96-136 | `ResetOpen`, `ResetInstall` |
| `log_work`, 47-82 | `WorkerLoop`, `WorkerReads`, `WorkerCounts`, `WorkerLooks`, `WorkerClears`, `WorkerWrites`, `WorkerTick` |
| `set_auto_reset`, `time`, interruption of the thread | `SetAutoReset`, `ClockTick`, `Interrupt` |

`logfile` is a `boost::shared_ptr` that is read and replaced without a lock.
Copying it takes two steps (read the pointer, raise the count), and so does
replacing it (read the old pointer, install the new and let the old go).  Where
these races use a count after its end, the model goes to `crashed`.  `open` is
the set of streams that exist, files or `std::clog`; whether a stream is still
`good()` is left open at every look.

* `logger` (two producers, the writer, one more thread that resets, a limit of
  2, a burst of 1, a period of 1, four streams): `QueueBounded`,
  `StreamsHaveOwners`, `CrashOnlyByOthers`, `RotatesInTime`, `LinesTaken`.
  225,984 states.  Two producers can both have seen the last free place; four
  streams are as many as can have an owner at a time (the current one, the
  writer's, and one in each of two resets), so no reset ever waits for one; a
  burst of 1 already makes the writer choose between lines and the clock.

Fairness: the writer runs, and a `reset` that has begun ends (weak).  Nothing
is assumed of the producers or the clock.  `RotatesInTime` is what the comment
at line 53 claims for the counter `x`: a queue that never runs dry does not keep
the writer from rotating; `LinesTaken` is its counterpart.

### Proofs (`LoggerProofs`)

For every number of producers, resetting threads and streams, and every limit,
burst and period:

* `QueueStaysBounded`: `Spec => []QueueBounded`.  The bound alone is not
  inductive: a push does not look at the size.  `QueueInv` counts the producers
  that have passed the test as lines to come, and that sum stays below the limit
  plus the number of producers.
* `TypeCorrect`.
* `StreamsAreOwned`, `OnlyOthersCrash`: from `StreamInv`, which adds that a
  stream about to be installed has no other owner, that the writer is inside
  `reset` only at its two call sites, and what the writer can rely on since the
  last turn of its loop as long as no other thread has replaced the stream: the
  pointer it has read is current, and so is the one it is going to replace.
* `AloneIsSafe`: with no resetting thread besides the writer, the logger never
  crashes, though the writer replaces the stream while it uses it.

## 7. The listener, its sessions and the observer

`Listener` models `tcp/listener.hpp`, and extends `Session`
(`tcp/session.hpp`) and `Observer` (`observer.hpp`), from which the class
inherits.  What Boost.Asio does is external: an `io_service` is a queue of
handlers (`q`) that its thread runs in order, a service whose thread has ended
is in `gone`, and an operation that was started (`accepting`, `pending`,
`timers`) ends by a handler in that queue.

| code | actions |
|---|---|
| `subscribe`, `unsubscribe`, `~observer` | `Subscribes`, `Destroys` |
| `run`, 45-69; `close`, 33-38 | `Run`; `CloseInterrupts`, `CloseAcceptor`, `CloseJoined` |
| `work`, 80-91; `io_service_work`, 93-110 | `Work`; `Loop`, `RunReturns` |
| `handle_accept`, `on_connected`, `check_interrupt` | `HandleAccept`, `OnConnected`, `BadSocket`, `CheckInterrupt` in `RunHandler` |
| `session::accept`, `connect`, `resume` | `Accept` (in `OnConnected`), `Connect`, `Resume` |
| the coroutine: `fetch`, `sync`, `pause`, the end of the callback; `destroy_` | `Resumed` and `Proceed` in `RunCoro`; `RunDestroy` |
| connections, the network, timers | `Arrives`, `Completes`, `TimerFires` |

Using a service, a session or a function object that is no more sets `crashed`,
which ends a behaviour.  `careless` is history: a user has called `resume()`
other than once to end a pause, or a callback has unsubscribed its own event.

* `tcp` (no worker or one, three sockets, one event, two function objects, one
  `resume()` that waits at a time, one careless act): `SocketsHaveOnePlace`,
  `CallbacksAtHome`, `CrashOnlyAfterClose`, `FuncsInTable`, `CompletionsMatch`,
  `ConnectionsServed`, `CloseReturns`.  335,966 states.  A worker and the
  acceptor's thread are the two parties of every race here, since workers share
  nothing else; three sockets are one that is accepted, one whose accept is
  pending, and one that a session connects out.  `Arrives` and `Connect` wait
  for two free socket objects, so that no `new` waits for the bound.

Fairness (weak): threads, the timers that `check_interrupt` sets anew each
second, and the steps of `close()`.  Nothing is assumed of the network, of
users, or of the owner's call of `close()`.

What the run shows besides: `close()` interrupts and then joins.  A worker sees
the interruption by its timer; the acceptor's thread has none.  So `CloseReturns`
has two exceptions.  An accept that ended before the acceptor was closed, and
is handled after, starts another one, which ends at once with an error that is
not `operation_aborted`, and so on for ever; and with `thread_count` 0 a session
on the acceptor's service that still waits keeps `run()` busy.  A handler of the
acceptor that posts to the service of a worker that is gone crashes
(`CrashOnlyAfterClose`).  `resume()` at any other time than in a pause resumes
the coroutine out of whatever it waits for, and the real completion then finds
another wait, or none (`CompletionsMatch` excepts it).  Worse, the handler that
such a `resume()` has posted can outlive its session: when a socket object of
another worker comes to lie at the same address, two threads call that one's
coroutine (`CallbacksAtHome` excepts it; that takes two workers and four
sockets, more than the run has, and came up in the proof).  `~observer` loops from
`begin()` to `begin()` and deletes no object (`FuncsInTable` excepts it).

### Proofs (`ListenerProofs`)

For any number of workers, sockets, events and function objects, queues of any
length and any number of `resume()` handlers: `ListenerInvariant`, and from it
`TypeCorrect`, `OnePlaceForSockets`, `HomeForCallbacks`,
`CompletionsAreExpected`, `CrashesAfterClose` and `TableOwnsFuncs`, which state
all the invariants that `tcp` checks.  None of them is inductive by itself: each
speaks of what waits in the queues, and what a handler does when its turn comes
depends on what has happened since it was posted.  The invariant `IInv` says

* `Passing`: a socket is with a session, with an `async_accept`, or passed on by
  exactly one handler, exclusively, and then it exists;
* `Homes`: accepts wait in the acceptor's queue, checks in a worker's, what is
  posted to a socket's service waits where the socket was made, and a deletion
  waits for a session whose callback has returned only;
* `DeletedOnce`: at most one deletion of a session waits;
* `Completing`, as long as no user has been careless: every handler that runs a
  coroutine is the completion that this coroutine waits for, there is at most
  one, it excludes an operation that is still under way, and one of the two is
  there unless the service is gone;
* `Aborted`: no accept is aborted before `close()` closes the acceptor;
* `Owner`: nothing runs before `run()`, no thread ends before `close()`, and a
  thread that has ended leaves an empty queue and no timer.

The first half of `ListenerProofs` is about queues alone: what appending a
handler, taking one, joining two families of queues (an accept that ends at once
and the socket that is posted) and dropping a queue do to `Has` (a handler of
one of these kinds waits for s somewhere) and `Once` (in one place only).  With
these two predicates no step needs to look at positions.  The bounds of the run
(`Spare`, `MaxResume`) are in the guards and limit the proofs as well only in
that `new` finds a free object.

What the proofs assume: `NewSocket` is a `CHOOSE`, so an address is reused in a
fixed order; no invariant depends on which one is taken.  `ConnectionsServed`
and `CloseReturns` are liveness, and checked by TLC only.

## 8. The archive

`Varint` models the integer coders of `gprotocol_common.hpp` with a group of
`Base` values and integers of a width to choose; `Archive` models saving
(`gprotocol_oarchive.hpp`) and loading (`gprotocol_iarchive.hpp`) over them:
`SerializeNext` and `WriteString` save a field, `StartLoad` cuts the bytes anywhere
and chooses which tags the receiver knows, `LoadRound` is one turn of the loop
of `load`, with the decoder it calls.

* `values`, with the archive as its subject (up to two fields of ten kinds,
  integers of 11 bits in groups of 5): `FieldsArrive`, `VarintsExact`,
  `RoundsAdvance`.  16,726 of its states.  11 bits in groups of 5 leave a last
  group that is not full, as 32 and 64 bits in groups of 7 do; two fields let a
  first one spoil a second.
* `codec_unknown` (the archive alone, the same constants): `UnknownSkipped`, the
  claim of the comment "unknow index, skip it" (`gprotocol_iarchive.hpp:136`).
  It is violated: the code skips the value of an unknown field (line 137) and
  leaves `load` (line 138), so that a known field behind it does not arrive.
  The claim is about whole messages in which nothing else of the list below is
  wrong, so that the unknown field is the only cause.

`RoundsAdvance` is why a load ends: every round of its loop takes bytes of what
is left or ends a load, whatever has arrived.  It is a property of steps, and
needs no fairness.

`FieldsArrive` and `VarintsExact` name what does not arrive: signed values
outside the inner half of their range, as the decoder shifts with the sign
(`gprotocol_common.hpp:123-126`); unsigned ones with a group of 0x80 and nothing
above it (line 93), and so the key of tag 16 with wire type 0; an embedded
class that is not the last field, as its decoder reads to the end of the stream;
packed containers.  About what comes behind an unknown field `FieldsArrive`
says nothing: that is the question of `codec_unknown`.  The coder of enums and
the loading of containers and of pairs with a string do not compile and are left
out.

### Proofs (`ArchiveProofs`)

For integers of every width divisible by four values: `ZigZagKeepsShort` (a
signed value survives the zigzag code exactly if it lies in the inner half of its
range), `ZigZagInjective` (it is the decoding that loses the others) and
`NumberReadsBack`: from any place in any bytes a code is read to its last byte
and no further, and as the number it stands for, exactly if no group of it is
clipped.  `NumbersExact` says it of every number in a stream (`VarintsExact`), and
`WrittenArrives` is `FieldsArrive` for any tags, types and values, any number of
fields, every cut and every set of known tags: the fields arrive up to where the
bytes end or a field of an unknown tag comes.

The codes are recursive functions of the model, and so is a container's list of
elements.  The prover has no induction over an operator, but naturals are well
founded (`LeastNatural`, `StrongInduct`, for sets), which gives that a function is
there that satisfies a recursive definition (`RecursionDefines`) and what holds
for all its arguments: the shape of a code (`CodeShape`), the groups that are read
(`GroupsDefined`, `GroupsRead`), a container's first element (`Flattened`).

The invariant (`ArchiveInvariant`) has three parts.

* `InvWritten`: field i's bytes lie behind those of field i - 1.
* `InvArrived`: what arrives is a first part of that, and no container is known.
* `InvLoad`: a load that is under way is in front of a field (`AtField`), behind
  the length of an embedded message (`InClass`), or has nothing to come
  (`AtEnd`); the object holds what the fields before that have set (`Arrived`).
  `FieldsArrive` speaks of loads that have ended only, and needs this of those
  under way.  A field without bytes cannot be told from the next one, so that
  `AtField` is said of the next one that has some (`Onward`).

A step in front of a field meets its key (`RoundAtKey`) and then, by its type, its
value (`ReadsNumber`, `ReadsPair`, ...); a value that is cut runs out or gives a
value that is not the field's, of that field alone (`SetsOwn`).

The assumptions say what the sizes of the code give (`LongestAssumption`: no
integer has a code above the limit, as 10 bytes hold 64 bits; `KeysAssumption`: a
pair of keys and numbers is shorter than a group can count, keys are integers,
and 1 is a tag whose key is kept) and what the types give (`ValuesAssumption`).
TLC checks them with the run's constants.  It also checked the invariant, on two
fields and on three (619,513 states).

Proving corrected the property three times, and the code stands as it was: an
empty container leaves no bytes, so that it is no field that could be cut
(`Absent`); the elements of a container that is not packed have the key of a
number, not that of a container (`KeyKept`); and a field that is cut, or of an
unknown tag, makes `load` throw if its own number, or length, is one that
`save` clips, since the byte of 0x80 goes on into the next field (`Foreseen`).

## 9. The classes that stand alone

`Values` chooses one subject and lets its calls happen in every order, within a
bound on their number for each class.  The classes share nothing, so that one
run for all of them shows the same as one run for each.  The archive (section 8)
and the xml parser with its tree (section 10) are subjects as well.

| module | code | state | actions |
|---|---|---|---|
| `Url` | `url.hpp` | the parts and the cache | `UrlSet`, ..., `UrlStr` |
| `Http` | `http.hpp` | messages that share data, each with parser and cache | setters, `Str`, `StrAborts`, `CopyMessage`, `ResetMessage`, `ParseNext` |
| `Buffer` | `buffer.hpp` | buffers, and blocks with their count | every member |
| `Object` | `object.hpp` | variables, and the helpers they refer to | construction, copies, `Push`, `AtIndex`, `AtKey`, ... |
| `Initial` | `initial.hpp` | the settings | `LoadFile`, `StoreItem`, `AskItem`, `SaveAndLoad` |
| `Readable` | `readable_data.hpp` | a number, its size and its text | `InsertSeparator` |
| `Version` | `version.hpp` | the text and what was parsed of it | none: a version does not change |
| `Atomics` | `libs/lockfree/atomic_*.hpp` | a word, and where each thread is in an operator | `AtomicStep` |

* `values`: `PiecesAgree`, `StrReadsBack`, `MessagesApart`, `UrlReadsBack`,
  `BuffersHold`, `CopiesAreDeep`, `FormsReadBack`, `CallsAreAtomic`, and those of
  sections 8 and 10.  606,484 states, of which about 320,000 are of messages.  Two
  variables of each class are what copying and sharing need, and a third would
  only share again; urls have every part, one of them a port that is too big;
  header lines and settings lines are of every kind; two threads work on a word
  of two halves of one bit.  Texts are tokens, cut at every place, since the
  parsers look at nothing smaller than the tokens chosen.  Three calls on messages
  are enough for a copy, a change behind it and a text that is asked for; urls
  and buffers have five, objects four, settings three.  The two messages differ
  only in name, no call prefers one, and no property is about liveness, so that
  symmetry in them is sound.
* `atomics_original` (the same atomic integers alone): `OriginalReturned`, the
  claim of the comments that the functions behind `++` and `--` return the original
  value (`atomic_type_vc.hpp:86`, 92, 98, 121).  It is violated: those of the two
  builds with Interlocked functions (lines 89, 95, 102, 125) return the new one.
  `CallsAreAtomic` requires the documented value of every other operator, of the
  build in assembler for all, and of these the new value.

What the properties except is what the code does:

* http: `modify()` and `str()` in the middle of a header lose or corrupt the
  part of a line that is in the cache; after a `parse` in the body `str()`
  returns an old text; a header that comes twice is joined with a line break and
  is written as a line without a colon; a body set before a header survives
  `Content-Length: 0` when everything comes in one piece.  `str()` asserts that a
  message without a method has a code (`http.hpp:132`) and that a request of which
  the host was set is of version 1.1 (line 138), while `host()`, `version()` and
  the constructors take anything: on other messages the program aborts, which
  is the step `StrAborts`, and `StrReadsBack` is about the messages that `str()`
  returns a text of.  A build without assertions is not modelled.
  `StrReadsBack` compares the method, the code, the version, the body, the
  parameters and, where the url is `Regular`, every part of it.
* url: `set` throws at a port above 65535 after it has taken the scheme, the
  user and the host of the new text (`url.hpp:182`, `PortThrows`, `SetUpToPort`),
  and the parts of both texts still read back; in a message such a text leaves
  the url as it was.  `set`, `set_port` and `params()` leave the cache; `set_host` takes a port
  only if there was one; an `@` in a path is taken for user info; a port without
  a host is written, and read as the path.
* buffer: `erase` in the middle moves the wrong bytes (`buffer.hpp:181-182`);
  `c_str` writes its 0 over the byte of a longer copy; the assignment that the
  class leaves to the compiler does not count; growth of a shared block leaves
  the copies with a dead one; a buffer that was moved from keeps its size.
* object: copying an object that is not const goes through the template
  constructor and nests (`object.hpp:368`); assignment shares; an object
  assigned into itself makes `clone` endless.
* initial: names that a caller gives are not turned to lower case, those of a
  file are; asking for an item makes it; names with `=`, with blanks or a
  leading `#`, `'` or `[` do not read back.
* version: a digit multiplies what is there by 256 and not by 10
  (`version.hpp:93`), so numbers of more than one digit do not read back.
* atomics: `++` and `--` of the Interlocked builds (`atomics_original`, above); a
  plain load of 64 bits may see two halves that never were together.

### Proofs (`ValuesProofs`)

Of the atomics, `EveryCallIsAtomic`: for every number of threads, width, operand and functor and
in all three builds, each operator takes effect in one step and returns what its
comment promises of the word it replaced, plain loads and the `++` and `--` of the
Interlocked builds excepted.  The loops need no invariant about
other threads: a try that succeeds compares the whole word with what was read,
so whatever the halves were when they were read, they are the word now.  The
invariant (`AtomicInvariant`) therefore only keeps the word in its width and
each thread inside one operator.

Of the messages, `PiecesParseAlike` and `MessagesStayApart`: `PiecesAgree` and
`MessagesApart` for texts of any length with any tokens, cut anywhere, and any
finite number of messages (`HttpAssumption` and `NumeralAssumption` say only that
texts and numerals are sequences), over `HttpSpec`, the steps that `Values` takes
when its subject is messages.

* What `Parse` does with the characters of a piece is the recursive function
  `upTo`.  The prover cannot use the library's induction theorems, whose
  hypothesis is an operator, but a set of naturals has a least element
  (`LeastNatural`, from the well-foundedness of `<`), and from that induction
  follows for sets (`Induct`).  It gives that `upTo` exists (`ScanStarts`, for the
  first n values; `ScanDefined`) and what holds along it.
* A step looks at a character, and at its place only in the wrong version
  (`Placeless`): so the first of two pieces is read as the beginning of the whole
  (`WholeBegins`), and, while the header goes on, the second as its end
  (`WholeGoesOn`).  The header ends at the same character, the end of a line
  (`EndsAtLine`, `EndsWithin`, `EndsBehind`), and a body is cut off at its size in one piece as in two
  (`BodyTwice`, `BodyInPieces`).  Together: `ParsePieces`.
* `PiecesAgree` alone is not inductive.  It lets the answers differ whenever
  `requisite` is -1, but the next piece is only read alike if the header is over
  and nothing was thrown (`Alike`); and a body that has outlived a header of size 0
  stays the exception only because the header does not begin again and the size
  does not change (`Outlives`).  What every message's data must be for that
  (`Good`): a body that is a text, a size that is a natural or -1.
* `MessagesStayApart` rests on counting: a message that shares its data finds an
  id that no message has, because as many ids as messages are there
  (`ModifiedApart`).

TLC checked the invariant on messages with the constants of `values` (374,088
states) before it was proved.

Of the urls, `UrlsReadBack`: `UrlReadsBack` for any texts, tokens, numerals and
names of parameters and any number of calls, over `UrlSpec`, the steps that
`Values` takes when its subject is urls.  `UrlAssumption` is what the code and
its callers see to: texts are sequences of tokens; the names of parameters are
the words that texts have before a "=", in lower case, in the order of the map;
to lower a word twice is to lower it once; the ports that callers set are
numerals, the empty string and their user `me` are not; and the words that callers
set are in lower case.  A numeral stands for the value of a port as `lexical_cast`
writes it; `TooBig` are numerals, those above 65535, at which `set` throws.

* The invariant (`UrlInvariant`) says what the parts are made of (`UrlParts`):
  scheme and host are words in lower case, a user is no number, a password has no
  "@", a path no "?" or "#", and no value of a parameter a "&", ";" or "#".
  `UrlReadsBack` needs it because nothing in `Regular` says so: a "?" in the path
  would begin the query, a capital letter in the scheme would not come back.
  That `set` keeps it is a statement about any text that `set` may be called
  with: about what each group of the regular expression can take
  (`UserInfoOfAny`, ...) and what `parse_param` can find (`SetPartsOfText`).
  The port is one that `set` takes (`UrlPort`), also after a set that threw in
  the middle, so that a text put together of the parts does not make `set`
  throw (`AssembledNotThrows`).  The other half (`UrlCache`) is that the cache holds the text of the parts
  unless a call that does not know of it came after (`behind`).
* Then each group takes of the text exactly the piece that `str` wrote of it
  (`SchemeTakes`, `UserTakes`, `HostTakes`, `PathTakes`, `QueryTakes`), from the
  last backwards: what a group leaves begins with a mark that ends it, or with
  nothing.  So `Cut` finds the pieces (`CutsAssembled`).  This is where `Regular`
  is needed: a port without a host would be a path, and a user that is
  missing could be found before an "@" further on.
* `ParseParam` and `Pairs` are recursive functions.  That they are ones follows
  from induction over sets of naturals (`RecursionDefines`); that the first reads
  what the second wrote, from a name on, by induction from the last name
  down.  No value can end early, because none has a mark in it, and no name comes
  twice.

TLC checked the invariant on urls with six calls (170,949 states) before it was
proved.

### Proofs (`BufferProofs`)

`BuffersKeepTexts`: `BuffersHold` for any number of buffers, any size of a block
and of its header (`BufferAssumption` is all that is assumed) and any number of
calls, over `BufferSpec`, the steps that `Values` takes when its subject is
buffers.  The bytes that the calls write are those of `BufferNext`.

`BuffersHold` is silent about a buffer that somebody else has written into, but
such a buffer goes on acting, on the same blocks as the others.  The invariant
(`BufferInvariant`) says of every live buffer, sure of its bytes or not, that its
`_block` is the size of its block and its `_size` within it (`Placed`), that it
has no text while it has no block (`Blank`), and that it is never longer than its
user's text (`Covered`): without `Covered`, `erase` and `replace` would cut bytes
out of a text that does not have them, and that no call breaks it does not follow
from `BuffersHold`.  A sound block that is not freed counts the buffers on it, and
only finitely many buffers live at a time, so that counting makes sense with
infinitely many too.  The parts take the state as arguments: a call that reserves
and then writes is followed in two steps, `Reserve` being proved to keep them and
to make the room it is asked for (`Ready`).  TLC checked the invariant with three
buffers and five calls (107,013 states) before it was proved.

## 10. XML

`SimpleSax` models the character machine (`simple_sax.hpp`): its state, the two
buffers, the attributes and the flag, with one step per character (`PushChar`).
`Dom` models the tree with its namespaces and how it is written (`dom.hpp`,
`xml_writer`), and `Xml` puts them to use: a text is a sequence of items, each
with its characters and the calls it means.

| code | actions |
|---|---|
| `simple_sax::load` and the handlers of `document_t`, for a stream | `NextStream` |
| a text after it, into the same document | `NextXml` |
| edits between | `CreateRoot`, `SetContent`, `AddElement`, `SetAttribute` |

* `values`, with xml as its subject (texts of up to three items of fourteen
  kinds and up to three end tags, `MaxItems` and `MaxEnds`; then another text):
  `SaxEvents` and `TreeReadsBack`.  63,737 of its states.  Three items let every kind come after every other inside an
  element; three ends close them.  A document that is loaded twice keeps pointers
  into the tree that is gone; they are reached with seven items and more, and so
  lie outside the bounds.

`SaxEvents` excepts what `Trouble` names, each with its lines: text before a
comment or a CDATA section is delivered twice (`simple_sax.hpp:276`, 313); the
flag they leave makes the next start tag an end (348, 361); quotes may be mixed
(184); the brackets that end a CDATA section need not be adjacent (346).
`TreeReadsBack` excepts namespaces that are escaped, repeated or hidden by a
prefix (`dom.hpp:150-179`).  An end tag is compared by its local name only, and
what comes after the root's end is added to it.  `simple_sax.hpp:112` calls
`istm.readsome()` without arguments, which does not compile; the model takes the
line as absent.  The form of `document_t::xml` that returns a string does not
pass its flag on (`dom.hpp:321-326`): it is `DocumentXml` with `all = FALSE`,
and the form that is given a string has both.

## 11. Liveness and fairness

| property | fairness | why |
|---|---|---|
| `AllocateTerminates` | weak, of threads inside the pool | a preemptive scheduler |
| `PopsDrainStack` | weak, of calls; strong, of the pool's compare-and-set | section 4 |
| `CallsReturn` | weak, of calls; strong, of the lock | `boost::shared_mutex` keeps new readers out while a writer waits |
| `RotatesInTime`, `LinesTaken` | weak, of the writer and of a `reset` | a preemptive scheduler |
| `ConnectionsServed`, `CloseReturns` | weak, of threads, timers and `close()` | section 7 |

## 12. What is not covered

Proved for every value of the constants are the statements listed in sections
3 to 9; everything else is checked on the instances given.  Liveness is beyond
the prover.  What recursive definitions over data give for every input is proved for
the archive, for `PiecesAgree` and for `UrlReadsBack`, by induction over sets of
naturals.  For the others it stays with TLC (`StrReadsBack`, `FormsReadBack`,
`SaxEvents`, `TreeReadsBack`, `CopiesAreDeep`): they would need it over texts whose
meaning is a recursive definition too, or are about modules with `RECURSIVE`
operators (`Object`).  Memory is sequentially
consistent in the models, as the interlocked operations and `volatile` words of
the Windows build make it; the logger's unsynchronised pointer is the exception,
with the outcomes given in section 6.

Not modelled:

* `lockfree/queue.hpp` is unfinished: `push_back` has no way out of its loop and
  `pop` does not compile; `lock_like_array` in the tests does not compile either.
* singleton, factory and aggregate, the hashers and the traits: one assignment
  each, or pure functions.
* `makeup`: window layout on the Win32 API.
* the utf-8 facet: vendored from Boost.
* of the atomics, the files that nothing includes (`atomic_type_vc_x64.hpp`,
  `atomic_type_vc_asm.hpp`, `lockfree_details_gcc.hpp`) and the gcc variant, which
  lacks the functions that `atomic_integer` calls.
* of the logger, how lines are built and filtered; of the object class, its
  arithmetic (which does not compile) and numeric conversions; of the tree, its
  read-only accessors, a load after an exception, the constructor that leaves the
  parser uninitialised, and the old copy of `simple_sax.hpp`.
