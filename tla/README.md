# zenoh-c in TLA+

zenoh-c is the C API of Zenoh. It is a thin layer: a C application owns
variables (`z_owned_xxx_t`), lends them (`z_loaned_xxx_t`), moves them into
functions (`z_moved_xxx_t`), and hands over closures that threads of the Zenoh
runtime call later. What the layer adds to the runtime is a set of promises
about ownership and time: who frees what, when a callback can no longer run,
which function blocks until when. These promises are what an application
builds its memory management on, and they are hard to test, because breaking
them takes a particular order of steps of several threads.

This directory models that layer. The runtime (`zenoh`), the queues (`flume`,
the ring channel) and the Rust standard library are not in this repository;
they are modelled by what the code in `src/src` relies on, chosen
conservatively, and marked external in `PROJECT.json`.

## 1. The parts of the system

| Part | State it keeps | Operations | Source |
|---|---|---|---|
| session | the owned session, its background close | `z_open`, `z_close` (with timeout, in background), `z_session_drop`, `zc_concurrent_close_handle_wait/drop` | `session.rs`, `close.rs` |
| entities with callbacks | an owned variable, a registration in the runtime, a closure | declare, declare in background, undeclare, drop | `subscriber.rs`, `queryable.rs`, `liveliness.rs`, `advanced_subscriber.rs`, `querying_subscriber.rs`, `matching.rs`, `info.rs` |
| entities without callbacks | an owned variable, the listeners declared on it | declare, undeclare, put, delete | `publisher.rs`, `advanced_publisher.rs`, `querier.rs`, `publication_cache.rs` |
| closures | context, `call`, `drop` | construct, call, drop | `closures/*_closure.rs` |
| channels | a queue of one bound, a closure that fills it, a handler that empties it | `z_fifo_channel_xxx_new`, `z_ring_channel_xxx_new`, recv, try_recv, drop | `closures/*_channel.rs` |
| one-shot operations | a closure for the time of a call or a query | `z_get`, `z_querier_get`, `z_liveliness_get`, `z_info_xxx`, `z_scout` | `get.rs`, `querier.rs`, `liveliness.rs`, `info.rs`, `scouting.rs` |
| cancellation tokens | a shared flag and the queries attached to it | new, clone, cancel, drop | `cancellation_token.rs` |
| mutex, condition variable, task | a Rust mutex and, beside it, the slot for its guard | lock, try_lock, unlock, signal, wait, init, join, detach | `platform/synchronization.rs` |
| moved arguments | the caller's owned variables and option fields | every function with a `z_moved_xxx_t*` | `transmute.rs`, `put.rs`, ... |
| shared-memory providers | the backend and its context, layouts, chunks, pending asynchronous allocations | new, alloc and its variants, alloc_async, layouts, defragment, gc, drop | `shm/provider/*`, `context.rs` |
| shared-memory clients, segments, buffers | contexts, reference counts | attach, drop, conversions | `shm/client/*`, `shm/client_storage/*`, `shm/buffer/*` |
| strings, slices, arrays | pointer, length, deleter | from_buf, copy, clone, push, drop | `collections.rs` |
| payloads, serialization | a rope of slices, a cursor | reader, writer, slice iterator, serializer, deserializer | `zbytes.rs`, `serialization.rs` |
| key expressions | a string that may be declared | construct, canonize, join, declare, undeclare | `keyexpr.rs` |
| configuration, encodings, small values | plain data | conversions | `config.rs`, `encoding.rs`, `commons.rs` |
| logging, clock, random, sleep | a process-wide subscriber, none | init, read | `closures/log_closure.rs`, `lib.rs`, `platform/*` |
| build scripts | none at run time | code generation | `buildrs/*` |

How they interact:

* the application calls the functions from any number of threads; the runtime
  calls closures from its own threads, several at once, also while the
  function that registered the closure has not returned yet;
* a closure may call the API again, for instance to undeclare an entity;
* undeclaring and closing with `wait_callbacks()` make the caller wait for the
  runtime threads that hold a reference to a callback;
* a channel is a closure whose context is one end of a queue: a full fifo
  makes the runtime thread wait for the application;
* dropping the last reference to a callback runs the closure's `drop`, on
  whatever thread that happens.

What is hard here: a reference taken before an undeclaration and used after
it; a close that times out and is repeated; declarations that fail after they
have taken the closure; a query that is cancelled while it is being submitted
or answered; a guard that lives in an unprotected slot; early returns that
forget a moved argument; contexts that are not converted before an error
return. `PROJECT.json` lists each of these at its line ("hazards") with the
properties that would catch it going wrong.

## 2. The modules

### ClosureContract

The promise printed above every closure constructor: `call` is never called
once `drop` has started; `drop` is called once, after every `call` has ended.
The state is where each closure is in its life (`fresh`, `owned`, `lent`,
`dropping`, `dropped`) and which threads execute its `call`. The contexts of
shared-memory callbacks (`zc_context_t`, `zc_threadsafe_context_t`) promise the
same of `delete_fn`. Session, OneShot, ShmProvider and ShmClients are each shown
to implement this specification through a refinement mapping.

### Session

One open session, a set of entities (each of one of fifteen kinds), threads of
the application, threads of the runtime, and the thread that closes in the
background. A kind is a descriptor read off the code of its functions: whether
it has a closure, whether undeclaring waits for callbacks
(`.wait_callbacks()`), and whether a failed declaration writes a gravestone.
`parent` says on which entity a listener is declared, `background` which
entities are declared without an owned variable.

* `Declare`, `DeclareReturn`, `RejectReturn`: the closure is taken, the runtime
  registers it or not, and only then is the owned variable written; callbacks
  may run in between.
* `Undeclare`, `CallReturn`: `z_undeclare_xxx` and `z_xxx_drop`, which take the
  variable first. Undeclaring a publisher or an advanced subscriber takes its
  listeners along (`Family`). The runtime may report an error; then nothing is
  waited for.
* `Close`, `CloseTimeout`, `CloseConcurrently`, `CloserStart`, `CloserReturn`,
  `HandleWait`, `HandleDrop`, `SessionDrop`: a close waits only for the
  closures that it removed itself, so a second close finds nothing to wait
  for; its timeout may always strike.
* `Fetch`, `CallStart`, `CallEnd`, `Release`: a runtime thread takes a
  reference, calls, returns, lets go. `DropStart`, `DropEnd`: the last
  reference is gone.

The application keeps to the rules the documentation gives: it does not drop a
session or a parent that another thread is using, and callbacks do not
undeclare themselves or each other in a circle (`MayUndeclare` is acyclic; such
callbacks wait for ever). Undeclaring a gravestone does nothing and is left out.

### OneShot

Functions that borrow a closure for their own duration. Each operation is of
one kind; a query may carry a cancellation token and a timeout.

* `Take` moves the closure out of the caller's variable; `Reject`,
  `SessionClosed` and `AlreadyCancelled` are the returns before anything is
  sent, `Leave` the end of the scope in which the closure is dropped.
* `Submit`, `Sent`: the closure is moved into the callback, the query is sent
  with its token, `wait()` comes back with or without an error.
* `Info...`: the caller's thread calls the closure for each item. `Scout`,
  `ScoutEnd`: the caller's thread sleeps while the runtime calls it.
* `Cancel`, `CancelReturn`: queries attached to the token are forgotten, then
  their callbacks are waited for. A failed cancellation leaves any of them.
* `Tick`, `Timeout`, `FinalReply`, `Close`: the other ways a query ends.
* `Limit`: the timeout that is handed to the runtime: `timeout_ms`, or the
  default if it is 0 - except in `z_liveliness_get`, which hands on the 0.

Attaching a query to its token is atomic with respect to a cancellation, and a
cancellation waits until the callback is dropped, not only until it is idle;
the second is what `tests/z_api_cancellation_token_test.c` expects. Callbacks do
not cancel their own token. What `z_close` waits for is in Session; here it
only removes the queries.

### Channel

One model for the six channels of `sample_channel.rs`, `query_channel.rs` and
`response_channel.rs`. The closure's context is the boxed sending end; `Send`
takes the object out of the variable it was lent and pushes it; `DropClosure`
frees the box. Fifo: a full queue blocks the sender, a queue without handler
refuses. Ring: the oldest element goes. `Recv`/`RecvReturn` block,
`TryRecv` does not; both write a gravestone when they have nothing.
`holds[r]` is the receiver's variable. The queues are external: elements left
in a queue are freed at the latest when the second end goes; a ring that has
lost its sending end may lose them at once.

### Sync

Tasks on one mutex and one condition variable. The Rust mutex is `owner`; the
slot beside it that holds the guard between `z_mutex_lock` and
`z_mutex_unlock` is `guard`, and every function accesses the two in separate
steps: `LockAcquire`/`LockStore`, `UnlockTake`/`UnlockRelease`,
`WaitTake`/`WaitPark`/`WaitAcquire`/`WaitStore`. `SpuriousWakeup` is possible.
Task handles are joined, detached or dropped. The client sets a flag under the
mutex and signals every waiter. No task panics while it holds the mutex, so
`Z_EPOISON_MUTEX` does not arise.

### Moves

Twenty-nine functions as the list of steps that matter for ownership: which
moved argument or option field is taken at which point, and after which steps
the function may return, clearing what. An action executes one step; the
optional fields are present or absent. `z_scout` has a return for an invalid
`what` between two takes; no value of `z_what_t` leads there (`What`,
`Matchers`), and the model says so instead of assuming it.

### ShmProvider

One provider of any of its kinds, a unit of memory called a chunk, threads
that allocate with the four policies, spawned asynchronous allocations with
their contexts, and a layout. `BackendStart`/`BackendReturn` are the calls into
the callbacks of a dynamic provider; `Delete`/`DeleteReturn` the drop of a
context. `alloc_async` on a provider that is not thread-safe is refused;
through a layout the refusal happens before the context is converted into a
type with a `Drop`. The provider outlives its layouts and the allocations that
run on it, as its `'static` lifetime asks of the application.

### Collections

Everything in `collections.rs` is a `CSlice`: pointer, length, deleter. A cell
is one allocation - a buffer the application hands over with the context of
its deleter, or a box of the library - and is never reused, so that a dangling
pointer stays visible. `slice`, `view`, `array` and `bytes` are the variables
of the application; a payload refers to reference-counted slices that its
clones share (external: the runtime's `ZBuf` keeps no empty slice and drops a
slice with the last reference), and a writer is a payload under construction.
Lengths are 0 or 1, since the code only asks whether a length is 0. Actions
carry the names of the functions; `New`, `NewBorrowed`, `NewOwned`,
`CloneToOwned`, `CloneToBorrowed` are the constructors they share. The
application is assumed to construct only into gravestones and neither to move
nor to drop what it has lent: `loans` records what it was told it is
borrowing (views, `push_by_alias`), not what the structures contain, so a copy
that secretly aliases is found. `scope` fixes which variables a program has.

A borrowed text is a loan of the same kind, which is why key expressions are
composed with this module and not checked by themselves.

### KeyExpr

`keyexpr.rs`, on top of Collections: programs whose variables include owned key
expressions and views of them. The owned type and the view are the same Rust
type (`KeyExpr<'static>`), which owns its text or borrows it; in the model both
are an entry of `bytes`. `keyexpr_create` is the one function behind the eight
checked constructors, with its two flags (canonize, copy), and the constructors
differ by what they pass and by what they do with NULL.

Only one piece of memory has its text followed, a character array of the
application (`static`), which may be a literal; for any other memory each check
may pass or fail. Functions take a length, so every prefix of the array has a
spelling of its own: canonical, canonical after canonization, or wrong either
way (with or without being changed by canonization; bytes that are not UTF-8 are
left alone and refused). `Canonizations` is what rewriting the first n characters
may leave: a canonical text as it was, any other with a result that is no longer
and arbitrary spellings of all the other prefixes. `CanonizeInPlace` is the write
to the caller's memory, which happens before the check, so also when the call
fails. `Told` is what the caller learns: the new end of the text, as a NUL behind
it (`z_view_keyexpr_from_str_autocanonize`, `z_keyexpr_canonize_null_terminated`)
or through `len` (the functions on substrings), and only on success. `piece` is
how many characters of the array each key expression borrows.

A program that declares no array of its own (`Chars`) has a canonical literal in its
place. The others use the array in one of three ways (`use`, chosen by `Init`): as a string
that ends with NUL, through the functions that call `strlen`; as a buffer with a
length variable that it passes to, and lets be updated by, the functions on
substrings; or in pieces, with any length at any call. `BorrowedIsCanonical` is
about the first two: whatever canonizes in place, shortens or fails, the text that
a view borrows stays canonical, because the next call is given the end that the
last one told. Nothing protects the third: `z_view_keyexpr_from_substr(&v,
"a/**/*", 4)` and then `z_keyexpr_canonize` of all six characters leaves `a/*/**`,
and `v` reads `a/*/`. Programs that mix the string functions with lengths are of the
third kind too, with `strlen` as one of the lengths. `z_keyexpr_concat` and
`z_keyexpr_join` are `Combine`.

### Serialization

A payload as a sequence of bytes. The sender makes it with one
`ze_serialize_xxx` or with a serializer; it then arrives whole, or without its
end (`Truncate`), or it is somebody else's (`Replace`). The receiver reads it
with one `ze_deserialize_xxx`, through a deserializer, or through a
`z_bytes_reader_t`. The formats (fixed-width numbers, a length as a
variable-length integer before slices, strings and sequences) are `zenoh_ext`'s
and modelled as such: a byte has four values and a group of a variable-length
integer one bit, so that lengths need several groups. The eleven arithmetic
types differ in width and name only and are `uint8`, `uint16` and `bool`. `reads`
and `one` are the results the receiver has seen, with what each destination
holds: an owned destination becomes a gravestone on an error, a number is left
as it was, a length becomes 0. Where a failed read or seek leaves the cursor
is open. `VarInt` and `Value` are the two directions of the variable-length
integer, each a recursive function. The constants are assumed to be what a
program can hold: a value is one of its type, its length fits the groups of a
`usize` (`MaxVarInt`), and somebody else's payload consists of bytes.

### ShmClients, Shm

The receiving side of shared memory. A client is a context with `attach_fn`; it
is moved into a list, storages are built from the list and share its clients,
clones share a storage, and a session is opened with one. A runtime thread that
receives a buffer calls `attach_fn` (`Receive`, `AttachReturn`), takes the
segment that it filled in, with a context of its own (`TakeSegment`), and calls
`map_fn` (`MapCall`, `MapReturn`); the received buffer keeps the segment. The
references are not counters in the model: `ClientHeld` and `SegmentHeld` say who
refers to what, and a context is deleted when nobody does. How the runtime
shares segments between buffers is external. Shm joins the two sides: a process
of the run has either the role of a sender (ShmProvider) or of a receiver
(ShmClients); they share no state.

## 3. The runs

`tlc -config X.cfg M` with the module and configuration of the same row.

| Run | Bounds | What it shows |
|---|---|---|
| `session` (MCSession) | an advanced subscriber and its sample miss listener, which the callback may undeclare; one application thread, two runtime threads, the background closer, fairness | Z_OK from undeclare, drop or close means that nothing of the closure is left (`QuietAfterOk`), every registered callback can be stopped by somebody (`NoOrphanCallback`), refinement of ClosureContract (`ImplementsContract`), closures that left the tables are dropped, also after timeouts (`MovedClosureIsDropped`), blocked calls return (`BlockedCallsReturn`) |
| `channel` (MCChannel) | capacity one, two senders, two receivers, three objects, fifo and ring | the context outlives its calls, each object is owned once, a disconnected fifo has lost nothing, receivers wake up, undeclaring completes |
| `channel_loan` | one thread that calls the closure itself | finding, below |
| `sync` (MCSync) | three tasks | the guard slot and the mutex agree, one task in the critical section, no lost wakeup, the mutex is dropped last, somebody gets it |
| `moves`, `moves_querying_get` (MCMoves) | all functions, all subsets of optional fields | every moved argument is consumed on every path; finding, below |
| `shm` (MCShm) | sender: a thread and two spawned requests, one through a layout, one chunk, three kinds of provider, all four policies; receiver: a client, a segment, two storage variables, two storages, two runtime threads | callbacks are serial where they must be, contexts obey the contract, asynchronous allocations complete, contexts are deleted; the contexts of clients and segments obey the contract (`ClientsObeyContract`) and are deleted once everything is released (`ReleasedContextsAreDeleted`) |
| `shm_layout` | a provider that is not thread-safe, with a layout | finding, below |
| `collections` (MCCollections) | programs of four or five variables: a string, a view and two arrays; a slice, a string, two payloads and a writer; views of payloads beside a slice or an array; key expressions, a view of one and a string; the same with an array of two characters, in every spelling, end and use, literal or not; three allocations, two elements, lengths 0 and 1, NULL or not, with or without a deleter | `FreedOnce`, `ReadableIsLive`, `NothingLeaks`; what key expressions borrow of the array stays canonical while others canonize and shorten it in place (`BorrowedIsCanonical`), and literals are not written (`LiteralIsKept`) |
| `serialization` (MCSerialization) | up to two of sixteen values in a payload, cut anywhere; every foreign payload of up to three bytes; three reads; seeks from -3 to 2 | `RoundTrip`, `TruncationDetected`, `NothingInvented`; the cursor stays in its payload (`TypeOK`) |
| `oneshot` (MCOneShot) | two operations, two threads, one runtime thread, one token shared by the queries, timeouts 0 and 1 | `CancelIsQuiet`, `RefusedIsDropped`, `TimeoutIsHonoured`, refinement, `ClosureIsDropped`, `FunctionsReturn` |
| `oneshot_timeout` | a `z_liveliness_get` with timeout 0 | finding, below |

Why these bounds: the properties relate one closure (object, context) to the
threads that can reach it. Two entities give every pair of roles (the one
that undeclares, the one that is undeclared; parent and listener); two
threads, every race of two calls; capacity one makes a queue full and empty
with the fewest elements, and three objects let one wait behind it; three
tasks are needed for a waiter, a signaller and a third that steals the mutex;
in Collections three allocations are an original, its copy and one more; in KeyExpr
two characters are a text and a shorter one, and a third call has to follow the
one that shortens and the one that borrows. In
Serialization two values are a value and what follows it, and three bytes hold
a length of two groups and less than it announces. In ShmClients two
storages share a client, and one of them is cloned; two threads are one that
attaches while the other maps. The run of Session has one pair of entities;
other kinds, more threads, entities in the background and the querying
subscriber, which is undeclared without waiting, are covered by its theorems.
The safety properties of the modules do not depend on the bounds at all:
section 4.

`CHECK_DEADLOCK FALSE` where it is set: the application may simply stop, and
each entity, closure and request is used once, so behaviours end.

Fairness. Runtime threads are scheduled and the functions of closures return
(an application's duty); `drop` functions return; the background closer runs.
In Channel some thread keeps receiving - without it a full fifo blocks its
sender for ever, and the undeclaration with it. In Sync the mutex of the
standard library is not fair, so only `SomebodyGetsMutex` is claimed, not that
a particular task does. In ShmProvider blocking allocations compete without
fairness, so `AsyncAllocCompletes` and `ContextIsDeleted` are stated for
behaviours in which the threads stop allocating, and the application drops its
buffers. In OneShot time passes and timers fire; nothing says that anybody
replies. In ShmClients callbacks return and received buffers are dropped, and
`ReleasedContextsAreDeleted` is stated for behaviours in which the application
ends by holding nothing. No fairness is assumed of the application's own calls.

Every property of a passing run has a mutant in `PROJECT.json`: an operator
marked "Slip" in the module, which changes one definition the way a plausible
mistake in the code would, and under which the property fails.

## 4. The proofs

Checked by TLAPS, for every set of threads, entities, tasks, operations, tokens,
objects, variables and cells. The assumptions are the named `ASSUME`s of the
modules: the sets are disjoint (a variable of the application has one type,
`NULL` is neither static memory nor a cell), the parameters have their types,
`parent` and `MayUndeclare` are well-formed, the default timeout is not 0, a
byte has an even number of values, serialized values have their types and their
lengths fit a `usize`. The invariants stand at the end of the module they are
about, and TLC has checked them on the run of that module. The invariants of
Moves and Serialization, and `Leaving` and `Forgotten` below, are definitions of
the proof modules; TLC has checked all of them but `SerializationInv`, which
quantifies over all ways to lay out a payload and only follows from the proof.

**SessionProofs.** `SessionTypes`, `CallsPrecedeDrop` (`CallNeverOverlapsDrop`),
`OkMeansQuiet` (`QuietAfterOk`), `CallbacksCanBeStopped` (`NoOrphanCallback`),
`SessionImplementsContract` (`ImplementsContract`). The properties are not
inductive by themselves. `SessionInv` adds that whatever is registered or
referenced by a runtime thread is `lent` (`ReferencedIsLent`), that a call that
waits holds what it has removed from the tables (`WaitedFor`), what a
declaration that has not returned yet has done (`PendingDeclare`), and that
entities are registered only while the core of the session is open
(`OpenMeansRegistered`). `KindFacts` reduces the fifteen kinds to what the
proof needs; lemmas on the groups of actions say which part of the state they
can touch. `WaitsOnlyShrink` (`NoNewReference`) is an action property: while a call
is blocked, no runtime thread gets a reference to a closure that it waits for.
It rests on `Leaving`: what is waited for is out of the tables, and its closure is
past the state in which a declaration could register it again.

**OneShotProofs.** `OneShotTypes`, `CancellationIsQuiet` (`CancelIsQuiet`),
`RefusalDropsClosure` (`RefusedIsDropped`), `OneShotImplementsContract`
(`DeliversWithinContract`), `TimeoutsAreHonoured` (`TimeoutIsHonoured`, under the
hypothesis that no `z_liveliness_get` is given a timeout of 0: without it the
property is the finding of `oneshot_timeout`). `OneShotInv` adds that whoever can look up or has
looked up a callback finds it lent (`ReachableIsLent`), what each place in a
function knows (`Executing`: a query that was sent is attached to its token, a
cancellation that waits has cancelled), and that a query that has returned is
attached to its token or over (`ReturnedQueries`). The argument for
`CancelIsQuiet`: a query can be attached only while its token is not
cancelled; a cancellation that returns has seen every attached query dropped;
so a query that returns later was attached before, and dropped, or was never
sent, and dropped in its own scope. `CancellationOnlyShrinks`
(`NothingNewToWaitFor`): while a cancellation waits, no query is attached to its
token and no runtime thread gets a reference to a callback it waits for, so new
queries and late replies cannot prolong it; `Forgotten` says that these queries
are not pending. `Forward` (what no step undoes), `CallStep`
(how a thread can move) and `RunningSteps` keep the case analysis short.

**SyncProofs.** `GuardSlotIsConsistent`, `MutexExcludes`, `WakeupsAreKept`,
`MutexIsDroppedLast`, all from `SyncInv`, which ties the place of each task to
the owner of the mutex and to the guard slot.

**ShmProofs**, about ClientSpec for the receiving side, and about ShmSpec, where
senders and receivers share a program.

`ClientTypes` and `ClientsImplementContract` (`ClientsObeyContract`). `delete_fn` of
a client or segment may start only when nothing refers to it, so the proof has
to show that a thread that is about to call `attach_fn` or `map_fn` refers to a
context that is still lent. `ClientInv` says so: what a variable, a list, a live
storage or a thread holds is lent (`HeldClientsAreLent`, `KeptSegmentsAreLent`,
`MappedSegmentsAreLent`), and a segment that `attach_fn` has filled in and the
runtime has not taken yet belongs to one thread only
(`FilledSegmentsAreOwned`). `MapperMoves` covers every step of a thread that
changes its own place only; `NoCall`, `CallStarts`, `CallEnds` and `ContextStep`
are the ways a step appears in the contract.

`ShmClientsImplementContract` carries this over to ShmSpec: a step of the
provider leaves the receiving side alone. `DynamicCallbacksAreSerial`
(`CallbacksAreSerial`), `NoChunkIsLost` (`ChunksAreConserved`) and
`ProviderImplementsContract` (`ContextsObeyContract`) are the other half.
`ProviderInv` says that the context of a request is lent from the call that
moved it until its task is over (`RequestsHoldContexts`), that the provider's own
context is lent as long as anything can reach the backend
(`ProviderOutlivesUse`), that a provider that is not thread-safe has one user
and no asynchronous one (`OneUser`), and that every chunk is free, garbage or
behind one buffer, which whoever is to get a buffer does not hold yet. The
last one is a result of its own and has no run.

**ChannelProofs.** `SendsUseLiveContext` (`ContextIsLive`), `ObjectsAreOwnedOnce`
(`OwnedOnce`), `DisconnectionIsFinal` (`DisconnectedIsFinal`). `OwnedOnce` counts
the places an object is in, which an induction cannot use; `ChannelInv` says
the same with quantifiers (`Sending`, `Queued`, `Received`: never two of them, one of
them or freed, `OnePlace`; no two senders, receivers or positions of the queue
have the same object, `NoDuplicates`), and the count follows in the end
(`AtMostOne`). `ClosureOwnsContext` ties the box of the sending end to the
variable that owns the closure, `VariablesInUse` the variables to the calls that
use them. The queue is handled by lemmas on appending to and taking from a
queue of distinct objects.

**CollectionsProofs.** About KeySpec, the specification the
`collections` run checks: programs with any number of slices, strings, views,
arrays, payloads, writers and key expressions. `CollectionTypes` (`TypeOK`),
`MemoryIsFreedOnce` (`FreedOnce`), `MemoryIsNotLeaked` (`NothingLeaks`),
`ReadsAreLive` (`ReadableIsLive`), `BorrowedTextIsCanonical`
(`BorrowedIsCanonical`), `LiteralsAreKept` (`LiteralIsKept`). First come the lemmas
on the operations of Collections, one per operation or constructor, then those
on key expressions, and the theorems. `CollectionsInv` has three parts:

* `CellsAreOwnedOnce`: a cell is live if and only if a slice, an element of an
  array or a payload runs its deleter, and it is one slice, one element or
  some payloads that share it. This is `FreedOnce` and `NothingLeaks` with
  quantifiers in the place of a sum of cardinalities (`CountOwners`).
* `PlacesAreCoherent`: a place with a deleter frees the memory that it shows; one
  without shows static memory or somebody else's cell, and then it is a view,
  an alias in an array, or a key expression.
* `BorrowsAreSecured`: why such a cell is live. It is not enough that the
  borrower lent from its owner: a view may come from an alias in an array, that
  from a view of a key expression, and so on, and aliases can go in a circle.
  `Secured(L, c)` therefore says that every set of variables that contains L and
  all that its members borrow from has an owner of c in it. The application
  keeps what is lent; so the variables that are still there are such a set,
  whatever was dropped (`LoansHold`), and the owner is among them.

An operation on payloads does one of three things to a cell (`CellMoves`):
nothing, a new cell gets its first payload, the last payload lets go; so
clones, appends and moves, which pass shared slices around, need one lemma
(`PayloadInv`). The clone of an array numbers its new boxes by counting; `Ranks`
shows that this numbers the elements that are not empty from 1 without gaps.
`KeyInv` adds that a key expression that holds something holds text, and, of one that
borrows the array in a program that uses it as one text, that it borrows all of it:
up to `static.end`, where the text is canonical (`Fits`). That is inductive where
`BorrowedIsCanonical` alone is not: a rewriting spares only the prefix it was given,
so the length it is given must be the one that was borrowed (`Canonized`).

**MovesProofs.** The run goes through a fixed list of functions; the proof says
what it is about them that makes it right. `Consumes(f)`: f takes each of its
arguments at some step, and every exit clears what a later step would still have
taken. `ConsumersLeaveNothing`: a program of functions with this discipline,
whichever they are, leaves nothing behind (`MovedArgumentsConsumed`). The
invariant is `MovesInv`: an executing function still has to take whatever is left
in its arguments. `MovedIsConsumed` shows the discipline of each modelled function
but `ze_querying_subscriber_get` (the hypothesis `"querying_get" \notin Functions`),
which does not have it: that is the finding of `moves_querying_get`.

**SerializationProofs.** For any width of a byte, any values of any length, any
number of them in a payload, and any foreign payload: `SerializationTypes`
(`TypeOK`: the cursor stays in its payload), `RoundTrips` (`RoundTrip`),
`TruncationIsDetected` (`TruncationDetected`), `NothingIsInvented`
(`NothingInvented`). The format itself is `zenoh_ext`'s, so the theorems are about
what the functions of `serialization.rs` and `zbytes.rs` make of that format.

* Recursive functions. There is no induction rule to cite, so facts are proved on
  a smallest counterexample, which `LeastNatural` gives from the well-foundedness
  of the natural numbers. A recursive definition is an equation only if some
  function satisfies it: `Recursion` shows that one does whenever the body looks
  at smaller arguments only, and `VarIntDefined` and `ValueDefined` apply it.
* The format of one value. `Framed`: only the last group of a `VarInt` is below
  the mark; `ValueOfVarInt`: reading a number's groups gives the number. From these,
  with anything following a value: decoding gives it back and uses exactly its
  bytes (`DecodeWhole`); of less than its bytes, decoding fails (`DecodeCut`); of
  arbitrary bytes, it fails or gives a part of them (`DecodeWithin`).
* A payload of several values. `Laid` gives every value its offset, which turns
  the concatenation into quantifiers; `Sent` relates what has arrived, whole or
  cut, to what was written; `Match` relates the reads made so far to the values
  and the cursor to an offset.
* `SerializationInv`: the serializer has written the encoding of its values
  (`Writing`), the payload consists of bytes and is what was sent, or a beginning
  of it (`Holding`, `Delivered`), no results without a cursor (`Waiting`), the cursor
  stands in the payload (`Placed`), and each result is one that the bytes justify
  (`Called`, `Asked`). Of a foreign payload (`Replace`) nothing is known but its
  bytes; `NothingInvented` is what holds of it as well.

Only model-checked: liveness (`MovedClosureIsDropped`, `BlockedCallsReturn`,
`RecvEndsWithChannel`, `UndeclareCompletes`, `SomebodyGetsMutex`,
`AsyncAllocCompletes`, `ContextIsDeleted`, `ClosureIsDropped`, `FunctionsReturn`,
`ReleasedContextsAreDeleted`), since the prover does not reason about fairness
and ENABLED. `WaitsOnlyShrink` and `CancellationOnlyShrinks` are the part of
`BlockedCallsReturn` and `FunctionsReturn` that is safety: the runtime does not give
a blocked call more to wait for; that what is left goes away is fairness.

## 5. Findings

* `channel_loan`: a channel's closure empties a variable that was only lent to
  `z_closure_xxx_call`, against `docs/concepts.rst:252`.
* `moves_querying_get`: `ze_querying_subscriber_get` never takes the
  cancellation token of its options, against `docs/concepts.rst:127` and
  `get.rs:293`.
* `shm_layout`: a refused `alloc_async` through a layout never runs `delete_fn`
  of the context it was given, against `context.rs:79`.
* `oneshot_timeout`: `z_liveliness_get` gives a query with `timeout_ms = 0` no
  time at all, against `liveliness.rs:231`. The run takes the runtime to read a
  duration of 0 literally.

Met while modelling, without a run of their own: `z_string_copy_from_str` and
`z_view_string_from_str` return 0 for NULL, since `strlen_or_zero` makes the
length 0, where their comments (`collections.rs:674`, `collections.rs:736`)
promise -1; `z_internal_string_check` is FALSE for an empty string that still
has a deleter, which is not the gravestone its comment speaks of
(`collections.rs:622`); `z_keyexpr_clone` of a view yields an owned variable that
still borrows (`keyexpr.rs:628`), where declaring entities uses
`clone().into_owned()` (`publisher.rs:92`) - the model's application keeps the
memory for as long as the clone lives; `z_shm_client_storage_new` and the two
declarations of event listeners leave the variable unwritten on an error.

## 6. What is not modelled, and the plan

Not modelled, and not planned: routing, discovery and the wire protocol (the
runtime's), the contents of samples, queries and configurations, logging,
clocks, random numbers, code generation. Layout conversions between C and Rust
types (`transmute.rs` beyond taking and moving) have no state.

The type invariants of Channel, Sync and ShmProvider are not listed with a run;
each is part of the inductive invariant that is proved of its module. Also not modelled:
`shm/cleanup.rs`, one call into the operating system; configuration and
encodings, which convert values to and from the runtime's types; comparison,
inclusion and intersection of key expressions, which are answered by the
runtime.

What would come next:

1. A composition of Session and Channel: a subscriber whose closure is a
   channel, undeclared from a thread that also receives.
2. For the other liveness properties, the part that is safety, as for
   `WaitsOnlyShrink`.
