# A verification project for CrashRealm

The repository is a small iOS application that reproduces a crash,
`pthread_mutex_destroy() failed` (`src/Crash_demo.log`), together with the
sources it is built from: the author's schedulers (RxScheduler), support
libraries (RxCoreComponents, RxFoundation), and Realm 3.21 (Objective-C binding
and ObjectStore in source, the storage core as headers and a binary library).

This directory holds TLA+ modules for the parts whose behaviour depends on
several threads, and for the algorithms that compute what a notification tells
its receiver, the TLC configurations that check small instances of them, and
TLAPS proofs for instances of any size. The model of the application leads, in
the run `app_mutex_destroy`, to the crash that the repository was made for.

## Inventory

Paths are relative to `src/Example/`; `OS` is `Pods/Realm/Realm/ObjectStore/src`.

| Component | State | Operations | Interacts through | Status |
|---|---|---|---|---|
| RxViewController (`CrashRealm/RxViewController.m`) | two arrays of tokens, 4 + 4 schedulers, conversation ids | timer tick, `__startJob:`, `__notifyJob:`, `__doJobWithCID:`, writers' jobs | `schedule:`, `addNotificationBlock:`, release of tokens on any thread | `RxViewController` |
| CollectionNotifier, NotificationToken (`OS/impl/collection_notifier.cpp`) | callbacks with accumulated and packaged changes, loop index and bound, error and run flags | add, remove, suppress, package, before/after_advance, deliver_error, prepare_handover | `m_callback_mutex`, user callbacks called unlocked | `CollectionNotifier` |
| RealmCoordinator, notification pipeline (`OS/impl/realm_coordinator.cpp`) | notifier lists, skip version, async error, condition variable | run_async_notifiers, commit_write, wait_for_notifiers, advance_to_ready/latest, promote_to_write | `m_notifier_mutex`, `m_notifier_cv`, run-loop signals | in `CollectionNotifier`, for one notifier |
| Realm (`OS/shared_realm.cpp`) | read version, write transaction, binding context | begin, commit, cancel, notify, refresh | coordinator | the part a notifier sees |
| Table accessors (`Pods/Realm/include/core/realm/table.hpp`, `column_table.hpp`) | reference count, interning map, mutex | bind_ptr, unbind_ptr, get_subtable_accessor | atomics, map lock | in `RxViewController` |
| RxRunLoopScheduler, RxSchedulerToken (`Pods/RxScheduler`) | semaphore, run loop, keep-alive source, timers | init, schedule, after, repeat, cancel, dealloc | semaphore, run loop queue, GCD | `RxRunLoopScheduler` |
| IndexSet (`OS/index_set.cpp`) | chunks of ranges with bounds and cached counts | add, remove, insert_at, erase_at, shift, count, and their forms for sets | used by the change sets | `IndexSet`, which implements `IndexSetSpec` |
| CollectionChangeBuilder (`OS/impl/collection_change_builder.cpp`) | deletions, insertions, modifications, moves | insert, erase, move, swap, move_over, subsume, merge, parse_complete, calculate, finalize | called by the log's observer and the notifiers | operators of `CollectionChangeBuilder`; `calculate` and its helpers in `CalculateChanges` |
| Notifiers of lists, results, objects, and the observer of the log (`OS/impl/*_notifier.cpp`, `transact_log_handler.cpp`) | previous rows or size, change of the log, accumulated change of the callback | log entries, run, add_changes, package | transaction log | `ListChanges`, `ResultsChanges` |
| SyncSession, SyncManager, SyncUser (`OS/sync`), and the token requests of the binding (`Pods/Realm/Realm/RLMSync*.mm`) | session state, waiters, registration, user state, refresh handle | get_session, drop, log in/out, suspend, resume, reconfigure, wait, commit, token, errors, client resync | three mutexes, event loop of the sync client, completion callbacks | `SyncSession` |
| Realm and schema caches, external commit helper | caches, pipe | | | planned |
| RxQueueScheduler, RxCoreComponents (RxMultipleDelegate, RxLock, RxActionWhenIdle, RxSharedObjectsCache) | | | | planned |
| Schema translation, queries, RxFoundation, libextobjc | | | | not planned, see below |

What is hard here:

* Tokens are dropped on any thread, so `remove_callback()` runs in the middle of
  the delivery loop of another thread, and what a callback keeps alive (arrays,
  Table accessors of another thread's Realm) is freed on the wrong thread.
* Changes are computed on a worker for one version and delivered to a Realm at
  another, and are handed over in lock sections between which anything happens.
* Waiting threads, the worker and run loops signal each other; a missing signal
  is a hang or a silent loss.
* A change set is positions in a list that other changes have since renumbered:
  logs with deletions by last-over, swaps and moves, merged over several
  transactions, must still tell the callback the truth.
* A sync session releases its mutex in the middle of most operations, and the
  manager, the user, the event loop and the application all drive it.
* A scheduler is usable before the thread behind it exists, and may be freed on
  that thread.

`PROJECT.json` lists the hazards, each at its line, with the properties for it.

## The modules

### CollectionNotifier

One notifier, the target thread (that owns the collection), the worker, and
every other thread that may drop a token. The variables that begin with `m_`
are the fields of the same name. `phase` is the place of the target thread:
`idle`, `check`/`waiting`/`recheck` in `wait_for_notifiers()`, `before` and
`after` in the two loops of a delivery, `errorCount`/`error`/`errorNext` in
`deliver_error()`. A section under a mutex is one action; a callback runs
between two actions (`running` is its token), so that other threads' actions
interleave with it. A change set is the set of versions that made it: the
properties speak of lost, repeated and early changes and not of row indices.
`size_t` is `0..SizeMax` with wrap-around, and `SizeMax` is `npos`.

`held`, `packagedBelow`, `born`, `first`, `seen`, `dropped`, `hushed` are
history variables: no guard of the code's steps reads them, except that
`Allowed` (below) restricts the environment with them.

`Allowed` names what the environment may do beyond the plain case: drop a token
in the delivery that made it, drop one in the unlocked part of `deliver_error()`,
write inside callbacks, fail commits, fail to open the worker's file, destroy
the collection, commit from a Realm with idle notifiers, and add a callback
after a stale check. All of these are possible in the program. They are
switches because several lead to a disagreement with a comment or a doc, described below, and would hide what holds otherwise.

### RxRunLoopScheduler

One scheduler, made with its own thread (`nil`), the run loop of the calling
thread or that of another. `TurnstileWait`/`TurnstileSignal` are the pair that
opens `schedule:`, `after:` and `dealloc`. `ScheduleAsync` and `ScheduleWake`
are apart because the loop may act between them, as are `TakeBlock` (which tests
the token) and `RunBlock`. CFRunLoop, NSTimer, GCD and reference counting are
external: the loop takes its blocks in order, sleeps without blocks until woken
and ends when nothing keeps it; an object is freed by whoever drops the last
reference (`HasReferences` lists them).

### RxViewController

The application for one conversation, with the parts of Realm that decide how
long its objects live. Every scheduler thread has a Realm of its own, in which
one Table accessor for `messageIDs` is interned (`messageIDs` is an array of
strings, so `List` takes it from `get_subtable`). A store to an instance variable
is a load (`LoadSlot`) and a store with the release of what was loaded
(`StoreSlot`); nothing keeps the stores of two threads apart, so a token may be
released twice and another never (as ARC's `objc_storeStrong` does under such a
race). A token released once too often is not modelled further: what its freed
memory is used for next is outside the model. The last release of a token removes its callback and, unless a
delivery has copied it, frees the array and unbinds the accessor on that thread
(`Unbind`, `UnbindLocked`). `AdvanceRealm` is the temporary reference that
`get_subtable_accessor` takes when the Realm's own thread advances. An accessor
that was deleted already is freed memory: what `unbind_ptr` reads from it is a
free choice. Schedulers appear as queues and deliveries as steps of an idle run
loop; the two modules above have their detail.

### IndexSetOps, IndexSetSpec, IndexSet

`IndexSet` is the C++ class as it is stored: `m_data` is a sequence of chunks,
each with at most `max_size` ranges, its bounds and a cached count, and an
iterator is a pair of positions. Every public operation is a call, with any
arguments below the bounds, that runs the algorithm of the source on the chunks
(split, merge, erase of empty chunks, the two builders that merge two sets).
`IndexSetOps` says in a line or two each what the operations mean for sets of
numbers, `IndexSetSpec` is the abstract object made of them, and the property
`IsASet` is its specification under the mapping of `indexes` to the indices in
the ranges: every call has the effect and the result of the set operation.
`Verified` is the class's own `verify()`. The modules below use `IndexSetOps`,
which the refinement justifies.

### CollectionChangeBuilder, CalculateChanges, ListChanges, ResultsChanges

`CollectionChangeBuilder` has the operations of the builder on records of
deletions, insertions, modifications (per column too) and moves, and
`CalculateChanges` the static `calculate()`, which compares two lists of rows. `ListChanges`
drives it with the log of a list, of links or of values: each log entry is an
action that changes the list and calls the builder as `TransactLogObserver`
does, `RunNotifier` ends a transaction and completes the change set, and the
merge into `accumulated_changes` makes transactions pile up until `Deliver`.
`ResultsChanges` does so for a table whose rows a query finds, sorted or in table
order, and for a single object. The model gives rows identities, which the code
does not have: it compares what the callback would believe with what is there.

`find_longest_match` breaks ties by a count of modified rows that starts inside a
chunk, and mixes up an end and a start in it (`collection_change_builder.cpp:673`).
`CountModified` counts exactly. `count()` does so while one chunk holds all ranges
(up to 256 of them, 4 in debug builds), which is so for the rows of the run; with
more it may count less (`index_set.cpp:295`). The count decides which of several
equal matches is taken and not whether the result is right. `:700` compares with `end2` where `end1` is meant; `ResultsReplay` holds
all the same, because rows are matched once.

### SyncSession

The `SyncSession`s of one Realm file, the entry of the path in
`SyncManager::m_sessions`, the `SyncUser`, the refresh handle of the Objective-C
binding and the `sync::Session` of each, for threads of the application (and of
its network client) and the event loop of the sync client. A session that the
manager has dropped lives on as long as a refresh handle or a thread holds it,
next to the one that takes its place; so sessions are numbered objects, and
`registered`, `user.sessions`, `handle.of` name one of them. `Alive` is what the
weak pointers ask.

The four states of the source are values of `m_state`; `state_close`,
`state_log_out`, `state_revive`, `state_refresh` and `state_notify` are the virtual
functions of the state, by cases. A section under `m_state_mutex` is one step; the
record's `next` and the thread's `todo` say what the thread does after it has
released the mutex: unregister, bind, call callbacks, restore them. Between these,
others act. Nothing keeps operations apart but the two mutexes that are held across
steps (`HoldsSessionMutex`, `HoldsUserMutex`). A few places where the order counts:

* `suspend`, `resume` and `wait_for` only need an `RLMSyncSession` whose weak pointer
  can be locked (`Reachable`): no reference, no user.
* `commit_write` commits, reads the latest version and notifies in three steps, so
  versions may arrive in another order than they were committed.
* `unregister_session` looks the path up, and locks the session's external reference
  while it looks at it; the reference may be the last one when it lets go
  (`release_reference`).
* `logOut` is `SyncUser::log_out`, under the user's mutex, and then
  `invalidate_all_handles`, without it.
* A token request succeeds (and sets the timer of the next one, or not), is retried
  after a network failure without holding the session, is refused, is reported by
  logging the user out, or has an answer that cannot be read: then the handle goes
  and nobody is told (`request_failed`).
* errors are those `handle_error` tells apart; it asks the state in one section and
  acts in another.

`advance_state()` and `unregister_session()` set `failed` where the code asserts; a
failed session ends the behaviour, as an assertion does.

## The runs

Passing runs (each ends with no error; the systems may legitimately come to
rest, so deadlock is not checked in those of the first three components nor of
the sync sessions; the others check it. The sync sessions really deadlock, too,
see `NoDeadlock` below):

| Run | Instance | Shows |
|---|---|---|
| `notifier_changes` | 2 callbacks, 3 commits, plain environment | `ChangesAccountedFor`: from its first call on, a change is with a callback exactly once; `InSyncWithSnapshot`: a called callback knows exactly the changes its Realm shows; `SkipVersionIsAhead`; `OnlySuppressedDropped` |
| `notifier_loop` | 3 callbacks, 1 commit, every behaviour but the two early releases | `TypeOK`, `CountIsPackaged`, `IndexTracksRunning`, `HaveCallbacksExact`, `HeldTokensAreFound` |
| `notifier_liveness` | 2 callbacks, 2 commits, fair | `WokenCallbacksAreCalled`, `ChangesReachCallbacks`, `WaitEnds` |
| `scheduler` | 2 calling threads, 2 calls, all kinds of run loop, fair | `TypeOK`, `TurnstileIsOne`, `NobodyPassesEarly`, `DeallocDoesNotBlock`; liveness, for its own or its creator's run loop: `ScheduledBlocksRun`, `CallsReturn`, `ThreadEnds` |
| `app_jobs` | 3 schedulers, 3 ticks, stores that overlap in any way | `TypeOK`, `ConversationFound`, `StoredTokensLive`: the token in a variable is retained and registered, `ArraysKeepTheirTable` |
| `index_set` | 2 ranges per chunk, indices to 6, arguments to 4 | `Verified`; `IsASet`: the chunked vector implements `IndexSetSpec` |
| `list_changes` | 3 entries, at most 4, 4 log entries in any number of transactions, links or values | `ChangesReplay`: deletions and insertions turn the list the callback knows into the present one, and moves join the places of one entry; `ModifiedAreExact` |
| `results_changes` | 3 rows, 2 sort keys, 3 log entries, sorted or not | `RowsAreFollowed`: every row of the table is found where the log has left it, and the assertions of `parse_complete()` hold (`MappedRowsMoved`); `ObjectChangesAreExact`; `ResultsReplay`: the same for results, with their modified rows |
| `sync_session` | 1 thread and the loop, 2 sessions, 1 waiter, 2 commits, 4 calls or errors, fair | `TypeOK`; `ReferencedIsRegistered`: the session a Realm holds is the one the manager finds; steps: `CalledOnce`, `ClosedAfterUpload`; liveness: `WaitersAreCalled`, `DyingSessionsClose` |

Runs that end in a violation, each a disagreement between the code and a doc, a
comment or an assertion of the repository, quoted in `PROJECT.json`:

| Run | Property | What happens |
|---|---|---|
| `app_mutex_destroy` | `MutexDestroyedOnce` | One thread decrements an accessor's count to zero; before it takes the lock, the Realm's own thread binds and unbinds the accessor and deletes it; then the first deletes it again. |
| `sync_orphan` | `UnregisterFindsSession` | A session is dropped before its token arrives; the request keeps the object alive, `resume` revives it, and it is unregistered a second time when it goes down. No two operations overlap. |
| `sync_drop` | `ReferencedStaysOpen` | The last reference is dropped while `get_session()` has revived the session and not yet taken the new reference. |

### What other constants show

Each of the following takes TLC seconds (the last one half a minute), with the
configuration of the named run changed as said; an invariant that is named is
checked in place of the run's properties:

| Run and change | Refuted | What happens |
|---|---|---|
| `notifier_loop`, `lateRelease` in `Allowed` | `CountIsPackaged` | A token made and dropped inside one delivery lowers the bound of the loop, and a packaged callback is missed (`collection_notifier.hpp:240`). |
| `notifier_loop`, `racyError` in `Allowed` | `CountIsPackaged` | The unlocked read of the size in `deliver_error()` is stale when stored (`collection_notifier.hpp:226`). |
| `notifier_changes`, invariant `SuppressedNotDelivered` | itself | The worker uses `skip_next` up between the suppression and the commit (`RLMRealm.h:269`). |
| `notifier_liveness`, property `InitialCall` | itself | A callback added inside a delivery is not called until something else happens (`RLMCollection.h:194`). |
| `index_set`, `LateChunks = TRUE` | `Verified` | A chunk the builder adds late has the count 1 whatever its range (`index_set.cpp:244`). |
| `index_set`, `MaxStart = 3` | `IsASet` | `count()` from inside a chunk leaves a part out (`index_set.cpp:295`; `index_set.hpp:144` says what it should count). |
| `list_changes`, `DeleteAfterChanges = TRUE` | `ChangesReplay` | A list changed and deleted in one transaction is told with its insertions left in (`list_notifier.cpp:75`). |

| `sync_session`, invariant `AdvanceChangesState` | itself | The event loop asks the state and decides to take the session down, a `suspend` or a log out does so first, and the loop enters `Inactive` again (`sync_session.cpp:764`: "REALM_ASSERT(&state != m_state);"). |
| `sync_session`, invariant `NoCallbackIsLost` | itself | A client resync puts callbacks back, without the lock, over one that was registered meanwhile (`sync_session.cpp:503`; `:485` calls the resync "transparent to the user"). |
| `sync_drop`, invariant `NoDeadlock` | itself | `get_session()` takes the manager's and then the user's mutex, a log out the user's and then the manager's (`sync_manager.cpp:464`, `sync_user.cpp:163`). One thread and the event loop suffice with the configuration of `sync_session`: `unregister_session()` drops the last reference under the mutex it needs for it (`sync_manager.cpp:503`). |
| `sync_drop`, invariant `LoggedOutIsDown` | itself | Open, log out, `resume`, with no overlap (`include/sync/sync_user.hpp:92`: "This will also close its associated Sessions."). |
| `sync_drop`, `MaxVersion = 2`, `MaxCalls = 4`, invariant `CommitsAreAnnounced` | itself | Two commits while the session waits for a new token: the older version replaces the newer deferred one (`sync_session.cpp:186`, read unlocked at `realm_coordinator.cpp:524`), and the last commit is not announced (`:185`: "Notify at first available opportunity."). |

The other switches of `Allowed`, set in the configuration of the run that checks
the property, show more of what the code does; each takes TLC seconds:

* `nestedWrite` (five commits) refutes `ChangesAccountedFor`: after a write inside
  a callback, `advance_to_ready()` discards changes as out of date, which its
  comment expects only after a call of `begin_read()`.
* `failedCommit` refutes `OnlySuppressedDropped`: `skip_next` outlives a commit
  that threw, and the next change of anybody is dropped.
* `idleNotifier` refutes it too: a Realm whose notifiers have no callbacks does
  not wait before it writes, and its commit overwrites the only skip version.
* `openFails` and `unregister` refute `WaitEnds`: a pass of the worker that ends
  early notifies the run loops and not `m_notifier_cv`.
* `ChangesAccountedForSinceAdded` fails without any switch: what is computed
  before a Realm's first delivery may be discarded. The initial call of a
  collection's block makes up for it; an object's block has none.

### Bounds

`MaxToken`, `MaxVersion`, `MaxCalls`, `MaxTicks` cap the counters. Two callbacks
are enough for one to be called while another waits, three for one to be removed
on either side of the one that runs. Three commits give a suppressed one, one
before and one after it. Two calling threads
and the loop's own meet in the turnstile in every order, and a block may schedule
another. Three jobs on three schedulers let two stores overlap
with a third that replaces what one of them has stored, and an accessor be deleted,
made anew and dropped again.
Two ranges per chunk make every
second insertion split a chunk, and six indices give sets of up to four ranges in
several chunks. Four log entries are two transactions with a move and a change
of it in each; three rows are the least for a deletion by last-over that moves a
row over one that stays. Four calls let a session be created, dropped, revived, and logged out or replaced by
a second one, or fail between any two of these, or close twice with the handler of the
first close still on its way. One thread of the application meets the event loop, which
completes, fails, unregisters and restores, in every step of its own operations; what
more threads do to the safety properties but `CalledOnce` the proofs settle, for any
number. With two threads, two waiters, one session and one commit the safety properties
also hold (2.9 million states, some minutes), and with two threads, one waiter and three
calls the liveness properties (107,089 states).
`SchedulerSymmetry` is used in the two runs of the application, which check invariants
only.

### Fairness

* Notifier: weak fairness of the worker, of the target thread (its run loop
  serves signals, callbacks return) and of ending a write transaction. Users are
  never obliged to add, drop, begin or commit anything else.
* Scheduler: weak fairness of each thread and of GCD's blocks; strong fairness of
  passing the semaphore (a dispatch semaphore serves its waiters in turn) and of
  taking a queued block (each turn of a CFRunLoop performs its blocks as well as
  its timers); weak fairness of a one-shot timer. Nothing is assumed of repeating
  timers or of users. The liveness properties leave a run loop of another thread
  out (`Attended`): `init` queues the signal without waking that loop, so callers depend on
  what else wakes it, and the repository neither does this nor says what it
  should do.

* Sync session: weak fairness of each thread inside an operation (`Continues(t)`), of
  the answer to a token request (`Refreshes`), of completion handlers and of the
  upload. Timers, retries, calls of users and errors are not obliged to happen. A
  waiter may wait for ever where the code has no step that would go on (`Stuck`): its
  session is down, waits for a token nobody has asked for, or its `sync::Session` has
  stopped with an error.

`ThreadEnds` excepts a timer that was cancelled: a loop that sleeps until the
date of a timer need not notice that the timer was invalidated.

## The proofs

`CollectionNotifier_proofs` proves for every number of callbacks and commits,
every width of `size_t` beyond them and every `Allowed`:

* `TypeCorrect`: `Spec => []TypeOK`.
* `LoopKeepsItsPlace`: `Spec => []IndexTracksRunning`, and `HaveCallbacksIsExact`.
  Neither is inductive. `LoopInv` adds that tokens increase along the vector and
  stay below `m_next_token`, that a running token was handed out (`PositionInv`),
  and that outside a delivery the index is `npos` and nothing runs (`AtRest`).
  Increasing tokens turn a statement about positions, which every erasure shifts,
  into one about tokens, which none does. `HaveCallbacksExact` needs it because
  `add_callback()` sets the flag only when the index is `npos`: inside a delivery
  it is right only because erasing the running callback at offset 0 wraps the
  index to `npos`.
* `DeliveryVisitsThePackaged`: `Spec => []CountIsPackaged`, under the assumption
  `OrderlyRelease` that the two early releases do not happen. With either
  (`lateRelease`, `racyError`) TLC refutes it, so the assumption is needed. `CountInv` adds the state between the count and its store
  in `deliver_error()`.
* `FindCallbackSucceeds`: `Spec => []HeldTokensAreFound`, by `HeldInv`, which adds
  that held tokens were handed out and that the error loop runs only with
  `m_error` set.

Its second half goes on to the changes themselves, again for any number of
callbacks and commits:

* `WorkerAdvances`: `Spec => []SkipVersionIsAhead`, in every environment.
  `VersionInv` adds that the worker is not ahead of the file and that a skip
  version which waits is ahead of the pass under way as well as of the worker.
* `OnlySuppressedAreDropped`: `Spec => []OnlySuppressedDropped` under
  `OrderlyWrites` (no `nestedWrite`, `failedCommit`, `idleNotifier`). A flag
  `skip_next` is set in one transaction and used in a pass of another thread, so
  the invariant has to say that the next change the worker sees is the one that
  asked for it. `WriteInv`: while a write transaction is open, all callbacks are
  packaged for the newest version and nothing has accumulated since, which is what
  `begin_transaction()` waits for. `SuppressInv`: a callback that is to skip has
  nothing accumulated, and the commit it is to skip is still to come, or is the
  skip version, or the one at which the pass is about to stop (`AboutToSkip`).
* `ChangesAreAccountedFor`: `Spec => []ChangesAccountedFor`, and `CalledAreInSync`:
  `Spec => []InSyncWithSnapshot`, under `OrderlyCallbacks` (no `lateRelease`, no
  `nestedWrite`). `ChangesInv` has six facts about each callback: each change is
  with it exactly once (`Accounted`); nothing stays packaged between deliveries
  and a called callback takes part in each (`Emptied`); a delivery to version
  `local` parts the changes at `local` (`Parted`); the loop leaves nothing packaged
  behind it (`Visited`); the Realm is ahead of the worker by its own commit at most
  (`UpToDate`); nothing is told that it does not show (`Shown`). They rest on
  `SnapshotInv` (what is packaged is for the version the Realm goes to), `LedgerInv`
  (nothing is known of versions the worker has not reached), `PassInv` and
  `FreshInv` (a notifier that never ran has called nobody) and `CountInv`: a
  callback the loop missed would keep its packaged changes and see them twice.

None of these hypotheses can be dropped: with a switch that it excludes, TLC
refutes the property (the tables above; `lateRelease` refutes `ChangesAccountedFor`
and `InSyncWithSnapshot` as well).

`RxRunLoopScheduler_proofs` proves for any number of callers and calls, on each
kind of run loop:

* `TypeCorrect`: `Spec => []TypeOK`.
* `TurnstileIsKept`: `Spec => []TurnstileIsOne`. `StartInv` follows the handshake: the
  thread's entry queues one signal, nothing else does, and the setup block gets
  behind its wait only when the loop has performed it. `GateInv` is the turnstile
  without a cardinality: at most one is inside, a call is past it only when it is
  open, and the semaphore is 1 exactly when it is open and nobody is inside.
* `RunLoopIsFilledIn`: `Spec => []NobodyPassesEarly`, and `DeallocPasses`:
  `Spec => []DeallocDoesNotBlock`, by `LifeInv`: a loop that runs is known to the
  scheduler until `dealloc` has forgotten it, and once `dealloc` has begun nothing
  refers to the scheduler, so nobody can be inside the turnstile it waits at.
`RxViewController_proofs` proves for any number of schedulers and ticks:

* `ConversationIsFound`: `Spec => []ConversationFound`. `FlipInv` says that a flip is set only after the one block that reads it has
  run; so no reset is ever scheduled.
* `TypeCorrect`: `Spec => []TypeOK`. That
  `m_ref_count` and the number of deletions stay in their ranges is not a matter of
  types; it follows from `TableInv`.
* `ArraysKeepTheirTables`: `Spec => []ArraysKeepTheirTable`. `JobsInv` and `QueueInv`: a job is queued once and run by one thread.
  `TokenInv`: a callback is registered while its token has references, and until a
  job stores its token nobody else can drop it. `TableInv`: the reference count of
  an accessor is the number of arrays that use it and of `unbind_ptr()` calls that
  have not decremented it yet; a deleted accessor has neither. So the second deletion
  of `app_mutex_destroy` hits an accessor no array uses any more: the flaw is in
  `unbind_ptr()` itself and not in how the application holds its arrays.
* `StoredTokensAreLive`: `Spec => []StoredTokensLive`, by `ShareInv`: a token in its
  variable has exactly the references of the variable and, until its job has cleared
  it, of the array in which the job made it (`StoredInv`), and one that its job has not
  stored yet has that of the array (`EarlyInv`). A store releases what it has loaded, which is no longer in the
  variable once the store is done, and a token is stored once: so what is released
  twice, or never, was overwritten.

`SyncSession_proofs` proves for any number of threads, waiters, sessions, versions and
calls, with no restriction on what overlaps:

* `TypesAreKept`: `Spec => []TypeOK`. That a session which is up has its
  `sync::Session` (`Driven`, which `wait_for_completion()` asserts) and that no version
  is announced before it is committed are part of it.
* `ReferencedAreFound`: `Spec => []ReferencedIsRegistered`. `RefsInv` adds that a thread
  which is about to take a reference is inside `get_session()`, so that it holds the
  manager's mutex, and that its session is the registered one (`Refers`); nobody else
  can then unregister it.
* `ClosesAfterUpload`: `Spec => ClosedAfterUpload`, a property of steps. `Awaits` says of
  each session that the handler which carries the `death_count` of a dying session is
  one that no termination has set off, and is for what the session has announced, and
  that handlers of earlier closes carry less.

The invariant is `Inv == SessionsInv /\ TodoInv /\ OthersInv /\ RefsInv`: the sessions
with `Awaits`, the threads' lists, the other variables, and the references. Each
function on a session record has one lemma for what it keeps (its type, `Driven`,
`Awaits`, what it leaves to be done), and each action one that it keeps `Inv`.
The properties of the runs that end in a violation are false, and are not proved under
hypotheses: nothing in the code or its callers would justify them.

`CollectionChangeBuilder_proofs` is about the operators of the change sets, for any
lists and any finite index sets. Both notifiers' proofs rest on it:

* `ShiftInverse`, `MergeFollowsRows`, `MergeReplays`: the operations of `IndexSet`
  invert each other, and `merge()` of two changes in a row is a change from the
  first list to the last, whose deletions and insertions are those of the rows
  followed through both.

`ListChanges_proofs` is about the change sets of lists, for any number of log
entries and transactions:
* `ChangesAreReplayed`: `Spec => []ChangesReplay`, if no transaction changes a list
  and then deletes its owner. (`erase_rows` leaves `m_change` as it is in that case;
  the constant `DeleteAfterChanges` is false here and in the run.) The
  invariant `LInv` names the list `mid` that the notifier saw when it last ran: the
  accumulated change leads from what the callback knows to `mid`, and the change of
  the log being parsed from `mid` to the list, or, once a subtable was cleared, from
  `Blank`, the list of `npos` rows that `clear()` stands for. "Leads" is `Describes`:
  the kept rows correspond in order (`Carries`, which is `Replays` by `ReplaysIs`),
  moves join the two indices of one entry, no index is moved twice, and what is
  deleted and still there is moved. Each operation of the builder has a lemma that it
  takes such a change to one with the list after the operation (`InsertDescribes`,
  `EraseDescribes`, `MoveDescribes`, `ClearDescribes`, `CleanUpDescribes`,
  `MergeDescribes`). What is inductive over sequences in them is proved by a least
  counterexample (`LeastOf`), which needs no induction theorem of the library.
* `ModifiedEntriesAreExact`: `Spec => []ModifiedAreExact`, under the same hypothesis. The
  part `Remembers` of `LInv` says that, of the entries the callback knows and that are
  still there, the modified ones are those that the accumulated change marks in
  `mid`, those that the log's change marks in the list, and those whose target the
  log has touched. `mid` has no entry twice, which is why `merge()` may look up a
  moved row by its index: `MergeMarks` follows a mark through a row that stays, one
  that only the newer change moves, and one that both move (`update_old_moves`).

`ResultsChanges_proofs` is about what the observer of the log makes of a table, for
tables of any size and any number of log entries. A name is new if no row of the table has it
now or had it when the log began. The variable `parsed` keeps that table; it is there
for the statement only, and no code sees it. `RInv` says:

* The builder with moves is `Tracked`: an index that is neither inserted nor deleted
  is the same row in both tables; a key of the mapping is inserted, and the row
  there is the one that was at the mapped index, which is deleted; any other inserted
  row is new (`Follows`). The rows of a table never shift, and
  everything that changes is at the end or takes another's place, so deletions and
  insertions agree below a row that stays, and `shift` undoes `unshift` there
  (`StillThere`). `insert`, `move_over`, `swap`, `subsume` and `clear` each have a
  lemma that keeps this (`InsertTracked`, `EraseLastTracked`, `MoveOverTracked`,
  `SwapTracked`, `MergeTracked`, `ClearTracked`); the ones that move rows do it
  through `Rearranges`, which says from which index each row came.
* The builder without moves is `Colored`: its columns mark exactly the rows that the
  log modified and that are still there (`ModifyColored`, `MoveOverColored` and so on).
* The rows of the last results are indices of `parsed`. This needs that the query
  has a row of every rank (`Ranked`, by counting).

From it follow:

* `RowsAlwaysFollowed`: `Spec => []RowsAreFollowed`. `ParseFollows` adds what
  `parse_complete()` does: a row that is back where it was is taken out of deletions and
  insertions, and the others become moves that `NewIndex` finds.
* `MappedRowsAlwaysMoved`: `Spec => []MappedRowsMoved`, the assertions of
  `parse_complete()` (`collection_change_builder.cpp:160`), with the injectivity that
  makes its moves unambiguous.
* `ObjectChangesAlwaysExact`: `Spec => []ObjectChangesAreExact`.

The proofs assume the named assumptions of the modules (`ConstantsAssumption`,
`SchedulerAssumption`, `SyncAssumption`, `AppAssumption`, `SchedulersAssumption`: schedulers are
finitely many and are not named like a variable, `ListAssumption`, and
`ResultsAssumption`), which TLC evaluates in every run.

Only model-checked: all liveness properties (fairness is out of the prover's
reach); `CalledOnce`; `Verified` and the refinement `IsASet` of the class `IndexSet` (their
definitions are RECURSIVE operators, which this prover cannot use); and
`ResultsReplay` (what `calculate()` computes from two lists of rows is defined by
recursion over the longest matches, and is induction over data).

## Not modelled

Most of the repository's lines are Realm's storage core, which is here as headers
for a binary library, and RxFoundation's containers. The modules cover the parts
that are in source and decide something between threads or between versions, so
the lines they map are a small share of all.

* Several notifiers per Realm, `pin_version`, the advancer SharedGroup; the Realm
  and schema caches; the pipe of the external commit helper (one pending signal
  in the model).
* Several watched lists of one table: `transact_log_handler.cpp:572` replaces a
  deleted list by the last one and goes on behind it, so that one is not looked
  at. Changes of objects reached over links (`deep_change_checker`), new and moved
  columns.
* Of Sync: `SyncProgressNotifier` and `ConnectionChangeNotifier`, metadata and file
  actions, `override_server`, management and permission sessions, partial sync,
  asynchronous open, the explicit `close()` (nothing in the repository calls it),
  the data race on the vectors that a client resync assigns without the lock (the
  assignment is one step) and on the handle's strong pointer. The `sync::Session` is
  external. Known and left as they are: a waiter that a session takes with it when it
  is destroyed; a token that expires while the session is dying (FIXME,
  `sync_session.cpp:318`); a refused retry or an answer that cannot be read, after
  which nobody asks again (`RLMSyncSessionRefreshHandle.mm:203`, `:229`). The liveness
  properties name these exceptions.
* The storage core beyond `bind_ptr`/`unbind_ptr` and interning: a binary.
* Schema translation, queries, KVO, RxFoundation's containers: sequential code
  that unit tests reach.
* Of the scheduler, the reference to the run loop that an inline `schedule:`
  leaks (`RxRunLoopScheduler.mm:410`) and the spin lock under which a token's
  cancel block runs. A token cancelled between the loop's test and its block
  (`:417`) is modelled; the block runs, and nothing in the repository says that
  it must not.
* `ConnectionChangeNotifier::invoke_callbacks` (`sync_session.cpp:1136`) is entered
  by the event loop and by a closing thread, with one `m_callback_index` for both;
  a connection event of a `sync::Session` that is gone may set the state of an
  inactive session (`:743`). Neither decides anything in the modelled steps.

## Plan

Done: 1. `CollectionNotifier`, 2. `RxRunLoopScheduler` and 3. `RxViewController`,
each with proofs of all its invariants; 4. `IndexSet` with its abstract
specification, `CollectionChangeBuilder`, `CalculateChanges`, `ListChanges` with the
proofs of its invariants, `ResultsChanges` with those of the rows it follows;
5. `SyncSession`, with proofs of its invariants and of
`ClosedAfterUpload`.

Next:

6. `RealmCoordinator`: several notifiers and Realms, `pin_version`, attach and
   detach, the assertions on transaction stages; an abstract specification of a
   notification channel (each observer is told of each version once, in order)
   that `CollectionNotifier` implements in the plain environment.
7. `TableAccessor`: the reference-count protocol of `unbind_ptr` as a module of
   its own, an abstract object lifetime, and a variant that decrements under the
   lock, shown to implement it.
8. `RxQueueScheduler`, `RxSchedulerToken` as an abstract scheduler that both
   schedulers implement; `RxMultipleDelegate`, `RxActionWhenIdle`,
   `RxSharedObjectsCache`.
