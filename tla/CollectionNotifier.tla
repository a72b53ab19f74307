------------------------- MODULE CollectionNotifier -------------------------
(***************************************************************************)
(* One CollectionNotifier of Realm's ObjectStore, the thread that owns its *)
(* collection (the target thread), the coordinator's worker thread that    *)
(* computes changes for it, and the other threads that may drop one of its *)
(* NotificationTokens.                                                     *)
(*                                                                         *)
(* A section that holds m_callback_mutex (or the coordinator's             *)
(* m_notifier_mutex) is one action; the user's callbacks run between       *)
(* actions, with no lock held.  A commit changes the collection, so a set  *)
(* of changes is the set of the versions that made them.                   *)
(***************************************************************************)
EXTENDS Integers, Sequences, SequencesExt

CONSTANTS
    MaxToken,    \* bound: callbacks ever added
    MaxVersion,  \* bound: commits ever made
    SizeMax,     \* the largest size_t, which is also npos
    Allowed      \* what the environment may do, beyond the plain case

(* The parts of the environment a run may switch on:                       *)
(*   lateRelease   a token made during a delivery is dropped during it     *)
(*   racyError     a token is dropped inside deliver_error's unlocked part *)
(*   nestedWrite   a callback begins (and commits) a write transaction     *)
(*   failedCommit  commit_transaction throws and the write is cancelled    *)
(*   openFails     the worker cannot open its own SharedGroup              *)
(*   unregister    the collection is destroyed after its last callback     *)
(*   idleNotifier  a Realm whose notifiers have no callbacks commits       *)
(*   staleCheck    the last token is dropped between the have_callbacks()  *)
(*                 check of add_notification_callback() and add_callback() *)
Behaviours == {"lateRelease", "racyError", "nestedWrite", "failedCommit",
               "openFails", "unregister", "idleNotifier", "staleCheck"}

ASSUME ConstantsAssumption ==
    /\ MaxToken \in Nat \ {0}
    /\ MaxVersion \in Nat
    /\ SizeMax \in Nat /\ MaxToken < SizeMax
    /\ Allowed \subseteq Behaviours

npos     == SizeMax
Tokens   == 0 .. (MaxToken - 1)
Versions == 0 .. MaxVersion
NoToken  == -1

VARIABLES
    \* fields of the notifier
    m_callbacks, m_callback_index, m_callback_count, m_next_token,
    m_have_callbacks, m_error, m_realm, m_sg_version, m_has_run,
    \* the target thread: where it is, the token of the callback it is
    \* inside, a local number, and its Realm's read and write state
    phase, running, local, writing, current,
    \* the newest version in the file
    latest,
    \* the coordinator: is the notifier in m_notifiers (rather than
    \* m_new_notifiers), and the worker's program counter and locals
    listed, m_notifier_skip_version, m_async_error,
    worker, version, skip_version,
    \* pending signals: to the worker, and to the target's run loop
    wake, notified,
    \* the NotificationTokens still alive
    held,
    \* history: the value of m_next_token at the last packaging, and per
    \* callback the version it was added after, the version of its first
    \* call, what it was told, was spared, and was promised to be spared
    packagedBelow, born, first, seen, dropped, hushed

loopVars     == <<m_callback_index, m_callback_count>>
handover     == <<m_sg_version, m_has_run>>
notifierVars == <<m_callbacks, loopVars, m_next_token, m_have_callbacks, m_error,
                  m_realm, handover>>
targetVars   == <<phase, running, local, writing, current>>
workerVars   == <<listed, m_notifier_skip_version, m_async_error,
                  worker, version, skip_version>>
ledger       == <<born, first, seen, dropped, hushed>>
historyVars  == <<packagedBelow, ledger>>
vars == <<notifierVars, targetVars, latest, workerVars, wake, notified, held,
          historyVars>>

Callback == [token : Tokens,
             accumulated_changes : SUBSET Versions,
             changes_to_deliver : SUBSET Versions,
             initial_delivered : BOOLEAN,
             skip_next : BOOLEAN]

(* The target thread is inside for_each_callback, or packaged and about to *)
(* enter it, in these phases.                                              *)
Loops      == {"before", "after", "error", "errorNext"}
Delivering == phase \in Loops

Present(t) == \E i \in 1..Len(m_callbacks) : m_callbacks[i].token = t

-----------------------------------------------------------------------------
(* Operators on the fields. size_t arithmetic wraps.                       *)

Incr(n) == IF n = SizeMax THEN 0 ELSE n + 1

(* Definitions named M_... are mutants: what a plausible slip in the code  *)
(* makes of the definition that follows.  No specification uses them.      *)
(* Here, an index without the wrap to npos.                                *)
M_Decr(n) == n - 1

Decr(n) == IF n = 0 THEN SizeMax ELSE n - 1

NewCallback(t) == [token |-> t, accumulated_changes |-> {},
                   changes_to_deliver |-> {}, initial_delivered |-> FALSE,
                   skip_next |-> FALSE]

(* Mutant: the callback that runs does not count as erased.                *)
M_IndexAfterErase(idx) ==
    IF m_callback_index # npos /\ m_callback_index > idx
    THEN Decr(m_callback_index)
    ELSE m_callback_index

(* The new m_callback_index when the callback at offset idx is erased.     *)
IndexAfterErase(idx) ==
    IF m_callback_index # npos /\ m_callback_index >= idx
    THEN Decr(m_callback_index)
    ELSE m_callback_index

(* Mutant: the number of callbacks to visit is left alone.                 *)
M_remove_callback(t) ==
    IF Present(t)
    THEN \E i \in 1..Len(m_callbacks) :
            /\ m_callbacks[i].token = t
            /\ m_callback_index' = IndexAfterErase(i - 1)
            /\ m_callbacks' = RemoveAt(m_callbacks, i)
            /\ m_have_callbacks' = (Len(m_callbacks) # 1)
            /\ UNCHANGED m_callback_count
    ELSE UNCHANGED <<m_callbacks, m_callback_index, m_callback_count,
                     m_have_callbacks>>

(* remove_callback(): erases the callback with token t, if it is there,    *)
(* and keeps the loop over the callbacks on its place.                     *)
remove_callback(t) ==
    IF Present(t)
    THEN \E i \in 1..Len(m_callbacks) :
            /\ m_callbacks[i].token = t
            /\ m_callback_index' = IndexAfterErase(i - 1)
            /\ m_callback_count' = Decr(m_callback_count)
            /\ m_callbacks' = RemoveAt(m_callbacks, i)
            /\ m_have_callbacks' = (Len(m_callbacks) # 1)
    ELSE UNCHANGED <<m_callbacks, m_callback_index, m_callback_count,
                     m_have_callbacks>>

(* The history of a callback ends when it is removed.                      *)
Forget(t) ==
    /\ born' = [born EXCEPT ![t] = 0] /\ first' = [first EXCEPT ![t] = 0]
    /\ seen' = [seen EXCEPT ![t] = {}]
    /\ dropped' = [dropped EXCEPT ![t] = {}]
    /\ hushed' = {p \in hushed : p[1] # t}

(* Mutant: the accumulated changes are copied, not moved.                  *)
M_Packaged(c) == [c EXCEPT !.changes_to_deliver = c.accumulated_changes]

(* package_for_delivery(): hands each callback what it accumulated.        *)
Packaged(c) == [c EXCEPT !.changes_to_deliver = c.accumulated_changes,
                         !.accumulated_changes = {}]

package_for_delivery ==
    /\ m_callbacks' = [i \in 1..Len(m_callbacks) |-> Packaged(m_callbacks[i])]
    /\ m_callback_count' = Len(m_callbacks)
    /\ packagedBelow' = m_next_token

(* Mutant: skip_next is never cleared.                                     *)
M_Accumulate(c, change) ==
    IF c.skip_next THEN c
    ELSE [c EXCEPT !.accumulated_changes = @ \cup change]

(* add_changes(): a callback told to skip drops this one change.           *)
Accumulate(c, change) ==
    IF c.skip_next THEN [c EXCEPT !.skip_next = FALSE]
    ELSE [c EXCEPT !.accumulated_changes = @ \cup change]

(* run() and prepare_handover() of the worker, up to version v.            *)
prepare_handover(v) ==
    LET change == (m_sg_version + 1) .. v
        skips  == {m_callbacks[i].token : i \in
                     {j \in 1..Len(m_callbacks) : m_callbacks[j].skip_next}}
    IN  /\ m_callbacks' = [i \in 1..Len(m_callbacks) |->
                              Accumulate(m_callbacks[i], change)]
        /\ dropped' = [t \in Tokens |->
                          IF t \in skips THEN dropped[t] \cup change
                                         ELSE dropped[t]]
        /\ m_sg_version' = v
        /\ m_has_run' = TRUE

(* for_each_callback(): the offsets the loop may still visit.  Reading at  *)
(* or past the end of the vector is undefined; the model stops there and   *)
(* CountIsPackaged reports the state.                                      *)
Remaining == {i \in Incr(m_callback_index) .. (Len(m_callbacks) - 1) :
                 i < m_callback_count}

IsNext(i, Calls(_)) ==
    /\ i \in Remaining
    /\ Calls(m_callbacks[i + 1])
    /\ \A j \in Remaining : j < i => ~Calls(m_callbacks[j + 1])

LoopIsDone(Calls(_)) == \A i \in Remaining : ~Calls(m_callbacks[i + 1])

CallsBefore(c) == c.changes_to_deliver # {}
CallsAfter(c)  == ~c.initial_delivered \/ c.changes_to_deliver # {}
CallsError(c)  == TRUE

(* The wait predicate of package_and_wait().                               *)
NotifierIsReady(target) ==
    ~m_have_callbacks \/ (m_has_run /\ m_sg_version >= target)

(* The signals between the threads, each with the mutant that forgets it:  *)
(* a commit wakes the worker, the worker's pass wakes those who wait on    *)
(* m_notifier_cv and then the run loop of every Realm.                     *)
M_WakeWorker    == UNCHANGED wake
WakeWorker      == wake' = TRUE
M_NotifyWaiters == UNCHANGED phase
NotifyWaiters   == phase' = IF phase = "waiting" THEN "recheck" ELSE phase
M_NotifyRealm   == UNCHANGED notified
NotifyRealm     == notified' = TRUE

(* The worker takes the skip version away.  Mutant: it leaves it behind.   *)
M_TakeSkipVersion ==
    skip_version' = m_notifier_skip_version /\ UNCHANGED m_notifier_skip_version
TakeSkipVersion ==
    skip_version' = m_notifier_skip_version /\ m_notifier_skip_version' = 0

-----------------------------------------------------------------------------
(* Init: add_notification_callback() has created the notifier at the       *)
(* target's version, registered it with the coordinator and added its      *)
(* first callback.  The run loop may hold a signal of an earlier pass.     *)

Init ==
    /\ m_callbacks = <<NewCallback(0)>>
    /\ m_callback_index = npos /\ m_callback_count = SizeMax
    /\ m_next_token = 1 /\ m_have_callbacks = TRUE
    /\ m_error = FALSE /\ m_realm = TRUE
    /\ m_sg_version = 0 /\ m_has_run = FALSE
    /\ phase = "idle" /\ running = NoToken /\ local = 0
    /\ writing = FALSE /\ current = 0 /\ latest = 0
    /\ listed = FALSE /\ m_notifier_skip_version = 0
    /\ m_async_error = FALSE
    /\ worker = "sleep" /\ version = 0 /\ skip_version = 0
    /\ wake = TRUE /\ notified \in BOOLEAN /\ held = {0}
    /\ packagedBelow = 0
    /\ born = [t \in Tokens |-> 0] /\ first = [t \in Tokens |-> 0]
    /\ seen = [t \in Tokens |-> {}]
    /\ dropped = [t \in Tokens |-> {}]
    /\ hushed = {}

-----------------------------------------------------------------------------
(* Calls of the user.  User code runs on the target thread when it is idle *)
(* and inside callbacks: this notifier's, or those of another notifier or  *)
(* of the binding context next to the loop of this one.  The before()      *)
(* callbacks of the Objective-C layer call no user code.                   *)

InUserCode == \/ phase \in {"idle", "after"}
              \/ phase = "error" /\ running # NoToken

(* add_callback(), through addNotificationBlock, which refuses to run in a *)
(* write transaction, and add_notification_callback(), which replaces a    *)
(* notifier that has no callbacks left.                                    *)
AddCallback ==
    /\ m_next_token < MaxToken
    /\ m_realm
    /\ m_have_callbacks \/ "staleCheck" \in Allowed
    /\ InUserCode
    /\ ~writing
    /\ m_next_token' = m_next_token + 1
    /\ m_callbacks' = Append(m_callbacks, NewCallback(m_next_token))
    /\ IF m_callback_index = npos
          THEN wake' = TRUE /\ m_have_callbacks' = TRUE
          ELSE UNCHANGED <<wake, m_have_callbacks>>
    /\ held' = held \cup {m_next_token}
    /\ born' = [born EXCEPT ![m_next_token] = m_sg_version]
    /\ UNCHANGED <<loopVars, m_error, m_realm, handover, targetVars, latest,
                   workerVars, notified, packagedBelow, first, seen,
                   dropped, hushed>>

(* The thread that drops a NotificationToken runs remove_callback(): it    *)
(* need not be the target thread.                                          *)
ReleaseToken(t) ==
    /\ t \in held
    /\ Delivering /\ t >= packagedBelow => "lateRelease" \in Allowed
    /\ phase = "errorCount" => "racyError" \in Allowed
    /\ remove_callback(t)
    /\ held' = held \ {t}
    /\ Forget(t)
    /\ UNCHANGED <<m_next_token, m_error, m_realm, handover, targetVars,
                   latest, workerVars, wake, notified, packagedBelow>>

(* unregister(): the collection's Handle goes away on whichever thread     *)
(* destroys the collection, which its callbacks keep alive.                *)
Unregister ==
    /\ "unregister" \in Allowed
    /\ m_realm /\ m_callbacks = <<>>
    /\ m_realm' = FALSE
    /\ UNCHANGED <<m_callbacks, loopVars, m_next_token, m_have_callbacks,
                   m_error, handover, targetVars, latest, workerVars, wake,
                   notified, held, historyVars>>

-----------------------------------------------------------------------------
(* Write transactions.                                                     *)

(* A callback that writes: begin_transaction() then sends no notifications *)
(* and waits for nothing.                                                  *)
BeginWriteInCallback ==
    /\ "nestedWrite" \in Allowed
    /\ phase = "after" /\ running # NoToken /\ ~writing
    /\ writing' = TRUE
    /\ current' = latest
    /\ UNCHANGED <<notifierVars, phase, running, local, latest, workerVars,
                   wake, notified, held, historyVars>>

MayEndWrite ==
    /\ writing
    /\ \/ phase = "idle"
       \/ "nestedWrite" \in Allowed /\ phase = "after" /\ running # NoToken

(* suppress_next_notification(), one of the tokens handed to               *)
(* commitWriteTransactionWithoutNotifying.                                 *)
SuppressNext(t) ==
    /\ MayEndWrite /\ m_realm /\ latest < MaxVersion
    /\ t \in held
    /\ m_callbacks' = [i \in 1..Len(m_callbacks) |->
                          IF m_callbacks[i].token = t
                          THEN [m_callbacks[i] EXCEPT !.skip_next = TRUE]
                          ELSE m_callbacks[i]]
    /\ hushed' = hushed \cup {<<t, latest + 1>>}
    /\ UNCHANGED <<loopVars, m_next_token, m_have_callbacks, m_error,
                   m_realm, handover, targetVars, latest, workerVars, wake,
                   notified, held, packagedBelow, born, first, seen, dropped>>

(* commit_write() on the target's Realm, under m_notifier_mutex.           *)
CommitWrite ==
    /\ MayEndWrite /\ latest < MaxVersion
    /\ latest' = latest + 1
    /\ current' = latest + 1
    /\ writing' = FALSE
    /\ m_notifier_skip_version' = IF listed /\ m_realm THEN latest + 1
                                  ELSE m_notifier_skip_version
    /\ WakeWorker
    /\ UNCHANGED <<notifierVars, phase, running, local, listed,
                   m_async_error, worker, version, skip_version, notified,
                   held, historyVars>>

(* cancel_transaction().  Tokens are suppressed only on the way to commit, *)
(* so a cancelled write has suppressed some only if its commit threw.      *)
CancelWrite ==
    /\ MayEndWrite
    /\ "failedCommit" \in Allowed \/ \A p \in hushed : p[2] # latest + 1
    /\ writing' = FALSE
    /\ hushed' = {p \in hushed : p[2] # latest + 1}
    /\ UNCHANGED <<notifierVars, phase, running, local, current, latest,
                   workerVars, wake, notified, held, packagedBelow, born,
                   first, seen, dropped>>

(* A commit of another thread or process.  If a Realm of this process made *)
(* it and has notifiers of its own it sets the skip version too; when one  *)
(* of those has a callback, its begin_transaction() has waited for the     *)
(* worker to reach the newest version with every notifier it runs.         *)
CommitElsewhere ==
    /\ ~writing /\ latest < MaxVersion
    /\ latest' = latest + 1
    /\ \/ UNCHANGED m_notifier_skip_version
       \/ /\ \/ m_has_run => m_sg_version = latest
             \/ "idleNotifier" \in Allowed
          /\ m_notifier_skip_version' = latest + 1
    /\ WakeWorker
    /\ UNCHANGED <<notifierVars, targetVars, listed, m_async_error, worker,
                   version, skip_version, notified, held, historyVars>>

-----------------------------------------------------------------------------
(* The target thread's deliveries.                                         *)

(* notify() with nothing to deliver: the Realm is in a write transaction,  *)
(* or its notifier is gone or has not run, or what the notifier has is not *)
(* for the version the Realm is at.  Outside a write the Realm still moves *)
(* to the newest version, unless the notifier holds an older one back.     *)
NotifyNothing ==
    /\ phase = "idle" /\ notified
    /\ notified' = FALSE
    /\ \/ writing /\ UNCHANGED current
       \/ /\ ~writing
          /\ ~m_realm \/ (~m_async_error /\ ~m_has_run)
          /\ current' = latest
       \/ /\ ~writing /\ m_realm /\ ~m_async_error /\ m_has_run
          /\ latest = current /\ m_sg_version # current
          /\ UNCHANGED current
    /\ UNCHANGED <<notifierVars, phase, running, local, writing, latest,
                   workerVars, wake, held, historyVars>>

(* notify() with a notifier that has run.  With the Realm at the newest    *)
(* version (process_available_async) or with changes for the version it is *)
(* at, after_advance() runs straight away; with newer changes              *)
(* (advance_to_ready) before_advance() and the advance come first; changes *)
(* older than the Realm are packaged and discarded.                        *)
NotifyPackage ==
    /\ phase = "idle" /\ notified
    /\ ~writing /\ m_realm /\ ~m_async_error /\ m_has_run
    /\ latest > current \/ m_sg_version = current
    /\ notified' = FALSE
    /\ package_for_delivery
    /\ phase' = IF m_sg_version < current THEN "idle"
                ELSE IF m_sg_version = current THEN "after" ELSE "before"
    /\ local' = m_sg_version
    /\ UNCHANGED <<m_callback_index, m_next_token, m_have_callbacks,
                   m_error, m_realm, handover, running, writing, current,
                   latest, workerVars, wake, held, ledger>>

(* Mutant: the error is forgotten.                                         *)
M_deliver_error ==
    /\ phase = "idle" /\ ~writing /\ m_realm /\ m_async_error
    /\ \/ notified /\ notified' = FALSE /\ UNCHANGED writing
       \/ UNCHANGED notified /\ writing' \in BOOLEAN
    /\ current' = latest
    /\ local' = Len(m_callbacks)
    /\ phase' = "errorCount"
    /\ UNCHANGED <<notifierVars, running, latest, workerVars, wake, held,
                   historyVars>>

(* deliver_error() after the worker failed, from notify(), from refresh()  *)
(* or from begin_transaction(): it sets m_error and, yet unlocked, reads   *)
(* the number of callbacks ...                                             *)
deliver_error ==
    /\ phase = "idle" /\ ~writing /\ m_realm /\ m_async_error
    /\ \/ notified /\ notified' = FALSE /\ UNCHANGED writing
       \/ UNCHANGED notified /\ writing' \in BOOLEAN
    /\ current' = latest
    /\ m_error' = TRUE
    /\ local' = Len(m_callbacks)
    /\ phase' = "errorCount"
    /\ UNCHANGED <<m_callbacks, loopVars, m_next_token, m_have_callbacks,
                   m_realm, handover, running, latest, workerVars, wake,
                   held, historyVars>>

(* ... and stores it as m_callback_count.                                  *)
ErrorCount ==
    /\ phase = "errorCount"
    /\ m_callback_count' = local /\ local' = 0
    /\ packagedBelow' = m_next_token
    /\ phase' = "error"
    /\ UNCHANGED <<m_callbacks, m_callback_index, m_next_token,
                   m_have_callbacks, m_error, m_realm, handover, running,
                   writing, current, latest, workerVars, wake, notified,
                   held, ledger>>

(* refresh(), through advance_to_latest(), or begin_transaction(), through *)
(* promote_to_write(), which first takes the file's write lock.  With a    *)
(* notifier to wait for, package_and_wait() follows.                       *)
BeginWait ==
    /\ phase = "idle" /\ ~writing /\ (m_realm => ~m_async_error)
    /\ writing' \in BOOLEAN
    /\ IF m_realm
          THEN phase' = "check" /\ local' = latest /\ UNCHANGED current
          ELSE current' = latest /\ UNCHANGED <<phase, local>>
    /\ UNCHANGED <<notifierVars, running, latest, workerVars, wake,
                   notified, held, historyVars>>

(* wait_for_notifiers(): the predicate is false; sleep on m_notifier_cv,   *)
(* after waking the worker the first time.                                 *)
WaitForNotifiers ==
    /\ phase \in {"check", "recheck"}
    /\ ~NotifierIsReady(local)
    /\ phase' = "waiting"
    /\ wake' = (wake \/ phase = "check")
    /\ UNCHANGED <<notifierVars, running, local, writing, current, latest,
                   workerVars, notified, held, historyVars>>

(* The predicate is true: package the notifier if it has run.  A version   *)
(* below the target is then dropped again and the Realm moves on without.  *)
(* begin_transaction() at the newest version skips before_advance().       *)
PackageAfterWait ==
    /\ phase \in {"check", "recheck"}
    /\ NotifierIsReady(local)
    /\ IF m_has_run
          THEN package_for_delivery
          ELSE UNCHANGED <<m_callbacks, m_callback_count, packagedBelow>>
    /\ IF m_has_run /\ m_sg_version >= local
          THEN /\ phase' = IF writing /\ current = latest THEN "after"
                           ELSE "before"
               /\ local' = m_sg_version
               /\ UNCHANGED current
          ELSE /\ phase' = "idle"
               /\ current' = latest
               /\ local' = 0
    /\ UNCHANGED <<m_callback_index, m_next_token, m_have_callbacks,
                   m_error, m_realm, handover, running, writing, latest,
                   workerVars, wake, notified, held, ledger>>

(* before_advance(): call the next callback that has changes, with no lock *)
(* held; when there is none left, advance the Realm.                       *)
BeforeAdvance(i) ==
    /\ phase = "before" /\ IsNext(i, CallsBefore)
    /\ m_callback_index' = i
    /\ running' = m_callbacks[i + 1].token
    /\ UNCHANGED <<m_callbacks, m_callback_count, m_next_token,
                   m_have_callbacks, m_error, m_realm, handover, phase,
                   local, writing, current, latest, workerVars, wake,
                   notified, held, historyVars>>

(* Mutant: the changes are delivered before the Realm is advanced.         *)
M_BeforeAdvanceDone ==
    /\ phase = "before" /\ LoopIsDone(CallsBefore)
    /\ m_callback_index' = npos
    /\ running' = NoToken
    /\ phase' = "after"
    /\ UNCHANGED <<m_callbacks, m_callback_count, m_next_token,
                   m_have_callbacks, m_error, m_realm, handover, local,
                   writing, current, latest, workerVars, wake, notified,
                   held, historyVars>>

BeforeAdvanceDone ==
    /\ phase = "before" /\ LoopIsDone(CallsBefore)
    /\ m_callback_index' = npos
    /\ running' = NoToken
    /\ phase' = "after"
    /\ current' = local
    /\ UNCHANGED <<m_callbacks, m_callback_count, m_next_token,
                   m_have_callbacks, m_error, m_realm, handover, local,
                   writing, latest, workerVars, wake, notified, held,
                   historyVars>>

(* after_advance(): call the next callback that has changes or was never   *)
(* called, and take its changes from it.                                   *)
AfterAdvance(i) ==
    /\ phase = "after" /\ IsNext(i, CallsAfter)
    /\ m_callback_index' = i
    /\ running' = m_callbacks[i + 1].token
    /\ m_callbacks' = [m_callbacks EXCEPT ![i + 1].initial_delivered = TRUE,
                                          ![i + 1].changes_to_deliver = {}]
    /\ seen' = [seen EXCEPT ![m_callbacks[i + 1].token] =
                   @ \cup m_callbacks[i + 1].changes_to_deliver]
    /\ first' = [first EXCEPT ![m_callbacks[i + 1].token] =
                    IF m_callbacks[i + 1].initial_delivered THEN @ ELSE current]
    /\ UNCHANGED <<m_callback_count, m_next_token, m_have_callbacks,
                   m_error, m_realm, handover, phase, local, writing,
                   current, latest, workerVars, wake, notified, held,
                   packagedBelow, born, dropped, hushed>>

AfterAdvanceDone ==
    /\ phase = "after" /\ LoopIsDone(CallsAfter)
    /\ m_callback_index' = npos
    /\ running' = NoToken /\ local' = 0
    /\ phase' = "idle"
    /\ UNCHANGED <<m_callbacks, m_callback_count, m_next_token,
                   m_have_callbacks, m_error, m_realm, handover, writing,
                   current, latest, workerVars, wake, notified, held,
                   historyVars>>

(* The loop of deliver_error(): give the next callback the error; when it  *)
(* returns, remove it, in a lock section of its own, and go on.            *)
DeliverError(i) ==
    /\ \/ phase = "error" /\ running = NoToken
       \/ phase = "errorNext"
    /\ IsNext(i, CallsError)
    /\ m_callback_index' = i
    /\ running' = m_callbacks[i + 1].token
    /\ phase' = "error"
    /\ UNCHANGED <<m_callbacks, m_callback_count, m_next_token,
                   m_have_callbacks, m_error, m_realm, handover, local,
                   writing, current, latest, workerVars, wake, notified,
                   held, historyVars>>

ErrorRemove ==
    /\ phase = "error" /\ running # NoToken
    /\ remove_callback(running)
    /\ Forget(running)
    /\ phase' = "errorNext"
    /\ UNCHANGED <<m_next_token, m_error, m_realm, handover, running, local,
                   writing, current, latest, workerVars, wake, notified,
                   held, packagedBelow>>

DeliverErrorDone ==
    /\ \/ phase = "error" /\ running = NoToken
       \/ phase = "errorNext"
    /\ LoopIsDone(CallsError)
    /\ m_callback_index' = npos
    /\ running' = NoToken
    /\ phase' = "idle"
    /\ UNCHANGED <<m_callbacks, m_callback_count, m_next_token,
                   m_have_callbacks, m_error, m_realm, handover, local,
                   writing, current, latest, workerVars, wake, notified,
                   held, historyVars>>

-----------------------------------------------------------------------------
(* The worker: on_change() and run_async_notifiers().                      *)

(* A pass that stops early: the only notifier is dead and is cleaned up,   *)
(* or the worker's SharedGroup cannot be opened, now or ever again.  The   *)
(* target's run loop is notified; m_notifier_cv is not.                    *)
WorkerStopsEarly ==
    /\ worker = "sleep" /\ wake
    /\ wake' = FALSE
    /\ NotifyRealm
    /\ \/ /\ ~m_realm
          /\ listed' = FALSE
          /\ m_notifier_skip_version' = IF listed /\ ~m_async_error THEN 0
                                        ELSE m_notifier_skip_version
          /\ UNCHANGED m_async_error
       \/ /\ m_realm
          /\ m_async_error \/ ("openFails" \in Allowed /\ ~listed)
          /\ m_async_error' = TRUE
          /\ listed' = TRUE
          /\ UNCHANGED m_notifier_skip_version
    /\ UNCHANGED <<notifierVars, targetVars, latest, worker, version,
                   skip_version, held, historyVars>>

(* The first locked part of a pass: choose the version to advance to and   *)
(* take the version to stop at on the way.  A new notifier does not stop.  *)
WorkerStart ==
    /\ worker = "sleep" /\ wake
    /\ m_realm /\ ~m_async_error
    /\ wake' = FALSE
    /\ version' = latest
    /\ TakeSkipVersion
    /\ listed' = TRUE
    /\ worker' = IF listed /\ m_notifier_skip_version # 0 THEN "skip" ELSE "run"
    /\ UNCHANGED <<notifierVars, targetVars, latest, m_async_error,
                   notified, held, historyVars>>

WorkerSkip ==
    /\ worker = "skip"
    /\ prepare_handover(skip_version)
    /\ worker' = "run"
    /\ skip_version' = 0
    /\ UNCHANGED <<loopVars, m_next_token, m_have_callbacks, m_error,
                   m_realm, targetVars, latest, listed,
                   m_notifier_skip_version, m_async_error, version, wake,
                   notified, held, packagedBelow, born, first, seen, hushed>>

(* The last locked part: hand over, clean up, and wake whoever waits.      *)
WorkerRun ==
    /\ worker = "run"
    /\ prepare_handover(version)
    /\ worker' = "sleep"
    /\ version' = 0 /\ skip_version' = 0
    /\ listed' = m_realm
    /\ m_notifier_skip_version' = IF m_realm THEN m_notifier_skip_version ELSE 0
    /\ NotifyWaiters
    /\ NotifyRealm
    /\ UNCHANGED <<loopVars, m_next_token, m_have_callbacks, m_error,
                   m_realm, running, local, writing, current, latest,
                   m_async_error, wake, held, packagedBelow, born, first,
                   seen, hushed>>

-----------------------------------------------------------------------------
TargetSteps ==
    \/ NotifyNothing \/ NotifyPackage \/ deliver_error \/ ErrorCount
    \/ WaitForNotifiers \/ PackageAfterWait
    \/ \E i \in 0..(MaxToken - 1) :
          BeforeAdvance(i) \/ AfterAdvance(i) \/ DeliverError(i)
    \/ BeforeAdvanceDone \/ AfterAdvanceDone
    \/ ErrorRemove \/ DeliverErrorDone

WorkerSteps == WorkerStopsEarly \/ WorkerStart \/ WorkerSkip \/ WorkerRun

UserSteps ==
    \/ AddCallback
    \/ \E t \in Tokens : ReleaseToken(t) \/ SuppressNext(t)
    \/ Unregister
    \/ BeginWait \/ BeginWriteInCallback
    \/ CommitWrite \/ CancelWrite \/ CommitElsewhere

Next == TargetSteps \/ WorkerSteps \/ UserSteps

Spec == Init /\ [][Next]_vars

(* The worker's loop and the target's run loop serve their signals, a      *)
(* callback returns, and a write transaction is ended: by whoever began it *)
(* and is not obliged to write again.                                      *)
Fairness ==
    /\ WF_vars(WorkerSteps)
    /\ WF_vars(TargetSteps)
    /\ WF_vars(CommitWrite \/ CancelWrite)

FairSpec == Spec /\ Fairness

-----------------------------------------------------------------------------
(* Properties.                                                             *)

(* Every variable has its type; what the target thread keeps in local is a *)
(* version or, in deliver_error(), a number of callbacks.                  *)
NotifierTypeOK ==
    /\ m_callbacks \in Seq(Callback) /\ Len(m_callbacks) <= m_next_token
    /\ m_callback_index \in 0..SizeMax
    /\ m_callback_count \in 0..SizeMax
    /\ m_next_token \in 0..MaxToken
    /\ m_have_callbacks \in BOOLEAN /\ m_error \in BOOLEAN
    /\ m_realm \in BOOLEAN /\ m_has_run \in BOOLEAN
    /\ m_sg_version \in Versions

TargetTypeOK ==
    /\ phase \in Loops \cup {"idle", "check", "waiting", "recheck", "errorCount"}
    /\ running \in Tokens \cup {NoToken}
    /\ writing \in BOOLEAN /\ current \in Versions
    /\ local \in Nat
    /\ phase \in {"before", "check", "waiting", "recheck"} => local \in Versions
    /\ phase = "errorCount" => local \in 0..MaxToken

CoordinatorTypeOK ==
    /\ latest \in Versions
    /\ listed \in BOOLEAN /\ m_async_error \in BOOLEAN
    /\ m_notifier_skip_version \in Versions
    /\ worker \in {"sleep", "skip", "run"}
    /\ version \in Versions /\ skip_version \in Versions
    /\ wake \in BOOLEAN /\ notified \in BOOLEAN

HistoryTypeOK ==
    /\ held \subseteq Tokens
    /\ packagedBelow \in 0..MaxToken
    /\ born \in [Tokens -> Versions] /\ first \in [Tokens -> Versions]
    /\ seen \in [Tokens -> SUBSET Versions]
    /\ dropped \in [Tokens -> SUBSET Versions]
    /\ hushed \subseteq Tokens \X Versions

TypeOK == NotifierTypeOK /\ TargetTypeOK /\ CoordinatorTypeOK /\ HistoryTypeOK

(* While a delivery is under way, the first m_callback_count callbacks are *)
(* exactly the packaged ones that are still present: so the loop of        *)
(* for_each_callback reads inside the vector, reaches every packaged       *)
(* callback and calls none that was added since (collection_notifier.hpp,  *)
(* lines 240-243).                                                         *)
CountIsPackaged ==
    Delivering =>
        /\ m_callback_count <= Len(m_callbacks)
        /\ \A i \in 1..Len(m_callbacks) :
              i <= m_callback_count <=> m_callbacks[i].token < packagedBelow

(* While a callback runs unlocked, m_callback_index + 1 counts the         *)
(* callbacks up to and including it, whichever of them any thread removed  *)
(* meanwhile: the loop resumes behind it, skips none and repeats none.     *)
IndexTracksRunning ==
    Delivering =>
        \A i \in 1..Len(m_callbacks) :
            i <= Incr(m_callback_index) <=> m_callbacks[i].token <= running

(* m_have_callbacks, read by the wait predicate without the mutex, is      *)
(* exact, although add_callback() sets it only outside the loop.           *)
HaveCallbacksExact == m_have_callbacks = (m_callbacks # <<>>)

(* The assertions of find_callback(): whoever still holds a token finds    *)
(* its callback, unless an error has removed the callbacks.                *)
HeldTokensAreFound == m_error \/ \A t \in held : Present(t)

(* From its first call on, each change is with a callback exactly once:    *)
(* told, packaged, accumulated, or dropped at its holder's request.        *)
With(c) == <<seen[c.token], dropped[c.token], c.changes_to_deliver,
             c.accumulated_changes>>

ExactlyOnce(c, v) == \E j \in 1..4 : \A k \in 1..4 : v \in With(c)[k] <=> k = j

ChangesAccountedFor ==
    \A i \in 1..Len(m_callbacks) :
        m_callbacks[i].initial_delivered =>
            \A v \in (first[m_callbacks[i].token] + 1) .. m_sg_version :
                ExactlyOnce(m_callbacks[i], v)

(* The same from the moment the callback is added: an object's block "will *)
(* be asynchronously called after each write transaction which deletes the *)
(* object or modifies any of the managed properties" (RLMObject.h).        *)
ChangesAccountedForSinceAdded ==
    \A i \in 1..Len(m_callbacks) :
        \A v \in (born[m_callbacks[i].token] + 1) .. m_sg_version :
            ExactlyOnce(m_callbacks[i], v)

(* A callback called by after_advance() has by then been told of every     *)
(* change between its first call and the version its Realm reads, and of   *)
(* none that the Realm does not show yet.                                  *)
InSyncWithSnapshot ==
    \A i \in 1..Len(m_callbacks) :
        LET t == m_callbacks[i].token IN
        phase = "after" /\ running = t /\ ~writing =>
            /\ (first[t] + 1) .. current \subseteq seen[t] \cup dropped[t]
            /\ seen[t] \subseteq 1 .. current

(* The worker stops at a skip version on its way forward (the assertion    *)
(* version >= skip_version of run_async_notifiers, and the advance of its  *)
(* SharedGroup, which cannot go back).                                     *)
SkipVersionIsAhead ==
    worker = "skip" => m_sg_version < skip_version /\ skip_version <= version

(* Only a change whose commit asked for it is kept from a callback, and a  *)
(* callback that is to skip the next change has none accumulated (the      *)
(* assertion of add_changes).                                              *)
OnlySuppressedDropped ==
    /\ \A t \in held : \A v \in dropped[t] : <<t, v>> \in hushed
    /\ \A i \in 1..Len(m_callbacks) :
          m_callbacks[i].skip_next => m_callbacks[i].accumulated_changes = {}

(* commitWriteTransactionWithoutNotifying: a callback whose token was      *)
(* passed is not told of the changes made in that write transaction.       *)
SuppressedNotDelivered == \A p \in hushed : p[2] \notin seen[p[1]]

(* Once a signal is on its way to the worker or to the run loop, every     *)
(* callback present is called, unless it is removed.                       *)
Called(t) == \E i \in 1..Len(m_callbacks) :
                m_callbacks[i].token = t /\ m_callbacks[i].initial_delivered

WokenCallbacksAreCalled ==
    \A t \in Tokens :
        Present(t) /\ (wake \/ worker # "sleep" \/ notified)
            ~> Called(t) \/ ~Present(t)

(* The initial call of a callback: "the block will be asynchronously       *)
(* called with the initial collection" (RLMCollection.h).                  *)
InitialCall == \A t \in Tokens : Present(t) ~> Called(t) \/ ~Present(t)

(* Every change made after a callback's first call reaches it, unless it   *)
(* is dropped at its holder's request or the callback is removed.          *)
ChangesReachCallbacks ==
    \A t \in Tokens, v \in Versions :
        Called(t) /\ first[t] < v /\ v <= latest
            ~> v \in seen[t] \cup dropped[t] \/ ~Present(t)

(* Nobody stays in wait_for_notifiers(): beginning a write transaction     *)
(* blocks on the worker for a bounded time only.                           *)
WaitEnds == phase = "waiting" ~> phase # "waiting"

=============================================================================
