----------------------------- MODULE SyncSession -----------------------------
(***************************************************************************)
(* The SyncSessions of one Realm file, their entry in the SyncManager, the *)
(* SyncUser that owns them, the binding's refresh handle and the           *)
(* sync::Session each of them drives.  m_state_mutex is released in the    *)
(* middle of most operations: what a thread has still to do after that is  *)
(* its todo list, and other threads act in between.  A session that        *)
(* SyncManager has dropped lives on while a handle or a thread holds it,   *)
(* next to the one that takes its place; so sessions are numbered.         *)
(***************************************************************************)
EXTENDS Integers, Sequences, FiniteSets

CONSTANTS
    Threads,     \* threads of the application and of its network client
    Loop,        \* the event loop thread of the sync client
    Waiters,     \* completion callbacks the application may register
    MaxSessions, \* bound: session objects created for the file
    MaxVersion,  \* bound: versions written by the application
    MaxCalls     \* bound: calls of the application, errors of the servers

ASSUME SyncAssumption ==
    /\ Loop \notin Threads
    /\ MaxSessions \in Nat /\ MaxVersion \in Nat /\ MaxCalls \in Nat

VARIABLES
    s,           \* the SyncSession objects, in the order they were created
    registered,  \* the one in SyncManager::m_sessions, or 0
    refs,        \* those with an ExternalReference
    user,        \* the SyncUser: its state, and the session in each of its maps
    policy,      \* SyncConfig::stop_policy
    op, todo,    \* what each thread is doing, and what it still has to do
    handle,      \* the refresh handle of the path: the session it is for, and
                 \* whether its request holds it ("strong") or not ("weak"), is
                 \* being "answered", or waits for its "timer"; or "none"
    committed, uploaded,   \* last version in the file, and at the server
    called,      \* how often each registered completion callback was called
    calls

vars == <<s, registered, refs, user, policy, op, todo, handle, committed,
          uploaded, called, calls>>

All      == Threads \cup {Loop}
Objects  == DOMAIN s
Dirs     == {"upload", "download"}
Policies == {"Immediately", "LiveIndefinitely", "AfterChangesUploaded"}
Fatal    == {"bad_authentication", "client_reset", "permission_denied", "other_fatal"}
Errors   == Fatal \cup {"token_expired"}
NoQueue  == [d \in Dirs |-> {}]
NoHandle == [of |-> 0, kind |-> "none"]
Queued(q) == UNION {q[d] : d \in Dirs}

(* SyncSession::SyncSession; next lists what follows once the lock is out, *)
(* halt says why the sync::Session does not work: its token has "expired", *)
(* or a "fatal" error.                                                     *)
NewSession(o) ==
    [id |-> o, m_state |-> "Inactive", m_session |-> FALSE, bound |-> FALSE, halt |-> "no",
     deferred_close |-> FALSE, deferred_commit |-> 0, announced |-> 0,
     death_count |-> 0, resync_counter |-> 0, queue |-> NoQueue,
     pending |-> {}, made |-> 0, late |-> {}, vended |-> FALSE, failed |-> "no", next |-> <<>>]

Init ==
    /\ s = <<>>
    /\ registered = 0 /\ refs = {}
    /\ user = [state |-> "Active", sessions |-> 0, waiting |-> 0]
    /\ policy \in Policies
    /\ op = [t \in All |-> "none"] /\ todo = [t \in All |-> <<>>]
    /\ handle = NoHandle
    /\ committed = 0 /\ uploaded = 0
    /\ called = [w \in {} |-> 0]
    /\ calls = 0

-----------------------------------------------------------------------------
(* The sync::Session (external): completion handlers that are registered   *)
(* run once each, with an error when the session was terminated before;    *)
(* n tells handlers apart that are otherwise alike.                        *)
Handler(r, dir, death) ==
    [dir |-> dir, death |-> death, live |-> TRUE, upto |-> r.announced,
     tag |-> IF death THEN r.death_count ELSE r.resync_counter,
     n |-> r.made]

async_wait(r, dir, death) ==
    [r EXCEPT !.pending = @ \cup {Handler(r, dir, death)}, !.made = @ + 1]

terminate(r) ==
    [r EXCEPT !.m_session = FALSE, !.announced = 0, !.halt = "no",
              !.pending = {[p EXCEPT !.live = FALSE] : p \in @}]

Announce(r, version) == [r EXCEPT !.announced = IF version > @ THEN version ELSE @]

renew_token(r) == [r EXCEPT !.halt = IF @ = "expired" THEN "no" ELSE @]

-----------------------------------------------------------------------------
(* States of the session: what is done under m_state_mutex.                *)
Todo(what, o)       == [do |-> what, of |-> o]
CancelAll(o, waits) == IF waits = {} THEN <<>> ELSE <<[do |-> "cancel", of |-> o, waits |-> waits]>>

add_completion_callback(r, dir) == async_wait(r, dir, FALSE)

enter_waiting(r) == [r EXCEPT !.m_state = "WaitingForAccessToken", !.deferred_close = FALSE]

(* Mutant: the callbacks that wait are not registered again. *)
M_enter_active(r) == [r EXCEPT !.m_state = "Active"]

enter_active(r) ==
    [r EXCEPT !.m_state = "Active", !.made = @ + 1,
              !.pending = @ \cup {Handler(r, d, FALSE) : d \in {e \in Dirs : r.queue[e] # {}}}]

enter_inactive(r) ==
    [terminate(r) EXCEPT !.m_state = "Inactive", !.queue = NoQueue,
                         !.next = <<Todo("unregister", r.id)>> \o CancelAll(r.id, Queued(r.queue))]

(* Mutants: it waits for the download, or takes the count before it adds.  *)
M_enter_dying(r) ==
    IF r.m_session
    THEN async_wait([r EXCEPT !.m_state = "Dying", !.death_count = @ + 1], "download", TRUE)
    ELSE enter_inactive(r)

M_enter_dying_early(r) ==
    IF r.m_session
    THEN [async_wait(r, "upload", TRUE) EXCEPT !.m_state = "Dying", !.death_count = @ + 1]
    ELSE enter_inactive(r)

enter_dying(r) ==
    IF r.m_session
    THEN async_wait([r EXCEPT !.m_state = "Dying", !.death_count = @ + 1], "upload", TRUE)
    ELSE enter_inactive(r)

(* advance_state asserts that the state changes. *)
advance_state(r, state) ==
    IF state = r.m_state THEN [r EXCEPT !.failed = "advance_state"]
    ELSE CASE state = "WaitingForAccessToken" -> enter_waiting(r)
           [] state = "Active"                -> enter_active(r)
           [] state = "Dying"                 -> enter_dying(r)
           [] state = "Inactive"              -> enter_inactive(r)

state_close(r) ==
    CASE r.m_state = "Inactive" -> [r EXCEPT !.next = <<Todo("unregister", r.id)>>]
      [] r.m_state = "Dying" -> r
      [] OTHER ->
            IF policy = "Immediately" THEN advance_state(r, "Inactive")
            ELSE IF r.m_state = "WaitingForAccessToken" THEN [r EXCEPT !.deferred_close = TRUE]
            ELSE IF policy = "LiveIndefinitely" THEN r
            ELSE advance_state(r, "Dying")

state_log_out(r) == IF r.m_state = "Inactive" THEN r ELSE advance_state(r, "Inactive")

state_revive(r) ==
    CASE r.m_state = "WaitingForAccessToken" -> [r EXCEPT !.deferred_close = FALSE]
      [] r.m_state = "Active" -> r
      [] r.m_state = "Dying" -> advance_state(r, "Active")
      [] OTHER -> [advance_state(r, "WaitingForAccessToken") EXCEPT !.next = <<Todo("bind", r.id)>>]

(* Mutant: a session that was bound once is not made again. *)
M_create_sync_session(r) ==
    IF r.m_session \/ r.bound THEN r ELSE [r EXCEPT !.m_session = TRUE, !.bound = FALSE]

create_sync_session(r) ==
    IF r.m_session THEN r ELSE [r EXCEPT !.m_session = TRUE, !.bound = FALSE]

(* bind() announces what the file holds, refresh() changes only the token. *)
bind(r) ==
    IF r.bound THEN renew_token(r) ELSE [Announce(r, committed) EXCEPT !.bound = TRUE]

deferred_commit(r) == [Announce(r, r.deferred_commit) EXCEPT !.deferred_commit = 0]

state_refresh(r) ==
    CASE r.m_state = "WaitingForAccessToken" ->
            LET a == advance_state(deferred_commit(bind(create_sync_session(r))), "Active")
            IN  IF a.deferred_close THEN state_close(a) ELSE a
      [] r.m_state = "Active" -> renew_token(r)
      [] OTHER -> r

state_notify(r, version) ==
    CASE r.m_state = "WaitingForAccessToken" -> [r EXCEPT !.deferred_commit = version]
      [] r.m_state = "Active" -> Announce(r, version)
      [] OTHER -> r

access_token_expired(r) ==
    IF r.m_state # "Active" THEN r
    ELSE [advance_state(r, "WaitingForAccessToken") EXCEPT !.next = <<Todo("bind", r.id)>>]

wait_for_completion(r, dir, w) ==
    LET q == [r EXCEPT !.queue[dir] = @ \cup {w}]
    IN  IF r.queue[dir] = {} /\ r.m_state \in {"Active", "Dying"}
        THEN add_completion_callback(q, dir)
        ELSE q

(* Mutant: the callbacks are copied, and stay in the queue. *)
M_cancel_pending_waits(r) == [r EXCEPT !.next = CancelAll(r.id, Queued(r.queue))]

cancel_pending_waits(r) ==
    [r EXCEPT !.queue = NoQueue, !.next = CancelAll(r.id, Queued(r.queue))]

(* Client resync: the callbacks are put aside while the session is torn    *)
(* down, and put back by an unlocked assignment.                           *)
client_resync(r) ==
    LET a == advance_state([r EXCEPT !.resync_counter = @ + 1, !.queue = NoQueue], "Inactive")
    IN  [a EXCEPT !.next = @ \o <<[do |-> "restore", of |-> r.id, queue |-> r.queue],
                                  Todo("revive", r.id)>>]

-----------------------------------------------------------------------------
(* Threads.                                                                *)
Busy(t)     == op[t] # "none"
Calm        == \A t \in All : ~Busy(t)
Plans(t)    == {todo[t][i] : i \in DOMAIN todo[t]}
Inside(t,o) == \E step \in Plans(t) : step.of = o
NotFailed   == \A o \in Objects : s[o].failed = "no"

(* Somebody holds a shared_ptr to the session. *)
Alive(o) ==
    \/ registered = o
    \/ o \in refs
    \/ handle = [of |-> o, kind |-> "strong"]
    \/ \E t \in All : Inside(t, o)

(* An open Realm holds the external reference: get_session has returned it *)
Held(o) == o \in refs /\ \A t \in All : op[t] # "create"

(* The application may have an RLMSyncSession, which holds it weakly.      *)
Reachable(o) == s[o].vended /\ Alive(o)

(* unregister_session locks the reference for as long as it looks at it.   *)
Looks(t, o)   == Todo("release", o) \in Plans(t)
Referenced(o) == o \in refs \/ \E t \in All : Looks(t, o)

(* Mutexes that are held across the steps of an operation. *)
HoldsSessionMutex(t) ==
    \/ op[t] \in {"get_session", "create", "reconnect"}
    \/ \E step \in Plans(t) : step.do = "unlock_manager"
HoldsUserMutex(t)    == \E step \in Plans(t) : step.do = "pool"
SessionMutexFree(t)  == \A u \in All \ {t} : ~HoldsSessionMutex(u)
UserMutexFree(t)     == \A u \in All \ {t} : ~HoldsUserMutex(u)

Leave(t, o, steps) ==
    /\ todo' = [todo EXCEPT ![t] = steps]
    /\ op' = [op EXCEPT ![t] = IF steps = <<>> THEN "none" ELSE o]

(* t leaves the lock of the session with r; rest is what its caller does.  *)
Unlock(t, name, r, rest) ==
    /\ s' = [s EXCEPT ![r.id] = [r EXCEPT !.next = <<>>]]
    /\ Leave(t, name, r.next \o rest)

Idle(t) == NotFailed /\ ~Busy(t)

Call(t) ==
    /\ Idle(t)
    /\ calls < MaxCalls
    /\ calls' = calls + 1

Others == <<registered, refs, user, policy, handle, committed, uploaded, called>>

(* The step t is at; it ends with Leave, or with Unlock.                   *)
At(t, what) ==
    /\ NotFailed
    /\ todo[t] # <<>>
    /\ Head(todo[t]).do = what
    /\ UNCHANGED calls

Session(t) == s[Head(todo[t]).of]

-----------------------------------------------------------------------------
(* SyncManager                                                             *)
get_session(t) ==
    /\ Call(t)
    /\ SessionMutexFree(t)
    /\ registered # 0
    /\ Leave(t, "get_session", <<Todo("register", registered), Todo("reference", registered)>>)
    /\ UNCHANGED <<s, Others>>

(* get_session when SyncManager has no session for the path. *)
create_session(t) ==
    /\ Call(t)
    /\ SessionMutexFree(t)
    /\ registered = 0 /\ Len(s) < MaxSessions
    /\ LET o == Len(s) + 1
       IN  /\ s' = Append(s, NewSession(o))
           /\ registered' = o /\ refs' = refs \cup {o}
           /\ Leave(t, "create", <<Todo("register", o), Todo("reference", o)>>)
    /\ UNCHANGED <<user, policy, handle, committed, uploaded, called>>

external_reference(t) ==
    /\ At(t, "reference")
    /\ refs' = refs \cup {Head(todo[t]).of}
    /\ Leave(t, op[t], Tail(todo[t]))
    /\ UNCHANGED <<s, registered, user, policy, handle, committed, uploaded, called>>

(* Mutant: the session is erased without a look at its references. *)
M_unregister_session(t) ==
    /\ At(t, "unregister")
    /\ \A u \in All : ~HoldsSessionMutex(u)
    /\ registered' = 0
    /\ Leave(t, op[t], Tail(todo[t]))
    /\ UNCHANGED <<s, refs, user, policy, handle, committed, uploaded, called>>

(* By path: the session that is dropped need not be the one that asks. *)
unregister_session(t) ==
    /\ At(t, "unregister")
    /\ \A u \in All : ~HoldsSessionMutex(u)
    /\ s' = IF registered # 0 THEN s
            ELSE [s EXCEPT ![Head(todo[t]).of].failed = "unregister_session"]
    /\ IF Referenced(registered)
       THEN /\ Leave(t, op[t], <<Todo("release", registered), Todo("unlock_manager", 0)>>
                                 \o Tail(todo[t]))
            /\ UNCHANGED registered
       ELSE registered' = 0 /\ Leave(t, op[t], Tail(todo[t]))
    /\ UNCHANGED <<refs, user, policy, handle, committed, uploaded, called>>

(* The reference it locked may be the last one by now. *)
release_reference(t) ==
    /\ At(t, "release")
    /\ LET o == Head(todo[t]).of
       IN  Leave(t, op[t], (IF o \in refs THEN <<>> ELSE <<Todo("did_drop", o)>>) \o Tail(todo[t]))
    /\ UNCHANGED <<s, Others>>

unlock_manager(t) ==
    /\ At(t, "unlock_manager")
    /\ Leave(t, op[t], Tail(todo[t]))
    /\ UNCHANGED <<s, Others>>

reconnect(t) ==
    /\ Call(t)
    /\ SessionMutexFree(t)
    /\ registered # 0 /\ s[registered].m_state = "WaitingForAccessToken"
    /\ Leave(t, "reconnect", <<Todo("bind", registered)>>)
    /\ UNCHANGED <<s, Others>>

-----------------------------------------------------------------------------
(* SyncUser                                                                *)
register_session(t) ==
    /\ At(t, "register")
    /\ UserMutexFree(t)
    /\ LET o == Head(todo[t]).of
       IN  CASE user.state = "Active" ->
                  /\ user' = [user EXCEPT !.sessions = o]
                  /\ s' = [s EXCEPT ![o].vended = TRUE]
                  /\ Leave(t, op[t], <<Todo("revive", o)>> \o Tail(todo[t]))
             [] OTHER ->
                  /\ user' = [user EXCEPT !.waiting = IF user.state = "LoggedOut" THEN o ELSE @]
                  /\ Leave(t, op[t], Tail(todo[t]))
                  /\ UNCHANGED s
    /\ UNCHANGED <<registered, refs, policy, handle, committed, uploaded, called>>

(* -[RLMSyncUser logOut]: SyncUser::log_out holds the user's mutex while   *)
(* it logs the session out and moves it to the waiting map; a handle that  *)
(* reports a refused token holds its session until it is invalidated.      *)
LogOut(held) == <<Todo("log_out_user", 0), Todo("invalidate_handles", held)>>

logOut(t) ==
    /\ Call(t)
    /\ Leave(t, "log_out", LogOut(0))
    /\ UNCHANGED <<s, Others>>

log_out_user(t) ==
    /\ At(t, "log_out_user")
    /\ UserMutexFree(t)
    /\ IF user.state = "LoggedOut"
       THEN Leave(t, op[t], Tail(todo[t])) /\ UNCHANGED user
       ELSE LET o == user.sessions
            IN  /\ user' = [user EXCEPT !.state = "LoggedOut"]
                /\ Leave(t, op[t], (IF o # 0 /\ Alive(o)
                                    THEN <<Todo("log_out", o), Todo("pool", o)>>
                                    ELSE <<Todo("pool", 0)>>) \o Tail(todo[t]))
    /\ UNCHANGED <<s, registered, refs, policy, handle, committed, uploaded, called>>

pool_session(t) ==
    /\ At(t, "pool")
    /\ LET o == Head(todo[t]).of
       IN  user' = [user EXCEPT !.sessions = 0, !.waiting = IF o # 0 THEN o ELSE @]
    /\ Leave(t, op[t], Tail(todo[t]))
    /\ UNCHANGED <<s, registered, refs, policy, handle, committed, uploaded, called>>

invalidate_all_handles(t) ==
    /\ At(t, "invalidate_handles")
    /\ handle' = NoHandle
    /\ Leave(t, op[t], Tail(todo[t]))
    /\ UNCHANGED <<s, registered, refs, user, policy, committed, uploaded, called>>

update_refresh_token(t) ==
    /\ Call(t)
    /\ UserMutexFree(t)
    /\ user.state = "LoggedOut"
    /\ LET o == user.waiting
       IN  IF o # 0 /\ Alive(o)
           THEN /\ user' = [state |-> "Active", sessions |-> o, waiting |-> 0]
                /\ s' = [s EXCEPT ![o].vended = TRUE]
                /\ Leave(t, "log_in", <<Todo("revive", o)>>)
           ELSE /\ user' = [user EXCEPT !.state = "Active", !.waiting = 0]
                /\ UNCHANGED <<s, op, todo>>
    /\ UNCHANGED <<registered, refs, policy, handle, committed, uploaded, called>>

invalidate(t) ==
    /\ At(t, "invalidate")
    /\ UserMutexFree(t)
    /\ user' = [user EXCEPT !.state = "Error"]
    /\ Leave(t, op[t], Tail(todo[t]))
    /\ UNCHANGED <<s, registered, refs, policy, handle, committed, uploaded, called>>

-----------------------------------------------------------------------------
(* SyncSession: operations that start a call.                              *)
DropReference(t, o) ==
    /\ Call(t)
    /\ Held(o) /\ \A u \in All : op[u] # "commit"   \* a Realm that writes is open
    /\ refs' = refs \ {o}
    /\ IF \E u \in All : Looks(u, o)
       THEN UNCHANGED <<op, todo>>
       ELSE Leave(t, "drop", <<Todo("did_drop", o)>>)
    /\ UNCHANGED <<s, registered, user, policy, handle, committed, uploaded, called>>

did_drop_external_reference(t) ==
    /\ At(t, "did_drop")
    /\ LET r == Session(t)
       IN  Unlock(t, op[t], IF Referenced(r.id) THEN r ELSE state_close(r), Tail(todo[t]))
    /\ UNCHANGED Others

suspend(t, o) ==
    /\ Call(t)
    /\ Reachable(o)
    /\ Unlock(t, "suspend", state_log_out(s[o]), <<>>)
    /\ UNCHANGED Others

session_log_out(t) ==
    /\ At(t, "log_out")
    /\ Unlock(t, op[t], state_log_out(Session(t)), Tail(todo[t]))
    /\ UNCHANGED Others

resume(t, o) ==
    /\ Call(t)
    /\ Reachable(o)
    /\ Unlock(t, "resume", state_revive(s[o]), <<>>)
    /\ UNCHANGED Others

revive_if_needed(t) ==
    /\ At(t, "revive")
    /\ Unlock(t, op[t], state_revive(Session(t)), Tail(todo[t]))
    /\ UNCHANGED Others

wait_for(t, o, dir, w) ==
    /\ Call(t)
    /\ Reachable(o) \/ Held(o)
    /\ w \notin DOMAIN called
    /\ called' = [v \in DOMAIN called \cup {w} |-> IF v = w THEN 0 ELSE called[v]]
    /\ Unlock(t, "wait", wait_for_completion(s[o], dir, w), <<>>)
    /\ UNCHANGED <<registered, refs, user, policy, handle, committed, uploaded>>

update_configuration(t) ==
    /\ Call(t)
    /\ UserMutexFree(t)
    /\ user.sessions # 0 /\ Alive(user.sessions) /\ user.state # "Error"
    /\ Leave(t, "reconfigure", <<Todo("reconfigure", user.sessions)>>)
    /\ UNCHANGED <<s, Others>>

reconfigure(t) ==
    /\ At(t, "reconfigure")
    /\ LET r == Session(t)
       IN  IF r.m_state = "Inactive"
           THEN Leave(t, op[t], <<Todo("revive", r.id)>>) /\ UNCHANGED s
           ELSE Unlock(t, op[t], advance_state(r, "Inactive"), todo[t])
    /\ UNCHANGED Others

(* RealmCoordinator::commit_write: the version is in the file before the   *)
(* latest one is read, and that before the session hears of it.            *)
commit_write(t, o) ==
    /\ Call(t)
    /\ Held(o) /\ committed < MaxVersion
    /\ committed' = committed + 1
    /\ Leave(t, "commit", <<Todo("latest", o)>>)
    /\ UNCHANGED <<s, registered, refs, user, policy, handle, uploaded, called>>

get_version_of_latest_snapshot(t) ==
    /\ At(t, "latest")
    /\ Leave(t, op[t], <<[do |-> "notify", of |-> Head(todo[t]).of, version |-> committed]>>)
    /\ UNCHANGED <<s, Others>>

nonsync_transact_notify(t) ==
    /\ At(t, "notify")
    /\ Unlock(t, op[t], state_notify(Session(t), Head(todo[t]).version), Tail(todo[t]))
    /\ UNCHANGED Others

-----------------------------------------------------------------------------
(* The binding: RLMSyncSessionRefreshHandle asks the server for a token    *)
(* and keeps the session alive until the first answer.                     *)
bind_session_handler(t) ==
    /\ At(t, "bind")
    /\ UserMutexFree(t)          \* for SyncUser::refresh_token
    /\ handle' = [of |-> Head(todo[t]).of, kind |-> "strong"]
    /\ Leave(t, op[t], Tail(todo[t]))
    /\ UNCHANGED <<s, registered, refs, user, policy, committed, uploaded, called>>

Requested == handle.kind \in {"strong", "weak"}
Answered  == [handle EXCEPT !.kind = "answered"]

(* The token arrives.  The handle sets its timer, or goes when the token   *)
(* expires too soon for that or the session is dead.                       *)
refresh_access_token(t) ==
    /\ Idle(t)
    /\ Requested
    /\ \/ /\ Alive(handle.of)
          /\ handle' = [handle EXCEPT !.kind = "timer"]
          /\ Unlock(t, "token", state_refresh(s[handle.of]), <<>>)
       \/ /\ Alive(handle.of)
          /\ handle' = Answered
          /\ Unlock(t, "token", state_refresh(s[handle.of]), <<Todo("unregister_handle", 0)>>)
       \/ /\ ~Alive(handle.of)
          /\ handle' = Answered
          /\ Leave(t, "token", <<Todo("unregister_handle", 0)>>)
          /\ UNCHANGED s
    /\ UNCHANGED <<registered, refs, user, policy, committed, uploaded, called, calls>>

timer_fired ==
    /\ NotFailed
    /\ handle.kind = "timer"
    /\ \A t \in All : ~HoldsUserMutex(t)
    /\ handle' = [handle EXCEPT !.kind = "weak"]
    /\ UNCHANGED <<s, registered, refs, user, policy, op, todo, committed, uploaded, called, calls>>

(* The network fails, and the request is made again without the session.   *)
retry_request ==
    /\ NotFailed
    /\ handle.kind = "strong"
    /\ handle' = [handle EXCEPT !.kind = "weak"]
    /\ UNCHANGED <<s, registered, refs, user, policy, op, todo, committed, uploaded, called, calls>>

(* Another failure logs a session out that is held; it is reported by      *)
(* logging the user out, which releases the session, when the application  *)
(* asked for that; and an answer that cannot be read does neither.         *)
request_failed(t, how) ==
    /\ Call(t)
    /\ Requested
    /\ handle' = Answered
    /\ LET held == IF handle.kind = "strong" THEN handle.of ELSE 0
       IN  Leave(t, "answer",
                 CASE how = "refused" /\ held # 0 ->
                          <<Todo("log_out", held), Todo("unregister_handle", held)>>
                   [] how = "reported" -> LogOut(held) \o <<Todo("unregister_handle", 0)>>
                   [] OTHER            -> <<Todo("unregister_handle", held)>>)
    /\ UNCHANGED <<s, registered, refs, user, policy, committed, uploaded, called>>

(* By path, whichever handle is there. *)
unregister_refresh_handle(t) ==
    /\ At(t, "unregister_handle")
    /\ handle' = NoHandle
    /\ Leave(t, op[t], Tail(todo[t]))
    /\ UNCHANGED <<s, registered, refs, user, policy, committed, uploaded, called>>

-----------------------------------------------------------------------------
(* The event loop of the sync client.                                      *)
Working(o) == s[o].m_session /\ s[o].bound /\ s[o].halt = "no" /\ Alive(o)

Upload(o) ==
    /\ NotFailed
    /\ Working(o)
    /\ uploaded < s[o].announced
    /\ uploaded' = uploaded + 1
    /\ UNCHANGED <<s, registered, refs, user, policy, op, todo, handle, committed, called, calls>>

(* What the completion handler p does to the session. *)
Completed(r, p) ==
    CASE p.death /\ r.m_state = "Dying" /\ r.death_count = p.tag -> advance_state(r, "Inactive")
      [] ~p.death /\ r.resync_counter = p.tag ->
            [r EXCEPT !.queue[p.dir] = {}, !.next = CancelAll(r.id, r.queue[p.dir])]
      [] OTHER -> r

complete(o, p) ==
    /\ Idle(Loop)
    /\ Alive(o)
    /\ p.live => Working(o) /\ (p.dir = "upload" => p.upto <= uploaded)
    /\ Unlock(Loop, "complete", Completed([s[o] EXCEPT !.pending = @ \ {p}], p), <<>>)
    /\ UNCHANGED <<Others, calls>>

(* An error of the server halts the sync::Session; handle_error asks the   *)
(* state first, under the lock, and then takes the lock again.             *)
server_error(o, e) ==
    /\ Call(Loop)
    /\ Working(o)
    /\ s' = [s EXCEPT ![o].halt = IF e \in Fatal THEN "fatal" ELSE "expired"]
    /\ Leave(Loop, "error", <<[do |-> "ask", of |-> o, error |-> e]>>)
    /\ UNCHANGED Others

handle_error(t) ==
    /\ At(t, "ask")
    /\ LET e == Head(todo[t]).error
           r == Session(t)
       IN  IF r.m_state # "Dying"
           THEN Leave(t, op[t], <<Todo(e, r.id)>>) /\ UNCHANGED s
           ELSE Unlock(t, op[t], IF e \in Fatal THEN advance_state(r, "Inactive") ELSE r, <<>>)
    /\ UNCHANGED Others

ErrorEffect(e, r) ==
    CASE e = "token_expired"     -> access_token_expired(r)
      [] e = "client_reset"      -> client_resync(r)
      [] e = "permission_denied" -> advance_state(r, "Inactive")
      [] OTHER                   -> cancel_pending_waits(r)

error_effect(t, e) ==
    /\ At(t, e)
    /\ Unlock(t, op[t], ErrorEffect(e, Session(t)),
              IF e = "bad_authentication" THEN <<Todo("invalidate", 0)>> ELSE <<>>)
    /\ UNCHANGED Others

restore_callbacks(t) ==
    /\ At(t, "restore")
    /\ LET step == Head(todo[t])
       IN  s' = [s EXCEPT ![step.of].queue = step.queue,
                          ![step.of].late = IF Session(t).m_state = "Inactive" THEN {}
                                            ELSE Queued(step.queue)]
    /\ Leave(t, op[t], Tail(todo[t]))
    /\ UNCHANGED Others

(* Callbacks run without the lock. *)
call_callbacks(t) ==
    /\ At(t, "cancel")
    /\ called' = [w \in DOMAIN called |-> called[w] + IF w \in Head(todo[t]).waits THEN 1 ELSE 0]
    /\ Leave(t, op[t], Tail(todo[t]))
    /\ UNCHANGED <<s, registered, refs, user, policy, handle, committed, uploaded>>

-----------------------------------------------------------------------------
Starts(t) ==
    \/ get_session(t) \/ create_session(t) \/ reconnect(t)
    \/ logOut(t) \/ update_refresh_token(t) \/ update_configuration(t)
    \/ \E how \in {"refused", "reported", "malformed"} : request_failed(t, how)
    \/ \E o \in Objects :
          \/ DropReference(t, o) \/ suspend(t, o) \/ resume(t, o) \/ commit_write(t, o)
          \/ \E dir \in Dirs, w \in Waiters : wait_for(t, o, dir, w)

Continues(t) ==
    \/ external_reference(t) \/ unregister_session(t) \/ release_reference(t)
    \/ unlock_manager(t) \/ register_session(t)
    \/ log_out_user(t) \/ pool_session(t) \/ invalidate_all_handles(t) \/ invalidate(t)
    \/ did_drop_external_reference(t) \/ session_log_out(t) \/ revive_if_needed(t)
    \/ reconfigure(t) \/ get_version_of_latest_snapshot(t) \/ nonsync_transact_notify(t)
    \/ bind_session_handler(t) \/ unregister_refresh_handle(t)
    \/ handle_error(t) \/ (\E e \in Errors : error_effect(t, e)) \/ restore_callbacks(t)
    \/ call_callbacks(t)

Completes == \E o \in Objects : \E p \in s[o].pending : complete(o, p)
Uploads   == \E o \in Objects : Upload(o)
Refreshes == \E t \in Threads : refresh_access_token(t)

Next ==
    \/ \E t \in Threads : Starts(t)
    \/ \E t \in All : Continues(t)
    \/ Refreshes \/ timer_fired \/ retry_request
    \/ Completes \/ Uploads
    \/ \E o \in Objects, e \in Errors : server_error(o, e)

(* Whatever is under way goes on: an operation that was begun, a request   *)
(* for a token, the event loop and the upload.                             *)
Spec ==
    /\ Init /\ [][Next]_vars
    /\ \A t \in All : WF_vars(Continues(t))
    /\ WF_vars(Refreshes) /\ WF_vars(Completes) /\ WF_vars(Uploads)

-----------------------------------------------------------------------------
(* Types, with n session objects and c versions committed.                 *)
States   == {"Inactive", "WaitingForAccessToken", "Active", "Dying"}
Queues   == [Dirs -> SUBSET Waiters]
OpNames  == {"none", "get_session", "create", "reconnect", "log_out", "log_in", "drop",
             "suspend", "resume", "wait", "reconfigure", "commit", "token", "answer",
             "complete", "error"}

Handlers(c) == [dir : Dirs, death : BOOLEAN, live : BOOLEAN, upto : 0..c, tag : Nat, n : Nat]

(* What a session leaves to be done once its lock is out, and all steps.   *)
Follows(n) ==
    [do : {"unregister", "bind", "revive"}, of : 1..n]
    \cup [do : {"cancel"}, of : 1..n, waits : SUBSET Waiters]
    \cup [do : {"restore"}, of : 1..n, queue : Queues]

Steps(n, c) ==
    Follows(n)
    \cup [do : {"register", "reference", "release", "log_out", "did_drop", "reconfigure",
                "latest"} \cup Errors, of : 1..n]
    \cup [do : {"unlock_manager", "log_out_user", "invalidate_handles", "pool", "invalidate",
                "unregister_handle"}, of : 0..n]
    \cup [do : {"notify"}, of : 1..n, version : 0..c]
    \cup [do : {"ask"}, of : 1..n, error : Errors]

Sessions(n, c) ==
    [id : 1..n, m_state : States, m_session : BOOLEAN, bound : BOOLEAN,
     halt : {"no", "expired", "fatal"}, deferred_close : BOOLEAN, deferred_commit : 0..c,
     announced : 0..c, death_count : Nat, resync_counter : Nat, queue : Queues,
     pending : SUBSET Handlers(c), made : Nat, late : SUBSET Waiters, vended : BOOLEAN,
     failed : {"no", "advance_state", "unregister_session"}, next : Seq(Follows(n))]

(* wait_for_completion asserts that a session that is up has its           *)
(* sync::Session.                                                          *)
Driven(r) == r.m_state \in {"Active", "Dying"} => r.m_session

(* Types of the variables.  Nobody hears of a version before it is         *)
(* committed, and what was uploaded was announced.                         *)
TypeOK ==
    /\ s \in Seq(Sessions(Len(s), committed)) /\ Len(s) <= MaxSessions
    /\ \A o \in Objects : s[o].id = o /\ s[o].next = <<>> /\ Driven(s[o])
    /\ registered \in 0..Len(s)
    /\ refs \subseteq Objects
    /\ user \in [state : {"Active", "LoggedOut", "Error"}, sessions : 0..Len(s),
                 waiting : 0..Len(s)]
    /\ policy \in Policies
    /\ op \in [All -> OpNames]
    /\ todo \in [All -> Seq(Steps(Len(s), committed))]
    /\ \A t \in All : op[t] = "none" <=> todo[t] = <<>>
    /\ handle \in [of : 0..Len(s), kind : {"none", "strong", "weak", "answered", "timer"}]
    /\ handle.kind # "none" => handle.of # 0
    /\ committed \in 0..MaxVersion /\ uploaded \in 0..committed
    /\ DOMAIN called \subseteq Waiters /\ called \in [DOMAIN called -> Nat]
    /\ calls \in 0..MaxCalls

-----------------------------------------------------------------------------
(* Safety.                                                                 *)

(* While a Realm holds a session, SyncManager finds that session and no    *)
(* other: get_session never makes a second one for a file that is open.    *)
ReferencedIsRegistered == refs \subseteq {registered}

(* A callback waits in the queue of one session, or in the hands of one    *)
(* thread; it is called when it leaves them, and only then, once; except   *)
(* that a client resync that puts its callbacks back overwrites those      *)
(* that have come since (sync_session.cpp:503).                            *)
InHand(step) ==
    CASE step.do = "cancel"  -> step.waits
      [] step.do = "restore" -> Queued(step.queue)
      [] OTHER -> {}

Waiting ==
    UNION {Queued(s[o].queue) : o \in Objects}
        \cup UNION {UNION {InHand(step) : step \in Plans(t)} : t \in All}

Restoring(t) == todo[t] # <<>> /\ Head(todo[t]).do = "restore"

Overwritten ==
    UNION {Queued(Session(t).queue) : t \in {u \in All : Restoring(u) /\ todo'[u] # todo[u]}}

CalledOnce ==
    [][\A w \in DOMAIN called :
          /\ called'[w] = called[w] + IF w \in Waiting \ (Waiting' \cup Overwritten) THEN 1 ELSE 0
          /\ called[w] # 0 => w \notin Waiting \cup Waiting']_vars

(* A dying session that its completion handler closes has uploaded         *)
(* everything it was told of, although it may have been revived and closed *)
(* again while earlier handlers were on their way.                         *)
ClosedAfterUpload ==
    [][\A o \in Objects :
         (/\ s[o].m_state = "Dying" /\ s'[o].m_state = "Inactive"
          /\ op[Loop] = "none" /\ op'[Loop] = "complete") => s[o].announced <= uploaded]_vars

-----------------------------------------------------------------------------
(* Liveness.                                                               *)

(* get_session takes SyncManager's mutex and then SyncUser's, log_out      *)
(* SyncUser's and then SyncManager's; and unregister_session may drop the  *)
(* last reference under the mutex it needs for that.                       *)
Deadlocked ==
    \E t, u \in All :
        /\ todo[u] # <<>> /\ Head(todo[u]).do = "unregister"
        /\ HoldsSessionMutex(t)
        /\ \/ t = u
           \/ HoldsUserMutex(u) /\ todo[t] # <<>> /\ Head(todo[t]).do \in {"register", "bind"}

(* No token, no connection or nobody left who would use them. *)
Stuck(o) ==
    \/ ~Alive(o)
    \/ s[o].m_state = "Inactive"
    \/ s[o].m_state = "WaitingForAccessToken" /\ ~(Requested /\ handle.of = o)
    \/ s[o].m_session /\ s[o].halt # "no"

(* A callback does not wait for ever, unless its session is down or stuck, *)
(* or a client resync put it back into a session that was already revived  *)
(* and had no handler for it.                                              *)
WaitersAreCalled ==
    \A w \in Waiters :
        \/ []<>(w \notin Waiting)
        \/ <>[](\/ Deadlocked \/ ~NotFailed
                \/ \E o \in Objects : w \in Queued(s[o].queue) /\ (Stuck(o) \/ w \in s[o].late))

(* A dying session is revived or closes, unless an error stops its upload. *)
DyingSessionsClose ==
    \A o \in 1..MaxSessions :
        \/ []<>(o \notin Objects \/ s[o].m_state # "Dying")
        \/ <>[](Deadlocked \/ ~NotFailed \/ ~Alive(o) \/ s[o].halt # "no")

-----------------------------------------------------------------------------
(* What the comments of the code say, and the code does not do.            *)

(* SyncManager knows the session that is unregistered (sync_manager.cpp:498). *)
UnregisterFindsSession == \A o \in Objects : s[o].failed # "unregister_session"

(* A session advances to another state only (sync_session.cpp:764).        *)
AdvanceChangesState == \A o \in Objects : s[o].failed # "advance_state"

(* No two threads wait for each other's mutex, and none for its own.       *)
NoDeadlock == ~Deadlocked

(* A session that a Realm holds is not on its way down.                    *)
ReferencedStaysOpen ==
    Calm /\ user.state = "Active" => \A o \in refs : s[o].m_state # "Dying"

(* Once the user is logged out its sessions are down.                      *)
LoggedOutIsDown ==
    Calm /\ user.state = "LoggedOut" =>
        \A o \in Objects : Alive(o) => s[o].m_state = "Inactive"

(* A callback that was not called still waits.                             *)
NoCallbackIsLost == \A w \in DOMAIN called : called[w] = 0 => w \in Waiting

(* An active session knows of every version the open Realm has committed.  *)
CommitsAreAnnounced ==
    (\A t \in All : op[t] # "commit") =>
        \A o \in refs : s[o].m_state = "Active" => s[o].announced = committed
=============================================================================
