------------------------- MODULE SyncSession_proofs -------------------------
(***************************************************************************)
(* Proofs about SyncSession, for any number of threads, callbacks, session *)
(* objects, versions and calls: its types, that a session a Realm holds is *)
(* the one SyncManager knows, and that a dying session closes only when    *)
(* everything it was told of is uploaded.                                  *)
(***************************************************************************)
EXTENDS SyncSession, SequenceTheorems, TLAPS

-----------------------------------------------------------------------------
(* The invariant of one session.                                           *)

(* A handler that may close a dying session waits for everything that the  *)
(* session has announced; the others belong to an earlier death.           *)
Awaits(r) ==
    \A p \in r.pending : p.death =>
        /\ p.tag <= r.death_count
        /\ r.m_state = "Dying" /\ p.tag = r.death_count
              => p.live /\ p.dir = "upload" /\ r.announced <= p.upto

Sound(n, c, r) == r \in Sessions(n, c) /\ Driven(r) /\ Awaits(r)

(* What an operation makes of the session r under the lock.                *)
Becomes(n, c, r, x) == Sound(n, c, x) /\ x.id = r.id

(* The lists of steps that the operations leave behind.                    *)
LEMMA FollowsTyped ==
    ASSUME NEW n \in Nat, NEW o \in 1..n
    PROVE  \A x \in {"unregister", "bind", "revive"} : Todo(x, o) \in Follows(n)
  BY DEF Todo, Follows

LEMMA QueuedTyped ==
    ASSUME NEW q \in Queues
    PROVE  Queued(q) \in SUBSET Waiters
  BY DEF Queued, Queues, Dirs

LEMMA NoQueueTyped == NoQueue \in Queues
  BY DEF NoQueue, Queues

LEMMA CancelTyped ==
    ASSUME NEW n \in Nat, NEW c \in Nat, NEW o \in 1..n, NEW W \in SUBSET Waiters
    PROVE  CancelAll(o, W) \in Seq(Follows(n))
<1>1. [do |-> "cancel", of |-> o, waits |-> W] \in Follows(n)
  BY DEF Follows
<1> QED
  BY <1>1 DEF CancelAll

LEMMA HandlerTyped ==
    ASSUME NEW n \in Nat, NEW c \in Nat, NEW r \in Sessions(n, c), NEW d \in Dirs
    PROVE  /\ Handler(r, d, FALSE) \in Handlers(c) /\ ~Handler(r, d, FALSE).death
           /\ Handler(r, d, TRUE) \in Handlers(c) /\ Handler(r, d, TRUE).death
           /\ Handler(r, d, TRUE).live /\ Handler(r, d, TRUE).upto = r.announced
           /\ Handler(r, d, TRUE).tag = r.death_count /\ Handler(r, d, TRUE).dir = d
<1>1. r.announced \in 0..c /\ r.death_count \in Nat /\ r.resync_counter \in Nat /\ r.made \in Nat
  BY DEF Sessions
<1> QED
  BY <1>1 DEF Handler, Handlers

-----------------------------------------------------------------------------
(* The operations on one session keep its invariant.                       *)

LEMMA UnregisterNext ==
    ASSUME NEW n \in Nat, NEW c \in Nat, NEW r \in Sessions(n, c)
    PROVE  /\ <<Todo("unregister", r.id)>> \in Seq(Follows(n))
           /\ <<Todo("bind", r.id)>> \in Seq(Follows(n))
           /\ <<Todo("revive", r.id)>> \in Seq(Follows(n))
           /\ \A W \in SUBSET Waiters : CancelAll(r.id, W) \in Seq(Follows(n))
           /\ \A W \in SUBSET Waiters :
                  <<Todo("unregister", r.id)>> \o CancelAll(r.id, W) \in Seq(Follows(n))
<1>1. r.id \in 1..n
  BY DEF Sessions
<1>2. /\ Todo("unregister", r.id) \in Follows(n) /\ Todo("bind", r.id) \in Follows(n)
      /\ Todo("revive", r.id) \in Follows(n)
  BY <1>1, FollowsTyped
<1>3. \A W \in SUBSET Waiters : CancelAll(r.id, W) \in Seq(Follows(n))
  BY <1>1, CancelTyped
<1> HIDE DEF Follows, Todo, CancelAll
<1> QED
  BY <1>2, <1>3

LEMMA EnterInactive ==
    ASSUME NEW n \in Nat, NEW c \in Nat, NEW r, Sound(n, c, r)
    PROVE  Becomes(n, c, r, enter_inactive(r)) /\ enter_inactive(r).m_state = "Inactive"
<1> DEFINE x  == enter_inactive(r)
           P  == {[p EXCEPT !.live = FALSE] : p \in r.pending}
           nx == <<Todo("unregister", r.id)>> \o CancelAll(r.id, Queued(r.queue))
<1>1. r \in Sessions(n, c)
  BY DEF Sound
<1>2. nx \in Seq(Follows(n))
  BY <1>1, UnregisterNext, QueuedTyped DEF Sessions
<1>3. /\ P \in SUBSET Handlers(c)
      /\ \A p \in P : \E z \in r.pending : p.death = z.death /\ p.tag = z.tag
  <2>1. \A z \in r.pending : z \in Handlers(c)
    BY <1>1 DEF Sessions
  <2>2. \A z \in Handlers(c) : LET p == [z EXCEPT !.live = FALSE]
                               IN  p \in Handlers(c) /\ p.death = z.death /\ p.tag = z.tag
    BY DEF Handlers
  <2> QED
    BY <2>1, <2>2
<1>4. x = [[r EXCEPT !.m_session = FALSE, !.announced = 0, !.halt = "no", !.pending = P]
             EXCEPT !.m_state = "Inactive", !.queue = NoQueue, !.next = nx]
  BY DEF enter_inactive, terminate
<1> HIDE DEF x, P, nx
<1>5. /\ x \in Sessions(n, c) /\ x.id = r.id /\ x.m_state = "Inactive" /\ x.pending = P
      /\ x.death_count = r.death_count
  <2> DEFINE y == [r EXCEPT !.m_session = FALSE, !.announced = 0, !.halt = "no", !.pending = P]
  <2>1. /\ y \in Sessions(n, c) /\ y.id = r.id /\ y.pending = P /\ y.death_count = r.death_count
        /\ y.m_session = FALSE
    <3>1. 0 \in 0..c /\ P \in SUBSET Handlers(c)
      BY <1>3
    <3> QED
      BY <1>1, <3>1 DEF Sessions
  <2>2. x = [y EXCEPT !.m_state = "Inactive", !.queue = NoQueue, !.next = nx]
    BY <1>4
  <2> HIDE DEF y
  <2> QED
    BY <1>2, <2>1, <2>2, NoQueueTyped DEF Sessions, States
<1>6. Awaits(x)
  BY <1>3, <1>5 DEF Awaits, Sound
<1> QED
  BY <1>5, <1>6 DEF Becomes, Sound, Driven, x

LEMMA EnterWaiting ==
    ASSUME NEW n \in Nat, NEW c \in Nat, NEW r, Sound(n, c, r)
    PROVE  Becomes(n, c, r, enter_waiting(r))
  BY DEF Becomes, Sound, enter_waiting, Sessions, States, Driven, Awaits

LEMMA WithNext ==
    ASSUME NEW n \in Nat, NEW c \in Nat, NEW r, NEW x, Becomes(n, c, r, x),
           NEW q \in Seq(Follows(n))
    PROVE  Becomes(n, c, r, [x EXCEPT !.next = q])
<1> HIDE DEF Follows, Handlers
<1> QED
  BY DEF Becomes, Sound, Sessions, Driven, Awaits

LEMMA EnterActive ==
    ASSUME NEW n \in Nat, NEW c \in Nat, NEW r, Sound(n, c, r), r.m_session
    PROVE  Becomes(n, c, r, enter_active(r))
<1> DEFINE x == enter_active(r)
           H == {Handler(r, d, FALSE) : d \in {e \in Dirs : r.queue[e] # {}}}
<1>1. r \in Sessions(n, c)
  BY DEF Sound
<1>2. H \in SUBSET Handlers(c) /\ \A p \in H : ~p.death
  <2>1. \A d \in Dirs : Handler(r, d, FALSE) \in Handlers(c) /\ ~Handler(r, d, FALSE).death
    BY <1>1, HandlerTyped
  <2> QED
    BY <2>1
<1>3. x = [r EXCEPT !.m_state = "Active", !.made = @ + 1, !.pending = @ \cup H]
  BY DEF enter_active
<1> HIDE DEF x, H
<1>4. /\ x \in Sessions(n, c) /\ x.id = r.id /\ x.m_state = "Active" /\ x.m_session = r.m_session
      /\ x.pending = r.pending \cup H /\ x.death_count = r.death_count
  <2>1. r.made + 1 \in Nat /\ r.pending \cup H \in SUBSET Handlers(c)
    BY <1>1, <1>2 DEF Sessions
  <2> QED
    BY <1>1, <1>3, <2>1 DEF Sessions, States
<1>5. Awaits(x)
  BY <1>2, <1>4 DEF Awaits, Sound
<1> QED
  BY <1>4, <1>5 DEF Becomes, Sound, Driven, x

LEMMA DeathWait ==
    ASSUME NEW n \in Nat, NEW c \in Nat, NEW y \in Sessions(n, c), y.m_session,
           \A p \in y.pending : p.death => p.tag < y.death_count
    PROVE  Becomes(n, c, y, async_wait(y, "upload", TRUE))
<1> DEFINE h == Handler(y, "upload", TRUE)
           x == async_wait(y, "upload", TRUE)
<1>1. "upload" \in Dirs
  BY DEF Dirs
<1>2. /\ h \in Handlers(c)
      /\ h.death /\ h.live /\ h.upto = y.announced /\ h.tag = y.death_count /\ h.dir = "upload"
  BY <1>1, HandlerTyped
<1>0. x = [y EXCEPT !.pending = @ \cup {h}, !.made = @ + 1]
  BY DEF async_wait
<1> HIDE DEF x, h
<1>3. /\ x \in Sessions(n, c) /\ x.id = y.id /\ x.m_state = y.m_state
      /\ x.m_session = y.m_session /\ x.announced = y.announced
      /\ x.death_count = y.death_count /\ x.pending = y.pending \cup {h}
  <2>1. y.pending \cup {h} \in SUBSET Handlers(c) /\ y.made + 1 \in Nat
    BY <1>2 DEF Sessions
  <2> QED
    BY <1>0, <2>1 DEF Sessions
<1>4. /\ y.announced \in Nat /\ y.death_count \in Nat
      /\ \A p \in y.pending : p.tag \in Nat
  BY DEF Sessions, Handlers
<1>5. Awaits(x)
  <2> SUFFICES ASSUME NEW p \in x.pending, p.death
               PROVE  /\ p.tag <= x.death_count
                      /\ x.m_state = "Dying" /\ p.tag = x.death_count
                            => p.live /\ p.dir = "upload" /\ x.announced <= p.upto
    BY DEF Awaits
  <2>1. CASE p = h
    BY <2>1, <1>2, <1>3, <1>4
  <2>2. CASE p \in y.pending
    BY <2>2, <1>3, <1>4
  <2> QED
    BY <2>1, <2>2, <1>3
<1> QED
  BY <1>3, <1>5 DEF Becomes, Sound, Driven, x

LEMMA EnterDying ==
    ASSUME NEW n \in Nat, NEW c \in Nat, NEW r, Sound(n, c, r)
    PROVE  Becomes(n, c, r, enter_dying(r))
<1>1. CASE ~r.m_session
  <2>1. enter_dying(r) = enter_inactive(r)
    BY <1>1 DEF enter_dying
  <2> QED
    BY <2>1, EnterInactive
<1>2. CASE r.m_session
  <2>1. PICK y : y = [r EXCEPT !.m_state = "Dying", !.death_count = @ + 1]
    OBVIOUS
  <2>2. enter_dying(r) = async_wait(y, "upload", TRUE)
    BY <1>2, <2>1 DEF enter_dying
  <2>3. /\ r \in Sessions(n, c) /\ r.death_count \in Nat /\ r.death_count + 1 \in Nat
        /\ r.pending \in SUBSET Handlers(c)
    BY DEF Sound, Sessions
  <2>4. /\ y \in Sessions(n, c) /\ y.id = r.id /\ y.m_session = r.m_session
        /\ y.death_count = r.death_count + 1 /\ y.pending = r.pending
    BY <2>1, <2>3 DEF Sessions, States
  <2>5. \A p \in r.pending : p.tag \in Nat /\ (p.death => p.tag <= r.death_count)
    BY <2>3 DEF Handlers, Sound, Awaits
  <2>6. Becomes(n, c, y, async_wait(y, "upload", TRUE))
    <3>1. y.m_session /\ \A p \in y.pending : p.death => p.tag < y.death_count
      BY <1>2, <2>3, <2>4, <2>5
    <3> QED
      BY <2>4, <3>1, DeathWait
  <2> QED
    BY <2>2, <2>4, <2>6 DEF Becomes
<1> QED
  BY <1>1, <1>2

LEMMA AdvanceEffect ==
    ASSUME NEW n \in Nat, NEW c \in Nat, NEW r, Sound(n, c, r), NEW st \in States,
           st = "Active" => r.m_session
    PROVE  Becomes(n, c, r, advance_state(r, st))
<1>1. CASE st = r.m_state
  BY <1>1 DEF advance_state, Becomes, Sound, Sessions, Driven, Awaits
<1>2. CASE st # r.m_state
  BY <1>2, EnterInactive, EnterWaiting, EnterActive, EnterDying DEF advance_state, States
<1> QED
  BY <1>1, <1>2

LEMMA Unchanged ==
    ASSUME NEW n \in Nat, NEW c \in Nat, NEW r, Sound(n, c, r)
    PROVE  Becomes(n, c, r, r)
  BY DEF Becomes

LEMMA Chained ==
    ASSUME NEW n \in Nat, NEW c \in Nat, NEW r, NEW x, NEW y,
           Becomes(n, c, r, x), Becomes(n, c, x, y)
    PROVE  Becomes(n, c, r, y)
  BY DEF Becomes

LEMMA CloseEffect ==
    ASSUME NEW n \in Nat, NEW c \in Nat, NEW r, Sound(n, c, r)
    PROVE  Becomes(n, c, r, state_close(r))
<1>1. r.m_state \in States /\ r \in Sessions(n, c)
  BY DEF Sound, Sessions
<1>2. Becomes(n, c, r, [r EXCEPT !.next = <<Todo("unregister", r.id)>>])
  BY <1>1, Unchanged, UnregisterNext, WithNext
<1>3. Becomes(n, c, r, [r EXCEPT !.deferred_close = TRUE])
  BY <1>1 DEF Becomes, Sound, Sessions, Driven, Awaits
<1>4. Becomes(n, c, r, advance_state(r, "Inactive")) /\ Becomes(n, c, r, advance_state(r, "Dying"))
  BY AdvanceEffect DEF States
<1>5. Becomes(n, c, r, r)
  BY Unchanged
<1> QED
  BY <1>1, <1>2, <1>3, <1>4, <1>5 DEF state_close, States

LEMMA LogOutEffect ==
    ASSUME NEW n \in Nat, NEW c \in Nat, NEW r, Sound(n, c, r)
    PROVE  Becomes(n, c, r, state_log_out(r))
  BY AdvanceEffect, Unchanged DEF state_log_out, States

LEMMA BindNext ==
    ASSUME NEW n \in Nat, NEW c \in Nat, NEW r, Sound(n, c, r), NEW x, Becomes(n, c, r, x)
    PROVE  Becomes(n, c, r, [x EXCEPT !.next = <<Todo("bind", r.id)>>])
  BY UnregisterNext, WithNext DEF Sound

LEMMA ReviveEffect ==
    ASSUME NEW n \in Nat, NEW c \in Nat, NEW r, Sound(n, c, r)
    PROVE  Becomes(n, c, r, state_revive(r))
<1>1. r.m_state \in States /\ r \in Sessions(n, c)
  BY DEF Sound, Sessions
<1>2. Becomes(n, c, r, [r EXCEPT !.deferred_close = FALSE])
  BY <1>1 DEF Becomes, Sound, Sessions, Driven, Awaits
<1>3. r.m_state = "Dying" => Becomes(n, c, r, advance_state(r, "Active"))
  BY AdvanceEffect DEF States, Sound, Driven
<1>4. Becomes(n, c, r, advance_state(r, "WaitingForAccessToken"))
  BY AdvanceEffect DEF States
<1>5. Becomes(n, c, r, [advance_state(r, "WaitingForAccessToken")
                          EXCEPT !.next = <<Todo("bind", r.id)>>])
  BY <1>4, BindNext
<1>6. Becomes(n, c, r, r)
  BY Unchanged
<1> QED
  BY <1>1, <1>2, <1>3, <1>5, <1>6 DEF state_revive, States

LEMMA AnnounceEffect ==
    ASSUME NEW n \in Nat, NEW c \in Nat, NEW r, Sound(n, c, r), r.m_state # "Dying",
           NEW v \in 0..c
    PROVE  Becomes(n, c, r, Announce(r, v)) /\ Announce(r, v).m_state = r.m_state
           /\ Announce(r, v).m_session = r.m_session
<1> DEFINE a == IF v > r.announced THEN v ELSE r.announced
<1>1. r \in Sessions(n, c) /\ a \in 0..c
  BY DEF Sound, Sessions
<1>2. Announce(r, v) = [r EXCEPT !.announced = a]
  BY DEF Announce
<1> HIDE DEF a
<1> QED
  BY <1>1, <1>2 DEF Becomes, Sound, Sessions, Driven, Awaits

LEMMA RenewEffect ==
    ASSUME NEW n \in Nat, NEW c \in Nat, NEW r, Sound(n, c, r)
    PROVE  Becomes(n, c, r, renew_token(r)) /\ renew_token(r).m_state = r.m_state
           /\ renew_token(r).m_session = r.m_session
<1> DEFINE h == IF r.halt = "expired" THEN "no" ELSE r.halt
<1>1. r \in Sessions(n, c) /\ h \in {"no", "expired", "fatal"}
  BY DEF Sound, Sessions
<1>2. renew_token(r) = [r EXCEPT !.halt = h]
  BY DEF renew_token
<1> HIDE DEF h
<1> QED
  BY <1>1, <1>2 DEF Becomes, Sound, Sessions, Driven, Awaits

LEMMA CreateEffect ==
    ASSUME NEW n \in Nat, NEW c \in Nat, NEW r, Sound(n, c, r)
    PROVE  Becomes(n, c, r, create_sync_session(r)) /\ create_sync_session(r).m_session
           /\ create_sync_session(r).m_state = r.m_state
  BY DEF create_sync_session, Becomes, Sound, Sessions, Driven, Awaits

LEMMA BindEffect ==
    ASSUME NEW n \in Nat, committed \in Nat, NEW r, Sound(n, committed, r), r.m_state # "Dying"
    PROVE  Becomes(n, committed, r, bind(r)) /\ bind(r).m_state = r.m_state
           /\ bind(r).m_session = r.m_session
<1>1. CASE r.bound
  BY <1>1, RenewEffect DEF bind
<1>2. CASE ~r.bound
  <2>1. PICK x : x = Announce(r, committed)
    OBVIOUS
  <2>2. Becomes(n, committed, r, x) /\ x.m_state = r.m_state /\ x.m_session = r.m_session
    BY <2>1, AnnounceEffect
  <2>3. bind(r) = [x EXCEPT !.bound = TRUE]
    BY <1>2, <2>1 DEF bind
  <2> QED
    BY <2>2, <2>3 DEF Becomes, Sound, Sessions, Driven, Awaits
<1> QED
  BY <1>1, <1>2

LEMMA DeferredEffect ==
    ASSUME NEW n \in Nat, NEW c \in Nat, NEW r, Sound(n, c, r), r.m_state # "Dying"
    PROVE  Becomes(n, c, r, deferred_commit(r)) /\ deferred_commit(r).m_state = r.m_state
           /\ deferred_commit(r).m_session = r.m_session
<1>1. PICK x : x = Announce(r, r.deferred_commit)
  OBVIOUS
<1>2. r.deferred_commit \in 0..c /\ 0 \in 0..c
  BY DEF Sound, Sessions
<1>3. Becomes(n, c, r, x) /\ x.m_state = r.m_state /\ x.m_session = r.m_session
  BY <1>1, <1>2, AnnounceEffect
<1>4. deferred_commit(r) = [x EXCEPT !.deferred_commit = 0]
  BY <1>1 DEF deferred_commit
<1> QED
  BY <1>2, <1>3, <1>4 DEF Becomes, Sound, Sessions, Driven, Awaits

LEMMA RefreshEffect ==
    ASSUME NEW n \in Nat, committed \in Nat, NEW r, Sound(n, committed, r)
    PROVE  Becomes(n, committed, r, state_refresh(r))
<1> DEFINE c == committed
<1>1. CASE r.m_state = "WaitingForAccessToken"
  <2>1. PICK x : x = create_sync_session(r)
    OBVIOUS
  <2>2. Becomes(n, c, r, x) /\ x.m_session /\ x.m_state = r.m_state
    BY <2>1, CreateEffect
  <2>3. PICK y : y = bind(x)
    OBVIOUS
  <2>4. Becomes(n, c, x, y) /\ y.m_session /\ y.m_state = r.m_state
    BY <1>1, <2>2, <2>3, BindEffect DEF Becomes
  <2>5. PICK z : z = deferred_commit(y)
    OBVIOUS
  <2>6. Becomes(n, c, y, z) /\ z.m_session
    BY <1>1, <2>4, <2>5, DeferredEffect DEF Becomes
  <2>7. PICK a : a = advance_state(z, "Active")
    OBVIOUS
  <2>8. Becomes(n, c, z, a)
    BY <2>6, <2>7, AdvanceEffect DEF Becomes, States
  <2>9. Becomes(n, c, r, a) /\ Sound(n, c, a)
    BY <2>2, <2>4, <2>6, <2>8 DEF Becomes
  <2>10. Becomes(n, c, r, state_close(a))
    BY <2>9, CloseEffect DEF Becomes
  <2>11. state_refresh(r) = IF a.deferred_close THEN state_close(a) ELSE a
    BY <1>1, <2>1, <2>3, <2>5, <2>7 DEF state_refresh
  <2> QED
    BY <2>9, <2>10, <2>11
<1>2. CASE r.m_state = "Active"
  BY <1>2, RenewEffect DEF state_refresh
<1>3. CASE r.m_state \notin {"WaitingForAccessToken", "Active"}
  BY <1>3, Unchanged DEF state_refresh
<1> QED
  BY <1>1, <1>2, <1>3

LEMMA NotifyEffect ==
    ASSUME NEW n \in Nat, NEW c \in Nat, NEW r, Sound(n, c, r), NEW v \in 0..c
    PROVE  Becomes(n, c, r, state_notify(r, v))
<1>1. Becomes(n, c, r, [r EXCEPT !.deferred_commit = v])
  BY DEF Becomes, Sound, Sessions, Driven, Awaits
<1>2. CASE r.m_state = "Active"
  BY <1>2, AnnounceEffect DEF state_notify
<1>3. CASE r.m_state # "Active"
  BY <1>1, <1>3, Unchanged DEF state_notify
<1> QED
  BY <1>2, <1>3

LEMMA ExpiredEffect ==
    ASSUME NEW n \in Nat, NEW c \in Nat, NEW r, Sound(n, c, r)
    PROVE  Becomes(n, c, r, access_token_expired(r))
<1>1. Becomes(n, c, r, advance_state(r, "WaitingForAccessToken"))
  BY AdvanceEffect DEF States
<1>2. Becomes(n, c, r, [advance_state(r, "WaitingForAccessToken")
                          EXCEPT !.next = <<Todo("bind", r.id)>>])
  BY <1>1, BindNext
<1> QED
  BY <1>2, Unchanged DEF access_token_expired

(* The queues matter to no other part of the session.                      *)
LEMMA WithQueue ==
    ASSUME NEW n \in Nat, NEW c \in Nat, NEW r, Sound(n, c, r), NEW q \in Queues
    PROVE  Becomes(n, c, r, [r EXCEPT !.queue = q])
  BY DEF Becomes, Sound, Sessions, Driven, Awaits

LEMMA AddedEffect ==
    ASSUME NEW n \in Nat, NEW c \in Nat, NEW r, Sound(n, c, r), NEW d \in Dirs
    PROVE  Becomes(n, c, r, add_completion_callback(r, d))
<1> DEFINE h == Handler(r, d, FALSE)
           x == add_completion_callback(r, d)
<1>1. r \in Sessions(n, c) /\ h \in Handlers(c) /\ ~h.death
  BY HandlerTyped DEF Sound
<1>2. x = [r EXCEPT !.pending = @ \cup {h}, !.made = @ + 1]
  BY DEF add_completion_callback, async_wait
<1> HIDE DEF x, h
<1>3. r.pending \cup {h} \in SUBSET Handlers(c) /\ r.made + 1 \in Nat
  BY <1>1 DEF Sessions
<1>4. /\ x \in Sessions(n, c) /\ x.id = r.id /\ x.m_state = r.m_state
      /\ x.m_session = r.m_session /\ x.announced = r.announced
      /\ x.death_count = r.death_count /\ x.pending = r.pending \cup {h}
  BY <1>1, <1>2, <1>3 DEF Sessions
<1>5. Awaits(x)
  BY <1>1, <1>4 DEF Awaits, Sound
<1> QED
  BY <1>4, <1>5 DEF Becomes, Sound, Driven, x

LEMMA WaitForEffect ==
    ASSUME NEW n \in Nat, NEW c \in Nat, NEW r, Sound(n, c, r), NEW d \in Dirs,
           NEW w \in Waiters
    PROVE  Becomes(n, c, r, wait_for_completion(r, d, w))
<1>1. PICK k : k = [r.queue EXCEPT ![d] = @ \cup {w}]
  OBVIOUS
<1>2. PICK q : q = [r EXCEPT !.queue = k]
  OBVIOUS
<1>3. k \in Queues
  BY <1>1 DEF Queues, Sound, Sessions
<1>4. Becomes(n, c, r, q)
  BY <1>2, <1>3, WithQueue
<1>5. [r EXCEPT !.queue[d] = @ \cup {w}] = q
  BY <1>1, <1>2 DEF Sound, Sessions
<1>6. Becomes(n, c, r, add_completion_callback(q, d))
  BY <1>4, AddedEffect DEF Becomes
<1> QED
  BY <1>4, <1>5, <1>6 DEF wait_for_completion

LEMMA CancelEffect ==
    ASSUME NEW n \in Nat, NEW c \in Nat, NEW r, Sound(n, c, r)
    PROVE  Becomes(n, c, r, cancel_pending_waits(r))
<1>1. PICK x : x = [r EXCEPT !.queue = NoQueue]
  OBVIOUS
<1>2. PICK k : k = CancelAll(r.id, Queued(r.queue))
  OBVIOUS
<1>3. Becomes(n, c, r, x) /\ r \in Sessions(n, c)
  BY <1>1, WithQueue, NoQueueTyped DEF Sound
<1>4. k \in Seq(Follows(n))
  BY <1>2, <1>3, UnregisterNext, QueuedTyped DEF Sessions
<1>5. Becomes(n, c, r, [x EXCEPT !.next = k])
  BY <1>3, <1>4, WithNext
<1>6. cancel_pending_waits(r) = [x EXCEPT !.next = k]
  BY <1>1, <1>2, <1>3 DEF cancel_pending_waits, Sessions
<1> QED
  BY <1>5, <1>6

LEMMA RemovedEffect ==
    ASSUME NEW n \in Nat, NEW c \in Nat, NEW r, Sound(n, c, r), NEW p
    PROVE  LET x == [r EXCEPT !.pending = @ \ {p}]
           IN  Becomes(n, c, r, x) /\ x.m_state = r.m_state /\ x.queue = r.queue
               /\ x.death_count = r.death_count /\ x.resync_counter = r.resync_counter
               /\ x.next = r.next /\ x.announced = r.announced
  BY DEF Becomes, Sound, Sessions, Driven, Awaits

LEMMA CompletedEffect ==
    ASSUME NEW n \in Nat, NEW c \in Nat, NEW r, Sound(n, c, r), NEW p \in Handlers(c)
    PROVE  Becomes(n, c, r, Completed(r, p))
<1>1. Becomes(n, c, r, advance_state(r, "Inactive"))
  BY AdvanceEffect DEF States
<1>2. PICK k : k = [r.queue EXCEPT ![p.dir] = {}]
  OBVIOUS
<1>3. PICK q : q = CancelAll(r.id, r.queue[p.dir])
  OBVIOUS
<1>4. r \in Sessions(n, c) /\ k \in Queues /\ r.queue[p.dir] \in SUBSET Waiters
  BY <1>2 DEF Queues, Sound, Sessions, Handlers
<1>5. q \in Seq(Follows(n))
  BY <1>3, <1>4, UnregisterNext
<1>6. Becomes(n, c, r, [[r EXCEPT !.queue = k] EXCEPT !.next = q])
  BY <1>4, <1>5, WithQueue, WithNext
<1>7. [r EXCEPT !.queue[p.dir] = {}, !.next = CancelAll(r.id, r.queue[p.dir])]
        = [[r EXCEPT !.queue = k] EXCEPT !.next = q]
  BY <1>2, <1>3, <1>4 DEF Sessions
<1>8. Becomes(n, c, r, r)
  BY Unchanged
<1> QED
  BY <1>1, <1>6, <1>7, <1>8 DEF Completed

LEMMA ResyncEffect ==
    ASSUME NEW n \in Nat, NEW c \in Nat, NEW r, Sound(n, c, r)
    PROVE  Becomes(n, c, r, client_resync(r))
<1> DEFINE rest == <<[do |-> "restore", of |-> r.id, queue |-> r.queue], Todo("revive", r.id)>>
<1>1. r \in Sessions(n, c) /\ r.id \in 1..n /\ r.resync_counter + 1 \in Nat /\ r.queue \in Queues
  BY DEF Sound, Sessions
<1>2. PICK y : y = [r EXCEPT !.resync_counter = @ + 1, !.queue = NoQueue]
  OBVIOUS
<1>3. Becomes(n, c, r, y)
  BY <1>1, <1>2, NoQueueTyped DEF Becomes, Sound, Sessions, Driven, Awaits
<1>4. PICK a : a = advance_state(y, "Inactive")
  OBVIOUS
<1>5. Becomes(n, c, r, a)
  BY <1>3, <1>4, AdvanceEffect DEF Becomes, States
<1>6. rest \in Seq(Follows(n))
  <2>1. [do |-> "restore", of |-> r.id, queue |-> r.queue] \in Follows(n)
    BY <1>1 DEF Follows
  <2>2. Todo("revive", r.id) \in Follows(n)
    BY <1>1, FollowsTyped
  <2> QED
    BY <2>1, <2>2
<1>7. client_resync(r) = [a EXCEPT !.next = a.next \o rest]
  BY <1>2, <1>4 DEF client_resync
<1> HIDE DEF rest
<1>8. a.next \o rest \in Seq(Follows(n))
  BY <1>5, <1>6 DEF Becomes, Sound, Sessions
<1>9. PICK k : k = a.next \o rest
  OBVIOUS
<1>10. Becomes(n, c, r, [a EXCEPT !.next = k])
  BY <1>5, <1>8, <1>9, WithNext
<1> QED
  BY <1>7, <1>9, <1>10

LEMMA ErrorEffectOn ==
    ASSUME NEW n \in Nat, NEW c \in Nat, NEW r, Sound(n, c, r), NEW e
    PROVE  Becomes(n, c, r, ErrorEffect(e, r))
<1>1. Becomes(n, c, r, advance_state(r, "Inactive"))
  BY AdvanceEffect DEF States
<1> QED
  BY <1>1, ExpiredEffect, ResyncEffect, CancelEffect DEF ErrorEffect

-----------------------------------------------------------------------------
(* The invariant.                                                          *)

SessionsInv ==
    /\ s \in Seq(Sessions(Len(s), committed)) /\ Len(s) <= MaxSessions
    /\ \A o \in 1..Len(s) : s[o].id = o /\ s[o].next = <<>> /\ Driven(s[o]) /\ Awaits(s[o])

TodoInv ==
    /\ op \in [All -> OpNames]
    /\ todo \in [All -> Seq(Steps(Len(s), committed))]
    /\ \A t \in All : op[t] = "none" <=> todo[t] = <<>>

OthersInv ==
    /\ registered \in 0..Len(s) /\ refs \subseteq 1..Len(s)
    /\ user \in [state : {"Active", "LoggedOut", "Error"}, sessions : 0..Len(s),
                 waiting : 0..Len(s)]
    /\ policy \in Policies
    /\ handle \in [of : 0..Len(s), kind : {"none", "strong", "weak", "answered", "timer"}]
    /\ handle.kind # "none" => handle.of # 0
    /\ committed \in 0..MaxVersion /\ uploaded \in 0..committed
    /\ DOMAIN called \subseteq Waiters /\ called \in [DOMAIN called -> Nat]
    /\ calls \in 0..MaxCalls

(* A thread that is to take a reference holds the manager's mutex, and the *)
(* session is the one the manager knows.                                   *)
Items(q) == {q[i] : i \in 1..Len(q)}

Gets == {"get_session", "create"}

Refers(name, q) ==
    \A x \in Items(q) : x.do = "reference" => name \in Gets /\ x.of = registered

RefsInv ==
    /\ refs \subseteq {registered}
    /\ \A t \in All : Refers(op[t], todo[t])

Inv == SessionsInv /\ TodoInv /\ OthersInv /\ RefsInv

LEMMA TypesHold ==
    ASSUME Inv
    PROVE  TypeOK /\ Objects = 1..Len(s)
<1>1. Objects = 1..Len(s)
  BY DEF Inv, SessionsInv, Objects
<1>2. /\ s \in Seq(Sessions(Len(s), committed)) /\ Len(s) <= MaxSessions
      /\ \A o \in Objects : s[o].id = o /\ s[o].next = <<>> /\ Driven(s[o])
  BY <1>1 DEF Inv, SessionsInv
<1>3. TodoInv /\ OthersInv /\ refs \subseteq Objects
  BY <1>1 DEF Inv, OthersInv
<1> HIDE DEF Objects
<1> QED
  BY <1>1, <1>2, <1>3, Zenon DEF TodoInv, OthersInv, TypeOK

-----------------------------------------------------------------------------
(* Sequences of steps.                                                     *)

LEMMA ItemsOfConcat ==
    ASSUME NEW S, NEW a \in Seq(S), NEW b \in Seq(S)
    PROVE  Items(a \o b) = Items(a) \cup Items(b)
<1>1. PICK k \in Nat, l \in Nat : k = Len(a) /\ l = Len(b)
  OBVIOUS
<1>2. /\ Len(a \o b) = k + l
      /\ \A i \in 1..(k + l) : (a \o b)[i] = IF i <= k THEN a[i] ELSE b[i - k]
  BY <1>1
<1>3. ASSUME NEW x \in Items(a \o b) PROVE x \in Items(a) \cup Items(b)
  <2>1. PICK i \in 1..(k + l) : x = (a \o b)[i]
    BY <1>2 DEF Items
  <2>2. CASE i <= k
    BY <1>1, <1>2, <2>1, <2>2 DEF Items
  <2>3. CASE ~(i <= k)
    <3>1. i - k \in 1..l /\ x = b[i - k]
      BY <1>2, <2>1, <2>3
    <3> QED
      BY <1>1, <3>1 DEF Items
  <2> QED
    BY <2>2, <2>3
<1>4. ASSUME NEW x \in Items(a) PROVE x \in Items(a \o b)
  <2>1. PICK i \in 1..k : x = a[i]
    BY <1>1 DEF Items
  <2>2. i \in 1..(k + l) /\ x = (a \o b)[i]
    BY <1>2, <2>1
  <2> QED
    BY <1>2, <2>2 DEF Items
<1>5. ASSUME NEW x \in Items(b) PROVE x \in Items(a \o b)
  <2>1. PICK i \in 1..l : x = b[i]
    BY <1>1 DEF Items
  <2>2. i + k \in 1..(k + l) /\ ~(i + k <= k) /\ (i + k) - k = i
    BY <2>1
  <2>3. x = (a \o b)[i + k]
    BY <1>2, <2>1, <2>2
  <2> QED
    BY <1>2, <2>2, <2>3 DEF Items
<1> QED
  BY <1>3, <1>4, <1>5

LEMMA ItemsOfTail ==
    ASSUME NEW S, NEW q \in Seq(S), q # <<>>
    PROVE  /\ Tail(q) \in Seq(S) /\ Head(q) \in S /\ Head(q) \in Items(q)
           /\ Items(Tail(q)) \subseteq Items(q)
<1>1. Tail(q) \in Seq(S) /\ Len(Tail(q)) = Len(q) - 1 /\ Len(q) \in Nat \ {0}
      /\ Head(q) = q[1] /\ \A i \in 1..(Len(q) - 1) : Tail(q)[i] = q[i + 1]
  OBVIOUS
<1>2. ASSUME NEW x \in Items(Tail(q)) PROVE x \in Items(q)
  <2>1. PICK i \in 1..(Len(q) - 1) : x = q[i + 1]
    BY <1>1 DEF Items
  <2>2. i + 1 \in 1..Len(q)
    BY <1>1, <2>1
  <2> QED
    BY <2>1, <2>2 DEF Items
<1> QED
  BY <1>1, <1>2 DEF Items

LEMMA ItemsOfShort ==
    ASSUME NEW S, NEW a \in S, NEW b \in S
    PROVE  /\ <<a>> \in Seq(S) /\ <<a, b>> \in Seq(S) /\ <<>> \in Seq(S)
           /\ Items(<<a>>) = {a} /\ Items(<<a, b>>) = {a, b} /\ Items(<<>>) = {}
  BY DEF Items

LEMMA StepsGrow ==
    ASSUME NEW m \in Nat, NEW n \in Nat, NEW b \in Nat, NEW c \in Nat, m <= n, b <= c
    PROVE  Steps(m, b) \subseteq Steps(n, c) /\ Follows(m) \subseteq Follows(n)
           /\ Sessions(m, b) \subseteq Sessions(n, c)
<1>1. 1..m \subseteq 1..n /\ 0..m \subseteq 0..n /\ 0..b \subseteq 0..c
  OBVIOUS
<1>2. Follows(m) \subseteq Follows(n)
  BY <1>1 DEF Follows
<1>3. Steps(m, b) \subseteq Steps(n, c)
  BY <1>1, <1>2 DEF Steps
<1>4. Handlers(b) \subseteq Handlers(c)
  BY <1>1 DEF Handlers
<1>5. Seq(Follows(m)) \subseteq Seq(Follows(n))
  BY <1>2
<1>6. Sessions(m, b) \subseteq Sessions(n, c)
  BY <1>1, <1>4, <1>5 DEF Sessions
<1> QED
  BY <1>2, <1>3, <1>6

-----------------------------------------------------------------------------
(* The parts of a step.                                                    *)

LEMMA Counts ==
    ASSUME Inv
    PROVE  Len(s) \in Nat /\ committed \in Nat /\ \A o \in 1..Len(s) : Sound(Len(s), committed, s[o])
<1>1. Len(s) \in Nat /\ committed \in Nat
  BY SyncAssumption DEF Inv, SessionsInv, OthersInv
<1>2. \A o \in 1..Len(s) : s[o] \in Sessions(Len(s), committed)
  BY DEF Inv, SessionsInv
<1> QED
  BY <1>1, <1>2 DEF Inv, SessionsInv, Sound

(* t leaves with the steps q.                                              *)
LEMMA LeaveTodo ==
    ASSUME Inv, NEW t \in All, NEW name \in OpNames \ {"none"},
           Len(s)' \in Nat, committed' \in Nat, Len(s) <= Len(s)', committed <= committed',
           NEW q \in Seq(Steps(Len(s)', committed')), Leave(t, name, q)
    PROVE  TodoInv'
<1> DEFINE S == Steps(Len(s), committed)
           T == Steps(Len(s)', committed')
<1>1. S \subseteq T
  BY Counts, StepsGrow
<1>2. todo \in [All -> Seq(S)]
  BY DEF Inv, TodoInv
<1>3. q \in Seq(T)
  OBVIOUS
<1> HIDE DEF S, T
<1>4. todo \in [All -> Seq(T)]
  BY <1>1, <1>2
<1>5. todo' \in [All -> Seq(T)]
  BY <1>3, <1>4 DEF Leave
<1>6. op' \in [All -> OpNames] /\ \A u \in All : op'[u] = "none" <=> todo'[u] = <<>>
  BY <1>2 DEF Inv, TodoInv, Leave, OpNames
<1> QED
  BY <1>5, <1>6 DEF TodoInv, T

LEMMA LeaveRefs ==
    ASSUME Inv, NEW t \in All, NEW name, NEW q, Leave(t, name, q), Refers(name, q),
           UNCHANGED registered, refs' \subseteq refs
    PROVE  RefsInv'
<1>1. \A u \in All : op'[u] = (IF u = t THEN IF q = <<>> THEN "none" ELSE name ELSE op[u])
                      /\ todo'[u] = IF u = t THEN q ELSE todo[u]
  BY DEF Leave, Inv, TodoInv
<1>2. q = <<>> => Items(q) = {}
  BY DEF Items
<1>3. \A u \in All : Refers(op'[u], todo'[u])
  BY <1>1, <1>2 DEF Refers, Inv, RefsInv
<1> QED
  BY <1>3 DEF RefsInv, Refers, Inv

LEMMA PutItem ==
    ASSUME NEW S, s \in Seq(S), NEW i \in 1..Len(s), NEW e \in S, s' = [s EXCEPT ![i] = e]
    PROVE  /\ s' \in Seq(S) /\ Len(s') = Len(s)
           /\ \A k \in 1..Len(s) : s'[k] = IF k = i THEN e ELSE s[k]
  BY ExceptSeq

(* The session that x.id names becomes x.                                  *)
LEMMA PutSession ==
    ASSUME Inv, NEW x, NEW o \in 1..Len(s), Becomes(Len(s), committed, s[o], x),
           s' = [s EXCEPT ![x.id] = [x EXCEPT !.next = <<>>]], UNCHANGED committed
    PROVE  SessionsInv' /\ Len(s)' = Len(s)
<1> DEFINE n == Len(s)
           c == committed
<1>0. PICK y : y = [x EXCEPT !.next = <<>>]
  OBVIOUS
<1>1. n \in Nat /\ c \in Nat /\ s \in Seq(Sessions(n, c))
  BY Counts DEF Inv, SessionsInv
<1>2. x.id = o
  BY DEF Becomes, Inv, SessionsInv
<1>3. Becomes(n, c, s[o], y) /\ y.next = <<>>
  <2>1. <<>> \in Seq(Follows(n))
    OBVIOUS
  <2> QED
    BY <1>0, <1>1, <2>1, WithNext DEF Becomes, Sound, Sessions
<1>4. y \in Sessions(n, c) /\ y.id = o /\ Driven(y) /\ Awaits(y)
  BY <1>2, <1>3 DEF Becomes, Sound, Inv, SessionsInv
<1>5. s' = [s EXCEPT ![o] = y]
  BY <1>0, <1>2
<1>6. s' \in Seq(Sessions(n, c)) /\ Len(s') = n
      /\ \A k \in 1..n : s'[k] = IF k = o THEN y ELSE s[k]
  <2>1. PICK S : S = Sessions(n, c)
    OBVIOUS
  <2>2. s \in Seq(S) /\ y \in S
    BY <1>1, <1>4, <2>1
  <2>3. s' \in Seq(S) /\ Len(s') = n /\ \A k \in 1..n : s'[k] = IF k = o THEN y ELSE s[k]
    BY ONLY <1>5, <2>2, PutItem
  <2> QED
    BY <2>1, <2>3
<1>7. \A k \in 1..n : s'[k].id = k /\ s'[k].next = <<>> /\ Driven(s'[k]) /\ Awaits(s'[k])
  BY <1>3, <1>4, <1>6 DEF Inv, SessionsInv
<1> QED
  BY <1>6, <1>7 DEF Inv, SessionsInv

LEMMA KeepSessions ==
    ASSUME Inv, UNCHANGED s, committed' \in Nat, committed <= committed'
    PROVE  SessionsInv'
<1>1. Sessions(Len(s), committed) \subseteq Sessions(Len(s), committed')
  BY Counts, StepsGrow
<1>2. s \in Seq(Sessions(Len(s), committed))
  BY DEF Inv, SessionsInv
<1>3. s \in Seq(Sessions(Len(s), committed'))
  BY <1>1, <1>2
<1> QED
  BY <1>3 DEF Inv, SessionsInv

LEMMA UnlockKeeps ==
    ASSUME Inv, NEW t \in All, NEW name \in OpNames \ {"none"}, NEW o \in 1..Len(s), NEW x,
           Becomes(Len(s), committed, s[o], x),
           NEW rest \in Seq(Steps(Len(s), committed)), Refers(name, rest),
           Unlock(t, name, x, rest), UNCHANGED <<committed, registered>>, refs' \subseteq refs
    PROVE  SessionsInv' /\ TodoInv' /\ RefsInv' /\ Len(s)' = Len(s)
<1>1. SessionsInv' /\ Len(s)' = Len(s)
  BY PutSession DEF Unlock
<1>2. PICK q : q = x.next \o rest
  OBVIOUS
<1>3. x.next \in Seq(Follows(Len(s)))
  BY DEF Becomes, Sound, Sessions
<1>4. x.next \in Seq(Steps(Len(s), committed))
  BY <1>3 DEF Steps
<1>5. q \in Seq(Steps(Len(s), committed)) /\ Leave(t, name, q)
  BY <1>2, <1>4 DEF Unlock
<1>6. TodoInv'
  BY <1>1, <1>5, Counts, LeaveTodo
<1>7. \A y \in Items(x.next) : y.do # "reference"
  BY <1>3 DEF Items, Follows
<1>8. Items(q) = Items(x.next) \cup Items(rest)
  BY <1>2, <1>4, ItemsOfConcat
<1>9. Refers(name, q)
  BY <1>7, <1>8 DEF Refers
<1> QED
  BY <1>1, <1>5, <1>6, <1>9, LeaveRefs

LEMMA LeaveKeeps ==
    ASSUME Inv, NEW t \in All, NEW name \in OpNames \ {"none"},
           NEW q \in Seq(Steps(Len(s), committed)), Refers(name, q), Leave(t, name, q),
           UNCHANGED <<s, committed, registered>>, refs' \subseteq refs
    PROVE  SessionsInv' /\ TodoInv' /\ RefsInv'
<1>1. SessionsInv'
  BY Counts, KeepSessions
<1>2. TodoInv'
  BY Counts, LeaveTodo
<1> QED
  BY <1>1, <1>2, LeaveRefs

(* What t is at, and what it has still to do.                              *)
LEMMA AtStep ==
    ASSUME Inv, NEW t \in All, todo[t] # <<>>
    PROVE  /\ Head(todo[t]) \in Steps(Len(s), committed)
           /\ Head(todo[t]) \in Items(todo[t])
           /\ Tail(todo[t]) \in Seq(Steps(Len(s), committed))
           /\ Refers(op[t], Tail(todo[t]))
           /\ op[t] \in OpNames \ {"none"}
<1>1. PICK S : S = Steps(Len(s), committed)
  OBVIOUS
<1>2. todo[t] \in Seq(S)
  BY <1>1 DEF Inv, TodoInv
<1>3. /\ Tail(todo[t]) \in Seq(S) /\ Head(todo[t]) \in S /\ Head(todo[t]) \in Items(todo[t])
      /\ Items(Tail(todo[t])) \subseteq Items(todo[t])
  BY <1>2, ItemsOfTail
<1> QED
  BY <1>1, <1>3 DEF Inv, TodoInv, RefsInv, Refers

LEMMA StepFields ==
    ASSUME NEW n \in Nat, NEW c \in Nat, NEW x \in Steps(n, c)
    PROVE  /\ x.of \in 0..n
           /\ x.do \in {"register", "reference", "unregister", "release", "bind", "revive",
                        "log_out", "did_drop", "reconfigure", "latest", "cancel", "restore",
                        "notify", "ask"} \cup Errors => x.of \in 1..n
           /\ x.do = "notify" => x.version \in 0..c
           /\ x.do = "restore" => x.queue \in Queues
           /\ x.do = "cancel" => x.waits \in SUBSET Waiters
           /\ x.do = "ask" => x.error \in Errors
  BY DEF Steps, Follows, Errors, Fatal

LEMMA TodoTyped ==
    ASSUME NEW n \in Nat, NEW c \in Nat
    PROVE  /\ \A o \in 1..n :
                \A x \in {"register", "reference", "unregister", "release", "bind", "revive",
                          "log_out", "did_drop", "reconfigure", "latest"} \cup Errors :
                    Todo(x, o) \in Steps(n, c)
           /\ \A o \in 0..n :
                \A x \in {"unlock_manager", "log_out_user", "invalidate_handles", "pool",
                          "invalidate", "unregister_handle"} : Todo(x, o) \in Steps(n, c)
           /\ \A x, o : Todo(x, o).do = x /\ Todo(x, o).of = o
  BY DEF Todo, Steps, Follows

LEMMA EmptyTodo ==
    ASSUME NEW name, NEW n, NEW c
    PROVE  <<>> \in Seq(Steps(n, c)) /\ Refers(name, <<>>)
  BY DEF Refers, Items

LEMMA OneTodo ==
    ASSUME NEW name, NEW n \in Nat, NEW c \in Nat, NEW x \in Steps(n, c), x.do # "reference"
    PROVE  <<x>> \in Seq(Steps(n, c)) /\ Refers(name, <<x>>)
  BY DEF Refers, Items

LEMMA SameOthers ==
    ASSUME Inv, Len(s)' = Len(s), UNCHANGED Others, calls' \in 0..MaxCalls
    PROVE  OthersInv'
  BY DEF Inv, OthersInv, Others

LEMMA CallCounts ==
    ASSUME Inv, NEW t \in All, Call(t)
    PROVE  calls' \in 0..MaxCalls /\ op[t] = "none" /\ todo[t] = <<>>
  BY SyncAssumption DEF Inv, OthersInv, TodoInv, Call, Idle, Busy

-----------------------------------------------------------------------------
(* Steps that work on the session of the step t is at.                     *)

LEMMA SessionStep ==
    ASSUME Inv, NEW t \in All, todo[t] # <<>>, Head(todo[t]).of \in 1..Len(s), NEW x,
           Becomes(Len(s), committed, Session(t), x),
           NEW rest \in Seq(Steps(Len(s), committed)), Refers(op[t], rest),
           Unlock(t, op[t], x, rest), UNCHANGED <<Others, calls>>
    PROVE  Inv'
<1>1. op[t] \in OpNames \ {"none"}
  BY AtStep
<1>2. PICK o \in 1..Len(s) : o = Head(todo[t]).of
  OBVIOUS
<1>3. Becomes(Len(s), committed, s[o], x)
  BY <1>2 DEF Session
<1>4. UNCHANGED <<committed, registered>> /\ refs' \subseteq refs
  BY DEF Others
<1>5. SessionsInv' /\ TodoInv' /\ RefsInv' /\ Len(s)' = Len(s)
  BY <1>1, <1>3, <1>4, UnlockKeeps
<1>6. OthersInv'
  BY <1>5, SameOthers DEF Inv, OthersInv
<1> QED
  BY <1>5, <1>6 DEF Inv

LEMMA SessionAt ==
    ASSUME Inv, NEW t \in All, NEW what, At(t, what),
           what \in {"register", "reference", "unregister", "release", "bind", "revive",
                     "log_out", "did_drop", "reconfigure", "latest", "cancel", "restore",
                     "notify", "ask"} \cup Errors
    PROVE  /\ todo[t] # <<>> /\ Head(todo[t]).of \in 1..Len(s) /\ UNCHANGED calls
           /\ Sound(Len(s), committed, Session(t))
           /\ Session(t).id = Head(todo[t]).of
           /\ Tail(todo[t]) \in Seq(Steps(Len(s), committed)) /\ Refers(op[t], Tail(todo[t]))
           /\ op[t] \in OpNames \ {"none"}
<1>1. todo[t] # <<>> /\ Head(todo[t]).do = what /\ UNCHANGED calls
  BY DEF At
<1>2. Head(todo[t]).of \in 1..Len(s)
  BY <1>1, AtStep, Counts, StepFields
<1>3. Sound(Len(s), committed, Session(t))
  BY <1>2, Counts DEF Session
<1>4. Session(t).id = Head(todo[t]).of
  BY <1>2 DEF Session, Inv, SessionsInv
<1> QED
  BY <1>1, <1>2, <1>3, <1>4, AtStep

LEMMA DidDropStep ==
    ASSUME Inv, NEW t \in All, did_drop_external_reference(t)
    PROVE  Inv'
<1>1. At(t, "did_drop")
  BY DEF did_drop_external_reference
<1>2. PICK x : x = IF Referenced(Session(t).id) THEN Session(t) ELSE state_close(Session(t))
  OBVIOUS
<1>3. Becomes(Len(s), committed, Session(t), x)
  BY <1>1, <1>2, SessionAt, Counts, CloseEffect, Unchanged
<1>4. Unlock(t, op[t], x, Tail(todo[t])) /\ UNCHANGED Others
  BY <1>2 DEF did_drop_external_reference
<1> QED
  BY <1>1, <1>3, <1>4, SessionAt, SessionStep

LEMMA SessionLogOutStep ==
    ASSUME Inv, NEW t \in All, session_log_out(t)
    PROVE  Inv'
<1>1. At(t, "log_out")
  BY DEF session_log_out
<1>2. Becomes(Len(s), committed, Session(t), state_log_out(Session(t)))
  BY <1>1, SessionAt, Counts, LogOutEffect
<1>3. Unlock(t, op[t], state_log_out(Session(t)), Tail(todo[t])) /\ UNCHANGED Others
  BY DEF session_log_out
<1> QED
  BY <1>1, <1>2, <1>3, SessionAt, SessionStep

LEMMA ReviveStep ==
    ASSUME Inv, NEW t \in All, revive_if_needed(t)
    PROVE  Inv'
<1>1. At(t, "revive")
  BY DEF revive_if_needed
<1>2. Becomes(Len(s), committed, Session(t), state_revive(Session(t)))
  BY <1>1, SessionAt, Counts, ReviveEffect
<1>3. Unlock(t, op[t], state_revive(Session(t)), Tail(todo[t])) /\ UNCHANGED Others
  BY DEF revive_if_needed
<1> QED
  BY <1>1, <1>2, <1>3, SessionAt, SessionStep

LEMMA NotifyStep ==
    ASSUME Inv, NEW t \in All, nonsync_transact_notify(t)
    PROVE  Inv'
<1>1. At(t, "notify")
  BY DEF nonsync_transact_notify
<1>2. PICK x : x = state_notify(Session(t), Head(todo[t]).version)
  OBVIOUS
<1>3. Head(todo[t]).version \in 0..committed
  <2>1. todo[t] # <<>> /\ Head(todo[t]).do = "notify"
    BY <1>1 DEF At
  <2> QED
    BY <2>1, AtStep, Counts, StepFields
<1>4. Becomes(Len(s), committed, Session(t), x)
  BY <1>1, <1>2, <1>3, SessionAt, Counts, NotifyEffect
<1>5. Unlock(t, op[t], x, Tail(todo[t])) /\ UNCHANGED Others
  BY <1>2 DEF nonsync_transact_notify
<1> QED
  BY <1>1, <1>4, <1>5, SessionAt, SessionStep

LEMMA ErrorStep ==
    ASSUME Inv, NEW t \in All, NEW e \in Errors, error_effect(t, e)
    PROVE  Inv'
<1>1. At(t, e)
  BY DEF error_effect
<1>2. PICK rest : rest = IF e = "bad_authentication" THEN <<Todo("invalidate", 0)>> ELSE <<>>
  OBVIOUS
<1>3. rest \in Seq(Steps(Len(s), committed)) /\ Refers(op[t], rest)
  <2>1. Todo("invalidate", 0) \in Steps(Len(s), committed) /\ Todo("invalidate", 0).do = "invalidate"
    BY Counts, TodoTyped
  <2> QED
    BY <1>2, <2>1, Counts, EmptyTodo, OneTodo
<1>4. PICK x : x = ErrorEffect(e, Session(t))
  OBVIOUS
<1>5. Becomes(Len(s), committed, Session(t), x)
  BY <1>1, <1>4, SessionAt, Counts, ErrorEffectOn
<1>6. Unlock(t, op[t], x, rest) /\ UNCHANGED Others
  BY <1>2, <1>4 DEF error_effect
<1> QED
  BY <1>1, <1>3, <1>5, <1>6, SessionAt, SessionStep

(* handle_error and reconfigure change the session or only go on.          *)
LEMMA GoOnStep ==
    ASSUME Inv, NEW t \in All, todo[t] # <<>>, NEW q \in Seq(Steps(Len(s), committed)),
           Refers(op[t], q), Leave(t, op[t], q), UNCHANGED <<s, Others, calls>>
    PROVE  Inv'
<1>1. op[t] \in OpNames \ {"none"}
  BY AtStep
<1>2. UNCHANGED <<s, committed, registered>> /\ refs' \subseteq refs
  BY DEF Others
<1>3. SessionsInv' /\ TodoInv' /\ RefsInv'
  BY <1>1, <1>2, LeaveKeeps
<1>4. OthersInv'
  BY SameOthers DEF Inv, OthersInv
<1> QED
  BY <1>3, <1>4 DEF Inv

LEMMA HandleErrorStep ==
    ASSUME Inv, NEW t \in All, handle_error(t)
    PROVE  Inv'
<1>1. At(t, "ask")
  BY DEF handle_error
<1>2. PICK e : e = Head(todo[t]).error
  OBVIOUS
<1>3. e \in Errors
  <2>1. todo[t] # <<>> /\ Head(todo[t]).do = "ask"
    BY <1>1 DEF At
  <2> QED
    BY <1>2, <2>1, AtStep, Counts, StepFields
<1>4. UNCHANGED Others
  BY DEF handle_error
<1>5. CASE Session(t).m_state # "Dying"
  <2>1. PICK x : x = Todo(e, Session(t).id)
    OBVIOUS
  <2>2. x \in Steps(Len(s), committed) /\ x.do # "reference"
    BY <1>1, <1>3, <2>1, SessionAt, Counts, TodoTyped DEF Errors, Fatal
  <2>3. Leave(t, op[t], <<x>>) /\ UNCHANGED s
    BY <1>2, <1>5, <2>1 DEF handle_error
  <2>4. <<x>> \in Seq(Steps(Len(s), committed)) /\ Refers(op[t], <<x>>)
    BY <2>2, Counts, OneTodo
  <2> QED
    BY <1>1, <1>4, <2>3, <2>4, SessionAt, GoOnStep
<1>6. CASE ~(Session(t).m_state # "Dying")
  <2>1. PICK x : x = IF e \in Fatal THEN advance_state(Session(t), "Inactive") ELSE Session(t)
    OBVIOUS
  <2>2. Unlock(t, op[t], x, <<>>)
    BY <1>2, <1>6, <2>1 DEF handle_error
  <2>3. Becomes(Len(s), committed, Session(t), x)
    BY <1>1, <2>1, SessionAt, Counts, AdvanceEffect, Unchanged DEF States
  <2> QED
    BY <1>1, <1>4, <2>2, <2>3, SessionAt, SessionStep, EmptyTodo
<1> QED
  BY <1>5, <1>6

LEMMA ReconfigureStep ==
    ASSUME Inv, NEW t \in All, reconfigure(t)
    PROVE  Inv'
<1>1. At(t, "reconfigure")
  BY DEF reconfigure
<1>2. UNCHANGED Others
  BY DEF reconfigure
<1>3. CASE Session(t).m_state = "Inactive"
  <2>1. PICK x : x = Todo("revive", Session(t).id)
    OBVIOUS
  <2>2. x \in Steps(Len(s), committed) /\ x.do # "reference"
    BY <1>1, <2>1, SessionAt, Counts, TodoTyped
  <2>3. Leave(t, op[t], <<x>>) /\ UNCHANGED s
    BY <1>3, <2>1 DEF reconfigure
  <2>4. <<x>> \in Seq(Steps(Len(s), committed)) /\ Refers(op[t], <<x>>)
    BY <2>2, Counts, OneTodo
  <2> QED
    BY <1>1, <1>2, <2>3, <2>4, SessionAt, GoOnStep
<1>4. CASE Session(t).m_state # "Inactive"
  <2>1. PICK x : x = advance_state(Session(t), "Inactive")
    OBVIOUS
  <2>2. Unlock(t, op[t], x, todo[t])
    BY <1>4, <2>1 DEF reconfigure
  <2>3. Becomes(Len(s), committed, Session(t), x)
    BY <1>1, <2>1, SessionAt, Counts, AdvanceEffect DEF States
  <2>4. todo[t] \in Seq(Steps(Len(s), committed)) /\ Refers(op[t], todo[t])
    BY DEF Inv, TodoInv, RefsInv
  <2> QED
    BY <1>1, <1>2, <2>2, <2>3, <2>4, SessionAt, SessionStep
<1> QED
  BY <1>3, <1>4

-----------------------------------------------------------------------------
(* Steps that leave the state of the sessions alone.                       *)

LEMMA OtherStep ==
    ASSUME Inv, NEW t \in All, todo[t] # <<>>, NEW q \in Seq(Steps(Len(s), committed)),
           Refers(op[t], q), Leave(t, op[t], q), UNCHANGED <<s, committed, registered>>,
           refs' \subseteq refs, OthersInv'
    PROVE  Inv'
  BY AtStep, LeaveKeeps DEF Inv

(* A session changes in what its state does not depend on.                 *)
LEMMA PutAlike ==
    ASSUME Inv, NEW o \in 1..Len(s), NEW x, Becomes(Len(s), committed, s[o], x), x.next = <<>>,
           s' = [s EXCEPT ![o] = x], UNCHANGED committed
    PROVE  SessionsInv' /\ Len(s)' = Len(s)
<1>1. x.id = o
  BY DEF Becomes, Inv, SessionsInv
<1>2. [x EXCEPT !.next = <<>>] = x
  BY DEF Becomes, Sound, Sessions
<1> QED
  BY <1>1, <1>2, PutSession

LEMMA VendedEffect ==
    ASSUME NEW n \in Nat, NEW c \in Nat, NEW r, Sound(n, c, r), NEW x,
           x = [r EXCEPT !.vended = TRUE]
    PROVE  Becomes(n, c, r, x) /\ x.next = r.next
  BY DEF Becomes, Sound, Sessions, Driven, Awaits

LEMMA HaltEffect ==
    ASSUME NEW n \in Nat, NEW c \in Nat, NEW r, Sound(n, c, r), NEW x,
           NEW h \in {"no", "expired", "fatal"}, x = [r EXCEPT !.halt = h]
    PROVE  Becomes(n, c, r, x) /\ x.next = r.next
  BY DEF Becomes, Sound, Sessions, Driven, Awaits

LEMMA FailedEffect ==
    ASSUME NEW n \in Nat, NEW c \in Nat, NEW r, Sound(n, c, r), NEW x,
           x = [r EXCEPT !.failed = "unregister_session"]
    PROVE  Becomes(n, c, r, x) /\ x.next = r.next
  BY DEF Becomes, Sound, Sessions, Driven, Awaits

LEMMA ReferenceStep ==
    ASSUME Inv, NEW t \in All, external_reference(t)
    PROVE  Inv'
<1>1. At(t, "reference")
  BY DEF external_reference
<1>2. PICK q : q = Tail(todo[t])
  OBVIOUS
<1>3. /\ todo[t] # <<>> /\ Head(todo[t]).do = "reference" /\ UNCHANGED calls
      /\ refs' = refs \cup {Head(todo[t]).of}
      /\ Leave(t, op[t], q)
      /\ UNCHANGED <<s, registered, user, policy, handle, committed, uploaded, called>>
  BY <1>2 DEF external_reference, At
<1>4. Head(todo[t]).of = registered
  BY <1>3, AtStep DEF Inv, RefsInv, Refers
<1>5. Head(todo[t]).of \in 1..Len(s) /\ op[t] \in OpNames \ {"none"}
      /\ q \in Seq(Steps(Len(s), committed)) /\ Refers(op[t], q)
  BY <1>1, <1>2, SessionAt
<1>6. SessionsInv'
  BY <1>3, Counts, KeepSessions
<1>7. TodoInv'
  BY <1>3, <1>5, Counts, LeaveTodo
<1>8. OthersInv'
  BY <1>3, <1>5 DEF Inv, OthersInv
<1>9. \A u \in All : op'[u] = (IF u = t THEN IF q = <<>> THEN "none" ELSE op[t] ELSE op[u])
                      /\ todo'[u] = IF u = t THEN q ELSE todo[u]
  BY <1>3 DEF Leave, Inv, TodoInv
<1>10. q = <<>> => Items(q) = {}
  BY DEF Items
<1>11. \A u \in All : Refers(op'[u], todo'[u])
  BY <1>5, <1>9, <1>10 DEF Refers, Inv, RefsInv
<1>12. RefsInv'
  BY <1>3, <1>4, <1>11 DEF RefsInv, Refers, Inv
<1> QED
  BY <1>6, <1>7, <1>8, <1>12 DEF Inv

(* Nobody is to take a reference while the manager's mutex is free.        *)
LEMMA FreeManager ==
    ASSUME Inv, \A u \in All : ~HoldsSessionMutex(u)
    PROVE  \A u \in All : \A x \in Items(todo[u]) : x.do # "reference"
  BY DEF Inv, RefsInv, Refers, HoldsSessionMutex, Gets

LEMMA UnregisterStep ==
    ASSUME Inv, NEW t \in All, unregister_session(t)
    PROVE  Inv'
<1>1. At(t, "unregister")
  BY DEF unregister_session
<1>2. /\ todo[t] # <<>> /\ UNCHANGED calls /\ \A u \in All : ~HoldsSessionMutex(u)
      /\ UNCHANGED <<refs, user, policy, handle, committed, uploaded, called>>
  BY DEF unregister_session, At
<1>3. /\ Head(todo[t]).of \in 1..Len(s) /\ op[t] \in OpNames \ {"none"}
      /\ Tail(todo[t]) \in Seq(Steps(Len(s), committed))
  BY <1>1, SessionAt
<1>4. Len(s)' = Len(s) /\ SessionsInv'
  <2>1. CASE registered # 0
    <3>1. UNCHANGED s
      BY <2>1 DEF unregister_session
    <3> QED
      BY <3>1, <1>2, Counts, KeepSessions
  <2>2. CASE registered = 0
    <3>1. PICK o \in 1..Len(s) : o = Head(todo[t]).of
      BY <1>3
    <3>2. PICK x : x = [s[o] EXCEPT !.failed = "unregister_session"]
      OBVIOUS
    <3>3. s' = [s EXCEPT ![o] = x]
      BY <2>2, <3>1, <3>2 DEF unregister_session
    <3>4. Becomes(Len(s), committed, s[o], x) /\ x.next = <<>>
      BY <3>2, Counts, FailedEffect DEF Inv, SessionsInv
    <3> QED
      BY <1>2, <3>3, <3>4, PutAlike
  <2> QED
    BY <2>1, <2>2
<1>5. PICK q : q = IF Referenced(registered)
                   THEN <<Todo("release", registered), Todo("unlock_manager", 0)>> \o Tail(todo[t])
                   ELSE Tail(todo[t])
  OBVIOUS
<1>6. /\ Leave(t, op[t], q)
      /\ registered' = IF Referenced(registered) THEN registered ELSE 0
  BY <1>5 DEF unregister_session
<1>7. Referenced(registered) => registered \in 1..Len(s)
  <2>1. ASSUME NEW u \in All, Looks(u, registered) PROVE registered \in 1..Len(s)
    <3>1. PICK i \in DOMAIN todo[u] : todo[u][i] = Todo("release", registered)
      BY <2>1 DEF Looks, Plans
    <3>2. todo[u][i] \in Steps(Len(s), committed)
      BY <3>1 DEF Inv, TodoInv
    <3>3. todo[u][i].do = "release" /\ todo[u][i].of = registered
      BY <3>1 DEF Todo
    <3> QED
      BY <3>2, <3>3, Counts, StepFields
  <2>2. registered \in refs => registered \in 1..Len(s)
    BY DEF Inv, OthersInv
  <2> QED
    BY <2>1, <2>2 DEF Referenced
<1>8. /\ q \in Seq(Steps(Len(s), committed))
      /\ \A x \in Items(q) : x.do # "reference"
  <2>1. \A x \in Items(Tail(todo[t])) : x.do # "reference"
    <3>1. PICK S : S = Steps(Len(s), committed)
      OBVIOUS
    <3>2. todo[t] \in Seq(S)
      BY <3>1 DEF Inv, TodoInv
    <3> QED
      BY <1>2, <3>2, FreeManager, ItemsOfTail
  <2>2. CASE Referenced(registered)
    <3>1. PICK S, a, b : /\ S = Steps(Len(s), committed) /\ a = Todo("release", registered)
                         /\ b = Todo("unlock_manager", 0)
      OBVIOUS
    <3>2. a \in S /\ b \in S /\ a.do = "release" /\ b.do = "unlock_manager"
      BY <1>7, <2>2, <3>1, Counts, TodoTyped
    <3>3. <<a, b>> \in Seq(S) /\ Items(<<a, b>>) = {a, b}
      BY <3>2, ItemsOfShort
    <3>4. PICK k, l : k = <<a, b>> /\ l = Tail(todo[t])
      OBVIOUS
    <3>5. k \in Seq(S) /\ l \in Seq(S) /\ q = k \o l
      BY <1>3, <1>5, <2>2, <3>1, <3>3, <3>4
    <3>6. q \in Seq(S) /\ Items(q) = Items(k) \cup Items(l)
      BY <3>5, ItemsOfConcat
    <3> QED
      BY <2>1, <3>1, <3>2, <3>3, <3>4, <3>6
  <2>3. CASE ~Referenced(registered)
    BY <1>3, <1>5, <2>1, <2>3
  <2> QED
    BY <2>2, <2>3
<1>9. TodoInv'
  BY <1>2, <1>3, <1>4, <1>6, <1>8, Counts, LeaveTodo
<1>10. \A u \in All : todo'[u] = IF u = t THEN q ELSE todo[u]
  BY <1>6 DEF Leave, Inv, TodoInv
<1>11. \A u \in All : \A x \in Items(todo'[u]) : x.do # "reference"
  BY <1>2, <1>8, <1>10, FreeManager
<1>12. refs' \subseteq {registered'}
  BY <1>2, <1>6 DEF Referenced, Inv, RefsInv
<1>13. RefsInv'
  BY <1>11, <1>12 DEF RefsInv, Refers
<1>14. OthersInv'
  BY <1>2, <1>4, <1>6 DEF Inv, OthersInv
<1> QED
  BY <1>4, <1>9, <1>13, <1>14 DEF Inv

LEMMA MoreTodo ==
    ASSUME NEW n \in Nat, NEW c \in Nat, NEW name, NEW a \in Steps(n, c), NEW b \in Steps(n, c),
           a.do # "reference", b.do # "reference",
           NEW l \in Seq(Steps(n, c)), Refers(name, l)
    PROVE  /\ <<a>> \o l \in Seq(Steps(n, c)) /\ Refers(name, <<a>> \o l)
           /\ <<a, b>> \o l \in Seq(Steps(n, c)) /\ Refers(name, <<a, b>> \o l)
<1>1. PICK S : S = Steps(n, c)
  OBVIOUS
<1>2. a \in S /\ b \in S /\ l \in Seq(S)
  BY <1>1
<1>3. PICK j, k : j = <<a>> /\ k = <<a, b>>
  OBVIOUS
<1>4. j \in Seq(S) /\ k \in Seq(S) /\ Items(j) = {a} /\ Items(k) = {a, b}
  BY <1>2, <1>3, ItemsOfShort
<1>5. /\ j \o l \in Seq(S) /\ Items(j \o l) = {a} \cup Items(l)
      /\ k \o l \in Seq(S) /\ Items(k \o l) = {a, b} \cup Items(l)
  BY <1>2, <1>4, ItemsOfConcat
<1>6. Refers(name, j \o l) /\ Refers(name, k \o l)
  BY <1>5 DEF Refers
<1> QED
  BY <1>1, <1>3, <1>5, <1>6

LEMMA ReleaseStep ==
    ASSUME Inv, NEW t \in All, release_reference(t)
    PROVE  Inv'
<1>1. At(t, "release")
  BY DEF release_reference
<1>2. PICK a, l : a = Todo("did_drop", Head(todo[t]).of) /\ l = Tail(todo[t])
  OBVIOUS
<1>3. a \in Steps(Len(s), committed) /\ a.do # "reference"
      /\ l \in Seq(Steps(Len(s), committed)) /\ Refers(op[t], l)
  BY <1>1, <1>2, SessionAt, Counts, TodoTyped
<1>4. <<a>> \o l \in Seq(Steps(Len(s), committed)) /\ Refers(op[t], <<a>> \o l)
  BY <1>3, Counts, MoreTodo
<1>5. <<>> \o l = l
  BY <1>3
<1>6. Leave(t, op[t], <<a>> \o l) \/ Leave(t, op[t], l)
  BY <1>2, <1>5 DEF release_reference
<1>7. UNCHANGED <<s, Others, calls>> /\ todo[t] # <<>>
  BY DEF release_reference, At
<1> QED
  BY <1>3, <1>4, <1>6, <1>7, GoOnStep

LEMMA UnlockManagerStep ==
    ASSUME Inv, NEW t \in All, unlock_manager(t)
    PROVE  Inv'
<1>1. todo[t] # <<>> /\ Leave(t, op[t], Tail(todo[t])) /\ UNCHANGED <<s, Others, calls>>
  BY DEF unlock_manager, At
<1> QED
  BY <1>1, AtStep, GoOnStep

LEMMA RegisterStep ==
    ASSUME Inv, NEW t \in All, register_session(t)
    PROVE  Inv'
<1>1. At(t, "register")
  BY DEF register_session
<1>2. /\ todo[t] # <<>> /\ UNCHANGED calls
      /\ UNCHANGED <<registered, refs, policy, handle, committed, uploaded, called>>
  BY DEF register_session, At
<1>3. PICK o \in 1..Len(s) : o = Head(todo[t]).of
  BY <1>1, SessionAt
<1>4. PICK l : l = Tail(todo[t])
  OBVIOUS
<1>5. l \in Seq(Steps(Len(s), committed)) /\ Refers(op[t], l) /\ op[t] \in OpNames \ {"none"}
  BY <1>1, <1>4, SessionAt
<1>6. CASE user.state = "Active"
  <2>1. PICK a, x : a = Todo("revive", o) /\ x = [s[o] EXCEPT !.vended = TRUE]
    OBVIOUS
  <2>2. a \in Steps(Len(s), committed) /\ a.do # "reference"
    BY <2>1, Counts, TodoTyped
  <2>3. PICK q : q = <<a>> \o l
    OBVIOUS
  <2>4. q \in Seq(Steps(Len(s), committed)) /\ Refers(op[t], q)
    BY <1>5, <2>2, <2>3, Counts, MoreTodo
  <2>5. /\ user' = [user EXCEPT !.sessions = o]
        /\ s' = [s EXCEPT ![o] = x]
        /\ Leave(t, op[t], q)
    BY <1>3, <1>4, <1>6, <2>1, <2>3 DEF register_session
  <2>6. Becomes(Len(s), committed, s[o], x) /\ x.next = <<>>
    BY <2>1, Counts, VendedEffect DEF Inv, SessionsInv
  <2>7. SessionsInv' /\ Len(s)' = Len(s)
    BY <1>2, <2>5, <2>6, PutAlike
  <2>8. TodoInv'
    BY <1>2, <1>5, <2>4, <2>5, <2>7, Counts, LeaveTodo
  <2>9. RefsInv'
    BY <1>2, <2>4, <2>5, LeaveRefs
  <2>10. OthersInv'
    BY <1>2, <2>5, <2>7 DEF Inv, OthersInv
  <2> QED
    BY <2>7, <2>8, <2>9, <2>10 DEF Inv
<1>7. CASE user.state # "Active"
  <2>1. /\ user' = [user EXCEPT !.waiting = IF user.state = "LoggedOut" THEN o ELSE @]
        /\ Leave(t, op[t], l) /\ UNCHANGED s
    BY <1>3, <1>4, <1>7 DEF register_session
  <2>2. OthersInv'
    BY <1>2, <2>1 DEF Inv, OthersInv
  <2> QED
    BY <1>2, <1>5, <2>1, <2>2, OtherStep
<1> QED
  BY <1>6, <1>7

LEMMA LogOutUserStep ==
    ASSUME Inv, NEW t \in All, log_out_user(t)
    PROVE  Inv'
<1>1. /\ todo[t] # <<>> /\ UNCHANGED calls
      /\ UNCHANGED <<s, registered, refs, policy, handle, committed, uploaded, called>>
  BY DEF log_out_user, At
<1>2. PICK l : l = Tail(todo[t])
  OBVIOUS
<1>3. l \in Seq(Steps(Len(s), committed)) /\ Refers(op[t], l)
  BY <1>1, <1>2, AtStep
<1>4. CASE user.state = "LoggedOut"
  <2>1. UNCHANGED user /\ Leave(t, op[t], l)
    BY <1>2, <1>4 DEF log_out_user
  <2>2. OthersInv'
    BY <1>1, <2>1 DEF Inv, OthersInv
  <2> QED
    BY <1>1, <1>3, <2>1, <2>2, OtherStep
<1>5. CASE user.state # "LoggedOut"
  <2>1. PICK o \in 0..Len(s) : o = user.sessions
    BY DEF Inv, OthersInv
  <2>2. PICK a, b, d : a = Todo("log_out", o) /\ b = Todo("pool", o) /\ d = Todo("pool", 0)
    OBVIOUS
  <2>3. /\ b \in Steps(Len(s), committed) /\ b.do # "reference"
        /\ d \in Steps(Len(s), committed) /\ d.do # "reference"
        /\ o # 0 => a \in Steps(Len(s), committed) /\ a.do # "reference"
    BY <2>2, Counts, TodoTyped
  <2>4. user' = [user EXCEPT !.state = "LoggedOut"]
    BY <1>5 DEF log_out_user
  <2>5. OthersInv'
    BY <1>1, <2>4 DEF Inv, OthersInv
  <2>6. PICK q : q = IF o # 0 /\ Alive(o) THEN <<a, b>> \o l ELSE <<d>> \o l
    OBVIOUS
  <2>7. Leave(t, op[t], q)
    BY <1>2, <1>5, <2>1, <2>2, <2>6 DEF log_out_user
  <2>8. q \in Seq(Steps(Len(s), committed)) /\ Refers(op[t], q)
    BY <1>3, <2>3, <2>6, Counts, MoreTodo
  <2> QED
    BY <1>1, <2>5, <2>7, <2>8, OtherStep
<1> QED
  BY <1>4, <1>5

LEMMA PoolStep ==
    ASSUME Inv, NEW t \in All, pool_session(t)
    PROVE  Inv'
<1>1. /\ todo[t] # <<>> /\ UNCHANGED calls
      /\ UNCHANGED <<s, registered, refs, policy, handle, committed, uploaded, called>>
      /\ Leave(t, op[t], Tail(todo[t]))
  BY DEF pool_session, At
<1>2. PICK o \in 0..Len(s) : o = Head(todo[t]).of
  BY <1>1, AtStep, Counts, StepFields
<1>3. user' = [user EXCEPT !.sessions = 0, !.waiting = IF o # 0 THEN o ELSE @]
  BY <1>2 DEF pool_session
<1>4. user' \in [state : {"Active", "LoggedOut", "Error"}, sessions : 0..Len(s), waiting : 0..Len(s)]
  <2>1. PICK v : v = IF o # 0 THEN o ELSE user.waiting
    OBVIOUS
  <2>2. user \in [state : {"Active", "LoggedOut", "Error"}, sessions : 0..Len(s), waiting : 0..Len(s)]
    BY DEF Inv, OthersInv
  <2>3. v \in 0..Len(s) /\ 0 \in 0..Len(s) /\ user' = [user EXCEPT !.sessions = 0, !.waiting = v]
    BY <1>3, <2>1, <2>2, Counts
  <2> QED
    BY ONLY <2>2, <2>3
<1>5. OthersInv'
  BY <1>1, <1>4 DEF Inv, OthersInv
<1> QED
  BY <1>1, <1>5, AtStep, OtherStep

(* Steps that change the handle, the user's state or nothing else.         *)
LEMMA SmallSteps ==
    ASSUME Inv, NEW t \in All,
           \/ invalidate_all_handles(t) \/ unregister_refresh_handle(t)
           \/ invalidate(t) \/ bind_session_handler(t)
    PROVE  Inv'
<1>1. CASE invalidate_all_handles(t) \/ unregister_refresh_handle(t)
  <2>1. /\ todo[t] # <<>> /\ UNCHANGED calls /\ Leave(t, op[t], Tail(todo[t]))
        /\ UNCHANGED <<s, registered, refs, user, policy, committed, uploaded, called>>
        /\ handle' = NoHandle
    BY <1>1 DEF invalidate_all_handles, unregister_refresh_handle, At
  <2>2. OthersInv'
    BY <2>1, Counts DEF Inv, OthersInv, NoHandle
  <2> QED
    BY <2>1, <2>2, AtStep, OtherStep
<1>2. CASE invalidate(t)
  <2>1. /\ todo[t] # <<>> /\ UNCHANGED calls /\ Leave(t, op[t], Tail(todo[t]))
        /\ UNCHANGED <<s, registered, refs, policy, handle, committed, uploaded, called>>
        /\ user' = [user EXCEPT !.state = "Error"]
    BY <1>2 DEF invalidate, At
  <2>2. OthersInv'
    BY <2>1 DEF Inv, OthersInv
  <2> QED
    BY <2>1, <2>2, AtStep, OtherStep
<1>3. CASE bind_session_handler(t)
  <2>1. At(t, "bind")
    BY <1>3 DEF bind_session_handler
  <2>2. Head(todo[t]).of \in 1..Len(s)
    BY <2>1, SessionAt
  <2>3. /\ todo[t] # <<>> /\ UNCHANGED calls /\ Leave(t, op[t], Tail(todo[t]))
        /\ UNCHANGED <<s, registered, refs, user, policy, committed, uploaded, called>>
        /\ handle' = [of |-> Head(todo[t]).of, kind |-> "strong"]
    BY <1>3 DEF bind_session_handler, At
  <2>4. OthersInv'
    BY <2>2, <2>3 DEF Inv, OthersInv
  <2> QED
    BY <2>3, <2>4, AtStep, OtherStep
<1> QED
  BY <1>1, <1>2, <1>3

LEMMA LatestStep ==
    ASSUME Inv, NEW t \in All, get_version_of_latest_snapshot(t)
    PROVE  Inv'
<1>1. At(t, "latest")
  BY DEF get_version_of_latest_snapshot
<1>2. PICK x : x = [do |-> "notify", of |-> Head(todo[t]).of, version |-> committed]
  OBVIOUS
<1>3. x \in Steps(Len(s), committed) /\ x.do # "reference"
  BY <1>1, <1>2, SessionAt, Counts DEF Steps
<1>4. <<x>> \in Seq(Steps(Len(s), committed)) /\ Refers(op[t], <<x>>)
  BY <1>3, Counts, OneTodo
<1>5. todo[t] # <<>> /\ Leave(t, op[t], <<x>>) /\ UNCHANGED <<s, Others, calls>>
  BY <1>2 DEF get_version_of_latest_snapshot, At
<1> QED
  BY <1>4, <1>5, GoOnStep

LEMMA RestoreStep ==
    ASSUME Inv, NEW t \in All, restore_callbacks(t)
    PROVE  Inv'
<1>1. At(t, "restore")
  BY DEF restore_callbacks
<1>2. todo[t] # <<>> /\ Head(todo[t]).do = "restore" /\ UNCHANGED <<Others, calls>>
      /\ Leave(t, op[t], Tail(todo[t]))
  BY DEF restore_callbacks, At
<1>3. PICK o \in 1..Len(s) : o = Head(todo[t]).of
  BY <1>1, SessionAt
<1>4. PICK q \in Queues : q = Head(todo[t]).queue
  BY <1>2, AtStep, Counts, StepFields
<1>5. PICK W : W = IF s[o].m_state = "Inactive" THEN {} ELSE Queued(q)
  OBVIOUS
<1>6. W \in SUBSET Waiters
  BY <1>5, QueuedTyped
<1>7. PICK x : x = [s[o] EXCEPT !.queue = q, !.late = W]
  OBVIOUS
<1>8. s' = [s EXCEPT ![o] = x]
  <2>1. s' = [s EXCEPT ![o].queue = q, ![o].late = W]
    BY <1>3, <1>4, <1>5 DEF restore_callbacks, Session
  <2>2. DOMAIN s = 1..Len(s)
    BY DEF Inv, SessionsInv
  <2> QED
    BY ONLY <1>7, <2>1, <2>2
<1>9. Becomes(Len(s), committed, s[o], x) /\ x.next = <<>>
  <2>1. Sound(Len(s), committed, s[o]) /\ Len(s) \in Nat /\ committed \in Nat /\ s[o].next = <<>>
    BY Counts DEF Inv, SessionsInv
  <2>2. PICK n, c, r : n = Len(s) /\ c = committed /\ r = s[o]
    OBVIOUS
  <2>3. Sound(n, c, r) /\ n \in Nat /\ c \in Nat /\ x = [r EXCEPT !.queue = q, !.late = W]
    BY <1>7, <2>1, <2>2
  <2>4. Becomes(n, c, r, x) /\ x.next = r.next
    BY ONLY <1>4, <1>6, <2>3, q \in Queues DEF Becomes, Sound, Sessions, Driven, Awaits
  <2> QED
    BY <2>1, <2>2, <2>4
<1>10. SessionsInv' /\ Len(s)' = Len(s)
  BY <1>2, <1>8, <1>9, PutAlike DEF Others
<1>11. TodoInv'
  <2>1. PICK k : k = Tail(todo[t])
    OBVIOUS
  <2>2. k \in Seq(Steps(Len(s), committed)) /\ op[t] \in OpNames \ {"none"}
    BY <1>1, <2>1, SessionAt
  <2>3. Leave(t, op[t], k) /\ Len(s') = Len(s) /\ committed' = committed
    BY <1>2, <1>10, <2>1 DEF Others
  <2> QED
    BY <2>2, <2>3, Counts, LeaveTodo
<1>12. RefsInv'
  BY <1>1, <1>2, SessionAt, LeaveRefs DEF Others
<1>13. OthersInv'
  BY <1>2, <1>10, SameOthers DEF Inv, OthersInv
<1> QED
  BY <1>10, <1>11, <1>12, <1>13 DEF Inv

LEMMA CallStep ==
    ASSUME Inv, NEW t \in All, call_callbacks(t)
    PROVE  Inv'
<1>1. /\ todo[t] # <<>> /\ UNCHANGED calls /\ Leave(t, op[t], Tail(todo[t]))
      /\ UNCHANGED <<s, registered, refs, user, policy, handle, committed, uploaded>>
      /\ called' = [w \in DOMAIN called |->
                      called[w] + IF w \in Head(todo[t]).waits THEN 1 ELSE 0]
  BY DEF call_callbacks, At
<1>2. called' \in [DOMAIN called -> Nat] /\ DOMAIN called' = DOMAIN called
  BY <1>1 DEF Inv, OthersInv
<1>3. OthersInv'
  BY <1>1, <1>2 DEF Inv, OthersInv
<1> QED
  BY <1>1, <1>3, AtStep, OtherStep

-----------------------------------------------------------------------------
(* Calls of the application.                                               *)

(* A call that works on the session o.                                     *)
LEMMA CalledStep ==
    ASSUME Inv, NEW t \in All, Call(t), NEW name \in OpNames \ {"none"}, NEW o \in 1..Len(s),
           NEW x, Becomes(Len(s), committed, s[o], x), Unlock(t, name, x, <<>>), UNCHANGED Others
    PROVE  Inv'
<1>1. UNCHANGED <<committed, registered>> /\ refs' \subseteq refs
  BY DEF Others
<1>2. SessionsInv' /\ TodoInv' /\ RefsInv' /\ Len(s)' = Len(s)
  BY <1>1, EmptyTodo, UnlockKeeps
<1>3. OthersInv'
  BY <1>2, CallCounts, SameOthers
<1> QED
  BY <1>2, <1>3 DEF Inv

(* A call that only has something to do.                                   *)
LEMMA BegunStep ==
    ASSUME Inv, NEW t \in All, Call(t), NEW name \in OpNames \ {"none"},
           NEW q \in Seq(Steps(Len(s), committed)), Refers(name, q), Leave(t, name, q),
           UNCHANGED <<s, committed, registered>>, refs' \subseteq refs,
           UNCHANGED <<user, policy, uploaded, called>>,
           handle' \in [of : 0..Len(s), kind : {"none", "strong", "weak", "answered", "timer"}],
           handle'.kind # "none" => handle'.of # 0
    PROVE  Inv'
<1>1. SessionsInv' /\ TodoInv' /\ RefsInv'
  BY LeaveKeeps
<1>2. calls' \in 0..MaxCalls
  BY CallCounts
<1>3. OthersInv'
  BY <1>2 DEF Inv, OthersInv
<1> QED
  BY <1>1, <1>3 DEF Inv

LEMMA HandleTyped ==
    ASSUME Inv
    PROVE  /\ handle \in [of : 0..Len(s), kind : {"none", "strong", "weak", "answered", "timer"}]
           /\ handle.kind # "none" => handle.of # 0
  BY DEF Inv, OthersInv

LEMMA GetStep ==
    ASSUME Inv, NEW t \in All, get_session(t)
    PROVE  Inv'
<1>1. PICK a, b : a = Todo("register", registered) /\ b = Todo("reference", registered)
  OBVIOUS
<1>2. /\ Call(t) /\ registered # 0 /\ UNCHANGED <<s, Others>>
      /\ Leave(t, "get_session", <<a, b>>)
  BY <1>1 DEF get_session
<1>3. registered \in 1..Len(s)
  BY <1>2, Counts DEF Inv, OthersInv
<1>4. /\ a \in Steps(Len(s), committed) /\ a.do = "register"
      /\ b \in Steps(Len(s), committed) /\ b.do = "reference" /\ b.of = registered
  BY <1>1, <1>3, Counts, TodoTyped
<1>5. PICK q : q = <<a, b>>
  OBVIOUS
<1>6. q \in Seq(Steps(Len(s), committed)) /\ Items(q) = {a, b}
  BY <1>4, <1>5, ItemsOfShort
<1>7. Refers("get_session", q)
  BY <1>4, <1>6 DEF Refers, Gets
<1>8. UNCHANGED <<s, committed, registered>> /\ refs' \subseteq refs
      /\ UNCHANGED <<user, policy, uploaded, called, handle>>
  BY <1>2 DEF Others
<1> QED
  BY <1>2, <1>5, <1>6, <1>7, <1>8, HandleTyped, BegunStep DEF OpNames

LEMMA NewTyped ==
    ASSUME NEW n \in Nat, NEW c \in Nat, NEW o \in 1..n
    PROVE  /\ NewSession(o) \in Sessions(n, c) /\ NewSession(o).id = o
           /\ NewSession(o).next = <<>> /\ Driven(NewSession(o)) /\ Awaits(NewSession(o))
<1>1. NoQueue \in Queues /\ <<>> \in Seq(Follows(n)) /\ 0 \in 0..c
  BY NoQueueTyped
<1> QED
  BY <1>1 DEF NewSession, Sessions, States, Driven, Awaits

LEMMA CreateStep ==
    ASSUME Inv, NEW t \in All, create_session(t)
    PROVE  Inv'
<1> DEFINE n == Len(s)
           m == Len(s) + 1
           c == committed
<1>1. PICK a, b, x : /\ a = Todo("register", m) /\ b = Todo("reference", m)
                     /\ x = NewSession(m)
  OBVIOUS
<1>2. PICK q : q = <<a, b>>
  OBVIOUS
<1>3. /\ Call(t) /\ registered = 0 /\ n < MaxSessions /\ s' = Append(s, x)
      /\ registered' = m /\ refs' = refs \cup {m} /\ Leave(t, "create", q)
      /\ SessionMutexFree(t)
      /\ UNCHANGED <<user, policy, handle, committed, uploaded, called>>
  BY <1>1, <1>2 DEF create_session
<1>4. n \in Nat /\ c \in Nat /\ m \in Nat /\ m \in 1..m /\ n <= m
  BY Counts
<1>5. x \in Sessions(m, c) /\ x.id = m /\ x.next = <<>> /\ Driven(x) /\ Awaits(x)
  BY <1>1, <1>4, NewTyped
<1>6. s \in Seq(Sessions(m, c))
  <2>1. Sessions(n, c) \subseteq Sessions(m, c)
    BY <1>4, StepsGrow
  <2>2. s \in Seq(Sessions(n, c))
    BY DEF Inv, SessionsInv
  <2> QED
    BY <2>1, <2>2
<1>7. s' \in Seq(Sessions(m, c)) /\ Len(s') = m /\ s'[m] = x /\ \A o \in 1..n : s'[o] = s[o]
  <2>1. PICK S : S = Sessions(m, c)
    OBVIOUS
  <2>2. s \in Seq(S) /\ x \in S /\ s' = Append(s, x)
    BY <1>3, <1>5, <1>6, <2>1
  <2>3. s' \in Seq(S) /\ Len(s') = m /\ s'[m] = x /\ \A o \in 1..n : s'[o] = s[o]
    BY ONLY <2>2
  <2> QED
    BY <2>1, <2>3
<1>8. SessionsInv'
  <2>1. m <= MaxSessions /\ committed' = committed
    BY <1>3, <1>4, SyncAssumption
  <2>2. \A o \in 1..m : s'[o].id = o /\ s'[o].next = <<>> /\ Driven(s'[o]) /\ Awaits(s'[o])
    <3>1. \A o \in 1..m : o = m \/ o \in 1..n
      BY <1>4
    <3>2. \A o \in 1..n : s[o].id = o /\ s[o].next = <<>> /\ Driven(s[o]) /\ Awaits(s[o])
      BY DEF Inv, SessionsInv
    <3> QED
      BY <1>5, <1>7, <3>1, <3>2
  <2> QED
    BY <1>7, <2>1, <2>2 DEF SessionsInv, Driven, Awaits
<1>9. /\ a \in Steps(m, c) /\ a.do = "register"
      /\ b \in Steps(m, c) /\ b.do = "reference" /\ b.of = m
  BY <1>1, <1>4, TodoTyped
<1>10. q \in Seq(Steps(m, c)) /\ Items(q) = {a, b}
  BY <1>2, <1>9, ItemsOfShort
<1>11. TodoInv'
  <2>1. Len(s)' = m /\ committed' = c /\ "create" \in OpNames \ {"none"}
    BY <1>3, <1>7 DEF OpNames
  <2> QED
    BY <1>3, <1>4, <1>10, <2>1, LeaveTodo
<1>12. OthersInv'
  <2>1. 0..n \subseteq 0..m /\ 1..n \subseteq 1..m
    BY <1>4
  <2>2. calls' \in 0..MaxCalls
    BY <1>3, CallCounts
  <2>3. Len(s') = m /\ m \in 0..m /\ m \in 1..m
    BY <1>4, <1>7
  <2>4. refs' \subseteq 1..m /\ registered' \in 0..m
    BY <1>3, <2>1, <2>3 DEF Inv, OthersInv
  <2>5. /\ user \in [state : {"Active", "LoggedOut", "Error"}, sessions : 0..m, waiting : 0..m]
        /\ handle \in [of : 0..m, kind : {"none", "strong", "weak", "answered", "timer"}]
    BY <2>1 DEF Inv, OthersInv
  <2> QED
    BY <1>3, <2>2, <2>3, <2>4, <2>5 DEF Inv, OthersInv
<1>13. RefsInv'
  <2>1. refs = {}
    <3>1. 0 \notin 1..n /\ refs \subseteq 1..n /\ refs \subseteq {0}
      BY <1>3, <1>4 DEF Inv, OthersInv, RefsInv
    <3> QED
      BY <3>1
  <2>2. \A u \in All : \A y \in Items(todo[u]) : u # t => y.do # "reference"
    BY <1>3 DEF SessionMutexFree, HoldsSessionMutex, Inv, RefsInv, Refers, Gets
  <2>3. \A u \in All : op'[u] = (IF u = t THEN IF q = <<>> THEN "none" ELSE "create" ELSE op[u])
                        /\ todo'[u] = IF u = t THEN q ELSE todo[u]
    BY <1>3 DEF Leave, Inv, TodoInv
  <2>4. q # <<>>
    BY <1>2
  <2>5. \A u \in All : \A y \in Items(todo'[u]) :
            y.do = "reference" => op'[u] \in Gets /\ y.of = m
    BY <1>9, <1>10, <2>2, <2>3, <2>4 DEF Gets
  <2> QED
    BY <1>3, <2>1, <2>5 DEF RefsInv, Refers
<1> QED
  BY <1>8, <1>11, <1>12, <1>13 DEF Inv

(* Calls that have one step to take, or two.                               *)
LEMMA OneStep ==
    ASSUME Inv, NEW t \in All, Call(t), NEW name \in OpNames \ {"none"},
           NEW a \in Steps(Len(s), committed), a.do # "reference", Leave(t, name, <<a>>),
           UNCHANGED <<s, Others>>
    PROVE  Inv'
<1>1. PICK q : q = <<a>>
  OBVIOUS
<1>2. q \in Seq(Steps(Len(s), committed)) /\ Refers(name, q)
  BY <1>1, Counts, OneTodo
<1>3. UNCHANGED <<s, committed, registered>> /\ refs' \subseteq refs
      /\ UNCHANGED <<user, policy, uploaded, called, handle>>
  BY DEF Others
<1> QED
  BY <1>1, <1>2, <1>3, HandleTyped, BegunStep

LEMMA ReconnectStep ==
    ASSUME Inv, NEW t \in All, reconnect(t)
    PROVE  Inv'
<1>1. PICK a : a = Todo("bind", registered)
  OBVIOUS
<1>2. Call(t) /\ registered # 0 /\ Leave(t, "reconnect", <<a>>) /\ UNCHANGED <<s, Others>>
  BY <1>1 DEF reconnect
<1>3. registered \in 1..Len(s)
  BY <1>2, Counts DEF Inv, OthersInv
<1>4. a \in Steps(Len(s), committed) /\ a.do # "reference"
  BY <1>1, <1>3, Counts, TodoTyped
<1> QED
  BY <1>2, <1>4, OneStep DEF OpNames

LEMMA ConfigureStep ==
    ASSUME Inv, NEW t \in All, update_configuration(t)
    PROVE  Inv'
<1>1. PICK a : a = Todo("reconfigure", user.sessions)
  OBVIOUS
<1>2. /\ Call(t) /\ user.sessions # 0 /\ Leave(t, "reconfigure", <<a>>)
      /\ UNCHANGED <<s, Others>>
  BY <1>1 DEF update_configuration
<1>3. user.sessions \in 1..Len(s)
  BY <1>2, Counts DEF Inv, OthersInv
<1>4. a \in Steps(Len(s), committed) /\ a.do # "reference"
  BY <1>1, <1>3, Counts, TodoTyped
<1> QED
  BY <1>2, <1>4, OneStep DEF OpNames

LEMMA LogOutTyped ==
    ASSUME NEW n \in Nat, NEW c \in Nat, NEW o \in 0..n, NEW name
    PROVE  LogOut(o) \in Seq(Steps(n, c)) /\ Refers(name, LogOut(o))
<1>1. PICK S, a, b : /\ S = Steps(n, c) /\ a = Todo("log_out_user", 0)
                     /\ b = Todo("invalidate_handles", o)
  OBVIOUS
<1>2. a \in S /\ b \in S /\ a.do # "reference" /\ b.do # "reference"
  BY <1>1, TodoTyped
<1>3. <<a, b>> \in Seq(S) /\ Items(<<a, b>>) = {a, b} /\ LogOut(o) = <<a, b>>
  BY <1>1, <1>2, ItemsOfShort DEF LogOut
<1> QED
  BY <1>1, <1>2, <1>3 DEF Refers

LEMMA LogOutStep ==
    ASSUME Inv, NEW t \in All, logOut(t)
    PROVE  Inv'
<1>1. PICK q : q = LogOut(0)
  OBVIOUS
<1>2. q \in Seq(Steps(Len(s), committed)) /\ Refers("log_out", q)
  BY <1>1, Counts, LogOutTyped
<1>3. /\ Call(t) /\ Leave(t, "log_out", q)
      /\ UNCHANGED <<s, committed, registered>> /\ refs' \subseteq refs
      /\ UNCHANGED <<user, policy, uploaded, called, handle>>
  BY <1>1 DEF logOut, Others
<1> QED
  BY <1>2, <1>3, HandleTyped, BegunStep DEF OpNames

LEMMA LogInStep ==
    ASSUME Inv, NEW t \in All, update_refresh_token(t)
    PROVE  Inv'
<1>1. /\ Call(t) /\ UNCHANGED <<registered, refs, policy, handle, committed, uploaded, called>>
  BY DEF update_refresh_token
<1>2. calls' \in 0..MaxCalls
  BY <1>1, CallCounts
<1>3. CASE user.waiting # 0 /\ Alive(user.waiting)
  <2>1. PICK o \in 1..Len(s) : o = user.waiting
    BY <1>3, Counts DEF Inv, OthersInv
  <2>2. PICK a, x : a = Todo("revive", o) /\ x = [s[o] EXCEPT !.vended = TRUE]
    OBVIOUS
  <2>3. /\ user' = [state |-> "Active", sessions |-> o, waiting |-> 0]
        /\ s' = [s EXCEPT ![o] = x] /\ Leave(t, "log_in", <<a>>)
    BY <1>3, <2>1, <2>2 DEF update_refresh_token
  <2>4. a \in Steps(Len(s), committed) /\ a.do # "reference"
    BY <2>2, Counts, TodoTyped
  <2>5. PICK q : q = <<a>>
    OBVIOUS
  <2>6. q \in Seq(Steps(Len(s), committed)) /\ Refers("log_in", q) /\ Leave(t, "log_in", q)
    BY <2>3, <2>4, <2>5, Counts, OneTodo
  <2>7. Becomes(Len(s), committed, s[o], x) /\ x.next = <<>>
    BY <2>2, Counts, VendedEffect DEF Inv, SessionsInv
  <2>8. SessionsInv' /\ Len(s)' = Len(s)
    BY <1>1, <2>3, <2>7, PutAlike
  <2>9. TodoInv'
    BY <1>1, <2>6, <2>8, Counts, LeaveTodo DEF OpNames
  <2>10. RefsInv'
    BY <1>1, <2>6, LeaveRefs
  <2>11. OthersInv'
    BY <1>1, <1>2, <2>3, <2>8, Counts DEF Inv, OthersInv
  <2> QED
    BY <2>8, <2>9, <2>10, <2>11 DEF Inv
<1>4. CASE ~(user.waiting # 0 /\ Alive(user.waiting))
  <2>1. user' = [user EXCEPT !.state = "Active", !.waiting = 0] /\ UNCHANGED <<s, op, todo>>
    BY <1>4 DEF update_refresh_token
  <2>2. user' \in [state : {"Active", "LoggedOut", "Error"}, sessions : 0..Len(s),
                   waiting : 0..Len(s)]
    <3>1. user \in [state : {"Active", "LoggedOut", "Error"}, sessions : 0..Len(s),
                    waiting : 0..Len(s)]
      BY DEF Inv, OthersInv
    <3>2. 0 \in 0..Len(s)
      BY Counts
    <3> QED
      BY ONLY <2>1, <3>1, <3>2
  <2>3. OthersInv'
    BY <1>1, <1>2, <2>1, <2>2 DEF Inv, OthersInv
  <2>4. SessionsInv'
    BY <1>1, <2>1, Counts, KeepSessions
  <2>5. TodoInv' /\ RefsInv'
    BY <1>1, <2>1 DEF Inv, TodoInv, RefsInv, Refers
  <2> QED
    BY <2>3, <2>4, <2>5 DEF Inv
<1> QED
  BY <1>3, <1>4

LEMMA AnswerStep ==
    ASSUME Inv, NEW t \in All, NEW how, request_failed(t, how)
    PROVE  Inv'
<1>1. PICK held : held = IF handle.kind = "strong" THEN handle.of ELSE 0
  OBVIOUS
<1>2. held \in 0..Len(s)
  BY <1>1, Counts, HandleTyped
<1>3. PICK a, b, d : /\ a = Todo("log_out", held) /\ b = Todo("unregister_handle", held)
                     /\ d = Todo("unregister_handle", 0)
  OBVIOUS
<1>4. PICK q : q = CASE how = "refused" /\ held # 0 -> <<a, b>>
                     [] how = "reported" -> LogOut(held) \o <<d>>
                     [] OTHER -> <<b>>
  OBVIOUS
<1>5. /\ Call(t) /\ Requested /\ handle' = Answered /\ Leave(t, "answer", q)
      /\ UNCHANGED <<s, registered, refs, user, policy, committed, uploaded, called>>
  BY <1>1, <1>3, <1>4 DEF request_failed
<1>6. /\ b \in Steps(Len(s), committed) /\ b.do # "reference"
      /\ d \in Steps(Len(s), committed) /\ d.do # "reference"
      /\ held # 0 => a \in Steps(Len(s), committed) /\ a.do # "reference"
  BY <1>2, <1>3, Counts, TodoTyped
<1>7. q \in Seq(Steps(Len(s), committed)) /\ Refers("answer", q)
  <2>1. CASE how = "refused" /\ held # 0
    <3>1. q = <<a, b>>
      BY <1>4, <2>1
    <3>2. PICK S : S = Steps(Len(s), committed)
      OBVIOUS
    <3>3. a \in S /\ b \in S
      BY <1>6, <2>1, <3>2
    <3>4. <<a, b>> \in Seq(S) /\ Items(<<a, b>>) = {a, b}
      BY ONLY <3>3, ItemsOfShort
    <3> QED
      BY <1>6, <2>1, <3>1, <3>2, <3>4 DEF Refers
  <2>2. CASE how = "reported"
    <3>1. PICK S, k, l : S = Steps(Len(s), committed) /\ k = LogOut(held) /\ l = <<d>>
      OBVIOUS
    <3>2. q = k \o l
      BY <1>4, <2>2, <3>1
    <3>3. k \in Seq(S) /\ l \in Seq(S) /\ Refers("answer", k) /\ Refers("answer", l)
      BY <1>2, <1>6, <3>1, Counts, LogOutTyped, OneTodo
    <3>4. k \o l \in Seq(S) /\ Items(k \o l) = Items(k) \cup Items(l)
      BY <3>3, ItemsOfConcat
    <3> QED
      BY <3>1, <3>2, <3>3, <3>4 DEF Refers
  <2>3. CASE ~(how = "refused" /\ held # 0) /\ how # "reported"
    <3>1. q = <<b>>
      BY <1>4, <2>3
    <3> QED
      BY <1>6, <3>1, Counts, OneTodo
  <2> QED
    BY <2>1, <2>2, <2>3
<1>8. /\ handle' \in [of : 0..Len(s), kind : {"none", "strong", "weak", "answered", "timer"}]
      /\ handle'.of # 0
  BY <1>5, HandleTyped DEF Answered, Requested
<1> QED
  BY <1>5, <1>7, <1>8, BegunStep DEF OpNames

LEMMA DropStep ==
    ASSUME Inv, NEW t \in All, NEW o \in 1..Len(s), DropReference(t, o)
    PROVE  Inv'
<1>1. /\ Call(t) /\ refs' \subseteq refs
      /\ UNCHANGED <<s, registered, user, policy, handle, committed, uploaded, called>>
  BY DEF DropReference
<1>2. CASE \E u \in All : Looks(u, o)
  <2>1. UNCHANGED <<op, todo>>
    BY <1>2 DEF DropReference
  <2>2. calls' \in 0..MaxCalls
    BY <1>1, CallCounts
  <2>3. SessionsInv'
    BY <1>1, Counts, KeepSessions
  <2>4. TodoInv' /\ RefsInv'
    BY <1>1, <2>1 DEF Inv, TodoInv, RefsInv, Refers
  <2>5. OthersInv'
    BY <1>1, <2>2 DEF Inv, OthersInv
  <2> QED
    BY <2>3, <2>4, <2>5 DEF Inv
<1>3. CASE ~\E u \in All : Looks(u, o)
  <2>1. PICK a, q : a = Todo("did_drop", o) /\ q = <<a>>
    OBVIOUS
  <2>2. Leave(t, "drop", q)
    BY <1>3, <2>1 DEF DropReference
  <2>3. a \in Steps(Len(s), committed) /\ a.do # "reference"
    BY <2>1, Counts, TodoTyped
  <2>4. q \in Seq(Steps(Len(s), committed)) /\ Refers("drop", q)
    BY <2>1, <2>3, Counts, OneTodo
  <2> QED
    BY <1>1, <2>2, <2>4, HandleTyped, BegunStep DEF OpNames
<1> QED
  BY <1>2, <1>3

LEMMA SuspendStep ==
    ASSUME Inv, NEW t \in All, NEW o \in 1..Len(s), suspend(t, o)
    PROVE  Inv'
<1>1. PICK x : x = state_log_out(s[o])
  OBVIOUS
<1>2. Call(t) /\ Unlock(t, "suspend", x, <<>>) /\ UNCHANGED Others
  BY <1>1 DEF suspend
<1>3. Becomes(Len(s), committed, s[o], x)
  BY <1>1, Counts, LogOutEffect
<1> QED
  BY <1>2, <1>3, CalledStep DEF OpNames

LEMMA ResumeStep ==
    ASSUME Inv, NEW t \in All, NEW o \in 1..Len(s), resume(t, o)
    PROVE  Inv'
<1>1. PICK x : x = state_revive(s[o])
  OBVIOUS
<1>2. Call(t) /\ Unlock(t, "resume", x, <<>>) /\ UNCHANGED Others
  BY <1>1 DEF resume
<1>3. Becomes(Len(s), committed, s[o], x)
  BY <1>1, Counts, ReviveEffect
<1> QED
  BY <1>2, <1>3, CalledStep DEF OpNames

LEMMA WaitStep ==
    ASSUME Inv, NEW t \in All, NEW o \in 1..Len(s), NEW d \in Dirs, NEW w \in Waiters,
           wait_for(t, o, d, w)
    PROVE  Inv'
<1>1. PICK x : x = wait_for_completion(s[o], d, w)
  OBVIOUS
<1>2. /\ Call(t) /\ Unlock(t, "wait", x, <<>>)
      /\ called' = [v \in DOMAIN called \cup {w} |-> IF v = w THEN 0 ELSE called[v]]
      /\ UNCHANGED <<registered, refs, user, policy, handle, committed, uploaded>>
  BY <1>1 DEF wait_for
<1>3. Becomes(Len(s), committed, s[o], x)
  BY <1>1, Counts, WaitForEffect
<1>4. SessionsInv' /\ TodoInv' /\ RefsInv' /\ Len(s)' = Len(s)
  BY <1>2, <1>3, EmptyTodo, UnlockKeeps DEF OpNames
<1>5. calls' \in 0..MaxCalls
  BY <1>2, CallCounts
<1>6. DOMAIN called' \subseteq Waiters /\ called' \in [DOMAIN called' -> Nat]
  BY <1>2 DEF Inv, OthersInv
<1>7. OthersInv'
  BY <1>2, <1>4, <1>5, <1>6 DEF Inv, OthersInv
<1> QED
  BY <1>4, <1>7 DEF Inv

LEMMA CommitStep ==
    ASSUME Inv, NEW t \in All, NEW o \in 1..Len(s), commit_write(t, o)
    PROVE  Inv'
<1>1. PICK a, q : a = Todo("latest", o) /\ q = <<a>>
  OBVIOUS
<1>2. /\ Call(t) /\ committed < MaxVersion /\ committed' = committed + 1
      /\ Leave(t, "commit", q)
      /\ UNCHANGED <<s, registered, refs, user, policy, handle, uploaded, called>>
  BY <1>1 DEF commit_write
<1>3. committed' \in Nat /\ committed <= committed' /\ committed' \in 0..MaxVersion
      /\ 0..committed \subseteq 0..committed'
  BY <1>2, Counts, SyncAssumption
<1>4. a \in Steps(Len(s), committed') /\ a.do # "reference"
  BY <1>1, <1>3, Counts, TodoTyped
<1>5. q \in Seq(Steps(Len(s), committed')) /\ Refers("commit", q)
  BY <1>1, <1>3, <1>4, Counts, OneTodo
<1>6. SessionsInv'
  BY <1>2, <1>3, KeepSessions
<1>7. TodoInv'
  BY <1>2, <1>3, <1>5, Counts, LeaveTodo DEF OpNames
<1>8. RefsInv'
  BY <1>2, <1>5, LeaveRefs
<1>9. OthersInv'
  BY <1>2, <1>3, CallCounts DEF Inv, OthersInv
<1> QED
  BY <1>6, <1>7, <1>8, <1>9 DEF Inv

LEMMA StartsStep ==
    ASSUME Inv, NEW t \in All, Starts(t)
    PROVE  Inv'
<1>1. Objects = 1..Len(s)
  BY TypesHold
<1> HIDE DEF Objects, Inv
<1> QED
  BY <1>1, GetStep, CreateStep, ReconnectStep, LogOutStep, LogInStep, ConfigureStep, AnswerStep,
     DropStep, SuspendStep, ResumeStep, CommitStep, WaitStep, Zenon DEF Starts

LEMMA ContinuesStep ==
    ASSUME Inv, NEW t \in All, Continues(t)
    PROVE  Inv'
  BY ReferenceStep, UnregisterStep, ReleaseStep, UnlockManagerStep, RegisterStep, LogOutUserStep,
     PoolStep, SmallSteps, DidDropStep, SessionLogOutStep, ReviveStep, ReconfigureStep, LatestStep,
     NotifyStep, HandleErrorStep, ErrorStep, RestoreStep, CallStep, Zenon DEF Continues

-----------------------------------------------------------------------------
(* The token, the event loop and the network.                              *)

LEMMA TokenStep ==
    ASSUME Inv, NEW t \in All, refresh_access_token(t)
    PROVE  Inv'
<1>1. /\ Requested
      /\ UNCHANGED <<registered, refs, user, policy, committed, uploaded, called, calls>>
  BY DEF refresh_access_token
<1>2. PICK o \in 1..Len(s) : o = handle.of
  BY <1>1, Counts, HandleTyped DEF Requested
<1>3. PICK x : x = state_refresh(s[o])
  OBVIOUS
<1>4. Becomes(Len(s), committed, s[o], x)
  BY <1>3, Counts, RefreshEffect
<1>5. PICK a, q : a = Todo("unregister_handle", 0) /\ q = <<a>>
  OBVIOUS
<1>6. a \in Steps(Len(s), committed) /\ a.do # "reference"
  BY <1>5, Counts, TodoTyped
<1>7. q \in Seq(Steps(Len(s), committed)) /\ Refers("token", q)
  BY <1>5, <1>6, Counts, OneTodo
<1>8. \/ Unlock(t, "token", x, <<>>) \/ Unlock(t, "token", x, q)
      \/ Leave(t, "token", q) /\ UNCHANGED s
  BY <1>2, <1>3, <1>5 DEF refresh_access_token
<1>9. \E k \in {"timer", "answered"} : handle' = [handle EXCEPT !.kind = k]
  BY DEF refresh_access_token, Answered
<1>10. SessionsInv' /\ TodoInv' /\ RefsInv' /\ Len(s)' = Len(s)
  <2>1. "token" \in OpNames \ {"none"} /\ UNCHANGED <<committed, registered>> /\ refs' \subseteq refs
    BY <1>1 DEF OpNames
  <2>2. CASE Unlock(t, "token", x, <<>>)
    BY <1>4, <2>1, <2>2, EmptyTodo, UnlockKeeps
  <2>3. CASE Unlock(t, "token", x, q)
    BY <1>4, <1>7, <2>1, <2>3, UnlockKeeps
  <2>4. CASE Leave(t, "token", q) /\ UNCHANGED s
    BY <1>7, <2>1, <2>4, LeaveKeeps
  <2> QED
    BY <1>8, <2>2, <2>3, <2>4
<1>11. /\ handle' \in [of : 0..Len(s), kind : {"none", "strong", "weak", "answered", "timer"}]
       /\ handle'.of # 0
  <2>1. /\ handle \in [of : 0..Len(s), kind : {"none", "strong", "weak", "answered", "timer"}]
        /\ handle.of # 0
    BY <1>1, HandleTyped DEF Requested
  <2> QED
    BY ONLY <1>9, <2>1
<1>12. OthersInv'
  BY <1>1, <1>10, <1>11 DEF Inv, OthersInv
<1> QED
  BY <1>10, <1>12 DEF Inv

LEMMA RequestStep ==
    ASSUME Inv, timer_fired \/ retry_request
    PROVE  Inv'
<1>1. /\ handle.kind \in {"timer", "strong"} /\ handle' = [handle EXCEPT !.kind = "weak"]
      /\ UNCHANGED <<s, registered, refs, user, policy, op, todo, committed, uploaded, called, calls>>
  BY DEF timer_fired, retry_request
<1>2. /\ handle' \in [of : 0..Len(s), kind : {"none", "strong", "weak", "answered", "timer"}]
      /\ handle'.of # 0
  <2>1. /\ handle \in [of : 0..Len(s), kind : {"none", "strong", "weak", "answered", "timer"}]
        /\ handle.of # 0
    BY <1>1, HandleTyped
  <2> QED
    BY ONLY <1>1, <2>1
<1>3. OthersInv'
  BY <1>1, <1>2 DEF Inv, OthersInv
<1>4. SessionsInv'
  BY <1>1, Counts, KeepSessions
<1>5. TodoInv' /\ RefsInv'
  BY <1>1 DEF Inv, TodoInv, RefsInv, Refers
<1> QED
  BY <1>3, <1>4, <1>5 DEF Inv

LEMMA UploadStep ==
    ASSUME Inv, NEW o \in 1..Len(s), Upload(o)
    PROVE  Inv'
<1>1. /\ uploaded < s[o].announced /\ uploaded' = uploaded + 1
      /\ UNCHANGED <<s, registered, refs, user, policy, op, todo, handle, committed, called, calls>>
  BY DEF Upload
<1>2. s[o].announced \in 0..committed
  BY Counts DEF Sound, Sessions
<1>3. uploaded' \in 0..committed
  BY <1>1, <1>2, Counts DEF Inv, OthersInv
<1>4. OthersInv'
  BY <1>1, <1>3 DEF Inv, OthersInv
<1>5. SessionsInv'
  BY <1>1, Counts, KeepSessions
<1>6. TodoInv' /\ RefsInv'
  BY <1>1 DEF Inv, TodoInv, RefsInv, Refers
<1> QED
  BY <1>4, <1>5, <1>6 DEF Inv

LEMMA CompleteStep ==
    ASSUME Inv, NEW o \in 1..Len(s), NEW p \in s[o].pending, complete(o, p)
    PROVE  Inv'
<1>1. PICK r : r = [s[o] EXCEPT !.pending = @ \ {p}]
  OBVIOUS
<1>2. PICK x : x = Completed(r, p)
  OBVIOUS
<1>3. Unlock(Loop, "complete", x, <<>>) /\ UNCHANGED <<Others, calls>>
  BY <1>1, <1>2 DEF complete
<1>4. Sound(Len(s), committed, s[o]) /\ p \in Handlers(committed)
  BY Counts DEF Sound, Sessions
<1>5. Becomes(Len(s), committed, s[o], r)
  BY <1>1, <1>4, Counts, RemovedEffect
<1>6. Becomes(Len(s), committed, r, x)
  BY <1>2, <1>4, <1>5, Counts, CompletedEffect DEF Becomes
<1>7. Becomes(Len(s), committed, s[o], x)
  BY <1>5, <1>6, Counts, Chained
<1>8. "complete" \in OpNames \ {"none"} /\ Loop \in All
      /\ UNCHANGED <<committed, registered>> /\ refs' \subseteq refs
  BY <1>3 DEF OpNames, All, Others
<1>9. SessionsInv' /\ TodoInv' /\ RefsInv' /\ Len(s)' = Len(s)
  BY <1>3, <1>7, <1>8, EmptyTodo, UnlockKeeps
<1>10. OthersInv'
  BY <1>3, <1>9, SameOthers DEF Inv, OthersInv
<1> QED
  BY <1>9, <1>10 DEF Inv

LEMMA ServerErrorStep ==
    ASSUME Inv, NEW o \in 1..Len(s), NEW e \in Errors, server_error(o, e)
    PROVE  Inv'
<1>1. PICK h, a, q : /\ h = IF e \in Fatal THEN "fatal" ELSE "expired"
                     /\ a = [do |-> "ask", of |-> o, error |-> e] /\ q = <<a>>
  OBVIOUS
<1>2. PICK x : x = [s[o] EXCEPT !.halt = h]
  OBVIOUS
<1>3. Call(Loop) /\ s' = [s EXCEPT ![o] = x] /\ Leave(Loop, "error", q) /\ UNCHANGED Others
  BY <1>1, <1>2 DEF server_error
<1>4. Becomes(Len(s), committed, s[o], x) /\ x.next = <<>>
  <2>1. h \in {"no", "expired", "fatal"} /\ s[o].next = <<>>
    BY <1>1 DEF Inv, SessionsInv
  <2> QED
    BY <1>2, <2>1, Counts, HaltEffect
<1>5. UNCHANGED <<committed, registered>> /\ refs' \subseteq refs /\ Loop \in All
  BY <1>3 DEF Others, All
<1>6. SessionsInv' /\ Len(s)' = Len(s)
  BY <1>3, <1>4, <1>5, PutAlike
<1>7. a \in Steps(Len(s), committed) /\ a.do # "reference"
  BY <1>1 DEF Steps
<1>8. q \in Seq(Steps(Len(s), committed)) /\ Refers("error", q)
  BY <1>1, <1>7, Counts, OneTodo
<1>9. TodoInv'
  BY <1>3, <1>5, <1>6, <1>8, Counts, LeaveTodo DEF OpNames
<1>10. RefsInv'
  BY <1>3, <1>5, <1>8, LeaveRefs
<1>11. OthersInv'
  BY <1>3, <1>5, <1>6, CallCounts, SameOthers
<1> QED
  BY <1>6, <1>9, <1>10, <1>11 DEF Inv

-----------------------------------------------------------------------------
LEMMA InitInv ==
    ASSUME Init
    PROVE  Inv
<1>1. /\ s = <<>> /\ registered = 0 /\ refs = {}
      /\ user = [state |-> "Active", sessions |-> 0, waiting |-> 0] /\ policy \in Policies
      /\ op = [t \in All |-> "none"] /\ todo = [t \in All |-> <<>>]
      /\ handle = [of |-> 0, kind |-> "none"] /\ committed = 0 /\ uploaded = 0
      /\ called = [w \in {} |-> 0] /\ calls = 0
  BY DEF Init, NoHandle
<1>2. Len(s) = 0 /\ 0 \in 0..0
  BY <1>1
<1>3. SessionsInv
  BY <1>1, <1>2, SyncAssumption DEF SessionsInv
<1>4. \A t \in All : todo[t] = <<>> /\ op[t] = "none"
  BY <1>1
<1>5. TodoInv
  <2>1. <<>> \in Seq(Steps(Len(s), committed))
    BY EmptyTodo
  <2> QED
    BY <1>1, <1>4, <2>1 DEF TodoInv, OpNames
<1>6. RefsInv
  BY <1>1, <1>4, EmptyTodo DEF RefsInv
<1>7. OthersInv
  BY <1>1, <1>2, SyncAssumption DEF OthersInv
<1> QED
  BY <1>3, <1>5, <1>6, <1>7 DEF Inv

LEMMA NextInv ==
    ASSUME Inv, [Next]_vars
    PROVE  Inv'
<1>1. Objects = 1..Len(s) /\ Threads \subseteq All
  BY TypesHold DEF All
<1>2. CASE Next
  <2> HIDE DEF Objects, Inv
  <2> QED
    BY <1>1, <1>2, StartsStep, ContinuesStep, TokenStep, RequestStep, CompleteStep, UploadStep,
       ServerErrorStep, Zenon DEF Next, Refreshes, Completes, Uploads
<1>3. CASE UNCHANGED vars
  BY <1>3 DEF vars, Inv, SessionsInv, TodoInv, OthersInv, RefsInv, Refers
<1> QED
  BY <1>2, <1>3

LEMMA InvHolds == Spec => []Inv
  BY InitInv, NextInv, PTL DEF Spec

(* The session objects, the users' maps, the handle and the steps that     *)
(* threads have left always have their types, whatever threads interleave; *)
(* above all, a session that is up has its sync::Session, no version is    *)
(* announced that is not committed, and only announced ones are uploaded.  *)
THEOREM TypesAreKept == Spec => []TypeOK
<1>1. Inv => TypeOK
  BY TypesHold
<1> QED
  BY <1>1, InvHolds, PTL

(* A session that a Realm holds is the one that SyncManager finds for its  *)
(* path: unregister_session never drops one that is referenced, although   *)
(* it looks the path up and not the session, and a session that is dropped *)
(* and revived takes no reference.                                         *)
THEOREM ReferencedAreFound == Spec => []ReferencedIsRegistered
<1>1. Inv => ReferencedIsRegistered
  BY DEF Inv, RefsInv, ReferencedIsRegistered
<1> QED
  BY <1>1, InvHolds, PTL

-----------------------------------------------------------------------------
(* When the event loop closes a dying session, the handler it completes    *)
(* waited for all that was announced.                                      *)

LEMMA ClosingHandler ==
    ASSUME NEW n \in Nat, NEW c \in Nat, NEW r, Sound(n, c, r), r.m_state = "Dying",
           NEW p \in r.pending, NEW x, x = [r EXCEPT !.pending = @ \ {p}],
           Completed(x, p).m_state # "Dying", NEW u \in Nat,
           p.live => (p.dir = "upload" => p.upto <= u)
    PROVE  r.announced <= u
<1>1. x.m_state = "Dying" /\ x.death_count = r.death_count /\ r \in Sessions(n, c)
  BY DEF Sound, Sessions
<1>2. p.death /\ r.death_count = p.tag
  <2>1. ASSUME ~(p.death /\ r.death_count = p.tag) PROVE Completed(x, p).m_state = "Dying"
    <3>1. CASE ~p.death /\ x.resync_counter = p.tag
      <4>1. Completed(x, p) = [x EXCEPT !.queue[p.dir] = {}, !.next = CancelAll(x.id, x.queue[p.dir])]
        BY <1>1, <2>1, <3>1 DEF Completed
      <4> QED
        BY <1>1, <4>1 DEF Sessions
    <3>2. CASE ~(~p.death /\ x.resync_counter = p.tag)
      BY <1>1, <2>1, <3>2 DEF Completed
    <3> QED
      BY <3>1, <3>2
  <2> QED
    BY <2>1
<1>3. p.live /\ p.dir = "upload" /\ r.announced <= p.upto
  BY <1>2 DEF Sound, Awaits
<1>4. p.upto \in Nat /\ r.announced \in Nat
  BY <1>1 DEF Sessions, Handlers
<1> QED
  BY <1>3, <1>4

(* Only complete takes the event loop into a completion.                   *)
LEMMA StartsLeave ==
    ASSUME Inv, NEW t \in All, t # Loop, Starts(t)
    PROVE  op'[Loop] = op[Loop]
<1>1. (\E name, q : Leave(t, name, q)) \/ UNCHANGED op
  BY DEF Starts, get_session, create_session, reconnect, logOut, update_refresh_token,
         update_configuration, request_failed, DropReference, suspend, resume, commit_write,
         wait_for, Unlock
<1> QED
  BY <1>1 DEF Leave, Inv, TodoInv, All

LEMMA ContinuesLeave ==
    ASSUME Inv, NEW t \in All, Continues(t), op[Loop] = "none"
    PROVE  op'[Loop] = "none"
<1>1. todo[t] # <<>>
  BY DEF Continues, At, external_reference, unregister_session, release_reference, unlock_manager,
         register_session, log_out_user, pool_session, invalidate_all_handles, invalidate,
         did_drop_external_reference, session_log_out, revive_if_needed, reconfigure,
         get_version_of_latest_snapshot, nonsync_transact_notify, bind_session_handler,
         unregister_refresh_handle, handle_error, error_effect, restore_callbacks, call_callbacks
<1>2. \E name, q : Leave(t, name, q)
  BY DEF Continues, Unlock, external_reference, unregister_session, release_reference, unlock_manager,
         register_session, log_out_user, pool_session, invalidate_all_handles, invalidate,
         did_drop_external_reference, session_log_out, revive_if_needed, reconfigure,
         get_version_of_latest_snapshot, nonsync_transact_notify, bind_session_handler,
         unregister_refresh_handle, handle_error, error_effect, restore_callbacks, call_callbacks
<1>3. t # Loop
  BY <1>1 DEF Inv, TodoInv, All
<1> QED
  BY <1>2, <1>3 DEF Leave, Inv, TodoInv, All

LEMMA OnlyCompletes ==
    ASSUME Inv, [Next]_vars, op[Loop] = "none", op'[Loop] = "complete"
    PROVE  \E o \in 1..Len(s) : \E p \in s[o].pending : complete(o, p)
<1>1. Objects = 1..Len(s) /\ Threads \subseteq All /\ \A t \in Threads : t # Loop
  BY TypesHold, SyncAssumption DEF All
<1>2. ASSUME NEW t \in Threads PROVE ~Starts(t)
  BY <1>1, <1>2, StartsLeave
<1>3. ASSUME NEW t \in All PROVE ~Continues(t)
  BY <1>3, ContinuesLeave
<1>4. ASSUME NEW t \in Threads, refresh_access_token(t) PROVE FALSE
  <2>1. \E name, q : Leave(t, name, q)
    BY <1>4 DEF refresh_access_token, Unlock
  <2> QED
    BY <1>1, <2>1 DEF Leave, Inv, TodoInv, All
<1>5. ASSUME timer_fired \/ retry_request \/ (\E o \in Objects : Upload(o)) \/ UNCHANGED vars
      PROVE  FALSE
  BY <1>5 DEF timer_fired, retry_request, Upload, vars
<1>6. ASSUME NEW o \in Objects, NEW e \in Errors, server_error(o, e) PROVE FALSE
  <2>1. \E q : Leave(Loop, "error", q)
    BY <1>6 DEF server_error
  <2> QED
    BY <2>1 DEF Leave, Inv, TodoInv, All
<1> HIDE DEF Objects
<1> QED
  BY <1>1, <1>2, <1>3, <1>4, <1>5, <1>6, Zenon DEF Next, Refreshes, Completes, Uploads

LEMMA ClosedStep ==
    ASSUME Inv, [Next]_vars, NEW o \in Objects, s[o].m_state = "Dying",
           s'[o].m_state = "Inactive", op[Loop] = "none", op'[Loop] = "complete"
    PROVE  s[o].announced <= uploaded
<1>1. PICK k \in 1..Len(s) : \E p \in s[k].pending : complete(k, p)
  BY OnlyCompletes
<1>2. PICK p \in s[k].pending : complete(k, p)
  BY <1>1
<1>3. o \in 1..Len(s)
  BY TypesHold
<1>4. PICK r : r = [s[k] EXCEPT !.pending = @ \ {p}]
  OBVIOUS
<1>5. PICK x : x = Completed(r, p)
  OBVIOUS
<1>6. s' = [s EXCEPT ![x.id] = [x EXCEPT !.next = <<>>]]
  BY <1>2, <1>4, <1>5 DEF complete, Unlock
<1>7. /\ Sound(Len(s), committed, s[k]) /\ p \in Handlers(committed)
      /\ Len(s) \in Nat /\ committed \in Nat
  BY <1>2, Counts DEF Sound, Sessions
<1>8. Becomes(Len(s), committed, s[k], r)
  BY <1>4, <1>7, RemovedEffect
<1>9. Becomes(Len(s), committed, r, x)
  BY <1>5, <1>7, <1>8, CompletedEffect DEF Becomes
<1>10. x.id = k /\ x \in Sessions(Len(s), committed)
  BY <1>8, <1>9 DEF Becomes, Sound, Inv, SessionsInv
<1>11. DOMAIN s = 1..Len(s)
  BY DEF Inv, SessionsInv
<1>12. o = k
  BY <1>3, <1>6, <1>10, <1>11
<1>13. x.m_state # "Dying"
  <2>1. s'[k] = [x EXCEPT !.next = <<>>]
    BY <1>6, <1>10, <1>11
  <2> QED
    BY <1>10, <1>12, <2>1 DEF Sessions
<1>14. p.live => (p.dir = "upload" => p.upto <= uploaded)
  BY <1>2 DEF complete
<1>15. uploaded \in Nat
  BY <1>7 DEF Inv, OthersInv
<1> QED
  BY <1>2, <1>4, <1>5, <1>7, <1>12, <1>13, <1>14, <1>15, ClosingHandler

(* A dying session that is closed by its own completion handler has        *)
(* uploaded every version it had announced to the sync client: handlers of *)
(* an earlier death, of an earlier sync::Session or of a callback never    *)
(* close it.                                                               *)
THEOREM ClosesAfterUpload == Spec => ClosedAfterUpload
<1>1. Inv /\ [Next]_vars =>
        [\A o \in Objects :
           (/\ s[o].m_state = "Dying" /\ s'[o].m_state = "Inactive"
            /\ op[Loop] = "none" /\ op'[Loop] = "complete") => s[o].announced <= uploaded]_vars
  BY ClosedStep
<1> QED
  BY <1>1, InvHolds, PTL DEF Spec, ClosedAfterUpload

=============================================================================
