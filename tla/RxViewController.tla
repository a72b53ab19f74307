-------------------------- MODULE RxViewController --------------------------
(***************************************************************************)
(* The example application: a timer starts, for one conversation, jobs on  *)
(* random schedulers.  A notify job looks the conversation up in its own   *)
(* thread's Realm, observes it and its messageIDs, and stores the tokens   *)
(* in two instance variables that every scheduler thread shares; so it     *)
(* drops the tokens of an earlier job, often of another thread.  Dropping  *)
(* the last reference to a token removes its callback, frees the array     *)
(* that the callback keeps and unbinds that array's Table accessor, which  *)
(* belongs to the Realm of the thread that observed it.                    *)
(*                                                                         *)
(* A scheduler is its queue of blocks (RxRunLoopScheduler has the rest)    *)
(* and a delivery may come whenever its run loop is idle                   *)
(* (CollectionNotifier has the rest).  A Table accessor is named after the *)
(* job that made it, a job after the tick of the timer that started it.    *)
(***************************************************************************)
EXTENDS Integers, Sequences, FiniteSets

CONSTANTS
    Schedulers,  \* the members of _schedulers
    MaxTicks     \* bound: ticks of the timer

ASSUME AppAssumption == MaxTicks \in Nat \ {0}

(* _schedulers is a finite array.                                          *)
ASSUME SchedulersAssumption == IsFiniteSet(Schedulers)

Jobs   == 1..MaxTicks
None   == 0
Slots  == {"_testConversationTokens", "_testMessagesToken"}
Tokens == Jobs \X Slots
Messages(n) == <<n, "_testMessagesToken">>

VARIABLES
    ticks,        \* ticks of the timer so far
    queue,        \* per scheduler, the blocks scheduled on it
    writes, flip, \* the blocks of _randomSchedulers; the __block variables
    conversation, \* is the conversation in the Realm
    pc, job,      \* per scheduler thread: where it is, and in which job
    ret,          \* where it goes on when it has unbound an accessor
    slot, old,    \* the two variables; per thread, what it found in one
    refs,         \* per token, its retain count
    callbacks,    \* the jobs whose messageIDs callback is registered
    copied,       \* per thread, the job whose callback it is calling
    observer,     \* per job, the thread that ran it
    table,        \* per job, the accessor that its array refers to
    m_subtable_map, \* per thread's Realm, the accessor it has interned
    m_ref_count,  \* per accessor
    unbinding,    \* per thread, the accessor it unbinds
    destroyed     \* per accessor, how often its mutex was destroyed

threadVars == <<pc, job, ret>>
tokenVars  == <<slot, old, refs, callbacks>>
appVars    == <<ticks, queue, writes, flip, conversation>>
tableVars  == <<table, m_subtable_map, m_ref_count, unbinding, destroyed>>
vars == <<appVars, threadVars, tokenVars, copied, observer, tableVars>>

Init ==
    /\ ticks = 0
    /\ queue = [s \in Schedulers |-> <<>>]
    /\ writes = {} /\ flip = [n \in Jobs |-> FALSE]
    /\ conversation = TRUE                   \* after __initDB
    /\ pc = [s \in Schedulers |-> "idle"]
    /\ job = [s \in Schedulers |-> None]
    /\ ret = [s \in Schedulers |-> "idle"]
    /\ slot = [k \in Slots |-> None]
    /\ old = [s \in Schedulers |-> None]
    /\ refs = [x \in Tokens |-> 0]
    /\ callbacks = {} /\ copied = [s \in Schedulers |-> None]
    /\ observer = [n \in Jobs |-> None]
    /\ table = [n \in Jobs |-> None]
    /\ m_subtable_map = [s \in Schedulers |-> None]
    /\ m_ref_count = [a \in Jobs |-> 0]
    /\ unbinding = [s \in Schedulers |-> None]
    /\ destroyed = [a \in Jobs |-> 0]

GoTo(s, where) == pc' = [pc EXCEPT ![s] = where]

(* Table::bind_ptr(), with the mutant that does not count.                 *)
M_bind_ptr(a) == UNCHANGED m_ref_count
bind_ptr(a)   == m_ref_count' = [m_ref_count EXCEPT ![a] = @ + 1]

(* ~Table takes the accessor out of the map that interned it.              *)
child_accessor_destroyed(a) ==
    m_subtable_map' = [t \in Schedulers |-> IF m_subtable_map[t] = a THEN None
                                            ELSE m_subtable_map[t]]

-----------------------------------------------------------------------------
(* The timer and the writers.                                              *)

(* The timer's block calls __startJob:, which schedules one block on a     *)
(* random scheduler and one on a random writer, with a flip of its own.    *)
__startJob ==
    /\ ticks < MaxTicks
    /\ ticks' = ticks + 1
    /\ \E s \in Schedulers :
          queue' = [queue EXCEPT ![s] = Append(@, <<"start", ticks + 1>>)]
    /\ writes' = writes \cup {<<"flip", ticks + 1>>}
    /\ UNCHANGED <<flip, conversation, threadVars, tokenVars, copied,
                   observer, tableVars>>

(* The flip that the block of tick n reads.  Mutant: one flip for all.     *)
M_FlipOf(n) == 1
FlipOf(n)   == n

(* A writer's block: __initConversationJob: adds or updates the            *)
(* conversation; __resetJob: would have another writer delete it.          *)
WriterBlock(b) ==
    /\ b \in writes
    /\ LET f == FlipOf(b[2]) IN
       IF b[1] = "reset"
       THEN /\ conversation' = FALSE
            /\ writes' = writes \ {b}
            /\ UNCHANGED flip
       ELSE /\ flip' = [flip EXCEPT ![f] = ~@]
            /\ conversation' = (conversation \/ ~flip[f])
            /\ writes' = (writes \ {b}) \cup
                         (IF flip[f] THEN {<<"reset", b[2]>>} ELSE {})
    /\ UNCHANGED <<ticks, queue, threadVars, tokenVars, copied, observer,
                   tableVars>>

-----------------------------------------------------------------------------
(* The blocks of a scheduler.                                              *)

Begin(s, n) ==
    /\ GoTo(s, "lookup")
    /\ job' = [job EXCEPT ![s] = n]

(* __notifyJob: schedules the job on a random scheduler: on this one it    *)
(* runs at once.                                                           *)
__notifyJob(s, u) ==
    /\ pc[s] = "idle" /\ queue[s] # <<>> /\ Head(queue[s])[1] = "start"
    /\ LET n == Head(queue[s])[2] IN
       IF u = s
       THEN Begin(s, n) /\ queue' = [queue EXCEPT ![s] = Tail(@)]
       ELSE /\ queue' = [queue EXCEPT ![s] = Tail(@),
                                      ![u] = Append(@, <<"job", n>>)]
            /\ UNCHANGED <<pc, job>>
    /\ UNCHANGED <<ticks, writes, flip, conversation, ret, tokenVars, copied,
                   observer, tableVars>>

RunJob(s) ==
    /\ pc[s] = "idle" /\ queue[s] # <<>> /\ Head(queue[s])[1] = "job"
    /\ Begin(s, Head(queue[s])[2])
    /\ queue' = [queue EXCEPT ![s] = Tail(@)]
    /\ UNCHANGED <<ticks, writes, flip, conversation, ret, tokenVars, copied,
                   observer, tableVars>>

(* __doJobWithCID: finds the conversation (or fails its assertion), gets   *)
(* messageIDs, whose List binds the accessor that its Realm has interned   *)
(* or makes one, under m_subtable_map_lock; and observes both.             *)
__doJobWithCID(s) ==
    /\ pc[s] = "lookup" /\ conversation
    /\ LET n == job[s]
           a == IF m_subtable_map[s] = None THEN n ELSE m_subtable_map[s]
       IN  /\ m_subtable_map' = [m_subtable_map EXCEPT ![s] = a]
           /\ bind_ptr(a)
           /\ table' = [table EXCEPT ![n] = a]
           /\ observer' = [observer EXCEPT ![n] = s]
           /\ refs' = [x \in Tokens |-> IF x[1] = n THEN 1 ELSE refs[x]]
           /\ callbacks' = callbacks \cup {n}
    /\ GoTo(s, "load 1")
    /\ UNCHANGED <<appVars, job, ret, slot, old, copied, unbinding, destroyed>>

(* A store to an instance variable, which ARC makes of a load, a store     *)
(* with a retain, and a release of what was loaded.  No lock is held: two  *)
(* jobs may load the same token, and then both release it.  A token that   *)
(* is released after it was freed has a count below zero (its memory is    *)
(* not taken for another object).                                          *)
Storing == [where \in {"load 1", "store 1", "load 2", "store 2"} |->
               IF where \in {"load 1", "store 1"}
               THEN "_testConversationTokens" ELSE "_testMessagesToken"]

LoadSlot(s) ==
    /\ pc[s] \in {"load 1", "load 2"}
    /\ GoTo(s, IF pc[s] = "load 1" THEN "store 1" ELSE "store 2")
    /\ old' = [old EXCEPT ![s] = slot[Storing[pc[s]]]]
    /\ UNCHANGED <<appVars, job, ret, slot, refs, callbacks, copied, observer,
                   tableVars>>

(* Thread s has released token x once more and is left with r.  The last   *)
(* release of a messageIDs token runs remove_callback; the array of the    *)
(* callback goes with it, unless a delivery has a copy.  Then go on.       *)
Released(s, x, r, next) ==
    LET freed == r[x] = 0 /\ x = Messages(x[1])
        frees == freed /\ \A u \in Schedulers : copied[u] # x[1]
    IN  /\ refs' = r
        /\ callbacks' = IF freed THEN callbacks \ {x[1]} ELSE callbacks
        /\ GoTo(s, IF frees THEN "unbind" ELSE next)
        /\ ret' = [ret EXCEPT ![s] = next]
        /\ unbinding' = [unbinding EXCEPT ![s] = IF frees THEN table[x[1]]
                                                 ELSE None]

ReleaseOld(r, x) == IF x \in Tokens THEN [r EXCEPT ![x] = @ - 1] ELSE r

(* Mutant: the variable does not retain what it holds.                     *)
M_Retain(r, x) == r
Retain(r, x)   == [r EXCEPT ![x] = @ + 1]

StoreSlot(s) ==
    /\ pc[s] \in {"store 1", "store 2"}
    /\ LET k    == Storing[pc[s]]
           x    == <<old[s], k>>
           next == IF pc[s] = "store 1" THEN "load 2" ELSE "clear"
           r    == ReleaseOld(Retain(refs, <<job[s], k>>), x)
       IN  /\ slot' = [slot EXCEPT ![k] = job[s]]
           /\ IF old[s] # None
                 THEN Released(s, x, r, next)
                 ELSE /\ refs' = r /\ GoTo(s, next)
                      /\ UNCHANGED <<callbacks, ret, unbinding>>
    /\ old' = [old EXCEPT ![s] = None]
    /\ UNCHANGED <<appVars, job, copied, observer, table, m_subtable_map,
                   m_ref_count, destroyed>>

(* [tokens removeAllObjects] ends the job.                                 *)
RemoveAllObjects(s) ==
    /\ pc[s] = "clear"
    /\ Released(s, Messages(job[s]),
                [x \in Tokens |-> IF x[1] = job[s] THEN refs[x] - 1
                                  ELSE refs[x]],
                "idle")
    /\ job' = [job EXCEPT ![s] = None]
    /\ UNCHANGED <<appVars, slot, old, copied, observer, table,
                   m_subtable_map, m_ref_count, destroyed>>

-----------------------------------------------------------------------------
(* Deliveries, between the blocks of the observing thread's run loop.      *)

(* Advancing a Realm binds the interned accessors that a transaction       *)
(* touched while it adjusts them (get_subtable_accessor), and unbinds.     *)
AdvanceRealm(s) ==
    /\ pc[s] = "idle" /\ m_subtable_map[s] # None
    /\ LET a == m_subtable_map[s] IN
       /\ bind_ptr(a)
       /\ unbinding' = [unbinding EXCEPT ![s] = a]
    /\ GoTo(s, "unbind")
    /\ ret' = [ret EXCEPT ![s] = "idle"]
    /\ UNCHANGED <<appVars, job, tokenVars, copied, observer, table,
                   m_subtable_map, destroyed>>

(* after_advance() copies a callback, calls the copy and destroys it; with *)
(* the callback removed meanwhile, that frees the array.                   *)
BeginDelivery(s, n) ==
    /\ pc[s] = "idle" /\ n \in callbacks /\ observer[n] = s
    /\ copied' = [copied EXCEPT ![s] = n]
    /\ GoTo(s, "deliver")
    /\ UNCHANGED <<appVars, job, ret, tokenVars, observer, tableVars>>

EndDelivery(s) ==
    /\ pc[s] = "deliver"
    /\ copied' = [copied EXCEPT ![s] = None]
    /\ IF copied[s] \in callbacks
          THEN GoTo(s, "idle") /\ UNCHANGED <<ret, unbinding>>
          ELSE /\ GoTo(s, "unbind")
               /\ ret' = [ret EXCEPT ![s] = "idle"]
               /\ unbinding' = [unbinding EXCEPT ![s] = table[copied[s]]]
    /\ UNCHANGED <<appVars, job, tokenVars, observer, table, m_subtable_map,
                   m_ref_count, destroyed>>

-----------------------------------------------------------------------------
(* Table::unbind_ptr().                                                    *)

(* The decrement, on which everybody but the last returns ...              *)
Unbind(s) ==
    /\ pc[s] = "unbind"
    /\ LET a == unbinding[s]
           last == m_ref_count[a] = 1
       IN  /\ m_ref_count' = [m_ref_count EXCEPT ![a] = @ - 1]
           /\ GoTo(s, IF last THEN "delete" ELSE ret[s])
           /\ unbinding' = IF last THEN unbinding
                           ELSE [unbinding EXCEPT ![s] = None]
    /\ UNCHANGED <<appVars, job, ret, tokenVars, copied, observer, table,
                   m_subtable_map, destroyed>>

(* Mutant: the count is not read again under the lock.                     *)
M_Deletes(a, read) == TRUE

(* Does unbind_ptr() delete the accessor?  It reads m_ref_count again, and *)
(* of an accessor deleted meanwhile it may read anything.                  *)
Deletes(a, read) == IF destroyed[a] = 0 THEN m_ref_count[a] = 0 ELSE read

(* ... and the deletion, under the map's lock, which destroys the mutex    *)
(* and takes the accessor out of the map.                                  *)
UnbindLocked(s, read) ==
    /\ pc[s] = "delete"
    /\ LET a == unbinding[s] IN
       IF Deletes(a, read)
       THEN /\ destroyed' = [destroyed EXCEPT ![a] = @ + 1]
            /\ child_accessor_destroyed(a)
       ELSE UNCHANGED <<destroyed, m_subtable_map>>
    /\ unbinding' = [unbinding EXCEPT ![s] = None]
    /\ GoTo(s, ret[s])
    /\ UNCHANGED <<appVars, job, ret, tokenVars, copied, observer, table,
                   m_ref_count>>

-----------------------------------------------------------------------------
ThreadSteps(s) ==
    \/ \E u \in Schedulers : __notifyJob(s, u)
    \/ RunJob(s) \/ __doJobWithCID(s)
    \/ LoadSlot(s) \/ StoreSlot(s) \/ RemoveAllObjects(s)
    \/ AdvanceRealm(s) \/ \E n \in Jobs : BeginDelivery(s, n)
    \/ EndDelivery(s)
    \/ Unbind(s) \/ \E read \in BOOLEAN : UnbindLocked(s, read)

Next ==
    \/ __startJob
    \/ \E b \in {"flip", "reset"} \X Jobs : WriterBlock(b)
    \/ \E s \in Schedulers : ThreadSteps(s)

Spec == Init /\ [][Next]_vars

-----------------------------------------------------------------------------
(* Properties.                                                             *)

(* Every variable has its type.                                            *)
Places == {"idle", "lookup", "load 1", "store 1", "load 2", "store 2",
           "clear", "deliver", "unbind", "delete"}

TypeOK ==
    /\ ticks \in 0..MaxTicks
    /\ queue \in [Schedulers -> Seq({"start", "job"} \X Jobs)]
    /\ writes \subseteq {"flip", "reset"} \X Jobs
    /\ flip \in [Jobs -> BOOLEAN] /\ conversation \in BOOLEAN
    /\ pc \in [Schedulers -> Places] /\ ret \in [Schedulers -> Places]
    /\ job \in [Schedulers -> 0..MaxTicks]
    /\ slot \in [Slots -> 0..MaxTicks] /\ old \in [Schedulers -> 0..MaxTicks]
    /\ refs \in [Tokens -> Int]
    /\ callbacks \subseteq Jobs /\ copied \in [Schedulers -> 0..MaxTicks]
    /\ observer \in [Jobs -> Schedulers \cup {None}]
    /\ table \in [Jobs -> 0..MaxTicks]
    /\ m_subtable_map \in [Schedulers -> 0..MaxTicks]
    /\ m_ref_count \in [Jobs -> Nat]
    /\ unbinding \in [Schedulers -> 0..MaxTicks]
    /\ destroyed \in [Jobs -> 0..Cardinality(Schedulers)]

(* NSParameterAssert(conversation) of __doJobWithCID: whatever the writers *)
(* do meanwhile, a job finds its conversation, because the branch of       *)
(* __startJob: that deletes it is never taken.                             *)
ConversationFound == \A s \in Schedulers : pc[s] = "lookup" => conversation

(* The token that a variable holds is retained, and the callback of the    *)
(* messages token registered, however stores of different threads overlap: *)
(* the tokens that overlapping stores leak or release twice are never the  *)
(* one that is stored.                                                     *)
StoredTokensLive ==
    /\ \A k \in Slots : slot[k] # None => refs[<<slot[k], k>>] > 0
    /\ LET n == slot["_testMessagesToken"] IN n # None => n \in callbacks

(* An array that is still alive, because its callback is registered or is  *)
(* being called, refers to an accessor that is alive, although any thread  *)
(* may be dropping the last reference to that accessor meanwhile.          *)
ArraysKeepTheirTable ==
    \A n \in Jobs :
        n \in callbacks \/ (\E s \in Schedulers : copied[s] = n)
            => destroyed[table[n]] = 0

(* The assertion of ~Mutex (destroy_failed): the mutex of an accessor is   *)
(* destroyed at most once.                                                 *)
MutexDestroyedOnce == \A a \in Jobs : destroyed[a] <= 1

=============================================================================
