------------------------- MODULE RxRunLoopScheduler -------------------------
(***************************************************************************)
(* One RxRunLoopScheduler: the handshake that starts its run loop thread,  *)
(* the semaphore that every caller passes like a turnstile, the blocks and *)
(* timers that the run loop performs, the tokens that cancel them, and the *)
(* dealloc that lets the thread end.                                       *)
(*                                                                         *)
(* A section that holds _lock is one action.  CFRunLoop, NSTimer, GCD and  *)
(* reference counting are external: a run loop takes its blocks in order,  *)
(* sleeps when it has none until it is woken, and ends when nothing keeps  *)
(* it; an object is freed by whoever drops the last reference to it.       *)
(***************************************************************************)
EXTENDS Integers, Sequences, FiniteSets

CONSTANTS
    Callers,    \* the threads that call the scheduler, besides its own
    MaxCalls,   \* bound: calls of schedule: and after: ever made
    RunLoopArgs,\* the runloop arguments that init may get: see RunLoops
    TimersMade  \* may callers use after: (a bound on the run)

(* initWithName:runloop: gets nil and makes a thread of its own, or gets   *)
(* the run loop of the calling thread, or that of another thread.          *)
RunLoops == {"nil", "current", "other"}

ASSUME SchedulerAssumption ==
    /\ MaxCalls \in Nat
    /\ RunLoopArgs \subseteq RunLoops
    /\ TimersMade \in BOOLEAN
    /\ "loop" \notin Callers

Threads == Callers \cup {"loop"}   \* "loop" is the run loop's thread
Calls   == 1..MaxCalls
Signal  == 0                       \* the block that signals the semaphore
Kinds   == {"schedule", "after", "every"}

VARIABLES
    runloop,      \* the argument of init
    _semaphore,   \* its count
    _cfRunLoop,   \* is it set
    _wakeupSource,\* does the keep-alive source keep the loop
    setup,        \* where the block of dispatch_async in init is
    pc, call,     \* per thread: where it is in a call, and which call
    next,         \* the next call's number
    kind,         \* per call, the method
    loop,         \* where the run loop's thread is
    queue,        \* the blocks handed to CFRunLoopPerformBlock
    checked,      \* the block whose token was just found not cancelled
    stack,        \* the blocks that run, the innermost last
    wakeup,       \* CFRunLoopWakeUp is pending
    delayedWake,  \* dealloc's dispatch_after is pending
    timers,       \* the timers that are armed
    cancelled,    \* the calls whose token is cancelled
    started,      \* history: the calls whose blocks have started
    owned,        \* does the owner still hold the scheduler
    dealloc       \* "no", the kind of thread that runs it, or "done"

fields    == <<runloop, _cfRunLoop, _wakeupSource>>
semVars   == <<_semaphore, fields, setup>>
callVars  == <<pc, call, next, kind>>
loopVars  == <<loop, queue, checked, stack, wakeup, delayedWake, timers>>
vars == <<semVars, callVars, loopVars, cancelled, started, owned, dealloc>>

(* What keeps the scheduler alive: its owner, the setup block, the thread  *)
(* that starts, the calls, and the blocks that wait or run.  A timer has   *)
(* only a weak proxy of it.                                                *)
HasReferences(owns, set, lp, p, q, ch, st) ==
    \/ owns
    \/ set # "done"
    \/ lp = "entry"
    \/ \E t \in Threads : p[t] # "idle"
    \/ \E i \in 1..Len(q) : q[i] # Signal \/ runloop = "other"
    \/ ch # 0
    \/ st # <<>>

(* The step of thread t may have dropped the last reference.               *)
Releases(t) ==
    dealloc' = IF dealloc = "no"
                  /\ ~HasReferences(owned', setup', loop', pc', queue',
                                    checked', stack')
               THEN IF t = "loop" THEN "loop" ELSE "elsewhere"
               ELSE dealloc

(* The loop's thread is free to go on.                                     *)
LoopIsFree == /\ checked = 0 /\ stack = <<>> /\ pc["loop"] = "idle"
              /\ dealloc # "loop"

-----------------------------------------------------------------------------
Init ==
    /\ runloop \in RunLoopArgs
    /\ _semaphore = IF runloop = "current" THEN 1 ELSE 0
    /\ _cfRunLoop = (runloop # "nil")
    /\ _wakeupSource = FALSE
    /\ setup = IF runloop = "nil" THEN "create" ELSE "done"
    /\ pc = [t \in Threads |-> "idle"] /\ call = [t \in Threads |-> 0]
    /\ next = 1
    /\ kind = [n \in Calls |-> "schedule"]
    /\ \/ runloop = "nil" /\ loop = "none"
       \/ runloop = "current" /\ loop = "do"
       \/ runloop = "other" /\ loop \in {"do", "asleep"}
    /\ queue = IF runloop = "other" THEN <<Signal>> ELSE <<>>
    /\ checked = 0 /\ stack = <<>>
    /\ wakeup = FALSE /\ delayedWake = FALSE
    /\ timers = {} /\ cancelled = {} /\ started = {}
    /\ owned = TRUE /\ dealloc = "no"

-----------------------------------------------------------------------------
(* The handshake of init with a run loop of its own.                       *)

(* The block of dispatch_async creates the thread ...                      *)
CreateThread ==
    /\ setup = "create"
    /\ setup' = "wait"
    /\ loop' = "entry"
    /\ UNCHANGED <<_semaphore, fields, callVars, queue,
                   checked, stack, wakeup, delayedWake, timers, cancelled,
                   started, owned, dealloc>>

(* ... which, under the lock, fills the fields in, adds the keep-alive     *)
(* source, and queues the signal to itself; then it drops its reference    *)
(* and runs.                                                               *)
RunLoopEntry ==
    /\ loop = "entry"
    /\ _cfRunLoop' = TRUE
    /\ _wakeupSource' = TRUE
    /\ queue' = Append(queue, Signal)
    /\ loop' = "do"
    /\ UNCHANGED <<runloop, _semaphore, setup, callVars, checked, stack,
                   wakeup, delayedWake, timers, cancelled, started, owned>>
    /\ Releases("loop")

(* The setup block waits for the signal, asserts, and passes it on.        *)
SetupWait ==
    /\ setup = "wait" /\ _semaphore > 0
    /\ _semaphore' = _semaphore - 1
    /\ setup' = "assert"
    /\ UNCHANGED <<fields, callVars, loopVars, cancelled,
                   started, owned, dealloc>>

(* Mutant: the setup block keeps the signal.                               *)
M_SetupSignal ==
    /\ setup = "assert"
    /\ setup' = "done"
    /\ UNCHANGED <<_semaphore, fields, callVars, loopVars,
                   cancelled, started, owned>>
    /\ Releases("global queue")

SetupSignal ==
    /\ setup = "assert"
    /\ _semaphore' = _semaphore + 1
    /\ setup' = "done"
    /\ UNCHANGED <<fields, callVars, loopVars, cancelled,
                   started, owned>>
    /\ Releases("global queue")

-----------------------------------------------------------------------------
(* Calls.  A thread holds a reference while it calls.  The loop's own      *)
(* thread calls from inside a block or, when init was given its run loop,  *)
(* from the other code that it runs.                                       *)

BeginCall(t, k) ==
    /\ next <= MaxCalls
    /\ pc[t] = "idle"
    /\ IF t = "loop"
          THEN \/ stack # <<>>
               \/ runloop # "nil" /\ owned /\ loop = "do" /\ LoopIsFree
          ELSE owned
    /\ k # "schedule" => TimersMade
    /\ next' = next + 1
    /\ pc' = [pc EXCEPT ![t] = "wait"]
    /\ call' = [call EXCEPT ![t] = next]
    /\ kind' = [kind EXCEPT ![next] = k]
    /\ UNCHANGED <<semVars, loopVars, cancelled, started, owned, dealloc>>

(* Mutant: the turnstile is passed without waiting.                        *)
M_TurnstileWait(t) ==
    /\ pc[t] = "wait"
    /\ _semaphore' = _semaphore - 1
    /\ pc' = [pc EXCEPT ![t] = "signal"]
    /\ UNCHANGED <<fields, setup, call, next, kind,
                   loopVars, cancelled, started, owned, dealloc>>

(* The turnstile: wait for the semaphore and signal it again.              *)
TurnstileWait(t) ==
    /\ pc[t] = "wait" /\ _semaphore > 0
    /\ _semaphore' = _semaphore - 1
    /\ pc' = [pc EXCEPT ![t] = "signal"]
    /\ UNCHANGED <<fields, setup, call, next, kind,
                   loopVars, cancelled, started, owned, dealloc>>

(* Mutant: the turnstile is left closed.                                   *)
M_TurnstileSignal(t) ==
    /\ pc[t] = "signal"
    /\ pc' = [pc EXCEPT ![t] = "lock"]
    /\ UNCHANGED <<semVars, call, next, kind, loopVars, cancelled,
                   started, owned, dealloc>>

TurnstileSignal(t) ==
    /\ pc[t] = "signal"
    /\ _semaphore' = _semaphore + 1
    /\ pc' = [pc EXCEPT ![t] = "lock"]
    /\ UNCHANGED <<fields, setup, call, next, kind,
                   loopVars, cancelled, started, owned, dealloc>>

(* schedule: on the loop's own thread runs the block at once ...           *)
ScheduleInline ==
    /\ pc["loop"] = "lock" /\ kind[call["loop"]] = "schedule"
    /\ pc' = [pc EXCEPT !["loop"] = "idle"]
    /\ IF _cfRunLoop
          THEN /\ stack' = Append(stack, call["loop"])
               /\ started' = started \cup {call["loop"]}
          ELSE UNCHANGED <<stack, started>>
    /\ UNCHANGED <<semVars, call, next, kind, loop, queue, checked,
                   wakeup, delayedWake, timers, cancelled, owned, dealloc>>

(* CFRunLoopPerformBlock.                                                  *)
PerformBlock(n) == queue' = Append(queue, n)

(* ... and on another hands it to the loop, or returns nil without one.    *)
ScheduleAsync(t) ==
    /\ t \in Callers /\ pc[t] = "lock" /\ kind[call[t]] = "schedule"
    /\ IF _cfRunLoop
          THEN PerformBlock(call[t]) /\ pc' = [pc EXCEPT ![t] = "wake"]
          ELSE UNCHANGED queue /\ pc' = [pc EXCEPT ![t] = "idle"]
    /\ UNCHANGED <<semVars, call, next, kind, loop, checked, stack,
                   wakeup, delayedWake, timers, cancelled, started, owned>>
    /\ Releases(t)

(* CFRunLoopWakeUp, with the mutant that forgets it.                       *)
M_WakeUp == UNCHANGED wakeup
WakeUp   == wakeup' = TRUE

ScheduleWake(t) ==
    /\ pc[t] = "wake"
    /\ WakeUp
    /\ pc' = [pc EXCEPT ![t] = "idle"]
    /\ UNCHANGED <<semVars, call, next, kind, loop, queue, checked,
                   stack, delayedWake, timers, cancelled, started, owned>>
    /\ Releases(t)

(* after: and after:repeatingEvery: add a timer under the lock.            *)
AddTimer(t) ==
    /\ pc[t] = "lock" /\ kind[call[t]] # "schedule"
    /\ timers' = timers \cup {call[t]}
    /\ pc' = [pc EXCEPT ![t] = "idle"]
    /\ UNCHANGED <<semVars, call, next, kind, loop, queue, checked,
                   stack, wakeup, delayedWake, cancelled, started, owned>>
    /\ Releases(t)

(* cancel of the token that call n returned; a timer is invalidated.       *)
Cancel(n) ==
    /\ n < next /\ n \notin cancelled
    /\ \A t \in Threads : pc[t] # "idle" => call[t] # n
    /\ cancelled' = cancelled \cup {n}
    /\ timers' = timers \ {n}
    /\ UNCHANGED <<semVars, callVars, loop, queue, checked, stack, wakeup,
                   delayedWake, started, owned, dealloc>>

(* The owner lets go of the scheduler.                                     *)
DropOwner ==
    /\ owned
    /\ owned' = FALSE
    /\ UNCHANGED <<semVars, callVars, loopVars, cancelled, started>>
    /\ Releases("owner")

-----------------------------------------------------------------------------
(* The run loop.                                                           *)

(* The first queued block: the signal, or the test of a token ...          *)
TakeBlock ==
    /\ loop = "do" /\ LoopIsFree /\ queue # <<>>
    /\ queue' = Tail(queue)
    /\ _semaphore' = IF Head(queue) = Signal THEN _semaphore + 1
                     ELSE _semaphore
    /\ checked' = IF Head(queue) \in cancelled THEN 0 ELSE Head(queue)
    /\ UNCHANGED <<fields, setup, callVars, loop, stack,
                   wakeup, delayedWake, timers, cancelled, started, owned>>
    /\ Releases("loop")

(* ... and, with the token found not cancelled, the run of its block.      *)
RunBlock ==
    /\ checked # 0
    /\ stack' = Append(stack, checked)
    /\ started' = started \cup {checked}
    /\ checked' = 0
    /\ UNCHANGED <<semVars, callVars, loop, queue, wakeup, delayedWake,
                   timers, cancelled, owned, dealloc>>

(* A block returns.                                                        *)
BlockReturns ==
    /\ stack # <<>> /\ pc["loop"] = "idle" /\ dealloc # "loop"
    /\ stack' = SubSeq(stack, 1, Len(stack) - 1)
    /\ UNCHANGED <<semVars, callVars, loop, queue, checked, wakeup,
                   delayedWake, timers, cancelled, started, owned>>
    /\ Releases("loop")

(* A timer fires: its task runs its block if the scheduler still lives.    *)
TimerFires(n) ==
    /\ loop \in {"do", "asleep"} /\ LoopIsFree
    /\ n \in timers
    /\ timers' = IF kind[n] = "every" THEN timers ELSE timers \ {n}
    /\ loop' = "do"
    /\ IF dealloc = "no" THEN stack' = Append(stack, n) ELSE UNCHANGED stack
    /\ UNCHANGED <<semVars, callVars, queue, checked, wakeup, delayedWake,
                   cancelled, started, owned, dealloc>>

(* With no block queued the loop goes to sleep.  A wake-up ends the sleep. *)
Sleep ==
    /\ loop = "do" /\ LoopIsFree /\ queue = <<>>
    /\ _wakeupSource \/ timers # {} \/ runloop # "nil"
    /\ loop' = "asleep"
    /\ UNCHANGED <<semVars, callVars, queue, checked, stack, wakeup,
                   delayedWake, timers, cancelled, started, owned, dealloc>>

Wake ==
    /\ loop = "asleep" /\ wakeup
    /\ wakeup' = FALSE
    /\ loop' = "do"
    /\ UNCHANGED <<semVars, callVars, queue, checked, stack, delayedWake,
                   timers, cancelled, started, owned, dealloc>>

(* With nothing left to keep it, the loop of init's own thread ends.       *)
Finish ==
    /\ loop = "do" /\ LoopIsFree /\ queue = <<>>
    /\ ~_wakeupSource /\ timers = {} /\ runloop = "nil"
    /\ loop' = "finished"
    /\ UNCHANGED <<semVars, callVars, queue, checked, stack, wakeup,
                   delayedWake, timers, cancelled, started, owned, dealloc>>

-----------------------------------------------------------------------------
(* dealloc, on the thread that dropped the last reference: pass the        *)
(* turnstile, invalidate the source, and wake the loop so that it notices: *)
(* at once from the loop's own thread, a second later from another.        *)
Dealloc ==
    /\ dealloc \in {"loop", "elsewhere"}
    /\ _semaphore > 0
    /\ _wakeupSource' = FALSE
    /\ _cfRunLoop' = (_cfRunLoop /\ ~_wakeupSource)
    /\ IF _wakeupSource
          THEN IF dealloc = "loop"
                  THEN WakeUp /\ UNCHANGED delayedWake
                  ELSE delayedWake' = TRUE /\ UNCHANGED wakeup
          ELSE UNCHANGED <<wakeup, delayedWake>>
    /\ dealloc' = "done"
    /\ UNCHANGED <<runloop, _semaphore, setup, callVars, loop, queue, checked,
                   stack, timers, cancelled, started, owned>>

(* Mutant: the delayed block is never sent.                                *)
M_DelayedWake == FALSE

DelayedWake ==
    /\ delayedWake
    /\ delayedWake' = FALSE
    /\ wakeup' = TRUE
    /\ UNCHANGED <<semVars, callVars, loop, queue, checked, stack, timers,
                   cancelled, started, owned, dealloc>>

-----------------------------------------------------------------------------
CallSteps(t) ==
    \/ TurnstileWait(t) \/ TurnstileSignal(t)
    \/ ScheduleAsync(t) \/ ScheduleWake(t) \/ AddTimer(t)

LoopSteps ==
    \/ RunLoopEntry \/ TakeBlock \/ RunBlock \/ BlockReturns
    \/ Sleep \/ Wake \/ Finish \/ ScheduleInline

SystemSteps ==
    \/ CreateThread \/ SetupWait \/ SetupSignal
    \/ Dealloc \/ DelayedWake
    \/ \E n \in Calls : TimerFires(n)

UserSteps ==
    \/ \E t \in Threads, k \in Kinds : BeginCall(t, k)
    \/ \E n \in Calls : Cancel(n)
    \/ DropOwner

Next == \/ SystemSteps \/ LoopSteps \/ UserSteps
        \/ \E t \in Threads : CallSteps(t)

Spec == Init /\ [][Next]_vars

(* Every thread goes on, a block returns, a one-shot timer's date comes,   *)
(* each turn of a run loop performs its blocks as well as its timers, and  *)
(* a dispatch semaphore serves its waiters in turn.                        *)
Fairness ==
    /\ WF_vars(CreateThread) /\ SF_vars(SetupWait) /\ WF_vars(SetupSignal)
    /\ WF_vars(Dealloc) /\ WF_vars(DelayedWake)
    /\ WF_vars(LoopSteps) /\ SF_vars(TakeBlock)
    /\ \A n \in Calls : WF_vars(TimerFires(n) /\ kind[n] = "after")
    /\ \A t \in Threads : SF_vars(CallSteps(t))

FairSpec == Spec /\ Fairness

-----------------------------------------------------------------------------
(* Properties.                                                             *)

(* Every variable has its type.                                            *)
TypeOK ==
    /\ runloop \in RunLoops
    /\ _semaphore \in Nat /\ _cfRunLoop \in BOOLEAN
    /\ _wakeupSource \in BOOLEAN
    /\ setup \in {"create", "wait", "assert", "done"}
    /\ pc \in [Threads -> {"idle", "wait", "signal", "lock", "wake"}]
    /\ call \in [Threads -> 0..MaxCalls] /\ next \in 1..(MaxCalls + 1)
    /\ kind \in [Calls -> Kinds]
    /\ loop \in {"none", "entry", "do", "asleep", "finished"}
    /\ queue \in Seq(0..MaxCalls) /\ checked \in 0..MaxCalls
    /\ stack \in Seq(Calls) /\ started \subseteq Calls
    /\ wakeup \in BOOLEAN /\ delayedWake \in BOOLEAN
    /\ timers \subseteq Calls /\ cancelled \subseteq Calls
    /\ owned \in BOOLEAN
    /\ dealloc \in {"no", "loop", "elsewhere", "done"}

(* The semaphore is a turnstile: at most one of the setup block and the    *)
(* callers is inside it, and it is never left closed behind them.          *)
Inside == {t \in Threads : pc[t] = "signal"}
             \cup (IF setup = "assert" THEN {"setup"} ELSE {})

Opened == /\ loop \in {"do", "asleep", "finished"}
          /\ Signal \notin {queue[i] : i \in 1..Len(queue)}

TurnstileIsOne == _semaphore + Cardinality(Inside) = IF Opened THEN 1 ELSE 0

(* Nobody gets through before the thread has filled in its run loop: the   *)
(* assertions of the setup block hold, and schedule: never returns nil.    *)
NobodyPassesEarly ==
    \/ setup # "assert" /\ \A t \in Threads : pc[t] \in {"idle", "wait"}
    \/ _cfRunLoop

(* dealloc never blocks on the semaphore, whichever thread runs it and     *)
(* however early: on the loop's own thread it would wait for itself.       *)
DeallocDoesNotBlock == dealloc \in {"loop", "elsewhere"} => _semaphore > 0

(* init does not wake the run loop of another thread when it queues the    *)
(* signal: what is scheduled there depends on what else wakes that loop.   *)
Attended == runloop # "other"

(* A block handed to schedule: runs, unless its token is cancelled.        *)
ScheduledBlocksRun ==
    \A n \in Calls :
        Attended /\ n < next /\ kind[n] = "schedule"
            ~> n \in started \/ n \in cancelled

(* Every call gets through the turnstile and returns.                      *)
CallsReturn == \A t \in Threads : Attended /\ pc[t] # "idle" ~> pc[t] = "idle"

(* The thread of a freed scheduler ends, unless a repeating timer stays or *)
(* a timer was cancelled: the loop may sleep until the date of a timer and *)
(* nothing wakes it when that timer is invalidated.                        *)
ThreadEnds ==
    runloop = "nil" /\ dealloc = "done"
        ~> \/ loop = "finished"
           \/ \E n \in timers : kind[n] = "every"
           \/ \E n \in cancelled : kind[n] # "schedule"

=============================================================================
