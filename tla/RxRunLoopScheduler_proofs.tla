--------------------- MODULE RxRunLoopScheduler_proofs ---------------------
(***************************************************************************)
(* Proofs about RxRunLoopScheduler, for any number of callers and calls,   *)
(* with timers or without, and for each run loop that init may be given:   *)
(* the types, the semaphore as a turnstile, the assertions of the setup    *)
(* block and the dealloc that never blocks.  They rest on one inductive    *)
(* invariant of four parts (TypeInv, StartInv, GateInv, LifeInv).          *)
(***************************************************************************)
EXTENDS RxRunLoopScheduler, SequenceTheorems, FiniteSetTheorems, TLAPS

-----------------------------------------------------------------------------
(* A call that is under way has a number that was handed out.              *)
CallsNumbered == \A t \in Threads : pc[t] # "idle" => call[t] \in 1..(next - 1)

TypeInv == TypeOK /\ CallsNumbered

(* The run loop has started; somebody is inside the turnstile; block n     *)
(* waits for the run loop; the signal waits at most once.                  *)
Running   == loop \in {"do", "asleep", "finished"}
Passed    == setup = "assert" \/ \E t \in Threads : pc[t] = "signal"
Queued(n) == \E i \in 1..Len(queue) : queue[i] = n
OneSignal == \A i, j \in 1..Len(queue) :
                queue[i] = Signal /\ queue[j] = Signal => i = j

(* How far the handshake is: the thread's entry queues one signal, nothing *)
(* else does, and the setup block gets behind its wait only when the loop  *)
(* has performed it.                                                       *)
StartInv ==
    /\ setup = "create" <=> loop = "none"
    /\ ~Running => setup \in {"create", "wait"}
    /\ Queued(Signal) => Running /\ (runloop = "other" \/ setup = "wait")
    /\ runloop # "nil" => setup = "done"
    /\ runloop = "nil" /\ setup \in {"assert", "done"} => Opened
    /\ OneSignal

(* The turnstile without counting its visitors: at most one is inside, a   *)
(* call is past it only when it is open, and then the semaphore is 1       *)
(* unless somebody is inside.                                              *)
GateInv ==
    /\ setup = "assert" => \A t \in Threads : pc[t] # "signal"
    /\ \A t, u \in Threads : pc[t] = "signal" /\ pc[u] = "signal" => t = u
    /\ (\E t \in Threads : pc[t] \notin {"idle", "wait"}) => Opened
    /\ _semaphore = IF Opened /\ ~Passed THEN 1 ELSE 0

(* A loop that runs is known to the scheduler until dealloc has forgotten  *)
(* it, and once dealloc has begun no new reference appears.                *)
References == HasReferences(owned, setup, loop, pc, queue, checked, stack)

LifeInv ==
    /\ Running /\ dealloc # "done" => _cfRunLoop
    /\ dealloc # "no" => ~References

-----------------------------------------------------------------------------
(* Types.                                                                  *)

(* The steps of the specification, one disjunct per action.                *)
LEMMA NextStep ==
    ASSUME Next
    PROVE  \/ CreateThread \/ SetupWait \/ SetupSignal \/ Dealloc \/ DelayedWake
           \/ RunLoopEntry \/ TakeBlock \/ RunBlock \/ BlockReturns
           \/ Sleep \/ Wake \/ Finish \/ ScheduleInline
           \/ \E n \in Calls : TimerFires(n) \/ Cancel(n)
           \/ DropOwner
           \/ \E t \in Threads :
                 \/ \E k \in Kinds : BeginCall(t, k)
                 \/ TurnstileWait(t) \/ TurnstileSignal(t)
                 \/ ScheduleAsync(t) \/ ScheduleWake(t) \/ AddTimer(t)
BY DEF Next, SystemSteps, LoopSteps, UserSteps, CallSteps


(* TypeInv in parts, of variables that change together.                    *)
PlaceTypes ==
    /\ runloop \in RunLoops /\ _semaphore \in Nat
    /\ setup \in {"create", "wait", "assert", "done"}
    /\ loop \in {"none", "entry", "do", "asleep", "finished"}
    /\ dealloc \in {"no", "loop", "elsewhere", "done"}

FlagTypes ==
    /\ _cfRunLoop \in BOOLEAN /\ _wakeupSource \in BOOLEAN
    /\ wakeup \in BOOLEAN /\ delayedWake \in BOOLEAN /\ owned \in BOOLEAN

CallTypes ==
    /\ pc \in [Threads -> {"idle", "wait", "signal", "lock", "wake"}]
    /\ call \in [Threads -> 0..MaxCalls] /\ next \in 1..(MaxCalls + 1)
    /\ kind \in [Calls -> Kinds]
    /\ CallsNumbered

BlockTypes ==
    /\ queue \in Seq(0..MaxCalls) /\ checked \in 0..MaxCalls
    /\ stack \in Seq(Calls) /\ started \subseteq Calls
    /\ timers \subseteq Calls /\ cancelled \subseteq Calls

(* The type invariant is the conjunction of these parts.                   *)
LEMMA TypeParts == TypeInv <=> PlaceTypes /\ FlagTypes /\ CallTypes /\ BlockTypes
BY DEF TypeInv, TypeOK, PlaceTypes, FlagTypes, CallTypes, BlockTypes

(* init leaves every variable with its type.                               *)
LEMMA TypeInit == Init => TypeInv
<1> SUFFICES ASSUME Init PROVE PlaceTypes /\ FlagTypes /\ CallTypes /\ BlockTypes
    BY TypeParts
<1> USE SchedulerAssumption
<1>1. PlaceTypes
    BY DEF Init, PlaceTypes, RunLoops
<1>2. FlagTypes
    BY Zenon DEF Init, FlagTypes
<1>3. CallTypes
    BY DEF Init, CallTypes, CallsNumbered, Calls, Kinds, Threads
<1>4. BlockTypes
    <2>1. queue \in Seq(0..MaxCalls)
        <3>1. 0 \in 0..MaxCalls
            OBVIOUS
        <3>2. <<0>> \in Seq(0..MaxCalls) /\ <<>> \in Seq(0..MaxCalls)
            BY <3>1
        <3> QED
            BY <3>2 DEF Init, Signal
    <2>2. stack \in Seq(Calls) /\ started \subseteq Calls
        BY DEF Init
    <2>3. checked \in 0..MaxCalls /\ timers \subseteq Calls /\ cancelled \subseteq Calls
        BY DEF Init
    <2> QED
        BY <2>1, <2>2, <2>3 DEF BlockTypes
<1> QED
    BY <1>1, <1>2, <1>3, <1>4

(* No step takes the semaphore below zero: dispatch_semaphore_wait returns *)
(* only when the count is positive.                                        *)
LEMMA PlaceTypesStep == PlaceTypes /\ [Next]_vars => PlaceTypes'
<1> SUFFICES ASSUME PlaceTypes, [Next]_vars PROVE PlaceTypes'
    OBVIOUS
<1> USE DEF PlaceTypes
<1>1. CASE CreateThread \/ SetupWait
    BY <1>1 DEF CreateThread, SetupWait, fields, loopVars
<1>2. CASE SetupSignal \/ DropOwner
    BY <1>2 DEF SetupSignal, DropOwner, semVars, fields, loopVars, Releases
<1>3. CASE Dealloc \/ DelayedWake
    BY <1>3 DEF Dealloc, DelayedWake, semVars, fields
<1>4. CASE RunLoopEntry \/ TakeBlock
    BY <1>4 DEF RunLoopEntry, TakeBlock, fields, Releases
<1>5. CASE RunBlock \/ BlockReturns
    BY <1>5 DEF RunBlock, BlockReturns, semVars, fields, Releases
<1>6. CASE Sleep \/ Wake \/ Finish \/ ScheduleInline
    BY <1>6 DEF Sleep, Wake, Finish, ScheduleInline, semVars, fields
<1>7. ASSUME NEW n \in Calls, TimerFires(n) \/ Cancel(n) PROVE PlaceTypes'
    BY <1>7 DEF TimerFires, Cancel, semVars, fields
<1>8. ASSUME NEW t \in Threads, NEW k \in Kinds, BeginCall(t, k) PROVE PlaceTypes'
    BY <1>8 DEF BeginCall, semVars, fields, loopVars
<1>9. ASSUME NEW t \in Threads, TurnstileWait(t) \/ TurnstileSignal(t)
      PROVE  PlaceTypes'
    BY <1>9 DEF TurnstileWait, TurnstileSignal, fields, loopVars
<1>10. ASSUME NEW t \in Threads, ScheduleAsync(t) \/ ScheduleWake(t) \/ AddTimer(t)
       PROVE  PlaceTypes'
    BY <1>10 DEF ScheduleAsync, ScheduleWake, AddTimer, semVars, fields, Releases
<1>11. CASE UNCHANGED vars
    BY <1>11 DEF vars, semVars, fields, loopVars
<1> QED
    BY NextStep, <1>1, <1>2, <1>3, <1>4, <1>5, <1>6, <1>7, <1>8, <1>9, <1>10, <1>11

(* The flags stay Boolean.                                                 *)
LEMMA FlagTypesStep == FlagTypes /\ [Next]_vars => FlagTypes'
<1> SUFFICES ASSUME FlagTypes, [Next]_vars PROVE FlagTypes'
    OBVIOUS
<1> USE DEF FlagTypes
<1>1. CASE Dealloc
    <2>1. _wakeupSource' = FALSE /\ _cfRunLoop' = (_cfRunLoop /\ ~_wakeupSource)
        BY <1>1 DEF Dealloc
    <2>2. wakeup' \in BOOLEAN /\ delayedWake' \in BOOLEAN /\ owned' = owned
        BY <1>1, Zenon DEF Dealloc, WakeUp
    <2> QED
        BY <2>1, <2>2, Zenon
<1>2. CASE RunLoopEntry
    BY <1>2, Zenon DEF RunLoopEntry
<1>3. CASE DelayedWake \/ Wake \/ Sleep \/ Finish \/ ScheduleInline
    BY <1>3, Zenon DEF DelayedWake, Wake, Sleep, Finish, ScheduleInline, semVars, fields
<1>4. CASE CreateThread \/ SetupWait \/ SetupSignal \/ DropOwner
    BY <1>4, Zenon DEF CreateThread, SetupWait, SetupSignal, DropOwner,
                       semVars, fields, loopVars
<1>5. CASE TakeBlock \/ RunBlock \/ BlockReturns
    BY <1>5, Zenon DEF TakeBlock, RunBlock, BlockReturns, semVars, fields
<1>6. ASSUME NEW n \in Calls, TimerFires(n) \/ Cancel(n) PROVE FlagTypes'
    BY <1>6, Zenon DEF TimerFires, Cancel, semVars, fields
<1>7. ASSUME NEW t \in Threads, NEW k \in Kinds, BeginCall(t, k) PROVE FlagTypes'
    BY <1>7, Zenon DEF BeginCall, semVars, fields, loopVars
<1>8. ASSUME NEW t \in Threads, TurnstileWait(t) \/ TurnstileSignal(t)
      PROVE  FlagTypes'
    BY <1>8, Zenon DEF TurnstileWait, TurnstileSignal, fields, loopVars
<1>9. ASSUME NEW t \in Threads, ScheduleAsync(t) \/ ScheduleWake(t) \/ AddTimer(t)
      PROVE  FlagTypes'
    BY <1>9, Zenon DEF ScheduleAsync, ScheduleWake, AddTimer, WakeUp, semVars, fields
<1>10. CASE UNCHANGED vars
    BY <1>10, Zenon DEF vars, semVars, fields, loopVars
<1> QED
    BY NextStep, <1>1, <1>2, <1>3, <1>4, <1>5, <1>6, <1>7, <1>8, <1>9, <1>10

(* A call is numbered when it begins and keeps its number to its end.      *)
LEMMA CallTypesStep == CallTypes /\ [Next]_vars => CallTypes'
<1> SUFFICES ASSUME CallTypes, [Next]_vars PROVE CallTypes'
    OBVIOUS
<1> USE SchedulerAssumption DEF CallTypes, CallsNumbered
<1>1. CASE UNCHANGED callVars
    BY <1>1 DEF callVars
<1>2. ASSUME NEW t \in Threads, NEW k \in Kinds, BeginCall(t, k) PROVE CallTypes'
    BY <1>2 DEF BeginCall, Calls
<1>3. ASSUME NEW t \in Threads,
             TurnstileWait(t) \/ TurnstileSignal(t) \/ ScheduleAsync(t)
               \/ ScheduleWake(t) \/ AddTimer(t)
      PROVE  CallTypes'
    <2>1. \E p \in {"idle", "signal", "lock", "wake"} :
             /\ pc[t] # "idle" /\ pc' = [pc EXCEPT ![t] = p]
             /\ UNCHANGED <<call, next, kind>>
        BY <1>3 DEF TurnstileWait, TurnstileSignal, ScheduleAsync, ScheduleWake, AddTimer
    <2> QED
        BY <2>1
<1>4. CASE ScheduleInline
    BY <1>4 DEF ScheduleInline, Threads
<1>5. CASE CreateThread \/ SetupWait \/ SetupSignal \/ Dealloc \/ DelayedWake
    BY <1>1, <1>5, Zenon DEF CreateThread, SetupWait, SetupSignal, Dealloc, DelayedWake
<1>6. CASE RunLoopEntry \/ TakeBlock \/ RunBlock \/ BlockReturns \/ DropOwner
    BY <1>1, <1>6, Zenon DEF RunLoopEntry, TakeBlock, RunBlock, BlockReturns, DropOwner
<1>7. CASE Sleep \/ Wake \/ Finish
    BY <1>1, <1>7, Zenon DEF Sleep, Wake, Finish
<1>8. ASSUME NEW n \in Calls, TimerFires(n) \/ Cancel(n) PROVE CallTypes'
    BY <1>1, <1>8, Zenon DEF TimerFires, Cancel
<1>9. CASE UNCHANGED vars
    BY <1>1, <1>9, Zenon DEF vars
<1> QED
    BY NextStep, <1>2, <1>3, <1>4, <1>5, <1>6, <1>7, <1>8, <1>9

(* A block enters the queue, the stack and the history only as the block   *)
(* of a numbered call, or as the signal.                                   *)
LEMMA BlockTypesStep == CallTypes /\ BlockTypes /\ [Next]_vars => BlockTypes'
<1> SUFFICES ASSUME CallTypes, BlockTypes, [Next]_vars PROVE BlockTypes'
    OBVIOUS
<1> USE SchedulerAssumption DEF BlockTypes
<1>1. CASE UNCHANGED <<queue, checked, stack, started, timers, cancelled>>
    BY <1>1
<1>2. CASE RunLoopEntry
    BY <1>2 DEF RunLoopEntry, Signal
<1>3. CASE TakeBlock
    <2>1. Head(queue) \in 0..MaxCalls /\ Tail(queue) \in Seq(0..MaxCalls)
        BY <1>3, HeadTailProperties DEF TakeBlock
    <2> QED
        BY <1>3, <2>1 DEF TakeBlock
<1>4. CASE RunBlock
    <2>1. checked \in Calls
        BY <1>4 DEF RunBlock, Calls
    <2>2. Append(stack, checked) \in Seq(Calls) /\ started \cup {checked} \subseteq Calls
        BY <2>1, AppendProperties
    <2> QED
        BY <1>4, <2>2 DEF RunBlock
<1>5. CASE BlockReturns
    <2>1. SubSeq(stack, 1, Len(stack) - 1) \in Seq(Calls)
        BY SubSeqProperties
    <2> QED
        BY <1>5, <2>1 DEF BlockReturns
<1>6. ASSUME NEW t \in Threads, pc[t] # "idle" PROVE call[t] \in Calls
    BY <1>6 DEF CallTypes, CallsNumbered, Calls
<1>7. CASE ScheduleInline
    <2>1. call["loop"] \in Calls
        BY <1>6, <1>7 DEF ScheduleInline, Threads
    <2>2. /\ Append(stack, call["loop"]) \in Seq(Calls)
          /\ started \cup {call["loop"]} \subseteq Calls
        BY <2>1, AppendProperties
    <2>3. stack' \in Seq(Calls) /\ started' \subseteq Calls
        BY <1>7, <2>2 DEF ScheduleInline
    <2> QED
        BY <1>7, <2>3 DEF ScheduleInline
<1>8. ASSUME NEW t \in Threads, ScheduleAsync(t) PROVE BlockTypes'
    <2>1. call[t] \in Calls
        BY <1>6, <1>8 DEF ScheduleAsync
    <2>2. Append(queue, call[t]) \in Seq(0..MaxCalls)
        BY <2>1, AppendProperties DEF Calls
    <2>3. queue' \in Seq(0..MaxCalls)
        BY <1>8, <2>2 DEF ScheduleAsync, PerformBlock
    <2> QED
        BY <1>8, <2>3 DEF ScheduleAsync
<1>14. ASSUME NEW t \in Threads, AddTimer(t) PROVE BlockTypes'
    <2>1. call[t] \in Calls
        BY <1>6, <1>14 DEF AddTimer
    <2> QED
        BY <1>14, <2>1 DEF AddTimer
<1>9. ASSUME NEW n \in Calls, TimerFires(n) \/ Cancel(n) PROVE BlockTypes'
    <2>1. Append(stack, n) \in Seq(Calls)
        BY AppendProperties
    <2> QED
        BY <1>9, <2>1 DEF TimerFires, Cancel
<1>10. CASE CreateThread \/ SetupWait \/ SetupSignal \/ Dealloc \/ DelayedWake \/ DropOwner
    BY <1>1, <1>10 DEF CreateThread, SetupWait, SetupSignal, Dealloc, DelayedWake,
                       DropOwner, loopVars
<1>11. CASE Sleep \/ Wake \/ Finish
    BY <1>1, <1>11 DEF Sleep, Wake, Finish
<1>12. ASSUME NEW t \in Threads,
              TurnstileWait(t) \/ TurnstileSignal(t) \/ ScheduleWake(t)
                \/ \E k \in Kinds : BeginCall(t, k)
       PROVE  BlockTypes'
    BY <1>1, <1>12 DEF TurnstileWait, TurnstileSignal, ScheduleWake, BeginCall, loopVars
<1>13. CASE UNCHANGED vars
    BY <1>1, <1>13 DEF vars, loopVars
<1> QED
    BY NextStep, <1>2, <1>3, <1>4, <1>5, <1>7, <1>8, <1>9, <1>10, <1>11, <1>12, <1>13, <1>14

(* Every step preserves the type invariant.                                *)
LEMMA TypeStep == TypeInv /\ [Next]_vars => TypeInv'
    BY TypeParts, PlaceTypesStep, FlagTypesStep, CallTypesStep, BlockTypesStep DEF TypeInv, TypeOK, PlaceTypes, FlagTypes, CallTypes, BlockTypes

(* Type correctness of the scheduler: in particular the semaphore's count  *)
(* is never negative and no call outgrows the numbers.                     *)
THEOREM TypeCorrect == Spec => []TypeOK
<1>1. TypeInv => TypeOK
    BY DEF TypeInv
<1> QED
    BY TypeInit, TypeStep, <1>1, PTL DEF Spec

-----------------------------------------------------------------------------
(* The signal in the queue.                                                *)

(* The turnstile is open when the loop runs and its signal is performed.   *)
LEMMA OpenedIs == Opened <=> Running /\ ~Queued(Signal)
BY DEF Opened, Running, Queued

(* A step that leaves the queue alone leaves the signal alone.             *)
LEMMA QueueKept ==
    ASSUME queue' = queue
    PROVE  (Queued(Signal)' <=> Queued(Signal)) /\ (OneSignal' <=> OneSignal)
BY DEF Queued, OneSignal

(* CFRunLoopPerformBlock of a caller's block leaves the signal alone.      *)
LEMMA BlockQueued ==
    ASSUME BlockTypes, NEW n \in Calls, queue' = Append(queue, n)
    PROVE  (Queued(Signal)' <=> Queued(Signal)) /\ (OneSignal => OneSignal')
<1>1. /\ Len(queue) \in Nat /\ Len(queue') = Len(queue) + 1
      /\ \A i \in 1..Len(queue) : queue'[i] = queue[i]
      /\ queue'[Len(queue) + 1] = n
    BY AppendProperties DEF BlockTypes, Calls
<1>2. n # Signal
    BY DEF Calls, Signal
<1> QED
    BY <1>1, <1>2 DEF Queued, OneSignal

(* The entry of the thread queues the signal, once.                        *)
LEMMA SignalQueued ==
    ASSUME BlockTypes, ~Queued(Signal), queue' = Append(queue, Signal)
    PROVE  Queued(Signal)' /\ OneSignal'
<1>1. /\ Len(queue) \in Nat /\ Len(queue') = Len(queue) + 1
      /\ \A i \in 1..Len(queue) : queue'[i] = queue[i]
      /\ queue'[Len(queue) + 1] = Signal
    BY AppendProperties, SchedulerAssumption DEF BlockTypes, Signal
<1> QED
    BY <1>1 DEF Queued, OneSignal

(* The loop takes the signal from the queue with its only copy.            *)
LEMMA HeadTaken ==
    ASSUME BlockTypes, OneSignal, queue # <<>>, queue' = Tail(queue)
    PROVE  /\ OneSignal'
           /\ Head(queue) = Signal => Queued(Signal) /\ ~Queued(Signal)'
           /\ Head(queue) # Signal => (Queued(Signal)' <=> Queued(Signal))
<1>1. /\ Len(queue) \in Nat /\ Len(queue) > 0 /\ Len(queue') = Len(queue) - 1
      /\ \A i \in 1..Len(queue') : queue'[i] = queue[i + 1]
      /\ Head(queue) = queue[1]
    BY HeadTailProperties, EmptySeq, LenProperties DEF BlockTypes
<1>2. \A i \in 1..Len(queue') : i + 1 \in 1..Len(queue) /\ i + 1 # 1
    BY <1>1
<1>3. \A i \in 1..Len(queue) : i # 1 => i - 1 \in 1..Len(queue') /\ queue'[i - 1] = queue[i]
    BY <1>1
<1>4. 1 \in 1..Len(queue)
    BY <1>1
<1>5. OneSignal'
    <2> SUFFICES ASSUME NEW i \in 1..Len(queue'), NEW j \in 1..Len(queue'),
                        queue'[i] = Signal, queue'[j] = Signal
                 PROVE  i = j
        BY DEF OneSignal
    <2>1. i + 1 = j + 1
        BY <1>1, <1>2 DEF OneSignal
    <2> QED
        BY <2>1
<1>6. Head(queue) = Signal => Queued(Signal) /\ ~Queued(Signal)'
    BY <1>1, <1>2, <1>4 DEF Queued, OneSignal
<1>7. Head(queue) # Signal => (Queued(Signal)' <=> Queued(Signal))
    <2> SUFFICES ASSUME Head(queue) # Signal PROVE Queued(Signal)' <=> Queued(Signal)
        OBVIOUS
    <2>1. ASSUME NEW i \in 1..Len(queue'), queue'[i] = Signal PROVE Queued(Signal)
        BY <1>1, <1>2, <2>1 DEF Queued
    <2>2. ASSUME NEW i \in 1..Len(queue), queue[i] = Signal PROVE Queued(Signal)'
        <3>1. i # 1
            BY <1>1, <2>2
        <3> QED
            BY <1>3, <2>2, <3>1 DEF Queued
    <2> QED
        BY <2>1, <2>2 DEF Queued
<1> QED
    BY <1>5, <1>6, <1>7

-----------------------------------------------------------------------------
(* The handshake and the turnstile.                                        *)

(* init: the handshake starts from each kind of run loop argument.         *)
LEMMA StartInit == Init => StartInv
<1> SUFFICES ASSUME Init PROVE StartInv
    OBVIOUS
<1>1. CASE runloop = "other"
    <2>1. queue = <<Signal>>
        BY <1>1 DEF Init
    <2>2. Len(queue) = 1 /\ OneSignal
        BY <2>1 DEF OneSignal
    <2> QED
        BY <1>1, <2>2, OpenedIs DEF Init, StartInv, Running
<1>2. CASE runloop # "other"
    <2>1. queue = <<>>
        BY <1>2 DEF Init
    <2>2. ~Queued(Signal) /\ OneSignal
        BY <2>1 DEF Queued, OneSignal
    <2> QED
        BY <1>2, <2>2, OpenedIs DEF Init, StartInv, Running
<1> QED
    BY <1>1, <1>2

(* The handshake advances in its order. SetupWait needs GateInv: the count *)
(* is positive only when the signal was performed.                         *)
LEMMA StartStep == TypeInv /\ StartInv /\ GateInv /\ [Next]_vars => StartInv'
<1> SUFFICES ASSUME TypeInv, StartInv, GateInv, [Next]_vars PROVE StartInv'
    OBVIOUS
<1>t. PlaceTypes /\ CallTypes /\ BlockTypes
    BY TypeParts
<1>o. (Opened <=> Running /\ ~Queued(Signal)) /\ (Opened' <=> Running' /\ ~Queued(Signal)')
    <2>1. Opened' <=> Running' /\ ~Queued(Signal)'
        BY DEF Opened, Running, Queued
    <2> QED
        BY <2>1, OpenedIs
<1>1. CASE UNCHANGED <<runloop, setup, loop, queue>>
    <2>1. Running' = Running
        BY <1>1 DEF Running
    <2> QED
        BY <1>1, <1>o, <2>1, QueueKept DEF StartInv
<1>2. ASSUME UNCHANGED <<runloop, setup, queue>>, Running, Running', loop # "none", loop' # "none"
      PROVE  StartInv'
    BY <1>2, <1>o, QueueKept DEF StartInv
<1>3. CASE CreateThread
    <2>1. ~Running /\ ~Running' /\ loop' = "entry" /\ setup' = "wait" /\ UNCHANGED <<runloop, queue>>
        BY <1>3 DEF CreateThread, Running, StartInv, fields
    <2> QED
        BY <2>1, <1>o, <1>3, QueueKept DEF StartInv, CreateThread
<1>4. CASE SetupWait
    <2>1. Opened
        BY <1>4 DEF SetupWait, GateInv
    <2>2. Running' = Running
        BY <1>4 DEF Running, SetupWait, loopVars
    <2> QED
        BY <2>1, <2>2, <1>o, <1>4, QueueKept DEF StartInv, SetupWait, fields, loopVars
<1>5. CASE SetupSignal
    <2>1. Running' = Running
        BY <1>5 DEF Running, SetupSignal, loopVars
    <2> QED
        BY <2>1, <1>o, <1>5, QueueKept DEF StartInv, SetupSignal, fields, loopVars
<1>6. CASE RunLoopEntry
    <2>1. ~Running /\ Running' /\ loop' # "none" /\ UNCHANGED <<runloop, setup>>
        BY <1>6 DEF Running, RunLoopEntry
    <2>2. ~Queued(Signal) /\ setup = "wait" /\ runloop = "nil"
        BY <2>1, <1>6, <1>t DEF StartInv, RunLoopEntry, PlaceTypes, RunLoops
    <2>3. Queued(Signal)' /\ OneSignal'
        BY <2>2, <1>6, <1>t, SignalQueued DEF RunLoopEntry
    <2> QED
        BY <2>1, <2>2, <2>3, <1>o DEF StartInv
<1>7. CASE TakeBlock
    <2>1. /\ OneSignal' /\ (Queued(Signal)' => Queued(Signal))
        BY <1>7, <1>t, HeadTaken DEF TakeBlock, StartInv
    <2>2. Running' = Running /\ UNCHANGED <<runloop, setup, loop>>
        BY <1>7 DEF Running, TakeBlock, fields
    <2> QED
        BY <2>1, <2>2, <1>o DEF StartInv
<1>8. ASSUME NEW t \in Threads, ScheduleAsync(t) PROVE StartInv'
    <2>1. UNCHANGED <<runloop, setup, loop>>
        BY <1>8 DEF ScheduleAsync, semVars, fields
    <2>2. CASE UNCHANGED queue
        BY <2>1, <2>2, <1>1
    <2>3. CASE queue' = Append(queue, call[t])
        <3>1. call[t] \in Calls
            BY <1>8, <1>t DEF ScheduleAsync, CallTypes, CallsNumbered, Calls
        <3>2. (Queued(Signal)' <=> Queued(Signal)) /\ (OneSignal => OneSignal')
            BY <2>3, <3>1, <1>t, BlockQueued
        <3>3. Running' = Running
            BY <2>1 DEF Running
        <3> QED
            BY <2>1, <3>2, <3>3, <1>o DEF StartInv
    <2> QED
        BY <1>8, <2>2, <2>3 DEF ScheduleAsync, PerformBlock
<1>9. CASE Sleep \/ Wake \/ Finish
    BY <1>2, <1>9 DEF Sleep, Wake, Finish, Running, semVars, fields
<1>10. ASSUME NEW n \in Calls, TimerFires(n) PROVE StartInv'
    BY <1>2, <1>10 DEF TimerFires, Running, semVars, fields
<1>11. CASE Dealloc \/ DelayedWake \/ DropOwner \/ RunBlock \/ BlockReturns \/ ScheduleInline
    BY <1>1, <1>11, Zenon DEF Dealloc, DelayedWake, DropOwner, RunBlock, BlockReturns,
                       ScheduleInline, semVars, fields, loopVars
<1>12. ASSUME NEW n \in Calls, Cancel(n) PROVE StartInv'
    BY <1>1, <1>12, Zenon DEF Cancel, semVars, fields
<1>13. ASSUME NEW t \in Threads,
              TurnstileWait(t) \/ TurnstileSignal(t) \/ ScheduleWake(t) \/ AddTimer(t)
                \/ \E k \in Kinds : BeginCall(t, k)
       PROVE  StartInv'
    BY <1>1, <1>13, Zenon DEF TurnstileWait, TurnstileSignal, ScheduleWake, AddTimer,
                       BeginCall, semVars, fields, loopVars
<1>14. CASE UNCHANGED vars
    BY <1>1, <1>14, Zenon DEF vars, semVars, fields, loopVars
<1> QED
    BY NextStep, <1>3, <1>4, <1>5, <1>6, <1>7, <1>8, <1>9, <1>10, <1>11, <1>12, <1>13, <1>14

(* init: only the current thread's run loop opens the turnstile at once.   *)
LEMMA GateInit == Init => GateInv
<1> SUFFICES ASSUME Init PROVE GateInv
    OBVIOUS
<1>1. ~Passed /\ (setup # "assert") /\ \A t \in Threads : pc[t] = "idle"
    BY DEF Init, Passed
<1>2. CASE runloop = "other"
    <2>1. queue = <<Signal>>
        BY <1>2 DEF Init
    <2>2. Queued(Signal)
        BY <2>1 DEF Queued
    <2> QED
        BY <1>1, <1>2, <2>2, OpenedIs DEF Init, GateInv
<1>3. CASE runloop # "other"
    <2>1. queue = <<>>
        BY <1>3 DEF Init
    <2>2. ~Queued(Signal)
        BY <2>1 DEF Queued
    <2> QED
        BY <1>1, <1>3, <2>2, OpenedIs DEF Init, GateInv, Running
<1> QED
    BY <1>2, <1>3

(* wait and signal keep the turnstile: whoever gets in leaves no count     *)
(* behind, and puts it back on the way out.                                *)
LEMMA GateStep == TypeInv /\ StartInv /\ GateInv /\ [Next]_vars => GateInv'
<1> SUFFICES ASSUME TypeInv, StartInv, GateInv, [Next]_vars PROVE GateInv'
    OBVIOUS
<1>t. PlaceTypes /\ CallTypes /\ BlockTypes
    BY TypeParts
<1>o. (Opened <=> Running /\ ~Queued(Signal)) /\ (Opened' <=> Running' /\ ~Queued(Signal)')
    <2>1. Opened' <=> Running' /\ ~Queued(Signal)'
        BY DEF Opened, Running, Queued
    <2> QED
        BY <2>1, OpenedIs
<1>u. ASSUME UNCHANGED <<loop, queue>> PROVE Opened' <=> Opened
    <2>1. Running' = Running
        BY <1>u DEF Running
    <2> QED
        BY <1>u, <1>o, <2>1, QueueKept
<1>1. ASSUME UNCHANGED <<setup, pc, _semaphore>>, Opened' <=> Opened PROVE GateInv'
    BY <1>1 DEF GateInv, Passed
<1>2. ASSUME NEW t \in Threads, NEW p \in {"idle", "wait", "lock", "wake"},
             pc' = [pc EXCEPT ![t] = p], pc[t] # "signal",
             p \in {"idle", "wait"} \/ pc[t] = "lock",
             UNCHANGED <<setup, _semaphore>>, Opened' <=> Opened
      PROVE  GateInv'
    <2>1. \A u \in Threads : pc'[u] = "signal" <=> pc[u] = "signal"
        BY <1>2, <1>t DEF CallTypes
    <2>2. (\E u \in Threads : pc'[u] \notin {"idle", "wait"})
             => \E u \in Threads : pc[u] \notin {"idle", "wait"}
        BY <1>2, <1>t DEF CallTypes
    <2>3. Passed' <=> Passed
        BY <2>1, <1>2 DEF Passed
    <2> QED
        BY <2>1, <2>2, <2>3, <1>2 DEF GateInv
<1>3. CASE CreateThread
    <2>1. ~Opened /\ ~Opened'
        BY <1>3, <1>o DEF CreateThread, Running, StartInv
    <2> QED
        BY <1>3, <2>1 DEF CreateThread, GateInv, Passed, callVars
<1>4. CASE RunLoopEntry
    <2>1. ~Running
        BY <1>4 DEF Running, RunLoopEntry
    <2>2. ~Queued(Signal)
        BY <2>1 DEF StartInv
    <2>3. Queued(Signal)'
        BY <2>2, <1>4, <1>t, SignalQueued DEF RunLoopEntry
    <2> QED
        BY <2>1, <2>3, <1>o, <1>1, <1>4 DEF RunLoopEntry, callVars
<1>5. CASE SetupWait
    <2>1. Opened /\ ~Passed /\ _semaphore = 1
        BY <1>5 DEF SetupWait, GateInv
    <2>2. Opened' /\ pc' = pc
        BY <2>1, <1>5, <1>u DEF SetupWait, loopVars, callVars
    <2> QED
        BY <2>1, <2>2, <1>5 DEF SetupWait, GateInv, Passed
<1>6. CASE SetupSignal
    <2>1. (Opened' <=> Opened) /\ pc' = pc
        BY <1>6, <1>u DEF SetupSignal, loopVars, callVars
    <2>2. Opened
        BY <1>6, <1>t DEF SetupSignal, StartInv, PlaceTypes, RunLoops
    <2>3. ~Passed' /\ Passed
        BY <2>1, <1>6 DEF SetupSignal, GateInv, Passed
    <2> QED
        <3>1. _semaphore = 0
            BY <2>3 DEF GateInv
        <3>2. _semaphore' = 1 /\ setup' = "done"
            BY <3>1, <1>6 DEF SetupSignal, Releases
        <3> QED
            BY <3>2, <2>1, <2>2, <2>3 DEF GateInv
<1>7. CASE TakeBlock
    <2>1. Running /\ Running'
        BY <1>7 DEF TakeBlock, Running
    <2>2. UNCHANGED <<setup, pc>>
        BY <1>7 DEF TakeBlock, callVars
    <2>3. CASE Head(queue) = Signal
        <3>1. ~Opened /\ Opened'
            BY <1>7, <1>t, <1>o, <2>1, <2>3, HeadTaken DEF TakeBlock, StartInv
        <3>2. ~Passed /\ ~Passed'
            BY <3>1, <1>t, <2>1, <2>2, <1>o DEF GateInv, StartInv, Passed, PlaceTypes, RunLoops
        <3>3. _semaphore' = 1
            BY <1>7, <2>3, <3>1 DEF TakeBlock, GateInv
        <3> QED
            BY <2>2, <3>1, <3>2, <3>3 DEF GateInv
    <2>4. CASE Head(queue) # Signal
        <3>1. Opened' <=> Opened
            BY <1>7, <1>t, <1>o, <2>1, <2>4, HeadTaken DEF TakeBlock, StartInv
        <3> QED
            BY <1>1, <1>7, <2>2, <2>4, <3>1 DEF TakeBlock
    <2> QED
        BY <2>3, <2>4
<1>8. ASSUME NEW t \in Threads, TurnstileWait(t) PROVE GateInv'
    <2>1. Opened /\ ~Passed /\ _semaphore = 1
        BY <1>8 DEF TurnstileWait, GateInv
    <2>2. Opened'
        BY <2>1, <1>8, <1>u DEF TurnstileWait, loopVars
    <2>3. \A u \in Threads : pc'[u] = "signal" <=> u = t
        BY <2>1, <1>8, <1>t DEF TurnstileWait, Passed, CallTypes
    <2>4. setup' # "assert" /\ Passed'
        BY <2>1, <2>3, <1>8 DEF TurnstileWait, Passed
    <2>5. _semaphore' = 0
        BY <2>1, <1>8 DEF TurnstileWait
    <2> QED
        BY <2>2, <2>3, <2>4, <2>5 DEF GateInv
<1>9. ASSUME NEW t \in Threads, TurnstileSignal(t) PROVE GateInv'
    <2>1. Opened /\ Passed /\ _semaphore = 0 /\ setup # "assert"
        BY <1>9 DEF TurnstileSignal, GateInv, Passed
    <2>2. Opened'
        BY <2>1, <1>9, <1>u DEF TurnstileSignal, loopVars
    <2>3. \A u \in Threads : pc'[u] # "signal"
        BY <1>9, <1>t DEF TurnstileSignal, GateInv, CallTypes
    <2>4. setup' # "assert" /\ ~Passed'
        BY <2>1, <2>3, <1>9 DEF TurnstileSignal, Passed
    <2>5. _semaphore' = 1
        BY <2>1, <1>9 DEF TurnstileSignal
    <2> QED
        BY <2>2, <2>3, <2>4, <2>5 DEF GateInv
<1>10. ASSUME NEW t \in Threads, NEW k \in Kinds, BeginCall(t, k) PROVE GateInv'
    BY <1>2, <1>u, <1>10 DEF BeginCall, semVars, loopVars
<1>11. ASSUME NEW t \in Threads, ScheduleWake(t) \/ AddTimer(t) PROVE GateInv'
    BY <1>2, <1>u, <1>11 DEF ScheduleWake, AddTimer, semVars
<1>12. CASE ScheduleInline
    <2>1. "loop" \in Threads
        BY DEF Threads
    <2> QED
        BY <2>1, <1>2, <1>u, <1>12 DEF ScheduleInline, semVars
<1>13. ASSUME NEW t \in Threads, ScheduleAsync(t) PROVE GateInv'
    <2>1. UNCHANGED <<setup, _semaphore, loop>>
        BY <1>13 DEF ScheduleAsync, semVars
    <2>2. CASE UNCHANGED queue
        BY <2>1, <2>2, <1>2, <1>u, <1>13 DEF ScheduleAsync
    <2>3. CASE queue' = Append(queue, call[t])
        <3>1. call[t] \in Calls
            BY <1>13, <1>t DEF ScheduleAsync, CallTypes, CallsNumbered, Calls
        <3>2. Queued(Signal)' <=> Queued(Signal)
            BY <2>3, <3>1, <1>t, BlockQueued
        <3>3. Opened' <=> Opened
            BY <2>1, <3>2, <1>o DEF Running
        <3> QED
            BY <2>1, <3>3, <1>2, <1>13 DEF ScheduleAsync
    <2> QED
        BY <1>13, <2>2, <2>3 DEF ScheduleAsync, PerformBlock
<1>14. ASSUME UNCHANGED <<setup, pc, _semaphore, queue>>, Running, Running' PROVE GateInv'
    BY <1>14, <1>1, <1>o, QueueKept
<1>15. CASE Sleep \/ Wake \/ Finish
    BY <1>14, <1>15 DEF Sleep, Wake, Finish, Running, semVars, callVars
<1>16. ASSUME NEW n \in Calls, TimerFires(n) PROVE GateInv'
    BY <1>14, <1>16 DEF TimerFires, Running, semVars, callVars
<1>17. CASE UNCHANGED <<setup, pc, _semaphore, loop, queue>>
    BY <1>17, <1>1, <1>u
<1>18. CASE Dealloc \/ DelayedWake \/ DropOwner \/ RunBlock \/ BlockReturns
    BY <1>17, <1>18, Zenon DEF Dealloc, DelayedWake, DropOwner, RunBlock, BlockReturns,
                               semVars, callVars, loopVars
<1>19. ASSUME NEW n \in Calls, Cancel(n) PROVE GateInv'
    BY <1>17, <1>19, Zenon DEF Cancel, semVars, callVars
<1>20. CASE UNCHANGED vars
    BY <1>17, <1>20, Zenon DEF vars, semVars, callVars, loopVars
<1> QED
    BY NextStep, <1>3, <1>4, <1>5, <1>6, <1>7, <1>8, <1>9, <1>10, <1>11, <1>12, <1>13,
       <1>15, <1>16, <1>18, <1>19, <1>20

(* The semaphore is a turnstile for any number of callers: with the setup  *)
(* block and the callers that are between their wait and their signal it   *)
(* makes exactly one once the loop has performed its signal, and none      *)
(* before. So two callers never pass at once and the last one always       *)
(* leaves it open.                                                         *)
THEOREM TurnstileIsKept == Spec => []TurnstileIsOne
<1> DEFINE Inv == TypeInv /\ StartInv /\ GateInv
<1>1. Init => Inv
    BY TypeInit, StartInit, GateInit
<1>2. Inv /\ [Next]_vars => Inv'
    BY TypeStep, StartStep, GateStep
<1>3. Inv => TurnstileIsOne
    <2> SUFFICES ASSUME Inv PROVE TurnstileIsOne
        OBVIOUS
    <2>1. CASE ~Passed
        <3>1. Inside = {}
            BY <2>1 DEF Passed, Inside
        <3>2. Cardinality(Inside) = 0
            BY <3>1, FS_EmptySet
        <3> QED
            BY <2>1, <3>2 DEF TurnstileIsOne, GateInv
    <2>2. CASE Passed
        <3>1. \E x : Inside = {x}
            <4>1. CASE setup = "assert"
                BY <4>1 DEF Inside, GateInv
            <4>2. CASE setup # "assert"
                <5>1. PICK t \in Threads : pc[t] = "signal"
                    BY <2>2, <4>2 DEF Passed
                <5>2. Inside = {t}
                    BY <4>2, <5>1 DEF Inside, GateInv
                <5> QED
                    BY <5>2
            <4> QED
                BY <4>1, <4>2
        <3>2. Cardinality(Inside) = 1
            BY <3>1, FS_Singleton
        <3>3. Opened
            <4>1. CASE setup = "assert"
                BY <4>1, TypeParts DEF StartInv, PlaceTypes, RunLoops
            <4>2. CASE setup # "assert"
                BY <2>2, <4>2 DEF Passed, GateInv
            <4> QED
                BY <4>1, <4>2
        <3> QED
            BY <2>2, <3>2, <3>3 DEF TurnstileIsOne, GateInv
    <2> QED
        BY <2>1, <2>2
<1> QED
    BY <1>1, <1>2, <1>3, PTL DEF Spec

-----------------------------------------------------------------------------
(* The end of the scheduler. *)

(* init: a given run loop is known, and nobody runs dealloc.               *)
LEMMA LifeInit == Init => LifeInv
<1> SUFFICES ASSUME Init PROVE LifeInv
    OBVIOUS
<1>1. runloop = "nil" => ~Running
    BY DEF Init, Running
<1>2. _cfRunLoop = (runloop # "nil") /\ dealloc = "no"
    BY DEF Init
<1> QED
    BY <1>1, <1>2 DEF LifeInv

(* Every step that holds a reference finds dealloc not begun, so no step   *)
(* makes a reference again once it has; and only dealloc forgets the loop. *)
LEMMA LifeStep == TypeInv /\ StartInv /\ LifeInv /\ [Next]_vars => LifeInv'
<1> SUFFICES ASSUME TypeInv, StartInv, LifeInv, [Next]_vars PROVE LifeInv'
    OBVIOUS
<1>t. PlaceTypes /\ CallTypes /\ BlockTypes
    BY TypeParts
<1>c. ASSUME NEW t, Releases(t), dealloc = "no", runloop' = runloop
      PROVE  dealloc' # "no" => ~References'
    BY <1>c DEF Releases, References, HasReferences
<1>h. ASSUME dealloc # "no"
      PROVE  /\ ~owned /\ setup = "done" /\ loop # "entry" /\ checked = 0 /\ stack = <<>>
             /\ \A t \in Threads : pc[t] = "idle"
             /\ queue = <<>>
    <2>1. ~References
        BY <1>h DEF LifeInv, References
    <2>2. /\ ~owned /\ setup = "done" /\ loop # "entry" /\ checked = 0 /\ stack = <<>>
          /\ \A t \in Threads : pc[t] = "idle"
          /\ \A i \in 1..Len(queue) : queue[i] = Signal /\ runloop # "other"
        BY <2>1 DEF References, HasReferences
    <2>3. \A i \in 1..Len(queue) : FALSE
        BY <2>2 DEF StartInv, Queued
    <2>4. Len(queue) = 0
        BY <2>3, <1>t, LenProperties DEF BlockTypes
    <2>5. queue = <<>>
        BY <2>4, <1>t, EmptySeq DEF BlockTypes
    <2> QED
        BY <2>2, <2>5
(* A step that may drop the last reference. *)
<1>1. ASSUME NEW t, Releases(t), dealloc = "no", Running' => Running,
             UNCHANGED <<_cfRunLoop, runloop>>
      PROVE  LifeInv'
    <2>1. dealloc' # "no" => ~References'
        BY <1>1, <1>c
    <2> QED
        BY <1>1, <2>1 DEF LifeInv, References
(* A step that drops none. *)
<1>2. ASSUME dealloc = "no" \/ UNCHANGED <<owned, setup, loop, pc, queue, checked, stack>>, 
             Running' => Running, UNCHANGED <<_cfRunLoop, runloop, dealloc>>
      PROVE  LifeInv'
    BY <1>2 DEF LifeInv, References, HasReferences
<1>3. CASE CreateThread
    BY <1>h, <1>2, <1>3 DEF CreateThread, Running, fields
<1>4. CASE SetupWait
    BY <1>h, <1>2, <1>4 DEF SetupWait, Running, fields, loopVars
<1>5. CASE SetupSignal
    BY <1>h, <1>1, <1>5 DEF SetupSignal, Running, fields, loopVars
<1>6. CASE RunLoopEntry
    <2>1. dealloc = "no" /\ runloop' = runloop /\ _cfRunLoop'
        BY <1>h, <1>6 DEF RunLoopEntry
    <2>2. dealloc' # "no" => ~References'
        BY <2>1, <1>c, <1>6 DEF RunLoopEntry
    <2> QED
        BY <2>1, <2>2 DEF LifeInv, References
<1>7. CASE TakeBlock
    BY <1>h, <1>1, <1>7 DEF TakeBlock, Running, fields
<1>8. CASE RunBlock
    BY <1>h, <1>2, <1>8 DEF RunBlock, Running, fields, semVars
<1>9. CASE BlockReturns
    BY <1>h, <1>1, <1>9 DEF BlockReturns, Running, fields, semVars
<1>10. CASE DropOwner
    BY <1>h, <1>1, <1>10 DEF DropOwner, Running, fields, semVars, loopVars
<1>11. ASSUME NEW t \in Threads, ScheduleAsync(t) \/ ScheduleWake(t) \/ AddTimer(t)
       PROVE  LifeInv'
    <2>1. dealloc = "no" /\ Releases(t) /\ UNCHANGED <<loop, _cfRunLoop, runloop>>
        BY <1>h, <1>11 DEF ScheduleAsync, ScheduleWake, AddTimer, fields, semVars
    <2> QED
        BY <2>1, <1>1 DEF Running
<1>12. ASSUME NEW t \in Threads, TurnstileWait(t) \/ TurnstileSignal(t) PROVE LifeInv'
    BY <1>h, <1>2, <1>12 DEF TurnstileWait, TurnstileSignal, Running, fields, loopVars
<1>13. ASSUME NEW t \in Threads, NEW k \in Kinds, BeginCall(t, k) PROVE LifeInv'
    <2>1. dealloc = "no"
        BY <1>h, <1>13 DEF BeginCall
    <2> QED
        BY <2>1, <1>2, <1>13 DEF BeginCall, Running, semVars, fields, loopVars
<1>14. CASE ScheduleInline
    <2>1. dealloc = "no"
        BY <1>h, <1>14 DEF ScheduleInline, Threads
    <2> QED
        BY <2>1, <1>2, <1>14 DEF ScheduleInline, Running, semVars, fields
<1>15. ASSUME Running, loop' # "entry", 
              UNCHANGED <<_cfRunLoop, runloop, dealloc, owned, setup, pc, queue, checked>>,
              dealloc # "no" => stack' = stack
       PROVE  LifeInv'
    BY <1>15 DEF LifeInv, References, HasReferences
<1>16. CASE Sleep \/ Wake \/ Finish
    BY <1>15, <1>16 DEF Sleep, Wake, Finish, Running, semVars, fields, callVars
<1>17. ASSUME NEW n \in Calls, TimerFires(n) PROVE LifeInv'
    BY <1>15, <1>17 DEF TimerFires, Running, semVars, fields, callVars
<1>18. CASE Dealloc
    BY <1>18 DEF Dealloc, LifeInv, References, HasReferences, callVars
<1>19. CASE DelayedWake
    BY <1>2, <1>19 DEF DelayedWake, Running, semVars, fields, callVars
<1>20. ASSUME NEW n \in Calls, Cancel(n) PROVE LifeInv'
    BY <1>2, <1>20 DEF Cancel, Running, semVars, fields, callVars
<1>21. CASE UNCHANGED vars
    BY <1>2, <1>21 DEF vars, Running, semVars, fields, callVars, loopVars
<1> QED
    BY NextStep, <1>3, <1>4, <1>5, <1>6, <1>7, <1>8, <1>9, <1>10, <1>11, <1>12, <1>13,
       <1>14, <1>16, <1>17, <1>18, <1>19, <1>20, <1>21

(* The four parts together are an inductive invariant.                     *)
LEMMA HandshakeInv == Spec => [](TypeInv /\ StartInv /\ GateInv /\ LifeInv)
<1> DEFINE Inv == TypeInv /\ StartInv /\ GateInv /\ LifeInv
<1>1. Init => Inv
    BY TypeInit, StartInit, GateInit, LifeInit
<1>2. Inv /\ [Next]_vars => Inv'
    BY TypeStep, StartStep, GateStep, LifeStep
<1> QED
    BY <1>1, <1>2, PTL DEF Spec

(* Whoever is past the semaphore finds _cfRunLoop filled in, so the setup  *)
(* block's assertions hold and schedule: never returns nil.                *)
THEOREM RunLoopIsFilledIn == Spec => []NobodyPassesEarly
<1>1. TypeInv /\ StartInv /\ GateInv /\ LifeInv => NobodyPassesEarly
    <2> SUFFICES ASSUME TypeInv, StartInv, GateInv, LifeInv,
                        \/ setup = "assert"
                        \/ \E t \in Threads : pc[t] \notin {"idle", "wait"}
                 PROVE  _cfRunLoop
        BY DEF NobodyPassesEarly
    <2>1. Opened
        BY TypeParts DEF StartInv, GateInv, PlaceTypes, RunLoops
    <2>2. dealloc = "no"
        BY DEF LifeInv, References, HasReferences
    <2> QED
        BY <2>1, <2>2, OpenedIs DEF LifeInv
<1> QED
    BY <1>1, HandshakeInv, PTL

(* dealloc finds the semaphore open on whichever thread it runs, also on   *)
(* the run loop's own, where waiting would be waiting for itself: nobody   *)
(* is left inside, and the signal was performed.                           *)
THEOREM DeallocPasses == Spec => []DeallocDoesNotBlock
<1>1. TypeInv /\ StartInv /\ GateInv /\ LifeInv => DeallocDoesNotBlock
    <2> SUFFICES ASSUME TypeInv, StartInv, GateInv, LifeInv, dealloc \in {"loop", "elsewhere"}
                 PROVE  _semaphore > 0
        BY DEF DeallocDoesNotBlock
    <2>1. /\ setup = "done" /\ \A t \in Threads : pc[t] = "idle"
          /\ \A i \in 1..Len(queue) : queue[i] = Signal /\ runloop # "other"
        BY DEF LifeInv, References, HasReferences
    <2>2. ~Queued(Signal) /\ Running
        BY <2>1, TypeParts DEF StartInv, Queued, PlaceTypes
    <2>3. Opened /\ ~Passed
        BY <2>1, <2>2, OpenedIs DEF Passed
    <2> QED
        BY <2>3 DEF GateInv
<1> QED
    BY <1>1, HandshakeInv, PTL

=============================================================================
