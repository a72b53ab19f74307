---------------------- MODULE CollectionNotifier_proofs ----------------------
(***************************************************************************)
(* Proofs about CollectionNotifier, for every number of callbacks and of   *)
(* versions and every width of size_t: the types, the place of the loop    *)
(* over the callbacks (IndexTracksRunning), the number of callbacks it may *)
(* visit (CountIsPackaged), the m_have_callbacks flag, and the assertions  *)
(* of find_callback().  They rest on one inductive invariant, LoopInv.     *)
(*                                                                         *)
(* The second half is about the changes that are handed over: in which     *)
(* order the worker advances, that a change is with a callback exactly     *)
(* once, that a called callback knows what its Realm shows, and that only  *)
(* suppressed changes are dropped.                                         *)
(***************************************************************************)
EXTENDS CollectionNotifier, SequenceTheorems, TLAPS

-----------------------------------------------------------------------------
(* Sequences.                                                              *)

(* A function on an initial segment of the numbers is a sequence.          *)
LEMMA FunctionIsSeq ==
    ASSUME NEW S, NEW n \in Nat, NEW f \in [1..n -> S]
    PROVE  f \in Seq(S) /\ Len(f) = n
  OBVIOUS

(* Erasing the element at position i shifts the later ones down by one.    *)
LEMMA RemoveAtProperties ==
    ASSUME NEW S, NEW s \in Seq(S), NEW i \in 1..Len(s)
    PROVE  /\ RemoveAt(s, i) \in Seq(S)
           /\ Len(RemoveAt(s, i)) = Len(s) - 1
           /\ \A k \in 1..(Len(s) - 1) :
                 RemoveAt(s, i)[k] = IF k < i THEN s[k] ELSE s[k + 1]
  <1> DEFINE a == SubSeq(s, 1, i - 1)
             b == SubSeq(s, i + 1, Len(s))
  <1>1. a \in Seq(S) /\ Len(a) = i - 1 /\ \A k \in 1..(i - 1) : a[k] = s[k]
    OBVIOUS
  <1>2. /\ b \in Seq(S) /\ Len(b) = Len(s) - i
        /\ \A k \in 1..(Len(s) - i) : b[k] = s[i + k]
    OBVIOUS
  <1>3. RemoveAt(s, i) = a \o b
    BY DEF RemoveAt
  <1> HIDE DEF a, b
  <1>4. a \o b \in Seq(S) /\ Len(a \o b) = Len(s) - 1
    <2>1. a \o b \in Seq(S) /\ Len(a \o b) = Len(a) + Len(b)
      BY <1>1, <1>2, ConcatProperties
    <2>2. Len(s) \in Nat
      OBVIOUS
    <2>3. Len(a) + Len(b) = Len(s) - 1
      BY <1>1, <1>2, <2>2
    <2> QED BY <2>1, <2>3
  <1>5. ASSUME NEW k \in 1..(Len(s) - 1)
        PROVE  (a \o b)[k] = IF k < i THEN s[k] ELSE s[k + 1]
    <2>1. (a \o b)[k] = IF k <= Len(a) THEN a[k] ELSE b[k - Len(a)]
      BY <1>1, <1>2
    <2>2. CASE k < i
      BY <1>1, <2>1, <2>2
    <2>3. CASE ~(k < i)
      <3>1. k - (i - 1) \in 1..(Len(s) - i) /\ i + (k - (i - 1)) = k + 1
        BY <2>3
      <3> QED BY <1>1, <1>2, <2>1, <2>3, <3>1
    <2> QED BY <2>2, <2>3
  <1> QED BY <1>3, <1>4, <1>5

-----------------------------------------------------------------------------
(* What the operations do to the list of callbacks.                        *)

(* The step replaces callbacks in place: same tokens, same order.          *)
KeepsTokens ==
    /\ m_callbacks' \in Seq(Callback)
    /\ Len(m_callbacks') = Len(m_callbacks)
    /\ \A i \in 1..Len(m_callbacks) :
          m_callbacks'[i].token = m_callbacks[i].token

(* package_for_delivery() keeps the tokens.                                *)
LEMMA PackageKeepsTokens ==
    ASSUME m_callbacks \in Seq(Callback), package_for_delivery
    PROVE  KeepsTokens
  <1>1. \A c \in Callback : Packaged(c) \in Callback /\ Packaged(c).token = c.token
    BY DEF Callback, Packaged
  <1>2. m_callbacks' = [i \in 1..Len(m_callbacks) |-> Packaged(m_callbacks[i])]
    BY DEF package_for_delivery
  <1>3. m_callbacks' \in [1..Len(m_callbacks) -> Callback]
    BY <1>1, <1>2
  <1>4. m_callbacks' \in Seq(Callback) /\ Len(m_callbacks') = Len(m_callbacks)
    BY <1>3, FunctionIsSeq
  <1>5. \A i \in 1..Len(m_callbacks) :
           m_callbacks'[i].token = m_callbacks[i].token
    BY <1>1, <1>2
  <1> QED BY <1>4, <1>5 DEF KeepsTokens

(* add_changes() keeps the tokens, and all it adds are versions.           *)
LEMMA HandoverKeepsTokens ==
    ASSUME m_callbacks \in Seq(Callback), m_sg_version \in Versions,
           NEW v \in Versions, prepare_handover(v)
    PROVE  KeepsTokens
  <1> DEFINE change == (m_sg_version + 1) .. v
  <1>1. change \subseteq Versions
    BY ConstantsAssumption DEF Versions
  <1> HIDE DEF change
  <1>2. \A c \in Callback : /\ Accumulate(c, change) \in Callback
                            /\ Accumulate(c, change).token = c.token
    BY <1>1 DEF Callback, Accumulate
  <1>3. m_callbacks' = [i \in 1..Len(m_callbacks) |->
                           Accumulate(m_callbacks[i], change)]
    BY DEF prepare_handover, change
  <1>4. m_callbacks' \in [1..Len(m_callbacks) -> Callback]
    BY <1>2, <1>3
  <1>5. m_callbacks' \in Seq(Callback) /\ Len(m_callbacks') = Len(m_callbacks)
    BY <1>4, FunctionIsSeq
  <1>6. \A i \in 1..Len(m_callbacks) :
           m_callbacks'[i].token = m_callbacks[i].token
    BY <1>2, <1>3
  <1> QED BY <1>5, <1>6 DEF KeepsTokens

(* suppress_next_notification() keeps the tokens.                          *)
LEMMA SuppressKeepsTokens ==
    ASSUME m_callbacks \in Seq(Callback), NEW t, SuppressNext(t)
    PROVE  KeepsTokens
  <1> DEFINE Hush(c) == IF c.token = t THEN [c EXCEPT !.skip_next = TRUE] ELSE c
  <1>1. \A c \in Callback : Hush(c) \in Callback /\ Hush(c).token = c.token
    BY DEF Callback
  <1>2. m_callbacks' = [i \in 1..Len(m_callbacks) |-> Hush(m_callbacks[i])]
    BY DEF SuppressNext
  <1> HIDE DEF Hush
  <1>3. m_callbacks' \in [1..Len(m_callbacks) -> Callback]
    BY <1>1, <1>2
  <1>4. m_callbacks' \in Seq(Callback) /\ Len(m_callbacks') = Len(m_callbacks)
    BY <1>3, FunctionIsSeq
  <1>5. \A i \in 1..Len(m_callbacks) :
           m_callbacks'[i].token = m_callbacks[i].token
    BY <1>1, <1>2
  <1> QED BY <1>4, <1>5 DEF KeepsTokens

(* The offsets that the loop may visit lie in the vector.                  *)
LEMMA RemainingInRange ==
    ASSUME NotifierTypeOK, NEW i \in Remaining
    PROVE  i + 1 \in 1..Len(m_callbacks) /\ i \in Nat /\ i < SizeMax
  <1>1. Incr(m_callback_index) \in Nat
    BY ConstantsAssumption DEF NotifierTypeOK, Incr
  <1>2. Len(m_callbacks) \in Nat /\ Len(m_callbacks) < SizeMax
    BY ConstantsAssumption DEF NotifierTypeOK
  <1> QED BY <1>1, <1>2, ConstantsAssumption DEF Remaining

(* after_advance() keeps the tokens.                                       *)
LEMMA AfterKeepsTokens ==
    ASSUME NotifierTypeOK, NEW i, AfterAdvance(i)
    PROVE  KeepsTokens
  <1>1. i + 1 \in 1..Len(m_callbacks)
    BY RemainingInRange DEF AfterAdvance, IsNext
  <1> DEFINE c == m_callbacks[i + 1]
             d == [c EXCEPT !.initial_delivered = TRUE, !.changes_to_deliver = {}]
  <1>2. m_callbacks \in Seq(Callback) /\ c \in Callback
    BY <1>1 DEF NotifierTypeOK
  <1>3. d \in Callback /\ d.token = c.token
    BY <1>2 DEF Callback
  <1>4. m_callbacks' = [m_callbacks EXCEPT ![i + 1] = d]
    BY <1>1, <1>2 DEF AfterAdvance, Callback
  <1> HIDE DEF c, d
  <1> QED BY <1>1, <1>2, <1>3, <1>4, ExceptSeq DEF KeepsTokens, c

(* remove_callback() of a token that is found erases one callback.         *)
LEMMA RemoveErases ==
    ASSUME NotifierTypeOK, NEW t, remove_callback(t), Present(t)
    PROVE  \E i \in 1..Len(m_callbacks) :
              /\ m_callbacks[i].token = t
              /\ m_callback_index' = IndexAfterErase(i - 1)
              /\ m_callback_count' = Decr(m_callback_count)
              /\ m_have_callbacks' = (Len(m_callbacks) # 1)
              /\ m_callbacks' \in Seq(Callback)
              /\ Len(m_callbacks') = Len(m_callbacks) - 1
              /\ \A k \in 1..(Len(m_callbacks) - 1) : m_callbacks'[k] =
                    IF k < i THEN m_callbacks[k] ELSE m_callbacks[k + 1]
  <1>1. PICK i \in 1..Len(m_callbacks) :
           /\ m_callbacks[i].token = t
           /\ m_callback_index' = IndexAfterErase(i - 1)
           /\ m_callback_count' = Decr(m_callback_count)
           /\ m_callbacks' = RemoveAt(m_callbacks, i)
           /\ m_have_callbacks' = (Len(m_callbacks) # 1)
    BY DEF remove_callback
  <1>2. m_callbacks \in Seq(Callback)
    BY DEF NotifierTypeOK
  <1> QED BY <1>1, <1>2, RemoveAtProperties

(* remove_callback() respects the types of the fields it writes.           *)
LEMMA RemoveKeepsTypes ==
    ASSUME NotifierTypeOK, NEW t, remove_callback(t)
    PROVE  /\ m_callbacks' \in Seq(Callback)
           /\ Len(m_callbacks') <= Len(m_callbacks)
           /\ m_callback_index' \in 0..SizeMax
           /\ m_callback_count' \in 0..SizeMax
           /\ m_have_callbacks' \in BOOLEAN
  <1>1. CASE Present(t)
    <2>1. PICK i \in 1..Len(m_callbacks) :
              /\ m_callback_index' = IndexAfterErase(i - 1)
              /\ m_callback_count' = Decr(m_callback_count)
              /\ m_have_callbacks' = (Len(m_callbacks) # 1)
              /\ m_callbacks' \in Seq(Callback)
              /\ Len(m_callbacks') = Len(m_callbacks) - 1
      BY <1>1, RemoveErases
    <2>2. m_callback_index' \in 0..SizeMax /\ m_callback_count' \in 0..SizeMax
      BY <2>1, ConstantsAssumption DEF NotifierTypeOK, IndexAfterErase, Decr
    <2>3. Len(m_callbacks') <= Len(m_callbacks)
      BY <2>1 DEF NotifierTypeOK
    <2> QED BY <2>1, <2>2, <2>3
  <1>2. CASE ~Present(t)
    BY <1>2 DEF remove_callback, NotifierTypeOK
  <1> QED BY <1>1, <1>2

-----------------------------------------------------------------------------
(* Type correctness.                                                       *)

(* The callback that a loop is about to call has a token.                  *)
LEMMA VisitedCallback ==
    ASSUME NotifierTypeOK, NEW i \in Remaining
    PROVE  /\ m_callbacks[i + 1] \in Callback
           /\ m_callbacks[i + 1].token \in Tokens
           /\ m_callbacks[i + 1].changes_to_deliver \subseteq Versions
  <1>1. m_callbacks[i + 1] \in Callback
    BY RemainingInRange DEF NotifierTypeOK
  <1> QED BY <1>1 DEF Callback

(* The fields of the notifier keep their types.                            *)
LEMMA NotifierTypeStep ==
    ASSUME TypeOK, [Next]_vars
    PROVE  NotifierTypeOK'
  <1> USE DEF TypeOK
  <1>1. CASE UNCHANGED notifierVars
    BY <1>1 DEF NotifierTypeOK, notifierVars, loopVars, handover
  <1>2. CASE NotifyPackage
    BY <1>2, PackageKeepsTokens, ConstantsAssumption
       DEF NotifyPackage, NotifierTypeOK, KeepsTokens, package_for_delivery,
           handover
  <1>3. CASE deliver_error
    BY <1>3 DEF deliver_error, NotifierTypeOK, loopVars, handover
  <1>4. CASE ErrorCount
    BY <1>4, ConstantsAssumption
       DEF ErrorCount, NotifierTypeOK, TargetTypeOK, handover
  <1>5. CASE PackageAfterWait
    BY <1>5, PackageKeepsTokens, ConstantsAssumption
       DEF PackageAfterWait, NotifierTypeOK, KeepsTokens, package_for_delivery,
           handover
  <1>6. ASSUME NEW i, BeforeAdvance(i) \/ DeliverError(i)
        PROVE  NotifierTypeOK'
    <2>1. i \in Remaining
      BY <1>6 DEF BeforeAdvance, DeliverError, IsNext
    <2>2. i \in 0..SizeMax
      BY <2>1, RemainingInRange, ConstantsAssumption
    <2> QED BY <1>6, <2>2 DEF BeforeAdvance, DeliverError, NotifierTypeOK, handover
  <1>7. ASSUME NEW i, AfterAdvance(i)
        PROVE  NotifierTypeOK'
    <2>1. i \in Remaining
      BY <1>7 DEF AfterAdvance, IsNext
    <2>2. i \in 0..SizeMax
      BY <2>1, RemainingInRange, ConstantsAssumption
    <2>3. m_callbacks' \in Seq(Callback) /\ Len(m_callbacks') = Len(m_callbacks)
      BY <1>7, AfterKeepsTokens DEF KeepsTokens
    <2> QED BY <1>7, <2>2, <2>3 DEF AfterAdvance, NotifierTypeOK, handover
  <1>8. CASE BeforeAdvanceDone \/ AfterAdvanceDone \/ DeliverErrorDone
    BY <1>8, ConstantsAssumption
       DEF BeforeAdvanceDone, AfterAdvanceDone, DeliverErrorDone, NotifierTypeOK,
           npos, handover
  <1>9. ASSUME NEW t, remove_callback(t),
               UNCHANGED <<m_next_token, m_error, m_realm, handover>>
        PROVE  NotifierTypeOK'
    BY <1>9, RemoveKeepsTypes DEF NotifierTypeOK, handover
  <1>10. CASE WorkerSkip \/ WorkerRun
    BY <1>10, HandoverKeepsTokens
       DEF WorkerSkip, WorkerRun, NotifierTypeOK, CoordinatorTypeOK, KeepsTokens,
           prepare_handover, loopVars
  <1>11. CASE AddCallback
    <2>1. NewCallback(m_next_token) \in Callback
      BY <1>11, ConstantsAssumption
         DEF AddCallback, NewCallback, Callback, NotifierTypeOK, Tokens
    <2>2. m_callbacks' \in Seq(Callback) /\ Len(m_callbacks') = Len(m_callbacks) + 1
      BY <1>11, <2>1 DEF AddCallback, NotifierTypeOK
    <2>3. m_next_token' \in 0..MaxToken /\ Len(m_callbacks') <= m_next_token'
      BY <1>11, <2>2, ConstantsAssumption DEF AddCallback, NotifierTypeOK
    <2> QED BY <1>11, <2>2, <2>3 DEF AddCallback, NotifierTypeOK, loopVars, handover
  <1>12. ASSUME NEW t, SuppressNext(t)
         PROVE  NotifierTypeOK'
    BY <1>12, SuppressKeepsTokens
       DEF SuppressNext, NotifierTypeOK, KeepsTokens, loopVars, handover
  <1>13. CASE Unregister
    BY <1>13 DEF Unregister, NotifierTypeOK, loopVars, handover
  <1>14. CASE ErrorRemove
    BY <1>14, <1>9 DEF ErrorRemove
  <1>15. ASSUME NEW t, ReleaseToken(t)
         PROVE  NotifierTypeOK'
    BY <1>15, <1>9 DEF ReleaseToken
  <1> QED
    BY <1>1, <1>2, <1>3, <1>4, <1>5, <1>6, <1>7, <1>8, <1>10, <1>11, <1>12,
       <1>13, <1>14, <1>15
       DEF Next, TargetSteps, WorkerSteps, UserSteps, vars, NotifyNothing,
           WaitForNotifiers, WorkerStopsEarly, WorkerStart, BeginWait,
           BeginWriteInCallback, CommitWrite, CancelWrite, CommitElsewhere

(* The target thread's variables keep their types.                         *)
LEMMA TargetTypeStep ==
    ASSUME TypeOK, [Next]_vars
    PROVE  TargetTypeOK'
  <1> USE DEF TypeOK
  <1>1. CASE UNCHANGED targetVars
    BY <1>1 DEF TargetTypeOK, targetVars
  <1>2. CASE NotifyNothing
    BY <1>2 DEF NotifyNothing, TargetTypeOK, CoordinatorTypeOK
  <1>3. CASE NotifyPackage
    BY <1>3 DEF NotifyPackage, TargetTypeOK, NotifierTypeOK, Loops, Versions
  <1>4. CASE deliver_error
    BY <1>4, ConstantsAssumption
       DEF deliver_error, TargetTypeOK, NotifierTypeOK, CoordinatorTypeOK
  <1>5. CASE ErrorCount
    BY <1>5 DEF ErrorCount, TargetTypeOK, Loops
  <1>6. CASE WaitForNotifiers
    BY <1>6 DEF WaitForNotifiers, TargetTypeOK
  <1>7. CASE PackageAfterWait
    BY <1>7 DEF PackageAfterWait, TargetTypeOK, NotifierTypeOK, CoordinatorTypeOK,
                Loops, Versions
  <1>8. ASSUME NEW i, BeforeAdvance(i) \/ AfterAdvance(i) \/ DeliverError(i)
        PROVE  TargetTypeOK'
    <2>1. m_callbacks[i + 1].token \in Tokens
      BY <1>8, VisitedCallback
         DEF BeforeAdvance, AfterAdvance, DeliverError, IsNext
    <2> QED BY <1>8, <2>1
               DEF BeforeAdvance, AfterAdvance, DeliverError, TargetTypeOK, Loops
  <1>9. CASE BeforeAdvanceDone
    BY <1>9 DEF BeforeAdvanceDone, TargetTypeOK, Loops
  <1>10. CASE AfterAdvanceDone \/ DeliverErrorDone
    BY <1>10 DEF AfterAdvanceDone, DeliverErrorDone, TargetTypeOK, Loops
  <1>11. CASE ErrorRemove
    BY <1>11 DEF ErrorRemove, TargetTypeOK, Loops
  <1>12. CASE WorkerRun
    BY <1>12 DEF WorkerRun, NotifyWaiters, TargetTypeOK
  <1>13. CASE BeginWait
    BY <1>13 DEF BeginWait, TargetTypeOK, CoordinatorTypeOK, Versions
  <1>14. CASE BeginWriteInCallback
    BY <1>14 DEF BeginWriteInCallback, TargetTypeOK, CoordinatorTypeOK
  <1>15. CASE CommitWrite
    <2>1. latest + 1 \in Versions
      BY <1>15, ConstantsAssumption DEF CommitWrite, CoordinatorTypeOK, Versions
    <2> QED BY <1>15, <2>1 DEF CommitWrite, TargetTypeOK
  <1>16. CASE CancelWrite
    BY <1>16 DEF CancelWrite, TargetTypeOK
  <1> QED
    BY <1>1, <1>2, <1>3, <1>4, <1>5, <1>6, <1>7, <1>8, <1>9, <1>10, <1>11,
       <1>12, <1>13, <1>14, <1>15, <1>16
       DEF Next, TargetSteps, WorkerSteps, UserSteps, vars, WorkerStopsEarly,
           WorkerStart, WorkerSkip, AddCallback, ReleaseToken, SuppressNext,
           Unregister, CommitElsewhere

(* The coordinator's variables keep their types.                           *)
LEMMA CoordinatorTypeStep ==
    ASSUME TypeOK, [Next]_vars
    PROVE  CoordinatorTypeOK'
  <1> USE DEF TypeOK
  <1>0. 0 \in Versions
    BY ConstantsAssumption DEF Versions
  <1>1. CASE UNCHANGED <<latest, workerVars, wake, notified>>
    BY <1>1 DEF CoordinatorTypeOK, workerVars
  <1>2. ASSUME UNCHANGED <<latest, workerVars, wake>>, notified' \in BOOLEAN
        PROVE  CoordinatorTypeOK'
    BY <1>2 DEF CoordinatorTypeOK, workerVars
  <1>3. ASSUME UNCHANGED <<latest, workerVars, notified>>, wake' \in BOOLEAN
        PROVE  CoordinatorTypeOK'
    BY <1>3 DEF CoordinatorTypeOK, workerVars
  <1>4. CASE NotifyNothing \/ NotifyPackage
    BY <1>4, <1>2 DEF NotifyNothing, NotifyPackage
  <1>5. CASE deliver_error
    BY <1>5, <1>2 DEF deliver_error, CoordinatorTypeOK
  <1>6. CASE WaitForNotifiers
    BY <1>6, <1>3 DEF WaitForNotifiers, CoordinatorTypeOK
  <1>7. CASE AddCallback
    BY <1>7, <1>3 DEF AddCallback, CoordinatorTypeOK
  <1>8. CASE WorkerStopsEarly
    <2>1. listed' \in BOOLEAN /\ m_async_error' \in BOOLEAN
      BY <1>8 DEF WorkerStopsEarly, CoordinatorTypeOK
    <2>2. m_notifier_skip_version' \in Versions
      BY <1>8, <1>0 DEF WorkerStopsEarly, CoordinatorTypeOK
    <2> QED BY <1>8, <2>1, <2>2
               DEF WorkerStopsEarly, NotifyRealm, CoordinatorTypeOK
  <1>9. CASE WorkerStart
    BY <1>9, <1>0 DEF WorkerStart, TakeSkipVersion, CoordinatorTypeOK
  <1>10. CASE WorkerSkip
    BY <1>10, <1>0 DEF WorkerSkip, CoordinatorTypeOK
  <1>11. CASE WorkerRun
    <2>1. listed' \in BOOLEAN /\ notified' \in BOOLEAN
      BY <1>11 DEF WorkerRun, NotifyRealm, NotifierTypeOK
    <2> QED BY <1>11, <1>0, <2>1 DEF WorkerRun, CoordinatorTypeOK
  <1>12. CASE CommitWrite \/ CommitElsewhere
    <2>1. latest + 1 \in Versions
      BY <1>12, ConstantsAssumption
         DEF CommitWrite, CommitElsewhere, CoordinatorTypeOK, Versions
    <2> QED BY <1>12, <2>1
               DEF CommitWrite, CommitElsewhere, WakeWorker, CoordinatorTypeOK
  <1> QED
    BY <1>1, <1>4, <1>5, <1>6, <1>7, <1>8, <1>9, <1>10, <1>11, <1>12
       DEF Next, TargetSteps, WorkerSteps, UserSteps, vars, ErrorCount,
           PackageAfterWait, BeforeAdvance, AfterAdvance, DeliverError,
           BeforeAdvanceDone, AfterAdvanceDone, DeliverErrorDone, ErrorRemove,
           ReleaseToken, SuppressNext, Unregister, BeginWait,
           BeginWriteInCallback, CancelWrite

(* The tokens and the history keep their types.                            *)
LEMMA HistoryTypeStep ==
    ASSUME TypeOK, [Next]_vars
    PROVE  HistoryTypeOK'
  <1> USE DEF TypeOK
  <1>0. 0 \in Versions
    BY ConstantsAssumption DEF Versions
  <1>1. CASE UNCHANGED <<held, historyVars>>
    BY <1>1 DEF HistoryTypeOK, historyVars, ledger
  <1>2. CASE NotifyPackage \/ PackageAfterWait \/ ErrorCount
    BY <1>2 DEF NotifyPackage, PackageAfterWait, ErrorCount,
                package_for_delivery, HistoryTypeOK, NotifierTypeOK, ledger
  <1>3. ASSUME NEW i, AfterAdvance(i)
        PROVE  HistoryTypeOK'
    <2>1. /\ m_callbacks[i + 1].token \in Tokens
          /\ m_callbacks[i + 1].changes_to_deliver \subseteq Versions
      BY <1>3, VisitedCallback DEF AfterAdvance, IsNext
    <2>2. seen' \in [Tokens -> SUBSET Versions]
      BY <1>3, <2>1 DEF AfterAdvance, HistoryTypeOK
    <2>3. first' \in [Tokens -> Versions]
      BY <1>3, <2>1 DEF AfterAdvance, HistoryTypeOK, TargetTypeOK
    <2> QED BY <1>3, <2>2, <2>3 DEF AfterAdvance, HistoryTypeOK
  <1>4. ASSUME NEW t, Forget(t), held' \subseteq held, UNCHANGED packagedBelow
        PROVE  HistoryTypeOK'
    <2>1. born' \in [Tokens -> Versions] /\ first' \in [Tokens -> Versions]
      BY <1>4, <1>0 DEF Forget, HistoryTypeOK
    <2>2. seen' \in [Tokens -> SUBSET Versions]
      BY <1>4 DEF Forget, HistoryTypeOK
    <2>3. dropped' \in [Tokens -> SUBSET Versions]
      BY <1>4 DEF Forget, HistoryTypeOK
    <2>4. hushed' \subseteq Tokens \X Versions
      BY <1>4 DEF Forget, HistoryTypeOK
    <2> QED BY <1>4, <2>1, <2>2, <2>3, <2>4 DEF HistoryTypeOK
  <1>5. CASE ErrorRemove
    BY <1>5, <1>4 DEF ErrorRemove
  <1>6. ASSUME NEW t, ReleaseToken(t)
        PROVE  HistoryTypeOK'
    BY <1>6, <1>4 DEF ReleaseToken
  <1>7. ASSUME NEW v \in Versions, prepare_handover(v),
               UNCHANGED <<held, packagedBelow, born, first, seen, hushed>>
        PROVE  HistoryTypeOK'
    <2>1. ((m_sg_version + 1) .. v) \subseteq Versions
      BY <1>7, ConstantsAssumption DEF Versions, NotifierTypeOK
    <2>2. dropped' \in [Tokens -> SUBSET Versions]
      BY <1>7, <2>1 DEF prepare_handover, HistoryTypeOK
    <2> QED BY <1>7, <2>2 DEF HistoryTypeOK
  <1>8. CASE WorkerSkip \/ WorkerRun
    BY <1>8, <1>7 DEF WorkerSkip, WorkerRun, CoordinatorTypeOK
  <1>9. CASE AddCallback
    <2>1. m_next_token \in Tokens
      BY <1>9, ConstantsAssumption DEF AddCallback, NotifierTypeOK, Tokens
    <2> QED BY <1>9, <2>1 DEF AddCallback, HistoryTypeOK, NotifierTypeOK
  <1>10. ASSUME NEW t \in Tokens, SuppressNext(t)
         PROVE  HistoryTypeOK'
    <2>1. latest + 1 \in Versions
      BY <1>10, ConstantsAssumption DEF SuppressNext, CoordinatorTypeOK, Versions
    <2> QED BY <1>10, <2>1 DEF SuppressNext, HistoryTypeOK
  <1>11. CASE \/ NotifyNothing \/ deliver_error \/ WaitForNotifiers
              \/ BeforeAdvanceDone \/ AfterAdvanceDone \/ DeliverErrorDone
              \/ WorkerStopsEarly \/ WorkerStart \/ Unregister \/ BeginWait
              \/ BeginWriteInCallback \/ CommitWrite \/ CommitElsewhere
    BY <1>11, <1>1
       DEF NotifyNothing, deliver_error, WaitForNotifiers, BeforeAdvanceDone,
           AfterAdvanceDone, DeliverErrorDone, WorkerStopsEarly, WorkerStart,
           Unregister, BeginWait, BeginWriteInCallback, CommitWrite,
           CommitElsewhere
  <1>12. ASSUME NEW i, BeforeAdvance(i) \/ DeliverError(i)
         PROVE  HistoryTypeOK'
    BY <1>12, <1>1 DEF BeforeAdvance, DeliverError
  <1>13. CASE CancelWrite
    BY <1>13 DEF CancelWrite, HistoryTypeOK
  <1> QED
    BY <1>1, <1>2, <1>3, <1>5, <1>6, <1>8, <1>9, <1>10, <1>11, <1>12, <1>13
       DEF Next, TargetSteps, WorkerSteps, UserSteps, vars

(* The initial state is well typed.                                        *)
LEMMA InitTypeOK == Init => TypeOK
  <1> SUFFICES ASSUME Init PROVE TypeOK
    OBVIOUS
  <1>0. 0 \in Versions /\ 0 \in Tokens
    BY ConstantsAssumption DEF Versions, Tokens
  <1>1. NewCallback(0) \in Callback
    BY <1>0 DEF NewCallback, Callback
  <1>2. NotifierTypeOK
    <2>1. m_callbacks \in Seq(Callback) /\ Len(m_callbacks) = 1
      BY <1>1 DEF Init
    <2>2. m_callback_index \in 0..SizeMax /\ m_callback_count \in 0..SizeMax
      BY ConstantsAssumption DEF Init, npos
    <2>3. m_next_token = 1 /\ m_next_token \in 0..MaxToken
      BY ConstantsAssumption DEF Init
    <2>4. /\ m_have_callbacks \in BOOLEAN /\ m_error \in BOOLEAN
          /\ m_realm \in BOOLEAN /\ m_has_run \in BOOLEAN
          /\ m_sg_version \in Versions
      BY <1>0 DEF Init
    <2> QED BY <2>1, <2>2, <2>3, <2>4 DEF NotifierTypeOK
  <1>3. TargetTypeOK
    BY <1>0 DEF Init, TargetTypeOK
  <1>4. CoordinatorTypeOK
    BY <1>0 DEF Init, CoordinatorTypeOK
  <1>5. HistoryTypeOK
    BY <1>0, ConstantsAssumption DEF Init, HistoryTypeOK
  <1> QED BY <1>2, <1>3, <1>4, <1>5 DEF TypeOK

(* Type correctness, for every instance: no operation of the notifier, the *)
(* target thread or the worker leaves a field outside its range.  In       *)
(* particular the size_t arithmetic of remove_callback() wraps only as     *)
(* Decr() says.                                                            *)
THEOREM TypeCorrect == Spec => []TypeOK
  <1>1. Init => TypeOK
    BY InitTypeOK
  <1>2. TypeOK /\ [Next]_vars => TypeOK'
    BY NotifierTypeStep, TargetTypeStep, CoordinatorTypeStep, HistoryTypeStep
       DEF TypeOK
  <1> QED BY <1>1, <1>2, PTL DEF Spec

-----------------------------------------------------------------------------
(* The place of the loop.                                                  *)

(* The callbacks are in the order in which they were added, and            *)
(* m_callback_index + 1 of them (none for npos) are not behind the one     *)
(* that runs.                                                              *)
PositionInv ==
    /\ \A i, j \in 1..Len(m_callbacks) :
          i < j => m_callbacks[i].token < m_callbacks[j].token
    /\ \A i \in 1..Len(m_callbacks) : m_callbacks[i].token < m_next_token
    /\ Incr(m_callback_index) <= Len(m_callbacks)
    /\ running < m_next_token
    /\ \A i \in 1..Len(m_callbacks) :
          i <= Incr(m_callback_index) <=> m_callbacks[i].token <= running

(* Outside its loops the target thread is inside no callback.              *)
AtRest == ~Delivering => m_callback_index = npos /\ running = NoToken

(* The inductive invariant of the loop.  IndexTracksRunning alone is not   *)
(* inductive: a visit needs the order of the tokens, and add_callback()    *)
(* needs the index to lie in the vector to leave m_have_callbacks alone.   *)
LoopInv == PositionInv /\ AtRest /\ HaveCallbacksExact

(* What the types say of the numbers that PositionInv compares.            *)
LEMMA PositionNumbers ==
    ASSUME TypeOK
    PROVE  /\ Len(m_callbacks) \in Nat /\ Len(m_callbacks) < SizeMax
           /\ \A i \in 1..Len(m_callbacks) : m_callbacks[i].token \in Nat
           /\ Incr(m_callback_index) \in Nat /\ Incr(npos) = 0
           /\ m_next_token \in Nat /\ running \in Int
  <1>1. Len(m_callbacks) \in Nat /\ Len(m_callbacks) < SizeMax
    BY ConstantsAssumption DEF TypeOK, NotifierTypeOK
  <1>2. Tokens \subseteq Nat
    BY ConstantsAssumption DEF Tokens
  <1>3. ASSUME NEW i \in 1..Len(m_callbacks)
        PROVE  m_callbacks[i].token \in Nat
    <2>1. m_callbacks[i] \in Callback
      BY DEF TypeOK, NotifierTypeOK
    <2> QED BY <1>2, <2>1 DEF Callback
  <1>4. Incr(m_callback_index) \in Nat /\ Incr(npos) = 0
    BY ConstantsAssumption DEF TypeOK, NotifierTypeOK, Incr, npos
  <1>5. m_next_token \in Nat /\ running \in Int
    BY <1>2, ConstantsAssumption
       DEF TypeOK, NotifierTypeOK, TargetTypeOK, NoToken
  <1> QED BY <1>1, <1>3, <1>4, <1>5

(* A step that leaves the vector alone keeps the tokens.                   *)
LEMMA UnchangedKeepsTokens ==
    ASSUME TypeOK, UNCHANGED m_callbacks
    PROVE  KeepsTokens
  BY DEF TypeOK, NotifierTypeOK, KeepsTokens

(* A step that moves nothing.                                              *)
LEMMA KeepPosition ==
    ASSUME TypeOK, PositionInv, KeepsTokens,
           UNCHANGED <<m_callback_index, m_next_token, running>>
    PROVE  PositionInv'
  <1>1. /\ Len(m_callbacks') = Len(m_callbacks)
        /\ \A i \in 1..Len(m_callbacks) :
              m_callbacks'[i].token = m_callbacks[i].token
    BY DEF KeepsTokens
  <1>2. Incr(m_callback_index') = Incr(m_callback_index)
    BY DEF Incr
  <1> QED BY <1>1, <1>2, PositionNumbers DEF PositionInv

(* A step that enters the callback at offset i.                            *)
LEMMA VisitPosition ==
    ASSUME TypeOK, PositionInv, KeepsTokens, NEW i \in Remaining,
           m_callback_index' = i, running' = m_callbacks[i + 1].token,
           UNCHANGED m_next_token
    PROVE  PositionInv'
  <1>1. i + 1 \in 1..Len(m_callbacks) /\ i \in Nat /\ i < SizeMax
    BY RemainingInRange DEF TypeOK
  <1>2. Incr(m_callback_index') = i + 1
    BY <1>1, ConstantsAssumption DEF Incr
  <1>3. /\ Len(m_callbacks') = Len(m_callbacks)
        /\ \A k \in 1..Len(m_callbacks) :
              m_callbacks'[k].token = m_callbacks[k].token
    BY DEF KeepsTokens
  <1>4. \A k \in 1..Len(m_callbacks) :
           k <= i + 1 <=> m_callbacks[k].token <= m_callbacks[i + 1].token
    BY <1>1, PositionNumbers DEF PositionInv
  <1>5. \A k \in 1..Len(m_callbacks') :
           k <= Incr(m_callback_index') <=> m_callbacks'[k].token <= running'
    BY <1>1, <1>2, <1>3, <1>4
  <1>6. running' < m_next_token' /\ Incr(m_callback_index') <= Len(m_callbacks')
    BY <1>1, <1>2, <1>3 DEF PositionInv
  <1>7. /\ \A k, j \in 1..Len(m_callbacks') :
              k < j => m_callbacks'[k].token < m_callbacks'[j].token
        /\ \A k \in 1..Len(m_callbacks') : m_callbacks'[k].token < m_next_token'
    BY <1>3 DEF PositionInv
  <1> QED BY <1>5, <1>6, <1>7 DEF PositionInv

(* A step that leaves a loop.                                              *)
LEMMA RestPosition ==
    ASSUME TypeOK, PositionInv, KeepsTokens,
           m_callback_index' = npos, running' = NoToken,
           UNCHANGED m_next_token
    PROVE  PositionInv'
  <1>1. /\ Len(m_callbacks') = Len(m_callbacks)
        /\ \A i \in 1..Len(m_callbacks) :
              m_callbacks'[i].token = m_callbacks[i].token
    BY DEF KeepsTokens
  <1>2. Incr(m_callback_index') = 0
    BY DEF Incr, npos
  <1>3. \A k \in 1..Len(m_callbacks') :
           k <= Incr(m_callback_index') <=> m_callbacks'[k].token <= running'
    BY <1>1, <1>2, PositionNumbers DEF NoToken
  <1>4. running' < m_next_token' /\ Incr(m_callback_index') <= Len(m_callbacks')
    BY <1>1, <1>2, PositionNumbers DEF NoToken
  <1>5. /\ \A k, j \in 1..Len(m_callbacks') :
              k < j => m_callbacks'[k].token < m_callbacks'[j].token
        /\ \A k \in 1..Len(m_callbacks') : m_callbacks'[k].token < m_next_token'
    BY <1>1 DEF PositionInv
  <1> QED BY <1>3, <1>4, <1>5 DEF PositionInv

(* add_callback() puts the newest token behind the others.                 *)
LEMMA AppendPosition ==
    ASSUME TypeOK, PositionInv, AddCallback
    PROVE  PositionInv'
  <1>1. NewCallback(m_next_token) \in Callback
    BY ConstantsAssumption
       DEF AddCallback, NewCallback, Callback, TypeOK, NotifierTypeOK, Tokens
  <1>2. /\ Len(m_callbacks') = Len(m_callbacks) + 1
        /\ \A i \in 1..Len(m_callbacks) : m_callbacks'[i] = m_callbacks[i]
        /\ m_callbacks'[Len(m_callbacks) + 1].token = m_next_token
    BY <1>1 DEF AddCallback, NewCallback, TypeOK, NotifierTypeOK
  <1>3. /\ UNCHANGED running /\ m_next_token' = m_next_token + 1
        /\ Incr(m_callback_index') = Incr(m_callback_index)
    BY DEF AddCallback, targetVars, loopVars, Incr
  <1>4. \A k \in 1..Len(m_callbacks') :
           \/ k \in 1..Len(m_callbacks) /\ m_callbacks'[k] = m_callbacks[k]
           \/ k = Len(m_callbacks) + 1 /\ m_callbacks'[k].token = m_next_token
    BY <1>2, PositionNumbers
  <1>5. \A k \in 1..Len(m_callbacks') :
           k <= Incr(m_callback_index') <=> m_callbacks'[k].token <= running'
    BY <1>2, <1>3, <1>4, PositionNumbers DEF PositionInv
  <1>6. running' < m_next_token' /\ Incr(m_callback_index') <= Len(m_callbacks')
    BY <1>2, <1>3, PositionNumbers DEF PositionInv
  <1>7. \A k \in 1..Len(m_callbacks') : m_callbacks'[k].token < m_next_token'
    BY <1>3, <1>4, PositionNumbers DEF PositionInv
  <1>8. \A k, j \in 1..Len(m_callbacks') :
           k < j => m_callbacks'[k].token < m_callbacks'[j].token
    BY <1>4, PositionNumbers DEF PositionInv
  <1> QED BY <1>5, <1>6, <1>7, <1>8 DEF PositionInv

(* Where IndexAfterErase() puts the index: one lower if the erased         *)
(* callback was the one that runs or stood before it.                      *)
LEMMA IndexAfterEraseProperties ==
    ASSUME TypeOK, NEW i \in 1..Len(m_callbacks),
           m_callback_index' = IndexAfterErase(i - 1)
    PROVE  Incr(m_callback_index') =
              IF i <= Incr(m_callback_index) THEN Incr(m_callback_index) - 1
                                             ELSE Incr(m_callback_index)
  <1>1. m_callback_index \in 0..SizeMax /\ i \in Nat /\ i > 0
    BY PositionNumbers DEF TypeOK, NotifierTypeOK
  <1> QED BY <1>1, ConstantsAssumption DEF IndexAfterErase, Incr, Decr, npos

(* remove_callback() keeps the loop on its place.                          *)
LEMMA ErasePosition ==
    ASSUME TypeOK, PositionInv, NEW t, remove_callback(t),
           UNCHANGED <<m_next_token, running>>
    PROVE  PositionInv'
  <1>1. CASE ~Present(t)
    <2>1. UNCHANGED <<m_callbacks, m_callback_index>>
      BY <1>1 DEF remove_callback
    <2> QED BY <2>1, UnchangedKeepsTokens, KeepPosition
  <1>2. CASE Present(t)
    <2>1. PICK i \in 1..Len(m_callbacks) :
              /\ m_callback_index' = IndexAfterErase(i - 1)
              /\ Len(m_callbacks') = Len(m_callbacks) - 1
              /\ \A k \in 1..(Len(m_callbacks) - 1) : m_callbacks'[k] =
                    IF k < i THEN m_callbacks[k] ELSE m_callbacks[k + 1]
      BY <1>2, RemoveErases DEF TypeOK
    <2>2. Incr(m_callback_index') =
             IF i <= Incr(m_callback_index) THEN Incr(m_callback_index) - 1
                                            ELSE Incr(m_callback_index)
      BY <2>1, IndexAfterEraseProperties
    <2> DEFINE old(k) == IF k < i THEN k ELSE k + 1
    <2>3. \A k \in 1..Len(m_callbacks') :
             /\ old(k) \in 1..Len(m_callbacks)
             /\ m_callbacks'[k] = m_callbacks[old(k)]
      BY <2>1, PositionNumbers
    <2>4. \A k, j \in 1..Len(m_callbacks') : k < j => old(k) < old(j)
      BY <2>1, PositionNumbers
    <2>5. \A k \in 1..Len(m_callbacks') :
             k <= Incr(m_callback_index') <=> old(k) <= Incr(m_callback_index)
      BY <2>1, <2>2, PositionNumbers
    <2> HIDE DEF old
    <2>6. \A k, j \in 1..Len(m_callbacks') :
             k < j => m_callbacks'[k].token < m_callbacks'[j].token
      BY <2>3, <2>4 DEF PositionInv
    <2>7. \A k \in 1..Len(m_callbacks') : m_callbacks'[k].token < m_next_token
      BY <2>3 DEF PositionInv
    <2>8. \A k \in 1..Len(m_callbacks') :
             k <= Incr(m_callback_index') <=> m_callbacks'[k].token <= running
      BY <2>3, <2>5 DEF PositionInv
    <2>9. Incr(m_callback_index') <= Len(m_callbacks')
      BY <2>1, <2>2, PositionNumbers DEF PositionInv
    <2> QED BY <2>6, <2>7, <2>8, <2>9 DEF PositionInv
  <1> QED BY <1>1, <1>2

(* The loop's position survives every step.                                *)
LEMMA PositionStep ==
    ASSUME TypeOK, PositionInv, AtRest, [Next]_vars
    PROVE  PositionInv'
  <1>1. CASE UNCHANGED <<m_callbacks, m_callback_index, m_next_token, running>>
    BY <1>1, UnchangedKeepsTokens, KeepPosition
  <1>2. CASE NotifyPackage
    BY <1>2, PackageKeepsTokens, KeepPosition
       DEF NotifyPackage, TypeOK, NotifierTypeOK
  <1>3. CASE PackageAfterWait
    <2>1. CASE m_has_run
      BY <1>3, <2>1, PackageKeepsTokens, KeepPosition
         DEF PackageAfterWait, TypeOK, NotifierTypeOK
    <2>2. CASE ~m_has_run
      BY <1>1, <1>3, <2>2 DEF PackageAfterWait
    <2> QED BY <2>1, <2>2
  <1>4. ASSUME NEW i, BeforeAdvance(i) \/ DeliverError(i)
        PROVE  PositionInv'
    <2>1. /\ i \in Remaining /\ m_callback_index' = i
          /\ running' = m_callbacks[i + 1].token
          /\ UNCHANGED <<m_callbacks, m_next_token>>
      BY <1>4 DEF BeforeAdvance, DeliverError, IsNext
    <2> QED BY <2>1, UnchangedKeepsTokens, VisitPosition
  <1>5. ASSUME NEW i, AfterAdvance(i)
        PROVE  PositionInv'
    <2>1. /\ i \in Remaining /\ m_callback_index' = i
          /\ running' = m_callbacks[i + 1].token /\ UNCHANGED m_next_token
      BY <1>5 DEF AfterAdvance, IsNext
    <2>2. KeepsTokens
      BY <1>5, AfterKeepsTokens DEF TypeOK
    <2> QED BY <2>1, <2>2, VisitPosition
  <1>6. CASE BeforeAdvanceDone \/ AfterAdvanceDone \/ DeliverErrorDone
    <2>1. /\ m_callback_index' = npos /\ running' = NoToken
          /\ UNCHANGED <<m_callbacks, m_next_token>>
      BY <1>6 DEF BeforeAdvanceDone, AfterAdvanceDone, DeliverErrorDone
    <2> QED BY <2>1, UnchangedKeepsTokens, RestPosition
  <1>7. CASE ErrorRemove
    BY <1>7, ErasePosition DEF ErrorRemove
  <1>8. ASSUME NEW t, ReleaseToken(t)
        PROVE  PositionInv'
    BY <1>8, ErasePosition DEF ReleaseToken, targetVars
  <1>9. CASE WorkerSkip \/ WorkerRun
    <2>1. KeepsTokens
      BY <1>9, HandoverKeepsTokens
         DEF WorkerSkip, WorkerRun, TypeOK, NotifierTypeOK, CoordinatorTypeOK
    <2>2. UNCHANGED <<m_callback_index, m_next_token, running>>
      BY <1>9 DEF WorkerSkip, WorkerRun, loopVars, targetVars
    <2> QED BY <2>1, <2>2, KeepPosition
  <1>10. CASE AddCallback
    BY <1>10, AppendPosition
  <1>11. ASSUME NEW t, SuppressNext(t)
         PROVE  PositionInv'
    BY <1>11, SuppressKeepsTokens, KeepPosition
       DEF SuppressNext, TypeOK, NotifierTypeOK, loopVars, targetVars
  <1>12. CASE \/ NotifyNothing \/ deliver_error \/ ErrorCount
              \/ WaitForNotifiers \/ WorkerStopsEarly \/ WorkerStart
              \/ Unregister \/ BeginWait \/ BeginWriteInCallback
              \/ CommitWrite \/ CancelWrite \/ CommitElsewhere
    BY <1>1, <1>12
       DEF NotifyNothing, deliver_error, ErrorCount, WaitForNotifiers,
           WorkerStopsEarly, WorkerStart, Unregister, BeginWait,
           BeginWriteInCallback, CommitWrite, CancelWrite, CommitElsewhere,
           notifierVars, loopVars, targetVars
  <1>13. CASE UNCHANGED vars
    BY <1>1, <1>13 DEF vars, notifierVars, loopVars, targetVars
  <1> QED
    BY <1>2, <1>3, <1>4, <1>5, <1>6, <1>7, <1>8, <1>9, <1>10, <1>11, <1>12,
       <1>13 DEF Next, TargetSteps, WorkerSteps, UserSteps

(* A loop is left only at its end, and entered only from rest.             *)
LEMMA AtRestStep ==
    ASSUME TypeOK, AtRest, PositionInv, [Next]_vars
    PROVE  AtRest'
  <1>1. ASSUME UNCHANGED <<m_callback_index, running>>, Delivering => Delivering'
        PROVE  AtRest'
    BY <1>1 DEF AtRest, Delivering
  <1>2. CASE NotifyPackage \/ PackageAfterWait \/ NotifyNothing
    BY <1>2, <1>1 DEF NotifyPackage, PackageAfterWait, NotifyNothing,
                      notifierVars, loopVars, Delivering, Loops
  <1>3. CASE deliver_error \/ ErrorCount
    BY <1>3, <1>1 DEF deliver_error, ErrorCount, loopVars, Delivering, Loops
  <1>4. CASE WaitForNotifiers \/ BeginWait
    BY <1>4, <1>1
       DEF WaitForNotifiers, BeginWait, notifierVars, loopVars, Delivering, Loops
  <1>5. ASSUME NEW i, BeforeAdvance(i) \/ AfterAdvance(i) \/ DeliverError(i)
        PROVE  AtRest'
    BY <1>5 DEF BeforeAdvance, AfterAdvance, DeliverError, AtRest, Delivering, Loops
  <1>6. CASE BeforeAdvanceDone \/ AfterAdvanceDone \/ DeliverErrorDone
    BY <1>6 DEF BeforeAdvanceDone, AfterAdvanceDone, DeliverErrorDone, AtRest
  <1>7. CASE ErrorRemove
    BY <1>7 DEF ErrorRemove, AtRest, Delivering, Loops
  <1>8. ASSUME NEW t, ReleaseToken(t)
        PROVE  AtRest'
    <2>1. m_callback_index = npos => m_callback_index' = npos
      BY <1>8 DEF ReleaseToken, remove_callback, IndexAfterErase
    <2> QED BY <1>8, <2>1 DEF ReleaseToken, targetVars, AtRest, Delivering
  <1>9. CASE WorkerSkip \/ WorkerRun
    BY <1>9, <1>1
       DEF WorkerSkip, WorkerRun, NotifyWaiters, loopVars, targetVars,
           Delivering, Loops
  <1>10. CASE UNCHANGED <<m_callback_index, running, phase>>
    BY <1>10, <1>1 DEF Delivering
  <1>11. ASSUME NEW t, SuppressNext(t)
         PROVE  AtRest'
    BY <1>10, <1>11 DEF SuppressNext, loopVars, targetVars
  <1>12. CASE \/ WorkerStopsEarly \/ WorkerStart \/ Unregister \/ AddCallback
              \/ BeginWriteInCallback \/ CommitWrite \/ CancelWrite
              \/ CommitElsewhere
    BY <1>10, <1>12
       DEF WorkerStopsEarly, WorkerStart, Unregister, AddCallback,
           BeginWriteInCallback, CommitWrite, CancelWrite, CommitElsewhere,
           notifierVars, loopVars, targetVars
  <1>13. CASE UNCHANGED vars
    BY <1>10, <1>13 DEF vars, notifierVars, loopVars, targetVars
  <1> QED
    BY <1>2, <1>3, <1>4, <1>5, <1>6, <1>7, <1>8, <1>9, <1>11, <1>12, <1>13
       DEF Next, TargetSteps, WorkerSteps, UserSteps

(* The flag stays exact.                                                   *)
LEMMA HaveCallbacksStep ==
    ASSUME TypeOK, HaveCallbacksExact, PositionInv, [Next]_vars
    PROVE  HaveCallbacksExact'
  <1>0. m_callbacks = <<>> <=> Len(m_callbacks) = 0
    BY DEF TypeOK, NotifierTypeOK
  <1>1. ASSUME KeepsTokens, UNCHANGED m_have_callbacks
        PROVE  HaveCallbacksExact'
    <2>1. m_callbacks' = <<>> <=> Len(m_callbacks') = 0
      BY <1>1 DEF KeepsTokens
    <2> QED BY <1>0, <1>1, <2>1 DEF KeepsTokens, HaveCallbacksExact
  <1>2. CASE UNCHANGED <<m_callbacks, m_have_callbacks>>
    BY <1>2 DEF HaveCallbacksExact
  <1>3. CASE NotifyPackage
    BY <1>1, <1>3, PackageKeepsTokens DEF NotifyPackage, TypeOK, NotifierTypeOK
  <1>4. CASE PackageAfterWait
    BY <1>1, <1>2, <1>4, PackageKeepsTokens
       DEF PackageAfterWait, TypeOK, NotifierTypeOK
  <1>5. ASSUME NEW i, AfterAdvance(i)
        PROVE  HaveCallbacksExact'
    BY <1>1, <1>5, AfterKeepsTokens DEF AfterAdvance, TypeOK
  <1>6. ASSUME NEW t, remove_callback(t)
        PROVE  HaveCallbacksExact'
    <2>1. CASE Present(t)
      <3>1. /\ m_have_callbacks' = (Len(m_callbacks) # 1)
            /\ m_callbacks' \in Seq(Callback)
            /\ Len(m_callbacks') = Len(m_callbacks) - 1
        BY <1>6, <2>1, RemoveErases DEF TypeOK
      <3>2. m_callbacks' = <<>> <=> Len(m_callbacks) = 1
        BY <3>1, PositionNumbers
      <3> QED BY <3>1, <3>2 DEF HaveCallbacksExact
    <2>2. CASE ~Present(t)
      BY <1>2, <1>6, <2>2 DEF remove_callback
    <2> QED BY <2>1, <2>2
  <1>7. CASE ErrorRemove
    BY <1>6, <1>7 DEF ErrorRemove
  <1>8. ASSUME NEW t, ReleaseToken(t)
        PROVE  HaveCallbacksExact'
    BY <1>6, <1>8 DEF ReleaseToken
  <1>9. CASE WorkerSkip \/ WorkerRun
    BY <1>1, <1>9, HandoverKeepsTokens
       DEF WorkerSkip, WorkerRun, TypeOK, NotifierTypeOK, CoordinatorTypeOK
  <1>10. CASE AddCallback
    <2>1. m_callbacks' # <<>>
      BY <1>10 DEF AddCallback, TypeOK, NotifierTypeOK
    <2>2. CASE m_callback_index = npos
      BY <1>10, <2>1, <2>2 DEF AddCallback, HaveCallbacksExact
    <2>3. CASE m_callback_index # npos
      <3>1. Incr(m_callback_index) > 0
        BY <2>3, ConstantsAssumption DEF Incr, npos, TypeOK, NotifierTypeOK
      <3>2. m_callbacks # <<>>
        BY <1>0, <3>1, PositionNumbers DEF PositionInv
      <3> QED BY <1>10, <2>1, <2>3, <3>2 DEF AddCallback, HaveCallbacksExact
    <2> QED BY <2>2, <2>3
  <1>11. ASSUME NEW t, SuppressNext(t)
         PROVE  HaveCallbacksExact'
    BY <1>1, <1>11, SuppressKeepsTokens DEF SuppressNext, TypeOK, NotifierTypeOK
  <1>12. CASE \/ NotifyNothing \/ deliver_error \/ ErrorCount
              \/ WaitForNotifiers \/ BeforeAdvanceDone \/ AfterAdvanceDone
              \/ DeliverErrorDone \/ WorkerStopsEarly \/ WorkerStart
              \/ Unregister \/ BeginWait \/ BeginWriteInCallback
              \/ CommitWrite \/ CancelWrite \/ CommitElsewhere
    BY <1>2, <1>12
       DEF NotifyNothing, deliver_error, ErrorCount, WaitForNotifiers,
           BeforeAdvanceDone, AfterAdvanceDone, DeliverErrorDone,
           WorkerStopsEarly, WorkerStart, Unregister, BeginWait,
           BeginWriteInCallback, CommitWrite, CancelWrite, CommitElsewhere,
           notifierVars
  <1>13. ASSUME NEW i, BeforeAdvance(i) \/ DeliverError(i)
         PROVE  HaveCallbacksExact'
    BY <1>2, <1>13 DEF BeforeAdvance, DeliverError
  <1>14. CASE UNCHANGED vars
    BY <1>2, <1>14 DEF vars, notifierVars
  <1> QED
    BY <1>3, <1>4, <1>5, <1>7, <1>8, <1>9, <1>10, <1>11, <1>12, <1>13, <1>14
       DEF Next, TargetSteps, WorkerSteps, UserSteps

(* LoopInv is an invariant of every behaviour.                             *)
LEMMA LoopInvariant == Spec => []LoopInv
  <1>1. Init => LoopInv
    <2> SUFFICES ASSUME Init PROVE LoopInv
      OBVIOUS
    <2>1. /\ Len(m_callbacks) = 1 /\ m_callbacks[1].token = 0
          /\ m_callbacks # <<>>
      BY DEF Init, NewCallback
    <2>2. Incr(m_callback_index) = 0
      BY DEF Init, Incr, npos
    <2>3. m_next_token = 1 /\ running = -1
      BY DEF Init, NoToken
    <2>4. PositionInv
      BY <2>1, <2>2, <2>3 DEF PositionInv
    <2> QED BY <2>1, <2>4 DEF Init, LoopInv, AtRest, HaveCallbacksExact
  <1>2. TypeOK /\ LoopInv /\ [Next]_vars => LoopInv'
    BY PositionStep, AtRestStep, HaveCallbacksStep DEF LoopInv
  <1> QED BY <1>1, <1>2, TypeCorrect, PTL DEF Spec

(* for_each_callback() never loses its place, whichever callbacks other    *)
(* threads remove, and whenever: the callbacks behind m_callback_index are *)
(* exactly those that were added after the one that runs.                  *)
THEOREM LoopKeepsItsPlace == Spec => []IndexTracksRunning
  <1>1. LoopInv => IndexTracksRunning
    BY DEF LoopInv, PositionInv, IndexTracksRunning
  <1> QED BY <1>1, LoopInvariant, PTL

(* m_have_callbacks, which the wait predicate reads without the mutex, is  *)
(* true exactly when there is a callback.                                  *)
THEOREM HaveCallbacksIsExact == Spec => []HaveCallbacksExact
  <1>1. LoopInv => HaveCallbacksExact
    BY DEF LoopInv
  <1> QED BY <1>1, LoopInvariant, PTL

-----------------------------------------------------------------------------
(* The number of callbacks the loop may visit.                             *)

(* The packaged callbacks come first, and the one that runs is packaged.   *)
PackagedInv ==
    Delivering =>
        /\ m_callback_count \in Nat /\ m_callback_count <= Len(m_callbacks)
        /\ \A i \in 1..Len(m_callbacks) :
              i <= m_callback_count <=> m_callbacks[i].token < packagedBelow
        /\ running < packagedBelow

(* With it, what deliver_error() read is still right when it is stored.    *)
CountInv ==
    /\ PackagedInv
    /\ phase = "errorCount" => local = Len(m_callbacks)
    /\ packagedBelow <= m_next_token

(* A step that changes neither the tokens nor what was packaged.           *)
LEMMA KeepPackaged ==
    ASSUME TypeOK, PackagedInv, KeepsTokens, Delivering' => Delivering,
           UNCHANGED <<m_callback_count, packagedBelow, running>>
    PROVE  PackagedInv'
  <1>1. /\ Len(m_callbacks') = Len(m_callbacks)
        /\ \A i \in 1..Len(m_callbacks) :
              m_callbacks'[i].token = m_callbacks[i].token
    BY DEF KeepsTokens
  <1> QED BY <1>1 DEF PackagedInv, Delivering

(* A step that packages all callbacks.                                     *)
LEMMA PackageAll ==
    ASSUME TypeOK, LoopInv, KeepsTokens, ~Delivering, UNCHANGED running,
           m_callback_count' = Len(m_callbacks), packagedBelow' = m_next_token
    PROVE  PackagedInv'
  <1>1. /\ Len(m_callbacks') = Len(m_callbacks)
        /\ \A i \in 1..Len(m_callbacks) :
              m_callbacks'[i].token = m_callbacks[i].token
    BY DEF KeepsTokens
  <1>2. \A i \in 1..Len(m_callbacks) : m_callbacks[i].token < m_next_token
    BY DEF LoopInv, PositionInv
  <1>3. running' < packagedBelow'
    BY PositionNumbers DEF LoopInv, PositionInv
  <1> QED BY <1>1, <1>2, <1>3, PositionNumbers DEF PackagedInv

(* A step of the loop to the callback at offset i.                         *)
LEMMA VisitPackaged ==
    ASSUME TypeOK, PackagedInv, KeepsTokens, Delivering, NEW i \in Remaining,
           running' = m_callbacks[i + 1].token,
           UNCHANGED <<m_callback_count, packagedBelow>>
    PROVE  PackagedInv'
  <1>1. i + 1 \in 1..Len(m_callbacks) /\ i \in Nat /\ i < m_callback_count
    BY RemainingInRange DEF TypeOK, Remaining
  <1>2. running' < packagedBelow
    <2>1. m_callback_count \in Nat
      BY DEF PackagedInv
    <2>2. i + 1 <= m_callback_count
      BY <1>1, <2>1
    <2> QED BY <1>1, <2>2 DEF PackagedInv
  <1>3. /\ Len(m_callbacks') = Len(m_callbacks)
        /\ \A k \in 1..Len(m_callbacks) :
              m_callbacks'[k].token = m_callbacks[k].token
    BY DEF KeepsTokens
  <1> QED BY <1>2, <1>3 DEF PackagedInv

(* remove_callback() of a packaged callback takes one off the count.       *)
LEMMA ErasePackaged ==
    ASSUME TypeOK, PackagedInv, NEW t, remove_callback(t),
           UNCHANGED <<packagedBelow, running>>,
           Delivering' => Delivering /\ (Present(t) => t < packagedBelow)
    PROVE  PackagedInv'
  <1>1. SUFFICES ASSUME Delivering' PROVE PackagedInv'
    BY DEF PackagedInv
  <1>2. CASE ~Present(t)
    <2>1. UNCHANGED <<m_callbacks, m_callback_count>>
      BY <1>2 DEF remove_callback
    <2> QED BY <1>1, <2>1, UnchangedKeepsTokens, KeepPackaged
  <1>3. CASE Present(t)
    <2>1. PICK i \in 1..Len(m_callbacks) :
              /\ m_callbacks[i].token = t
              /\ m_callback_count' = Decr(m_callback_count)
              /\ Len(m_callbacks') = Len(m_callbacks) - 1
              /\ \A k \in 1..(Len(m_callbacks) - 1) : m_callbacks'[k] =
                    IF k < i THEN m_callbacks[k] ELSE m_callbacks[k + 1]
      BY <1>3, RemoveErases DEF TypeOK
    <2>2. m_callback_count \in Nat /\ m_callback_count <= Len(m_callbacks)
      BY <1>1 DEF PackagedInv
    <2>3. i <= m_callback_count
      BY <1>1, <1>3, <2>1 DEF PackagedInv
    <2>4. m_callback_count' = m_callback_count - 1
      BY <2>1, <2>2, <2>3 DEF Decr
    <2> DEFINE old(k) == IF k < i THEN k ELSE k + 1
    <2>5. \A k \in 1..Len(m_callbacks') :
             /\ old(k) \in 1..Len(m_callbacks)
             /\ m_callbacks'[k] = m_callbacks[old(k)]
      BY <2>1, PositionNumbers
    <2>6. \A k \in 1..Len(m_callbacks') :
             k <= m_callback_count' <=> old(k) <= m_callback_count
      BY <2>1, <2>2, <2>3, <2>4, PositionNumbers
    <2> HIDE DEF old
    <2>7. \A k \in 1..Len(m_callbacks') :
             k <= m_callback_count' <=> m_callbacks'[k].token < packagedBelow
      BY <1>1, <2>5, <2>6 DEF PackagedInv
    <2>8. m_callback_count' \in Nat /\ m_callback_count' <= Len(m_callbacks')
      BY <2>1, <2>2, <2>3, <2>4, PositionNumbers
    <2>9. running' < packagedBelow'
      BY <1>1 DEF PackagedInv
    <2> QED BY <2>7, <2>8, <2>9 DEF PackagedInv
  <1> QED BY <1>2, <1>3

(* add_callback() puts its callback behind the packaged ones.              *)
LEMMA AppendPackaged ==
    ASSUME TypeOK, PackagedInv, packagedBelow <= m_next_token, AddCallback
    PROVE  PackagedInv'
  <1>1. SUFFICES ASSUME Delivering PROVE PackagedInv'
    BY DEF PackagedInv, AddCallback, targetVars, Delivering
  <1>2. NewCallback(m_next_token) \in Callback
    BY ConstantsAssumption
       DEF AddCallback, NewCallback, Callback, TypeOK, NotifierTypeOK, Tokens
  <1>3. /\ Len(m_callbacks') = Len(m_callbacks) + 1
        /\ \A i \in 1..Len(m_callbacks) : m_callbacks'[i] = m_callbacks[i]
        /\ m_callbacks'[Len(m_callbacks) + 1].token = m_next_token
    BY <1>2 DEF AddCallback, NewCallback, TypeOK, NotifierTypeOK
  <1>4. \A k \in 1..Len(m_callbacks') :
           \/ k \in 1..Len(m_callbacks) /\ m_callbacks'[k] = m_callbacks[k]
           \/ k = Len(m_callbacks) + 1 /\ m_callbacks'[k].token = m_next_token
    BY <1>3, PositionNumbers
  <1>5. UNCHANGED <<m_callback_count, packagedBelow, running>>
    BY DEF AddCallback, loopVars, targetVars
  <1>6. /\ m_callback_count \in Nat /\ m_callback_count <= Len(m_callbacks)
        /\ running < packagedBelow
        /\ \A i \in 1..Len(m_callbacks) :
              i <= m_callback_count <=> m_callbacks[i].token < packagedBelow
    BY <1>1 DEF PackagedInv
  <1>7. packagedBelow \in Nat
    BY DEF TypeOK, HistoryTypeOK
  <1>8. \A k \in 1..Len(m_callbacks') :
           k <= m_callback_count' <=> m_callbacks'[k].token < packagedBelow'
    BY <1>4, <1>5, <1>6, <1>7, PositionNumbers
  <1> QED BY <1>3, <1>5, <1>6, <1>8, PositionNumbers DEF PackagedInv

(* The environment that the comment on m_callback_count has in mind: a     *)
(* token made during a delivery outlives it, and no token is dropped while *)
(* deliver_error() counts.                                                 *)
OrderlyRelease == Allowed \cap {"lateRelease", "racyError"} = {}

(* CountInv survives every step of that environment, and every step        *)
(* outside deliver_error() if only the first is kept to.                   *)
LEMMA CountStep ==
    ASSUME "lateRelease" \notin Allowed,
           phase = "errorCount" => "racyError" \notin Allowed,
           TypeOK, LoopInv, CountInv, [Next]_vars
    PROVE  CountInv'
  <1> USE DEF CountInv
  <1>1. CASE UNCHANGED <<m_callbacks, m_callback_count, m_next_token,
                         packagedBelow, running, phase, local>>
    BY <1>1, UnchangedKeepsTokens, KeepPackaged DEF Delivering
  <1>2. ASSUME UNCHANGED <<m_callbacks, m_callback_count, m_next_token,
                           packagedBelow, running>>,
               phase' \in {"idle", "check", "waiting"}
        PROVE  CountInv'
    BY <1>2 DEF PackagedInv, Delivering, Loops
  <1>3. CASE NotifyPackage
    <2>1. KeepsTokens
      BY <1>3, PackageKeepsTokens DEF NotifyPackage, TypeOK, NotifierTypeOK
    <2>2. PackagedInv'
      BY <1>3, <2>1, PackageAll
         DEF NotifyPackage, package_for_delivery, Delivering, Loops
    <2>3. phase' # "errorCount" /\ packagedBelow' <= m_next_token'
      BY <1>3, PositionNumbers DEF NotifyPackage, package_for_delivery
    <2> QED BY <2>2, <2>3
  <1>4. CASE PackageAfterWait
    <2>1. CASE m_has_run
      <3>1. KeepsTokens
        BY <1>4, <2>1, PackageKeepsTokens
           DEF PackageAfterWait, TypeOK, NotifierTypeOK
      <3>2. PackagedInv'
        BY <1>4, <2>1, <3>1, PackageAll
           DEF PackageAfterWait, package_for_delivery, Delivering, Loops
      <3>3. phase' # "errorCount" /\ packagedBelow' <= m_next_token'
        BY <1>4, <2>1, PositionNumbers DEF PackageAfterWait, package_for_delivery
      <3> QED BY <3>2, <3>3
    <2>2. CASE ~m_has_run
      BY <1>2, <1>4, <2>2 DEF PackageAfterWait
    <2> QED BY <2>1, <2>2
  <1>5. CASE deliver_error
    BY <1>5 DEF deliver_error, loopVars, historyVars, PackagedInv, Delivering, Loops
  <1>6. CASE ErrorCount
    <2>1. KeepsTokens
      BY <1>6, UnchangedKeepsTokens DEF ErrorCount
    <2>2. PackagedInv'
      BY <1>6, <2>1, PackageAll DEF ErrorCount, Delivering, Loops
    <2> QED BY <1>6, <2>2, PositionNumbers DEF ErrorCount
  <1>7. ASSUME NEW i, BeforeAdvance(i) \/ DeliverError(i)
        PROVE  CountInv'
    <2>1. /\ i \in Remaining /\ running' = m_callbacks[i + 1].token
          /\ UNCHANGED <<m_callbacks, m_callback_count, packagedBelow, m_next_token>>
          /\ Delivering /\ phase' # "errorCount"
      BY <1>7 DEF BeforeAdvance, DeliverError, IsNext, historyVars, Delivering, Loops
    <2> QED BY <2>1, UnchangedKeepsTokens, VisitPackaged
  <1>8. ASSUME NEW i, AfterAdvance(i)
        PROVE  CountInv'
    <2>1. /\ i \in Remaining /\ running' = m_callbacks[i + 1].token
          /\ UNCHANGED <<m_callback_count, packagedBelow, m_next_token>>
          /\ Delivering /\ phase' # "errorCount"
      BY <1>8 DEF AfterAdvance, IsNext, Delivering, Loops
    <2>2. KeepsTokens
      BY <1>8, AfterKeepsTokens DEF TypeOK
    <2> QED BY <2>1, <2>2, VisitPackaged
  <1>9. CASE BeforeAdvanceDone
    <2>1. /\ UNCHANGED <<m_callbacks, m_callback_count, packagedBelow, m_next_token>>
          /\ running' = -1 /\ phase = "before" /\ phase' = "after"
      BY <1>9 DEF BeforeAdvanceDone, historyVars, NoToken
    <2>2. running' < packagedBelow'
      BY <2>1 DEF TypeOK, HistoryTypeOK
    <2> QED BY <2>1, <2>2 DEF PackagedInv, Delivering, Loops
  <1>10. CASE AfterAdvanceDone \/ DeliverErrorDone
    BY <1>10 DEF AfterAdvanceDone, DeliverErrorDone, historyVars, PackagedInv,
                 Delivering, Loops
  <1>11. CASE ErrorRemove
    <2>1. /\ remove_callback(running) /\ Delivering /\ phase' # "errorCount"
          /\ UNCHANGED <<packagedBelow, running, m_next_token>>
      BY <1>11 DEF ErrorRemove, Delivering, Loops
    <2>2. running < packagedBelow
      BY <2>1 DEF PackagedInv
    <2> QED BY <2>1, <2>2, ErasePackaged
  <1>12. ASSUME NEW t, ReleaseToken(t)
         PROVE  CountInv'
    <2>1. /\ remove_callback(t) /\ phase # "errorCount" /\ UNCHANGED phase
          /\ UNCHANGED <<packagedBelow, running, m_next_token>>
          /\ Delivering => ~(t >= packagedBelow)
      BY <1>12 DEF ReleaseToken, targetVars
    <2>2. Present(t) => t \in Nat
      BY PositionNumbers DEF Present
    <2>3. Delivering /\ Present(t) => t < packagedBelow
      BY <2>1, <2>2 DEF TypeOK, HistoryTypeOK
    <2> QED BY <2>1, <2>3, ErasePackaged DEF Delivering
  <1>13. CASE WorkerSkip \/ WorkerRun
    <2>1. KeepsTokens
      BY <1>13, HandoverKeepsTokens
         DEF WorkerSkip, WorkerRun, TypeOK, NotifierTypeOK, CoordinatorTypeOK
    <2>2. /\ UNCHANGED <<m_callback_count, packagedBelow, running, m_next_token, local>>
          /\ Delivering' => Delivering
          /\ phase' = "errorCount" => phase = "errorCount"
      BY <1>13 DEF WorkerSkip, WorkerRun, NotifyWaiters, loopVars, targetVars,
                   Delivering, Loops
    <2> QED BY <2>1, <2>2, KeepPackaged DEF KeepsTokens
  <1>14. CASE AddCallback
    <2>1. PackagedInv'
      BY <1>14, AppendPackaged
    <2>2. phase' # "errorCount"
      BY <1>14 DEF AddCallback, InUserCode, targetVars
    <2>3. packagedBelow' <= m_next_token'
      BY <1>14, PositionNumbers DEF AddCallback, TypeOK, HistoryTypeOK
    <2> QED BY <2>1, <2>2, <2>3
  <1>15. ASSUME NEW t, SuppressNext(t)
         PROVE  CountInv'
    <2>1. KeepsTokens
      BY <1>15, SuppressKeepsTokens DEF TypeOK, NotifierTypeOK
    <2>2. UNCHANGED <<m_callback_count, packagedBelow, running, m_next_token,
                      local, phase>>
      BY <1>15 DEF SuppressNext, loopVars, targetVars
    <2> QED BY <2>1, <2>2, KeepPackaged DEF KeepsTokens, Delivering
  <1>16. CASE WaitForNotifiers \/ BeginWait
    BY <1>1, <1>2, <1>16
       DEF WaitForNotifiers, BeginWait, notifierVars, loopVars, historyVars
  <1>17. CASE \/ NotifyNothing \/ WorkerStopsEarly \/ WorkerStart \/ Unregister
              \/ BeginWriteInCallback \/ CommitWrite \/ CancelWrite
              \/ CommitElsewhere
    BY <1>1, <1>17
       DEF NotifyNothing, WorkerStopsEarly, WorkerStart, Unregister,
           BeginWriteInCallback, CommitWrite, CancelWrite, CommitElsewhere,
           notifierVars, loopVars, targetVars, historyVars
  <1>18. CASE UNCHANGED vars
    BY <1>1, <1>18 DEF vars, notifierVars, loopVars, targetVars, historyVars
  <1> QED
    BY <1>3, <1>4, <1>5, <1>6, <1>7, <1>8, <1>9, <1>10, <1>11, <1>12, <1>13,
       <1>14, <1>15, <1>16, <1>17, <1>18
       DEF Next, TargetSteps, WorkerSteps, UserSteps

(* No delivery is under way in the initial state.                          *)
LEMMA InitCountInv == Init => CountInv
  <1> SUFFICES ASSUME Init PROVE CountInv
    OBVIOUS
  <1>1. phase = "idle" /\ packagedBelow = 0 /\ m_next_token = 1
    BY DEF Init
  <1> QED BY <1>1 DEF CountInv, PackagedInv, Delivering, Loops

(* In that environment a delivery visits the packaged callbacks that are   *)
(* still there, and only them: m_callback_count never counts a callback    *)
(* added meanwhile and never exceeds the vector.                           *)
THEOREM DeliveryVisitsThePackaged ==
    ASSUME OrderlyRelease
    PROVE  Spec => []CountIsPackaged
  <1>1. Init => CountInv
    BY InitCountInv
  <1>2. TypeOK /\ LoopInv /\ CountInv /\ [Next]_vars => CountInv'
    BY CountStep DEF OrderlyRelease
  <1>3. CountInv => CountIsPackaged
    BY DEF CountInv, PackagedInv, CountIsPackaged
  <1> QED BY <1>1, <1>2, <1>3, TypeCorrect, LoopInvariant, PTL DEF Spec

-----------------------------------------------------------------------------
(* The assertions of find_callback().                                      *)

(* Callbacks disappear behind their holders' backs only on an error.       *)
HeldInv ==
    /\ HeldTokensAreFound
    /\ phase \in {"errorCount", "error", "errorNext"} => m_error

(* A step that keeps the tokens keeps the callbacks present.               *)
LEMMA KeepPresent ==
    ASSUME TypeOK, KeepsTokens, NEW t, Present(t)
    PROVE  Present(t)'
  BY DEF KeepsTokens, Present

(* remove_callback() takes no other callback than its own.                 *)
LEMMA EraseLeavesOthers ==
    ASSUME TypeOK, PositionInv, NEW t, remove_callback(t),
           NEW u, u # t, Present(u)
    PROVE  Present(u)'
  <1>1. CASE ~Present(t)
    BY <1>1 DEF remove_callback, Present
  <1>2. CASE Present(t)
    <2>1. PICK i \in 1..Len(m_callbacks) :
              /\ m_callbacks[i].token = t
              /\ Len(m_callbacks') = Len(m_callbacks) - 1
              /\ \A k \in 1..(Len(m_callbacks) - 1) : m_callbacks'[k] =
                    IF k < i THEN m_callbacks[k] ELSE m_callbacks[k + 1]
      BY <1>2, RemoveErases DEF TypeOK
    <2>2. PICK j \in 1..Len(m_callbacks) : m_callbacks[j].token = u
      BY DEF Present
    <2> DEFINE k == IF j < i THEN j ELSE j - 1
    <2>3. j # i
      BY <2>1, <2>2
    <2>4. k \in 1..(Len(m_callbacks) - 1) /\ m_callbacks'[k] = m_callbacks[j]
      BY <2>1, <2>3, PositionNumbers
    <2> QED BY <2>1, <2>2, <2>4 DEF Present
  <1> QED BY <1>1, <1>2

(* HeldInv survives every step.                                            *)
LEMMA HeldStep ==
    ASSUME TypeOK, LoopInv, HeldInv, [Next]_vars
    PROVE  HeldInv'
  <1> USE DEF HeldInv, HeldTokensAreFound
  <1>1. ASSUME KeepsTokens, UNCHANGED <<held, m_error>>,
               phase' \in {"errorCount", "error", "errorNext"} => phase' = phase
        PROVE  HeldInv'
    BY <1>1, KeepPresent
  <1>2. ASSUME UNCHANGED <<m_callbacks, held, m_error>>,
               phase' \in {"errorCount", "error", "errorNext"} => phase' = phase
        PROVE  HeldInv'
    BY <1>1, <1>2, UnchangedKeepsTokens
  <1>3. CASE NotifyPackage
    BY <1>1, <1>3, PackageKeepsTokens DEF NotifyPackage, TypeOK, NotifierTypeOK
  <1>4. CASE PackageAfterWait
    BY <1>1, <1>2, <1>4, PackageKeepsTokens
       DEF PackageAfterWait, TypeOK, NotifierTypeOK
  <1>5. CASE deliver_error
    BY <1>5 DEF deliver_error
  <1>6. CASE ErrorCount \/ ErrorRemove
    BY <1>6 DEF ErrorCount, ErrorRemove
  <1>7. ASSUME NEW i, BeforeAdvance(i) \/ DeliverError(i)
        PROVE  HeldInv'
    BY <1>2, <1>7 DEF BeforeAdvance, DeliverError
  <1>8. ASSUME NEW i, AfterAdvance(i)
        PROVE  HeldInv'
    BY <1>1, <1>8, AfterKeepsTokens DEF AfterAdvance, TypeOK
  <1>9. ASSUME NEW t, ReleaseToken(t)
        PROVE  HeldInv'
    <2>1. \A u \in held' : u \in held /\ u # t
      BY <1>9 DEF ReleaseToken
    <2>2. remove_callback(t) /\ UNCHANGED <<m_error, phase>>
      BY <1>9 DEF ReleaseToken, targetVars
    <2> QED BY <2>1, <2>2, EraseLeavesOthers DEF LoopInv
  <1>10. CASE WorkerSkip \/ WorkerRun
    <2>1. KeepsTokens
      BY <1>10, HandoverKeepsTokens
         DEF WorkerSkip, WorkerRun, TypeOK, NotifierTypeOK, CoordinatorTypeOK
    <2> QED BY <1>1, <1>10, <2>1 DEF WorkerSkip, WorkerRun, NotifyWaiters, targetVars
  <1>11. CASE AddCallback
    <2>1. NewCallback(m_next_token) \in Callback
      BY <1>11, ConstantsAssumption
         DEF AddCallback, NewCallback, Callback, TypeOK, NotifierTypeOK, Tokens
    <2>2. /\ Len(m_callbacks') = Len(m_callbacks) + 1
          /\ \A i \in 1..Len(m_callbacks) : m_callbacks'[i] = m_callbacks[i]
          /\ m_callbacks'[Len(m_callbacks) + 1].token = m_next_token
      BY <1>11, <2>1 DEF AddCallback, NewCallback, TypeOK, NotifierTypeOK
    <2>3. ASSUME NEW u \in held', ~m_error
          PROVE  Present(u)'
      <3>1. CASE u = m_next_token
        <4>1. Len(m_callbacks) + 1 \in 1..Len(m_callbacks')
          BY <2>2, PositionNumbers
        <4> QED BY <2>2, <3>1, <4>1 DEF Present
      <3>2. CASE u \in held
        <4>1. PICK i \in 1..Len(m_callbacks) : m_callbacks[i].token = u
          BY <2>3, <3>2 DEF Present
        <4>2. i \in 1..Len(m_callbacks') /\ m_callbacks'[i].token = u
          BY <2>2, <4>1, PositionNumbers
        <4> QED BY <4>2 DEF Present
      <3> QED BY <1>11, <2>3, <3>1, <3>2 DEF AddCallback
    <2>4. UNCHANGED <<m_error, phase>>
      BY <1>11 DEF AddCallback, targetVars
    <2> QED BY <2>3, <2>4
  <1>12. ASSUME NEW t, SuppressNext(t)
         PROVE  HeldInv'
    BY <1>1, <1>12, SuppressKeepsTokens
       DEF SuppressNext, TypeOK, NotifierTypeOK, targetVars
  <1>13. CASE \/ NotifyNothing \/ WaitForNotifiers \/ BeginWait
              \/ BeforeAdvanceDone \/ AfterAdvanceDone \/ DeliverErrorDone
    BY <1>2, <1>13
       DEF NotifyNothing, WaitForNotifiers, BeginWait, BeforeAdvanceDone,
           AfterAdvanceDone, DeliverErrorDone, notifierVars
  <1>14. CASE \/ WorkerStopsEarly \/ WorkerStart \/ Unregister
              \/ BeginWriteInCallback \/ CommitWrite \/ CancelWrite
              \/ CommitElsewhere
    BY <1>2, <1>14
       DEF WorkerStopsEarly, WorkerStart, Unregister, BeginWriteInCallback,
           CommitWrite, CancelWrite, CommitElsewhere, notifierVars, targetVars
  <1>15. CASE UNCHANGED vars
    BY <1>2, <1>15 DEF vars, notifierVars, targetVars
  <1> QED
    BY <1>3, <1>4, <1>5, <1>6, <1>7, <1>8, <1>9, <1>10, <1>11, <1>12, <1>13,
       <1>14, <1>15 DEF Next, TargetSteps, WorkerSteps, UserSteps

(* Whoever holds a token finds its callback in find_callback(), unless an  *)
(* error was delivered: neither of its two assertions fails.               *)
THEOREM FindCallbackSucceeds == Spec => []HeldTokensAreFound
  <1>1. Init => HeldInv
    BY DEF Init, HeldInv, HeldTokensAreFound, Present, NewCallback
  <1>2. TypeOK /\ LoopInv /\ HeldInv /\ [Next]_vars => HeldInv'
    BY HeldStep
  <1>3. HeldInv => HeldTokensAreFound
    BY DEF HeldInv
  <1> QED BY <1>1, <1>2, <1>3, TypeCorrect, LoopInvariant, PTL DEF Spec

-----------------------------------------------------------------------------
(* The versions of the worker.                                             *)

(* The worker is never ahead of the file, a skip version that waits for it *)
(* is ahead of the pass under way as well, and the pass goes forward.      *)
VersionInv ==
    /\ m_sg_version <= latest /\ version <= latest
    /\ m_notifier_skip_version # 0 =>
          /\ m_sg_version < m_notifier_skip_version
          /\ m_notifier_skip_version <= latest
    /\ worker # "sleep" =>
          /\ m_sg_version <= version
          /\ m_notifier_skip_version # 0 => version < m_notifier_skip_version
    /\ SkipVersionIsAhead

(* The versions are numbers.                                               *)
LEMMA VersionNumbers ==
    ASSUME TypeOK
    PROVE  /\ latest \in Nat /\ m_sg_version \in Nat /\ version \in Nat
           /\ m_notifier_skip_version \in Nat /\ skip_version \in Nat
           /\ current \in Nat /\ local \in Nat
  BY ConstantsAssumption
     DEF TypeOK, NotifierTypeOK, TargetTypeOK, CoordinatorTypeOK, Versions

(* VersionInv survives every step.                                         *)
LEMMA VersionStep ==
    ASSUME TypeOK, VersionInv, [Next]_vars
    PROVE  VersionInv'
  <1> USE DEF VersionInv, SkipVersionIsAhead
  <1>1. CASE UNCHANGED <<latest, m_sg_version, version, worker, skip_version,
                         m_notifier_skip_version>>
    BY <1>1
  <1>2. CASE WorkerStopsEarly
    <2>1. /\ UNCHANGED <<latest, m_sg_version, version, worker, skip_version>>
          /\ worker = "sleep"
          /\ m_notifier_skip_version' \in {0, m_notifier_skip_version}
      BY <1>2 DEF WorkerStopsEarly, notifierVars, handover
    <2> QED BY <2>1
  <1>3. CASE WorkerStart
    BY <1>3, VersionNumbers
       DEF WorkerStart, TakeSkipVersion, notifierVars, handover
  <1>4. CASE WorkerSkip
    BY <1>4, VersionNumbers DEF WorkerSkip, prepare_handover
  <1>5. CASE WorkerRun
    <2>1. /\ UNCHANGED latest /\ m_sg_version' = version /\ worker = "run"
          /\ worker' = "sleep" /\ version' = 0
          /\ m_notifier_skip_version' \in {0, m_notifier_skip_version}
      BY <1>5 DEF WorkerRun, prepare_handover
    <2> QED BY <2>1, VersionNumbers
  <1>6. CASE CommitWrite
    <2>1. /\ UNCHANGED <<m_sg_version, version, worker, skip_version>>
          /\ latest' = latest + 1
          /\ m_notifier_skip_version' \in {latest + 1, m_notifier_skip_version}
      BY <1>6 DEF CommitWrite, notifierVars, handover
    <2> QED BY <2>1, VersionNumbers
  <1>7. CASE CommitElsewhere
    <2>1. /\ UNCHANGED <<m_sg_version, version, worker, skip_version>>
          /\ latest' = latest + 1
          /\ m_notifier_skip_version' \in {latest + 1, m_notifier_skip_version}
      BY <1>7 DEF CommitElsewhere, notifierVars, handover
    <2> QED BY <2>1, VersionNumbers
  <1>8. CASE TargetSteps
    BY <1>1, <1>8
       DEF TargetSteps, NotifyNothing, NotifyPackage, deliver_error, ErrorCount,
           WaitForNotifiers, PackageAfterWait, BeforeAdvance, AfterAdvance,
           DeliverError, BeforeAdvanceDone, AfterAdvanceDone, ErrorRemove,
           DeliverErrorDone, notifierVars, handover, workerVars
  <1>9. ASSUME NEW t, ReleaseToken(t) \/ SuppressNext(t)
        PROVE  VersionInv'
    BY <1>1, <1>9 DEF ReleaseToken, SuppressNext, handover, workerVars
  <1>10. CASE \/ AddCallback \/ Unregister \/ BeginWait
              \/ BeginWriteInCallback \/ CancelWrite
    BY <1>1, <1>10
       DEF AddCallback, Unregister, BeginWait, BeginWriteInCallback, CancelWrite,
           notifierVars, handover, workerVars
  <1>11. CASE UNCHANGED vars
    BY <1>1, <1>11 DEF vars, notifierVars, handover, workerVars
  <1> QED
    BY <1>2, <1>3, <1>4, <1>5, <1>6, <1>7, <1>8, <1>9, <1>10, <1>11
       DEF Next, WorkerSteps, UserSteps

(* VersionInv is an invariant of every behaviour.                          *)
LEMMA VersionInvariant == Spec => []VersionInv
  <1>1. Init => VersionInv
    BY DEF Init, VersionInv, SkipVersionIsAhead
  <1>2. TypeOK /\ VersionInv /\ [Next]_vars => VersionInv'
    BY VersionStep
  <1> QED BY <1>1, <1>2, TypeCorrect, PTL DEF Spec

(* The assertion version >= skip_version of run_async_notifiers() holds in *)
(* every environment, and the worker's SharedGroup only ever advances.     *)
THEOREM WorkerAdvances == Spec => []SkipVersionIsAhead
  <1>1. VersionInv => SkipVersionIsAhead
    BY DEF VersionInv
  <1> QED BY <1>1, VersionInvariant, PTL

-----------------------------------------------------------------------------
(* The callbacks as a set, and what the operations make of its members.    *)

Callbacks == {m_callbacks[i] : i \in 1..Len(m_callbacks)}

(* The callbacks have their types, and there is none exactly when the      *)
(* vector is empty.                                                        *)
LEMMA CallbacksTyped ==
    ASSUME TypeOK
    PROVE  /\ Callbacks \subseteq Callback
           /\ \A c \in Callbacks : c.token \in Tokens /\ c.token \in Nat
           /\ m_callbacks = <<>> <=> Callbacks = {}
  <1>1. m_callbacks \in Seq(Callback)
    BY DEF TypeOK, NotifierTypeOK
  <1>2. Callbacks \subseteq Callback
    BY <1>1 DEF Callbacks
  <1>3. \A c \in Callback : c.token \in Tokens
    BY DEF Callback
  <1>4. Tokens \subseteq Nat
    BY ConstantsAssumption DEF Tokens
  <1>5. m_callbacks = <<>> => Callbacks = {}
    BY DEF Callbacks
  <1>6. ASSUME m_callbacks # <<>>
        PROVE  Callbacks # {}
    <2>1. Len(m_callbacks) \in Nat /\ Len(m_callbacks) # 0
      BY <1>1, <1>6, EmptySeq
    <2>2. 1 \in 1..Len(m_callbacks)
      BY <2>1
    <2> QED BY <2>2 DEF Callbacks
  <1> QED BY <1>2, <1>3, <1>4, <1>5, <1>6

(* No two callbacks have the same token.                                   *)
LEMMA TokensDiffer ==
    ASSUME TypeOK, PositionInv, NEW c \in Callbacks, NEW d \in Callbacks,
           c.token = d.token
    PROVE  c = d
  <1>1. PICK i \in 1..Len(m_callbacks) : c = m_callbacks[i]
    BY DEF Callbacks
  <1>2. PICK j \in 1..Len(m_callbacks) : d = m_callbacks[j]
    BY DEF Callbacks
  <1>3. m_callbacks[i].token \in Nat /\ m_callbacks[j].token \in Nat
    BY PositionNumbers
  <1>4. i = j
    BY <1>1, <1>2, <1>3, PositionNumbers DEF PositionInv
  <1> QED BY <1>1, <1>2, <1>4

(* A step that leaves the vector alone.                                    *)
LEMMA SameCallbacks ==
    ASSUME UNCHANGED m_callbacks
    PROVE  Callbacks' = Callbacks
  BY DEF Callbacks

(* package_for_delivery() moves what a callback has accumulated.           *)
LEMMA PackageCallbacks ==
    ASSUME TypeOK, package_for_delivery, NEW d \in Callbacks'
    PROVE  \E c \in Callbacks :
              /\ d.token = c.token /\ d.accumulated_changes = {}
              /\ d.changes_to_deliver = c.accumulated_changes
              /\ d.initial_delivered = c.initial_delivered
              /\ d.skip_next = c.skip_next
  <1>1. Len(m_callbacks') = Len(m_callbacks)
    BY PackageKeepsTokens DEF TypeOK, NotifierTypeOK, KeepsTokens
  <1>2. PICK i \in 1..Len(m_callbacks) : d = m_callbacks'[i]
    BY <1>1 DEF Callbacks
  <1>3. d = Packaged(m_callbacks[i])
    BY <1>2 DEF package_for_delivery
  <1>4. m_callbacks[i] \in Callbacks /\ m_callbacks[i] \in Callback
    BY <1>2, CallbacksTyped DEF Callbacks
  <1> QED BY <1>3, <1>4 DEF Packaged, Callback

(* d is what add_changes() makes of c: the change is added, or it is       *)
(* dropped and skip_next is cleared.                                       *)
Took(c, d, change) ==
    /\ d.token = c.token /\ d.skip_next = FALSE
    /\ d.changes_to_deliver = c.changes_to_deliver
    /\ d.initial_delivered = c.initial_delivered
    /\ d.accumulated_changes = IF c.skip_next THEN c.accumulated_changes
                               ELSE c.accumulated_changes \cup change

(* add_changes() does this to every callback.                              *)
LEMMA HandoverCallbacks ==
    ASSUME TypeOK, NEW v \in Versions, prepare_handover(v), NEW d \in Callbacks'
    PROVE  \E c \in Callbacks : Took(c, d, (m_sg_version + 1) .. v)
  <1>1. Len(m_callbacks') = Len(m_callbacks)
    BY HandoverKeepsTokens DEF TypeOK, NotifierTypeOK, KeepsTokens
  <1>2. PICK i \in 1..Len(m_callbacks) : d = m_callbacks'[i]
    BY <1>1 DEF Callbacks
  <1> DEFINE change == (m_sg_version + 1) .. v
  <1>3. d = Accumulate(m_callbacks[i], change)
    BY <1>2 DEF prepare_handover
  <1>4. m_callbacks[i] \in Callbacks /\ m_callbacks[i] \in Callback
    BY <1>2, CallbacksTyped DEF Callbacks
  <1> HIDE DEF change
  <1>5. \A c \in Callback : Took(c, Accumulate(c, change), change)
    BY DEF Took, Accumulate, Callback
  <1> QED BY <1>3, <1>4, <1>5 DEF change

(* What add_changes() drops, it drops for the callbacks that skip.         *)
LEMMA HandoverDrops ==
    ASSUME TypeOK, NEW v \in Versions, prepare_handover(v), NEW t \in Tokens
    PROVE  /\ (\A c \in Callbacks : c.token = t => ~c.skip_next) =>
                  dropped'[t] = dropped[t]
           /\ (\E c \in Callbacks : c.token = t /\ c.skip_next) =>
                  dropped'[t] = dropped[t] \cup ((m_sg_version + 1) .. v)
  <1> DEFINE change == (m_sg_version + 1) .. v
             skips  == {m_callbacks[i].token : i \in
                          {j \in 1..Len(m_callbacks) : m_callbacks[j].skip_next}}
  <1>1. dropped'[t] = IF t \in skips THEN dropped[t] \cup change ELSE dropped[t]
    BY DEF prepare_handover
  <1>2. t \in skips <=> \E c \in Callbacks : c.token = t /\ c.skip_next
    BY DEF Callbacks
  <1> HIDE DEF skips
  <1> QED BY <1>1, <1>2

(* suppress_next_notification() sets one flag.                             *)
LEMMA SuppressCallbacks ==
    ASSUME TypeOK, NEW t, SuppressNext(t), NEW d \in Callbacks'
    PROVE  \E c \in Callbacks :
              /\ d.token = c.token
              /\ d.accumulated_changes = c.accumulated_changes
              /\ d.changes_to_deliver = c.changes_to_deliver
              /\ d.initial_delivered = c.initial_delivered
              /\ d.token # t => d.skip_next = c.skip_next
  <1>1. Len(m_callbacks') = Len(m_callbacks)
    BY SuppressKeepsTokens DEF TypeOK, NotifierTypeOK, KeepsTokens
  <1>2. PICK i \in 1..Len(m_callbacks) : d = m_callbacks'[i]
    BY <1>1 DEF Callbacks
  <1>3. d = IF m_callbacks[i].token = t
            THEN [m_callbacks[i] EXCEPT !.skip_next = TRUE] ELSE m_callbacks[i]
    BY <1>2 DEF SuppressNext
  <1>4. m_callbacks[i] \in Callbacks /\ m_callbacks[i] \in Callback
    BY <1>2, CallbacksTyped DEF Callbacks
  <1> QED BY <1>3, <1>4 DEF Callback

(* remove_callback() erases the callback with its token, and only that.    *)
LEMMA EraseCallbacks ==
    ASSUME TypeOK, PositionInv, NEW t, remove_callback(t), NEW d \in Callbacks'
    PROVE  d \in Callbacks /\ d.token # t
  <1>1. CASE ~Present(t)
    BY <1>1 DEF remove_callback, Present, Callbacks
  <1>2. CASE Present(t)
    <2>1. PICK i \in 1..Len(m_callbacks) :
              /\ m_callbacks[i].token = t
              /\ Len(m_callbacks') = Len(m_callbacks) - 1
              /\ \A k \in 1..(Len(m_callbacks) - 1) : m_callbacks'[k] =
                    IF k < i THEN m_callbacks[k] ELSE m_callbacks[k + 1]
      BY <1>2, RemoveErases DEF TypeOK
    <2>2. PICK k \in 1..(Len(m_callbacks) - 1) : d = m_callbacks'[k]
      BY <2>1 DEF Callbacks
    <2>3. PICK j \in 1..Len(m_callbacks) : j # i /\ d = m_callbacks[j]
      BY <2>1, <2>2, PositionNumbers
    <2>4. m_callbacks[i].token # m_callbacks[j].token
      BY <2>3, PositionNumbers DEF PositionInv
    <2> QED BY <2>1, <2>3, <2>4 DEF Callbacks
  <1> QED BY <1>1, <1>2

(* add_callback() adds one callback, that has seen nothing.                *)
LEMMA AddedCallbacks ==
    ASSUME TypeOK, AddCallback, NEW d \in Callbacks'
    PROVE  \/ d \in Callbacks
           \/ /\ d.token = m_next_token /\ d.accumulated_changes = {}
              /\ d.changes_to_deliver = {} /\ d.initial_delivered = FALSE
              /\ d.skip_next = FALSE
  <1>1. NewCallback(m_next_token) \in Callback
    BY ConstantsAssumption
       DEF AddCallback, NewCallback, Callback, TypeOK, NotifierTypeOK, Tokens
  <1>2. /\ Len(m_callbacks') = Len(m_callbacks) + 1
        /\ \A i \in 1..Len(m_callbacks) : m_callbacks'[i] = m_callbacks[i]
        /\ m_callbacks'[Len(m_callbacks) + 1] = NewCallback(m_next_token)
    BY <1>1 DEF AddCallback, TypeOK, NotifierTypeOK
  <1>3. PICK i \in 1..(Len(m_callbacks) + 1) : d = m_callbacks'[i]
    BY <1>2 DEF Callbacks
  <1>4. CASE i = Len(m_callbacks) + 1
    BY <1>2, <1>3, <1>4 DEF NewCallback
  <1>5. CASE i # Len(m_callbacks) + 1
    BY <1>2, <1>3, <1>5, PositionNumbers DEF Callbacks
  <1> QED BY <1>4, <1>5

(* after_advance() takes the changes of the callback it calls.             *)
LEMMA AfterCallbacks ==
    ASSUME TypeOK, PositionInv, NEW i, AfterAdvance(i), NEW d \in Callbacks'
    PROVE  \/ d \in Callbacks /\ d.token # m_callbacks[i + 1].token
           \/ /\ d.token = m_callbacks[i + 1].token
              /\ d.accumulated_changes = m_callbacks[i + 1].accumulated_changes
              /\ d.changes_to_deliver = {} /\ d.initial_delivered = TRUE
              /\ d.skip_next = m_callbacks[i + 1].skip_next
  <1>1. i + 1 \in 1..Len(m_callbacks)
    BY RemainingInRange DEF AfterAdvance, IsNext, TypeOK
  <1> DEFINE c == m_callbacks[i + 1]
             e == [c EXCEPT !.initial_delivered = TRUE, !.changes_to_deliver = {}]
  <1>2. m_callbacks \in Seq(Callback) /\ c \in Callback
    BY <1>1 DEF TypeOK, NotifierTypeOK
  <1>3. /\ e.token = c.token /\ e.accumulated_changes = c.accumulated_changes
        /\ e.changes_to_deliver = {} /\ e.initial_delivered = TRUE
        /\ e.skip_next = c.skip_next
    BY <1>2 DEF Callback
  <1>4. m_callbacks' = [m_callbacks EXCEPT ![i + 1] = e]
    BY <1>1, <1>2 DEF AfterAdvance, Callback
  <1> HIDE DEF e
  <1>5. Len(m_callbacks') = Len(m_callbacks)
    BY AfterKeepsTokens DEF TypeOK, KeepsTokens
  <1>6. PICK k \in 1..Len(m_callbacks) : d = m_callbacks'[k]
    BY <1>5 DEF Callbacks
  <1>7. CASE k = i + 1
    <2>1. d = e
      BY <1>1, <1>2, <1>4, <1>6, <1>7
    <2> QED BY <1>3, <2>1
  <1>8. CASE k # i + 1
    <2>1. d = m_callbacks[k]
      BY <1>1, <1>2, <1>4, <1>6, <1>8
    <2>2. m_callbacks[k].token # m_callbacks[i + 1].token
      BY <1>1, <1>8, PositionNumbers DEF PositionInv
    <2> QED BY <1>6, <2>1, <2>2 DEF Callbacks
  <1> QED BY <1>7, <1>8

-----------------------------------------------------------------------------
(* The worker's passes.                                                    *)

(* The phases of a delivery, of wait_for_notifiers() and deliver_error().  *)
Delivery    == {"before", "after"}
Waits       == {"check", "waiting", "recheck"}
ErrorPhases == {"errorCount", "error", "errorNext"}

(* A notifier of a live collection that was run is in m_notifiers, so that *)
(* opening the worker's file cannot fail for it any more: after such an    *)
(* error it is never run.                                                  *)
PassInv ==
    /\ m_realm /\ (m_has_run \/ worker # "sleep") => listed
    /\ m_async_error => worker = "sleep" /\ ~m_has_run
    /\ phase \in Delivery => m_has_run
    /\ phase \in ErrorPhases => m_async_error

(* A collection that is gone has no callbacks, and a notifier that never   *)
(* ran has neither changes for one nor called it.                          *)
FreshInv ==
    /\ ~m_realm => Callbacks = {}
    /\ ~m_has_run => \A c \in Callbacks : /\ c.accumulated_changes = {}
                                          /\ ~c.initial_delivered

(* PassInv survives every step.                                            *)
LEMMA PassStep ==
    ASSUME TypeOK, PassInv, [Next]_vars
    PROVE  PassInv'
  <1> USE DEF PassInv, Delivery, ErrorPhases
  <1>1. ASSUME UNCHANGED <<listed, m_async_error, worker, m_realm, m_has_run>>,
               phase' \in Delivery \cup ErrorPhases => phase' = phase
        PROVE  PassInv'
    BY <1>1
  <1>2. CASE NotifyNothing \/ BeginWait \/ WaitForNotifiers \/ CancelWrite
    BY <1>1, <1>2 DEF NotifyNothing, BeginWait, WaitForNotifiers, CancelWrite,
                      notifierVars, handover, workerVars
  <1>3. CASE NotifyPackage
    BY <1>3 DEF NotifyPackage, handover, workerVars
  <1>4. CASE PackageAfterWait
    BY <1>4 DEF PackageAfterWait, handover, workerVars
  <1>5. CASE deliver_error \/ ErrorCount \/ ErrorRemove
    BY <1>5 DEF deliver_error, ErrorCount, ErrorRemove, handover, workerVars
  <1>6. ASSUME NEW i, BeforeAdvance(i) \/ AfterAdvance(i)
        PROVE  PassInv'
    BY <1>1, <1>6 DEF BeforeAdvance, AfterAdvance, handover, workerVars
  <1>7. ASSUME NEW i, DeliverError(i)
        PROVE  PassInv'
    BY <1>7 DEF DeliverError, handover, workerVars
  <1>8. CASE BeforeAdvanceDone \/ AfterAdvanceDone \/ DeliverErrorDone
    BY <1>8 DEF BeforeAdvanceDone, AfterAdvanceDone, DeliverErrorDone, handover,
                workerVars
  <1>9. CASE WorkerStopsEarly
    <2>1. UNCHANGED <<m_realm, m_has_run, phase, worker>> /\ worker = "sleep"
      BY <1>9 DEF WorkerStopsEarly, notifierVars, handover, targetVars
    <2>2. CASE ~m_realm
      BY <1>9, <2>1, <2>2 DEF WorkerStopsEarly
    <2>3. CASE m_realm
      BY <1>9, <2>1, <2>3 DEF WorkerStopsEarly
    <2> QED BY <2>2, <2>3
  <1>10. CASE WorkerStart
    BY <1>10 DEF WorkerStart, notifierVars, handover, targetVars
  <1>11. CASE WorkerSkip
    BY <1>11 DEF WorkerSkip, prepare_handover, targetVars
  <1>12. CASE WorkerRun
    BY <1>12 DEF WorkerRun, prepare_handover, NotifyWaiters
  <1>13. ASSUME NEW t, ReleaseToken(t) \/ SuppressNext(t)
         PROVE  PassInv'
    BY <1>1, <1>13 DEF ReleaseToken, SuppressNext, handover, workerVars, targetVars
  <1>14. CASE Unregister
    BY <1>14 DEF Unregister, handover, targetVars, workerVars
  <1>15. CASE \/ AddCallback \/ BeginWriteInCallback \/ CommitWrite
              \/ CommitElsewhere
    BY <1>1, <1>15
       DEF AddCallback, BeginWriteInCallback, CommitWrite, CommitElsewhere,
           notifierVars, handover, workerVars, targetVars
  <1>16. CASE UNCHANGED vars
    BY <1>1, <1>16 DEF vars, notifierVars, handover, workerVars, targetVars
  <1> QED
    BY <1>2, <1>3, <1>4, <1>5, <1>6, <1>7, <1>8, <1>9, <1>10, <1>11, <1>12,
       <1>13, <1>14, <1>15, <1>16
       DEF Next, TargetSteps, WorkerSteps, UserSteps

(* FreshInv survives every step.                                           *)
LEMMA FreshStep ==
    ASSUME TypeOK, PositionInv, PassInv, FreshInv, [Next]_vars
    PROVE  FreshInv'
  <1> USE DEF FreshInv
  <1>1. ASSUME UNCHANGED <<m_realm, m_has_run>>,
               \A d \in Callbacks' : \E c \in Callbacks :
                  /\ ~m_has_run => d.accumulated_changes = c.accumulated_changes
                  /\ ~m_has_run => d.initial_delivered = c.initial_delivered
        PROVE  FreshInv'
    BY <1>1
  <1>2. ASSUME UNCHANGED <<m_realm, m_has_run, m_callbacks>>
        PROVE  FreshInv'
    BY <1>1, <1>2, SameCallbacks
  <1>3. CASE NotifyPackage
    <2>1. UNCHANGED <<m_realm, m_has_run>> /\ m_has_run /\ package_for_delivery
      BY <1>3 DEF NotifyPackage, handover
    <2> QED BY <1>1, <2>1, PackageCallbacks
  <1>4. CASE PackageAfterWait
    <2>1. CASE m_has_run
      <3>1. UNCHANGED <<m_realm, m_has_run>> /\ package_for_delivery
        BY <1>4, <2>1 DEF PackageAfterWait, handover
      <3> QED BY <1>1, <2>1, <3>1, PackageCallbacks
    <2>2. CASE ~m_has_run
      BY <1>2, <1>4, <2>2 DEF PackageAfterWait, handover
    <2> QED BY <2>1, <2>2
  <1>5. ASSUME NEW i, AfterAdvance(i)
        PROVE  FreshInv'
    <2>1. UNCHANGED <<m_realm, m_has_run>> /\ m_has_run
      BY <1>5 DEF AfterAdvance, handover, PassInv, Delivery
    <2>2. i + 1 \in 1..Len(m_callbacks)
      BY <1>5, RemainingInRange DEF AfterAdvance, IsNext, TypeOK
    <2>3. m_callbacks[i + 1] \in Callbacks
      BY <2>2 DEF Callbacks
    <2> QED BY <2>1, <2>3
  <1>6. ASSUME NEW t, remove_callback(t), UNCHANGED <<m_realm, m_has_run>>
        PROVE  FreshInv'
    BY <1>1, <1>6, EraseCallbacks
  <1>7. CASE ErrorRemove
    BY <1>6, <1>7 DEF ErrorRemove, handover
  <1>8. ASSUME NEW t, ReleaseToken(t)
        PROVE  FreshInv'
    BY <1>6, <1>8 DEF ReleaseToken, handover
  <1>9. CASE WorkerSkip \/ WorkerRun
    <2>1. PICK v \in Versions : prepare_handover(v)
      BY <1>9 DEF WorkerSkip, WorkerRun, TypeOK, CoordinatorTypeOK
    <2>2. UNCHANGED m_realm /\ m_has_run' = TRUE
      BY <1>9 DEF WorkerSkip, WorkerRun, prepare_handover
    <2>3. \A d \in Callbacks' : \E c \in Callbacks : TRUE
      BY <2>1, HandoverCallbacks
    <2> QED BY <2>2, <2>3
  <1>10. CASE AddCallback
    <2>1. UNCHANGED <<m_realm, m_has_run>> /\ m_realm
      BY <1>10 DEF AddCallback, handover
    <2>2. \A d \in Callbacks' :
             d \in Callbacks \/ (d.accumulated_changes = {} /\ ~d.initial_delivered)
      BY <1>10, AddedCallbacks
    <2> QED BY <2>1, <2>2
  <1>11. ASSUME NEW t, SuppressNext(t)
         PROVE  FreshInv'
    <2>1. UNCHANGED <<m_realm, m_has_run>>
      BY <1>11 DEF SuppressNext, handover
    <2> QED BY <1>1, <1>11, <2>1, SuppressCallbacks
  <1>12. CASE Unregister
    <2>1. UNCHANGED <<m_has_run, m_callbacks>> /\ m_callbacks = <<>>
      BY <1>12 DEF Unregister, handover
    <2> QED BY <2>1, SameCallbacks, CallbacksTyped
  <1>13. CASE \/ NotifyNothing \/ deliver_error \/ ErrorCount \/ WaitForNotifiers
              \/ BeforeAdvanceDone \/ AfterAdvanceDone \/ DeliverErrorDone
              \/ WorkerStopsEarly \/ WorkerStart \/ BeginWait
              \/ BeginWriteInCallback \/ CommitWrite \/ CancelWrite
              \/ CommitElsewhere
    BY <1>2, <1>13
       DEF NotifyNothing, deliver_error, ErrorCount, WaitForNotifiers,
           BeforeAdvanceDone, AfterAdvanceDone, DeliverErrorDone,
           WorkerStopsEarly, WorkerStart, BeginWait, BeginWriteInCallback,
           CommitWrite, CancelWrite, CommitElsewhere, notifierVars, handover
  <1>14. ASSUME NEW i, BeforeAdvance(i) \/ DeliverError(i)
         PROVE  FreshInv'
    BY <1>2, <1>14 DEF BeforeAdvance, DeliverError, handover
  <1>15. CASE UNCHANGED vars
    BY <1>2, <1>15 DEF vars, notifierVars, handover
  <1> QED
    BY <1>3, <1>4, <1>5, <1>7, <1>8, <1>9, <1>10, <1>11, <1>12, <1>13, <1>14,
       <1>15 DEF Next, TargetSteps, WorkerSteps, UserSteps

(* Both are invariants of every behaviour.                                 *)
LEMMA PassInvariant == Spec => [](PassInv /\ FreshInv)
  <1>1. Init => PassInv /\ FreshInv
    <2> SUFFICES ASSUME Init PROVE PassInv /\ FreshInv
      OBVIOUS
    <2>1. PassInv
      BY DEF Init, PassInv, Delivery, ErrorPhases
    <2>2. \A c \in Callbacks : c = NewCallback(0)
      BY DEF Init, Callbacks
    <2>3. FreshInv
      BY <2>2 DEF Init, FreshInv, NewCallback
    <2> QED BY <2>1, <2>3
  <1>2. TypeOK /\ LoopInv /\ PassInv /\ FreshInv /\ [Next]_vars
           => PassInv' /\ FreshInv'
    BY PassStep, FreshStep DEF LoopInv
  <1> QED BY <1>1, <1>2, TypeCorrect, LoopInvariant, PTL DEF Spec

-----------------------------------------------------------------------------
(* The version the target's Realm reads.                                   *)

(* The environment in which a callback begins no write transaction.        *)
NoNestedWrite == "nestedWrite" \notin Allowed

(* A waiting thread waits for a version its Realm has not passed; what was *)
(* packaged is for the version the Realm is going to, which the worker has *)
(* reached; and nothing is committed while the thread holds the lock.      *)
SnapshotInv ==
    /\ current <= latest
    /\ phase \in Waits => current <= local /\ local <= latest
    /\ phase = "before" => current <= local
    /\ phase = "after" => current = local
    /\ phase \in Delivery => local <= m_sg_version
    /\ writing /\ phase \in Waits \cup Delivery => local = latest

(* SnapshotInv survives every step.                                        *)
LEMMA SnapshotStep ==
    ASSUME NoNestedWrite, TypeOK, VersionInv, SnapshotInv, [Next]_vars
    PROVE  SnapshotInv'
  <1> USE DEF SnapshotInv, Delivery, Waits
  <1>0. MayEndWrite => phase = "idle" /\ writing
    BY DEF MayEndWrite, NoNestedWrite
  <1>1. ASSUME UNCHANGED <<current, latest, local, writing>>,
               m_sg_version' \in Nat /\ m_sg_version <= m_sg_version',
               \/ phase' = phase
               \/ phase' = "idle" \/ phase' \in ErrorPhases
               \/ phase \in Waits /\ phase' \in Waits
        PROVE  SnapshotInv'
    BY <1>1, VersionNumbers DEF ErrorPhases
  <1>2. UNCHANGED m_sg_version =>
           m_sg_version' \in Nat /\ m_sg_version <= m_sg_version'
    BY VersionNumbers
  <1>3. CASE NotifyNothing
    <2>1. /\ current' \in {current, latest} /\ phase' = "idle"
          /\ UNCHANGED latest
      BY <1>3 DEF NotifyNothing
    <2> QED BY <2>1, VersionNumbers
  <1>4. CASE NotifyPackage
    <2>1. /\ UNCHANGED <<current, latest, writing, m_sg_version>> /\ ~writing
          /\ local' = m_sg_version
          /\ phase' = IF m_sg_version < current THEN "idle"
                      ELSE IF m_sg_version = current THEN "after" ELSE "before"
      BY <1>4 DEF NotifyPackage, handover
    <2> QED BY <2>1, VersionNumbers
  <1>5. CASE PackageAfterWait
    <2>1. CASE m_has_run /\ m_sg_version >= local
      <3>1. /\ UNCHANGED <<current, latest, writing, m_sg_version>>
            /\ local' = m_sg_version /\ phase \in Waits
            /\ phase' = IF writing /\ current = latest THEN "after" ELSE "before"
        BY <1>5, <2>1 DEF PackageAfterWait, handover
      <3>2. m_sg_version <= latest /\ local <= m_sg_version
        BY <2>1, VersionNumbers DEF VersionInv
      <3> QED BY <3>1, <3>2, VersionNumbers
    <2>2. CASE ~(m_has_run /\ m_sg_version >= local)
      <3>1. phase' = "idle" /\ current' = latest /\ UNCHANGED latest
        BY <1>5, <2>2 DEF PackageAfterWait
      <3> QED BY <3>1, VersionNumbers
    <2> QED BY <2>1, <2>2
  <1>6. CASE deliver_error
    BY <1>6, VersionNumbers DEF deliver_error
  <1>7. CASE ErrorCount
    BY <1>7 DEF ErrorCount
  <1>8. ASSUME NEW i, BeforeAdvance(i) \/ AfterAdvance(i) \/ DeliverError(i)
        PROVE  SnapshotInv'
    BY <1>1, <1>2, <1>8
       DEF BeforeAdvance, AfterAdvance, DeliverError, handover, ErrorPhases
  <1>9. CASE BeforeAdvanceDone
    <2>1. /\ phase = "before" /\ phase' = "after" /\ current' = local
          /\ UNCHANGED <<local, latest, writing, m_sg_version>>
      BY <1>9 DEF BeforeAdvanceDone, handover
    <2> QED BY <2>1, VersionNumbers DEF VersionInv
  <1>10. CASE AfterAdvanceDone \/ DeliverErrorDone
    BY <1>10 DEF AfterAdvanceDone, DeliverErrorDone
  <1>11. CASE ErrorRemove \/ WaitForNotifiers \/ CancelWrite
    BY <1>0, <1>1, <1>2, <1>11
       DEF ErrorRemove, WaitForNotifiers, CancelWrite, notifierVars, handover,
           ErrorPhases
  <1>12. CASE BeginWait
    <2>1. phase = "idle" /\ ~writing /\ UNCHANGED latest
      BY <1>12 DEF BeginWait
    <2>2. CASE m_realm
      BY <1>12, <2>1, <2>2, VersionNumbers DEF BeginWait
    <2>3. CASE ~m_realm
      BY <1>12, <2>1, <2>3, VersionNumbers DEF BeginWait
    <2> QED BY <2>2, <2>3
  <1>13. CASE BeginWriteInCallback
    BY <1>13 DEF BeginWriteInCallback, NoNestedWrite
  <1>14. CASE CommitWrite
    <2>1. /\ phase' = "idle" /\ current' = latest + 1 /\ latest' = latest + 1
      BY <1>0, <1>14 DEF CommitWrite
    <2> QED BY <2>1, VersionNumbers
  <1>15. CASE CommitElsewhere
    <2>1. /\ ~writing /\ latest' = latest + 1
          /\ UNCHANGED <<phase, current, local, writing, m_sg_version>>
      BY <1>15 DEF CommitElsewhere, targetVars, notifierVars, handover
    <2> QED BY <2>1, VersionNumbers
  <1>16. CASE WorkerSkip
    <2>1. UNCHANGED <<phase, current, latest, local, writing>>
      BY <1>16 DEF WorkerSkip, targetVars
    <2>2. m_sg_version' \in Nat /\ m_sg_version <= m_sg_version'
      BY <1>16, VersionNumbers
         DEF WorkerSkip, prepare_handover, VersionInv, SkipVersionIsAhead
    <2> QED BY <1>1, <2>1, <2>2
  <1>17. CASE WorkerRun
    <2>1. /\ UNCHANGED <<current, latest, local, writing>>
          /\ phase' = phase \/ (phase \in Waits /\ phase' \in Waits)
      BY <1>17 DEF WorkerRun, NotifyWaiters
    <2>2. m_sg_version' \in Nat /\ m_sg_version <= m_sg_version'
      BY <1>17, VersionNumbers DEF WorkerRun, prepare_handover, VersionInv
    <2> QED BY <1>1, <2>1, <2>2
  <1>18. ASSUME NEW t, ReleaseToken(t) \/ SuppressNext(t)
         PROVE  SnapshotInv'
    BY <1>1, <1>2, <1>18 DEF ReleaseToken, SuppressNext, handover, targetVars
  <1>19. CASE \/ AddCallback \/ Unregister \/ WorkerStopsEarly \/ WorkerStart
    BY <1>1, <1>2, <1>19
       DEF AddCallback, Unregister, WorkerStopsEarly, WorkerStart, notifierVars,
           handover, targetVars
  <1>20. CASE UNCHANGED vars
    BY <1>1, <1>2, <1>20 DEF vars, notifierVars, handover, targetVars
  <1> QED
    BY <1>3, <1>4, <1>5, <1>6, <1>7, <1>8, <1>9, <1>10, <1>11, <1>12, <1>13,
       <1>14, <1>15, <1>16, <1>17, <1>18, <1>19, <1>20
       DEF Next, TargetSteps, WorkerSteps, UserSteps

(* While a write transaction is open, every callback has been packaged for *)
(* the newest version and nothing has accumulated since: that is what      *)
(* begin_transaction() waits for, unless the worker has failed.            *)
WriteInv ==
    writing /\ phase \in Delivery \cup {"idle"} /\ Callbacks # {} =>
        \/ m_async_error
        \/ /\ m_has_run /\ m_sg_version = latest
           /\ \A c \in Callbacks : c.accumulated_changes = {}

(* With nothing newer in the file a pass of the worker adds no change.     *)
LEMMA PassAddsNothing ==
    ASSUME TypeOK, VersionInv, m_sg_version = latest
    PROVE  /\ worker # "skip"
           /\ worker = "run" => version = latest /\ (m_sg_version + 1) .. version = {}
  BY VersionNumbers DEF VersionInv, SkipVersionIsAhead

(* WriteInv survives every step.                                           *)
LEMMA WriteStep ==
    ASSUME NoNestedWrite, TypeOK, LoopInv, VersionInv, PassInv, FreshInv,
           SnapshotInv, WriteInv, [Next]_vars
    PROVE  WriteInv'
  <1> USE DEF WriteInv
  <1>0. MayEndWrite => phase = "idle" /\ writing
    BY DEF MayEndWrite, NoNestedWrite
  <1>1. ASSUME UNCHANGED <<writing, latest, m_has_run, m_sg_version>>,
               m_async_error => m_async_error',
               phase' = phase \/ phase' \notin Delivery \cup {"idle"}
                 \/ {phase, phase'} \subseteq Delivery \cup {"idle"},
               \A d \in Callbacks' : \E c \in Callbacks :
                  d.accumulated_changes = c.accumulated_changes
        PROVE  WriteInv'
    BY <1>1
  <1>2. ASSUME UNCHANGED <<writing, latest, m_has_run, m_sg_version, m_callbacks>>,
               m_async_error => m_async_error',
               phase' = phase \/ phase' \notin Delivery \cup {"idle"}
                 \/ {phase, phase'} \subseteq Delivery \cup {"idle"}
        PROVE  WriteInv'
    BY <1>1, <1>2, SameCallbacks
  <1>3. CASE NotifyPackage
    BY <1>3 DEF NotifyPackage
  <1>4. CASE PackageAfterWait
    <2>1. CASE m_has_run /\ m_sg_version >= local
      <3>1. /\ UNCHANGED <<writing, latest, m_has_run, m_sg_version>>
            /\ phase \in Waits /\ package_for_delivery
        BY <1>4, <2>1 DEF PackageAfterWait, handover, Waits
      <3>2. \A d \in Callbacks' : d.accumulated_changes = {}
        BY <3>1, PackageCallbacks
      <3>3. writing => m_sg_version = latest
        BY <2>1, <3>1, VersionNumbers DEF SnapshotInv, VersionInv
      <3> QED BY <2>1, <3>1, <3>2, <3>3
    <2>2. CASE ~(m_has_run /\ m_sg_version >= local)
      <3>1. Callbacks = {}
        BY <1>4, <2>2, CallbacksTyped
           DEF PackageAfterWait, NotifierIsReady, LoopInv, HaveCallbacksExact
      <3>2. CASE m_has_run
        BY <1>4, <3>1, <3>2, PackageCallbacks DEF PackageAfterWait
      <3>3. CASE ~m_has_run
        BY <1>4, <3>1, <3>3, SameCallbacks DEF PackageAfterWait
      <3> QED BY <3>2, <3>3
    <2> QED BY <2>1, <2>2
  <1>5. CASE deliver_error \/ ErrorCount \/ ErrorRemove
    BY <1>5 DEF deliver_error, ErrorCount, ErrorRemove, Delivery
  <1>6. ASSUME NEW i, DeliverError(i)
        PROVE  WriteInv'
    BY <1>6 DEF DeliverError, Delivery
  <1>7. ASSUME NEW i, BeforeAdvance(i)
        PROVE  WriteInv'
    BY <1>2, <1>7 DEF BeforeAdvance, handover, workerVars
  <1>8. ASSUME NEW i, AfterAdvance(i)
        PROVE  WriteInv'
    <2>1. UNCHANGED <<writing, latest, m_has_run, m_sg_version, m_async_error, phase>>
      BY <1>8 DEF AfterAdvance, handover, workerVars
    <2>2. i + 1 \in 1..Len(m_callbacks)
      BY <1>8, RemainingInRange DEF AfterAdvance, IsNext, TypeOK
    <2>3. m_callbacks[i + 1] \in Callbacks
      BY <2>2 DEF Callbacks
    <2>4. \A d \in Callbacks' : \E c \in Callbacks :
             d.accumulated_changes = c.accumulated_changes
      BY <1>8, <2>3, AfterCallbacks DEF LoopInv
    <2> QED BY <1>1, <2>1, <2>4
  <1>9. CASE BeforeAdvanceDone \/ AfterAdvanceDone
    BY <1>2, <1>9 DEF BeforeAdvanceDone, AfterAdvanceDone, handover, workerVars,
                      Delivery
  <1>10. CASE DeliverErrorDone
    <2>1. m_async_error /\ UNCHANGED m_async_error
      BY <1>10 DEF DeliverErrorDone, PassInv, ErrorPhases, workerVars
    <2> QED BY <2>1
  <1>11. CASE BeginWait
    <2>1. CASE m_realm
      BY <1>11, <2>1 DEF BeginWait, Delivery
    <2>2. CASE ~m_realm
      <3>1. Callbacks' = {}
        BY <1>11, <2>2, SameCallbacks DEF BeginWait, FreshInv, notifierVars
      <3> QED BY <3>1
    <2> QED BY <2>1, <2>2
  <1>12. CASE CommitWrite \/ CancelWrite \/ CommitElsewhere
    BY <1>12 DEF CommitWrite, CancelWrite, CommitElsewhere, targetVars
  <1>13. CASE BeginWriteInCallback
    BY <1>13 DEF BeginWriteInCallback, NoNestedWrite
  <1>14. CASE AddCallback
    BY <1>14 DEF AddCallback, targetVars
  <1>15. CASE WorkerSkip \/ WorkerRun
    <2>1. UNCHANGED <<writing, latest>> /\ m_has_run'
      BY <1>15 DEF WorkerSkip, WorkerRun, prepare_handover, targetVars
    <2>2. phase' \in Delivery \cup {"idle"} => phase' = phase
      BY <1>15 DEF WorkerSkip, WorkerRun, NotifyWaiters, targetVars, Delivery
    <2>3. ~m_async_error
      BY <1>15 DEF WorkerSkip, WorkerRun, PassInv
    <2> SUFFICES ASSUME writing', phase' \in Delivery \cup {"idle"}, Callbacks' # {}
                 PROVE  /\ m_sg_version' = latest'
                        /\ \A d \in Callbacks' : d.accumulated_changes = {}
      BY <2>1
    <2>4. PICK v \in Versions :
             prepare_handover(v) /\ (worker = "run" => v = version)
      BY <1>15 DEF WorkerSkip, WorkerRun, TypeOK, CoordinatorTypeOK
    <2>5. Callbacks # {}
      BY <2>4, HandoverCallbacks
    <2>6. m_sg_version = latest /\ \A c \in Callbacks : c.accumulated_changes = {}
      BY <2>1, <2>2, <2>3, <2>5
    <2>7. v = latest /\ (m_sg_version + 1) .. v = {}
      BY <1>15, <2>4, <2>6, PassAddsNothing DEF WorkerSkip, WorkerRun
    <2>8. m_sg_version' = latest'
      BY <2>1, <2>4, <2>7 DEF prepare_handover
    <2>9. ASSUME NEW d \in Callbacks'
           PROVE  d.accumulated_changes = {}
      <3>1. PICK c \in Callbacks : Took(c, d, (m_sg_version + 1) .. v)
        BY <2>4, <2>9, HandoverCallbacks
      <3> QED BY <2>6, <2>7, <3>1 DEF Took
    <2> QED BY <2>8, <2>9
  <1>16. ASSUME NEW t, ReleaseToken(t)
         PROVE  WriteInv'
    <2>1. /\ remove_callback(t)
          /\ UNCHANGED <<writing, latest, m_has_run, m_sg_version, m_async_error, phase>>
      BY <1>16 DEF ReleaseToken, handover, targetVars, workerVars
    <2> QED BY <1>1, <2>1, EraseCallbacks DEF LoopInv
  <1>17. ASSUME NEW t, SuppressNext(t)
         PROVE  WriteInv'
    <2>1. UNCHANGED <<writing, latest, m_has_run, m_sg_version, m_async_error, phase>>
      BY <1>17 DEF SuppressNext, handover, targetVars, workerVars
    <2> QED BY <1>1, <1>17, <2>1, SuppressCallbacks
  <1>18. CASE \/ NotifyNothing \/ WaitForNotifiers \/ WorkerStopsEarly
              \/ WorkerStart \/ Unregister
    BY <1>2, <1>18
       DEF NotifyNothing, WaitForNotifiers, WorkerStopsEarly, WorkerStart,
           Unregister, notifierVars, handover, targetVars, workerVars, Delivery
  <1>19. CASE UNCHANGED vars
    BY <1>2, <1>19 DEF vars, notifierVars, handover, targetVars, workerVars
  <1> QED
    BY <1>3, <1>4, <1>5, <1>6, <1>7, <1>8, <1>9, <1>10, <1>11, <1>12, <1>13,
       <1>14, <1>15, <1>16, <1>17, <1>18, <1>19
       DEF Next, TargetSteps, WorkerSteps, UserSteps

(* The environment without nested writes keeps both.                       *)
LEMMA WriteInvariant ==
    ASSUME NoNestedWrite
    PROVE  Spec => [](SnapshotInv /\ WriteInv)
  <1>1. Init => SnapshotInv /\ WriteInv
    BY DEF Init, SnapshotInv, WriteInv, Delivery, Waits
  <1>2. TypeOK /\ LoopInv /\ VersionInv /\ PassInv /\ FreshInv
           /\ SnapshotInv /\ WriteInv /\ [Next]_vars
           => SnapshotInv' /\ WriteInv'
    BY SnapshotStep, WriteStep
  <1> QED BY <1>1, <1>2, TypeCorrect, LoopInvariant, VersionInvariant,
             PassInvariant, PTL DEF Spec

-----------------------------------------------------------------------------
(* What a callback was told and spared.                                    *)

(* Tokens that were not handed out yet have no history; nothing is told,   *)
(* spared or kept that the worker has not reached; and a callback that was *)
(* not called was told nothing.                                            *)
NewTokensInv == \A t \in Tokens :
                   t >= m_next_token => seen[t] = {} /\ dropped[t] = {}

ToldInv == \A t \in Tokens : /\ seen[t] \subseteq 1..m_sg_version
                             /\ dropped[t] \subseteq 1..m_sg_version

Ahead(c) == /\ c.changes_to_deliver \subseteq 1..m_sg_version
            /\ c.accumulated_changes \subseteq 1..m_sg_version
            /\ ~c.initial_delivered => seen[c.token] = {}

LedgerInv == NewTokensInv /\ ToldInv /\ \A c \in Callbacks : Ahead(c)

(* The history that Forget(t) erases.                                      *)
LEMMA ForgetErases ==
    ASSUME TypeOK, NEW t, Forget(t), NEW u \in Tokens
    PROVE  /\ u # t => /\ seen'[u] = seen[u] /\ dropped'[u] = dropped[u]
                       /\ first'[u] = first[u]
           /\ u = t => seen'[u] = {} /\ dropped'[u] = {}
  BY DEF Forget, TypeOK, HistoryTypeOK

(* The history that after_advance() writes.                                *)
LEMMA AfterWrites ==
    ASSUME TypeOK, NEW i, AfterAdvance(i), NEW u \in Tokens
    PROVE  /\ u # m_callbacks[i + 1].token =>
                 seen'[u] = seen[u] /\ first'[u] = first[u]
           /\ u = m_callbacks[i + 1].token =>
                 /\ seen'[u] = seen[u] \cup m_callbacks[i + 1].changes_to_deliver
                 /\ first'[u] = IF m_callbacks[i + 1].initial_delivered
                                THEN first[u] ELSE current
  BY DEF AfterAdvance, TypeOK, HistoryTypeOK

(* The callback that after_advance() calls.                                *)
LEMMA AfterVisits ==
    ASSUME TypeOK, NEW i, AfterAdvance(i)
    PROVE  i + 1 \in 1..Len(m_callbacks) /\ m_callbacks[i + 1] \in Callbacks
  <1>1. i + 1 \in 1..Len(m_callbacks)
    BY RemainingInRange DEF AfterAdvance, IsNext, TypeOK
  <1> QED BY <1>1 DEF Callbacks

(* A pass of the worker goes forward.                                      *)
LEMMA PassGoesForward ==
    ASSUME TypeOK, VersionInv, WorkerSkip \/ WorkerRun
    PROVE  \E v \in Versions :
              /\ prepare_handover(v) /\ m_sg_version' = v /\ v \in Nat
              /\ m_sg_version <= v /\ v <= latest
              /\ worker = "skip" => v = skip_version
              /\ worker = "run" => v = version
  <1>1. CASE WorkerSkip
    <2>1. /\ prepare_handover(skip_version) /\ m_sg_version' = skip_version
          /\ worker = "skip" /\ skip_version \in Versions
      BY <1>1 DEF WorkerSkip, prepare_handover, TypeOK, CoordinatorTypeOK
    <2>2. m_sg_version <= skip_version /\ skip_version <= latest
      BY <2>1, VersionNumbers DEF VersionInv, SkipVersionIsAhead
    <2> QED BY <2>1, <2>2, VersionNumbers
  <1>2. CASE WorkerRun
    <2>1. /\ prepare_handover(version) /\ m_sg_version' = version
          /\ worker = "run" /\ version \in Versions
      BY <1>2 DEF WorkerRun, prepare_handover, TypeOK, CoordinatorTypeOK
    <2>2. m_sg_version <= version /\ version <= latest
      BY <2>1, VersionNumbers DEF VersionInv
    <2> QED BY <2>1, <2>2, VersionNumbers
  <1> QED BY <1>1, <1>2

(* LedgerInv survives every step.                                          *)
LEMMA LedgerStep ==
    ASSUME TypeOK, PositionInv, VersionInv, LedgerInv, [Next]_vars
    PROVE  LedgerInv'
  <1> USE DEF LedgerInv
  <1>1. ASSUME UNCHANGED <<seen, dropped, m_sg_version, m_next_token>>,
               \A d \in Callbacks' : \E c \in Callbacks :
                  /\ d.token = c.token
                  /\ d.initial_delivered = c.initial_delivered
                  /\ \/ d.changes_to_deliver = c.changes_to_deliver
                     \/ d.changes_to_deliver = c.accumulated_changes
                  /\ d.accumulated_changes \in {c.accumulated_changes, {}}
        PROVE  LedgerInv'
    <2>1. NewTokensInv' /\ ToldInv'
      BY <1>1 DEF NewTokensInv, ToldInv
    <2>2. \A d \in Callbacks' : Ahead(d)'
      BY <1>1 DEF Ahead
    <2> QED BY <2>1, <2>2
  <1>2. ASSUME UNCHANGED <<seen, dropped, m_sg_version, m_next_token, m_callbacks>>
        PROVE  LedgerInv'
    BY <1>1, <1>2, SameCallbacks
  <1>3. CASE NotifyPackage
    <2>1. package_for_delivery /\ UNCHANGED <<seen, dropped, m_sg_version, m_next_token>>
      BY <1>3 DEF NotifyPackage, handover, ledger
    <2> QED BY <1>1, <2>1, PackageCallbacks
  <1>4. CASE PackageAfterWait
    <2>1. UNCHANGED <<seen, dropped, m_sg_version, m_next_token>>
      BY <1>4 DEF PackageAfterWait, handover, ledger
    <2>2. CASE m_has_run
      <3>1. package_for_delivery
        BY <1>4, <2>2 DEF PackageAfterWait
      <3> QED BY <1>1, <2>1, <3>1, PackageCallbacks
    <2>3. CASE ~m_has_run
      BY <1>2, <1>4, <2>1, <2>3 DEF PackageAfterWait
    <2> QED BY <2>2, <2>3
  <1>5. ASSUME NEW i, AfterAdvance(i)
        PROVE  LedgerInv'
    <2> DEFINE c == m_callbacks[i + 1]
    <2>1. UNCHANGED <<dropped, m_sg_version, m_next_token>>
      BY <1>5 DEF AfterAdvance, handover
    <2>2. c \in Callbacks /\ i + 1 \in 1..Len(m_callbacks)
      BY <1>5, AfterVisits
    <2>3. Ahead(c) /\ c.token < m_next_token /\ c.token \in Nat
      BY <2>2, CallbacksTyped DEF PositionInv
    <2>4. \A u \in Tokens :
             /\ u # c.token => seen'[u] = seen[u]
             /\ u = c.token => seen'[u] = seen[u] \cup c.changes_to_deliver
      BY <1>5, AfterWrites
    <2>5. \A d \in Callbacks' :
             \/ d \in Callbacks /\ d.token # c.token
             \/ /\ d.token = c.token /\ d.changes_to_deliver = {}
                /\ d.accumulated_changes = c.accumulated_changes
                /\ d.initial_delivered = TRUE
      BY <1>5, AfterCallbacks
    <2> HIDE DEF c
    <2>6. NewTokensInv'
      BY <2>1, <2>3, <2>4, PositionNumbers DEF NewTokensInv
    <2>7. ToldInv'
      BY <2>1, <2>3, <2>4 DEF ToldInv, Ahead
    <2>8. \A d \in Callbacks' : Ahead(d)'
      BY <2>1, <2>3, <2>4, <2>5, CallbacksTyped DEF Ahead
    <2> QED BY <2>6, <2>7, <2>8
  <1>6. ASSUME NEW t, remove_callback(t), Forget(t),
               UNCHANGED <<m_sg_version, m_next_token>>
        PROVE  LedgerInv'
    <2>1. \A u \in Tokens :
             /\ u # t => seen'[u] = seen[u] /\ dropped'[u] = dropped[u]
             /\ u = t => seen'[u] = {} /\ dropped'[u] = {}
      BY <1>6, ForgetErases
    <2>2. \A d \in Callbacks' : d \in Callbacks /\ d.token # t
      BY <1>6, EraseCallbacks
    <2>3. NewTokensInv'
      BY <1>6, <2>1 DEF NewTokensInv
    <2>4. ToldInv'
      BY <1>6, <2>1 DEF ToldInv
    <2>5. \A d \in Callbacks' : Ahead(d)'
      BY <1>6, <2>1, <2>2, CallbacksTyped DEF Ahead
    <2> QED BY <2>3, <2>4, <2>5
  <1>7. CASE ErrorRemove
    BY <1>6, <1>7 DEF ErrorRemove, handover
  <1>8. ASSUME NEW t, ReleaseToken(t)
        PROVE  LedgerInv'
    BY <1>6, <1>8 DEF ReleaseToken, handover
  <1>9. CASE WorkerSkip \/ WorkerRun
    <2>1. UNCHANGED <<seen, m_next_token>>
      BY <1>9 DEF WorkerSkip, WorkerRun
    <2>2. PICK v \in Versions :
             /\ prepare_handover(v) /\ m_sg_version' = v /\ v \in Nat
             /\ m_sg_version <= v
      BY <1>9, PassGoesForward
    <2> DEFINE change == (m_sg_version + 1) .. v
    <2>3. \A x \in change : x \in 1..v
      BY <2>2, VersionNumbers
    <2>4. \A S : S \subseteq 1..m_sg_version => S \subseteq 1..v
      BY <2>2, VersionNumbers
    <2>5. \A t \in Tokens : dropped'[t] \in {dropped[t], dropped[t] \cup change}
      BY <2>2, HandoverDrops
    <2>6. \A d \in Callbacks' : \E c \in Callbacks : Took(c, d, change)
      BY <2>2, HandoverCallbacks
    <2>7. \A t \in Tokens : t >= m_next_token => dropped'[t] = dropped[t]
      <3>1. \A c \in Callbacks : c.token < m_next_token
        BY DEF PositionInv, Callbacks
      <3>2. ASSUME NEW t \in Tokens, t >= m_next_token
            PROVE  \A c \in Callbacks : c.token # t
        BY <3>1, <3>2, CallbacksTyped, PositionNumbers, ConstantsAssumption
           DEF Tokens
      <3> QED BY <2>2, <3>2, HandoverDrops
    <2> HIDE DEF change
    <2>8. NewTokensInv'
      BY <2>1, <2>7 DEF NewTokensInv
    <2>9. ToldInv'
      BY <2>1, <2>2, <2>3, <2>4, <2>5 DEF ToldInv
    <2>10. ASSUME NEW d \in Callbacks'
           PROVE  Ahead(d)'
      <3>1. PICK c \in Callbacks : Took(c, d, change)
        BY <2>6
      <3>2. Ahead(c)
        OBVIOUS
      <3>3. d.changes_to_deliver \subseteq 1..v
        BY <2>4, <3>1, <3>2 DEF Took, Ahead
      <3>4. d.accumulated_changes \subseteq 1..v
        BY <2>3, <2>4, <3>1, <3>2 DEF Took, Ahead
      <3>5. ~d.initial_delivered => seen'[d.token] = {}
        BY <2>1, <3>1, <3>2 DEF Took, Ahead
      <3> QED BY <2>2, <3>3, <3>4, <3>5 DEF Ahead
    <2> QED BY <2>8, <2>9, <2>10
  <1>10. CASE AddCallback
    <2>1. /\ m_next_token' = m_next_token + 1
          /\ UNCHANGED <<seen, dropped, m_sg_version>>
      BY <1>10 DEF AddCallback, handover
    <2>2. m_next_token \in Tokens /\ Tokens \subseteq Nat
      BY <1>10, ConstantsAssumption DEF AddCallback, TypeOK, NotifierTypeOK, Tokens
    <2>3. NewTokensInv'
      BY <2>1, <2>2 DEF NewTokensInv
    <2>4. ToldInv'
      BY <2>1 DEF ToldInv
    <2>5. seen[m_next_token] = {}
      BY <2>2 DEF NewTokensInv
    <2>6. \A d \in Callbacks' : Ahead(d)'
      BY <1>10, <2>1, <2>5, AddedCallbacks DEF Ahead
    <2> QED BY <2>3, <2>4, <2>6
  <1>11. ASSUME NEW t, SuppressNext(t)
         PROVE  LedgerInv'
    <2>1. UNCHANGED <<seen, dropped, m_sg_version, m_next_token>>
      BY <1>11 DEF SuppressNext, handover
    <2> QED BY <1>1, <1>11, <2>1, SuppressCallbacks
  <1>12. CASE \/ NotifyNothing \/ deliver_error \/ ErrorCount \/ WaitForNotifiers
              \/ BeforeAdvanceDone \/ AfterAdvanceDone \/ DeliverErrorDone
              \/ WorkerStopsEarly \/ WorkerStart \/ BeginWait \/ Unregister
              \/ BeginWriteInCallback \/ CommitWrite \/ CancelWrite
              \/ CommitElsewhere
    BY <1>2, <1>12
       DEF NotifyNothing, deliver_error, ErrorCount, WaitForNotifiers,
           BeforeAdvanceDone, AfterAdvanceDone, DeliverErrorDone,
           WorkerStopsEarly, WorkerStart, BeginWait, Unregister,
           BeginWriteInCallback, CommitWrite, CancelWrite, CommitElsewhere,
           notifierVars, handover, historyVars, ledger
  <1>13. ASSUME NEW i, BeforeAdvance(i) \/ DeliverError(i)
         PROVE  LedgerInv'
    BY <1>2, <1>13 DEF BeforeAdvance, DeliverError, handover, historyVars, ledger
  <1>14. CASE UNCHANGED vars
    BY <1>2, <1>14 DEF vars, notifierVars, handover, historyVars, ledger
  <1> QED
    BY <1>3, <1>4, <1>5, <1>7, <1>8, <1>9, <1>10, <1>11, <1>12, <1>13, <1>14
       DEF Next, TargetSteps, WorkerSteps, UserSteps

(* LedgerInv is an invariant of every behaviour.                           *)
LEMMA LedgerInvariant == Spec => []LedgerInv
  <1>1. Init => LedgerInv
    <2> SUFFICES ASSUME Init PROVE LedgerInv
      OBVIOUS
    <2>1. NewTokensInv /\ ToldInv
      BY DEF Init, NewTokensInv, ToldInv
    <2>2. \A c \in Callbacks : c = NewCallback(0)
      BY DEF Init, Callbacks
    <2>3. 0 \in Tokens
      BY ConstantsAssumption DEF Tokens
    <2>4. \A c \in Callbacks : Ahead(c)
      BY <2>2, <2>3 DEF Init, Ahead, NewCallback
    <2> QED BY <2>1, <2>4 DEF LedgerInv
  <1>2. TypeOK /\ LoopInv /\ VersionInv /\ LedgerInv /\ [Next]_vars => LedgerInv'
    BY LedgerStep DEF LoopInv
  <1> QED BY <1>1, <1>2, TypeCorrect, LoopInvariant, VersionInvariant, PTL
             DEF Spec

-----------------------------------------------------------------------------
(* Suppressed changes.                                                     *)

(* The environment in which skip_next does what it is for: no callback     *)
(* begins a write transaction, no commit fails, and a Realm of the process *)
(* that commits has waited for the worker.                                 *)
OrderlyWrites == Allowed \cap {"nestedWrite", "failedCommit", "idleNotifier"} = {}

(* The next change of the worker is the one to be skipped: its commit is   *)
(* still to come, or is the version at which the worker will stop, or at   *)
(* which it is about to.                                                   *)
AboutToSkip ==
    /\ m_has_run
    /\ \/ writing /\ m_sg_version = latest
       \/ m_notifier_skip_version = m_sg_version + 1
       \/ worker = "skip" /\ skip_version = m_sg_version + 1

(* A callback that is to skip has nothing accumulated, and what it will be *)
(* spared is what its holder asked for.                                    *)
Hushed(c) ==
    /\ c.accumulated_changes = {}
    /\ m_async_error \/ (AboutToSkip /\ <<c.token, m_sg_version + 1>> \in hushed)

SparedInv   == \A t \in held : \A v \in dropped[t] : <<t, v>> \in hushed
SuppressInv == SparedInv /\ \A c \in Callbacks : c.skip_next => Hushed(c)

(* The skip version of the write that suppressed survives every step but   *)
(* the pass of the worker that uses it.                                    *)
LEMMA SkipStaysAhead ==
    ASSUME OrderlyWrites, TypeOK, VersionInv, PassInv, FreshInv, WriteInv,
           AboutToSkip, Callbacks # {}, [Next]_vars,
           ~WorkerSkip, ~WorkerRun, ~CancelWrite
    PROVE  m_sg_version' = m_sg_version /\ (m_async_error' \/ AboutToSkip')
  <1> USE DEF AboutToSkip
  <1>0. m_realm /\ listed
    BY DEF FreshInv, PassInv
  <1>1. ASSUME UNCHANGED <<m_has_run, m_sg_version, writing, latest, worker,
                           m_notifier_skip_version, skip_version>>
        PROVE  m_sg_version' = m_sg_version /\ AboutToSkip'
    BY <1>1
  <1>2. ASSUME UNCHANGED <<m_has_run, m_sg_version, latest, worker,
                           m_notifier_skip_version, skip_version>>, ~writing
        PROVE  m_sg_version' = m_sg_version /\ AboutToSkip'
    BY <1>2
  <1>3. CASE BeginWait \/ deliver_error
    BY <1>2, <1>3 DEF BeginWait, deliver_error, notifierVars, handover, workerVars
  <1>4. CASE CommitWrite
    <2>1. /\ UNCHANGED <<m_has_run, m_sg_version>>
          /\ m_notifier_skip_version' = latest + 1
      BY <1>0, <1>4 DEF CommitWrite, notifierVars, handover
    <2>2. phase = "idle" /\ writing
      BY <1>4 DEF CommitWrite, MayEndWrite, OrderlyWrites
    <2>3. ~m_async_error => m_sg_version = latest
      BY <2>2 DEF WriteInv
    <2>4. UNCHANGED m_async_error
      BY <1>4 DEF CommitWrite
    <2> QED BY <2>1, <2>3, <2>4
  <1>5. CASE CommitElsewhere
    <2>1. /\ UNCHANGED <<m_has_run, m_sg_version, worker, skip_version>> /\ ~writing
          /\ \/ UNCHANGED m_notifier_skip_version
             \/ m_has_run => m_sg_version = latest
      BY <1>5 DEF CommitElsewhere, notifierVars, handover, OrderlyWrites
    <2>2. m_sg_version # latest
      BY <2>1, VersionNumbers DEF VersionInv, SkipVersionIsAhead
    <2> QED BY <2>1, <2>2
  <1>6. CASE WorkerStopsEarly
    <2>1. UNCHANGED <<m_has_run, m_sg_version, writing, latest, worker,
                      m_notifier_skip_version, skip_version>>
      BY <1>0, <1>6 DEF WorkerStopsEarly, notifierVars, handover, targetVars
    <2> QED BY <1>1, <2>1
  <1>7. CASE WorkerStart
    <2>1. /\ UNCHANGED <<m_has_run, m_sg_version, writing, latest>>
          /\ worker = "sleep" /\ skip_version' = m_notifier_skip_version
          /\ m_notifier_skip_version # 0 => worker' = "skip"
      BY <1>0, <1>7 DEF WorkerStart, TakeSkipVersion, notifierVars, handover, targetVars
    <2> QED BY <2>1, VersionNumbers
  <1>8. CASE BeginWriteInCallback
    BY <1>8 DEF BeginWriteInCallback, OrderlyWrites
  <1>9. CASE \/ NotifyNothing \/ NotifyPackage \/ ErrorCount \/ WaitForNotifiers
             \/ PackageAfterWait \/ BeforeAdvanceDone \/ AfterAdvanceDone
             \/ ErrorRemove \/ DeliverErrorDone \/ AddCallback \/ Unregister
    BY <1>1, <1>9
       DEF NotifyNothing, NotifyPackage, ErrorCount, WaitForNotifiers,
           PackageAfterWait, BeforeAdvanceDone, AfterAdvanceDone, ErrorRemove,
           DeliverErrorDone, AddCallback, Unregister, notifierVars, handover,
           targetVars, workerVars
  <1>10. ASSUME NEW i, BeforeAdvance(i) \/ AfterAdvance(i) \/ DeliverError(i)
         PROVE  m_sg_version' = m_sg_version /\ AboutToSkip'
    BY <1>1, <1>10 DEF BeforeAdvance, AfterAdvance, DeliverError, handover, workerVars
  <1>11. ASSUME NEW t, ReleaseToken(t) \/ SuppressNext(t)
         PROVE  m_sg_version' = m_sg_version /\ AboutToSkip'
    BY <1>1, <1>11 DEF ReleaseToken, SuppressNext, handover, targetVars, workerVars
  <1>12. CASE UNCHANGED vars
    BY <1>1, <1>12 DEF vars, notifierVars, handover, targetVars, workerVars
  <1> QED
    BY <1>3, <1>4, <1>5, <1>6, <1>7, <1>8, <1>9, <1>10, <1>11, <1>12
       DEF Next, TargetSteps, WorkerSteps, UserSteps

(* A failed worker stays failed.                                           *)
LEMMA ErrorStays ==
    ASSUME [Next]_vars, m_async_error
    PROVE  m_async_error'
  BY DEF Next, TargetSteps, WorkerSteps, UserSteps, vars, workerVars,
         NotifyNothing, NotifyPackage, deliver_error, ErrorCount,
         WaitForNotifiers, PackageAfterWait, BeforeAdvance, AfterAdvance,
         DeliverError, BeforeAdvanceDone, AfterAdvanceDone, ErrorRemove,
         DeliverErrorDone, WorkerStopsEarly, WorkerStart, WorkerSkip, WorkerRun,
         AddCallback, ReleaseToken, SuppressNext, Unregister, BeginWait,
         BeginWriteInCallback, CommitWrite, CancelWrite, CommitElsewhere

(* SuppressInv survives every step.                                        *)
LEMMA SuppressStep ==
    ASSUME OrderlyWrites, TypeOK, PositionInv, VersionInv, PassInv, FreshInv,
           WriteInv, LedgerInv, SuppressInv, [Next]_vars
    PROVE  SuppressInv'
  <1> USE DEF SuppressInv
  <1>1. ASSUME ~WorkerSkip, ~WorkerRun, ~CancelWrite,
               NEW c \in Callbacks, c.skip_next, NEW d, d.token = c.token,
               d.accumulated_changes = c.accumulated_changes,
               \A p \in hushed : p[1] = c.token => p \in hushed'
        PROVE  Hushed(d)'
    <2>1. Hushed(c)
      BY <1>1
    <2>2. CASE m_async_error
      BY <1>1, <2>1, <2>2, ErrorStays DEF Hushed
    <2>3. CASE ~m_async_error
      <3>1. AboutToSkip /\ <<c.token, m_sg_version + 1>> \in hushed
        BY <2>1, <2>3 DEF Hushed
      <3>2. m_sg_version' = m_sg_version /\ (m_async_error' \/ AboutToSkip')
        BY <1>1, <3>1, SkipStaysAhead
      <3>3. <<d.token, m_sg_version' + 1>> \in hushed'
        BY <1>1, <3>1, <3>2
      <3> QED BY <1>1, <2>1, <3>2, <3>3 DEF Hushed
    <2> QED BY <2>2, <2>3
  <1>2. ASSUME ~WorkerSkip, ~WorkerRun, ~CancelWrite,
               UNCHANGED <<held, dropped, hushed>>,
               \A d \in Callbacks' : d.skip_next => \E c \in Callbacks :
                  /\ c.skip_next /\ d.token = c.token
                  /\ d.accumulated_changes = c.accumulated_changes
        PROVE  SuppressInv'
    <2>1. SparedInv'
      BY <1>2 DEF SparedInv
    <2>2. \A d \in Callbacks' : d.skip_next => Hushed(d)'
      BY <1>1, <1>2
    <2> QED BY <2>1, <2>2
  <1>3. ASSUME ~WorkerSkip, ~WorkerRun, ~CancelWrite,
               UNCHANGED <<held, dropped, hushed, m_callbacks>>
        PROVE  SuppressInv'
    BY <1>2, <1>3, SameCallbacks
  <1>4. CASE NotifyPackage \/ PackageAfterWait
    <2>0. UNCHANGED <<held, dropped, hushed, workerVars>> /\ ~MayEndWrite
      BY <1>4 DEF NotifyPackage, PackageAfterWait, ledger, MayEndWrite
    <2>1. /\ UNCHANGED <<held, dropped, hushed>>
          /\ ~WorkerSkip /\ ~WorkerRun /\ ~CancelWrite
      BY <2>0 DEF WorkerSkip, WorkerRun, CancelWrite, workerVars
    <2>2. CASE package_for_delivery
      <3>1. \A d \in Callbacks' : d.skip_next => \E c \in Callbacks :
               /\ c.skip_next /\ d.token = c.token
               /\ d.accumulated_changes = c.accumulated_changes
        <4> SUFFICES ASSUME NEW d \in Callbacks', d.skip_next
                     PROVE  \E c \in Callbacks :
                               /\ c.skip_next /\ d.token = c.token
                               /\ d.accumulated_changes = c.accumulated_changes
          OBVIOUS
        <4>1. PICK c \in Callbacks : /\ d.token = c.token
                                     /\ d.accumulated_changes = {}
                                     /\ d.skip_next = c.skip_next
          BY <2>2, PackageCallbacks
        <4>2. c.accumulated_changes = {}
          BY <4>1 DEF Hushed
        <4> QED BY <4>1, <4>2
      <3> QED BY <1>2, <2>1, <3>1
    <2>3. CASE UNCHANGED m_callbacks
      BY <1>3, <2>1, <2>3
    <2> QED BY <1>4, <2>2, <2>3 DEF NotifyPackage, PackageAfterWait
  <1>5. ASSUME NEW i, AfterAdvance(i)
        PROVE  SuppressInv'
    <2>1. /\ UNCHANGED <<held, dropped, hushed>>
          /\ ~WorkerSkip /\ ~WorkerRun /\ ~CancelWrite
      BY <1>5 DEF AfterAdvance, WorkerSkip, WorkerRun, CancelWrite, workerVars,
                  MayEndWrite, OrderlyWrites
    <2>2. m_callbacks[i + 1] \in Callbacks
      BY <1>5, AfterVisits
    <2>3. \A d \in Callbacks' : d.skip_next => \E c \in Callbacks :
             /\ c.skip_next /\ d.token = c.token
             /\ d.accumulated_changes = c.accumulated_changes
      BY <1>5, <2>2, AfterCallbacks
    <2> QED BY <1>2, <2>1, <2>3
  <1>6. ASSUME NEW t, remove_callback(t), Forget(t), UNCHANGED workerVars,
               UNCHANGED writing,
               held' = held \/ held' = held \ {t}
        PROVE  SuppressInv'
    <2>1. \A u \in Tokens :
             /\ u # t => dropped'[u] = dropped[u]
             /\ u = t => dropped'[u] = {}
      BY <1>6, ForgetErases
    <2>2. \A p \in hushed : p[1] # t => p \in hushed'
      BY <1>6 DEF Forget
    <2>3. SparedInv'
      <3>1. held \subseteq Tokens
        BY DEF TypeOK, HistoryTypeOK
      <3> QED BY <1>6, <2>1, <2>2, <3>1 DEF SparedInv
    <2>4. ~WorkerSkip /\ ~WorkerRun
      BY <1>6 DEF WorkerSkip, WorkerRun, workerVars
    <2>5. CASE ~CancelWrite
      <3>1. \A d \in Callbacks' : d.skip_next => Hushed(d)'
        BY <1>1, <1>6, <2>2, <2>4, <2>5, EraseCallbacks
      <3> QED BY <2>3, <3>1
    <2>6. CASE CancelWrite
      BY <1>6, <2>6 DEF CancelWrite, MayEndWrite
    <2> QED BY <2>5, <2>6
  <1>7. CASE ErrorRemove
    BY <1>6, <1>7 DEF ErrorRemove
  <1>8. ASSUME NEW t, ReleaseToken(t)
        PROVE  SuppressInv'
    BY <1>6, <1>8 DEF ReleaseToken, targetVars
  <1>9. CASE WorkerSkip \/ WorkerRun
    <2>1. UNCHANGED <<held, hushed>>
      BY <1>9 DEF WorkerSkip, WorkerRun
    <2>2. PICK v \in Versions :
             /\ prepare_handover(v) /\ m_sg_version <= v /\ v \in Nat
             /\ v <= latest
             /\ worker = "skip" => v = skip_version
             /\ worker = "run" => v = version
      BY <1>9, PassGoesForward
    <2>3. \A d \in Callbacks' : d.skip_next = FALSE
      BY <2>2, HandoverCallbacks DEF Took
    <2>4. ~m_async_error /\ worker \in {"skip", "run"}
      BY <1>9 DEF WorkerSkip, WorkerRun, PassInv
    <2>5. AboutToSkip => \A x \in (m_sg_version + 1) .. v : x = m_sg_version + 1
      BY <2>2, <2>4, VersionNumbers DEF AboutToSkip, VersionInv, SkipVersionIsAhead
    <2>6. ASSUME NEW t \in held, NEW x \in dropped'[t]
          PROVE  <<t, x>> \in hushed'
      <3>1. t \in Tokens
        BY DEF TypeOK, HistoryTypeOK
      <3>2. CASE x \in dropped[t]
        BY <2>1, <3>2 DEF SparedInv
      <3>3. CASE x \notin dropped[t]
        <4>1. PICK c \in Callbacks : c.token = t /\ c.skip_next
          BY <2>2, <2>6, <3>1, <3>3, HandoverDrops
        <4>2. dropped'[t] = dropped[t] \cup ((m_sg_version + 1) .. v)
          BY <2>2, <3>1, <4>1, HandoverDrops
        <4>3. x \in (m_sg_version + 1) .. v
          BY <2>6, <3>3, <4>2
        <4>4. AboutToSkip /\ <<t, m_sg_version + 1>> \in hushed
          BY <2>4, <4>1 DEF Hushed
        <4>5. x = m_sg_version + 1
          BY <2>5, <4>3, <4>4
        <4> QED BY <2>1, <4>4, <4>5
      <3> QED BY <3>2, <3>3
    <2> QED BY <2>1, <2>3, <2>6 DEF SparedInv
  <1>10. CASE AddCallback
    <2>1. /\ UNCHANGED <<dropped, hushed, workerVars, writing>> /\ ~writing
          /\ held' = held \cup {m_next_token}
      BY <1>10 DEF AddCallback, targetVars
    <2>2. ~WorkerSkip /\ ~WorkerRun /\ ~CancelWrite
      BY <2>1 DEF WorkerSkip, WorkerRun, CancelWrite, MayEndWrite, workerVars
    <2>3. m_next_token \in Tokens
      BY <1>10, ConstantsAssumption DEF AddCallback, TypeOK, NotifierTypeOK, Tokens
    <2>4. dropped[m_next_token] = {}
      BY <2>3, PositionNumbers DEF LedgerInv, NewTokensInv
    <2>5. SparedInv'
      BY <2>1, <2>4 DEF SparedInv
    <2>6. \A d \in Callbacks' : d.skip_next => Hushed(d)'
      BY <1>1, <1>10, <2>1, <2>2, AddedCallbacks
    <2> QED BY <2>5, <2>6
  <1>11. ASSUME NEW t, SuppressNext(t)
         PROVE  SuppressInv'
    <2>1. /\ UNCHANGED <<held, dropped, workerVars, writing, m_has_run,
                         m_sg_version, latest>>
          /\ hushed' = hushed \cup {<<t, latest + 1>>}
          /\ writing /\ phase = "idle"
      BY <1>11 DEF SuppressNext, MayEndWrite, OrderlyWrites, handover, targetVars
    <2>2. ~WorkerSkip /\ ~WorkerRun /\ ~CancelWrite
      BY <2>1 DEF WorkerSkip, WorkerRun, CancelWrite, workerVars
    <2>3. SparedInv'
      BY <2>1 DEF SparedInv
    <2>4. ASSUME NEW d \in Callbacks', d.skip_next
          PROVE  Hushed(d)'
      <3>1. PICK c \in Callbacks :
               /\ d.token = c.token
               /\ d.accumulated_changes = c.accumulated_changes
               /\ d.token # t => d.skip_next = c.skip_next
        BY <1>11, <2>4, SuppressCallbacks
      <3>2. CASE d.token # t
        BY <1>1, <2>1, <2>2, <2>4, <3>1, <3>2
      <3>3. CASE d.token = t
        <4>1. \/ m_async_error /\ ~m_has_run
              \/ m_has_run /\ m_sg_version = latest /\ c.accumulated_changes = {}
          BY <2>1, <3>1 DEF WriteInv, PassInv
        <4>2. d.accumulated_changes = {}
          BY <3>1, <4>1 DEF FreshInv
        <4>3. UNCHANGED m_async_error
          BY <2>1 DEF workerVars
        <4>4. CASE m_async_error
          BY <4>2, <4>3, <4>4 DEF Hushed
        <4>5. CASE m_has_run /\ m_sg_version = latest
          <5>1. AboutToSkip'
            BY <2>1, <4>5 DEF AboutToSkip
          <5>2. <<d.token, m_sg_version' + 1>> \in hushed'
            BY <2>1, <3>3, <4>5
          <5> QED BY <4>2, <5>1, <5>2 DEF Hushed
        <4> QED BY <4>1, <4>4, <4>5
      <3> QED BY <3>2, <3>3
    <2> QED BY <2>3, <2>4
  <1>12. CASE CancelWrite
    <2>1. /\ UNCHANGED <<held, dropped, m_callbacks, m_has_run, m_sg_version,
                         latest, workerVars>>
          /\ \A p \in hushed : p[2] # latest + 1
          /\ hushed' = {p \in hushed : p[2] # latest + 1}
      BY <1>12 DEF CancelWrite, notifierVars, handover, OrderlyWrites
    <2>2. hushed' = hushed
      BY <2>1
    <2>3. SparedInv'
      BY <2>1, <2>2 DEF SparedInv
    <2>4. ASSUME NEW d \in Callbacks, d.skip_next
          PROVE  Hushed(d)'
      <3>1. Hushed(d)
        BY <2>4
      <3>2. UNCHANGED <<m_async_error, worker, m_notifier_skip_version, skip_version>>
        BY <2>1 DEF workerVars
      <3>3. CASE m_async_error
        BY <3>1, <3>2, <3>3 DEF Hushed
      <3>4. CASE ~m_async_error
        <4>1. <<d.token, m_sg_version + 1>> \in hushed /\ AboutToSkip
          BY <3>1, <3>4 DEF Hushed
        <4>2. m_sg_version # latest
          BY <2>1, <4>1
        <4> QED BY <2>1, <2>2, <3>1, <3>2, <4>1, <4>2 DEF Hushed, AboutToSkip
      <3> QED BY <3>3, <3>4
    <2> QED BY <2>1, <2>3, <2>4, SameCallbacks
  <1>13. ASSUME NEW i, BeforeAdvance(i) \/ DeliverError(i)
         PROVE  SuppressInv'
    <2>1. UNCHANGED <<held, dropped, hushed, m_callbacks, workerVars, writing>>
      BY <1>13 DEF BeforeAdvance, DeliverError, historyVars, ledger
    <2> QED BY <1>3, <2>1 DEF WorkerSkip, WorkerRun, CancelWrite, MayEndWrite, workerVars
  <1>14. CASE \/ NotifyNothing \/ ErrorCount \/ WaitForNotifiers
              \/ BeforeAdvanceDone \/ AfterAdvanceDone \/ DeliverErrorDone
              \/ Unregister
    <2>1. UNCHANGED <<held, dropped, hushed, m_callbacks, workerVars, writing>>
      BY <1>14 DEF NotifyNothing, ErrorCount, WaitForNotifiers, BeforeAdvanceDone,
                   AfterAdvanceDone, DeliverErrorDone, Unregister, targetVars,
                   notifierVars, historyVars, ledger
    <2> QED BY <1>3, <2>1 DEF WorkerSkip, WorkerRun, CancelWrite, MayEndWrite, workerVars
  <1>15. CASE deliver_error \/ BeginWait \/ CommitElsewhere
    <2>1. UNCHANGED <<held, dropped, hushed, m_callbacks, worker>> /\ ~writing
      BY <1>15 DEF deliver_error, BeginWait, CommitElsewhere, notifierVars,
                   workerVars, historyVars, ledger
    <2> QED BY <1>3, <2>1 DEF WorkerSkip, WorkerRun, CancelWrite, MayEndWrite
  <1>16. CASE WorkerStopsEarly \/ WorkerStart
    <2>1. /\ UNCHANGED <<held, dropped, hushed, m_callbacks, writing>>
          /\ worker = "sleep"
      BY <1>16 DEF WorkerStopsEarly, WorkerStart, targetVars, notifierVars,
                   historyVars, ledger
    <2> QED BY <1>3, <2>1 DEF WorkerSkip, WorkerRun, CancelWrite, MayEndWrite
  <1>17. CASE CommitWrite
    <2>1. UNCHANGED <<held, dropped, hushed, m_callbacks, worker>>
      BY <1>17 DEF CommitWrite, notifierVars, historyVars, ledger
    <2>2. latest' # latest
      BY <1>17, VersionNumbers DEF CommitWrite
    <2> QED BY <1>3, <2>1, <2>2 DEF WorkerSkip, WorkerRun, CancelWrite
  <1>18. CASE BeginWriteInCallback
    BY <1>18 DEF BeginWriteInCallback, OrderlyWrites
  <1>19. CASE UNCHANGED vars
    <2>1. UNCHANGED <<held, dropped, hushed, m_callbacks, worker, writing>>
      BY <1>19 DEF vars, notifierVars, targetVars, workerVars, historyVars, ledger
    <2> QED BY <1>3, <2>1 DEF WorkerSkip, WorkerRun, CancelWrite, MayEndWrite
  <1> QED
    BY <1>4, <1>5, <1>7, <1>8, <1>9, <1>10, <1>11, <1>12, <1>13, <1>14, <1>15,
       <1>16, <1>17, <1>18, <1>19 DEF Next, TargetSteps, WorkerSteps, UserSteps

(* In that environment only a change whose commit asked for it is kept     *)
(* from a callback, and the assertion of add_changes() holds: a callback   *)
(* that is to skip the next change has none accumulated.                   *)
THEOREM OnlySuppressedAreDropped ==
    ASSUME OrderlyWrites
    PROVE  Spec => []OnlySuppressedDropped
  <1>0. NoNestedWrite
    BY DEF OrderlyWrites, NoNestedWrite
  <1>1. Init => SuppressInv
    <2> SUFFICES ASSUME Init PROVE SuppressInv
      OBVIOUS
    <2>1. \A c \in Callbacks : c = NewCallback(0)
      BY DEF Init, Callbacks
    <2>2. 0 \in Tokens
      BY ConstantsAssumption DEF Tokens
    <2> QED BY <2>1, <2>2 DEF Init, SuppressInv, SparedInv, NewCallback
  <1>2. TypeOK /\ LoopInv /\ VersionInv /\ PassInv /\ FreshInv /\ WriteInv
           /\ LedgerInv /\ SuppressInv /\ [Next]_vars => SuppressInv'
    BY SuppressStep DEF LoopInv
  <1>3. SuppressInv => OnlySuppressedDropped
    BY DEF SuppressInv, SparedInv, Hushed, OnlySuppressedDropped, Callbacks
  <1>4. Spec => [](SnapshotInv /\ WriteInv)
    BY <1>0, WriteInvariant
  <1> QED BY <1>1, <1>2, <1>3, <1>4, TypeCorrect, LoopInvariant,
             VersionInvariant, PassInvariant, LedgerInvariant, PTL DEF Spec

-----------------------------------------------------------------------------
(* The accounting of changes.                                              *)

(* The environment in which no token is dropped in the delivery that made  *)
(* it and no callback begins a write transaction.                          *)
OrderlyCallbacks == Allowed \cap {"lateRelease", "nestedWrite"} = {}

(* v is in exactly one of four sets.                                       *)
Once(s, d, p, a, v) ==
    \/ v \in s /\ v \notin d /\ v \notin p /\ v \notin a
    \/ v \notin s /\ v \in d /\ v \notin p /\ v \notin a
    \/ v \notin s /\ v \notin d /\ v \in p /\ v \notin a
    \/ v \notin s /\ v \notin d /\ v \notin p /\ v \in a

(* The form in which ExactlyOnce() says so.                                *)
LEMMA OnceIsOne ==
    ASSUME NEW s, NEW d, NEW p, NEW a, NEW v, Once(s, d, p, a, v)
    PROVE  \E j \in 1..4 : \A k \in 1..4 : v \in <<s, d, p, a>>[k] <=> k = j
  <1>1. /\ <<s, d, p, a>>[1] = s /\ <<s, d, p, a>>[2] = d
        /\ <<s, d, p, a>>[3] = p /\ <<s, d, p, a>>[4] = a
    OBVIOUS
  <1>2. \A k \in 1..4 : k = 1 \/ k = 2 \/ k = 3 \/ k = 4
    OBVIOUS
  <1>3. 1 \in 1..4 /\ 2 \in 1..4 /\ 3 \in 1..4 /\ 4 \in 1..4
    OBVIOUS
  <1>4. CASE v \in s
    <2>1. \A k \in 1..4 : v \in <<s, d, p, a>>[k] <=> k = 1
      BY <1>1, <1>2, <1>4 DEF Once
    <2> QED BY <1>3, <2>1
  <1>5. CASE v \in d
    <2>1. \A k \in 1..4 : v \in <<s, d, p, a>>[k] <=> k = 2
      BY <1>1, <1>2, <1>5 DEF Once
    <2> QED BY <1>3, <2>1
  <1>6. CASE v \in p
    <2>1. \A k \in 1..4 : v \in <<s, d, p, a>>[k] <=> k = 3
      BY <1>1, <1>2, <1>6 DEF Once
    <2> QED BY <1>3, <2>1
  <1>7. CASE v \in a
    <2>1. \A k \in 1..4 : v \in <<s, d, p, a>>[k] <=> k = 4
      BY <1>1, <1>2, <1>7 DEF Once
    <2> QED BY <1>3, <2>1
  <1> QED BY <1>4, <1>5, <1>6, <1>7 DEF Once

(* Six facts about a callback c.  From its first call on each change is    *)
(* with it exactly once.                                                   *)
Accounted(c) ==
    c.initial_delivered =>
        \A v \in (first[c.token] + 1) .. m_sg_version :
            Once(seen[c.token], dropped[c.token], c.changes_to_deliver,
                 c.accumulated_changes, v)

(* Once it was called, nothing is left packaged for it between deliveries, *)
(* and it takes part in each of them.                                      *)
Emptied(c) ==
    c.initial_delivered => IF phase \in Delivery THEN c.token < packagedBelow
                           ELSE c.changes_to_deliver = {}

(* In a delivery to version local, the changes up to local are packaged    *)
(* and each later one is accumulated or dropped.                           *)
Parted(c) ==
    phase \in Delivery /\ c.token < packagedBelow =>
        /\ c.changes_to_deliver \subseteq 1..local
        /\ \A v \in c.accumulated_changes : v > local
        /\ \A v \in (local + 1) .. m_sg_version :
              v \in c.accumulated_changes <=> v \notin dropped[c.token]

(* The loop of after_advance() leaves nothing packaged behind it, and the  *)
(* callback it is in was called.                                           *)
Visited(c) ==
    phase = "after" /\ c.token <= running =>
        /\ c.changes_to_deliver = {}
        /\ c.token = running => c.initial_delivered

(* The Realm is ahead of the worker only by its own last commit, and then  *)
(* nothing has accumulated for a callback that was called.                 *)
UpToDate(c) ==
    c.initial_delivered /\ m_sg_version < current =>
        current = m_sg_version + 1 /\ c.accumulated_changes = {}

(* It was told nothing that the Realm does not show.                       *)
Shown(c) == seen[c.token] \subseteq 1..current

Sound(c) == /\ Accounted(c) /\ Emptied(c) /\ Parted(c)
            /\ Visited(c) /\ UpToDate(c) /\ Shown(c)

ChangesInv == \A c \in Callbacks : Sound(c)

(* The loop's bound is right outside deliver_error().                      *)
BoundInv == m_async_error \/ CountInv

(* BoundInv survives every step.                                           *)
LEMMA BoundStep ==
    ASSUME OrderlyCallbacks, TypeOK, LoopInv, PassInv, BoundInv, [Next]_vars
    PROVE  BoundInv'
  <1>1. CASE m_async_error
    BY <1>1, ErrorStays DEF BoundInv
  <1>2. CASE ~m_async_error
    <2>1. phase # "errorCount"
      BY <1>2 DEF PassInv, ErrorPhases
    <2> QED BY <1>2, <2>1, CountStep DEF BoundInv, OrderlyCallbacks
  <1> QED BY <1>1, <1>2

(* In a delivery the packaged callbacks are those the loop may visit.      *)
LEMMA VisitsPackaged ==
    ASSUME TypeOK, PassInv, BoundInv, phase \in Delivery
    PROVE  /\ m_callback_count \in Nat /\ packagedBelow <= m_next_token
           /\ \A i \in 1..Len(m_callbacks) :
                 i <= m_callback_count <=> m_callbacks[i].token < packagedBelow
  <1>1. ~m_async_error
    BY DEF PassInv
  <1>2. Delivering
    BY DEF Delivering, Loops, Delivery
  <1> QED BY <1>1, <1>2 DEF BoundInv, CountInv, PackagedInv

(* A callback that a step leaves as it is, in a step that neither begins   *)
(* nor ends a delivery.                                                    *)
LEMMA KeepSound ==
    ASSUME NEW c, Sound(c), NEW d, d.token = c.token,
           d.initial_delivered = c.initial_delivered,
           d.changes_to_deliver = c.changes_to_deliver,
           d.accumulated_changes = c.accumulated_changes,
           seen'[c.token] = seen[c.token], dropped'[c.token] = dropped[c.token],
           first'[c.token] = first[c.token],
           UNCHANGED <<m_sg_version, current>>,
           phase' = phase \/ (phase \notin Delivery /\ phase' \notin Delivery),
           phase \in Delivery => UNCHANGED <<local, packagedBelow>>,
           phase = "after" => UNCHANGED running
    PROVE  Sound(d)'
  <1> USE DEF Sound
  <1>1. Accounted(d)'
    BY DEF Accounted
  <1>2. Emptied(d)'
    BY DEF Emptied
  <1>3. Parted(d)'
    BY DEF Parted
  <1>4. Visited(d)'
    BY DEF Visited, Delivery
  <1>5. UpToDate(d)' /\ Shown(d)'
    BY DEF UpToDate, Shown
  <1> QED BY <1>1, <1>2, <1>3, <1>4, <1>5

(* A callback that was not called and that no delivery includes.           *)
LEMMA UncalledSound ==
    ASSUME NEW d, ~d.initial_delivered, seen'[d.token] = {},
           phase' \in Delivery => /\ ~(d.token < packagedBelow')
                                  /\ ~(d.token <= running')
    PROVE  Sound(d)'
  <1>1. Accounted(d)' /\ Emptied(d)' /\ UpToDate(d)' /\ Shown(d)'
    BY DEF Accounted, Emptied, UpToDate, Shown
  <1>2. Parted(d)' /\ Visited(d)'
    BY DEF Parted, Visited, Delivery
  <1> QED BY <1>1, <1>2 DEF Sound

(* A callback that was not called has been told nothing.                   *)
LEMMA UncalledToldNothing ==
    ASSUME LedgerInv, NEW c \in Callbacks, ~c.initial_delivered
    PROVE  seen[c.token] = {}
  BY DEF LedgerInv, Ahead

(* package_for_delivery(), in a step that begins a delivery or, with       *)
(* changes older than the Realm, does not.                                 *)
LEMMA PackageSound ==
    ASSUME TypeOK, LoopInv, LedgerInv, ChangesInv, package_for_delivery,
           phase \notin Delivery, phase \notin ErrorPhases,
           UNCHANGED <<m_sg_version, current, running, ledger>>,
           IF phase' \in Delivery THEN local' = m_sg_version
                                  ELSE m_sg_version < current,
           NEW d \in Callbacks'
    PROVE  Sound(d)'
  <1>1. PICK c \in Callbacks :
           /\ d.token = c.token /\ d.accumulated_changes = {}
           /\ d.changes_to_deliver = c.accumulated_changes
           /\ d.initial_delivered = c.initial_delivered
    BY PackageCallbacks
  <1>2. Sound(c) /\ Ahead(c)
    BY DEF ChangesInv, LedgerInv
  <1>3. UNCHANGED <<seen, dropped, first>> /\ packagedBelow' = m_next_token
    BY DEF ledger, package_for_delivery
  <1>4. c.token < m_next_token /\ c.token \in Nat /\ running = -1
    <2>1. running = NoToken
      BY DEF LoopInv, AtRest, Delivering, Loops, Delivery, ErrorPhases
    <2> QED BY <2>1, CallbacksTyped DEF LoopInv, PositionInv, Callbacks, NoToken
  <1>5. Accounted(d)'
    <2>1. c.initial_delivered => c.changes_to_deliver = {}
      BY <1>2 DEF Sound, Emptied
    <2> QED BY <1>1, <1>2, <1>3, <2>1 DEF Sound, Accounted, Once
  <1>6. Emptied(d)'
    BY <1>1, <1>2, <1>3, <1>4 DEF Sound, Emptied, UpToDate
  <1>7. Parted(d)'
    <2>1. phase' \in Delivery => (local' + 1) .. m_sg_version' = {}
      BY VersionNumbers
    <2>2. phase' \in Delivery => d.changes_to_deliver \subseteq 1..local'
      BY <1>1, <1>2 DEF Ahead
    <2> QED BY <1>1, <2>1, <2>2 DEF Parted
  <1>8. Visited(d)'
    BY <1>1, <1>4 DEF Visited
  <1>9. UpToDate(d)' /\ Shown(d)'
    BY <1>1, <1>2, <1>3 DEF Sound, UpToDate, Shown
  <1> QED BY <1>5, <1>6, <1>7, <1>8, <1>9 DEF Sound

(* A pass of the worker adds a change to, or drops it from, the account.   *)
LEMMA HandoverSound ==
    ASSUME TypeOK, LoopInv, VersionInv, LedgerInv, SnapshotInv, ChangesInv,
           WorkerSkip \/ WorkerRun, NEW d \in Callbacks'
    PROVE  Sound(d)'
  <1>1. PICK v \in Versions :
           /\ prepare_handover(v) /\ m_sg_version' = v /\ v \in Nat
           /\ m_sg_version <= v
    BY PassGoesForward
  <1> DEFINE change == (m_sg_version + 1) .. v
  <1>2. PICK c \in Callbacks : Took(c, d, change)
    BY <1>1, HandoverCallbacks
  <1>3. Sound(c) /\ Ahead(c) /\ c.token \in Tokens
    BY CallbacksTyped DEF ChangesInv, LedgerInv
  <1>4. dropped[c.token] \subseteq 1..m_sg_version /\ seen[c.token] \subseteq 1..m_sg_version
    BY <1>3 DEF LedgerInv, ToldInv
  <1>5. dropped'[c.token] = IF c.skip_next THEN dropped[c.token] \cup change
                            ELSE dropped[c.token]
    <2>1. CASE c.skip_next
      BY <1>1, <1>3, <2>1, HandoverDrops
    <2>2. CASE ~c.skip_next
      <3>1. \A e \in Callbacks : e.token = c.token => ~e.skip_next
        BY <2>2, TokensDiffer DEF LoopInv
      <3> QED BY <1>1, <1>3, <2>2, <3>1, HandoverDrops
    <2> QED BY <2>1, <2>2
  <1>6. /\ UNCHANGED <<seen, first, current, local, packagedBelow, running>>
        /\ phase' = phase \/ (phase \notin Delivery /\ phase' \notin Delivery)
    BY DEF WorkerSkip, WorkerRun, NotifyWaiters, targetVars, Delivery
  <1>7. /\ d.token = c.token /\ d.initial_delivered = c.initial_delivered
        /\ d.changes_to_deliver = c.changes_to_deliver
        /\ d.accumulated_changes = IF c.skip_next THEN c.accumulated_changes
                                   ELSE c.accumulated_changes \cup change
    BY <1>2 DEF Took
  <1>8. \A x \in 1..m_sg_version : x \notin change
    BY VersionNumbers
  <1>9. \A n \in Nat : \A x \in n .. v :
           x \in change \/ x \in n .. m_sg_version
    BY <1>1, VersionNumbers
  <1>10. \A x \in change : x \in Nat /\ x > m_sg_version
    BY <1>1, VersionNumbers
  <1> HIDE DEF change
  <1>11. Accounted(d)'
    <2> SUFFICES ASSUME c.initial_delivered,
                        NEW x \in (first[c.token] + 1) .. v
                 PROVE  Once(seen[c.token], dropped'[c.token], c.changes_to_deliver,
                             d.accumulated_changes, x)
      BY <1>1, <1>6, <1>7 DEF Accounted
    <2>1. first[c.token] + 1 \in Nat
      BY <1>3, ConstantsAssumption DEF TypeOK, HistoryTypeOK, Versions
    <2>2. CASE x \in change
      <3>1. /\ x \notin seen[c.token] /\ x \notin dropped[c.token]
            /\ x \notin c.changes_to_deliver /\ x \notin c.accumulated_changes
        BY <1>3, <1>4, <1>8, <2>2 DEF Ahead
      <3> QED BY <1>5, <1>7, <2>2, <3>1 DEF Once
    <2>3. CASE x \notin change
      <3>1. x \in (first[c.token] + 1) .. m_sg_version
        BY <1>9, <2>1, <2>3
      <3>2. Once(seen[c.token], dropped[c.token], c.changes_to_deliver,
                 c.accumulated_changes, x)
        BY <1>3, <3>1 DEF Sound, Accounted
      <3>3. /\ x \in dropped'[c.token] <=> x \in dropped[c.token]
            /\ x \in d.accumulated_changes <=> x \in c.accumulated_changes
        BY <1>5, <1>7, <2>3
      <3> QED BY <3>2, <3>3 DEF Once
    <2> QED BY <2>2, <2>3
  <1>12. Emptied(d)'
    BY <1>3, <1>6, <1>7 DEF Sound, Emptied
  <1>13. Parted(d)'
    <2> SUFFICES ASSUME phase \in Delivery, c.token < packagedBelow
                 PROVE  /\ c.changes_to_deliver \subseteq 1..local
                        /\ \A x \in d.accumulated_changes : x > local
                        /\ \A x \in (local + 1) .. v :
                              x \in d.accumulated_changes <=> x \notin dropped'[c.token]
      BY <1>1, <1>6, <1>7 DEF Parted
    <2>1. /\ c.changes_to_deliver \subseteq 1..local
          /\ \A x \in c.accumulated_changes : x > local
          /\ \A x \in (local + 1) .. m_sg_version :
                x \in c.accumulated_changes <=> x \notin dropped[c.token]
      BY <1>3 DEF Sound, Parted
    <2>2. \A x \in d.accumulated_changes : x > local
      <3>1. local <= m_sg_version
        BY DEF SnapshotInv
      <3>2. \A x \in change : x > local
        BY <1>10, <3>1, VersionNumbers
      <3> QED BY <1>7, <2>1, <3>2
    <2>3. ASSUME NEW x \in (local + 1) .. v
          PROVE  x \in d.accumulated_changes <=> x \notin dropped'[c.token]
      <3>1. CASE x \in change
        <4>1. x \notin dropped[c.token] /\ x \notin c.accumulated_changes
          BY <1>3, <1>4, <1>8, <3>1 DEF Ahead
        <4> QED BY <1>5, <1>7, <3>1, <4>1
      <3>2. CASE x \notin change
        <4>1. x \in (local + 1) .. m_sg_version
          BY <1>9, <3>2, VersionNumbers
        <4> QED BY <1>5, <1>7, <2>1, <3>2, <4>1
      <3> QED BY <3>1, <3>2
    <2> QED BY <2>1, <2>2, <2>3
  <1>14. Visited(d)'
    BY <1>3, <1>6, <1>7 DEF Sound, Visited, Delivery
  <1>15. UpToDate(d)'
    <2> SUFFICES ASSUME c.initial_delivered, v < current
                 PROVE  current = v + 1 /\ d.accumulated_changes = {}
      BY <1>1, <1>6, <1>7 DEF UpToDate
    <2>1. m_sg_version < current
      BY <1>1, VersionNumbers
    <2>2. current = m_sg_version + 1 /\ c.accumulated_changes = {}
      BY <1>3, <2>1 DEF Sound, UpToDate
    <2>3. v = m_sg_version
      BY <1>1, <2>2, VersionNumbers
    <2>4. change = {}
      BY <2>3, VersionNumbers DEF change
    <2> QED BY <1>7, <2>2, <2>3, <2>4
  <1>16. Shown(d)'
    BY <1>3, <1>6, <1>7 DEF Sound, Shown
  <1> QED BY <1>11, <1>12, <1>13, <1>14, <1>15, <1>16 DEF Sound

(* after_advance() hands a callback what is packaged for it.               *)
LEMMA AfterSound ==
    ASSUME TypeOK, LoopInv, PassInv, LedgerInv, SnapshotInv, BoundInv,
           ChangesInv, NEW i, AfterAdvance(i), NEW d \in Callbacks'
    PROVE  Sound(d)'
  <1> DEFINE c == m_callbacks[i + 1]
  <1>1. /\ i + 1 \in 1..Len(m_callbacks) /\ c \in Callbacks
        /\ c.token \in Tokens /\ c.token \in Nat
    BY AfterVisits, CallbacksTyped
  <1>2. /\ phase = "after" /\ phase' = "after" /\ running' = c.token
        /\ i \in Remaining
        /\ \A j \in Remaining : j < i => ~CallsAfter(m_callbacks[j + 1])
        /\ UNCHANGED <<dropped, m_sg_version, current, local, packagedBelow>>
    BY DEF AfterAdvance, IsNext, handover
  <1>3. \A u \in Tokens :
           /\ u # c.token => seen'[u] = seen[u] /\ first'[u] = first[u]
           /\ u = c.token =>
                 /\ seen'[u] = seen[u] \cup c.changes_to_deliver
                 /\ first'[u] = IF c.initial_delivered THEN first[u] ELSE current
    BY AfterWrites
  <1>4. \/ d \in Callbacks /\ d.token # c.token
        \/ /\ d.token = c.token /\ d.changes_to_deliver = {}
           /\ d.accumulated_changes = c.accumulated_changes
           /\ d.initial_delivered = TRUE
    BY AfterCallbacks DEF LoopInv
  <1>5. current = local
    BY <1>2 DEF SnapshotInv
  <1>6. i \in Nat /\ m_callback_count \in Nat /\ i + 1 <= m_callback_count
    BY <1>2, VisitsPackaged, RemainingInRange
       DEF Remaining, Delivery, TypeOK
  <1>7. c.token < packagedBelow
    BY <1>1, <1>2, <1>6, VisitsPackaged DEF Delivery
  <1> HIDE DEF c
  <1>8. CASE d.token # c.token
    <2>1. d \in Callbacks /\ Sound(d) /\ d.token \in Tokens
      BY <1>4, <1>8, CallbacksTyped DEF ChangesInv
    <2>2. seen'[d.token] = seen[d.token] /\ first'[d.token] = first[d.token]
      BY <1>3, <1>8, <2>1
    <2>3. Accounted(d)' /\ Emptied(d)'
      BY <1>2, <2>1, <2>2 DEF Sound, Accounted, Emptied
    <2>4. Parted(d)'
      BY <1>2, <2>1 DEF Sound, Parted
    <2>5. UpToDate(d)' /\ Shown(d)'
      BY <1>2, <2>1, <2>2 DEF Sound, UpToDate, Shown
    <2>6. ASSUME d.token <= c.token
          PROVE  d.changes_to_deliver = {}
      <3>1. PICK k \in 1..Len(m_callbacks) : d = m_callbacks[k]
        BY <2>1 DEF Callbacks
      <3>2. k < i + 1
        BY <1>1, <1>8, <2>6, <3>1, PositionNumbers DEF LoopInv, PositionInv, c
      <3>3. CASE k <= Incr(m_callback_index)
        <4>1. d.token <= running
          BY <3>1, <3>3 DEF LoopInv, PositionInv
        <4> QED BY <1>2, <2>1, <4>1 DEF Sound, Visited
      <3>4. CASE ~(k <= Incr(m_callback_index))
        <4>1. k - 1 \in Remaining /\ k - 1 < i /\ (k - 1) + 1 = k
          BY <1>6, <3>1, <3>2, <3>4, PositionNumbers DEF Remaining
        <4> QED BY <1>2, <3>1, <4>1 DEF CallsAfter
      <3> QED BY <3>3, <3>4
    <2>7. Visited(d)'
      BY <1>2, <1>8, <2>6 DEF Visited
    <2> QED BY <2>3, <2>4, <2>5, <2>7 DEF Sound
  <1>9. CASE d.token = c.token
    <2>1. Sound(c) /\ Ahead(c)
      BY <1>1 DEF ChangesInv, LedgerInv
    <2>2. /\ d.changes_to_deliver = {} /\ d.initial_delivered = TRUE
          /\ d.accumulated_changes = c.accumulated_changes
      BY <1>4, <1>9
    <2>3. /\ c.changes_to_deliver \subseteq 1..local
          /\ \A v \in c.accumulated_changes : v > local
          /\ \A v \in (local + 1) .. m_sg_version :
                v \in c.accumulated_changes <=> v \notin dropped[c.token]
      BY <1>2, <1>7, <2>1 DEF Sound, Parted, Delivery
    <2>4. seen'[c.token] = seen[c.token] \cup c.changes_to_deliver
      BY <1>1, <1>3
    <2>5. ASSUME NEW v \in (first'[c.token] + 1) .. m_sg_version
          PROVE  Once(seen'[c.token], dropped[c.token], {}, c.accumulated_changes, v)
      <3>1. CASE c.initial_delivered
        <4>1. Once(seen[c.token], dropped[c.token], c.changes_to_deliver,
                   c.accumulated_changes, v)
          BY <1>1, <1>3, <2>1, <3>1 DEF Sound, Accounted
        <4> QED BY <2>4, <4>1 DEF Once
      <3>2. CASE ~c.initial_delivered
        <4>1. seen[c.token] = {} /\ v \in (local + 1) .. m_sg_version
          BY <1>1, <1>3, <1>5, <2>1, <3>2 DEF Ahead
        <4>2. v \notin c.changes_to_deliver
          BY <2>3, <4>1, VersionNumbers
        <4> QED BY <2>3, <2>4, <4>1, <4>2 DEF Once
      <3> QED BY <3>1, <3>2
    <2>6. Accounted(d)'
      BY <1>2, <1>9, <2>2, <2>5 DEF Accounted
    <2>7. Emptied(d)' /\ Visited(d)'
      BY <1>2, <1>7, <1>9, <2>2 DEF Emptied, Visited, Delivery
    <2>8. Parted(d)'
      BY <1>2, <1>9, <2>2, <2>3 DEF Parted
    <2>9. UpToDate(d)'
      <3>1. ~(m_sg_version < current)
        BY <1>2, <1>5, VersionNumbers DEF SnapshotInv, Delivery
      <3> QED BY <1>2, <3>1 DEF UpToDate
    <2>10. Shown(d)'
      BY <1>2, <1>5, <1>9, <2>1, <2>3, <2>4 DEF Sound, Shown
    <2> QED BY <2>6, <2>7, <2>8, <2>9, <2>10 DEF Sound
  <1> QED BY <1>8, <1>9

(* When the loop of after_advance() is done, nothing is left packaged for  *)
(* a callback that was called.                                             *)
LEMMA AfterLeavesNothing ==
    ASSUME TypeOK, LoopInv, PassInv, BoundInv, ChangesInv,
           phase = "after", LoopIsDone(CallsAfter),
           NEW c \in Callbacks, c.initial_delivered
    PROVE  c.changes_to_deliver = {}
  <1>1. PICK k \in 1..Len(m_callbacks) : c = m_callbacks[k]
    BY DEF Callbacks
  <1>2. Sound(c)
    BY DEF ChangesInv
  <1>3. CASE k <= Incr(m_callback_index)
    <2>1. c.token <= running
      BY <1>1, <1>3 DEF LoopInv, PositionInv
    <2> QED BY <1>2, <2>1 DEF Sound, Visited
  <1>4. CASE ~(k <= Incr(m_callback_index))
    <2>1. c.token < packagedBelow
      BY <1>2 DEF Sound, Emptied, Delivery
    <2>2. m_callback_count \in Nat /\ k <= m_callback_count
      BY <1>1, <2>1, VisitsPackaged DEF Delivery
    <2>3. k - 1 \in Remaining /\ (k - 1) + 1 = k
      BY <1>1, <1>4, <2>2, PositionNumbers DEF Remaining
    <2> QED BY <1>1, <2>3 DEF LoopIsDone, CallsAfter
  <1> QED BY <1>3, <1>4

(* ChangesInv survives every step.                                         *)
LEMMA ChangesStep ==
    ASSUME OrderlyCallbacks, TypeOK, LoopInv, VersionInv, PassInv, FreshInv,
           SnapshotInv, WriteInv, LedgerInv, BoundInv, ChangesInv, [Next]_vars
    PROVE  ChangesInv'
  <1>0. MayEndWrite => phase = "idle" /\ writing
    BY DEF MayEndWrite, OrderlyCallbacks
  <1>1. ASSUME UNCHANGED <<m_callbacks, seen, dropped, first, m_sg_version, current>>,
               phase' = phase \/ (phase \notin Delivery /\ phase' \notin Delivery),
               phase \in Delivery => UNCHANGED <<local, packagedBelow>>,
               phase = "after" => UNCHANGED running
        PROVE  ChangesInv'
    <2>1. \A d \in Callbacks : Sound(d)'
      BY <1>1, KeepSound DEF ChangesInv
    <2> QED BY <1>1, <2>1, SameCallbacks DEF ChangesInv
  <1>2. ASSUME UNCHANGED <<m_callbacks, seen>>, phase' \notin Delivery,
               \A c \in Callbacks : ~c.initial_delivered
        PROVE  ChangesInv'
    <2>1. ASSUME NEW d \in Callbacks
          PROVE  Sound(d)'
      <3>1. seen'[d.token] = {}
        BY <1>2, UncalledToldNothing
      <3> QED BY <1>2, <3>1, UncalledSound
    <2> QED BY <1>2, <2>1, SameCallbacks DEF ChangesInv
  <1>3. CASE NotifyNothing
    <2>1. UNCHANGED <<m_callbacks, seen, dropped, first, m_sg_version, phase>>
            /\ phase = "idle"
      BY <1>3 DEF NotifyNothing, notifierVars, handover, historyVars, ledger
    <2>2. CASE UNCHANGED current
      BY <1>1, <2>1, <2>2 DEF Delivery
    <2>3. CASE ~m_realm \/ ~m_has_run
      BY <1>2, <2>1, <2>3 DEF FreshInv, Delivery
    <2> QED BY <1>3, <2>2, <2>3 DEF NotifyNothing
  <1>4. CASE NotifyPackage
    <2>1. /\ package_for_delivery /\ phase = "idle"
          /\ UNCHANGED <<m_sg_version, current, running, ledger>>
          /\ local' = m_sg_version
          /\ phase' = IF m_sg_version < current THEN "idle"
                      ELSE IF m_sg_version = current THEN "after" ELSE "before"
      BY <1>4 DEF NotifyPackage, handover
    <2>2. /\ phase \notin Delivery /\ phase \notin ErrorPhases
          /\ IF phase' \in Delivery THEN local' = m_sg_version
                                    ELSE m_sg_version < current
      BY <2>1 DEF Delivery, ErrorPhases
    <2> QED BY <2>1, <2>2, PackageSound DEF ChangesInv
  <1>5. CASE PackageAfterWait
    <2>1. CASE m_has_run /\ m_sg_version >= local
      <3>1. /\ package_for_delivery /\ phase \in {"check", "recheck"}
            /\ UNCHANGED <<m_sg_version, current, running, ledger>>
            /\ local' = m_sg_version /\ phase' \in Delivery
        BY <1>5, <2>1 DEF PackageAfterWait, handover, Delivery
      <3>2. phase \notin Delivery /\ phase \notin ErrorPhases
        BY <3>1 DEF Delivery, ErrorPhases
      <3> QED BY <3>1, <3>2, PackageSound DEF ChangesInv
    <2>2. CASE ~(m_has_run /\ m_sg_version >= local)
      <3>1. Callbacks = {}
        BY <1>5, <2>2, CallbacksTyped
           DEF PackageAfterWait, NotifierIsReady, LoopInv, HaveCallbacksExact
      <3>2. Callbacks' = {}
        BY <1>5, <3>1, PackageCallbacks, SameCallbacks DEF PackageAfterWait
      <3> QED BY <3>2 DEF ChangesInv
    <2> QED BY <2>1, <2>2
  <1>6. CASE deliver_error
    <2>1. UNCHANGED <<m_callbacks, seen>> /\ phase' = "errorCount" /\ m_async_error
      BY <1>6 DEF deliver_error, historyVars, ledger
    <2> QED BY <1>2, <2>1 DEF PassInv, FreshInv, Delivery
  <1>7. CASE ErrorCount \/ WaitForNotifiers \/ DeliverErrorDone
    <2>1. /\ UNCHANGED <<m_callbacks, seen, dropped, first, m_sg_version, current>>
          /\ phase \notin Delivery /\ phase' \notin Delivery
      BY <1>7 DEF ErrorCount, WaitForNotifiers, DeliverErrorDone, notifierVars,
                  handover, historyVars, ledger, Delivery
    <2> QED BY <1>1, <2>1 DEF Delivery
  <1>8. ASSUME NEW i, BeforeAdvance(i)
        PROVE  ChangesInv'
    <2>1. /\ UNCHANGED <<m_callbacks, seen, dropped, first, m_sg_version, current,
                         phase, local, packagedBelow>>
          /\ phase = "before"
      BY <1>8 DEF BeforeAdvance, handover, historyVars, ledger
    <2> QED BY <1>1, <2>1
  <1>9. ASSUME NEW i, DeliverError(i)
        PROVE  ChangesInv'
    <2>1. /\ UNCHANGED <<m_callbacks, seen, dropped, first, m_sg_version, current>>
          /\ phase \notin Delivery /\ phase' \notin Delivery
      BY <1>9 DEF DeliverError, handover, historyVars, ledger, Delivery
    <2> QED BY <1>1, <2>1 DEF Delivery
  <1>10. ASSUME NEW i, AfterAdvance(i)
         PROVE  ChangesInv'
    BY <1>10, AfterSound DEF ChangesInv
  <1>11. CASE BeforeAdvanceDone
    <2>1. /\ UNCHANGED <<m_callbacks, seen, dropped, first, m_sg_version, local,
                         packagedBelow>>
          /\ phase = "before" /\ phase' = "after" /\ running' = -1
          /\ current' = local
      BY <1>11 DEF BeforeAdvanceDone, handover, historyVars, ledger, NoToken
    <2>2. ASSUME NEW d \in Callbacks
          PROVE  Sound(d)'
      <3>1. Sound(d) /\ d.token \in Nat
        BY CallbacksTyped DEF ChangesInv
      <3>2. Accounted(d)' /\ Emptied(d)'
        BY <2>1, <3>1 DEF Sound, Accounted, Emptied, Delivery
      <3>3. Parted(d)' /\ Visited(d)'
        BY <2>1, <3>1 DEF Sound, Parted, Visited, Delivery
      <3>4. ~(m_sg_version < local) /\ current <= local
        BY <2>1, VersionNumbers DEF SnapshotInv, Delivery
      <3>5. UpToDate(d)'
        BY <2>1, <3>4 DEF UpToDate
      <3>6. 1..current \subseteq 1..local
        BY <3>4, VersionNumbers
      <3>7. Shown(d)'
        BY <2>1, <3>1, <3>6 DEF Sound, Shown
      <3> QED BY <3>2, <3>3, <3>5, <3>7 DEF Sound
    <2> QED BY <2>1, <2>2, SameCallbacks DEF ChangesInv
  <1>12. CASE AfterAdvanceDone
    <2>1. /\ UNCHANGED <<m_callbacks, seen, dropped, first, m_sg_version, current>>
          /\ phase = "after" /\ phase' = "idle" /\ LoopIsDone(CallsAfter)
      BY <1>12 DEF AfterAdvanceDone, handover, historyVars, ledger
    <2>2. ASSUME NEW d \in Callbacks
          PROVE  Sound(d)'
      <3>1. Sound(d)
        BY DEF ChangesInv
      <3>2. d.initial_delivered => d.changes_to_deliver = {}
        BY <2>1, AfterLeavesNothing
      <3>3. Emptied(d)'
        BY <2>1, <3>2 DEF Emptied, Delivery
      <3>4. Parted(d)' /\ Visited(d)'
        BY <2>1 DEF Parted, Visited, Delivery
      <3>5. Accounted(d)' /\ UpToDate(d)' /\ Shown(d)'
        BY <2>1, <3>1 DEF Sound, Accounted, UpToDate, Shown
      <3> QED BY <3>3, <3>4, <3>5 DEF Sound
    <2> QED BY <2>1, <2>2, SameCallbacks DEF ChangesInv
  <1>13. ASSUME NEW t, remove_callback(t), Forget(t),
                UNCHANGED <<m_sg_version, current, local, packagedBelow, running>>,
                phase' = phase \/ (phase \notin Delivery /\ phase' \notin Delivery)
         PROVE  ChangesInv'
    <2>1. ASSUME NEW d \in Callbacks'
          PROVE  Sound(d)'
      <3>1. d \in Callbacks /\ d.token # t /\ Sound(d) /\ d.token \in Tokens
        BY <1>13, EraseCallbacks, CallbacksTyped DEF ChangesInv, LoopInv
      <3>2. /\ seen'[d.token] = seen[d.token] /\ dropped'[d.token] = dropped[d.token]
            /\ first'[d.token] = first[d.token]
        BY <1>13, <3>1, ForgetErases
      <3> QED BY <1>13, <3>1, <3>2, KeepSound
    <2> QED BY <2>1 DEF ChangesInv
  <1>14. CASE ErrorRemove
    BY <1>13, <1>14 DEF ErrorRemove, handover, Delivery
  <1>15. ASSUME NEW t, ReleaseToken(t)
         PROVE  ChangesInv'
    BY <1>13, <1>15 DEF ReleaseToken, handover, targetVars
  <1>16. CASE WorkerSkip \/ WorkerRun
    BY <1>16, HandoverSound DEF ChangesInv
  <1>17. CASE AddCallback
    <2>1. UNCHANGED <<seen, dropped, first, m_sg_version, current, phase, local,
                      packagedBelow, running>>
      BY <1>17 DEF AddCallback, handover, targetVars
    <2>2. m_next_token \in Tokens
      BY <1>17, ConstantsAssumption DEF AddCallback, TypeOK, NotifierTypeOK, Tokens
    <2>3. seen[m_next_token] = {}
      BY <2>2, PositionNumbers DEF LedgerInv, NewTokensInv
    <2>4. ~(m_next_token <= running)
      BY PositionNumbers DEF LoopInv, PositionInv
    <2>5. phase \in Delivery => ~(m_next_token < packagedBelow)
      <3>1. packagedBelow \in Nat
        BY DEF TypeOK, HistoryTypeOK
      <3> QED BY <3>1, VisitsPackaged, PositionNumbers
    <2>6. ASSUME NEW d \in Callbacks'
          PROVE  Sound(d)'
      <3>1. CASE d \in Callbacks
        BY <2>1, <3>1, KeepSound DEF ChangesInv
      <3>2. CASE d \notin Callbacks
        <4>1. d.token = m_next_token /\ ~d.initial_delivered
          BY <1>17, <3>2, AddedCallbacks
        <4> QED BY <2>1, <2>3, <2>4, <2>5, <4>1, UncalledSound
      <3> QED BY <3>1, <3>2
    <2> QED BY <2>6 DEF ChangesInv
  <1>18. ASSUME NEW t, SuppressNext(t)
         PROVE  ChangesInv'
    <2>1. UNCHANGED <<seen, dropped, first, m_sg_version, current, phase, local,
                      packagedBelow, running>>
      BY <1>18 DEF SuppressNext, handover, targetVars
    <2>2. ASSUME NEW d \in Callbacks'
          PROVE  Sound(d)'
      <3>1. PICK c \in Callbacks :
               /\ d.token = c.token
               /\ d.accumulated_changes = c.accumulated_changes
               /\ d.changes_to_deliver = c.changes_to_deliver
               /\ d.initial_delivered = c.initial_delivered
        BY <1>18, SuppressCallbacks
      <3> QED BY <2>1, <3>1, KeepSound DEF ChangesInv
    <2> QED BY <2>2 DEF ChangesInv
  <1>19. CASE BeginWait
    <2>1. /\ UNCHANGED <<m_callbacks, seen, dropped, first, m_sg_version>>
          /\ phase = "idle" /\ phase' \in {"idle", "check"}
      BY <1>19 DEF BeginWait, notifierVars, handover, historyVars, ledger
    <2>2. CASE m_realm
      BY <1>1, <1>19, <2>1, <2>2 DEF BeginWait, Delivery
    <2>3. CASE ~m_realm
      BY <1>2, <2>1, <2>3 DEF FreshInv, Delivery
    <2> QED BY <2>2, <2>3
  <1>20. CASE CommitWrite
    <2>1. /\ UNCHANGED <<m_callbacks, seen, dropped, first, m_sg_version, phase>>
          /\ phase = "idle" /\ writing /\ current' = latest + 1
      BY <1>0, <1>20 DEF CommitWrite, notifierVars, handover, historyVars, ledger
    <2>2. ASSUME NEW d \in Callbacks
          PROVE  Sound(d)'
      <3>1. Sound(d)
        BY DEF ChangesInv
      <3>2. d.initial_delivered => m_sg_version = latest /\ d.accumulated_changes = {}
        BY <2>1 DEF WriteInv, PassInv, FreshInv
      <3>3. UpToDate(d)'
        BY <2>1, <3>2 DEF UpToDate
      <3>4. 1..current \subseteq 1..(latest + 1)
        BY VersionNumbers DEF SnapshotInv
      <3>5. Shown(d)'
        BY <2>1, <3>1, <3>4 DEF Sound, Shown
      <3>6. Accounted(d)' /\ Emptied(d)'
        BY <2>1, <3>1 DEF Sound, Accounted, Emptied, Delivery
      <3>7. Parted(d)' /\ Visited(d)'
        BY <2>1 DEF Parted, Visited, Delivery
      <3> QED BY <3>3, <3>5, <3>6, <3>7 DEF Sound
    <2> QED BY <2>1, <2>2, SameCallbacks DEF ChangesInv
  <1>21. CASE \/ CancelWrite \/ CommitElsewhere \/ WorkerStopsEarly
              \/ WorkerStart \/ Unregister
    <2>1. UNCHANGED <<m_callbacks, seen, dropped, first, m_sg_version, current,
                      phase, local, packagedBelow, running>>
      BY <1>21 DEF CancelWrite, CommitElsewhere, WorkerStopsEarly, WorkerStart,
                   Unregister, notifierVars, handover, targetVars, historyVars,
                   ledger
    <2> QED BY <1>1, <2>1
  <1>22. CASE BeginWriteInCallback
    BY <1>22 DEF BeginWriteInCallback, OrderlyCallbacks
  <1>23. CASE UNCHANGED vars
    <2>1. UNCHANGED <<m_callbacks, seen, dropped, first, m_sg_version, current,
                      phase, local, packagedBelow, running>>
      BY <1>23 DEF vars, notifierVars, handover, targetVars, historyVars, ledger
    <2> QED BY <1>1, <2>1
  <1> QED
    BY <1>3, <1>4, <1>5, <1>6, <1>7, <1>8, <1>9, <1>10, <1>11, <1>12, <1>14,
       <1>15, <1>16, <1>17, <1>18, <1>19, <1>20, <1>21, <1>22, <1>23
       DEF Next, TargetSteps, WorkerSteps, UserSteps

(* The environment of OrderlyCallbacks keeps all of the above.             *)
LEMMA ChangesInvariant ==
    ASSUME OrderlyCallbacks
    PROVE  Spec => [](TypeOK /\ SnapshotInv /\ ChangesInv)
  <1>0. NoNestedWrite
    BY DEF OrderlyCallbacks, NoNestedWrite
  <1>1. Init => BoundInv /\ ChangesInv
    <2> SUFFICES ASSUME Init PROVE BoundInv /\ ChangesInv
      OBVIOUS
    <2>1. BoundInv
      BY InitCountInv DEF BoundInv
    <2>2. \A c \in Callbacks : c = NewCallback(0)
      BY DEF Init, Callbacks
    <2>3. 0 \in Tokens
      BY ConstantsAssumption DEF Tokens
    <2>4. ASSUME NEW c \in Callbacks
          PROVE  Sound(c)
      <3>1. ~c.initial_delivered /\ seen[c.token] = {} /\ phase = "idle"
        BY <2>2, <2>3 DEF Init, NewCallback
      <3> QED BY <3>1 DEF Sound, Accounted, Emptied, Parted, Visited, UpToDate,
                          Shown, Delivery
    <2> QED BY <2>1, <2>4 DEF ChangesInv
  <1>2. TypeOK /\ LoopInv /\ VersionInv /\ PassInv /\ FreshInv /\ SnapshotInv
           /\ WriteInv /\ LedgerInv /\ BoundInv /\ ChangesInv /\ [Next]_vars
           => BoundInv' /\ ChangesInv'
    BY BoundStep, ChangesStep
  <1>3. Spec => [](SnapshotInv /\ WriteInv)
    BY <1>0, WriteInvariant
  <1> QED BY <1>1, <1>2, <1>3, TypeCorrect, LoopInvariant, VersionInvariant,
             PassInvariant, LedgerInvariant, PTL DEF Spec

(* In that environment no change is lost and none told twice: from its     *)
(* first call on, each change that the worker has computed is with a       *)
(* callback exactly once, whichever of the three threads moved it last.    *)
THEOREM ChangesAreAccountedFor ==
    ASSUME OrderlyCallbacks
    PROVE  Spec => []ChangesAccountedFor
  <1>1. TypeOK /\ SnapshotInv /\ ChangesInv => ChangesAccountedFor
    <2> SUFFICES ASSUME ChangesInv, NEW i \in 1..Len(m_callbacks),
                        m_callbacks[i].initial_delivered,
                        NEW v \in (first[m_callbacks[i].token] + 1) .. m_sg_version
                 PROVE  ExactlyOnce(m_callbacks[i], v)
      BY DEF ChangesAccountedFor
    <2> DEFINE c == m_callbacks[i]
    <2>1. Sound(c)
      BY DEF ChangesInv, Callbacks
    <2>2. Once(seen[c.token], dropped[c.token], c.changes_to_deliver,
               c.accumulated_changes, v)
      BY <2>1 DEF Sound, Accounted
    <2> HIDE DEF c
    <2>3. ExactlyOnce(c, v)
      BY <2>2, OnceIsOne DEF ExactlyOnce, With
    <2> QED BY <2>3 DEF c
  <1> QED BY <1>1, ChangesInvariant, PTL

(* There, a callback that after_advance() has called knows every change    *)
(* between its first call and the version its Realm reads, and no later    *)
(* one, although the worker goes on computing while callbacks run.         *)
THEOREM CalledAreInSync ==
    ASSUME OrderlyCallbacks
    PROVE  Spec => []InSyncWithSnapshot
  <1>1. TypeOK /\ SnapshotInv /\ ChangesInv => InSyncWithSnapshot
    <2> SUFFICES ASSUME TypeOK, SnapshotInv, ChangesInv,
                        NEW i \in 1..Len(m_callbacks), phase = "after",
                        running = m_callbacks[i].token
                 PROVE  /\ (first[running] + 1) .. current
                              \subseteq seen[running] \cup dropped[running]
                        /\ seen[running] \subseteq 1 .. current
      BY DEF InSyncWithSnapshot
    <2> DEFINE c == m_callbacks[i]
    <2>1. Sound(c) /\ c \in Callbacks
      BY DEF ChangesInv, Callbacks
    <2>2. c.token = running /\ c.token \in Tokens /\ c.token \in Nat
      BY <2>1, CallbacksTyped
    <2> HIDE DEF c
    <2>3. c.changes_to_deliver = {} /\ c.initial_delivered
      BY <2>1, <2>2 DEF Sound, Visited
    <2>4. seen[running] \subseteq 1 .. current
      BY <2>1, <2>2 DEF Sound, Shown
    <2>5. c.token < packagedBelow
      BY <2>1, <2>3 DEF Sound, Emptied, Delivery
    <2>6. \A v \in c.accumulated_changes : v > current
      BY <2>1, <2>5 DEF Sound, Parted, SnapshotInv, Delivery
    <2>7. current <= m_sg_version
      BY DEF SnapshotInv, Delivery
    <2>8. ASSUME NEW v \in (first[running] + 1) .. current
          PROVE  v \in seen[running] \cup dropped[running]
      <3>1. first[running] \in Nat
        BY <2>2, ConstantsAssumption DEF TypeOK, HistoryTypeOK, Versions
      <3>2. v \in (first[running] + 1) .. m_sg_version /\ ~(v > current)
        BY <2>7, <3>1, VersionNumbers
      <3>3. Once(seen[running], dropped[running], c.changes_to_deliver,
                 c.accumulated_changes, v)
        BY <2>1, <2>2, <2>3, <3>2 DEF Sound, Accounted
      <3> QED BY <2>3, <2>6, <3>2, <3>3 DEF Once
    <2> QED BY <2>4, <2>8
  <1> QED BY <1>1, ChangesInvariant, PTL

=============================================================================
