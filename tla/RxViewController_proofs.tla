----------------------- MODULE RxViewController_proofs -----------------------
(***************************************************************************)
(* Theorems about RxViewController, for any number of schedulers and of    *)
(* ticks.  A notify job finds its conversation; the variables have their   *)
(* types; and, however stores of different threads overlap, an array that  *)
(* is alive keeps its Table accessor and the token in a variable is not    *)
(* freed.                                                                  *)

(* The argument is one inductive invariant, in layers: where every job and *)
(* every thread is (QueueInv, JobsInv, PlaceInv), who can find which token *)
(* (TokenInv), and what m_ref_count counts (TableInv).  Each layer has     *)
(* lemmas for the kinds of step and one lemma that puts them together.     *)
(***************************************************************************)
EXTENDS RxViewController, SequenceTheorems, FiniteSetTheorems, TLAPS

(* What Append and Tail leave at each position of a queue of blocks.       *)

(* Append keeps every element in its place and puts x behind them.         *)
LEMMA AppendIndex ==
    ASSUME NEW S, NEW s \in Seq(S), NEW x \in S
    PROVE  /\ Len(s) \in Nat /\ Len(Append(s, x)) = Len(s) + 1
           /\ \A i \in 1..Len(Append(s, x)) :
                 \/ i \in 1..Len(s) /\ Append(s, x)[i] = s[i]
                 \/ i = Len(s) + 1 /\ Append(s, x)[i] = x
<1>1. /\ Len(s) \in Nat /\ Len(Append(s, x)) = Len(s) + 1
      /\ \A i \in 1..Len(s) : Append(s, x)[i] = s[i]
      /\ Append(s, x)[Len(s) + 1] = x
    BY AppendProperties
<1> QED
    BY <1>1

(* Tail takes the head away and moves every other element up by one.       *)
LEMMA TailIndex ==
    ASSUME NEW S, NEW s \in Seq(S), s # <<>>
    PROVE  /\ Len(s) \in Nat /\ Len(Tail(s)) = Len(s) - 1
           /\ 1 \in 1..Len(s) /\ Head(s) = s[1]
           /\ \A i \in 1..Len(Tail(s)) :
                 i + 1 \in 1..Len(s) /\ 1 < i + 1 /\ Tail(s)[i] = s[i + 1]
<1>1. /\ Len(s) \in Nat /\ Len(s) > 0 /\ Len(Tail(s)) = Len(s) - 1
      /\ \A i \in 1..Len(Tail(s)) : Tail(s)[i] = s[i + 1]
      /\ Head(s) = s[1]
    BY HeadTailProperties, EmptySeq, LenProperties
<1> QED
    BY <1>1

-----------------------------------------------------------------------------
(* The block of a tick runs once and finds its own flip still NO: a flip   *)
(* is YES only after its block has run, so no reset is ever scheduled and  *)
(* the conversation stays.                                                 *)
WritesInv ==
    /\ ticks \in 0..MaxTicks
    /\ writes \subseteq {"flip"} \X (1..ticks)
    /\ flip \in [Jobs -> BOOLEAN]
    /\ \A n \in Jobs : flip[n] => n <= ticks /\ <<"flip", n>> \notin writes

FlipInv == WritesInv /\ conversation

(* The application starts with the conversation, no block and no flip.     *)
LEMMA FlipInit == Init => FlipInv
BY AppAssumption DEF Init, FlipInv, WritesInv, Jobs

(* Every step keeps the invariant; only a tick and a writer's block change *)
(* anything that it speaks of.                                             *)
LEMMA FlipStep == FlipInv /\ [Next]_vars => FlipInv'
<1> SUFFICES ASSUME FlipInv, [Next]_vars PROVE FlipInv'
    OBVIOUS
<1> USE AppAssumption
<1>1. CASE __startJob
    <2>1. ticks' = ticks + 1 /\ ticks' \in 0..MaxTicks
        BY <1>1 DEF __startJob, FlipInv, WritesInv
    <2>2. writes' \subseteq {"flip"} \X (1..ticks')
        BY <1>1, <2>1 DEF __startJob, FlipInv, WritesInv
    <2>3. \A n \in Jobs : flip[n] => n <= ticks' /\ <<"flip", n>> \notin writes'
        BY <1>1, <2>1 DEF __startJob, FlipInv, WritesInv, Jobs
    <2> QED
        BY <1>1, <2>1, <2>2, <2>3 DEF __startJob, FlipInv, WritesInv
<1>2. ASSUME NEW b \in {"flip", "reset"} \X Jobs, WriterBlock(b)
      PROVE  FlipInv'
    <2>1. PICK n \in 1..ticks : b = <<"flip", n>>
        BY <1>2 DEF WriterBlock, FlipInv, WritesInv
    <2>2. n \in Jobs /\ b \in writes /\ ~flip[n]
        BY <1>2, <2>1 DEF WriterBlock, FlipInv, WritesInv, Jobs
    <2>3. /\ flip' = [flip EXCEPT ![n] = ~@]
          /\ conversation' = (conversation \/ ~flip[n])
          /\ writes' = writes \ {b}
          /\ ticks' = ticks
        BY <1>2, <2>1, <2>2 DEF WriterBlock, FlipOf
    <2>4. \A m \in Jobs : flip'[m] => m <= ticks' /\ <<"flip", m>> \notin writes'
        <3> SUFFICES ASSUME NEW m \in Jobs, flip'[m]
                     PROVE  m <= ticks' /\ <<"flip", m>> \notin writes'
            OBVIOUS
        <3>1. CASE m = n
            BY <2>1, <2>3, <3>1
        <3>2. CASE m # n
            BY <2>2, <2>3, <3>2 DEF FlipInv, WritesInv
        <3> QED
            BY <3>1, <3>2
    <2> QED
        BY <2>2, <2>3, <2>4 DEF FlipInv, WritesInv
<1>3. ASSUME NEW s \in Schedulers, ThreadSteps(s)
      PROVE  UNCHANGED <<ticks, writes, flip, conversation>>
    BY <1>3 DEF ThreadSteps, __notifyJob, RunJob, __doJobWithCID, LoadSlot,
                StoreSlot, RemoveAllObjects, AdvanceRealm, BeginDelivery,
                EndDelivery, Unbind, UnbindLocked, appVars
<1>4. CASE UNCHANGED <<ticks, writes, flip, conversation>>
    BY <1>4 DEF FlipInv, WritesInv
<1>5. CASE UNCHANGED vars
    BY <1>4, <1>5 DEF vars, appVars
<1> QED
    BY <1>1, <1>2, <1>3, <1>4, <1>5 DEF Next

(* NSParameterAssert(conversation) of __doJobWithCID never fails: the      *)
(* branch of __startJob: that would delete the conversation is dead code,  *)
(* because every call of __startJob: has a __block variable of its own.    *)
THEOREM ConversationIsFound == Spec => []ConversationFound
<1>1. FlipInv => ConversationFound
    BY DEF FlipInv, ConversationFound
<1> QED
    BY FlipInit, FlipStep, <1>1, PTL DEF Spec

-----------------------------------------------------------------------------
(* The parts of the invariant.                                             *)

(* Where a thread is in its job, whether or not it is unbinding an         *)
(* accessor.                                                               *)
At(s) == IF pc[s] \in {"unbind", "delete"} THEN ret[s] ELSE pc[s]

(* The two instance variables.                                             *)
Conv == "_testConversationTokens"
Msgs == "_testMessagesToken"

(* The job of the i-th block that is queued on scheduler s.                *)
Entry(s, i) == queue[s][i][2]

(* Job n has been started by the timer and has not begun.                  *)
Waits(n) == n <= ticks /\ table[n] = None /\ \A s \in Schedulers : job[s] # n

(* A queued job waits, and it is queued once, although __notifyJob: passes *)
(* it on from one scheduler to another.                                    *)
QueueInv ==
    /\ \A s \in Schedulers : \A i \in 1..Len(queue[s]) : Waits(Entry(s, i))
    /\ \A s, u \in Schedulers : \A i \in 1..Len(queue[s]), j \in 1..Len(queue[u]) :
          Entry(s, i) = Entry(u, j) => s = u /\ i = j

(* A job is run by one thread at most, and it observes once: its array has *)
(* an accessor exactly when __doJobWithCID has found the conversation.     *)
JobsInv ==
    /\ \A n \in Jobs : n > ticks => table[n] = None
    /\ \A s \in Schedulers : job[s] <= ticks
    /\ \A s, u \in Schedulers : job[s] = job[u] /\ job[s] # None => s = u
    /\ \A s \in Schedulers : job[s] = None <=> At(s) \in {"idle", "deliver"}
    /\ \A s \in Schedulers : pc[s] = "lookup" => table[job[s]] = None
    /\ \A s \in Schedulers : job[s] # None /\ pc[s] # "lookup" => table[job[s]] # None

(* A thread that unbinds has an accessor to unbind and goes on with its    *)
(* job (or its loop) afterwards; it has a copy of a callback exactly while *)
(* it delivers.                                                            *)
PlaceInv ==
    /\ \A s \in Schedulers : pc[s] \in {"unbind", "delete"} =>
          ret[s] \in {"idle", "load 2", "clear"} /\ unbinding[s] # None
    /\ \A s \in Schedulers : copied[s] # None <=> pc[s] = "deliver"

(* Nobody can drop the token of job n through variable k: it is neither in *)
(* it nor was it loaded from it by a thread inside a store.                *)
Unstored(n, k, store) ==
    slot[k] # n /\ \A s \in Schedulers : pc[s] = store => old[s] # n

(* The callback of a job is registered while its messageIDs token has a    *)
(* reference (the last release runs remove_callback).                      *)
CallbackInv == \A n \in Jobs : n \in callbacks <=> refs[Messages(n)] > 0

(* Tokens, and references to them, exist only of jobs that have observed;  *)
(* a delivery copies a callback of its own thread.                         *)
ObservedInv ==
    /\ \A n \in Jobs : table[n] = None => refs[<<n, Conv>>] = 0 /\ refs[<<n, Msgs>>] = 0
    /\ \A k \in Slots : slot[k] # None => table[slot[k]] # None
    /\ \A s \in Schedulers : old[s] # None => table[old[s]] # None
    /\ \A s \in Schedulers : copied[s] # None =>
          observer[copied[s]] = s /\ table[copied[s]] # None

(* Where a job has not stored its first, its second token yet.             *)
Early == {"load 1", "store 1"}
Late  == {"load 1", "store 1", "load 2", "store 2"}

(* Until a job stores a token, nobody else can find it, and the job's own  *)
(* array holds the one reference.  With this, the release of an old token  *)
(* in a store is never the release of a token that another thread still    *)
(* has to store.                                                           *)
UnstoredInv ==
    /\ \A s \in Schedulers : At(s) \in Early => Unstored(job[s], Conv, "store 1")
    /\ \A s \in Schedulers : At(s) \in Late =>
          Unstored(job[s], Msgs, "store 2") /\ refs[Messages(job[s])] = 1

(* What holds of the tokens, however stores overlap.                       *)
TokenInv == CallbackInv /\ ObservedInv /\ UnstoredInv

(* The arrays that refer to accessor a, the threads about to decrement its *)
(* count, and the threads that have decremented it to 0 and are about to   *)
(* take the lock.                                                          *)
Alive(n) == n \in callbacks \/ \E s \in Schedulers : copied[s] = n
Arrays(a) == {n \in Jobs : Alive(n) /\ table[n] = a}
Unbinders(a) == {s \in Schedulers : pc[s] = "unbind" /\ unbinding[s] = a}
Deleters(a) == {s \in Schedulers : pc[s] = "delete" /\ unbinding[s] = a}

(* An accessor is named after a job that refers to it; an interned         *)
(* accessor is alive.                                                      *)
AccessorInv ==
    /\ \A n \in Jobs : table[n] # None => table[table[n]] = table[n]
    /\ \A s \in Schedulers : m_subtable_map[s] # None =>
          /\ table[m_subtable_map[s]] = m_subtable_map[s]
          /\ destroyed[m_subtable_map[s]] = 0
    /\ \A s \in Schedulers : unbinding[s] # None => table[unbinding[s]] # None

(* m_ref_count counts the arrays and the pending unbind_ptr() calls,       *)
(* nothing else; an accessor that was deleted has none of either; and each *)
(* deletion is by another thread that reached 0.                           *)
Counted(a) == m_ref_count[a] = Cardinality(Arrays(a)) + Cardinality(Unbinders(a))
Gone(a) == Arrays(a) = {} /\ Unbinders(a) = {} /\ table[a] # None
Bounded(a) == destroyed[a] + Cardinality(Deleters(a)) <= Cardinality(Schedulers)

CountInv(a) == Counted(a) /\ (destroyed[a] # 0 => Gone(a)) /\ Bounded(a)

(* What holds of the accessors.                                            *)
TableInv == AccessorInv /\ \A a \in Jobs : CountInv(a)

(* The array of a running job holds a reference to the job's tokens.       *)
Holds(s, n) == job[s] = n /\ pc[s] # "lookup"
Held(n) == IF \E s \in Schedulers : Holds(s, n) THEN 1 ELSE 0

(* A token in its variable has the references of the variable and of the   *)
(* array, and no other; one that its job has not stored yet has that of    *)
(* the array.  What is released twice or never are tokens that were        *)
(* overwritten: they cannot come back into a variable.                     *)
StoredInv == \A n \in Jobs, k \in Slots : slot[k] = n => refs[<<n, k>>] = 1 + Held(n)
EarlyInv == \A s \in Schedulers : pc[s] \in Early => refs[<<job[s], Conv>>] = 1

ShareInv == StoredInv /\ EarlyInv

-----------------------------------------------------------------------------
(* Types.                                                                  *)

(* TypeOK in parts, one for each group of variables; the bounds of         *)
(* m_ref_count and of destroyed follow from TableInv.                      *)
AppTypes ==
    ticks \in 0..MaxTicks /\ queue \in [Schedulers -> Seq({"start", "job"} \X Jobs)]

ThreadTypes ==
    /\ pc \in [Schedulers -> Places] /\ ret \in [Schedulers -> Places]
    /\ job \in [Schedulers -> 0..MaxTicks]

TokenTypes ==
    /\ slot \in [Slots -> 0..MaxTicks] /\ old \in [Schedulers -> 0..MaxTicks]
    /\ refs \in [Tokens -> Int]
    /\ callbacks \subseteq Jobs /\ copied \in [Schedulers -> 0..MaxTicks]
    /\ observer \in [Jobs -> Schedulers \cup {None}]

TableTypes ==
    /\ table \in [Jobs -> 0..MaxTicks]
    /\ m_subtable_map \in [Schedulers -> 0..MaxTicks]
    /\ m_ref_count \in [Jobs -> Int]
    /\ unbinding \in [Schedulers -> 0..MaxTicks]
    /\ destroyed \in [Jobs -> Nat]

Types == AppTypes /\ ThreadTypes /\ TokenTypes /\ TableTypes

(* The variables have their types when the application starts.             *)
LEMMA TypesInit == Init => Types
<1> SUFFICES ASSUME Init PROVE Types
    OBVIOUS
<1> USE AppAssumption
<1>1. AppTypes
    BY DEF Init, AppTypes
<1>2. ThreadTypes
    BY DEF Init, ThreadTypes, Places, None
<1>3. TokenTypes
    BY DEF Init, TokenTypes, None
<1>4. TableTypes
    BY DEF Init, TableTypes, None
<1> QED
    BY <1>1, <1>2, <1>3, <1>4 DEF Types

(* The steps of the application, action by action.                         *)
LEMMA NextStep ==
    ASSUME Next
    PROVE  \/ __startJob
           \/ \E b \in {"flip", "reset"} \X Jobs : WriterBlock(b)
           \/ \E s \in Schedulers :
                 \/ \E u \in Schedulers : __notifyJob(s, u)
                 \/ RunJob(s) \/ __doJobWithCID(s)
                 \/ LoadSlot(s) \/ StoreSlot(s) \/ RemoveAllObjects(s)
                 \/ AdvanceRealm(s) \/ EndDelivery(s)
                 \/ \E n \in Jobs : BeginDelivery(s, n)
                 \/ Unbind(s) \/ \E read \in BOOLEAN : UnbindLocked(s, read)
BY DEF Next, ThreadSteps

(* The release of the last reference to the messageIDs token of job o      *)
(* removes its callback; it frees the array unless a delivery has a copy.  *)
LastToken(o) == o \in Jobs /\ refs[Messages(o)] = 1
Frees(o) == LastToken(o) /\ \A u \in Schedulers : copied[u] # o

(* What a release by thread s does besides counting: with o = None nothing *)
(* is removed.                                                             *)
Drops(s, o, next) ==
    /\ callbacks' = IF LastToken(o) THEN callbacks \ {o} ELSE callbacks
    /\ pc' = [pc EXCEPT ![s] = IF Frees(o) THEN "unbind" ELSE next]
    /\ Frees(o) => /\ ret' = [ret EXCEPT ![s] = next]
                   /\ unbinding' = [unbinding EXCEPT ![s] = table[o]]
    /\ ~Frees(o) => /\ ret' \in {ret, [ret EXCEPT ![s] = next]}
                    /\ unbinding' \in {unbinding, [unbinding EXCEPT ![s] = None]}
    /\ UNCHANGED <<appVars, copied, observer, table, m_subtable_map, m_ref_count, destroyed>>

(* What a store to variable k by thread s does to the tokens.              *)
Stores(s, k) ==
    /\ slot' = [slot EXCEPT ![k] = job[s]] /\ old' = [old EXCEPT ![s] = None]
    /\ job' = job
    /\ \A x \in Tokens :
          refs'[x] = IF x = <<job[s], k>> THEN refs[x] + 1
                     ELSE IF x = <<old[s], k>> THEN refs[x] - 1 ELSE refs[x]
    /\ refs' \in [Tokens -> Int]

(* Releasing the messageIDs token of job o drops it.                       *)
LEMMA ReleasedDrops ==
    ASSUME NEW s \in Schedulers, NEW o \in Jobs, NEW r, NEW next,
           Released(s, Messages(o), r, next), LastToken(o) <=> r[Messages(o)] = 0,
           UNCHANGED <<appVars, copied, observer, table, m_subtable_map, m_ref_count, destroyed>>
    PROVE  Drops(s, o, next)
<1>1. Messages(o)[1] = o /\ Messages(Messages(o)[1]) = Messages(o)
    BY DEF Messages
<1>2. callbacks' = IF LastToken(o) THEN callbacks \ {o} ELSE callbacks
    BY <1>1 DEF Released
<1>3. /\ pc' = [pc EXCEPT ![s] = IF Frees(o) THEN "unbind" ELSE next]
      /\ ret' = [ret EXCEPT ![s] = next]
      /\ unbinding' = [unbinding EXCEPT ![s] = IF Frees(o) THEN table[o] ELSE None]
    BY <1>1, Zenon DEF Released, Frees, GoTo
<1>4. UNCHANGED <<appVars, copied, observer, table, m_subtable_map, m_ref_count, destroyed>>
    OBVIOUS
<1> QED
    BY <1>2, <1>3, <1>4, Zenon DEF Drops

(* Releasing anything else drops nothing.                                  *)
LEMMA NothingDropped ==
    ASSUME NEW s \in Schedulers, NEW o, NEW next, ~LastToken(o),
           pc' = [pc EXCEPT ![s] = next], callbacks' = callbacks,
           ret' \in {ret, [ret EXCEPT ![s] = next]},
           unbinding' \in {unbinding, [unbinding EXCEPT ![s] = None]},
           UNCHANGED <<appVars, copied, observer, table, m_subtable_map, m_ref_count, destroyed>>
    PROVE  Drops(s, o, next)
<1>1. ~Frees(o)
    BY DEF Frees
<1> QED
    BY <1>1, Zenon DEF Drops

(* A store retains the new token and releases the old one; only the store  *)
(* to _testMessagesToken can remove a callback.                            *)
LEMMA StoreStep ==
    ASSUME Types, NEW s \in Schedulers, StoreSlot(s), job[s] # None, old[s] # job[s]
    PROVE  \/ /\ pc[s] = "store 1" 
              /\ Stores(s, Conv) /\ Drops(s, None, "load 2")
           \/ /\ pc[s] = "store 2"
              /\ Stores(s, Msgs) /\ Drops(s, old[s], "clear")
<1> USE AppAssumption
<1>0. /\ job[s] \in Jobs /\ old[s] \in 0..MaxTicks /\ refs \in [Tokens -> Int]
    BY DEF Types, ThreadTypes, TokenTypes, Jobs, None
<1>1. ASSUME NEW k \in Slots
      PROVE  LET x == <<old[s], k>>
                 r == ReleaseOld(Retain(refs, <<job[s], k>>), x)
             IN  /\ r \in [Tokens -> Int]
                 /\ \A y \in Tokens :
                       r[y] = IF y = <<job[s], k>> THEN refs[y] + 1
                              ELSE IF y = x THEN refs[y] - 1 ELSE refs[y]
    <2> DEFINE x == <<old[s], k>>
               q == Retain(refs, <<job[s], k>>)
    <2>1. x # <<job[s], k>> /\ <<job[s], k>> \in Tokens
        BY <1>0 DEF Tokens
    <2>2. q \in [Tokens -> Int] /\ \A y \in Tokens : q[y] = IF y = <<job[s], k>> THEN refs[y] + 1 ELSE refs[y]
        BY <1>0, <2>1 DEF Retain
    <2> HIDE DEF x, q
    <2>3. /\ ReleaseOld(q, x) \in [Tokens -> Int]
          /\ \A y \in Tokens : ReleaseOld(q, x)[y] = IF y = x THEN q[y] - 1 ELSE q[y]
        BY <2>2 DEF ReleaseOld
    <2> QED
        BY <2>1, <2>2, <2>3 DEF x, q
<1>2. CASE pc[s] = "store 1"
    <2>1. Storing[pc[s]] = Conv /\ Conv \in Slots /\ Conv # Msgs
        BY <1>2 DEF Storing, Conv, Msgs, Slots
    <2>2. Stores(s, Conv)
        BY <1>1, <1>2, <2>1 DEF StoreSlot, Stores, Released
    <2>3. ~LastToken(None) /\ ~Frees(None)
        BY DEF LastToken, Frees, None, Jobs
    <2>4. <<old[s], Conv>> # Messages(old[s])
        BY <2>1 DEF Messages, Msgs
    <2>5. UNCHANGED <<appVars, copied, observer, table, m_subtable_map, m_ref_count, destroyed>>
        BY Zenon DEF StoreSlot
    <2>8. Drops(s, None, "load 2")
        <3>1. CASE old[s] = None
            BY <1>2, <2>1, <2>3, <2>5, <3>1, NothingDropped DEF StoreSlot, GoTo
        <3>2. CASE old[s] # None
            <4>1. PICK r : Released(s, <<old[s], Conv>>, r, "load 2")
                BY <1>2, <2>1, <3>2 DEF StoreSlot
            <4>2. <<old[s], Conv>>[1] = old[s]
                OBVIOUS
            <4>3. /\ callbacks' = callbacks /\ pc' = [pc EXCEPT ![s] = "load 2"]
                  /\ ret' = [ret EXCEPT ![s] = "load 2"]
                  /\ unbinding' = [unbinding EXCEPT ![s] = None]
                BY <4>1, <4>2, <2>4, Zenon DEF Released, GoTo
            <4> QED
                BY <2>3, <2>5, <4>3, NothingDropped
        <3> QED
            BY <3>1, <3>2
    <2> QED
        BY <1>2, <2>2, <2>8
<1>3. CASE pc[s] = "store 2"
    <2>1. Storing[pc[s]] = Msgs /\ Msgs \in Slots
        BY <1>3 DEF Storing, Conv, Msgs, Slots
    <2>2. Stores(s, Msgs)
        BY <1>1, <1>3, <2>1 DEF StoreSlot, Stores, Released
    <2>5. UNCHANGED <<appVars, copied, observer, table, m_subtable_map, m_ref_count, destroyed>>
        BY Zenon DEF StoreSlot
    <2>3. CASE old[s] = None
        <3>1. ~LastToken(old[s]) /\ ~Frees(old[s])
            BY <2>3 DEF LastToken, Frees, None, Jobs
        <3>2. Drops(s, old[s], "clear")
            BY <1>3, <2>1, <2>3, <2>5, <3>1, NothingDropped DEF StoreSlot, GoTo
        <3> QED
            BY <1>3, <2>2, <3>2
    <2>4. CASE old[s] # None
        <3>1. old[s] \in Jobs /\ <<old[s], Msgs>> \in Tokens /\ <<old[s], Msgs>> = Messages(old[s])
            BY <1>0, <2>4 DEF Jobs, Tokens, Messages, Slots, Msgs, None
        <3>2. refs'[<<old[s], Msgs>>] = refs[Messages(old[s])] - 1
            BY <2>2, <3>1 DEF Stores
        <3>3. LastToken(old[s]) <=> refs'[<<old[s], Msgs>>] = 0
            BY <3>1, <3>2, <1>0 DEF LastToken
        <3>4. Released(s, <<old[s], Msgs>>, refs', "clear")
            BY <1>3, <2>1, <2>4 DEF StoreSlot, Released
        <3>5. Drops(s, old[s], "clear")
            BY <2>5, <3>1, <3>3, <3>4, ReleasedDrops
        <3> QED
            BY <1>3, <2>2, <3>5
    <2> QED
        BY <2>3, <2>4
<1> QED
    BY <1>2, <1>3 DEF StoreSlot

(* What removeAllObjects does to the tokens.                               *)
Clears(s) ==
    /\ job' = [job EXCEPT ![s] = None] /\ UNCHANGED <<slot, old>>
    /\ \A x \in Tokens : refs'[x] = IF x[1] = job[s] THEN refs[x] - 1 ELSE refs[x]
    /\ refs' \in [Tokens -> Int]

(* removeAllObjects releases both tokens of the job, and may drop the      *)
(* messageIDs token.                                                       *)
LEMMA ClearStep ==
    ASSUME Types, NEW s \in Schedulers, RemoveAllObjects(s), job[s] # None
    PROVE  Clears(s) /\ Drops(s, job[s], "idle")
<1> USE AppAssumption
<1>0. /\ job[s] \in Jobs /\ refs \in [Tokens -> Int]
    BY DEF Types, ThreadTypes, TokenTypes, Jobs, None
<1> DEFINE r == [x \in Tokens |-> IF x[1] = job[s] THEN refs[x] - 1 ELSE refs[x]]
<1>1. Released(s, Messages(job[s]), r, "idle")
    BY DEF RemoveAllObjects
<1>2. r \in [Tokens -> Int] /\ \A x \in Tokens : r[x] = IF x[1] = job[s] THEN refs[x] - 1 ELSE refs[x]
    BY <1>0
<1>3. /\ Messages(job[s]) \in Tokens /\ Messages(job[s])[1] = job[s]
      /\ Messages(Messages(job[s])[1]) = Messages(job[s])
    BY <1>0 DEF Messages, Tokens, Slots
<1>4. LastToken(job[s]) <=> r[Messages(job[s])] = 0
    BY <1>0, <1>2, <1>3 DEF LastToken
<1> HIDE DEF r
<1>5. Clears(s)
    BY <1>1, <1>2 DEF RemoveAllObjects, Clears, Released
<1>6. Drops(s, job[s], "idle")
    <2>1. UNCHANGED <<appVars, copied, observer, table, m_subtable_map, m_ref_count, destroyed>>
        BY Zenon DEF RemoveAllObjects
    <2> QED
        BY <2>1, <1>0, <1>1, <1>4, ReleasedDrops
<1> QED
    BY <1>5, <1>6

-----------------------------------------------------------------------------

(* The inductive invariant.                                                *)
Inv == /\ FlipInv /\ Types /\ PlaceInv /\ QueueInv /\ JobsInv /\ TokenInv
       /\ TableInv

(* What the timer and the writers leave alone.                             *)
threads == <<threadVars, tokenVars, copied, observer, tableVars>>

(* A thread that stores or clears has a job, and the token it stores is    *)
(* not the one it is about to release.                                     *)
LEMMA StoresOnce ==
    ASSUME Inv, NEW s \in Schedulers, pc[s] \in {"store 1", "store 2", "clear"}
    PROVE  job[s] # None /\ (pc[s] # "clear" => old[s] # job[s])
<1>1. At(s) = pc[s]
    BY DEF At
<1>2. job[s] # None
    BY <1>1 DEF Inv, JobsInv
<1>3. pc[s] # "clear" => old[s] # job[s]
    BY <1>1 DEF Inv, TokenInv, UnstoredInv, Unstored, Early, Late
<1> QED
    BY <1>2, <1>3

(* Every step keeps the types.                                             *)
LEMMA TypesStep == Inv /\ [Next]_vars => Types'
<1> SUFFICES ASSUME Inv, [Next]_vars PROVE Types'
    OBVIOUS
<1>a. AppTypes /\ ThreadTypes /\ TokenTypes /\ TableTypes
    BY DEF Inv, Types
<1> USE AppAssumption
<1>1. CASE __startJob
    <2>1. PICK s \in Schedulers : queue' = [queue EXCEPT ![s] = Append(@, <<"start", ticks + 1>>)]
        BY <1>1 DEF __startJob
    <2>2. ticks' = ticks + 1 /\ ticks' \in 0..MaxTicks /\ ticks + 1 \in Jobs
        BY <1>1, <1>a DEF __startJob, AppTypes, Jobs
    <2>3. Append(queue[s], <<"start", ticks + 1>>) \in Seq({"start", "job"} \X Jobs)
        BY <2>2, <1>a, AppendProperties DEF AppTypes
    <2>4. AppTypes'
        BY <2>1, <2>2, <2>3, <1>a DEF AppTypes
    <2>5. UNCHANGED threads
        BY <1>1, Zenon DEF __startJob, threads
    <2> QED
        BY <2>4, <2>5, <1>a DEF Types, ThreadTypes, TokenTypes, TableTypes, threads,
                                threadVars, tokenVars, tableVars
<1>2. CASE UNCHANGED <<ticks, queue, threads>>
    BY <1>2, <1>a DEF Types, AppTypes, ThreadTypes, TokenTypes, TableTypes, threads,
                            threadVars, tokenVars, tableVars
<1>3. ASSUME NEW b \in {"flip", "reset"} \X Jobs, WriterBlock(b) PROVE Types'
    BY <1>2, <1>3, Zenon DEF WriterBlock, threads
<1>4. CASE UNCHANGED vars
    BY <1>2, <1>4, Zenon DEF vars, threads, appVars
<1>h. ASSUME NEW s \in Schedulers, queue[s] # <<>>
      PROVE  Head(queue[s])[2] \in Jobs /\ Tail(queue[s]) \in Seq({"start", "job"} \X Jobs)
    <2>1. queue[s] \in Seq({"start", "job"} \X Jobs)
        BY <1>a DEF AppTypes
    <2>2. Head(queue[s]) \in {"start", "job"} \X Jobs
        BY <2>1, <1>h, HeadTailProperties
    <2> QED
        BY <2>1, <2>2, <1>h, HeadTailProperties
<1>b. ASSUME NEW s \in Schedulers, NEW n \in Jobs, Begin(s, n), ret' = ret PROVE ThreadTypes'
    <2>1. "lookup" \in Places /\ n \in 0..MaxTicks
        BY DEF Places, Jobs
    <2> QED
        BY <1>b, <2>1, <1>a DEF ThreadTypes, Begin, GoTo
<1>5. ASSUME NEW s \in Schedulers, NEW u \in Schedulers, __notifyJob(s, u) PROVE Types'
    <2> DEFINE n == Head(queue[s])[2]
    <2>1. n \in Jobs /\ Tail(queue[s]) \in Seq({"start", "job"} \X Jobs)
        BY <1>h, <1>5 DEF __notifyJob
    <2>2. Append(queue[u], <<"job", n>>) \in Seq({"start", "job"} \X Jobs)
        BY <2>1, <1>a, AppendProperties DEF AppTypes
    <2>3. ticks' = ticks /\ UNCHANGED <<ret, tokenVars, copied, observer, tableVars>>
        BY <1>5, Zenon DEF __notifyJob
    <2>4. CASE u = s
        <3>1. queue' = [queue EXCEPT ![s] = Tail(@)] /\ Begin(s, n)
            BY <1>5, <2>4 DEF __notifyJob
        <3>2. AppTypes'
            BY <3>1, <2>1, <2>3, <1>a DEF AppTypes
        <3>3. ThreadTypes'
            BY <3>1, <2>1, <2>3, <1>b
        <3> QED
            BY <2>3, <3>2, <3>3, <1>a DEF Types, TokenTypes, TableTypes, tokenVars, tableVars
    <2>5. CASE u # s
        <3>1. /\ queue' = [queue EXCEPT ![s] = Tail(@), ![u] = Append(@, <<"job", n>>)]
              /\ UNCHANGED <<pc, job>>
            BY <1>5, <2>5 DEF __notifyJob
        <3>2. AppTypes'
            BY <3>1, <2>1, <2>2, <2>3, <2>5, <1>a DEF AppTypes
        <3> QED
            BY <2>3, <3>1, <3>2, <1>a DEF Types, ThreadTypes, TokenTypes, TableTypes, tokenVars, tableVars
    <2> QED
        BY <2>4, <2>5
<1>6. ASSUME NEW s \in Schedulers, RunJob(s) PROVE Types'
    <2>1. Head(queue[s])[2] \in Jobs /\ Tail(queue[s]) \in Seq({"start", "job"} \X Jobs)
        BY <1>h, <1>6 DEF RunJob
    <2>2. AppTypes'
        BY <1>6, <2>1, <1>a DEF RunJob, AppTypes
    <2>3. ThreadTypes'
        BY <1>6, <2>1, <1>b DEF RunJob
    <2> QED
        BY <1>6, <2>2, <2>3, <1>a DEF RunJob, Types, TokenTypes, TableTypes, tokenVars, tableVars
<1>7. ASSUME NEW s \in Schedulers, __doJobWithCID(s) PROVE Types'
    <2>1. AppTypes'
        BY <1>7, <1>a DEF __doJobWithCID, appVars, AppTypes
    <2>2. ThreadTypes'
        BY <1>7, <1>a DEF __doJobWithCID, GoTo, ThreadTypes, Places
    <2>3. job[s] \in Jobs
        <3>1. At(s) = "lookup"
            BY <1>7 DEF __doJobWithCID, At
        <3> QED
            BY <3>1, <1>a DEF Inv, JobsInv, ThreadTypes, None, Jobs
    <2>4. TokenTypes'
        <3>1. /\ observer' = [observer EXCEPT ![job[s]] = s]
              /\ refs' = [x \in Tokens |-> IF x[1] = job[s] THEN 1 ELSE refs[x]]
              /\ callbacks' = callbacks \cup {job[s]}
              /\ UNCHANGED <<slot, old, copied>>
            BY <1>7 DEF __doJobWithCID
        <3> QED
            BY <3>1, <2>3, <1>a DEF TokenTypes
    <2>5. TableTypes'
        <3>1. PICK a \in Jobs :
                 /\ m_subtable_map' = [m_subtable_map EXCEPT ![s] = a]
                 /\ bind_ptr(a)
                 /\ table' = [table EXCEPT ![job[s]] = a]
            <4>1. m_subtable_map[s] # None => m_subtable_map[s] \in Jobs
                BY <1>a DEF TableTypes, None, Jobs
            <4> QED
                BY <4>1, <2>3, <1>7 DEF __doJobWithCID
        <3>2. UNCHANGED <<unbinding, destroyed>>
            BY <1>7 DEF __doJobWithCID
        <3>3. a \in 0..MaxTicks /\ m_ref_count[a] + 1 \in Int
            BY <1>a DEF Jobs, TableTypes
        <3> QED
            BY <3>1, <3>2, <3>3, <2>3, <1>a DEF bind_ptr, TableTypes
    <2> QED
        BY <2>1, <2>2, <2>4, <2>5 DEF Types
<1>8. ASSUME NEW s \in Schedulers, LoadSlot(s) PROVE Types'
    <2>1. ThreadTypes'
        BY <1>8, <1>a DEF LoadSlot, GoTo, ThreadTypes, Places
    <2>2. Storing[pc[s]] \in Slots
        BY <1>8 DEF LoadSlot, Storing, Slots
    <2>3. TokenTypes'
        BY <1>8, <2>2, <1>a DEF LoadSlot, TokenTypes
    <2> QED
        BY <1>8, <2>1, <2>3, <1>a DEF LoadSlot, Types, AppTypes, TableTypes, appVars, tableVars
<1>9. ASSUME NEW s \in Schedulers, NEW o \in 0..MaxTicks, NEW next \in Places, Drops(s, o, next)
      PROVE  /\ AppTypes' /\ TableTypes' /\ pc' \in [Schedulers -> Places]
             /\ ret' \in [Schedulers -> Places] /\ callbacks' \subseteq Jobs
             /\ copied' = copied /\ observer' = observer
    <2>1. UNCHANGED <<appVars, copied, observer, table, m_subtable_map, m_ref_count, destroyed>>
        BY <1>9, Zenon DEF Drops
    <2>2. AppTypes'
        BY <2>1, <1>a DEF AppTypes, appVars
    <2>3. callbacks' \subseteq Jobs
        BY <1>9, <1>a DEF Drops, TokenTypes
    <2>4. pc' \in [Schedulers -> Places]
        BY <1>9, <1>a DEF Drops, ThreadTypes, Places
    <2>5. ret' \in [Schedulers -> Places] /\ unbinding' \in [Schedulers -> 0..MaxTicks]
        <3>1. CASE Frees(o)
            BY <3>1, <1>9, <1>a DEF Drops, Frees, LastToken, ThreadTypes, TableTypes
        <3>2. CASE ~Frees(o)
            BY <3>2, <1>9, <1>a DEF Drops, ThreadTypes, TableTypes, None
        <3> QED
            BY <3>1, <3>2
    <2> QED
        BY <2>1, <2>2, <2>3, <2>4, <2>5, <1>a DEF TableTypes
<1>10. ASSUME NEW s \in Schedulers, NEW k \in Slots, NEW next \in Places, NEW o \in 0..MaxTicks,
              Stores(s, k), Drops(s, o, next)
       PROVE  Types'
    BY <1>9, <1>10, <1>a DEF Stores, Types, ThreadTypes, TokenTypes, None
<1>11. ASSUME NEW s \in Schedulers, StoreSlot(s) PROVE Types'
    <2>1. job[s] # None /\ old[s] # job[s]
        BY StoresOnce, <1>11 DEF StoreSlot
    <2>2. old[s] \in 0..MaxTicks /\ None \in 0..MaxTicks
        BY <1>a DEF TokenTypes, None
    <2>3. Conv \in Slots /\ Msgs \in Slots /\ "load 2" \in Places /\ "clear" \in Places
        BY DEF Conv, Msgs, Slots, Places
    <2> QED
        BY <2>1, <2>2, <2>3, <1>10, <1>11, StoreStep DEF Inv
<1>12. ASSUME NEW s \in Schedulers, RemoveAllObjects(s) PROVE Types'
    <2>1. job[s] # None /\ job[s] \in 0..MaxTicks
        BY StoresOnce, <1>12, <1>a DEF RemoveAllObjects, ThreadTypes
    <2>2. Clears(s) /\ Drops(s, job[s], "idle")
        BY <2>1, <1>12, ClearStep DEF Inv
    <2>3. "idle" \in Places
        BY DEF Places
    <2> QED
        BY <2>1, <2>2, <2>3, <1>9, <1>a DEF Clears, Types, ThreadTypes, TokenTypes, None
<1>13. ASSUME NEW s \in Schedulers, AdvanceRealm(s) PROVE Types'
    <2>1. ThreadTypes'
        BY <1>13, <1>a DEF AdvanceRealm, GoTo, ThreadTypes, Places
    <2>2. TableTypes'
        <3>1. m_subtable_map[s] \in 0..MaxTicks
            BY <1>a DEF TableTypes
        <3>2. m_ref_count' \in [Jobs -> Int]
            <4>1. PICK a \in Jobs : a = m_subtable_map[s]
                BY <3>1, <1>13 DEF AdvanceRealm, Jobs, None
            <4>2. m_ref_count' = [m_ref_count EXCEPT ![a] = @ + 1]
                BY <4>1, <1>13 DEF AdvanceRealm, bind_ptr
            <4>3. m_ref_count \in [Jobs -> Int]
                BY <1>a DEF TableTypes
            <4> QED
                BY <4>2, <4>3
        <3>3. unbinding' \in [Schedulers -> 0..MaxTicks]
            BY <3>1, <1>13, <1>a DEF AdvanceRealm, TableTypes
        <3> QED
            BY <3>2, <3>3, <1>13, <1>a DEF AdvanceRealm, TableTypes
    <2> QED
        BY <1>13, <2>1, <2>2, <1>a DEF AdvanceRealm, Types, AppTypes, TokenTypes, appVars, tokenVars
<1>14. ASSUME NEW s \in Schedulers, NEW n \in Jobs, BeginDelivery(s, n) PROVE Types'
    <2>1. ThreadTypes'
        BY <1>14, <1>a DEF BeginDelivery, GoTo, ThreadTypes, Places
    <2>2. TokenTypes'
        BY <1>14, <1>a DEF BeginDelivery, TokenTypes, tokenVars, Jobs
    <2> QED
        BY <1>14, <2>1, <2>2, <1>a DEF BeginDelivery, Types, AppTypes, TableTypes, appVars, tableVars
<1>15. ASSUME NEW s \in Schedulers, EndDelivery(s) PROVE Types'
    <2>1. ThreadTypes'
        BY <1>15, <1>a DEF EndDelivery, GoTo, ThreadTypes, Places
    <2>2. TokenTypes'
        BY <1>15, <1>a DEF EndDelivery, TokenTypes, tokenVars, None
    <2>3. copied[s] \in Jobs
        <3>1. copied[s] # None
            BY <1>15 DEF EndDelivery, Inv, PlaceInv
        <3> QED
            BY <3>1, <1>a DEF TokenTypes, None, Jobs
    <2>4. TableTypes'
        BY <1>15, <2>3, <1>a DEF EndDelivery, TableTypes
    <2> QED
        BY <1>15, <2>1, <2>2, <2>4, <1>a DEF EndDelivery, Types, AppTypes, appVars
<1>16. ASSUME NEW s \in Schedulers, Unbind(s) PROVE Types'
    <2>1. ThreadTypes'
        BY <1>16, <1>a DEF Unbind, GoTo, ThreadTypes, Places
    <2>2. unbinding[s] \in Jobs
        <3>1. unbinding[s] # None
            BY <1>16 DEF Unbind, Inv, PlaceInv
        <3> QED
            BY <3>1, <1>a DEF TableTypes, None, Jobs
    <2>3. TableTypes'
        BY <1>16, <2>2, <1>a DEF Unbind, TableTypes, None
    <2> QED
        BY <1>16, <2>1, <2>3, <1>a DEF Unbind, Types, AppTypes, TokenTypes, appVars, tokenVars
<1>17. ASSUME NEW s \in Schedulers, NEW read \in BOOLEAN, UnbindLocked(s, read) PROVE Types'
    <2>1. ThreadTypes'
        BY <1>17, <1>a DEF UnbindLocked, GoTo, ThreadTypes, Places
    <2>2. unbinding[s] \in Jobs
        <3>1. unbinding[s] # None
            BY <1>17 DEF UnbindLocked, Inv, PlaceInv
        <3> QED
            BY <3>1, <1>a DEF TableTypes, None, Jobs
    <2>3. /\ destroyed' \in [Jobs -> Nat]
          /\ m_subtable_map' \in [Schedulers -> 0..MaxTicks]
        BY <1>17, <2>2, <1>a DEF UnbindLocked, child_accessor_destroyed, TableTypes, None
    <2>4. TableTypes'
        BY <1>17, <2>3, <1>a DEF UnbindLocked, TableTypes, None
    <2> QED
        BY <1>17, <2>1, <2>4, <1>a DEF UnbindLocked, Types, AppTypes, TokenTypes, appVars, tokenVars
<1> QED
    BY NextStep, <1>1, <1>3, <1>4, <1>5, <1>6, <1>7, <1>8, <1>11, <1>12, <1>13, <1>14, <1>15, <1>16, <1>17

-----------------------------------------------------------------------------
(* Frames.                                                                 *)

(* A step of thread s leaves the local state of every other thread alone.  *)
Frame(s) ==
    \A u \in Schedulers \ {s} :
        /\ pc'[u] = pc[u] /\ ret'[u] = ret[u] /\ At(u)' = At(u) /\ job'[u] = job[u]
        /\ old'[u] = old[u] /\ copied'[u] = copied[u] /\ unbinding'[u] = unbinding[u]

(* The same for one other thread.                                          *)
ThreadFrame(u) ==
    /\ pc'[u] = pc[u] /\ ret'[u] = ret[u] /\ job'[u] = job[u]
    /\ old'[u] = old[u] /\ copied'[u] = copied[u] /\ unbinding'[u] = unbinding[u]

(* No action of a thread touches the local state of another: what threads  *)
(* share are the two variables, the counts, the callbacks and the maps.    *)
LEMMA Frames == ASSUME Inv, NEW s \in Schedulers, ThreadSteps(s) PROVE Frame(s)
<1> SUFFICES ASSUME NEW u \in Schedulers \ {s} PROVE ThreadFrame(u)
    BY DEF Frame, ThreadFrame, At
<1>a. ThreadTypes /\ TokenTypes /\ TableTypes
    BY DEF Inv, Types
<1> USE DEF ThreadFrame, GoTo
<1>1. ASSUME NEW v \in Schedulers, __notifyJob(s, v) PROVE ThreadFrame(u)
    BY <1>1, <1>a DEF __notifyJob, Begin, tokenVars, tableVars, ThreadTypes
<1>2. CASE RunJob(s)
    BY <1>2, <1>a DEF RunJob, Begin, tokenVars, tableVars, ThreadTypes
<1>3. CASE __doJobWithCID(s)
    BY <1>3, <1>a DEF __doJobWithCID, ThreadTypes
<1>4. CASE LoadSlot(s)
    BY <1>4, <1>a DEF LoadSlot, ThreadTypes, TokenTypes, tableVars
<1>5. ASSUME NEW o, NEW next, Drops(s, o, next), 
             job'[u] = job[u], old'[u] = old[u]
      PROVE  ThreadFrame(u)
    <2>1. pc'[u] = pc[u] /\ copied'[u] = copied[u]
        BY <1>5, <1>a DEF Drops, ThreadTypes
    <2>2. CASE Frees(o)
        BY <1>5, <2>1, <2>2, <1>a DEF Drops, ThreadTypes, TableTypes
    <2>3. CASE ~Frees(o)
        BY <1>5, <2>1, <2>3, <1>a DEF Drops, ThreadTypes, TableTypes
    <2> QED
        BY <2>2, <2>3
<1>6. CASE StoreSlot(s)
    <2>1. job[s] # None /\ old[s] # job[s]
        BY StoresOnce, <1>6 DEF StoreSlot
    <2>2. job'[u] = job[u] /\ old'[u] = old[u]
        BY <1>6, <1>a DEF StoreSlot, TokenTypes
    <2> QED
        BY <2>1, <2>2, <1>5, <1>6, StoreStep DEF Inv
<1>7. CASE RemoveAllObjects(s)
    <2>1. job[s] # None
        BY StoresOnce, <1>7 DEF RemoveAllObjects
    <2>2. job'[u] = job[u] /\ old'[u] = old[u]
        BY <1>7, <1>a DEF RemoveAllObjects, ThreadTypes
    <2> QED
        BY <2>1, <2>2, <1>5, <1>7, ClearStep DEF Inv
<1>8. CASE AdvanceRealm(s)
    BY <1>8, <1>a DEF AdvanceRealm, tokenVars, ThreadTypes, TableTypes
<1>9. ASSUME NEW n \in Jobs, BeginDelivery(s, n) PROVE ThreadFrame(u)
    BY <1>9, <1>a DEF BeginDelivery, tokenVars, tableVars, ThreadTypes, TokenTypes
<1>10. CASE EndDelivery(s)
    BY <1>10, <1>a DEF EndDelivery, tokenVars, ThreadTypes, TokenTypes, TableTypes
<1>11. CASE Unbind(s)
    BY <1>11, <1>a DEF Unbind, tokenVars, ThreadTypes, TableTypes
<1>12. ASSUME NEW read \in BOOLEAN, UnbindLocked(s, read) PROVE ThreadFrame(u)
    BY <1>12, <1>a DEF UnbindLocked, tokenVars, ThreadTypes, TableTypes
<1> QED
    BY <1>1, <1>2, <1>3, <1>4, <1>6, <1>7, <1>8, <1>9, <1>10, <1>11, <1>12 DEF ThreadSteps

(* A token that is held is of a job that has observed ...                  *)
LEMMA HeldIsObserved ==
    ASSUME TokenInv, NEW n \in Jobs, refs[Messages(n)] = 1 PROVE table[n] # None
<1>1. table[n] = None => refs[<<n, Msgs>>] = 0
    BY DEF TokenInv, ObservedInv
<1>2. <<n, Msgs>> = Messages(n)
    BY DEF Messages, Msgs
<1>3. refs[Messages(n)] # 0
    OBVIOUS
<1> QED
    BY <1>1, <1>2, <1>3, Zenon

(* ... and its callback is registered.                                     *)
LEMMA HeldIsRegistered ==
    ASSUME CallbackInv, NEW n \in Jobs, refs[Messages(n)] = 1 PROVE n \in callbacks
BY DEF CallbackInv

(* Every step keeps PlaceInv: an accessor is unbound only by a thread that *)
(* has one, and copies live as long as the delivery.                       *)
LEMMA PlaceStep == Inv /\ [Next]_vars => PlaceInv'
<1> SUFFICES ASSUME Inv, [Next]_vars PROVE PlaceInv'
    OBVIOUS
<1>a. ThreadTypes /\ TokenTypes /\ TableTypes /\ PlaceInv
    BY DEF Inv, Types
<1>1. CASE UNCHANGED threads
    BY <1>1, <1>a DEF threads, threadVars, tableVars, PlaceInv
<1>2. CASE __startJob \/ \E b \in {"flip", "reset"} \X Jobs : WriterBlock(b)
    BY <1>1, <1>2, Zenon DEF __startJob, WriterBlock, threads
<1>3. CASE UNCHANGED vars
    BY <1>1, <1>3, Zenon DEF vars, threads
<1>l. ASSUME NEW s \in Schedulers, Frame(s),
             pc'[s] \in {"unbind", "delete"} =>
                ret'[s] \in {"idle", "load 2", "clear"} /\ unbinding'[s] # None,
             copied'[s] # None <=> pc'[s] = "deliver"
      PROVE  PlaceInv'
    BY <1>l, <1>a DEF Frame, PlaceInv
<1>4. ASSUME NEW s \in Schedulers, ThreadSteps(s) PROVE PlaceInv'
    <2>0. Frame(s)
        BY <1>4, Frames
    <2> DEFINE Local == /\ pc'[s] \in {"unbind", "delete"} =>
                             ret'[s] \in {"idle", "load 2", "clear"} /\ unbinding'[s] # None
                        /\ copied'[s] # None <=> pc'[s] = "deliver"
    <2> SUFFICES Local
        BY <2>0, <1>l
    <2> USE DEF GoTo
    <2>1. ASSUME NEW v \in Schedulers, __notifyJob(s, v) PROVE Local
        BY <2>1, <1>a DEF __notifyJob, Begin, tokenVars, tableVars, ThreadTypes, PlaceInv
    <2>2. CASE RunJob(s)
        BY <2>2, <1>a DEF RunJob, Begin, tokenVars, tableVars, ThreadTypes, PlaceInv
    <2>3. CASE __doJobWithCID(s)
        BY <2>3, <1>a DEF __doJobWithCID, ThreadTypes, PlaceInv
    <2>4. CASE LoadSlot(s)
        BY <2>4, <1>a DEF LoadSlot, ThreadTypes, PlaceInv
    <2>5. ASSUME NEW o, NEW next \in {"idle", "load 2", "clear"}, Drops(s, o, next),
                 pc[s] # "deliver"
          PROVE  Local
        <3>1. copied'[s] = None
            BY <2>5, <1>a DEF Drops, PlaceInv
        <3>2. CASE Frees(o)
            <4>1. table[o] # None
                BY <3>2, HeldIsObserved DEF Frees, LastToken, Inv
            <4> QED
                BY <3>1, <3>2, <4>1, <2>5, <1>a DEF Drops, ThreadTypes, TableTypes
        <3>3. CASE ~Frees(o)
            BY <3>1, <3>3, <2>5, <1>a DEF Drops, ThreadTypes
        <3> QED
            BY <3>2, <3>3
    <2>6. CASE StoreSlot(s)
        <3>1. job[s] # None /\ old[s] # job[s]
            BY StoresOnce, <2>6 DEF StoreSlot
        <3> QED
            BY <3>1, <2>5, <2>6, StoreStep DEF Inv
    <2>7. CASE RemoveAllObjects(s)
        <3>1. job[s] # None /\ pc[s] = "clear"
            BY StoresOnce, <2>7 DEF RemoveAllObjects
        <3> QED
            BY <3>1, <2>5, <2>7, ClearStep DEF Inv
    <2>8. CASE AdvanceRealm(s)
        BY <2>8, <1>a DEF AdvanceRealm, ThreadTypes, TableTypes, PlaceInv
    <2>9. ASSUME NEW n \in Jobs, BeginDelivery(s, n) PROVE Local
        BY <2>9, <1>a DEF BeginDelivery, ThreadTypes, TokenTypes, Jobs, None
    <2>10. CASE EndDelivery(s)
        <3>1. table[copied[s]] # None
            BY <2>10, <1>a DEF EndDelivery, Inv, TokenInv, ObservedInv, PlaceInv
        <3> QED
            BY <3>1, <2>10, <1>a DEF EndDelivery, ThreadTypes, TokenTypes, TableTypes
    <2>11. CASE Unbind(s)
        BY <2>11, <1>a DEF Unbind, ThreadTypes, TableTypes, PlaceInv
    <2>12. ASSUME NEW read \in BOOLEAN, UnbindLocked(s, read) PROVE Local
        BY <2>12, <1>a DEF UnbindLocked, ThreadTypes, TableTypes, PlaceInv
    <2> QED
        BY <1>4, <2>1, <2>2, <2>3, <2>4, <2>6, <2>7, <2>8, <2>9, <2>10, <2>11, <2>12
           DEF ThreadSteps
<1> QED
    BY <1>2, <1>3, <1>4 DEF Next

-----------------------------------------------------------------------------
(* Every job is in one place.                                              *)

(* The jobs that are queued are jobs.                                      *)
LEMMA EntryType ==
    ASSUME Types
    PROVE  \A s \in Schedulers : \A i \in 1..Len(queue[s]) : Entry(s, i) \in Jobs
<1> SUFFICES ASSUME NEW s \in Schedulers, NEW i \in 1..Len(queue[s]) PROVE Entry(s, i) \in Jobs
    OBVIOUS
<1>1. queue[s] \in Seq({"start", "job"} \X Jobs)
    BY DEF Types, AppTypes
<1>2. queue[s][i] \in {"start", "job"} \X Jobs
    BY <1>1, ElementOfSeq
<1> QED
    BY <1>2 DEF Entry

(* A step of thread s that neither queues nor begins a job keeps the place *)
(* of every job.                                                           *)
LEMMA JobsLocal ==
    ASSUME Inv, NEW s \in Schedulers, Frame(s),
           UNCHANGED <<ticks, queue, table>>,
           job'[s] \in {job[s], None},
           job'[s] = None <=> At(s)' \in {"idle", "deliver"},
           pc'[s] # "lookup", pc[s] # "lookup"
    PROVE  QueueInv' /\ JobsInv'
<1>a. QueueInv /\ JobsInv /\ Types
    BY DEF Inv
<1>1. \A u \in Schedulers : job'[u] \in {job[u], None}
    BY DEF Frame
<1>2. \A u \in Schedulers : \A i \in 1..Len(queue[u]) : Entry(u, i) # None
    BY <1>a, EntryType DEF Jobs, None
<1>3. QueueInv'
    <2>1. \A u \in Schedulers : \A i \in 1..Len(queue[u]) : Waits(Entry(u, i)) => Waits(Entry(u, i))'
        BY <1>1, <1>2 DEF Waits, Entry
    <2> QED
        BY <2>1, <1>a DEF QueueInv, Entry
<1>4. JobsInv'
    <2>1. \A u \in Schedulers : job'[u] <= ticks'
        BY <1>1, <1>a, AppAssumption DEF JobsInv, Types, AppTypes, None
    <2>2. \A u \in Schedulers : job'[u] = None <=> At(u)' \in {"idle", "deliver"}
        BY <1>a DEF JobsInv, Frame
    <2>3. \A u, v \in Schedulers : job'[u] = job'[v] /\ job'[u] # None => u = v
        BY <1>1, <1>a DEF JobsInv
    <2>4. \A u \in Schedulers : pc'[u] = "lookup" => table'[job'[u]] = None
        BY <1>a DEF JobsInv, Frame
    <2>5. \A u \in Schedulers : job'[u] # None /\ pc'[u] # "lookup" => table'[job'[u]] # None
        BY <1>a DEF JobsInv, Frame
    <2> QED
        BY <2>1, <2>2, <2>3, <2>4, <2>5, <1>a DEF JobsInv
<1> QED
    BY <1>3, <1>4

(* Where the release of tokens leaves a thread in its job.                 *)
LEMMA DropsAt ==
    ASSUME ThreadTypes, NEW s \in Schedulers, NEW o, NEW next \in {"idle", "load 2", "clear"},
           Drops(s, o, next)
    PROVE  At(s)' = next /\ pc'[s] \in {next, "unbind"}
<1>1. CASE Frees(o)
    BY <1>1 DEF Drops, At, ThreadTypes
<1>2. CASE ~Frees(o)
    BY <1>2 DEF Drops, At, ThreadTypes
<1> QED
    BY <1>1, <1>2

(* Stores, deliveries and unbind_ptr() are such steps.                     *)
LEMMA JobsThread ==
    ASSUME Inv, NEW s \in Schedulers,
           \/ LoadSlot(s) \/ StoreSlot(s) \/ RemoveAllObjects(s) \/ AdvanceRealm(s)
           \/ (\E n \in Jobs : BeginDelivery(s, n)) \/ EndDelivery(s)
           \/ Unbind(s) \/ \E read \in BOOLEAN : UnbindLocked(s, read)
    PROVE  QueueInv' /\ JobsInv'
<1>a. ThreadTypes /\ PlaceInv /\ JobsInv
    BY DEF Inv, Types
<1>0. Frame(s)
    BY Frames DEF ThreadSteps
<1> DEFINE Local == /\ UNCHANGED <<ticks, queue, table>>
                    /\ job'[s] \in {job[s], None}
                    /\ job'[s] = None <=> At(s)' \in {"idle", "deliver"}
                    /\ pc'[s] # "lookup" /\ pc[s] # "lookup"
<1>u. Local => QueueInv' /\ JobsInv'
    BY <1>0, JobsLocal
<1>j. job[s] = None <=> At(s) \in {"idle", "deliver"}
    BY <1>a DEF JobsInv
<1> USE DEF GoTo
<1>1. CASE LoadSlot(s)
    <2>1. Local
        BY <1>1, <1>a, <1>j DEF LoadSlot, appVars, tableVars, At, ThreadTypes
    <2> QED
        BY <2>1, <1>u
<1>2. CASE StoreSlot(s)
    <2>1. job[s] # None /\ old[s] # job[s]
        BY StoresOnce, <1>2 DEF StoreSlot
    <2>2. \E o, next : next \in {"load 2", "clear"} /\ Drops(s, o, next) /\ job' = job
        BY <2>1, <1>2, StoreStep DEF Inv, Stores
    <2>3. At(s)' \in {"load 2", "clear"} /\ pc'[s] \in {"load 2", "clear", "unbind"} /\ job' = job
        BY <2>2, <1>a, DropsAt
    <2>4. Local
        BY <1>2, <2>1, <2>3 DEF StoreSlot, appVars
    <2> QED
        BY <2>4, <1>u
<1>3. CASE RemoveAllObjects(s)
    <2>1. job[s] # None
        BY StoresOnce, <1>3 DEF RemoveAllObjects
    <2>2. At(s)' = "idle" /\ pc'[s] \in {"idle", "unbind"} /\ job'[s] = None
        <3>1. Clears(s) /\ Drops(s, job[s], "idle")
            BY <2>1, <1>3, ClearStep DEF Inv
        <3>2. At(s)' = "idle" /\ pc'[s] \in {"idle", "unbind"}
            BY <3>1, <1>a, DropsAt
        <3>3. job'[s] = None
            BY <3>1, <1>a DEF Clears, ThreadTypes
        <3> QED
            BY <3>2, <3>3
    <2>3. Local
        BY <1>3, <2>2 DEF RemoveAllObjects, appVars
    <2> QED
        BY <2>3, <1>u
<1>4. CASE AdvanceRealm(s)
    <2>1. Local
        BY <1>4, <1>a, <1>j DEF AdvanceRealm, appVars, At, ThreadTypes
    <2> QED
        BY <2>1, <1>u
<1>5. ASSUME NEW n \in Jobs, BeginDelivery(s, n) PROVE QueueInv' /\ JobsInv'
    <2>1. Local
        BY <1>5, <1>a, <1>j DEF BeginDelivery, appVars, tableVars, At, ThreadTypes
    <2> QED
        BY <2>1, <1>u
<1>6. CASE EndDelivery(s)
    <2>1. Local
        BY <1>6, <1>a, <1>j DEF EndDelivery, appVars, At, ThreadTypes
    <2> QED
        BY <2>1, <1>u
<1>7. CASE Unbind(s)
    <2>1. ret[s] \in {"idle", "load 2", "clear"}
        BY <1>7, <1>a DEF Unbind, PlaceInv
    <2>2. Local
        BY <1>7, <2>1, <1>a, <1>j DEF Unbind, appVars, At, ThreadTypes
    <2> QED
        BY <2>2, <1>u
<1>8. ASSUME NEW read \in BOOLEAN, UnbindLocked(s, read) PROVE QueueInv' /\ JobsInv'
    <2>1. ret[s] \in {"idle", "load 2", "clear"}
        BY <1>8, <1>a DEF UnbindLocked, PlaceInv
    <2>2. Local
        BY <1>8, <2>1, <1>a, <1>j DEF UnbindLocked, appVars, At, ThreadTypes
    <2> QED
        BY <2>2, <1>u
<1> QED
    BY <1>1, <1>2, <1>3, <1>4, <1>5, <1>6, <1>7, <1>8

(* A thread that is idle begins the first job of its queue, which is then  *)
(* queued nowhere.                                                         *)
LEMMA JobsBegin ==
    ASSUME Inv, NEW s \in Schedulers, pc[s] = "idle", queue[s] # <<>>,
           Begin(s, Head(queue[s])[2]), queue' = [queue EXCEPT ![s] = Tail(@)],
           UNCHANGED <<ticks, table, ret>>, Frame(s)
    PROVE  QueueInv' /\ JobsInv'
<1>a. QueueInv /\ JobsInv /\ Types /\ AppTypes /\ ThreadTypes
    BY DEF Inv, Types
<1> DEFINE n == Entry(s, 1)
<1>1. /\ Len(queue[s]) \in Nat /\ 1 \in 1..Len(queue[s]) /\ Head(queue[s]) = queue[s][1]
      /\ \A i \in 1..Len(Tail(queue[s])) :
            i + 1 \in 1..Len(queue[s]) /\ 1 < i + 1 /\ Tail(queue[s])[i] = queue[s][i + 1]
    BY <1>a, TailIndex DEF AppTypes
<1>2. \A v \in Schedulers : v # s => queue'[v] = queue[v]
    BY <1>a DEF AppTypes
<1>3. queue'[s] = Tail(queue[s])
    BY <1>a DEF AppTypes
<1>4. n \in Jobs /\ Waits(n)
    BY <1>1, <1>a, EntryType DEF QueueInv
<1>5. job' = [job EXCEPT ![s] = n] /\ pc' = [pc EXCEPT ![s] = "lookup"]
    BY <1>1 DEF Begin, GoTo, Entry
<1>6. /\ job'[s] = n /\ pc'[s] = "lookup" /\ At(s)' = "lookup"
      /\ \A v \in Schedulers : v # s => job'[v] = job[v]
    BY <1>5, <1>a DEF ThreadTypes, At
<1> HIDE DEF n
<1>7. ASSUME NEW v \in Schedulers, NEW i \in 1..Len(queue'[v])
      PROVE  /\ v # s => i \in 1..Len(queue[v]) /\ Entry(v, i)' = Entry(v, i)
             /\ v = s => i + 1 \in 1..Len(queue[s]) /\ Entry(v, i)' = Entry(s, i + 1) /\ i + 1 # 1
    <2>1. CASE v # s
        BY <2>1, <1>2 DEF Entry
    <2>2. CASE v = s
        <3>1. i \in 1..Len(Tail(queue[s])) /\ queue'[v][i] = Tail(queue[s])[i]
            BY <2>2, <1>3
        <3>2. i + 1 \in 1..Len(queue[s]) /\ i + 1 # 1 /\ queue'[v][i] = queue[s][i + 1]
            BY <3>1, <1>1
        <3>3. Entry(v, i)' = Entry(s, i + 1)
            BY <3>2 DEF Entry
        <3> QED
            BY <2>2, <3>2, <3>3
    <2> QED
        BY <2>1, <2>2
<1>8. ASSUME NEW v \in Schedulers, NEW i \in 1..Len(queue'[v])
      PROVE  \E j \in 1..Len(queue[v]) : /\ Entry(v, i)' = Entry(v, j) /\ Entry(v, j) # n
                                         /\ j = IF v = s THEN i + 1 ELSE i
    <2>1. CASE v = s
        BY <2>1, <1>1, <1>7, <1>a DEF n, QueueInv
    <2>2. CASE v # s
        BY <2>2, <1>1, <1>7, <1>a DEF n, QueueInv
    <2> QED
        BY <2>1, <2>2
<1>9. QueueInv'
    <2>1. ASSUME NEW v \in Schedulers, NEW i \in 1..Len(queue'[v]) PROVE Waits(Entry(v, i))'
        <3>1. PICK j \in 1..Len(queue[v]) : Entry(v, i)' = Entry(v, j) /\ Entry(v, j) # n
            BY <1>8
        <3>2. Waits(Entry(v, j))
            BY <1>a DEF QueueInv
        <3> QED
            BY <3>1, <3>2, <1>6 DEF Waits
    <2>2. ASSUME NEW v \in Schedulers, NEW w \in Schedulers,
                 NEW i \in 1..Len(queue'[v]), NEW j \in 1..Len(queue'[w]),
                 Entry(v, i)' = Entry(w, j)'
          PROVE  v = w /\ i = j
        <3>1. PICK k \in 1..Len(queue[v]) : Entry(v, i)' = Entry(v, k) /\ k = IF v = s THEN i + 1 ELSE i
            BY <1>8
        <3>2. PICK l \in 1..Len(queue[w]) : Entry(w, j)' = Entry(w, l) /\ l = IF w = s THEN j + 1 ELSE j
            BY <1>8
        <3>3. v = w /\ k = l
            <4>1. Entry(v, k) = Entry(w, l)
                BY <2>2, <3>1, <3>2
            <4> QED
                BY <4>1, <1>a DEF QueueInv
        <3>4. CASE v = s
            BY <3>1, <3>2, <3>3, <3>4
        <3>5. CASE v # s
            BY <3>1, <3>2, <3>3, <3>5
        <3> QED
            BY <3>4, <3>5
    <2> QED
        BY <2>1, <2>2 DEF QueueInv
<1>10. JobsInv'
    <2>1. \A v \in Schedulers : job'[v] <= ticks'
        BY <1>4, <1>6, <1>a DEF JobsInv, Waits
    <2>2. \A v \in Schedulers : job'[v] = None <=> At(v)' \in {"idle", "deliver"}
        BY <1>4, <1>6, <1>a DEF JobsInv, Frame, Jobs, None
    <2>3. \A v, w \in Schedulers : job'[v] = job'[w] /\ job'[v] # None => v = w
        BY <1>4, <1>6, <1>a DEF JobsInv, Waits
    <2>4. \A v \in Schedulers : pc'[v] = "lookup" => table'[job'[v]] = None
        BY <1>4, <1>6, <1>a DEF JobsInv, Frame, Waits
    <2>5. \A v \in Schedulers : job'[v] # None /\ pc'[v] # "lookup" => table'[job'[v]] # None
        BY <1>6, <1>a DEF JobsInv, Frame
    <2> QED
        BY <2>1, <2>2, <2>3, <2>4, <2>5, <1>a DEF JobsInv
<1> QED
    BY <1>9, <1>10

(* __notifyJob: passes the first job of a queue on to another scheduler,   *)
(* where it was not queued.                                                *)
LEMMA JobsPassedOn ==
    ASSUME Inv, NEW s \in Schedulers, NEW u \in Schedulers, u # s, queue[s] # <<>>,
           queue' = [queue EXCEPT ![s] = Tail(@),
                                  ![u] = Append(@, <<"job", Head(queue[s])[2]>>)],
           UNCHANGED <<ticks, table, pc, ret, job>>
    PROVE  QueueInv' /\ JobsInv'
<1>a. QueueInv /\ JobsInv /\ Types /\ AppTypes
    BY DEF Inv, Types
<1> DEFINE n == Entry(s, 1)
<1>1. /\ Len(queue[s]) \in Nat /\ 1 \in 1..Len(queue[s]) /\ Head(queue[s]) = queue[s][1]
      /\ \A i \in 1..Len(Tail(queue[s])) :
            i + 1 \in 1..Len(queue[s]) /\ 1 < i + 1 /\ Tail(queue[s])[i] = queue[s][i + 1]
    BY <1>a, TailIndex DEF AppTypes
<1>2. n \in Jobs /\ Waits(n)
    BY <1>1, <1>a, EntryType DEF QueueInv
<1>3. /\ queue'[s] = Tail(queue[s]) /\ queue'[u] = Append(queue[u], <<"job", n>>)
      /\ \A v \in Schedulers : v \notin {s, u} => queue'[v] = queue[v]
    BY <1>1, <1>a DEF AppTypes, Entry
<1>4. /\ Len(queue[u]) \in Nat /\ Len(queue'[u]) = Len(queue[u]) + 1
      /\ \A i \in 1..Len(queue'[u]) :
            \/ i \in 1..Len(queue[u]) /\ queue'[u][i] = queue[u][i]
            \/ i = Len(queue[u]) + 1 /\ queue'[u][i] = <<"job", n>>
    BY <1>2, <1>3, <1>a, AppendIndex DEF AppTypes
<1> HIDE DEF n
<1> DEFINE Pos(v, i) == IF v = s THEN i + 1 ELSE i
           New(v, i) == v = u /\ i = Len(queue[u]) + 1
<1>5. ASSUME NEW v \in Schedulers, NEW i \in 1..Len(queue'[v])
      PROVE  \/ New(v, i) /\ Entry(v, i)' = n
             \/ /\ ~New(v, i) /\ Pos(v, i) \in 1..Len(queue[v]) 
                /\ Entry(v, i)' = Entry(v, Pos(v, i)) /\ Entry(v, i)' # n
    <2>1. CASE v = s
        <3>1. i + 1 \in 1..Len(queue[s]) /\ i + 1 # 1 /\ Entry(v, i)' = Entry(s, i + 1)
            <4>1. i \in 1..Len(Tail(queue[s])) /\ queue'[v][i] = Tail(queue[s])[i]
                BY <2>1, <1>3
            <4>2. i + 1 \in 1..Len(queue[s]) /\ i + 1 # 1 /\ queue'[v][i] = queue[s][i + 1]
                BY <4>1, <1>1
            <4> QED
                BY <4>2 DEF Entry
        <3>2. Entry(s, i + 1) # n
            BY <3>1, <1>1, <1>a DEF n, QueueInv
        <3> QED
            BY <2>1, <3>1, <3>2
    <2>2. CASE v = u
        <3>1. ASSUME i \in 1..Len(queue[u]), queue'[u][i] = queue[u][i]
              PROVE  Entry(v, i)' = Entry(v, i) /\ Entry(v, i)' # n
            BY <2>2, <3>1, <1>1, <1>a DEF n, QueueInv, Entry
        <3>2. ASSUME queue'[u][i] = <<"job", n>> PROVE Entry(v, i)' = n
            <4>1. Entry(v, i)' = queue'[u][i][2]
                BY <2>2 DEF Entry
            <4>2. <<"job", n>>[2] = n
                OBVIOUS
            <4> QED
                BY <3>2, <4>1, <4>2
        <3>3. i \in 1..Len(queue[u]) => ~New(v, i) /\ Pos(v, i) = i
            BY <2>2, <1>4
        <3>4. i \in 1..Len(queue'[u])
            BY <2>2
        <3>5. CASE i \in 1..Len(queue[u]) /\ queue'[u][i] = queue[u][i]
            BY <2>2, <3>1, <3>3, <3>5
        <3>6. CASE i = Len(queue[u]) + 1 /\ queue'[u][i] = <<"job", n>>
            BY <2>2, <3>2, <3>6
        <3> QED
            BY <3>4, <3>5, <3>6, <1>4
    <2>3. CASE v \notin {s, u}
        <3>1. i \in 1..Len(queue[v]) /\ Entry(v, i)' = Entry(v, i)
            BY <2>3, <1>3 DEF Entry
        <3>2. Entry(v, i) # n
            BY <2>3, <3>1, <1>1, <1>a DEF n, QueueInv
        <3> QED
            BY <2>3, <3>1, <3>2
    <2> QED
        BY <2>1, <2>2, <2>3
<1>6. QueueInv'
    <2>1. ASSUME NEW v \in Schedulers, NEW i \in 1..Len(queue'[v]) PROVE Waits(Entry(v, i))'
        <3>1. CASE Entry(v, i)' = n
            BY <3>1, <1>2 DEF Waits
        <3>2. CASE Pos(v, i) \in 1..Len(queue[v]) /\ Entry(v, i)' = Entry(v, Pos(v, i))
            <4>1. Waits(Entry(v, Pos(v, i)))
                BY <3>2, <1>a DEF QueueInv
            <4> QED
                BY <3>2, <4>1 DEF Waits
        <3> QED
            BY <3>1, <3>2, <1>5
    <2>2. ASSUME NEW v \in Schedulers, NEW w \in Schedulers,
                 NEW i \in 1..Len(queue'[v]), NEW j \in 1..Len(queue'[w]),
                 Entry(v, i)' = Entry(w, j)'
          PROVE  v = w /\ i = j
        <3>1. CASE New(v, i)
            BY <2>2, <3>1, <1>5
        <3>2. CASE ~New(v, i)
            <4>1. ~New(w, j)
                BY <2>2, <3>2, <1>5
            <4>2. Entry(v, Pos(v, i)) = Entry(w, Pos(w, j)) /\ Pos(v, i) \in 1..Len(queue[v])
                     /\ Pos(w, j) \in 1..Len(queue[w])
                BY <2>2, <3>2, <4>1, <1>5
            <4>3. v = w /\ Pos(v, i) = Pos(w, j)
                BY <4>2, <1>a DEF QueueInv
            <4> QED
                BY <4>3
        <3> QED
            BY <3>1, <3>2
    <2> QED
        BY <2>1, <2>2 DEF QueueInv
<1>7. JobsInv'
    BY <1>a DEF JobsInv, At
<1> QED
    BY <1>6, <1>7

(* A tick queues a job that is nowhere yet.                                *)
LEMMA JobsTick ==
    ASSUME Inv, __startJob PROVE QueueInv' /\ JobsInv'
<1>a. QueueInv /\ JobsInv /\ Types /\ AppTypes /\ ThreadTypes
    BY DEF Inv, Types
<1>1. PICK s \in Schedulers : queue' = [queue EXCEPT ![s] = Append(@, <<"start", ticks + 1>>)]
    BY DEF __startJob
<1>2. ticks \in Nat /\ ticks' = ticks + 1 /\ ticks + 1 \in Jobs
    BY <1>a, AppAssumption DEF __startJob, AppTypes, Jobs
<1>3. UNCHANGED <<pc, ret, job, table>>
    BY DEF __startJob, threadVars, tableVars
<1>4. /\ queue'[s] = Append(queue[s], <<"start", ticks + 1>>)
      /\ \A v \in Schedulers : v # s => queue'[v] = queue[v]
    BY <1>1, <1>a DEF AppTypes
<1>5. /\ Len(queue[s]) \in Nat /\ Len(queue'[s]) = Len(queue[s]) + 1
      /\ \A i \in 1..Len(queue'[s]) :
            \/ i \in 1..Len(queue[s]) /\ queue'[s][i] = queue[s][i]
            \/ i = Len(queue[s]) + 1 /\ queue'[s][i] = <<"start", ticks + 1>>
    BY <1>2, <1>4, <1>a, AppendIndex DEF AppTypes
<1>6. ASSUME NEW v \in Schedulers, NEW i \in 1..Len(queue'[v])
      PROVE  \/ v = s /\ i = Len(queue[s]) + 1 /\ Entry(v, i)' = ticks + 1
             \/ /\ i \in 1..Len(queue[v]) /\ Entry(v, i)' = Entry(v, i)
                /\ Entry(v, i)' # ticks + 1
    <2>1. ASSUME i \in 1..Len(queue[v]), queue'[v][i] = queue[v][i]
          PROVE  Entry(v, i)' = Entry(v, i) /\ Entry(v, i)' # ticks + 1
        <3>1. Entry(v, i)' = Entry(v, i)
            BY <2>1 DEF Entry
        <3>2. Entry(v, i) \in Jobs /\ Entry(v, i) <= ticks
            BY <2>1, <1>a, EntryType DEF QueueInv, Waits
        <3> QED
            BY <3>1, <3>2, <1>2 DEF Jobs
    <2>2. CASE v = s
        BY <2>1, <2>2, <1>5 DEF Entry
    <2>3. CASE v # s
        BY <2>1, <2>3, <1>4
    <2> QED
        BY <2>2, <2>3
<1>7. \A v \in Schedulers : job[v] \in Nat /\ job[v] <= ticks
    BY <1>a, AppAssumption DEF ThreadTypes, JobsInv
<1>8. QueueInv'
    <2>1. ASSUME NEW v \in Schedulers, NEW i \in 1..Len(queue'[v]) PROVE Waits(Entry(v, i))'
        <3>1. CASE Entry(v, i)' = ticks + 1
            BY <3>1, <1>2, <1>3, <1>7, <1>a DEF Waits, JobsInv
        <3>2. CASE i \in 1..Len(queue[v]) /\ Entry(v, i)' = Entry(v, i)
            <4>1. Waits(Entry(v, i)) /\ Entry(v, i) \in Jobs
                BY <3>2, <1>a, EntryType DEF QueueInv
            <4> QED
                BY <3>2, <4>1, <1>2, <1>3 DEF Waits, Jobs
        <3> QED
            BY <1>6, <3>1, <3>2
    <2>2. ASSUME NEW v \in Schedulers, NEW w \in Schedulers,
                 NEW i \in 1..Len(queue'[v]), NEW j \in 1..Len(queue'[w]),
                 Entry(v, i)' = Entry(w, j)'
          PROVE  v = w /\ i = j
        <3>1. CASE v = s /\ i = Len(queue[s]) + 1 /\ Entry(v, i)' = ticks + 1
            BY <3>1, <2>2, <1>6
        <3>2. CASE i \in 1..Len(queue[v]) /\ Entry(v, i)' = Entry(v, i) /\ Entry(v, i)' # ticks + 1
            BY <3>2, <2>2, <1>6, <1>a DEF QueueInv
        <3> QED
            BY <1>6, <3>1, <3>2
    <2> QED
        BY <2>1, <2>2 DEF QueueInv
<1>9. JobsInv'
    <2>1. \A n \in Jobs : n > ticks' => table'[n] = None
        BY <1>2, <1>3, <1>a DEF JobsInv, Jobs
    <2>2. \A v \in Schedulers : job'[v] <= ticks'
        BY <1>2, <1>3, <1>7
    <2> QED
        BY <2>1, <2>2, <1>3, <1>a DEF JobsInv, At
<1> QED
    BY <1>8, <1>9

(* __doJobWithCID gives the job that it runs its accessor.                 *)
LEMMA JobsObserved ==
    ASSUME Inv, NEW s \in Schedulers, __doJobWithCID(s) PROVE QueueInv' /\ JobsInv'
<1>a. QueueInv /\ JobsInv /\ Types /\ ThreadTypes /\ TableTypes
    BY DEF Inv, Types
<1>f. Frame(s)
    BY Frames DEF ThreadSteps
<1>1. pc[s] = "lookup" /\ At(s) = "lookup"
    BY DEF __doJobWithCID, At
<1>2. job[s] \in Jobs
    BY <1>1, <1>a DEF JobsInv, ThreadTypes, None, Jobs
<1>3. PICK a : a # None /\ table' = [table EXCEPT ![job[s]] = a]
    <2>1. job[s] # None
        BY <1>2 DEF Jobs, None
    <2> QED
        BY <2>1, Zenon DEF __doJobWithCID
<1>4. /\ \A n \in Jobs : n # job[s] => table'[n] = table[n]
      /\ table'[job[s]] # None
    BY <1>2, <1>3, <1>a DEF TableTypes
<1>5. UNCHANGED <<ticks, queue, job, ret>> /\ pc'[s] = "load 1" /\ At(s)' = "load 1"
    BY <1>a DEF __doJobWithCID, appVars, GoTo, ThreadTypes, At
<1>6. QueueInv'
    <2>1. \A u \in Schedulers : \A i \in 1..Len(queue[u]) : Waits(Entry(u, i))'
        <3> SUFFICES ASSUME NEW u \in Schedulers, NEW i \in 1..Len(queue[u]) PROVE Waits(Entry(u, i))'
            OBVIOUS
        <3>1. Waits(Entry(u, i)) /\ Entry(u, i) \in Jobs
            BY <1>a, EntryType DEF QueueInv
        <3>2. Entry(u, i)' = Entry(u, i)
            BY <1>5 DEF Entry
        <3> QED
            BY <3>1, <3>2, <1>4, <1>5 DEF Waits
    <2>2. \A u \in Schedulers : queue'[u] = queue[u] /\ \A i \in 1..Len(queue[u]) : Entry(u, i)' = Entry(u, i)
        BY <1>5 DEF Entry
    <2> QED
        BY <2>1, <2>2, <1>a DEF QueueInv
<1>7. JobsInv'
    <2>1. \A n \in Jobs : n > ticks' => table'[n] = None
        <3>1. ~(job[s] > ticks)
            BY <1>2, <1>a DEF JobsInv, Jobs, Types, AppTypes
        <3> QED
            BY <3>1, <1>4, <1>5, <1>a DEF JobsInv
    <2>2. \A u \in Schedulers : job'[u] = None <=> At(u)' \in {"idle", "deliver"}
        BY <1>1, <1>5, <1>f, <1>a DEF JobsInv, Frame
    <2>3. ASSUME NEW u \in Schedulers, u # s, job[u] # None PROVE table'[job[u]] = table[job[u]]
        <3>1. job[u] \in Jobs /\ job[u] # job[s]
            BY <2>3, <1>a DEF JobsInv, ThreadTypes, Jobs, None
        <3> QED
            BY <3>1, <1>4
    <2>4. \A u \in Schedulers : pc'[u] = "lookup" => table'[job'[u]] = None
        <3> SUFFICES ASSUME NEW u \in Schedulers, pc'[u] = "lookup" PROVE table'[job'[u]] = None
            OBVIOUS
        <3>1. u # s /\ pc[u] = "lookup" /\ At(u) = "lookup"
            BY <1>5, <1>f DEF Frame, At
        <3>2. job[u] # None
            BY <3>1, <1>a DEF JobsInv
        <3> QED
            BY <3>1, <3>2, <2>3, <1>5, <1>a DEF JobsInv
    <2>5. \A u \in Schedulers : job'[u] # None /\ pc'[u] # "lookup" => table'[job'[u]] # None
        BY <2>3, <1>4, <1>5, <1>f, <1>a DEF JobsInv, Frame
    <2> QED
        BY <2>1, <2>2, <2>4, <2>5, <1>5, <1>a DEF JobsInv
<1> QED
    BY <1>6, <1>7

(* Every step keeps each job in one place.                                 *)
LEMMA JobsStep == Inv /\ [Next]_vars => QueueInv' /\ JobsInv'
<1> SUFFICES ASSUME Inv, [Next]_vars PROVE QueueInv' /\ JobsInv'
    OBVIOUS
<1>1. CASE UNCHANGED <<ticks, queue, threads>>
    BY <1>1 DEF threads, threadVars, tableVars, Inv, QueueInv, JobsInv, Waits, Entry, At
<1>2. CASE UNCHANGED vars
    BY <1>1, <1>2, Zenon DEF vars, threads, appVars
<1>3. ASSUME NEW b \in {"flip", "reset"} \X Jobs, WriterBlock(b) PROVE QueueInv' /\ JobsInv'
    BY <1>1, <1>3, Zenon DEF WriterBlock, threads
<1>4. ASSUME NEW s \in Schedulers, NEW u \in Schedulers, __notifyJob(s, u)
      PROVE  QueueInv' /\ JobsInv'
    <2>1. UNCHANGED <<ticks, table, ret>> /\ pc[s] = "idle" /\ queue[s] # <<>> /\ Frame(s)
        BY <1>4, Frames DEF __notifyJob, tableVars, ThreadSteps
    <2>2. CASE u = s
        BY <1>4, <2>1, <2>2, JobsBegin DEF __notifyJob
    <2>3. CASE u # s
        BY <1>4, <2>1, <2>3, JobsPassedOn DEF __notifyJob
    <2> QED
        BY <2>2, <2>3
<1>5. ASSUME NEW s \in Schedulers, RunJob(s) PROVE QueueInv' /\ JobsInv'
    <2>1. UNCHANGED <<ticks, table, ret>> /\ Frame(s)
        BY <1>5, Frames DEF RunJob, tableVars, ThreadSteps
    <2> QED
        BY <1>5, <2>1, JobsBegin DEF RunJob
<1> QED
    BY NextStep, JobsTick, JobsObserved, JobsThread, <1>2, <1>3, <1>4, <1>5

-----------------------------------------------------------------------------
(* The tokens.                                                             *)

(* The two variables differ, and a token is a job and a variable.          *)
LEMMA TokenFacts ==
    /\ Conv \in Slots /\ Msgs \in Slots /\ Conv # Msgs
    /\ \A n : Messages(n) = <<n, Msgs>>
    /\ \A n \in Jobs, k \in Slots : <<n, k>> \in Tokens
    /\ \A n, m, k, l : <<n, k>> = <<m, l>> <=> n = m /\ k = l
BY DEF Conv, Msgs, Slots, Messages, Tokens

(* A step of thread s that touches no token, and does not enter a store,   *)
(* keeps the invariant of the tokens.                                      *)
LEMMA TokensKept ==
    ASSUME Inv, NEW s \in Schedulers, Frame(s),
           UNCHANGED <<slot, old, refs, callbacks, observer, table>>,
           copied'[s] # None => observer[copied'[s]] = s /\ table[copied'[s]] # None,
           pc'[s] \notin {"store 1", "store 2"},
           At(s)' \in Late => At(s)' = At(s) /\ job'[s] = job[s]
    PROVE  TokenInv'
<1>a. CallbackInv /\ ObservedInv /\ UnstoredInv
    BY DEF Inv, TokenInv
<1>1. \A u \in Schedulers : pc'[u] \in {"store 1", "store 2"} => pc'[u] = pc[u]
    BY DEF Frame
<1>2. \A u \in Schedulers : At(u)' \in Late => At(u)' = At(u) /\ job'[u] = job[u]
    BY DEF Frame
<1>3. ObservedInv'
    BY <1>a DEF Frame, ObservedInv
<1>4. ASSUME NEW u \in Schedulers, At(u)' \in Early PROVE Unstored(job[u], Conv, "store 1")'
    <2>1. At(u) \in Early /\ job'[u] = job[u]
        BY <1>2, <1>4 DEF Early, Late
    <2>2. Unstored(job[u], Conv, "store 1")
        BY <2>1, <1>a DEF UnstoredInv
    <2> QED
        BY <2>1, <2>2, <1>1 DEF Unstored
<1>5. ASSUME NEW u \in Schedulers, At(u)' \in Late
      PROVE  Unstored(job[u], Msgs, "store 2")' /\ refs'[Messages(job'[u])] = 1
    <2>1. At(u) \in Late /\ job'[u] = job[u]
        BY <1>2, <1>5
    <2>2. Unstored(job[u], Msgs, "store 2") /\ refs[Messages(job[u])] = 1
        BY <2>1, <1>a DEF UnstoredInv
    <2> QED
        BY <2>1, <2>2, <1>1 DEF Unstored
<1>6. CallbackInv'
    BY <1>a DEF CallbackInv
<1> QED
    BY <1>3, <1>4, <1>5, <1>6 DEF TokenInv, UnstoredInv

(* observe() makes two tokens that the job's array alone holds and         *)
(* registers the callback.                                                 *)
LEMMA TokensObserved ==
    ASSUME Inv, NEW s \in Schedulers, __doJobWithCID(s) PROVE TokenInv'
<1>a. /\ CallbackInv /\ ObservedInv /\ UnstoredInv /\ JobsInv
      /\ ThreadTypes /\ TokenTypes /\ TableTypes
    BY DEF Inv, TokenInv, Types
<1>f. Frame(s)
    BY Frames DEF ThreadSteps
<1> DEFINE n == job[s]
<1>1. pc[s] = "lookup" /\ At(s) = "lookup"
    BY DEF __doJobWithCID, At
<1>2. n \in Jobs /\ table[n] = None
    BY <1>1, <1>a DEF JobsInv, ThreadTypes, None, Jobs
<1>3. PICK a : a # None /\ table' = [table EXCEPT ![n] = a]
    <2>1. job[s] # None
        BY <1>2 DEF Jobs, None
    <2> QED
        BY <2>1, Zenon DEF __doJobWithCID
<1>4. /\ \A m \in Jobs : m # n => table'[m] = table[m]
      /\ table'[n] # None
    BY <1>2, <1>3, <1>a DEF TableTypes
<1>5. UNCHANGED <<job, ret, slot, old, copied>> /\ pc'[s] = "load 1" /\ At(s)' = "load 1"
    BY <1>a DEF __doJobWithCID, GoTo, ThreadTypes, At
<1>6. /\ \A k \in Slots : refs'[<<n, k>>] = 1
      /\ \A m \in Jobs, k \in Slots : m # n => refs'[<<m, k>>] = refs[<<m, k>>]
    BY <1>2, TokenFacts DEF __doJobWithCID
<1>7. /\ callbacks' = callbacks \cup {n}
      /\ \A m \in Jobs : m # n => observer'[m] = observer[m]
    BY <1>2, <1>a DEF __doJobWithCID, TokenTypes
<1>8. \A m \in 0..MaxTicks : m # None => m \in Jobs
    BY DEF None, Jobs
<1>9. /\ \A k \in Slots : slot[k] # n /\ slot[k] \in 0..MaxTicks
      /\ \A u \in Schedulers : old[u] # n /\ old[u] \in 0..MaxTicks
      /\ \A u \in Schedulers : copied[u] # n /\ copied[u] \in 0..MaxTicks
      /\ n # None
    <2>1. n # None
        BY <1>2 DEF None, Jobs
    <2> QED
        BY <2>1, <1>2, <1>a DEF ObservedInv, TokenTypes
<1>10. \A u \in Schedulers : u # s => job[u] # n
    BY <1>9, <1>a DEF JobsInv
<1> HIDE DEF n
<1>11. \A m \in Jobs : m \in callbacks' <=> refs'[Messages(m)] > 0
    <2> SUFFICES ASSUME NEW m \in Jobs PROVE m \in callbacks' <=> refs'[Messages(m)] > 0
        OBVIOUS
    <2>1. Messages(m) = <<m, Msgs>> /\ Msgs \in Slots
        BY TokenFacts
    <2>2. CASE m = n
        BY <2>1, <2>2, <1>6, <1>7
    <2>3. CASE m # n
        BY <2>1, <2>3, <1>6, <1>7, <1>a DEF CallbackInv
    <2> QED
        BY <2>2, <2>3
<1>12. \A m \in Jobs : table'[m] = None => refs'[<<m, Conv>>] = 0 /\ refs'[<<m, Msgs>>] = 0
    BY <1>4, <1>6, <1>a, TokenFacts DEF ObservedInv
<1>13. \A k \in Slots : slot'[k] # None => table'[slot'[k]] # None
    BY <1>4, <1>5, <1>8, <1>9, <1>a DEF ObservedInv
<1>14. \A u \in Schedulers : old'[u] # None => table'[old'[u]] # None
    BY <1>4, <1>5, <1>8, <1>9, <1>a DEF ObservedInv
<1>15. \A u \in Schedulers : copied'[u] # None => observer'[copied'[u]] = u /\ table'[copied'[u]] # None
    BY <1>4, <1>5, <1>7, <1>8, <1>9, <1>a DEF ObservedInv
<1>16. \A u \in Schedulers : pc'[u] \in {"store 1", "store 2"} => pc'[u] = pc[u]
    BY <1>5, <1>f DEF Frame
<1>17. ASSUME NEW u \in Schedulers, At(u)' \in Early PROVE Unstored(job[u], Conv, "store 1")'
    <2>1. CASE u = s
        BY <2>1, <1>5, <1>9, TokenFacts DEF Unstored, n
    <2>2. CASE u # s
        <3>1. Unstored(job[u], Conv, "store 1")
            BY <2>2, <1>17, <1>f, <1>a DEF UnstoredInv, Frame
        <3> QED
            BY <3>1, <1>5, <1>16 DEF Unstored
    <2> QED
        BY <2>1, <2>2
<1>18. ASSUME NEW u \in Schedulers, At(u)' \in Late
       PROVE  Unstored(job[u], Msgs, "store 2")' /\ refs'[Messages(job'[u])] = 1
    <2>1. CASE u = s
        BY <2>1, <1>5, <1>6, <1>9, TokenFacts DEF Unstored, n
    <2>2. CASE u # s
        <3>1. At(u) \in Late /\ job'[u] = job[u]
            BY <2>2, <1>18, <1>5, <1>f DEF Frame
        <3>2. job[u] \in Jobs /\ job[u] # n
            BY <3>1, <2>2, <1>8, <1>10, <1>a DEF JobsInv, Late, ThreadTypes
        <3>3. Unstored(job[u], Msgs, "store 2") /\ refs[Messages(job[u])] = 1
            BY <3>1, <1>a DEF UnstoredInv
        <3>4. refs'[Messages(job'[u])] = 1
            BY <3>1, <3>2, <3>3, <1>6, TokenFacts
        <3> QED
            BY <3>3, <3>4, <1>5, <1>16 DEF Unstored
    <2> QED
        BY <2>1, <2>2
<1> QED
    BY <1>11, <1>12, <1>13, <1>14, <1>15, <1>17, <1>18
       DEF TokenInv, CallbackInv, ObservedInv, UnstoredInv

(* A load finds in the variable no token that is still to be stored.       *)
LEMMA TokensLoaded ==
    ASSUME Inv, NEW s \in Schedulers, LoadSlot(s) PROVE TokenInv'
<1>a. CallbackInv /\ ObservedInv /\ UnstoredInv /\ ThreadTypes /\ TokenTypes
    BY DEF Inv, TokenInv, Types
<1>f. Frame(s)
    BY Frames DEF ThreadSteps
<1>1. UNCHANGED <<job, slot, refs, callbacks, copied, observer, table>>
    BY DEF LoadSlot, tableVars
<1>2. \/ /\ pc[s] = "load 1" /\ pc'[s] = "store 1" /\ old'[s] = slot[Conv]
      \/ /\ pc[s] = "load 2" /\ pc'[s] = "store 2" /\ old'[s] = slot[Msgs]
    <2>1. Storing["load 1"] = Conv /\ Storing["load 2"] = Msgs
        BY DEF Storing, Conv, Msgs
    <2> QED
        BY <2>1, <1>a DEF LoadSlot, GoTo, ThreadTypes, TokenTypes
<1>3. At(s) = pc[s] /\ At(s)' = pc'[s]
    BY <1>2 DEF At
<1>4. \A u \in Schedulers : old'[u] # None => table'[old'[u]] # None
    <2>1. \A u \in Schedulers : u # s => old'[u] = old[u]
        BY <1>f DEF Frame
    <2>2. old'[s] # None => table[old'[s]] # None
        BY <1>2, <1>a, TokenFacts DEF ObservedInv
    <2> QED
        BY <2>1, <2>2, <1>1, <1>a DEF ObservedInv
<1>5. ASSUME NEW u \in Schedulers, At(u)' \in Early PROVE Unstored(job[u], Conv, "store 1")'
    <2>1. At(u) \in Early
        BY <1>2, <1>3, <1>5, <1>f DEF Early, Frame
    <2>2. Unstored(job[u], Conv, "store 1")
        BY <2>1, <1>a DEF UnstoredInv
    <2> QED
        BY <2>2, <1>1, <1>2, <1>f DEF Unstored, Frame
<1>6. ASSUME NEW u \in Schedulers, At(u)' \in Late
      PROVE  Unstored(job[u], Msgs, "store 2")' /\ refs'[Messages(job'[u])] = 1
    <2>1. At(u) \in Late
        BY <1>2, <1>3, <1>6, <1>f DEF Late, Frame
    <2>2. Unstored(job[u], Msgs, "store 2") /\ refs[Messages(job[u])] = 1
        BY <2>1, <1>a DEF UnstoredInv
    <2> QED
        BY <2>2, <1>1, <1>2, <1>f DEF Unstored, Frame
<1> QED
    BY <1>1, <1>4, <1>5, <1>6, <1>a DEF TokenInv, CallbackInv, ObservedInv, UnstoredInv

(* The last release of a messageIDs token removes the callback, and no     *)
(* other release does.                                                     *)
LEMMA CallbackStep ==
    ASSUME CallbackInv, refs \in [Tokens -> Int], NEW o,
           callbacks' = IF LastToken(o) THEN callbacks \ {o} ELSE callbacks,
           \A n \in Jobs : IF n = o THEN refs'[Messages(n)] = refs[Messages(n)] - 1
                           ELSE \/ refs'[Messages(n)] = refs[Messages(n)]
                                \/ refs[Messages(n)] = 1 /\ refs'[Messages(n)] = 2
    PROVE  CallbackInv'
<1> SUFFICES ASSUME NEW n \in Jobs PROVE n \in callbacks' <=> refs'[Messages(n)] > 0
    BY DEF CallbackInv, Messages
<1>1. Messages(n) \in Tokens
    BY TokenFacts
<1>2. refs[Messages(n)] \in Int /\ (n \in callbacks <=> refs[Messages(n)] > 0)
    BY <1>1 DEF CallbackInv
<1>3. CASE n = o
    BY <1>2, <1>3 DEF LastToken
<1>4. CASE n # o
    BY <1>2, <1>4
<1> QED
    BY <1>3, <1>4

(* A step of thread s that stores the token of its own job, or releases    *)
(* tokens that no other job has yet to store.                              *)
LEMMA TokensReleased ==
    ASSUME Inv, NEW s \in Schedulers, Frame(s), UNCHANGED <<copied, observer, table>>,
           CallbackInv', job[s] # None, pc'[s] \notin {"store 1", "store 2"},
           old'[s] \in {old[s], None}, \A k \in Slots : slot'[k] \in {slot[k], job[s]},
           table[job[s]] # None,
           At(s)' \notin Early,
           At(s)' \in Late => At(s) \in Late /\ job'[s] = job[s] /\ slot'[Msgs] = slot[Msgs],
           \A u \in Schedulers : At(u)' \in Late =>
               refs'[Messages(job[u])] = refs[Messages(job[u])],
           \A n \in Jobs : table[n] = None =>
               /\ refs'[<<n, Conv>>] = refs[<<n, Conv>>]
               /\ refs'[<<n, Msgs>>] = refs[<<n, Msgs>>]
    PROVE  TokenInv'
<1>a. CallbackInv /\ ObservedInv /\ UnstoredInv /\ JobsInv
    BY DEF Inv, TokenInv
<1>1. \A u \in Schedulers : pc'[u] \in {"store 1", "store 2"} => pc'[u] = pc[u] /\ old'[u] = old[u]
    BY DEF Frame
<1>2. \A u \in Schedulers : u # s => job[u] # job[s] /\ job'[u] = job[u] /\ At(u)' = At(u)
    BY <1>a DEF Frame, JobsInv
<1>3. ObservedInv'
    <2>1. \A n \in Jobs : table'[n] = None => refs'[<<n, Conv>>] = 0 /\ refs'[<<n, Msgs>>] = 0
        BY <1>a DEF ObservedInv
    <2>2. \A k \in Slots : slot'[k] # None => table'[slot'[k]] # None
        BY <1>a DEF ObservedInv
    <2>3. \A u \in Schedulers : old'[u] # None => table'[old'[u]] # None
        BY <1>a DEF ObservedInv, Frame
    <2>4. \A u \in Schedulers : copied'[u] # None => observer'[copied'[u]] = u /\ table'[copied'[u]] # None
        BY <1>a DEF ObservedInv
    <2> QED
        BY <2>1, <2>2, <2>3, <2>4 DEF ObservedInv
<1>4. ASSUME NEW u \in Schedulers, At(u)' \in Early PROVE Unstored(job[u], Conv, "store 1")'
    <2>1. u # s /\ At(u) \in Early /\ job'[u] = job[u] /\ job[u] # job[s]
        BY <1>2, <1>4
    <2>2. Unstored(job[u], Conv, "store 1")
        BY <2>1, <1>a DEF UnstoredInv
    <2>3. slot'[Conv] # job[u]
        BY <2>1, <2>2, TokenFacts DEF Unstored
    <2> QED
        BY <2>1, <2>2, <2>3, <1>1 DEF Unstored
<1>5. ASSUME NEW u \in Schedulers, At(u)' \in Late
      PROVE  Unstored(job[u], Msgs, "store 2")' /\ refs'[Messages(job'[u])] = 1
    <2>1. /\ At(u) \in Late /\ job'[u] = job[u]
          /\ u = s => slot'[Msgs] = slot[Msgs]
          /\ u # s => job[u] # job[s]
        BY <1>2, <1>5
    <2>2. Unstored(job[u], Msgs, "store 2") /\ refs[Messages(job[u])] = 1
        BY <2>1, <1>a DEF UnstoredInv
    <2>3. refs'[Messages(job'[u])] = 1
        BY <2>1, <2>2, <1>5
    <2>4. slot'[Msgs] # job[u]
        BY <2>1, <2>2, TokenFacts DEF Unstored
    <2> QED
        BY <2>1, <2>2, <2>3, <2>4, <1>1 DEF Unstored
<1> QED
    BY <1>3, <1>4, <1>5 DEF TokenInv, UnstoredInv

(* A store: nobody had the new token, and the old one is of no job that    *)
(* has yet to store it.                                                    *)
LEMMA TokensStored ==
    ASSUME Inv, NEW s \in Schedulers, StoreSlot(s) PROVE TokenInv'
<1>a. /\ CallbackInv /\ ObservedInv /\ UnstoredInv /\ JobsInv /\ Types
      /\ ThreadTypes /\ TokenTypes
    BY DEF Inv, TokenInv, Types
<1>f. Frame(s)
    BY Frames DEF ThreadSteps
<1>1. job[s] # None /\ old[s] # job[s] /\ pc[s] \in {"store 1", "store 2"} /\ At(s) = pc[s]
    BY StoresOnce DEF StoreSlot, At
<1>2. UNCHANGED <<copied, observer, table, job>> /\ table[job[s]] # None
    BY <1>1, <1>a DEF StoreSlot, JobsInv
<1>3. job[s] \in Jobs /\ old[s] \in 0..MaxTicks /\ slot \in [Slots -> 0..MaxTicks]
    <2>1. job[s] \in 0..MaxTicks /\ job[s] # None
        BY <1>1, <1>a DEF ThreadTypes
    <2>2. job[s] \in Jobs
        BY <2>1 DEF None, Jobs
    <2> QED
        BY <2>2, <1>a DEF TokenTypes
<1>4. old'[s] = None
    BY <1>a DEF StoreSlot, TokenTypes
<1>5. \A n \in Jobs : table[n] = None => n # job[s] /\ n # old[s]
    BY <1>2, <1>a DEF ObservedInv, Jobs, None
<1>6. ASSUME NEW k \in Slots, Stores(s, k)
      PROVE  /\ \A n \in Jobs, l \in Slots :
                   refs'[<<n, l>>] = IF l = k /\ n = job[s] THEN refs[<<n, l>>] + 1
                                     ELSE IF l = k /\ n = old[s] THEN refs[<<n, l>>] - 1
                                     ELSE refs[<<n, l>>]
             /\ \A l \in Slots : slot'[l] = IF l = k THEN job[s] ELSE slot[l]
    BY <1>6, <1>3, TokenFacts DEF Stores
<1>7. CASE pc[s] = "store 1"
    <2>1. Stores(s, Conv) /\ Drops(s, None, "load 2")
        BY <1>1, <1>7, <1>a, StoreStep
    <2>2. At(s)' = "load 2" /\ pc'[s] \in {"load 2", "unbind"}
        BY <2>1, <1>a, DropsAt
    <2>3. /\ slot'[Msgs] = slot[Msgs] /\ \A k \in Slots : slot'[k] \in {slot[k], job[s]}
          /\ \A n \in Jobs : refs'[Messages(n)] = refs[Messages(n)]
          /\ \A n \in Jobs : table[n] = None => refs'[<<n, Conv>>] = refs[<<n, Conv>>]
        <3>1. ASSUME NEW n \in Jobs
              PROVE  /\ refs'[<<n, Msgs>>] = refs[<<n, Msgs>>]
                     /\ table[n] = None => refs'[<<n, Conv>>] = refs[<<n, Conv>>]
            <4>0. Conv \in Slots /\ Msgs \in Slots /\ Conv # Msgs
                BY TokenFacts
            <4>1. refs'[<<n, Msgs>>] = refs[<<n, Msgs>>]
                <5>1. <<n, Msgs>> \in Tokens /\ <<n, Msgs>> # <<job[s], Conv>>
                      /\ <<n, Msgs>> # <<old[s], Conv>>
                    BY <4>0, TokenFacts
                <5> QED
                    BY <5>1, <2>1 DEF Stores
            <4>2. refs'[<<n, Conv>>] = IF n = job[s] THEN refs[<<n, Conv>>] + 1
                                       ELSE IF n = old[s] THEN refs[<<n, Conv>>] - 1
                                       ELSE refs[<<n, Conv>>]
                BY <4>0, <2>1, <1>6
            <4> QED
                BY <4>1, <4>2, <1>5
        <3>2. slot'[Msgs] = slot[Msgs] /\ \A k \in Slots : slot'[k] \in {slot[k], job[s]}
            BY <2>1, <1>6, TokenFacts
        <3> QED
            BY <3>1, <3>2 DEF Messages, Msgs
    <2>4. CallbackInv'
        <3>1. callbacks' = IF LastToken(None) THEN callbacks \ {None} ELSE callbacks
            BY <2>1 DEF Drops
        <3>2. \A n \in Jobs : n # None
            BY DEF Jobs, None
        <3>3. refs \in [Tokens -> Int]
            BY <1>a DEF TokenTypes
        <3> QED
            BY <3>1, <3>2, <3>3, <2>3, <1>a, CallbackStep
    <2>5. \A u \in Schedulers : At(u)' \in Late => job[u] \in Jobs
        <3>1. \A u \in Schedulers : At(u)' \in Late => job[u] # None
            BY <1>f, <1>1, <1>a DEF Frame, JobsInv, Late
        <3> QED
            BY <3>1, <1>a DEF ThreadTypes, Jobs, None
    <2>6. \A n \in Jobs : refs'[<<n, Msgs>>] = refs[<<n, Msgs>>]
        BY <2>3, TokenFacts
    <2>7. At(s)' \notin Early /\ At(s) \in Late
        BY <2>2, <1>1, <1>7 DEF Early, Late
    <2> QED
        BY <2>2, <2>3, <2>4, <2>5, <2>6, <2>7, <1>1, <1>2, <1>4, <1>f, TokensReleased
<1>8. CASE pc[s] = "store 2"
    <2>1. Stores(s, Msgs) /\ Drops(s, old[s], "clear")
        BY <1>1, <1>8, <1>a, StoreStep
    <2>2. At(s)' = "clear" /\ pc'[s] \in {"clear", "unbind"}
        BY <2>1, <1>a, DropsAt
    <2>3. /\ \A k \in Slots : slot'[k] \in {slot[k], job[s]}
          /\ \A n \in Jobs : n # job[s] /\ n # old[s] => refs'[Messages(n)] = refs[Messages(n)]
          /\ refs'[Messages(job[s])] = refs[Messages(job[s])] + 1
          /\ old[s] \in Jobs => refs'[Messages(old[s])] = refs[Messages(old[s])] - 1
        <3>1. \A k \in Slots : slot'[k] \in {slot[k], job[s]}
            BY <2>1, <1>6, TokenFacts
        <3>2. \A n \in Jobs :
                 refs'[<<n, Msgs>>] = IF n = job[s] THEN refs[<<n, Msgs>>] + 1
                                      ELSE IF n = old[s] THEN refs[<<n, Msgs>>] - 1
                                      ELSE refs[<<n, Msgs>>]
            BY <2>1, <1>6, TokenFacts
        <3> QED
            BY <3>1, <3>2, <1>1, <1>3 DEF Messages, Msgs
    <2>4. refs[Messages(job[s])] = 1
        BY <1>1, <1>8, <1>a DEF UnstoredInv, Late
    <2>5. CallbackInv'
        <3>1. callbacks' = IF LastToken(old[s]) THEN callbacks \ {old[s]} ELSE callbacks
            BY <2>1 DEF Drops
        <3>3. refs \in [Tokens -> Int]
            BY <1>a DEF TokenTypes
        <3>4. refs'[Messages(job[s])] = 2
            BY <2>3, <2>4
        <3> HIDE DEF LastToken
        <3> QED
            BY <3>1, <3>3, <3>4, <2>3, <2>4, <1>1, <1>a, CallbackStep
    <2>6. ASSUME NEW u \in Schedulers, At(u)' \in Late
          PROVE  refs'[Messages(job[u])] = refs[Messages(job[u])]
        <3>1. u # s /\ At(u) \in Late
            BY <2>2, <2>6, <1>f DEF Frame, Late
        <3>2. job[u] # None /\ job[u] # job[s]
            BY <3>1, <1>a DEF JobsInv, Late
        <3>3. job[u] # old[s]
            BY <3>1, <1>8, <1>a DEF UnstoredInv, Unstored
        <3>4. job[u] \in Jobs
            BY <3>2, <1>a DEF ThreadTypes, Jobs, None
        <3> QED
            BY <3>2, <3>3, <3>4, <2>3
    <2>7. At(s)' \notin Early /\ At(s)' \notin Late
        BY <2>2 DEF Early, Late
    <2>8. \A n \in Jobs : table[n] = None => /\ refs'[<<n, Conv>>] = refs[<<n, Conv>>]
                                             /\ refs'[<<n, Msgs>>] = refs[<<n, Msgs>>]
        BY <2>1, <1>5, <1>6, TokenFacts
    <2> QED
        BY <2>2, <2>3, <2>5, <2>6, <2>7, <2>8, <1>1, <1>2, <1>4, <1>f, TokensReleased
<1> QED
    BY <1>1, <1>7, <1>8

(* removeAllObjects: the tokens are those of the thread's own job.         *)
LEMMA TokensCleared ==
    ASSUME Inv, NEW s \in Schedulers, RemoveAllObjects(s) PROVE TokenInv'
<1>a. CallbackInv /\ JobsInv /\ Types /\ ThreadTypes /\ TokenTypes
    BY DEF Inv, TokenInv, Types
<1>f. Frame(s)
    BY Frames DEF ThreadSteps
<1>1. job[s] # None /\ pc[s] = "clear"
    BY StoresOnce DEF RemoveAllObjects
<1>2. Clears(s) /\ Drops(s, job[s], "idle")
    BY <1>1, <1>a, ClearStep
<1>3. At(s)' = "idle" /\ pc'[s] \in {"idle", "unbind"}
    BY <1>2, <1>a, DropsAt
<1>4. UNCHANGED <<slot, old, copied, observer, table>> /\ table[job[s]] # None
    BY <1>1, <1>a DEF RemoveAllObjects, JobsInv
<1>5. job[s] \in Jobs
    BY <1>1, <1>a DEF ThreadTypes, Jobs, None
<1>6. \A n \in Jobs, l \in Slots :
         refs'[<<n, l>>] = IF n = job[s] THEN refs[<<n, l>>] - 1 ELSE refs[<<n, l>>]
    BY <1>2, TokenFacts DEF Clears
<1>7. \A n \in Jobs : refs'[Messages(n)] = IF n = job[s] THEN refs[Messages(n)] - 1
                                           ELSE refs[Messages(n)]
    BY <1>6, TokenFacts
<1>8. CallbackInv'
    <2>1. callbacks' = IF LastToken(job[s]) THEN callbacks \ {job[s]} ELSE callbacks
        BY <1>2 DEF Drops
    <2>2. refs \in [Tokens -> Int]
        BY <1>a DEF TokenTypes
    <2> QED
        BY <2>1, <2>2, <1>7, <1>a, CallbackStep
<1>9. ASSUME NEW u \in Schedulers, At(u)' \in Late
      PROVE  refs'[Messages(job[u])] = refs[Messages(job[u])]
    <2>1. u # s /\ At(u) \in Late
        BY <1>3, <1>9, <1>f DEF Frame, Late
    <2>2. job[u] # None /\ job[u] # job[s]
        BY <2>1, <1>a DEF JobsInv, Late
    <2>3. job[u] \in Jobs
        BY <2>2, <1>a DEF ThreadTypes, Jobs, None
    <2> QED
        BY <2>2, <2>3, <1>7
<1>10. At(s)' \notin Early /\ At(s)' \notin Late
    BY <1>3 DEF Early, Late
<1>11. \A n \in Jobs : table[n] = None => /\ refs'[<<n, Conv>>] = refs[<<n, Conv>>]
                                          /\ refs'[<<n, Msgs>>] = refs[<<n, Msgs>>]
    BY <1>4, <1>6, TokenFacts
<1> QED
    BY <1>1, <1>3, <1>4, <1>8, <1>9, <1>10, <1>11, <1>f, TokensReleased

(* Every step keeps the invariant of the tokens.                           *)
LEMMA TokenStep == Inv /\ [Next]_vars => TokenInv'
<1> SUFFICES ASSUME Inv, [Next]_vars PROVE TokenInv'
    OBVIOUS
<1>a. /\ CallbackInv /\ ObservedInv /\ UnstoredInv /\ PlaceInv /\ TokenInv
      /\ ThreadTypes /\ TokenTypes /\ TableTypes
    BY DEF Inv, TokenInv, Types
<1>1. CASE UNCHANGED threads
    BY <1>1, <1>a DEF threads, threadVars, tokenVars, tableVars, TokenInv, CallbackInv,
                      ObservedInv, UnstoredInv, Unstored, At
<1>2. CASE __startJob \/ \E b \in {"flip", "reset"} \X Jobs : WriterBlock(b)
    BY <1>1, <1>2, Zenon DEF __startJob, WriterBlock, threads
<1>3. CASE UNCHANGED vars
    BY <1>1, <1>3, Zenon DEF vars, threads
<1>4. ASSUME NEW s \in Schedulers, NEW u \in Schedulers, __notifyJob(s, u) PROVE TokenInv'
    <2>1. Frame(s)
        BY <1>4, Frames DEF ThreadSteps
    <2>2. UNCHANGED <<slot, old, refs, callbacks, copied, observer, table>> /\ pc[s] = "idle"
        BY <1>4 DEF __notifyJob, tokenVars, tableVars
    <2>3. pc'[s] \in {"idle", "lookup"} /\ At(s)' \notin Late
        BY <1>4, <1>a DEF __notifyJob, Begin, GoTo, At, Late, ThreadTypes
    <2>4. copied'[s] = None
        BY <2>2, <1>a DEF PlaceInv
    <2> QED
        BY <2>1, <2>2, <2>3, <2>4, TokensKept
<1>5. ASSUME NEW s \in Schedulers, RunJob(s) PROVE TokenInv'
    <2>1. Frame(s)
        BY <1>5, Frames DEF ThreadSteps
    <2>2. UNCHANGED <<slot, old, refs, callbacks, copied, observer, table>> /\ pc[s] = "idle"
        BY <1>5 DEF RunJob, tokenVars, tableVars
    <2>3. pc'[s] \in {"idle", "lookup"} /\ At(s)' \notin Late
        BY <1>5, <1>a DEF RunJob, Begin, GoTo, At, Late, ThreadTypes
    <2>4. copied'[s] = None
        BY <2>2, <1>a DEF PlaceInv
    <2> QED
        BY <2>1, <2>2, <2>3, <2>4, TokensKept
<1>6. ASSUME NEW s \in Schedulers, AdvanceRealm(s) PROVE TokenInv'
    <2>1. Frame(s)
        BY <1>6, Frames DEF ThreadSteps
    <2>2. UNCHANGED <<slot, old, refs, callbacks, copied, observer, table>> /\ pc[s] = "idle"
        BY <1>6 DEF AdvanceRealm, tokenVars
    <2>3. pc'[s] = "unbind" /\ At(s)' \notin Late
        BY <1>6, <1>a DEF AdvanceRealm, GoTo, At, Late, ThreadTypes
    <2>4. copied'[s] = None
        BY <2>2, <1>a DEF PlaceInv
    <2> QED
        BY <2>1, <2>2, <2>3, <2>4, TokensKept
<1>7. ASSUME NEW s \in Schedulers, NEW n \in Jobs, BeginDelivery(s, n) PROVE TokenInv'
    <2>1. Frame(s)
        BY <1>7, Frames DEF ThreadSteps
    <2>2. UNCHANGED <<slot, old, refs, callbacks, observer, table>>
        BY <1>7 DEF BeginDelivery, tokenVars, tableVars
    <2>3. pc'[s] = "deliver" /\ At(s)' \notin Late
        BY <1>7, <1>a DEF BeginDelivery, GoTo, At, Late, ThreadTypes
    <2>4. copied'[s] = n /\ observer[n] = s /\ n \in callbacks
        BY <1>7, <1>a DEF BeginDelivery, TokenTypes
    <2>5. table[n] # None
        <3>1. refs[Messages(n)] > 0
            BY <2>4, <1>a DEF CallbackInv
        <3>2. refs[<<n, Msgs>>] # 0
            BY <3>1, TokenFacts
        <3> QED
            BY <3>2, <1>a DEF ObservedInv
    <2> QED
        BY <2>1, <2>2, <2>3, <2>4, <2>5, TokensKept
<1>8. ASSUME NEW s \in Schedulers, EndDelivery(s) PROVE TokenInv'
    <2>1. Frame(s)
        BY <1>8, Frames DEF ThreadSteps
    <2>2. UNCHANGED <<slot, old, refs, callbacks, observer, table>>
        BY <1>8 DEF EndDelivery, tokenVars
    <2>3. pc'[s] \in {"idle", "unbind"} /\ At(s)' \notin Late
        BY <1>8, <1>a DEF EndDelivery, GoTo, At, Late, ThreadTypes
    <2>4. copied'[s] = None
        BY <1>8, <1>a DEF EndDelivery, TokenTypes
    <2> QED
        BY <2>1, <2>2, <2>3, <2>4, TokensKept
<1>9. ASSUME NEW s \in Schedulers, pc[s] \in {"unbind", "delete"}, Frame(s),
             UNCHANGED <<slot, old, refs, callbacks, copied, observer, table, job, ret>>,
             pc'[s] \in {"delete", ret[s]}
      PROVE  TokenInv'
    <2>1. ret[s] \in {"idle", "load 2", "clear"} /\ copied'[s] = None
        BY <1>9, <1>a DEF PlaceInv
    <2>2. pc'[s] \notin {"store 1", "store 2"} /\ At(s)' = At(s)
        BY <2>1, <1>9 DEF At
    <2> QED
        BY <1>9, <2>1, <2>2, TokensKept
<1>10. ASSUME NEW s \in Schedulers, Unbind(s) PROVE TokenInv'
    <2>1. Frame(s)
        BY <1>10, Frames DEF ThreadSteps
    <2>2. pc'[s] \in {"delete", ret[s]} /\ pc[s] = "unbind"
        BY <1>10, <1>a DEF Unbind, GoTo, ThreadTypes
    <2>3. UNCHANGED <<slot, old, refs, callbacks, copied, observer, table, job, ret>>
        BY <1>10 DEF Unbind, tokenVars
    <2> QED
        BY <2>1, <2>2, <2>3, <1>9
<1>11. ASSUME NEW s \in Schedulers, NEW read \in BOOLEAN, UnbindLocked(s, read) PROVE TokenInv'
    <2>1. Frame(s)
        BY <1>11, Frames DEF ThreadSteps
    <2>2. pc'[s] \in {"delete", ret[s]} /\ pc[s] = "delete"
        BY <1>11, <1>a DEF UnbindLocked, GoTo, ThreadTypes
    <2>3. UNCHANGED <<slot, old, refs, callbacks, copied, observer, table, job, ret>>
        BY <1>11 DEF UnbindLocked, tokenVars
    <2> QED
        BY <2>1, <2>2, <2>3, <1>9
<1> QED
    BY NextStep, TokensObserved, TokensLoaded, TokensStored, TokensCleared,
       <1>2, <1>3, <1>4, <1>5, <1>6, <1>7, <1>8, <1>10, <1>11

-----------------------------------------------------------------------------
(* The accessors.                                                          *)

(* The sets that are counted are finite.                                   *)
LEMMA CountedSets ==
    ASSUME NEW a
    PROVE  /\ IsFiniteSet(Arrays(a)) /\ Cardinality(Arrays(a)) \in Nat
           /\ IsFiniteSet(Unbinders(a)) /\ Cardinality(Unbinders(a)) \in Nat
           /\ IsFiniteSet(Deleters(a)) /\ Cardinality(Deleters(a)) \in Nat
<1>1. IsFiniteSet(Jobs) /\ IsFiniteSet(Schedulers)
    BY AppAssumption, SchedulersAssumption, FS_Interval DEF Jobs
<1>2. Arrays(a) \in SUBSET Jobs /\ Unbinders(a) \in SUBSET Schedulers
      /\ Deleters(a) \in SUBSET Schedulers
    BY DEF Arrays, Unbinders, Deleters
<1>3. IsFiniteSet(Arrays(a)) /\ IsFiniteSet(Unbinders(a)) /\ IsFiniteSet(Deleters(a))
    BY <1>1, <1>2, FS_Subset
<1> QED
    BY <1>3, FS_CardinalityType

(* A set of threads is no larger than the set of all.                      *)
LEMMA SchedulersBound ==
    ASSUME NEW S \in SUBSET Schedulers
    PROVE  /\ Cardinality(S) <= Cardinality(Schedulers)
           /\ Cardinality(S) \in Nat /\ Cardinality(Schedulers) \in Nat
BY SchedulersAssumption, FS_Subset, FS_CardinalityType

(* How a step of thread s changes who unbinds and who deletes.             *)
LEMMA UnbindersStep ==
    ASSUME NEW s \in Schedulers, Frame(s), NEW a
    PROVE  /\ Unbinders(a)' = IF pc'[s] = "unbind" /\ unbinding'[s] = a
                              THEN Unbinders(a) \cup {s} ELSE Unbinders(a) \ {s}
           /\ Deleters(a)' = IF pc'[s] = "delete" /\ unbinding'[s] = a
                             THEN Deleters(a) \cup {s} ELSE Deleters(a) \ {s}
<1>1. \A u \in Schedulers : u # s => pc'[u] = pc[u] /\ unbinding'[u] = unbinding[u]
    BY DEF Frame
<1>2. Unbinders(a)' = {u \in Schedulers : pc'[u] = "unbind" /\ unbinding'[u] = a}
    BY DEF Unbinders
<1>3. Deleters(a)' = {u \in Schedulers : pc'[u] = "delete" /\ unbinding'[u] = a}
    BY DEF Deleters
<1>4. Unbinders(a)' = IF pc'[s] = "unbind" /\ unbinding'[s] = a
                      THEN Unbinders(a) \cup {s} ELSE Unbinders(a) \ {s}
    BY <1>1, <1>2 DEF Unbinders
<1>5. Deleters(a)' = IF pc'[s] = "delete" /\ unbinding'[s] = a
                     THEN Deleters(a) \cup {s} ELSE Deleters(a) \ {s}
    BY <1>1, <1>3 DEF Deleters
<1> QED
    BY <1>4, <1>5

(* The sets stay and so do the counts.                                     *)
LEMMA CountKept ==
    ASSUME NEW a, CountInv(a), Arrays(a)' = Arrays(a), Unbinders(a)' = Unbinders(a),
           Deleters(a)' = Deleters(a), m_ref_count'[a] = m_ref_count[a],
           destroyed'[a] = destroyed[a], table[a] # None => table'[a] # None
    PROVE  CountInv(a)'
BY DEF CountInv, Counted, Gone, Bounded

(* A step of thread s outside unbind_ptr() that frees no array keeps the   *)
(* invariant of the accessors.                                             *)
LEMMA TableKept ==
    ASSUME Inv, NEW s \in Schedulers, Frame(s),
           pc[s] \notin {"unbind", "delete"}, pc'[s] \notin {"unbind", "delete"},
           UNCHANGED <<table, m_subtable_map, m_ref_count, destroyed>>,
           unbinding'[s] \in {unbinding[s], None},
           \A n \in Jobs : Alive(n)' <=> Alive(n)
    PROVE  TableInv'
<1>a. TableInv /\ AccessorInv
    BY DEF Inv, TableInv
<1>1. AccessorInv'
    BY <1>a DEF AccessorInv, Frame
<1>2. ASSUME NEW a \in Jobs PROVE CountInv(a)'
    <2>1. Arrays(a)' = Arrays(a)
        BY DEF Arrays
    <2>2. Unbinders(a)' = Unbinders(a) /\ Deleters(a)' = Deleters(a)
        BY UnbindersStep DEF Unbinders, Deleters
    <2>3. CountInv(a)
        BY <1>a DEF TableInv
    <2> QED
        BY <2>1, <2>2, <2>3, CountKept
<1> QED
    BY <1>1, <1>2 DEF TableInv

(* The array of job o is freed and thread s goes on to unbind its          *)
(* accessor: the reference of the array becomes that of the pending        *)
(* unbind_ptr().                                                           *)
LEMMA TableFreed ==
    ASSUME Inv, NEW s \in Schedulers, Frame(s), NEW o \in Jobs, Alive(o),
           pc[s] \notin {"unbind", "delete"}, pc'[s] = "unbind",
           UNCHANGED <<table, m_subtable_map, m_ref_count, destroyed>>,
           table[o] # None, unbinding'[s] = table[o],
           \A n \in Jobs : Alive(n)' <=> Alive(n) /\ n # o
    PROVE  TableInv'
<1>a. TableInv /\ AccessorInv /\ TableTypes
    BY DEF Inv, TableInv, Types
<1>1. AccessorInv'
    BY <1>a DEF AccessorInv, Frame
<1>2. ASSUME NEW a \in Jobs PROVE CountInv(a)'
    <2>0. CountInv(a)
        BY <1>a DEF TableInv
    <2>1. Deleters(a)' = Deleters(a)
        BY UnbindersStep DEF Deleters
    <2>2. CASE a # table[o]
        <3>1. Arrays(a)' = Arrays(a)
            BY <2>2 DEF Arrays
        <3>2. Unbinders(a)' = Unbinders(a)
            BY <2>2, UnbindersStep DEF Unbinders
        <3> QED
            BY <2>0, <2>1, <3>1, <3>2, CountKept
    <2>3. CASE a = table[o]
        <3>1. Arrays(a)' = Arrays(a) \ {o} /\ o \in Arrays(a)
            BY <2>3 DEF Arrays
        <3>2. Unbinders(a)' = Unbinders(a) \cup {s} /\ s \notin Unbinders(a)
            BY <2>3, UnbindersStep DEF Unbinders
        <3>3. Cardinality(Arrays(a)') = Cardinality(Arrays(a)) - 1
            BY <3>1, CountedSets, FS_RemoveElement
        <3>4. Cardinality(Unbinders(a)') = Cardinality(Unbinders(a)) + 1
            BY <3>2, CountedSets, FS_AddElement
        <3>5. destroyed[a] = 0
            BY <3>1, <2>0 DEF CountInv, Gone
        <3>6. Counted(a)'
            BY <3>3, <3>4, <2>0, CountedSets DEF CountInv, Counted
        <3>7. Bounded(a)'
            BY <2>0, <2>1 DEF CountInv, Bounded
        <3> QED
            BY <3>5, <3>6, <3>7 DEF CountInv
    <2> QED
        BY <2>2, <2>3
<1> QED
    BY <1>1, <1>2 DEF TableInv

(* The release of a token does one or the other.                           *)
LEMMA TableDrops ==
    ASSUME Inv, NEW s \in Schedulers, Frame(s), NEW o,
           NEW next \in {"idle", "load 2", "clear"}, Drops(s, o, next),
           pc[s] \notin {"unbind", "delete"}
    PROVE  TableInv'
<1>a. ThreadTypes /\ TableTypes /\ TokenInv /\ CallbackInv
    BY DEF Inv, TokenInv, Types
<1>1. /\ UNCHANGED <<copied, table, m_subtable_map, m_ref_count, destroyed>>
      /\ callbacks' = IF LastToken(o) THEN callbacks \ {o} ELSE callbacks
    BY DEF Drops
<1>2. CASE Frees(o)
    <2>1. o \in Jobs /\ LastToken(o) /\ refs[Messages(o)] = 1 /\ \A u \in Schedulers : copied[u] # o
        BY <1>2 DEF Frees, LastToken
    <2>2. table[o] # None
        BY <2>1, <1>a, HeldIsObserved
    <2>3. Alive(o)
        BY <2>1, <1>a, HeldIsRegistered DEF Alive
    <2>4. \A n \in Jobs : Alive(n)' <=> Alive(n) /\ n # o
        BY <2>1, <1>1 DEF Alive
    <2>5. pc'[s] = "unbind" /\ unbinding'[s] = table[o]
        BY <1>2, <1>a DEF Drops, ThreadTypes, TableTypes
    <2> QED
        BY <2>1, <2>2, <2>3, <2>4, <2>5, <1>1, TableFreed
<1>3. CASE ~Frees(o)
    <2>1. \A n \in Jobs : Alive(n)' <=> Alive(n)
        BY <1>1, <1>3 DEF Alive, Frees, LastToken
    <2>2. pc'[s] = next
        BY <1>3, <1>a DEF Drops, ThreadTypes
    <2>3. unbinding'[s] \in {unbinding[s], None}
        BY <1>3, <1>a DEF Drops, TableTypes
    <2> QED
        BY <2>1, <2>2, <2>3, <1>1, TableKept
<1> QED
    BY <1>2, <1>3

(* messageIDs binds the accessor that the Realm has interned, which is     *)
(* alive, or a new one.                                                    *)
LEMMA TableObserved ==
    ASSUME Inv, NEW s \in Schedulers, __doJobWithCID(s) PROVE TableInv'
<1>a. /\ TableInv /\ AccessorInv /\ JobsInv /\ TokenInv /\ CallbackInv /\ ObservedInv
      /\ ThreadTypes /\ TokenTypes /\ TableTypes
    BY DEF Inv, TableInv, TokenInv, Types
<1>f. Frame(s)
    BY Frames DEF ThreadSteps
<1> DEFINE n == job[s]
           a == IF m_subtable_map[s] = None THEN n ELSE m_subtable_map[s]
<1>1. pc[s] = "lookup" /\ pc'[s] = "load 1"
    BY <1>a DEF __doJobWithCID, GoTo, ThreadTypes
<1>2. n \in Jobs /\ table[n] = None
    <2>1. At(s) = "lookup"
        BY <1>1 DEF At
    <2>2. n # None /\ table[n] = None
        BY <2>1, <1>1, <1>a DEF JobsInv
    <2>3. n \in 0..MaxTicks
        BY <1>a DEF ThreadTypes
    <2> QED
        BY <2>2, <2>3 DEF None, Jobs
<1>3. a \in Jobs /\ destroyed[a] = 0
    <2>1. CASE m_subtable_map[s] = None
        <3>1. a = n
            BY <2>1
        <3>2. CountInv(n)
            BY <1>2, <1>a DEF TableInv
        <3> QED
            BY <3>1, <3>2, <1>2 DEF CountInv, Gone
    <2>2. CASE m_subtable_map[s] # None
        <3>1. a = m_subtable_map[s] /\ m_subtable_map[s] \in 0..MaxTicks
            BY <2>2, <1>a DEF TableTypes
        <3> QED
            BY <3>1, <2>2, <1>a DEF AccessorInv, Jobs, None
    <2> QED
        BY <2>1, <2>2
<1>4. a = n \/ table[a] = a
    <2>1. CASE m_subtable_map[s] = None
        BY <2>1
    <2>2. CASE m_subtable_map[s] # None
        BY <2>2, <1>a DEF AccessorInv
    <2> QED
        BY <2>1, <2>2
<1>5. /\ m_subtable_map' = [m_subtable_map EXCEPT ![s] = a]
      /\ m_ref_count' = [m_ref_count EXCEPT ![a] = @ + 1]
      /\ table' = [table EXCEPT ![n] = a]
      /\ callbacks' = callbacks \cup {n}
      /\ UNCHANGED <<copied, unbinding, destroyed>>
    BY DEF __doJobWithCID, bind_ptr
<1> HIDE DEF n, a
<1>6. a # None /\ n # None
    BY <1>2, <1>3 DEF None, Jobs
<1>7. /\ table'[n] = a /\ \A m \in Jobs : m # n => table'[m] = table[m]
      /\ table'[a] = a
    BY <1>2, <1>3, <1>4, <1>5, <1>a DEF TableTypes
<1>8. \A m \in Jobs : table[m] # None => m # n /\ table[m] \in Jobs /\ table[m] # n
    <2> SUFFICES ASSUME NEW m \in Jobs, table[m] # None
                 PROVE  m # n /\ table[m] \in Jobs /\ table[m] # n
        OBVIOUS
    <2>1. table[m] \in Jobs
        BY <1>a DEF TableTypes, Jobs, None
    <2>2. table[table[m]] # None
        BY <1>a DEF AccessorInv
    <2> QED
        BY <2>1, <2>2, <1>2
<1>9. AccessorInv'
    <2>1. \A m \in Jobs : table'[m] # None => table'[table'[m]] = table'[m]
        BY <1>7, <1>8, <1>a DEF AccessorInv
    <2>2. ASSUME NEW u \in Schedulers, m_subtable_map'[u] # None
          PROVE  /\ table'[m_subtable_map'[u]] = m_subtable_map'[u]
                 /\ destroyed'[m_subtable_map'[u]] = 0
        <3>1. CASE u = s
            BY <3>1, <1>3, <1>5, <1>6, <1>7, <1>a DEF TableTypes
        <3>2. CASE u # s
            <4>1. m_subtable_map'[u] = m_subtable_map[u] /\ m_subtable_map[u] \in 0..MaxTicks
                BY <3>2, <1>5, <1>a DEF TableTypes
            <4>2. m_subtable_map[u] \in Jobs
                BY <4>1, <2>2 DEF Jobs, None
            <4> QED
                BY <4>1, <4>2, <2>2, <1>2, <1>5, <1>7, <1>a DEF AccessorInv
        <3> QED
            BY <3>1, <3>2
    <2>3. ASSUME NEW u \in Schedulers, unbinding'[u] # None PROVE table'[unbinding'[u]] # None
        <3>1. unbinding'[u] = unbinding[u] /\ unbinding[u] \in Jobs
            BY <2>3, <1>5, <1>a DEF TableTypes, Jobs, None
        <3> QED
            BY <3>1, <2>3, <1>2, <1>7, <1>a DEF AccessorInv
    <2> QED
        BY <2>1, <2>2, <2>3 DEF AccessorInv
<1>10. ~Alive(n)
    <2>1. refs[Messages(n)] = 0
        BY <1>2, <1>a DEF ObservedInv, Messages, Msgs
    <2>2. n \notin callbacks
        BY <2>1, <1>2, <1>a DEF CallbackInv
    <2>3. \A u \in Schedulers : copied[u] # n
        BY <1>2, <1>6, <1>a DEF ObservedInv
    <2> QED
        BY <2>2, <2>3 DEF Alive
<1>11. \A m \in Jobs : Alive(m)' <=> Alive(m) \/ m = n
    BY <1>5 DEF Alive
<1>12. ASSUME NEW b \in Jobs PROVE CountInv(b)'
    <2>0. CountInv(b)
        BY <1>a DEF TableInv
    <2>1. Unbinders(b)' = Unbinders(b) /\ Deleters(b)' = Deleters(b)
        <3>1. s \notin Unbinders(b) /\ s \notin Deleters(b)
            BY <1>1 DEF Unbinders, Deleters
        <3>2. pc'[s] # "unbind" /\ pc'[s] # "delete"
            BY <1>1
        <3> QED
            BY <3>1, <3>2, <1>f, UnbindersStep
    <2>2. table[b] # None => table'[b] # None
        BY <1>7, <1>8
    <2>3. CASE b # a
        <3>1. Arrays(b)' = Arrays(b)
            BY <2>3, <1>2, <1>7, <1>10, <1>11 DEF Arrays
        <3>2. m_ref_count'[b] = m_ref_count[b] /\ destroyed'[b] = destroyed[b]
            BY <2>3, <1>5, <1>a DEF TableTypes
        <3> QED
            BY <2>0, <2>1, <2>2, <3>1, <3>2, CountKept
    <2>4. CASE b = a
        <3>1. Arrays(b)' = Arrays(b) \cup {n} /\ n \notin Arrays(b)
            BY <2>4, <1>2, <1>7, <1>10, <1>11 DEF Arrays
        <3>2. Cardinality(Arrays(b)') = Cardinality(Arrays(b)) + 1
            BY <3>1, CountedSets, FS_AddElement
        <3>3. m_ref_count'[b] = m_ref_count[b] + 1 /\ destroyed'[b] = 0 /\ destroyed[b] = 0
            BY <2>4, <1>3, <1>5, <1>a DEF TableTypes
        <3>4. Counted(b)'
            BY <3>2, <3>3, <2>0, <2>1, CountedSets DEF CountInv, Counted
        <3>5. Bounded(b)'
            BY <3>3, <2>0, <2>1 DEF CountInv, Bounded
        <3> QED
            BY <3>3, <3>4, <3>5 DEF CountInv
    <2> QED
        BY <2>3, <2>4
<1> QED
    BY <1>9, <1>12 DEF TableInv

(* Advancing a Realm binds an interned accessor and is about to unbind it. *)
LEMMA TableAdvanced ==
    ASSUME Inv, NEW s \in Schedulers, AdvanceRealm(s) PROVE TableInv'
<1>a. TableInv /\ AccessorInv /\ ThreadTypes /\ TableTypes
    BY DEF Inv, TableInv, Types
<1>f. Frame(s)
    BY Frames DEF ThreadSteps
<1> DEFINE a == m_subtable_map[s]
<1>1. /\ pc[s] = "idle" /\ a # None /\ m_ref_count' = [m_ref_count EXCEPT ![a] = @ + 1]
      /\ pc'[s] = "unbind" /\ unbinding'[s] = a
      /\ UNCHANGED <<callbacks, copied, table, m_subtable_map, destroyed>>
    BY <1>a DEF AdvanceRealm, bind_ptr, GoTo, ThreadTypes, TableTypes, tokenVars
<1>2. a \in Jobs
    <2>1. a \in 0..MaxTicks
        BY <1>a DEF TableTypes
    <2> QED
        BY <2>1, <1>1 DEF Jobs, None
<1>3. table[a] # None /\ destroyed[a] = 0
    BY <1>1, <1>a DEF AccessorInv
<1> HIDE DEF a
<1>4. AccessorInv'
    BY <1>1, <1>3, <1>f, <1>a DEF AccessorInv, Frame
<1>6. ASSUME NEW b \in Jobs PROVE CountInv(b)'
    <2>0. CountInv(b) /\ s \notin Unbinders(b) /\ s \notin Deleters(b)
        BY <1>1, <1>a DEF TableInv, Unbinders, Deleters
    <2>1. Arrays(b)' = Arrays(b)
        BY <1>1 DEF Arrays, Alive
    <2>2. pc'[s] # "delete"
        BY <1>1
    <2>3. Deleters(b)' = Deleters(b)
        BY <2>0, <2>2, <1>f, UnbindersStep
    <2>4. CASE b # a
        <3>1. Unbinders(b)' = Unbinders(b)
            BY <2>0, <2>4, <1>1, <1>f, UnbindersStep
        <3>2. m_ref_count'[b] = m_ref_count[b]
            BY <2>4, <1>1, <1>a DEF TableTypes
        <3> QED
            BY <2>0, <2>1, <2>3, <3>1, <3>2, <1>1, CountKept
    <2>5. CASE b = a
        <3>1. Unbinders(b)' = Unbinders(b) \cup {s}
            BY <2>5, <1>1, <1>f, UnbindersStep
        <3>2. Cardinality(Unbinders(b)') = Cardinality(Unbinders(b)) + 1
            BY <3>1, <2>0, CountedSets, FS_AddElement
        <3>3. m_ref_count'[b] = m_ref_count[b] + 1
            BY <2>5, <1>1, <1>2, <1>a DEF TableTypes
        <3>4. Counted(b)'
            BY <3>2, <3>3, <2>0, <2>1, CountedSets DEF CountInv, Counted
        <3>5. Bounded(b)'
            BY <2>0, <2>3, <1>1 DEF CountInv, Bounded
        <3> QED
            BY <2>5, <3>4, <3>5, <1>1, <1>3 DEF CountInv
    <2> QED
        BY <2>4, <2>5
<1> QED
    BY <1>4, <1>6 DEF TableInv

(* The decrement of unbind_ptr(): the accessor is not destroyed, because   *)
(* the thread's reference was counted.                                     *)
LEMMA TableUnbound ==
    ASSUME Inv, NEW s \in Schedulers, Unbind(s) PROVE TableInv'
<1>a. TableInv /\ AccessorInv /\ PlaceInv /\ ThreadTypes /\ TableTypes
    BY DEF Inv, TableInv, Types
<1>f. Frame(s)
    BY Frames DEF ThreadSteps
<1> DEFINE a == unbinding[s]
           last == m_ref_count[a] = 1
<1>1. /\ pc[s] = "unbind" /\ m_ref_count' = [m_ref_count EXCEPT ![a] = @ - 1]
      /\ UNCHANGED <<callbacks, copied, table, m_subtable_map, destroyed>>
      /\ pc'[s] = IF last THEN "delete" ELSE ret[s]
      /\ unbinding'[s] = IF last THEN a ELSE None
    BY <1>a DEF Unbind, GoTo, ThreadTypes, TableTypes, tokenVars
<1>2. a \in Jobs /\ a # None
    <2>1. a \in 0..MaxTicks /\ a # None
        BY <1>1, <1>a DEF TableTypes, PlaceInv
    <2> QED
        BY <2>1 DEF Jobs, None
<1>3. ret[s] # "unbind" /\ ret[s] # "delete"
    BY <1>1, <1>a DEF PlaceInv
<1>4. pc'[s] # "unbind" /\ (pc'[s] = "delete" <=> last)
    BY <1>1, <1>3
<1>5. table[a] # None
    BY <1>2, <1>a DEF AccessorInv
<1>6. s \in Unbinders(a) /\ \A b \in Jobs : (b # a => s \notin Unbinders(b)) /\ s \notin Deleters(b)
    BY <1>1 DEF Unbinders, Deleters
<1> HIDE DEF a, last
<1>7. AccessorInv'
    BY <1>1, <1>5, <1>f, <1>a DEF AccessorInv, Frame
<1>8. ASSUME NEW b \in Jobs PROVE CountInv(b)'
    <2>0. CountInv(b)
        BY <1>a DEF TableInv
    <2>1. Arrays(b)' = Arrays(b)
        BY <1>1 DEF Arrays, Alive
    <2>2. Unbinders(b)' = Unbinders(b) \ {s}
        BY <1>4, <1>f, UnbindersStep
    <2>3. CASE b # a
        <3>1. Unbinders(b)' = Unbinders(b)
            BY <2>2, <2>3, <1>6
        <3>2. m_ref_count'[b] = m_ref_count[b]
            BY <2>3, <1>1, <1>a DEF TableTypes
        <3>3. ~(pc'[s] = "delete" /\ unbinding'[s] = b)
            BY <2>3, <1>1, <1>4
        <3>4. Deleters(b)' = Deleters(b)
            BY <3>3, <1>6, <1>f, UnbindersStep
        <3> QED
            BY <2>0, <2>1, <3>1, <3>2, <3>4, <1>1, CountKept
    <2>4. CASE b = a
        <3>1. Cardinality(Unbinders(b)') = Cardinality(Unbinders(b)) - 1
            BY <2>2, <2>4, <1>6, CountedSets, FS_RemoveElement
        <3>2. m_ref_count'[b] = m_ref_count[b] - 1
            BY <2>4, <1>1, <1>2, <1>a DEF TableTypes
        <3>3. Counted(b)'
            BY <3>1, <3>2, <2>0, <2>1, CountedSets DEF CountInv, Counted
        <3>4. destroyed[b] = 0 /\ destroyed'[b] = 0
            BY <2>0, <2>4, <1>1, <1>6 DEF CountInv, Gone
        <3>5. Bounded(b)'
            <4>1. Deleters(b)' \in SUBSET Schedulers
                BY DEF Deleters
            <4> QED
                BY <4>1, <3>4, SchedulersBound DEF Bounded
        <3> QED
            BY <3>3, <3>4, <3>5 DEF CountInv
    <2> QED
        BY <2>3, <2>4
<1> QED
    BY <1>7, <1>8 DEF TableInv

(* The second half of unbind_ptr(): the accessor is deleted when the       *)
(* count, read again under the lock, is still 0, so nobody refers to it;   *)
(* of an accessor deleted before, nobody does either.                      *)
LEMMA TableDeleted ==
    ASSUME Inv, NEW s \in Schedulers, NEW read \in BOOLEAN, UnbindLocked(s, read)
    PROVE  TableInv'
<1>a. TableInv /\ AccessorInv /\ PlaceInv /\ ThreadTypes /\ TableTypes
    BY DEF Inv, TableInv, Types
<1>f. Frame(s)
    BY Frames DEF ThreadSteps
<1> DEFINE a == unbinding[s]
<1>1. /\ pc[s] = "delete" /\ UNCHANGED <<callbacks, copied, table, m_ref_count>>
      /\ pc'[s] = ret[s] /\ unbinding'[s] = None
    BY <1>a DEF UnbindLocked, GoTo, ThreadTypes, TableTypes, tokenVars
<1>2. a \in Jobs /\ a # None
    <2>1. a \in 0..MaxTicks /\ a # None
        BY <1>1, <1>a DEF TableTypes, PlaceInv
    <2> QED
        BY <2>1 DEF Jobs, None
<1>3. pc'[s] # "unbind" /\ pc'[s] # "delete"
    BY <1>1, <1>a DEF PlaceInv
<1>4. table[a] # None
    BY <1>2, <1>a DEF AccessorInv
<1>5. s \in Deleters(a) /\ \A b \in Jobs : (b # a => s \notin Deleters(b)) /\ s \notin Unbinders(b)
    BY <1>1 DEF Unbinders, Deleters
<1>6. \/ /\ Deletes(a, read) /\ destroyed' = [destroyed EXCEPT ![a] = @ + 1]
         /\ child_accessor_destroyed(a)
      \/ UNCHANGED <<destroyed, m_subtable_map>>
    BY DEF UnbindLocked
<1> HIDE DEF a
<1>7. /\ destroyed'[a] \in {destroyed[a], destroyed[a] + 1}
      /\ \A b \in Jobs : b # a => destroyed'[b] = destroyed[b]
      /\ destroyed[a] \in Nat
    BY <1>2, <1>6, <1>a DEF TableTypes
<1>8. \A u \in Schedulers : m_subtable_map'[u] # None =>
          m_subtable_map'[u] = m_subtable_map[u] /\ destroyed'[m_subtable_map[u]] = 0
    <2>1. CASE UNCHANGED <<destroyed, m_subtable_map>>
        BY <2>1, <1>a DEF AccessorInv
    <2>2. CASE child_accessor_destroyed(a)
        <3> SUFFICES ASSUME NEW u \in Schedulers, m_subtable_map'[u] # None
                     PROVE  m_subtable_map'[u] = m_subtable_map[u] /\ destroyed'[m_subtable_map[u]] = 0
            OBVIOUS
        <3>1. m_subtable_map'[u] = m_subtable_map[u] /\ m_subtable_map[u] # a /\ m_subtable_map[u] # None
            BY <2>2 DEF child_accessor_destroyed
        <3>2. m_subtable_map[u] \in 0..MaxTicks
            BY <1>a DEF TableTypes
        <3>3. m_subtable_map[u] \in Jobs
            BY <3>1, <3>2 DEF Jobs, None
        <3> QED
            BY <3>1, <3>3, <1>7, <1>a DEF AccessorInv
    <2> QED
        BY <2>1, <2>2, <1>6
<1>9. AccessorInv'
    BY <1>1, <1>8, <1>f, <1>a DEF AccessorInv, Frame
<1>10. ASSUME NEW b \in Jobs PROVE CountInv(b)'
    <2>0. CountInv(b)
        BY <1>a DEF TableInv
    <2>1. Arrays(b)' = Arrays(b)
        BY <1>1 DEF Arrays, Alive
    <2>2. Unbinders(b)' = Unbinders(b) /\ Deleters(b)' = Deleters(b) \ {s}
        <3>1. Unbinders(b)' = Unbinders(b) \ {s} /\ Deleters(b)' = Deleters(b) \ {s}
            BY <1>3, <1>f, UnbindersStep
        <3> QED
            BY <3>1, <1>5
    <2>3. CASE b # a
        <3>1. Deleters(b)' = Deleters(b) /\ destroyed'[b] = destroyed[b]
            BY <2>2, <2>3, <1>5, <1>7
        <3> QED
            BY <2>0, <2>1, <2>2, <3>1, <1>1, CountKept
    <2>4. CASE b = a
        <3>1. Counted(b)'
            BY <2>0, <2>1, <2>2, <1>1 DEF CountInv, Counted
        <3>2. Cardinality(Deleters(b)') = Cardinality(Deleters(b)) - 1
            BY <2>2, <2>4, <1>5, CountedSets, FS_RemoveElement
        <3>3. Bounded(b)'
            BY <3>2, <2>0, <2>4, <1>7, CountedSets, SchedulersBound DEF CountInv, Bounded
        <3>4. destroyed'[b] # 0 => Gone(b)'
            <4>1. Gone(b) => Gone(b)'
                BY <2>1, <2>2, <1>1 DEF Gone
            <4>2. CASE destroyed[b] # 0
                BY <4>1, <4>2, <2>0 DEF CountInv
            <4>3. CASE destroyed[b] = 0 /\ destroyed'[b] # 0
                <5>1. Deletes(a, read)
                    BY <4>3, <2>4, <1>6
                <5>2. m_ref_count[b] = 0
                    BY <5>1, <4>3, <2>4 DEF Deletes
                <5>3. Cardinality(Arrays(b)) = 0 /\ Cardinality(Unbinders(b)) = 0
                    BY <5>2, <2>0, CountedSets DEF CountInv, Counted
                <5>4. Arrays(b) = {} /\ Unbinders(b) = {}
                    BY <5>3, CountedSets, FS_EmptySet
                <5> QED
                    BY <5>4, <4>1, <2>4, <1>4 DEF Gone
            <4> QED
                BY <4>2, <4>3
        <3> QED
            BY <3>1, <3>3, <3>4 DEF CountInv
    <2> QED
        BY <2>3, <2>4
<1> QED
    BY <1>9, <1>10 DEF TableInv

(* The end of a delivery frees the array when the callback was removed     *)
(* meanwhile; the copy was the last one.                                   *)
LEMMA TableDelivered ==
    ASSUME Inv, NEW s \in Schedulers, EndDelivery(s) PROVE TableInv'
<1>a. ObservedInv /\ PlaceInv /\ ThreadTypes /\ TokenTypes /\ TableTypes
    BY DEF Inv, TokenInv, Types
<1>f. Frame(s)
    BY Frames DEF ThreadSteps
<1> DEFINE o == copied[s]
<1>1. /\ pc[s] = "deliver" /\ UNCHANGED <<callbacks, table, m_subtable_map, m_ref_count, destroyed>>
      /\ copied'[s] = None
    BY <1>a DEF EndDelivery, tokenVars, TokenTypes
<1>2. o # None /\ table[o] # None
    BY <1>1, <1>a DEF PlaceInv, ObservedInv
<1>3. o \in Jobs
    <2>1. o \in 0..MaxTicks
        BY <1>a DEF TokenTypes
    <2> QED
        BY <2>1, <1>2 DEF Jobs, None
<1>4. \A u \in Schedulers : u # s => copied'[u] = copied[u] /\ copied[u] # o
    BY <1>2, <1>f, <1>a DEF Frame, ObservedInv
<1>5. CASE o \in callbacks
    <2>1. \A n \in Jobs : Alive(n)' <=> Alive(n)
        <3> SUFFICES ASSUME NEW n \in Jobs PROVE Alive(n)' <=> Alive(n)
            OBVIOUS
        <3>1. n # None
            BY DEF Jobs, None
        <3> QED
            BY <3>1, <1>1, <1>4, <1>5 DEF Alive
    <2>2. pc'[s] = "idle" /\ unbinding'[s] = unbinding[s]
        BY <1>5, <1>a DEF EndDelivery, GoTo, ThreadTypes
    <2> QED
        BY <2>1, <2>2, <1>1, <1>f, TableKept
<1>6. CASE o \notin callbacks
    <2>1. \A n \in Jobs : Alive(n)' <=> Alive(n) /\ n # o
        <3> SUFFICES ASSUME NEW n \in Jobs PROVE Alive(n)' <=> Alive(n) /\ n # o
            OBVIOUS
        <3>1. n # None
            BY DEF Jobs, None
        <3> QED
            BY <3>1, <1>1, <1>4, <1>6 DEF Alive
    <2>2. pc'[s] = "unbind" /\ unbinding'[s] = table[o]
        BY <1>6, <1>a DEF EndDelivery, GoTo, ThreadTypes, TableTypes
    <2>3. Alive(o)
        BY DEF Alive
    <2> QED
        BY <2>1, <2>2, <2>3, <1>1, <1>2, <1>3, <1>f, TableFreed
<1> QED
    BY <1>5, <1>6

(* Every step keeps the invariant of the accessors.                        *)
LEMMA TableStep == Inv /\ [Next]_vars => TableInv'
<1> SUFFICES ASSUME Inv, [Next]_vars PROVE TableInv'
    OBVIOUS
<1>a. TableInv /\ PlaceInv /\ ThreadTypes /\ TokenTypes /\ TableTypes
    BY DEF Inv, Types
<1>1. CASE UNCHANGED threads
    <2>1. AccessorInv'
        BY <1>1, <1>a DEF threads, tableVars, TableInv, AccessorInv
    <2>2. ASSUME NEW a \in Jobs PROVE CountInv(a)'
        <3>1. Arrays(a)' = Arrays(a) /\ Unbinders(a)' = Unbinders(a) /\ Deleters(a)' = Deleters(a)
            BY <1>1 DEF threads, tableVars, threadVars, tokenVars, Arrays, Alive, Unbinders, Deleters
        <3> QED
            BY <3>1, <1>1, <1>a, CountKept DEF threads, tableVars, TableInv
    <2> QED
        BY <2>1, <2>2 DEF TableInv
<1>2. CASE __startJob \/ \E b \in {"flip", "reset"} \X Jobs : WriterBlock(b)
    BY <1>1, <1>2, Zenon DEF __startJob, WriterBlock, threads
<1>3. CASE UNCHANGED vars
    BY <1>1, <1>3, Zenon DEF vars, threads
<1>4. ASSUME NEW s \in Schedulers,
             (\E u \in Schedulers : __notifyJob(s, u)) \/ RunJob(s) \/ LoadSlot(s)
      PROVE  TableInv'
    <2>1. Frame(s)
        BY <1>4, Frames DEF ThreadSteps
    <2>2. UNCHANGED <<callbacks, copied, table, m_subtable_map, m_ref_count, unbinding, destroyed>>
        BY <1>4 DEF __notifyJob, RunJob, LoadSlot, tokenVars, tableVars
    <2>3. pc[s] \notin {"unbind", "delete"} /\ pc'[s] \notin {"unbind", "delete"}
        BY <1>4, <1>a DEF __notifyJob, RunJob, LoadSlot, Begin, GoTo, ThreadTypes
    <2>4. \A n \in Jobs : Alive(n)' <=> Alive(n)
        BY <2>2 DEF Alive
    <2> QED
        BY <2>1, <2>2, <2>3, <2>4, TableKept
<1>5. ASSUME NEW s \in Schedulers, NEW n \in Jobs, BeginDelivery(s, n) PROVE TableInv'
    <2>1. Frame(s)
        BY <1>5, Frames DEF ThreadSteps
    <2>2. /\ UNCHANGED <<callbacks, table, m_subtable_map, m_ref_count, unbinding, destroyed>>
          /\ pc[s] = "idle" /\ pc'[s] = "deliver" /\ copied'[s] = n /\ n \in callbacks
        BY <1>5, <1>a DEF BeginDelivery, GoTo, tokenVars, tableVars, ThreadTypes, TokenTypes
    <2>3. ASSUME NEW m \in Jobs PROVE Alive(m)' <=> Alive(m)
        <3>0. copied[s] = None
            BY <2>2, <1>a DEF PlaceInv
        <3>1. copied[s] = None /\ m # None
            BY <3>0 DEF Jobs, None
        <3> QED
            BY <3>1, <2>1, <2>2 DEF Alive, Frame
    <2> QED
        BY <2>1, <2>2, <2>3, TableKept
<1>6. ASSUME NEW s \in Schedulers, StoreSlot(s) PROVE TableInv'
    <2>1. Frame(s) /\ job[s] # None /\ old[s] # job[s] /\ pc[s] \notin {"unbind", "delete"}
        BY <1>6, Frames, StoresOnce DEF ThreadSteps, StoreSlot
    <2>2. \E o, next : next \in {"load 2", "clear"} /\ Drops(s, o, next)
        BY <2>1, <1>6, StoreStep DEF Inv
    <2> QED
        BY <2>1, <2>2, TableDrops
<1>7. ASSUME NEW s \in Schedulers, RemoveAllObjects(s) PROVE TableInv'
    <2>1. Frame(s) /\ job[s] # None /\ pc[s] \notin {"unbind", "delete"}
        BY <1>7, Frames, StoresOnce DEF ThreadSteps, RemoveAllObjects
    <2>2. Drops(s, job[s], "idle")
        BY <2>1, <1>7, ClearStep DEF Inv
    <2> QED
        BY <2>1, <2>2, TableDrops
<1> QED
    BY NextStep, TableObserved, TableAdvanced, TableDelivered, TableUnbound, TableDeleted,
       <1>2, <1>3, <1>4, <1>5, <1>6, <1>7

-----------------------------------------------------------------------------
(* The invariant.                                                          *)

(* The application starts in the invariant.                                *)
LEMMA InvInit == Init => Inv
<1> SUFFICES ASSUME Init PROVE Inv
    OBVIOUS
<1>1. FlipInv /\ Types
    BY FlipInit, TypesInit
<1>2. PlaceInv
    BY DEF Init, PlaceInv
<1>3. QueueInv
    BY DEF Init, QueueInv
<1>4. JobsInv
    BY DEF Init, JobsInv, At, None
<1>5. CallbackInv
    <2>1. \A n \in Jobs : refs[Messages(n)] = 0
        BY TokenFacts DEF Init
    <2> QED
        BY <2>1 DEF Init, CallbackInv
<1>6. ObservedInv
    BY TokenFacts DEF Init, ObservedInv, None
<1>7. UnstoredInv
    BY DEF Init, UnstoredInv, At, Early, Late
<1>8. AccessorInv
    BY DEF Init, AccessorInv
<1>9. ASSUME NEW a \in Jobs PROVE CountInv(a)
    <2>1. Arrays(a) = {} /\ Unbinders(a) = {} /\ Deleters(a) = {}
        BY DEF Init, Arrays, Unbinders, Deleters, None, Jobs
    <2>2. m_ref_count[a] = 0 /\ destroyed[a] = 0
        BY DEF Init
    <2>3. Cardinality(Schedulers) \in Nat
        BY SchedulersBound
    <2> QED
        BY <2>1, <2>2, <2>3, FS_EmptySet DEF CountInv, Counted, Bounded
<1> QED
    BY <1>1, <1>2, <1>3, <1>4, <1>5, <1>6, <1>7, <1>8, <1>9 DEF Inv, TokenInv, TableInv

(* Every step keeps the invariant.                                         *)
LEMMA InvStep == Inv /\ [Next]_vars => Inv'
<1> SUFFICES ASSUME Inv, [Next]_vars PROVE Inv'
    OBVIOUS
<1>1. FlipInv'
    BY FlipStep DEF Inv
<1>2. Types' /\ PlaceInv'
    BY TypesStep, PlaceStep
<1>3. QueueInv' /\ JobsInv' /\ TokenInv' /\ TableInv'
    BY JobsStep, TokenStep, TableStep
<1> QED
    BY <1>1, <1>2, <1>3 DEF Inv

(* Every variable has its type; in particular m_ref_count never goes below *)
(* 0, whatever the threads drop, and no accessor's mutex is destroyed more *)
(* often than there are threads.                                           *)
THEOREM TypeCorrect == Spec => []TypeOK
<1>1. Inv => TypeOK
    <2> SUFFICES ASSUME Inv PROVE TypeOK
        OBVIOUS
    <2>a. AppTypes /\ ThreadTypes /\ TokenTypes /\ TableTypes /\ WritesInv /\ conversation
        BY DEF Inv, Types, FlipInv
    <2>1. writes \subseteq {"flip", "reset"} \X Jobs
        BY <2>a, AppAssumption DEF WritesInv, Jobs
    <2>2. conversation \in BOOLEAN
        BY <2>a, Zenon
    <2>3. m_ref_count \in [Jobs -> Nat] /\ destroyed \in [Jobs -> 0..Cardinality(Schedulers)]
        <3>1. ASSUME NEW a \in Jobs
              PROVE  m_ref_count[a] \in Nat /\ destroyed[a] \in 0..Cardinality(Schedulers)
            <4>1. CountInv(a)
                BY DEF Inv, TableInv
            <4>2. m_ref_count[a] \in Nat
                BY <4>1, CountedSets DEF CountInv, Counted
            <4>3. destroyed[a] \in Nat
                BY <2>a DEF TableTypes
            <4>4. destroyed[a] <= Cardinality(Schedulers)
                BY <4>1, <4>3, CountedSets, SchedulersBound DEF CountInv, Bounded
            <4> QED
                BY <4>2, <4>3, <4>4, SchedulersBound
        <3> QED
            BY <3>1, <2>a DEF TableTypes
    <2> QED
        BY <2>1, <2>2, <2>3, <2>a
           DEF TypeOK, AppTypes, ThreadTypes, TokenTypes, TableTypes, WritesInv
<1> QED
    BY InvInit, InvStep, <1>1, PTL DEF Spec

(* With any number of threads, and even with overlapping stores (which     *)
(* lose or release tokens twice), an array whose callback is registered or *)
(* being called refers to an accessor that was not destroyed: the count    *)
(* read again under m_subtable_map_lock is exact.                          *)
THEOREM ArraysKeepTheirTables == Spec => []ArraysKeepTheirTable
<1>1. Inv => ArraysKeepTheirTable
    <2> SUFFICES ASSUME Inv, NEW n \in Jobs,
                        n \in callbacks \/ \E s \in Schedulers : copied[s] = n
                 PROVE  destroyed[table[n]] = 0
        BY DEF ArraysKeepTheirTable
    <2>a. TokenInv /\ CallbackInv /\ ObservedInv /\ TableTypes
        BY DEF Inv, TokenInv, Types
    <2>1. table[n] # None
        <3>1. CASE n \in callbacks
            <4>1. refs[Messages(n)] > 0
                BY <3>1, <2>a DEF CallbackInv
            <4>2. refs[<<n, Msgs>>] # 0
                BY <4>1, TokenFacts
            <4> QED
                BY <4>2, <2>a DEF ObservedInv
        <3>2. CASE \E s \in Schedulers : copied[s] = n
            <4>1. n # None
                BY DEF Jobs, None
            <4> QED
                BY <3>2, <4>1, <2>a DEF ObservedInv
        <3> QED
            BY <3>1, <3>2
    <2>2. table[n] \in Jobs
        <3>1. table[n] \in 0..MaxTicks
            BY <2>a DEF TableTypes
        <3> QED
            BY <2>1, <3>1 DEF Jobs, None
    <2>3. n \in Arrays(table[n])
        BY DEF Arrays, Alive
    <2>4. CountInv(table[n])
        BY <2>2 DEF Inv, TableInv
    <2> QED
        BY <2>3, <2>4 DEF CountInv, Gone
<1> QED
    BY InvInit, InvStep, <1>1, PTL DEF Spec

-----------------------------------------------------------------------------
(* The tokens in the variables.                                            *)

(* A job number other than None is a job.                                  *)
LEMMA JobsNonNone == ASSUME NEW n \in 0..MaxTicks, n # None PROVE n \in Jobs
BY DEF Jobs, None

(* The array's references are counted in integers.                         *)
LEMMA HeldType == ASSUME NEW n PROVE Held(n) = 1 \/ Held(n) = 0
BY Zenon DEF Held

(* A step that neither stores, releases nor makes a token.                 *)
LEMMA SharesKept ==
    ASSUME Inv, ShareInv, NEW s \in Schedulers, Frame(s), UNCHANGED <<slot, refs>>,
           pc'[s] \in Early => pc[s] \in Early /\ job'[s] = job[s],
           \A n \in Jobs : Holds(s, n)' <=> Holds(s, n)
    PROVE  ShareInv'
<1>1. \A u \in Schedulers, n \in Jobs : Holds(u, n)' <=> Holds(u, n)
    BY DEF Holds, Frame
<1>2. \A n \in Jobs : Held(n)' = Held(n)
    BY <1>1 DEF Held
<1>3. StoredInv'
    BY <1>2 DEF ShareInv, StoredInv
<1>4. EarlyInv'
    BY DEF ShareInv, EarlyInv, Frame
<1> QED
    BY <1>3, <1>4 DEF ShareInv

(* observe() makes tokens that the job's array holds.                      *)
LEMMA SharesObserved ==
    ASSUME Inv, ShareInv, NEW s \in Schedulers, __doJobWithCID(s) PROVE ShareInv'
<1>a. StoredInv /\ EarlyInv /\ JobsInv /\ ObservedInv /\ ThreadTypes /\ TokenTypes
    BY DEF Inv, TokenInv, Types, ShareInv
<1>f. Frame(s)
    BY Frames DEF ThreadSteps
<1>1. pc[s] = "lookup" /\ At(s) = "lookup" /\ pc'[s] = "load 1" /\ UNCHANGED <<slot, job, old>>
    BY <1>a DEF __doJobWithCID, GoTo, At, ThreadTypes
<1>2. job[s] # None /\ table[job[s]] = None
    BY <1>1, <1>a DEF JobsInv
<1>3. PICK n \in Jobs : n = job[s]
    <2>1. job[s] \in 0..MaxTicks
        BY <1>a DEF ThreadTypes
    <2> QED
        BY <2>1, <1>2, JobsNonNone
<1>4. \A k \in Slots : slot[k] # n
    BY <1>2, <1>3, <1>a DEF ObservedInv
<1>5. /\ \A k \in Slots : refs'[<<n, k>>] = 1
      /\ \A m \in Jobs, k \in Slots : m # n => refs'[<<m, k>>] = refs[<<m, k>>]
    BY <1>3, TokenFacts DEF __doJobWithCID
<1>6. \A m \in Jobs : m # n => Held(m)' = Held(m)
    BY <1>1, <1>3, <1>f DEF Held, Holds, Frame
<1>7. StoredInv'
    BY <1>1, <1>4, <1>5, <1>6, <1>a DEF StoredInv
<1>8. EarlyInv'
    <2> SUFFICES ASSUME NEW u \in Schedulers, pc'[u] \in Early
                 PROVE  refs'[<<job[u], Conv>>] = 1
        BY <1>1 DEF EarlyInv
    <2>1. CASE u = s
        BY <2>1, <1>3, <1>5, TokenFacts
    <2>2. CASE u # s
        <3>1. pc[u] \in Early
            BY <2>2, <1>f DEF Frame
        <3>2. job[u] # None
            BY <3>1, <1>a DEF JobsInv, At, Early
        <3>3. job[u] \in Jobs /\ job[u] # n
            <4>1. job[u] \in 0..MaxTicks
                BY <1>a DEF ThreadTypes
            <4> QED
                BY <4>1, <3>2, <2>2, <1>2, <1>3, <1>a, JobsNonNone DEF JobsInv
        <3>4. refs[<<job[u], Conv>>] = 1
            BY <3>1, <1>a DEF EarlyInv
        <3> QED
            BY <3>3, <3>4, <1>5, TokenFacts
    <2> QED
        BY <2>1, <2>2
<1> QED
    BY <1>7, <1>8 DEF ShareInv

(* A store gives the new token the reference of the variable; what it      *)
(* releases is neither in a variable afterwards nor still to be stored.    *)
LEMMA SharesStored ==
    ASSUME Inv, ShareInv, NEW s \in Schedulers, StoreSlot(s) PROVE ShareInv'
<1>a. StoredInv /\ EarlyInv /\ JobsInv /\ UnstoredInv /\ Types /\ ThreadTypes /\ TokenTypes
    BY DEF Inv, TokenInv, Types, ShareInv
<1>f. Frame(s)
    BY Frames DEF ThreadSteps
<1>0. job[s] # None /\ old[s] # job[s] /\ pc[s] \in {"store 1", "store 2"} /\ At(s) = pc[s]
    BY StoresOnce DEF StoreSlot, At
<1>1. PICK n \in Jobs : n = job[s]
    <2>1. job[s] \in 0..MaxTicks
        BY <1>a DEF ThreadTypes
    <2> QED
        BY <2>1, <1>0, JobsNonNone
<1>2. ASSUME NEW k \in Slots, NEW next \in {"load 2", "clear"}, NEW o,
             Stores(s, k), Drops(s, o, next), refs[<<n, k>>] = 1,
             \A u \in Schedulers \ {s} : pc[u] \in Early /\ k = Conv => old[s] # job[u]
      PROVE  ShareInv'
    <2>1. pc'[s] \in {next, "unbind"} /\ job' = job
        BY <1>2, <1>a, DropsAt DEF Stores
    <2>2. \A m \in Jobs : Held(m)' = Held(m)
        <3>1. \A u \in Schedulers, m \in Jobs : Holds(u, m)' <=> Holds(u, m)
            BY <2>1, <1>0, <1>f DEF Holds, Frame
        <3> QED
            BY <3>1 DEF Held
    <2>3. \A l \in Slots : slot'[l] = IF l = k THEN n ELSE slot[l]
        BY <1>1, <1>2, <1>a DEF Stores, TokenTypes
    <2>4. \A m \in Jobs, l \in Slots :
             refs'[<<m, l>>] = IF l = k /\ m = n THEN refs[<<m, l>>] + 1
                               ELSE IF l = k /\ m = old[s] THEN refs[<<m, l>>] - 1
                               ELSE refs[<<m, l>>]
        <3> SUFFICES ASSUME NEW m \in Jobs, NEW l \in Slots
                     PROVE  refs'[<<m, l>>] = IF l = k /\ m = n THEN refs[<<m, l>>] + 1
                               ELSE IF l = k /\ m = old[s] THEN refs[<<m, l>>] - 1
                               ELSE refs[<<m, l>>]
            OBVIOUS
        <3>1. <<m, l>> \in Tokens
            BY TokenFacts
        <3>2. /\ <<m, l>> = <<job[s], k>> <=> l = k /\ m = n
              /\ <<m, l>> = <<old[s], k>> <=> l = k /\ m = old[s]
            BY <1>1, TokenFacts
        <3> QED
            BY <3>1, <3>2, <1>2 DEF Stores
    <2>5. Held(n) = 1
        BY <1>0, <1>1 DEF Held, Holds
    <2>6. StoredInv'
        <3> SUFFICES ASSUME NEW m \in Jobs, NEW l \in Slots, slot'[l] = m
                     PROVE  refs'[<<m, l>>] = 1 + Held(m)'
            BY DEF StoredInv
        <3>1. CASE l = k
            <4>1. m = n
                BY <3>1, <2>3
            <4> QED
                BY <4>1, <3>1, <2>2, <2>4, <2>5, <1>2
        <3>2. CASE l # k
            <4>1. slot[l] = m
                BY <3>2, <2>3
            <4>2. refs'[<<m, l>>] = refs[<<m, l>>] /\ Held(m)' = Held(m)
                BY <3>2, <2>2, <2>4
            <4> QED
                BY <4>1, <4>2, <1>a DEF StoredInv
        <3> QED
            BY <3>1, <3>2
    <2>7. EarlyInv'
        <3> SUFFICES ASSUME NEW u \in Schedulers, pc'[u] \in Early
                     PROVE  refs'[<<job[u], Conv>>] = 1
            BY <2>1 DEF EarlyInv
        <3>1. u # s /\ pc[u] \in Early
            BY <2>1, <1>f DEF Frame, Early
        <3>2. job[u] # None
            BY <3>1, <1>a DEF JobsInv, At, Early
        <3>3. PICK m \in Jobs : m = job[u]
            <4>1. job[u] \in 0..MaxTicks
                BY <1>a DEF ThreadTypes
            <4> QED
                BY <4>1, <3>2, JobsNonNone
        <3>4. m # n /\ (k = Conv => old[s] # m)
            BY <3>1, <3>2, <3>3, <1>0, <1>1, <1>2, <1>a DEF JobsInv
        <3>5. refs[<<m, Conv>>] = 1
            BY <3>1, <3>3, <1>a DEF EarlyInv
        <3> QED
            BY <3>3, <3>4, <3>5, <2>4, TokenFacts
    <2> QED
        BY <2>6, <2>7 DEF ShareInv
<1>3. CASE pc[s] = "store 1"
    <2>1. Stores(s, Conv) /\ Drops(s, None, "load 2")
        BY <1>0, <1>3, <1>a, StoreStep
    <2>2. refs[<<n, Conv>>] = 1
        BY <1>1, <1>3, <1>a DEF EarlyInv, Early
    <2>3. \A u \in Schedulers : pc[u] \in Early => old[s] # job[u]
        <3>1. \A u \in Schedulers : pc[u] \in Early => At(u) \in Early
            BY DEF At, Early
        <3> QED
            BY <3>1, <1>3, <1>a DEF UnstoredInv, Unstored
    <2> QED
        BY <2>1, <2>2, <2>3, <1>2, TokenFacts
<1>4. CASE pc[s] = "store 2"
    <2>1. Stores(s, Msgs) /\ Drops(s, old[s], "clear")
        BY <1>0, <1>4, <1>a, StoreStep
    <2>2. refs[<<n, Msgs>>] = 1
        <3>1. refs[Messages(n)] = 1
            BY <1>0, <1>1, <1>4, <1>a DEF UnstoredInv, Late
        <3> QED
            BY <3>1, TokenFacts
    <2> QED
        BY <2>1, <2>2, <1>2, TokenFacts
<1> QED
    BY <1>0, <1>3, <1>4

(* removeAllObjects ends the references of the job's array.                *)
LEMMA SharesCleared ==
    ASSUME Inv, ShareInv, NEW s \in Schedulers, RemoveAllObjects(s) PROVE ShareInv'
<1>a. StoredInv /\ EarlyInv /\ JobsInv /\ Types /\ ThreadTypes /\ TokenTypes
    BY DEF Inv, Types, ShareInv
<1>f. Frame(s)
    BY Frames DEF ThreadSteps
<1>1. job[s] # None /\ pc[s] = "clear"
    BY StoresOnce DEF RemoveAllObjects
<1>2. Clears(s) /\ Drops(s, job[s], "idle")
    BY <1>1, <1>a, ClearStep
<1>3. pc'[s] \in {"idle", "unbind"} /\ UNCHANGED <<slot, old>> /\ job'[s] = None
    BY <1>2, <1>a, DropsAt DEF Clears, ThreadTypes
<1>4. \A n \in Jobs, l \in Slots :
         refs'[<<n, l>>] = IF n = job[s] THEN refs[<<n, l>>] - 1 ELSE refs[<<n, l>>]
    BY <1>2, TokenFacts DEF Clears
<1>m. PICK m \in Jobs : m = job[s]
    <2>1. job[s] \in 0..MaxTicks
        BY <1>a DEF ThreadTypes
    <2> QED
        BY <2>1, <1>1, JobsNonNone
<1>5. Held(m) = 1
    BY <1>1, <1>m DEF Held, Holds
<1>6. Held(m)' = 0
    <2>1. \A u \in Schedulers : job'[u] # m
        BY <1>1, <1>3, <1>m, <1>f, <1>a DEF JobsInv, Frame
    <2> QED
        BY <2>1 DEF Held, Holds
<1>7. \A n \in Jobs : n # m => Held(n)' = Held(n)
    <2>1. \A n \in Jobs : n # None
        BY DEF Jobs, None
    <2> QED
        BY <2>1, <1>1, <1>3, <1>m, <1>f DEF Held, Holds, Frame
<1>8. StoredInv'
    <2> SUFFICES ASSUME NEW n \in Jobs, NEW l \in Slots, slot[l] = n
                 PROVE  refs'[<<n, l>>] = 1 + Held(n)'
        BY <1>3 DEF StoredInv
    <2>2. refs[<<n, l>>] = 1 + Held(n)
        BY <1>a DEF StoredInv
    <2>3. CASE n = m
        BY <2>2, <2>3, <1>4, <1>5, <1>6, <1>m
    <2>4. CASE n # m
        BY <2>2, <2>4, <1>4, <1>7, <1>m
    <2> QED
        BY <2>3, <2>4
<1>9. EarlyInv'
    <2> SUFFICES ASSUME NEW u \in Schedulers, pc'[u] \in Early
                 PROVE  refs'[<<job'[u], Conv>>] = 1
        BY DEF EarlyInv
    <2>1. u # s /\ pc[u] \in Early /\ job'[u] = job[u]
        BY <1>3, <1>f DEF Frame, Early
    <2>2. job[u] # None
        BY <2>1, <1>a DEF JobsInv, At, Early
    <2>3. PICK n \in Jobs : n = job[u]
        <3>1. job[u] \in 0..MaxTicks
            BY <1>a DEF ThreadTypes
        <3> QED
            BY <3>1, <2>2, JobsNonNone
    <2>4. n # job[s]
        BY <2>1, <2>2, <2>3, <1>a DEF JobsInv
    <2>5. refs[<<n, Conv>>] = 1
        BY <2>1, <2>3, <1>a DEF EarlyInv
    <2> QED
        BY <2>1, <2>3, <2>4, <2>5, <1>4, TokenFacts
<1> QED
    BY <1>8, <1>9 DEF ShareInv

(* Every step keeps the counts of the tokens in the variables.             *)
LEMMA ShareStep == Inv /\ ShareInv /\ [Next]_vars => ShareInv'
<1> SUFFICES ASSUME Inv, ShareInv, [Next]_vars PROVE ShareInv'
    OBVIOUS
<1>a. PlaceInv /\ JobsInv /\ ThreadTypes /\ TokenTypes
    BY DEF Inv, Types
<1>1. CASE UNCHANGED threads
    <2>1. UNCHANGED <<slot, old, refs, pc, job>>
        BY <1>1 DEF threads, threadVars, tokenVars
    <2>2. \A n : Held(n)' = Held(n)
        BY <2>1 DEF Held, Holds
    <2>3. StoredInv'
        BY <2>1, <2>2 DEF ShareInv, StoredInv
    <2>4. EarlyInv'
        BY <2>1 DEF ShareInv, EarlyInv
    <2> QED
        BY <2>3, <2>4 DEF ShareInv
<1>2. CASE __startJob \/ \E b \in {"flip", "reset"} \X Jobs : WriterBlock(b)
    BY <1>1, <1>2, Zenon DEF __startJob, WriterBlock, threads
<1>3. CASE UNCHANGED vars
    BY <1>1, <1>3, Zenon DEF vars, threads
<1>4. ASSUME NEW s \in Schedulers,
             (\E u \in Schedulers : __notifyJob(s, u)) \/ RunJob(s)
      PROVE  ShareInv'
    <2>1. Frame(s)
        BY <1>4, Frames DEF ThreadSteps
    <2>2. UNCHANGED <<slot, refs>> /\ pc[s] = "idle" /\ pc'[s] \in {"idle", "lookup"}
          /\ (pc'[s] = "idle" => job'[s] = job[s])
        BY <1>4, <1>a DEF __notifyJob, RunJob, Begin, GoTo, tokenVars, ThreadTypes
    <2>3. job[s] = None
        BY <2>2, <1>a DEF JobsInv, At
    <2>4. \A n \in Jobs : Holds(s, n)' <=> Holds(s, n)
        BY <2>2, <2>3 DEF Holds, Jobs, None
    <2>5. pc'[s] \notin Early
        BY <2>2 DEF Early
    <2> QED
        BY <2>1, <2>2, <2>4, <2>5, SharesKept
<1>5. ASSUME NEW s \in Schedulers,
             \/ AdvanceRealm(s) \/ (\E n \in Jobs : BeginDelivery(s, n)) \/ EndDelivery(s)
             \/ Unbind(s) \/ \E read \in BOOLEAN : UnbindLocked(s, read)
      PROVE  ShareInv'
    <2>1. Frame(s)
        BY <1>5, Frames DEF ThreadSteps
    <2>2. UNCHANGED <<slot, refs, job>>
        BY <1>5 DEF AdvanceRealm, BeginDelivery, EndDelivery, Unbind, UnbindLocked, tokenVars
    <2>3. pc[s] \in {"idle", "deliver", "unbind", "delete"}
        BY <1>5 DEF AdvanceRealm, BeginDelivery, EndDelivery, Unbind, UnbindLocked
    <2>4. pc[s] \in {"unbind", "delete"} => ret[s] \in {"idle", "load 2", "clear"}
        BY <1>a DEF PlaceInv
    <2>5. pc'[s] \in {"idle", "deliver", "unbind", "delete"}
          \/ (pc[s] \in {"unbind", "delete"} /\ pc'[s] = ret[s])
        BY <1>5, <1>a DEF AdvanceRealm, BeginDelivery, EndDelivery, Unbind, UnbindLocked, GoTo,
                          ThreadTypes
    <2>6. pc'[s] # "lookup" /\ pc[s] # "lookup" /\ pc'[s] \notin Early
        BY <2>3, <2>4, <2>5 DEF Early
    <2>7. \A n \in Jobs : Holds(s, n)' <=> Holds(s, n)
        BY <2>2, <2>6 DEF Holds
    <2> QED
        BY <2>1, <2>2, <2>6, <2>7, SharesKept
<1>6. ASSUME NEW s \in Schedulers, LoadSlot(s) PROVE ShareInv'
    <2>1. Frame(s)
        BY <1>6, Frames DEF ThreadSteps
    <2>2. UNCHANGED <<slot, refs, job>>
        BY <1>6 DEF LoadSlot
    <2>3. \/ pc[s] = "load 1" /\ pc'[s] = "store 1"
          \/ pc[s] = "load 2" /\ pc'[s] = "store 2"
        BY <1>6, <1>a DEF LoadSlot, GoTo, ThreadTypes
    <2>4. \A n \in Jobs : Holds(s, n)' <=> Holds(s, n)
        BY <2>2, <2>3 DEF Holds
    <2>5. pc'[s] \in Early => pc[s] \in Early
        BY <2>3 DEF Early
    <2> QED
        BY <2>1, <2>2, <2>4, <2>5, SharesKept
<1> QED
    BY NextStep, SharesObserved, SharesStored, SharesCleared,
       <1>2, <1>3, <1>4, <1>5, <1>6

(* For any number of threads and jobs, and however their stores overlap,   *)
(* the token that a variable holds is retained and its callback is still   *)
(* registered.  (An overwritten token may be leaked or released twice;     *)
(* nothing is claimed of it.)                                              *)
THEOREM StoredTokensAreLive == Spec => []StoredTokensLive
<1>1. Init => ShareInv
    <2> SUFFICES ASSUME Init PROVE ShareInv
        OBVIOUS
    <2>1. StoredInv
        BY DEF Init, StoredInv, Jobs, None
    <2>2. EarlyInv
        BY DEF Init, EarlyInv, Early
    <2> QED
        BY <2>1, <2>2 DEF ShareInv
<1>2. Inv /\ ShareInv => StoredTokensLive
    <2> SUFFICES ASSUME Inv, ShareInv PROVE StoredTokensLive
        OBVIOUS
    <2>1. ASSUME NEW k \in Slots, slot[k] # None PROVE refs[<<slot[k], k>>] > 0
        <3>1. PICK n \in Jobs : slot[k] = n
            BY <2>1, JobsNonNone DEF Inv, Types, TokenTypes
        <3>2. refs[<<n, k>>] = 1 + Held(n)
            BY <3>1 DEF ShareInv, StoredInv
        <3> QED
            BY <3>1, <3>2, HeldType
    <2>2. ASSUME slot[Msgs] # None PROVE slot[Msgs] \in callbacks
        <3>1. slot[Msgs] \in Jobs
            BY <2>2, TokenFacts, JobsNonNone DEF Inv, Types, TokenTypes
        <3>2. refs[Messages(slot[Msgs])] > 0
            BY <2>1, <2>2, TokenFacts
        <3> QED
            BY <3>1, <3>2 DEF Inv, TokenInv, CallbackInv
    <2> QED
        BY <2>1, <2>2 DEF StoredTokensLive, Msgs
<1>3. Inv /\ ShareInv /\ [Next]_vars => (Inv /\ ShareInv)'
    BY InvStep, ShareStep
<1> QED
    BY InvInit, <1>1, <1>2, <1>3, PTL DEF Spec
=============================================================================
