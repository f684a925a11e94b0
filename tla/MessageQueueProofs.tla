------------------------- MODULE MessageQueueProofs -------------------------
(***************************************************************************)
(* The safety of the message queue for any set of tasks, any payloads, any *)
(* maxsize: the counts of join() and the absence of lost wake-ups.         *)
(***************************************************************************)
EXTENDS MessageQueue, FiniteSetTheorems, SequenceTheorems, WellFoundedInduction, TLAPS

\* The conjunction that is inductive: each part needs the others.
QueueInv ==
    /\ TypeOK
    /\ WaitersTracked
    /\ JoinCountsWork
    /\ ShutdownWakesAll
    /\ NoIdleGetter
    /\ NoIdlePutter

\* t runs the loop of operation op: it just called it, or was woken in it
Ready(t, op) == pc[t] = "idle" \/ (pc[t] = op /\ fut[t] = "done" /\ t \notin doomed)
\* the argument of t's put(), new or remembered across the await
PutArg(t, x) == IF pc[t] = "idle" THEN x \in Item ELSE x = item[t]
-----------------------------------------------------------------------------
(* Facts about the helpers.                                                *)

(* A non-empty set of naturals has a least element: there is a first       *)
(* pending future in a deque that holds one.                               *)
LEMMA LeastNatural ==
    ASSUME NEW S \in SUBSET Nat, S # {}
    PROVE  \E x \in S : \A y \in S : x <= y
<1> DEFINE R == {ss \in Nat \X Nat : ss[1] < ss[2]}
<1>1. IsWellFoundedOn(R, Nat)
    BY NatLessThanWellFounded DEF OpToRel
<1>2. \A x, y \in Nat : <<y, x>> \notin R => x <= y
    OBVIOUS
<1> HIDE DEF R
<1>3. \E x \in S : \A y \in S : ~ (<<y, x>> \in R)
    BY <1>1, WFMin
<1>4. QED
    BY <1>2, <1>3

\* what waking the first waiter of a deque of operation op does
Wakes(waiters, op) ==
    /\ Woken(waiters) \subseteq PendingIn(op)
    /\ Woken(waiters) = {} => PendingIn(op) = {}
    /\ Woken(waiters) # {} => \E u \in PendingIn(op) : Woken(waiters) = {u}
    /\ AfterWake(waiters) \in Seq(Task)
    /\ \A i \in DOMAIN AfterWake(waiters) :
         /\ AfterWake(waiters)[i] \notin Woken(waiters)
         /\ \E k \in DOMAIN waiters : AfterWake(waiters)[i] = waiters[k]
    /\ \A i, j \in DOMAIN AfterWake(waiters) :
         AfterWake(waiters)[i] = AfterWake(waiters)[j] => i = j
    /\ \A t \in PendingIn(op) \ Woken(waiters) :
         \E i \in DOMAIN AfterWake(waiters) : AfterWake(waiters)[i] = t

(* _wakeup_next wakes one blocked task if there is one, wakes no other,    *)
(* and leaves every other blocked task in the deque.                       *)
LEMMA WakeFacts ==
    ASSUME TypeOK, NEW waiters \in Seq(Task), NEW op, Tracked(waiters, op)
    PROVE  Wakes(waiters, op)
<1> DEFINE P == {i \in DOMAIN waiters : fut[waiters[i]] = "pending"}
           First == {k \in DOMAIN waiters :
                        /\ fut[waiters[k]] = "pending"
                        /\ \A j \in 1..(k - 1) : fut[waiters[j]] # "pending"}
           rest == AfterWake(waiters)
<1>0. /\ Len(waiters) \in Nat
      /\ DOMAIN waiters = 1..Len(waiters)
      /\ \A i \in DOMAIN waiters : waiters[i] \in Task
    BY LenProperties
<1>1. \A i \in P : waiters[i] \in PendingIn(op)
    BY <1>0 DEF Tracked, PendingIn
<1>2. \A t \in PendingIn(op) : \E i \in P : waiters[i] = t
    BY DEF Tracked, PendingIn
<1>3. Woken(waiters) = {waiters[i] : i \in First}
    BY DEF Woken
<1>4. CASE P = {}
    <2>1. PendingIn(op) = {}
        BY <1>2, <1>4
    <2>2. Woken(waiters) = {}
        BY <1>3, <1>4
    <2>3. rest = <<>>
        BY <2>2 DEF AfterWake
    <2>4. rest \in Seq(Task) /\ DOMAIN rest = {}
        BY <2>3
    <2>5. QED
        BY <2>1, <2>2, <2>4 DEF Wakes
<1>5. CASE P # {}
    <2>1. PICK m \in P : \A i \in P : m <= i
        <3>1. P \in SUBSET Nat
            BY <1>0
        <3>2. QED
            BY <3>1, <1>5, LeastNatural
    <2>2. First = {m}
        BY <2>1, <1>0
    <2>3. Woken(waiters) = {waiters[m]}
        BY <1>3, <2>2
    <2>4. waiters[m] \in PendingIn(op)
        BY <1>1, <2>1
    <2>5. rest = SubSeq(waiters, m + 1, Len(waiters))
        <3>1. m = CHOOSE k \in DOMAIN waiters :
                    /\ fut[waiters[k]] = "pending"
                    /\ \A j \in 1..(k - 1) : fut[waiters[j]] # "pending"
            BY <2>2
        <3>2. QED
            BY <3>1, <2>3 DEF AfterWake
    <2>6. /\ rest \in Seq(Task)
          /\ Len(rest) = Len(waiters) - m
          /\ \A i \in 1..(Len(waiters) - m) : rest[i] = waiters[m + i]
        <3>1. m \in 1..Len(waiters)
            BY <1>0, <2>1
        <3>2. \A i \in (m + 1)..Len(waiters) : waiters[i] \in Task
            BY <1>0, <3>1
        <3>3. /\ SubSeq(waiters, m + 1, Len(waiters)) \in Seq(Task)
              /\ Len(SubSeq(waiters, m + 1, Len(waiters))) =
                    IF m + 1 <= Len(waiters) THEN Len(waiters) - (m + 1) + 1 ELSE 0
              /\ \A i \in 1..(Len(waiters) - (m + 1) + 1) :
                    SubSeq(waiters, m + 1, Len(waiters))[i] = waiters[(m + 1) + i - 1]
            BY <3>1, <3>2, <1>0, SubSeqProperties
        <3>4. QED
            BY <2>5, <3>1, <3>3, <1>0
    <2>7. DOMAIN rest = 1..(Len(waiters) - m)
        BY <2>6, LenProperties
    <2>8. \A i \in DOMAIN rest : /\ m + i \in DOMAIN waiters
                                 /\ rest[i] = waiters[m + i]
                                 /\ m + i # m
        BY <2>6, <2>7, <1>0, <2>1
    <2>9. \A i \in DOMAIN rest : rest[i] # waiters[m]
        BY <2>8, <2>1 DEF Tracked
    <2>10. \A i, j \in DOMAIN rest : rest[i] = rest[j] => i = j
        BY <2>8, <2>7, <1>0, <2>1 DEF Tracked
    <2>11. \A t \in PendingIn(op) \ {waiters[m]} : \E i \in DOMAIN rest : rest[i] = t
        <3>1. SUFFICES ASSUME NEW t \in PendingIn(op), t # waiters[m]
                       PROVE  \E i \in DOMAIN rest : rest[i] = t
            OBVIOUS
        <3>2. PICK k \in P : waiters[k] = t
            BY <1>2
        <3>3. k > m
            BY <3>1, <3>2, <2>1, <1>0
        <3>4. (k - m) \in DOMAIN rest /\ rest[k - m] = waiters[k]
            BY <3>2, <3>3, <2>1, <2>6, <2>7, <1>0
        <3>5. QED
            BY <3>2, <3>4
    <2>12. QED
        BY <2>3, <2>4, <2>6, <2>8, <2>9, <2>10, <2>11 DEF Wakes
<1>6. QED
    BY <1>4, <1>5

(* deque.remove drops the task and keeps all others, once each.            *)
LEMMA WithoutFacts ==
    ASSUME NEW waiters \in Seq(Task), NEW t \in Task,
           \A i, j \in DOMAIN waiters : waiters[i] = waiters[j] => i = j
    PROVE  /\ Without(waiters, t) \in Seq(Task)
           /\ \A i \in DOMAIN Without(waiters, t) :
                /\ Without(waiters, t)[i] # t
                /\ \E k \in DOMAIN waiters : Without(waiters, t)[i] = waiters[k]
           /\ \A i, j \in DOMAIN Without(waiters, t) :
                Without(waiters, t)[i] = Without(waiters, t)[j] => i = j
           /\ \A k \in DOMAIN waiters : waiters[k] # t =>
                \E i \in DOMAIN Without(waiters, t) : Without(waiters, t)[i] = waiters[k]
           /\ (\A k \in DOMAIN waiters : waiters[k] # t) => Without(waiters, t) = waiters
<1>0. /\ Len(waiters) \in Nat
      /\ DOMAIN waiters = 1..Len(waiters)
      /\ \A i \in DOMAIN waiters : waiters[i] \in Task
    BY LenProperties
<1>1. CASE \A k \in DOMAIN waiters : waiters[k] # t
    <2>1. Without(waiters, t) = waiters
        BY <1>1 DEF Without
    <2>2. QED
        BY <1>0, <1>1, <2>1
<1>2. CASE \E k \in DOMAIN waiters : waiters[k] = t
    <2> DEFINE m == CHOOSE k \in DOMAIN waiters : waiters[k] = t
               rest == [j \in 1..(Len(waiters) - 1) |->
                            IF j < m THEN waiters[j] ELSE waiters[j + 1]]
    <2>1. m \in 1..Len(waiters) /\ waiters[m] = t
        BY <1>2, <1>0
    <2>2. Without(waiters, t) = rest
        BY <1>2 DEF Without
    <2> HIDE DEF m
    <2>3. rest \in Seq(Task)
        BY <1>0, <2>1
    <2>4. DOMAIN rest = 1..(Len(waiters) - 1)
        OBVIOUS
    <2>5. \A i \in DOMAIN rest : \E k \in DOMAIN waiters : k # m /\ rest[i] = waiters[k]
        BY <1>0, <2>1
    <2>6. \A i, j \in DOMAIN rest : rest[i] = rest[j] => i = j
        BY <1>0, <2>1
    <2>7. \A k \in DOMAIN waiters : k # m => \E i \in DOMAIN rest : rest[i] = waiters[k]
        <3>1. \A k \in DOMAIN waiters : k < m => k \in DOMAIN rest /\ rest[k] = waiters[k]
            BY <1>0, <2>1
        <3>2. \A k \in DOMAIN waiters : k > m =>
                k - 1 \in DOMAIN rest /\ rest[k - 1] = waiters[k]
            BY <1>0, <2>1
        <3>3. \A k \in DOMAIN waiters : k # m => k < m \/ k > m
            BY <1>0, <2>1
        <3> HIDE DEF rest
        <3>4. QED
            BY <3>1, <3>2, <3>3
    <2> HIDE DEF rest
    <2>8. QED
        BY <1>2, <2>1, <2>2, <2>3, <2>5, <2>6, <2>7, <1>0
<1>3. QED
    BY <1>1, <1>2
-----------------------------------------------------------------------------
(* The steps of the queue, one case per path through a handler.            *)
LEMMA StepCases ==
    ASSUME [Next]_vars
    PROVE  \/ \E t \in Task : Ready(t, "getting") /\ TakeItem(t)
           \/ \E t \in Task : Ready(t, "getting") /\ AwaitItem(t)
           \/ \E t \in Task : Ready(t, "getting") /\ RefuseGet(t)
           \/ \E t \in Task : GetCancelled(t)
           \/ \E t \in Task : Ready(t, "putting") /\ \E x : AddItem(t, x) /\ PutArg(t, x)
           \/ \E t \in Task : Ready(t, "putting") /\ \E x : AwaitSlot(t, x) /\ PutArg(t, x)
           \/ \E t \in Task : Ready(t, "putting") /\ RefusePut(t)
           \/ \E t \in Task : PutCancelled(t)
           \/ \E t \in Task : Join(t)
           \/ \E t \in Task : JoinResume(t)
           \/ \E t \in Task : Cancel(t)
           \/ TaskDone
           \/ \E immediate \in BOOLEAN : Shutdown(immediate)
           \/ UNCHANGED vars
BY Zenon DEF Next, Resume, Get, GetResume, GetLoop, Put, PutResume, PutLoop, Ready, PutArg

(* CancelledError at an await.  A task whose own future was cancelled      *)
(* leaves its deque and wakes nobody; a doomed one is in no deque any more *)
(* and hands the wake-up it was given to the next waiter.                  *)
LEMMA LeaveFacts ==
    ASSUME TypeOK, WaitersTracked, NEW t \in Task, NEW waiters \in Seq(Task), NEW op,
           Tracked(waiters, op), fut[t] = "cancelled" \/ t \in doomed
    PROVE  /\ fut[t] = "cancelled" \/ fut[t] = "done"
           /\ fut[t] = "done" => Without(waiters, t) = waiters
           /\ \A k \in DOMAIN waiters : fut[t] = "done" => waiters[k] # t
<1>1. fut[t] = "cancelled" \/ fut[t] = "done"
    BY DEF WaitersTracked, FuturesOwned
<1>2. ASSUME NEW k \in DOMAIN waiters, fut[t] = "done"
      PROVE  waiters[k] # t
    BY <1>2 DEF Tracked
<1>3. fut[t] = "done" => Without(waiters, t) = waiters
    BY <1>2, WithoutFacts DEF Tracked
<1>4. QED
    BY <1>1, <1>2, <1>3

(* Typing is preserved; only the deques need the facts above.              *)
LEMMA TypeStep ==
    ASSUME TypeOK, WaitersTracked, [Next]_vars
    PROVE  TypeOK'
<1> USE DEF Ops, FutureStates
<1>0. /\ \A W, t, f : f \in FutureStates => Resolve(W, t, f) \in [Task -> FutureStates]
      /\ AfterWake(getters) \in Seq(Task)
      /\ AfterWake(putters) \in Seq(Task)
    <2>1. \A W, t, f : f \in FutureStates => Resolve(W, t, f) \in [Task -> FutureStates]
        BY DEF Resolve, TypeOK
    <2>2. AfterWake(getters) \in Seq(Task) /\ AfterWake(putters) \in Seq(Task)
        BY WakeFacts DEF TypeOK, WaitersTracked, Wakes
    <2>3. QED
        BY <2>1, <2>2
<1>1. ASSUME NEW t \in Task, TakeItem(t)
      PROVE  TypeOK'
    BY <1>0, <1>1, HeadTailProperties DEF TakeItem, Empty, TypeOK
<1>2. ASSUME NEW t \in Task, AwaitItem(t)
      PROVE  TypeOK'
    BY <1>2 DEF AwaitItem, TypeOK
<1>3. ASSUME NEW t \in Task, RefuseGet(t) \/ RefusePut(t)
      PROVE  TypeOK'
    BY <1>3 DEF RefuseGet, RefusePut, TypeOK
<1>4. ASSUME NEW t \in Task, GetCancelled(t)
      PROVE  TypeOK'
    <2>1. Without(getters, t) \in Seq(Task)
        BY WithoutFacts DEF TypeOK, WaitersTracked, Tracked
    <2>2. CASE fut[t] = "cancelled"
        BY <1>0, <1>4, <2>1, <2>2 DEF GetCancelled, TypeOK
    <2>3. CASE fut[t] # "cancelled"
        <3>1. Without(getters, t) = getters
            BY <1>4, <2>3, LeaveFacts DEF TypeOK, WaitersTracked, GetCancelled
        <3>2. QED
            BY <1>0, <1>4, <3>1 DEF GetCancelled, TypeOK
    <2>4. QED
        BY <2>2, <2>3
<1>5. ASSUME NEW t \in Task, NEW x, AddItem(t, x), PutArg(t, x)
      PROVE  TypeOK'
    <2>1. x \in Item
        BY <1>5 DEF TypeOK, PutArg
    <2>2. queue' \in Seq(Item)
        BY <1>5, <2>1 DEF AddItem, TypeOK
    <2>3. /\ fut' \in [Task -> FutureStates]
          /\ getters' \in Seq(Task)
        BY <1>0, <1>5 DEF AddItem
    <2>4. /\ unfinished' = unfinished + 1
          /\ finished' \in BOOLEAN
          /\ pc' = [pc EXCEPT ![t] = "idle"]
          /\ UNCHANGED <<isShutdown, putters, doomed, item, held>>
        BY <1>5, Zenon DEF AddItem
    <2>5. QED
        BY <2>2, <2>3, <2>4 DEF TypeOK
<1>6. ASSUME NEW t \in Task, NEW x, AwaitSlot(t, x), PutArg(t, x)
      PROVE  TypeOK'
    BY <1>6 DEF AwaitSlot, TypeOK, PutArg
<1>7. ASSUME NEW t \in Task, PutCancelled(t)
      PROVE  TypeOK'
    <2>1. Without(putters, t) \in Seq(Task)
        BY WithoutFacts DEF TypeOK, WaitersTracked, Tracked
    <2>2. CASE fut[t] = "cancelled"
        BY <1>0, <1>7, <2>1, <2>2 DEF PutCancelled, TypeOK
    <2>3. CASE fut[t] # "cancelled"
        <3>1. Without(putters, t) = putters
            BY <1>7, <2>3, LeaveFacts DEF TypeOK, WaitersTracked, PutCancelled
        <3>2. QED
            BY <1>0, <1>7, <3>1 DEF PutCancelled, TypeOK
    <2>4. QED
        BY <2>2, <2>3
<1>8. ASSUME NEW t \in Task, Join(t) \/ JoinResume(t) \/ Cancel(t)
      PROVE  TypeOK'
    BY <1>8 DEF Join, JoinResume, Cancel, TypeOK
<1>9. CASE TaskDone
    BY <1>9 DEF TaskDone, TypeOK
<1>10. ASSUME NEW immediate \in BOOLEAN, Shutdown(immediate)
       PROVE  TypeOK'
    BY <1>10, LenProperties DEF Shutdown, Monus, TypeOK
<1>11. CASE UNCHANGED vars
    BY <1>11 DEF vars, TypeOK
<1>12. QED
    BY <1>1, <1>2, <1>3, <1>4, <1>5, <1>6, <1>7, <1>8, <1>9, <1>10, <1>11, StepCases

(* The three conjuncts of WaitersTracked survive every step.               *)
LEMMA TrackedStep ==
    ASSUME TypeOK, WaitersTracked, [Next]_vars
    PROVE  WaitersTracked'
<1>0. /\ getters \in Seq(Task) /\ putters \in Seq(Task)
      /\ pc \in [Task -> Ops] /\ fut \in [Task -> FutureStates]
      /\ FuturesOwned /\ Tracked(getters, "getting") /\ Tracked(putters, "putting")
      /\ \A i \in DOMAIN getters : getters[i] \in Task
      /\ \A i \in DOMAIN putters : putters[i] \in Task
    <2>1. /\ \A i \in DOMAIN getters : getters[i] \in Task
          /\ \A i \in DOMAIN putters : putters[i] \in Task
        BY LenProperties DEF TypeOK
    <2>2. QED
        BY <2>1 DEF TypeOK, WaitersTracked
<1>00. Wakes(getters, "getting") /\ Wakes(putters, "putting")
    BY <1>0, WakeFacts
<1>01. ASSUME NEW t \in Task, fut[t] = "cancelled" \/ t \in doomed
       PROVE  /\ fut[t] = "cancelled" \/ fut[t] = "done"
              /\ fut[t] = "done" => Without(getters, t) = getters
              /\ fut[t] = "done" => Without(putters, t) = putters
    BY <1>0, <1>01, LeaveFacts
<1> USE DEF Tracked, FuturesOwned, PendingIn
<1>1. ASSUME NEW t \in Task, Ready(t, "getting"), TakeItem(t)
      PROVE  WaitersTracked'
    <2>1. FuturesOwned'
        BY <1>0, <1>1, <1>00 DEF TakeItem, Ready, Resolve, Wakes
    <2>2. Tracked(getters, "getting")'
        BY <1>0, <1>1, <1>00 DEF TakeItem, Ready, Resolve, Wakes
    <2>3. Tracked(putters, "putting")'
        BY <1>0, <1>1, <1>00 DEF TakeItem, Ready, Resolve, Wakes
    <2>4. QED
        BY <2>1, <2>2, <2>3 DEF WaitersTracked
<1>2. ASSUME NEW t \in Task, Ready(t, "getting"), AwaitItem(t)
      PROVE  WaitersTracked'
    <2>1. FuturesOwned'
        BY <1>0, <1>2 DEF AwaitItem, Ready
    <2>2. Tracked(getters, "getting")'
        <3>1. /\ Len(getters) \in Nat
              /\ DOMAIN getters = 1..Len(getters)
              /\ DOMAIN getters' = 1..(Len(getters) + 1)
              /\ \A i \in 1..Len(getters) : getters'[i] = getters[i]
              /\ getters'[Len(getters) + 1] = t
            BY <1>0, <1>2 DEF AwaitItem
        <3>2. \A i \in DOMAIN getters : getters[i] # t
            BY <1>0, <1>2 DEF Ready
        <3>3. /\ pc' = [pc EXCEPT ![t] = "getting"]
              /\ fut' = [fut EXCEPT ![t] = "pending"]
            BY <1>2 DEF AwaitItem
        <3>4. QED
            BY <1>0, <3>1, <3>2, <3>3
    <2>3. Tracked(putters, "putting")'
        BY <1>0, <1>2 DEF AwaitItem, Ready
    <2>4. QED
        BY <2>1, <2>2, <2>3 DEF WaitersTracked
<1>3. ASSUME NEW t \in Task, Ready(t, "getting"), RefuseGet(t)
      PROVE  WaitersTracked'
    <2>1. FuturesOwned'
        BY <1>0, <1>3 DEF RefuseGet, Ready
    <2>2. Tracked(getters, "getting")'
        BY <1>0, <1>3 DEF RefuseGet, Ready
    <2>3. Tracked(putters, "putting")'
        BY <1>0, <1>3 DEF RefuseGet, Ready
    <2>4. QED
        BY <2>1, <2>2, <2>3 DEF WaitersTracked
<1>4. ASSUME NEW t \in Task, GetCancelled(t)
      PROVE  WaitersTracked'
    <2>1. /\ pc[t] = "getting"
          /\ fut[t] = "cancelled" \/ fut[t] = "done"
          /\ pc' = [pc EXCEPT ![t] = "idle"]
          /\ doomed' = doomed \ {t}
          /\ putters' = putters
          /\ fut[t] = "done" => Without(getters, t) = getters
        BY <1>4, <1>01 DEF GetCancelled
    <2>2. CASE fut[t] = "cancelled"
        <3>1. getters' = Without(getters, t) /\ fut' = Resolve({}, t, "none")
            BY <1>4, <2>2 DEF GetCancelled
        <3>2. FuturesOwned' /\ Tracked(putters, "putting")'
            BY <1>0, <2>1, <2>2, <3>1 DEF Resolve
        <3>3. Tracked(getters, "getting")'
            BY <1>0, <2>1, <2>2, <3>1, WithoutFacts DEF Resolve
        <3>4. QED
            BY <3>2, <3>3 DEF WaitersTracked
    <2>3. CASE fut[t] = "done" /\ ~(~Empty)
        <3>1. getters' = getters /\ fut' = Resolve({}, t, "none")
            BY <1>4, <2>1, <2>3 DEF GetCancelled
        <3>2. QED
            BY <1>0, <2>1, <2>3, <3>1 DEF Resolve, WaitersTracked
    <2>4. CASE fut[t] = "done" /\ ~Empty
        <3>1. getters' = AfterWake(getters) /\ fut' = Resolve(Woken(getters), t, "none")
            BY <1>4, <2>1, <2>4 DEF GetCancelled
        <3>2. FuturesOwned' /\ Tracked(putters, "putting")'
            BY <1>0, <1>00, <2>1, <2>4, <3>1 DEF Resolve, Wakes
        <3>3. Tracked(getters, "getting")'
            BY <1>0, <1>00, <2>1, <2>4, <3>1 DEF Resolve, Wakes
        <3>4. QED
            BY <3>2, <3>3 DEF WaitersTracked
    <2>5. QED
        BY <2>1, <2>2, <2>3, <2>4
<1>5. ASSUME NEW t \in Task, NEW x, Ready(t, "putting"), AddItem(t, x)
      PROVE  WaitersTracked'
    <2>1. FuturesOwned'
        BY <1>0, <1>5, <1>00 DEF AddItem, Ready, Resolve, Wakes
    <2>2. Tracked(getters, "getting")'
        BY <1>0, <1>5, <1>00 DEF AddItem, Ready, Resolve, Wakes
    <2>3. Tracked(putters, "putting")'
        BY <1>0, <1>5, <1>00 DEF AddItem, Ready, Resolve, Wakes
    <2>4. QED
        BY <2>1, <2>2, <2>3 DEF WaitersTracked
<1>6. ASSUME NEW t \in Task, NEW x, Ready(t, "putting"), AwaitSlot(t, x)
      PROVE  WaitersTracked'
    <2>1. FuturesOwned'
        BY <1>0, <1>6 DEF AwaitSlot, Ready
    <2>2. Tracked(getters, "getting")'
        BY <1>0, <1>6 DEF AwaitSlot, Ready
    <2>3. Tracked(putters, "putting")'
        <3>1. /\ Len(putters) \in Nat
              /\ DOMAIN putters = 1..Len(putters)
              /\ DOMAIN putters' = 1..(Len(putters) + 1)
              /\ \A i \in 1..Len(putters) : putters'[i] = putters[i]
              /\ putters'[Len(putters) + 1] = t
            BY <1>0, <1>6 DEF AwaitSlot
        <3>2. \A i \in DOMAIN putters : putters[i] # t
            BY <1>0, <1>6 DEF Ready
        <3>3. /\ pc' = [pc EXCEPT ![t] = "putting"]
              /\ fut' = [fut EXCEPT ![t] = "pending"]
            BY <1>6 DEF AwaitSlot
        <3>4. QED
            BY <1>0, <3>1, <3>2, <3>3, SMTT(30)
    <2>4. QED
        BY <2>1, <2>2, <2>3 DEF WaitersTracked
<1>7. ASSUME NEW t \in Task, Ready(t, "putting"), RefusePut(t)
      PROVE  WaitersTracked'
    <2>1. FuturesOwned'
        BY <1>0, <1>7 DEF RefusePut, Ready
    <2>2. Tracked(getters, "getting")'
        BY <1>0, <1>7 DEF RefusePut, Ready
    <2>3. Tracked(putters, "putting")'
        BY <1>0, <1>7 DEF RefusePut, Ready
    <2>4. QED
        BY <2>1, <2>2, <2>3 DEF WaitersTracked
<1>8. ASSUME NEW t \in Task, PutCancelled(t)
      PROVE  WaitersTracked'
    <2>1. /\ pc[t] = "putting"
          /\ fut[t] = "cancelled" \/ fut[t] = "done"
          /\ pc' = [pc EXCEPT ![t] = "idle"]
          /\ doomed' = doomed \ {t}
          /\ getters' = getters
          /\ fut[t] = "done" => Without(putters, t) = putters
        BY <1>8, <1>01 DEF PutCancelled
    <2>2. CASE fut[t] = "cancelled"
        <3>1. putters' = Without(putters, t) /\ fut' = Resolve({}, t, "none")
            BY <1>8, <2>2 DEF PutCancelled
        <3>2. FuturesOwned' /\ Tracked(getters, "getting")'
            BY <1>0, <2>1, <2>2, <3>1 DEF Resolve
        <3>3. Tracked(putters, "putting")'
            BY <1>0, <2>1, <2>2, <3>1, WithoutFacts DEF Resolve
        <3>4. QED
            BY <3>2, <3>3 DEF WaitersTracked
    <2>3. CASE fut[t] = "done" /\ ~(~Full)
        <3>1. putters' = putters /\ fut' = Resolve({}, t, "none")
            BY <1>8, <2>1, <2>3 DEF PutCancelled
        <3>2. QED
            BY <1>0, <2>1, <2>3, <3>1 DEF Resolve, WaitersTracked
    <2>4. CASE fut[t] = "done" /\ ~Full
        <3>1. putters' = AfterWake(putters) /\ fut' = Resolve(Woken(putters), t, "none")
            BY <1>8, <2>1, <2>4 DEF PutCancelled
        <3>2. FuturesOwned' /\ Tracked(getters, "getting")'
            BY <1>0, <1>00, <2>1, <2>4, <3>1 DEF Resolve, Wakes
        <3>3. Tracked(putters, "putting")'
            BY <1>0, <1>00, <2>1, <2>4, <3>1 DEF Resolve, Wakes
        <3>4. QED
            BY <3>2, <3>3 DEF WaitersTracked
    <2>5. QED
        BY <2>1, <2>2, <2>3, <2>4
<1>9. ASSUME NEW t \in Task, Join(t)
      PROVE  WaitersTracked'
    <2>1. FuturesOwned'
        BY <1>0, <1>9 DEF Join
    <2>2. Tracked(getters, "getting")'
        BY <1>0, <1>9 DEF Join
    <2>3. Tracked(putters, "putting")'
        BY <1>0, <1>9 DEF Join
    <2>4. QED
        BY <2>1, <2>2, <2>3 DEF WaitersTracked
<1>10. ASSUME NEW t \in Task, JoinResume(t)
      PROVE  WaitersTracked'
    <2>1. FuturesOwned'
        BY <1>0, <1>10 DEF JoinResume
    <2>2. Tracked(getters, "getting")'
        BY <1>0, <1>10 DEF JoinResume
    <2>3. Tracked(putters, "putting")'
        BY <1>0, <1>10 DEF JoinResume
    <2>4. QED
        BY <2>1, <2>2, <2>3 DEF WaitersTracked
<1>11. ASSUME NEW t \in Task, Cancel(t)
      PROVE  WaitersTracked'
    <2>1. FuturesOwned'
        BY <1>0, <1>11 DEF Cancel
    <2>2. Tracked(getters, "getting")'
        BY <1>0, <1>11 DEF Cancel
    <2>3. Tracked(putters, "putting")'
        BY <1>0, <1>11 DEF Cancel
    <2>4. QED
        BY <2>1, <2>2, <2>3 DEF WaitersTracked
<1>12. ASSUME TaskDone
      PROVE  WaitersTracked'
    <2>1. FuturesOwned'
        BY <1>0, <1>12 DEF TaskDone, Joiners
    <2>2. Tracked(getters, "getting")'
        BY <1>0, <1>12 DEF TaskDone, Joiners
    <2>3. Tracked(putters, "putting")'
        BY <1>0, <1>12 DEF TaskDone, Joiners
    <2>4. QED
        BY <2>1, <2>2, <2>3 DEF WaitersTracked
<1>13. ASSUME NEW immediate \in BOOLEAN, Shutdown(immediate)
      PROVE  WaitersTracked'
    <2>1. FuturesOwned'
        BY <1>0, <1>13 DEF Shutdown, Joiners
    <2>2. Tracked(getters, "getting")'
        BY <1>0, <1>13 DEF Shutdown, Joiners
    <2>3. Tracked(putters, "putting")'
        BY <1>0, <1>13 DEF Shutdown, Joiners
    <2>4. QED
        BY <2>1, <2>2, <2>3 DEF WaitersTracked
<1>14. CASE UNCHANGED vars
    BY <1>0, <1>14 DEF vars, WaitersTracked
<1>15. QED
    BY <1>1, <1>2, <1>3, <1>4, <1>5, <1>6, <1>7, <1>8, <1>9, <1>10, <1>11, <1>12,
       <1>13, <1>14, StepCases

(* join() keeps its books: only put_nowait, get_nowait, task_done and      *)
(* shutdown touch the counts, and each keeps them balanced.                *)
LEMMA CountStep ==
    ASSUME TypeOK, JoinCountsWork, [Next]_vars
    PROVE  JoinCountsWork'
<1> USE DEF JoinCountsWork
<1>0. Len(queue) \in Nat /\ held \in Nat /\ unfinished \in Nat /\ finished \in BOOLEAN
    BY LenProperties DEF TypeOK
<1>1. ASSUME NEW t \in Task, TakeItem(t)
      PROVE  JoinCountsWork'
    <2>1. Len(queue') = Len(queue) - 1 /\ queue # <<>>
        BY <1>1, HeadTailProperties DEF TakeItem, Empty, TypeOK
    <2>2. held' = held + 1 /\ UNCHANGED <<unfinished, finished>>
        BY <1>1 DEF TakeItem
    <2>3. QED
        BY <1>0, <2>1, <2>2
<1>2. ASSUME NEW t \in Task, NEW x, AddItem(t, x), PutArg(t, x)
      PROVE  JoinCountsWork'
    <2>1. Len(queue') = Len(queue) + 1
        BY <1>2 DEF AddItem, TypeOK, PutArg
    <2>2. unfinished' = unfinished + 1 /\ ~finished' /\ held' = held
        BY <1>2 DEF AddItem
    <2>3. QED
        BY <1>0, <2>1, <2>2
<1>3. CASE TaskDone
    <2>1. finished' <=> (finished \/ unfinished' = 0)
        BY <1>3, Zenon DEF TaskDone
    <2>2. /\ unfinished > 0 /\ unfinished' = unfinished - 1
          /\ held' = held - 1 /\ queue' = queue
        BY <1>3 DEF TaskDone
    <2>3. QED
        BY <1>0, <2>1, <2>2
<1>4. ASSUME NEW immediate \in BOOLEAN, Shutdown(immediate)
      PROVE  JoinCountsWork'
    <2>1. CASE immediate
        <3>1. finished' <=> (finished \/ unfinished' = 0)
            BY <1>4, <2>1, Zenon DEF Shutdown
        <3>2. /\ unfinished' = Monus(unfinished, Len(queue))
              /\ held' = held /\ queue' = <<>>
            BY <1>4, <2>1 DEF Shutdown
        <3>3. QED
            BY <1>0, <3>1, <3>2 DEF Monus
    <2>2. CASE ~immediate
        BY <1>0, <1>4, <2>2 DEF Shutdown
    <2>3. QED
        BY <2>1, <2>2
<1>5. CASE UNCHANGED <<queue, unfinished, finished, held>>
    BY <1>5
<1>6. QED
    BY <1>1, <1>2, <1>3, <1>4, <1>5, StepCases
       DEF AwaitItem, RefuseGet, GetCancelled, AwaitSlot, RefusePut, PutCancelled,
           Join, JoinResume, Cancel, vars

(* After shutdown() nobody blocks: the deques were drained, they held      *)
(* every blocked task, and the loops raise instead of waiting again.       *)
LEMMA ShutdownStep ==
    ASSUME TypeOK, WaitersTracked, ShutdownWakesAll, [Next]_vars
    PROVE  ShutdownWakesAll'
<1> DEFINE Blocked == PendingIn("getting") \cup PendingIn("putting")
<1>1. ASSUME NEW immediate \in BOOLEAN, Shutdown(immediate)
      PROVE  ShutdownWakesAll'
    <2>1. \A t \in Task : pc'[t] = pc[t] /\ (fut'[t] = "pending" => fut[t] = "pending")
        BY <1>1 DEF Shutdown
    <2>2. \A t \in Blocked : fut'[t] = "done"
        BY <1>1 DEF Shutdown, WaitersTracked, Tracked, PendingIn
    <2>3. QED
        BY <2>1, <2>2 DEF ShutdownWakesAll, PendingIn
<1>2. CASE \E t \in Task : AwaitItem(t)
    BY <1>2 DEF AwaitItem, ShutdownWakesAll
<1>3. CASE \E t \in Task : \E x : AwaitSlot(t, x)
    BY <1>3 DEF AwaitSlot, ShutdownWakesAll
<1>4. ASSUME isShutdown' = isShutdown,
             \A t \in Task : /\ fut'[t] = "pending" => fut[t] = "pending" \/ pc'[t] = "joining"
                             /\ pc'[t] = pc[t] \/ pc'[t] \in {"idle", "joining"}
      PROVE  ShutdownWakesAll'
    BY <1>4 DEF ShutdownWakesAll, PendingIn
<1>5. QED
    BY <1>1, <1>2, <1>3, <1>4, StepCases
       DEF TakeItem, RefuseGet, GetCancelled, AddItem, RefusePut, PutCancelled,
           Join, JoinResume, Cancel, TaskDone, Joiners, Resolve, vars, TypeOK

(* The tasks woken in an operation are finitely many.                      *)
LEMMA WokenFinite ==
    ASSUME NEW op
    PROVE  /\ IsFiniteSet(WokenIn(op)) /\ Cardinality(WokenIn(op)) \in Nat
           /\ IsFiniteSet(WokenIn(op)') /\ Cardinality(WokenIn(op)') \in Nat
<1>1. WokenIn(op) \in SUBSET Task /\ WokenIn(op)' \in SUBSET Task
    BY DEF WokenIn
<1>2. IsFiniteSet(WokenIn(op)) /\ IsFiniteSet(WokenIn(op)')
    BY <1>1, TaskAssumption, FS_Subset
<1>3. QED
    BY <1>2, FS_CardinalityType

(* A getter is woken for each queued item: put_nowait wakes one for the    *)
(* item it adds, and a cancelled getter hands its wake-up on.              *)
LEMMA GetterStep ==
    ASSUME QueueInv, ShutdownWakesAll', [Next]_vars
    PROVE  NoIdleGetter'
<1> DEFINE P == PendingIn("getting")
           W == WokenIn("getting")
<1>0. /\ Wakes(getters, "getting") /\ Wakes(putters, "putting")
      /\ Len(queue) \in Nat /\ MaxSize \in Nat
      /\ IsFiniteSet(W) /\ Cardinality(W) \in Nat
      /\ IsFiniteSet(W') /\ Cardinality(W') \in Nat
    BY WakeFacts, WokenFinite, LenProperties, MaxSizeAssumption DEF QueueInv, TypeOK, WaitersTracked
<1>1. CASE isShutdown'
    BY <1>1 DEF ShutdownWakesAll, NoIdleGetter
<1>2. ASSUME P' \subseteq P, W' = W, Len(queue') = Len(queue)
      PROVE  NoIdleGetter'
    BY <1>0, <1>2 DEF NoIdleGetter, QueueInv
<1>3. ASSUME NEW t \in Task, Ready(t, "getting"), TakeItem(t)
      PROVE  NoIdleGetter'
    <2>1. Len(queue') = Len(queue) - 1
        BY <1>3, HeadTailProperties DEF TakeItem, Empty, QueueInv, TypeOK
    <2>2. P' \subseteq P /\ W' = W \ {t}
        BY <1>0, <1>3 DEF TakeItem, Ready, Resolve, Wakes, PendingIn, WokenIn, QueueInv, TypeOK
    <2>3. Cardinality(W') >= Cardinality(W) - 1
        <3>1. Cardinality(W') = Cardinality(W \ {t})
            BY <2>2, Zenon
        <3>2. Cardinality(W \ {t}) = IF t \in W THEN Cardinality(W) - 1 ELSE Cardinality(W)
            BY <1>0, FS_RemoveElement
        <3>3. QED
            BY <1>0, <3>1, <3>2
    <2>4. QED
        BY <1>0, <2>1, <2>2, <2>3 DEF NoIdleGetter, QueueInv
<1>4. ASSUME NEW t \in Task, AwaitItem(t)
      PROVE  NoIdleGetter'
    BY <1>0, <1>4 DEF AwaitItem, Empty, Full, NoIdleGetter
<1>5. ASSUME NEW t \in Task, GetCancelled(t)
      PROVE  NoIdleGetter'
    <2>1. /\ pc[t] = "getting" /\ pc' = [pc EXCEPT ![t] = "idle"]
          /\ fut[t] = "cancelled" \/ fut[t] = "done"
          /\ fut[t] = "done" => Without(getters, t) = getters
          /\ queue' = queue
        BY <1>5, LeaveFacts DEF GetCancelled, QueueInv, TypeOK, WaitersTracked
    <2>2. CASE fut[t] = "cancelled"
        <3>1. fut' = Resolve({}, t, "none")
            BY <1>5, <2>2 DEF GetCancelled
        <3>2. P' \subseteq P /\ W' = W
            BY <2>1, <2>2, <3>1 DEF Resolve, PendingIn, WokenIn, QueueInv, TypeOK
        <3>3. QED
            BY <1>2, <2>1, <3>2
    <2>3. CASE Empty
        BY <1>0, <2>1, <2>3 DEF Empty, Full, NoIdleGetter
    <2>4. CASE fut[t] = "done" /\ ~Empty
        <3>1. fut' = Resolve(Woken(getters), t, "none")
            BY <1>5, <2>1, <2>4 DEF GetCancelled
        <3>2. P' \subseteq P
            BY <2>1, <3>1 DEF Resolve, PendingIn, QueueInv, TypeOK
        <3>3. CASE Woken(getters) = {}
            BY <1>0, <3>2, <3>3 DEF Wakes, NoIdleGetter
        <3>4. CASE Woken(getters) # {}
            <4>1. PICK u \in P : Woken(getters) = {u}
                BY <1>0, <3>4 DEF Wakes
            <4>2. u \in Task /\ u \notin W /\ t \in W
                BY <2>1, <2>4, <4>1 DEF PendingIn, WokenIn
            <4>3. W' = (W \ {t}) \cup {u}
                BY <2>1, <2>4, <3>1, <4>1 DEF Resolve, PendingIn, WokenIn, QueueInv, TypeOK
            <4>4. Cardinality(W') = Cardinality(W)
                <5>1. /\ IsFiniteSet(W \ {t})
                      /\ Cardinality(W \ {t}) = Cardinality(W) - 1
                    BY <1>0, <4>2, FS_RemoveElement
                <5>2. Cardinality((W \ {t}) \cup {u}) = Cardinality(W \ {t}) + 1
                    BY <5>1, <4>2, FS_AddElement
                <5>3. Cardinality(W') = Cardinality((W \ {t}) \cup {u})
                    BY <4>3, Zenon
                <5>4. QED
                    BY <1>0, <5>1, <5>2, <5>3
            <4>5. QED
                BY <1>0, <2>1, <3>2, <4>4 DEF NoIdleGetter, QueueInv
        <3>5. QED
            BY <3>3, <3>4
    <2>5. QED
        BY <2>1, <2>2, <2>3, <2>4
<1>6. ASSUME NEW t \in Task, Ready(t, "putting"), NEW x, AddItem(t, x), PutArg(t, x)
      PROVE  NoIdleGetter'
    <2>1. Len(queue') = Len(queue) + 1
        BY <1>6 DEF AddItem, QueueInv, TypeOK, PutArg
    <2>2. /\ fut' = Resolve(Woken(getters), t, "none")
          /\ pc' = [pc EXCEPT ![t] = "idle"]
        BY <1>6 DEF AddItem
    <2>3. P' \subseteq P
        BY <2>2 DEF Resolve, PendingIn, QueueInv, TypeOK
    <2>4. CASE Woken(getters) = {}
        BY <1>0, <2>3, <2>4 DEF Wakes, NoIdleGetter
    <2>5. CASE Woken(getters) # {}
        <3>1. PICK u \in P : Woken(getters) = {u}
            BY <1>0, <2>5 DEF Wakes
        <3>2. u \in Task /\ u \notin W /\ t \notin W /\ u # t
            BY <1>6, <3>1 DEF Ready, PendingIn, WokenIn
        <3>3. W' = W \cup {u}
            BY <2>2, <3>1, <3>2 DEF Resolve, PendingIn, WokenIn, QueueInv, TypeOK
        <3>4. Cardinality(W') = Cardinality(W) + 1
            BY <1>0, <3>2, <3>3, FS_AddElement
        <3>5. QED
            BY <1>0, <2>1, <2>3, <3>4 DEF NoIdleGetter, QueueInv
    <2>6. QED
        BY <2>4, <2>5
<1>7. ASSUME NEW t \in Task, NEW x, Ready(t, "putting"), AwaitSlot(t, x)
      PROVE  NoIdleGetter'
    <2>1. P' \subseteq P /\ W' = W /\ queue' = queue
        BY <1>7 DEF AwaitSlot, Ready, PendingIn, WokenIn, QueueInv, TypeOK
    <2>2. QED
        BY <1>2, <2>1
<1>8. ASSUME NEW t \in Task, PutCancelled(t)
      PROVE  NoIdleGetter'
    <2>1. /\ pc[t] = "putting" /\ pc' = [pc EXCEPT ![t] = "idle"]
          /\ fut[t] = "cancelled" \/ fut[t] = "done"
          /\ fut[t] = "done" => Without(putters, t) = putters
          /\ queue' = queue
        BY <1>8, LeaveFacts DEF PutCancelled, QueueInv, TypeOK, WaitersTracked
    <2>2. fut' = Resolve({}, t, "none") \/ fut' = Resolve(Woken(putters), t, "none")
        BY <1>8, <2>1 DEF PutCancelled
    <2>3. P' \subseteq P /\ W' = W
        BY <1>0, <2>1, <2>2 DEF Resolve, Wakes, PendingIn, WokenIn, QueueInv, TypeOK
    <2>4. QED
        BY <1>2, <2>1, <2>3
<1>9. ASSUME NEW t \in Task, Join(t) \/ JoinResume(t) \/ Cancel(t)
      PROVE  NoIdleGetter'
    <2>1. P' \subseteq P /\ W' = W /\ queue' = queue
        BY <1>9 DEF Join, JoinResume, Cancel, PendingIn, WokenIn, QueueInv, TypeOK,
                    WaitersTracked, FuturesOwned
    <2>2. QED
        BY <1>2, <2>1
<1>10. CASE TaskDone
    <2>1. P' \subseteq P /\ W' = W /\ queue' = queue
        BY <1>10 DEF TaskDone, Joiners, PendingIn, WokenIn, QueueInv, TypeOK
    <2>2. QED
        BY <1>2, <2>1
<1>11. CASE UNCHANGED vars
    <2>1. P' \subseteq P /\ W' = W /\ queue' = queue
        BY <1>11 DEF vars, PendingIn, WokenIn
    <2>2. QED
        BY <1>2, <2>1
<1>12. CASE \/ \E t \in Task : RefuseGet(t) \/ RefusePut(t)
            \/ \E immediate \in BOOLEAN : Shutdown(immediate)
    <2>1. isShutdown'
        BY <1>12 DEF RefuseGet, RefusePut, Shutdown
    <2>2. QED
        BY <2>1, <1>1
<1>13. QED
    BY <1>3, <1>4, <1>5, <1>6, <1>7, <1>8, <1>9, <1>10, <1>11, <1>12, StepCases

(* A putter is woken for each free slot: get_nowait wakes one for the slot *)
(* it frees, and a cancelled putter hands its wake-up on.                  *)
LEMMA PutterStep ==
    ASSUME QueueInv, ShutdownWakesAll', [Next]_vars
    PROVE  NoIdlePutter'
<1> DEFINE P == PendingIn("putting")
           W == WokenIn("putting")
<1>0. /\ Wakes(putters, "putting") /\ Wakes(getters, "getting")
      /\ Len(queue) \in Nat /\ MaxSize \in Nat
      /\ IsFiniteSet(W) /\ Cardinality(W) \in Nat
      /\ IsFiniteSet(W') /\ Cardinality(W') \in Nat
    BY WakeFacts, WokenFinite, LenProperties, MaxSizeAssumption DEF QueueInv, TypeOK, WaitersTracked
<1>1. CASE isShutdown'
    BY <1>1 DEF ShutdownWakesAll, NoIdlePutter
<1>2. ASSUME P' \subseteq P, W' = W, Len(queue') = Len(queue)
      PROVE  NoIdlePutter'
    BY <1>0, <1>2 DEF NoIdlePutter, QueueInv
<1>3. ASSUME NEW t \in Task, Ready(t, "putting"), NEW x, AddItem(t, x), PutArg(t, x)
      PROVE  NoIdlePutter'
    <2>1. Len(queue') = Len(queue) + 1
        BY <1>3 DEF AddItem, QueueInv, TypeOK, PutArg
    <2>2. P' \subseteq P /\ W' = W \ {t}
        BY <1>0, <1>3 DEF AddItem, Ready, Resolve, Wakes, PendingIn, WokenIn, QueueInv, TypeOK
    <2>3. Cardinality(W') >= Cardinality(W) - 1
        <3>1. Cardinality(W') = Cardinality(W \ {t})
            BY <2>2, Zenon
        <3>2. Cardinality(W \ {t}) = IF t \in W THEN Cardinality(W) - 1 ELSE Cardinality(W)
            BY <1>0, FS_RemoveElement
        <3>3. QED
            BY <1>0, <3>1, <3>2
    <2>4. QED
        BY <1>0, <2>1, <2>2, <2>3 DEF NoIdlePutter, QueueInv
<1>4. ASSUME NEW t \in Task, NEW x, AwaitSlot(t, x)
      PROVE  NoIdlePutter'
    BY <1>0, <1>4 DEF AwaitSlot, Empty, Full, NoIdlePutter
<1>5. ASSUME NEW t \in Task, PutCancelled(t)
      PROVE  NoIdlePutter'
    <2>1. /\ pc[t] = "putting" /\ pc' = [pc EXCEPT ![t] = "idle"]
          /\ fut[t] = "cancelled" \/ fut[t] = "done"
          /\ fut[t] = "done" => Without(putters, t) = putters
          /\ queue' = queue
        BY <1>5, LeaveFacts DEF PutCancelled, QueueInv, TypeOK, WaitersTracked
    <2>2. CASE fut[t] = "cancelled"
        <3>1. fut' = Resolve({}, t, "none")
            BY <1>5, <2>2 DEF PutCancelled
        <3>2. P' \subseteq P /\ W' = W
            BY <2>1, <2>2, <3>1 DEF Resolve, PendingIn, WokenIn, QueueInv, TypeOK
        <3>3. QED
            BY <1>2, <2>1, <3>2
    <2>3. CASE Full
        BY <1>0, <2>1, <2>3 DEF Empty, Full, NoIdlePutter
    <2>4. CASE fut[t] = "done" /\ ~Full
        <3>1. fut' = Resolve(Woken(putters), t, "none")
            BY <1>5, <2>1, <2>4 DEF PutCancelled
        <3>2. P' \subseteq P
            BY <2>1, <3>1 DEF Resolve, PendingIn, QueueInv, TypeOK
        <3>3. CASE Woken(putters) = {}
            BY <1>0, <3>2, <3>3 DEF Wakes, NoIdlePutter
        <3>4. CASE Woken(putters) # {}
            <4>1. PICK u \in P : Woken(putters) = {u}
                BY <1>0, <3>4 DEF Wakes
            <4>2. u \in Task /\ u \notin W /\ t \in W
                BY <2>1, <2>4, <4>1 DEF PendingIn, WokenIn
            <4>3. W' = (W \ {t}) \cup {u}
                BY <2>1, <2>4, <3>1, <4>1 DEF Resolve, PendingIn, WokenIn, QueueInv, TypeOK
            <4>4. Cardinality(W') = Cardinality(W)
                <5>1. /\ IsFiniteSet(W \ {t})
                      /\ Cardinality(W \ {t}) = Cardinality(W) - 1
                    BY <1>0, <4>2, FS_RemoveElement
                <5>2. Cardinality((W \ {t}) \cup {u}) = Cardinality(W \ {t}) + 1
                    BY <5>1, <4>2, FS_AddElement
                <5>3. Cardinality(W') = Cardinality((W \ {t}) \cup {u})
                    BY <4>3, Zenon
                <5>4. QED
                    BY <1>0, <5>1, <5>2, <5>3
            <4>5. QED
                BY <1>0, <2>1, <3>2, <4>4 DEF NoIdlePutter, QueueInv
        <3>5. QED
            BY <3>3, <3>4
    <2>5. QED
        BY <2>1, <2>2, <2>3, <2>4
<1>6. ASSUME NEW t \in Task, Ready(t, "getting"), TakeItem(t)
      PROVE  NoIdlePutter'
    <2>1. Len(queue') = Len(queue) - 1
        BY <1>6, HeadTailProperties DEF TakeItem, Empty, QueueInv, TypeOK
    <2>2. /\ fut' = Resolve(Woken(putters), t, "none")
          /\ pc' = [pc EXCEPT ![t] = "idle"]
        BY <1>6 DEF TakeItem
    <2>3. P' \subseteq P
        BY <2>2 DEF Resolve, PendingIn, QueueInv, TypeOK
    <2>4. CASE Woken(putters) = {}
        BY <1>0, <2>3, <2>4 DEF Wakes, NoIdlePutter
    <2>5. CASE Woken(putters) # {}
        <3>1. PICK u \in P : Woken(putters) = {u}
            BY <1>0, <2>5 DEF Wakes
        <3>2. u \in Task /\ u \notin W /\ t \notin W /\ u # t
            BY <1>6, <3>1 DEF Ready, PendingIn, WokenIn
        <3>3. W' = W \cup {u}
            BY <2>2, <3>1, <3>2 DEF Resolve, PendingIn, WokenIn, QueueInv, TypeOK
        <3>4. Cardinality(W') = Cardinality(W) + 1
            BY <1>0, <3>2, <3>3, FS_AddElement
        <3>5. QED
            BY <1>0, <2>1, <2>3, <3>4 DEF NoIdlePutter, QueueInv
    <2>6. QED
        BY <2>4, <2>5
<1>7. ASSUME NEW t \in Task, NEW x, Ready(t, "getting"), AwaitItem(t)
      PROVE  NoIdlePutter'
    <2>1. P' \subseteq P /\ W' = W /\ queue' = queue
        BY <1>7 DEF AwaitItem, Ready, PendingIn, WokenIn, QueueInv, TypeOK
    <2>2. QED
        BY <1>2, <2>1
<1>8. ASSUME NEW t \in Task, GetCancelled(t)
      PROVE  NoIdlePutter'
    <2>1. /\ pc[t] = "getting" /\ pc' = [pc EXCEPT ![t] = "idle"]
          /\ fut[t] = "cancelled" \/ fut[t] = "done"
          /\ fut[t] = "done" => Without(getters, t) = getters
          /\ queue' = queue
        BY <1>8, LeaveFacts DEF GetCancelled, QueueInv, TypeOK, WaitersTracked
    <2>2. fut' = Resolve({}, t, "none") \/ fut' = Resolve(Woken(getters), t, "none")
        BY <1>8, <2>1 DEF GetCancelled
    <2>3. P' \subseteq P /\ W' = W
        BY <1>0, <2>1, <2>2 DEF Resolve, Wakes, PendingIn, WokenIn, QueueInv, TypeOK
    <2>4. QED
        BY <1>2, <2>1, <2>3
<1>9. ASSUME NEW t \in Task, Join(t) \/ JoinResume(t) \/ Cancel(t)
      PROVE  NoIdlePutter'
    <2>1. P' \subseteq P /\ W' = W /\ queue' = queue
        BY <1>9 DEF Join, JoinResume, Cancel, PendingIn, WokenIn, QueueInv, TypeOK,
                    WaitersTracked, FuturesOwned
    <2>2. QED
        BY <1>2, <2>1
<1>10. CASE TaskDone
    <2>1. P' \subseteq P /\ W' = W /\ queue' = queue
        BY <1>10 DEF TaskDone, Joiners, PendingIn, WokenIn, QueueInv, TypeOK
    <2>2. QED
        BY <1>2, <2>1
<1>11. CASE UNCHANGED vars
    <2>1. P' \subseteq P /\ W' = W /\ queue' = queue
        BY <1>11 DEF vars, PendingIn, WokenIn
    <2>2. QED
        BY <1>2, <2>1
<1>12. CASE \/ \E t \in Task : RefuseGet(t) \/ RefusePut(t)
            \/ \E immediate \in BOOLEAN : Shutdown(immediate)
    <2>1. isShutdown'
        BY <1>12 DEF RefuseGet, RefusePut, Shutdown
    <2>2. QED
        BY <2>1, <1>1
<1>13. QED
    BY <1>3, <1>4, <1>5, <1>6, <1>7, <1>8, <1>9, <1>10, <1>11, <1>12, StepCases
-----------------------------------------------------------------------------
(* The invariant holds of the empty queue.                                 *)
LEMMA QueueInvInit ==
    ASSUME Init
    PROVE  QueueInv
<1>1. TypeOK
    <2>1. finished \in BOOLEAN /\ isShutdown \in BOOLEAN
        BY Zenon DEF Init
    <2>2. QED
        BY <2>1 DEF Init, TypeOK, Ops, FutureStates
<1>2. WaitersTracked
    BY DEF Init, WaitersTracked, FuturesOwned, Tracked, PendingIn
<1>3. JoinCountsWork /\ ShutdownWakesAll /\ NoIdleGetter /\ NoIdlePutter
    BY DEF Init, JoinCountsWork, ShutdownWakesAll, NoIdleGetter, NoIdlePutter, PendingIn
<1>4. QED
    BY <1>1, <1>2, <1>3 DEF QueueInv

(* and every step of the queue preserves it.                               *)
LEMMA QueueInvStep ==
    ASSUME QueueInv, [Next]_vars
    PROVE  QueueInv'
<1>1. TypeOK' /\ WaitersTracked' /\ JoinCountsWork'
    BY TypeStep, TrackedStep, CountStep DEF QueueInv
<1>2. ShutdownWakesAll'
    BY ShutdownStep DEF QueueInv
<1>3. NoIdleGetter' /\ NoIdlePutter'
    BY <1>2, GetterStep, PutterStep
<1>4. QED
    BY <1>1, <1>2, <1>3 DEF QueueInv

(* The inductive invariant of _queue.py holds in every reachable state.    *)
THEOREM QueueInvariant == Spec => []QueueInv
BY QueueInvInit, QueueInvStep, PTL DEF Spec

(* Every variable of the queue keeps its type, for every instance.         *)
THEOREM QueueTypes == Spec => []TypeOK
<1>1. QueueInv => TypeOK
    BY DEF QueueInv
<1>2. QED
    BY <1>1, QueueInvariant, PTL

(* No lost wake-up on either side of the queue, whatever is cancelled and  *)
(* whenever: a blocked get() has an empty-handed reason to block, and so   *)
(* has a blocked put().                                                    *)
THEOREM NoLostWakeup == Spec => [](NoIdleGetter /\ NoIdlePutter)
<1>1. QueueInv => NoIdleGetter /\ NoIdlePutter
    BY DEF QueueInv
<1>2. QED
    BY <1>1, QueueInvariant, PTL

(* join() waits for exactly the work there is.                             *)
THEOREM JoinIsExact == Spec => []JoinCountsWork
<1>1. QueueInv => JoinCountsWork
    BY DEF QueueInv
<1>2. QED
    BY <1>1, QueueInvariant, PTL

(* Nobody stays blocked in get() or put() on a queue that was shut down.   *)
THEOREM ShutdownIsHeard == Spec => []ShutdownWakesAll
<1>1. QueueInv => ShutdownWakesAll
    BY DEF QueueInv
<1>2. QED
    BY <1>1, QueueInvariant, PTL
-----------------------------------------------------------------------------
(* Every step of the queue is a step of its promise or leaves the promised *)
(* state alone: a wake-up that finds nothing to take is such a stutter.    *)
LEMMA PromiseStep ==
    ASSUME QueueInv, [Next]_vars
    PROVE  [Promise!Next]_(Promise!vars)
<1> USE DEF Promise!vars
<1>0. /\ Len(queue) \in Nat /\ held \in Nat /\ unfinished \in Nat /\ MaxSize \in Nat
      /\ unfinished = Len(queue) + held
      /\ pc \in [Task -> Ops]
    BY LenProperties, MaxSizeAssumption DEF QueueInv, TypeOK, JoinCountsWork
<1>1. ASSUME NEW t \in Task, Ready(t, "getting"), TakeItem(t)
      PROVE  Promise!Take(t, "idle") \/ Promise!Take(t, "getting")
    BY <1>1 DEF TakeItem, Empty, Ready, Promise!Take
<1>2. ASSUME NEW t \in Task, Ready(t, "getting"), AwaitItem(t)
      PROVE  Promise!Block(t) \/ UNCHANGED Promise!vars
    <2>1. CASE pc[t] = "idle"
        BY <1>2, <2>1 DEF AwaitItem, Empty, Promise!Block
    <2>2. CASE pc[t] = "getting"
        <3>1. pc' = pc
            BY <1>0, <1>2, <2>2 DEF AwaitItem
        <3>2. QED
            BY <1>2, <3>1 DEF AwaitItem
    <2>3. QED
        BY <1>2, <2>1, <2>2 DEF Ready
<1>3. ASSUME NEW t \in Task, UNCHANGED <<queue, unfinished, isShutdown, item>>,
             pc' = [pc EXCEPT ![t] = "idle"]
      PROVE  Promise!Leave(t) \/ UNCHANGED Promise!vars
    <2>1. CASE pc[t] = "idle"
        <3>1. pc' = pc
            BY <1>0, <1>3, <2>1
        <3>2. QED
            BY <1>3, <3>1
    <2>2. CASE pc[t] # "idle"
        BY <1>3, <2>2 DEF Promise!Leave
    <2>3. QED
        BY <2>1, <2>2
<1>4. ASSUME NEW t \in Task, NEW x, Ready(t, "putting"), AddItem(t, x)
      PROVE  Promise!Add(t, "idle", x) \/ Promise!Add(t, "putting", x)
    <2>1. Promise!HasRoom
        BY <1>0, <1>4 DEF AddItem, Full, Promise!HasRoom
    <2>2. QED
        BY <1>4, <2>1 DEF AddItem, Ready, Promise!Add
<1>5. ASSUME NEW t \in Task, NEW x, Ready(t, "putting"), AwaitSlot(t, x),
             x \in Item, pc[t] = "idle"
      PROVE  Promise!Block(t)
    <2>1. ~Promise!HasRoom
        BY <1>0, <1>5 DEF AwaitSlot, Full, Promise!HasRoom
    <2>2. QED
        BY <1>5, <2>1 DEF AwaitSlot, Promise!Block
<1>6. ASSUME NEW t \in Task, AwaitSlot(t, item[t]), pc[t] = "putting"
      PROVE  UNCHANGED Promise!vars
    <2>1. pc' = pc /\ item' = item
        BY <1>0, <1>6 DEF AwaitSlot, QueueInv, TypeOK
    <2>2. QED
        BY <1>6, <2>1 DEF AwaitSlot
<1>7. ASSUME NEW t \in Task, Join(t)
      PROVE  Promise!Block(t)
    BY <1>7 DEF Join, Promise!Block
<1>8. ASSUME TaskDone
      PROVE  Promise!Finish
    BY <1>0, <1>8 DEF TaskDone, Promise!Finish
<1>9. ASSUME NEW immediate \in BOOLEAN, Shutdown(immediate)
      PROVE  Promise!Close(immediate)
    <2>1. Monus(unfinished, Len(queue)) = unfinished - Len(queue)
        BY <1>0 DEF Monus
    <2>2. QED
        BY <1>9, <2>1 DEF Shutdown, Promise!Close
<1>10. ASSUME NEW t \in Task, RefuseGet(t) \/ RefusePut(t) \/ GetCancelled(t) \/ PutCancelled(t) \/ JoinResume(t)
       PROVE  Promise!Leave(t) \/ UNCHANGED Promise!vars
    BY <1>3, <1>10 DEF RefuseGet, RefusePut, GetCancelled, PutCancelled, JoinResume
<1>11. ASSUME NEW t \in Task, Cancel(t)
       PROVE  UNCHANGED Promise!vars
    BY <1>11 DEF Cancel
<1>12. UNCHANGED vars => UNCHANGED Promise!vars
    BY DEF vars
<1>13. ASSUME NEW t \in Task, NEW x, Ready(t, "putting"), AwaitSlot(t, x), PutArg(t, x)
       PROVE  Promise!Block(t) \/ UNCHANGED Promise!vars
    BY <1>5, <1>6, <1>13 DEF Ready, PutArg
<1>14. ASSUME NEW t \in Task, NEW x, Ready(t, "putting"), AddItem(t, x), PutArg(t, x)
       PROVE  Promise!Next
    BY <1>4, <1>14 DEF Promise!Next, Promise!ServePutter, Promise!Add, PutArg
<1>15. QED
    BY <1>1, <1>2, <1>7, <1>8, <1>9, <1>10, <1>11, <1>12, <1>13, <1>14, StepCases
       DEF Promise!Next, Promise!ServeGetter

(* The queue simulates JoinableQueue: items leave in the order they came,  *)
(* a get() ends with an item, by cancellation or because the queue closed, *)
(* and work is counted down once per item.                                 *)
THEOREM QueueKeepsPromise == Spec => SimulatesJoinableQueue
<1>1. Init => Promise!Init
    BY DEF Init, Promise!Init
<1>2. QED
    BY <1>1, QueueInvariant, PromiseStep, PTL DEF Spec, SimulatesJoinableQueue
=============================================================================
