--------------------------- MODULE FifoLockProofs ---------------------------
(***************************************************************************)
(* For every set of tasks: the FIFO lock of SequentialRoutedAgent has one  *)
(* owner, is set exactly while it is owned, and serves its callers in the  *)
(* order in which they asked.                                              *)
(***************************************************************************)
EXTENDS FifoLock, TLAPS

NoRepeats == \A i, j \in DOMAIN queue : queue[i] = queue[j] => i = j

QueueNeedsOwner == Owners = {} => queue = <<>>

\* OneOwner alone is not inductive: that a hand-over makes no second owner
\* needs the head of the queue to be a waiting task, and one that is queued
\* only once.
LockInv ==
    /\ TypeOK
    /\ OneOwner
    /\ LockedIsOwned
    /\ WaitersQueued
    /\ NoRepeats
    /\ QueueNeedsOwner

(* A new lock is free and nobody waits for it.                             *)
LEMMA InitLock == Init => LockInv
<1> SUFFICES ASSUME Init PROVE LockInv
  OBVIOUS
<1>1. Owners = {}
  BY DEF Init, Owners
<1>2. TypeOK
  <2>1. locked \in BOOLEAN
    BY Zenon DEF Init
  <2>2. queue \in Seq(Task) /\ pc \in [Task -> {"out", "waiting", "granted", "inside"}]
    BY DEF Init
  <2> QED BY <2>1, <2>2 DEF TypeOK
<1>3. WaitersQueued /\ NoRepeats /\ QueueNeedsOwner
  BY DEF Init, WaitersQueued, NoRepeats, QueueNeedsOwner
<1>4. OneOwner /\ LockedIsOwned
  BY <1>1 DEF Init, OneOwner, LockedIsOwned
<1> QED BY <1>2, <1>3, <1>4 DEF LockInv

\* What a hand-over finds in the queue.
LEMMA HeadWaits ==
  ASSUME LockInv, queue # <<>>
  PROVE  /\ Head(queue) \in Task
         /\ Head(queue) = queue[1]
         /\ pc[Head(queue)] = "waiting"
         /\ Tail(queue) \in Seq(Task)
         /\ Len(queue) \in Nat /\ Len(queue) > 0
         /\ DOMAIN queue = 1..Len(queue)
         /\ DOMAIN Tail(queue) = 1..(Len(queue) - 1)
         /\ \A i \in DOMAIN Tail(queue) : Tail(queue)[i] = queue[i + 1]
<1>1. queue \in Seq(Task)
  BY DEF LockInv, TypeOK
<1>2. /\ Head(queue) \in Task
      /\ Head(queue) = queue[1]
      /\ 1 \in DOMAIN queue
      /\ Tail(queue) \in Seq(Task)
      /\ Len(queue) \in Nat /\ Len(queue) > 0
      /\ DOMAIN queue = 1..Len(queue)
      /\ DOMAIN Tail(queue) = 1..(Len(queue) - 1)
      /\ \A i \in DOMAIN Tail(queue) : Tail(queue)[i] = queue[i + 1]
  BY <1>1
<1>3. pc[Head(queue)] = "waiting"
  BY <1>2 DEF LockInv, WaitersQueued
<1> QED BY <1>2, <1>3

(* acquire() takes a free lock or joins the end of the queue.              *)
LEMMA AcquireLock ==
  ASSUME LockInv, NEW t \in Task, Acquire(t)
  PROVE  LockInv'
<1> USE DEF LockInv, TypeOK
<1>1. pc[t] = "out" /\ t \notin Owners
  BY DEF Acquire, Owners
<1>2. CASE locked
  <2>1. /\ queue' = Append(queue, t) /\ UNCHANGED locked
        /\ pc' = [pc EXCEPT ![t] = "waiting"]
    BY <1>2 DEF Acquire
  <2>2. Owners' = Owners
    BY <1>1, <2>1 DEF Owners
  <2>3. /\ DOMAIN queue' = 1..(Len(queue) + 1) /\ DOMAIN queue = 1..Len(queue)
        /\ Len(queue) \in Nat
        /\ \A i \in DOMAIN queue : queue'[i] = queue[i]
        /\ queue'[Len(queue) + 1] = t
    BY <2>1
  <2>4. \A i \in DOMAIN queue : queue[i] # t
    BY <1>1 DEF WaitersQueued
  <2>5. TypeOK'
    BY <2>1
  <2>6. OneOwner' /\ LockedIsOwned' /\ QueueNeedsOwner'
    BY <1>2, <2>1, <2>2 DEF OneOwner, LockedIsOwned, QueueNeedsOwner
  <2>7. WaitersQueued'
    <3> SUFFICES ASSUME NEW u \in Task
                 PROVE  pc'[u] = "waiting" <=> \E i \in DOMAIN queue' : queue'[i] = u
      BY DEF WaitersQueued
    <3>1. CASE u = t
      BY <3>1, <2>1, <2>3
    <3>2. CASE u # t
      <4>1. pc'[u] = pc[u]
        BY <2>1, <3>2
      <4>2. (\E i \in DOMAIN queue' : queue'[i] = u) <=> (\E i \in DOMAIN queue : queue[i] = u)
        BY <2>3, <3>2
      <4> QED BY <4>1, <4>2 DEF WaitersQueued
    <3> QED BY <3>1, <3>2
  <2>8. NoRepeats'
    BY <2>3, <2>4 DEF NoRepeats
  <2> QED BY <2>5, <2>6, <2>7, <2>8
<1>3. CASE ~locked
  <2>1. /\ locked' = TRUE /\ UNCHANGED queue
        /\ pc' = [pc EXCEPT ![t] = "inside"]
    BY <1>3 DEF Acquire
  <2>2. Owners = {} /\ queue = <<>>
    BY <1>3 DEF LockedIsOwned, QueueNeedsOwner
  <2>3. Owners' = {t}
    BY <2>1, <2>2 DEF Owners
  <2>4. TypeOK' /\ OneOwner' /\ LockedIsOwned' /\ QueueNeedsOwner' /\ NoRepeats'
    BY <2>1, <2>3 DEF OneOwner, LockedIsOwned, QueueNeedsOwner, NoRepeats
  <2>5. WaitersQueued'
    BY <1>1, <2>1 DEF WaitersQueued
  <2> QED BY <2>4, <2>5
<1> QED BY <1>2, <1>3

(* The return of event.wait() moves the owner in and changes nobody else.  *)
LEMMA WakeLock ==
  ASSUME LockInv, NEW t \in Task, Wake(t)
  PROVE  LockInv'
<1> USE DEF LockInv, TypeOK
<1>1. /\ pc[t] = "granted" /\ pc' = [pc EXCEPT ![t] = "inside"]
      /\ locked' = locked /\ queue' = queue
  BY DEF Wake
<1>2. Owners' = Owners
  BY <1>1 DEF Owners
<1>3. WaitersQueued'
  BY <1>1 DEF WaitersQueued
<1> QED BY <1>1, <1>2, <1>3 DEF OneOwner, LockedIsOwned, QueueNeedsOwner, NoRepeats

(* release() hands the lock to the oldest waiter, or opens it if there is  *)
(* none.                                                                   *)
LEMMA ReleaseLock ==
  ASSUME LockInv, NEW t \in Task, Release(t)
  PROVE  LockInv'
<1> USE DEF LockInv, TypeOK
<1>1. pc[t] = "inside" /\ Owners = {t}
  BY DEF Release, Owners, OneOwner
<1>2. CASE queue # <<>>
  <2> DEFINE next == Head(queue)
  <2>1. /\ queue' = Tail(queue) /\ locked' = locked
        /\ pc' = [pc EXCEPT ![t] = "out", ![next] = "granted"]
    BY <1>2 DEF Release
  <2>2. /\ next \in Task /\ next = queue[1] /\ pc[next] = "waiting"
        /\ queue' \in Seq(Task)
        /\ Len(queue) \in Nat /\ Len(queue) > 0
        /\ DOMAIN queue = 1..Len(queue)
        /\ DOMAIN queue' = 1..(Len(queue) - 1)
        /\ \A i \in DOMAIN queue' : queue'[i] = queue[i + 1]
    BY <1>2, <2>1, HeadWaits
  <2>3. next # t
    BY <1>1, <2>2
  <2> HIDE DEF next
  <2>4. \A u \in Task : pc'[u] = IF u = next THEN "granted" ELSE IF u = t THEN "out" ELSE pc[u]
    BY <2>1, <2>2, <2>3
  <2>5. Owners' = {next}
    BY <1>1, <2>2, <2>3, <2>4 DEF Owners
  <2>6. locked = TRUE
    BY <1>1 DEF LockedIsOwned
  <2>7. TypeOK' /\ OneOwner' /\ LockedIsOwned' /\ QueueNeedsOwner'
    BY <2>1, <2>2, <2>5, <2>6 DEF OneOwner, LockedIsOwned, QueueNeedsOwner
  <2>8. WaitersQueued'
    <3> SUFFICES ASSUME NEW u \in Task
                 PROVE  pc'[u] = "waiting" <=> \E i \in DOMAIN queue' : queue'[i] = u
      BY DEF WaitersQueued
    <3>1. CASE u = next
      <4>1. \A i \in DOMAIN queue' : queue'[i] # next
        BY <2>2 DEF NoRepeats
      <4> QED BY <4>1, <3>1, <2>4
    <3>2. CASE u # next
      <4>1. (\E i \in DOMAIN queue' : queue'[i] = u) <=> (\E i \in DOMAIN queue : queue[i] = u)
        <5>1. ASSUME NEW i \in DOMAIN queue, queue[i] = u
              PROVE  \E k \in DOMAIN queue' : queue'[k] = u
          <6>1. i # 1 /\ i - 1 \in DOMAIN queue'
            BY <5>1, <2>2, <3>2
          <6>2. queue'[i - 1] = queue[(i - 1) + 1] /\ (i - 1) + 1 = i
            BY <6>1, <2>2
          <6> QED BY <6>1, <6>2, <5>1
        <5>2. ASSUME NEW i \in DOMAIN queue', queue'[i] = u
              PROVE  \E k \in DOMAIN queue : queue[k] = u
          BY <5>2, <2>2
        <5> QED BY <5>1, <5>2
      <4>2. pc'[u] = "waiting" <=> pc[u] = "waiting"
        BY <2>4, <3>2, <1>1
      <4> QED BY <4>1, <4>2 DEF WaitersQueued
    <3> QED BY <3>1, <3>2
  <2>9. NoRepeats'
    BY <2>2 DEF NoRepeats
  <2> QED BY <2>7, <2>8, <2>9
<1>3. CASE queue = <<>>
  <2>1. /\ locked' = FALSE /\ queue' = queue /\ pc' = [pc EXCEPT ![t] = "out"]
    BY <1>3 DEF Release
  <2>2. Owners' = {}
    BY <1>1, <2>1 DEF Owners
  <2>3. TypeOK' /\ OneOwner' /\ LockedIsOwned' /\ QueueNeedsOwner' /\ NoRepeats'
    BY <1>3, <2>1, <2>2 DEF OneOwner, LockedIsOwned, QueueNeedsOwner, NoRepeats
  <2>4. WaitersQueued'
    BY <1>1, <2>1 DEF WaitersQueued
  <2> QED BY <2>3, <2>4
<1> QED BY <1>2, <1>3

(* The inductive invariant of the lock.                                    *)
THEOREM LockInvariant == Spec => []LockInv
<1>1. Init => LockInv
  BY InitLock
<1>2. LockInv /\ [Next]_vars => LockInv'
  <2> SUFFICES ASSUME LockInv, [Next]_vars PROVE LockInv'
    OBVIOUS
  <2>1. ASSUME NEW t \in Task, Acquire(t) PROVE LockInv'
    BY <2>1, AcquireLock
  <2>2. ASSUME NEW t \in Task, Wake(t) PROVE LockInv'
    BY <2>2, WakeLock
  <2>3. ASSUME NEW t \in Task, Release(t) PROVE LockInv'
    BY <2>3, ReleaseLock
  <2>4. CASE UNCHANGED vars
    BY <2>4 DEF vars, LockInv, TypeOK, OneOwner, LockedIsOwned, WaitersQueued, NoRepeats,
                QueueNeedsOwner, Owners
  <2> QED BY <2>1, <2>2, <2>3, <2>4 DEF Next
<1> QED BY <1>1, <1>2, PTL DEF Spec

(* At most one message of a sequential type is being handled by an agent,  *)
(* or about to be: release() hands the lock to one task only.              *)
THEOREM OneMessageAtATime == Spec => []OneOwner
<1>1. LockInv => OneOwner
  BY DEF LockInv
<1> QED BY <1>1, LockInvariant, PTL

(* _locked is set exactly while a message owns the lock, so the lock is    *)
(* never stuck without an owner nor open under one.                        *)
THEOREM LockNeverStuck == Spec => []LockedIsOwned
<1>1. LockInv => LockedIsOwned
  BY DEF LockInv
<1> QED BY <1>1, LockInvariant, PTL
-----------------------------------------------------------------------------
(* The safety part of ImplementsFifoMutex.                                 *)
\* the owner followed by those who wait
Line == IF Owners = {} THEN <<>> ELSE <<Owner>> \o queue
Inside == {t \in Task : pc[t] = "inside"}

(* With one owner, the mapped line starts with it.                         *)
LEMMA OwnerKnown ==
  ASSUME OneOwner, NEW t \in Owners
  PROVE  Owners = {t} /\ Owner = t /\ Line = <<t>> \o queue
  BY DEF OneOwner, Owner, Line

(* A new lock maps to an empty line.                                       *)
LEMMA FifoInit == Init => Fifo!Init
  BY DEF Init, Fifo!Init, Owners

(* Every step of the lock maps to an arrival, an entry or a departure.     *)
LEMMA FifoStep ==
  ASSUME LockInv, LockInv', NEW t \in Task,
         Acquire(t) \/ Wake(t) \/ Release(t)
  PROVE  Fifo!Next
<1>0. /\ queue \in Seq(Task) /\ queue' \in Seq(Task) /\ pc \in [Task -> {"out", "waiting", "granted", "inside"}]
      /\ OneOwner /\ OneOwner'
  BY DEF LockInv, TypeOK
<1>1. CASE Acquire(t)
  <2>1. Fifo!Arrive(t)
    <3>1. pc[t] = "out" /\ t \notin Owners
      BY <1>1 DEF Acquire, Owners
    <3>2. CASE locked
      <4>1. queue' = Append(queue, t) /\ pc' = [pc EXCEPT ![t] = "waiting"]
        BY <1>1, <3>2 DEF Acquire
      <4>2. Owners' = Owners /\ Inside' = Inside
        BY <1>0, <3>1, <4>1 DEF Owners, Inside
      <4>3. PICK o \in Owners : TRUE
        BY <3>2 DEF LockInv, LockedIsOwned
      <4>4. o \in Task /\ o # t
        BY <3>1, <4>3 DEF Owners
      <4>5. Line = <<o>> \o queue
        BY <1>0, <4>3, OwnerKnown
      <4>6. Owner' = o
        BY <1>0, <4>2, <4>3 DEF Owner, OneOwner
      <4>7. Line' = <<o>> \o Append(queue, t)
        BY <4>1, <4>2, <4>3, <4>6 DEF Line
      <4>8. Line' = Append(Line, t) /\ Line # <<>>
        BY <1>0, <4>4, <4>5, <4>7
      <4>9. \A i \in DOMAIN Line : Line[i] # t
        <5>1. \A i \in DOMAIN queue : queue[i] # t
          BY <3>1 DEF LockInv, WaitersQueued
        <5> QED BY <1>0, <4>4, <4>5, <5>1
      <4> QED BY <4>2, <4>8, <4>9 DEF Fifo!Arrive, Line, Inside
    <3>3. CASE ~locked
      <4>1. queue' = queue /\ pc' = [pc EXCEPT ![t] = "inside"]
        BY <1>1, <3>3 DEF Acquire
      <4>2. Owners = {} /\ queue = <<>>
        BY <3>3 DEF LockInv, LockedIsOwned, QueueNeedsOwner
      <4>3. Owners' = {t} /\ Inside' = {t}
        BY <1>0, <4>1, <4>2 DEF Owners, Inside
      <4>4. Line = <<>>
        BY <4>2 DEF Line
      <4>5. Line' = <<t>>
        BY <1>0, <4>1, <4>2, <4>3 DEF Line, Owner
      <4>6. Line' = Append(Line, t) /\ \A i \in DOMAIN Line : Line[i] # t
        BY <4>4, <4>5
      <4> QED BY <4>3, <4>4, <4>6 DEF Fifo!Arrive, Line, Inside
    <3> QED BY <3>2, <3>3
  <2> QED BY <2>1 DEF Fifo!Next
<1>2. CASE Wake(t)
  <2>1. /\ pc[t] = "granted" /\ pc' = [pc EXCEPT ![t] = "inside"]
        /\ queue' = queue
    BY <1>2 DEF Wake
  <2>2. t \in Owners /\ Owners' = Owners
    BY <1>0, <2>1 DEF Owners
  <2>3. Owners = {t} /\ Line = <<t>> \o queue
    BY <1>0, <2>2, OwnerKnown
  <2>4. Line' = Line
    BY <2>1, <2>2 DEF Line, Owner
  <2>5. Inside = {} /\ Inside' = {t}
    BY <1>0, <2>1, <2>3 DEF Owners, Inside
  <2>6. Line # <<>> /\ Head(Line) = t
    BY <1>0, <2>3
  <2>7. Fifo!Enter(t)
    BY <2>4, <2>5, <2>6 DEF Fifo!Enter, Line, Inside
  <2> QED BY <2>7 DEF Fifo!Next
<1>3. CASE Release(t)
  <2>1. pc[t] = "inside" /\ t \in Owners
    BY <1>3 DEF Release, Owners
  <2>2. Owners = {t} /\ Line = <<t>> \o queue
    BY <1>0, <2>1, OwnerKnown
  <2>3. Inside = {t}
    BY <2>1, <2>2 DEF Owners, Inside
  <2>4. Tail(Line) = queue
    BY <1>0, <2>2
  <2>5. Line' = queue /\ Inside' = {}
    <3>1. CASE queue # <<>>
      <4> DEFINE next == Head(queue)
      <4>1. /\ queue' = Tail(queue)
            /\ pc' = [pc EXCEPT ![t] = "out", ![next] = "granted"]
        BY <1>3, <3>1 DEF Release
      <4>2. next \in Task /\ pc[next] = "waiting"
        BY <3>1, HeadWaits
      <4>3. next # t
        BY <2>1, <4>2
      <4>4. queue = <<next>> \o Tail(queue)
        BY <1>0, <3>1
      <4> HIDE DEF next
      <4>5. \A u \in Task : pc'[u] = IF u = next THEN "granted" ELSE IF u = t THEN "out" ELSE pc[u]
        BY <1>0, <4>1, <4>2, <4>3
      <4>6. Owners' = {next} /\ Inside' = {}
        BY <2>2, <4>2, <4>3, <4>5 DEF Owners, Inside
      <4>7. Line' = <<next>> \o Tail(queue)
        BY <4>1, <4>6 DEF Line, Owner
      <4> QED BY <4>4, <4>6, <4>7
    <3>2. CASE queue = <<>>
      <4>1. queue' = queue /\ pc' = [pc EXCEPT ![t] = "out"]
        BY <1>3, <3>2 DEF Release
      <4>2. Owners' = {} /\ Inside' = {}
        BY <1>0, <2>2, <4>1 DEF Owners, Inside
      <4> QED BY <3>2, <4>2 DEF Line
    <3> QED BY <3>1, <3>2
  <2>6. Fifo!Leave(t)
    BY <2>3, <2>4, <2>5 DEF Fifo!Leave, Line, Inside
  <2> QED BY <2>6 DEF Fifo!Next
<1> QED BY <1>1, <1>2, <1>3

(* Messages of an agent are handled in the order in which they arrived:    *)
(* under the mapping that lines up the owner and the queued events, every  *)
(* step of FIFOLock is a step of FifoMutex.                                *)
THEOREM LockIsFifo == Spec => ImplementsFifoMutex
<1>1. Init => Fifo!Init
  BY FifoInit
<1>2. LockInv /\ LockInv' /\ [Next]_vars => [Fifo!Next]_(Fifo!fifoVars)
  <2> SUFFICES ASSUME LockInv, LockInv', [Next]_vars
               PROVE  [Fifo!Next]_(Fifo!fifoVars)
    OBVIOUS
  <2>1. CASE Next
    BY <2>1, FifoStep DEF Next
  <2>2. CASE UNCHANGED vars
    BY <2>2 DEF vars, Fifo!fifoVars, Owners, Owner
  <2> QED BY <2>1, <2>2
<1> QED BY <1>1, <1>2, LockInvariant, PTL DEF Spec, ImplementsFifoMutex, Fifo!Spec
=============================================================================
