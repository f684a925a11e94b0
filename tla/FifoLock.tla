------------------------------ MODULE FifoLock ------------------------------
(***************************************************************************)
(* FIFOLock and its use in SequentialRoutedAgent.on_message_impl           *)
(* (_sequential_routed_agent.py).  A task is the handling of one message   *)
(* of a sequential type; it may be repeated by later messages.  A step is  *)
(* what a coroutine does between two awaits: the put into the unbounded    *)
(* asyncio.Queue never blocks, so acquire() suspends only in event.wait(). *)
(* No runtime of this repository cancels a task inside event.wait(), so    *)
(* that is not a step: it would strand the lock, since acquire() is        *)
(* outside the try.                                                        *)
(***************************************************************************)
EXTENDS Naturals, Sequences

CONSTANT Task

VARIABLES
    locked,    \* _locked
    queue,     \* _queue: the events of the waiting tasks, oldest first
    pc         \* "out", "waiting" (event not set), "granted" (set), "inside"

vars == <<locked, queue, pc>>

Init == locked = FALSE /\ queue = <<>> /\ pc = [t \in Task |-> "out"]

\* mutation: the newest waiter comes first
AcquireFirst(t) ==
    /\ pc[t] = "out"
    /\ IF locked
       THEN /\ queue' = <<t>> \o queue
            /\ pc' = [pc EXCEPT ![t] = "waiting"]
            /\ UNCHANGED locked
       ELSE /\ locked' = TRUE
            /\ pc' = [pc EXCEPT ![t] = "inside"]
            /\ UNCHANGED queue

Acquire(t) ==
    /\ pc[t] = "out"
    /\ IF locked
       THEN /\ queue' = Append(queue, t)
            /\ pc' = [pc EXCEPT ![t] = "waiting"]
            /\ UNCHANGED locked
       ELSE /\ locked' = TRUE
            /\ pc' = [pc EXCEPT ![t] = "inside"]
            /\ UNCHANGED queue

\* event.wait() returns
Wake(t) ==
    /\ pc[t] = "granted"
    /\ pc' = [pc EXCEPT ![t] = "inside"]
    /\ UNCHANGED <<locked, queue>>

\* mutation: the lock is opened although it is handed over
ReleaseOpens(t) ==
    /\ pc[t] = "inside"
    /\ locked' = FALSE
    /\ queue' = IF queue = <<>> THEN queue ELSE Tail(queue)
    /\ pc' = [u \in Task |-> CASE u = t -> "out"
                               [] queue # <<>> /\ u = Head(queue) -> "granted"
                               [] OTHER -> pc[u]]

\* mutation: the lock is left set when nobody waits
ReleaseKeeps(t) ==
    /\ pc[t] = "inside"
    /\ queue' = IF queue = <<>> THEN queue ELSE Tail(queue)
    /\ pc' = [u \in Task |-> CASE u = t -> "out"
                               [] queue # <<>> /\ u = Head(queue) -> "granted"
                               [] OTHER -> pc[u]]
    /\ UNCHANGED locked

\* The handler returned, raised or was cancelled: the finally clause releases.
\* _locked stays set when the lock is handed over.
Release(t) ==
    /\ pc[t] = "inside"
    /\ IF queue # <<>>
       THEN /\ queue' = Tail(queue)
            /\ pc' = [pc EXCEPT ![t] = "out",
                                ![Head(queue)] = "granted"]
            /\ UNCHANGED locked
       ELSE /\ locked' = FALSE
            /\ pc' = [pc EXCEPT ![t] = "out"]
            /\ UNCHANGED queue

Next == \E t \in Task : Acquire(t) \/ Wake(t) \/ Release(t)

\* a handler ends and a woken task runs; nothing forces a message to arrive
Fairness == \A t \in Task : WF_vars(Wake(t) \/ Release(t))

Spec == Init /\ [][Next]_vars /\ Fairness
-----------------------------------------------------------------------------
(* Types of the lock's state.                                              *)
TypeOK ==
    /\ locked \in BOOLEAN
    /\ queue \in Seq(Task)
    /\ pc \in [Task -> {"out", "waiting", "granted", "inside"}]

Owners == {t \in Task : pc[t] \in {"inside", "granted"}}

(* At most one message is being processed, or about to be.                 *)
OneOwner == \A t, u \in Owners : t = u

(* _locked is set exactly while some message owns the lock: release never  *)
(* leaves it set with nobody to release it, and never clears it early.     *)
LockedIsOwned == locked <=> Owners # {}

(* Whoever waits has its event in the queue, so that a release finds it.   *)
WaitersQueued ==
    \A t \in Task : pc[t] = "waiting" <=> \E i \in DOMAIN queue : queue[i] = t

Owner == CHOOSE t \in Owners : TRUE

(* The lock serves messages in the order in which they asked for it: the   *)
(* owner followed by the queued events is the line of FifoMutex.           *)
Fifo == INSTANCE FifoMutex WITH
    line <- IF Owners = {} THEN <<>> ELSE <<Owner>> \o queue,
    inside <- {t \in Task : pc[t] = "inside"}

(* acquire() and release() implement the abstract first-come, first-served *)
(* line.                                                                   *)
ImplementsFifoMutex == Fifo!Spec

(* Every message that asks for the lock is eventually processed.           *)
EventuallyServed == \A t \in Task : pc[t] = "waiting" ~> pc[t] = "inside"
=============================================================================
