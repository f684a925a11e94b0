---------------------------- MODULE MessageQueue ----------------------------
(***************************************************************************)
(* The joinable asyncio queue of autogen_core/_queue.py.                   *)
(*                                                                         *)
(* Everything a coroutine does between two awaits is one step.  A          *)
(* coroutine that awaits owns one future: "pending" until a waker resolves *)
(* it ("done") or Task.cancel() cancels it ("cancelled").  Cancelling a    *)
(* task whose future is already done marks the task doomed instead: it     *)
(* resumes with CancelledError although it was woken.  The deques hold     *)
(* futures in the code; a task owns at most one, so they hold tasks here.  *)
(***************************************************************************)
EXTENDS Naturals, Sequences, FiniteSets

CONSTANTS
    Task,        \* the coroutines that use the queue
    Item,        \* the payloads
    MaxSize,     \* the constructor's maxsize; 0 is "unbounded"
    UnfinishedBound  \* bound on unfinished work, keeps the model finite

ASSUME TaskAssumption == IsFiniteSet(Task)
ASSUME MaxSizeAssumption == MaxSize \in Nat
ASSUME UnfinishedBoundAssumption == UnfinishedBound \in Nat

VARIABLES
    queue,       \* _queue
    unfinished,  \* _unfinished_tasks
    finished,    \* the flag of the Event _finished
    isShutdown,  \* _is_shutdown
    getters,     \* _getters
    putters,     \* _putters
    pc,          \* the operation each task awaits in
    fut,         \* the state of the future it awaits
    doomed,      \* tasks cancelled after their future was resolved
    item,        \* the argument of each task's put()
    held         \* items taken whose task_done() is still owed

vars == <<queue, unfinished, finished, isShutdown, getters, putters,
          pc, fut, doomed, item, held>>

Ops == {"idle", "getting", "putting", "joining"}
FutureStates == {"none", "pending", "done", "cancelled"}

Init ==
    /\ queue = <<>>
    /\ unfinished = 0
    /\ finished = TRUE
    /\ isShutdown = FALSE
    /\ getters = <<>>
    /\ putters = <<>>
    /\ pc = [t \in Task |-> "idle"]
    /\ fut = [t \in Task |-> "none"]
    /\ doomed = {}
    /\ item \in [Task -> Item]
    /\ held = 0
-----------------------------------------------------------------------------
Empty == queue = <<>>

Full == MaxSize > 0 /\ Len(queue) >= MaxSize

\* _wakeup_next: the first waiter whose future is not done (a set of at most one)
Woken(waiters) ==
    {waiters[i] : i \in {k \in DOMAIN waiters :
        /\ fut[waiters[k]] = "pending"
        /\ \A j \in 1..(k - 1) : fut[waiters[j]] # "pending"}}

\* _wakeup_next pops every waiter up to and including the one it wakes
AfterWake(waiters) ==
    IF Woken(waiters) = {}
    THEN <<>>
    ELSE LET k == CHOOSE k \in DOMAIN waiters :
                    /\ fut[waiters[k]] = "pending"
                    /\ \A j \in 1..(k - 1) : fut[waiters[j]] # "pending"
         IN  SubSeq(waiters, k + 1, Len(waiters))

\* the futures after resolving those of the tasks in W and leaving t with f
Resolve(W, t, f) ==
    [u \in Task |-> IF u = t THEN f ELSE IF u \in W THEN "done" ELSE fut[u]]

\* waiters.remove(future of t), the ValueError of an absent one ignored
Without(waiters, t) ==
    IF \E k \in DOMAIN waiters : waiters[k] = t
    THEN LET k == CHOOSE k \in DOMAIN waiters : waiters[k] = t
         IN  [j \in 1..(Len(waiters) - 1) |-> IF j < k THEN waiters[j] ELSE waiters[j + 1]]
    ELSE waiters

PendingIn(op) == {t \in Task : pc[t] = op /\ fut[t] = "pending"}
WokenIn(op) == {t \in Task : pc[t] = op /\ fut[t] = "done"}
-----------------------------------------------------------------------------
(* get(): the loop test, run on entry and again after every wake-up.       *)

\* get_nowait on a non-empty queue
TakeItem(t) ==
    /\ ~Empty
    /\ queue' = Tail(queue)
    /\ held' = held + 1
    /\ pc' = [pc EXCEPT ![t] = "idle"]
    /\ fut' = Resolve(Woken(putters), t, "none")
    /\ putters' = AfterWake(putters)
    /\ UNCHANGED <<unfinished, finished, isShutdown, getters, doomed, item>>

AwaitItem(t) ==
    /\ Empty
    /\ ~isShutdown
    /\ getters' = Append(getters, t)
    /\ pc' = [pc EXCEPT ![t] = "getting"]
    /\ fut' = [fut EXCEPT ![t] = "pending"]
    /\ UNCHANGED <<queue, unfinished, finished, isShutdown, putters, doomed, item, held>>

\* QueueShutDown
RefuseGet(t) ==
    /\ Empty
    /\ isShutdown
    /\ pc' = [pc EXCEPT ![t] = "idle"]
    /\ fut' = [fut EXCEPT ![t] = "none"]
    /\ UNCHANGED <<queue, unfinished, finished, isShutdown, getters, putters, doomed, item, held>>

GetLoop(t) == TakeItem(t) \/ AwaitItem(t) \/ RefuseGet(t)

Get(t) == pc[t] = "idle" /\ GetLoop(t)

GetResume(t) ==
    /\ pc[t] = "getting"
    /\ fut[t] = "done"
    /\ t \notin doomed
    /\ GetLoop(t)

\* mutation: a cancelled getter keeps the wake-up it was given
GetCancelledKeepsWakeup(t) ==
    /\ pc[t] = "getting"
    /\ fut[t] = "cancelled" \/ t \in doomed
    /\ getters' = Without(getters, t)
    /\ fut' = [fut EXCEPT ![t] = "none"]
    /\ pc' = [pc EXCEPT ![t] = "idle"]
    /\ doomed' = doomed \ {t}
    /\ UNCHANGED <<queue, unfinished, finished, isShutdown, putters, item, held>>

\* CancelledError at the await: leave the deque and pass the wake-up on
GetCancelled(t) ==
    /\ pc[t] = "getting"
    /\ fut[t] = "cancelled" \/ t \in doomed
    /\ LET rest == Without(getters, t)
           passOn == ~Empty /\ fut[t] # "cancelled"
       IN  /\ getters' = IF passOn THEN AfterWake(rest) ELSE rest
           /\ fut' = Resolve(IF passOn THEN Woken(rest) ELSE {}, t, "none")
    /\ pc' = [pc EXCEPT ![t] = "idle"]
    /\ doomed' = doomed \ {t}
    /\ UNCHANGED <<queue, unfinished, finished, isShutdown, putters, item, held>>
-----------------------------------------------------------------------------
(* put(item): the same loop around full().                                 *)

\* put_nowait on a queue that is neither full nor shut down
AddItem(t, x) ==
    /\ ~Full
    /\ ~isShutdown
    /\ unfinished < UnfinishedBound
    /\ queue' = Append(queue, x)
    /\ unfinished' = unfinished + 1
    /\ finished' = FALSE
    /\ pc' = [pc EXCEPT ![t] = "idle"]
    /\ fut' = Resolve(Woken(getters), t, "none")
    /\ getters' = AfterWake(getters)
    /\ UNCHANGED <<isShutdown, putters, doomed, item, held>>

AwaitSlot(t, x) ==
    /\ Full
    /\ ~isShutdown
    /\ putters' = Append(putters, t)
    /\ pc' = [pc EXCEPT ![t] = "putting"]
    /\ fut' = [fut EXCEPT ![t] = "pending"]
    /\ item' = [item EXCEPT ![t] = x]
    /\ UNCHANGED <<queue, unfinished, finished, isShutdown, getters, doomed, held>>

\* QueueShutDown, raised by the loop when full and by put_nowait when not
RefusePut(t) ==
    /\ isShutdown
    /\ pc' = [pc EXCEPT ![t] = "idle"]
    /\ fut' = [fut EXCEPT ![t] = "none"]
    /\ UNCHANGED <<queue, unfinished, finished, isShutdown, getters, putters, doomed, item, held>>

PutLoop(t, x) == AddItem(t, x) \/ AwaitSlot(t, x) \/ RefusePut(t)

Put(t) == pc[t] = "idle" /\ \E x \in Item : PutLoop(t, x)

PutResume(t) ==
    /\ pc[t] = "putting"
    /\ fut[t] = "done"
    /\ t \notin doomed
    /\ PutLoop(t, item[t])

PutCancelled(t) ==
    /\ pc[t] = "putting"
    /\ fut[t] = "cancelled" \/ t \in doomed
    /\ LET rest == Without(putters, t)
           passOn == ~Full /\ fut[t] # "cancelled"
       IN  /\ putters' = IF passOn THEN AfterWake(rest) ELSE rest
           /\ fut' = Resolve(IF passOn THEN Woken(rest) ELSE {}, t, "none")
    /\ pc' = [pc EXCEPT ![t] = "idle"]
    /\ doomed' = doomed \ {t}
    /\ UNCHANGED <<queue, unfinished, finished, isShutdown, getters, item, held>>
-----------------------------------------------------------------------------
(* task_done(), join() and shutdown().                                     *)

\* Event.set() resolves the future of every waiting joiner
Joiners(set) == IF set THEN PendingIn("joining") ELSE {}

\* mutation: no ValueError for a task_done() too many
TaskDoneUnchecked ==
    /\ held' = held
    /\ unfinished' = unfinished - 1
    /\ finished' = (finished \/ unfinished' = 0)
    /\ UNCHANGED <<queue, isShutdown, getters, putters, pc, fut, doomed, item>>

\* The users of the queue owe one task_done() for every get(); the ValueError
\* of one call too many changes no state.
TaskDone ==
    /\ held > 0
    /\ unfinished > 0
    /\ held' = held - 1
    /\ unfinished' = unfinished - 1
    /\ finished' = (finished \/ unfinished' = 0)
    /\ fut' = [t \in Task |-> IF t \in Joiners(unfinished' = 0) THEN "done" ELSE fut[t]]
    /\ UNCHANGED <<queue, isShutdown, getters, putters, pc, doomed, item>>

\* join(): with no unfinished task it returns at once and changes nothing
Join(t) ==
    /\ pc[t] = "idle"
    /\ unfinished > 0
    /\ ~finished
    /\ pc' = [pc EXCEPT ![t] = "joining"]
    /\ fut' = [fut EXCEPT ![t] = "pending"]
    /\ UNCHANGED <<queue, unfinished, finished, isShutdown, getters, putters, doomed, item, held>>

\* Event.wait() ends, by a set() or by CancelledError, and does not re-test
JoinResume(t) ==
    /\ pc[t] = "joining"
    /\ fut[t] \in {"done", "cancelled"}
    /\ pc' = [pc EXCEPT ![t] = "idle"]
    /\ fut' = [fut EXCEPT ![t] = "none"]
    /\ doomed' = doomed \ {t}
    /\ UNCHANGED <<queue, unfinished, finished, isShutdown, getters, putters, item, held>>

\* the count is floored at zero, item by item
Monus(m, n) == IF m > n THEN m - n ELSE 0

\* mutation: shutdown(immediate=True) drops items but not their count
ShutdownKeepsCount(immediate) ==
    /\ isShutdown' = TRUE
    /\ queue' = IF immediate THEN <<>> ELSE queue
    /\ getters' = <<>> /\ putters' = <<>>
    /\ fut' = [t \in Task |->
                 IF fut[t] = "pending" /\ pc[t] # "joining" THEN "done" ELSE fut[t]]
    /\ UNCHANGED <<unfinished, finished, pc, doomed, item, held>>

\* mutation: shutdown() wakes the getters only
ShutdownForgetsPutters(immediate) ==
    /\ isShutdown' = TRUE
    /\ queue' = IF immediate THEN <<>> ELSE queue
    /\ unfinished' = IF immediate THEN Monus(unfinished, Len(queue)) ELSE unfinished
    /\ finished' = (finished \/ (immediate /\ unfinished' = 0))
    /\ getters' = <<>>
    /\ fut' = [t \in Task |->
                 IF \/ fut[t] = "pending" /\ pc[t] = "getting"
                    \/ t \in Joiners(immediate /\ unfinished' = 0)
                 THEN "done" ELSE fut[t]]
    /\ UNCHANGED <<putters, pc, doomed, item, held>>

Shutdown(immediate) ==
    /\ isShutdown' = TRUE
    /\ queue' = IF immediate THEN <<>> ELSE queue
    /\ unfinished' = IF immediate THEN Monus(unfinished, Len(queue)) ELSE unfinished
    /\ finished' = (finished \/ (immediate /\ unfinished' = 0))
    /\ getters' = <<>>
    /\ putters' = <<>>
    /\ fut' = [t \in Task |->
                 IF \/ fut[t] = "pending" /\ \E i \in DOMAIN getters : getters[i] = t
                    \/ fut[t] = "pending" /\ \E i \in DOMAIN putters : putters[i] = t
                    \/ t \in Joiners(immediate /\ unfinished' = 0)
                 THEN "done" ELSE fut[t]]
    /\ UNCHANGED <<pc, doomed, item, held>>

\* Task.cancel() on a task that awaits in one of the operations above
Cancel(t) ==
    /\ pc[t] # "idle"
    /\ IF fut[t] = "pending"
       THEN fut' = [fut EXCEPT ![t] = "cancelled"] /\ UNCHANGED doomed
       ELSE fut[t] = "done" /\ doomed' = doomed \cup {t} /\ UNCHANGED fut
    /\ UNCHANGED <<queue, unfinished, finished, isShutdown, getters, putters, pc, item, held>>
-----------------------------------------------------------------------------
Resume(t) ==
    \/ GetResume(t)
    \/ GetCancelled(t)
    \/ PutResume(t)
    \/ PutCancelled(t)
    \/ JoinResume(t)

Next ==
    \/ \E t \in Task : Get(t) \/ Put(t) \/ Join(t) \/ Cancel(t) \/ Resume(t)
    \/ TaskDone
    \/ \E immediate \in BOOLEAN : Shutdown(immediate)

\* The event loop runs every ready callback: a resolved or cancelled future
\* resumes its task.
Fairness == \A t \in Task : WF_vars(Resume(t))

Spec == Init /\ [][Next]_vars /\ Fairness
-----------------------------------------------------------------------------
(* Types of the queue's state: among them, task_done() never drives the    *)
(* count of unfinished tasks below zero.                                   *)
TypeOK ==
    /\ queue \in Seq(Item)
    /\ unfinished \in Nat
    /\ finished \in BOOLEAN
    /\ isShutdown \in BOOLEAN
    /\ getters \in Seq(Task)
    /\ putters \in Seq(Task)
    /\ pc \in [Task -> Ops]
    /\ fut \in [Task -> FutureStates]
    /\ doomed \in SUBSET Task
    /\ item \in [Task -> Item]
    /\ held \in Nat

(* The bookkeeping the wake-ups rest on.  A task owns a future exactly     *)
(* while it awaits, and only a woken task can be doomed.  A deque holds    *)
(* every blocked task of its operation once, and never one already woken:  *)
(* _wakeup_next can neither miss a waiter nor spend a wake-up on a task    *)
(* that has one.                                                           *)
Tracked(waiters, op) ==
    /\ \A i \in DOMAIN waiters :
          pc[waiters[i]] = op /\ fut[waiters[i]] \in {"pending", "cancelled"}
    /\ \A i, j \in DOMAIN waiters : waiters[i] = waiters[j] => i = j
    /\ \A t \in PendingIn(op) : \E i \in DOMAIN waiters : waiters[i] = t

FuturesOwned ==
    \A t \in Task : /\ fut[t] = "none" <=> pc[t] = "idle"
                    /\ t \in doomed => fut[t] = "done"

(* The waiters of get() and of put() are tracked as said above, so that    *)
(* _wakeup_next wakes whom it should.                                      *)
WaitersTracked ==
    /\ FuturesOwned
    /\ Tracked(getters, "getting")
    /\ Tracked(putters, "putting")

(* No item waits in the queue beside a blocked get(): there is a getter    *)
(* already woken for each queued item, whatever was cancelled in between   *)
(* (the except branch of get() hands its wake-up on).                      *)
NoIdleGetter ==
    PendingIn("getting") # {} => Len(queue) <= Cardinality(WokenIn("getting"))

(* No slot stays free beside a blocked put(): there is a putter already    *)
(* woken for each free slot (the except branch of put()).                  *)
NoIdlePutter ==
    PendingIn("putting") # {} => MaxSize <= Len(queue) + Cardinality(WokenIn("putting"))

(* join() counts right: the unfinished tasks are the queued items and the  *)
(* items taken but not marked done, also after shutdown(immediate) dropped *)
(* some, and the Event is set exactly when there are none.                 *)
JoinCountsWork ==
    /\ unfinished = Len(queue) + held
    /\ finished <=> unfinished = 0

(* shutdown() leaves nobody behind: no get() or put() blocks on a queue    *)
(* that was shut down, and none starts to.                                 *)
ShutdownWakesAll ==
    isShutdown => PendingIn("getting") \cup PendingIn("putting") = {}

(* The queue does what JoinableQueue promises, order of items and absence  *)
(* of lost wake-ups included: a blocked caller that can be served is.      *)
Promise == INSTANCE JoinableQueue WITH items <- queue, closed <- isShutdown,
                                       op <- pc, arg <- item

(* get(), put(), task_done(), join() and shutdown() implement the abstract *)
(* queue, its fairness included.                                           *)
ImplementsJoinableQueue == Promise!Spec

(* The part of it without fairness: every step is a step of the abstract   *)
(* queue or leaves what it promises unchanged.                             *)
SimulatesJoinableQueue == Promise!Init /\ [][Promise!Next]_(Promise!vars)
=============================================================================
