----------------------- MODULE SingleThreadedRuntime -----------------------
(***************************************************************************)
(* The in-process agent runtime of _single_threaded_agent_runtime.py:      *)
(* clients and handlers send and publish messages into one queue, the run  *)
(* loop takes them one by one, runs the intervention handlers and starts   *)
(* one asyncio task per message; the answer to a send travels back through *)
(* the same queue.  start(), stop(), stop_when_idle() and stop_when() run  *)
(* beside it; every stop ends by replacing the queue object.               *)
(*                                                                         *)
(* A step is what a coroutine does between two awaits.  Any ready          *)
(* coroutine may run next: the order asyncio picks is one of those.  The   *)
(* queue is used as JoinableQueue promises it.  A message is one element   *)
(* of Msg, sent at most once; what handlers and interventions do is chosen *)
(* from the constants.  process_next() is the body of the run loop.        *)
(***************************************************************************)
EXTENDS Naturals, Sequences, FiniteSets

CONSTANTS
    Msg, Agent,
    KindOf,        \* Msg -> {"send", "publish"}
    To,            \* Msg -> the agents addressed: one for a send
    ParentOf,      \* Msg -> the message whose handler sends it, or NoMsg
    NoMsg, NoAgent,
    Outcomes,      \* kind -> how its handlers may end: "return", "raise", "cancel"
    Verdicts,      \* what interventions decide: {} when there are none
    CanCancel,     \* may a sender cancel its token?
    IgnoreErrors,  \* ignore_unhandled_exceptions
    Stops,         \* the stop methods used: subset of {"stop", "idle", "when"}
    Quiet,         \* clients send nothing while a stop is under way
    MaxStarts      \* bound on the number of start() calls

ASSUME MessageAssumption ==
    /\ IsFiniteSet(Msg) /\ NoMsg \notin Msg /\ NoAgent \notin Agent
    /\ Msg \cap {"none", "running", "done"} = {}
    /\ KindOf \in [Msg -> {"send", "publish"}]
    /\ To \in [Msg -> SUBSET Agent]
    /\ ParentOf \in [Msg -> Msg \cup {NoMsg}]
    /\ \A m \in Msg : KindOf[m] = "send" => \E a \in Agent : To[m] = {a}

ASSUME BehaviourAssumption ==
    /\ Outcomes \in [{"send", "publish"} -> SUBSET {"return", "raise", "cancel"}]
    /\ Verdicts \subseteq {"pass", "drop", "raise"}
    /\ Stops \subseteq {"stop", "idle", "when"}
    /\ CanCancel \in BOOLEAN /\ IgnoreErrors \in BOOLEAN /\ Quiet \in BOOLEAN
    /\ MaxStarts \in Nat

VARIABLES
    items,       \* _message_queue: envelopes <<message, "msg" or "resp">>
    unfinished,  \* its count of unfinished tasks
    shut,        \* it was shut down
    st,          \* how far each message has come
    fut,         \* the future its sender awaits (sends only)
    from,        \* the agent that sent it
    h,           \* handler of m at agent a: a state, or the message it awaits
    gather,      \* result of the gather over a publish's handlers
    loop,        \* where the run loop stands
    taken,       \* the envelope under intervention
    stopped,     \* RunContext._stopped
    ctl,         \* where the caller of start and the stops stands
    mode,        \* the stop under way
    joinWoken,   \* the future of its join() was resolved
    bgExc,       \* _background_exception is set
    starts       \* start() calls so far

queueVars == <<items, unfinished, shut, joinWoken>>
msgVars == <<st, fut, from, h, gather>>
runVars == <<loop, taken, stopped, ctl, mode, bgExc, starts>>
vars == <<queueVars, msgVars, runVars>>

Stages == {"new", "refused", "queued", "taken", "started", "handling",
           "responding", "acking", "over", "dropped", "discarded", "leaked", "stranded"}
\* the stages in which the queue owes a task_done() for the message
Owed == {"queued", "taken", "started", "handling", "responding", "acking"}
Resolved == {"result", "error", "cancelled"}
NoEnvelope == <<NoMsg, "none">>

Init ==
    /\ items = <<>> /\ unfinished = 0 /\ shut = FALSE /\ joinWoken = FALSE
    /\ st = [m \in Msg |-> "new"]
    /\ fut = [m \in Msg |-> "none"]
    /\ from = [m \in Msg |-> NoAgent]
    /\ h = [m \in Msg |-> [a \in Agent |-> "none"]]
    /\ gather = [m \in Msg |-> "none"]
    /\ loop = "off" /\ taken = NoEnvelope /\ stopped = FALSE
    /\ ctl = "down" /\ mode = "none" /\ bgExc = FALSE /\ starts = 0
-----------------------------------------------------------------------------
(* The operations of the queue the runtime uses.                           *)

Enqueue(e) ==
    /\ ~shut
    /\ items' = Append(items, e)
    /\ unfinished' = unfinished + 1
    /\ UNCHANGED <<shut, joinWoken>>

\* task_done(): ValueError, which ends the calling task, when nothing is owed
TaskDone ==
    /\ unfinished' = IF unfinished > 0 THEN unfinished - 1 ELSE 0
    /\ joinWoken' = (joinWoken \/ (ctl = "joining" /\ unfinished = 1))
    /\ UNCHANGED <<items, shut>>

\* put() of a response and task_done() of its request, with no await between
\* them that could block: the queue is unbounded
PutResponse(m) ==
    /\ ~shut
    /\ items' = Append(items, <<m, "resp">>)
    /\ joinWoken' = (joinWoken \/ (ctl = "joining" /\ unfinished = 0))
    /\ UNCHANGED <<unfinished, shut>>

Queued == {items[i][1] : i \in DOMAIN items}

\* shutdown(immediate=True): the futures of dropped messages stay as they are
ShutNow ==
    /\ shut' = TRUE
    /\ items' = <<>>
    /\ unfinished' = IF unfinished > Len(items) THEN unfinished - Len(items) ELSE 0
    /\ joinWoken' = (joinWoken \/ (ctl = "joining" /\ unfinished' = 0))
    /\ st' = [m \in Msg |-> IF m \in Queued THEN "discarded" ELSE st[m]]
-----------------------------------------------------------------------------
(* send_message and publish_message, called by a client (p = NoMsg) or by  *)
(* the handler of p at agent a.                                            *)

Calling(m, p, a) ==
    /\ st[m] = "new"
    /\ ParentOf[m] = p
    /\ IF p = NoMsg
       THEN a = NoAgent /\ (Quiet => ctl \notin {"joining", "awaiting"})
       ELSE a \in Agent /\ h[p][a] = "running"

Post(m, p, a) ==
    /\ Calling(m, p, a)
    /\ Enqueue(<<m, "msg">>)
    /\ st' = [st EXCEPT ![m] = "queued"]
    /\ from' = [from EXCEPT ![m] = a]
    /\ IF KindOf[m] = "send"
       THEN /\ fut' = [fut EXCEPT ![m] = "pending"]
            /\ h' = IF p = NoMsg THEN h ELSE [h EXCEPT ![p][a] = m]
       ELSE UNCHANGED <<fut, h>>
    /\ UNCHANGED <<gather, runVars>>

\* put() raises QueueShutDown
PostRefused(m, p, a) ==
    /\ Calling(m, p, a)
    /\ shut
    /\ st' = [st EXCEPT ![m] = "refused"]
    /\ UNCHANGED <<queueVars, fut, from, h, gather, runVars>>

\* CancellationToken.cancel() through link_future
CancelToken(m) ==
    /\ CanCancel
    /\ fut[m] = "pending"
    /\ fut' = [fut EXCEPT ![m] = "cancelled"]
    /\ UNCHANGED <<queueVars, st, from, h, gather, runVars>>

\* the future a handler awaits was resolved
HandlerResume(m, a) ==
    /\ h[m][a] \in Msg
    /\ fut[h[m][a]] \in Resolved
    /\ h' = [h EXCEPT ![m][a] = "running"]
    /\ UNCHANGED <<queueVars, st, fut, from, gather, runVars>>
-----------------------------------------------------------------------------
(* The run loop: RunContext._run around _process_next.                     *)

\* asyncio.create_task for the envelope, then sleep(0)
Dispatch(e) ==
    /\ st' = [st EXCEPT ![e[1]] = IF e[2] = "msg" THEN "started" ELSE "acking"]
    /\ loop' = "top"

\* mutation: a message counts as done when it is taken
TakeMarksDone ==
    /\ items # <<>>
    /\ items' = Tail(items)
    /\ Dispatch(Head(items))
    /\ unfinished' = unfinished - 1
    /\ joinWoken' = (joinWoken \/ (ctl = "joining" /\ unfinished = 1))
    /\ UNCHANGED <<shut, taken, fut, from, h, gather, stopped, ctl, mode, bgExc, starts>>

Take ==
    /\ items # <<>>
    /\ items' = Tail(items)
    /\ IF Verdicts = {}
       THEN Dispatch(Head(items)) /\ UNCHANGED taken
       ELSE /\ loop' = "intercept"
            /\ taken' = Head(items)
            /\ st' = [st EXCEPT ![Head(items)[1]] = "taken"]
    /\ UNCHANGED <<unfinished, shut, joinWoken, fut, from, h, gather, stopped, ctl, mode, bgExc, starts>>

LoopReturns ==
    /\ loop = "top"
    /\ stopped
    /\ loop' = "returned"
    /\ UNCHANGED <<queueVars, msgVars, taken, stopped, ctl, mode, bgExc, starts>>

\* a background exception is raised once and takes the queue down
LoopRaises ==
    /\ loop = "top"
    /\ ~stopped
    /\ bgExc
    /\ ShutNow
    /\ bgExc' = FALSE
    /\ loop' = "failed"
    /\ UNCHANGED <<fut, from, h, gather, taken, stopped, ctl, mode, starts>>

LoopTakes ==
    /\ \/ loop = "top" /\ ~stopped /\ ~bgExc
       \/ loop = "waiting"
    /\ Take

LoopWaits ==
    /\ loop = "top" /\ ~stopped /\ ~bgExc
    /\ items = <<>> /\ ~shut
    /\ loop' = "waiting"
    /\ UNCHANGED <<queueVars, msgVars, taken, stopped, ctl, mode, bgExc, starts>>

\* get() raises QueueShutDown
LoopShutDown ==
    /\ loop = "waiting"
    /\ items = <<>> /\ shut
    /\ loop' = IF bgExc THEN "failed" ELSE "top"
    /\ bgExc' = FALSE
    /\ UNCHANGED <<queueVars, msgVars, taken, stopped, ctl, mode, starts>>

\* mutation: a dropped message leaves its sender waiting
LoopInterceptedMute(v) ==
    /\ loop = "intercept"
    /\ taken' = NoEnvelope
    /\ IF v = "pass"
       THEN Dispatch(taken)
       ELSE st' = [st EXCEPT ![taken[1]] = "dropped"] /\ loop' = "top"
    /\ UNCHANGED <<queueVars, fut, from, h, gather, stopped, ctl, mode, bgExc, starts>>

\* The interventions pass, drop or fail the envelope.  A dropped or failed one
\* is not marked done, and set_exception on a cancelled future ends the loop.
LoopIntercepted(v) ==
    /\ loop = "intercept"
    /\ taken' = NoEnvelope
    /\ LET m == taken[1]
       IN  IF v = "pass"
           THEN Dispatch(taken) /\ UNCHANGED fut
           ELSE /\ st' = [st EXCEPT ![m] = "dropped"]
                /\ IF KindOf[m] = "publish"
                   THEN loop' = "top" /\ UNCHANGED fut
                   ELSE IF fut[m] = "cancelled"
                   THEN loop' = "failed" /\ UNCHANGED fut
                   ELSE loop' = "top" /\ fut' = [fut EXCEPT ![m] = "error"]
    /\ UNCHANGED <<queueVars, from, h, gather, stopped, ctl, mode, bgExc, starts>>
-----------------------------------------------------------------------------
(* The task of one envelope: _process_send, _process_publish and           *)
(* _process_response.                                                      *)

Recipients(m) == To[m] \ {from[m]}

StartSend(m) ==
    /\ st[m] = "started" /\ KindOf[m] = "send"
    /\ st' = [st EXCEPT ![m] = "handling"]
    /\ h' = [h EXCEPT ![m] = [a \in Agent |-> IF a \in To[m] THEN "running" ELSE "none"]]
    /\ UNCHANGED <<queueVars, fut, from, gather, runVars>>

\* the handler, or the agent's factory, fails with an exception
SendFails(m) ==
    IF fut[m] = "cancelled"
    THEN st' = [st EXCEPT ![m] = "leaked"] /\ UNCHANGED <<queueVars, fut>>
    ELSE /\ fut' = [fut EXCEPT ![m] = "error"]
         /\ st' = [st EXCEPT ![m] = "over"]
         /\ TaskDone

\* mutation: the CancelledError of a handler skips task_done()
SendCancelledUndone(m) ==
    /\ fut' = [fut EXCEPT ![m] = IF @ = "cancelled" THEN @ ELSE "error"]
    /\ st' = [st EXCEPT ![m] = "over"]
    /\ UNCHANGED queueVars

\* mutation: the CancelledError of a handler is not passed to the sender
SendCancelledMute(m) ==
    /\ st' = [st EXCEPT ![m] = "over"]
    /\ TaskDone
    /\ UNCHANGED fut

SendCancelled(m) ==
    /\ fut' = [fut EXCEPT ![m] = IF @ = "cancelled" THEN @ ELSE "error"]
    /\ st' = [st EXCEPT ![m] = "over"]
    /\ TaskDone

\* the QueueShutDown of put() ends the task before its task_done()
SendReturns(m) ==
    /\ UNCHANGED fut
    /\ \/ PutResponse(m) /\ st' = [st EXCEPT ![m] = "responding"]
       \/ shut /\ st' = [st EXCEPT ![m] = "stranded"] /\ UNCHANGED queueVars

EndSend(m, a, outcome) ==
    /\ st[m] = "handling" /\ KindOf[m] = "send"
    /\ h[m][a] = "running"
    /\ h' = [h EXCEPT ![m][a] = "done"]
    /\ CASE outcome = "return" -> SendReturns(m)
         [] outcome = "raise"  -> SendFails(m)
         [] outcome = "cancel" -> SendCancelled(m)
    /\ UNCHANGED <<from, gather, runVars>>

SendFactoryFails(m) ==
    /\ "raise" \in Outcomes["send"]
    /\ st[m] = "started" /\ KindOf[m] = "send"
    /\ SendFails(m)
    /\ UNCHANGED <<from, h, gather, runVars>>

\* mutation: only one recipient is called
StartPublishToOne(m) ==
    /\ st[m] = "started" /\ KindOf[m] = "publish"
    /\ st' = [st EXCEPT ![m] = "handling"]
    /\ h' = [h EXCEPT ![m] = [a \in Agent |->
                IF Recipients(m) # {} /\ a = (CHOOSE b \in Recipients(m) : TRUE)
                THEN "running" ELSE "none"]]
    /\ gather' = [gather EXCEPT ![m] = IF Recipients(m) = {} THEN "ok" ELSE "open"]
    /\ UNCHANGED <<queueVars, fut, from, runVars>>

\* all recipients but the sender; gather of nobody is complete at once
StartPublish(m) ==
    /\ st[m] = "started" /\ KindOf[m] = "publish"
    /\ st' = [st EXCEPT ![m] = "handling"]
    /\ h' = [h EXCEPT ![m] = [a \in Agent |-> IF a \in Recipients(m) THEN "running" ELSE "none"]]
    /\ gather' = [gather EXCEPT ![m] = IF Recipients(m) = {} THEN "ok" ELSE "open"]
    /\ UNCHANGED <<queueVars, fut, from, runVars>>

PublishFactoryFails(m) ==
    /\ "raise" \in Outcomes["publish"]
    /\ st[m] = "started" /\ KindOf[m] = "publish"
    /\ Recipients(m) # {}
    /\ st' = [st EXCEPT ![m] = "handling"]
    /\ gather' = [gather EXCEPT ![m] = "error"]
    /\ UNCHANGED <<queueVars, fut, from, h, runVars>>

\* gather fails with its first failing handler and leaves the others running
EndHandler(m, a, outcome) ==
    /\ KindOf[m] = "publish"
    /\ h[m][a] = "running"
    /\ h' = [h EXCEPT ![m][a] = "done"]
    /\ gather' = [gather EXCEPT ![m] =
                    CASE @ # "open" -> @
                      [] outcome # "return" -> "error"
                      [] \A b \in Recipients(m) \ {a} : h[m][b] = "done" -> "ok"
                      [] OTHER -> "open"]
    /\ UNCHANGED <<queueVars, st, fut, from, runVars>>

EndPublish(m) ==
    /\ st[m] = "handling" /\ gather[m] \in {"ok", "error"}
    /\ st' = [st EXCEPT ![m] = "over"]
    /\ bgExc' = (bgExc \/ (gather[m] = "error" /\ ~IgnoreErrors))
    /\ TaskDone
    /\ UNCHANGED <<fut, from, h, gather, loop, taken, stopped, ctl, mode, starts>>

\* set_result, unless the sender cancelled, and then task_done
Acknowledge(m) ==
    /\ st[m] = "acking"
    /\ fut' = [fut EXCEPT ![m] = IF @ = "cancelled" THEN @ ELSE "result"]
    /\ st' = [st EXCEPT ![m] = "over"]
    /\ TaskDone
    /\ UNCHANGED <<from, h, gather, runVars>>
-----------------------------------------------------------------------------
(* start and the stops.                                                    *)

Start ==
    /\ ctl = "down"
    /\ starts < MaxStarts
    /\ starts' = starts + 1
    /\ ctl' = "up" /\ loop' = "top" /\ stopped' = FALSE /\ mode' = "none"
    /\ UNCHANGED <<queueVars, msgVars, taken, bgExc>>

\* mutation: the queue is not shut down, so a waiting loop is not woken
HaltLoopQuietly(how) ==
    /\ stopped' = TRUE
    /\ ctl' = "awaiting"
    /\ mode' = how
    /\ UNCHANGED <<queueVars, msgVars, loop, taken, bgExc, starts>>

\* RunContext.stop, and its tail in stop_when_idle: then await the run task
HaltLoop(how) ==
    /\ ShutNow
    /\ stopped' = TRUE
    /\ ctl' = "awaiting"
    /\ mode' = how
    /\ UNCHANGED <<fut, from, h, gather, loop, taken, bgExc, starts>>

\* stop_when calls RunContext.stop once its condition holds
Stop(how) ==
    /\ ctl = "up"
    /\ how \in Stops \cap {"stop", "when"}
    /\ HaltLoop(how)

StopWhenIdle ==
    /\ ctl = "up" /\ "idle" \in Stops
    /\ unfinished > 0
    /\ ctl' = "joining" /\ mode' = "idle" /\ joinWoken' = FALSE
    /\ UNCHANGED <<items, unfinished, shut, msgVars, loop, taken, stopped, bgExc, starts>>

StopWhenIdleAtOnce ==
    /\ ctl = "up" /\ "idle" \in Stops
    /\ unfinished = 0
    /\ HaltLoop("idle")

JoinReturns ==
    /\ ctl = "joining"
    /\ joinWoken
    /\ HaltLoop("idle")

\* The awaited run task ended.  stop and stop_when_idle forget the run context
\* and replace the queue; stop_when does so only if the run task did not raise.
StopReturns ==
    /\ ctl = "awaiting"
    /\ loop \in {"returned", "failed"}
    /\ IF mode = "when" /\ loop = "failed"
       THEN ctl' = "up" /\ UNCHANGED <<items, unfinished, shut, loop>>
       ELSE ctl' = "down" /\ items' = <<>> /\ unfinished' = 0 /\ shut' = FALSE /\ loop' = "off"
    /\ joinWoken' = FALSE
    /\ UNCHANGED <<msgVars, taken, stopped, mode, bgExc, starts>>
-----------------------------------------------------------------------------
LoopStep ==
    \/ LoopReturns \/ LoopRaises \/ LoopTakes \/ LoopWaits \/ LoopShutDown
    \/ \E v \in Verdicts : LoopIntercepted(v)

TaskStep(m) ==
    \/ StartSend(m) \/ SendFactoryFails(m)
    \/ StartPublish(m) \/ PublishFactoryFails(m) \/ EndPublish(m)
    \/ Acknowledge(m)

HandlerStep(m, a) ==
    \/ HandlerResume(m, a)
    \/ \E o \in Outcomes[KindOf[m]] : EndSend(m, a, o) \/ EndHandler(m, a, o)

StopStep == JoinReturns \/ StopReturns

Next ==
    \/ \E m \in Msg, p \in Msg \cup {NoMsg}, a \in Agent \cup {NoAgent} :
          Post(m, p, a) \/ PostRefused(m, p, a)
    \/ \E m \in Msg : CancelToken(m) \/ TaskStep(m)
    \/ \E m \in Msg, a \in Agent : HandlerStep(m, a)
    \/ LoopStep
    \/ Start
    \/ \E how \in {"stop", "when"} : Stop(how)
    \/ StopWhenIdle \/ StopWhenIdleAtOnce
    \/ StopStep

\* asyncio runs every ready task, and handlers end; nothing forces a client to
\* send, to cancel, to start or to stop.
Fairness ==
    /\ WF_vars(LoopStep)
    /\ WF_vars(StopStep)
    /\ \A m \in Msg : WF_vars(TaskStep(m))
    /\ \A m \in Msg, a \in Agent : WF_vars(HandlerStep(m, a))

Spec == Init /\ [][Next]_vars /\ Fairness
-----------------------------------------------------------------------------
(* Types of the runtime's state: among them, its calls of task_done()      *)
(* never drive the count of unfinished messages below zero.                *)
TypeOK ==
    /\ items \in Seq(Msg \X {"msg", "resp"})
    /\ unfinished \in Nat
    /\ {shut, joinWoken, stopped, bgExc} \subseteq BOOLEAN
    /\ st \in [Msg -> Stages]
    /\ fut \in [Msg -> {"none", "pending"} \cup Resolved]
    /\ from \in [Msg -> Agent \cup {NoAgent}]
    /\ h \in [Msg -> [Agent -> {"none", "running", "done"} \cup Msg]]
    /\ gather \in [Msg -> {"none", "open", "ok", "error"}]
    /\ loop \in {"off", "top", "waiting", "intercept", "returned", "failed"}
    /\ taken \in {NoEnvelope} \cup (Msg \X {"msg", "resp"})
    /\ ctl \in {"down", "up", "joining", "awaiting"}
    /\ mode \in {"none"} \cup Stops
    /\ starts \in 0..MaxStarts

\* nothing is queued, under way, or in a handler
Idle ==
    /\ \A m \in Msg : st[m] \notin Owed
    /\ \A m \in Msg, a \in Agent : h[m][a] \in {"none", "done"}

\* the envelopes nobody will ever call task_done() for
Forgotten == {m \in Msg : st[m] \in {"dropped", "leaked", "stranded"}}

(* What stop_when_idle() waits for is exactly the messages under way plus  *)
(* the ones the code forgot to mark done: dropped by an intervention,      *)
(* failed on a future already cancelled, or answered into a queue already  *)
(* shut down.  There is no fourth way to lose count.  (Once a run is over  *)
(* the count is that of a new queue.)                                      *)
UnfinishedLedger ==
    (starts = 0 \/ ctl # "down") =>
        unfinished = Cardinality({m \in Msg : st[m] \in Owed} \cup Forgotten)

(* A sender that still waits has its message under way.  The only messages *)
(* that leave their sender waiting for ever are those a stop discards from *)
(* the queue and those whose answer meets a queue that was shut down.      *)
WaitingIsOwed ==
    \A m \in Msg : fut[m] = "pending" => st[m] \in Owed \cup {"discarded", "stranded"}

(* stop_when_idle(): when it decides to stop, no message is queued or being *)
(* processed, so none is cut off.                                          *)
IdleStopIsIdle ==
    [][(ctl # "awaiting" /\ ctl' = "awaiting" /\ mode' = "idle") => Idle]_vars

(* Once the runtime runs, every send_message() that was accepted ends:     *)
(* with the answer, with an error, or cancelled.                           *)
SenderAnswered ==
    \A m \in Msg : (fut[m] = "pending" /\ ctl # "down") ~> fut[m] \in Resolved

(* A publish reaches every subscriber but its sender: if it is processed   *)
(* at all, all of their handlers run to their end.                         *)
PublishReachesAll ==
    \A m \in Msg : (KindOf[m] = "publish" /\ st[m] = "started")
        ~> \A a \in Recipients(m) : h[m][a] = "done"

(* stop_when_idle() returns.                                               *)
IdleStopReturns == (ctl = "joining") ~> (ctl = "down")

(* Every stop ends: the run loop notices it wherever it stands.            *)
StopEnds == (ctl = "awaiting") ~> (ctl # "awaiting")

(* stop() lets the message being processed complete: its sender gets an    *)
(* answer.                                                                 *)
StopCompletesCurrent ==
    \A m \in Msg : (ctl = "awaiting" /\ mode = "stop" /\ st[m] = "handling" /\ fut[m] = "pending")
        ~> fut[m] \in Resolved

(* A background exception is raised by the stop that ends the run it       *)
(* occurred in, and never left behind for the next run.                    *)
ExceptionSurfaces == [][(ctl = "awaiting" /\ ctl' = "down") => ~bgExc]_vars
=============================================================================
