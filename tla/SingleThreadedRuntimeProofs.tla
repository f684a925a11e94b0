-------------------- MODULE SingleThreadedRuntimeProofs --------------------
(***************************************************************************)
(* The in-process runtime for any messages, agents, handlers and           *)
(* interventions: what the count of unfinished messages stands for, when   *)
(* stop_when_idle() cuts nothing off, and who may wait for ever.           *)
(***************************************************************************)
EXTENDS SingleThreadedRuntime, FiniteSetTheorems, FunctionTheorems, TLAPS

\* the types of all but the Boolean flags
Shapes ==
    /\ items \in Seq(Msg \X {"msg", "resp"})
    /\ unfinished \in Nat
    /\ st \in [Msg -> Stages]
    /\ fut \in [Msg -> {"none", "pending"} \cup Resolved]
    /\ from \in [Msg -> Agent \cup {NoAgent}]
    /\ h \in [Msg -> [Agent -> {"none", "running", "done"} \cup Msg]]
    /\ gather \in [Msg -> {"none", "open", "ok", "error"}]
    /\ loop \in {"off", "top", "waiting", "intercept", "returned", "failed"}
    /\ taken \in {NoEnvelope} \cup (Msg \X {"msg", "resp"})
    /\ ctl \in {"down", "up", "joining", "awaiting"}
    /\ mode \in {"none"} \cup Stops
    /\ starts \in 0..MaxStarts

\* only stop_when_idle() joins the queue
JoinIsIdle == ctl = "joining" => mode = "idle" /\ "idle" \in Stops

\* the envelope under intervention is one the loop has taken
TakenTracked ==
    loop = "intercept" =>
        /\ taken # NoEnvelope
        /\ st[taken[1]] = "taken"
        /\ taken[2] = "resp" => KindOf[taken[1]] = "send"

\* the future belongs to a send that was accepted, the gather to an event
FutureTracked ==
    \A m \in Msg :
        /\ st[m] = "new" => fut[m] = "none"
        /\ KindOf[m] = "publish" => fut[m] = "none"
        /\ gather[m] # "none" => KindOf[m] = "publish"
        /\ st[m] \in {"responding", "acking"} => KindOf[m] = "send"

\* a message is in the queue once at most, and its stage says so
ItemsTracked ==
    /\ \A i \in DOMAIN items : st[items[i][1]] = IF items[i][2] = "msg" THEN "queued" ELSE "responding"
    /\ \A i, j \in DOMAIN items : items[i][1] = items[j][1] => i = j

\* WaitingIsOwed is inductive only together with where the envelopes are: the
\* loop answers the sender of the envelope it holds, and an event has none.
Tracked == JoinIsIdle /\ TakenTracked /\ FutureTracked /\ ItemsTracked /\ WaitingIsOwed
WaitInv == Shapes /\ Tracked

-----------------------------------------------------------------------------
(* Every step keeps the types.                                             *)
LEMMA ShapesStep == ASSUME Shapes, JoinIsIdle, [Next]_vars PROVE Shapes'
<1> USE MessageAssumption, BehaviourAssumption DEF Shapes, Stages, Resolved, NoEnvelope
<1>1. ASSUME NEW m \in Msg, NEW p \in Msg \cup {NoMsg}, NEW a \in Agent \cup {NoAgent}, Post(m, p, a)
      PROVE Shapes'
  <2>1. items' \in Seq(Msg \X {"msg", "resp"}) /\ unfinished' \in Nat
    BY <1>1 DEF Post, Enqueue
  <2>2. st' \in [Msg -> Stages] /\ from' \in [Msg -> Agent \cup {NoAgent}]
    BY <1>1 DEF Post
  <2>3. fut' = fut \/ fut' = [fut EXCEPT ![m] = "pending"]
    BY <1>1 DEF Post
  <2>4. h' = h \/ (p \in Msg /\ a \in Agent /\ h' = [h EXCEPT ![p][a] = m])
    BY <1>1 DEF Post, Calling
  <2>5. fut' \in [Msg -> {"none", "pending"} \cup Resolved]
    BY <2>3
  <2>6. h' \in [Msg -> [Agent -> {"none", "running", "done"} \cup Msg]]
    <3>1. CASE h' = h
      BY <3>1
    <3>2. CASE p \in Msg /\ a \in Agent /\ h' = [h EXCEPT ![p][a] = m]
      <4>1. [h[p] EXCEPT ![a] = m] \in [Agent -> {"none", "running", "done"} \cup Msg]
        BY <3>2
      <4> QED BY <3>2, <4>1
    <3> QED BY <2>4, <3>1, <3>2
  <2>7. UNCHANGED <<gather, loop, taken, ctl, mode, starts>>
    BY <1>1 DEF Post, runVars
  <2> QED BY <2>1, <2>2, <2>5, <2>6, <2>7
<1>2. ASSUME NEW m \in Msg, NEW p \in Msg \cup {NoMsg}, NEW a \in Agent \cup {NoAgent}, PostRefused(m, p, a)
      PROVE Shapes'
  BY <1>2 DEF PostRefused, queueVars, runVars
<1>3. ASSUME NEW m \in Msg, CancelToken(m) PROVE Shapes'
  BY <1>3 DEF CancelToken, queueVars, runVars
<1>4. ASSUME NEW m \in Msg, StartSend(m) PROVE Shapes'
  BY <1>4 DEF StartSend, queueVars, runVars
<1>5. ASSUME NEW m \in Msg, SendFactoryFails(m) PROVE Shapes'
  <2>1. UNCHANGED <<items, from, h, gather, loop, taken, ctl, mode, starts>> /\ unfinished' \in Nat
    BY <1>5 DEF SendFactoryFails, SendFails, TaskDone, queueVars, runVars
  <2>2. /\ fut' = fut \/ fut' = [fut EXCEPT ![m] = "error"]
        /\ st' = [st EXCEPT ![m] = "leaked"] \/ st' = [st EXCEPT ![m] = "over"]
    BY <1>5 DEF SendFactoryFails, SendFails
  <2>3. st' \in [Msg -> Stages] /\ fut' \in [Msg -> {"none", "pending"} \cup Resolved]
    <3>1. st \in [Msg -> Stages] /\ fut \in [Msg -> {"none", "pending"} \cup Resolved]
      OBVIOUS
    <3>2. fut' \in [Msg -> {"none", "pending"} \cup Resolved]
      BY ONLY <3>1, <2>2 DEF Resolved
    <3>3. CASE st' = [st EXCEPT ![m] = "leaked"]
      BY ONLY <3>1, <3>2, <3>3 DEF Stages
    <3>4. CASE st' = [st EXCEPT ![m] = "over"]
      BY ONLY <3>1, <3>2, <3>4 DEF Stages
    <3> QED BY ONLY <2>2, <3>3, <3>4
  <2> QED BY <2>1, <2>3
<1>6. ASSUME NEW m \in Msg, StartPublish(m) PROVE Shapes'
  BY <1>6 DEF StartPublish, queueVars, runVars
<1>7. ASSUME NEW m \in Msg, PublishFactoryFails(m) PROVE Shapes'
  BY <1>7 DEF PublishFactoryFails, queueVars, runVars
<1>8. ASSUME NEW m \in Msg, EndPublish(m) PROVE Shapes'
  BY <1>8 DEF EndPublish, TaskDone
<1>9. ASSUME NEW m \in Msg, Acknowledge(m) PROVE Shapes'
  BY <1>9 DEF Acknowledge, TaskDone, runVars
<1>10. ASSUME NEW m \in Msg, NEW a \in Agent, HandlerResume(m, a) PROVE Shapes'
  BY <1>10 DEF HandlerResume, queueVars, runVars
<1>11. ASSUME NEW m \in Msg, NEW a \in Agent, NEW o \in Outcomes[KindOf[m]], EndSend(m, a, o) PROVE Shapes'
  <2>1. o \in {"return", "raise", "cancel"}
    <3>1. KindOf[m] \in {"send", "publish"}
      OBVIOUS
    <3> QED BY <3>1
  <2>2. h' \in [Msg -> [Agent -> {"none", "running", "done"} \cup Msg]]
    BY <1>11 DEF EndSend
  <2>3. UNCHANGED <<from, gather, loop, taken, ctl, mode, starts>>
    BY <1>11 DEF EndSend, runVars
  <2>4. /\ items' = items \/ items' = Append(items, <<m, "resp">>)
        /\ unfinished' \in Nat
        /\ fut' = fut \/ fut' = [fut EXCEPT ![m] = "error"] \/ fut' = [fut EXCEPT ![m] = fut[m]]
        /\ \E x \in {"responding", "stranded", "leaked", "over"} : st' = [st EXCEPT ![m] = x]
    <3>1. CASE o = "return"
      BY <1>11, <3>1 DEF EndSend, SendReturns, PutResponse, queueVars
    <3>2. CASE o = "raise"
      BY <1>11, <3>2 DEF EndSend, SendFails, TaskDone, queueVars
    <3>3. CASE o = "cancel"
      BY <1>11, <3>3 DEF EndSend, SendCancelled, TaskDone, queueVars
    <3> QED BY <2>1, <3>1, <3>2, <3>3
  <2>5. st' \in [Msg -> Stages] /\ fut' \in [Msg -> {"none", "pending"} \cup Resolved]
    BY <2>4
  <2>6. items' \in Seq(Msg \X {"msg", "resp"})
    <3>1. <<m, "resp">> \in Msg \X {"msg", "resp"}
      OBVIOUS
    <3>2. items \in Seq(Msg \X {"msg", "resp"})
      OBVIOUS
    <3>3. Append(items, <<m, "resp">>) \in Seq(Msg \X {"msg", "resp"})
      BY ONLY <3>1, <3>2
    <3> QED BY ONLY <3>2, <3>3, <2>4
  <2> QED BY <2>2, <2>3, <2>4, <2>5, <2>6
<1>12. ASSUME NEW m \in Msg, NEW a \in Agent, NEW o \in Outcomes[KindOf[m]], EndHandler(m, a, o) PROVE Shapes'
  BY <1>12 DEF EndHandler, queueVars, runVars
<1>13. ASSUME LoopReturns PROVE Shapes'
  BY <1>13 DEF LoopReturns, queueVars, msgVars
<1>14. ASSUME LoopRaises PROVE Shapes'
  BY <1>14 DEF LoopRaises, ShutNow
<1>15. ASSUME LoopTakes PROVE Shapes'
  <2>1. Head(items) \in Msg \X {"msg", "resp"} /\ items' \in Seq(Msg \X {"msg", "resp"})
    BY <1>15 DEF LoopTakes, Take
  <2>2. /\ loop' \in {"top", "intercept"}
        /\ taken' = taken \/ taken' = Head(items)
        /\ \E x \in {"started", "acking", "taken"} : st' = [st EXCEPT ![Head(items)[1]] = x]
    BY <1>15 DEF LoopTakes, Take, Dispatch
  <2>3. UNCHANGED <<unfinished, fut, from, h, gather, ctl, mode, starts>>
    BY <1>15 DEF LoopTakes, Take
  <2>4. st' \in [Msg -> Stages]
    BY <2>2
  <2> QED BY <2>1, <2>2, <2>3, <2>4
<1>16. ASSUME LoopWaits PROVE Shapes'
  BY <1>16 DEF LoopWaits, queueVars, msgVars
<1>17. ASSUME LoopShutDown PROVE Shapes'
  BY <1>17 DEF LoopShutDown, queueVars, msgVars
<1>18. ASSUME NEW v \in Verdicts, LoopIntercepted(v) PROVE Shapes'
  <2>1. /\ loop' \in {"top", "failed"}
        /\ \E x \in {"started", "acking", "dropped"} : st' = [st EXCEPT ![taken[1]] = x]
        /\ fut' = fut \/ fut' = [fut EXCEPT ![taken[1]] = "error"]
    BY <1>18 DEF LoopIntercepted, Dispatch
  <2>2. UNCHANGED <<items, unfinished, from, h, gather, ctl, mode, starts>> /\ taken' = NoEnvelope
    BY <1>18 DEF LoopIntercepted, queueVars
  <2>3. \A e : [st EXCEPT ![e] = "started"] \in [Msg -> Stages]
    OBVIOUS
  <2>4. \A e : [st EXCEPT ![e] = "acking"] \in [Msg -> Stages]
    OBVIOUS
  <2>5. \A e : [st EXCEPT ![e] = "dropped"] \in [Msg -> Stages]
    OBVIOUS
  <2>6. \A e : [fut EXCEPT ![e] = "error"] \in [Msg -> {"none", "pending"} \cup Resolved]
    OBVIOUS
  <2>7. st' \in [Msg -> Stages] /\ fut' \in [Msg -> {"none", "pending"} \cup Resolved]
    BY <2>1, <2>3, <2>4, <2>5, <2>6
  <2> QED BY <2>1, <2>2, <2>7
<1>19. ASSUME Start PROVE Shapes'
  BY <1>19 DEF Start, queueVars, msgVars
<1>20. ASSUME NEW how \in {"stop", "when"}, Stop(how) PROVE Shapes'
  BY <1>20 DEF Stop, HaltLoop, ShutNow
<1>21. ASSUME StopWhenIdle PROVE Shapes'
  BY <1>21 DEF StopWhenIdle, msgVars
<1>22. ASSUME StopWhenIdleAtOnce PROVE Shapes'
  BY <1>22 DEF StopWhenIdleAtOnce, HaltLoop, ShutNow
<1>23. ASSUME JoinReturns PROVE Shapes'
  BY <1>23 DEF JoinReturns, HaltLoop, ShutNow, JoinIsIdle
<1>24. ASSUME StopReturns PROVE Shapes'
  <2>1. /\ loop' \in {loop, "off"} /\ ctl' \in {"up", "down"}
        /\ items' = items \/ items' = <<>>
        /\ unfinished' = unfinished \/ unfinished' = 0
    BY <1>24 DEF StopReturns
  <2>2. UNCHANGED <<st, fut, from, h, gather, taken, mode, starts>>
    BY <1>24 DEF StopReturns, msgVars
  <2>3. items' \in Seq(Msg \X {"msg", "resp"})
    <3>1. items \in Seq(Msg \X {"msg", "resp"}) /\ <<>> \in Seq(Msg \X {"msg", "resp"})
      OBVIOUS
    <3> QED BY ONLY <3>1, <2>1
  <2> QED BY <2>1, <2>2, <2>3
<1>25. ASSUME UNCHANGED vars PROVE Shapes'
  BY <1>25 DEF vars, queueVars, msgVars, runVars
<1> QED BY <1>1, <1>2, <1>3, <1>4, <1>5, <1>6, <1>7, <1>8, <1>9, <1>10, <1>11, <1>12, <1>13, <1>14, <1>15,
          <1>16, <1>17, <1>18, <1>19, <1>20, <1>21, <1>22, <1>23, <1>24, <1>25
          DEF Next, TaskStep, HandlerStep, LoopStep, StopStep
-----------------------------------------------------------------------------
\* What is in the queue.
LEMMA ItemsTyped ==
  ASSUME Shapes, ItemsTracked
  PROVE  \A i \in DOMAIN items : items[i][1] \in Msg /\ st[items[i][1]] \in {"queued", "responding"}
<1>1. items \in Seq(Msg \X {"msg", "resp"})
  BY DEF Shapes
<1>2. \A i \in DOMAIN items : items[i] \in Msg \X {"msg", "resp"}
  BY <1>1
<1> QED BY <1>2 DEF ItemsTracked

(* A task moves its message on; the queue and the loop are not involved.   *)
LEMMA TaskMoves ==
  ASSUME WaitInv, NEW m \in Msg, NEW x \in Stages \ {"new"},
         st[m] \in {"started", "handling", "acking"},
         st' = [st EXCEPT ![m] = x],
         UNCHANGED <<items, loop, taken, ctl, mode>>,
         fut' = fut \/ (KindOf[m] = "send" /\ \E y \in Resolved : fut' = [fut EXCEPT ![m] = y]),
         gather' = gather \/ (KindOf[m] = "publish" /\ \E y : gather' = [gather EXCEPT ![m] = y]),
         fut'[m] = "pending" => x \in Owed \cup {"stranded"},
         x \notin {"responding", "acking"}
  PROVE  Tracked'
<1> USE MessageAssumption DEF WaitInv, Tracked, Shapes
<1>1. /\ st'[m] = x
      /\ \A n \in Msg \ {m} : st'[n] = st[n]
      /\ \A n \in Msg \ {m} : fut'[n] = fut[n] /\ gather'[n] = gather[n]
  OBVIOUS
<1>2. JoinIsIdle'
  BY DEF JoinIsIdle
<1>3. TakenTracked'
  <2>1. CASE loop = "intercept"
    <3>1. taken # NoEnvelope /\ taken[1] \in Msg /\ taken[1] # m
      BY <2>1 DEF TakenTracked
    <3> QED BY <3>1, <2>1, <1>1 DEF TakenTracked
  <2> QED BY <2>1 DEF TakenTracked
<1>4. FutureTracked'
  <2>1. fut'[m] = fut[m] \/ KindOf[m] = "send"
    OBVIOUS
  <2>2. gather'[m] = gather[m] \/ KindOf[m] = "publish"
    OBVIOUS
  <2> QED BY <1>1, <2>1, <2>2 DEF FutureTracked
<1>5. ItemsTracked'
  <2>1. \A i \in DOMAIN items : items[i][1] \in Msg /\ items[i][1] # m
    BY ItemsTyped
  <2> QED BY <2>1, <1>1 DEF ItemsTracked
<1>6. WaitingIsOwed'
  BY <1>1 DEF WaitingIsOwed
<1> QED BY <1>2, <1>3, <1>4, <1>5, <1>6

(* An envelope joins the end of the queue.                                 *)
LEMMA ItemsAppended ==
  ASSUME Shapes, ItemsTracked, NEW m \in Msg, NEW k \in {"msg", "resp"},
         st[m] \notin {"queued", "responding"},
         items' = Append(items, <<m, k>>),
         st' = [st EXCEPT ![m] = IF k = "msg" THEN "queued" ELSE "responding"]
  PROVE  ItemsTracked'
<1>1. items \in Seq(Msg \X {"msg", "resp"}) /\ st \in [Msg -> Stages]
  BY DEF Shapes
<1>2. Len(items) \in Nat /\ DOMAIN items = 1..Len(items)
  BY <1>1
<1>3. /\ DOMAIN items' = 1..(Len(items) + 1)
      /\ \A i \in 1..Len(items) : items'[i] = items[i]
      /\ items'[Len(items) + 1] = <<m, k>>
  BY <1>1
<1>4. \A i \in 1..Len(items) : items[i][1] \in Msg /\ items[i][1] # m
  BY <1>2, ItemsTyped
<1>5. st'[m] = (IF k = "msg" THEN "queued" ELSE "responding") /\ \A n \in Msg \ {m} : st'[n] = st[n]
  BY <1>1
<1>6. ASSUME NEW i \in DOMAIN items'
      PROVE  st'[items'[i][1]] = IF items'[i][2] = "msg" THEN "queued" ELSE "responding"
  <2>1. CASE i \in 1..Len(items)
    BY <2>1, <1>2, <1>3, <1>4, <1>5 DEF ItemsTracked
  <2>2. CASE i = Len(items) + 1
    BY <2>2, <1>3, <1>5
  <2> QED BY <2>1, <2>2, <1>2, <1>3, <1>6
<1>7. ASSUME NEW i \in DOMAIN items', NEW j \in DOMAIN items', items'[i][1] = items'[j][1]
      PROVE  i = j
  <2>1. CASE i \in 1..Len(items) /\ j \in 1..Len(items)
    BY <2>1, <1>2, <1>3, <1>7 DEF ItemsTracked
  <2>2. CASE i = Len(items) + 1 \/ j = Len(items) + 1
    BY <2>2, <1>2, <1>3, <1>4, <1>7
  <2> QED BY <2>1, <2>2, <1>2, <1>3
<1> QED BY <1>6, <1>7 DEF ItemsTracked

(* What the loop finds at the head of the queue.                           *)
LEMMA HeadTracked ==
  ASSUME Shapes, ItemsTracked, items # <<>>
  PROVE  /\ Head(items) \in Msg \X {"msg", "resp"}
         /\ st[Head(items)[1]] = IF Head(items)[2] = "msg" THEN "queued" ELSE "responding"
         /\ DOMAIN Tail(items) = 1..(Len(items) - 1)
         /\ \A i \in DOMAIN Tail(items) :
               /\ i + 1 \in DOMAIN items
               /\ Tail(items)[i] = items[i + 1]
               /\ items[i + 1] \in Msg \X {"msg", "resp"}
               /\ items[i + 1][1] # Head(items)[1]
<1>1. items \in Seq(Msg \X {"msg", "resp"})
  BY DEF Shapes
<1>2. /\ Len(items) \in Nat /\ Len(items) > 0 /\ DOMAIN items = 1..Len(items)
      /\ Head(items) = items[1] /\ Head(items) \in Msg \X {"msg", "resp"}
      /\ DOMAIN Tail(items) = 1..(Len(items) - 1)
      /\ \A i \in DOMAIN Tail(items) : Tail(items)[i] = items[i + 1]
  BY <1>1
<1>3. st[Head(items)[1]] = IF Head(items)[2] = "msg" THEN "queued" ELSE "responding"
  BY <1>2 DEF ItemsTracked
<1>4. ASSUME NEW i \in DOMAIN Tail(items)
      PROVE  /\ i + 1 \in DOMAIN items
             /\ items[i + 1] \in Msg \X {"msg", "resp"}
             /\ items[i + 1][1] # items[1][1]
  <2>1. i + 1 \in DOMAIN items /\ 1 \in DOMAIN items /\ i + 1 # 1
    BY <1>2
  <2> QED BY <2>1, <1>1 DEF ItemsTracked
<1> QED BY <1>2, <1>3, <1>4

(* The head of the queue is taken out.                                     *)
LEMMA ItemsTaken ==
  ASSUME Shapes, ItemsTracked, items # <<>>, NEW x,
         items' = Tail(items), st' = [st EXCEPT ![Head(items)[1]] = x]
  PROVE  ItemsTracked'
<1>1. st \in [Msg -> Stages]
  BY DEF Shapes
<1>2. \A n \in Msg : n # Head(items)[1] => st'[n] = st[n]
  BY <1>1
<1>3. \A i \in DOMAIN items' :
        /\ i + 1 \in DOMAIN items /\ items'[i] = items[i + 1]
        /\ items'[i][1] \in Msg /\ items'[i][1] # Head(items)[1]
  BY HeadTracked
<1>4. \A i \in DOMAIN items' : i \in Int
  BY HeadTracked DEF Shapes
<1>5. \A i \in DOMAIN items' : st'[items'[i][1]] = IF items'[i][2] = "msg" THEN "queued" ELSE "responding"
  BY <1>2, <1>3 DEF ItemsTracked
<1>6. \A i, j \in DOMAIN items' : items'[i][1] = items'[j][1] => i = j
  BY <1>3, <1>4 DEF ItemsTracked
<1> QED BY <1>5, <1>6 DEF ItemsTracked

(* shutdown() discards what is queued, and nothing else.                   *)
LEMMA ShutTracked ==
  ASSUME WaitInv, ShutNow, UNCHANGED <<fut, gather, taken>>, loop' \in {loop, "failed"}, JoinIsIdle'
  PROVE  Tracked'
<1> USE MessageAssumption DEF WaitInv, Tracked, Shapes
<1>1. \A m \in Msg : st'[m] = IF m \in Queued THEN "discarded" ELSE st[m]
  BY DEF ShutNow
<1>2. \A m \in Queued : st[m] \in {"queued", "responding"}
  BY DEF Queued, ItemsTracked
<1>3. TakenTracked'
  <2>1. CASE loop' = "intercept"
    <3>1. loop = "intercept" /\ taken # NoEnvelope /\ taken[1] \in Msg /\ st[taken[1]] = "taken"
      BY <2>1 DEF TakenTracked
    <3> QED BY <3>1, <1>1, <1>2 DEF TakenTracked
  <2> QED BY <2>1 DEF TakenTracked
<1>4. FutureTracked'
  BY <1>1, <1>2 DEF FutureTracked
<1>5. ItemsTracked'
  BY DEF ItemsTracked, ShutNow
<1>6. WaitingIsOwed'
  BY <1>1 DEF WaitingIsOwed
<1> QED BY <1>3, <1>4, <1>5, <1>6
-----------------------------------------------------------------------------
(* send_message() and publish_message().                                   *)
LEMMA PostTracked ==
  ASSUME WaitInv, NEW m \in Msg, NEW p \in Msg \cup {NoMsg}, NEW a \in Agent \cup {NoAgent}, Post(m, p, a)
  PROVE  Tracked'
<1> USE MessageAssumption DEF WaitInv, Tracked, Shapes
<1>1. /\ st[m] = "new" /\ st' = [st EXCEPT ![m] = "queued"]
      /\ items' = Append(items, <<m, "msg">>)
      /\ fut' = fut \/ (KindOf[m] = "send" /\ fut' = [fut EXCEPT ![m] = "pending"])
      /\ UNCHANGED <<gather, loop, taken, ctl, mode>>
  BY DEF Post, Calling, Enqueue, runVars
<1>2. /\ st'[m] = "queued" /\ \A n \in Msg \ {m} : st'[n] = st[n]
      /\ \A n \in Msg \ {m} : fut'[n] = fut[n]
      /\ fut'[m] = fut[m] \/ KindOf[m] = "send"
  BY <1>1
<1>3. ItemsTracked'
  BY <1>1, ItemsAppended
<1>4. TakenTracked'
  <2>1. CASE loop = "intercept"
    <3>1. taken # NoEnvelope /\ taken[1] \in Msg /\ taken[1] # m
      BY <1>1, <2>1 DEF TakenTracked
    <3> QED BY <3>1, <2>1, <1>1, <1>2 DEF TakenTracked
  <2> QED BY <2>1, <1>1 DEF TakenTracked
<1>5. FutureTracked'
  BY <1>1, <1>2 DEF FutureTracked
<1>6. WaitingIsOwed' /\ JoinIsIdle'
  BY <1>1, <1>2 DEF WaitingIsOwed, JoinIsIdle, Owed
<1> QED BY <1>3, <1>4, <1>5, <1>6

(* A refused message was never accepted: nobody waits for it.              *)
LEMMA RefusedTracked ==
  ASSUME WaitInv, NEW m \in Msg, NEW p, NEW a, PostRefused(m, p, a)
  PROVE  Tracked'
<1> USE MessageAssumption DEF WaitInv, Tracked, Shapes
<1>1. /\ st[m] = "new" /\ st' = [st EXCEPT ![m] = "refused"]
      /\ UNCHANGED <<items, fut, gather, loop, taken, ctl, mode>>
  BY DEF PostRefused, Calling, queueVars, runVars
<1>2. st'[m] = "refused" /\ \A n \in Msg \ {m} : st'[n] = st[n]
  BY <1>1
<1>3. ItemsTracked'
  <2>1. \A i \in DOMAIN items : items[i][1] \in Msg /\ items[i][1] # m
    BY <1>1, ItemsTyped
  <2> QED BY <2>1, <1>1, <1>2 DEF ItemsTracked
<1>4. TakenTracked'
  <2>1. CASE loop = "intercept"
    <3>1. taken # NoEnvelope /\ taken[1] \in Msg /\ taken[1] # m
      BY <1>1, <2>1 DEF TakenTracked
    <3> QED BY <3>1, <2>1, <1>1, <1>2 DEF TakenTracked
  <2> QED BY <2>1, <1>1 DEF TakenTracked
<1>5. FutureTracked'
  BY <1>1, <1>2 DEF FutureTracked
<1>6. WaitingIsOwed' /\ JoinIsIdle'
  BY <1>1, <1>2 DEF WaitingIsOwed, JoinIsIdle, FutureTracked
<1> QED BY <1>3, <1>4, <1>5, <1>6

(* The answer of a handler goes into the queue.                            *)
LEMMA ResponseTracked ==
  ASSUME WaitInv, NEW m \in Msg, PutResponse(m), st[m] = "handling", KindOf[m] = "send",
         st' = [st EXCEPT ![m] = "responding"], UNCHANGED <<fut, gather, loop, taken, ctl, mode>>
  PROVE  Tracked'
<1> USE MessageAssumption DEF WaitInv, Tracked, Shapes
<1>1. items' = Append(items, <<m, "resp">>)
  BY DEF PutResponse
<1>2. st'[m] = "responding" /\ \A n \in Msg \ {m} : st'[n] = st[n]
  OBVIOUS
<1>3. ItemsTracked'
  BY <1>1, ItemsAppended
<1>4. TakenTracked'
  <2>1. CASE loop = "intercept"
    <3>1. taken # NoEnvelope /\ taken[1] \in Msg /\ taken[1] # m
      BY <2>1 DEF TakenTracked
    <3> QED BY <3>1, <2>1, <1>2 DEF TakenTracked
  <2> QED BY <2>1 DEF TakenTracked
<1>5. FutureTracked'
  BY <1>2 DEF FutureTracked
<1>6. WaitingIsOwed' /\ JoinIsIdle'
  BY <1>2 DEF WaitingIsOwed, JoinIsIdle, Owed
<1> QED BY <1>3, <1>4, <1>5, <1>6

(* The loop takes an envelope.                                             *)
LEMMA TakeTracked ==
  ASSUME WaitInv, LoopTakes
  PROVE  Tracked'
<1> USE MessageAssumption DEF WaitInv, Tracked, Shapes
<1> DEFINE m == Head(items)[1]
<1>1. items # <<>> /\ items' = Tail(items) /\ UNCHANGED <<fut, gather, ctl, mode>>
  BY DEF LoopTakes, Take
<1>2. /\ Head(items) \in Msg \X {"msg", "resp"} /\ m \in Msg
      /\ st[m] = IF Head(items)[2] = "msg" THEN "queued" ELSE "responding"
  BY <1>1, HeadTracked
<1>3. PICK x \in {"started", "acking", "taken"} :
        /\ st' = [st EXCEPT ![m] = x]
        /\ x = "acking" => Head(items)[2] # "msg"
        /\ loop' = "intercept" => taken' = Head(items) /\ x = "taken"
  BY DEF LoopTakes, Take, Dispatch
<1>4. st'[m] = x /\ \A n \in Msg \ {m} : st'[n] = st[n]
  BY <1>2, <1>3
<1>5. ItemsTracked'
  BY <1>1, <1>3, ItemsTaken
<1>6. Head(items)[2] # "msg" => Head(items)[2] = "resp" /\ KindOf[m] = "send"
  BY <1>2 DEF FutureTracked
<1> HIDE DEF m
<1>7. TakenTracked'
  <2>1. Head(items)[1] = m /\ Head(items) # NoEnvelope
    BY <1>2 DEF NoEnvelope, m
  <2> QED BY <1>3, <1>4, <1>6, <2>1 DEF TakenTracked
<1>8. FutureTracked'
  BY <1>1, <1>2, <1>3, <1>4, <1>6 DEF FutureTracked
<1>9. WaitingIsOwed' /\ JoinIsIdle'
  BY <1>1, <1>3, <1>4 DEF WaitingIsOwed, JoinIsIdle, Owed
<1> QED BY <1>5, <1>7, <1>8, <1>9

(* The interventions let an envelope pass, or fail it and tell its sender. *)
LEMMA InterceptTracked ==
  ASSUME WaitInv, NEW v \in Verdicts, LoopIntercepted(v)
  PROVE  Tracked'
<1> USE MessageAssumption DEF WaitInv, Tracked, Shapes
<1> DEFINE m == taken[1]
<1>1. /\ loop = "intercept" /\ loop' # "intercept" /\ UNCHANGED <<items, gather, ctl, mode>>
  BY DEF LoopIntercepted, Dispatch, queueVars
<1>2. m \in Msg /\ st[m] = "taken" /\ (taken[2] # "msg" => KindOf[m] = "send")
  BY <1>1 DEF TakenTracked
<1>3. PICK x \in {"started", "acking", "dropped"} :
        /\ st' = [st EXCEPT ![m] = x]
        /\ x = "acking" => taken[2] # "msg"
        /\ fut' = fut \/ (KindOf[m] # "publish" /\ fut' = [fut EXCEPT ![m] = "error"])
        /\ x = "dropped" => KindOf[m] = "publish" \/ fut[m] = "cancelled" \/ fut' = [fut EXCEPT ![m] = "error"]
  BY DEF LoopIntercepted, Dispatch
<1> HIDE DEF m
<1>4. /\ st'[m] = x /\ \A n \in Msg \ {m} : st'[n] = st[n]
      /\ \A n \in Msg \ {m} : fut'[n] = fut[n]
      /\ fut'[m] = fut[m] \/ (KindOf[m] # "publish" /\ fut'[m] = "error")
  BY <1>2, <1>3
<1>5. x = "dropped" => fut'[m] # "pending"
  BY <1>2, <1>3, <1>4 DEF FutureTracked
<1>6. ItemsTracked'
  <2>1. \A i \in DOMAIN items : items[i][1] \in Msg /\ items[i][1] # m
    BY <1>2, ItemsTyped
  <2> QED BY <2>1, <1>1, <1>4 DEF ItemsTracked
<1>7. TakenTracked' /\ JoinIsIdle'
  BY <1>1 DEF TakenTracked, JoinIsIdle
<1>8. FutureTracked'
  BY <1>1, <1>2, <1>3, <1>4 DEF FutureTracked
<1>9. WaitingIsOwed'
  BY <1>3, <1>4, <1>5 DEF WaitingIsOwed, Owed
<1> QED BY <1>6, <1>7, <1>8, <1>9
-----------------------------------------------------------------------------
(* The end of a handler that was sent a message.                           *)
LEMMA EndSendTracked ==
  ASSUME WaitInv, NEW m \in Msg, NEW a \in Agent, NEW o \in Outcomes[KindOf[m]], EndSend(m, a, o)
  PROVE  Tracked'
<1> USE MessageAssumption, BehaviourAssumption
<1>1. /\ st[m] = "handling" /\ KindOf[m] = "send"
      /\ UNCHANGED <<gather, loop, taken, ctl, mode>>
  BY DEF EndSend, runVars
<1>2. o \in {"return", "raise", "cancel"} /\ fut \in [Msg -> {"none", "pending"} \cup Resolved]
  <2>1. KindOf[m] \in {"send", "publish"}
    OBVIOUS
  <2> QED BY <2>1 DEF WaitInv, Shapes
<1>3. CASE o = "return"
  <2>1. SendReturns(m)
    BY <1>3 DEF EndSend
  <2>2. CASE PutResponse(m) /\ st' = [st EXCEPT ![m] = "responding"]
    BY <1>1, <2>1, <2>2, ResponseTracked DEF SendReturns
  <2>3. CASE st' = [st EXCEPT ![m] = "stranded"] /\ UNCHANGED queueVars
    <3>1. "stranded" \in Stages \ {"new"} /\ "stranded" \notin {"responding", "acking"} /\ UNCHANGED <<items, fut>>
      BY <2>1, <2>3 DEF Stages, queueVars, SendReturns
    <3> QED BY <1>1, <2>3, <3>1, TaskMoves
  <2> QED BY <2>1, <2>2, <2>3 DEF SendReturns
<1>4. CASE o = "raise"
  <2>1. SendFails(m)
    BY <1>4 DEF EndSend
  <2>2. PICK x \in {"leaked", "over"} :
          /\ st' = [st EXCEPT ![m] = x]
          /\ UNCHANGED items
          /\ (fut' = fut /\ fut[m] = "cancelled") \/ fut' = [fut EXCEPT ![m] = "error"]
    BY <2>1 DEF SendFails, TaskDone, queueVars
  <2>3. x \in Stages \ {"new"} /\ x \notin {"responding", "acking"} /\ fut'[m] # "pending"
    BY <1>2, <2>2 DEF Stages
  <2>4. fut' = fut \/ \E y \in Resolved : fut' = [fut EXCEPT ![m] = y]
    BY <2>2 DEF Resolved
  <2> QED BY <1>1, <2>2, <2>3, <2>4, TaskMoves
<1>5. CASE o = "cancel"
  <2>1. SendCancelled(m)
    BY <1>5 DEF EndSend
  <2>2. st' = [st EXCEPT ![m] = "over"] /\ UNCHANGED items
    BY <2>1 DEF SendCancelled, TaskDone
  <2>3. \E y \in {"cancelled", "error"} : fut' = [fut EXCEPT ![m] = y]
    BY <2>1 DEF SendCancelled
  <2>4. fut'[m] # "pending" /\ \E y \in Resolved : fut' = [fut EXCEPT ![m] = y]
    BY <1>2, <2>3 DEF Resolved
  <2>5. "over" \in Stages \ {"new"} /\ "over" \notin {"responding", "acking"}
    BY DEF Stages
  <2> QED BY <1>1, <2>2, <2>4, <2>5, TaskMoves
<1> QED BY <1>2, <1>3, <1>4, <1>5

(* Every step keeps track of the envelopes and of who waits for them.      *)
LEMMA TrackedStep == ASSUME WaitInv, [Next]_vars PROVE Tracked'
<1>0. ASSUME UNCHANGED <<items, st, gather, taken, fut>>, loop' = loop \/ loop' # "intercept", JoinIsIdle'
      PROVE  Tracked'
  BY <1>0 DEF WaitInv, Tracked, TakenTracked, FutureTracked, ItemsTracked, WaitingIsOwed
<1>1. ASSUME NEW m \in Msg, NEW p \in Msg \cup {NoMsg}, NEW a \in Agent \cup {NoAgent}, Post(m, p, a)
      PROVE  Tracked'
  BY <1>1, PostTracked
<1>2. ASSUME NEW m \in Msg, NEW p \in Msg \cup {NoMsg}, NEW a \in Agent \cup {NoAgent}, PostRefused(m, p, a)
      PROVE  Tracked'
  BY <1>2, RefusedTracked
<1>3. ASSUME NEW m \in Msg, CancelToken(m) PROVE Tracked'
  <2>1. /\ fut[m] = "pending" /\ fut' = [fut EXCEPT ![m] = "cancelled"]
        /\ UNCHANGED <<items, st, gather, loop, taken, ctl, mode>>
    BY <1>3 DEF CancelToken, queueVars, runVars
  <2>2. JoinIsIdle' /\ TakenTracked' /\ ItemsTracked'
    BY <2>1 DEF WaitInv, Tracked, JoinIsIdle, TakenTracked, ItemsTracked
  <2>3. fut'[m] = "cancelled" /\ \A n \in Msg \ {m} : fut'[n] = fut[n]
    BY <2>1 DEF WaitInv, Shapes
  <2>4. FutureTracked' /\ WaitingIsOwed'
    BY <2>1, <2>3 DEF WaitInv, Tracked, FutureTracked, WaitingIsOwed
  <2> QED BY <2>2, <2>4 DEF Tracked
<1>4. ASSUME NEW m \in Msg, StartSend(m) PROVE Tracked'
  <2>1. /\ st[m] = "started" /\ st' = [st EXCEPT ![m] = "handling"]
        /\ UNCHANGED <<items, fut, gather, loop, taken, ctl, mode>>
    BY <1>4 DEF StartSend, queueVars, runVars
  <2>2. "handling" \in Stages \ {"new"} /\ "handling" \in Owed /\ "handling" \notin {"responding", "acking"}
    BY DEF Stages, Owed
  <2> QED BY <2>1, <2>2, TaskMoves
<1>5. ASSUME NEW m \in Msg, SendFactoryFails(m) PROVE Tracked'
  <2>1. /\ st[m] = "started" /\ KindOf[m] = "send" /\ SendFails(m)
        /\ UNCHANGED <<gather, loop, taken, ctl, mode>>
    BY <1>5 DEF SendFactoryFails, runVars
  <2>2. PICK x \in {"leaked", "over"} :
          /\ st' = [st EXCEPT ![m] = x]
          /\ UNCHANGED items
          /\ (fut' = fut /\ fut[m] = "cancelled") \/ fut' = [fut EXCEPT ![m] = "error"]
    BY <2>1 DEF SendFails, TaskDone, queueVars
  <2>3. x \in Stages \ {"new"} /\ x \notin {"responding", "acking"} /\ fut'[m] # "pending"
    BY <2>2 DEF Stages, WaitInv, Shapes
  <2>4. fut' = fut \/ \E y \in Resolved : fut' = [fut EXCEPT ![m] = y]
    BY <2>2 DEF Resolved
  <2> QED BY <2>1, <2>2, <2>3, <2>4, TaskMoves
<1>6. ASSUME NEW m \in Msg, StartPublish(m) PROVE Tracked'
  <2>1. /\ st[m] = "started" /\ KindOf[m] = "publish" /\ st' = [st EXCEPT ![m] = "handling"]
        /\ \E y : gather' = [gather EXCEPT ![m] = y]
        /\ UNCHANGED <<items, fut, loop, taken, ctl, mode>>
    BY <1>6 DEF StartPublish, queueVars, runVars
  <2>2. "handling" \in Stages \ {"new"} /\ "handling" \in Owed /\ "handling" \notin {"responding", "acking"}
    BY DEF Stages, Owed
  <2> QED BY <2>1, <2>2, TaskMoves
<1>7. ASSUME NEW m \in Msg, PublishFactoryFails(m) PROVE Tracked'
  <2>1. /\ st[m] = "started" /\ KindOf[m] = "publish" /\ st' = [st EXCEPT ![m] = "handling"]
        /\ \E y : gather' = [gather EXCEPT ![m] = y]
        /\ UNCHANGED <<items, fut, loop, taken, ctl, mode>>
    BY <1>7 DEF PublishFactoryFails, queueVars, runVars
  <2>2. "handling" \in Stages \ {"new"} /\ "handling" \in Owed /\ "handling" \notin {"responding", "acking"}
    BY DEF Stages, Owed
  <2> QED BY <2>1, <2>2, TaskMoves
<1>8. ASSUME NEW m \in Msg, EndPublish(m) PROVE Tracked'
  <2>1. /\ st[m] = "handling" /\ gather[m] # "none" /\ st' = [st EXCEPT ![m] = "over"]
        /\ UNCHANGED <<items, fut, gather, loop, taken, ctl, mode>>
    BY <1>8 DEF EndPublish, TaskDone
  <2>2. fut[m] = "none"
    BY <2>1 DEF WaitInv, Tracked, FutureTracked
  <2>3. "over" \in Stages \ {"new"} /\ "over" \notin {"responding", "acking"} /\ fut'[m] # "pending"
    BY <2>1, <2>2 DEF Stages
  <2> QED BY <2>1, <2>3, TaskMoves
<1>9. ASSUME NEW m \in Msg, Acknowledge(m) PROVE Tracked'
  <2>1. /\ st[m] = "acking" /\ st' = [st EXCEPT ![m] = "over"]
        /\ UNCHANGED <<items, gather, loop, taken, ctl, mode>>
        /\ \E y \in {"cancelled", "result"} : fut' = [fut EXCEPT ![m] = y]
    BY <1>9 DEF Acknowledge, TaskDone, runVars
  <2>2. KindOf[m] = "send" /\ fut'[m] # "pending" /\ \E y \in Resolved : fut' = [fut EXCEPT ![m] = y]
    BY <2>1 DEF WaitInv, Tracked, FutureTracked, Shapes, Resolved
  <2>3. "over" \in Stages \ {"new"} /\ "over" \notin {"responding", "acking"}
    BY DEF Stages
  <2> QED BY <2>1, <2>2, <2>3, TaskMoves
<1>10. ASSUME NEW m \in Msg, NEW a \in Agent, HandlerResume(m, a) PROVE Tracked'
  BY <1>0, <1>10 DEF HandlerResume, queueVars, runVars, WaitInv, Tracked, JoinIsIdle
<1>11. ASSUME NEW m \in Msg, NEW a \in Agent, NEW o \in Outcomes[KindOf[m]], EndSend(m, a, o) PROVE Tracked'
  BY <1>11, EndSendTracked
<1>12. ASSUME NEW m \in Msg, NEW a \in Agent, NEW o \in Outcomes[KindOf[m]], EndHandler(m, a, o) PROVE Tracked'
  <2>1. /\ KindOf[m] = "publish" /\ \E y : gather' = [gather EXCEPT ![m] = y]
        /\ UNCHANGED <<items, st, fut, loop, taken, ctl, mode>>
    BY <1>12 DEF EndHandler, queueVars, runVars
  <2>2. JoinIsIdle' /\ TakenTracked' /\ ItemsTracked' /\ WaitingIsOwed'
    BY <2>1 DEF WaitInv, Tracked, JoinIsIdle, TakenTracked, ItemsTracked, WaitingIsOwed
  <2>3. \A n \in Msg \ {m} : gather'[n] = gather[n]
    BY <2>1 DEF WaitInv, Shapes
  <2>4. FutureTracked'
    BY <2>1, <2>3 DEF WaitInv, Tracked, FutureTracked
  <2> QED BY <2>2, <2>4 DEF Tracked
<1>13. ASSUME LoopReturns PROVE Tracked'
  BY <1>0, <1>13 DEF LoopReturns, queueVars, msgVars, WaitInv, Tracked, JoinIsIdle
<1>14. ASSUME LoopRaises PROVE Tracked'
  BY <1>14, ShutTracked DEF LoopRaises, WaitInv, Tracked, JoinIsIdle
<1>15. ASSUME LoopTakes PROVE Tracked'
  BY <1>15, TakeTracked
<1>16. ASSUME LoopWaits PROVE Tracked'
  BY <1>0, <1>16 DEF LoopWaits, queueVars, msgVars, WaitInv, Tracked, JoinIsIdle
<1>17. ASSUME LoopShutDown PROVE Tracked'
  BY <1>0, <1>17 DEF LoopShutDown, queueVars, msgVars, WaitInv, Tracked, JoinIsIdle
<1>18. ASSUME NEW v \in Verdicts, LoopIntercepted(v) PROVE Tracked'
  BY <1>18, InterceptTracked
<1>19. ASSUME Start PROVE Tracked'
  BY <1>0, <1>19 DEF Start, queueVars, msgVars, JoinIsIdle
<1>20. ASSUME NEW how \in {"stop", "when"}, Stop(how) PROVE Tracked'
  BY <1>20, ShutTracked DEF Stop, HaltLoop, JoinIsIdle
<1>21. ASSUME StopWhenIdle PROVE Tracked'
  BY <1>0, <1>21 DEF StopWhenIdle, msgVars, JoinIsIdle
<1>22. ASSUME StopWhenIdleAtOnce PROVE Tracked'
  BY <1>22, ShutTracked DEF StopWhenIdleAtOnce, HaltLoop, JoinIsIdle
<1>23. ASSUME JoinReturns PROVE Tracked'
  BY <1>23, ShutTracked DEF JoinReturns, HaltLoop, JoinIsIdle
<1>24. ASSUME StopReturns PROVE Tracked'
  <2>1. /\ UNCHANGED <<st, fut, gather, taken>>
        /\ loop' = loop \/ loop' = "off"
        /\ items' = items \/ items' = <<>>
        /\ ctl' \in {"up", "down"}
    BY <1>24 DEF StopReturns, msgVars
  <2>2. JoinIsIdle' /\ TakenTracked' /\ FutureTracked' /\ WaitingIsOwed'
    BY <2>1 DEF WaitInv, Tracked, JoinIsIdle, TakenTracked, FutureTracked, WaitingIsOwed
  <2>3. ItemsTracked'
    BY <2>1 DEF WaitInv, Tracked, ItemsTracked
  <2> QED BY <2>2, <2>3 DEF Tracked
<1>25. ASSUME UNCHANGED vars PROVE Tracked'
  BY <1>0, <1>25 DEF vars, queueVars, msgVars, runVars, WaitInv, Tracked, JoinIsIdle
<1> QED BY <1>1, <1>2, <1>3, <1>4, <1>5, <1>6, <1>7, <1>8, <1>9, <1>10, <1>11, <1>12, <1>13, <1>14, <1>15,
          <1>16, <1>17, <1>18, <1>19, <1>20, <1>21, <1>22, <1>23, <1>24, <1>25
          DEF Next, TaskStep, HandlerStep, LoopStep, StopStep

LEMMA InitWait == Init => WaitInv
<1> USE MessageAssumption, BehaviourAssumption
<1> SUFFICES ASSUME Init PROVE WaitInv
  OBVIOUS
<1>1. Shapes
  BY DEF Init, Shapes, Stages, Resolved
<1>2. Tracked
  BY DEF Init, Tracked, JoinIsIdle, TakenTracked, FutureTracked, ItemsTracked, WaitingIsOwed
<1> QED BY <1>1, <1>2 DEF WaitInv

LEMMA WaitInvariant == Spec => []WaitInv
<1>1. WaitInv /\ [Next]_vars => WaitInv'
  BY ShapesStep, TrackedStep DEF WaitInv, Tracked
<1> QED BY InitWait, <1>1, PTL DEF Spec

(* Whatever the handlers, the interventions, the cancellations and the     *)
(* stops do: a sender whose future is still pending has its message under  *)
(* way, unless a stop threw it out of the queue or its answer met a queue  *)
(* that was already shut down.                                             *)
THEOREM NobodyWaitsInVain == Spec => []WaitingIsOwed
<1>1. WaitInv => WaitingIsOwed
  BY DEF WaitInv, Tracked
<1> QED BY WaitInvariant, <1>1, PTL
-----------------------------------------------------------------------------
(* What the count of unfinished messages stands for.                       *)

\* the messages the count stands for
Counted == {m \in Msg : st[m] \in Owed} \cup Forgotten

\* events are handled without an exception
EventsReturn == Outcomes["publish"] \subseteq {"return"}

\* no stop cuts anything off: only stop_when_idle() is used, nobody sends
\* during it, and no event leaves handlers behind
CleanStops == Stops \subseteq {"idle"} /\ Quiet /\ EventsReturn

\* the queue is the one the messages went to
SameQueue == starts = 0 \/ ctl # "down" \/ CleanStops

CountInv == SameQueue => unfinished = Cardinality(Counted)

\* an idle stop finds, and leaves, an idle runtime
IdleInv ==
    /\ starts = 0 => ctl = "down"
    /\ ctl = "awaiting" => mode \in Stops
    /\ Quiet /\ EventsReturn
         /\ ((ctl = "awaiting" /\ mode = "idle") \/ (ctl = "joining" /\ joinWoken)) => Counted = {}

Callees(m) == IF KindOf[m] = "send" THEN To[m] ELSE Recipients(m)

\* only the callees of a message that was accepted have handlers for it
CalleesInv == \A m \in Msg, a \in Agent : h[m][a] # "none" => a \in Callees(m) /\ st[m] # "new"

\* a handler that has not ended keeps its message under way
HandlersInv ==
    EventsReturn =>
        \A m \in Msg :
            /\ \A a \in Agent : h[m][a] \notin {"none", "done"} => st[m] = "handling"
            /\ gather[m] = "ok" => \A a \in Agent : h[m][a] \in {"none", "done"}
            /\ gather[m] # "error"

\* The count alone is not inductive: that a second run starts at zero needs
\* the stop to have found nothing under way, which rests on join() being woken
\* only when that is so, and on nobody being able to send afterwards.
LedgerInv == CountInv /\ IdleInv /\ CalleesInv /\ HandlersInv

\* The set is finite, and empty exactly when its size is zero.
LEMMA CountedFinite ==
  /\ IsFiniteSet(Counted) /\ Cardinality(Counted) \in Nat /\ (Cardinality(Counted) = 0 <=> Counted = {})
<1>1. Counted \in SUBSET Msg
  BY DEF Counted, Forgotten
<1>2. IsFiniteSet(Counted)
  BY <1>1, FS_Subset, MessageAssumption
<1>3. Cardinality(Counted) \in Nat
  BY <1>2, FS_CardinalityType
<1> QED BY <1>2, <1>3, FS_EmptySet

\* What moving one message does to the set.
LEMMA CountedMove ==
  ASSUME Shapes, NEW m \in Msg, NEW x, st' = [st EXCEPT ![m] = x]
  PROVE  Counted' = IF x \in Owed \cup {"dropped", "leaked", "stranded"}
                    THEN Counted \cup {m} ELSE Counted \ {m}
<1>1. st'[m] = x /\ \A n \in Msg \ {m} : st'[n] = st[n]
  BY DEF Shapes
<1> QED BY <1>1 DEF Counted, Forgotten

(* A step that moves no message into or out of the count.                  *)
LEMMA CountSame ==
  ASSUME CountInv, IdleInv, Counted' = Counted, UNCHANGED <<unfinished, joinWoken, ctl, mode, starts>>
  PROVE  CountInv' /\ IdleInv'
<1>1. SameQueue' <=> SameQueue
  BY DEF SameQueue
<1>2. CountInv'
  BY <1>1 DEF CountInv
<1>3. IdleInv'
  BY DEF IdleInv
<1> QED BY <1>2, <1>3

(* task_done() for a message that was counted.                             *)
LEMMA CountDone ==
  ASSUME Shapes, CountInv, IdleInv, NEW m \in Counted, Counted' = Counted \ {m},
         TaskDone, UNCHANGED <<ctl, mode, starts>>
  PROVE  CountInv' /\ IdleInv'
<1>1. IsFiniteSet(Counted) /\ Cardinality(Counted) \in Nat /\ Cardinality(Counted) # 0
  BY CountedFinite
<1>2. Cardinality(Counted \ {m}) = Cardinality(Counted) - 1
  BY <1>1, FS_RemoveElement
<1>3. SameQueue' <=> SameQueue
  BY DEF SameQueue
<1>4. CountInv'
  BY <1>1, <1>2, <1>3 DEF CountInv, TaskDone, Shapes
<1>5. Cardinality(Counted) = 1 => Counted' = {}
  <2>1. IsFiniteSet(Counted \ {m})
    BY <1>1, FS_RemoveElement
  <2> QED BY <2>1, <1>2, FS_EmptySet
<1>6. ctl = "joining" /\ unfinished = 1 => Counted' = {}
  BY <1>5 DEF CountInv, SameQueue
<1>7. joinWoken' => joinWoken \/ (ctl = "joining" /\ unfinished = 1)
  BY DEF TaskDone
<1>8. IdleInv'
  BY <1>6, <1>7 DEF IdleInv
<1> QED BY <1>4, <1>8

\* A queue holds as many envelopes as messages.
LEMMA QueuedCount ==
  ASSUME Shapes, ItemsTracked
  PROVE  /\ Queued \subseteq Counted
         /\ Cardinality(Queued) = Len(items) /\ Len(items) \in Nat
<1>1. items \in Seq(Msg \X {"msg", "resp"}) /\ Len(items) \in Nat /\ DOMAIN items = 1..Len(items)
  BY DEF Shapes
<1> DEFINE f == [i \in 1..Len(items) |-> items[i][1]]
<1>2. Queued = {items[i][1] : i \in 1..Len(items)}
  BY <1>1 DEF Queued
<1>3. f \in [1..Len(items) -> Queued] /\ \A q \in Queued : \E i \in 1..Len(items) : f[i] = q
  BY <1>2
<1>4. \A i, j \in 1..Len(items) : f[i] = f[j] => i = j
  BY <1>1 DEF ItemsTracked
<1>5. f \in Bijection(1..Len(items), Queued)
  BY <1>3, <1>4, Fun_IsBij
<1>6. ExistsBijection(1..Len(items), Queued)
  BY <1>5 DEF ExistsBijection
<1>7. Cardinality(Queued) = Len(items)
  BY <1>1, <1>6, FS_CountingElements
<1>8. Queued \subseteq Counted
  BY ItemsTyped DEF Queued, Counted, Owed
<1> QED BY <1>1, <1>7, <1>8

(* shutdown() takes what it discards out of the count.                     *)
LEMMA CountShut ==
  ASSUME WaitInv, ShutNow, SameQueue, CountInv
  PROVE  /\ Counted' = Counted \ Queued
         /\ unfinished' = Cardinality(Counted')
         /\ unfinished' = 0 <=> Counted' = {}
<1>1. /\ Queued \subseteq Counted
      /\ Cardinality(Queued) = Len(items) /\ Len(items) \in Nat
  BY QueuedCount DEF WaitInv, Tracked
<1>2. Counted' = Counted \ Queued
  <2>1. \A m \in Msg : st'[m] = IF m \in Queued THEN "discarded" ELSE st[m]
    BY DEF ShutNow
  <2> QED BY <2>1, <1>1 DEF Counted, Forgotten, Owed
<1>3. Counted \cap Queued = Queued
  BY <1>1
<1>4. /\ IsFiniteSet(Counted \ Queued)
      /\ Cardinality(Counted \ Queued) = Cardinality(Counted) - Cardinality(Queued)
  BY <1>3, CountedFinite, FS_Difference
<1>5. Cardinality(Counted) \in Nat /\ Cardinality(Counted \ Queued) \in Nat
  BY <1>4, CountedFinite, FS_CardinalityType
<1>6. unfinished = Cardinality(Counted)
  BY DEF CountInv
<1>7. unfinished' = Cardinality(Counted \ Queued)
  BY <1>1, <1>4, <1>5, <1>6 DEF ShutNow
<1>8. Cardinality(Counted \ Queued) = 0 <=> Counted \ Queued = {}
  BY <1>4, FS_EmptySet
<1> QED BY <1>2, <1>7, <1>8
-----------------------------------------------------------------------------
(* Handlers run for the callees of messages under way.                     *)

\* A step that calls and ends no handler: what leaves "handling" has none.
LEMMA HandlersSame ==
  ASSUME Shapes, CalleesInv, HandlersInv, UNCHANGED <<h, from>>,
         \A m \in Msg : st'[m] = "new" => st[m] = "new",
         \A m \in Msg : gather'[m] = gather[m],
         EventsReturn => \A m \in Msg, a \in Agent :
             st'[m] # st[m] /\ st[m] = "handling" => h[m][a] \in {"none", "done"}
  PROVE  CalleesInv' /\ HandlersInv'
<1>1. CalleesInv'
  BY DEF CalleesInv, Callees, Recipients
<1>2. HandlersInv'
  BY DEF HandlersInv
<1> QED BY <1>1, <1>2

\* A handler goes on, or waits for a message it sent.
LEMMA HandlersGoOn ==
  ASSUME Shapes, CalleesInv, HandlersInv, NEW m \in Msg, NEW a \in Agent, NEW y \in {"running"} \cup Msg,
         h[m][a] \in {"running"} \cup Msg, h' = [h EXCEPT ![m][a] = y],
         \A n \in Msg : from'[n] = from[n] \/ st[n] = "new",
         \A n \in Msg : st'[n] = st[n] \/ (st[n] = "new" /\ st'[n] # "new"), UNCHANGED gather
  PROVE  CalleesInv' /\ HandlersInv'
<1> USE MessageAssumption
<1>1. /\ h'[m][a] = y
      /\ \A n \in Msg, b \in Agent : (n # m \/ b # a) => h'[n][b] = h[n][b]
  BY DEF Shapes
<1>2. h[m][a] # "none" /\ h[m][a] # "done"
  OBVIOUS
<1>3. CalleesInv'
  <2>1. \A n \in Msg : from'[n] # from[n] => \A b \in Agent : h[n][b] = "none"
    BY DEF CalleesInv
  <2>2. \A n \in Msg, b \in Agent : h'[n][b] # "none" => h[n][b] # "none"
    BY <1>1, <1>2
  <2>3. \A n \in Msg, b \in Agent : h'[n][b] # "none" => st[n] # "new" /\ b \in Callees(n) /\ from'[n] = from[n]
    BY <2>2 DEF CalleesInv
  <2> QED BY <2>3 DEF CalleesInv, Callees, Recipients
<1>4. HandlersInv'
  <2> SUFFICES ASSUME EventsReturn, NEW n \in Msg
               PROVE  /\ \A b \in Agent : h'[n][b] \notin {"none", "done"} => st'[n] = "handling"
                      /\ gather'[n] = "ok" => \A b \in Agent : h'[n][b] \in {"none", "done"}
                      /\ gather'[n] # "error"
    BY DEF HandlersInv
  <2>1. st[m] = "handling" /\ gather[m] # "ok"
    BY <1>2 DEF HandlersInv
  <2>2. \A b \in Agent : h'[n][b] \notin {"none", "done"} => st'[n] = "handling"
    BY <1>1, <2>1 DEF HandlersInv
  <2>3. gather[n] # "error" /\ (gather[n] = "ok" => n # m /\ \A b \in Agent : h[n][b] \in {"none", "done"})
    BY <2>1 DEF HandlersInv
  <2> QED BY <1>1, <2>2, <2>3
<1> QED BY <1>3, <1>4

\* A message's handlers are called.
LEMMA HandlersStart ==
  ASSUME Shapes, CalleesInv, HandlersInv, NEW m \in Msg, st' = [st EXCEPT ![m] = "handling"], UNCHANGED from,
         h' = [h EXCEPT ![m] = [a \in Agent |-> IF a \in Callees(m) THEN "running" ELSE "none"]],
         \A n \in Msg \ {m} : gather'[n] = gather[n],
         gather'[m] # "error",
         gather'[m] = "ok" => Callees(m) = {}
  PROVE  CalleesInv' /\ HandlersInv'
<1>1. /\ \A a \in Agent : h'[m][a] = IF a \in Callees(m) THEN "running" ELSE "none"
      /\ \A n \in Msg \ {m} : h'[n] = h[n]
      /\ st'[m] = "handling" /\ \A n \in Msg \ {m} : st'[n] = st[n]
  BY DEF Shapes
<1>2. CalleesInv'
  BY <1>1 DEF CalleesInv, Callees, Recipients
<1>3. HandlersInv'
  BY <1>1 DEF HandlersInv
<1> QED BY <1>2, <1>3

(* The handler of a send is its only one.                                  *)
LEMMA HandlersEndSend ==
  ASSUME Shapes, CalleesInv, HandlersInv, NEW m \in Msg, NEW a \in Agent, NEW x, x # "new",
         KindOf[m] = "send", h[m][a] = "running", h' = [h EXCEPT ![m][a] = "done"],
         st' = [st EXCEPT ![m] = x], UNCHANGED <<from, gather>>
  PROVE  CalleesInv' /\ HandlersInv'
<1>1. /\ h'[m][a] = "done"
      /\ \A n \in Msg, b \in Agent : (n # m \/ b # a) => h'[n][b] = h[n][b]
      /\ st'[m] = x /\ \A n \in Msg \ {m} : st'[n] = st[n]
  BY DEF Shapes
<1>2. CalleesInv'
  BY <1>1 DEF CalleesInv, Callees, Recipients
<1>3. \A b \in Agent : b # a => h[m][b] = "none"
  <2>1. PICK c \in Agent : To[m] = {c}
    BY MessageAssumption
  <2>2. Callees(m) = {c}
    BY <2>1 DEF Callees
  <2> QED BY <2>2 DEF CalleesInv
<1>4. HandlersInv'
  BY <1>1, <1>3 DEF HandlersInv
<1> QED BY <1>2, <1>4

(* A publish is gathered when the last of its handlers has ended.          *)
LEMMA HandlersEndPublish ==
  ASSUME Shapes, CalleesInv, HandlersInv, NEW m \in Msg, NEW a \in Agent, NEW o \in Outcomes[KindOf[m]],
         EndHandler(m, a, o)
  PROVE  CalleesInv' /\ HandlersInv'
<1>1. /\ KindOf[m] = "publish" /\ h[m][a] = "running" /\ h' = [h EXCEPT ![m][a] = "done"]
      /\ UNCHANGED <<from, st>>
  BY DEF EndHandler
<1>2. /\ h'[m][a] = "done"
      /\ \A n \in Msg, b \in Agent : (n # m \/ b # a) => h'[n][b] = h[n][b]
  BY <1>1 DEF Shapes
<1>3. CalleesInv'
  BY <1>1, <1>2 DEF CalleesInv, Callees, Recipients
<1>4. Callees(m) = Recipients(m)
  BY <1>1 DEF Callees
<1>5. ASSUME EventsReturn
      PROVE  /\ \A n \in Msg \ {m} : gather'[n] = gather[n]
             /\ gather'[m] \in {gather[m], "ok", "open"}
             /\ gather'[m] = "ok" /\ gather[m] # "ok" => \A b \in Recipients(m) \ {a} : h[m][b] = "done"
  <2>1. o = "return"
    BY <1>1, <1>5 DEF EventsReturn
  <2>2. gather' = [gather EXCEPT ![m] =
                     CASE gather[m] # "open" -> gather[m]
                       [] o # "return" -> "error"
                       [] \A b \in Recipients(m) \ {a} : h[m][b] = "done" -> "ok"
                       [] OTHER -> "open"]
    BY DEF EndHandler
  <2>3. /\ \A n \in Msg \ {m} : gather'[n] = gather[n]
        /\ gather'[m] = CASE gather[m] # "open" -> gather[m]
                          [] o # "return" -> "error"
                          [] \A b \in Recipients(m) \ {a} : h[m][b] = "done" -> "ok"
                          [] OTHER -> "open"
    BY <2>2 DEF Shapes
  <2> QED BY <2>1, <2>3
<1>6. HandlersInv'
  <2> SUFFICES ASSUME EventsReturn, NEW n \in Msg
               PROVE  /\ \A b \in Agent : h'[n][b] \notin {"none", "done"} => st'[n] = "handling"
                      /\ gather'[n] = "ok" => \A b \in Agent : h'[n][b] \in {"none", "done"}
                      /\ gather'[n] # "error"
    BY DEF HandlersInv
  <2>1. \A b \in Agent : h'[n][b] \notin {"none", "done"} => st'[n] = "handling"
    BY <1>1, <1>2 DEF HandlersInv
  <2>2. gather'[n] # "error"
    BY <1>5 DEF HandlersInv
  <2>3. gather'[n] = "ok" => \A b \in Agent : h'[n][b] \in {"none", "done"}
    <3>1. CASE n # m
      BY <3>1, <1>2, <1>5 DEF HandlersInv
    <3>2. CASE n = m /\ gather[m] = "ok"
      BY <3>2, <1>2 DEF HandlersInv
    <3>3. CASE n = m /\ gather[m] # "ok"
      <4>1. \A b \in Agent : b \notin Recipients(m) => h[m][b] = "none"
        BY <1>4 DEF CalleesInv
      <4> QED BY <3>3, <4>1, <1>2, <1>5
    <3> QED BY <3>1, <3>2, <3>3
  <2> QED BY <2>1, <2>2, <2>3
<1> QED BY <1>3, <1>6
-----------------------------------------------------------------------------
(* The ledger, action by action.                                           *)

LEMMA PostLedger ==
  ASSUME WaitInv, LedgerInv, NEW m \in Msg, NEW p \in Msg \cup {NoMsg}, NEW a \in Agent \cup {NoAgent},
         Post(m, p, a)
  PROVE  LedgerInv'
<1> USE MessageAssumption DEF WaitInv
<1>1. /\ st[m] = "new" /\ st' = [st EXCEPT ![m] = "queued"]
      /\ unfinished' = unfinished + 1
      /\ from' = [from EXCEPT ![m] = a]
      /\ UNCHANGED <<gather, ctl, mode, starts, joinWoken>>
      /\ p = NoMsg => (Quiet => ctl \notin {"joining", "awaiting"})
      /\ p # NoMsg => p \in Msg /\ a \in Agent /\ h[p][a] = "running"
      /\ h' = h \/ (p # NoMsg /\ h' = [h EXCEPT ![p][a] = m])
  BY DEF Post, Calling, Enqueue, runVars
<1>2. /\ st'[m] = "queued" /\ \A n \in Msg \ {m} : st'[n] = st[n] /\ from'[n] = from[n]
  BY <1>1 DEF Shapes
<1>3. m \notin Counted /\ Counted' = Counted \cup {m}
  <2>1. m \notin Counted
    BY <1>1 DEF Counted, Forgotten, Owed
  <2>2. "queued" \in Owed
    BY DEF Owed
  <2> QED BY <1>1, <2>1, <2>2, CountedMove
<1>4. CountInv'
  <2>1. Cardinality(Counted') = Cardinality(Counted) + 1
    BY <1>3, CountedFinite, FS_AddElement
  <2>2. SameQueue' <=> SameQueue
    BY <1>1 DEF SameQueue
  <2> QED BY <1>1, <2>1, <2>2 DEF CountInv, LedgerInv
<1>5. IdleInv'
  <2>1. p # NoMsg /\ EventsReturn => Counted # {}
    BY <1>1 DEF LedgerInv, HandlersInv, Counted, Owed
  <2> QED BY <1>1, <2>1 DEF IdleInv, LedgerInv
<1>6. CalleesInv' /\ HandlersInv'
  <2>1. CASE p # NoMsg /\ h' = [h EXCEPT ![p][a] = m]
    <3>1. /\ p \in Msg /\ a \in Agent /\ h[p][a] \in {"running"} \cup Msg /\ m \in {"running"} \cup Msg
          /\ \A n \in Msg : from'[n] = from[n] \/ st[n] = "new"
          /\ \A n \in Msg : st'[n] = st[n] \/ (st[n] = "new" /\ st'[n] # "new")
      BY <1>1, <1>2, <2>1
    <3> QED BY <1>1, <2>1, <3>1, HandlersGoOn DEF LedgerInv
  <2>2. CASE h' = h
    <3>1. CalleesInv'
      <4>1. \A b \in Agent : h'[m][b] = "none"
        BY <1>1, <2>2 DEF LedgerInv, CalleesInv
      <4> QED BY <1>2, <2>2, <4>1 DEF LedgerInv, CalleesInv, Callees, Recipients
    <3>2. HandlersInv'
      BY <1>1, <1>2, <2>2 DEF LedgerInv, HandlersInv
    <3> QED BY <3>1, <3>2
  <2> QED BY <1>1, <2>1, <2>2
<1> QED BY <1>4, <1>5, <1>6 DEF LedgerInv

\* A message moves within the count and no handler is called or ended.
LEMMA KeptLedger ==
  ASSUME WaitInv, LedgerInv, NEW m \in Msg, NEW x, x # "new", st' = [st EXCEPT ![m] = x],
         st[m] # "handling",
         m \in Counted <=> x \in Owed \cup {"dropped", "leaked", "stranded"},
         UNCHANGED <<unfinished, joinWoken, ctl, mode, starts, h, from, gather>>
  PROVE  LedgerInv'
<1> USE DEF WaitInv
<1>1. Counted' = Counted
  <2>1. Counted' = IF x \in Owed \cup {"dropped", "leaked", "stranded"} THEN Counted \cup {m} ELSE Counted \ {m}
    BY CountedMove
  <2>2. CASE m \in Counted
    <3>1. Counted' = Counted \cup {m}
      BY <2>1, <2>2
    <3> QED BY <2>2, <3>1
  <2>3. CASE m \notin Counted
    <3>1. Counted' = Counted \ {m}
      BY <2>1, <2>3
    <3> QED BY <2>3, <3>1
  <2> QED BY <2>2, <2>3
<1>2. CountInv' /\ IdleInv'
  BY <1>1, CountSame DEF LedgerInv
<1>3. st'[m] = x /\ \A n \in Msg \ {m} : st'[n] = st[n]
  BY DEF Shapes
<1>4. /\ \A n \in Msg : st'[n] = "new" => st[n] = "new"
      /\ \A n \in Msg : gather'[n] = gather[n]
      /\ \A n \in Msg : st'[n] # st[n] => st[n] # "handling"
  BY <1>3
<1>5. CalleesInv' /\ HandlersInv'
  BY <1>4, HandlersSame DEF LedgerInv
<1> QED BY <1>2, <1>5 DEF LedgerInv

\* A task outside its handler ends with task_done().
LEMMA DoneLedger ==
  ASSUME WaitInv, LedgerInv, NEW m \in Msg, st' = [st EXCEPT ![m] = "over"], TaskDone,
         st[m] \in Owed,
         EventsReturn /\ st[m] = "handling" => \A a \in Agent : h[m][a] \in {"none", "done"},
         UNCHANGED <<ctl, mode, starts, h, from, gather>>
  PROVE  LedgerInv'
<1> USE DEF WaitInv
<1>1. m \in Counted
  BY DEF Counted
<1>2. "over" \notin Owed \cup {"dropped", "leaked", "stranded"}
  BY DEF Owed
<1>3. Counted' = Counted \ {m}
  BY <1>2, CountedMove
<1>4. CountInv' /\ IdleInv'
  BY <1>1, <1>3, CountDone DEF LedgerInv
<1>5. st'[m] = "over" /\ \A n \in Msg \ {m} : st'[n] = st[n]
  BY DEF Shapes
<1>6. /\ \A n \in Msg : st'[n] = "new" => st[n] = "new"
      /\ \A n \in Msg : gather'[n] = gather[n]
      /\ EventsReturn => \A n \in Msg, a \in Agent :
             st'[n] # st[n] /\ st[n] = "handling" => h[n][a] \in {"none", "done"}
  BY <1>5
<1>7. CalleesInv' /\ HandlersInv'
  BY <1>6, HandlersSame DEF LedgerInv
<1> QED BY <1>4, <1>7 DEF LedgerInv

LEMMA EndSendLedger ==
  ASSUME WaitInv, LedgerInv, NEW m \in Msg, NEW a \in Agent, NEW o \in Outcomes[KindOf[m]], EndSend(m, a, o)
  PROVE  LedgerInv'
<1> USE DEF WaitInv
<1>1. /\ st[m] = "handling" /\ KindOf[m] = "send" /\ h[m][a] = "running"
      /\ h' = [h EXCEPT ![m][a] = "done"]
      /\ UNCHANGED <<from, gather, ctl, mode, starts>>
  BY DEF EndSend, runVars
<1>2. m \in Counted
  BY <1>1 DEF Counted, Owed
<1>3. o \in {"return", "raise", "cancel"}
  <2>1. KindOf[m] \in {"send", "publish"}
    BY MessageAssumption
  <2> QED BY <2>1, BehaviourAssumption
<1>4. \/ /\ st' = [st EXCEPT ![m] = "over"]
         /\ TaskDone
      \/ /\ \E x \in {"stranded", "leaked"} : st' = [st EXCEPT ![m] = x]
         /\ UNCHANGED queueVars
      \/ /\ st' = [st EXCEPT ![m] = "responding"]
         /\ PutResponse(m)
  <2>1. CASE o = "return"
    BY <2>1 DEF EndSend, SendReturns
  <2>2. CASE o = "raise"
    BY <2>2 DEF EndSend, SendFails
  <2>3. CASE o = "cancel"
    BY <2>3 DEF EndSend, SendCancelled
  <2> QED BY <1>3, <2>1, <2>2, <2>3
<1>5. CalleesInv' /\ HandlersInv'
  <2>1. \E x \in {"over", "stranded", "leaked", "responding"} : st' = [st EXCEPT ![m] = x]
    BY <1>4
  <2> QED BY <1>1, <2>1, HandlersEndSend DEF LedgerInv
<1>6. CASE st' = [st EXCEPT ![m] = "over"] /\ TaskDone
  <2>1. "over" \notin Owed \cup {"dropped", "leaked", "stranded"}
    BY DEF Owed
  <2>2. Counted' = Counted \ {m}
    BY <1>6, <2>1, CountedMove
  <2> QED BY <1>1, <1>2, <1>5, <1>6, <2>2, CountDone DEF LedgerInv
<1>7. CASE UNCHANGED queueVars /\ \E x \in {"stranded", "leaked"} : st' = [st EXCEPT ![m] = x]
  <2>1. PICK x \in {"stranded", "leaked"} : st' = [st EXCEPT ![m] = x]
    BY <1>7
  <2>2. Counted' = Counted \cup {m}
    BY <2>1, CountedMove
  <2>3. Counted' = Counted
    BY <1>2, <2>2
  <2> QED BY <1>1, <1>5, <1>7, <2>3, CountSame DEF LedgerInv, queueVars
<1>8. CASE st' = [st EXCEPT ![m] = "responding"] /\ PutResponse(m)
  <2>1. "responding" \in Owed
    BY DEF Owed
  <2>2. Counted' = Counted
    BY <1>2, <1>8, <2>1, CountedMove
  <2>3. unfinished' = unfinished /\ (joinWoken' <=> joinWoken \/ (ctl = "joining" /\ unfinished = 0))
    BY <1>8 DEF PutResponse
  <2>4. SameQueue' <=> SameQueue
    BY <1>1 DEF SameQueue
  <2>5. CountInv'
    BY <2>2, <2>3, <2>4 DEF CountInv, LedgerInv
  <2>6. ctl = "joining" => unfinished # 0
    BY <1>2, CountedFinite DEF LedgerInv, CountInv, SameQueue
  <2>7. IdleInv'
    BY <1>1, <2>2, <2>3, <2>6 DEF IdleInv, LedgerInv
  <2> QED BY <1>5, <2>5, <2>7 DEF LedgerInv
<1> QED BY <1>4, <1>6, <1>7, <1>8

\* What shutting the queue down does to the handlers: nothing.
LEMMA ShutHandlers ==
  ASSUME WaitInv, LedgerInv, ShutNow, UNCHANGED <<h, from, gather>>
  PROVE  CalleesInv' /\ HandlersInv'
<1>1. \A m \in Msg : st'[m] = IF m \in Queued THEN "discarded" ELSE st[m]
  BY DEF ShutNow
<1>2. \A m \in Queued : st[m] \in {"queued", "responding"}
  BY ItemsTyped DEF Queued, WaitInv, Tracked
<1>3. /\ \A m \in Msg : st'[m] = "new" => st[m] = "new"
      /\ \A m \in Msg : gather'[m] = gather[m]
      /\ \A m \in Msg : st'[m] # st[m] => st[m] # "handling"
  BY <1>1, <1>2
<1> QED BY <1>3, HandlersSame DEF LedgerInv, WaitInv

LEMMA RaisesLedger == ASSUME WaitInv, LedgerInv, LoopRaises PROVE LedgerInv'
<1>1. ShutNow /\ UNCHANGED <<fut, from, h, gather, ctl, mode, starts>>
  BY DEF LoopRaises
<1>2. CalleesInv' /\ HandlersInv'
  BY <1>1, ShutHandlers
<1>3. SameQueue' <=> SameQueue
  BY <1>1 DEF SameQueue
<1>4. SameQueue => /\ Counted' = Counted \ Queued
                   /\ unfinished' = Cardinality(Counted')
                   /\ unfinished' = 0 <=> Counted' = {}
  BY <1>1, CountShut DEF LedgerInv
<1>5. CountInv'
  BY <1>3, <1>4 DEF CountInv
<1>6. joinWoken' => joinWoken \/ (ctl = "joining" /\ unfinished' = 0)
  BY <1>1 DEF ShutNow
<1>7. ctl # "down" => SameQueue
  BY DEF SameQueue
<1>8. IdleInv'
  BY <1>1, <1>4, <1>6, <1>7 DEF IdleInv, LedgerInv
<1> QED BY <1>2, <1>5, <1>8 DEF LedgerInv

\* RunContext.stop(): an idle one was decided when nothing was under way
LEMMA HaltLedger ==
  ASSUME WaitInv, LedgerInv, NEW how \in Stops, HaltLoop(how), ctl \in {"up", "joining"},
         Quiet /\ EventsReturn /\ how = "idle" => Counted = {}
  PROVE  LedgerInv'
<1>1. ShutNow /\ UNCHANGED <<fut, from, h, gather, starts>> /\ ctl' = "awaiting" /\ mode' = how
  BY DEF HaltLoop
<1>2. CalleesInv' /\ HandlersInv'
  BY <1>1, ShutHandlers
<1>3. /\ Counted' = Counted \ Queued
      /\ unfinished' = Cardinality(Counted')
  BY <1>1, CountShut DEF LedgerInv, SameQueue
<1>4. CountInv'
  BY <1>3 DEF CountInv
<1>5. IdleInv'
  BY <1>1, <1>3 DEF IdleInv, LedgerInv
<1> QED BY <1>2, <1>4, <1>5 DEF LedgerInv

(* The last step of a stop: the queue is replaced by an empty one.         *)
LEMMA ReturnsLedger == ASSUME WaitInv, LedgerInv, StopReturns PROVE LedgerInv'
<1>1. ctl = "awaiting" /\ UNCHANGED <<st, from, h, gather, mode, starts>> /\ joinWoken' = FALSE
  BY DEF StopReturns, msgVars
<1>2. Counted' = Counted
  BY <1>1 DEF Counted, Forgotten
<1>3. CalleesInv' /\ HandlersInv'
  BY <1>1 DEF LedgerInv, CalleesInv, HandlersInv, Callees, Recipients
<1>4. starts # 0 /\ mode \in Stops /\ unfinished = Cardinality(Counted)
  BY <1>1 DEF LedgerInv, IdleInv, CountInv, SameQueue
<1>5. CASE ctl' = "up" /\ UNCHANGED unfinished
  <2>1. CountInv' /\ IdleInv'
    BY <1>1, <1>2, <1>4, <1>5 DEF CountInv, IdleInv
  <2> QED BY <1>3, <2>1 DEF LedgerInv
<1>6. CASE ctl' = "down" /\ unfinished' = 0
  <2>1. SameQueue' => CleanStops
    BY <1>1, <1>4, <1>6 DEF SameQueue
  <2>2. CleanStops => Counted = {}
    BY <1>1, <1>4 DEF CleanStops, LedgerInv, IdleInv
  <2>3. CountInv' /\ IdleInv'
    BY <1>1, <1>2, <1>4, <1>6, <2>1, <2>2, FS_EmptySet DEF CountInv, IdleInv
  <2> QED BY <1>3, <2>3 DEF LedgerInv
<1> QED BY <1>5, <1>6 DEF StopReturns

(* Every step keeps the ledger, if the runtime is started once or its      *)
(* stops are clean.                                                        *)
LEMMA LedgerStep ==
  ASSUME MaxStarts <= 1 \/ CleanStops, WaitInv, LedgerInv, [Next]_vars
  PROVE  LedgerInv'
<1> USE MessageAssumption, BehaviourAssumption
<1>0. ASSUME UNCHANGED <<st, h, from, gather, unfinished, joinWoken, ctl, mode, starts>>
      PROVE  LedgerInv'
  <2>1. Counted' = Counted
    BY <1>0 DEF Counted, Forgotten
  <2>2. CountInv' /\ IdleInv'
    BY <1>0, <2>1, CountSame DEF LedgerInv
  <2>3. CalleesInv' /\ HandlersInv'
    BY <1>0 DEF LedgerInv, CalleesInv, HandlersInv, Callees, Recipients
  <2> QED BY <2>2, <2>3 DEF LedgerInv
<1>1. ASSUME NEW m \in Msg, NEW p \in Msg \cup {NoMsg}, NEW a \in Agent \cup {NoAgent}, Post(m, p, a)
      PROVE  LedgerInv'
  BY <1>1, PostLedger
<1>2. ASSUME NEW m \in Msg, NEW p \in Msg \cup {NoMsg}, NEW a \in Agent \cup {NoAgent}, PostRefused(m, p, a)
      PROVE  LedgerInv'
  <2>1. /\ st[m] = "new" /\ st' = [st EXCEPT ![m] = "refused"]
        /\ UNCHANGED <<unfinished, joinWoken, ctl, mode, starts, h, from, gather>>
    BY <1>2 DEF PostRefused, Calling, queueVars, runVars
  <2>2. m \notin Counted /\ "refused" \notin Owed \cup {"dropped", "leaked", "stranded"}
    BY <2>1 DEF Counted, Forgotten, Owed
  <2> QED BY <2>1, <2>2, KeptLedger
<1>3. ASSUME NEW m \in Msg, CancelToken(m) PROVE LedgerInv'
  BY <1>0, <1>3 DEF CancelToken, queueVars, runVars
<1>4. ASSUME NEW m \in Msg, StartSend(m) \/ StartPublish(m) PROVE LedgerInv'
  <2>1. /\ st[m] = "started" /\ st' = [st EXCEPT ![m] = "handling"]
        /\ h' = [h EXCEPT ![m] = [a \in Agent |-> IF a \in Callees(m) THEN "running" ELSE "none"]]
        /\ UNCHANGED <<unfinished, joinWoken, ctl, mode, starts, from>>
    BY <1>4 DEF StartSend, StartPublish, Callees, queueVars, runVars
  <2>2. m \in Counted /\ "handling" \in Owed
    BY <2>1 DEF Counted, Owed
  <2>3. Counted' = Counted
    <3>1. Counted' = Counted \cup {m}
      BY <2>1, <2>2, CountedMove DEF WaitInv
    <3> QED BY <2>2, <3>1
  <2>4. CountInv' /\ IdleInv'
    BY <2>1, <2>3, CountSame DEF LedgerInv
  <2>5. CASE StartSend(m)
    <3>1. KindOf[m] = "send" /\ UNCHANGED gather
      BY <2>5 DEF StartSend
    <3>2. gather[m] = "none"
      BY <3>1 DEF WaitInv, Tracked, FutureTracked
    <3> QED BY <2>1, <2>4, <3>1, <3>2, HandlersStart DEF WaitInv, LedgerInv
  <2>6. CASE StartPublish(m)
    <3>1. gather' = [gather EXCEPT ![m] = IF Callees(m) = {} THEN "ok" ELSE "open"]
      BY <2>6 DEF StartPublish, Callees
    <3>2. /\ gather'[m] = IF Callees(m) = {} THEN "ok" ELSE "open"
          /\ \A n \in Msg \ {m} : gather'[n] = gather[n]
      BY <3>1 DEF WaitInv, Shapes
    <3> QED BY <2>1, <2>4, <3>2, HandlersStart DEF WaitInv, LedgerInv
  <2> QED BY <1>4, <2>5, <2>6
<1>5. ASSUME NEW m \in Msg, SendFactoryFails(m) PROVE LedgerInv'
  <2>1. /\ st[m] = "started" /\ SendFails(m)
        /\ UNCHANGED <<from, h, gather, ctl, mode, starts>>
    BY <1>5 DEF SendFactoryFails, runVars
  <2>2. m \in Counted /\ "started" \in Owed
    BY <2>1 DEF Counted, Owed
  <2>3. CASE st' = [st EXCEPT ![m] = "leaked"] /\ UNCHANGED queueVars
    BY <2>1, <2>2, <2>3, KeptLedger DEF queueVars
  <2>4. CASE st' = [st EXCEPT ![m] = "over"] /\ TaskDone
    <3>1. st[m] \in Owed /\ st[m] # "handling"
      BY <2>1 DEF Owed
    <3> QED BY <2>1, <3>1, <2>4, DoneLedger
  <2> QED BY <2>1, <2>3, <2>4 DEF SendFails
<1>7. ASSUME NEW m \in Msg, PublishFactoryFails(m) PROVE LedgerInv'
  <2>1. /\ st[m] = "started" /\ st' = [st EXCEPT ![m] = "handling"]
        /\ "raise" \in Outcomes["publish"]
        /\ UNCHANGED <<unfinished, joinWoken, ctl, mode, starts, from, h>>
    BY <1>7 DEF PublishFactoryFails, queueVars, runVars
  <2>2. m \in Counted /\ "handling" \in Owed
    BY <2>1 DEF Counted, Owed
  <2>3. Counted' = Counted
    <3>1. Counted' = Counted \cup {m}
      BY <2>1, <2>2, CountedMove DEF WaitInv
    <3> QED BY <2>2, <3>1
  <2>4. CountInv' /\ IdleInv'
    BY <2>1, <2>3, CountSame DEF LedgerInv
  <2>5. ~EventsReturn
    BY <2>1 DEF EventsReturn
  <2>6. st'[m] = "handling" /\ \A n \in Msg \ {m} : st'[n] = st[n]
    BY <2>1 DEF WaitInv, Shapes
  <2>7. CalleesInv' /\ HandlersInv'
    BY <2>1, <2>5, <2>6 DEF LedgerInv, CalleesInv, HandlersInv, Callees, Recipients
  <2> QED BY <2>4, <2>7 DEF LedgerInv
<1>8. ASSUME NEW m \in Msg, EndPublish(m) PROVE LedgerInv'
  <2>1. /\ st[m] = "handling" /\ gather[m] \in {"ok", "error"} /\ st' = [st EXCEPT ![m] = "over"] /\ TaskDone
        /\ UNCHANGED <<h, from, gather, ctl, mode, starts>>
    BY <1>8 DEF EndPublish
  <2>2. st[m] \in Owed /\ (EventsReturn => \A a \in Agent : h[m][a] \in {"none", "done"})
    BY <2>1 DEF LedgerInv, HandlersInv, Owed
  <2> QED BY <2>1, <2>2, DoneLedger
<1>9. ASSUME NEW m \in Msg, Acknowledge(m) PROVE LedgerInv'
  <2>1. /\ st[m] = "acking" /\ st' = [st EXCEPT ![m] = "over"] /\ TaskDone
        /\ UNCHANGED <<h, from, gather, ctl, mode, starts>>
    BY <1>9 DEF Acknowledge, runVars
  <2>2. st[m] \in Owed
    BY <2>1 DEF Owed
  <2> QED BY <2>1, <2>2, DoneLedger
<1>10. ASSUME NEW m \in Msg, NEW a \in Agent, HandlerResume(m, a) PROVE LedgerInv'
  <2>1. /\ h[m][a] \in Msg /\ h' = [h EXCEPT ![m][a] = "running"]
        /\ UNCHANGED <<st, from, gather, unfinished, joinWoken, ctl, mode, starts>>
    BY <1>10 DEF HandlerResume, queueVars, runVars
  <2>2. Counted' = Counted
    BY <2>1 DEF Counted, Forgotten
  <2>3. CountInv' /\ IdleInv'
    BY <2>1, <2>2, CountSame DEF LedgerInv
  <2>4. CalleesInv' /\ HandlersInv'
    BY <2>1, HandlersGoOn DEF WaitInv, LedgerInv
  <2> QED BY <2>3, <2>4 DEF LedgerInv
<1>11. ASSUME NEW m \in Msg, NEW a \in Agent, NEW o \in Outcomes[KindOf[m]], EndSend(m, a, o) PROVE LedgerInv'
  BY <1>11, EndSendLedger
<1>12. ASSUME NEW m \in Msg, NEW a \in Agent, NEW o \in Outcomes[KindOf[m]], EndHandler(m, a, o) PROVE LedgerInv'
  <2>1. UNCHANGED <<st, unfinished, joinWoken, ctl, mode, starts>>
    BY <1>12 DEF EndHandler, queueVars, runVars
  <2>2. Counted' = Counted
    BY <2>1 DEF Counted, Forgotten
  <2>3. CountInv' /\ IdleInv'
    BY <2>1, <2>2, CountSame DEF LedgerInv
  <2> QED BY <1>12, <2>3, HandlersEndPublish DEF WaitInv, LedgerInv
<1>13. ASSUME LoopReturns PROVE LedgerInv'
  BY <1>0, <1>13 DEF LoopReturns, queueVars, msgVars
<1>14. ASSUME LoopRaises PROVE LedgerInv'
  BY <1>14, RaisesLedger
<1>15. ASSUME LoopTakes PROVE LedgerInv'
  <2>1. items # <<>> /\ UNCHANGED <<unfinished, joinWoken, ctl, mode, starts, h, from, gather>>
    BY <1>15 DEF LoopTakes, Take
  <2>2. PICK x \in {"started", "acking", "taken"} : st' = [st EXCEPT ![Head(items)[1]] = x]
    BY <1>15 DEF LoopTakes, Take, Dispatch
  <2>3. Head(items)[1] \in Msg /\ st[Head(items)[1]] \in {"queued", "responding"}
    BY <2>1, HeadTracked DEF WaitInv, Tracked
  <2>4. Head(items)[1] \in Counted /\ x \in Owed
    BY <2>3 DEF Counted, Owed
  <2> QED BY <2>1, <2>2, <2>3, <2>4, KeptLedger
<1>16. ASSUME LoopWaits PROVE LedgerInv'
  BY <1>0, <1>16 DEF LoopWaits, queueVars, msgVars
<1>17. ASSUME LoopShutDown PROVE LedgerInv'
  BY <1>0, <1>17 DEF LoopShutDown, queueVars, msgVars
<1>18. ASSUME NEW v \in Verdicts, LoopIntercepted(v) PROVE LedgerInv'
  <2>1. loop = "intercept" /\ UNCHANGED <<unfinished, joinWoken, ctl, mode, starts, h, from, gather>>
    BY <1>18 DEF LoopIntercepted, queueVars
  <2>2. PICK x \in {"started", "acking", "dropped"} : st' = [st EXCEPT ![taken[1]] = x]
    BY <1>18 DEF LoopIntercepted, Dispatch
  <2>3. taken[1] \in Msg /\ st[taken[1]] = "taken"
    BY <2>1 DEF WaitInv, Tracked, TakenTracked, Shapes
  <2>4. taken[1] \in Counted /\ x \in Owed \cup {"dropped", "leaked", "stranded"}
    BY <2>3 DEF Counted, Owed
  <2> QED BY <2>1, <2>2, <2>3, <2>4, KeptLedger
<1>19. ASSUME Start PROVE LedgerInv'
  <2>1. /\ ctl = "down" /\ starts < MaxStarts /\ starts' = starts + 1 /\ ctl' = "up"
        /\ UNCHANGED <<st, h, from, gather, unfinished>>
    BY <1>19 DEF Start, queueVars, msgVars
  <2>2. Counted' = Counted
    BY <2>1 DEF Counted, Forgotten
  <2>3. SameQueue
    BY <2>1 DEF SameQueue, WaitInv, Shapes
  <2>4. CountInv'
    BY <2>1, <2>2, <2>3 DEF CountInv, LedgerInv
  <2>5. IdleInv'
    BY <2>1 DEF IdleInv, WaitInv, Shapes
  <2>6. CalleesInv' /\ HandlersInv'
    BY <2>1 DEF LedgerInv, CalleesInv, HandlersInv, Callees, Recipients
  <2> QED BY <2>4, <2>5, <2>6 DEF LedgerInv
<1>20. ASSUME NEW how \in {"stop", "when"}, Stop(how) PROVE LedgerInv'
  BY <1>20, HaltLedger DEF Stop
<1>21. ASSUME StopWhenIdle PROVE LedgerInv'
  <2>1. /\ ctl = "up" /\ ctl' = "joining" /\ joinWoken' = FALSE
        /\ UNCHANGED <<st, h, from, gather, unfinished, starts>>
    BY <1>21 DEF StopWhenIdle, msgVars
  <2>2. Counted' = Counted
    BY <2>1 DEF Counted, Forgotten
  <2>3. CountInv' /\ IdleInv'
    BY <2>1, <2>2 DEF CountInv, SameQueue, IdleInv, LedgerInv
  <2>4. CalleesInv' /\ HandlersInv'
    BY <2>1 DEF LedgerInv, CalleesInv, HandlersInv, Callees, Recipients
  <2> QED BY <2>3, <2>4 DEF LedgerInv
<1>22. ASSUME StopWhenIdleAtOnce PROVE LedgerInv'
  <2>1. ctl = "up" /\ "idle" \in Stops /\ unfinished = 0 /\ HaltLoop("idle")
    BY <1>22 DEF StopWhenIdleAtOnce
  <2>2. Counted = {}
    BY <2>1, CountedFinite DEF LedgerInv, CountInv, SameQueue
  <2> QED BY <2>1, <2>2, HaltLedger
<1>23. ASSUME JoinReturns PROVE LedgerInv'
  <2>1. ctl = "joining" /\ joinWoken /\ HaltLoop("idle")
    BY <1>23 DEF JoinReturns
  <2>2. "idle" \in Stops /\ (Quiet /\ EventsReturn => Counted = {})
    BY <2>1 DEF LedgerInv, IdleInv, WaitInv, Tracked, JoinIsIdle
  <2> QED BY <2>1, <2>2, HaltLedger
<1>24. ASSUME StopReturns PROVE LedgerInv'
  BY <1>24, ReturnsLedger
<1>25. ASSUME UNCHANGED vars PROVE LedgerInv'
  BY <1>0, <1>25 DEF vars, queueVars, msgVars, runVars
<1> QED BY <1>1, <1>2, <1>3, <1>4, <1>5, <1>7, <1>8, <1>9, <1>10, <1>11, <1>12, <1>13, <1>14, <1>15,
          <1>16, <1>17, <1>18, <1>19, <1>20, <1>21, <1>22, <1>23, <1>24, <1>25
          DEF Next, TaskStep, HandlerStep, LoopStep, StopStep

LEMMA InitLedger == Init => LedgerInv
<1> SUFFICES ASSUME Init PROVE LedgerInv
  OBVIOUS
<1>1. Counted = {}
  BY DEF Init, Counted, Forgotten, Owed
<1>2. CountInv
  BY <1>1, FS_EmptySet DEF CountInv, Init
<1>3. IdleInv /\ CalleesInv /\ HandlersInv
  BY DEF Init, IdleInv, CalleesInv, HandlersInv
<1> QED BY <1>2, <1>3 DEF LedgerInv

LEMMA LedgerInvariant == ASSUME MaxStarts <= 1 \/ CleanStops PROVE Spec => []LedgerInv
<1>1. WaitInv /\ LedgerInv /\ [Next]_vars => LedgerInv'
  BY LedgerStep
<1> QED BY InitLedger, WaitInvariant, <1>1, PTL DEF Spec

(* For any messages, agents, handlers and interventions, and any mixture   *)
(* of stops of a runtime that is started once (of one started again and    *)
(* again, if its stops are clean): the count that stop_when_idle() waits   *)
(* for is the number of messages under way plus those dropped, leaked or   *)
(* stranded.                                                               *)
THEOREM LedgerBalances == ASSUME MaxStarts <= 1 \/ CleanStops PROVE Spec => []UnfinishedLedger
<1>1. LedgerInv => UnfinishedLedger
  BY DEF LedgerInv, CountInv, SameQueue, UnfinishedLedger, Counted
<1> QED BY LedgerInvariant, <1>1, PTL

\* Only the two ways out of stop_when_idle() decide an idle stop.
LEMMA IdleStopper ==
  ASSUME [Next]_vars, ctl # "awaiting", ctl' = "awaiting", mode' = "idle"
  PROVE  StopWhenIdleAtOnce \/ JoinReturns
<1>1. ctl' # ctl
  OBVIOUS
<1>2. ASSUME NEW m \in Msg, NEW p \in Msg \cup {NoMsg}, NEW a \in Agent \cup {NoAgent},
             Post(m, p, a) \/ PostRefused(m, p, a)
      PROVE  FALSE
  BY <1>1, <1>2 DEF Post, PostRefused, runVars
<1>3. ASSUME NEW m \in Msg, CancelToken(m) \/ TaskStep(m) PROVE FALSE
  BY <1>1, <1>3 DEF CancelToken, TaskStep, StartSend, SendFactoryFails, StartPublish, PublishFactoryFails,
                    EndPublish, Acknowledge, runVars
<1>4. ASSUME NEW m \in Msg, NEW a \in Agent, HandlerStep(m, a) PROVE FALSE
  BY <1>1, <1>4 DEF HandlerStep, HandlerResume, EndSend, EndHandler, runVars
<1>5. ASSUME LoopStep PROVE FALSE
  BY <1>1, <1>5 DEF LoopStep, LoopReturns, LoopRaises, LoopTakes, Take, LoopWaits, LoopShutDown, LoopIntercepted
<1>6. ~Start /\ ~StopWhenIdle /\ ~StopReturns /\ ~UNCHANGED vars
  BY <1>1 DEF Start, StopWhenIdle, StopReturns, vars, runVars
<1>7. ASSUME NEW how \in {"stop", "when"}, Stop(how) PROVE FALSE
  BY <1>7 DEF Stop, HaltLoop
<1> QED BY <1>2, <1>3, <1>4, <1>5, <1>6, <1>7 DEF Next, StopStep

(* If clients are quiet while a stop is under way and events are handled   *)
(* without an exception, then stop_when_idle() decides to stop only when   *)
(* no message is queued or being processed and no handler is running.      *)
THEOREM IdleStopCutsNothing ==
  ASSUME Quiet, EventsReturn, MaxStarts <= 1 \/ Stops \subseteq {"idle"}
  PROVE  Spec => IdleStopIsIdle
<1>1. MaxStarts <= 1 \/ CleanStops
  BY DEF CleanStops
<1>2. LedgerInv /\ Counted = {} => Idle
  BY MessageAssumption DEF LedgerInv, HandlersInv, Idle, Counted, Owed
<1>3. ASSUME WaitInv, LedgerInv, [Next]_vars, ctl # "awaiting", ctl' = "awaiting", mode' = "idle"
      PROVE  Idle
  <2>1. StopWhenIdleAtOnce \/ JoinReturns
    BY <1>3, IdleStopper
  <2>2. CASE StopWhenIdleAtOnce
    <3>1. Counted = {}
      BY <1>3, <2>2, CountedFinite DEF StopWhenIdleAtOnce, LedgerInv, CountInv, SameQueue
    <3> QED BY <1>2, <1>3, <3>1
  <2>3. CASE JoinReturns
    <3>1. Counted = {}
      BY <1>3, <2>3 DEF JoinReturns, LedgerInv, IdleInv
    <3> QED BY <1>2, <1>3, <3>1
  <2> QED BY <2>1, <2>2, <2>3
<1>4. WaitInv /\ LedgerInv /\ [Next]_vars => [(ctl # "awaiting" /\ ctl' = "awaiting" /\ mode' = "idle") => Idle]_vars
  BY <1>3
<1> QED BY <1>1, <1>4, WaitInvariant, LedgerInvariant, PTL DEF Spec, IdleStopIsIdle
=============================================================================
