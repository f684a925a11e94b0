-------------------------- MODULE StudioRunsProofs --------------------------
(***************************************************************************)
(* The token of a Studio run is that of a live stream, every stream that   *)
(* had no other beside it can be stopped, and until two starts or a start  *)
(* and a stop cross, no run is shown as active without a stream: for any   *)
(* number of sockets, of starts and of teams that ask the user.            *)
(***************************************************************************)
EXTENDS StudioRuns, TLAPS

Hubs == [status : {"created", "active", "stopped", "complete", "error"},
         conn : Sockets \cup {Nothing}, closed : BOOLEAN, token : Streams \cup {Nothing},
         cancelled : SUBSET Streams, inputs : Sockets \cup {Nothing}, up : BOOLEAN]

StreamStates == {"none", "created", "running", "message", "result", "ended",
                 "stopping", "failing", "hung", "over"}
SockStates == {"new", "accepting", "greeting", "open", "stopping", "leaving", "gone"}

Types ==
    /\ hub \in Hubs
    /\ sock \in [Sockets -> SockStates]
    /\ stream \in [Streams -> StreamStates]
    /\ crossed \in SUBSET Streams

\* streams that live together have crossed
Together == \A j, k \in Streams : (Live(j) /\ Live(k) /\ j # k) => j \in crossed

\* only the tokens of live streams are cancelled
CancelledIsLive == \A k \in hub.cancelled : Live(k)

\* a run that is shown as active is connected, and can be stopped
ActiveIsStoppable ==
    (crossed = {} /\ hub.status = "active") =>
        hub.up /\ ~hub.closed /\ hub.token # Nothing /\ hub.token \notin hub.cancelled

\* between the two halves of a stop nothing makes the run active again
StopIsFinal ==
    crossed = {} => \A s \in Sockets : sock[s] = "stopping" => hub.status # "active"

StudioInv ==
    /\ Types
    /\ Together
    /\ CancelledIsLive
    /\ StopReaches
    /\ ActiveIsStoppable
    /\ StopIsFinal
-----------------------------------------------------------------------------
(* What the manager does to its entries.                                   *)

\* the tokens of h once a disconnect has cancelled the one of the dictionary
CancelledAfter(h) == h.cancelled \cup ({h.token} \ {Nothing})

\* h is not shown as active, unless starts have crossed
Inactive(h) == crossed = {} => h.status # "active"

\* a run that is shown as active has its token in the dictionary
Stoppable(h) == h.token = Nothing => Inactive(h)

\* g is h after a disconnect
Gone(h, g) ==
    /\ g \in Hubs
    /\ g.token = Nothing
    /\ g.cancelled = CancelledAfter(h)
    /\ Inactive(g)

(* disconnect() cancels the token of the run, forgets it and leaves no run *)
(* shown as active.                                                        *)
LEMMA DisconnectFacts ==
    ASSUME NEW h \in Hubs, Stoppable(h)
    PROVE  Gone(h, Disconnected(h))
BY DEF Hubs, Stoppable, Gone, Disconnected, CancelledAfter, Inactive

(* A send leaves the manager alone or ends with a disconnect.              *)
LEMMA SendFacts ==
    ASSUME StudioInv, NEW t, NEW h \in AfterSend(t)
    PROVE  h \in Hubs /\ (h = hub \/ Gone(hub, h))
<1>1. hub \in Hubs /\ Stoppable(hub)
    BY DEF StudioInv, Types, ActiveIsStoppable, Stoppable, Inactive
<1>2. CASE h = hub
    BY <1>1, <1>2
<1>3. CASE h = Disconnected(hub)
    BY <1>1, <1>3, DisconnectFacts DEF Gone
<1>4. CASE h = Disconnected([hub EXCEPT !.status = "error"])
    <2> DEFINE g == [hub EXCEPT !.status = "error"]
    <2>1. g \in Hubs /\ Stoppable(g) /\ CancelledAfter(g) = CancelledAfter(hub)
        BY <1>1 DEF Hubs, Stoppable, CancelledAfter, Inactive
    <2>2. Gone(g, Disconnected(g))
        BY <2>1, DisconnectFacts
    <2>3. QED
        BY <1>4, <2>1, <2>2 DEF Gone
<1>5. QED
    BY <1>2, <1>3, <1>4 DEF AfterSend

(* The manager before the server starts streaming holds nothing.           *)
LEMMA StudioInit == Init => StudioInv
<1>1. ASSUME Init PROVE StudioInv
    <2> USE <1>1
    <2>1. Types
        BY DEF Init, Types, Hubs, StreamStates, SockStates
    <2>2. Together /\ CancelledIsLive
        BY DEF Init, Together, CancelledIsLive, Live
    <2>3. StopReaches /\ ActiveIsStoppable /\ StopIsFinal
        BY DEF Init, StopReaches, ActiveIsStoppable, StopIsFinal, Live
    <2>4. QED
        BY <2>1, <2>2, <2>3 DEF StudioInv
<1>2. QED
    BY <1>1
-----------------------------------------------------------------------------
(* The steps fall into three kinds: those that leave the live streams as   *)
(* they are, those that end one, and those that begin one.                 *)

\* g is what h may become while its stream goes on: the token is cancelled
\* before it is forgotten, and nothing is shown as active anew
Eases(h, g) ==
    /\ g \in Hubs
    /\ h.cancelled \subseteq g.cancelled /\ g.cancelled \subseteq CancelledAfter(h)
    /\ g.token = h.token \/ (g.token = Nothing /\ h.token \in g.cancelled)
    /\ (crossed = {} /\ g.status = "active") =>
           h.status = "active" /\ g.up /\ ~g.closed /\ g.cancelled = h.cancelled
           /\ g.token = h.token

\* no socket begins to stop the run
NoStop == \A s \in Sockets : sock'[s] = "stopping" => sock[s] = "stopping"

SameLife == \A k \in Streams : Live(k)' <=> Live(k)

(* A step under which the streams go on keeps the invariant when all it    *)
(* does to the manager is to ease it.                                      *)
LEMMA GoesOn ==
    ASSUME StudioInv, Types', SameLife, Eases(hub, hub'), NoStop, crossed' = crossed
    PROVE  StudioInv'
<1> USE DEF StudioInv, Types
<1>1. \A k \in Streams : k # Nothing
    BY StudioAssumption DEF Streams
<1>2. Together'
    BY DEF Together, SameLife
<1>3. CancelledIsLive'
    BY <1>1 DEF CancelledIsLive, Eases, SameLife, CancelledAfter, StopReaches, Hubs
<1>4. StopReaches'
    BY DEF StopReaches, Eases, SameLife, Hubs
<1>5. ActiveIsStoppable'
    BY DEF ActiveIsStoppable, Eases
<1>6. StopIsFinal'
    BY DEF StopIsFinal, NoStop, Eases
<1>7. QED
    BY <1>2, <1>3, <1>4, <1>5, <1>6

\* g is what h becomes when stream k is over
Closes(h, g, k) ==
    /\ g \in Hubs
    /\ g.token = Nothing
    /\ g.cancelled \subseteq CancelledAfter(h) \ {k}
    /\ Inactive(g)

(* The end of a stream keeps the invariant when the token is popped and    *)
(* the run is no longer shown as active: whoever lived beside it has       *)
(* crossed it.                                                             *)
LEMMA Ends ==
    ASSUME StudioInv, Types', NEW k \in Streams, Live(k),
           stream' = [stream EXCEPT ![k] = "over"], Closes(hub, hub', k), NoStop,
           crossed' = crossed
    PROVE  StudioInv'
<1> USE DEF StudioInv, Types
<1>1. ~Live(k)' /\ \A j \in Streams : j # k => (Live(j)' <=> Live(j))
    BY DEF Live
<1>2. Together'
    BY <1>1 DEF Together
<1>3. CancelledIsLive'
    BY <1>1 DEF CancelledIsLive, Closes, CancelledAfter, StopReaches, Hubs
<1>4. StopReaches'
    BY <1>1 DEF StopReaches, Closes, Together
<1>5. ActiveIsStoppable' /\ StopIsFinal'
    BY DEF ActiveIsStoppable, StopIsFinal, Closes, Inactive
<1>6. QED
    BY <1>2, <1>3, <1>4, <1>5

(* begin: a stream whose run is connected makes it active; if another      *)
(* stream lives or a stop is under way, the two have crossed.              *)
LEMMA Begins ==
    ASSUME StudioInv, hub.up, NEW k \in Streams, Begin(k)
    PROVE  StudioInv'
<1> USE DEF StudioInv, Types
<1>1. k # Nothing /\ stream[k] = "created" /\ sock' = sock
    BY StudioAssumption DEF Streams, Begin
<1>2. CASE hub.conn = Nothing \/ hub.closed
    <2>1. stream' = [stream EXCEPT ![k] = "over"] /\ hub' = hub /\ crossed' = crossed
        BY <1>2 DEF Begin, StreamIs
    <2>2. Types' /\ NoStop /\ SameLife
        BY <1>1, <2>1 DEF NoStop, StreamStates, SameLife, Live
    <2>3. Eases(hub, hub')
        BY <2>1 DEF Eases, CancelledAfter, ActiveIsStoppable
    <2>4. QED
        BY <2>1, <2>2, <2>3, GoesOn
<1>3. CASE ~(hub.conn = Nothing \/ hub.closed)
    <2> DEFINE others == {j \in Streams : Live(j)}
               apart == others = {} /\ \A s \in Sockets : sock[s] # "stopping"
    <2>1. /\ stream' = [stream EXCEPT ![k] = "running"]
          /\ hub' = [hub EXCEPT !.token = k, !.status = "active"]
          /\ crossed' = IF apart THEN crossed ELSE crossed \cup others \cup {k}
        BY <1>3 DEF Begin, StreamIs
    <2>2. /\ hub' \in Hubs /\ hub'.token = k /\ hub'.cancelled = hub.cancelled
          /\ ~hub'.closed /\ hub'.up
        BY <1>3, <2>1 DEF Hubs
    <2>3. Types'
        BY <1>1, <2>1, <2>2 DEF StreamStates
    <2>4. ~Live(k) /\ Live(k)' /\ \A j \in Streams : j # k => (Live(j)' <=> Live(j))
        BY <1>1, <2>1 DEF Live
    <2>5. crossed \subseteq crossed' /\ \A j \in Streams : Live(j) => j \in crossed' /\ k \in crossed'
        BY <2>1
    <2>6. Together'
        BY <2>4, <2>5 DEF Together
    <2>7. CancelledIsLive'
        BY <2>2, <2>4 DEF CancelledIsLive, Hubs
    <2>8. StopReaches'
        BY <2>2, <2>4, <2>5 DEF StopReaches
    <2>9. crossed' = {} => apart
        BY <2>1
    <2>10. ActiveIsStoppable' /\ StopIsFinal'
        BY <1>1, <2>2, <2>4, <2>9 DEF ActiveIsStoppable, StopIsFinal, CancelledIsLive
    <2>11. QED
        BY <2>3, <2>6, <2>7, <2>8, <2>10
<1>4. QED
    BY <1>2, <1>3

(* start: a task is created, whatever streams.                             *)
LEMMA Starts ==
    ASSUME StudioInv, NEW s \in Sockets, NEW k \in Streams, ReceiveStart(s, k)
    PROVE  StudioInv'
<1> USE DEF StudioInv, Types
<1>1. /\ stream' = [stream EXCEPT ![k] = "created"] /\ stream[k] = "none"
      /\ hub' = hub /\ sock' = sock /\ crossed' = crossed
    BY DEF ReceiveStart
<1>2. Types' /\ NoStop /\ SameLife
    BY <1>1 DEF StreamStates, NoStop, SameLife, Live
<1>3. Eases(hub, hub')
    BY <1>1 DEF Eases, CancelledAfter, ActiveIsStoppable
<1>4. QED
    BY <1>1, <1>2, <1>3, GoesOn

(* To leave the manager alone and to disconnect are ways of easing it.     *)
LEMMA EasingFacts ==
    ASSUME StudioInv
    PROVE  /\ Stoppable(hub)
           /\ Eases(hub, hub)
           /\ \A g : Gone(hub, g) => Eases(hub, g)
BY DEF StudioInv, Types, Eases, Gone, CancelledAfter, ActiveIsStoppable, Hubs, Stoppable, Inactive

(* stop: the run is marked before the client is told.                      *)
LEMMA StopArrives ==
    ASSUME StudioInv, NEW s \in Sockets, ReceiveStop(s)
    PROVE  StudioInv'
<1> USE DEF StudioInv, Types
<1>1. stream' = stream /\ crossed' = crossed /\ SameLife
    BY DEF ReceiveStop, SameLife, Live
<1>2. CASE hub.token = Nothing
    <2>1. hub' = Disconnected(hub) /\ sock' = [sock EXCEPT ![s] = "gone"]
        BY <1>2 DEF ReceiveStop, Finally, SockIs
    <2>2. Eases(hub, hub')
        BY <2>1, EasingFacts, DisconnectFacts
    <2>3. Types' /\ NoStop
        BY <1>1, <2>1, <2>2 DEF SockStates, Eases, NoStop
    <2>4. QED
        BY <1>1, <2>2, <2>3, GoesOn
<1>3. CASE hub.token # Nothing
    <2>1. /\ hub' = [hub EXCEPT !.status = "stopped"]
          /\ sock' = [sock EXCEPT ![s] = "stopping"]
        BY <1>3 DEF ReceiveStop, SockIs
    <2>2. /\ hub' \in Hubs /\ hub'.status = "stopped" /\ hub'.token = hub.token
          /\ hub'.cancelled = hub.cancelled
        BY <2>1 DEF Hubs
    <2>3. Types'
        BY <1>1, <2>1, <2>2 DEF SockStates
    <2>4. Together' /\ StopReaches' /\ CancelledIsLive'
        BY <1>1, <2>2 DEF Together, StopReaches, CancelledIsLive, Live
    <2>5. ActiveIsStoppable' /\ StopIsFinal'
        BY <2>2 DEF ActiveIsStoppable, StopIsFinal
    <2>6. QED
        BY <2>3, <2>4, <2>5
<1>4. QED
    BY <1>2, <1>3

(* The second half of a stop finds the run marked, and cancels the token   *)
(* the dictionary holds by then.                                           *)
LEMMA StopEnds ==
    ASSUME StudioInv, NEW s \in Sockets, StopRun(s)
    PROVE  StudioInv'
<1> USE DEF StudioInv, Types
<1>1. PICK h \in AfterSend(Handler(s)) : hub' = Disconnected(CancelToken(h))
    BY DEF StopRun, Finally
<1>2. /\ sock[s] = "stopping" /\ sock' = [sock EXCEPT ![s] = "gone"]
      /\ stream' = stream /\ crossed' = crossed
    BY DEF StopRun, Finally, SockIs
<1>3. h \in Hubs /\ (h = hub \/ Gone(hub, h))
    BY SendFacts
<1>4. Inactive(hub) /\ Inactive(h)
    BY <1>2, <1>3 DEF StopIsFinal, Gone, Inactive
<1> DEFINE g == CancelToken(h)
<1>5. g \in Hubs /\ Stoppable(g) /\ CancelledAfter(g) = CancelledAfter(h)
    BY <1>3, <1>4 DEF Hubs, CancelToken, CancelledAfter, Stoppable, Inactive
<1>6. Gone(g, hub')
    BY <1>1, <1>5, DisconnectFacts
<1>7. Gone(hub, hub')
    BY <1>3, <1>5, <1>6 DEF Gone, CancelledAfter
<1>8. Eases(hub, hub')
    BY <1>7, EasingFacts
<1>9. Types' /\ NoStop /\ SameLife
    BY <1>2, <1>8 DEF SockStates, NoStop, SameLife, Live, Eases
<1>10. QED
    BY <1>2, <1>8, <1>9, GoesOn

(* What a handler does besides starting and stopping.                      *)
LEMMA SocketSteps ==
    ASSUME StudioInv, NEW s \in Sockets,
           \/ Connect(s) \/ Greeted(s) \/ ReceiveEnd(s) \/ Leave(s)
           \/ Accept(s) \/ Refuse(s) \/ ReceiveInput(s)
    PROVE  StudioInv'
<1> USE DEF StudioInv, Types
<1>0. stream' = stream /\ crossed' = crossed /\ SameLife
    BY DEF Connect, Greeted, ReceiveEnd, Leave, Accept, Refuse, ReceiveInput, SameLife, Live
<1>1. NoStop /\ sock' \in [Sockets -> SockStates]
    BY DEF Connect, Greeted, ReceiveEnd, Leave, Accept, Refuse, ReceiveInput, Finally, SockIs,
           NoStop, SockStates
<1>2. Eases(hub, hub')
    <2>1. CASE hub' = hub
        BY <2>1, EasingFacts
    <2>2. CASE Greeted(s)
        BY <2>2, SendFacts, EasingFacts DEF Greeted
    <2>3. CASE hub' = Disconnected(hub)
        BY <2>3, DisconnectFacts, EasingFacts
    <2>4. CASE hub' = [hub EXCEPT !.conn = s, !.closed = FALSE, !.inputs = s]
        BY <2>4 DEF Hubs, Eases, CancelledAfter, ActiveIsStoppable
    <2>5. QED
        BY <2>1, <2>2, <2>3, <2>4
        DEF Connect, ReceiveEnd, Leave, Accept, Refuse, ReceiveInput, Finally
<1>3. Types'
    BY <1>0, <1>1, <1>2 DEF Eases
<1>4. QED
    BY <1>0, <1>1, <1>2, <1>3, GoesOn

(* What a stream and its team do while they go on.                         *)
LEMMA StreamGoesOn ==
    ASSUME StudioInv, NEW k \in Streams,
           \/ Yielded(k) \/ AwaitInput(k) \/ TakeInput(k) \/ AskInput(k) \/ Hang(k)
           \/ \E state \in {"ended", "running"} : Break(k, state)
           \/ \E kind \in {"message", "result"} : Yield(k, kind)
           \/ Fail(k) /\ ~hub.closed
    PROVE  StudioInv'
<1> USE DEF StudioInv, Types
<1>1. NoStop /\ sock' = sock /\ crossed' = crossed
    BY DEF Yielded, AwaitInput, TakeInput, AskInput, Hang, Break, Yield, Fail, NoStop
<1>2. stream' \in [Streams -> StreamStates] /\ SameLife
    BY DEF Yielded, AwaitInput, TakeInput, AskInput, Hang, Break, Yield, Fail, StreamIs,
           StreamStates, SameLife, Live
<1>3. Eases(hub, hub')
    <2>1. CASE hub' = hub
        BY <2>1, EasingFacts
    <2>2. CASE Yielded(k)
        BY <2>2, SendFacts, EasingFacts DEF Yielded
    <2>3. CASE AwaitInput(k)
        BY <2>3, SendFacts, EasingFacts DEF AwaitInput
    <2>4. QED
        BY <2>1, <2>2, <2>3 DEF TakeInput, AskInput, Hang, Break, Yield, Fail
<1>4. Types'
    BY <1>1, <1>2, <1>3 DEF Eases
<1>5. QED
    BY <1>1, <1>2, <1>3, <1>4, GoesOn

(* The ways a stream ends.                                                 *)
LEMMA StreamEnds ==
    ASSUME StudioInv, NEW k \in Streams,
           \/ Complete(k) \/ Stopped(k) \/ Failed(k) \/ Cancelled(k)
           \/ Fail(k) /\ hub.closed
    PROVE  StudioInv'
<1> USE DEF StudioInv, Types
<1>1. NoStop /\ sock' = sock /\ crossed' = crossed
    BY DEF Complete, Stopped, Failed, Cancelled, Fail, NoStop
<1>2. Live(k) /\ stream' = [stream EXCEPT ![k] = "over"]
    BY DEF Complete, Stopped, Failed, Cancelled, Fail, StreamIs, Live
<1>3. Closes(hub, hub', k)
    <2>1. ASSUME NEW h \in Hubs, h.cancelled \subseteq CancelledAfter(hub), Inactive(h),
                 hub' = Popped(h, k)
          PROVE  Closes(hub, hub', k)
        BY <2>1 DEF Popped, Closes, Hubs, Inactive
    <2>2. ASSUME NEW h \in AfterSend(Loop(k)), NEW verdict \in {"stopped", "error"},
                 hub' = Popped([h EXCEPT !.status = verdict], k)
          PROVE  Closes(hub, hub', k)
        <3>1. h \in Hubs /\ (h = hub \/ Gone(hub, h))
            BY SendFacts
        <3> DEFINE g == [h EXCEPT !.status = verdict]
        <3>2. g \in Hubs /\ Inactive(g) /\ g.cancelled \subseteq CancelledAfter(hub)
            BY <3>1 DEF Hubs, Inactive, Gone, CancelledAfter
        <3>3. QED
            BY <2>1, <2>2, <3>2
    <2>3. CASE Stopped(k) \/ Failed(k)
        BY <2>2, <2>3 DEF Stopped, Failed
    <2>4. CASE Complete(k)
        <3> DEFINE g == [hub EXCEPT !.status = "complete"]
        <3>1. g \in Hubs /\ Inactive(g) /\ g.cancelled \subseteq CancelledAfter(hub)
            BY DEF Hubs, Inactive, CancelledAfter
        <3>2. QED
            BY <2>1, <2>4, <3>1 DEF Complete
    <2>5. CASE Cancelled(k)
        <3>1. Inactive(hub)
            BY <1>2, <2>5 DEF Cancelled, Inactive, ActiveIsStoppable, StopReaches, Together, Hubs
        <3>2. QED
            BY <2>1, <2>5, <3>1 DEF Cancelled, CancelledAfter
    <2>6. CASE Fail(k) /\ hub.closed
        BY <2>1, <2>6 DEF Fail, ActiveIsStoppable, Inactive, CancelledAfter
    <2>7. QED
        BY <2>3, <2>4, <2>5, <2>6
<1>4. Types'
    BY <1>1, <1>2, <1>3 DEF Closes, StreamStates
<1>5. QED
    BY <1>1, <1>2, <1>3, <1>4, Ends

(* A shutdown of the server cancels the token before it clears the         *)
(* dictionaries.                                                           *)
LEMMA CleanupEases ==
    ASSUME StudioInv, Cleanup
    PROVE  StudioInv'
<1> USE DEF StudioInv, Types
<1> DEFINE stopped == [CancelToken(hub) EXCEPT !.status = IF @ = "active" /\ hub.token # Nothing
                                                         THEN "stopped" ELSE @]
           left == IF hub.conn = Nothing \/ hub.closed THEN stopped ELSE Disconnected(stopped)
<1>1. /\ stopped \in Hubs /\ stopped.token = hub.token /\ Inactive(stopped)
      /\ stopped.cancelled = CancelledAfter(hub)
    BY DEF CancelToken, Hubs, ActiveIsStoppable, CancelledAfter, Inactive
<1>2. Gone(stopped, Disconnected(stopped))
    BY <1>1, DisconnectFacts DEF Stoppable
<1>3. CancelledAfter(stopped) = CancelledAfter(hub)
    BY <1>1 DEF CancelledAfter
<1>4. left \in Hubs /\ Inactive(left) /\ left.cancelled = CancelledAfter(hub)
    BY <1>1, <1>2, <1>3 DEF Gone
<1>5. hub' = [left EXCEPT !.conn = Nothing, !.closed = FALSE, !.token = Nothing,
                         !.inputs = Nothing, !.up = FALSE]
    BY DEF Cleanup
<1> HIDE DEF stopped, left
<1>6. Gone(hub, hub')
    BY <1>4, <1>5 DEF Hubs, Gone, Inactive
<1>7. Eases(hub, hub')
    BY <1>6, EasingFacts
<1>8. Types' /\ NoStop /\ SameLife /\ crossed' = crossed
    BY <1>7 DEF Cleanup, NoStop, SameLife, Live, Eases
<1>9. QED
    BY <1>7, <1>8, GoesOn
-----------------------------------------------------------------------------
(* Every step of the manager, the handlers and the streams keeps the       *)
(* invariant.                                                              *)
LEMMA StudioStep ==
    ASSUME StudioInv, [Next]_vars
    PROVE  StudioInv'
<1>1. CASE UNCHANGED vars
    BY <1>1 DEF vars, StudioInv, Types, Together, CancelledIsLive, StopReaches,
                ActiveIsStoppable, StopIsFinal, Live
<1>2. ASSUME NEW s \in Sockets, SocketStep(s) \/ ClientStep(s)
      PROVE  StudioInv'
    BY <1>2, SocketSteps, StopEnds, StopArrives, Starts DEF SocketStep, ClientStep
<1>3. ASSUME NEW k \in Streams, StreamStep(k) \/ TeamStep(k)
      PROVE  StudioInv'
    BY <1>3, Begins, StreamGoesOn, StreamEnds DEF StreamStep, TeamStep
<1>4. CASE Cleanup
    BY <1>4, CleanupEases
<1>5. QED
    BY <1>1, <1>2, <1>3, <1>4 DEF Next

(* The inductive invariant holds of every behaviour.                       *)
LEMMA StudioInvariant == Spec => []StudioInv
<1>1. StudioInv /\ [Next]_vars => StudioInv'
    BY StudioStep
<1>2. QED
    BY StudioInit, <1>1, PTL DEF Spec

(* However many streams are started, and whoever pops whose token, the     *)
(* token in the dictionary is that of a live stream, and a live stream     *)
(* that neither lived beside another nor began during a stop finds its     *)
(* token there until it is cancelled: stop_run and disconnect never look   *)
(* it up in vain.                                                          *)
THEOREM StopAlwaysReaches == Spec => []StopReaches
<1>1. StudioInv => StopReaches
    BY DEF StudioInv
<1>2. QED
    BY StudioInvariant, <1>1, PTL

(* While the row of the run says "active", the server is up and a stream   *)
(* lives that will write how it ended, whichever of the paths out of       *)
(* start_stream it takes, until two starts or a start and a stop cross.    *)
THEOREM ActiveRunIsLive == Spec => []ActiveIsLive
<1>1. StudioInv => ActiveIsLive
    BY DEF StudioInv, Types, ActiveIsStoppable, StopReaches, ActiveIsLive, Hubs
<1>2. QED
    BY StudioInvariant, <1>1, PTL
=============================================================================
