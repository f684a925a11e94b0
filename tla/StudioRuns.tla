------------------------------ MODULE StudioRuns ------------------------------
(***************************************************************************)
(* A run of AutoGen Studio: the WebSocketManager (web/managers/            *)
(* connection.py), whose dictionaries are keyed by the run, the handlers   *)
(* of the sockets opened for it (web/routes/ws.py) and the tasks of        *)
(* start_stream, each with the TeamManager's stream inside.                *)
(*                                                                         *)
(* The database is called without suspending, so that only the sends to a  *)
(* socket, the team and the client divide a coroutine into steps.  What    *)
(* the team does is taken from GroupChat: it yields, raises, or is         *)
(* cancelled by its token, and then ends once no agent is at work, or      *)
(* never if an agent does not end.  A stream that is left at a message     *)
(* leaves its team to the garbage collector, which is not modelled.        *)
(***************************************************************************)
EXTENDS Naturals

CONSTANTS
    Sockets,      \* the websockets clients open for the run, numbered
    Nothing,      \* an absent entry of a dictionary
    MaxStreams,   \* bound on the number of start messages
    Users         \* the streams whose team has a UserProxyAgent

Streams == 1..MaxStreams

ASSUME StudioAssumption ==
    /\ Sockets \subseteq Nat /\ MaxStreams \in Nat /\ Users \subseteq Streams
    /\ Nothing \notin Nat

VARIABLES
    hub,      \* the manager's entries for the run, and its row in the database
    answers,  \* answers in the input queue that each socket brought
    sock,     \* where the handler of each socket stands
    stream,   \* where each start_stream stands
    asking,   \* per stream: its input function, "no", "sending", "waiting", or
              \* "raised" when there was no queue to wait at
    asked,    \* per stream: the input queue that function took
    sending,  \* who writes to a socket inside _send_message
    crossed   \* the streams begun beside another one or during a stop, and the
              \* ones they joined

vars == <<hub, answers, sock, stream, asking, asked, sending, crossed>>

\* whoever may be inside _send_message
Senders == (Sockets \X {"socket"}) \cup (Streams \X {"stream", "input"})
Handler(s) == <<s, "socket">>
Loop(k) == <<k, "stream">>
Input(k) == <<k, "input">>

Init ==
    /\ hub = [status |-> "created", conn |-> Nothing, closed |-> FALSE, token |-> Nothing,
              cancelled |-> {}, inputs |-> Nothing, up |-> TRUE]
    /\ answers = [s \in Sockets |-> 0]
    /\ sock = [s \in Sockets |-> "new"]
    /\ stream = [k \in Streams |-> "none"]
    /\ asking = [k \in Streams |-> "no"] /\ asked = [k \in Streams |-> Nothing]
    /\ sending = {} /\ crossed = {}

Live(k) == stream[k] \notin {"none", "created", "over"}
-----------------------------------------------------------------------------
(* The manager.                                                            *)

\* mutation: the token is forgotten without being cancelled
DisconnectedUncancelled(h) ==
    [h EXCEPT !.closed = TRUE,
              !.status = IF h.token = Nothing THEN @ ELSE "stopped",
              !.conn = Nothing, !.token = Nothing, !.inputs = Nothing]

\* disconnect, with stop_run for a connection that is marked as closed
Disconnected(h) ==
    [h EXCEPT !.closed = TRUE,
              !.status = IF h.token = Nothing THEN @ ELSE "stopped",
              !.cancelled = IF h.token = Nothing THEN @ ELSE @ \cup {h.token},
              !.conn = Nothing, !.token = Nothing, !.inputs = Nothing]

\* _send_message finds the connection open, or returns at once
Send(t) == sending' = IF hub.closed \/ hub.conn = Nothing THEN sending ELSE sending \cup {t}

Sent(t) == sending' = sending \ {t}

\* what its end leaves: a send may raise, whether its client is there or has
\* gone, and then the run is disconnected, as an error unless the exception is
\* WebSocketDisconnect
AfterSend(t) ==
    {hub} \cup IF t \notin sending THEN {}
               ELSE {Disconnected(hub), Disconnected([hub EXCEPT !.status = "error"])}

\* the token is taken from the dictionary when the message has been sent
CancelToken(h) == [h EXCEPT !.cancelled = IF h.token = Nothing THEN @ ELSE @ \cup {h.token}]

\* the finally clause of start_stream pops the token of the run, whosever it is;
\* the token of stream k dies with it
Popped(h, k) == [h EXCEPT !.token = Nothing, !.cancelled = @ \ {k}]
-----------------------------------------------------------------------------
(* The handler of a socket.                                                *)

SockIs(s, state) == sock' = [sock EXCEPT ![s] = state]

\* the finally clause: the run is disconnected, whoever is connected to it
Finally(s, h) ==
    /\ hub' = Disconnected(h)
    /\ SockIs(s, "gone")

\* clients connect in the order of their numbers
Opens(s) == sock[s] = "new" /\ \A r \in Sockets : r < s => sock[r] # "new"

\* a run that is over refuses the socket, whose handler disconnects all the same
Refuse(s) ==
    /\ Opens(s) /\ hub.status \notin {"created", "active"}
    /\ SockIs(s, "leaving")
    /\ UNCHANGED <<hub, answers, stream, asking, asked, sending, crossed>>

Accept(s) ==
    /\ Opens(s) /\ hub.status \in {"created", "active"}
    /\ SockIs(s, "accepting")
    /\ UNCHANGED <<hub, answers, stream, asking, asked, sending, crossed>>

\* connect, once the socket is accepted, if it is: the input queue is a new one
Connect(s) ==
    /\ sock[s] = "accepting"
    /\ \/ /\ hub' = [hub EXCEPT !.conn = s, !.closed = FALSE, !.inputs = s]
          /\ sending' = sending \cup {Handler(s)}
          /\ SockIs(s, "greeting")
       \/ Finally(s, hub) /\ UNCHANGED sending
    /\ UNCHANGED <<answers, stream, asking, asked, crossed>>

\* a user who is not authenticated is turned away
Greeted(s) ==
    /\ sock[s] = "greeting"
    /\ hub' \in AfterSend(Handler(s))
    /\ \E next \in {"open", "leaving"} : SockIs(s, next)
    /\ Sent(Handler(s))
    /\ UNCHANGED <<answers, stream, asking, asked, crossed>>

\* every "start" creates a task of start_stream
ReceiveStart(s, k) ==
    /\ sock[s] = "open" /\ stream[k] = "none" /\ \A j \in Streams : j < k => stream[j] # "none"
    /\ stream' = [stream EXCEPT ![k] = "created"]
    /\ UNCHANGED <<hub, answers, sock, asking, asked, sending, crossed>>

\* "input_response"
ReceiveInput(s) ==
    /\ sock[s] = "open" /\ hub.inputs # Nothing /\ answers[hub.inputs] = 0
    /\ answers' = [answers EXCEPT ![hub.inputs] = 1]
    /\ UNCHANGED <<hub, sock, stream, asking, asked, sending, crossed>>

\* "stop": the run is marked as stopped, then the client is told
ReceiveStop(s) ==
    /\ sock[s] = "open"
    /\ IF hub.token = Nothing
       THEN Finally(s, hub) /\ UNCHANGED sending
       ELSE /\ SockIs(s, "stopping") /\ Send(Handler(s))
            /\ hub' = [hub EXCEPT !.status = "stopped"]
    /\ UNCHANGED <<answers, stream, asking, asked, crossed>>

\* mutation: the token is popped and not cancelled
StopRunMute(s) ==
    /\ sock[s] = "stopping"
    /\ \E h \in AfterSend(Handler(s)) : Finally(s, [h EXCEPT !.token = Nothing])
    /\ Sent(Handler(s))
    /\ UNCHANGED <<answers, stream, asking, asked, crossed>>

\* the rest of stop_run, after which the handler ends
StopRun(s) ==
    /\ sock[s] = "stopping"
    /\ \E h \in AfterSend(Handler(s)) : Finally(s, CancelToken(h))
    /\ Sent(Handler(s))
    /\ UNCHANGED <<answers, stream, asking, asked, crossed>>

\* the client has gone, or what it sent cannot be handled
ReceiveEnd(s) ==
    /\ sock[s] = "open"
    /\ Finally(s, hub)
    /\ UNCHANGED <<answers, stream, asking, asked, sending, crossed>>

\* a socket that was refused or turned away is told so
Leave(s) ==
    /\ sock[s] = "leaving"
    /\ Finally(s, hub)
    /\ UNCHANGED <<answers, stream, asking, asked, sending, crossed>>
-----------------------------------------------------------------------------
(* start_stream.                                                           *)

StreamIs(k, state) == stream' = [stream EXCEPT ![k] = state]

\* up to the first message of the team; without a connection it raises.  The
\* token of a stream that is still there is overwritten.
Begin(k) ==
    /\ stream[k] = "created"
    /\ LET others == {j \in Streams : Live(j)}
           apart == others = {} /\ \A s \in Sockets : sock[s] # "stopping"
       IN  IF hub.conn = Nothing \/ hub.closed
           THEN StreamIs(k, "over") /\ UNCHANGED <<hub, crossed>>
           ELSE /\ StreamIs(k, "running")
                /\ hub' = [hub EXCEPT !.token = k, !.status = "active"]
                /\ crossed' = IF apart THEN crossed ELSE crossed \cup others \cup {k}
    /\ UNCHANGED <<answers, sock, asking, asked, sending>>

Halted(k) == k \in hub.cancelled \/ hub.closed

\* the team yields a message, or its result when nobody is at work; what is
\* logged by then follows the result
Yield(k, kind) ==
    /\ \/ stream[k] = "running" /\ (kind = "result" => asking[k] = "no")
       \/ stream[k] = "ended" /\ kind = "result"
    /\ ~Halted(k)
    /\ StreamIs(k, kind) /\ Send(Loop(k))
    /\ UNCHANGED <<hub, answers, sock, asking, asked, crossed>>

Yielded(k) ==
    /\ stream[k] \in {"message", "result"}
    /\ hub' \in AfterSend(Loop(k))
    /\ StreamIs(k, IF stream[k] = "result" THEN "ended" ELSE "running")
    /\ Sent(Loop(k))
    /\ UNCHANGED <<answers, sock, asking, asked, crossed>>

\* the stream has ended with its result
Complete(k) ==
    /\ stream[k] = "ended" /\ ~Halted(k)
    /\ hub' = Popped([hub EXCEPT !.status = "complete"], k)
    /\ StreamIs(k, "over")
    /\ UNCHANGED <<answers, sock, asking, asked, sending, crossed>>

\* it has ended too late, or is left because another message comes
Break(k, state) ==
    /\ stream[k] = state /\ Halted(k)
    /\ StreamIs(k, "stopping") /\ Send(Loop(k))
    /\ UNCHANGED <<hub, answers, sock, asking, asked, crossed>>

Stopped(k) ==
    /\ stream[k] = "stopping"
    /\ \E h \in AfterSend(Loop(k)) : hub' = Popped([h EXCEPT !.status = "stopped"], k)
    /\ StreamIs(k, "over")
    /\ Sent(Loop(k))
    /\ UNCHANGED <<answers, sock, asking, asked, crossed>>

\* no agent of the team is at work
Idle(k) == asking[k] \in {"no", "raised"}

\* mutation: the failure of a stream does not reach the database
FailUnrecorded(k) ==
    /\ stream[k] \in {"running", "ended"} /\ Idle(k)
    /\ StreamIs(k, "over") /\ hub' = Popped(hub, k) /\ UNCHANGED sending
    /\ UNCHANGED <<answers, sock, asking, asked, crossed>>

\* the team raises, or the close() of an agent after it;
\* _handle_stream_error keeps still for a closed connection
Fail(k) ==
    /\ stream[k] \in {"running", "ended"} /\ Idle(k)
    /\ IF hub.closed
       THEN StreamIs(k, "over") /\ hub' = Popped(hub, k) /\ UNCHANGED sending
       ELSE StreamIs(k, "failing") /\ Send(Loop(k)) /\ UNCHANGED hub
    /\ UNCHANGED <<answers, sock, asking, asked, crossed>>

Failed(k) ==
    /\ stream[k] = "failing"
    /\ \E h \in AfterSend(Loop(k)) : hub' = Popped([h EXCEPT !.status = "error"], k)
    /\ StreamIs(k, "over")
    /\ Sent(Loop(k))
    /\ UNCHANGED <<answers, sock, asking, asked, crossed>>

\* The cancelled team raises CancelledError once its runtime is idle; no clause
\* but the finally clause of start_stream catches it.
Cancelled(k) ==
    /\ stream[k] = "running" /\ k \in hub.cancelled /\ Idle(k)
    /\ hub' = Popped(hub, k)
    /\ StreamIs(k, "over")
    /\ UNCHANGED <<answers, sock, asking, asked, sending, crossed>>

\* But an agent may never end, an AssistantAgent whose tool was cancelled for
\* one: then the runtime is never idle and the stream waits for it.
Hang(k) ==
    /\ stream[k] \in {"running", "ended"} /\ k \in hub.cancelled
    /\ StreamIs(k, "hung")
    /\ UNCHANGED <<hub, answers, sock, asking, asked, sending, crossed>>
-----------------------------------------------------------------------------
(* The input function of a UserProxyAgent, which ignores the token.        *)

AskingIs(k, state) == asking' = [asking EXCEPT ![k] = state]

\* the agent may have been asked for its turn before the cancellation
AskInput(k) ==
    /\ k \in Users /\ stream[k] \in {"running", "message"} /\ asking[k] = "no"
    /\ AskingIs(k, "sending") /\ Send(Input(k))
    /\ UNCHANGED <<hub, answers, sock, stream, asked, crossed>>

\* without a queue it raises, and so does the team
AwaitInput(k) ==
    /\ asking[k] = "sending"
    /\ hub' \in AfterSend(Input(k))
    /\ AskingIs(k, IF hub'.inputs = Nothing THEN "raised" ELSE "waiting")
    /\ asked' = [asked EXCEPT ![k] = hub'.inputs]
    /\ Sent(Input(k))
    /\ UNCHANGED <<answers, sock, stream, crossed>>

TakeInput(k) ==
    /\ asking[k] = "waiting" /\ answers[asked[k]] > 0
    /\ answers' = [answers EXCEPT ![asked[k]] = @ - 1]
    /\ AskingIs(k, "no") /\ asked' = [asked EXCEPT ![k] = Nothing]
    /\ UNCHANGED <<hub, sock, stream, sending, crossed>>
-----------------------------------------------------------------------------
\* The server shuts down.  The managers and the database are closed next, and
\* the process ends with its tasks.
Cleanup ==
    /\ hub.up
    /\ LET stopped == [CancelToken(hub) EXCEPT !.status = IF @ = "active" /\ hub.token # Nothing
                                                          THEN "stopped" ELSE @]
           left == IF hub.conn = Nothing \/ hub.closed THEN stopped ELSE Disconnected(stopped)
       IN  hub' = [left EXCEPT !.conn = Nothing, !.closed = FALSE, !.token = Nothing,
                               !.inputs = Nothing, !.up = FALSE]
    /\ UNCHANGED <<answers, sock, stream, asking, asked, sending, crossed>>

SocketStep(s) == hub.up /\ (Connect(s) \/ Greeted(s) \/ StopRun(s) \/ Leave(s))

StreamStep(k) ==
    /\ hub.up
    /\ \/ Begin(k) \/ Yielded(k) \/ Complete(k) \/ Break(k, "ended") \/ Stopped(k)
       \/ Failed(k) \/ Cancelled(k) \/ AwaitInput(k) \/ TakeInput(k)

TeamStep(k) ==
    /\ hub.up
    /\ \/ AskInput(k) \/ Fail(k) \/ Hang(k) \/ Break(k, "running")
       \/ \E kind \in {"message", "result"} : Yield(k, kind)

ClientStep(s) ==
    /\ hub.up
    /\ \/ Accept(s) \/ Refuse(s) \/ ReceiveInput(s) \/ ReceiveStop(s) \/ ReceiveEnd(s)
       \/ \E k \in Streams : ReceiveStart(s, k)

Next ==
    \/ \E s \in Sockets : SocketStep(s) \/ ClientStep(s)
    \/ \E k \in Streams : StreamStep(k) \/ TeamStep(k)
    \/ Cleanup

\* asyncio runs what is ready and sends end; clients and teams may do nothing
Fairness ==
    /\ \A s \in Sockets : WF_vars(SocketStep(s))
    /\ \A k \in Streams : WF_vars(StreamStep(k))

Spec == Init /\ [][Next]_vars /\ Fairness
-----------------------------------------------------------------------------
(* A run is not shown as active for ever: while its row says so, a stream  *)
(* is there that will write how it ended, and a server that shuts down     *)
(* leaves no such row, as long as no stream was started beside another or  *)
(* during a stop.  ws.py allows both, and after them the row may stay      *)
(* active.                                                                 *)
ActiveIsLive ==
    (hub.status = "active" /\ crossed = {}) => hub.up /\ \E k \in Streams : Live(k)

(* Stop and disconnect cancel what streams: the token in the dictionary is *)
(* never that of a stream that is over, however many are started, and a    *)
(* live stream whose token is neither there nor cancelled is one that was  *)
(* started beside another or during a stop, whatever comes and goes before *)
(* and after it.                                                           *)
StopReaches ==
    /\ hub.token # Nothing => Live(hub.token)
    /\ \A k \in Streams \ crossed : (Live(k) /\ k \notin hub.cancelled) => hub.token = k

(* A stop, and the end of any socket of the run, end the stream that lives *)
(* then, unless its team waits for an answer of the user, one of its       *)
(* agents does not end when it is cancelled, another stream has taken its  *)
(* token's place, or the server shuts down.                                *)
StoppedEnds ==
    \A k \in Streams :
        (Live(k) /\ (hub.closed \/ \E s \in Sockets : sock[s] \in {"stopping", "leaving"}))
            ~> (stream[k] \in {"over", "hung"} \/ asking[k] = "waiting" \/ k \in crossed \/ ~hub.up)

(* What the code does not keep: every stream that streams can be stopped,  *)
(* a run shown as active streams, and "cancel any running tasks" ends a    *)
(* cancelled stream.                                                       *)
StopReachesAll == \A k \in Streams : (Live(k) /\ k \notin hub.cancelled) => hub.token = k
ActiveIsAlwaysLive == hub.status = "active" => \E k \in Streams : Live(k)
DisconnectEnds == \A k \in Streams : k \in hub.cancelled ~> (stream[k] = "over" \/ ~hub.up)

(* Who waits for an answer reads the queue the answers go to.              *)
AnswersReach ==
    \A k \in Streams : (asking[k] = "waiting" /\ k \notin hub.cancelled) => asked[k] = hub.inputs
=============================================================================
