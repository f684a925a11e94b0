----------------------------- MODULE GrpcRuntime -----------------------------
(***************************************************************************)
(* The distributed runtime: GrpcHost and GrpcWorker composed over the      *)
(* streams they share.  gRPC delivers a stream in order or ends it, and    *)
(* the host learns of its end some time later.  A unary call is not        *)
(* ordered with the stream: when its caller has gone, the host serves it   *)
(* before the end of the stream, after it, or not at all.                  *)
(***************************************************************************)
EXTENDS Naturals, Sequences

CONSTANTS
    Workers, Types, Ids, Events, None, MaxStarts, Instances, Mute,
    Serves,      \* <<worker, type>>: the types the application registers where
    Leaves,      \* the types whose subscription may be removed again
    Asks,        \* <<worker, type>>: who may call send_message to which type
    Stopping,    \* the clients that may be stopped
    Publishing,  \* the workers that publish
    Crashing,    \* the clients whose process may end
    Reconnects   \* may a stream break under a worker that goes on?

ASSUME RuntimeAssumption ==
    /\ MaxStarts \in [Workers -> Nat] /\ Ids \subseteq Nat
    /\ Serves \subseteq Workers \X Types /\ Asks \subseteq Workers \X Types
    /\ Mute \subseteq Types /\ Instances \subseteq Types /\ Leaves \subseteq Types
    /\ Publishing \subseteq Workers
    /\ Reconnects \in BOOLEAN
    /\ None \notin Workers \X Nat

VARIABLES conns, owner, subs, pending, line, lost, due, torn, late, up, down,
          status, starts, reader, nextId, waiting, factories, instances, locals, tasks, rpc,
          strays, got, heard,
          published     \* the events sent so far

Worker == INSTANCE GrpcWorker
Host == INSTANCE GrpcHost WITH Clients <- Worker!Clients

hostOnly == <<conns, owner, subs, pending, line, due, torn, late>>
uncalled == <<status, starts, reader, nextId, waiting, factories, instances, locals, tasks, got, heard>>
workerOnly == <<uncalled, rpc, strays>>
vars == <<hostOnly, lost, up, down, workerOnly, published>>

Init == Host!HostInit /\ Worker!WorkerInit /\ published = {}
-----------------------------------------------------------------------------
\* a step of the worker's process alone
Locally(action) == action /\ UNCHANGED <<hostOnly, published>>

\* The metadata of OpenChannel is the first that the host gets of a client, and
\* nobody else looks for its connection before it registers: start() and the
\* host's part of it are one step.
Connect(w) ==
    /\ Worker!Start(w)
    /\ Host!OpenChannel(<<w, starts[w] + 1>>)
    /\ UNCHANGED published

\* the host's stream ends after the worker has gone, or breaks
EndStream(c) ==
    /\ Reconnects \/ ~Worker!Open(c[1]) \/ Worker!Client(c[1]) # c
    /\ Host!CloseChannel(c)
    /\ UNCHANGED <<workerOnly, published>>

\* types whose worker has registered and subscribed them and reads its stream
Listening ==
    {t \in Types : \E w \in Workers :
        /\ Worker!Open(w) /\ t \in locals[w]
        /\ owner[t] = Worker!Client(w) /\ subs[t] = Worker!Client(w)}

Route(c) ==
    /\ Host!HostReceives(c, Listening)
    /\ UNCHANGED <<workerOnly, published>>

Answers == {"ok", "error", "queued"}

\* the host takes up a unary call of c: "queued" is no answer yet
Served(c, op, t, answer) ==
    \/ op = "register" /\ Host!RegisterAgent(c, t, answer)
    \/ op = "subscribe" /\ Host!AddSubscription(c, t, answer)
    \/ op = "unsubscribe" /\ Host!RemoveSubscription(c, t, answer)

ServeCall(w, answer) ==
    /\ rpc[w].state = "sent"
    /\ Served(Worker!Client(w), rpc[w].op, rpc[w].type, answer)
    /\ rpc' = [rpc EXCEPT ![w].state = answer]
    /\ UNCHANGED <<uncalled, strays, published>>

\* a call whose caller is gone reaches the host
ServeStray(k, answer) ==
    /\ k \in strays
    /\ Served(k.client, k.op, k.type, answer)
    /\ strays' = strays \ {k}
    /\ UNCHANGED <<uncalled, rpc, published>>

\* RegisterAgent has the lock it waited for, and answers if the caller is there
ServeQueued(answer) ==
    /\ Host!GrantRegister(answer)
    /\ LET c == Head(line).client
           w == c[1]
           waits == Worker!Client(w) = c /\ rpc[w].state = "queued"
       IN  rpc' = IF waits THEN [rpc EXCEPT ![w].state = answer] ELSE rpc
    /\ UNCHANGED <<uncalled, strays, published>>

\* the first in line for the host's lock
NextInLine ==
    \/ Host!Grant(Listening) /\ UNCHANGED <<workerOnly, published>>
    \/ \E answer \in {"ok", "error"} : ServeQueued(answer)

Publish(w, e) ==
    /\ e \notin published
    /\ published' = published \cup {e}
    /\ Worker!PublishMessage(w, e)
    /\ UNCHANGED hostOnly

Application(w) ==
    \/ Connect(w)
    \/ Worker!Client(w) \in Stopping /\ Locally(Worker!Stop(w))
    \/ Worker!Client(w) \in Crashing /\ Locally(Worker!Crash(w))
    \/ \E t \in Types :
          \/ <<w, t>> \in Asks /\ Locally(Worker!SendMessage(w, t))
          \/ <<w, t>> \in Serves /\ Locally(Worker!RegisterFactory(w, t))
          \/ Locally(Worker!AddSubscription(w, t))
          \/ t \in Leaves /\ Locally(Worker!RemoveSubscription(w, t))
    \/ w \in Publishing /\ \E e \in Events : Publish(w, e)

ServeCalls(w) == \E answer \in Answers : ServeCall(w, answer)
Reads(w) == Locally(Worker!ReadLoop(w))
Handles(w) == Locally(\E k \in tasks[w] : Worker!HandleRequest(w, k))
Returns(w) == Locally(Worker!StopEnds(w) \/ Worker!HostAnswers(w))

Next ==
    \/ \E w \in Workers : Application(w) \/ ServeCalls(w) \/ Reads(w) \/ Handles(w) \/ Returns(w)
    \/ \E c \in Worker!Clients : Route(c) \/ EndStream(c)
    \/ \E k \in strays, answer \in Answers : ServeStray(k, answer)
    \/ NextInLine

\* asyncio and gRPC run what is ready, an abort is sent and handlers return; the
\* application may do nothing, a stream that has ended is noticed, and the call
\* of a caller that has gone may never arrive.
Fairness ==
    /\ \A w \in Workers : /\ WF_vars(ServeCalls(w)) /\ WF_vars(Reads(w))
                         /\ WF_vars(Handles(w)) /\ WF_vars(Returns(w))
    /\ WF_vars(NextInLine)
    /\ \A c \in Worker!Clients : WF_vars(Route(c)) /\ WF_vars(~Reconnects /\ EndStream(c))

Spec == Init /\ [][Next]_vars /\ Fairness
-----------------------------------------------------------------------------
(* Properties of the parts.                                                *)
NothingOutlives == Host!NothingOutlives
HandlerIsThere == Worker!HandlerIsThere
AnswersTheCall == Worker!AnswersTheCall

\* w reads what the host sends to c
Attends(c) == Worker!Open(c[1]) /\ Worker!Client(c[1]) = c /\ reader[c[1]] = "on"

\* a worker that was stopped and started again does not read
Deaf(w) == status[w] = "up" /\ reader[w] = "over"

(* send_message ends, unless the host dropped the request or lost the      *)
(* worker that served it, the agent could not be made or its result not be *)
(* serialized, the sender has left, or one of the two was started again    *)
(* after stop(): in particular, it does not end up behind an abort that    *)
(* holds the lock of the host.                                             *)
CallSettles ==
    \A call \in {k \in Worker!Calls : \E p \in Asks : p[1] = k.client[1]} :
        call \in waiting[call.client[1]] ~>
            \/ call \notin waiting[call.client[1]] \/ call \in lost
            \/ ~Attends(call.client) \/ \E w \in Workers : Deaf(w)

\* what the host promised is on its way or was given
DeliveredOrDue(d) ==
    Attends(d[3]) => \/ heard[<<d[1], d[2]>>] > 0
                     \/ \E i \in DOMAIN down[d[3]] : down[d[3]][i] = [kind |-> "event", id |-> d[1]]

(* An agent is given an event at most once.  An event the host delivered   *)
(* while the agent's type was registered and its subscription complete is  *)
(* on its way to the agent or was given to it, as long as the subscription *)
(* stays and the worker reads: no registration, subscription, crash or     *)
(* restart of others loses it, unless the delivery met an owner whose      *)
(* connection was gone, the KeyError in _process_event.                    *)
EventExactlyOnce ==
    /\ \A p \in Events \X Types : heard[p] <= 1
    /\ \A d \in due : d[1] \in torn \/ DeliveredOrDue(d)

\* What the code does not keep: an agent's event gets lost because another
\* client has gone; a type stays with a client that has gone; a request finds
\* an instance that is not there yet.
OthersDoNotMatter == \A d \in due : DeliveredOrDue(d)
GoneIsForgotten == \A t \in Types : {owner[t], subs[t]} \subseteq conns \cup {None}
AlwaysServed ==
    \A w \in Workers : Worker!Open(w) =>
        \A i \in DOMAIN down[Worker!Client(w)] :
            LET m == down[Worker!Client(w)][i]
            IN  m.kind = "request" => m.type \in Worker!Served(w)
=============================================================================
