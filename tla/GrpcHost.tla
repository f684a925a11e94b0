------------------------------- MODULE GrpcHost -------------------------------
(***************************************************************************)
(* The host of the distributed runtime                                     *)
(* (_worker_runtime_host_servicer.py): it routes the requests, responses   *)
(* and events that workers send over one stream each, and answers their    *)
(* unary calls.  Who looks up or changes the owners of the agent types     *)
(* does so holding _agent_type_to_client_id_lock, an asyncio.Lock.  What   *)
(* runs under it does not suspend, with one exception: RegisterAgent       *)
(* awaits context.abort there.  So a coroutine that finds the lock free is *)
(* one step, and one that finds it taken waits in line.  A response and    *)
(* the task it wakes (_wait_and_send_response) are one step too, as the    *)
(* waking only looks up a connection.  One topic; a subscription is known  *)
(* by its agent type and by the client that added it.                      *)
(***************************************************************************)
EXTENDS Naturals, Sequences, FiniteSets

CONSTANTS
    Clients,    \* client ids: a new one for every connection a worker makes
    Types,      \* agent types
    Ids,        \* request ids
    None

VARIABLES
    conns,      \* _data_connections
    owner,      \* _agent_type_to_client_id
    subs,       \* _subscription_manager: agent type -> client that subscribed it
    pending,    \* _pending_responses: the call each future answers, or None
    line,       \* an abort that holds the lock, and who waits for the lock
    lost,       \* the calls the host dropped or whose future it cancelled
    due,        \* <<event, type, client>>: deliveries promised by ProcessEvent
    torn,       \* events whose delivery ended in KeyError
    late,       \* clients that registered or subscribed after their clean-up
    up,         \* per client: the stream to the host
    down        \* per client: its _send_queue and the stream to the worker

Received(c, kind) == c \in conns /\ up[c] # <<>> /\ Head(up[c]).kind = kind
Taken(c) == up' = [up EXCEPT ![c] = Tail(@)]

HostInit ==
    /\ conns = {} /\ lost = {} /\ due = {} /\ torn = {} /\ late = {} /\ line = <<>>
    /\ owner = [t \in Types |-> None] /\ subs = [t \in Types |-> None]
    /\ pending = [c \in Clients |-> [i \in Ids |-> None]]
    /\ up = [c \in Clients |-> <<>>] /\ down = [c \in Clients |-> <<>>]
-----------------------------------------------------------------------------
(* What runs under the lock.  A job in line is the request itself, an      *)
(* event with its recipients, or one of these:                             *)

Registering(c, t) == [kind |-> "register", client |-> c, type |-> t]
Closing(c) == [kind |-> "close", client |-> c]
Aborting == [kind |-> "abort"]

\* the clients whose connection is gone and whose clean-up waits for the lock
Leaving == {c \in Clients : \E i \in DOMAIN line : line[i] = Closing(c)}

\* asyncio.Lock: who finds it free runs at once, the others in their order;
\* "touched" is what the body changes
Locking(job, body, touched) ==
    \/ line = <<>> /\ body /\ UNCHANGED line
    \/ line # <<>> /\ line' = Append(line, job) /\ UNCHANGED touched

\* the rest of _process_request: a future under the same id is overwritten,
\* and a request that cannot be delivered is logged and dropped
Deliver(m) ==
    LET target == owner[m.type]
    IN  IF target \in conns
        THEN /\ down' = [down EXCEPT ![target] = Append(@, m)]
             /\ pending' = [pending EXCEPT ![target][m.id] = m.call]
             /\ UNCHANGED lost
        ELSE lost' = lost \cup {m.call} /\ UNCHANGED <<down, pending>>

\* types that events reach
Audience == {t \in Types : subs[t] # None /\ owner[t] # None}

\* the rest of _process_event: the set of clients is walked in any order, and
\* an owner without a connection ends the walk in KeyError.  "listening" are
\* the types whose worker has ended its own add_subscription: if they are
\* still subscribed they are promised the event.
Spread(e, to, listening) ==
    LET targets == {owner[t] : t \in {x \in to : owner[x] # None}}
    IN  /\ \E served \in SUBSET (targets \cap conns) :
              /\ targets \subseteq conns => served = targets
              /\ down' = [d \in Clients |-> IF d \in served
                                            THEN Append(down[d], [kind |-> "event", id |-> e])
                                            ELSE down[d]]
        /\ torn' = IF targets \subseteq conns THEN torn ELSE torn \cup {e}
        /\ due' = due \cup {<<e, t, owner[t]>> : t \in to \cap Audience \cap listening}

\* mutation: the agent types of the client stay registered
ForgetSubscriptions(c) ==
    /\ owner' = owner
    /\ subs' = [t \in Types |-> IF subs[t] = c THEN None ELSE subs[t]]

\* the rest of _on_client_disconnect
Forget(c) ==
    /\ owner' = [t \in Types |-> IF owner[t] = c THEN None ELSE owner[t]]
    /\ subs' = [t \in Types |-> IF subs[t] = c THEN None ELSE subs[t]]

\* a client that is served when nothing will clean up after it any more
Belated(c) == IF c \in conns \cup Leaving THEN late ELSE late \cup {c}

\* the rest of RegisterAgent: a refusal keeps the lock while it aborts
Enter(c, t, answer, others) ==
    /\ answer = IF owner[t] = None THEN "ok" ELSE "error"
    /\ owner' = IF answer = "ok" THEN [owner EXCEPT ![t] = c] ELSE owner
    /\ late' = IF answer = "ok" THEN Belated(c) ELSE late
    /\ line' = IF answer = "ok" THEN others ELSE <<Aborting>> \o others

\* the lock is released, and the first in line has it
Granted(kind) == line # <<>> /\ Head(line).kind = kind

Grant(listening) ==
    /\ \/ Granted("request") /\ Deliver(Head(line)) /\ UNCHANGED <<owner, subs, due, torn>>
       \/ /\ Granted("event") /\ Spread(Head(line).id, Head(line).to, listening)
          /\ UNCHANGED <<owner, subs, pending, lost>>
       \/ /\ Granted("close") /\ Forget(Head(line).client)
          /\ UNCHANGED <<pending, lost, due, torn, down>>
       \/ Granted("abort") /\ UNCHANGED <<owner, subs, pending, lost, due, torn, down>>
    /\ line' = Tail(line)
    /\ UNCHANGED <<conns, late, up>>

\* A caller that has gone may have been cancelled while it waited: then its call
\* has done as little as one that never arrived.
GrantRegister(answer) ==
    /\ Granted("register")
    /\ Enter(Head(line).client, Head(line).type, answer, Tail(line))
    /\ UNCHANGED <<conns, subs, pending, lost, due, torn, up, down>>
-----------------------------------------------------------------------------
(* The streams.                                                            *)

OpenChannel(c) ==
    /\ conns' = conns \cup {c}
    /\ UNCHANGED <<owner, subs, pending, line, lost, due, torn, late, up, down>>

\* mutation: the futures of the client are not cancelled
CloseChannelLeaking(c) ==
    /\ c \in conns
    /\ conns' = conns \ {c}
    /\ up' = [up EXCEPT ![c] = <<>>] /\ down' = [down EXCEPT ![c] = <<>>]
    /\ Locking(Closing(c), Forget(c), <<owner, subs>>)
    /\ UNCHANGED <<pending, lost, due, torn, late>>

\* the finally clause of OpenChannel, up to where _on_client_disconnect waits
\* for the lock; a cancelled future ends its waiting task, and the requester
\* is told nothing
CloseChannel(c) ==
    /\ c \in conns
    /\ conns' = conns \ {c}
    /\ lost' = lost \cup {pending[c][i] : i \in {j \in Ids : pending[c][j] # None}}
    /\ pending' = [pending EXCEPT ![c] = [i \in Ids |-> None]]
    /\ up' = [up EXCEPT ![c] = <<>>] /\ down' = [down EXCEPT ![c] = <<>>]
    /\ Locking(Closing(c), Forget(c), <<owner, subs>>)
    /\ UNCHANGED <<due, torn, late>>

ProcessRequest(c) ==
    /\ Received(c, "request")
    /\ Taken(c)
    /\ Locking(Head(up[c]), Deliver(Head(up[c])), <<pending, lost, down>>)
    /\ UNCHANGED <<conns, owner, subs, due, torn, late>>

\* Without a future the task ends in KeyError; the answer to a client that has
\* left is dropped.
ProcessResponse(c) ==
    /\ Received(c, "response")
    /\ Taken(c)
    /\ LET m == Head(up[c])
           call == pending[c][m.id]
       IN  /\ pending' = [pending EXCEPT ![c][m.id] = None]
           /\ IF call # None /\ call.client \in conns
              THEN down' = [down EXCEPT ![call.client] = Append(@, m)]
              ELSE UNCHANGED down
    /\ UNCHANGED <<conns, owner, subs, line, lost, due, torn, late>>

\* the recipients are looked up before the lock is asked for
ProcessEvent(c, listening) ==
    /\ Received(c, "event")
    /\ Taken(c)
    /\ LET e == Head(up[c]).id
           to == {t \in Types : subs[t] # None}
       IN  Locking([kind |-> "event", id |-> e, to |-> to], Spread(e, to, listening), <<due, torn, down>>)
    /\ UNCHANGED <<conns, owner, subs, pending, lost, late>>
-----------------------------------------------------------------------------
(* The unary calls; the answer is "error" when the call is aborted or      *)
(* raises.                                                                 *)

RegisterAgent(c, t, answer) ==
    /\ \/ line = <<>> /\ Enter(c, t, answer, <<>>)
       \/ /\ line # <<>> /\ answer = "queued"
          /\ line' = Append(line, Registering(c, t))
          /\ UNCHANGED <<owner, late>>
    /\ UNCHANGED <<conns, subs, pending, lost, due, torn, up, down>>

AddSubscription(c, t, answer) ==
    /\ answer = IF subs[t] = None THEN "ok" ELSE "error"
    /\ subs' = IF answer = "ok" THEN [subs EXCEPT ![t] = c] ELSE subs
    /\ late' = IF answer = "ok" THEN Belated(c) ELSE late
    /\ UNCHANGED <<conns, owner, pending, line, lost, due, torn, up, down>>

\* by the id the client subscribed with; it ends what ProcessEvent promised
RemoveSubscription(c, t, answer) ==
    /\ answer = IF subs[t] = c THEN "ok" ELSE "error"
    /\ subs' = IF answer = "ok" THEN [subs EXCEPT ![t] = None] ELSE subs
    /\ due' = IF answer = "ok" THEN {d \in due : d[2] # t} ELSE due
    /\ UNCHANGED <<conns, owner, pending, line, lost, torn, late, up, down>>

HostReceives(c, listening) ==
    ProcessRequest(c) \/ ProcessResponse(c) \/ ProcessEvent(c, listening)
-----------------------------------------------------------------------------
(* Nothing at the host outlives the connection it came with: a type or a   *)
(* subscription belongs to a client that is connected, or whose clean-up   *)
(* is in line for the lock, or whose call reached the host after the       *)
(* clean-up; and no future waits for the answer of a client that left.     *)
NothingOutlives ==
    /\ \A t \in Types : {owner[t], subs[t]} \subseteq conns \cup Leaving \cup late \cup {None}
    /\ \A c \in Clients \ conns, i \in Ids : pending[c][i] = None
=============================================================================
