------------------------------ MODULE GrpcWorker ------------------------------
(***************************************************************************)
(* A worker of the distributed runtime (_worker_runtime.py): what the      *)
(* process of each worker does with its connection to the host.  A client  *)
(* is a pair <<worker, number of its start>>.  The handler of a request is *)
(* a background task; the tasks that only put a message on the send queue, *)
(* resolve a future or start the handlers of an event do not suspend and   *)
(* are part of the step that creates them.  Handlers do not send.          *)
(***************************************************************************)
EXTENDS Naturals, Sequences

CONSTANTS Workers, Types, Ids, Events, None,
          MaxStarts,    \* bound on the starts of each worker
          Instances,    \* types registered with register_agent_instance
          Mute     \* types whose factory raises, or whose result has no serializer

Clients == UNION {{w} \X (1..MaxStarts[w]) : w \in Workers}
Calls == [client : Clients, id : Ids]

VARIABLES
    status,     \* "off", "up", "stopping"
    starts,     \* the number of its starts
    reader,     \* _read_task: "none", "on", "over"
    nextId,     \* _next_request_id
    waiting,    \* the calls of _pending_requests
    factories,  \* _agent_factories
    instances,  \* the types of Instances with their agent in _instantiated_agents
    locals,     \* _subscription_manager, as the types it has subscribed
    tasks,      \* handlers of requests: [m, late], late: not awaited by stop()
    rpc,        \* the unary call under way: [op, type, state]
    strays,     \* [client, op, type]: calls that their caller no longer awaits
    got,        \* [call, answer]: the futures set, and the call the answer is for
    heard,      \* how often an agent type was given an event
    lost,       \* calls nobody will answer, shared with the host
    up, down    \* the streams, shared with the host

NoCall == [op |-> "none", type |-> None, state |-> "none"]
Client(w) == <<w, starts[w]>>
Open(w) == status[w] # "off"

\* the types _get_agent finds or makes an agent of: the factory that stands in
\* for an instance only raises
Served(w) == (factories[w] \ Instances) \cup instances[w]

\* a unary call that was sent goes its way when its caller is gone
Astray(w) ==
    IF rpc[w].state = "sent"
    THEN strays \cup {[client |-> Client(w), op |-> rpc[w].op, type |-> rpc[w].type]}
    ELSE strays

WorkerInit ==
    /\ status = [w \in Workers |-> "off"] /\ starts = [w \in Workers |-> 0]
    /\ reader = [w \in Workers |-> "none"] /\ nextId = [w \in Workers |-> 0]
    /\ waiting = [w \in Workers |-> {}] /\ factories = [w \in Workers |-> {}]
    /\ locals = [w \in Workers |-> {}] /\ tasks = [w \in Workers |-> {}]
    /\ rpc = [w \in Workers |-> NoCall] /\ strays = {}
    /\ instances = [w \in Workers |-> {}]
    /\ got = {} /\ heard = [p \in Events \X Types |-> 0]
-----------------------------------------------------------------------------
(* start, stop, and the end of the process.                                *)

\* a read task that is over is not replaced
Start(w) ==
    /\ status[w] = "off" /\ starts[w] < MaxStarts[w]
    /\ starts' = [starts EXCEPT ![w] = @ + 1]
    /\ status' = [status EXCEPT ![w] = "up"]
    /\ reader' = [reader EXCEPT ![w] = IF @ = "none" THEN "on" ELSE @]
    /\ UNCHANGED <<nextId, waiting, factories, instances, locals, tasks, rpc, strays, got, heard, lost, up, down>>

Stop(w) ==
    /\ status[w] = "up"
    /\ status' = [status EXCEPT ![w] = "stopping"]
    /\ UNCHANGED <<starts, reader, nextId, waiting, factories, instances, locals, tasks, rpc, strays, got, heard, lost, up, down>>

\* stop() goes on when the tasks it gathered are done: it closes the
\* connection and cancels the read task.  A unary call under way raises, but
\* the host may yet serve it; the futures of send_message stay as they are.
StopEnds(w) ==
    /\ status[w] = "stopping"
    /\ \A k \in tasks[w] : k.late
    /\ status' = [status EXCEPT ![w] = "off"]
    /\ reader' = [reader EXCEPT ![w] = "over"]
    /\ rpc' = [rpc EXCEPT ![w] = NoCall] /\ strays' = Astray(w)
    /\ UNCHANGED <<starts, nextId, waiting, factories, instances, locals, tasks, got, heard, lost, up, down>>

\* the process ends, and another may take its place; what it sent on its
\* stream goes with the stream, a unary call on its own
Crash(w) ==
    /\ Open(w)
    /\ status' = [status EXCEPT ![w] = "off"]
    /\ reader' = [reader EXCEPT ![w] = "none"] /\ nextId' = [nextId EXCEPT ![w] = 0]
    /\ waiting' = [waiting EXCEPT ![w] = {}] /\ factories' = [factories EXCEPT ![w] = {}]
    /\ locals' = [locals EXCEPT ![w] = {}] /\ tasks' = [tasks EXCEPT ![w] = {}]
    /\ instances' = [instances EXCEPT ![w] = {}]
    /\ rpc' = [rpc EXCEPT ![w] = NoCall] /\ strays' = Astray(w)
    /\ UNCHANGED <<starts, got, heard, lost, up, down>>
-----------------------------------------------------------------------------
(* Sending.                                                                *)

Send(w, m) == up' = [up EXCEPT ![Client(w)] = Append(@, m)]

SendMessage(w, t) ==
    /\ status[w] = "up" /\ nextId[w] + 1 \in Ids
    /\ LET call == [client |-> Client(w), id |-> nextId[w] + 1]
       IN  /\ waiting' = [waiting EXCEPT ![w] = @ \cup {call}]
           /\ Send(w, [kind |-> "request", call |-> call, id |-> call.id, type |-> t])
    /\ nextId' = [nextId EXCEPT ![w] = @ + 1]
    /\ UNCHANGED <<status, starts, reader, factories, instances, locals, tasks, rpc, strays, got, heard, lost, down>>

PublishMessage(w, e) ==
    /\ status[w] = "up"
    /\ Send(w, [kind |-> "event", id |-> e])
    /\ UNCHANGED <<status, starts, reader, nextId, waiting, factories, instances, locals, tasks, rpc, strays,
                   got, heard, lost, down>>
-----------------------------------------------------------------------------
(* _run_read_loop: after stop() it takes one more message.                 *)

Reads(w, kind) ==
    /\ Open(w) /\ reader[w] = "on"
    /\ down[Client(w)] # <<>> /\ Head(down[Client(w)]).kind = kind

Read(w) ==
    /\ down' = [down EXCEPT ![Client(w)] = Tail(@)]
    /\ reader' = [reader EXCEPT ![w] = IF status[w] = "stopping" THEN "over" ELSE @]

ReadRequest(w) ==
    /\ Reads(w, "request") /\ Read(w)
    /\ tasks' = [tasks EXCEPT ![w] =
                   @ \cup {[m |-> Head(down[Client(w)]), late |-> status[w] = "stopping"]}]
    /\ UNCHANGED <<status, starts, nextId, waiting, factories, instances, locals, rpc, strays, got, heard, lost, up>>

\* _process_response: an id that is not pending ends the task in KeyError
ReadResponse(w) ==
    /\ Reads(w, "response") /\ Read(w)
    /\ LET m == Head(down[Client(w)])
           mine == {call \in waiting[w] : call.id = m.id}
       IN  /\ waiting' = [waiting EXCEPT ![w] = @ \ mine]
           /\ got' = got \cup {[call |-> call, answer |-> m.call] : call \in mine}
    /\ UNCHANGED <<status, starts, nextId, factories, instances, locals, tasks, rpc, strays, heard, lost, up>>

\* _process_event: _get_agent raises before any handler has run when it has no
\* agent for one of the recipients
ReadEvent(w) ==
    /\ Reads(w, "event") /\ Read(w)
    /\ heard' = [p \in Events \X Types |->
                   IF /\ p[1] = Head(down[Client(w)]).id
                      /\ locals[w] \subseteq Served(w) /\ p[2] \in locals[w]
                   THEN heard[p] + 1 ELSE heard[p]]
    /\ UNCHANGED <<status, starts, nextId, waiting, factories, instances, locals, tasks, rpc, strays, got, lost, up>>

ReadLoop(w) == ReadRequest(w) \/ ReadResponse(w) \/ ReadEvent(w)

\* _process_request: the handler's result or exception is the answer, on the
\* connection there is now; without an agent the task raises and there is none
HandleRequest(w, k) ==
    /\ k \in tasks[w]
    /\ tasks' = [tasks EXCEPT ![w] = @ \ {k}]
    /\ IF k.m.type \in Served(w) \ Mute
       THEN /\ IF Open(w)
               THEN Send(w, [kind |-> "response", call |-> k.m.call, id |-> k.m.id])
               ELSE UNCHANGED up
            /\ UNCHANGED lost
       ELSE lost' = lost \cup {k.m.call} /\ UNCHANGED up
    /\ UNCHANGED <<status, starts, reader, nextId, waiting, factories, instances, locals, rpc, strays,
                   got, heard, down>>
-----------------------------------------------------------------------------
(* Unary calls: the worker awaits the answer.                              *)

CallHost(w, op, t) ==
    /\ status[w] = "up" /\ rpc[w] = NoCall
    /\ rpc' = [rpc EXCEPT ![w] = [op |-> op, type |-> t, state |-> "sent"]]

\* register_factory and register_agent_instance, whose factory only raises
RegisterFactory(w, t) ==
    /\ t \notin factories[w]
    /\ CallHost(w, "register", t)
    /\ factories' = [factories EXCEPT ![w] = @ \cup {t}]
    /\ UNCHANGED <<status, starts, reader, nextId, waiting, instances, locals, tasks, strays, got, heard,
                   lost, up, down>>

\* the application subscribes the agents it has registered
AddSubscription(w, t) ==
    /\ t \in Served(w) \ locals[w]
    /\ CallHost(w, "subscribe", t)
    /\ UNCHANGED <<status, starts, reader, nextId, waiting, factories, instances, locals, tasks, strays, got,
                   heard, lost, up, down>>

\* mutation: the local manager forgets the subscription before the host does
RemoveSubscriptionEarly(w, t) ==
    /\ t \in locals[w]
    /\ CallHost(w, "unsubscribe", t)
    /\ locals' = [locals EXCEPT ![w] = @ \ {t}]
    /\ UNCHANGED <<status, starts, reader, nextId, waiting, factories, instances, tasks, strays, got,
                   heard, lost, up, down>>

RemoveSubscription(w, t) ==
    /\ t \in locals[w]
    /\ CallHost(w, "unsubscribe", t)
    /\ UNCHANGED <<status, starts, reader, nextId, waiting, factories, instances, locals, tasks, strays, got,
                   heard, lost, up, down>>

\* mutation: register_agent_instance does not store the agent
HostAnswersUnstored(w) ==
    /\ rpc[w].state \in {"ok", "error"}
    /\ rpc' = [rpc EXCEPT ![w] = NoCall]
    /\ locals' = [locals EXCEPT ![w] =
                    CASE rpc[w].state = "ok" /\ rpc[w].op = "subscribe" -> @ \cup {rpc[w].type}
                      [] rpc[w].state = "ok" /\ rpc[w].op = "unsubscribe" -> @ \ {rpc[w].type}
                      [] OTHER -> @]
    /\ UNCHANGED <<status, starts, reader, nextId, waiting, factories, instances, tasks, strays, got,
                   heard, lost, up, down>>

\* the call returned or raised: register_agent_instance stores its agent, and
\* the local manager follows the host's
HostAnswers(w) ==
    /\ rpc[w].state \in {"ok", "error"}
    /\ rpc' = [rpc EXCEPT ![w] = NoCall]
    /\ instances' = [instances EXCEPT ![w] =
                       IF rpc[w].state = "ok" /\ rpc[w].op = "register"
                       THEN @ \cup ({rpc[w].type} \cap Instances) ELSE @]
    /\ locals' = [locals EXCEPT ![w] =
                    CASE rpc[w].state = "ok" /\ rpc[w].op = "subscribe" -> @ \cup {rpc[w].type}
                      [] rpc[w].state = "ok" /\ rpc[w].op = "unsubscribe" -> @ \ {rpc[w].type}
                      [] OTHER -> @]
    /\ UNCHANGED <<status, starts, reader, nextId, waiting, factories, tasks, strays, got, heard, lost, up, down>>
-----------------------------------------------------------------------------
(* A request that reaches a worker, and its handler's task, find their     *)
(* agent or a factory of it, unless the register_agent_instance call that  *)
(* made the type known to the host has not returned: the host learns of an *)
(* instance's type before the instance is stored.  No restart of the       *)
(* worker, no late or refused registration and no change of owner routes a *)
(* request elsewhere.                                                      *)
HandlerIsThere ==
    \A w \in Workers : Open(w) =>
        \A i \in DOMAIN down[Client(w)] :
            LET m == down[Client(w)][i]
            IN  m.kind = "request" =>
                  \/ m.type \in Served(w)
                  \/ m.type \in Instances /\ rpc[w].op = "register" /\ rpc[w].type = m.type

(* A future of send_message is set with the answer to its own request.     *)
AnswersTheCall == \A g \in got : g.call = g.answer
=============================================================================
