-------------------------- MODULE GrpcRuntimeProofs --------------------------
(***************************************************************************)
(* The distributed runtime for any workers, types, calls and events: the   *)
(* host keeps nothing of a client that has left but what reaches it too    *)
(* late, what it routes finds its handler, and an event reaches an agent   *)
(* once.                                                                   *)
(***************************************************************************)
EXTENDS GrpcRuntime, SequenceTheorems, TLAPS

Clients == Worker!Clients
Client(w) == Worker!Client(w)
Open(w) == Worker!Open(w)
Running(c) == Open(c[1]) /\ Client(c[1]) = c

Calls == [client : Clients, id : Ids]
Requests == [kind : {"request"}, call : Calls, id : Ids, type : Types]
Responses == [kind : {"response"}, call : Calls, id : Ids]
Notes == [kind : {"event"}, id : Events]
Messages == Requests \cup Responses \cup Notes

Lookups == Requests \cup [kind : {"event"}, id : Events, to : SUBSET Types]
Registers == [kind : {"register"}, client : Clients, type : Types]
Closes == [kind : {"close"}, client : Clients]
Jobs == Lookups \cup Registers \cup Closes \cup {Host!Aborting}

RpcOps == {"register", "subscribe", "unsubscribe"}
Rpcs == [op : RpcOps, type : Types, state : {"sent", "queued", "ok", "error"}]

HostTypes ==
    /\ conns \subseteq Clients
    /\ owner \in [Types -> Clients \cup {None}]
    /\ subs \in [Types -> Clients \cup {None}]
    /\ pending \in [Clients -> [Ids -> Calls \cup {None}]]
    /\ line \in Seq(Jobs)
    /\ up \in [Clients -> Seq(Messages)]
    /\ down \in [Clients -> Seq(Messages)]

WorkerTypes ==
    /\ status \in [Workers -> {"off", "up", "stopping"}]
    /\ starts \in [Workers -> Nat]
    /\ nextId \in [Workers -> Nat]
    /\ factories \in [Workers -> SUBSET Types]
    /\ instances \in [Workers -> SUBSET Types]
    /\ locals \in [Workers -> SUBSET Types]
    /\ tasks \in [Workers -> SUBSET [m : Requests, late : BOOLEAN]]
    /\ rpc \in [Workers -> Rpcs \cup {Worker!NoCall}]
    /\ strays \subseteq [client : Clients, op : RpcOps, type : Types]

\* only a worker that runs calls the host
RunningIsStarted ==
    \A w \in Workers :
        /\ Open(w) => Client(w) \in Clients
        /\ rpc[w] # Worker!NoCall => Open(w)

\* the host knows a client from its start on, and sends to it until the end of
\* its stream
Known(c) == c[2] <= starts[c[1]]

KnownClients ==
    /\ \A c \in conns : Known(c)
    /\ \A t \in Types : /\ owner[t] # None => Known(owner[t])
                        /\ subs[t] # None => Known(subs[t])
    /\ \A c \in Clients \ conns : down[c] = <<>>

\* w has the agents of t, or is about to be told that it is their host
Reaches(w, t) ==
    \/ t \in Worker!Served(w)
    \/ t \in Instances /\ rpc[w] = [op |-> "register", type |-> t, state |-> "ok"]

\* who registers, or has registered, a type can make its agents
OwnerServes ==
    \A w \in Workers : Open(w) =>
        /\ rpc[w].op = "register" => rpc[w].type \in factories[w]
        /\ \A t \in Types : owner[t] = Client(w) => Reaches(w, t)

\* and so can who is sent a request
RequestsServed ==
    \A w \in Workers : Open(w) =>
        \A i \in DOMAIN down[Client(w)] :
            down[Client(w)][i].kind = "request" => Reaches(w, down[Client(w)][i].type)

\* nobody waits for the answer to a stray call
StraysAreGone ==
    \A k \in strays : Known(k.client) /\ ~Running(k.client)

\* a registration in line is the call of its client, or that of a client that
\* has gone
QueuedIsCalled ==
    \A i \in DOMAIN line : line[i].kind = "register" =>
        /\ Known(line[i].client)
        /\ Running(line[i].client) =>
              /\ rpc[line[i].client[1]] = [op |-> "register", type |-> line[i].type, state |-> "queued"]
              /\ \A j \in DOMAIN line :
                    (line[j].kind = "register" /\ line[j].client = line[i].client) => j = i

RuntimeInv ==
    /\ HostTypes
    /\ WorkerTypes
    /\ RunningIsStarted
    /\ KnownClients
    /\ NothingOutlives
    /\ OwnerServes
    /\ RequestsServed
    /\ StraysAreGone
    /\ QueuedIsCalled
-----------------------------------------------------------------------------
(* Facts about clients and streams.                                        *)

(* A client is a worker and the number of one of its starts, and is not    *)
(* None.                                                                   *)
LEMMA ClientFacts ==
    /\ \A c \in Clients : c = <<c[1], c[2]>> /\ c[1] \in Workers /\ c[2] \in 1..MaxStarts[c[1]]
    /\ \A w \in Workers, n \in Nat : (1 <= n /\ n <= MaxStarts[w]) => <<w, n>> \in Clients
    /\ None \notin Clients
<1> USE RuntimeAssumption
<1>1. \A c : c \in Clients <=> \E w \in Workers : c \in {w} \X (1..MaxStarts[w])
    BY DEF Clients, Worker!Clients
<1>2. \A w \in Workers : MaxStarts[w] \in Nat
    OBVIOUS
<1>3. \A c \in Clients : c = <<c[1], c[2]>> /\ c[1] \in Workers /\ c[2] \in 1..MaxStarts[c[1]]
    BY <1>1
<1>4. \A w \in Workers, n \in Nat : (1 <= n /\ n <= MaxStarts[w]) => <<w, n>> \in Clients
    BY <1>1, <1>2
<1>5. None \notin Clients
    BY <1>2, <1>3
<1>6. QED
    BY <1>3, <1>4, <1>5

(* The first message of a stream is one, and what it leaves is in order.   *)
LEMMA StreamFacts ==
    ASSUME NEW S, NEW s \in Seq(S)
    PROVE  /\ s # <<>> => Head(s) \in S /\ Tail(s) \in Seq(S)
           /\ s # <<>> => \A i \in DOMAIN Tail(s) : i + 1 \in DOMAIN s /\ Tail(s)[i] = s[i + 1]
           /\ \A x \in S : Append(s, x) \in Seq(S)
           /\ \A x \in S : \A i \in DOMAIN Append(s, x) :
                 Append(s, x)[i] = x \/ (i \in DOMAIN s /\ Append(s, x)[i] = s[i])
OBVIOUS

\* what a step does to the line when it asks for the lock, or when what has it
\* is no registration
LineMoves ==
    \/ line' = line
    \/ \E job \in Lookups \cup Closes : line' = Append(line, job)
    \/ line # <<>> /\ Head(line).kind # "register" /\ line' = Tail(line)

(* Such a step leaves the registrations in line as they are.               *)
LEMMA QueueKept ==
    ASSUME HostTypes, QueuedIsCalled, LineMoves, UNCHANGED <<starts, status, rpc>>
    PROVE  line' \in Seq(Jobs) /\ QueuedIsCalled'
<1>1. \A c : (Running(c)' <=> Running(c)) /\ (Known(c)' <=> Known(c))
    BY DEF Running, Known, Open, Worker!Open, Client, Worker!Client
<1>2. CASE line' = line
    BY <1>1, <1>2 DEF HostTypes, QueuedIsCalled
<1>3. ASSUME NEW job \in Lookups \cup Closes, line' = Append(line, job)
      PROVE  line' \in Seq(Jobs) /\ QueuedIsCalled'
    <2>1. job \in Jobs /\ job.kind # "register"
        BY <1>3 DEF Jobs, Lookups, Closes, Requests
    <2>2. line' \in Seq(Jobs)
        BY <1>3, <2>1, StreamFacts DEF HostTypes
    <2>3. \A i \in DOMAIN line' : line'[i].kind = "register" => i \in DOMAIN line /\ line'[i] = line[i]
        BY <1>3, <2>1, StreamFacts DEF HostTypes
    <2>4. QED
        BY <1>1, <2>2, <2>3 DEF QueuedIsCalled
<1>4. CASE line # <<>> /\ Head(line).kind # "register" /\ line' = Tail(line)
    <2>1. line' \in Seq(Jobs) /\ \A i \in DOMAIN line' : i + 1 \in DOMAIN line /\ line'[i] = line[i + 1]
        BY <1>4, StreamFacts DEF HostTypes
    <2>2. \A i, j \in DOMAIN line' : i + 1 = j + 1 => i = j
        BY <2>1
    <2>3. QED
        BY <1>1, <2>1, <2>2 DEF QueuedIsCalled
<1>5. QED
    BY <1>2, <1>3, <1>4 DEF LineMoves

(* A client waits for its clean-up until its turn comes.                   *)
LEMMA LeavingKept ==
    ASSUME HostTypes, LineMoves
    PROVE  \A c \in Host!Leaving : c \in Host!Leaving' \/ (line # <<>> /\ Head(line) = Host!Closing(c))
<1>1. SUFFICES ASSUME NEW c \in Host!Leaving
               PROVE  c \in Host!Leaving' \/ (line # <<>> /\ Head(line) = Host!Closing(c))
    OBVIOUS
<1>2. PICK i \in DOMAIN line : line[i] = Host!Closing(c)
    BY DEF Host!Leaving
<1>3. c \in Worker!Clients
    BY DEF Host!Leaving
<1>4. SUFFICES ASSUME ~(line # <<>> /\ Head(line) = Host!Closing(c))
               PROVE  \E j \in DOMAIN line' : line'[j] = Host!Closing(c)
    BY <1>3 DEF Host!Leaving, Host!Closing, Worker!Clients
<1>5. CASE line' = line
    BY <1>2, <1>5
<1>6. ASSUME NEW job, line' = Append(line, job)
      PROVE  \E j \in DOMAIN line' : line'[j] = Host!Closing(c)
    <2>1. i \in DOMAIN line' /\ line'[i] = line[i]
        BY <1>2, <1>6 DEF HostTypes
    <2>2. QED
        BY <1>2, <2>1
<1>7. CASE line # <<>> /\ line' = Tail(line)
    <2>1. DOMAIN line = 1..Len(line) /\ Len(line) \in Nat /\ Head(line) = line[1]
        BY <1>7 DEF HostTypes
    <2>2. i # 1
        BY <1>2, <1>4, <1>7, <2>1
    <2>3. i - 1 \in DOMAIN line' /\ line'[i - 1] = line[i]
        BY <1>2, <1>7, <2>1, <2>2 DEF HostTypes
    <2>4. QED
        BY <1>2, <2>3
<1>8. QED
    BY <1>5, <1>6, <1>7 DEF LineMoves

(* Nothing is connected, registered or on its way at first.                *)
LEMMA RuntimeInit == Init => RuntimeInv
<1>1. SUFFICES ASSUME Init PROVE RuntimeInv
    OBVIOUS
<1> USE <1>1 DEF Init, Host!HostInit, Worker!WorkerInit
<1>2. HostTypes
    BY DEF HostTypes, Clients
<1>3. WorkerTypes
    BY DEF WorkerTypes
<1>4. RunningIsStarted /\ OwnerServes /\ RequestsServed
    BY DEF RunningIsStarted, OwnerServes, RequestsServed, Open, Worker!Open
<1>5. KnownClients /\ NothingOutlives
    BY DEF KnownClients, NothingOutlives, Host!NothingOutlives, Clients
<1>6. StraysAreGone /\ QueuedIsCalled
    BY DEF StraysAreGone, QueuedIsCalled
<1>7. QED
    BY <1>2, <1>3, <1>4, <1>5, <1>6 DEF RuntimeInv
-----------------------------------------------------------------------------
(* The steps of a worker's process.                                        *)

(* What is at the host, on the streams and in line stays as it is, and     *)
(* workers keep the agents they have or stop: then what is to show is      *)
(* about calls.                                                            *)
LEMMA ProcessMoves ==
    ASSUME RuntimeInv, UNCHANGED <<conns, owner, subs, pending, line, late, up, down, starts>>, WorkerTypes',
           \A v \in Workers : /\ Open(v)' => Open(v)
                              /\ rpc'[v] # Worker!NoCall => Open(v)'
                              /\ Open(v)' /\ rpc'[v].op = "register" => rpc'[v].type \in factories'[v]
                              /\ Open(v)' /\ rpc[v].state = "queued" => rpc'[v] = rpc[v]
                              /\ Open(v)' => \A t \in Types : Reaches(v, t) => Reaches(v, t)',
           \A k \in strays' \ strays : Known(k.client) /\ ~Running(k.client)'
    PROVE  RuntimeInv'
<1> USE DEF RuntimeInv
<1>1. \A v \in Workers : Client(v)' = Client(v)
    BY DEF Client, Worker!Client
<1>2. HostTypes' /\ KnownClients' /\ NothingOutlives'
    BY DEF HostTypes, Clients, Calls, Messages, Jobs, KnownClients, Known, NothingOutlives, Host!NothingOutlives,
           Host!Leaving
<1>3. RunningIsStarted'
    BY <1>1 DEF RunningIsStarted, Clients, Worker!Clients
<1>4. OwnerServes'
    BY <1>1 DEF OwnerServes
<1>5. RequestsServed'
    <2>1. ASSUME NEW v \in Workers, Open(v)', NEW i \in DOMAIN down[Client(v)],
                 down[Client(v)][i].kind = "request"
          PROVE  down[Client(v)][i].type \in Types
        <3>1. down[Client(v)][i] \in Messages
            BY <2>1 DEF RunningIsStarted, HostTypes
        <3>2. QED
            BY <2>1, <3>1 DEF Messages, Requests, Responses, Notes
    <2>2. SUFFICES ASSUME NEW v \in Workers, Open(v)', NEW i \in DOMAIN down[Client(v)],
                          down[Client(v)][i].kind = "request",
                          NEW t \in Types, t = down[Client(v)][i].type
                   PROVE  Reaches(v, t)'
        BY <1>1, <2>1 DEF RequestsServed
    <2>3. Reaches(v, t)
        BY <2>2 DEF RequestsServed
    <2>4. QED
        BY <2>2, <2>3
<1>6. \A c \in Clients : Running(c)' => Running(c)
    BY <1>1, ClientFacts DEF Running
<1>7. StraysAreGone'
    BY <1>6 DEF StraysAreGone, Known, WorkerTypes
<1>8. QueuedIsCalled'
    <2>1. SUFFICES ASSUME NEW i \in DOMAIN line, line[i].kind = "register"
                   PROVE  /\ Known(line[i].client)
                          /\ Running(line[i].client)' =>
                                /\ rpc'[line[i].client[1]] = [op |-> "register", type |-> line[i].type, state |-> "queued"]
                                /\ \A j \in DOMAIN line :
                                      (line[j].kind = "register" /\ line[j].client = line[i].client) => j = i
        BY DEF QueuedIsCalled, Known
    <2>2. line[i].client \in Clients
        BY <2>1 DEF HostTypes, Jobs, Lookups, Requests, Registers, Closes, Host!Aborting
    <2>3. line[i].client[1] \in Workers
        BY <2>2, ClientFacts
    <2>4. QED
        BY <1>6, <2>1, <2>2, <2>3 DEF QueuedIsCalled, Known, Running
<1>9. QED
    BY <1>2, <1>3, <1>4, <1>5, <1>7, <1>8

(* stop and the end of a process: the call under way goes astray.          *)
LEMMA StopStep ==
    ASSUME RuntimeInv, NEW w \in Workers, UNCHANGED hostOnly,
           Worker!Stop(w) \/ Worker!StopEnds(w) \/ Worker!Crash(w)
    PROVE  RuntimeInv'
<1> USE DEF RuntimeInv
<1>1. UNCHANGED <<conns, owner, subs, pending, line, late, up, down, starts>>
    BY DEF hostOnly, Worker!Stop, Worker!StopEnds, Worker!Crash
<1>2. CASE Worker!Stop(w)
    <2>1. /\ status' = [status EXCEPT ![w] = "stopping"] /\ status[w] = "up"
          /\ UNCHANGED <<nextId, factories, instances, locals, tasks, rpc, strays>>
        BY <1>2 DEF Worker!Stop
    <2>2. WorkerTypes' /\ \A v \in Workers : Open(v)' <=> Open(v)
        BY <1>1, <2>1 DEF WorkerTypes, Open, Worker!Open
    <2>3. \A v \in Workers : \A t \in Types : Reaches(v, t) => Reaches(v, t)'
        BY <2>1 DEF Reaches, Worker!Served
    <2>4. QED
        BY <1>1, <2>1, <2>2, <2>3, ProcessMoves DEF RunningIsStarted, OwnerServes
<1>3. CASE Worker!StopEnds(w) \/ Worker!Crash(w)
    <2>1. /\ Open(w) /\ status' = [status EXCEPT ![w] = "off"] /\ rpc' = [rpc EXCEPT ![w] = Worker!NoCall]
          /\ strays' = Worker!Astray(w)
          /\ \A v \in Workers : v # w => factories'[v] = factories[v] /\ instances'[v] = instances[v]
        BY <1>3 DEF Worker!StopEnds, Worker!Crash, Open, Worker!Open, WorkerTypes
    <2>2. /\ ~Open(w)' /\ rpc'[w] = Worker!NoCall
          /\ \A v \in Workers : v # w => (Open(v)' <=> Open(v)) /\ rpc'[v] = rpc[v]
        BY <2>1 DEF WorkerTypes, Open, Worker!Open
    <2>3. \A k \in strays' \ strays :
            /\ rpc[w].state = "sent" /\ k = [client |-> Client(w), op |-> rpc[w].op, type |-> rpc[w].type]
        BY <2>1 DEF Worker!Astray, Client
    <2>4. strays' \subseteq [client : Clients, op : RpcOps, type : Types]
        <3>1. rpc[w].state = "sent" => rpc[w] \in Rpcs
            BY DEF WorkerTypes, Worker!NoCall
        <3>2. Client(w) \in Clients
            BY <2>1 DEF RunningIsStarted
        <3>3. QED
            BY <2>3, <3>1, <3>2 DEF WorkerTypes, Rpcs
    <2>5. WorkerTypes'
        <3>1. CASE Worker!StopEnds(w)
            BY <1>1, <2>1, <2>4, <3>1 DEF Worker!StopEnds, WorkerTypes
        <3>2. CASE Worker!Crash(w)
            BY <1>1, <2>1, <2>4, <3>2 DEF Worker!Crash, WorkerTypes
        <3>3. QED
            BY <1>3, <3>1, <3>2
    <2>6. \A k \in strays' \ strays : Known(k.client) /\ ~Running(k.client)'
        <3>1. Client(w)[1] = w /\ Client(w)[2] = starts[w] /\ starts[w] \in Nat
            BY DEF Client, Worker!Client, WorkerTypes
        <3>2. ~Running(Client(w))'
            <4>1. ~Running(<<w, starts[w]>>)'
                BY <1>1, <2>2 DEF Running
            <4>2. QED
                BY <1>1, <4>1 DEF Client, Worker!Client, Running, Open, Worker!Open
        <3>3. QED
            BY <1>1, <2>3, <3>1, <3>2 DEF Known, Running, Open, Worker!Open, Client, Worker!Client
    <2>7. \A v \in Workers : v # w => \A t \in Types : Reaches(v, t) => Reaches(v, t)'
        BY <2>1, <2>2 DEF Reaches, Worker!Served
    <2>8. QED
        BY <1>1, <2>1, <2>2, <2>5, <2>6, <2>7, ProcessMoves DEF RunningIsStarted, OwnerServes
<1>4. QED
    BY <1>2, <1>3

(* The worker's side of the unary calls, up to where the host comes in.    *)
LEMMA CallStep ==
    ASSUME RuntimeInv, NEW w \in Workers, UNCHANGED hostOnly, NEW t \in Types,
           Worker!RegisterFactory(w, t) \/ Worker!AddSubscription(w, t) \/ Worker!RemoveSubscription(w, t)
    PROVE  RuntimeInv'
<1> USE DEF RuntimeInv
<1>1. /\ UNCHANGED <<conns, owner, subs, pending, line, late, up, down, starts>>
      /\ UNCHANGED <<status, nextId, instances, locals, tasks, strays>>
      /\ Open(w) /\ rpc[w] = Worker!NoCall
      /\ factories' = factories \/ factories' = [factories EXCEPT ![w] = @ \cup {t}]
      /\ \E op \in RpcOps : /\ rpc' = [rpc EXCEPT ![w] = [op |-> op, type |-> t, state |-> "sent"]]
                            /\ op = "register" => t \in factories'[w]
    BY DEF hostOnly, Worker!RegisterFactory, Worker!AddSubscription, Worker!RemoveSubscription,
           Worker!CallHost, RpcOps, WorkerTypes, Open, Worker!Open
<1>2. WorkerTypes'
    BY <1>1 DEF WorkerTypes, Rpcs
<1>3. \A v \in Workers : Open(v)' <=> Open(v)
    BY <1>1 DEF Open, Worker!Open
<1>4. \A v \in Workers : factories[v] \subseteq factories'[v] /\ (v # w => rpc'[v] = rpc[v] /\ factories'[v] = factories[v])
    BY <1>1 DEF WorkerTypes
<1>5. \A v \in Workers : \A x \in Types : Reaches(v, x) => Reaches(v, x)'
    BY <1>1, <1>4 DEF Reaches, Worker!Served, Worker!NoCall
<1>6. rpc[w].state # "queued"
    BY <1>1 DEF Worker!NoCall
<1>7. Open(w)' /\ (rpc'[w].op = "register" => rpc'[w].type \in factories'[w])
    BY <1>1, <1>3 DEF WorkerTypes
<1>8. QED
    BY <1>1, <1>2, <1>3, <1>4, <1>5, <1>6, <1>7, ProcessMoves DEF RunningIsStarted, OwnerServes

(* The call returns: who was told that it hosts a type has its agents now. *)
LEMMA ReturnStep ==
    ASSUME RuntimeInv, NEW w \in Workers, UNCHANGED hostOnly, Worker!HostAnswers(w)
    PROVE  RuntimeInv'
<1> USE DEF RuntimeInv
<1>1. /\ UNCHANGED <<conns, owner, subs, pending, line, late, up, down, starts>>
      /\ UNCHANGED <<status, nextId, factories, tasks, strays>>
      /\ rpc[w].state \in {"ok", "error"}
      /\ rpc' = [rpc EXCEPT ![w] = Worker!NoCall]
    BY DEF hostOnly, Worker!HostAnswers
<1>2. rpc[w] \in Rpcs /\ Open(w)
    BY <1>1 DEF WorkerTypes, Worker!NoCall, RunningIsStarted
<1>3. instances' = [instances EXCEPT ![w] = IF rpc[w].state = "ok" /\ rpc[w].op = "register"
                                            THEN @ \cup ({rpc[w].type} \cap Instances) ELSE @]
    BY DEF Worker!HostAnswers
<1>4. locals' = locals \/ locals' = [locals EXCEPT ![w] = @ \cup {rpc[w].type}]
      \/ locals' = [locals EXCEPT ![w] = @ \ {rpc[w].type}]
    BY DEF Worker!HostAnswers, WorkerTypes
<1>5. WorkerTypes'
    <2>1. rpc[w].type \in Types
        BY <1>2 DEF Rpcs
    <2>2. locals' \in [Workers -> SUBSET Types]
        BY <1>4, <2>1 DEF WorkerTypes
    <2>3. instances' \in [Workers -> SUBSET Types]
        BY <1>3, <2>1 DEF WorkerTypes
    <2>4. QED
        BY <1>1, <2>2, <2>3 DEF WorkerTypes
<1>6. \A v \in Workers : Open(v)' <=> Open(v)
    BY <1>1 DEF Open, Worker!Open
<1>7. \A v \in Workers : /\ instances[v] \subseteq instances'[v]
                         /\ v # w => rpc'[v] = rpc[v]
    BY <1>1, <1>3 DEF WorkerTypes
<1>8. \A v \in Workers : \A t \in Types : Reaches(v, t) => Reaches(v, t)'
    <2>1. SUFFICES ASSUME NEW v \in Workers, NEW t \in Types, Reaches(v, t) PROVE Reaches(v, t)'
        OBVIOUS
    <2>2. CASE t \in Worker!Served(v)
        BY <1>1, <1>7, <2>2 DEF Reaches, Worker!Served
    <2>3. CASE t \in Instances /\ rpc[v] = [op |-> "register", type |-> t, state |-> "ok"] /\ v = w
        <3>1. t \in instances'[v]
            BY <1>3, <2>3 DEF WorkerTypes
        <3>2. QED
            BY <3>1 DEF Reaches, Worker!Served
    <2>4. CASE t \in Instances /\ rpc[v] = [op |-> "register", type |-> t, state |-> "ok"] /\ v # w
        BY <1>7, <2>4 DEF Reaches
    <2>5. QED
        BY <2>1, <2>2, <2>3, <2>4 DEF Reaches
<1>9. rpc'[w] = Worker!NoCall /\ Worker!NoCall.op = "none"
    BY <1>1 DEF WorkerTypes, Worker!NoCall
<1>10. QED
    BY <1>1, <1>5, <1>6, <1>7, <1>8, <1>9, ProcessMoves DEF RunningIsStarted, OwnerServes

\* the parties stay as they are, and only messages move
OnlyMessages == UNCHANGED <<conns, owner, subs, late, starts, status, factories, instances, locals, rpc, strays>>

(* When only messages move, what is to show is about them.                 *)
LEMMA MessagesMove ==
    ASSUME RuntimeInv, OnlyMessages, LineMoves, HostTypes', WorkerTypes', RequestsServed',
           \A c : ~(line # <<>> /\ Head(line) = Host!Closing(c) /\ line' = Tail(line)),
           \A c \in Clients \ conns : down'[c] = <<>> /\ \A i \in Ids : pending'[c][i] = None
    PROVE  RuntimeInv'
<1> USE DEF RuntimeInv, OnlyMessages
<1>1. RunningIsStarted' /\ OwnerServes'
    BY DEF RunningIsStarted, OwnerServes, Open, Worker!Open, Client, Worker!Client, Reaches, Worker!Served,
           Clients, Worker!Clients
<1>2. Host!Leaving \subseteq Host!Leaving'
    <2>1. CASE line' = Tail(line) /\ line # <<>>
        BY <2>1, LeavingKept
    <2>2. CASE line' = line
        BY <2>2 DEF Host!Leaving
    <2>3. ASSUME NEW job \in Lookups \cup Closes, line' = Append(line, job)
          PROVE  Host!Leaving \subseteq Host!Leaving'
        <3>1. \A i \in DOMAIN line : i \in DOMAIN line' /\ line'[i] = line[i]
            BY <2>3 DEF HostTypes
        <3>2. QED
            BY <3>1 DEF Host!Leaving, Host!Closing
    <2>4. QED
        BY <2>1, <2>2, <2>3 DEF LineMoves
<1>3. NothingOutlives'
    BY <1>2 DEF NothingOutlives, Host!NothingOutlives, Clients
<1>4. StraysAreGone'
    BY DEF StraysAreGone, Known, Running, Open, Worker!Open, Client, Worker!Client
<1>5. QueuedIsCalled'
    BY QueueKept
<1>6. KnownClients'
    BY DEF KnownClients, Known, Clients, Worker!Clients
<1>7. QED
    BY <1>1, <1>3, <1>4, <1>5, <1>6

(* Requests that are on their way, as they were or in part, find their     *)
(* agents.                                                                 *)
LEMMA SameRequests ==
    ASSUME RuntimeInv, OnlyMessages,
           \A c \in Clients : \A i \in DOMAIN down'[c] : \E j \in DOMAIN down[c] : down'[c][i] = down[c][j]
    PROVE  RequestsServed'
<1> USE DEF RuntimeInv
<1>1. \A v \in Workers : /\ Client(v)' = Client(v) /\ (Open(v)' <=> Open(v))
                         /\ \A t : Reaches(v, t)' <=> Reaches(v, t)
    BY DEF OnlyMessages, Client, Worker!Client, Open, Worker!Open, Reaches, Worker!Served
<1>2. SUFFICES ASSUME NEW v \in Workers, Open(v), NEW i \in DOMAIN down'[Client(v)],
                      down'[Client(v)][i].kind = "request", NEW t, t = down'[Client(v)][i].type
               PROVE  Reaches(v, t)
    BY <1>1 DEF RequestsServed
<1>3. PICK j \in DOMAIN down[Client(v)] : down'[Client(v)][i] = down[Client(v)][j]
    BY <1>2 DEF RunningIsStarted
<1>4. QED
    BY <1>2, <1>3 DEF RequestsServed

(* What a worker that runs sends goes to the stream of its client.         *)
LEMMA WorkerSends ==
    ASSUME RuntimeInv, NEW w \in Workers, UNCHANGED hostOnly,
           \/ \E t \in Types : Worker!SendMessage(w, t)
           \/ \E e \in Events : Worker!PublishMessage(w, e)
           \/ \E k \in tasks[w] : Worker!HandleRequest(w, k)
    PROVE  RuntimeInv'
<1> USE DEF RuntimeInv
<1>1. OnlyMessages /\ UNCHANGED <<down, pending, line>>
    BY DEF hostOnly, Worker!SendMessage, Worker!PublishMessage, Worker!HandleRequest, OnlyMessages
<1>2. up' = up \/ (Open(w) /\ \E m \in Messages : up' = [up EXCEPT ![Client(w)] = Append(@, m)])
    <2>1. ASSUME NEW t \in Types, Worker!SendMessage(w, t)
          PROVE  Open(w) /\ \E m \in Messages : up' = [up EXCEPT ![Client(w)] = Append(@, m)]
        <3> DEFINE call == [client |-> Client(w), id |-> nextId[w] + 1]
                   m == [kind |-> "request", call |-> call, id |-> call.id, type |-> t]
        <3>1. Open(w) /\ Client(w) \in Clients
            BY <2>1 DEF Worker!SendMessage, Open, Worker!Open, RunningIsStarted
        <3>2. call \in Calls /\ call.id \in Ids
            BY <2>1, <3>1 DEF Worker!SendMessage, Calls
        <3>3. m \in Messages
            BY <3>2 DEF Messages, Requests
        <3>4. up' = [up EXCEPT ![Client(w)] = Append(@, m)]
            BY <2>1 DEF Worker!SendMessage, Worker!Send, Client
        <3>5. QED
            BY <3>1, <3>3, <3>4
    <2>2. ASSUME NEW e \in Events, Worker!PublishMessage(w, e)
          PROVE  Open(w) /\ \E m \in Messages : up' = [up EXCEPT ![Client(w)] = Append(@, m)]
        <3>1. [kind |-> "event", id |-> e] \in Messages
            BY DEF Messages, Notes
        <3>2. QED
            BY <2>2, <3>1 DEF Worker!PublishMessage, Worker!Send, Client, Open, Worker!Open
    <2>3. ASSUME NEW k \in tasks[w], Worker!HandleRequest(w, k)
          PROVE  up' = up \/ (Open(w) /\ \E m \in Messages : up' = [up EXCEPT ![Client(w)] = Append(@, m)])
        <3>1. k.m.call \in Calls /\ k.m.id \in Ids
            BY DEF WorkerTypes, Requests
        <3>2. [kind |-> "response", call |-> k.m.call, id |-> k.m.id] \in Messages
            BY <3>1 DEF Messages, Responses
        <3>3. QED
            BY <2>3, <3>2 DEF Worker!HandleRequest, Worker!Send, Client, Open
    <2>4. QED
        BY <2>1, <2>2, <2>3
<1>3. Open(w) => Client(w) \in Clients
    BY DEF RunningIsStarted
<1>4. up' \in [Clients -> Seq(Messages)]
    <2>1. CASE up' = up
        BY <2>1 DEF HostTypes
    <2>2. ASSUME Open(w), NEW m \in Messages, up' = [up EXCEPT ![Client(w)] = Append(@, m)]
          PROVE  up' \in [Clients -> Seq(Messages)]
        <3>1. up[Client(w)] \in Seq(Messages)
            BY <1>3, <2>2 DEF HostTypes
        <3>2. Append(up[Client(w)], m) \in Seq(Messages)
            BY <3>1, StreamFacts
        <3>3. QED
            BY <2>2, <3>2 DEF HostTypes
    <2>3. QED
        BY <1>2, <2>1, <2>2
<1>5. HostTypes'
    BY <1>1, <1>4 DEF HostTypes, OnlyMessages, Clients, Calls, Messages, Jobs
<1>6. WorkerTypes'
    <2>1. nextId' = nextId \/ nextId' = [nextId EXCEPT ![w] = @ + 1]
        BY DEF Worker!SendMessage, Worker!PublishMessage, Worker!HandleRequest
    <2>2. tasks' = tasks \/ \E k : tasks' = [tasks EXCEPT ![w] = @ \ {k}]
        BY DEF Worker!SendMessage, Worker!PublishMessage, Worker!HandleRequest
    <2>3. QED
        BY <1>1, <2>1, <2>2 DEF WorkerTypes, OnlyMessages
<1>7. RequestsServed'
    BY <1>1, SameRequests
<1>8. \A c \in Clients \ conns : down'[c] = <<>> /\ \A i \in Ids : pending'[c][i] = None
    BY <1>1 DEF NothingOutlives, Host!NothingOutlives, KnownClients, Clients
<1>9. QED
    BY <1>1, <1>5, <1>6, <1>7, <1>8, MessagesMove DEF LineMoves

(* What a worker reads is the first message of its stream.                 *)
LEMMA WorkerReads ==
    ASSUME RuntimeInv, NEW w \in Workers, UNCHANGED hostOnly, Worker!ReadLoop(w)
    PROVE  RuntimeInv'
<1> USE DEF RuntimeInv
<1> DEFINE c == Client(w)
<1>1. OnlyMessages /\ UNCHANGED <<up, pending, line, nextId>>
    BY DEF hostOnly, Worker!ReadLoop, Worker!ReadRequest, Worker!ReadResponse, Worker!ReadEvent, OnlyMessages
<1>2. /\ Open(w) /\ down[c] # <<>> /\ down' = [down EXCEPT ![c] = Tail(@)]
    BY DEF Worker!ReadLoop, Worker!ReadRequest, Worker!ReadResponse, Worker!ReadEvent, Worker!Reads, Worker!Read,
           Client, Open
<1>3. c \in Clients /\ down[c] \in Seq(Messages)
    BY <1>2 DEF RunningIsStarted, HostTypes
<1>4. HostTypes'
    <2>1. down' \in [Clients -> Seq(Messages)]
        BY <1>2, <1>3, StreamFacts DEF HostTypes
    <2>2. QED
        BY <1>1, <2>1 DEF HostTypes, OnlyMessages, Clients, Calls, Messages, Jobs
<1>5. WorkerTypes'
    <2>1. Head(down[c]).kind = "request" => Head(down[c]) \in Requests
        BY <1>2, <1>3, StreamFacts DEF Messages, Responses, Notes
    <2>2. \/ tasks' = tasks
          \/ /\ Head(down[c]).kind = "request"
             /\ tasks' = [tasks EXCEPT ![w] = @ \cup {[m |-> Head(down[c]), late |-> status[w] = "stopping"]}]
        BY DEF Worker!ReadLoop, Worker!ReadRequest, Worker!ReadResponse, Worker!ReadEvent, Worker!Reads, Client
    <2>3. tasks' \in [Workers -> SUBSET [m : Requests, late : BOOLEAN]]
        <3> DEFINE k == [m |-> Head(down[c]), late |-> status[w] = "stopping"]
        <3>1. (status[w] = "stopping") \in BOOLEAN
            OBVIOUS
        <3>2. Head(down[c]).kind = "request" => k \in [m : Requests, late : BOOLEAN]
            BY <2>1, <3>1
        <3>3. tasks' = tasks \/ (Head(down[c]).kind = "request" /\ tasks' = [tasks EXCEPT ![w] = @ \cup {k}])
            BY <2>2
        <3> HIDE DEF k, c
        <3>4. QED
            BY <3>2, <3>3 DEF WorkerTypes
    <2>4. QED
        BY <1>1, <2>3 DEF WorkerTypes, OnlyMessages
<1>6. \A d \in Clients : \A i \in DOMAIN down'[d] : \E j \in DOMAIN down[d] : down'[d][i] = down[d][j]
    <2>1. ASSUME NEW d \in Clients, d = c, NEW i \in DOMAIN down'[d]
          PROVE  \E j \in DOMAIN down[d] : down'[d][i] = down[d][j]
        BY <1>2, <1>3, <2>1, StreamFacts DEF HostTypes
    <2>2. ASSUME NEW d \in Clients, d # c, NEW i \in DOMAIN down'[d]
          PROVE  \E j \in DOMAIN down[d] : down'[d][i] = down[d][j]
        BY <1>2, <2>2 DEF HostTypes
    <2>3. QED
        BY <2>1, <2>2
<1>7. RequestsServed'
    BY <1>1, <1>6, SameRequests
<1>8. \A d \in Clients \ conns : down'[d] = <<>> /\ \A i \in Ids : pending'[d][i] = None
    BY <1>1, <1>2 DEF NothingOutlives, Host!NothingOutlives, KnownClients, HostTypes, Clients
<1>9. QED
    BY <1>1, <1>4, <1>5, <1>7, <1>8, MessagesMove DEF LineMoves

(* start: the client is a new one, for which nothing is kept or on its     *)
(* way.                                                                    *)
LEMMA Connects ==
    ASSUME RuntimeInv, NEW w \in Workers, Connect(w)
    PROVE  RuntimeInv'
<1> USE DEF RuntimeInv
<1> DEFINE c == <<w, starts[w] + 1>>
<1>1. /\ ~Open(w) /\ starts[w] < MaxStarts[w]
      /\ starts' = [starts EXCEPT ![w] = @ + 1] /\ status' = [status EXCEPT ![w] = "up"]
      /\ conns' = conns \cup {c}
      /\ UNCHANGED <<owner, subs, pending, line, late, up, down, nextId, factories, instances, locals, tasks, rpc, strays>>
    BY DEF Connect, Worker!Start, Host!OpenChannel, Open, Worker!Open
<1>2. c \in Clients /\ ~Known(c)
    <2>1. starts[w] \in Nat /\ MaxStarts[w] \in Nat
        BY RuntimeAssumption DEF WorkerTypes
    <2>2. c \in Clients
        BY <1>1, <2>1, ClientFacts
    <2>3. c[1] = w /\ c[2] = starts[w] + 1 /\ ~(starts[w] + 1 <= starts[w])
        BY <2>1
    <2>4. QED
        BY <2>2, <2>3 DEF Known
<1>3. /\ Client(w)' = c /\ Open(w)' /\ rpc[w] = Worker!NoCall
      /\ \A v \in Workers : v # w => Client(v)' = Client(v) /\ (Open(v)' <=> Open(v))
    BY <1>1 DEF Client, Worker!Client, Open, Worker!Open, WorkerTypes, RunningIsStarted
<1>4. HostTypes'
    BY <1>1, <1>2 DEF HostTypes, Clients, Calls, Messages, Jobs
<1>5. WorkerTypes'
    BY <1>1 DEF WorkerTypes
<1>6. RunningIsStarted'
    BY <1>1, <1>2, <1>3 DEF RunningIsStarted, Clients, Worker!Clients
<1>7. \A d \in Clients : Known(d) => Known(d)'
    <2>1. SUFFICES ASSUME NEW d \in Clients, Known(d) PROVE d[2] <= starts'[d[1]]
        BY DEF Known
    <2>2. d[1] \in Workers /\ d[2] \in 1..MaxStarts[d[1]] /\ MaxStarts[d[1]] \in Nat
        BY ClientFacts, RuntimeAssumption
    <2>3. starts[d[1]] \in Nat /\ d[2] \in Nat
        BY <2>2 DEF WorkerTypes
    <2>4. starts'[d[1]] = starts[d[1]] \/ starts'[d[1]] = starts[d[1]] + 1
        BY <1>1, <2>2 DEF WorkerTypes
    <2>5. QED
        BY <2>1, <2>3, <2>4 DEF Known
<1>8. KnownClients'
    <2>1. c[2] <= starts'[c[1]]
        BY <1>1 DEF WorkerTypes
    <2>2. \A d \in conns' : Known(d)'
        <3>1. \A d \in conns : Known(d)'
            BY <1>7 DEF KnownClients, HostTypes
        <3>2. QED
            BY <1>1, <2>1, <3>1 DEF Known
    <2>3. \A t \in Types : (owner[t] # None => Known(owner[t])') /\ (subs[t] # None => Known(subs[t])')
        <3>1. SUFFICES ASSUME NEW t \in Types, NEW d \in Clients, d = owner[t] \/ d = subs[t]
                       PROVE  Known(d)'
            BY <1>1 DEF HostTypes, Known
        <3>2. Known(d)
            BY <3>1, ClientFacts DEF KnownClients
        <3>3. QED
            BY <1>7, <3>2
    <2>4. QED
        BY <1>1, <2>2, <2>3 DEF KnownClients, Known, Clients, Worker!Clients
<1>9. NothingOutlives'
    BY <1>1 DEF NothingOutlives, Host!NothingOutlives, Host!Leaving
<1>10. OwnerServes'
    <2>1. \A t \in Types : owner[t] # c
        BY <1>2, ClientFacts DEF KnownClients
    <2>2. \A v \in Workers : v # w => \A t \in Types : Reaches(v, t) => Reaches(v, t)'
        BY <1>1 DEF Reaches, Worker!Served
    <2>3. rpc'[w].op # "register"
        BY <1>1, <1>3 DEF Worker!NoCall
    <2>4. QED
        BY <1>1, <1>3, <2>1, <2>2, <2>3 DEF OwnerServes
<1>11. RequestsServed'
    <2>1. down[c] = <<>>
        BY <1>2 DEF KnownClients
    <2>2. \A v \in Workers : v # w => \A t : Reaches(v, t) => Reaches(v, t)'
        BY <1>1 DEF Reaches, Worker!Served
    <2>3. SUFFICES ASSUME NEW v \in Workers, Open(v)', NEW i \in DOMAIN down[Client(v)'],
                          down[Client(v)'][i].kind = "request", NEW t, t = down[Client(v)'][i].type
                   PROVE  Reaches(v, t)'
        BY <1>1 DEF RequestsServed
    <2>4. v # w /\ Open(v) /\ Client(v)' = Client(v)
        BY <1>3, <2>1, <2>3
    <2>5. QED
        BY <2>2, <2>3, <2>4 DEF RequestsServed
<1>12. \A d \in Clients : Known(d) => (Running(d)' <=> Running(d))
    BY <1>2, <1>3, <1>1, ClientFacts DEF Running
<1>13. StraysAreGone'
    BY <1>1, <1>7, <1>12 DEF StraysAreGone, WorkerTypes
<1>14. QueuedIsCalled'
    <2>1. \A i \in DOMAIN line : line[i].kind = "register" => line[i].client \in Clients
        BY DEF HostTypes, Jobs, Lookups, Requests, Registers, Closes, Host!Aborting
    <2>2. SUFFICES ASSUME NEW i \in DOMAIN line, line[i].kind = "register", NEW d \in Clients, d = line[i].client
                   PROVE  /\ Known(d)'
                          /\ Running(d)' =>
                                /\ rpc[d[1]] = [op |-> "register", type |-> line[i].type, state |-> "queued"]
                                /\ \A j \in DOMAIN line : (line[j].kind = "register" /\ line[j].client = d) => j = i
        BY <1>1, <2>1 DEF QueuedIsCalled
    <2>3. Known(d) /\ (Running(d) =>
                          /\ rpc[d[1]] = [op |-> "register", type |-> line[i].type, state |-> "queued"]
                          /\ \A j \in DOMAIN line : (line[j].kind = "register" /\ line[j].client = d) => j = i)
        BY <2>2 DEF QueuedIsCalled
    <2>4. QED
        BY <1>7, <1>12, <2>3
<1>15. QED
    BY <1>4, <1>5, <1>6, <1>8, <1>9, <1>10, <1>11, <1>13, <1>14
-----------------------------------------------------------------------------
(* The unary calls at the host.                                            *)

(* A call of a client the host may know is answered or put in line: the    *)
(* caller, if it is there, learns of it, and what is registered with it    *)
(* has someone to clean it up or counts as late.                           *)
LEMMA ClientServed ==
    ASSUME RuntimeInv, NEW c \in Clients, NEW t \in Types, Known(c),
           UNCHANGED <<conns, pending, up, down>>, UNCHANGED uncalled,
           owner' = owner \/ owner' = [owner EXCEPT ![t] = c],
           subs' = subs \/ subs' = [subs EXCEPT ![t] = c] \/ subs' = [subs EXCEPT ![t] = None],
           owner' = owner \/ \A v \in Workers :
               (Open(v) /\ Client(v) = c) => rpc'[v] = [op |-> "register", type |-> t, state |-> "ok"],
           (owner' = owner /\ (subs' = subs \/ subs' = [subs EXCEPT ![t] = None]))
               \/ c \in conns \cup Host!Leaving \cup late',
           late \subseteq late', Host!Leaving \subseteq Host!Leaving',
           \A v \in Workers :
               \/ rpc'[v] = rpc[v]
               \/ /\ rpc[v].state \in {"sent", "queued"}
                  /\ rpc'[v].op = rpc[v].op /\ rpc'[v].type = rpc[v].type,
           rpc' \in [Workers -> Rpcs \cup {Worker!NoCall}], strays' \subseteq strays,
           line' \in Seq(Jobs), QueuedIsCalled'
    PROVE  RuntimeInv'
<1> USE DEF RuntimeInv
<1>1. UNCHANGED <<status, starts, nextId, factories, instances, locals, tasks>>
    BY DEF uncalled
<1>2. \A v \in Workers : Client(v)' = Client(v) /\ (Open(v)' <=> Open(v))
    BY <1>1 DEF Client, Worker!Client, Open, Worker!Open
<1>3. HostTypes'
    BY <1>1 DEF HostTypes, Clients, Calls, Messages, Jobs
<1>4. WorkerTypes'
    BY <1>1 DEF WorkerTypes
<1>5. RunningIsStarted'
    <2>1. \A v \in Workers : rpc[v].state \in {"sent", "queued"} => rpc[v] # Worker!NoCall
        BY DEF Worker!NoCall
    <2>2. QED
        BY <1>2, <2>1 DEF RunningIsStarted, Clients, Worker!Clients
<1>6. \A d : Known(d)' <=> Known(d)
    BY <1>1 DEF Known
<1>7. KnownClients'
    <2>1. \A x \in Types : /\ owner'[x] = owner[x] \/ owner'[x] = c
                           /\ subs'[x] = subs[x] \/ subs'[x] = c \/ subs'[x] = None
        BY DEF HostTypes
    <2>2. QED
        BY <1>1, <1>6, <2>1 DEF KnownClients, Known, Clients, Worker!Clients
<1>8. NothingOutlives'
    <2> DEFINE Kept == conns \cup Host!Leaving \cup late \cup {None}
               New == conns \cup Host!Leaving' \cup late' \cup {None}
    <2>1. Kept \subseteq New /\ \A x \in Types : owner[x] \in Kept /\ subs[x] \in Kept
        BY DEF NothingOutlives, Host!NothingOutlives
    <2>2. owner' = owner \/ (c \in New /\ owner' = [owner EXCEPT ![t] = c])
        OBVIOUS
    <2>3. \/ subs' = subs \/ subs' = [subs EXCEPT ![t] = None]
          \/ c \in New /\ subs' = [subs EXCEPT ![t] = c]
        OBVIOUS
    <2>4. None \in New
        OBVIOUS
    <2> HIDE DEF Kept, New
    <2>5. \A x \in Types : owner'[x] \in New
        BY <2>1, <2>2 DEF HostTypes
    <2>6. \A x \in Types : subs'[x] \in New
        BY <2>1, <2>3, <2>4 DEF HostTypes
    <2>7. QED
        BY <2>5, <2>6 DEF New, NothingOutlives, Host!NothingOutlives
<1>9. \A v \in Workers : \A x : Reaches(v, x) => Reaches(v, x)'
    BY <1>1 DEF Reaches, Worker!Served
<1>10. OwnerServes'
    <2>1. \A v \in Workers : Open(v) => (rpc'[v].op = "register" => rpc'[v].type \in factories[v])
        BY DEF OwnerServes
    <2>2. ASSUME NEW v \in Workers, Open(v), Client(v) = c, owner' # owner
          PROVE  Reaches(v, t)'
        <3>1. rpc'[v] = [op |-> "register", type |-> t, state |-> "ok"] /\ t \in factories[v]
            BY <2>1, <2>2
        <3>2. QED
            BY <1>1, <3>1 DEF Reaches, Worker!Served
    <2>3. ASSUME NEW v \in Workers, Open(v), NEW x \in Types, owner'[x] = Client(v)
          PROVE  Reaches(v, x)'
        <3>1. CASE owner'[x] = owner[x]
            BY <1>9, <2>3, <3>1 DEF OwnerServes
        <3>2. CASE owner'[x] # owner[x]
            <4>1. owner' # owner /\ x = t /\ Client(v) = c
                BY <2>3, <3>2 DEF HostTypes
            <4>2. QED
                BY <2>2, <2>3, <4>1
        <3>3. QED
            BY <3>1, <3>2
    <2>4. QED
        BY <1>1, <1>2, <2>1, <2>3 DEF OwnerServes
<1>11. RequestsServed'
    <2>1. SUFFICES ASSUME NEW v \in Workers, Open(v), NEW i \in DOMAIN down[Client(v)],
                          down[Client(v)][i].kind = "request", NEW x, x = down[Client(v)][i].type
                   PROVE  Reaches(v, x)'
        BY <1>2 DEF RequestsServed
    <2>2. QED
        BY <1>9, <2>1 DEF RequestsServed
<1>12. StraysAreGone'
    BY <1>1, <1>6 DEF StraysAreGone, Running, Open, Worker!Open, Client, Worker!Client
<1>13. QED
    BY <1>3, <1>4, <1>5, <1>7, <1>8, <1>10, <1>11, <1>12

(* Who is in line stays there when an abort comes first.                   *)
LEMMA Entered ==
    ASSUME NEW s \in Seq(Jobs), line' = s \/ line' = <<Host!Aborting>> \o s
    PROVE  /\ line' \in Seq(Jobs)
           /\ \E k \in {0, 1} :
                 /\ \A i \in DOMAIN s : i + k \in DOMAIN line' /\ line'[i + k] = s[i]
                 /\ \A i \in DOMAIN line' : line'[i] = Host!Aborting \/ (i - k \in DOMAIN s /\ line'[i] = s[i - k])
<1>1. CASE line' = s
    <2>1. \A i \in DOMAIN s : i + 0 = i /\ i - 0 = i
        OBVIOUS
    <2>2. QED
        BY <1>1, <2>1
<1>2. CASE line' = <<Host!Aborting>> \o s
    <2>1. Host!Aborting \in Jobs
        BY DEF Jobs
    <2> DEFINE a == Host!Aborting
    <2> HIDE DEF a
    <2>2. line' = <<a>> \o s /\ a \in Jobs
        BY <1>2, <2>1 DEF a
    <2>3. line' \in Seq(Jobs) /\ DOMAIN line' = 1..(Len(s) + 1) /\ Len(s) \in Nat /\ DOMAIN s = 1..Len(s)
        BY <2>2
    <2>4. \A i \in 1..(Len(s) + 1) : line'[i] = IF i = 1 THEN a ELSE s[i - 1]
        BY <2>2
    <2>5. QED
        BY <2>3, <2>4 DEF a
<1>3. QED
    BY <1>1, <1>2

\* what the host may do to its line when it takes up a call
Lines(c, t, answer) ==
    \/ line' = line /\ answer # "queued"
    \/ line = <<>> /\ answer = "error" /\ line' = <<Host!Aborting>> \o <<>>
    \/ answer = "queued" /\ line' = Append(line, Host!Registering(c, t))

(* What the three unary calls do at the host, in the terms of              *)
(* ClientServed.                                                           *)
LEMMA ServedFacts ==
    ASSUME HostTypes, NEW c, NEW op, NEW t, NEW answer, Served(c, op, t, answer)
    PROVE  /\ UNCHANGED <<conns, pending, up, down, lost, torn>>
           /\ owner' = owner \/ (owner' = [owner EXCEPT ![t] = c] /\ op = "register" /\ answer = "ok")
           /\ subs' = subs \/ subs' = [subs EXCEPT ![t] = c] \/ subs' = [subs EXCEPT ![t] = None]
           /\ \/ owner' = owner /\ (subs' = subs \/ subs' = [subs EXCEPT ![t] = None])
              \/ c \in conns \cup Host!Leaving \cup late'
           /\ late \subseteq late'
           /\ Lines(c, t, answer) /\ (answer = "queued" => op = "register")
           /\ answer \in {"ok", "error", "queued"}
<1>1. CASE op = "register" /\ Host!RegisterAgent(c, t, answer)
    <2>1. CASE line = <<>> /\ Host!Enter(c, t, answer, <<>>)
        <3>1. /\ owner' = IF answer = "ok" THEN [owner EXCEPT ![t] = c] ELSE owner
              /\ late' = IF answer = "ok" THEN Host!Belated(c) ELSE late
              /\ line' = IF answer = "ok" THEN <<>> ELSE <<Host!Aborting>> \o <<>>
              /\ answer \in {"ok", "error"}
            BY <2>1 DEF Host!Enter
        <3>2. Lines(c, t, answer)
            BY <2>1, <3>1 DEF Lines
        <3>3. QED
            BY <1>1, <3>1, <3>2 DEF Host!RegisterAgent, Host!Belated
    <2>2. CASE ~(line = <<>> /\ Host!Enter(c, t, answer, <<>>))
        BY <1>1, <2>2 DEF Host!RegisterAgent, Lines
    <2>3. QED
        BY <2>1, <2>2
<1>2. CASE op = "subscribe" /\ Host!AddSubscription(c, t, answer)
    BY <1>2 DEF Host!AddSubscription, Host!Belated, Lines
<1>3. CASE op = "unsubscribe" /\ Host!RemoveSubscription(c, t, answer)
    BY <1>3 DEF Host!RemoveSubscription, Lines
<1>4. QED
    BY <1>1, <1>2, <1>3 DEF Served

(* Nobody loses its place in line by it.                                   *)
LEMMA LinesKept ==
    ASSUME HostTypes, NEW c \in Clients, NEW t \in Types, NEW answer, Lines(c, t, answer)
    PROVE  /\ line' \in Seq(Jobs) /\ Host!Leaving \subseteq Host!Leaving'
           /\ \A i \in DOMAIN line' : line'[i].kind = "register" =>
                 \/ i \in DOMAIN line /\ line'[i] = line[i]
                 \/ answer = "queued" /\ i = Len(line) + 1 /\ line'[i] = Host!Registering(c, t)
           /\ \A i \in DOMAIN line : i # Len(line) + 1
<1>1. \A i \in DOMAIN line : i # Len(line) + 1
    BY DEF HostTypes
<1>2. CASE line' = line
    BY <1>1, <1>2 DEF HostTypes, Host!Leaving
<1>3. CASE line = <<>> /\ line' = <<Host!Aborting>> \o <<>>
    <2>1. line' = <<Host!Aborting>>
        BY <1>3
    <2>2. Host!Aborting \in Jobs /\ Host!Aborting.kind # "register"
        BY DEF Jobs, Host!Aborting
    <2>3. Host!Leaving = {}
        BY <1>3 DEF Host!Leaving
    <2>4. QED
        BY <1>1, <2>1, <2>2, <2>3
<1>4. CASE answer = "queued" /\ line' = Append(line, Host!Registering(c, t))
    <2> DEFINE job == Host!Registering(c, t)
    <2>1. job \in Jobs
        BY DEF Jobs, Registers, Host!Registering
    <2> HIDE DEF job
    <2>2. line' \in Seq(Jobs)
        BY <1>4, <2>1, StreamFacts DEF HostTypes, job
    <2>3. DOMAIN line' = 1..(Len(line) + 1) /\ Len(line) \in Nat /\ DOMAIN line = 1..Len(line)
        BY <1>4 DEF HostTypes
    <2>4. line'[Len(line) + 1] = job /\ \A i \in DOMAIN line : line'[i] = line[i]
        BY <1>4 DEF HostTypes, job
    <2>5. \A i \in DOMAIN line' : i \in DOMAIN line \/ i = Len(line) + 1
        BY <2>3
    <2>6. \A i \in DOMAIN line : i \in DOMAIN line'
        BY <2>3
    <2>7. Host!Leaving \subseteq Host!Leaving'
        BY <2>4, <2>6 DEF Host!Leaving, Host!Closing
    <2>8. QED
        BY <1>1, <1>4, <2>2, <2>4, <2>5, <2>7 DEF job
<1>5. QED
    BY <1>2, <1>3, <1>4 DEF Lines

(* The caller waits for the answer, or for its turn.                       *)
LEMMA CallServed ==
    ASSUME RuntimeInv, NEW w \in Workers, NEW answer, ServeCall(w, answer)
    PROVE  RuntimeInv'
<1> USE DEF RuntimeInv
<1> DEFINE c == Client(w)
           t == rpc[w].type
           op == rpc[w].op
<1>1. /\ UNCHANGED uncalled /\ strays' = strays
      /\ rpc' = [rpc EXCEPT ![w].state = answer]
      /\ rpc[w].state = "sent"
      /\ Served(c, op, t, answer)
    BY DEF ServeCall, Client
<1>2. rpc[w] \in Rpcs /\ rpc[w] # Worker!NoCall
    BY <1>1 DEF WorkerTypes, Worker!NoCall
<1>3. Open(w) /\ c \in Clients /\ t \in Types
    BY <1>2 DEF RunningIsStarted, Rpcs
<1>4. Known(c)
    BY DEF Known, Client, Worker!Client, WorkerTypes
<1>5. c[1] = w /\ \A v \in Workers : Client(v) = c => v = w
    BY DEF Client, Worker!Client
<1>6. op \in RpcOps
    BY <1>2 DEF Rpcs
<1> HIDE DEF c, t, op
<1>7. /\ rpc'[w] = [op |-> op, type |-> t, state |-> answer]
      /\ \A v \in Workers : v # w => rpc'[v] = rpc[v]
      /\ rpc' = [rpc EXCEPT ![w] = rpc'[w]]
    BY <1>1, <1>2 DEF WorkerTypes, Rpcs, op, t
<1>8. answer \in {"ok", "error", "queued"}
    BY <1>1, ServedFacts
<1>9. rpc'[w] \in Rpcs /\ rpc' \in [Workers -> Rpcs \cup {Worker!NoCall}]
    BY <1>3, <1>6, <1>7, <1>8 DEF Rpcs, WorkerTypes
<1>10. Lines(c, t, answer) /\ (answer = "queued" => op = "register")
    BY <1>1, ServedFacts
<1>11. line' \in Seq(Jobs) /\ Host!Leaving \subseteq Host!Leaving'
    BY <1>3, <1>10, LinesKept
<1>12. UNCHANGED <<starts, status>>
    BY <1>1 DEF uncalled
<1>13. \A d : (Running(d)' <=> Running(d)) /\ (Known(d)' <=> Known(d))
    BY <1>12 DEF Running, Known, Open, Worker!Open, Client, Worker!Client
<1>14. QueuedIsCalled'
    <2>1. \A i \in DOMAIN line : line[i].kind = "register" => line[i].client # c
        <3>1. SUFFICES ASSUME NEW i \in DOMAIN line, line[i].kind = "register", line[i].client = c PROVE FALSE
            OBVIOUS
        <3>2. Running(c)
            BY <1>3, <1>5 DEF Running, c
        <3>3. rpc[line[i].client[1]] = [op |-> "register", type |-> line[i].type, state |-> "queued"]
            BY <3>1, <3>2 DEF QueuedIsCalled
        <3>4. QED
            BY <1>1, <1>5, <3>1, <3>3
    <2>2. \A i \in DOMAIN line : line[i].kind = "register" => line[i].client \in Clients
        BY DEF HostTypes, Jobs, Lookups, Requests, Registers, Closes, Host!Aborting
    <2>3. \A d \in Clients : (Running(d) /\ d # c) => d[1] # w /\ d[1] \in Workers
        BY ClientFacts DEF Running, c
    <2>4. \A i \in DOMAIN line' : line'[i].kind = "register" =>
             \/ i \in DOMAIN line /\ line'[i] = line[i]
             \/ answer = "queued" /\ i = Len(line) + 1 /\ line'[i] = Host!Registering(c, t)
        BY <1>3, <1>10, LinesKept
    <2>5. Host!Registering(c, t).client = c /\ Host!Registering(c, t).type = t
        BY DEF Host!Registering
    <2>6. ASSUME NEW i \in DOMAIN line', line'[i].kind = "register", i \in DOMAIN line, line'[i] = line[i]
          PROVE  /\ Known(line[i].client)
                 /\ Running(line[i].client) =>
                       /\ rpc'[line[i].client[1]] = [op |-> "register", type |-> line[i].type, state |-> "queued"]
                       /\ \A j \in DOMAIN line' :
                             (line'[j].kind = "register" /\ line'[j].client = line[i].client) => j = i
        <3>1. line[i].client # c /\ line[i].client \in Clients
            BY <2>1, <2>2, <2>6
        <3>2. \A j \in DOMAIN line' : (line'[j].kind = "register" /\ line'[j].client = line[i].client) =>
                  j \in DOMAIN line /\ line'[j] = line[j]
            BY <2>4, <2>5, <3>1
        <3>3. Running(line[i].client) => rpc'[line[i].client[1]] = rpc[line[i].client[1]]
            BY <1>7, <2>3, <3>1
        <3>4. QED
            BY <2>6, <3>2, <3>3 DEF QueuedIsCalled
    <2>7. ASSUME NEW i \in DOMAIN line', answer = "queued", i = Len(line) + 1, line'[i] = Host!Registering(c, t)
          PROVE  /\ rpc'[c[1]] = [op |-> "register", type |-> t, state |-> "queued"]
                 /\ \A j \in DOMAIN line' : (line'[j].kind = "register" /\ line'[j].client = c) => j = i
        BY <1>5, <1>7, <1>10, <2>1, <2>4, <2>7
    <2>8. QED
        BY <1>4, <1>13, <2>4, <2>5, <2>6, <2>7 DEF QueuedIsCalled
<1>15. owner' = owner \/ \A v \in Workers :
            (Open(v) /\ Client(v) = c) => rpc'[v] = [op |-> "register", type |-> t, state |-> "ok"]
    BY <1>1, <1>5, <1>7, ServedFacts
<1>16. \A v \in Workers :
            \/ rpc'[v] = rpc[v]
            \/ /\ rpc[v].state \in {"sent", "queued"}
               /\ rpc'[v].op = rpc[v].op /\ rpc'[v].type = rpc[v].type
    BY <1>1, <1>7 DEF op, t
<1>17. QED
    BY <1>1, <1>3, <1>4, <1>9, <1>11, <1>14, <1>15, <1>16, ServedFacts, ClientServed

(* The caller is gone, and no other waits in its place.                    *)
LEMMA StrayServed ==
    ASSUME RuntimeInv, NEW k \in strays, NEW answer, ServeStray(k, answer)
    PROVE  RuntimeInv'
<1> USE DEF RuntimeInv
<1> DEFINE c == k.client
           t == k.type
<1>1. /\ UNCHANGED uncalled /\ strays' \subseteq strays /\ rpc' = rpc
      /\ Served(c, k.op, t, answer)
    BY DEF ServeStray
<1>2. c \in Clients /\ t \in Types /\ Known(c) /\ ~Running(c)
    BY DEF StraysAreGone, WorkerTypes
<1> HIDE DEF c, t
<1>3. Lines(c, t, answer)
    BY <1>1, ServedFacts
<1>4. line' \in Seq(Jobs) /\ Host!Leaving \subseteq Host!Leaving'
    BY <1>2, <1>3, LinesKept
<1>5. UNCHANGED <<starts, status>>
    BY <1>1 DEF uncalled
<1>6. \A d : (Running(d)' <=> Running(d)) /\ (Known(d)' <=> Known(d))
    BY <1>5 DEF Running, Known, Open, Worker!Open, Client, Worker!Client
<1>7. QueuedIsCalled'
    <2>1. \A i \in DOMAIN line' : line'[i].kind = "register" =>
             \/ i \in DOMAIN line /\ line'[i] = line[i]
             \/ answer = "queued" /\ i = Len(line) + 1 /\ line'[i] = Host!Registering(c, t)
        BY <1>2, <1>3, LinesKept
    <2>2. Host!Registering(c, t).client = c
        BY DEF Host!Registering
    <2>3. QED
        BY <1>1, <1>2, <1>6, <2>1, <2>2 DEF QueuedIsCalled
<1>8. \A v \in Workers : ~(Open(v) /\ Client(v) = c)
    BY <1>2, ClientFacts DEF Running, Client, Worker!Client
<1>9. rpc' \in [Workers -> Rpcs \cup {Worker!NoCall}]
    BY <1>1 DEF WorkerTypes
<1>10. QED
    BY <1>1, <1>2, <1>4, <1>7, <1>8, <1>9, ServedFacts, ClientServed

(* A registration has its turn: the caller, if it is still there, waits    *)
(* for it and for nothing else.                                            *)
LEMMA QueuedServed ==
    ASSUME RuntimeInv, NEW answer, ServeQueued(answer)
    PROVE  RuntimeInv'
<1> USE DEF RuntimeInv
<1> DEFINE job == Head(line)
           c == job.client
           t == job.type
           w == c[1]
           waits == Client(w) = c /\ rpc[w].state = "queued"
<1>1. /\ line # <<>> /\ job.kind = "register"
      /\ owner' = IF answer = "ok" THEN [owner EXCEPT ![t] = c] ELSE owner
      /\ late' = IF answer = "ok" THEN Host!Belated(c) ELSE late
      /\ line' = IF answer = "ok" THEN Tail(line) ELSE <<Host!Aborting>> \o Tail(line)
      /\ answer \in {"ok", "error"}
      /\ UNCHANGED <<conns, subs, pending, up, down>>
    BY DEF ServeQueued, Host!GrantRegister, Host!Granted, Host!Enter
<1>2. UNCHANGED uncalled /\ strays' = strays /\ rpc' = IF waits THEN [rpc EXCEPT ![w].state = answer] ELSE rpc
    BY DEF ServeQueued, Client
<1>3. job \in Jobs /\ Tail(line) \in Seq(Jobs)
    BY <1>1, StreamFacts DEF HostTypes
<1>4. job \in Registers
    BY <1>1, <1>3 DEF Jobs, Lookups, Requests, Closes, Host!Aborting
<1>5. c \in Clients /\ t \in Types /\ w \in Workers
    BY <1>4, ClientFacts DEF Registers
<1>6. 1 \in DOMAIN line /\ line[1] = job
    BY <1>1 DEF HostTypes
<1>7. /\ Known(c)
      /\ Running(c) => /\ rpc[w] = [op |-> "register", type |-> t, state |-> "queued"]
                       /\ \A j \in DOMAIN line : (line[j].kind = "register" /\ line[j].client = c) => j = 1
    <2>1. line[1].kind = "register" /\ line[1].client = c /\ line[1].type = t
        BY <1>1, <1>6
    <2> HIDE DEF job
    <2>2. QED
        BY <1>6, <2>1 DEF QueuedIsCalled
<1>8. waits => Running(c)
    <2>1. waits => rpc[w] # Worker!NoCall
        BY DEF Worker!NoCall
    <2>2. QED
        BY <1>5, <2>1 DEF RunningIsStarted, Running
<1>9. Running(c) => waits
    BY <1>7 DEF Running
<1>10. \A i \in DOMAIN Tail(line) : i + 1 \in DOMAIN line /\ i + 1 # 1 /\ Tail(line)[i] = line[i + 1] /\ i \in Nat
    BY <1>1 DEF HostTypes
<1> HIDE DEF job, c, t, w, waits
<1>11. /\ waits => rpc'[w] = [op |-> "register", type |-> t, state |-> answer]
       /\ \A v \in Workers : v # w => rpc'[v] = rpc[v]
       /\ ~waits => rpc' = rpc
    BY <1>2, <1>5, <1>7, <1>8 DEF WorkerTypes
<1>12. rpc' \in [Workers -> Rpcs \cup {Worker!NoCall}]
    <2>1. waits => rpc' = [rpc EXCEPT ![w] = rpc'[w]]
        BY <1>2, <1>5 DEF WorkerTypes
    <2>2. [op |-> "register", type |-> t, state |-> answer] \in Rpcs
        BY <1>1, <1>5 DEF Rpcs, RpcOps
    <2>3. QED
        BY <1>11, <2>1, <2>2 DEF WorkerTypes
<1>13. line' \in Seq(Jobs) /\
       \E k \in {0, 1} :
          /\ \A i \in DOMAIN Tail(line) : i + k \in DOMAIN line' /\ line'[i + k] = Tail(line)[i]
          /\ \A i \in DOMAIN line' :
                line'[i] = Host!Aborting \/ (i - k \in DOMAIN Tail(line) /\ line'[i] = Tail(line)[i - k])
    BY <1>1, <1>3, Entered
<1>14. PICK k \in {0, 1} :
          /\ \A i \in DOMAIN Tail(line) : i + k \in DOMAIN line' /\ line'[i + k] = Tail(line)[i]
          /\ \A i \in DOMAIN line' :
                line'[i] = Host!Aborting \/ (i - k \in DOMAIN Tail(line) /\ line'[i] = Tail(line)[i - k])
    BY <1>13
<1>15. UNCHANGED <<starts, status>>
    BY <1>2 DEF uncalled
<1>16. \A d : (Running(d)' <=> Running(d)) /\ (Known(d)' <=> Known(d))
    BY <1>15 DEF Running, Known, Open, Worker!Open, Client, Worker!Client
<1>17. \A i \in DOMAIN line' : line'[i].kind = "register" =>
            i - k + 1 \in DOMAIN line /\ i - k + 1 # 1 /\ line'[i] = line[i - k + 1]
    BY <1>10, <1>14 DEF Host!Aborting
<1>18. QueuedIsCalled'
    <2>1. SUFFICES ASSUME NEW i \in DOMAIN line', line'[i].kind = "register", NEW d, d = line'[i].client
                   PROVE  /\ Known(d)
                          /\ Running(d) =>
                                /\ rpc'[d[1]] = [op |-> "register", type |-> line'[i].type, state |-> "queued"]
                                /\ \A j \in DOMAIN line' : (line'[j].kind = "register" /\ line'[j].client = d) => j = i
        BY <1>16 DEF QueuedIsCalled
    <2> DEFINE n == i - k + 1
    <2>2. n \in DOMAIN line /\ n # 1 /\ line[n].kind = "register" /\ line[n].client = d /\ line[n].type = line'[i].type
        BY <1>17, <2>1
    <2>3. /\ Known(d)
          /\ Running(d) => /\ rpc[d[1]] = [op |-> "register", type |-> line[n].type, state |-> "queued"]
                           /\ \A j \in DOMAIN line : (line[j].kind = "register" /\ line[j].client = d) => j = n
        BY <2>2 DEF QueuedIsCalled
    <2>4. Running(d) => d # c
        BY <1>7, <2>2
    <2>5. d \in Clients
        <3>1. line[n] \in Jobs
            BY <2>2 DEF HostTypes
        <3>2. QED
            BY <2>2, <3>1 DEF Jobs, Lookups, Requests, Registers, Closes, Host!Aborting
    <2>6. Running(d) => rpc'[d[1]] = rpc[d[1]]
        <3>1. (Running(d) /\ waits) => d[1] # w
            BY <1>8, <2>4 DEF Running, w
        <3>2. QED
            BY <1>11, <2>5, <3>1, ClientFacts
    <2>7. \A j \in DOMAIN line' : j \in Int
        BY <1>13
    <2>8. Running(d) => \A j \in DOMAIN line' : (line'[j].kind = "register" /\ line'[j].client = d) => j = i
        <3>1. SUFFICES ASSUME Running(d), NEW j \in DOMAIN line', line'[j].kind = "register", line'[j].client = d
                       PROVE  j = i
            OBVIOUS
        <3>2. j - k + 1 \in DOMAIN line /\ line[j - k + 1].kind = "register" /\ line[j - k + 1].client = d
            BY <1>17, <3>1
        <3>3. j - k + 1 = n
            BY <2>3, <3>1, <3>2
        <3>4. QED
            BY <2>7, <3>3
    <2>9. QED
        BY <2>2, <2>3, <2>6, <2>8
<1>19. Host!Leaving \subseteq Host!Leaving'
    <2>1. SUFFICES ASSUME NEW d \in Host!Leaving PROVE \E i \in DOMAIN line' : line'[i] = Host!Closing(d)
        BY DEF Host!Leaving, Host!Closing
    <2>2. PICK i \in DOMAIN line : line[i] = Host!Closing(d)
        BY DEF Host!Leaving
    <2>3. i # 1
        BY <1>1, <1>6, <2>2 DEF Host!Closing, job
    <2>4. i - 1 \in DOMAIN Tail(line) /\ Tail(line)[i - 1] = line[i]
        BY <1>1, <2>2, <2>3 DEF HostTypes
    <2>5. QED
        BY <1>14, <2>2, <2>4
<1>20. owner' = owner \/ \A v \in Workers :
            (Open(v) /\ Client(v) = c) => rpc'[v] = [op |-> "register", type |-> t, state |-> "ok"]
    <2>1. ASSUME NEW v \in Workers, Open(v), Client(v) = c PROVE v = w /\ waits
        <3>1. v = w
            BY <2>1 DEF w, Client, Worker!Client
        <3>2. QED
            BY <1>9, <2>1, <3>1 DEF Running, w
    <2>2. QED
        BY <1>1, <1>11, <2>1
<1>21. \A v \in Workers :
            \/ rpc'[v] = rpc[v]
            \/ /\ rpc[v].state \in {"sent", "queued"}
               /\ rpc'[v].op = rpc[v].op /\ rpc'[v].type = rpc[v].type
    BY <1>7, <1>8, <1>11
<1>22. owner' = owner \/ owner' = [owner EXCEPT ![t] = c]
    BY <1>1
<1>23. late \subseteq late' /\ (owner' = owner \/ c \in conns \cup Host!Leaving \cup late')
    BY <1>1 DEF Host!Belated
<1>24. QED
    BY <1>1, <1>2, <1>5, <1>7, <1>12, <1>13, <1>18, <1>19, <1>20, <1>21, <1>22, <1>23, ClientServed
-----------------------------------------------------------------------------
(* The streams at the host.                                                *)

\* what a disconnect takes from the tables once it has the lock
Forgets(c) ==
    /\ owner' = [t \in Types |-> IF owner[t] = c THEN None ELSE owner[t]]
    /\ subs' = [t \in Types |-> IF subs[t] = c THEN None ELSE subs[t]]

(* Types and subscriptions go, and so may a connection and what is on its  *)
(* way to it: what is to show is about what they leave behind.             *)
LEMMA ClientsGo ==
    ASSUME RuntimeInv, UNCHANGED workerOnly, UNCHANGED late, HostTypes', LineMoves,
           conns' \subseteq conns,
           \A t \in Types : owner'[t] \in {owner[t], None} /\ subs'[t] \in {subs[t], None},
           \A c \in Clients : down'[c] = down[c] \/ down'[c] = <<>>,
           \A c \in conns \ conns' : down'[c] = <<>>,
           NothingOutlives'
    PROVE  RuntimeInv'
<1> USE DEF RuntimeInv
<1>1. UNCHANGED <<status, starts, nextId, factories, instances, locals, tasks, rpc, strays>>
    BY DEF workerOnly, uncalled
<1>2. WorkerTypes'
    BY <1>1 DEF WorkerTypes
<1>3. \A v \in Workers : /\ Client(v)' = Client(v) /\ (Open(v)' <=> Open(v))
                         /\ \A t : Reaches(v, t)' <=> Reaches(v, t)
    BY <1>1 DEF Client, Worker!Client, Open, Worker!Open, Reaches, Worker!Served
<1>4. RunningIsStarted'
    BY <1>1, <1>3 DEF RunningIsStarted, Clients, Worker!Clients
<1>5. \A d : (Known(d)' <=> Known(d)) /\ (Running(d)' <=> Running(d))
    BY <1>1 DEF Known, Running, Open, Worker!Open, Client, Worker!Client
<1>6. KnownClients'
    <2>1. \A d \in conns' : Known(d)'
        BY <1>5 DEF KnownClients
    <2>2. \A t \in Types : (owner'[t] # None => Known(owner'[t])) /\ (subs'[t] # None => Known(subs'[t]))
        BY DEF KnownClients
    <2>3. \A d \in Clients \ conns' : down'[d] = <<>>
        BY DEF KnownClients
    <2>4. QED
        BY <1>1, <2>1, <2>2, <2>3 DEF KnownClients, Known, Clients, Worker!Clients
<1>7. OwnerServes'
    <2>1. \A w \in Workers : Open(w) => Client(w) # None
        BY ClientFacts DEF RunningIsStarted
    <2>2. QED
        BY <1>1, <1>3, <2>1 DEF OwnerServes
<1>8. RequestsServed'
    <2>1. SUFFICES ASSUME NEW v \in Workers, Open(v), NEW i \in DOMAIN down'[Client(v)],
                          down'[Client(v)][i].kind = "request", NEW x, x = down'[Client(v)][i].type
                   PROVE  Reaches(v, x)
        BY <1>3 DEF RequestsServed
    <2>2. down'[Client(v)] = down[Client(v)]
        BY <2>1 DEF RunningIsStarted
    <2>3. QED
        BY <2>1, <2>2 DEF RequestsServed
<1>9. StraysAreGone'
    BY <1>1, <1>5 DEF StraysAreGone
<1>10. QueuedIsCalled'
    BY <1>1, QueueKept
<1>11. QED
    BY <1>2, <1>4, <1>6, <1>7, <1>8, <1>9, <1>10

(* A stream ends: its futures go with it; its types and subscriptions go   *)
(* too, or wait for their clean-up to have the lock.                       *)
LEMMA StreamEnds ==
    ASSUME RuntimeInv, NEW c \in Clients, EndStream(c)
    PROVE  RuntimeInv'
<1> USE DEF RuntimeInv
<1>1. /\ c \in conns /\ conns' = conns \ {c} /\ late' = late
      /\ pending' = [pending EXCEPT ![c] = [i \in Ids |-> None]]
      /\ up' = [up EXCEPT ![c] = <<>>] /\ down' = [down EXCEPT ![c] = <<>>]
      /\ UNCHANGED workerOnly
    BY DEF EndStream, Host!CloseChannel
<1>2. \/ line = <<>> /\ line' = line /\ Forgets(c)
      \/ line' = Append(line, Host!Closing(c)) /\ UNCHANGED <<owner, subs>>
    BY DEF EndStream, Host!CloseChannel, Host!Locking, Host!Forget, Forgets
<1>3. Host!Closing(c) \in Closes
    BY DEF Host!Closing, Closes
<1>4. LineMoves
    BY <1>2, <1>3 DEF LineMoves
<1>5. line' \in Seq(Jobs)
    BY <1>1, <1>4, QueueKept DEF workerOnly, uncalled
<1>6. HostTypes'
    <2>1. owner' \in [Types -> Clients \cup {None}] /\ subs' \in [Types -> Clients \cup {None}]
        BY <1>2 DEF HostTypes, Forgets
    <2>2. QED
        BY <1>1, <1>5, <2>1 DEF HostTypes, Clients, Calls, Messages, Jobs, Worker!Clients
<1>7. \A t \in Types : owner'[t] \in {owner[t], None} /\ subs'[t] \in {subs[t], None}
    BY <1>2 DEF Forgets
<1>8. \A d \in Clients : down'[d] = down[d] \/ down'[d] = <<>>
    BY <1>1 DEF HostTypes
<1>9. \A d \in conns \ conns' : down'[d] = <<>>
    BY <1>1 DEF HostTypes
<1>10. NothingOutlives'
    <2>1. \A d \in Clients \ conns', i \in Ids : pending'[d][i] = None
        BY <1>1 DEF NothingOutlives, Host!NothingOutlives, HostTypes, Clients
    <2>2. \A t \in Types : /\ owner[t] \in conns \cup Host!Leaving \cup late \cup {None}
                           /\ subs[t] \in conns \cup Host!Leaving \cup late \cup {None}
        BY DEF NothingOutlives, Host!NothingOutlives
    <2>3. CASE line = <<>> /\ line' = line /\ Forgets(c)
        <3>1. Host!Leaving = {}
            BY <2>3 DEF Host!Leaving
        <3>2. \A t \in Types : owner'[t] \in conns' \cup late \cup {None} /\ subs'[t] \in conns' \cup late \cup {None}
            BY <1>1, <2>2, <2>3, <3>1 DEF Forgets
        <3>3. QED
            BY <1>1, <2>1, <3>2 DEF NothingOutlives, Host!NothingOutlives, Clients, Worker!Clients
    <2>4. CASE line' = Append(line, Host!Closing(c)) /\ UNCHANGED <<owner, subs>>
        <3>1. \A i \in DOMAIN line : i \in DOMAIN line' /\ line'[i] = line[i]
            BY <2>4 DEF HostTypes
        <3>2. Len(line) + 1 \in DOMAIN line' /\ line'[Len(line) + 1] = Host!Closing(c)
            BY <2>4 DEF HostTypes
        <3>3. Host!Leaving \cup {c} \subseteq Host!Leaving'
            BY <3>1, <3>2 DEF Host!Leaving, Host!Closing, Clients
        <3>4. \A t \in Types : /\ owner'[t] \in conns' \cup Host!Leaving' \cup late' \cup {None}
                               /\ subs'[t] \in conns' \cup Host!Leaving' \cup late' \cup {None}
            BY <1>1, <2>2, <2>4, <3>3
        <3>5. QED
            BY <2>1, <3>4 DEF NothingOutlives, Host!NothingOutlives, Clients, Worker!Clients
    <2>5. QED
        BY <1>2, <2>3, <2>4
<1>11. QED
    BY <1>1, <1>4, <1>6, <1>7, <1>8, <1>9, <1>10, ClientsGo

(* The clean-up of a client has its turn.                                  *)
LEMMA CloseGranted ==
    ASSUME RuntimeInv, UNCHANGED workerOnly, line # <<>>, Head(line).kind = "close",
           Forgets(Head(line).client), line' = Tail(line), UNCHANGED <<conns, late, pending, up, down>>
    PROVE  RuntimeInv'
<1> USE DEF RuntimeInv
<1>1. Head(line) \in Jobs
    BY StreamFacts DEF HostTypes
<1>2. Head(line) \in Closes
    BY <1>1 DEF Jobs, Lookups, Requests, Registers, Host!Aborting
<1>3. PICK c \in Clients : Head(line) = Host!Closing(c) /\ Head(line).client = c
    BY <1>2 DEF Closes, Host!Closing
<1>4. LineMoves
    BY DEF LineMoves
<1>5. HostTypes'
    <2>1. owner' \in [Types -> Clients \cup {None}] /\ subs' \in [Types -> Clients \cup {None}]
        BY DEF HostTypes, Forgets
    <2>2. line' \in Seq(Jobs)
        BY StreamFacts DEF HostTypes
    <2>3. QED
        BY <2>1, <2>2 DEF HostTypes, Clients, Calls, Messages, Jobs, Worker!Clients
<1>6. \A t \in Types : owner'[t] \in {owner[t], None} /\ subs'[t] \in {subs[t], None}
    BY DEF Forgets
<1>7. NothingOutlives'
    <2>1. \A d \in Host!Leaving : d \in Host!Leaving' \/ d = c
        BY <1>3, <1>4, LeavingKept DEF Host!Closing
    <2>2. \A t \in Types : /\ owner'[t] \in ((conns \cup Host!Leaving \cup late) \ {c}) \cup {None}
                           /\ subs'[t] \in ((conns \cup Host!Leaving \cup late) \ {c}) \cup {None}
        BY <1>3 DEF NothingOutlives, Host!NothingOutlives, Forgets
    <2>3. \A t \in Types : /\ owner'[t] \in conns' \cup Host!Leaving' \cup late' \cup {None}
                           /\ subs'[t] \in conns' \cup Host!Leaving' \cup late' \cup {None}
        BY <2>1, <2>2
    <2>4. QED
        BY <2>3 DEF NothingOutlives, Host!NothingOutlives, Clients, Worker!Clients
<1>8. QED
    BY <1>4, <1>5, <1>6, <1>7, ClientsGo

\* the message a routing step adds to the stream of d, if it adds one
Adds(d, m) == down'[d] = Append(down[d], m)

(* A step of the host that only routes: what it adds to the streams of     *)
(* connected clients are events, responses, and requests to the owner of   *)
(* their type; what it cannot route yet is put in line.                    *)
LEMMA Routed ==
    ASSUME RuntimeInv, up' \in [Clients -> Seq(Messages)],
           LineMoves, line # <<>> /\ line' = Tail(line) => Head(line).kind # "close",
           UNCHANGED <<conns, owner, subs, late>>, UNCHANGED workerOnly,
           pending' \in [Clients -> [Ids -> Calls \cup {None}]],
           \A d \in Clients \ conns : pending'[d] = pending[d],
           down' = [d \in Clients |-> down'[d]],
           \A d \in Clients :
               \/ down'[d] = down[d]
               \/ /\ d \in conns
                  /\ \E m \in Messages : /\ Adds(d, m)
                                         /\ m.kind = "request" => owner[m.type] = d /\ m.type \in Types
    PROVE  RuntimeInv'
<1> USE DEF RuntimeInv
<1>1. OnlyMessages /\ UNCHANGED <<nextId, tasks>>
    BY DEF workerOnly, uncalled, OnlyMessages
<1>2. \A d \in Clients : down'[d] \in Seq(Messages)
    <2>1. SUFFICES ASSUME NEW d \in Clients PROVE down'[d] \in Seq(Messages)
        OBVIOUS
    <2>2. down[d] \in Seq(Messages)
        BY DEF HostTypes
    <2>3. \A m \in Messages : Append(down[d], m) \in Seq(Messages)
        BY <2>2, StreamFacts
    <2>4. QED
        BY <2>2, <2>3 DEF Adds
<1>3. HostTypes'
    <2>1. down' \in [Clients -> Seq(Messages)]
        BY <1>2
    <2>2. line' \in Seq(Jobs)
        BY <1>1, QueueKept DEF OnlyMessages
    <2>3. QED
        BY <1>1, <2>1, <2>2 DEF HostTypes, OnlyMessages, Clients, Calls, Messages, Jobs
<1>4. WorkerTypes'
    BY <1>1 DEF WorkerTypes, OnlyMessages
<1>5. RequestsServed'
    <2>1. \A v \in Workers : /\ Client(v)' = Client(v) /\ (Open(v)' <=> Open(v))
                             /\ \A t : Reaches(v, t)' <=> Reaches(v, t)
        BY <1>1 DEF OnlyMessages, Client, Worker!Client, Open, Worker!Open, Reaches, Worker!Served
    <2>2. SUFFICES ASSUME NEW v \in Workers, Open(v), NEW i \in DOMAIN down'[Client(v)],
                          down'[Client(v)][i].kind = "request", NEW x, x = down'[Client(v)][i].type
                   PROVE  Reaches(v, x)
        BY <2>1 DEF RequestsServed
    <2>3. Client(v) \in Clients /\ down[Client(v)] \in Seq(Messages)
        BY <2>2 DEF RunningIsStarted, HostTypes
    <2>4. \A j \in DOMAIN down[Client(v)] :
            down[Client(v)][j].kind = "request" => Reaches(v, down[Client(v)][j].type)
        BY <2>2 DEF RequestsServed
    <2>5. CASE down'[Client(v)] = down[Client(v)]
        BY <2>2, <2>4, <2>5
    <2>6. ASSUME NEW m \in Messages, Adds(Client(v), m),
                 m.kind = "request" => owner[m.type] = Client(v) /\ m.type \in Types
          PROVE  Reaches(v, x)
        <3>1. \/ down'[Client(v)][i] = m
              \/ i \in DOMAIN down[Client(v)] /\ down'[Client(v)][i] = down[Client(v)][i]
            BY <2>2, <2>3, <2>6, StreamFacts DEF Adds
        <3>2. m.kind = "request" => Reaches(v, m.type)
            BY <2>2, <2>6 DEF OwnerServes
        <3>3. QED
            BY <2>2, <2>4, <3>1, <3>2
    <2>7. QED
        BY <2>3, <2>5, <2>6
<1>6. \A d \in Clients \ conns : down'[d] = <<>> /\ \A i \in Ids : pending'[d][i] = None
    BY DEF NothingOutlives, Host!NothingOutlives, Clients, KnownClients
<1>7. \A c : ~(line # <<>> /\ Head(line) = Host!Closing(c) /\ line' = Tail(line))
    BY DEF Host!Closing
<1>8. QED
    BY <1>1, <1>3, <1>4, <1>5, <1>6, <1>7, MessagesMove

(* A request with the lock goes to the owner of its type.                  *)
LEMMA Delivers ==
    ASSUME RuntimeInv, NEW m \in Requests, Host!Deliver(m)
    PROVE  /\ pending' \in [Clients -> [Ids -> Calls \cup {None}]]
           /\ \A d \in Clients \ conns : pending'[d] = pending[d]
           /\ down' = [d \in Clients |-> down'[d]]
           /\ \A d \in Clients :
                 \/ down'[d] = down[d]
                 \/ d \in conns /\ Adds(d, m) /\ owner[m.type] = d /\ m.type \in Types
<1> USE DEF RuntimeInv
<1> DEFINE target == owner[m.type]
<1>1. m.type \in Types /\ m.id \in Ids /\ m.call \in Calls
    BY DEF Requests
<1>2. CASE target \in conns
    <2>1. /\ down' = [down EXCEPT ![target] = Append(@, m)]
          /\ pending' = [pending EXCEPT ![target][m.id] = m.call]
        BY <1>2 DEF Host!Deliver
    <2>2. target \in Clients
        BY <1>2 DEF HostTypes
    <2>3. pending' \in [Clients -> [Ids -> Calls \cup {None}]]
        BY <1>1, <2>1, <2>2 DEF HostTypes
    <2>4. \A d \in Clients \ conns : pending'[d] = pending[d]
        BY <1>2, <2>1 DEF HostTypes
    <2>5. down' = [d \in Clients |-> down'[d]]
        BY <2>1 DEF HostTypes
    <2>6. \A d \in Clients : down'[d] = down[d] \/ (d = target /\ Adds(d, m))
        BY <2>1 DEF HostTypes, Adds
    <2>7. QED
        BY <1>1, <1>2, <2>3, <2>4, <2>5, <2>6
<1>3. CASE target \notin conns
    <2>1. down' = down /\ pending' = pending
        BY <1>3 DEF Host!Deliver
    <2>2. QED
        BY <2>1 DEF HostTypes
<1>4. QED
    BY <1>2, <1>3

(* An event with the lock goes to connected clients.                       *)
LEMMA Spreads ==
    ASSUME RuntimeInv, NEW e \in Events, NEW to, NEW listening, Host!Spread(e, to, listening)
    PROVE  /\ down' = [d \in Clients |-> down'[d]]
           /\ [kind |-> "event", id |-> e] \in Messages
           /\ \A d \in Clients :
                 \/ down'[d] = down[d]
                 \/ d \in conns /\ Adds(d, [kind |-> "event", id |-> e])
<1> DEFINE m == [kind |-> "event", id |-> e]
<1>1. m \in Messages
    BY DEF Messages, Notes
<1>2. PICK served \in SUBSET conns :
        down' = [d \in Clients |-> IF d \in served THEN Append(down[d], m) ELSE down[d]]
    BY DEF Host!Spread, Clients
<1> HIDE DEF m
<1>3. \A d \in Clients : down'[d] = down[d] \/ (d \in conns /\ Adds(d, m))
    BY <1>2 DEF Adds
<1>4. QED
    BY <1>1, <1>2, <1>3 DEF m

(* _process_request, _process_response and _process_event route what they  *)
(* received, or wait for the lock with it.                                 *)
LEMMA Routes ==
    ASSUME RuntimeInv, NEW c \in Clients, Route(c)
    PROVE  RuntimeInv'
<1> USE DEF RuntimeInv
<1> DEFINE m == Head(up[c])
<1>1. /\ c \in conns /\ up[c] # <<>> /\ up' = [up EXCEPT ![c] = Tail(@)]
      /\ UNCHANGED <<conns, owner, subs, late>> /\ UNCHANGED workerOnly
    BY DEF Route, Host!HostReceives, Host!ProcessRequest, Host!ProcessResponse, Host!ProcessEvent,
           Host!Received, Host!Taken
<1>2. m \in Messages /\ Tail(up[c]) \in Seq(Messages)
    BY <1>1, StreamFacts DEF HostTypes
<1>3. up' \in [Clients -> Seq(Messages)]
    BY <1>1, <1>2 DEF HostTypes
<1>4. \A job : line # <<>> /\ line' = Append(line, job) => line' # Tail(line)
    BY DEF HostTypes
<1>5. CASE Host!ProcessRequest(c)
    <2>1. m \in Requests
        BY <1>2, <1>5 DEF Host!ProcessRequest, Host!Received, Messages, Responses, Notes
    <2>2. \/ line' = line /\ line = <<>> /\ Host!Deliver(m)
          \/ line' = Append(line, m) /\ line # <<>> /\ UNCHANGED <<pending, down>>
        BY <1>5 DEF Host!ProcessRequest, Host!Locking
    <2> HIDE DEF m
    <2>3. CASE line' = line /\ line = <<>> /\ Host!Deliver(m)
        <3>1. m \in Messages
            BY <2>1 DEF Messages
        <3>2. LineMoves
            BY <2>3 DEF LineMoves
        <3>3. QED
            BY <1>1, <1>3, <2>1, <2>3, <3>1, <3>2, Delivers, Routed
    <2>4. CASE line' = Append(line, m) /\ line # <<>> /\ UNCHANGED <<pending, down>>
        <3>1. LineMoves
            BY <2>1, <2>4 DEF LineMoves, Lookups
        <3>2. QED
            BY <1>1, <1>3, <1>4, <2>4, <3>1, Routed DEF HostTypes
    <2>5. QED
        BY <2>2, <2>3, <2>4
<1>6. CASE Host!ProcessResponse(c)
    <2> DEFINE call == pending[c][m.id]
    <2>1. m \in Responses
        BY <1>2, <1>6 DEF Host!ProcessResponse, Host!Received, Messages, Requests, Notes
    <2>2. m.id \in Ids /\ m.kind # "request"
        BY <2>1 DEF Responses
    <2>3. /\ pending' = [pending EXCEPT ![c][m.id] = None]
          /\ \/ down' = down
             \/ call.client \in conns /\ down' = [down EXCEPT ![call.client] = Append(@, m)]
          /\ line' = line
        BY <1>6 DEF Host!ProcessResponse
    <2> HIDE DEF m
    <2>4. pending' \in [Clients -> [Ids -> Calls \cup {None}]]
        BY <2>2, <2>3 DEF HostTypes
    <2>5. \A d \in Clients \ conns : pending'[d] = pending[d]
        BY <1>1, <2>3 DEF HostTypes
    <2>6. down' = [d \in Clients |-> down'[d]]
        BY <2>3 DEF HostTypes
    <2>7. \A d \in Clients : down'[d] = down[d] \/ (d \in conns /\ Adds(d, m))
        BY <2>3 DEF HostTypes, Adds
    <2>8. LineMoves /\ (line # <<>> => line' # Tail(line))
        <3>1. line # <<>> => Tail(line) # line
            BY DEF HostTypes
        <3>2. QED
            BY <2>3, <3>1 DEF LineMoves
    <2>9. QED
        BY <1>1, <1>2, <1>3, <2>2, <2>4, <2>5, <2>6, <2>7, <2>8, Routed
<1>7. CASE Host!ProcessEvent(c, Listening)
    <2> DEFINE to == {t \in Types : subs[t] # None}
               job == [kind |-> "event", id |-> m.id, to |-> to]
    <2>1. m \in Notes
        BY <1>2, <1>7 DEF Host!ProcessEvent, Host!Received, Messages, Requests, Responses
    <2>2. m.id \in Events /\ pending' = pending
        BY <1>7, <2>1 DEF Notes, Host!ProcessEvent
    <2>3. \/ line' = line /\ line = <<>> /\ Host!Spread(m.id, to, Listening)
          \/ line' = Append(line, job) /\ line # <<>> /\ down' = down
        BY <1>7 DEF Host!ProcessEvent, Host!Locking
    <2>4. job \in Lookups
        BY <2>2 DEF Lookups
    <2> HIDE DEF m, to, job
    <2>5. CASE line' = line /\ line = <<>> /\ Host!Spread(m.id, to, Listening)
        <3> DEFINE note == [kind |-> "event", id |-> m.id]
        <3>1. LineMoves
            BY <2>5 DEF LineMoves
        <3>2. /\ down' = [d \in Clients |-> down'[d]] /\ note \in Messages /\ note.kind # "request"
              /\ \A d \in Clients : down'[d] = down[d] \/ (d \in conns /\ Adds(d, note))
            BY <2>2, <2>5, Spreads
        <3> HIDE DEF note
        <3>3. QED
            BY <1>1, <1>3, <2>2, <2>5, <3>1, <3>2, Routed DEF HostTypes
    <2>6. CASE line' = Append(line, job) /\ line # <<>> /\ down' = down
        <3>1. LineMoves
            BY <2>4, <2>6 DEF LineMoves
        <3>2. QED
            BY <1>1, <1>3, <1>4, <2>2, <2>6, <3>1, Routed DEF HostTypes
    <2>7. QED
        BY <2>3, <2>5, <2>6
<1>8. QED
    BY <1>5, <1>6, <1>7 DEF Route, Host!HostReceives

(* The first in line has the lock: a request, an event, a clean-up, or the *)
(* end of an abort.                                                        *)
LEMMA Grants ==
    ASSUME RuntimeInv, Host!Grant(Listening), UNCHANGED workerOnly
    PROVE  RuntimeInv'
<1> USE DEF RuntimeInv
<1> DEFINE m == Head(line)
<1>1. line # <<>> /\ line' = Tail(line) /\ UNCHANGED <<conns, late, up>>
    BY DEF Host!Grant, Host!Granted
<1>2. m \in Jobs
    BY <1>1, StreamFacts DEF HostTypes
<1>3. up' \in [Clients -> Seq(Messages)]
    BY <1>1 DEF HostTypes
<1>4. m.kind # "register" => LineMoves
    BY <1>1 DEF LineMoves
<1>5. CASE Host!Granted("request") /\ Host!Deliver(m) /\ UNCHANGED <<owner, subs, due, torn>>
    <2>1. m.kind = "request"
        BY <1>5 DEF Host!Granted
    <2>2. m \in Requests /\ m \in Messages
        BY <1>2, <2>1 DEF Jobs, Lookups, Registers, Closes, Host!Aborting, Messages
    <2> HIDE DEF m
    <2>3. QED
        BY <1>1, <1>3, <1>4, <1>5, <2>1, <2>2, Delivers, Routed DEF m
<1>6. CASE Host!Granted("event") /\ Host!Spread(m.id, m.to, Listening) /\ UNCHANGED <<owner, subs, pending, lost>>
    <2> DEFINE note == [kind |-> "event", id |-> m.id]
    <2>1. m.kind = "event"
        BY <1>6 DEF Host!Granted
    <2>2. m.id \in Events
        BY <1>2, <2>1 DEF Jobs, Lookups, Requests, Registers, Closes, Host!Aborting
    <2>3. /\ down' = [d \in Clients |-> down'[d]] /\ note \in Messages /\ note.kind # "request"
          /\ \A d \in Clients : down'[d] = down[d] \/ (d \in conns /\ Adds(d, note))
        BY <1>6, <2>2, Spreads
    <2> HIDE DEF note
    <2>4. QED
        BY <1>1, <1>3, <1>4, <1>6, <2>1, <2>3, Routed DEF HostTypes
<1>7. CASE Host!Granted("close") /\ Host!Forget(m.client) /\ UNCHANGED <<pending, lost, due, torn, down>>
    BY <1>1, <1>7, CloseGranted DEF Host!Granted, Host!Forget, Forgets
<1>8. CASE Host!Granted("abort") /\ UNCHANGED <<owner, subs, pending, lost, due, torn, down>>
    BY <1>1, <1>3, <1>4, <1>8, Routed DEF Host!Granted, HostTypes
<1>9. QED
    BY <1>5, <1>6, <1>7, <1>8 DEF Host!Grant
-----------------------------------------------------------------------------
(* Every step of the workers, the host and the network between them keeps  *)
(* the invariant.                                                          *)
LEMMA RuntimeStep ==
    ASSUME RuntimeInv, [Next]_vars
    PROVE  RuntimeInv'
<1>1. CASE UNCHANGED vars
    <2>1. OnlyMessages /\ LineMoves /\ UNCHANGED <<pending, line, up, down, nextId, tasks>>
        BY <1>1 DEF vars, hostOnly, workerOnly, uncalled, OnlyMessages, LineMoves
    <2>2. HostTypes' /\ WorkerTypes'
        BY <2>1 DEF RuntimeInv, HostTypes, WorkerTypes, OnlyMessages, Clients, Calls, Messages, Jobs
    <2>3. RequestsServed'
        BY <2>1, SameRequests
    <2>4. \A c \in Clients \ conns : down'[c] = <<>> /\ \A i \in Ids : pending'[c][i] = None
        BY <2>1 DEF RuntimeInv, NothingOutlives, Host!NothingOutlives, KnownClients, Clients
    <2>5. line # <<>> => line' # Tail(line)
        BY <2>1 DEF RuntimeInv, HostTypes
    <2>6. QED
        BY <2>1, <2>2, <2>3, <2>4, <2>5, MessagesMove
<1>2. ASSUME NEW w \in Workers, Application(w)
      PROVE  RuntimeInv'
    <2>1. CASE Connect(w)
        BY <2>1, Connects
    <2>2. CASE \E e \in Events : Publish(w, e)
        BY <2>2, WorkerSends DEF Publish
    <2>3. CASE \E t \in Types : Locally(Worker!SendMessage(w, t))
        BY <2>3, WorkerSends DEF Locally
    <2>4. CASE Locally(Worker!Stop(w)) \/ Locally(Worker!Crash(w))
        BY <2>4, StopStep DEF Locally
    <2>5. CASE \E t \in Types : \/ Locally(Worker!RegisterFactory(w, t))
                                \/ Locally(Worker!AddSubscription(w, t))
                                \/ Locally(Worker!RemoveSubscription(w, t))
        BY <2>5, CallStep DEF Locally
    <2>6. QED
        BY <1>2, <2>1, <2>2, <2>3, <2>4, <2>5 DEF Application
<1>3. ASSUME NEW w \in Workers, ServeCalls(w) \/ Reads(w) \/ Handles(w) \/ Returns(w)
      PROVE  RuntimeInv'
    BY <1>3, CallServed, WorkerReads, WorkerSends, StopStep, ReturnStep
       DEF ServeCalls, Reads, Handles, Returns, Locally
<1>4. ASSUME NEW c \in Clients, Route(c) \/ EndStream(c)
      PROVE  RuntimeInv'
    BY <1>4, Routes, StreamEnds
<1>5. ASSUME NEW k \in strays, NEW answer \in Answers, ServeStray(k, answer)
      PROVE  RuntimeInv'
    BY <1>5, StrayServed
<1>6. CASE NextInLine
    BY <1>6, Grants, QueuedServed DEF NextInLine
<1>7. QED
    BY <1>1, <1>2, <1>3, <1>4, <1>5, <1>6 DEF Next, Clients

(* The inductive invariant holds whatever starts, stops and breaks.        *)
LEMMA RuntimeInvariant == Spec => []RuntimeInv
<1>1. RuntimeInv /\ [Next]_vars => RuntimeInv'
    BY RuntimeStep
<1>2. QED
    BY RuntimeInit, <1>1, PTL DEF Spec

(* The types and subscriptions at the host belong to a client that is      *)
(* connected, to one whose _on_client_disconnect waits for the lock, or to *)
(* one whose call came in after that; and no future waits for the answer   *)
(* of a client that left.                                                  *)
THEOREM HostForgets == Spec => []NothingOutlives
<1>1. RuntimeInv => NothingOutlives
    BY DEF RuntimeInv
<1>2. QED
    BY <1>1, RuntimeInvariant, PTL

(* A request that reaches a worker finds its agent or the factory of its   *)
(* agent, or the register_agent_instance call that is about to store it,   *)
(* through registrations, aborts, crashes, stops and restarts in any       *)
(* order.                                                                  *)
THEOREM RequestsFindHandlers == Spec => []HandlerIsThere
<1>1. RuntimeInv => HandlerIsThere
    <2>1. SUFFICES ASSUME RequestsServed, NEW w \in Workers, Open(w), NEW i \in DOMAIN down[Client(w)],
                          down[Client(w)][i].kind = "request", NEW t, t = down[Client(w)][i].type
                   PROVE  t \in Worker!Served(w) \/ (t \in Instances /\ rpc[w].op = "register" /\ rpc[w].type = t)
        BY DEF RuntimeInv, HandlerIsThere, Worker!HandlerIsThere, Client, Open
    <2>2. Reaches(w, t)
        BY <2>1 DEF RequestsServed
    <2>3. QED
        BY <2>2 DEF Reaches
<1>2. QED
    BY <1>1, RuntimeInvariant, PTL
-----------------------------------------------------------------------------
(* Events, when each type is served by one worker.                         *)

OneWorkerPerType == \A x, y \in Serves : x[2] = y[2] => x[1] = y[1]

\* what the host has yet to look at: the streams of the clients, and the line
\* for its lock
Sources == Clients \cup {None}
Inbox(s) == IF s = None THEN line ELSE up[s]
Items == Messages \cup Jobs

Note(e) == [kind |-> "event", id |-> e]
IsNote(m, e) == m.kind = "event" /\ m.id = e
In(q, e) == \E i \in DOMAIN q : IsNote(q[i], e)
Once(q, e) == \A i, j \in DOMAIN q : (IsNote(q[i], e) /\ IsNote(q[j], e)) => i = j

\* an event is on its way to the host, or waits there, once
SentOnce ==
    \A e \in Events, s \in Sources :
        /\ Once(Inbox(s), e)
        /\ In(Inbox(s), e) => e \in published /\ \A r \in Sources : In(Inbox(r), e) => r = s

\* and after that, once on the way to each client
RoutedOnce ==
    \A e \in Events, c \in Clients :
        /\ Once(down[c], e)
        /\ In(down[c], e) => e \in published /\ \A s \in Sources : ~In(Inbox(s), e)

\* what an agent was given is not on its way to its worker again
HeardOnce ==
    \A e \in Events, t \in Types : heard[<<e, t>>] # 0 =>
        /\ heard[<<e, t>>] = 1
        /\ e \in published
        /\ \A s \in Sources : ~In(Inbox(s), e)
        /\ \A w \in Workers : (Open(w) /\ <<w, t>> \in Serves) => ~In(down[Client(w)], e)

\* a worker subscribes what it serves, and has or knows how to make
LocalsServed ==
    \A w \in Workers :
        /\ locals[w] \subseteq Worker!Served(w)
        /\ instances[w] \subseteq factories[w]
        /\ rpc[w] # Worker!NoCall => rpc[w].type \in factories[w]
        /\ rpc[w].op = "subscribe" => rpc[w].type \in Worker!Served(w)
        /\ \A t \in factories[w] : <<w, t>> \in Serves

\* while a worker learns that its subscription is gone, nothing is promised
\* to its agent
Unsubscribed ==
    \A w \in Workers : (rpc[w].op = "unsubscribe" /\ rpc[w].state = "ok") =>
        /\ subs[rpc[w].type] # Client(w)
        /\ \A d \in due : d[2] = rpc[w].type => d[3] # Client(w)

\* what was promised to an agent was given to it or is on its way, and its
\* worker still knows of the subscription
Promised(d) ==
    \/ d[1] \in torn
    \/ Attends(d[3]) => /\ d[2] \in locals[d[3][1]]
                        /\ heard[<<d[1], d[2]>>] # 0 \/ In(down[d[3]], d[1])

EventTypes ==
    /\ reader \in [Workers -> {"none", "on", "over"}]
    /\ heard \in [Events \X Types -> Nat]
    /\ due \subseteq Events \X Types \X Clients

DueKept == \A d \in due : Known(d[3]) /\ Promised(d)

EventInv ==
    /\ EventTypes /\ SentOnce /\ RoutedOnce /\ HeardOnce
    /\ LocalsServed /\ Unsubscribed /\ DueKept

(* What putting a message on a stream, and taking one off it, does to the  *)
(* events on it.                                                           *)
LEMMA NoteAppended ==
    ASSUME NEW S, NEW q \in Seq(S), NEW m \in S, NEW e
    PROVE  /\ In(Append(q, m), e) <=> In(q, e) \/ IsNote(m, e)
           /\ (Once(q, e) /\ (IsNote(m, e) => ~In(q, e))) => Once(Append(q, m), e)
<1> DEFINE r == Append(q, m)
<1>1. /\ DOMAIN q = 1..Len(q) /\ Len(q) \in Nat /\ DOMAIN r = 1..(Len(q) + 1)
      /\ r[Len(q) + 1] = m /\ \A i \in 1..Len(q) : r[i] = q[i]
    OBVIOUS
<1> HIDE DEF r
<1>2. \A i \in DOMAIN r : i = Len(q) + 1 \/ i \in DOMAIN q
    BY <1>1
<1>3. DOMAIN q \subseteq DOMAIN r /\ Len(q) + 1 \in DOMAIN r
    BY <1>1
<1>4. In(r, e) <=> In(q, e) \/ IsNote(m, e)
    BY <1>1, <1>2, <1>3 DEF In
<1>5. (Once(q, e) /\ (IsNote(m, e) => ~In(q, e))) => Once(r, e)
    BY <1>1, <1>2 DEF Once, In
<1>6. QED
    BY <1>4, <1>5 DEF r

LEMMA NoteTaken ==
    ASSUME NEW S, NEW q \in Seq(S), q # <<>>, NEW e
    PROVE  /\ In(q, e) <=> IsNote(Head(q), e) \/ In(Tail(q), e)
           /\ Once(q, e) => Once(Tail(q), e)
           /\ (Once(q, e) /\ IsNote(Head(q), e)) => ~In(Tail(q), e)
<1> DEFINE r == Tail(q)
<1>1. /\ DOMAIN q = 1..Len(q) /\ Len(q) \in Nat \ {0} /\ DOMAIN r = 1..(Len(q) - 1)
      /\ \A i \in DOMAIN r : r[i] = q[i + 1] /\ Head(q) = q[1]
    OBVIOUS
<1>2. Head(q) = q[1]
    OBVIOUS
<1> HIDE DEF r
<1>3. \A i \in DOMAIN r : i + 1 \in DOMAIN q /\ i + 1 # 1 /\ r[i] = q[i + 1]
    BY <1>1
<1>4. \A i \in DOMAIN q : i = 1 \/ (i - 1 \in DOMAIN r /\ r[i - 1] = q[i])
    BY <1>1
<1>5. 1 \in DOMAIN q
    BY <1>1
<1>6. In(q, e) <=> IsNote(Head(q), e) \/ In(r, e)
    BY <1>2, <1>3, <1>4, <1>5 DEF In
<1>7. Once(q, e) => Once(r, e)
    <2>1. SUFFICES ASSUME Once(q, e), NEW i \in DOMAIN r, NEW j \in DOMAIN r, IsNote(r[i], e), IsNote(r[j], e)
                   PROVE  i = j
        BY DEF Once
    <2>2. i + 1 = j + 1
        BY <1>3, <2>1 DEF Once
    <2>3. QED
        BY <1>1, <2>2
<1>8. (Once(q, e) /\ IsNote(Head(q), e)) => ~In(r, e)
    BY <1>2, <1>3, <1>5 DEF Once, In
<1>9. QED
    BY <1>6, <1>7, <1>8 DEF r

\* no event is put on the stream
Thins(q, r) == \A e \in Events : (In(r, e) => In(q, e)) /\ (Once(q, e) => Once(r, e))

(* A stream that is emptied, one message shorter, or longer by a message   *)
(* that is no event carries no more events.                                *)
LEMMA ThinStreams ==
    ASSUME NEW S, NEW q \in Seq(S), NEW r,
           \/ r = q \/ r = <<>> \/ (q # <<>> /\ r = Tail(q))
           \/ \E m \in S : m.kind # "event" /\ r = Append(q, m)
    PROVE  Thins(q, r)
<1>1. CASE r = q
    BY <1>1 DEF Thins
<1>2. CASE r = <<>>
    BY <1>2 DEF Thins, In, Once
<1>3. CASE q # <<>> /\ r = Tail(q)
    BY <1>3, NoteTaken DEF Thins
<1>4. ASSUME NEW m \in S, m.kind # "event", r = Append(q, m)
      PROVE  Thins(q, r)
    <2>1. \A e \in Events : ~IsNote(m, e)
        BY <1>4 DEF IsNote
    <2>2. QED
        BY <1>4, <2>1, NoteAppended DEF Thins
<1>5. QED
    BY <1>1, <1>2, <1>3, <1>4

(* Nor does the line with an abort before it.                              *)
LEMMA ThinAbort ==
    ASSUME NEW q \in Seq(Jobs), line' = q \/ line' = <<Host!Aborting>> \o q
    PROVE  Thins(q, line')
<1>1. PICK k \in {0, 1} :
          /\ \A i \in DOMAIN q : i + k \in DOMAIN line' /\ line'[i + k] = q[i]
          /\ \A i \in DOMAIN line' : line'[i] = Host!Aborting \/ (i - k \in DOMAIN q /\ line'[i] = q[i - k])
    BY Entered
<1>2. line' \in Seq(Jobs)
    BY Entered
<1>3. \A e : ~IsNote(Host!Aborting, e)
    BY DEF IsNote, Host!Aborting
<1>4. ASSUME NEW e, NEW i \in DOMAIN line', IsNote(line'[i], e)
      PROVE  i - k \in DOMAIN q /\ IsNote(q[i - k], e)
    BY <1>1, <1>3, <1>4
<1>5. \A e : In(line', e) => In(q, e)
    BY <1>4 DEF In
<1>6. ASSUME NEW e, Once(q, e), NEW i \in DOMAIN line', NEW j \in DOMAIN line', IsNote(line'[i], e), IsNote(line'[j], e)
      PROVE  i = j
    <2>1. i - k = j - k
        BY <1>4, <1>6 DEF Once
    <2>2. i \in Int /\ j \in Int
        BY <1>2
    <2>3. QED
        BY <2>1, <2>2
<1>7. \A e : Once(q, e) => Once(line', e)
    BY <1>6 DEF Once
<1>8. QED
    BY <1>5, <1>7 DEF Thins

(* A step that puts no event on a stream or in line and gives none to an   *)
(* agent.                                                                  *)
LEMMA NoNewEvents ==
    ASSUME RuntimeInv, EventInv, heard' = heard, published' = published,
           \A s \in Sources : Thins(Inbox(s), Inbox(s)'),
           \A c \in Clients : Thins(down[c], down'[c]),
           \A w \in Workers : Open(w)' => \/ Open(w) /\ Client(w)' = Client(w)
                                          \/ down'[Client(w)'] = <<>>
    PROVE  SentOnce' /\ RoutedOnce' /\ HeardOnce'
<1> USE DEF EventInv
<1>1. /\ \A e \in Events, s \in Sources : (In(Inbox(s), e)' => In(Inbox(s), e)) /\ Once(Inbox(s), e)'
      /\ \A e \in Events, c \in Clients : (In(down'[c], e) => In(down[c], e)) /\ Once(down'[c], e)
    BY DEF Thins, SentOnce, RoutedOnce, In, Once, IsNote
<1>2. Sources' = Sources /\ Clients' = Clients
    BY DEF Sources, Clients, Worker!Clients
<1>3. SentOnce'
    <2>1. SUFFICES ASSUME NEW e \in Events, NEW s \in Sources
                   PROVE  /\ Once(Inbox(s), e)'
                          /\ In(Inbox(s), e)' => e \in published /\ \A r \in Sources : In(Inbox(r), e)' => r = s
        BY <1>2 DEF SentOnce
    <2>2. QED
        BY <1>1 DEF SentOnce
<1>4. RoutedOnce'
    <2>1. SUFFICES ASSUME NEW e \in Events, NEW c \in Clients
                   PROVE  /\ Once(down'[c], e)
                          /\ In(down'[c], e) => e \in published /\ \A s \in Sources : ~In(Inbox(s), e)'
        BY <1>2 DEF RoutedOnce, Once, In, IsNote
    <2>2. QED
        BY <1>1 DEF RoutedOnce
<1>5. HeardOnce'
    <2>1. SUFFICES ASSUME NEW e \in Events, NEW t \in Types, heard[<<e, t>>] # 0
                   PROVE  /\ heard[<<e, t>>] = 1
                          /\ e \in published
                          /\ \A s \in Sources : ~In(Inbox(s), e)'
                          /\ \A w \in Workers : (Open(w)' /\ <<w, t>> \in Serves) => ~In(down'[Client(w)'], e)
        BY <1>2 DEF HeardOnce, In, IsNote
    <2>2. ASSUME NEW w \in Workers, Open(w)', <<w, t>> \in Serves
          PROVE  ~In(down'[Client(w)'], e)
        <3>1. CASE Open(w) /\ Client(w)' = Client(w)
            <4>1. Client(w) \in Clients
                BY <3>1 DEF RuntimeInv, RunningIsStarted
            <4>2. QED
                BY <1>1, <2>1, <2>2, <3>1, <4>1 DEF HeardOnce
        <3>2. CASE down'[Client(w)'] = <<>>
            BY <3>2 DEF In
        <3>3. QED
            BY <2>2, <3>1, <3>2
    <2>3. QED
        BY <1>1, <2>1, <2>2 DEF HeardOnce
<1>6. QED
    BY <1>3, <1>4, <1>5

(* A promise is kept by a step after which its client still reads, if it   *)
(* did before, still knows of the subscription, and has the event ahead of *)
(* it or behind it.                                                        *)
LEMMA PromisesKept ==
    ASSUME RuntimeInv, RuntimeInv', EventInv, due' \subseteq due, torn \subseteq torn',
           \A w \in Workers : starts[w] <= starts'[w],
           \A p \in Events \X Types : heard[p] # 0 => heard'[p] # 0,
           \A d \in due' : (Attends(d[3])' /\ d[1] \notin torn) =>
               /\ Attends(d[3])
               /\ d[2] \in locals[d[3][1]] => d[2] \in locals'[d[3][1]]
               /\ In(down[d[3]], d[1]) => In(down'[d[3]], d[1]) \/ heard'[<<d[1], d[2]>>] # 0
    PROVE  DueKept'
<1>1. SUFFICES ASSUME NEW d \in due'
               PROVE  d[3][2] <= starts'[d[3][1]] /\ Promised(d)'
    BY DEF DueKept, Known
<1>2. d \in due /\ d[3] \in Clients /\ <<d[1], d[2]>> \in Events \X Types
    BY DEF EventInv, EventTypes
<1>3. d[3][1] \in Workers /\ d[3][2] \in Nat
    BY <1>2, ClientFacts
<1>4. d[3][2] <= starts'[d[3][1]]
    <2>1. starts[d[3][1]] \in Nat /\ starts'[d[3][1]] \in Nat
        BY <1>3 DEF RuntimeInv, WorkerTypes
    <2>2. d[3][2] <= starts[d[3][1]] /\ starts[d[3][1]] <= starts'[d[3][1]]
        BY <1>2, <1>3 DEF EventInv, DueKept, Known
    <2>3. QED
        BY <1>3, <2>1, <2>2
<1>5. Promised(d)'
    <2>1. SUFFICES ASSUME Attends(d[3])', d[1] \notin torn'
                   PROVE  /\ d[2] \in locals'[d[3][1]]
                          /\ heard'[<<d[1], d[2]>>] # 0 \/ In(down'[d[3]], d[1])
        BY DEF Promised, In, IsNote
    <2>2. Promised(d)
        BY <1>2 DEF EventInv, DueKept
    <2>3. QED
        BY <1>1, <1>2, <2>1, <2>2 DEF Promised
<1>6. QED
    BY <1>4, <1>5

\* the streams, the agents' events and the host stay as they are
SameStreams == UNCHANGED <<subs, due, torn, line, up, down, starts, heard, published>>

(* When streams and host stay as they are, and no worker that did not read *)
(* reads now, what is to show is about subscriptions.                      *)
LEMMA SubscriptionsMove ==
    ASSUME RuntimeInv, RuntimeInv', EventInv, SameStreams,
           \A v \in Workers : Open(v)' => Open(v) /\ (reader'[v] = "on" => reader[v] = "on"),
           reader' \in [Workers -> {"none", "on", "over"}],
           LocalsServed', Unsubscribed',
           \A d \in due : (Open(d[3][1])' /\ Client(d[3][1]) = d[3] /\ d[2] \in locals[d[3][1]])
                              => d[2] \in locals'[d[3][1]]
    PROVE  EventInv'
<1>1. EventTypes'
    BY DEF EventInv, EventTypes, Clients, Worker!Clients, SameStreams
<1>2. \A v \in Workers : Client(v)' = Client(v)
    BY DEF Client, Worker!Client, SameStreams
<1>3. \A s : Inbox(s)' = Inbox(s)
    BY DEF Inbox, SameStreams
<1>4. SentOnce' /\ RoutedOnce' /\ HeardOnce'
    BY <1>2, <1>3, NoNewEvents DEF Thins, SameStreams
<1>5. \A d \in due : Attends(d[3])' => Attends(d[3]) /\ Open(d[3][1])' /\ Client(d[3][1]) = d[3]
    BY <1>2, ClientFacts DEF Attends, Open, Client, EventInv, EventTypes
<1>6. \A v \in Workers : starts[v] <= starts'[v]
    BY DEF RuntimeInv, WorkerTypes, SameStreams
<1>7. DueKept'
    BY <1>5, <1>6, PromisesKept DEF SameStreams
<1>8. QED
    BY <1>1, <1>4, <1>7 DEF EventInv

(* stop() and the end of a process.                                        *)
LEMMA StopEvents ==
    ASSUME RuntimeInv, RuntimeInv', EventInv, NEW w \in Workers, UNCHANGED <<hostOnly, published>>,
           Worker!Stop(w) \/ Worker!StopEnds(w) \/ Worker!Crash(w)
    PROVE  EventInv'
<1>1. SameStreams
    BY DEF SameStreams, hostOnly, Worker!Stop, Worker!StopEnds, Worker!Crash
<1>2. /\ \A v \in Workers : Open(v)' => Open(v) /\ (reader'[v] = "on" => reader[v] = "on")
      /\ reader' \in [Workers -> {"none", "on", "over"}]
    <2> USE DEF Open, Worker!Open, EventInv, EventTypes, RuntimeInv, WorkerTypes
    <2>1. CASE Worker!Stop(w)
        BY <2>1 DEF Worker!Stop
    <2>2. CASE Worker!StopEnds(w)
        BY <2>2 DEF Worker!StopEnds
    <2>3. CASE Worker!Crash(w)
        BY <2>3 DEF Worker!Crash
    <2>4. QED
        BY <2>1, <2>2, <2>3
<1>3. /\ \A v \in Workers : rpc'[v] = rpc[v] \/ rpc'[v] = Worker!NoCall
      /\ \A v \in Workers :
            \/ factories'[v] = factories[v] /\ instances'[v] = instances[v] /\ locals'[v] = locals[v]
            \/ /\ ~Open(v)' /\ rpc'[v] = Worker!NoCall
               /\ factories'[v] = {} /\ instances'[v] = {} /\ locals'[v] = {}
    <2> USE DEF Open, Worker!Open, RuntimeInv, WorkerTypes
    <2>1. CASE Worker!Stop(w)
        BY <2>1 DEF Worker!Stop
    <2>2. CASE Worker!StopEnds(w)
        BY <2>2 DEF Worker!StopEnds
    <2>3. CASE Worker!Crash(w)
        BY <2>3 DEF Worker!Crash
    <2>4. QED
        BY <2>1, <2>2, <2>3
<1>4. LocalsServed'
    BY <1>3 DEF LocalsServed, EventInv, Worker!Served, Worker!NoCall
<1>5. Unsubscribed'
    BY <1>1, <1>3 DEF Unsubscribed, EventInv, SameStreams, Worker!NoCall, Client, Worker!Client
<1>6. \A d \in due : (Open(d[3][1])' /\ d[2] \in locals[d[3][1]]) => d[2] \in locals'[d[3][1]]
    BY <1>3, ClientFacts DEF EventInv, EventTypes
<1>7. QED
    BY <1>1, <1>2, <1>4, <1>5, <1>6, SubscriptionsMove

(* The worker's side of the unary calls, before and after the host's.      *)
LEMMA CallEvents ==
    ASSUME RuntimeInv, RuntimeInv', EventInv, NEW w \in Workers, UNCHANGED <<hostOnly, published>>, NEW t \in Types,
           \/ <<w, t>> \in Serves /\ Worker!RegisterFactory(w, t)
           \/ Worker!AddSubscription(w, t) \/ Worker!RemoveSubscription(w, t)
    PROVE  EventInv'
<1>1. SameStreams /\ UNCHANGED <<status, reader, instances, locals>>
    BY DEF SameStreams, hostOnly, Worker!RegisterFactory, Worker!AddSubscription, Worker!RemoveSubscription,
           Worker!CallHost
<1>2. /\ \E op \in RpcOps : /\ rpc' = [rpc EXCEPT ![w] = [op |-> op, type |-> t, state |-> "sent"]]
                            /\ op = "subscribe" => t \in Worker!Served(w)
      /\ \/ <<w, t>> \in Serves /\ factories' = [factories EXCEPT ![w] = @ \cup {t}]
         \/ t \in factories[w] /\ factories' = factories
    <2>1. Worker!Served(w) \subseteq factories[w] /\ locals[w] \subseteq factories[w]
        BY DEF Worker!Served, EventInv, LocalsServed
    <2>2. QED
        BY <2>1 DEF Worker!RegisterFactory, Worker!AddSubscription, Worker!RemoveSubscription, Worker!CallHost, RpcOps
<1>3. LocalsServed'
    <2>1. \A v \in Workers : factories[v] \subseteq factories'[v] /\ Worker!Served(v) \subseteq Worker!Served(v)'
        BY <1>1, <1>2 DEF RuntimeInv, WorkerTypes, Worker!Served
    <2>2. ASSUME NEW v \in Workers, NEW x \in factories'[v]
          PROVE  <<v, x>> \in Serves
        <3>1. x \in factories[v] \/ (v = w /\ x = t /\ <<w, t>> \in Serves)
            BY <1>2, <2>2 DEF RuntimeInv, WorkerTypes
        <3>2. \A y \in factories[v] : <<v, y>> \in Serves
            BY DEF EventInv, LocalsServed
        <3>3. QED
            BY <3>1, <3>2
    <2>3. \A v \in Workers : rpc'[v] # Worker!NoCall => rpc'[v].type \in factories'[v]
        BY <1>2, <2>1 DEF RuntimeInv, WorkerTypes, EventInv, LocalsServed
    <2>4. \A v \in Workers : rpc'[v].op = "subscribe" => rpc'[v].type \in Worker!Served(v)
        BY <1>2 DEF RuntimeInv, WorkerTypes, EventInv, LocalsServed
    <2>5. QED
        BY <1>1, <2>1, <2>2, <2>3, <2>4 DEF LocalsServed, EventInv
<1>4. Unsubscribed'
    <2>1. \A v \in Workers : rpc'[v] = rpc[v] \/ rpc'[v].state # "ok"
        BY <1>2 DEF RuntimeInv, WorkerTypes
    <2>2. \A v \in Workers : Client(v)' = Client(v)
        BY <1>1 DEF Client, Worker!Client, SameStreams
    <2>3. QED
        BY <1>1, <2>1, <2>2 DEF Unsubscribed, EventInv, SameStreams
<1>5. QED
    BY <1>1, <1>3, <1>4, SubscriptionsMove DEF Open, Worker!Open, EventInv, EventTypes

LEMMA AnswerEvents ==
    ASSUME RuntimeInv, RuntimeInv', EventInv, NEW w \in Workers, UNCHANGED <<hostOnly, published>>,
           Worker!HostAnswers(w)
    PROVE  EventInv'
<1>1. SameStreams /\ UNCHANGED <<status, reader, factories>> /\ rpc' = [rpc EXCEPT ![w] = Worker!NoCall]
    BY DEF SameStreams, hostOnly, Worker!HostAnswers
<1>2. rpc[w] # Worker!NoCall
    BY DEF Worker!HostAnswers, Worker!NoCall
<1>3. rpc[w].type \in factories[w]
    BY <1>2 DEF EventInv, LocalsServed
<1>4. \/ locals' = locals
      \/ rpc[w].op = "subscribe" /\ locals' = [locals EXCEPT ![w] = @ \cup {rpc[w].type}]
      \/ rpc[w].op = "unsubscribe" /\ rpc[w].state = "ok" /\ locals' = [locals EXCEPT ![w] = @ \ {rpc[w].type}]
    <2>1. CASE rpc[w].state = "ok" /\ rpc[w].op = "subscribe"
        BY <2>1 DEF Worker!HostAnswers
    <2>2. CASE rpc[w].state = "ok" /\ rpc[w].op = "unsubscribe"
        BY <2>2 DEF Worker!HostAnswers
    <2>3. CASE ~(rpc[w].state = "ok" /\ rpc[w].op \in {"subscribe", "unsubscribe"})
        BY <2>3 DEF Worker!HostAnswers, RuntimeInv, WorkerTypes
    <2>4. QED
        BY <2>1, <2>2, <2>3
<1>5. LocalsServed'
    <2>1. \A v \in Workers : rpc'[v] = rpc[v] \/ rpc'[v] = Worker!NoCall
        BY <1>1 DEF RuntimeInv, WorkerTypes
    <2>2. \A v \in Workers : instances[v] \subseteq instances'[v] /\ instances'[v] \subseteq factories[v]
        BY <1>3 DEF Worker!HostAnswers, RuntimeInv, WorkerTypes, EventInv, LocalsServed
    <2>3. \A v \in Workers : Worker!Served(v) \subseteq Worker!Served(v)'
        BY <1>1, <2>2 DEF Worker!Served
    <2>4. \A v \in Workers : locals'[v] \subseteq Worker!Served(v)
        BY <1>4 DEF RuntimeInv, WorkerTypes, EventInv, LocalsServed
    <2>5. Worker!NoCall.op # "subscribe"
        BY DEF Worker!NoCall
    <2>6. QED
        BY <1>1, <2>1, <2>2, <2>3, <2>4, <2>5 DEF LocalsServed, EventInv
<1>6. Unsubscribed'
    BY <1>1 DEF Unsubscribed, EventInv, SameStreams, RuntimeInv, WorkerTypes, Worker!NoCall, Client, Worker!Client
<1>7. ASSUME NEW d \in due, Client(d[3][1]) = d[3], d[2] \in locals[d[3][1]]
      PROVE  d[2] \in locals'[d[3][1]]
    <2>1. d[3][1] \in Workers
        BY ClientFacts DEF EventInv, EventTypes
    <2>2. rpc[w].op = "unsubscribe" /\ rpc[w].state = "ok" => d[2] # rpc[w].type \/ d[3][1] # w
        BY <1>7 DEF EventInv, Unsubscribed
    <2>3. QED
        BY <1>4, <1>7, <2>1, <2>2 DEF RuntimeInv, WorkerTypes
<1>8. QED
    BY <1>1, <1>5, <1>6, <1>7, SubscriptionsMove DEF Open, Worker!Open, EventInv, EventTypes

\* the workers stay as they are but for what they send and read
SameWorkers == UNCHANGED <<status, starts, factories, instances, locals, rpc>>

(* When only messages move, what is to show is about them.                 *)
LEMMA EventsMove ==
    ASSUME RuntimeInv, RuntimeInv', EventInv, SameWorkers, UNCHANGED <<subs, due, torn>>, EventTypes',
           SentOnce' /\ RoutedOnce' /\ HeardOnce',
           \A v \in Workers : (Open(v) /\ reader'[v] = "on") => reader[v] = "on",
           \A p \in Events \X Types : heard[p] # 0 => heard'[p] # 0,
           \A d \in due : (Attends(d[3]) /\ d[1] \notin torn) =>
               (In(down[d[3]], d[1]) => In(down'[d[3]], d[1]) \/ heard'[<<d[1], d[2]>>] # 0)
    PROVE  EventInv'
<1>1. LocalsServed' /\ Unsubscribed'
    BY DEF LocalsServed, Unsubscribed, EventInv, SameWorkers, Worker!Served, Client, Worker!Client
<1>2. \A d \in due : Attends(d[3])' => Attends(d[3])
    BY ClientFacts DEF Attends, Open, Worker!Open, Worker!Client, SameWorkers, EventInv, EventTypes
<1>3. \A v \in Workers : starts[v] <= starts'[v]
    BY DEF RuntimeInv, WorkerTypes, SameWorkers
<1>4. DueKept'
    BY <1>2, <1>3, PromisesKept DEF SameWorkers
<1>5. QED
    BY <1>1, <1>4 DEF EventInv

(* What a worker sends besides events.                                     *)
LEMMA SendsNoEvent ==
    ASSUME RuntimeInv, RuntimeInv', EventInv, NEW w \in Workers, UNCHANGED <<hostOnly, published>>,
           \/ \E t \in Types : Worker!SendMessage(w, t)
           \/ \E k \in tasks[w] : Worker!HandleRequest(w, k)
    PROVE  EventInv'
<1>1. SameWorkers /\ UNCHANGED <<subs, due, torn, line, down, heard, reader, published>>
    BY DEF hostOnly, Worker!SendMessage, Worker!HandleRequest, SameWorkers
<1>2. up' = up \/ (Open(w) /\ \E m : m.kind # "event" /\ up' = [up EXCEPT ![Client(w)] = Append(@, m)])
    <2>1. ASSUME NEW t \in Types, Worker!SendMessage(w, t)
          PROVE  Open(w) /\ \E m : m.kind # "event" /\ up' = [up EXCEPT ![Client(w)] = Append(@, m)]
        <3> DEFINE call == [client |-> Client(w), id |-> nextId[w] + 1]
                   m == [kind |-> "request", call |-> call, id |-> call.id, type |-> t]
        <3>1. up' = [up EXCEPT ![Client(w)] = Append(@, m)] /\ Open(w)
            BY <2>1 DEF Worker!SendMessage, Worker!Send, Client, Open, Worker!Open
        <3>2. m.kind # "event"
            OBVIOUS
        <3> HIDE DEF m
        <3>3. QED
            BY <3>1, <3>2
    <2>2. ASSUME NEW k \in tasks[w], Worker!HandleRequest(w, k)
          PROVE  up' = up \/ (Open(w) /\ \E m : m.kind # "event" /\ up' = [up EXCEPT ![Client(w)] = Append(@, m)])
        <3> DEFINE m == [kind |-> "response", call |-> k.m.call, id |-> k.m.id]
        <3>1. up' = up \/ (Open(w) /\ up' = [up EXCEPT ![Client(w)] = Append(@, m)])
            BY <2>2 DEF Worker!HandleRequest, Worker!Send, Client, Open
        <3>2. m.kind # "event"
            OBVIOUS
        <3> HIDE DEF m
        <3>3. QED
            BY <3>1, <3>2
    <2>3. QED
        BY <2>1, <2>2
<1>3. \A c \in Clients : Thins(up[c], up'[c])
    <2>1. ASSUME NEW c \in Clients PROVE Thins(up[c], up'[c])
        <3>1. up[c] \in Seq(Messages) /\ up'[c] \in Seq(Messages)
            BY DEF RuntimeInv, HostTypes, Clients, Worker!Clients, Messages, Requests, Responses, Notes, Calls
        <3>2. CASE up'[c] = up[c]
            BY <3>1, <3>2, ThinStreams
        <3>3. ASSUME NEW m, m.kind # "event", up'[c] = Append(up[c], m)
              PROVE  Thins(up[c], up'[c])
            <4>1. Len(up[c]) + 1 \in DOMAIN Append(up[c], m) /\ Append(up[c], m)[Len(up[c]) + 1] = m
                BY <3>1, <3>3
            <4>2. m \in Messages
                BY <3>1, <3>3, <4>1
            <4>3. QED
                BY <3>1, <3>3, <4>2, ThinStreams
        <3>4. \/ up'[c] = up[c] \/ \E m : m.kind # "event" /\ up'[c] = Append(up[c], m)
            BY <1>2 DEF RuntimeInv, HostTypes
        <3>5. QED
            BY <3>2, <3>3, <3>4
    <2>2. QED
        BY <2>1
<1>4. \A v \in Workers : (Open(v)' <=> Open(v)) /\ Client(v)' = Client(v)
    BY <1>1 DEF Open, Worker!Open, Client, Worker!Client, SameWorkers
<1>5. SentOnce' /\ RoutedOnce' /\ HeardOnce'
    <2>1. \A x \in Sources : Thins(Inbox(x), Inbox(x)')
        BY <1>1, <1>3, ClientFacts DEF Sources, Inbox, Thins
    <2>2. QED
        BY <1>1, <1>4, <2>1, NoNewEvents DEF Thins
<1>6. EventTypes'
    BY <1>1 DEF EventInv, EventTypes, Clients, Worker!Clients
<1>7. QED
    BY <1>1, <1>5, <1>6, EventsMove

(* An event is published once, so it is new to every stream and agent.     *)
LEMMA PublishEvents ==
    ASSUME RuntimeInv, RuntimeInv', EventInv, NEW w \in Workers, NEW e \in Events, Publish(w, e)
    PROVE  EventInv'
<1> DEFINE c == Client(w)
<1>1. /\ SameWorkers /\ UNCHANGED <<subs, due, torn, line, down, heard, reader>>
      /\ e \notin published /\ published' = published \cup {e}
      /\ up' = [up EXCEPT ![c] = Append(@, Note(e))] /\ Open(w)
    BY DEF Publish, hostOnly, Worker!PublishMessage, Worker!Send, SameWorkers, Note, Client, Open, Worker!Open
<1>2. c \in Clients /\ up \in [Clients -> Seq(Messages)] /\ Note(e) \in Messages
    BY <1>1 DEF RuntimeInv, RunningIsStarted, HostTypes, Note, Messages, Notes
<1> HIDE DEF c
<1>3. /\ \A x \in Sources : ~In(Inbox(x), e)
      /\ \A d \in Clients : ~In(down[d], e)
    BY <1>1 DEF EventInv, SentOnce, RoutedOnce
<1>4. \A x : IsNote(Note(e), x) <=> x = e
    BY DEF IsNote, Note
<1>5. ASSUME NEW r \in Sources, NEW x \in Events
      PROVE  /\ In(Inbox(r), x)' <=> In(Inbox(r), x) \/ (r = c /\ x = e)
             /\ Once(Inbox(r), x)'
    <2>1. Once(Inbox(r), x)
        BY DEF EventInv, SentOnce
    <2>2. CASE r = c
        <3>1. Inbox(r) = up[c] /\ Inbox(r)' = Append(up[c], Note(e)) /\ up[c] \in Seq(Messages)
            BY <1>1, <1>2, <2>2, ClientFacts DEF Inbox
        <3>2. In(Append(up[c], Note(e)), x) <=> In(up[c], x) \/ IsNote(Note(e), x)
            BY <1>2, <3>1, NoteAppended
        <3>3. Once(Append(up[c], Note(e)), x)
            BY <1>2, <1>3, <1>4, <2>1, <3>1, NoteAppended
        <3>4. QED
            BY <1>4, <2>2, <3>1, <3>2, <3>3 DEF In, Once, IsNote
    <2>3. CASE r # c
        <3>1. Inbox(r)' = Inbox(r)
            BY <1>1, <1>2, <2>3 DEF Inbox, Sources
        <3>2. QED
            BY <2>1, <2>3, <3>1 DEF In, Once, IsNote
    <2>4. QED
        BY <2>2, <2>3
<1>6. Sources' = Sources /\ Clients' = Clients
    BY DEF Sources, Clients, Worker!Clients
<1>7. SentOnce' /\ RoutedOnce' /\ HeardOnce'
    <2>1. SentOnce'
        <3>1. SUFFICES ASSUME NEW x \in Events, NEW r \in Sources
                       PROVE  /\ Once(Inbox(r), x)'
                              /\ In(Inbox(r), x)' => x \in published' /\ \A f \in Sources : In(Inbox(f), x)' => f = r
            BY <1>6 DEF SentOnce
        <3>2. QED
            BY <1>1, <1>3, <1>5 DEF EventInv, SentOnce
    <2>2. RoutedOnce'
        <3>1. SUFFICES ASSUME NEW x \in Events, NEW d \in Clients
                       PROVE  /\ Once(down[d], x)
                              /\ In(down[d], x) => x \in published' /\ \A f \in Sources : ~In(Inbox(f), x)'
            BY <1>1, <1>6 DEF RoutedOnce, Once, In, IsNote
        <3>2. QED
            BY <1>1, <1>3, <1>5 DEF EventInv, RoutedOnce
    <2>3. HeardOnce'
        <3>1. SUFFICES ASSUME NEW x \in Events, NEW t \in Types, heard[<<x, t>>] # 0
                       PROVE  /\ heard[<<x, t>>] = 1
                              /\ x \in published'
                              /\ \A r \in Sources : ~In(Inbox(r), x)'
                              /\ \A v \in Workers : (Open(v) /\ <<v, t>> \in Serves) => ~In(down[Client(v)], x)
            BY <1>1, <1>6 DEF HeardOnce, In, IsNote, Open, Worker!Open, Client, Worker!Client, SameWorkers
        <3>2. /\ heard[<<x, t>>] = 1 /\ x \in published
              /\ \A r \in Sources : ~In(Inbox(r), x)
              /\ \A v \in Workers : (Open(v) /\ <<v, t>> \in Serves) => ~In(down[Client(v)], x)
            BY <3>1 DEF EventInv, HeardOnce
        <3>3. QED
            BY <1>1, <1>5, <3>2
    <2>4. QED
        BY <2>1, <2>2, <2>3
<1>8. EventTypes'
    BY <1>1 DEF EventInv, EventTypes, Clients, Worker!Clients
<1>9. QED
    BY <1>1, <1>7, <1>8, EventsMove

(* A worker reads a request or a response.                                 *)
LEMMA ReadsNoEvent ==
    ASSUME RuntimeInv, RuntimeInv', EventInv, NEW w \in Workers, UNCHANGED <<hostOnly, published>>,
           Worker!ReadRequest(w) \/ Worker!ReadResponse(w)
    PROVE  EventInv'
<1> DEFINE c == Client(w)
<1>1. /\ SameWorkers /\ UNCHANGED <<subs, due, torn, line, up, heard, published>> /\ Open(w)
      /\ down[c] # <<>> /\ Head(down[c]).kind # "event" /\ down' = [down EXCEPT ![c] = Tail(@)]
      /\ reader' = reader \/ reader' = [reader EXCEPT ![w] = "over"]
    BY DEF hostOnly, Worker!ReadRequest, Worker!ReadResponse, Worker!Reads, Worker!Read, SameWorkers, Client, Open,
           EventInv, EventTypes
<1>2. c \in Clients /\ down \in [Clients -> Seq(Messages)]
    BY <1>1 DEF RuntimeInv, RunningIsStarted, HostTypes
<1> HIDE DEF c
<1>3. ASSUME NEW d \in Clients
      PROVE  Thins(down[d], down'[d]) /\ \A e \in Events : In(down[d], e) => In(down'[d], e)
    <2>1. CASE d # c
        BY <1>1, <1>2, <2>1 DEF Thins
    <2>2. CASE d = c
        <3>1. down'[d] = Tail(down[d]) /\ down[d] # <<>> /\ down[d] \in Seq(Messages)
            BY <1>1, <1>2, <2>2
        <3>2. \A e : ~IsNote(Head(down[d]), e)
            BY <1>1, <2>2 DEF IsNote
        <3>3. QED
            BY <3>1, <3>2, NoteTaken DEF Thins
    <2>3. QED
        BY <2>1, <2>2
<1>4. \A v \in Workers : (Open(v)' <=> Open(v)) /\ Client(v)' = Client(v)
    BY <1>1 DEF Open, Worker!Open, Client, Worker!Client, SameWorkers
<1>5. SentOnce' /\ RoutedOnce' /\ HeardOnce'
    <2>1. \A x : Inbox(x)' = Inbox(x)
        BY <1>1 DEF Inbox
    <2>2. QED
        BY <1>1, <1>3, <1>4, <2>1, NoNewEvents DEF Thins
<1>6. EventTypes'
    BY <1>1 DEF EventInv, EventTypes, Clients, Worker!Clients
<1>7. \A v \in Workers : reader'[v] = "on" => reader[v] = "on"
    BY <1>1 DEF EventInv, EventTypes
<1>8. \A d \in due : d[3] \in Clients /\ d[1] \in Events
    BY DEF EventInv, EventTypes
<1>9. QED
    BY <1>1, <1>3, <1>5, <1>6, <1>7, <1>8, EventsMove

(* A worker reads an event, and gives it to the agents that subscribe it:  *)
(* it is the first and the last time that these agents are given it.       *)
LEMMA ReadsEvent ==
    ASSUME OneWorkerPerType, RuntimeInv, RuntimeInv', EventInv, NEW w \in Workers,
           UNCHANGED <<hostOnly, published>>, Worker!ReadEvent(w)
    PROVE  EventInv'
<1> DEFINE c == Client(w)
           e == Head(down[c]).id
<1>1. /\ SameWorkers /\ UNCHANGED <<subs, due, torn, line, up, published>> /\ Open(w)
      /\ down[c] # <<>> /\ Head(down[c]).kind = "event" /\ down' = [down EXCEPT ![c] = Tail(@)]
      /\ reader' = reader \/ reader' = [reader EXCEPT ![w] = "over"]
    BY DEF hostOnly, Worker!ReadEvent, Worker!Reads, Worker!Read, SameWorkers, Client, Open, EventInv, EventTypes
<1>2. c \in Clients /\ down \in [Clients -> Seq(Messages)]
    BY <1>1 DEF RuntimeInv, RunningIsStarted, HostTypes
<1>3. (\A x : IsNote(Head(down[c]), x) <=> x = e) /\ e \in Events
    <2>1. Head(down[c]) \in Messages
        BY <1>1, <1>2, StreamFacts
    <2>2. Head(down[c]) \in Notes
        BY <1>1, <2>1 DEF Messages, Requests, Responses
    <2>3. QED
        BY <2>2 DEF Notes, IsNote
<1>4. heard' = [p \in Events \X Types |-> IF p[1] = e /\ p[2] \in locals[w] THEN heard[p] + 1 ELSE heard[p]]
    <2>1. locals[w] \subseteq Worker!Served(w)
        BY DEF EventInv, LocalsServed
    <2>2. QED
        BY <2>1 DEF Worker!ReadEvent, Client
<1> HIDE DEF c, e
<1>5. /\ In(down[c], e) /\ ~In(down'[c], e)
      /\ \A d \in Clients : Thins(down[d], down'[d])
      /\ \A d \in Clients, x \in Events : In(down[d], x) => In(down'[d], x) \/ (d = c /\ x = e)
    <2>1. down'[c] = Tail(down[c]) /\ \A d \in Clients : d # c => down'[d] = down[d]
        BY <1>1, <1>2
    <2>2. Once(down[c], e)
        BY <1>2, <1>3 DEF EventInv, RoutedOnce
    <2>3. In(down[c], e) /\ ~In(down'[c], e)
        BY <1>1, <1>2, <1>3, <2>1, <2>2, NoteTaken
    <2>4. \A d \in Clients : Thins(down[d], down'[d])
        BY <1>1, <1>2, <2>1, ThinStreams
    <2>5. \A x \in Events : In(down[c], x) => In(down'[c], x) \/ x = e
        BY <1>1, <1>2, <1>3, <2>1, NoteTaken
    <2>6. QED
        BY <2>1, <2>3, <2>4, <2>5
<1>6. e \in published /\ \A r \in Sources : ~In(Inbox(r), e)
    BY <1>2, <1>3, <1>5 DEF EventInv, RoutedOnce
<1>7. (\A r : Inbox(r)' = Inbox(r)) /\ Sources' = Sources /\ Clients' = Clients
    BY <1>1 DEF Inbox, Sources, Clients, Worker!Clients
<1>8. SentOnce' /\ RoutedOnce'
    <2>1. SentOnce'
        BY <1>1, <1>7 DEF EventInv, SentOnce, Once, In, IsNote
    <2>2. SUFFICES ASSUME NEW x \in Events, NEW d \in Clients
                   PROVE  /\ Once(down'[d], x)
                          /\ In(down'[d], x) => x \in published /\ \A r \in Sources : ~In(Inbox(r), x)
        BY <1>1, <1>7, <2>1 DEF RoutedOnce, Once, In, IsNote
    <2>3. QED
        BY <1>5 DEF EventInv, RoutedOnce, Thins
<1>9. HeardOnce'
    <2>1. SUFFICES ASSUME NEW x \in Events, NEW t \in Types, heard'[<<x, t>>] # 0
                   PROVE  /\ heard'[<<x, t>>] = 1
                          /\ x \in published
                          /\ \A r \in Sources : ~In(Inbox(r), x)
                          /\ \A v \in Workers : (Open(v) /\ <<v, t>> \in Serves) => ~In(down'[Client(v)], x)
        BY <1>1, <1>7 DEF HeardOnce, In, IsNote, Open, Worker!Open, Client, Worker!Client, SameWorkers
    <2>2. \A v \in Workers : Open(v) => Client(v) \in Clients
        BY DEF RuntimeInv, RunningIsStarted, HostTypes
    <2>3. <<x, t>> \in Events \X Types /\ <<x, t>>[1] = x /\ <<x, t>>[2] = t /\ heard[<<x, t>>] \in Nat
        BY DEF EventInv, EventTypes
    <2>4. CASE x = e /\ t \in locals[w]
        <3>1. <<w, t>> \in Serves
            BY <2>4 DEF EventInv, LocalsServed, Worker!Served
        <3>2. heard[<<x, t>>] = 0
            BY <1>1, <1>5, <2>3, <2>4, <3>1 DEF EventInv, HeardOnce, c
        <3>3. heard'[<<x, t>>] = 1
            BY <1>4, <2>3, <2>4, <3>2
        <3>4. \A v \in Workers : <<v, t>> \in Serves => v = w
            <4>1. ASSUME NEW v \in Workers, <<v, t>> \in Serves PROVE <<v, t>>[1] = <<w, t>>[1]
                BY <3>1, <4>1 DEF OneWorkerPerType
            <4>2. QED
                BY <4>1
        <3>5. QED
            BY <1>5, <1>6, <2>4, <3>3, <3>4 DEF c
    <2>5. CASE ~(x = e /\ t \in locals[w])
        <3>1. heard'[<<x, t>>] = heard[<<x, t>>]
            BY <1>4, <2>3, <2>5
        <3>2. /\ heard[<<x, t>>] = 1 /\ x \in published
              /\ \A r \in Sources : ~In(Inbox(r), x)
              /\ \A v \in Workers : (Open(v) /\ <<v, t>> \in Serves) => ~In(down[Client(v)], x)
            BY <2>1, <3>1 DEF EventInv, HeardOnce
        <3>3. QED
            BY <1>5, <2>2, <3>1, <3>2 DEF Thins
    <2>6. QED
        BY <2>4, <2>5
<1>10. EventTypes'
    <2>1. heard' \in [Events \X Types -> Nat]
        BY <1>4 DEF EventInv, EventTypes
    <2>2. QED
        BY <1>1, <2>1 DEF EventInv, EventTypes, Clients, Worker!Clients
<1>11. \A v \in Workers : reader'[v] = "on" => reader[v] = "on"
    BY <1>1 DEF EventInv, EventTypes
<1>12. \A p \in Events \X Types : heard[p] # 0 => heard'[p] # 0
    BY <1>4 DEF EventInv, EventTypes
<1>13. ASSUME NEW d \in due, Attends(d[3]), d[1] \notin torn, In(down[d[3]], d[1])
       PROVE  In(down'[d[3]], d[1]) \/ heard'[<<d[1], d[2]>>] # 0
    <2>1. d[3] \in Clients /\ d[1] \in Events /\ d[2] \in Types /\ Promised(d)
        BY DEF EventInv, EventTypes, DueKept
    <2>2. CASE d[3] = c /\ d[1] = e
        <3>1. c[1] = w
            BY DEF c, Client, Worker!Client
        <3>2. d[2] \in locals[w]
            BY <1>13, <2>1, <2>2, <3>1 DEF Promised
        <3>3. heard'[<<d[1], d[2]>>] = heard[<<d[1], d[2]>>] + 1 /\ heard[<<d[1], d[2]>>] \in Nat
            BY <1>4, <2>1, <2>2, <3>2 DEF EventInv, EventTypes
        <3>4. QED
            BY <3>3
    <2>3. QED
        BY <1>5, <1>13, <2>1, <2>2
<1>14. QED
    BY <1>1, <1>8, <1>9, <1>10, <1>11, <1>12, <1>13, EventsMove

(* The stream of a worker that starts is new, and nothing was promised to  *)
(* its client.                                                             *)
LEMMA ConnectEvents ==
    ASSUME RuntimeInv, RuntimeInv', EventInv, NEW w \in Workers, Connect(w)
    PROVE  EventInv'
<1> DEFINE c == <<w, starts[w] + 1>>
<1>1. /\ starts[w] < MaxStarts[w]
      /\ starts' = [starts EXCEPT ![w] = @ + 1] /\ status' = [status EXCEPT ![w] = "up"]
      /\ reader' = [reader EXCEPT ![w] = IF @ = "none" THEN "on" ELSE @]
      /\ UNCHANGED <<subs, due, torn, line, up, down, factories, instances, locals, rpc, heard, published>>
    BY DEF Connect, Worker!Start, Host!OpenChannel
<1>2. starts[w] \in Nat /\ MaxStarts[w] \in Nat
    BY RuntimeAssumption DEF RuntimeInv, WorkerTypes
<1>3. c \in Clients /\ down[c] = <<>>
    <2>1. c \in Clients
        BY <1>1, <1>2, ClientFacts
    <2>2. c \notin conns
        BY <1>2, <2>1 DEF RuntimeInv, KnownClients, Known
    <2>3. QED
        BY <2>1, <2>2 DEF RuntimeInv, KnownClients
<1>4. /\ Client(w)' = c
      /\ \A v \in Workers : v # w => Client(v)' = Client(v) /\ (Open(v)' <=> Open(v)) /\ reader'[v] = reader[v]
    BY <1>1 DEF Client, Worker!Client, Open, Worker!Open, RuntimeInv, WorkerTypes, EventInv, EventTypes
<1>5. SentOnce' /\ RoutedOnce' /\ HeardOnce'
    <2>1. \A x : Inbox(x)' = Inbox(x)
        BY <1>1 DEF Inbox
    <2>2. QED
        BY <1>1, <1>3, <1>4, <2>1, NoNewEvents DEF Thins
<1>6. EventTypes'
    BY <1>1 DEF EventInv, EventTypes, Clients, Worker!Clients
<1>7. LocalsServed' /\ Unsubscribed'
    <2>1. rpc[w] = Worker!NoCall /\ Worker!NoCall.op # "unsubscribe"
        BY DEF RuntimeInv, RunningIsStarted, Open, Worker!Open, Connect, Worker!Start, Worker!NoCall
    <2>2. Unsubscribed'
        BY <1>1, <1>4, <2>1 DEF Unsubscribed, EventInv
    <2>3. QED
        BY <1>1, <2>2 DEF LocalsServed, EventInv, Worker!Served
<1>8. ASSUME NEW d \in due, Attends(d[3])' PROVE Attends(d[3])
    <2>1. d[3] \in Clients /\ d[3][1] \in Workers /\ d[3][2] <= starts[d[3][1]]
        BY ClientFacts DEF EventInv, EventTypes, DueKept, Known
    <2>2. d[3] # c
        BY <1>2, <2>1
    <2>3. d[3][1] # w
        BY <1>4, <1>8, <2>2 DEF Attends, Client
    <2>4. QED
        BY <1>4, <1>8, <2>1, <2>3 DEF Attends, Client, Open
<1>9. \A v \in Workers : starts[v] <= starts'[v]
    BY <1>1 DEF RuntimeInv, WorkerTypes
<1>10. DueKept'
    BY <1>1, <1>8, <1>9, PromisesKept
<1>11. QED
    BY <1>5, <1>6, <1>7, <1>10 DEF EventInv

(* The host changes its tables, and the calls in line for its lock learn   *)
(* of it.                                                                  *)
LEMMA TablesMove ==
    ASSUME RuntimeInv, RuntimeInv', EventInv, UNCHANGED <<up, down, torn, published>>, UNCHANGED uncalled,
           due' \subseteq due, Thins(line, line'),
           \A v \in Workers : \/ rpc'[v] = rpc[v]
                              \/ rpc[v] # Worker!NoCall /\ rpc'[v].op = rpc[v].op /\ rpc'[v].type = rpc[v].type,
           Unsubscribed'
    PROVE  EventInv'
<1>1. UNCHANGED <<status, starts, reader, factories, instances, locals, heard>>
    BY DEF uncalled
<1>2. \A v \in Workers : (Open(v)' <=> Open(v)) /\ Client(v)' = Client(v)
    BY <1>1 DEF Client, Worker!Client, Open, Worker!Open
<1>3. \A x \in Sources : Thins(Inbox(x), Inbox(x)')
    BY DEF Inbox, Thins
<1>4. SentOnce' /\ RoutedOnce' /\ HeardOnce'
    BY <1>1, <1>2, <1>3, NoNewEvents DEF Thins
<1>5. EventTypes'
    BY <1>1 DEF EventInv, EventTypes, Clients, Worker!Clients
<1>6. LocalsServed'
    BY <1>1 DEF LocalsServed, EventInv, Worker!Served
<1>7. \A d \in due : Attends(d[3])' => Attends(d[3])
    BY <1>1 DEF Attends, Worker!Open, Worker!Client
<1>8. \A v \in Workers : starts[v] <= starts'[v]
    BY <1>1 DEF RuntimeInv, WorkerTypes
<1>9. DueKept'
    BY <1>1, <1>7, <1>8, PromisesKept
<1>10. QED
    BY <1>4, <1>5, <1>6, <1>9 DEF EventInv

(* The line of a call that the host takes up carries no new event.         *)
LEMMA ThinLines ==
    ASSUME HostTypes, NEW c \in Clients, NEW t \in Types, NEW answer, Lines(c, t, answer)
    PROVE  Thins(line, line')
<1>1. CASE line' = line
    BY <1>1 DEF Thins
<1>2. CASE line = <<>> /\ line' = <<Host!Aborting>> \o <<>>
    <2>1. line' = <<Host!Aborting>> \o line /\ line \in Seq(Jobs)
        BY <1>2 DEF HostTypes
    <2>2. QED
        BY ONLY <2>1, ThinAbort
<1>3. CASE line' = Append(line, Host!Registering(c, t))
    <2>1. Host!Registering(c, t) \in Jobs /\ Host!Registering(c, t).kind # "event"
        BY DEF Host!Registering, Jobs, Registers
    <2>2. QED
        BY <1>3, <2>1, ThinStreams DEF HostTypes
<1>4. QED
    BY <1>1, <1>2, <1>3 DEF Lines

(* The host serves a unary call: the caller of RemoveSubscription is       *)
(* promised nothing any longer, and nobody else subscribes in its name.    *)
LEMMA ServedEvents ==
    ASSUME RuntimeInv, RuntimeInv', EventInv, NEW w \in Workers, NEW answer, ServeCall(w, answer)
    PROVE  EventInv'
<1> DEFINE c == Client(w)
           t == rpc[w].type
           op == rpc[w].op
<1>1. /\ UNCHANGED uncalled /\ published' = published
      /\ rpc' = [rpc EXCEPT ![w].state = answer]
      /\ rpc[w].state = "sent" /\ Served(c, op, t, answer)
    BY DEF ServeCall, Client
<1>2. rpc[w] \in Rpcs /\ rpc[w] # Worker!NoCall
    BY <1>1 DEF RuntimeInv, WorkerTypes, Worker!NoCall
<1>3. c \in Clients /\ t \in Types
    BY <1>2 DEF RuntimeInv, RunningIsStarted, Rpcs
<1>4. due' \subseteq due
    BY <1>1 DEF Served, Host!RegisterAgent, Host!AddSubscription, Host!RemoveSubscription
<1>5. (op = "unsubscribe" /\ answer = "ok") =>
        subs' = [subs EXCEPT ![t] = None] /\ due' = {d \in due : d[2] # t}
    BY <1>1 DEF Served, Host!RemoveSubscription
<1> HIDE DEF c, t, op
<1>6. HostTypes
    BY DEF RuntimeInv
<1>7. /\ UNCHANGED <<up, down, torn>> /\ Lines(c, t, answer)
      /\ subs' = subs \/ subs' = [subs EXCEPT ![t] = c] \/ subs' = [subs EXCEPT ![t] = None]
    BY <1>1, <1>6, ServedFacts
<1>8. /\ rpc'[w].op = op /\ rpc'[w].type = t /\ rpc'[w].state = answer
      /\ \A v \in Workers : v # w => rpc'[v] = rpc[v]
    BY <1>1, <1>2 DEF RuntimeInv, WorkerTypes, Rpcs, op, t
<1>9. \A v \in Workers : Client(v)' = Client(v)
    BY <1>1 DEF uncalled, Client, Worker!Client
<1>10. Unsubscribed'
    <2>1. SUFFICES ASSUME NEW v \in Workers, rpc'[v].op = "unsubscribe", rpc'[v].state = "ok"
                   PROVE  /\ subs'[rpc'[v].type] # Client(v)
                          /\ \A d \in due' : d[2] = rpc'[v].type => d[3] # Client(v)
        BY <1>9 DEF Unsubscribed
    <2>2. Client(v) \in Clients /\ Client(v) # None /\ rpc'[v].type \in Types
        <3>1. rpc'[v] # Worker!NoCall
            BY <2>1 DEF Worker!NoCall
        <3>2. QED
            BY <1>2, <1>3, <1>8, <3>1, ClientFacts DEF RuntimeInv, RunningIsStarted, WorkerTypes, Rpcs
    <2>3. CASE v = w
        BY <1>3, <1>5, <1>6, <1>8, <2>1, <2>2, <2>3 DEF HostTypes
    <2>4. CASE v # w
        <3>1. rpc'[v] = rpc[v] /\ Client(v) # c
            BY <1>8, <2>4 DEF c, Client, Worker!Client
        <3>2. subs[rpc[v].type] # Client(v) /\ \A d \in due : d[2] = rpc[v].type => d[3] # Client(v)
            BY <2>1, <3>1 DEF EventInv, Unsubscribed
        <3>3. \A x \in Types : subs'[x] \in {subs[x], c, None}
            BY <1>6, <1>7 DEF HostTypes
        <3>4. QED
            BY <1>4, <2>2, <3>1, <3>2, <3>3
    <2>5. QED
        BY <2>3, <2>4
<1>11. Thins(line, line')
    BY <1>3, <1>6, <1>7, ThinLines
<1>12. \A v \in Workers : \/ rpc'[v] = rpc[v]
                          \/ rpc[v] # Worker!NoCall /\ rpc'[v].op = rpc[v].op /\ rpc'[v].type = rpc[v].type
    BY <1>2, <1>8 DEF op, t
<1>13. QED
    BY <1>1, <1>4, <1>7, <1>10, <1>11, <1>12, TablesMove

(* The host's tables change for a client that is no worker's, or to        *)
(* nobody's.                                                               *)
LEMMA OthersServed ==
    ASSUME RuntimeInv, RuntimeInv', EventInv, UNCHANGED <<up, down, torn, published>>, UNCHANGED uncalled,
           due' \subseteq due, Thins(line, line'),
           \A v \in Workers : \/ rpc'[v] = rpc[v]
                              \/ rpc[v].op = "register" /\ rpc'[v].op = rpc[v].op /\ rpc'[v].type = rpc[v].type,
           \A v \in Workers, t \in Types : Open(v) => (subs'[t] = Client(v) => subs[t] = Client(v))
    PROVE  EventInv'
<1>1. \A v \in Workers : Client(v)' = Client(v)
    BY DEF uncalled, Client, Worker!Client
<1>2. Unsubscribed'
    <2>1. SUFFICES ASSUME NEW v \in Workers, rpc'[v].op = "unsubscribe", rpc'[v].state = "ok"
                   PROVE  /\ subs'[rpc'[v].type] # Client(v)
                          /\ \A d \in due' : d[2] = rpc'[v].type => d[3] # Client(v)
        BY <1>1 DEF Unsubscribed
    <2>2. rpc'[v] = rpc[v]
        BY <2>1
    <2>3. rpc[v] # Worker!NoCall
        BY <2>1, <2>2 DEF Worker!NoCall
    <2>4. rpc[v].type \in Types /\ Open(v)
        BY <2>3 DEF RuntimeInv, RunningIsStarted, WorkerTypes, Rpcs
    <2>5. subs[rpc[v].type] # Client(v) /\ \A d \in due : d[2] = rpc[v].type => d[3] # Client(v)
        BY <2>1, <2>2 DEF EventInv, Unsubscribed
    <2>6. QED
        BY <2>2, <2>4, <2>5
<1>3. Worker!NoCall.op # "register"
    BY DEF Worker!NoCall
<1>4. QED
    BY <1>2, <1>3, TablesMove

LEMMA StrayEvents ==
    ASSUME RuntimeInv, RuntimeInv', EventInv, NEW k \in strays, NEW answer, ServeStray(k, answer)
    PROVE  EventInv'
<1> DEFINE c == k.client
           t == k.type
<1>1. UNCHANGED <<rpc, published>> /\ UNCHANGED uncalled /\ Served(c, k.op, t, answer)
    BY DEF ServeStray
<1>2. c \in Clients /\ t \in Types /\ ~Running(c) /\ HostTypes
    BY DEF RuntimeInv, StraysAreGone, WorkerTypes
<1>3. due' \subseteq due
    BY <1>1 DEF Served, Host!RegisterAgent, Host!AddSubscription, Host!RemoveSubscription
<1> HIDE DEF c, t
<1>4. /\ UNCHANGED <<up, down, torn>> /\ Lines(c, t, answer)
      /\ subs' = subs \/ subs' = [subs EXCEPT ![t] = c] \/ subs' = [subs EXCEPT ![t] = None]
    BY <1>1, <1>2, ServedFacts
<1>5. Thins(line, line')
    BY <1>2, <1>4, ThinLines
<1>6. \A v \in Workers : Open(v) => Client(v) # c /\ Client(v) # None
    BY <1>2, ClientFacts DEF Running, Client, Worker!Client, RuntimeInv, RunningIsStarted
<1>7. \A x \in Types : subs'[x] \in {subs[x], c, None}
    BY <1>2, <1>4 DEF HostTypes
<1>8. QED
    BY <1>1, <1>3, <1>4, <1>5, <1>6, <1>7, OthersServed

LEMMA QueuedEvents ==
    ASSUME RuntimeInv, RuntimeInv', EventInv, NEW answer, ServeQueued(answer)
    PROVE  EventInv'
<1> DEFINE c == Head(line).client
           w == c[1]
           waits == Client(w) = c /\ rpc[w].state = "queued"
<1>1. /\ UNCHANGED <<subs, due, torn, up, down, published>> /\ UNCHANGED uncalled
      /\ line # <<>> /\ Head(line).kind = "register"
      /\ line' = Tail(line) \/ line' = <<Host!Aborting>> \o Tail(line)
      /\ rpc' = IF waits THEN [rpc EXCEPT ![w].state = answer] ELSE rpc
    BY DEF ServeQueued, Host!GrantRegister, Host!Granted, Host!Enter, Client
<1>2. HostTypes /\ Tail(line) \in Seq(Jobs) /\ Head(line) \in Jobs
    BY <1>1, StreamFacts DEF RuntimeInv, HostTypes
<1>3. w \in Workers
    BY <1>1, <1>2, ClientFacts DEF Jobs, Lookups, Requests, Registers, Closes, Host!Aborting
<1>4. Thins(line, line')
    <2>1. Thins(line, Tail(line))
        BY <1>1, <1>2, ThinStreams DEF HostTypes
    <2>2. Thins(Tail(line), line')
        BY <1>1, <1>2, ThinAbort
    <2>3. QED
        BY <2>1, <2>2 DEF Thins
<1>5. waits => rpc[w].op = "register" /\ rpc[w] \in Rpcs
    <2>1. 1 \in DOMAIN line /\ line[1] = Head(line)
        BY <1>1, <1>2 DEF HostTypes
    <2>2. waits => rpc[w] # Worker!NoCall
        BY DEF Worker!NoCall
    <2>3. waits => Running(c)
        BY <1>3, <2>2 DEF RuntimeInv, RunningIsStarted, Running
    <2>4. Running(c) => rpc[w] = [op |-> "register", type |-> line[1].type, state |-> "queued"]
        BY <1>1, <2>1 DEF RuntimeInv, QueuedIsCalled
    <2>5. QED
        BY <1>3, <2>2, <2>3, <2>4 DEF RuntimeInv, WorkerTypes
<1> HIDE DEF c, w, waits
<1>6. \A v \in Workers : \/ rpc'[v] = rpc[v]
                         \/ rpc[v].op = "register" /\ rpc'[v].op = rpc[v].op /\ rpc'[v].type = rpc[v].type
    <2>1. CASE ~waits
        BY <1>1, <2>1
    <2>2. CASE waits
        <3>1. \A v \in Workers : v # w => rpc'[v] = rpc[v]
            BY <1>1, <2>2 DEF RuntimeInv, WorkerTypes
        <3>2. rpc'[w].op = rpc[w].op /\ rpc'[w].type = rpc[w].type
            BY <1>1, <1>3, <1>5, <2>2 DEF RuntimeInv, WorkerTypes, Rpcs
        <3>3. QED
            BY <1>5, <2>2, <3>1, <3>2
    <2>3. QED
        BY <2>1, <2>2
<1>7. QED
    BY <1>1, <1>4, <1>6, OthersServed

(* The end of a stream that nobody reads any longer.                       *)
LEMMA EndEvents ==
    ASSUME ~Reconnects, RuntimeInv, RuntimeInv', EventInv, NEW c \in Clients, EndStream(c)
    PROVE  EventInv'
<1>1. /\ up' = [up EXCEPT ![c] = <<>>] /\ down' = [down EXCEPT ![c] = <<>>]
      /\ SameWorkers /\ UNCHANGED <<due, torn, reader, heard, published>>
      /\ line' = line \/ line' = Append(line, Host!Closing(c))
      /\ subs' = subs \/ subs' = [t \in Types |-> IF subs[t] = c THEN None ELSE subs[t]]
    BY DEF EndStream, Host!CloseChannel, Host!Locking, Host!Forget, workerOnly, uncalled, SameWorkers
<1>2. UNCHANGED <<status, starts, factories, instances, locals, rpc>>
    BY <1>1 DEF SameWorkers
<1>3. \A v \in Workers : (Open(v)' <=> Open(v)) /\ Client(v)' = Client(v)
    BY <1>2 DEF Client, Worker!Client, Open, Worker!Open
<1>4. \A d \in Clients : /\ up'[d] = up[d] \/ up'[d] = <<>>
                         /\ down'[d] = down[d] \/ (d = c /\ down'[d] = <<>>)
                         /\ up[d] \in Seq(Messages) /\ down[d] \in Seq(Messages)
    BY <1>1 DEF RuntimeInv, HostTypes
<1>5. \A d \in Clients : Thins(up[d], up'[d]) /\ Thins(down[d], down'[d])
    BY <1>4, ThinStreams
<1>6. Thins(line, line')
    <2>1. Host!Closing(c) \in Jobs /\ Host!Closing(c).kind # "event" /\ line \in Seq(Jobs)
        BY DEF Host!Closing, Jobs, Closes, RuntimeInv, HostTypes
    <2>2. QED
        BY <1>1, <2>1, ThinStreams
<1>7. \A x \in Sources : Thins(Inbox(x), Inbox(x)')
    BY <1>5, <1>6, ClientFacts DEF Sources, Inbox
<1>8. SentOnce' /\ RoutedOnce' /\ HeardOnce'
    BY <1>1, <1>3, <1>5, <1>7, NoNewEvents
<1>9. EventTypes'
    BY <1>1 DEF EventInv, EventTypes, Clients, Worker!Clients
<1>10. LocalsServed'
    BY <1>2 DEF LocalsServed, EventInv, Worker!Served
<1>11. Unsubscribed'
    <2>1. SUFFICES ASSUME NEW v \in Workers, rpc[v].op = "unsubscribe", rpc[v].state = "ok"
                   PROVE  /\ subs'[rpc[v].type] # Client(v)
                          /\ \A d \in due : d[2] = rpc[v].type => d[3] # Client(v)
        BY <1>1, <1>2, <1>3 DEF Unsubscribed
    <2>2. rpc[v] # Worker!NoCall
        BY <2>1 DEF Worker!NoCall
    <2>3. rpc[v].type \in Types /\ Client(v) \in Clients /\ Client(v) # None
        BY <2>2, ClientFacts DEF RuntimeInv, RunningIsStarted, WorkerTypes, Rpcs
    <2>4. subs[rpc[v].type] # Client(v) /\ \A d \in due : d[2] = rpc[v].type => d[3] # Client(v)
        BY <2>1 DEF EventInv, Unsubscribed
    <2>5. QED
        BY <1>1, <2>3, <2>4
<1>12. ~Attends(c)
    BY DEF EndStream, Attends
<1>13. \A d \in due : d[3] \in Clients /\ (Attends(d[3])' => Attends(d[3]))
    BY <1>1, <1>2 DEF Attends, Worker!Open, Worker!Client, EventInv, EventTypes
<1>14. \A v \in Workers : starts[v] <= starts'[v]
    BY <1>2 DEF RuntimeInv, WorkerTypes
<1>15. DueKept'
    BY <1>1, <1>2, <1>4, <1>12, <1>13, <1>14, PromisesKept
<1>16. QED
    BY <1>8, <1>9, <1>10, <1>11, <1>15 DEF EventInv

(* The host routes what is no event.                                       *)
LEMMA OthersRouted ==
    ASSUME RuntimeInv, RuntimeInv', EventInv, UNCHANGED <<workerOnly, published>>, UNCHANGED <<subs, due, torn>>,
           \A s \in Sources : Thins(Inbox(s), Inbox(s)'),
           \A d \in Clients : \/ down'[d] = down[d]
                              \/ \E m \in Messages : m.kind # "event" /\ Adds(d, m)
    PROVE  EventInv'
<1>1. SameWorkers /\ UNCHANGED <<heard, reader, published>>
    BY DEF workerOnly, uncalled, SameWorkers
<1>2. ASSUME NEW d \in Clients
      PROVE  Thins(down[d], down'[d]) /\ \A e \in Events : In(down[d], e) => In(down'[d], e)
    <2>1. down[d] \in Seq(Messages)
        BY DEF RuntimeInv, HostTypes
    <2>2. QED
        BY <2>1, ThinStreams, NoteAppended DEF Adds
<1>3. \A v \in Workers : (Open(v)' <=> Open(v)) /\ Client(v)' = Client(v)
    BY <1>1 DEF Open, Worker!Open, Client, Worker!Client, SameWorkers
<1>4. SentOnce' /\ RoutedOnce' /\ HeardOnce'
    BY <1>1, <1>2, <1>3, NoNewEvents
<1>5. EventTypes'
    BY <1>1 DEF EventInv, EventTypes, Clients, Worker!Clients
<1>6. \A d \in due : d[3] \in Clients /\ d[1] \in Events
    BY DEF EventInv, EventTypes
<1>7. QED
    BY <1>1, <1>2, <1>4, <1>5, <1>6, EventsMove

(* A request or a response leaves its stream, and a request may wait in    *)
(* line.                                                                   *)
LEMMA RoutesNoEvent ==
    ASSUME RuntimeInv, RuntimeInv', EventInv, NEW c \in Clients, UNCHANGED <<workerOnly, published>>,
           Host!ProcessRequest(c) \/ Host!ProcessResponse(c)
    PROVE  EventInv'
<1> DEFINE m == Head(up[c])
<1>1. /\ UNCHANGED <<subs, due, torn>>
      /\ up[c] # <<>> /\ up' = [up EXCEPT ![c] = Tail(@)] /\ m.kind # "event"
    BY DEF Host!ProcessRequest, Host!ProcessResponse, Host!Received, Host!Taken
<1>2. up \in [Clients -> Seq(Messages)] /\ m \in Messages
    BY <1>1, StreamFacts DEF RuntimeInv, HostTypes
<1>3. m.kind = "request" => m \in Requests
    BY <1>2 DEF Messages, Responses, Notes
<1>4. \/ line' = line
      \/ m.kind = "request" /\ line' = Append(line, m)
    BY DEF Host!ProcessRequest, Host!ProcessResponse, Host!Locking, Host!Received
<1>5. \A d \in Clients : down'[d] = down[d] \/ Adds(d, m)
    <2>1. CASE Host!ProcessRequest(c)
        <3>1. m \in Requests /\ (down' = down \/ Host!Deliver(m))
            BY <1>3, <2>1 DEF Host!ProcessRequest, Host!Locking, Host!Received
        <3> HIDE DEF m
        <3>2. QED
            BY <3>1, Delivers
    <2>2. CASE Host!ProcessResponse(c)
        <3>1. down' = down \/ \E target \in conns : down' = [down EXCEPT ![target] = Append(@, m)]
            BY <2>2 DEF Host!ProcessResponse
        <3>2. QED
            BY <3>1 DEF Adds, RuntimeInv, HostTypes
    <2>3. QED
        BY <2>1, <2>2
<1> HIDE DEF m
<1>6. \A d \in Clients : Thins(up[d], up'[d])
    <2>1. \A d \in Clients : up'[d] = up[d] \/ (up[d] # <<>> /\ up'[d] = Tail(up[d]))
        BY <1>1, <1>2
    <2>2. QED
        BY <1>2, <2>1, ThinStreams
<1>7. Thins(line, line')
    <2>1. line \in Seq(Jobs) /\ (m \in Requests => m \in Jobs)
        BY DEF RuntimeInv, HostTypes, Jobs, Lookups
    <2>2. QED
        BY <1>1, <1>3, <1>4, <2>1, ThinStreams
<1>8. \A x \in Sources : Thins(Inbox(x), Inbox(x)')
    BY <1>6, <1>7, ClientFacts DEF Sources, Inbox
<1>9. QED
    BY <1>1, <1>2, <1>5, <1>8, OthersRouted

(* An event that waits for the lock moves from its stream to the line.     *)
LEMMA QueuesEvent ==
    ASSUME RuntimeInv, RuntimeInv', EventInv, NEW c \in Clients, UNCHANGED <<workerOnly, published>>,
           UNCHANGED <<subs, due, torn, down>>,
           up[c] # <<>>, up' = [up EXCEPT ![c] = Tail(@)],
           NEW e \in Events, Head(up[c]) = Note(e),
           NEW job \in Jobs, job.kind = "event", job.id = e, line' = Append(line, job)
    PROVE  EventInv'
<1>1. SameWorkers /\ UNCHANGED <<heard, reader, published>>
    BY DEF workerOnly, uncalled, SameWorkers
<1>2. up \in [Clients -> Seq(Messages)] /\ line \in Seq(Jobs)
    BY DEF RuntimeInv, HostTypes
<1>3. \A x : (IsNote(Note(e), x) <=> x = e) /\ (IsNote(job, x) <=> x = e)
    BY DEF IsNote, Note
<1>4. c \in Sources /\ None \in Sources /\ Inbox(c) = up[c] /\ Inbox(None) = line /\ c # None
    BY ClientFacts DEF Sources, Inbox
<1>5. In(up[c], e)
    BY <1>2, <1>3, NoteTaken
<1>6. /\ e \in published /\ \A s \in Sources : In(Inbox(s), e) => s = c
      /\ \A d \in Clients : ~In(down[d], e)
      /\ \A t \in Types : heard[<<e, t>>] = 0
    BY <1>4, <1>5 DEF EventInv, SentOnce, RoutedOnce, HeardOnce
<1>7. ASSUME NEW r \in Sources, NEW x \in Events
      PROVE  /\ In(Inbox(r), x)' => (IF x = e THEN r = None ELSE In(Inbox(r), x))
             /\ Once(Inbox(r), x)'
    <2>1. Once(Inbox(r), x)
        BY DEF EventInv, SentOnce
    <2>2. CASE r = c
        <3>1. Inbox(r)' = Tail(up[c]) /\ up[c] \in Seq(Messages)
            BY <1>2, <1>4, <2>2 DEF Inbox
        <3>2. /\ In(Tail(up[c]), x) => In(up[c], x) /\ x # e
              /\ Once(Tail(up[c]), x)
            BY <1>2, <1>3, <1>4, <2>1, <2>2, <3>1, NoteTaken
        <3>3. QED
            BY <1>4, <2>2, <3>1, <3>2 DEF In, Once, IsNote
    <2>3. CASE r = None
        <3>1. Inbox(r)' = Append(line, job)
            BY <2>3 DEF Inbox
        <3>2. In(Append(line, job), x) <=> In(line, x) \/ IsNote(job, x)
            BY <1>2, NoteAppended
        <3>3. IsNote(job, x) => ~In(line, x)
            BY <1>3, <1>4, <1>6
        <3>4. Once(Append(line, job), x)
            BY <1>2, <1>4, <2>1, <2>3, <3>3, NoteAppended
        <3>5. QED
            BY <1>3, <1>4, <2>3, <3>1, <3>2, <3>4 DEF In, Once, IsNote
    <2>4. CASE r # c /\ r # None
        <3>1. Inbox(r)' = Inbox(r)
            BY <1>2, <2>4 DEF Inbox, Sources
        <3>2. QED
            BY <1>6, <2>1, <2>4, <3>1 DEF In, Once, IsNote
    <2>5. QED
        BY <2>2, <2>3, <2>4
<1>8. Sources' = Sources /\ Clients' = Clients
    BY DEF Sources, Clients, Worker!Clients
<1>9. SentOnce'
    <2>1. SUFFICES ASSUME NEW x \in Events, NEW r \in Sources
                   PROVE  /\ Once(Inbox(r), x)'
                          /\ In(Inbox(r), x)' => x \in published /\ \A f \in Sources : In(Inbox(f), x)' => f = r
        BY <1>1, <1>8 DEF SentOnce
    <2>2. QED
        BY <1>6, <1>7 DEF EventInv, SentOnce
<1>10. RoutedOnce'
    <2>1. SUFFICES ASSUME NEW x \in Events, NEW d \in Clients
                   PROVE  /\ Once(down[d], x)
                          /\ In(down[d], x) => x \in published /\ \A f \in Sources : ~In(Inbox(f), x)'
        BY <1>1, <1>8 DEF RoutedOnce, Once, In, IsNote
    <2>2. QED
        BY <1>6, <1>7 DEF EventInv, RoutedOnce
<1>11. HeardOnce'
    <2>1. SUFFICES ASSUME NEW x \in Events, NEW t \in Types, heard[<<x, t>>] # 0
                   PROVE  /\ heard[<<x, t>>] = 1
                          /\ x \in published
                          /\ \A r \in Sources : ~In(Inbox(r), x)'
                          /\ \A v \in Workers : (Open(v) /\ <<v, t>> \in Serves) => ~In(down[Client(v)], x)
        BY <1>1, <1>8 DEF HeardOnce, In, IsNote, Open, Worker!Open, Client, Worker!Client, SameWorkers
    <2>2. /\ heard[<<x, t>>] = 1 /\ x \in published
          /\ \A r \in Sources : ~In(Inbox(r), x)
          /\ \A v \in Workers : (Open(v) /\ <<v, t>> \in Serves) => ~In(down[Client(v)], x)
        BY <2>1 DEF EventInv, HeardOnce
    <2>3. QED
        BY <1>6, <1>7, <2>1, <2>2
<1>12. EventTypes'
    BY <1>1 DEF EventInv, EventTypes, Clients, Worker!Clients
<1>13. QED
    BY <1>1, <1>9, <1>10, <1>11, <1>12, EventsMove

(* The host delivers an event that was in one place: it is put once on the *)
(* stream of each connected owner, of all of them unless the delivery is   *)
(* torn.                                                                   *)
LEMMA SpreadEvents ==
    ASSUME RuntimeInv, RuntimeInv', EventInv, UNCHANGED <<workerOnly, published>>, subs' = subs,
           NEW e \in Events, NEW to \in SUBSET Types, Host!Spread(e, to, Listening),
           NEW s \in Sources, In(Inbox(s), e),
           \A r \in Sources : Thins(Inbox(r), Inbox(r)') /\ ~In(Inbox(r), e)'
    PROVE  EventInv'
<1> DEFINE targets == {owner[t] : t \in {x \in to : owner[x] # None}}
           m == Note(e)
<1>1. UNCHANGED <<status, starts, reader, factories, instances, locals, rpc, heard, published>>
    BY DEF workerOnly, uncalled
<1>2. PICK served \in SUBSET (targets \cap conns) :
        /\ targets \subseteq conns => served = targets
        /\ down' = [d \in Clients |-> IF d \in served THEN Append(down[d], m) ELSE down[d]]
    BY DEF Host!Spread, Clients, Note
<1>3. /\ torn \subseteq torn' /\ (targets \subseteq conns \/ e \in torn')
      /\ due' = due \cup {<<e, t, owner[t]>> : t \in to \cap Host!Audience \cap Listening}
    BY DEF Host!Spread
<1>4. \A t \in to \cap Host!Audience \cap Listening : t \in Types /\ owner[t] \in Clients /\ owner[t] \in targets
    BY DEF Host!Audience, RuntimeInv, HostTypes
<1> HIDE DEF targets, m
<1>5. m \in Messages /\ \A x : IsNote(m, x) <=> x = e
    BY DEF m, Note, IsNote, Messages, Notes
<1>6. /\ e \in published
      /\ \A d \in Clients : ~In(down[d], e)
      /\ \A t \in Types : heard[<<e, t>>] = 0
    BY DEF EventInv, SentOnce, RoutedOnce, HeardOnce
<1>7. ASSUME NEW d \in Clients, NEW x \in Events
      PROVE  /\ In(down'[d], x) <=> In(down[d], x) \/ (x = e /\ d \in served)
             /\ Once(down'[d], x)
    <2>1. Once(down[d], x) /\ down[d] \in Seq(Messages)
        BY DEF EventInv, RoutedOnce, RuntimeInv, HostTypes
    <2>2. CASE d \in served
        <3>1. down'[d] = Append(down[d], m)
            BY <1>2, <2>2
        <3>2. QED
            BY <1>5, <1>6, <2>1, <2>2, <3>1, NoteAppended
    <2>3. CASE d \notin served
        <3>1. down'[d] = down[d]
            BY <1>2, <2>3
        <3>2. QED
            BY <2>1, <2>3, <3>1
    <2>4. QED
        BY <2>2, <2>3
<1>8. ASSUME NEW r \in Sources, NEW x \in Events
      PROVE  (In(Inbox(r), x)' => In(Inbox(r), x) /\ x # e) /\ Once(Inbox(r), x)'
    BY DEF Thins, EventInv, SentOnce, In, Once, IsNote
<1>9. Sources' = Sources /\ Clients' = Clients
    BY DEF Sources, Clients, Worker!Clients
<1>10. SentOnce'
    <2>1. SUFFICES ASSUME NEW x \in Events, NEW r \in Sources
                   PROVE  /\ Once(Inbox(r), x)'
                          /\ In(Inbox(r), x)' => x \in published /\ \A f \in Sources : In(Inbox(f), x)' => f = r
        BY <1>1, <1>9 DEF SentOnce
    <2>2. QED
        BY <1>8 DEF EventInv, SentOnce
<1>11. RoutedOnce'
    <2>1. SUFFICES ASSUME NEW x \in Events, NEW d \in Clients
                   PROVE  /\ Once(down'[d], x)
                          /\ In(down'[d], x) => x \in published /\ \A f \in Sources : ~In(Inbox(f), x)'
        BY <1>1, <1>9 DEF RoutedOnce, Once, In, IsNote
    <2>2. In(down[d], x) => x \in published /\ \A f \in Sources : ~In(Inbox(f), x)
        BY DEF EventInv, RoutedOnce
    <2>3. QED
        BY <1>6, <1>7, <1>8, <2>2
<1>12. HeardOnce'
    <2>1. SUFFICES ASSUME NEW x \in Events, NEW t \in Types, heard[<<x, t>>] # 0
                   PROVE  /\ heard[<<x, t>>] = 1
                          /\ x \in published
                          /\ \A r \in Sources : ~In(Inbox(r), x)'
                          /\ \A v \in Workers : (Open(v) /\ <<v, t>> \in Serves) => ~In(down'[Client(v)], x)
        BY <1>1, <1>9 DEF HeardOnce, In, IsNote, Open, Worker!Open, Client, Worker!Client
    <2>2. /\ heard[<<x, t>>] = 1 /\ x \in published
          /\ \A r \in Sources : ~In(Inbox(r), x)
          /\ \A v \in Workers : (Open(v) /\ <<v, t>> \in Serves) => ~In(down[Client(v)], x)
        BY <2>1 DEF EventInv, HeardOnce
    <2>3. x # e
        BY <1>6, <2>1
    <2>4. \A v \in Workers : Open(v) => Client(v) \in Clients
        BY DEF RuntimeInv, RunningIsStarted
    <2>5. QED
        BY <1>7, <1>8, <2>2, <2>3, <2>4
<1>13. EventTypes'
    <2>1. due' \subseteq Events \X Types \X Clients
        BY <1>3, <1>4 DEF EventInv, EventTypes
    <2>2. QED
        BY <1>1, <2>1 DEF EventInv, EventTypes, Clients, Worker!Clients
<1>14. LocalsServed'
    BY <1>1 DEF LocalsServed, EventInv, Worker!Served
<1>15. ASSUME NEW t \in to \cap Host!Audience \cap Listening
       PROVE  \E v \in Workers : /\ Open(v) /\ t \in locals[v] /\ owner[t] = Client(v) /\ subs[t] = Client(v)
                                 /\ Client(v)[1] = v /\ Client(v)[2] = starts[v] /\ starts[v] \in Nat
    <2>1. PICK v \in Workers : Open(v) /\ t \in locals[v] /\ owner[t] = Client(v) /\ subs[t] = Client(v)
        BY DEF Listening, Open, Client
    <2>2. Client(v)[1] = v /\ Client(v)[2] = starts[v] /\ starts[v] \in Nat
        BY DEF Client, Worker!Client, RuntimeInv, WorkerTypes
    <2>3. QED
        BY <2>1, <2>2
<1>16. Unsubscribed'
    <2>1. SUFFICES ASSUME NEW v \in Workers, rpc[v].op = "unsubscribe", rpc[v].state = "ok"
                   PROVE  /\ subs[rpc[v].type] # Client(v)
                          /\ \A d \in due' : d[2] = rpc[v].type => d[3] # Client(v)
        BY <1>1 DEF Unsubscribed, Client, Worker!Client
    <2>2. subs[rpc[v].type] # Client(v) /\ \A d \in due : d[2] = rpc[v].type => d[3] # Client(v)
        BY <2>1 DEF EventInv, Unsubscribed
    <2>3. ASSUME NEW t \in to \cap Host!Audience \cap Listening, NEW d, d = <<e, t, owner[t]>>,
                 d[2] = rpc[v].type, d[3] = Client(v)
          PROVE  FALSE
        <3>1. subs[t] = owner[t]
            BY <1>15
        <3>2. QED
            BY <2>2, <2>3, <3>1
    <2>4. QED
        BY <1>3, <2>2, <2>3
<1>17. DueKept'
    <2>1. SUFFICES ASSUME NEW d \in due'
                   PROVE  /\ d[3][2] <= starts[d[3][1]]
                          /\ \/ d[1] \in torn'
                             \/ Attends(d[3]) => /\ d[2] \in locals[d[3][1]]
                                                 /\ heard[<<d[1], d[2]>>] # 0 \/ In(down'[d[3]], d[1])
        BY <1>1 DEF DueKept, Known, Promised, Attends, Worker!Open, Worker!Client, In, IsNote
    <2>2. CASE d \in due
        <3>1. d[3] \in Clients /\ d[1] \in Events /\ Promised(d) /\ d[3][2] <= starts[d[3][1]]
            BY <2>2 DEF EventInv, EventTypes, DueKept, Known
        <3>2. QED
            BY <1>3, <1>7, <3>1 DEF Promised
    <2>3. ASSUME NEW t \in to \cap Host!Audience \cap Listening, d = <<e, t, owner[t]>>
          PROVE  /\ d[3][2] <= starts[d[3][1]]
                 /\ d[2] \in locals[d[3][1]]
                 /\ d[1] \in torn' \/ In(down'[d[3]], d[1])
        <3>1. PICK v \in Workers : /\ t \in locals[v] /\ owner[t] = Client(v)
                                   /\ Client(v)[1] = v /\ Client(v)[2] = starts[v] /\ starts[v] \in Nat
            BY <1>15
        <3>2. d[3] = Client(v) /\ d[2] = t /\ d[1] = e /\ d[3] \in Clients /\ d[3] \in targets
            BY <1>4, <2>3, <3>1
        <3>3. d[1] \in torn' \/ In(down'[d[3]], d[1])
            BY <1>2, <1>3, <1>7, <3>2
        <3>4. QED
            BY <3>1, <3>2, <3>3
    <2>4. QED
        BY <1>3, <2>1, <2>2, <2>3
<1>18. QED
    BY <1>10, <1>11, <1>12, <1>13, <1>14, <1>16, <1>17 DEF EventInv

(* _process_event delivers what it received, or waits for the lock with    *)
(* it.                                                                     *)
LEMMA RoutesEvent ==
    ASSUME RuntimeInv, RuntimeInv', EventInv, NEW c \in Clients, UNCHANGED <<workerOnly, published>>,
           Host!ProcessEvent(c, Listening)
    PROVE  EventInv'
<1>1. /\ subs' = subs /\ up[c] # <<>> /\ up' = [up EXCEPT ![c] = Tail(@)] /\ Head(up[c]).kind = "event"
    BY DEF Host!ProcessEvent, Host!Received, Host!Taken
<1>2. up \in [Clients -> Seq(Messages)] /\ Head(up[c]) \in Messages
    BY <1>1, StreamFacts DEF RuntimeInv, HostTypes
<1>3. PICK e \in Events : Head(up[c]) = Note(e)
    <2>1. Head(up[c]) \in Notes
        BY <1>1, <1>2 DEF Messages, Requests, Responses
    <2>2. QED
        BY <2>1 DEF Notes, Note
<1>4. PICK to \in SUBSET Types : to = {t \in Types : subs[t] # None}
    OBVIOUS
<1> DEFINE job == [kind |-> "event", id |-> e, to |-> to]
<1>5. /\ job \in Jobs /\ job.kind = "event" /\ job.id = e
      /\ \/ line' = line /\ Host!Spread(e, to, Listening)
         \/ line' = Append(line, job) /\ UNCHANGED <<due, torn, down>>
    <2>1. Head(up[c]).id = e
        BY <1>3 DEF Note
    <2>2. job \in Jobs
        BY DEF Jobs, Lookups
    <2>3. QED
        BY <1>4, <2>1, <2>2 DEF Host!ProcessEvent, Host!Locking
<1> HIDE DEF job
<1>6. CASE line' = Append(line, job) /\ UNCHANGED <<due, torn, down>>
    BY <1>1, <1>3, <1>6, <1>5, QueuesEvent
<1>7. CASE line' = line /\ Host!Spread(e, to, Listening)
    <2>1. /\ up[c] \in Seq(Messages) /\ up'[c] = Tail(up[c])
          /\ \A d \in Clients : d # c => up'[d] = up[d]
        BY <1>1, <1>2
    <2>2. c \in Sources /\ Inbox(c) = up[c] /\ \A x : IsNote(Note(e), x) <=> x = e
        BY ClientFacts DEF Sources, Inbox, IsNote, Note
    <2>3. Once(up[c], e)
        BY <1>3, <2>2 DEF EventInv, SentOnce
    <2>4. In(up[c], e) /\ ~In(Tail(up[c]), e) /\ Thins(up[c], Tail(up[c]))
        <3>1. IsNote(Head(up[c]), e)
            BY <1>3, <2>2
        <3>2. QED
            BY <1>1, <2>1, <2>3, <3>1, NoteTaken, ThinStreams
    <2>5. \A r \in Sources : In(Inbox(r), e) => r = c
        BY <1>3, <2>2, <2>4 DEF EventInv, SentOnce
    <2>6. ASSUME NEW r \in Sources PROVE Thins(Inbox(r), Inbox(r)') /\ ~In(Inbox(r), e)'
        <3>1. CASE r = c
            <4>1. Inbox(r)' = Tail(up[c])
                BY <2>1, <3>1, ClientFacts DEF Inbox
            <4>2. QED
                BY <2>2, <2>4, <3>1, <4>1 DEF In, IsNote
        <3>2. CASE r # c
            <4>1. Inbox(r)' = Inbox(r)
                BY <1>7, <2>1, <3>2 DEF Inbox, Sources
            <4>2. QED
                BY <2>5, <3>2, <4>1 DEF Thins, In, IsNote
        <3>3. QED
            BY <3>1, <3>2
    <2>7. QED
        BY <1>1, <1>7, <2>2, <2>4, <2>6, SpreadEvents
<1>8. QED
    BY <1>6, <1>7, <1>5

(* The first in line has the lock.                                         *)
LEMMA GrantEvents ==
    ASSUME RuntimeInv, RuntimeInv', EventInv, Host!Grant(Listening), UNCHANGED <<workerOnly, published>>
    PROVE  EventInv'
<1> DEFINE m == Head(line)
<1>1. line # <<>> /\ line' = Tail(line) /\ up' = up /\ line \in Seq(Jobs) /\ m \in Jobs
    BY StreamFacts DEF Host!Grant, Host!Granted, RuntimeInv, HostTypes
<1>2. Thins(line, Tail(line))
    BY <1>1, ThinStreams
<1>3. \A r \in Sources : Thins(Inbox(r), Inbox(r)')
    BY <1>1, <1>2 DEF Inbox, Thins
<1>4. UNCHANGED uncalled /\ UNCHANGED <<rpc, published>> /\ UNCHANGED workerOnly
    BY DEF workerOnly
<1>5. CASE Host!Granted("request") /\ Host!Deliver(m) /\ UNCHANGED <<owner, subs, due, torn>>
    <2>1. m \in Requests /\ m \in Messages /\ m.kind # "event"
        BY <1>1, <1>5 DEF Host!Granted, Jobs, Lookups, Requests, Registers, Closes, Host!Aborting, Messages
    <2> HIDE DEF m
    <2>2. \A d \in Clients : down'[d] = down[d] \/ Adds(d, m)
        BY <1>5, <2>1, Delivers
    <2>3. QED
        BY <1>3, <1>5, <2>1, <2>2, OthersRouted
<1>6. CASE Host!Granted("event") /\ Host!Spread(m.id, m.to, Listening) /\ UNCHANGED <<owner, subs, pending, lost>>
    <2>1. m.kind = "event" /\ m.id \in Events /\ m.to \in SUBSET Types
        BY <1>1, <1>6 DEF Host!Granted, Jobs, Lookups, Requests, Registers, Closes, Host!Aborting
    <2> HIDE DEF m
    <2> PICK e \in Events, to \in SUBSET Types : e = m.id /\ to = m.to
        BY <2>1
    <2>2. IsNote(Head(line), e)
        BY <2>1 DEF IsNote, m
    <2>3. None \in Sources /\ Inbox(None) = line
        BY DEF Sources, Inbox
    <2>4. Once(line, e)
        BY <2>1, <2>3 DEF EventInv, SentOnce
    <2>5. In(line, e) /\ ~In(Tail(line), e)
        BY <1>1, <2>2, <2>4, NoteTaken
    <2>6. \A r \in Sources : In(Inbox(r), e) => r = None
        BY <2>1, <2>3, <2>5 DEF EventInv, SentOnce
    <2>7. Host!Spread(e, to, Listening) /\ subs' = subs
        BY <1>6
    <2>8. ASSUME NEW r \in Sources PROVE ~In(Inbox(r), e)'
        <3>1. CASE r = None
            <4>1. Inbox(r)' = Tail(line)
                BY <1>1, <3>1 DEF Inbox
            <4>2. QED
                BY <2>5, <4>1 DEF In, IsNote
        <3>2. CASE r # None
            <4>1. Inbox(r)' = Inbox(r)
                BY <1>1, <3>2 DEF Inbox
            <4>2. QED
                BY <2>6, <3>2, <4>1 DEF In, IsNote
        <3>3. QED
            BY <3>1, <3>2
    <2>9. QED
        BY <1>3, <2>1, <2>3, <2>5, <2>7, <2>8, SpreadEvents
<1>7. CASE Host!Granted("close") /\ Host!Forget(m.client) /\ UNCHANGED <<pending, lost, due, torn, down>>
    <2>1. \A t \in Types : subs'[t] \in {subs[t], None}
        BY <1>7 DEF Host!Forget
    <2>2. \A v \in Workers : Open(v) => Client(v) # None
        BY ClientFacts DEF RuntimeInv, RunningIsStarted
    <2>3. QED
        BY <1>1, <1>2, <1>4, <1>7, <2>1, <2>2, OthersServed
<1>8. CASE Host!Granted("abort") /\ UNCHANGED <<owner, subs, pending, lost, due, torn, down>>
    BY <1>1, <1>2, <1>4, <1>8, OthersServed
<1>9. QED
    BY <1>5, <1>6, <1>7, <1>8 DEF Host!Grant
-----------------------------------------------------------------------------
LEMMA EventInit == Init => EventInv
<1>1. SUFFICES ASSUME Init PROVE EventInv
    OBVIOUS
<1> USE <1>1 DEF Init, Host!HostInit, Worker!WorkerInit
<1>2. EventTypes /\ DueKept
    BY DEF EventTypes, DueKept
<1>3. \A s \in Sources : Inbox(s) = <<>>
    BY DEF Sources, Inbox, Clients
<1>4. SentOnce /\ RoutedOnce
    BY <1>3 DEF SentOnce, RoutedOnce, Once, In, Clients
<1>5. HeardOnce
    BY DEF HeardOnce
<1>6. LocalsServed /\ Unsubscribed
    BY DEF LocalsServed, Unsubscribed, Worker!NoCall
<1>7. QED
    BY <1>2, <1>4, <1>5, <1>6 DEF EventInv

LEMMA EventStep ==
    ASSUME ~Reconnects, OneWorkerPerType, RuntimeInv, RuntimeInv', EventInv, [Next]_vars
    PROVE  EventInv'
<1>1. CASE UNCHANGED vars
    <2>1. SameStreams /\ UNCHANGED <<status, reader, factories, instances, locals, rpc>>
        BY <1>1 DEF vars, hostOnly, workerOnly, uncalled, SameStreams
    <2>2. LocalsServed' /\ Unsubscribed'
        BY <2>1 DEF LocalsServed, Unsubscribed, EventInv, SameStreams, Worker!Served, Client, Worker!Client
    <2>3. QED
        BY <2>1, <2>2, SubscriptionsMove DEF Open, Worker!Open, EventInv, EventTypes
<1>2. ASSUME NEW w \in Workers, Application(w)
      PROVE  EventInv'
    <2>1. CASE Connect(w)
        BY <2>1, ConnectEvents
    <2>2. CASE \E e \in Events : Publish(w, e)
        BY <2>2, PublishEvents
    <2>3. CASE \E t \in Types : Locally(Worker!SendMessage(w, t))
        BY <2>3, SendsNoEvent DEF Locally
    <2>4. CASE Locally(Worker!Stop(w)) \/ Locally(Worker!Crash(w))
        BY <2>4, StopEvents DEF Locally
    <2>5. CASE \E t \in Types : \/ <<w, t>> \in Serves /\ Locally(Worker!RegisterFactory(w, t))
                                \/ Locally(Worker!AddSubscription(w, t))
                                \/ Locally(Worker!RemoveSubscription(w, t))
        BY <2>5, CallEvents DEF Locally
    <2>6. QED
        BY <1>2, <2>1, <2>2, <2>3, <2>4, <2>5 DEF Application
<1>3. ASSUME NEW w \in Workers, ServeCalls(w) \/ Reads(w) \/ Handles(w) \/ Returns(w)
      PROVE  EventInv'
    <2>1. CASE ServeCalls(w)
        BY <2>1, ServedEvents DEF ServeCalls
    <2>2. CASE Reads(w)
        BY <2>2, ReadsNoEvent, ReadsEvent DEF Reads, Locally, Worker!ReadLoop
    <2>3. CASE Handles(w)
        BY <2>3, SendsNoEvent DEF Handles, Locally
    <2>4. CASE Returns(w)
        BY <2>4, StopEvents, AnswerEvents DEF Returns, Locally
    <2>5. QED
        BY <1>3, <2>1, <2>2, <2>3, <2>4
<1>4. ASSUME NEW c \in Clients, Route(c) \/ EndStream(c)
      PROVE  EventInv'
    BY <1>4, RoutesNoEvent, RoutesEvent, EndEvents DEF Route, Host!HostReceives
<1>5. ASSUME NEW k \in strays, NEW answer \in Answers, ServeStray(k, answer)
      PROVE  EventInv'
    BY <1>5, StrayEvents
<1>6. CASE NextInLine
    BY <1>6, GrantEvents, QueuedEvents DEF NextInLine
<1>7. QED
    BY <1>1, <1>2, <1>3, <1>4, <1>5, <1>6 DEF Next, Clients

(* When each type is served by one worker and no stream breaks under a     *)
(* worker that goes on, an agent is given an event at most once, and an    *)
(* event the host delivered to a complete subscription is given to the     *)
(* agent or on its way to it, whatever registers, subscribes, crashes,     *)
(* stops and starts in between, unless the delivery itself met an owner    *)
(* without a connection.                                                   *)
THEOREM EventsOnce ==
    ASSUME ~Reconnects, OneWorkerPerType
    PROVE  Spec => []EventExactlyOnce
<1>1. (RuntimeInv /\ EventInv) => EventExactlyOnce
    <2>1. SUFFICES ASSUME RuntimeInv, EventInv PROVE EventExactlyOnce
        OBVIOUS
    <2>2. \A p \in Events \X Types : heard[p] <= 1
        <3>1. ASSUME NEW p \in Events \X Types PROVE heard[p] <= 1
            <4>1. p = <<p[1], p[2]>> /\ p[1] \in Events /\ p[2] \in Types
                OBVIOUS
            <4>2. heard[p] = 0 \/ heard[p] = 1
                BY <2>1, <4>1 DEF EventInv, HeardOnce
            <4>3. QED
                BY <4>2
        <3>2. QED
            BY <3>1
    <2>3. ASSUME NEW d \in due, d[1] \notin torn, Attends(d[3])
          PROVE  \/ heard[<<d[1], d[2]>>] > 0
                 \/ \E i \in DOMAIN down[d[3]] : down[d[3]][i] = [kind |-> "event", id |-> d[1]]
        <3>1. heard[<<d[1], d[2]>>] \in Nat /\ d[3] \in Clients
            BY <2>1 DEF EventInv, EventTypes
        <3>2. heard[<<d[1], d[2]>>] # 0 \/ In(down[d[3]], d[1])
            BY <2>1, <2>3 DEF EventInv, DueKept, Promised
        <3>3. ASSUME NEW i \in DOMAIN down[d[3]], IsNote(down[d[3]][i], d[1])
              PROVE  down[d[3]][i] = [kind |-> "event", id |-> d[1]]
            <4>1. down[d[3]][i] \in Messages
                BY <2>1, <3>1 DEF RuntimeInv, HostTypes
            <4>2. down[d[3]][i] \in Notes
                BY <3>3, <4>1 DEF IsNote, Messages, Requests, Responses
            <4>3. QED
                BY <3>3, <4>2 DEF IsNote, Notes
        <3>4. QED
            BY <3>1, <3>2, <3>3 DEF In
    <2>4. QED
        BY <2>2, <2>3 DEF EventExactlyOnce, DeliveredOrDue
<1>2. RuntimeInv /\ RuntimeInv' /\ EventInv /\ [Next]_vars => EventInv'
    BY EventStep
<1>3. QED
    BY <1>1, <1>2, EventInit, RuntimeInvariant, PTL DEF Spec
=============================================================================
