# TLA+ models of the AutoGen runtimes, teams and agents

The Python part of AutoGen is an actor system on asyncio. `autogen-core` has
the message queue, the in-process runtime, subscriptions and agent instances;
`autogen-agentchat` builds teams of chatting agents on it; `autogen-ext` has a
distributed runtime over gRPC, tool sessions and clients of external services;
`autogen-studio` runs teams for web clients. These modules model the parts that
decide *in which order things happen and what happens when one of them fails*.
`PROJECT.json` lists components, runs, mutations, the map from definitions to
source lines, findings, hazards and theorems.

Short names of files used below:

| name | directory |
|---|---|
| `_queue.py`, `_single_threaded_agent_runtime.py`, `_runtime_impl_helpers.py`, `_type*_subscription.py`, `_cancellation_token.py`, `model_context/*`, `tools/_static_workbench.py` | `src/python/packages/autogen-core/src/autogen_core/` |
| `_base_group_chat*.py`, `_chat_agent_container.py`, `_round_robin_`, `_selector_`, `_swarm_group_chat.py`, `_sequential_routed_agent.py`, `_events.py`, `_graph/_digraph_group_chat.py`, `_magentic_one/*` | `src/python/packages/autogen-agentchat/src/autogen_agentchat/teams/_group_chat/` |
| `base/_termination.py`, `conditions/_terminations.py`, `agents/_assistant_agent.py` | `src/python/packages/autogen-agentchat/src/autogen_agentchat/` |
| `runtimes/grpc/*`, `tools/mcp/*` | `src/python/packages/autogen-ext/src/autogen_ext/` |
| `connection.py`, `ws.py`, `teammanager.py` | `src/python/packages/autogen-studio/autogenstudio/` (`web/managers`, `web/routes`, `teammanager`) |

## 1. Inventory

| component | state | operations | what is hard about it | what makes it correct |
|---|---|---|---|---|
| **Message queue** `Queue` (`_queue.py`) | items, deques of getter and putter futures, count of unfinished tasks, an Event, the shutdown flag | `get`, `put`, `task_done`, `join`, `shutdown(immediate)` | callers are woken one by one and may be cancelled after they were woken; shutdown races with all of them | no lost wake-up, exact join count, nobody blocked after shutdown, FIFO |
| **In-process runtime** (`_single_threaded_agent_runtime.py`) | the queue, futures of senders, handler tasks, intervention handlers, the run context, a background exception | `send_message`, `publish_message`, `_process_next` and its three `_process_*` tasks, `start`, `stop`, `stop_when_idle`, `stop_when` | one task per message; answers travel through the same queue; cancellation, drops and failures at every await; each stop replaces the queue object | every sender is answered, every subscriber is reached, `stop_when_idle` stops exactly when idle |
| **Subscriptions and agent instances** (`_runtime_impl_helpers.py`, same runtime) | subscription list, seen topics, cache of recipients; table of agents, factories | add, remove, look up; `_get_agent`, `register_agent_instance`, `save_state`, `close` | the cache must follow every later change; the agent table is tested before and written after an await, and iterated with awaits inside | cache = what the table says, one instance per id, complete walks |
| **Sequential agents** `FIFOLock` | flag, queue of events | `acquire`, `release` around a handler | the lock is handed over without being opened | mutual exclusion, FIFO, never stuck |
| **Group chat team** (round robin, swarm, selector, parallel) | manager: thread, turn, next, current or previous speaker, active speakers, termination condition; container: buffer; caller: output queue | `run_stream`, `reset`, `save_state`, `load_state`, the handlers of manager and container | four kinds of actors over one bus; the stream is ended by whoever comes first; failures and cancellation leave state behind for the next run | everybody hears everything once and in order, the right one speaks, the result is the thread, runs end |
| **GraphFlow team, termination conditions** | ready queue, remaining counts, enqueued flags, triggered groups; a count and a flag per condition, stop messages collected by an "and" | `update_message_thread`, `select_speaker`, `_apply_termination_condition`, `reset`, `save_state`, `load_state`; `__call__`, `reset`, `set` | four pieces of bookkeeping per activation group that must move together; parts that have terminated raise when called again | a node runs when, and as often as, its edges say; a verdict has its reasons |
| **Magentic-One** | rounds, stalls, thread, ledgers | outer loop (plan), inner loop (ledger, instruction), replanning, final answer | participants are reset one by one while the handler awaits | orchestrator and participants share one conversation; runs end |
| **Distributed runtime** host and workers | connections, agent types, subscriptions per client, futures per client and request; pending calls, factories, background tasks | streams, requests, responses, events, unary calls; start, stop, crash | disconnects, crashes and restarts with calls and events under way; one coroutine suspends while it holds the host's lock | nothing outlives a connection and its clean-up, events exactly once, calls settle |
| **Assistant agent, model contexts, MCP workbench** | model context, the batch of calls, the event stream, the session's command queue | a run, its tool executions, handoff, reflection, reset, save, load; session start, failure, stop | concurrent executions, a session that fails with commands queued, cancellation at any await, contexts that cut the conversation | the model sees calls with their results, runs end |
| **Studio runs** | token, socket, input queue and status per run | connect, start, stop, input, disconnect, cleanup | sockets and streams of one run share one entry in every dictionary, with awaits between test and use | an active run is alive, a stop reaches its stream, a stopped stream ends, each as far as starts do not cross |
| Serialization, telemetry, model clients, code executors, other agents, agbench, .NET | | | conversions and I/O | not modelled, section 8 |

How they interact: clients and handlers call `send_message`/`publish_message`,
which put envelopes into the queue; the run loop takes them, asks the
interventions, and starts a task that looks up recipients (subscriptions) and
agents (instances) and calls `on_message`. Containers and manager are sequential
agents: `on_message` waits for the FIFO lock. A team is a set of such agents plus
the caller of `run_stream`, who sends `GroupChatStart`, reads the output queue,
and starts a background task that waits for `stop_when_idle`. A container calls
its agent; an assistant agent calls its model, its tools and its sessions. In a
distributed runtime each worker does what the in-process runtime does and hands
the rest to the host. Studio runs a team per start message of a socket.

## 2. Modules

| module | models | implements / composes |
|---|---|---|
| `MessageQueue` | `_queue.py`, every operation, and `Task.cancel()` of a blocked caller | implements `JoinableQueue` |
| `SingleThreadedRuntime` | the runtime, cancellation tokens | uses the queue as `JoinableQueue` promises it |
| `SubscriptionManager`, `AgentInstances` | table, cache, both subscription classes; `_get_agent`, registered instances, the walks | |
| `Delivery` | `_process_publish` and `_process_send` up to the handlers | composes the two above |
| `FifoLock` | `FIFOLock` in `on_message_impl` | implements `FifoMutex` |
| `GroupChat` | `run_stream`, `reset`, `save_state`, `load_state`, base manager, containers; round robin, swarm, selector and list selections | uses an agent's lock as `FifoMutex` promises it and the runtime as `SingleThreadedRuntime` shows it |
| `Terminations` | termination conditions and their and/or trees, as operators | |
| `GraphFlow` | `GraphFlowManager` | extends `Terminations` |
| `MagenticOne` | the orchestrator and its containers | |
| `GrpcHost`, `GrpcWorker` | the servicer; a worker's process | |
| `GrpcRuntime` | the streams between them, crashes, the application | composes the two above |
| `ModelContext` | the four chat completion contexts, as operators | |
| `McpWorkbench` | `McpWorkbench` and `McpSessionActor` | |
| `AssistantAgent` | `on_messages_stream` | extends the two above |
| `StudioRuns` | `WebSocketManager`, the socket handlers, the team stream inside | |
| `MessageQueueProofs`, `FifoLockProofs`, `SingleThreadedRuntimeProofs`, `DeliveryProofs`, `GroupChatProofs`, `GrpcRuntimeProofs`, `AssistantAgentProofs`, `StudioRunsProofs` | theorems, section 5 | each extends the module it is about |
| `MC*` | small instances for TLC | |

**The unit of a step** is what a coroutine does between two awaits that can
suspend. `put` on an unbounded queue never suspends, so "put the response, then
`task_done()`" is one step. Any ready coroutine may run next: the order asyncio
picks is one of those explored.

**State and actions.** Variables carry the comment of the attribute they stand
for, actions carry the name of the method. Definitions whose comment starts with
"mutation:" are plausible bugs of the definition that follows; no specification
uses them. Each property of a passing run is violated by at least one of them.

### Abstractions worth knowing

*MessageQueue.* A task awaits in at most one operation, so the deques hold tasks
instead of futures. `Cancel` of a task whose future is already done marks it
"doomed": it resumes with `CancelledError` although it was woken, which is the
case the `except` branches of `get` and `put` exist for. `held` (items taken and
not yet marked done) is the users' obligation and bounds `TaskDone`; a call too
many raises `ValueError` and changes nothing.

*SingleThreadedRuntime.* A message is a constant with a kind, its targets and
the message whose handler sends it, and is sent at most once. `st` says how far
it has come; `dropped`, `leaked`, `stranded` and `discarded` are the four ways
in which the code loses one. The several intervention handlers of the code are
one verdict, since the first that drops or fails ends the loop over them.
`process_next()` is the body of the run loop. One coroutine calls `start` and
the stops, one after the other; concurrent stops are not modelled. A handler
that awaits a nested request resumes when the future is settled, whatever the
outcome.

*Delivery.* `startswith` is the constant relation `PrefixesOf`. A refused add or
remove raises and changes nothing, so it is not a step. `Suspends` is the set of
ids whose factory suspends; between two look-ups that find their agent at once
the model allows other coroutines, which the code does not: the properties hold
in this larger set of behaviours. `used` holds the instances ever given out for an
id: `OnlyRacersReplace` bounds them by the callers that were inside the factory
together, and by one where the factory does not suspend. A dict iteration raises when the size of the
dict changed: that is `WalkEnd` with `"error"`.

*FifoLock.* A task that is cancelled inside `event.wait()` would strand the lock,
because `acquire()` lies outside the `try`. Nothing in the repository cancels a
handler task there (tokens are linked to the futures of senders and of
`select_speaker`), so it is not a step.

*GroupChat.*
- The runtime is reduced to a queue `bus` and `rt`: `up`; `failing` (a handler
  raised, the run loop has not noticed); `shut`; `leaked` (a task ended without
  `task_done()`); `off`. `StopWhenIdle` waits for an empty bus and empty inboxes,
  which is what an exact join count means, and never happens when `leaked`.
- `silenced` says that the exception the loop raises is a `CancelledError`. A
  container catches `Exception`, and so does `stop_runtime`: a participant's
  `CancelledError`, with or without the run's token, ends the runtime and puts
  nothing into the output queue. `residue` is an exception that came after the
  loop had ended; the loop of the next run raises it before it handles anything
  (`RunStreamDoomed`).
- A chat message is known by its source, in a swarm also by its hand-off target.
  Inner messages and streaming chunks are left out: they take the path of the
  response's log message. The selector's retries end in one name.
- The start's answer is delivered when the handler ends: its response envelope
  directly follows what the handler published.
- `_active_speakers` is a count per participant. `remove` raises for an absent
  name; `HandleResponse` has the guard `active[p] > 0`, and `RespondersAreActive`
  shows that the guard never blocks.
- A termination condition that raises may have set its flag before (the parts of
  an and/or are called together), so `terminated` is then either value.
- Containers of nested teams, `pause` and `resume` are left out.

*GraphFlow.* Handlers are single steps, as `GroupChat` shows that requests and
responses reach the manager one by one. A message is the set of its marks: edge
conditions it satisfies and conditions it matches. `met` and `due` record, apart
from the code's bookkeeping, how often each edge was satisfied since its group
was last used. A state is loaded once: `load_state` keeps the dictionary of
enqueued flags it was given (`_digraph_group_chat.py:528`), so that a state loaded a
second time would bring the flags as the first run left them. The search for cycles without an exit in `graph_validate` is left
out; the instances satisfy it.

*Grpc.* gRPC delivers a stream in order or ends it; the host learns of its end
some time later, and a worker whose stream broke never does. `stop()` and a crash
may come at any moment; a restarted process counts its requests from the start
again. `waiting` holds the calls whose futures are not settled, `lost` the calls
the host dropped. Handlers do not send; the control channel is left out.
- `line` is the host's `asyncio.Lock` on the table of agent types. What runs under
  it does not suspend, except that `RegisterAgent` awaits `context.abort` there when
  it refuses: whoever comes then waits in line. A disconnect has deleted the
  connection and cancelled its futures before it waits (`Leaving`), so that a type
  may be owned by a client without a connection; delivering an event to it ends in
  `KeyError` for the recipients that were not yet served (`torn`).
- A unary call is not ordered with the stream. When its caller stops or crashes it
  becomes one of `strays`, which the host may serve at any later moment, also after
  the clean-up (`late`), or never.
- `Instances` are the types registered with `register_agent_instance`, which tells
  the host before it stores the agent: `instances` says which are stored.
- The start of a worker and `OpenChannel` are one step (`Connect`): the metadata of
  the stream is the first thing the host gets of a client, and nobody can name that
  client before it has registered a type.

*AssistantAgent.* A message of the model context is a user message, a text, a
list of call ids or a list of result ids. Memories and messages are what a run adds
to the context (`Inputs`); a run may also begin with the context the last handoff
took along (`Handed`), as the agent that goes on does. That context is made of two
lists, the calls and the results without those of the handoffs, each filtered by
itself. Results are in the order of the calls, as `gather` returns them. A run after
a cancelled one begins when the executions of that one have ended; the code does not
wait, but they only write to the stream of their own run. `future` of a client of the session says
whether its command is queued, its coroutine handed over or awaited. A token is
one message in the token-limited context.

*MagenticOne.* Nothing fails and nobody cancels; `GroupChat` has what happens
then. Plans, ledgers and instructions are known by their kind, the model's
verdicts are nondeterministic.

*StudioRuns.* The database is called without suspending. The team is what
`GroupChat` and `AssistantAgent` show of it: it yields, raises, or, once its token
was cancelled, ends when no agent of it waits for input, or never (`Hang`). Every
start message makes a stream, as in `ws.py:93`. `crossed` records the streams that
were begun beside another one or during a stop, and those they joined: they share one
entry for the token, which the first of them to end pops. Any send may fail, with the
client there or gone. An input function may be called after the cancellation. After
the result a stream may still yield what was logged, or fail when an agent is closed.
`Cleanup` is the server's shutdown; nothing happens after it.

## 3. Runs that pass

| run | bounds | shows |
|---|---|---|
| `queue` | 3 tasks, 2 items, 2 slots, 2 unfinished items | `TypeOK`, `NoIdleGetter`, `JoinCountsWork`, `ShutdownWakesAll`; the refinement of `JoinableQueue` with its fairness |
| `runtime_idle` | 4 messages (request, nested request, event, nested event), 2 agents, 2 starts; request handlers may fail | the stop is idle and returns; senders answered; subscribers reached; the unfinished count is off by no message |
| `runtime_faults` | 3 messages, 2 agents, 1 start; handlers raise or are cancelled, interventions pass, drop or raise, senders cancel at any moment, background exceptions on, every kind of stop | a sender that still waits is owed an answer or its message was lost in a named way; the unfinished count is off only by the messages lost in these ways; stops end |
| `delivery` | 2 callers (symmetric), 2 topics one of whose types is a prefix of the other, 4 subscriptions of which 2 at a time; 3 ids: a factory that suspends, one that does not, a registered instance | cache current; an agent is replaced only by callers that were in its factory together; walks complete or fail |
| `fifo_lock` | 5 tasks | mutual exclusion, no stuck lock, refinement of `FifoMutex`, everybody served |
| `chat` | 2 members, round robin, swarm, selector and parallel teams, 2 turns (1 in parallel), 2 runs, 1 load; round-robin members raise or end in `CancelledError`, conditions raise and callers cancel | responders are active, everybody hears everything once, the right one speaks, result = thread, runs end but for three named ways to hang |
| `graph_flow` | 5 nodes with a fan-out, an all-join, a loop back over an any-group and an exit; a tree (count and text) or external; 4 turns, 3 runs | a node is ready exactly as often as a group of it is met; verdicts justified; runs end |
| `magentic` | 2 participants, 2 turns, 2 stalls, 2 runs | orchestrator and participants share one conversation; runs end |
| `grpc` | 2 workers, 2 agent types of which one is registered as an instance, 1 request, 1 event; the serving worker starts twice, stops or crashes at any moment, its unary calls arriving later or never | what the host keeps of a client that has gone waits for its clean-up or came after it; a request finds its agent or the registration of it under way; an event is given exactly once unless its delivery ended in `KeyError`; calls settle |
| `agent_tools` | batches of 1 to 3 concurrent calls, of two tools, of a handoff, of a handoff between two others; 2 tool iterations, 2 runs, 1 fault; unbounded, buffered (1 to 4) and head-and-tail (1 to 3 each) contexts | the model sees paired calls and results, also the one that goes on after a handoff; events in place; runs end |
| `studio` | 2 sockets, 2 streams started at any moment | an active run is alive; a stop reaches the streams that have not crossed another; stopped streams end |

**Why these bounds suffice for the questions.** The wake-up bugs of a queue need
a waiter that is cancelled after it was woken, a blocked one behind it and
somebody who acts: three tasks. Two slots and two items make FIFO order visible
and let the queue be empty, half full and full. The unbounded queue
(`maxsize` 0), which is how the runtime uses it, differs only in that nobody
blocks in `put`; the theorems of section 5 cover it. The lost-count bugs of the
runtime need a message in a handler, one in the queue and one that fails; the
nested messages make a handler wait for the loop that delivers its answer. Two
starts are needed for anything left behind by an earlier run. Two members make
rotation, hearing the other and "somebody still active" distinct; a second run
meets what the first left. The graph has every kind of group once, and its loop
re-arms the join. Two workers are the least that can call each other; the second
start of one meets what its first left at the host, in particular a registration
that is refused, aborts and makes the clean-up of the first wait. Two calls
interleave; three have the handoff in the middle, where a filter that is wrong for one
of the two lists shows. A context of four messages can cut between any two of a run's. Faults are explored
in the round robin only, since they pass through the base manager that the other
styles share; the parallel team has one turn because a second multiplies the
states by the orders of the first. (`chat` also passes with the selector among
`FaultyStyles`, in about three minutes.) Two streams are enough for one to take the
other's token.

Deadlock is checked in the runs of the queue and the lock. It is off for the
others, which may stop for good: every message sent, every run over. That they do
not stop too early is the liveness properties' business.

## 4. Fairness

All fairness is weak and on steps of the event loop: a coroutine whose awaited
future is settled is resumed (asyncio's ready queue is FIFO, so no ready callback
is passed over for ever). Handlers, model calls and tools are assumed to end:
without that nothing can promise an answer. The caller of `run_stream` is assumed
to keep reading the stream; a gRPC stream delivers what was written to it while
both ends live. Nothing forces a client to send, cancel, start, stop, run, reset,
answer a request for input, connect or leave, nor a message to arrive, nor a
worker, a session or a socket to fail or not to.

`SenderAnswered` and `IdleStopReturns` are claimed for `Quiet` clients (no new
message once a stop is under way); section 6 shows what the others may see.
`CallSettles` names the ways in which a call is lost. `RunEnds` of a team names the
ways in which `run_stream` waits for ever: a lost `task_done()`, a `CancelledError`
that the run's own token did not cause, and an exception left by an earlier run.
`StoppedEnds` of Studio does not assume that a cancelled team ends: it exempts one
that waits for the user and one of which an agent does not end (`Hang` has no
fairness and may pre-empt the end at any moment), besides streams that have crossed
another and a server that shuts down. `RunEnds` of the agent is claimed for runs in which no execution of a tool raises out of its batch and no
command is put behind a shutdown of the session.

## 5. Proofs

TLAPS checks the following for every value of the constants that the named
`ASSUME`s of a module allow: any number of tasks, messages, agents, members,
workers, calls, sockets and runs, and any bound. Where a theorem has a hypothesis
of its own, section 6 has the behaviour of the code that makes it necessary.

*MessageQueueProofs.* The inductive invariant is

    QueueInv == TypeOK /\ WaitersTracked /\ JoinCountsWork
                /\ ShutdownWakesAll /\ NoIdleGetter /\ NoIdlePutter

`NoIdleGetter` ("a getter is already woken for each queued item, as long as
somebody is blocked") is not inductive by itself: when an item is added,
`_wakeup_next` has to *find* the blocked task, so the deque must hold it
(`WaitersTracked`), and it must not waste the wake-up on a task that has one
(no woken task is in a deque). `WakeFacts` states what `_wakeup_next` does to a
tracked deque, resting on the least-element lemma `LeastNatural`;
`WithoutFacts` states what `deque.remove` does; `StepCases` splits the loops of
`get` and `put` into their paths. The shutdown case needs `ShutdownWakesAll`, as
a woken getter may leave without taking an item only then. Assumptions:
`TaskAssumption` (finitely many tasks, for the cardinalities),
`MaxSizeAssumption`, `UnfinishedBoundAssumption`. Results: `QueueTypes`,
`NoLostWakeup`, `JoinIsExact`, `ShutdownIsHeard`, and `QueueKeepsPromise`: every
behaviour of the queue is one of `JoinableQueue` without its fairness.

*FifoLockProofs.* The invariant adds to `OneOwner` and `LockedIsOwned` that the
queue holds exactly the waiting tasks, each once, and only while there is an
owner: otherwise a release could grant the lock to a task that is no longer
waiting, or a free lock could have a queue nobody serves. Results:
`OneMessageAtATime`, `LockNeverStuck`, and `LockIsFifo`, the refinement of
`FifoMutex` (owner followed by queued events = the line). No assumption on `Task`.

*SingleThreadedRuntimeProofs.* Two inductive invariants.

- `WaitInv` is the types and where a message may be at each stage: the envelope
  the loop has taken, and those in the queue, are of messages at the stages that
  say so, and a future is pending only for a message that was sent. It gives
  `NobodyWaitsInVain` (`WaitingIsOwed`) with no hypothesis: handlers that raise or
  are cancelled, interventions, cancelling senders, all kinds of stops.
- `LedgerInv` adds the count itself, and for that what a stop leaves: each stop
  makes a new queue whose count is zero, so the next run's count is exact only if
  nothing was under way. This in turn needs that `join()` is woken only at zero,
  that nobody sends between that and the stop, and that a running handler keeps
  its message in the count. `LedgerBalances` (`UnfinishedLedger`) therefore
  assumes one start, or that all stops are clean (`stop_when_idle()` only, quiet
  clients, event handlers that return). `IdleStopCutsNothing` (`IdleStopIsIdle`)
  assumes quiet clients, event handlers that return, and one start or no other
  stop; request handlers may raise. Dropping any of these gives a counterexample
  of section 6.

*DeliveryProofs.* `RecipientsAreCurrent` (`CacheIsCurrent`) rests on the fact that
filtering keeps a list a list and that rebuilding and building one topic give the
same recipients. `RacersAreBounded` (`OnlyRacersReplace`), for any finite number of
callers: the instances given out for an id and the callers inside its factory are
together at most as many as there are callers, and at most one where the factory does
not suspend. The sum is inductive because a caller enters a factory only while the id
has no instance, and turns into at most one instance when it leaves; this needs that
nobody was given an agent of an id that has none (`StoredIsUsed`), and that callers
which wait for a factory wait for one that suspends (`BuildersWait`). `WalkMissesNone`
(`WalkIsComplete`), an action property, uses that entries of the table are never
removed: a table of the size the walk began with is that table.

*GroupChatProofs.* `RespondersAreExpected` (`RespondersAreActive`), for every
style, roster, fault, cancellation, reset and load. As it stands the property is
not inductive: a request is answered once only because its handler holds the
agent's lock until it has published the response (`WorkIsAsked`: who works has its
request at the head of its inbox), a response is removed once only because the
manager's handler, which may suspend in `select_speaker`, holds its own
(`SelectingHolds`), nobody gets a request of another (`RequestsAreOwn`), and the
round robin stands at a participant (`RobinStands`), also in a saved state.

`EveryoneIsTold` (`EveryoneHears`) rests on `HearInv`. The property speaks of the
moment a participant is asked; the invariant has to hold all along, so it weighs
everything under way (`HearsAll`): what a participant has read, then its buffer,
its inbox and the bus, is what others have said, that is the thread followed by the
responses and tasks the manager has not recorded yet, in that order. A step keeps
this only because what may lose messages, a shut runtime or a cancelled run, is
remembered as a fault (`FaultsShow`), a run starts with nothing under way and its task
is alone until the first speakers are asked (`OffIsEmpty`, `StartIsAlone`), nobody is
sent its own words (`OwnIsNotSent`), and it holds of the saved state (`SavedHears`).

`TurnsAreTaken` (`TurnsInOrder`) rests on `TurnInv`: in the styles with one speaker
at most one participant is out (`OneSpeaks`), the recorded turns followed by the one
under way are in the order of the style for the speaker the manager remembers
(`TurnsRun`), the same holds of a saved state (`TurnsSaved`), and a swarm in a handoff
asks only its target (`SwarmWaits`).

`ResultsAreThreads` (`ResultIsThread`), an action property, rests on `StreamInv`. While
run_stream goes on, what it has yielded, its output queue and the log messages under
way are the messages the run added to the thread, the responses under way and those of
the participants that have logged but not yet responded (`StreamOpen`, `InStep`): in
this order when one speaks at a time, as often when several do. A participant logs
before it responds and the manager takes both in turn, so a message is in the
stream before it is in the thread (`LogsLead`). Once a handler has failed, or a run
begins with an exception left by an earlier one, this is lost, but then a participant
is expected that never answers, so that the turn does not end (`Doomed`), or nobody is
out and nothing was started (`Frozen`); one or the other stays (`StuckStays`), and no
termination follows. When one is in the queue, what is before it is what
the run added, and nobody is left to add more before the run returns
(`StreamClosed`, `Frozen`, `Returns`); this needs that the manager selects only when
nobody is out (`SelectingAlone`). `TeamAssumption` has no agent named like the two
signals that end a stream, which in the code are objects of another type.

The theorems on hearing and on turns compare filtered sequences. The filter (`NotBy`) is a recursive function, whose
value at a length follows from the one before it, and facts about every length are
proved by the least counterexample (`LeastIndex`, from the well-foundedness of
the naturals) in place of an induction theorem that takes a predicate.

*GrpcRuntimeProofs.* `HostForgets` (`NothingOutlives`) and `RequestsFindHandlers`
(`HandlerIsThere`) have no hypothesis: registrations, stops, crashes, restarts,
streams that break under a worker that goes on, refusals that hold the lock while they
abort, calls that arrive after their caller has gone. What the host has of a client
is of one that was started (`KnownClients`), and the owner of a type has its factory
or instance, or is just being told that it is the owner (`OwnerServes`,
`RequestsServed`); the second case is `register_agent_instance` alone. The lock makes
two more facts necessary: nobody waits for the answer to a stray call
(`StraysAreGone`), and a registration in line is the one call of its client, or that
of a client that has gone (`QueuedIsCalled`); otherwise a late registration could make
a worker that runs again the owner of a type it does not serve. `EventsOnce`
(`EventExactlyOnce`) rests on a second invariant, `EventInv`: an event is on one
stream to the host or in the line for its lock, once (`SentOnce`), after that at most
once on the stream to each client and no longer with the host (`RoutedOnce`), and once an agent was given it,
on no stream its worker reads (`HeardOnce`). For the promise it needs that the
worker still knows of the subscription when it reads the event, hence that nothing
is promised while it learns that the subscription is gone (`Unsubscribed`) and that
it can make every agent it subscribes (`LocalsServed`), as one missing factory makes
`_process_event` raise for all. Deliveries that ended in `KeyError` are exempt
(`torn`). Assumed: no stream breaks under a worker that goes on (`~Reconnects`), as
such a worker would listen to a stream the host has forgotten, and one worker serves
each type (`OneWorkerPerType`). If two do, TLC finds that the one that
registered the type may be removing its subscription while the other adds one: an
event routed then is read by a worker that has just dropped the subscription.

*AssistantAgentProofs.* `ModelIsShownPairs` (`ModelSeesPairs`): the context is
paired, or, while tools run, ends with the calls whose results are awaited, and
so is the saved state, unless a run was cancelled in between (`broken`); and what a
handoff takes along is paired, since the next run may begin with it (`ContextInv`). The
last part says that the two lists of the handoff, filtered apart, still have the
same ids in the same order (`HandoffTakes`, from `NoHandoffsIsSeq`). That
every view of a paired conversation is paired is a lemma about each context
(`ViewPaired`, from `WindowPaired`, `SuffixPaired`, `PrefixPaired` and
`ConcatPaired`): the trimming of a leading result and of trailing calls is exactly
what is needed. Assumed: the context is the unbounded one, the buffered one or the
head-and-tail one, of any size (`Cuts`); the token-limited one does not keep
pairs. `EventsAreInPlace` (`EventsInPlace`): the end of the stream is put only
when every execution has returned, so the reader that stops at it leaves nothing;
executions that outlive a cancelled run are in the invariant too.

*StudioRunsProofs.* `StopAlwaysReaches` (`StopReaches`) and `ActiveRunIsLive`
(`ActiveIsLive`), for any number of sockets and streams started at any moment. The
first says two things: the token in the dictionary is of a live stream, however many
are started, and a live stream that a stop would not reach is one that has crossed
another or a stop. It is inductive together with two facts: streams that live together
have crossed (`Together`), so that a stream which pops the token of the run takes it
from itself or from one that has crossed, and only live streams are cancelled
(`CancelledIsLive`). For the second, while nothing has crossed, an active run is
connected and has a token that is not cancelled (`ActiveIsStoppable`), and between the
two halves of a stop nothing makes the run active again (`StopIsFinal`).

Only model-checked:

- liveness, and the fairness part of the refinements (`ENABLED` and fairness are
  outside the prover);
- `ThreadIsShared` of Magentic-One and `VerdictJustified` and `ReadyIsDue` of
  GraphFlow, which are stated with filters, folds and removals over sequences. They
  could be proved in the way of `EveryoneIsTold`, with recursive functions and least
  counterexamples, in proof modules of their own; this has not been done.

## 6. What the code does not do although it says so

TLC finds each of these violated. The first is a run of `PROJECT.json`, which
quotes the text it contradicts; the others are further configurations, kept to
reproduce what they show, or a configuration of section 3 with the property, and
the constant, that the row names, for example

    tlc -config MCRuntimeStopStrands.cfg MCSingleThreadedRuntime

| configuration | what happens | what it contradicts |
|---|---|---|
| `MCRuntimeDropHangs` (run `runtime_drop_hangs`) | a message dropped or failed by an intervention is never marked done: `stop_when_idle()` hangs | `_single_threaded_agent_runtime.py:845` |
| `MCRuntimeStopStrands` | `stop()` while a request is handled: its answer meets a queue that was shut down, the sender waits for ever | `_single_threaded_agent_runtime.py:834`: "The currently processing message will be completed" |
| `MCDelivery` with `OneInstancePerId` | two look-ups during an asynchronous factory make two instances of one id | `agent-identity-and-lifecycle.md:14`: "Agent ID uniquely identifies an agent instance" |
| `MCDelivery` with `DeliveredOnce` | a type and a prefix subscription of one agent deliver a message to it twice | `topic-and-subscription.md:61`: "to every recipient agent only once" |
| `MCChatReset` | a participant that failed stays in `_active_speakers`, also after `reset()`; later turns wait for it | `_base_group_chat.py:581`: "Reset the team and its participants to their initial state." |
| `MCChatParallelDelta` | with several speakers in a turn, the termination condition is given the last response only | `base/_termination.py:60`: "based on the messages received since the last time the condition was called" |
| `MCChat` with `CutOffEnds` as its only property | a participant whose own await is cancelled ends in `CancelledError`, which neither the container nor `stop_runtime` catches: nothing is put into the output queue and `run_stream` waits for ever (`_base_group_chat.py:512`, `:549`) | `_base_group_chat.py:513`: "Stop the consumption of messages and end the stream." |
| `MCChat` with `NextRunEnds` as its only property | an exception set after the run loop has ended stays behind; the loop of the next run raises it first, the start is dropped with the queue and its sender waits (`_single_threaded_agent_runtime.py:674`) | `_base_group_chat.py:402`: "Run the team again without a task to continue the previous task." |
| `MCChatCancelHangs` | cancel while the start is handled, then the condition raises: `run_stream` never returns | `_base_group_chat.py:370`: "The cancellation token to kill the task immediately." |
| `MCChatRepeats` | a speaker chosen by `selector_func` is not remembered as the previous one, and may be a candidate again | `_selector_group_chat.py:395`: whether the previous speaker is among the candidates |
| `MCChatLoad` | `load_state` of a selector team appends the thread to a model context that already has one | `_base_group_chat.py:799`: "overwrite the current state" |
| `MCGraphFlow` with `SaveMidway = TRUE`, `ReadyIsDue` | state saved while nodes are ready omits `_triggered_activation_groups`: after loading, counts are not restored when the nodes run | `_digraph_group_chat.py:524`: "Restore execution state from saved data." |
| `MCGraphJoin` | an edge satisfied twice counts twice towards an "all" join, which runs without its other edge | "All edges in this activation group must be satisfied before the target node can execute" (`_digraph_group_chat.py:61`) |
| `MCMagenticOne` with `TurnsAreBounded` | `_n_rounds > max_turns` allows `max_turns` + 1 rounds | `_magentic_one_group_chat.py:52`: "The maximum number of turns" |
| `MCGrpcCrossed` | responses are matched by an id every worker counts for itself: of two callers with the same id one receives the other's answer | `_worker_runtime_host_servicer.py:267`: "will send the response back to the original sender" |
| `MCGrpc` with `OthersDoNotMatter` | a disconnect waits for the lock with its connection already deleted: an event for its type ends in `KeyError` at `_worker_runtime_host_servicer.py:285` and does not reach the others | `topic-and-subscription.md:61`: "to every recipient agent" |
| `MCGrpc` with `GoneIsForgotten` | a registration that arrives after the clean-up of its client stays: the type has an owner that is not connected, and nobody can register it | `_worker_runtime_host_servicer.py:139`: "Remove the client id from the agent type to client id mapping." |
| `MCGrpc` with `AlwaysServed` | `register_agent_instance` tells the host before it stores the agent: a request may meet neither instance nor factory | `_worker_runtime.py:746-771` |
| `MCAgentTools` with `OneInput`, `FewAnswers`, one run, `CancelledRunEnds` | an execution that raises (its token was cancelled) never ends the event stream: the run waits for ever | `_base_chat_agent.py:167`: "The cancellation token to kill the task immediately." |
| `MCAgentTokens` | the token-limited context takes messages out of the middle and separates calls from their results | `ModelSeesPairs`, which the other contexts keep |
| `MCStudio` with `StopReachesAll` | a second start replaces the token of the first stream, and the stream that ends first pops the token of the other: stop and disconnect do not find it | `connection.py:274`: "Cancel any running tasks" |
| `MCStudio` with `ActiveIsAlwaysLive` | a stream whose token another one has popped is not marked as stopped by a disconnect, and when it fails on the closed connection nothing is written: the row stays active | `connection.py:274` |
| `MCStudio` with `DisconnectEnds` | a stream that waits for input, or whose team hangs, does not end when its client disconnects | `connection.py:274` |
| `MCStudio` with `AnswersReach` | a reconnect replaces the input queue a stream waits on: the answers go to the new one | `connection.py`, `connect` |

Some more need only other constants of a configuration above. In-process runtime:
`IdleStopIsIdle` is violated with `Quiet = FALSE` in `MCRuntimeIdle.cfg`
(`Mixed` messages, one start): a message accepted between the last `task_done()`
and the wake-up of `join()` is discarded; and with `PublishesFail`: an event
counts as done while its other handlers run. In `MCRuntimeFaults.cfg` with two
starts, `Stops = {"stop", "idle"}`, no verdicts and `AlwaysReturn`, a handler that
outlives `stop()` still runs when the next run's `stop_when_idle()` returns, and
its `task_done()` lands on the queue of that run. With `PublishesFail`
and `IgnoreErrors = FALSE`, a background exception makes `stop_when_idle()` hang,
and `ExceptionSurfaces` fails: an exception set just before `stop()` is raised by
the next run.

Met while modelling, and part of the models: a worker that is stopped and started
again does not read (`_read_task` is not made anew; `Deaf`); `reset()` of
GraphFlow leaves triggered groups and `_active_speakers`; `_n_rounds` is not reset
between runs nor `_n_stalls` on replanning; commands put behind a shutdown of an
MCP session wait for ever (`behind`); a caller cancelled with its command queued
makes the actor fail when it settles the future; cancelling a token linked to a
remote call raises `AttributeError`, since what is linked is a coroutine;
`clear()` of a model context also drops its initial messages; a cancelled run
leaves unanswered calls in the context (`broken`).

The passing runs either exclude the circumstance by a constant (`runtime_idle` has
no interventions, `graph_flow` saves no state midway) or name it in the property
(`UnfinishedLedger`, `WaitingIsOwed`, `OnlyRacersReplace`, `NothingOutlives`,
`EventExactlyOnce`, `CallSettles`, `RunEnds`, `ModelSeesPairs`, `StopReaches`), so that they say there is no way to lose a message, a sender or
a call besides the ones listed here.

## 7. Running

    tlc -workers 2 -config MCChat.cfg MCGroupChat
    tlapm MessageQueueProofs.tla
    tlapm GroupChatProofs.tla

Every passing run ends within about two minutes on two workers.

## 8. Not modelled, and why

Most lines of the repository are outside of what a model checker can say
something about: the clients of model services, browsers, search engines, shells
and databases in `autogen-ext` (each a translation to and from an API around one
awaited call), notebooks and samples, generated protocol code, Studio's REST
routes and front end, `agbench`. Their correctness is in conversions and in
services that are not in the repository.

Inside the modelled packages: tracing, logging, serialization and component
configuration change no state the properties mention. `load_state`,
`register_factory` and the `agent_*` accessors of the in-process runtime are table
reads and writes without awaits in between. Routed and closure agents dispatch by
type. The code executor, filter and society-of-mind agents wrap an executor, a
filter and a team. Resources, prompts, sampling and elicitation of an MCP session
take the path of its tool calls. Nested teams, `pause`/`resume`, the control
channel of the host, sends from within handlers of a distributed agent, the retry
policy of the gRPC channel, a second instance of a type that has one, a GraphFlow state
that is loaded twice, and the search for cycles of a graph are left out. The .NET runtime is a separate
implementation.

## 9. Plan

1. Theorems next: `ThreadIsShared` of Magentic-One by the argument of
   `EveryoneIsTold`, with the orchestrator in place of the manager.
2. `ReadyIsDue` of GraphFlow as an inductive invariant: for each group the
   remaining count and the satisfied edges add up to the number of its edges.
3. Nested teams, with a container that runs a team; `pause` and `resume`.
4. Sends from within handlers of distributed agents, and the state of agents.
5. Concurrent stops in `SingleThreadedRuntime`.
