---------------------------- MODULE AssistantAgent ----------------------------
(***************************************************************************)
(* AssistantAgent.on_messages_stream: a run asks the model, executes the   *)
(* tool calls of its answer concurrently, adds their results to the model  *)
(* context and asks again, until the model answers with text, hands off or *)
(* has used its tool iterations.  The tools of the agent are those of a    *)
(* static workbench and those of a McpWorkbench.  The run ends by itself,  *)
(* when it is cancelled (the task that awaits it), or when an exception    *)
(* leaves it; a cancelled token makes the awaited calls raise.             *)
(***************************************************************************)
EXTENDS McpWorkbench, ModelContext

CONSTANTS
    Contexts,           \* the kinds of model context the agent may have
    Answers,            \* the lists of tool calls a model answers: [tool, garbled]
    Handoffs,           \* the names of the handoff tools
    Static,             \* the tools of the static workbench, which stream events
    Remote,             \* the tools of the McpWorkbench
    Inputs,             \* what a run adds to the context: its messages, a handoff's
                        \* context and what the memories recall (Handed has more)
    MaxToolIterations,  \* _max_tool_iterations
    Reflects,           \* the values of _reflect_on_tool_use an agent may have
    MaxCalls,           \* bound on the calls of an answer: at least their lengths
    MaxRuns,            \* bound on the runs
    MaxEvents,          \* bound on the events a tool streams
    MaxFaults           \* bound on lost sessions, cancellations, failed models, stops
                        \* of the workbench and saved states

ASSUME AgentAssumption ==
    /\ MaxToolIterations \in Nat \ {0}
    /\ Clients = 0..MaxCalls /\ Closer \notin Clients
    /\ MaxCalls \in Nat
    /\ \A answer \in Answers : Len(answer) \in 1..MaxCalls /\ DOMAIN answer = 1..Len(answer)
    /\ Inputs \subseteq Seq(Message) /\ \A input \in Inputs : Paired(input)

VARIABLES
    context,    \* the _messages of the model context
    phase,      \* "idle", "listing", "model", "tools", "reflect"
    loop,       \* loop_iteration
    batch,      \* the tool calls of the model's answer: [tool, garbled]
    ids,        \* and their ids
    call,       \* their executions: "none", "ready", "running", "listing", "calling",
                \* "done" (with a result, of an error too), "raised"
    gather,     \* of the executions: "none", "running", "ended", "raised"
    stream,     \* the queue of what the tools stream: "event"; "end" is the None at its end
    inner,      \* inner_messages: "request", "event", "execution"
    reflect,    \* _reflect_on_tool_use
    response,   \* the response of the last run
    token,      \* the run's cancellation token is cancelled
    linked,     \* a coroutine of a remote call is linked to the token
    saved,      \* the state last saved: [messages, broken]
    broken,     \* a run was cancelled between a call message and its results
    runs, events, faults    \* bounds

agentVars == <<context, phase, loop, batch, ids, call, gather, stream, inner,
               response, token, linked, reflect, saved, broken, runs, events, faults>>
vars == <<mcpVars, agentVars>>

NoResponse == [kind |-> "none", context |-> <<>>]
Slots == 1..MaxCalls
Ended == {"none", "done", "raised"}

Init ==
    /\ McpInit
    /\ context = <<>> /\ reflect \in Reflects
    /\ phase = "idle" /\ loop = 0 /\ batch = <<>> /\ ids = <<>>
    /\ call = [i \in Slots |-> "none"] /\ gather = "none"
    /\ stream = <<>> /\ inner = <<>> /\ response = NoResponse
    /\ token = FALSE /\ linked = FALSE /\ broken = FALSE
    /\ saved = [messages |-> <<>>, broken |-> FALSE]
    /\ runs = 0 /\ events = 0 /\ faults = 0
-----------------------------------------------------------------------------
(* The model.                                                              *)

\* a HandoffMessage as a run adds it: its context, then the message itself.  The
\* agent that goes on is one like this one, after a reset if it has no messages
Handed == IF response.kind = "handoff" THEN {response.context \o <<User>>} ELSE {}

\* on_messages_stream up to the list_tools of its first _call_llm.  A run after a
\* cancelled one finds the executions of that one ended (a simplification: the
\* code does not wait for them, and they share nothing with the new run)
Run(input) ==
    /\ phase = "idle" /\ runs < MaxRuns /\ future[0] = "none"
    /\ \A i \in Slots : call[i] \in Ended
    /\ runs' = runs + 1
    /\ context' = context \o input
    /\ loop' = 0 /\ inner' = <<>> /\ response' = NoResponse
    /\ token' = FALSE /\ linked' = FALSE
    /\ phase' = "listing" /\ CallActor(0)
    /\ UNCHANGED <<batch, ids, call, gather, stream, reflect, saved, broken, events, faults>>

\* a model call that finds its token cancelled raises
Ask(asked) == phase' = IF token THEN "idle" ELSE asked

\* list_tools returns to _call_llm, or raises out of the run
Listed ==
    /\ phase = "listing" /\ future[0] \in {"ok", "err"}
    /\ IF future[0] = "ok" THEN Ask("model") ELSE phase' = "idle"
    /\ future' = [future EXCEPT ![0] = "none"]
    /\ UNCHANGED <<actor, task, queue, behind, context, loop, batch, ids, call, gather,
                   stream, inner, response, token, linked, reflect, saved, broken, runs, events, faults>>

ModelSays ==
    /\ phase = "model"
    /\ context' = Append(context, Text)
    /\ response' = [kind |-> "text", context |-> <<>>]
    /\ phase' = "idle"
    /\ UNCHANGED <<mcpVars, loop, batch, ids, call, gather, stream, inner, token, linked, reflect, saved,
                   broken, runs, events, faults>>

\* the answer is a list of calls: the executions are created as one task
ModelCalls(answer) ==
    /\ phase = "model"
    /\ batch' = answer
    /\ ids' = [i \in DOMAIN answer |-> <<Len(context) + 1, i>>]
    /\ context' = Append(context, FunctionCalls(ids'))
    /\ inner' = Append(inner, "request")
    /\ call' = [i \in Slots |-> IF i \in DOMAIN answer THEN "ready" ELSE "none"]
    /\ gather' = "running" /\ stream' = <<>>
    /\ phase' = "tools"
    /\ UNCHANGED <<mcpVars, loop, response, token, linked, reflect, saved, broken, runs, events, faults>>

\* the answer to the reflection on the tool results, which has no tools
Reflection ==
    /\ phase = "reflect"
    /\ context' = Append(context, Text)
    /\ response' = [kind |-> "text", context |-> <<>>]
    /\ phase' = "idle"
    /\ UNCHANGED <<mcpVars, loop, batch, ids, call, gather, stream, inner, token, linked, reflect, saved,
                   broken, runs, events, faults>>

\* the model client raises
ModelFails ==
    /\ phase \in {"model", "reflect"}
    /\ faults < MaxFaults /\ faults' = faults + 1
    /\ phase' = "idle"
    /\ UNCHANGED <<mcpVars, context, loop, batch, ids, call, gather, stream, inner,
                   response, token, linked, reflect, saved, broken, runs, events>>
-----------------------------------------------------------------------------
(* _execute_tool_call, for call i of the batch.                            *)

CallIs(i, state) == call' = [call EXCEPT ![i] = state]
restOfCall == <<context, phase, loop, batch, ids, gather, inner, response, token, linked,
                reflect, saved, broken, runs, faults>>

\* garbled arguments are answered at once; a handoff tool or a static tool
\* starts, or raises when the token is cancelled; the McpWorkbench is asked for
\* its tools when no other has this one
BeginCall(i) ==
    /\ call[i] = "ready"
    /\ \/ /\ batch[i].garbled
          /\ CallIs(i, "done") /\ UNCHANGED mcpVars
       \/ /\ ~batch[i].garbled /\ batch[i].tool \in Handoffs \cup Static
          /\ CallIs(i, IF token THEN "raised" ELSE "running") /\ UNCHANGED mcpVars
       \/ /\ ~batch[i].garbled /\ batch[i].tool \notin Handoffs \cup Static
          /\ CallIs(i, "listing") /\ CallActor(i)
    /\ UNCHANGED <<restOfCall, stream, events>>

\* call_tool_stream of the static workbench passes on what a tool streams
StreamEvent(i) ==
    /\ call[i] = "running" /\ batch[i].tool \in Static /\ events < MaxEvents
    /\ stream' = Append(stream, "event") /\ events' = events + 1
    /\ UNCHANGED <<mcpVars, call, restOfCall>>

\* a tool returns; what a static tool raises becomes an error result, but
\* nothing catches what a handoff tool raises
EndCall(i) ==
    /\ call[i] = "running"
    /\ \/ CallIs(i, "done")
       \/ batch[i].tool \in Handoffs /\ CallIs(i, "raised")
    /\ UNCHANGED <<mcpVars, restOfCall, stream, events>>

\* list_tools is outside of any handler of exceptions
ListedForCall(i) ==
    /\ call[i] = "listing" /\ future[i] \in {"ok", "err"}
    /\ \/ /\ future[i] = "ok" /\ batch[i].tool \in Remote
          /\ CallIs(i, "calling") /\ CallActor(i)
       \/ /\ \/ future[i] = "err" /\ CallIs(i, "raised")
             \/ future[i] = "ok" /\ batch[i].tool \notin Remote /\ CallIs(i, "done")
          /\ future' = [future EXCEPT ![i] = "none"]
          /\ UNCHANGED <<actor, task, queue, behind>>
    /\ UNCHANGED <<restOfCall, stream, events>>

\* call_tool of the McpWorkbench makes every exception an error result, that
\* of linking a cancelled token to a coroutine too
RemoteCall(i) ==
    /\ call[i] = "calling" /\ CallIs(i, "done")
    /\ future[i] \in {"ok", "err"} \/ (future[i] = "held" /\ token)
    /\ future' = [future EXCEPT ![i] = "none"]
    /\ UNCHANGED <<actor, task, queue, behind, restOfCall, stream, events>>

\* a held coroutine is awaited: at once by list_tools, by call_tool once the
\* token is linked
Await(c) ==
    /\ AwaitAnswer(c)
    /\ IF c \in Slots /\ call[c] = "calling" THEN ~token /\ linked' = TRUE ELSE UNCHANGED linked
    /\ UNCHANGED <<context, phase, loop, batch, ids, call, gather, stream, inner,
                   response, token, reflect, saved, broken, runs, events, faults>>
-----------------------------------------------------------------------------
(* _process_model_result around the executions.                            *)

\* mutation: the stream ends with the first execution
GatherEndsFirst ==
    /\ gather = "running"
    /\ \E i \in DOMAIN batch : call[i] = "done"
    /\ gather' = "ended" /\ stream' = Append(stream, "end")
    /\ UNCHANGED <<mcpVars, context, phase, loop, batch, ids, call, inner, response,
                   token, linked, reflect, saved, broken, runs, events, faults>>

\* the task that gathers the executions: it ends the stream when all have
\* returned, and raises as soon as one has raised
GatherEnds ==
    /\ gather = "running"
    /\ \/ /\ \E i \in DOMAIN batch : call[i] = "raised"
          /\ gather' = "raised" /\ UNCHANGED stream
       \/ /\ \A i \in DOMAIN batch : call[i] = "done"
          /\ gather' = "ended" /\ stream' = Append(stream, "end")
    /\ UNCHANGED <<mcpVars, context, phase, loop, batch, ids, call, inner, response,
                   token, linked, reflect, saved, broken, runs, events, faults>>

ReadEvent ==
    /\ phase = "tools" /\ stream # <<>> /\ Head(stream) = "event"
    /\ stream' = Tail(stream)
    /\ inner' = Append(inner, Head(stream))
    /\ UNCHANGED <<mcpVars, context, phase, loop, batch, ids, call, gather, response,
                   token, linked, reflect, saved, broken, runs, events, faults>>

\* the results of the executions, by the call_id each one has from its call:
\* gather returns them in the order of the calls, not in that of their ends
Results == ids

\* what is left of a list over the batch without the entries of handoff calls
NoHandoffs(list) ==
    LET kept[n \in 0..Len(batch)] ==
            IF n = 0 THEN <<>>
            ELSE IF batch[n].tool \in Handoffs THEN kept[n - 1] ELSE Append(kept[n - 1], list[n])
    IN  kept[Len(batch)]

\* mutation: the results of the handoff calls are among those taken along
HandoffContextUnfiltered ==
    IF NoHandoffs(ids) = <<>> THEN <<>> ELSE <<FunctionCalls(NoHandoffs(ids)), ExecutionResults(Results)>>

\* the messages a handoff takes along: tool_calls and tool_call_results
HandoffContext ==
    LET tool_calls == NoHandoffs(ids)
        tool_call_results == NoHandoffs(Results)
    IN  IF tool_calls = <<>> THEN <<>>
        ELSE <<FunctionCalls(tool_calls), ExecutionResults(tool_call_results)>>

\* the end of the stream: the results enter the context; then a handoff, the
\* next question to the model, the reflection or the summary
CollectResults ==
    /\ phase = "tools" /\ stream # <<>> /\ Head(stream) = "end" /\ gather = "ended"
    /\ stream' = Tail(stream)
    /\ context' = Append(context, ExecutionResults(Results))
    /\ inner' = Append(inner, "execution")
    /\ gather' = "none" /\ call' = [i \in Slots |-> "none"]
    /\ \/ /\ \E i \in DOMAIN batch : batch[i].tool \in Handoffs
          /\ response' = [kind |-> "handoff", context |-> HandoffContext]
          /\ phase' = "idle" /\ UNCHANGED <<mcpVars, loop>>
       \/ /\ \A i \in DOMAIN batch : batch[i].tool \notin Handoffs
          /\ \/ /\ loop < MaxToolIterations - 1
                /\ loop' = loop + 1 /\ phase' = "listing" /\ CallActor(0)
                /\ UNCHANGED response
             \/ /\ loop = MaxToolIterations - 1 /\ UNCHANGED <<mcpVars, loop>>
                /\ \/ reflect /\ Ask("reflect") /\ UNCHANGED response
                   \/ /\ ~reflect /\ phase' = "idle"
                      /\ response' = [kind |-> "summary", context |-> <<>>]
    /\ UNCHANGED <<batch, ids, token, linked, reflect, saved, broken, runs, events, faults>>
-----------------------------------------------------------------------------
(* Cancellation, reset, and saved state.                                   *)

\* cancel() of the token cancels what is linked to it, in order; linked is the
\* coroutine of a remote call, where it raises and goes no further
CancelToken ==
    /\ phase # "idle" /\ ~token /\ faults < MaxFaults
    /\ token' = TRUE /\ faults' = faults + 1
    /\ LET running == {i \in Slots : call[i] = "running"} IN
       \E hit \in SUBSET running :
          /\ ~linked => hit = running
          /\ call' = [i \in Slots |-> IF i \in hit THEN "raised" ELSE call[i]]
    /\ phase' = IF phase \in {"model", "reflect"} /\ ~linked THEN "idle" ELSE phase
    /\ UNCHANGED <<mcpVars, context, loop, batch, ids, gather, stream, inner,
                   response, linked, reflect, saved, broken, runs, events>>

\* the task that runs the agent is cancelled; the executions go on
CancelRun ==
    /\ phase # "idle" /\ faults < MaxFaults
    /\ phase' = "idle" /\ faults' = faults + 1
    /\ broken' = (broken \/ phase = "tools")
    /\ IF phase = "listing" THEN AbandonCall(0) ELSE UNCHANGED mcpVars
    /\ UNCHANGED <<context, loop, batch, ids, call, gather, stream, inner,
                   response, token, linked, reflect, saved, runs, events>>

OnReset ==
    /\ phase = "idle" /\ context # <<>>
    /\ context' = <<>> /\ broken' = FALSE
    /\ UNCHANGED <<mcpVars, phase, loop, batch, ids, call, gather, stream, inner,
                   response, token, linked, reflect, saved, runs, events, faults>>

SaveState ==
    /\ faults < MaxFaults /\ faults' = faults + 1
    /\ saved' = [messages |-> context, broken |-> broken \/ phase = "tools"]
    /\ UNCHANGED <<mcpVars, context, phase, loop, batch, ids, call, gather, stream,
                   inner, response, token, linked, reflect, broken, runs, events>>

LoadState ==
    /\ phase = "idle"
    /\ context' = saved.messages /\ broken' = saved.broken
    /\ UNCHANGED <<mcpVars, phase, loop, batch, ids, call, gather, stream, inner,
                   response, token, linked, reflect, saved, runs, events, faults>>

\* the session, its server and the task that stops the workbench
Session ==
    /\ \/ OpenSession \/ Serve \/ LeaveSession \/ FailSession \/ StopEnds
       \/ \E c \in Clients : ServerAnswers(c)
    /\ UNCHANGED agentVars
SessionFault ==
    /\ LoseSession /\ faults < MaxFaults /\ faults' = faults + 1
    /\ UNCHANGED <<context, phase, loop, batch, ids, call, gather, stream, inner,
                   response, token, linked, reflect, saved, broken, runs, events>>
StopWorkbench ==
    /\ Stop /\ faults < MaxFaults /\ faults' = faults + 1
    /\ UNCHANGED <<context, phase, loop, batch, ids, call, gather, stream, inner,
                   response, token, linked, reflect, saved, broken, runs, events>>

ModelAnswers == ModelSays \/ Reflection \/ \E answer \in Answers : ModelCalls(answer)
CallStep(i) ==
    BeginCall(i) \/ EndCall(i) \/ ListedForCall(i) \/ RemoteCall(i)
AgentStep == Listed \/ GatherEnds \/ ReadEvent \/ CollectResults

Next ==
    \/ \E input \in Inputs \cup Handed : Run(input)
    \/ ModelAnswers \/ ModelFails \/ AgentStep
    \/ \E i \in Slots : CallStep(i) \/ StreamEvent(i)
    \/ \E c \in Clients : Await(c)
    \/ CancelToken \/ CancelRun \/ OnReset \/ SaveState \/ LoadState
    \/ Session \/ SessionFault \/ StopWorkbench

\* tasks that can run do, the model and the tools return, the server answers
Fairness ==
    /\ WF_vars(ModelAnswers) /\ WF_vars(AgentStep) /\ WF_vars(Session)
    /\ \A i \in Slots : WF_vars(CallStep(i))
    /\ \A c \in Clients : WF_vars(Await(c))
Spec == Init /\ [][Next]_vars /\ Fairness
-----------------------------------------------------------------------------
(* Properties.                                                             *)

\* Whenever the model is asked, what the model context shows it is a
\* conversation a model service accepts: every list of calls is followed by
\* the results of exactly these calls in order, wherever the context cuts the
\* conversation, whatever runs failed before, and with what a handoff brought
\* along (_check_and_handle_handoff) in front of it.  The exceptions are a run
\* cancelled between the calls and their results, whose calls stay in the
\* context unanswered, and a state saved while the tools of a run execute.
ModelSeesPairs ==
    phase \in {"model", "reflect"} /\ ~broken =>
        \A window \in Contexts : Paired(View(window, context))

\* What a tool streams is in the inner messages between the request of its
\* batch and the execution event, and nothing is left in the stream once that
\* event is there: _process_model_result reads it to its end, which comes when
\* the last of the executions has returned.
EventsInPlace ==
    /\ \A e \in DOMAIN inner : inner[e] = "event" =>
            \E r \in 1..(e - 1) : inner[r] = "request" /\ \A m \in r..e : inner[m] # "execution"
    /\ inner # <<>> /\ inner[Len(inner)] = "execution" => stream = <<>>

\* A run ends: with a response, or with an exception.  Two things keep it: an
\* execution that raises, because then the stream has no end, and a command
\* put behind a shutdown of the McpWorkbench.
RunEnds == phase # "idle" ~> phase = "idle" \/ gather = "raised" \/ behind # {}

\* Cancelling the token of a run ends the run.
CancelledRunEnds == phase # "idle" /\ token ~> phase = "idle"
=============================================================================
