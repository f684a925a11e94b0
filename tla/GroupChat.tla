------------------------------ MODULE GroupChat ------------------------------
(***************************************************************************)
(* A group chat team: the caller of run_stream (_base_group_chat.py), the  *)
(* manager (_base_group_chat_manager.py) and one container per participant *)
(* (_chat_agent_container.py), on the embedded runtime with                *)
(* ignore_unhandled_exceptions=False.  The style of the team says who      *)
(* selects: the round robin, the swarm, the selector with its model        *)
(* ("selector"), with a selector_func before it ("function") or a          *)
(* candidate_func ("candidates"), both with allow_repeated_speaker=False;  *)
(* or a manager that returns a list ("parallel").                          *)
(*                                                                         *)
(* The runtime is used as SingleThreadedRuntime shows it to behave: bus is *)
(* its queue, rt what its background exception does.  An agent's inbox is  *)
(* the line of its FIFO lock, as FifoMutex promises it: the first message  *)
(* is the one being handled.  A chat message is known by its source.       *)
(* A publish without subscribers other than its sender is left out.        *)
(***************************************************************************)
EXTENDS Naturals, FiniteSets, Sequences, SequencesExt

CONSTANTS
    Roster,        \* the participants, in the order they were given
    Manager,
    NoOne,         \* None
    Styles,        \* the teams considered
    FaultyStyles,  \* those whose agents, conditions and selectors may raise and
                   \* whose token may be cancelled
    MaxTurns,      \* max_turns, per style
    Handoffs,      \* to whom the messages of a swarm may hand off
    MaxRuns,       \* bound on the number of run_stream calls
    MaxLoads       \* bound on the number of load_state calls

Members == ToSet(Roster)
Agents == Members \cup {Manager}
User == "user"

ASSUME TeamAssumption ==
    /\ Roster \in Seq(Members) /\ Roster # <<>> /\ IsInjective(Roster)
    /\ Manager \notin Members /\ User \notin Agents /\ NoOne \notin Agents \cup {User}
    /\ {"stop", "error"} \cap Agents = {}    \* no source is one of the signals of out
    /\ Styles \subseteq {"round_robin", "swarm", "selector", "function", "candidates", "parallel"}
    /\ MaxTurns \in [Styles -> Nat \ {0}] /\ MaxRuns \in Nat
    /\ Handoffs \subseteq Members \cup {User}
    /\ MaxLoads \in Nat /\ FaultyStyles \subseteq Styles

VARIABLES
    style,
    bus,         \* envelopes queued in the runtime
    inbox,       \* per agent: messages that hold or await its FIFO lock
    rt,          \* "off", "up", "failing" (exception not yet raised), "shut",
                 \* or "leaked": a task ended without its task_done()
    silenced,    \* that exception is a CancelledError
    residue,     \* an exception the loop did not live to raise: "none", "left"
                 \* for the next run, or "raised" by this one
    selecting,   \* the manager's handler awaits select_speaker
    active,      \* _active_speakers, as a count per participant
    turn,        \* _current_turn
    speaker,     \* the participant at _next_speaker_index; _current_speaker of
                 \* a swarm, _previous_speaker of a selector
    handoff,     \* the target of the last handoff message in the thread
    thread,      \* _message_thread
    context,     \* the selector's _model_context
    terminated,  \* the termination condition's flag
    checked,     \* what the condition was given since the thread began
    work,        \* the container's handle_request: "idle", "thinking", "logged"
    buffer,      \* _message_buffer
    heard,       \* what the agent took from the buffer and answered
    caller,      \* where run_stream stands
    reply,       \* the future of its GroupChatStart: "none", "ok", "error"
    cancelled,   \* its token
    out,         \* _output_message_queue: sources, "stop" or "error"
    result,      \* the messages it yielded
    began,       \* the length of the thread when the run began
    runs, loads,
    saved,       \* what save_state returned, and whether it was intact
    intact       \* history: no run failed or was cancelled on this thread

recordVars == <<handoff, thread, context, checked>>
managerVars == <<selecting, active, turn, speaker, terminated, recordVars>>
memberVars == <<work, buffer, heard>>
callerVars == <<caller, cancelled, result, began, runs, loads, style, saved>>
vars == <<bus, inbox, rt, silenced, residue, managerVars, memberVars, callerVars, reply, out,
          intact>>

Nobody == [p \in Members |-> 0]
Faulty == style \in FaultyStyles
Conditions == {"go", "stop"} \cup (IF Faulty THEN {"raise"} ELSE {})
IsSelector == style \in {"selector", "function", "candidates"}
FirstSpeaker == IF IsSelector THEN NoOne ELSE Roster[1]

Init ==
    /\ style \in Styles
    /\ bus = <<>> /\ inbox = [a \in Agents |-> <<>>]
    /\ rt = "off" /\ silenced = FALSE /\ residue = "none"
    /\ selecting = FALSE /\ active = Nobody /\ turn = 0 /\ speaker = FirstSpeaker
    /\ handoff = NoOne /\ context = <<>>
    /\ thread = <<>> /\ terminated = FALSE /\ checked = <<>>
    /\ work = [p \in Members |-> "idle"]
    /\ buffer = [p \in Members |-> <<>>] /\ heard = [p \in Members |-> <<>>]
    /\ caller = "idle" /\ cancelled = FALSE /\ result = <<>> /\ began = 0 /\ runs = 0 /\ loads = 0
    /\ reply = "none" /\ out = <<>> /\ saved = <<>> /\ intact = TRUE

\* a message of a kind about who speaks, handing off to a target or to NoOne
Passing(kind, who, target) == [kind |-> kind, who |-> who, target |-> target]
Envelope(kind, who) == Passing(kind, who, NoOne)

\* the message the agent is handling
Handling(a, kind) == inbox[a] # <<>> /\ Head(inbox[a]).kind = kind

\* the handler ends and its lock passes on
Finished(a) == inbox' = [inbox EXCEPT ![a] = Tail(@)]
-----------------------------------------------------------------------------
(* The runtime.                                                            *)

\* who subscribes to the topic a message is published to, without its sender
Audience(e) ==
    CASE e.kind \in {"start", "log"} -> {Manager}
      [] e.kind = "relay" -> Members
      [] e.kind = "request" -> {e.who}
      [] e.kind = "response" -> Agents \ {e.who}

Deliver ==
    /\ bus # <<>> /\ Head(bus).kind # "error"
    /\ bus' = Tail(bus)
    /\ inbox' = [a \in Agents |-> IF a \in Audience(Head(bus))
                                  THEN Append(inbox[a], Head(bus)) ELSE inbox[a]]
    /\ UNCHANGED <<silenced, residue, rt, managerVars, memberVars, callerVars, reply, out, intact>>

\* handle_group_chat_error does not take the lock; a container has no handler
\* for GroupChatError and raises
DeliverError ==
    /\ bus # <<>> /\ Head(bus).kind = "error"
    /\ bus' = Tail(bus)
    /\ out' = Append(out, "error")
    /\ rt' = "failing" /\ silenced' = FALSE
    /\ UNCHANGED <<residue, inbox, managerVars, memberVars, callerVars, reply, intact>>

\* The run loop raises the exception of a handler and shuts the queue down.  If
\* it has just taken an error message, the exception of that one's handlers comes
\* too late and is left behind.
RaiseInLoop ==
    /\ rt = "failing"
    /\ rt' = "shut" /\ bus' = <<>> /\ intact' = FALSE
    /\ \/ UNCHANGED <<out, residue>>
       \/ /\ bus # <<>> /\ Head(bus).kind = "error"
          /\ out' = Append(out, "error") /\ residue' = "left"
    /\ UNCHANGED <<inbox, silenced, managerVars, memberVars, callerVars, reply>>

\* what stop_runtime puts into the output queue; it does not catch CancelledError
Signal == IF rt = "up" THEN <<"stop">> ELSE IF silenced THEN <<>> ELSE <<"error">>

\* mutation: messages in their handlers do not count as unfinished
StopWhenQueueEmpty ==
    /\ rt \notin {"off", "leaked"}
    /\ bus = <<>>
    /\ rt' = "off"
    /\ out' = out \o Signal
    /\ UNCHANGED <<silenced, residue, bus, inbox, managerVars, memberVars, callerVars, reply, intact>>

\* stop_runtime: stop_when_idle returns or raises, and ends the stream
StopWhenIdle ==
    /\ rt \notin {"off", "leaked"}
    /\ bus = <<>> /\ \A a \in Agents : inbox[a] = <<>>
    /\ rt' = "off"
    /\ out' = out \o Signal
    /\ UNCHANGED <<silenced, residue, bus, inbox, managerVars, memberVars, callerVars, reply, intact>>
-----------------------------------------------------------------------------
(* The manager.                                                            *)

\* _apply_termination_condition, given the turn count to compare with MaxTurns
Stops(o, turns) == o = "stop" \/ (o = "go" /\ turns >= MaxTurns[style])

Terminate ==
    /\ turn' = 0 /\ terminated' = FALSE
    /\ UNCHANGED selecting

\* The condition may raise after one of its parts has set its flag.
Raise ==
    /\ terminated' \in BOOLEAN
    /\ UNCHANGED <<turn, selecting>>

Continue(turns) ==
    /\ selecting' = TRUE /\ turn' = turns
    /\ UNCHANGED terminated


\* update_message_thread; the selector adds the message to its model context
Record(m) ==
    /\ thread' = Append(thread, m.who)
    /\ handoff' = IF m.target # NoOne THEN m.target ELSE handoff
    /\ context' = IF IsSelector THEN Append(context, m.who) ELSE context

\* handle_start: its answer or its exception goes to the caller of run_stream;
\* the runtime leaks a failed send whose future was cancelled
StartRefused ==
    /\ Handling(Manager, "start") /\ terminated
    /\ out' = Append(out, "stop")
    /\ reply' = "ok"
    /\ Finished(Manager)
    /\ UNCHANGED <<silenced, residue, bus, rt, managerVars, memberVars, callerVars, intact>>

StartFails ==
    /\ Finished(Manager)
    /\ reply' = "error"
    /\ rt' = IF cancelled THEN "leaked" ELSE rt

\* validate_group_state: the handoff of the task or else the last one of the
\* thread has to go to a participant
StartIsValid ==
    LET told == Head(inbox[Manager]).target
    IN  style = "swarm" => (IF told # NoOne THEN told ELSE handoff) \in Members \cup {NoOne}

StartInvalid ==
    /\ Handling(Manager, "start") /\ ~terminated /\ ~selecting
    /\ ~StartIsValid
    /\ StartFails
    /\ UNCHANGED <<silenced, residue, bus, managerVars, memberVars, callerVars, out, intact>>

HandleStart(o) ==
    /\ Handling(Manager, "start") /\ ~terminated /\ ~selecting
    /\ StartIsValid
    /\ Head(inbox[Manager]).who = User
    /\ bus' = Append(bus, Envelope("relay", User))
    /\ Record(Head(inbox[Manager]))
    /\ checked' = Append(checked, User)
    /\ \/ /\ Stops(o, turn) /\ Terminate /\ Finished(Manager)
          /\ out' = out \o <<User, "stop">> /\ reply' = "ok" /\ UNCHANGED rt
       \/ /\ o = "raise" /\ Raise /\ StartFails
          /\ out' = Append(out, User)
       \/ /\ o = "go" /\ ~Stops(o, turn) /\ Continue(turn)
          /\ out' = Append(out, User) /\ UNCHANGED <<inbox, reply, rt>>
    /\ UNCHANGED <<silenced, residue, active, speaker, memberVars, callerVars, intact>>

\* run_stream(task=None) resumes the conversation
HandleResume ==
    /\ Handling(Manager, "start") /\ ~terminated /\ ~selecting
    /\ StartIsValid
    /\ Head(inbox[Manager]).who # User
    /\ selecting' = TRUE
    /\ UNCHANGED <<silenced, residue, bus, inbox, rt, active, turn, speaker, terminated, recordVars,
                   memberVars, callerVars, reply, out, intact>>

\* an exception in handle_agent_response is signalled and raised
ResponseFails ==
    /\ Finished(Manager)
    /\ out' = Append(out, "error")
    /\ rt' = "failing" /\ silenced' = FALSE

\* CancelledError is no Exception: nothing is signalled
ResponseCutOff ==
    /\ Finished(Manager)
    /\ rt' = "failing" /\ silenced' = TRUE
    /\ UNCHANGED out

\* handle_agent_response.  Only the last of the active speakers goes on to the
\* condition, with its own messages.  _active_speakers.remove raises when the
\* speaker is not in the list.
HandleResponse(o) ==
    /\ Handling(Manager, "response") /\ ~selecting
    /\ LET m == Head(inbox[Manager])
           left == [active EXCEPT ![m.who] = @ - 1]
       IN  /\ active[m.who] > 0
           /\ Record(m)
           /\ active' = left
           /\ IF left # Nobody
              THEN /\ Finished(Manager)
                   /\ UNCHANGED <<rt, silenced, selecting, turn, terminated, checked, out>>
              ELSE /\ checked' = Append(checked, m.who)
                   /\ \/ /\ Stops(o, turn + 1) /\ Terminate /\ Finished(Manager)
                         /\ out' = Append(out, "stop") /\ UNCHANGED <<rt, silenced>>
                      \/ o = "raise" /\ Raise /\ (ResponseFails \/ ResponseCutOff)
                      \/ /\ o = "go" /\ ~Stops(o, turn + 1) /\ Continue(turn + 1)
                         /\ UNCHANGED <<rt, silenced, inbox, out>>
    /\ UNCHANGED <<residue, bus, speaker, memberVars, callerVars, reply, intact>>

\* handle_group_chat_message
HandleLog ==
    /\ Handling(Manager, "log")
    /\ out' = Append(out, Head(inbox[Manager]).who)
    /\ Finished(Manager)
    /\ UNCHANGED <<silenced, residue, bus, rt, managerVars, memberVars, callerVars, reply, intact>>


\* the participant that follows p
After(p) == LET i == CHOOSE i \in DOMAIN Roster : Roster[i] = p
            IN  Roster[(i % Len(Roster)) + 1]

\* _select_speaker: the model may name anyone.  A previous speaker it names is
\* refused and, once the attempts are used up, taken after all.
Named(candidates) == IF Cardinality(candidates) = 1 THEN candidates ELSE Members

Chosen(p) == [chosen |-> <<p>>, speaker |-> p]

\* what select_speaker may return, and the speaker it remembers
Selections ==
    LET byModel == {Chosen(p) : p \in Named(Members \ {speaker})}
    IN  CASE style = "round_robin" -> {[chosen |-> <<speaker>>, speaker |-> After(speaker)]}
          [] style = "swarm" ->
                {Chosen(p) : p \in Members \cap {IF handoff # NoOne THEN handoff ELSE speaker}}
          [] style = "selector" -> byModel
          [] style = "function" ->
                byModel \cup {[chosen |-> <<p>>, speaker |-> speaker] : p \in Members}
          [] style = "candidates" ->
                {Chosen(p) : p \in UNION {Named(C) : C \in SUBSET Members \ {{}}}}
          [] style = "parallel" ->
                {[chosen |-> s, speaker |-> speaker]
                    : s \in UNION {SetToSeqs(S) : S \in SUBSET Members \ {{}}}}

\* mutation: the chosen speakers are not recorded
SelectSpeakersUnrecorded(pick) ==
    /\ selecting /\ ~cancelled
    /\ selecting' = FALSE
    /\ speaker' = pick.speaker
    /\ bus' = bus \o [i \in DOMAIN pick.chosen |-> Envelope("request", pick.chosen[i])]
    /\ reply' = IF Handling(Manager, "start") THEN "ok" ELSE reply
    /\ Finished(Manager)
    /\ UNCHANGED <<silenced, residue, rt, active, turn, terminated, recordVars, memberVars, callerVars, out, intact>>

\* the rest of _transition_to_next_speakers, and the end of the handler
SelectSpeakers(pick) ==
    /\ selecting /\ ~cancelled
    /\ selecting' = FALSE
    /\ speaker' = pick.speaker
    /\ bus' = bus \o [i \in DOMAIN pick.chosen |-> Envelope("request", pick.chosen[i])]
    /\ active' = [p \in Members |-> active[p] + (IF p \in ToSet(pick.chosen) THEN 1 ELSE 0)]
    /\ reply' = IF Handling(Manager, "start") THEN "ok" ELSE reply
    /\ Finished(Manager)
    /\ UNCHANGED <<silenced, residue, rt, turn, terminated, recordVars, memberVars, callerVars, out, intact>>

\* select_speaker raises: the swarm was handed off to nobody in it, or the
\* selector's model or function failed
SelectionFails ==
    /\ selecting /\ ~cancelled
    /\ Selections = {} \/ (IsSelector /\ Faulty)
    /\ selecting' = FALSE
    /\ IF Handling(Manager, "start")
       THEN StartFails /\ UNCHANGED <<out, silenced>>
       ELSE ResponseFails /\ UNCHANGED reply
    /\ UNCHANGED <<residue, bus, active, turn, speaker, terminated, recordVars,
                   memberVars, callerVars, intact>>

\* The future of select_speaker is linked to the token, and a selector's model or
\* function may be cancelled by others.  The turn's speakers stay unrequested.
SelectionCancelled ==
    /\ selecting
    /\ cancelled \/ (IsSelector /\ Faulty)
    /\ selecting' = FALSE
    /\ IF Handling(Manager, "start")
       THEN Finished(Manager) /\ reply' = "error" /\ UNCHANGED <<rt, silenced, out>>
       ELSE ResponseCutOff /\ UNCHANGED reply
    /\ UNCHANGED <<residue, bus, active, turn, speaker, terminated, recordVars,
                   memberVars, callerVars, intact>>
-----------------------------------------------------------------------------
(* The containers.                                                         *)

\* handle_start and handle_agent_response
BufferMessage(p) ==
    /\ Handling(p, "relay") \/ Handling(p, "response")
    /\ buffer' = [buffer EXCEPT ![p] = Append(@, Head(inbox[p]).who)]
    /\ Finished(p)
    /\ UNCHANGED <<silenced, residue, bus, rt, managerVars, work, heard, callerVars, reply, out, intact>>

\* handle_request calls the agent with the buffer
CallAgent(p) ==
    /\ Handling(p, "request") /\ work[p] = "idle"
    /\ work' = [work EXCEPT ![p] = "thinking"]
    /\ UNCHANGED <<silenced, residue, bus, inbox, rt, managerVars, buffer, heard, callerVars, reply, out, intact>>

\* the agent yields its response, which is logged to the output topic
LogResponse(p) ==
    /\ work[p] = "thinking" /\ rt # "shut"
    /\ work' = [work EXCEPT ![p] = "logged"]
    /\ bus' = Append(bus, Envelope("log", p))
    /\ UNCHANGED <<silenced, residue, inbox, rt, managerVars, buffer, heard, callerVars, reply, out, intact>>

\* mutation: the buffer is not cleared
PublishResponseKeepsBuffer(p, target) ==
    /\ work[p] = "logged" /\ rt # "shut"
    /\ work' = [work EXCEPT ![p] = "idle"]
    /\ heard' = [heard EXCEPT ![p] = @ \o buffer[p]]
    /\ bus' = Append(bus, Passing("response", p, target))
    /\ Finished(p)
    /\ UNCHANGED <<silenced, residue, rt, managerVars, buffer, callerVars, reply, out, intact>>

\* the messages of a swarm's agents may be handoffs, to the user too
Targets == IF style = "swarm" THEN {NoOne} \cup Handoffs ELSE {NoOne}

\* the stream ends: the buffer is cleared, then the response is published
PublishResponse(p, target) ==
    /\ work[p] = "logged" /\ rt # "shut"
    /\ work' = [work EXCEPT ![p] = "idle"]
    /\ heard' = [heard EXCEPT ![p] = @ \o buffer[p]]
    /\ buffer' = [buffer EXCEPT ![p] = <<>>]
    /\ bus' = Append(bus, Passing("response", p, target))
    /\ Finished(p)
    /\ UNCHANGED <<silenced, residue, rt, managerVars, callerVars, reply, out, intact>>

\* the agent raises: the error is published and raised to the runtime
AgentFails(p) ==
    /\ Faulty
    /\ work[p] \in {"thinking", "logged"} /\ rt # "shut"
    /\ work' = [work EXCEPT ![p] = "idle"]
    /\ bus' = Append(bus, Envelope("error", p))
    /\ rt' = "failing" /\ silenced' = FALSE /\ intact' = FALSE
    /\ Finished(p)
    /\ UNCHANGED <<residue, managerVars, buffer, heard, callerVars, reply, out>>

\* a CancelledError that no handler catches, or an exception the loop is no longer
\* there to raise
LateOrSilent ==
    IF rt = "shut" THEN residue' = "left" /\ UNCHANGED <<rt, silenced>>
    ELSE rt' = "failing" /\ silenced' = TRUE /\ UNCHANGED residue

\* mutation: a cancelled handler does not release its lock
AgentCutOffHolding(p) ==
    /\ work[p] \in {"thinking", "logged"}
    /\ cancelled \/ rt = "shut" \/ Faulty
    /\ work' = [work EXCEPT ![p] = "logged"]
    /\ LateOrSilent /\ intact' = FALSE
    /\ UNCHANGED <<bus, inbox, managerVars, buffer, heard, callerVars, reply, out>>

\* The agent raises CancelledError, because of the token or of something of its
\* own that was cancelled; or the queue is shut down, so that publishing anything
\* raises.
AgentCutOff(p) ==
    /\ work[p] \in {"thinking", "logged"}
    /\ cancelled \/ rt = "shut" \/ Faulty
    /\ work' = [work EXCEPT ![p] = "idle"]
    /\ \/ UNCHANGED <<buffer, heard>>
       \/ /\ rt = "shut" /\ work[p] = "logged"
          /\ heard' = [heard EXCEPT ![p] = @ \o buffer[p]]
          /\ buffer' = [buffer EXCEPT ![p] = <<>>]
    /\ LateOrSilent /\ intact' = FALSE
    /\ Finished(p)
    /\ UNCHANGED <<bus, managerVars, callerVars, reply, out>>
-----------------------------------------------------------------------------
(* The caller of run_stream and reset.                                     *)

\* with a task of the user, which may be a handoff, or without one (Manager)
Tasks == {Envelope("start", Manager)} \cup {Passing("start", User, t) : t \in Targets}

RunStream(task) ==
    /\ caller = "idle" /\ runs < MaxRuns /\ residue # "left"
    /\ runs' = runs + 1
    /\ caller' = "sending" /\ cancelled' = FALSE /\ reply' = "none"
    /\ result' = <<>> /\ began' = Len(thread)
    /\ rt' = "up" /\ silenced' = FALSE /\ residue' = "none"
    /\ bus' = <<task>>
    /\ UNCHANGED <<inbox, managerVars, memberVars, loads, style, saved, out, intact>>

\* the loop raises the exception an earlier run left behind before anything else,
\* and with the queue the GroupChatStart is dropped
RunStreamDoomed ==
    /\ caller = "idle" /\ runs < MaxRuns /\ residue = "left"
    /\ runs' = runs + 1
    /\ caller' = "sending" /\ cancelled' = FALSE /\ reply' = "none"
    /\ result' = <<>> /\ began' = Len(thread)
    /\ rt' = "shut" /\ silenced' = FALSE /\ residue' = "raised" /\ intact' = FALSE
    /\ UNCHANGED <<bus, inbox, managerVars, memberVars, loads, style, saved, out>>

\* the GroupChatStart was handled: read the stream, or fail with its exception
StartAnswered ==
    /\ caller = "sending" /\ reply # "none"
    /\ caller' = IF reply = "ok" THEN "yielding" ELSE "raising"
    /\ UNCHANGED <<silenced, residue, bus, inbox, rt, managerVars, memberVars, cancelled, result, began, runs, loads, style, saved, reply, out, intact>>

YieldMessage ==
    /\ caller = "yielding" /\ out # <<>>
    /\ out' = Tail(out)
    /\ CASE Head(out) = "stop"  -> caller' = "returning" /\ UNCHANGED result
         [] Head(out) = "error" -> caller' = "raising" /\ UNCHANGED result
         [] OTHER -> result' = Append(result, Head(out)) /\ UNCHANGED caller
    /\ UNCHANGED <<silenced, residue, bus, inbox, rt, managerVars, memberVars, cancelled, began, runs, loads, style, saved, reply, intact>>

\* the token cancels the future run_stream awaits
Cancel ==
    /\ Faulty /\ ~cancelled
    /\ caller \in {"sending", "yielding"}
    /\ cancelled' = TRUE
    /\ caller' = "raising" /\ intact' = FALSE
    /\ UNCHANGED <<silenced, residue, bus, inbox, rt, managerVars, memberVars, result, began, runs, loads, style, saved, reply, out>>

\* the finally clause: await the shutdown task, drain the output queue
EndRun ==
    /\ caller \in {"returning", "raising"}
    /\ rt = "off"
    /\ caller' = "idle"
    /\ out' = <<>>
    /\ UNCHANGED <<silenced, residue, bus, inbox, rt, managerVars, memberVars, cancelled, result, began, runs, loads, style, saved, reply, intact>>

\* mutation: the manager goes on from the speaker it was at
ResetKeepsSpeaker ==
    /\ caller = "idle"
    /\ buffer' = [p \in Members |-> <<>>] /\ heard' = [p \in Members |-> <<>>]
    /\ thread' = <<>> /\ checked' = <<>> /\ handoff' = NoOne /\ context' = <<>>
    /\ turn' = 0 /\ terminated' = FALSE
    /\ intact' = TRUE
    /\ UNCHANGED <<silenced, residue, bus, inbox, rt, speaker, selecting, active, work, callerVars, reply, out>>

\* reset(): every container, then the manager; _active_speakers is not touched
Reset ==
    /\ caller = "idle"
    /\ buffer' = [p \in Members |-> <<>>] /\ heard' = [p \in Members |-> <<>>]
    /\ thread' = <<>> /\ checked' = <<>> /\ handoff' = NoOne /\ context' = <<>>
    /\ turn' = 0 /\ speaker' = FirstSpeaker /\ terminated' = FALSE
    /\ intact' = TRUE
    /\ UNCHANGED <<silenced, residue, bus, inbox, rt, selecting, active, work, callerVars, reply, out>>

SaveState ==
    /\ caller = "idle" /\ runs > 0 /\ loads < MaxLoads /\ saved = <<>>
    /\ saved' = <<[thread |-> thread, handoff |-> handoff, turn |-> turn, speaker |-> speaker,
                   buffer |-> buffer, heard |-> heard, intact |-> intact]>>
    /\ UNCHANGED <<silenced, residue, bus, inbox, rt, managerVars, memberVars, caller, cancelled, result,
                   began, runs, loads, style, reply, out, intact>>

\* load_state: every container, then the manager.  The selector adds the thread
\* to its model context; condition and _active_speakers are not touched.
LoadState ==
    /\ caller = "idle" /\ saved # <<>>
    /\ LET s == Head(saved)
       IN  /\ thread' = s.thread /\ handoff' = s.handoff /\ turn' = s.turn
           /\ speaker' = s.speaker /\ buffer' = s.buffer /\ heard' = s.heard
           /\ context' = IF IsSelector THEN context \o s.thread ELSE context
           /\ intact' = s.intact
    /\ saved' = <<>> /\ loads' = loads + 1
    /\ UNCHANGED <<silenced, residue, bus, inbox, rt, selecting, active, terminated, checked, work, caller,
                   cancelled, result, began, runs, style, reply, out>>
-----------------------------------------------------------------------------
RuntimeStep == Deliver \/ DeliverError \/ RaiseInLoop \/ StopWhenIdle

ManagerStep ==
    \/ StartRefused \/ StartInvalid \/ HandleResume \/ HandleLog
    \/ \E o \in Conditions : HandleStart(o) \/ HandleResponse(o)
    \/ \E pick \in Selections : SelectSpeakers(pick)
    \/ SelectionFails \/ SelectionCancelled

MemberStep(p) ==
    \/ BufferMessage(p) \/ CallAgent(p) \/ LogResponse(p)
    \/ AgentFails(p) \/ AgentCutOff(p)
    \/ \E target \in Targets : PublishResponse(p, target)

CallerStep == StartAnswered \/ YieldMessage \/ EndRun

Next ==
    \/ RuntimeStep \/ ManagerStep \/ CallerStep
    \/ \E p \in Members : MemberStep(p)
    \/ \E task \in Tasks : RunStream(task)
    \/ RunStreamDoomed \/ Cancel \/ Reset \/ SaveState \/ LoadState

\* asyncio runs every ready task, agents answer, and the caller drains the
\* stream; nothing forces it to run, cancel or reset.
Fairness ==
    /\ WF_vars(RuntimeStep) /\ WF_vars(ManagerStep) /\ WF_vars(CallerStep)
    /\ \A p \in Members : WF_vars(MemberStep(p))

Spec == Init /\ [][Next]_vars /\ Fairness
-----------------------------------------------------------------------------
\* the requests and responses of p that are under way
Pending(q, kind, p) == Cardinality({i \in DOMAIN q : q[i].kind = kind /\ q[i].who = p})
Outstanding(p) ==
    LET answered == IF selecting THEN Tail(inbox[Manager]) ELSE inbox[Manager]
    IN  Pending(bus, "request", p) + Pending(inbox[p], "request", p)
        + Pending(bus, "response", p) + Pending(answered, "response", p)

(* Whoever was asked to speak, or answered and was not heard yet, is in    *)
(* _active_speakers: its removal in handle_agent_response cannot raise,    *)
(* whatever earlier runs left behind.                                      *)
RespondersAreActive == \A p \in Members : Outstanding(p) <= active[p]

\* the messages of a list that p did not send, in their order
NotBy(p, s) ==
    LET kept[n \in 0..Len(s)] ==
            IF n = 0 THEN <<>>
            ELSE IF s[n] = p THEN kept[n - 1] ELSE Append(kept[n - 1], s[n])
    IN  kept[Len(s)]

(* Between runs every participant has had, or has buffered, every message  *)
(* of the thread but its own, once and in the order of the thread.  A      *)
(* saved team that is loaded keeps this; a failed run may not.             *)
EveryoneHears ==
    (caller = "idle" /\ intact) =>
        \A p \in Members : heard[p] \o buffer[p] = NotBy(p, thread)

(* The termination condition is given "the messages received since the     *)
(* last time the condition was called": when a turn is over, all of them.  *)
ConditionSeesAll == (active = Nobody /\ caller = "idle") => checked = thread

Turns == NotBy(User, thread)
Asked(p) == Pending(bus, "request", p) + Pending(inbox[p], "request", p) > 0

(* The one who speaks is the one whose turn it is, across terminations,    *)
(* resets and loaded states: the round robin skips nobody, a swarm waits   *)
(* for the target of its last handoff, and a selector that has no selector *)
(* function lets neither of two participants speak twice in a row.         *)
TurnsInOrder ==
    /\ (style = "round_robin" /\ intact) =>
            \A i \in DOMAIN Turns : Turns[i] = Roster[((i - 1) % Len(Roster)) + 1]
    /\ style = "swarm" => \A p \in Members : Asked(p) => handoff \in {p, NoOne}
    /\ (style = "selector" /\ intact /\ Len(Roster) = 2) =>
            \A i \in 2..Len(Turns) : Turns[i] # Turns[i - 1]

\* how often a message is in a sequence, and equality up to the order
Times(s, m) == Cardinality({i \in DOMAIN s : s[i] = m})
SameMessages(s, t) == \A m \in ToSet(s) \cup ToSet(t) : Times(s, m) = Times(t, m)

(* A run that returns a TaskResult has yielded every message the run added *)
(* to the thread, and in its order unless several agents spoke at a time:  *)
(* the log messages reach the output queue before the termination they     *)
(* lead to.                                                                *)
ResultIsThread ==
    [][(caller = "returning" /\ caller' = "idle") =>
            LET added == SubSeq(thread, began + 1, Len(thread))
            IN  IF style = "parallel" THEN SameMessages(result, added) ELSE result = added]_vars

(* Whatever participants, conditions, selectors and the token do,          *)
(* run_stream returns or raises, but for three ways to wait for ever: the  *)
(* runtime lost a task_done(), a handler's CancelledError that the run's   *)
(* own token did not cause ended the runtime without a word to the output  *)
(* queue, or an exception an earlier run left behind took the start away.  *)
RunEnds ==
    (caller # "idle") ~>
        (caller = "idle" \/ rt = "leaked" \/ (silenced /\ ~cancelled) \/ residue = "raised")

(* The runs of a team end, whoever is cancelled, and also after one that   *)
(* failed.                                                                 *)
CutOffEnds == (silenced /\ ~cancelled) ~> (caller = "idle")
NextRunEnds == (residue = "raised") ~> (caller = "idle" \/ residue # "raised")

(* Cancelling the token ends the run.                                      *)
CancelEnds == cancelled ~> (caller = "idle")

(* reset() puts the team back into its initial state: nobody is expected   *)
(* to speak.                                                               *)
ResetRestores ==
    [][(caller = "idle" /\ caller' = "idle" /\ thread' = <<>>) => active' = Nobody]_vars

(* With allow_repeated_speaker=False nobody speaks twice in a row.         *)
NobodyRepeats ==
    (IsSelector /\ intact) => \A i \in 2..Len(Turns) : Turns[i] # Turns[i - 1]

(* load_state overwrites the state of the team: the selector's model is    *)
(* shown the thread and nothing else.                                      *)
ContextIsThread == (IsSelector /\ caller = "idle") => context = thread
=============================================================================
