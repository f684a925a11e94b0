----------------------------- MODULE MagenticOne -----------------------------
(***************************************************************************)
(* A MagenticOneGroupChat: the orchestrator                                *)
(* (_magentic_one_orchestrator.py) plans, asks its model for a progress    *)
(* ledger before every step, gives a participant an instruction, and when  *)
(* the work stalls it plans again, resetting every participant and its own *)
(* thread.  The runtime and the FIFO locks of the agents are as in         *)
(* GroupChat: bus is the queue of the runtime, the first message of an     *)
(* inbox is the one being handled.  Nothing fails and nobody cancels:      *)
(* GroupChat has what happens then.                                        *)
(*                                                                         *)
(* A chat message is known by its source, and one of the orchestrator by   *)
(* what it is: the task ledger, an instruction or the final answer.  The   *)
(* output queue is reduced to its termination signals.                     *)
(***************************************************************************)
EXTENDS Naturals, Sequences, SequencesExt

CONSTANTS
    Roster,       \* the participants, in the order they are reset
    MaxTurns,     \* max_turns
    MaxStalls,    \* max_stalls
    MaxRuns       \* bound on the runs of the team

Members == ToSet(Roster)
Orchestrator == "orchestrator"
Agents == Members \cup {Orchestrator}

ASSUME OrchestratorAssumption ==
    /\ Roster # <<>> /\ IsInjective(Roster)
    /\ Members \cap {Orchestrator, "ledger", "instruction", "answer"} = {}
    /\ MaxTurns \in Nat \ {0} /\ MaxStalls \in Nat

VARIABLES
    bus, inbox,
    step,       \* what the orchestrator's handler awaits: "none", "plan", "resets",
                \* "progress", "replan", "answer"
    todo,       \* the participants still to be reset; the first has been sent to
    rounds,     \* _n_rounds
    stalls,     \* _n_stalls
    thread,     \* _message_thread
    working,    \* the participants in handle_request
    buffer,     \* _message_buffer of a participant
    heard,      \* what its agent was given since its last reset
    caller,     \* "idle", "running"
    signals,    \* terminations in the output queue
    turns,      \* the responses of participants in this run
    saved,      \* the state last saved by the idle team
    runs

teamVars == <<step, todo, rounds, stalls, thread, working, buffer, heard>>
vars == <<bus, inbox, teamVars, caller, signals, turns, saved, runs>>

Blank == [p \in Members |-> <<>>]
Start0 == [rounds |-> 0, stalls |-> 0, thread |-> <<>>, buffer |-> Blank, heard |-> Blank]

Init ==
    /\ bus = <<>> /\ inbox = [a \in Agents |-> <<>>]
    /\ step = "none" /\ todo = <<>> /\ rounds = 0 /\ stalls = 0 /\ thread = <<>>
    /\ working = {} /\ buffer = Blank /\ heard = Blank
    /\ caller = "idle" /\ signals = 0 /\ turns = 0 /\ saved = Start0 /\ runs = 0

Envelope(kind, who) == [kind |-> kind, who |-> who]
Handling(a, kind) == inbox[a] # <<>> /\ Head(inbox[a]).kind = kind
Finished(a) == inbox' = [inbox EXCEPT ![a] = Tail(@)]

\* a broadcast reaches all but its sender
Audience(e) ==
    CASE e.kind = "start" -> {Orchestrator}
      [] e.kind \in {"reset", "request"} -> {e.who}
      [] e.kind = "response" -> IF e.who \in Members THEN Agents \ {e.who} ELSE Members

Deliver ==
    /\ bus # <<>> /\ bus' = Tail(bus)
    /\ inbox' = [a \in Agents |-> IF a \in Audience(Head(bus))
                                  THEN Append(inbox[a], Head(bus)) ELSE inbox[a]]
    /\ UNCHANGED <<teamVars, caller, signals, turns, saved, runs>>
-----------------------------------------------------------------------------
(* The orchestrator.                                                       *)

\* _orchestrate_step up to its first call of the model
OrchestrateStep ==
    IF rounds > MaxTurns THEN step' = "answer" /\ UNCHANGED rounds
    ELSE step' = "progress" /\ rounds' = rounds + 1

HandleStart ==
    /\ Handling(Orchestrator, "start") /\ step = "none"
    /\ step' = "plan"
    /\ UNCHANGED <<bus, inbox, todo, rounds, stalls, thread, working, buffer, heard, caller,
                   signals, turns, saved, runs>>

HandleAgentResponse ==
    /\ Handling(Orchestrator, "response") /\ step = "none"
    /\ thread' = Append(thread, Head(inbox[Orchestrator]).who)
    /\ turns' = turns + 1
    /\ \/ \* the termination condition stops the chat
          /\ signals' = signals + 1 /\ Finished(Orchestrator)
          /\ UNCHANGED <<step, rounds>>
       \/ /\ OrchestrateStep
          /\ UNCHANGED <<signals, inbox>>
    /\ UNCHANGED <<bus, todo, stalls, working, buffer, heard, caller, saved, runs>>

\* the facts and the plan are there: _reenter_outer_loop resets the first
\* participant
Planned ==
    /\ step \in {"plan", "replan"}
    /\ stalls' = IF step = "plan" THEN 0 ELSE stalls
    /\ step' = "resets" /\ todo' = Roster
    /\ bus' = Append(bus, Envelope("reset", Roster[1]))
    /\ UNCHANGED <<inbox, rounds, thread, working, buffer, heard, caller, signals, turns,
                   saved, runs>>

\* mutation: the buffer survives the reset of the agent
HandleResetOfAgent(p) ==
    /\ Handling(p, "reset") /\ Finished(p)
    /\ heard' = [heard EXCEPT ![p] = <<>>]
    /\ todo' = Tail(todo)
    /\ \/ /\ Len(todo) > 1
          /\ bus' = Append(bus, Envelope("reset", todo[2]))
          /\ UNCHANGED <<step, rounds, thread>>
       \/ /\ Len(todo) = 1
          /\ thread' = <<"ledger">>
          /\ bus' = Append(bus, Envelope("response", "ledger"))
          /\ OrchestrateStep
    /\ UNCHANGED <<buffer, stalls, working, caller, signals, turns, saved, runs>>

\* a participant's handle_reset, whose reply lets the orchestrator go on:
\* after the last one it begins a thread with the ledger and takes a step
HandleReset(p) ==
    /\ Handling(p, "reset") /\ Finished(p)
    /\ buffer' = [buffer EXCEPT ![p] = <<>>] /\ heard' = [heard EXCEPT ![p] = <<>>]
    /\ todo' = Tail(todo)
    /\ \/ /\ Len(todo) > 1
          /\ bus' = Append(bus, Envelope("reset", todo[2]))
          /\ UNCHANGED <<step, rounds, thread>>
       \/ /\ Len(todo) = 1
          /\ thread' = <<"ledger">>
          /\ bus' = Append(bus, Envelope("response", "ledger"))
          /\ OrchestrateStep
    /\ UNCHANGED <<stalls, working, caller, signals, turns, saved, runs>>

\* the progress ledger the model answers, after retries and with defaults for
\* what is missing or malformed
Ledgers == [satisfied : BOOLEAN, progress : BOOLEAN, loop : BOOLEAN, next : Members]

StallsAfter(ledger) ==
    IF ~ledger.progress \/ ledger.loop THEN stalls + 1
    ELSE IF stalls > 0 THEN stalls - 1 ELSE 0

ProgressLedger(ledger) ==
    /\ step = "progress"
    /\ \/ /\ ledger.satisfied /\ step' = "answer"
          /\ UNCHANGED <<bus, inbox, stalls, thread>>
       \/ /\ ~ledger.satisfied /\ stalls' = StallsAfter(ledger)
          /\ \/ /\ stalls' >= MaxStalls /\ step' = "replan"
                /\ UNCHANGED <<bus, inbox, thread>>
             \/ /\ stalls' < MaxStalls /\ step' = "none"
                /\ thread' = Append(thread, "instruction")
                /\ bus' = bus \o <<Envelope("response", "instruction"),
                                   Envelope("request", ledger.next)>>
                /\ Finished(Orchestrator)
    /\ UNCHANGED <<todo, rounds, working, buffer, heard, caller, signals, turns, saved, runs>>

\* mutation: the termination is not signalled
FinalAnswerSilent ==
    /\ step = "answer" /\ step' = "none"
    /\ thread' = Append(thread, "answer")
    /\ bus' = Append(bus, Envelope("response", "answer"))
    /\ Finished(Orchestrator)
    /\ UNCHANGED <<todo, rounds, stalls, working, buffer, heard, caller, signals, turns,
                   saved, runs>>

\* _prepare_final_answer
FinalAnswer ==
    /\ step = "answer" /\ step' = "none"
    /\ thread' = Append(thread, "answer")
    /\ bus' = Append(bus, Envelope("response", "answer"))
    /\ signals' = signals + 1 /\ Finished(Orchestrator)
    /\ UNCHANGED <<todo, rounds, stalls, working, buffer, heard, caller, turns, saved, runs>>
-----------------------------------------------------------------------------
(* The participants.                                                       *)

HandleBroadcast(p) ==
    /\ Handling(p, "response") /\ Finished(p)
    /\ buffer' = [buffer EXCEPT ![p] = Append(@, Head(inbox[p]).who)]
    /\ UNCHANGED <<bus, step, todo, rounds, stalls, thread, working, heard, caller, signals,
                   turns, saved, runs>>

HandleRequest(p) ==
    /\ Handling(p, "request") /\ p \notin working
    /\ working' = working \cup {p}
    /\ UNCHANGED <<bus, inbox, step, todo, rounds, stalls, thread, buffer, heard, caller,
                   signals, turns, saved, runs>>

Respond(p) ==
    /\ p \in working /\ working' = working \ {p}
    /\ heard' = [heard EXCEPT ![p] = @ \o buffer[p]]
    /\ buffer' = [buffer EXCEPT ![p] = <<>>]
    /\ bus' = Append(bus, Envelope("response", p))
    /\ Finished(p)
    /\ UNCHANGED <<step, todo, rounds, stalls, thread, caller, signals, turns, saved, runs>>
-----------------------------------------------------------------------------
(* The caller of the team.                                                 *)

RunTeam ==
    /\ caller = "idle" /\ runs < MaxRuns
    /\ caller' = "running" /\ runs' = runs + 1 /\ turns' = 0
    /\ bus' = Append(bus, Envelope("start", "user"))
    /\ UNCHANGED <<inbox, teamVars, signals, saved>>

\* run_stream reads the termination and stops the runtime when it is idle
RunReturns ==
    /\ caller = "running" /\ signals > 0
    /\ bus = <<>> /\ \A a \in Agents : inbox[a] = <<>>
    /\ caller' = "idle" /\ signals' = signals - 1
    /\ UNCHANGED <<bus, inbox, teamVars, turns, saved, runs>>

\* reset, save_state and load_state of a team that is not running: all of its
\* agents are idle
Restore(state) ==
    /\ rounds' = state.rounds /\ stalls' = state.stalls /\ thread' = state.thread
    /\ buffer' = state.buffer /\ heard' = state.heard

Reset ==
    /\ caller = "idle" /\ thread # <<>>
    /\ Restore(Start0)
    /\ UNCHANGED <<bus, inbox, step, todo, working, caller, signals, turns, saved, runs>>

SaveState ==
    /\ caller = "idle"
    /\ saved' = [rounds |-> rounds, stalls |-> stalls, thread |-> thread,
                 buffer |-> buffer, heard |-> heard]
    /\ UNCHANGED <<bus, inbox, teamVars, caller, signals, turns, runs>>

LoadState ==
    /\ caller = "idle" /\ Restore(saved)
    /\ UNCHANGED <<bus, inbox, step, todo, working, caller, signals, turns, saved, runs>>

Work ==
    \/ Deliver \/ HandleStart \/ HandleAgentResponse \/ Planned
    \/ (\E ledger \in Ledgers : ProgressLedger(ledger)) \/ FinalAnswer
    \/ \E p \in Members : HandleReset(p) \/ HandleBroadcast(p) \/ HandleRequest(p) \/ Respond(p)
    \/ RunReturns
Next == Work \/ RunTeam \/ Reset \/ SaveState \/ LoadState

\* the tasks of the event loop run, the models and the agents answer
Spec == Init /\ [][Next]_vars /\ WF_vars(Work)
-----------------------------------------------------------------------------
(* Properties.                                                             *)

Sources(q) == [i \in DOMAIN q |-> q[i].who]
Responses(q) == Sources(SelectSeq(q, LAMBDA e : e.kind = "response"))
ByMembers(q) == SelectSeq(Responses(q), LAMBDA m : m \in Members)
NotBy(p, messages) == SelectSeq(messages, LAMBDA m : m # p)

\* Except while the participants are being reset, each of them knows exactly
\* the orchestrator's thread without its own messages, in the same order:
\* what its agent was given since the last reset, what its buffer holds and
\* what is on its way.  A reset sent by _reenter_outer_loop therefore neither
\* spares a message of the old thread nor takes one of the new.
ThreadIsShared ==
    step # "resets" =>
        LET unread == IF step = "none" THEN inbox[Orchestrator] ELSE <<>>
            all == thread \o ByMembers(unread) \o ByMembers(bus) IN
        \A p \in Members :
            heard[p] \o buffer[p] \o Responses(inbox[p]) \o NotBy(p, Responses(bus))
                = NotBy(p, all)

\* A run returns, even when the model finds for ever that the work stalls:
\* every turn of the outer loop counts as a round.
RunEnds == caller = "running" ~> caller = "idle"

\* A run takes at most max_turns turns.
TurnsAreBounded == turns <= MaxTurns
=============================================================================
