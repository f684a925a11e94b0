------------------------------- MODULE GraphFlow -------------------------------
(***************************************************************************)
(* The manager of a GraphFlow team                                         *)
(* (_graph/_digraph_group_chat.py on _base_group_chat_manager.py) with its *)
(* termination condition.  Its handlers are single steps: GroupChat shows  *)
(* that requests and responses reach it one by one.  A participant answers *)
(* with one message, known by its marks: the edge conditions it satisfies  *)
(* and the leaves of the termination condition it matches.                 *)
(***************************************************************************)
EXTENDS Naturals, Sequences, FiniteSets, SequencesExt, Terminations

CONSTANTS
    Agents,       \* the nodes of the graph
    Edges,        \* sequence of [src, dst, group, need, mark], in the order of the nodes
    Starts,       \* get_start_nodes(), in the order of the set
    Says,         \* the marks a message may carry
    MaxTurns,
    MaxRuns,      \* bound on run_stream calls
    SaveMidway    \* is state also saved while nodes wait to be run?

Groups == {<<Edges[i].dst, Edges[i].group>> : i \in DOMAIN Edges}
Into(g) == {i \in DOMAIN Edges : <<Edges[i].dst, Edges[i].group>> = g}
Need(g) == Edges[CHOOSE i \in Into(g) : TRUE].need

\* graph_validate, but for the search for cycles
ASSUME GraphAssumption ==
    /\ Starts # <<>> /\ ToSet(Starts) \subseteq Agents
    /\ \A i \in DOMAIN Edges : {Edges[i].src, Edges[i].dst} \subseteq Agents
    /\ \E a \in Agents : \A i \in DOMAIN Edges : Edges[i].src # a
    /\ \A i, j \in DOMAIN Edges : Edges[i].src = Edges[j].src =>
            (Edges[i].mark = "none" <=> Edges[j].mark = "none")
    /\ \A g \in Groups : \A i \in Into(g) : Edges[i].need = Need(g)
    /\ MaxTurns \in Nat \ {0} /\ MaxRuns \in Nat /\ SaveMidway \in BOOLEAN

VARIABLES
    running,     \* run_stream is under way
    asked,       \* participant -> requests it has not answered
    active,      \* _active_speakers
    turn,        \* _current_turn
    flow,        \* _ready, _remaining, _enqueued_any, _triggered_activation_groups
    cond,        \* the termination condition
    runs,
    saved,       \* what save_state returned last, or <<>>
    met,         \* how often each edge was satisfied since its group was used
    starting,    \* the start nodes wait to be run
    given,       \* leaf -> matching messages the condition got since its last reset
    verdict      \* the last stop message, and whether the tree then held of "given"

vars == <<running, asked, active, turn, flow, cond, runs, saved, met, starting, given, verdict>>

\* _reset_execution_state; the triggered groups are left as they are
ResetFlow(f) ==
    [f EXCEPT !.ready = Starts,
              !.remaining = [g \in Groups |-> Cardinality(Into(g))],
              !.enqueued = [g \in Groups |-> FALSE]]

NoneMet == [i \in DOMAIN Edges |-> 0]
NoneGiven == [l \in Leaves |-> 0]

Init ==
    /\ running = FALSE /\ asked = [a \in Agents |-> 0]
    /\ active = <<>> /\ turn = 0
    /\ flow = ResetFlow([ready |-> <<>>, remaining |-> <<>>, enqueued |-> <<>>, triggered |-> {}])
    /\ cond = Fresh
    /\ runs = 0 /\ saved = <<>>
    /\ met = NoneMet /\ starting = TRUE
    /\ given = NoneGiven /\ verdict = [why |-> <<>>, held |-> FALSE]
-----------------------------------------------------------------------------
(* The graph.                                                              *)

\* the edges of a node whose condition the message satisfies, in order
Satisfied(a, says) ==
    SelectSeq([i \in DOMAIN Edges |-> i],
              LAMBDA i : Edges[i].src = a /\ (Edges[i].mark = "none" \/ Edges[i].mark \in says))

GroupOf(i) == <<Edges[i].dst, Edges[i].group>>

Enqueue(f, i) == [f EXCEPT !.ready = Append(@, Edges[i].dst), !.triggered = @ \cup {GroupOf(i)}]

\* one edge of update_message_thread
Follow(f, i) ==
    LET g == GroupOf(i)
        less == [f EXCEPT !.remaining[g] = @ - 1]
    IN  IF Need(g) = "all"
        THEN IF less.remaining[g] = 0 THEN Enqueue(less, i) ELSE less
        ELSE IF f.enqueued[g] THEN f ELSE Enqueue([f EXCEPT !.enqueued[g] = TRUE], i)

\* update_message_thread
Propagate(f, a, says) == FoldLeft(Follow, f, Satisfied(a, says))

\* mutation: the counts of a group are not restored when it has been used
DrainWithoutReset(f) == [f EXCEPT !.ready = <<>>, !.triggered = {}]

\* select_speaker, with _reset_triggered_activation_groups of each speaker
Drain(f) ==
    LET used == {g \in f.triggered : g[1] \in ToSet(f.ready)}
    IN  [ready |-> <<>>,
         remaining |-> [g \in Groups |-> IF g \in used /\ Need(g) = "all"
                                         THEN Cardinality(Into(g)) ELSE f.remaining[g]],
         enqueued |-> [g \in Groups |-> f.enqueued[g] /\ g \notin used],
         triggered |-> f.triggered \ used]

\* the groups that are satisfied, from what the edges have met
Due(m) ==
    {g \in Groups : IF Need(g) = "all" THEN \A i \in Into(g) : m[i] > 0
                    ELSE \E i \in Into(g) : m[i] > 0}

Meet(hit) == [i \in DOMAIN Edges |-> met[i] + (IF Contains(hit, i) THEN 1 ELSE 0)]
Used(m) == [i \in DOMAIN Edges |-> IF GroupOf(i) \in Due(m) THEN 0 ELSE m[i]]
-----------------------------------------------------------------------------
(* The manager.                                                            *)

\* where the manager stands in a handler: the graph, what its edges have met,
\* _active_speakers and the requests that are not answered
Standing(f, m, left, owing) == [flow |-> f, met |-> m, left |-> left, owing |-> owing]
Now == Standing(flow, met, active, asked)

\* _transition_to_next_speakers
Transition(at) ==
    /\ running' = TRUE
    /\ flow' = Drain(at.flow)
    /\ active' = at.left \o at.flow.ready
    /\ asked' = [a \in Agents |->
                   at.owing[a] + Len(SelectSeq(at.flow.ready, LAMBDA x : x = a))]
    /\ met' = Used(at.met) /\ starting' = FALSE

\* the condition and the turn count are reset, and the run ends
Terminate(at, fresh) ==
    /\ running' = FALSE
    /\ flow' = at.flow /\ active' = at.left /\ asked' = at.owing
    /\ turn' = 0 /\ cond' = Fresh
    /\ met' = at.met /\ starting' = fresh /\ given' = NoneGiven

\* mutation: the turn is not counted
ApplyUncounted(at, says, turns) ==
    /\ at.flow.ready # <<>>
    /\ Transition(at)
    /\ UNCHANGED <<turn, cond, given, verdict>>

\* _apply_termination_condition, then the next speakers.  A graph without
\* ready nodes is complete: the condition is not asked.
Apply(at, says, turns) ==
    \E call \in {Call(cond, <<says>>)} :
    LET told == [l \in Leaves |-> given[l] + (IF l \in says /\ given[l] < Limit[l] THEN 1 ELSE 0)]
        reached == {l \in Leaves : told[l] = Limit[l]} \cup cond.set
    IN  \/ /\ at.flow.ready = <<>>
           /\ Terminate([at EXCEPT !.flow = ResetFlow(@), !.met = NoneMet], TRUE)
           /\ UNCHANGED verdict
        \/ /\ at.flow.ready # <<>>
           /\ verdict' = [why |-> call.stop, held |-> Holds(reached)]
           /\ IF call.stop # <<>> \/ turns >= MaxTurns
              THEN Terminate(at, starting)
              ELSE /\ Transition(at)
                   /\ turn' = turns /\ cond' = call.state /\ given' = told

\* handle_start with a task: a message of the user does not move the graph
RunTask(says) ==
    /\ ~running /\ runs < MaxRuns
    /\ runs' = runs + 1
    /\ IF Root \in Terminated(cond)
       THEN UNCHANGED <<running, asked, active, turn, flow, cond, met, starting, given, verdict>>
       ELSE Apply(Now, says, turn)
    /\ UNCHANGED saved

\* handle_start without a task
Resume ==
    /\ ~running /\ runs < MaxRuns
    /\ runs' = runs + 1
    /\ Root \notin Terminated(cond)
    /\ Transition(Now)
    /\ UNCHANGED <<turn, cond, saved, given, verdict>>

\* handle_agent_response: the last of the active speakers goes on
Respond(a, says) ==
    /\ running /\ asked[a] > 0
    /\ \E at \in {Standing(Propagate(flow, a, says), Meet(Satisfied(a, says)),
                          RemoveFirst(active, a), [asked EXCEPT ![a] = @ - 1])} :
           IF at.left # <<>>
           THEN /\ flow' = at.flow /\ met' = at.met /\ active' = at.left /\ asked' = at.owing
                /\ UNCHANGED <<running, turn, cond, starting, given, verdict>>
           ELSE Apply(at, says, turn + 1)
    /\ UNCHANGED <<runs, saved>>

\* a participant raises, or the caller cancels: the run ends in an exception
CutOff ==
    /\ running /\ \E a \in Agents : asked[a] > 0
    /\ running' = FALSE /\ asked' = [a \in Agents |-> 0]
    /\ UNCHANGED <<active, turn, flow, cond, runs, saved, met, starting, given, verdict>>

\* the runtime is idle though speakers are listed: stop_when_idle ends the run
RunDry ==
    /\ running /\ \A a \in Agents : asked[a] = 0
    /\ running' = FALSE
    /\ UNCHANGED <<asked, active, turn, flow, cond, runs, saved, met, starting, given, verdict>>

\* ExternalTermination.set, or the timeout passes
SetExternal(l) ==
    /\ l \in External \ cond.set
    /\ cond' = Set(cond, l)
    /\ UNCHANGED <<running, asked, active, turn, flow, runs, saved, met, starting, given, verdict>>

\* reset()
Reset ==
    /\ ~running
    /\ turn' = 0 /\ cond' = Fresh /\ given' = NoneGiven
    /\ flow' = ResetFlow(flow) /\ met' = NoneMet /\ starting' = TRUE
    /\ UNCHANGED <<running, asked, active, runs, saved, verdict>>

\* save_state leaves out the triggered groups
SaveState ==
    /\ ~running /\ saved = <<>>
    /\ SaveMidway \/ starting
    /\ saved' = [turn |-> turn, flow |-> [flow EXCEPT !.triggered = {}], met |-> met,
                 starting |-> starting]
    /\ UNCHANGED <<running, asked, active, turn, flow, cond, runs, met, starting, given, verdict>>

\* load_state; a state is loaded once: enqueued_any is not copied, so that the
\* run that follows would change it in a state kept for a second load
LoadState ==
    /\ ~running /\ saved # <<>>
    /\ turn' = saved.turn
    /\ flow' = [saved.flow EXCEPT !.triggered = flow.triggered]
    /\ met' = saved.met /\ starting' = saved.starting
    /\ saved' = <<>>
    /\ UNCHANGED <<running, asked, active, cond, runs, given, verdict>>
-----------------------------------------------------------------------------
Work == RunDry \/ \E a \in Agents, says \in Says : Respond(a, says)

Next ==
    \/ Work \/ CutOff \/ Resume \/ Reset \/ SaveState \/ LoadState
    \/ \E says \in Says : RunTask(says)
    \/ \E l \in External : SetExternal(l)

\* participants answer and the runtime goes on
Spec == Init /\ [][Next]_vars /\ WF_vars(Work)
-----------------------------------------------------------------------------
Times(x, q) == Len(SelectSeq(q, LAMBDA y : y = x))

(* A node waits to be run once for every activation group whose condition  *)
(* is met, all of its edges or any, since the group last ran it, and the   *)
(* start nodes when an execution begins: nothing runs early, twice or      *)
(* never, across turn limits, stops, failed runs, reset and load_state.    *)
ReadyIsDue ==
    \A a \in Agents :
        Times(a, flow.ready) = (IF starting THEN Times(a, Starts) ELSE 0)
                                + Cardinality({g \in Due(met) : g[1] = a})

(* The condition stops the run exactly when its tree holds of what it was  *)
(* told since its last reset, and the stop message gives a reason: leaves  *)
(* that suffice, none of them twice.                                       *)
VerdictJustified ==
    /\ verdict.why # <<>> <=> verdict.held
    /\ verdict.held => Holds(ToSet(verdict.why)) /\ IsInjective(verdict.why)

(* A run ends: loops run out of turns.                                     *)
RunEnds == running ~> ~running
=============================================================================
