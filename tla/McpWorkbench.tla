----------------------------- MODULE McpWorkbench -----------------------------
(***************************************************************************)
(* A McpWorkbench and the McpSessionActor behind it.  The actor task owns  *)
(* the session: it takes commands from a queue and gives each one's future *)
(* the coroutine of a request, which the caller awaits itself.  A client   *)
(* is a task that has at most one command with the actor; the closer is    *)
(* the one task that calls stop(), at the end of its `async with`.         *)
(***************************************************************************)
EXTENDS Naturals, Sequences

CONSTANTS Clients, Closer

VARIABLES
    actor,      \* the workbench's _actor: "none", "live", or "dead" (not _active)
    task,       \* _actor_task: "none", "starting", "serving", "leaving", "failing"
    queue,      \* _command_queue: [who, gone], gone: the awaiting task was cancelled
    future,     \* of a client or the closer: "none", "queued", "held", "sent", "ok", "err"
    behind      \* clients whose command was put behind a shutdown

mcpVars == <<actor, task, queue, future, behind>>

McpInit ==
    /\ actor = "none" /\ task = "none" /\ queue = <<>>
    /\ future = [c \in Clients \cup {Closer} |-> "none"]
    /\ behind = {}

Entry(c) == [who |-> c, gone |-> FALSE]
Closing == task = "leaving" \/ \E i \in 1..Len(queue) : queue[i].who = Closer

\* call() through the workbench, which starts an actor when it has none
CallActor(c) ==
    \/ /\ actor = "none"
       /\ actor' = "live" /\ task' = "starting" /\ queue' = <<Entry(c)>>
       /\ future' = [future EXCEPT ![c] = "queued"]
       /\ behind' = behind \ {c}
    \/ /\ actor = "live"
       /\ queue' = Append(queue, Entry(c))
       /\ future' = [future EXCEPT ![c] = "queued"]
       /\ behind' = IF Closing THEN behind \cup {c} ELSE behind \ {c}
       /\ UNCHANGED <<actor, task>>
    \/ /\ actor = "dead"
       /\ future' = [future EXCEPT ![c] = "err"]
       /\ UNCHANGED <<actor, task, queue, behind>>

\* the caller resumes with the coroutine and awaits it
AwaitAnswer(c) ==
    /\ future[c] = "held"
    /\ future' = [future EXCEPT ![c] = "sent"]
    /\ UNCHANGED <<actor, task, queue, behind>>

\* the task that waits for the answer is cancelled: a future still queued is
\* cancelled with it
AbandonCall(c) ==
    /\ future' = [future EXCEPT ![c] = "none"]
    /\ queue' = [i \in 1..Len(queue) |->
                    IF queue[i].who = c THEN [queue[i] EXCEPT !.gone = TRUE] ELSE queue[i]]
    /\ behind' = behind \ {c}
    /\ UNCHANGED <<actor, task>>
-----------------------------------------------------------------------------
(* The actor task.                                                         *)

OpenSession ==
    /\ task = "starting" /\ task' = "serving"
    /\ UNCHANGED <<actor, queue, future, behind>>

\* the session is not created, it breaks, or closing it raises
LoseSession ==
    /\ task \in {"starting", "serving", "leaving"} /\ task' = "failing"
    /\ UNCHANGED <<actor, queue, future, behind>>

\* set_result on a cancelled future raises, and so does the handler's
\* set_exception: the actor fails
Serve ==
    /\ task = "serving" /\ queue # <<>>
    /\ queue' = Tail(queue)
    /\ LET cmd == Head(queue) IN
       IF cmd.gone THEN task' = "failing" /\ UNCHANGED future
       ELSE IF cmd.who = Closer
       THEN task' = "leaving" /\ future' = [future EXCEPT ![cmd.who] = "ok"]
       ELSE UNCHANGED task /\ future' = [future EXCEPT ![cmd.who] = "held"]
    /\ UNCHANGED <<actor, behind>>

\* requests under way when the session closes end with an error
Broken == [c \in DOMAIN future |->
    IF future[c] \in {"held", "sent"} THEN "err" ELSE future[c]]

\* the actor ends after a shutdown: what is queued behind it stays there
LeaveSession ==
    /\ task = "leaving"
    /\ task' = "none" /\ actor' = "dead" /\ future' = Broken
    /\ UNCHANGED <<queue, behind>>

\* mutation: pending commands are not given the exception
FailSessionSilently ==
    /\ task = "failing"
    /\ task' = "none" /\ actor' = "dead" /\ queue' = <<>> /\ future' = Broken
    /\ UNCHANGED behind

\* the actor ends with an exception, which it gives to every queued command
FailSession ==
    /\ task = "failing"
    /\ task' = "none" /\ actor' = "dead" /\ queue' = <<>>
    /\ future' = [c \in DOMAIN future |->
                    IF \E i \in 1..Len(queue) : queue[i] = Entry(c) THEN "err" ELSE Broken[c]]
    /\ UNCHANGED behind

\* the server answers a request, or the request fails
ServerAnswers(c) ==
    /\ future[c] = "sent" /\ task = "serving"
    /\ \E answer \in {"ok", "err"} : future' = [future EXCEPT ![c] = answer]
    /\ UNCHANGED <<actor, task, queue, behind>>
-----------------------------------------------------------------------------
(* stop().                                                                 *)

Stop ==
    /\ future[Closer] = "none"
    /\ \/ /\ actor = "live"
          /\ queue' = Append(queue, Entry(Closer))
          /\ future' = [future EXCEPT ![Closer] = "queued"]
          /\ UNCHANGED <<actor, task, behind>>
       \/ /\ actor = "dead" /\ actor' = "none"
          /\ UNCHANGED <<task, queue, future, behind>>

\* close() returns when the actor task has ended, or raises what it raised
StopEnds ==
    /\ \/ future[Closer] = "ok" /\ task = "none" /\ actor' = "none"
       \/ future[Closer] = "err" /\ UNCHANGED actor
    /\ future' = [future EXCEPT ![Closer] = "none"]
    /\ UNCHANGED <<task, queue, behind>>
=============================================================================
