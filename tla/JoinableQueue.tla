---------------------------- MODULE JoinableQueue ----------------------------
(***************************************************************************)
(* What the queue promises its users, without futures, deques of waiters   *)
(* or wake-ups: a get() takes the oldest item as soon as there is one, a   *)
(* put() adds its item as soon as there is room, both end when the queue   *)
(* is closed, and work is finished once per item.  MessageQueue is shown   *)
(* to implement this specification, fairness included.                     *)
(***************************************************************************)
EXTENDS Naturals, Sequences

CONSTANTS Task, Item, MaxSize, UnfinishedBound

VARIABLES items, unfinished, closed, op, arg

vars == <<items, unfinished, closed, op, arg>>

Init ==
    /\ items = <<>>
    /\ unfinished = 0
    /\ closed = FALSE
    /\ op = [t \in Task |-> "idle"]
    /\ arg \in [Task -> Item]

HasRoom == MaxSize = 0 \/ Len(items) < MaxSize

Take(t, from) ==
    /\ op[t] = from
    /\ items # <<>>
    /\ items' = Tail(items)
    /\ op' = [op EXCEPT ![t] = "idle"]
    /\ UNCHANGED <<unfinished, closed, arg>>

Add(t, from, x) ==
    /\ op[t] = from
    /\ HasRoom
    /\ ~closed
    /\ unfinished < UnfinishedBound
    /\ items' = Append(items, x)
    /\ unfinished' = unfinished + 1
    /\ op' = [op EXCEPT ![t] = "idle"]
    /\ UNCHANGED <<closed, arg>>

Block(t) ==
    /\ op[t] = "idle"
    /\ \/ /\ items = <<>> /\ ~closed
          /\ op' = [op EXCEPT ![t] = "getting"]
          /\ UNCHANGED arg
       \/ /\ ~HasRoom /\ ~closed
          /\ op' = [op EXCEPT ![t] = "putting"]
          /\ \E x \in Item : arg' = [arg EXCEPT ![t] = x]
       \/ /\ unfinished > 0
          /\ op' = [op EXCEPT ![t] = "joining"]
          /\ UNCHANGED arg
    /\ UNCHANGED <<items, unfinished, closed>>

\* a blocked call may end without effect: cancelled, closed, or joined
Leave(t) ==
    /\ op[t] # "idle"
    /\ op' = [op EXCEPT ![t] = "idle"]
    /\ UNCHANGED <<items, unfinished, closed, arg>>

Finish ==
    /\ unfinished > Len(items)
    /\ unfinished' = unfinished - 1
    /\ UNCHANGED <<items, closed, op, arg>>

Close(drop) ==
    /\ closed' = TRUE
    /\ items' = IF drop THEN <<>> ELSE items
    /\ unfinished' = IF drop THEN unfinished - Len(items) ELSE unfinished
    /\ UNCHANGED <<op, arg>>

ServeGetter == \E t \in Task : Take(t, "getting")

ServePutter == \E t \in Task : Add(t, "putting", arg[t])

Next ==
    \/ \E t \in Task : \/ Take(t, "idle")
                       \/ \E x \in Item : Add(t, "idle", x)
                       \/ Block(t)
                       \/ Leave(t)
    \/ ServeGetter
    \/ ServePutter
    \/ Finish
    \/ \E drop \in BOOLEAN : Close(drop)

\* an item and a blocked getter, or room and a blocked putter, meet
Spec == Init /\ [][Next]_vars /\ WF_vars(ServeGetter) /\ WF_vars(ServePutter)
=============================================================================
