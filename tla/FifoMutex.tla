------------------------------ MODULE FifoMutex ------------------------------
(***************************************************************************)
(* What the FIFO lock of a SequentialRoutedAgent promises: messages form   *)
(* one line in the order they arrive, the first in the line is the only    *)
(* one being processed, and it leaves from the front.                      *)
(***************************************************************************)
EXTENDS Sequences

CONSTANT Task

VARIABLES line, inside

fifoVars == <<line, inside>>

Init == line = <<>> /\ inside = {}

\* a message arrives; it is processed at once if nobody is before it
Arrive(t) ==
    /\ \A i \in DOMAIN line : line[i] # t
    /\ line' = Append(line, t)
    /\ inside' = IF line = <<>> THEN {t} ELSE inside

\* the first in the line starts being processed
Enter(t) ==
    /\ inside = {}
    /\ line # <<>> /\ Head(line) = t
    /\ inside' = {t}
    /\ UNCHANGED line

Leave(t) ==
    /\ inside = {t}
    /\ line' = Tail(line)
    /\ inside' = {}

Next == \E t \in Task : Arrive(t) \/ Enter(t) \/ Leave(t)

Spec == Init /\ [][Next]_fifoVars
=============================================================================
