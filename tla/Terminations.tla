----------------------------- MODULE Terminations -----------------------------
(***************************************************************************)
(* Termination conditions (conditions/_terminations.py) and their          *)
(* combination with & and | (base/_termination.py), as operators on a      *)
(* tree.  A leaf is reached after Limit matching messages: one for the     *)
(* conditions that look for a message, max_messages for the one that       *)
(* counts.  An external leaf matches nothing: set() or the clock decides.  *)
(* A message is the set of the leaves it matches.  A stop message is the   *)
(* sequence of the leaves it names; <<>> stands for None.                  *)
(***************************************************************************)
EXTENDS Naturals, Sequences, SequencesExt

CONSTANTS
    Root,      \* the condition of the team
    Parts,     \* combined condition -> the sequence of its conditions
    Ands,      \* the ones combined with &
    Limit,     \* leaf -> messages it takes
    External   \* the leaves of ExternalTermination and TimeoutTermination

Leaves == DOMAIN Limit
Nodes == DOMAIN Parts \cup Leaves

ASSUME TreeAssumption ==
    /\ DOMAIN Parts \cap Leaves = {} /\ Root \in Nodes
    /\ Ands \subseteq DOMAIN Parts /\ External \subseteq Leaves
    /\ \A n \in DOMAIN Parts : Parts[n] # <<>> /\ ToSet(Parts[n]) \subseteq Nodes \ {Root}
    /\ \A l \in Leaves : Limit[l] \in Nat \ {0}

\* a state: the count of each leaf, the leaves that were set, and the stop
\* messages an & has collected
Fresh == [count |-> [l \in Leaves |-> 0], set |-> {}, told |-> [n \in Ands |-> <<>>]]

\* the nodes whose property "terminated" is true
Terminated(c) ==
    LET T[n \in Nodes] ==
          CASE n \in Leaves -> c.count[n] >= Limit[n]
            [] n \in Ands   -> \A i \in DOMAIN Parts[n] : T[Parts[n][i]]
            [] OTHER        -> \E i \in DOMAIN Parts[n] : T[Parts[n][i]]
    IN  {n \in Nodes : T[n]}

\* the nodes that are called when the root is: & leaves out the terminated
Called(c) ==
    LET over == Terminated(c)
        called[n \in Nodes] ==
          \/ n = Root
          \/ \E p \in DOMAIN Parts : /\ n \in ToSet(Parts[p]) /\ called[p]
                                     /\ p \in Ands => n \notin over
    IN  {n \in Nodes : called[n]}

\* what __call__ of a leaf counts, up to its limit
Counted(c, l, delta) ==
    LET hits == IF l \in External THEN (IF l \in c.set THEN Limit[l] ELSE 0)
                ELSE Len(SelectSeq(delta, LAMBDA m : l \in m))
    IN  IF c.count[l] + hits > Limit[l] THEN Limit[l] ELSE c.count[l] + hits

\* mutation: & forgets the stop messages of earlier calls
AnswerForgetful(c, count) ==
    LET called == Called(c)
        A[n \in Nodes] ==
          LET from == SelectSeq(IF n \in Leaves THEN <<>> ELSE Parts[n], LAMBDA p : p \in called)
              said == [i \in DOMAIN from |-> A[from[i]].stop]
          IN  CASE n \in Leaves ->
                     [stop |-> IF count[n] >= Limit[n] THEN <<n>> ELSE <<>>, told |-> <<>>]
                [] n \in Ands ->
                     [told |-> FlattenSeq(said),
                      stop |-> IF \E i \in DOMAIN said : said[i] = <<>> THEN <<>>
                               ELSE FlattenSeq(said)]
                [] OTHER -> [stop |-> FlattenSeq(said), told |-> <<>>]
    IN  A

\* What the call of each called node returns, and what an & has collected.
\* An & returns all it has collected once no remaining part returns None; an |
\* returns what its parts say now.
Answer(c, count) ==
    LET called == Called(c)
        A[n \in Nodes] ==
          LET from == SelectSeq(IF n \in Leaves THEN <<>> ELSE Parts[n], LAMBDA p : p \in called)
              said == [i \in DOMAIN from |-> A[from[i]].stop]
          IN  CASE n \in Leaves ->
                     [stop |-> IF count[n] >= Limit[n] THEN <<n>> ELSE <<>>, told |-> <<>>]
                [] n \in Ands ->
                     LET told == c.told[n] \o FlattenSeq(said)
                     IN  [told |-> told,
                          stop |-> IF \E i \in DOMAIN said : said[i] = <<>> THEN <<>> ELSE told]
                [] OTHER -> [stop |-> FlattenSeq(said), told |-> <<>>]
    IN  A

\* __call__ of the root, which must not be terminated: the state after it and
\* the stop message
Call(c, delta) ==
    LET called == Called(c)
        count == [l \in Leaves |-> IF l \in called THEN Counted(c, l, delta) ELSE c.count[l]]
        answer == Answer(c, count)
    IN  [state |-> [c EXCEPT !.count = count,
                             !.told = [n \in Ands |-> IF n \in called THEN answer[n].told
                                                      ELSE c.told[n]]],
         stop |-> answer[Root].stop]

\* ExternalTermination.set, or the end of a timeout
Set(c, l) == [c EXCEPT !.set = @ \cup {l}]
-----------------------------------------------------------------------------
\* the tree as a formula over its leaves
Holds(reached) ==
    LET H[n \in Nodes] ==
          CASE n \in Leaves -> n \in reached
            [] n \in Ands   -> \A i \in DOMAIN Parts[n] : H[Parts[n][i]]
            [] OTHER        -> \E i \in DOMAIN Parts[n] : H[Parts[n][i]]
    IN  H[Root]
=============================================================================
