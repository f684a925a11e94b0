----------------------------- MODULE MCGraphFlow -----------------------------
(***************************************************************************)
(* A fans out to B and C, D joins them, and goes back to A, on to E, both  *)
(* or neither, as its message says.                                        *)
(***************************************************************************)
EXTENDS GraphFlow, TLC

Edge(src, dst, group, need, mark) ==
    [src |-> src, dst |-> dst, group |-> group, need |-> need, mark |-> mark]

LoopEdges ==
    << Edge("A", "B", "B", "all", "none"), Edge("A", "C", "C", "all", "none"),
       Edge("B", "D", "D", "all", "none"), Edge("C", "D", "D", "all", "none"),
       Edge("D", "A", "again", "any", "again"), Edge("D", "E", "E", "all", "done") >>
LoopStarts == <<"A">>

\* D also waits for a node that never speaks, and B may repeat itself
JoinEdges ==
    << Edge("A", "B", "B", "all", "go"), Edge("A", "C", "C", "all", "rest"),
       Edge("B", "B", "again", "any", "again"), Edge("B", "D", "D", "all", "go"),
       Edge("C", "D", "D", "all", "none") >>

\* (two counted messages & a text mention) | set from outside
StopTree == ("or" :> <<"and", "outside">>) @@ ("and" :> <<"count", "text">>)
StopLimits == ("count" :> 2) @@ ("text" :> 1) @@ ("outside" :> 1)

LoopSays == {{}, {"again", "count"}, {"again", "done", "text", "count"}}
JoinSays == {{"go"}, {"go", "again"}}
=============================================================================
