---------------------------- MODULE MCGrpcRuntime ----------------------------
EXTENDS GrpcRuntime, TLC
CONSTANTS a, b, T1, T2
EachServesOne == {<<b, T1>>, <<a, T2>>}
OnlyAAsks == {<<a, T1>>}
BStartsTwice == (a :> 1) @@ (b :> 2)
FirstOfB == {<<b, 1>>}
BothAsk == {<<a, T1>>, <<b, T1>>}
=============================================================================
