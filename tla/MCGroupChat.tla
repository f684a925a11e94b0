---------------------------- MODULE MCGroupChat ----------------------------
EXTENDS GroupChat
CONSTANTS a, b
TwoMembers == <<a, b>>
TwoTurns == [s \in Styles |-> IF s = "parallel" THEN 1 ELSE 2]
Outside == {b, User}
=============================================================================
