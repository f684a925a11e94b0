---------------------- MODULE MCSingleThreadedRuntime ----------------------
(* A client's request whose handler sends a nested request, a client's     *)
(* event published to both agents, and a nested event that one of its      *)
(* handlers publishes back to both agents.                                 *)
EXTENDS SingleThreadedRuntime, TLC

CONSTANTS ask, nested, event, echo, a, b

Requests == {ask, nested}
Mixed == {ask, nested, event}
Everything == {ask, nested, event, echo}

Kinds == [m \in Msg |-> IF m \in {ask, nested} THEN "send" ELSE "publish"]
Targets == [m \in Msg |-> CASE m = ask -> {a} [] m = nested -> {b} [] OTHER -> {a, b}]
Parents == [m \in Msg |-> CASE m = nested -> ask [] m = echo -> event [] OTHER -> NoMsg]

AlwaysReturn == [k \in {"send", "publish"} |-> {"return"}]
SendsFail == [k \in {"send", "publish"} |->
                IF k = "send" THEN {"return", "raise", "cancel"} ELSE {"return"}]
PublishesFail == [k \in {"send", "publish"} |->
                    IF k = "publish" THEN {"return", "raise"} ELSE {"return"}]
AnyEnd == [k \in {"send", "publish"} |-> {"return", "raise", "cancel"}]
=============================================================================
