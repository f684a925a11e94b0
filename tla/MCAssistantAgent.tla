--------------------------- MODULE MCAssistantAgent ---------------------------
(***************************************************************************)
(* An agent with one static tool, one remote tool and one handoff, under   *)
(* model contexts of several kinds.  The answers hold a pair of concurrent *)
(* calls, a handoff among two others, garbled arguments and an absent      *)
(* tool.                                                                   *)
(***************************************************************************)
EXTENDS AssistantAgent

CONSTANTS local, remote, transfer, absent

Plain(tool) == [tool |-> tool, garbled |-> FALSE]
Garbled(tool) == [tool |-> tool, garbled |-> TRUE]

MCAnswers == {<<Plain(local), Plain(remote)>>, <<Garbled(transfer)>>,
              <<Garbled(local), Plain(transfer), Plain(absent)>>}
FewAnswers == {<<Plain(local), Plain(remote)>>}
MCContexts == {[kind |-> "unbounded"]} \cup [kind : {"buffered"}, size : 1..4]
                  \cup [kind : {"headandtail"}, head : 1..3, tail : 1..3]
TokenContexts == [kind : {"tokens"}, size : 1..4]
MCClients == 0..3
\* a handoff that brings a call with its result
MCInputs == {<<FunctionCalls(<<<<0, 1>>>>), ExecutionResults(<<<<0, 1>>>>), User>>}
OneInput == {<<User>>}
=============================================================================
