----------------------------- MODULE ModelContext -----------------------------
(***************************************************************************)
(* The chat completion contexts of autogen_core.model_context: an agent    *)
(* keeps all of its messages and shows its model a view of them.  A        *)
(* message is a record with a kind: "user" (user, system and memory        *)
(* messages), "text" (an assistant message that is a string), "calls" (an  *)
(* assistant message that is a list of function calls) and "results" (the  *)
(* execution results); "calls" and "results" carry the ids of the calls.   *)
(* A message is one token.                                                 *)
(***************************************************************************)
EXTENDS Naturals, Sequences, SequencesExt

Message == [kind : {"user", "text", "calls", "results"}, ids : Seq(Seq(Nat))]
User == [kind |-> "user", ids |-> <<>>]
Text == [kind |-> "text", ids |-> <<>>]
FunctionCalls(ids) == [kind |-> "calls", ids |-> ids]
ExecutionResults(ids) == [kind |-> "results", ids |-> ids]

LastOf(messages, n) ==
    SubSeq(messages, IF Len(messages) > n THEN Len(messages) - n + 1 ELSE 1, Len(messages))
FirstOf(messages, n) == SubSeq(messages, 1, IF Len(messages) > n THEN n ELSE Len(messages))

WithoutFirstResult(messages) ==
    IF messages # <<>> /\ Head(messages).kind = "results" THEN Tail(messages) ELSE messages
WithoutLastCall(messages) ==
    IF messages # <<>> /\ Last(messages).kind = "calls" THEN Front(messages) ELSE messages

\* mutation: a result may be the first message
BufferedUncut(messages, size) == LastOf(messages, size)
Buffered(messages, size) == WithoutFirstResult(LastOf(messages, size))

HeadAndTail(messages, head, tail) ==
    IF Len(messages) <= head + tail THEN messages
    ELSE WithoutLastCall(FirstOf(messages, head)) \o <<User>>
             \o WithoutFirstResult(LastOf(messages, tail))

\* the middle message goes until the rest is within the limit
Thinned[messages \in Seq(Message), limit \in Nat] ==
    IF Len(messages) <= limit THEN messages
    ELSE Thinned[RemoveAt(messages, Len(messages) \div 2 + 1), limit]
TokenLimited(messages, limit) == WithoutFirstResult(Thinned[messages, limit])

\* get_messages() of a context
View(context, messages) ==
    CASE context.kind = "unbounded"   -> messages
      [] context.kind = "buffered"    -> Buffered(messages, context.size)
      [] context.kind = "headandtail" -> HeadAndTail(messages, context.head, context.tail)
      [] context.kind = "tokens"      -> TokenLimited(messages, context.size)

\* what model services ask of a conversation: function calls are followed by
\* their results, one for each call and in order, and results follow nothing else
Paired(messages) ==
    \A i \in 1..Len(messages) :
        /\ messages[i].kind = "calls" =>
              i < Len(messages) /\ messages[i + 1] = ExecutionResults(messages[i].ids)
        /\ messages[i].kind = "results" => i > 1 /\ messages[i - 1].kind = "calls"
=============================================================================
