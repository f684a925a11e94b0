------------------------------ MODULE Delivery ------------------------------
(***************************************************************************)
(* How SingleThreadedAgentRuntime finds the agents of a message: the       *)
(* subscription table names the recipients of a topic, the agent table     *)
(* yields or makes them one by one, while subscriptions and instances      *)
(* come and go and the table is being saved or closed.                     *)
(***************************************************************************)
EXTENDS AgentInstances

CONSTANTS
    Topic, PrefixesOf, MaxSubs,
    Offered     \* the subscriptions the program may add

ASSUME DeliveryAssumption ==
    /\ \A sub \in Offered : sub.kind \in {"type", "prefix"}
    /\ \A topic \in Topic : topic.type \in DOMAIN PrefixesOf
    /\ MaxSubs \in Nat

VARIABLES subscriptions, seen, recipients

Subs == INSTANCE SubscriptionManager

tableVars == <<subscriptions, seen, recipients>>
vars == <<instanceVars, tableVars>>

Init == InstancesInit /\ Subs!Init

Idle(c) == todo[c] = <<>>

\* _process_publish: the list is the one of this moment
ProcessPublish(c, topic) ==
    /\ Idle(c)
    /\ Subs!Lookup(topic)
    /\ todo' = [todo EXCEPT ![c] = recipients'[topic]]
    /\ UNCHANGED <<table, made, building, used, walk>>

\* _process_send
ProcessSend(c, id) ==
    /\ Idle(c)
    /\ todo' = [todo EXCEPT ![c] = <<id>>]
    /\ UNCHANGED <<table, made, building, used, walk, tableVars>>

InstanceStep ==
    \/ \E c \in Caller : LookupStep(c)
    \/ \E id \in AgentId : RegisterInstance(id)
    \/ WalkNext

TableStep ==
    \/ \E sub \in Offered : Subs!AddSubscription(sub)
    \/ \E sub \in Offered : Subs!RemoveSubscription(sub.id)

Next ==
    \/ \E c \in Caller : \E topic \in Topic : ProcessPublish(c, topic)
    \/ \E c \in Caller : \E id \in AgentId : ProcessSend(c, id)
    \/ InstanceStep /\ UNCHANGED tableVars
    \/ TableStep /\ UNCHANGED instanceVars

Spec == Init /\ [][Next]_vars
-----------------------------------------------------------------------------
(* The recipient cache never goes stale: a publish to a topic seen before  *)
(* reaches exactly whom the present table names, in table order.           *)
CacheIsCurrent == Subs!CacheIsCurrent

(* A publish is delivered to every recipient agent only once.              *)
DeliveredOnce == Subs!DeliveredOnce
=============================================================================
