------------------------- MODULE SubscriptionManager -------------------------
(***************************************************************************)
(* The subscription table of a runtime (_runtime_impl_helpers.py) with the *)
(* two kinds of subscription: exact topic type and topic-type prefix.      *)
(* Recipients are cached per topic when the topic is first published to    *)
(* and rebuilt whenever the table changes.                                 *)
(***************************************************************************)
EXTENDS Naturals, Sequences, FiniteSets

CONSTANTS
    Topic,       \* topics, each with a .type and a .source
    PrefixesOf,  \* topic type -> the patterns it starts with
    MaxSubs      \* bound on the number of subscriptions

VARIABLES
    subscriptions,  \* _subscriptions: each with a kind, an id, a pattern and an agent type
    seen,           \* _seen_topics
    recipients      \* _subscribed_recipients, <<>> for an absent topic

Init ==
    /\ subscriptions = <<>>
    /\ seen = {}
    /\ recipients = [topic \in Topic |-> <<>>]
-----------------------------------------------------------------------------
IsMatch(sub, topic) ==
    IF sub.kind = "type"
    THEN topic.type = sub.pattern
    ELSE sub.pattern \in PrefixesOf[topic.type]

MapToAgent(sub, topic) == <<sub.agent, topic.source>>

\* __eq__: same class, and same id or same pattern and agent
SameSubscription(sub, other) ==
    /\ sub.kind = other.kind
    /\ sub.id = other.id \/ (sub.agent = other.agent /\ sub.pattern = other.pattern)

\* what a filter keeps of a list: the elements at some indices, in their order
Filtered(list, kept) ==
    LET Nth(n) == CHOOSE i \in kept : Cardinality({j \in kept : j <= i}) = n
    IN  [n \in 1..Cardinality(kept) |-> list[Nth(n)]]

\* _build_for_new_topic: what the table sends to the topic, in table order
Matching(subs, topic) ==
    LET found == Filtered(subs, {i \in DOMAIN subs : IsMatch(subs[i], topic)})
    IN  [n \in DOMAIN found |-> MapToAgent(found[n], topic)]

\* _rebuild_subscriptions: clear, then build for every topic seen so far
Rebuilt(subs) ==
    [topic \in Topic |-> IF topic \in seen THEN <<>> \o Matching(subs, topic) ELSE <<>>]

\* a duplicate raises ValueError and changes nothing
AddSubscription(sub) ==
    /\ Len(subscriptions) < MaxSubs
    /\ \A i \in DOMAIN subscriptions : ~SameSubscription(subscriptions[i], sub)
    /\ subscriptions' = Append(subscriptions, sub)
    /\ recipients' = Rebuilt(subscriptions')
    /\ UNCHANGED seen

\* mutation: the cache is not rebuilt
RemoveWithoutRebuild(id) ==
    /\ \E i \in DOMAIN subscriptions : subscriptions[i].id = id
    /\ subscriptions' = Filtered(subscriptions, {i \in DOMAIN subscriptions : subscriptions[i].id # id})
    /\ UNCHANGED <<seen, recipients>>

\* an unknown id raises ValueError and changes nothing
RemoveSubscription(id) ==
    /\ \E i \in DOMAIN subscriptions : subscriptions[i].id = id
    /\ subscriptions' = Filtered(subscriptions, {i \in DOMAIN subscriptions : subscriptions[i].id # id})
    /\ recipients' = Rebuilt(subscriptions')
    /\ UNCHANGED seen

\* get_subscribed_recipients, called by the delivery of a publish
Lookup(topic) ==
    /\ seen' = seen \cup {topic}
    /\ recipients' = IF topic \in seen THEN recipients
                     ELSE [recipients EXCEPT ![topic] = @ \o Matching(subscriptions, topic)]
    /\ UNCHANGED subscriptions
-----------------------------------------------------------------------------
(* The cache never goes stale: a publish to a topic seen before reaches    *)
(* exactly whom the present table names, in table order, whatever was      *)
(* added or removed since, and nothing is kept for a topic not yet seen.   *)
CacheIsCurrent ==
    \A topic \in Topic :
        recipients[topic] = IF topic \in seen THEN Matching(subscriptions, topic) ELSE <<>>

(* A publish is delivered to every recipient agent only once.              *)
DeliveredOnce ==
    \A topic \in seen : \A i, j \in DOMAIN recipients[topic] :
        i # j => recipients[topic][i] # recipients[topic][j]
=============================================================================
