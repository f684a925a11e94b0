--------------------------- MODULE DeliveryProofs ---------------------------
(***************************************************************************)
(* The tables of the in-process runtime for any callers, agents, topics    *)
(* and subscriptions: the recipients are those of the present table, only  *)
(* the look-ups that raced for the first instance of an agent replace it,  *)
(* and a walk over the agents that ends well has missed none.              *)
(***************************************************************************)
EXTENDS Delivery, FiniteSetTheorems, SequenceTheorems, WellFoundedInduction, TLAPS

-----------------------------------------------------------------------------
(* Lists and filters.                                                      *)

(* A non-empty set of naturals has a least element.                        *)
LEMMA LeastIndex ==
    ASSUME NEW S \in SUBSET Nat, S # {}
    PROVE  \E x \in S : \A y \in S : x <= y
<1> DEFINE R == {ss \in Nat \X Nat : ss[1] < ss[2]}
<1>1. IsWellFoundedOn(R, Nat)
    BY NatLessThanWellFounded DEF OpToRel
<1>2. \A x, y \in Nat : <<y, x>> \notin R => x <= y
    OBVIOUS
<1> HIDE DEF R
<1>3. \E x \in S : \A y \in S : ~ (<<y, x>> \in R)
    BY <1>1, WFMin
<1>4. QED
    BY <1>2, <1>3

(* The indices a filter keeps can be counted off: for each number up to    *)
(* their count there is one with that many kept indices up to it.          *)
LEMMA NthExists ==
    ASSUME NEW m \in Nat, NEW kept \in SUBSET (1..m), NEW n \in 1..Cardinality(kept)
    PROVE  \E i \in kept : Cardinality({j \in kept : j <= i}) = n
<1> DEFINE UpTo(i) == {j \in kept : j <= i}
           Rank(i) == Cardinality(UpTo(i))
           Enough == {i \in Nat : Rank(i) >= n}
<1>1. IsFiniteSet(kept) /\ Cardinality(kept) \in Nat
    <2>1. IsFiniteSet(1..m)
        BY FS_Interval
    <2>2. QED
        BY <2>1, FS_Subset, FS_CardinalityType
<1>2. \A i \in Nat : IsFiniteSet(UpTo(i)) /\ Rank(i) \in Nat
    BY <1>1, FS_Subset, FS_CardinalityType
<1>3. \A j \in kept : j \in Nat /\ j <= m /\ ~(j <= 0)
    OBVIOUS
<1>4. Rank(0) = 0 /\ Rank(m) = Cardinality(kept)
    <2>1. UpTo(0) = {} /\ UpTo(m) = kept
        BY <1>3
    <2>2. QED
        BY <2>1, FS_EmptySet
<1>5. \A i \in Nat : i # 0 => Rank(i) = IF i \in kept THEN Rank(i - 1) + 1 ELSE Rank(i - 1)
    <2>1. SUFFICES ASSUME NEW i \in Nat, i # 0
                   PROVE  Rank(i) = IF i \in kept THEN Rank(i - 1) + 1 ELSE Rank(i - 1)
        OBVIOUS
    <2>2. i - 1 \in Nat /\ ~(i <= i - 1) /\ \A j \in Nat : j <= i <=> (j <= i - 1 \/ j = i)
        BY <2>1
    <2>3. UpTo(i) = IF i \in kept THEN UpTo(i - 1) \cup {i} ELSE UpTo(i - 1)
        BY <1>3, <2>1, <2>2
    <2>4. i \notin UpTo(i - 1) /\ IsFiniteSet(UpTo(i - 1))
        BY <1>2, <2>2
    <2> HIDE DEF UpTo
    <2>5. QED
        BY <2>3, <2>4, FS_AddElement
<1> HIDE DEF Rank
<1>6. 0 \notin Enough /\ m \in Enough
    BY <1>1, <1>4
<1>7. PICK i \in Enough : \A k \in Enough : i <= k
    BY <1>6, LeastIndex
<1>8. i \in Nat /\ i # 0 /\ i - 1 \in Nat /\ Rank(i) >= n
    BY <1>6
<1>9. ~(Rank(i - 1) >= n)
    BY <1>7, <1>8
<1> HIDE DEF UpTo, Enough
<1>10. i \in kept /\ Rank(i) = n
    <2>1. Rank(i) \in Nat /\ Rank(i - 1) \in Nat /\ n \in Nat
        BY <1>1, <1>2, <1>8
    <2>2. Rank(i) = IF i \in kept THEN Rank(i - 1) + 1 ELSE Rank(i - 1)
        BY <1>5, <1>8
    <2>3. QED
        BY <1>8, <1>9, <2>1, <2>2
<1>11. QED
    BY <1>10 DEF Rank, UpTo

(* A filter of a list is a list of elements of it.                         *)
LEMMA FilterIsList ==
    ASSUME NEW S, NEW list \in Seq(S), NEW kept \in SUBSET DOMAIN list
    PROVE  Subs!Filtered(list, kept) \in Seq(S)
<1> DEFINE Nth(n) == CHOOSE i \in kept : Cardinality({j \in kept : j <= i}) = n
<1>1. Len(list) \in Nat /\ DOMAIN list = 1..Len(list) /\ \A i \in DOMAIN list : list[i] \in S
    BY LenProperties
<1>2. IsFiniteSet(kept)
    <2>1. IsFiniteSet(1..Len(list)) /\ kept \in SUBSET (1..Len(list))
        BY <1>1, FS_Interval
    <2>2. QED
        BY <2>1, FS_Subset
<1>3. Cardinality(kept) \in Nat
    BY <1>2, FS_CardinalityType
<1>4. \A n \in 1..Cardinality(kept) : Nth(n) \in kept
    BY <1>1, NthExists
<1>5. Subs!Filtered(list, kept) = [n \in 1..Cardinality(kept) |-> list[Nth(n)]]
    BY DEF Subs!Filtered, Subs!Cardinality, Cardinality
<1> HIDE DEF Nth
<1>6. [n \in 1..Cardinality(kept) |-> list[Nth(n)]] \in Seq(S)
    BY <1>1, <1>3, <1>4
<1>8. QED
    BY <1>5, <1>6

(* What the table sends to a topic is a list.                              *)
LEMMA MatchingIsList ==
    ASSUME NEW subs \in Seq(Offered), NEW topic
    PROVE  \E S : Subs!Matching(subs, topic) \in Seq(S)
<1> DEFINE kept == {i \in DOMAIN subs : Subs!IsMatch(subs[i], topic)}
           found == Subs!Filtered(subs, kept)
           all == {Subs!MapToAgent(sub, topic) : sub \in Offered}
<1>1. found \in Seq(Offered)
    BY FilterIsList
<1>2. Subs!Matching(subs, topic) = [n \in DOMAIN found |-> Subs!MapToAgent(found[n], topic)]
    BY DEF Subs!Matching
<1>3. Len(found) \in Nat /\ DOMAIN found = 1..Len(found) /\ \A n \in DOMAIN found : found[n] \in Offered
    BY <1>1, LenProperties
<1> HIDE DEF found
<1>4. [n \in DOMAIN found |-> Subs!MapToAgent(found[n], topic)] \in Seq(all)
    BY <1>3
<1>5. QED
    BY <1>2, <1>4

(* An empty list, extended, is the list it is extended by.                 *)
LEMMA EmptyExtended ==
    ASSUME NEW S, NEW list \in Seq(S)
    PROVE  <<>> \o list = list
OBVIOUS
-----------------------------------------------------------------------------
(* The subscriptions.                                                      *)

TableTypes ==
    /\ subscriptions \in Seq(Offered)
    /\ seen \subseteq Topic
    /\ DOMAIN recipients = Topic

TableInv == TableTypes /\ CacheIsCurrent

(* _rebuild_subscriptions makes the cache current for whatever table.      *)
LEMMA RebuiltIsCurrent ==
    ASSUME TableTypes, subscriptions' \in Seq(Offered), seen' = seen,
           recipients' = Subs!Rebuilt(subscriptions')
    PROVE  TableInv'
<1>1. \A topic \in Topic : <<>> \o Subs!Matching(subscriptions', topic) = Subs!Matching(subscriptions', topic)
    BY MatchingIsList, EmptyExtended
<1>2. DOMAIN recipients' = Topic
    BY DEF Subs!Rebuilt
<1>3. \A topic \in Topic :
        recipients'[topic] = IF topic \in seen' THEN Subs!Matching(subscriptions', topic) ELSE <<>>
    BY <1>1 DEF Subs!Rebuilt
<1>4. QED
    BY <1>2, <1>3 DEF TableInv, TableTypes, CacheIsCurrent, Subs!CacheIsCurrent

(* add_subscription and remove_subscription rebuild the cache.             *)
LEMMA TableStepKeeps ==
    ASSUME TableInv, TableStep
    PROVE  TableInv'
<1> USE DEF TableInv
<1>1. ASSUME NEW sub \in Offered, Subs!AddSubscription(sub)
      PROVE  TableInv'
    <2>1. subscriptions' \in Seq(Offered)
        BY <1>1 DEF Subs!AddSubscription, TableTypes
    <2>2. QED
        BY <1>1, <2>1, RebuiltIsCurrent DEF Subs!AddSubscription
<1>2. ASSUME NEW sub \in Offered, Subs!RemoveSubscription(sub.id)
      PROVE  TableInv'
    <2> DEFINE kept == {i \in DOMAIN subscriptions : subscriptions[i].id # sub.id}
    <2>1. subscriptions' = Subs!Filtered(subscriptions, kept)
        BY <1>2 DEF Subs!RemoveSubscription
    <2>2. subscriptions' \in Seq(Offered)
        BY <2>1, FilterIsList DEF TableTypes
    <2>3. QED
        BY <1>2, <2>2, RebuiltIsCurrent DEF Subs!RemoveSubscription
<1>3. QED
    BY <1>1, <1>2 DEF TableStep

(* get_subscribed_recipients builds the list of a new topic only.          *)
LEMMA LookupKeeps ==
    ASSUME TableInv, NEW topic \in Topic, Subs!Lookup(topic)
    PROVE  TableInv'
<1> USE DEF TableInv
<1>1. seen' = seen \cup {topic} /\ subscriptions' = subscriptions
    BY DEF Subs!Lookup
<1>2. CASE topic \in seen
    BY <1>1, <1>2 DEF Subs!Lookup, TableTypes, CacheIsCurrent, Subs!CacheIsCurrent
<1>3. CASE topic \notin seen
    <2>1. recipients[topic] = <<>>
        BY <1>3 DEF CacheIsCurrent, Subs!CacheIsCurrent
    <2>2. <<>> \o Subs!Matching(subscriptions, topic) = Subs!Matching(subscriptions, topic)
        BY MatchingIsList, EmptyExtended DEF TableTypes
    <2>3. recipients' = [recipients EXCEPT ![topic] = Subs!Matching(subscriptions, topic)]
        BY <1>3, <2>1, <2>2 DEF Subs!Lookup
    <2>4. \A t \in Topic :
            recipients'[t] = IF t \in seen' THEN Subs!Matching(subscriptions, t) ELSE <<>>
        BY <1>1, <2>3 DEF TableTypes, CacheIsCurrent, Subs!CacheIsCurrent
    <2>5. TableTypes'
        BY <1>1, <2>3 DEF TableTypes
    <2>6. QED
        BY <1>1, <2>4, <2>5 DEF CacheIsCurrent, Subs!CacheIsCurrent
<1>4. QED
    BY <1>2, <1>3

(* A topic's cached recipients are always those the present table names.   *)
THEOREM RecipientsAreCurrent == Spec => []CacheIsCurrent
<1>1. Init => TableInv
    BY DEF Init, Subs!Init, TableInv, TableTypes, CacheIsCurrent, Subs!CacheIsCurrent
<1>2. TableInv /\ [Next]_vars => TableInv'
    <2>1. SUFFICES ASSUME TableInv, [Next]_vars PROVE TableInv'
        OBVIOUS
    <2>2. CASE UNCHANGED tableVars
        BY <2>1, <2>2 DEF tableVars, TableInv, TableTypes, CacheIsCurrent, Subs!CacheIsCurrent
    <2>3. ASSUME NEW c \in Caller, NEW topic \in Topic, ProcessPublish(c, topic)
          PROVE  TableInv'
        BY <2>1, <2>3, LookupKeeps DEF ProcessPublish
    <2>4. CASE TableStep
        BY <2>1, <2>4, TableStepKeeps
    <2>5. QED
        BY <2>1, <2>2, <2>3, <2>4 DEF Next, vars, ProcessSend, tableVars
<1>3. TableInv => CacheIsCurrent
    BY DEF TableInv
<1>4. QED
    BY <1>1, <1>2, <1>3, PTL DEF Spec
-----------------------------------------------------------------------------
(* The agents.                                                             *)

InstanceTypes ==
    /\ table \in [AgentId -> Nat]
    /\ made \in Nat
    /\ DOMAIN todo = Caller
    /\ building \subseteq Caller
    /\ used \in [AgentId -> SUBSET Nat] /\ \A id \in AgentId : IsFiniteSet(used[id])

\* who awaits a factory awaits one that suspends
BuildersWait == \A c \in building : todo[c] # <<>> /\ Head(todo[c]) \in Suspends

\* nobody was given an agent that is not there, somebody the one that is
StoredIsUsed == \A id \in AgentId : IF table[id] = 0 THEN used[id] = {} ELSE table[id] \in used[id]

\* the instances of an id and those being built
Claims(id) == Cardinality(used[id]) + Cardinality(Builders(id))
Allowed(id) == IF id \in Suspends THEN Cardinality(Caller) ELSE 1

InstanceInv == InstanceTypes /\ BuildersWait /\ StoredIsUsed /\ OnlyRacersReplace

(* Both are counts.                                                        *)
LEMMA ClaimTypes ==
    ASSUME InstanceTypes, NEW id \in AgentId
    PROVE  /\ IsFiniteSet(used[id]) /\ Cardinality(used[id]) \in Nat
           /\ IsFiniteSet(Builders(id)) /\ Cardinality(Builders(id)) \in Nat
           /\ Cardinality(Builders(id)) <= Cardinality(Caller) /\ Cardinality(Caller) \in Nat
<1>1. Builders(id) \subseteq Caller /\ IsFiniteSet(Caller)
    BY InstancesAssumption DEF Builders, InstanceTypes
<1>2. QED
    BY <1>1, FS_Subset, FS_CardinalityType DEF InstanceTypes

(* Nobody builds an agent whose factory does not suspend.                  *)
LEMMA PromptIsUnbuilt ==
    ASSUME BuildersWait, NEW id \in AgentId \ Suspends
    PROVE  Builders(id) = {} /\ Cardinality(Builders(id)) = 0
<1>1. Builders(id) = {}
    BY DEF Builders, BuildersWait
<1>2. QED
    BY <1>1, FS_EmptySet

(* The bound, after a step.                                                *)
LEMMA ClaimsNext ==
    /\ OnlyRacersReplace <=> \A id \in AgentId : Claims(id) <= Allowed(id)
    /\ OnlyRacersReplace' <=> \A id \in AgentId : Claims(id)' <= Allowed(id)
    /\ \A id \in AgentId : Claims(id)' = Cardinality(used'[id]) + Cardinality(Builders(id)')
BY DEF OnlyRacersReplace, Claims, Allowed, Builders

\* id is given a new instance, and so is the caller who waits for it
Stores(id) ==
    /\ table' = [table EXCEPT ![id] = made + 1] /\ made' = made + 1
    /\ used' = [used EXCEPT ![id] = @ \cup {made + 1}]

(* A new instance is one more in use, and it is the one in the table.      *)
LEMMA StoreCounts ==
    ASSUME InstanceTypes, StoredIsUsed, NEW id \in AgentId, Stores(id)
    PROVE  /\ table' \in [AgentId -> Nat] /\ made' \in Nat
           /\ used' \in [AgentId -> SUBSET Nat] /\ \A x \in AgentId : IsFiniteSet(used'[x])
           /\ StoredIsUsed'
           /\ \A x \in AgentId \ {id} : used'[x] = used[x]
           /\ Cardinality(used'[id]) \in Nat /\ Cardinality(used'[id]) <= Cardinality(used[id]) + 1
           /\ used[id] = {} => Cardinality(used'[id]) = 1
<1>1. made + 1 \in Nat /\ made + 1 # 0
    BY DEF InstanceTypes
<1>2. used'[id] = used[id] \cup {made + 1} /\ \A x \in AgentId \ {id} : used'[x] = used[x]
    BY DEF Stores, InstanceTypes
<1>3. table' \in [AgentId -> Nat] /\ made' \in Nat /\ used' \in [AgentId -> SUBSET Nat]
    BY <1>1 DEF InstanceTypes, Stores
<1>4. IsFiniteSet(used'[id]) /\ Cardinality(used'[id]) \in {Cardinality(used[id]), Cardinality(used[id]) + 1}
    <2>1. IsFiniteSet(used[id])
        BY ClaimTypes
    <2>2. /\ IsFiniteSet(used[id] \cup {made + 1})
          /\ Cardinality(used[id] \cup {made + 1}) \in {Cardinality(used[id]), Cardinality(used[id]) + 1}
        BY <2>1, FS_AddElement
    <2>3. QED
        BY ONLY <1>2, <2>2
<1>5. Cardinality(used[id]) \in Nat
    BY ClaimTypes
<1>6. used[id] = {} => Cardinality(used'[id]) = 1
    <2>1. Cardinality({made + 1}) = 1
        BY FS_Singleton
    <2>2. used[id] = {} => used'[id] = {made + 1}
        BY <1>2
    <2>3. QED
        BY ONLY <2>1, <2>2
<1>7. StoredIsUsed'
    BY <1>1, <1>2 DEF StoredIsUsed, Stores, InstanceTypes
<1>8. \A x \in AgentId : IsFiniteSet(used'[x])
    BY <1>2, <1>4 DEF InstanceTypes
<1>9. QED
    BY <1>2, <1>3, <1>4, <1>5, <1>6, <1>7, <1>8

(* A look-up keeps the invariant on each of its ways: found, made at once, *)
(* unknown, or made or failed while it was suspended.                      *)
LEMMA LookupStepKeeps ==
    ASSUME InstanceInv, NEW c \in Caller, LookupStep(c)
    PROVE  InstanceInv'
<1> USE DEF InstanceInv
<1>1. ASSUME NEW id \in AgentId, GetCached(c, id)
      PROVE  InstanceInv'
    <2>1. /\ table' = table /\ made' = made /\ building' = building /\ c \notin building
          /\ todo' = [todo EXCEPT ![c] = Tail(@)]
          /\ used' = [used EXCEPT ![id] = @ \cup {table[id]}] /\ table[id] # 0
        BY <1>1 DEF GetCached, Looks, Found, Present
    <2>2. used' = used
        BY <2>1 DEF InstanceTypes, StoredIsUsed
    <2>3. InstanceTypes' /\ StoredIsUsed' /\ BuildersWait'
        BY <2>1, <2>2 DEF InstanceTypes, StoredIsUsed, BuildersWait
    <2>4. \A x \in AgentId : Builders(x)' = Builders(x)
        BY <2>1 DEF Builders, InstanceTypes
    <2>5. OnlyRacersReplace'
        BY <2>2, <2>4, ClaimsNext DEF Claims
    <2>6. QED
        BY <2>3, <2>5
<1>2. ASSUME NEW id \in AgentId, GetMissing(c, id)
      PROVE  InstanceInv'
    <2>1. table[id] = 0 /\ used[id] = {} /\ c \notin building /\ todo[c] # <<>> /\ Head(todo[c]) = id
        BY <1>2 DEF GetMissing, Looks, Present, StoredIsUsed
    <2>2. CASE id \in Suspends
        <3>1. building' = building \cup {c} /\ UNCHANGED <<table, made, used, todo>>
            BY <1>2, <2>2 DEF GetMissing
        <3>2. InstanceTypes' /\ StoredIsUsed' /\ BuildersWait'
            BY <2>1, <2>2, <3>1 DEF InstanceTypes, StoredIsUsed, BuildersWait
        <3>3. \A x \in AgentId \ {id} : Builders(x)' = Builders(x)
            BY <2>1, <3>1 DEF Builders
        <3>4. Cardinality(used'[id]) = 0
            BY <2>1, <3>1, FS_EmptySet
        <3>5. Cardinality(Builders(id)') <= Cardinality(Caller) /\ Cardinality(Builders(id)') \in Nat
            <4>1. Builders(id)' \subseteq Caller
                BY <3>2 DEF Builders, InstanceTypes
            <4>2. QED
                BY <4>1, InstancesAssumption, FS_Subset, FS_CardinalityType
        <3>6. Claims(id)' <= Allowed(id)
            BY <2>2, <3>4, <3>5, ClaimsNext DEF Allowed
        <3>7. \A x \in AgentId \ {id} : Claims(x)' = Claims(x)
            BY <3>1, <3>3, ClaimsNext DEF Claims
        <3>8. OnlyRacersReplace'
            BY <3>6, <3>7, ClaimsNext
        <3>9. QED
            BY <3>2, <3>8
    <2>3. CASE id \notin Suspends
        <3>1. /\ Stores(id) /\ todo' = [todo EXCEPT ![c] = Tail(@)] /\ building' = building
            BY <1>2, <2>3 DEF GetMissing, Looks, Found, Store, Stores
        <3>2. BuildersWait'
            BY <2>1, <3>1 DEF InstanceTypes, BuildersWait
        <3>3. /\ InstanceTypes' /\ StoredIsUsed' /\ Cardinality(used'[id]) = 1
              /\ \A x \in AgentId \ {id} : used'[x] = used[x]
            BY <2>1, <3>1, StoreCounts DEF InstanceTypes
        <3>4. \A x \in AgentId : Builders(x)' = Builders(x)
            BY <2>1, <3>1 DEF Builders, InstanceTypes
        <3>5. Claims(id)' <= Allowed(id)
            BY <2>3, <3>3, <3>4, PromptIsUnbuilt, ClaimsNext DEF Allowed
        <3>6. \A x \in AgentId \ {id} : Claims(x)' = Claims(x)
            BY <3>3, <3>4, ClaimsNext DEF Claims
        <3>7. OnlyRacersReplace'
            BY <3>5, <3>6, ClaimsNext
        <3>8. QED
            BY <3>2, <3>3, <3>7
    <2>4. QED
        BY <2>2, <2>3
<1>3. ASSUME c \notin building, todo' = [todo EXCEPT ![c] = <<>>],
             UNCHANGED <<table, made, building, used>>
      PROVE  InstanceInv'
    <2>1. \A x \in AgentId : Builders(x)' = Builders(x)
        BY <1>3 DEF Builders, InstanceTypes
    <2>2. OnlyRacersReplace'
        BY <1>3, <2>1, ClaimsNext DEF Claims
    <2>3. QED
        BY <1>3, <2>2 DEF InstanceTypes, BuildersWait, StoredIsUsed
<1>4. ASSUME c \in building, NEW list, todo' = [todo EXCEPT ![c] = list], building' = building \ {c},
             NEW id, id = Head(todo[c])
      PROVE  /\ BuildersWait' /\ id \in Suspends /\ id \in AgentId
             /\ \A x \in AgentId \ {id} : Builders(x)' = Builders(x)
             /\ Cardinality(Builders(id)') = Cardinality(Builders(id)) - 1
    <2>1. id \in Suspends /\ id \in AgentId /\ c \in Builders(id)
        BY <1>4, InstancesAssumption DEF BuildersWait, Builders
    <2>2. \A d \in Caller : d # c => todo'[d] = todo[d]
        BY <1>4 DEF InstanceTypes
    <2>3. building \subseteq Caller
        BY DEF InstanceTypes
    <2>4. BuildersWait'
        BY <1>4, <2>2, <2>3 DEF BuildersWait
    <2>5. Builders(id)' = Builders(id) \ {c}
        BY <1>4, <2>2, <2>3 DEF Builders
    <2>6. \A x \in AgentId \ {id} : Builders(x)' = Builders(x)
        BY <1>4, <2>2, <2>3 DEF Builders
    <2>7. Cardinality(Builders(id) \ {c}) = Cardinality(Builders(id)) - 1
        BY <2>1, ClaimTypes, FS_RemoveElement
    <2>8. QED
        BY <2>1, <2>4, <2>5, <2>6, <2>7
<1>5. CASE FactoryReturns(c)
    <2>0. PICK id : id = Head(todo[c])
        OBVIOUS
    <2>1. /\ c \in building /\ Stores(id) /\ todo' = [todo EXCEPT ![c] = Tail(@)] /\ building' = building \ {c}
        BY <1>5, <2>0 DEF FactoryReturns, Store, Stores, Found
    <2>2. /\ BuildersWait' /\ id \in Suspends /\ id \in AgentId
          /\ \A x \in AgentId \ {id} : Builders(x)' = Builders(x)
          /\ Cardinality(Builders(id)') = Cardinality(Builders(id)) - 1
        BY <1>4, <2>0, <2>1
    <2>3. /\ InstanceTypes' /\ StoredIsUsed' /\ \A x \in AgentId \ {id} : used'[x] = used[x]
          /\ Cardinality(used'[id]) \in Nat /\ Cardinality(used'[id]) <= Cardinality(used[id]) + 1
        BY <2>1, <2>2, StoreCounts DEF InstanceTypes
    <2>4. Claims(id)' <= Allowed(id)
        <3>1. Claims(id) <= Allowed(id) /\ Allowed(id) \in Nat
            BY <2>2, ClaimsNext, ClaimTypes DEF Allowed
        <3>2. Cardinality(used[id]) \in Nat /\ Cardinality(Builders(id)) \in Nat
            BY <2>2, ClaimTypes
        <3>3. QED
            BY <2>2, <2>3, <3>1, <3>2, ClaimsNext DEF Claims
    <2>5. \A x \in AgentId \ {id} : Claims(x)' = Claims(x)
        BY <2>2, <2>3, ClaimsNext DEF Claims
    <2>6. OnlyRacersReplace'
        BY <2>4, <2>5, ClaimsNext
    <2>7. QED
        BY <2>2, <2>3, <2>6
<1>6. CASE FactoryFails(c)
    <2>0. PICK id : id = Head(todo[c])
        OBVIOUS
    <2>1. /\ c \in building /\ todo' = [todo EXCEPT ![c] = <<>>] /\ building' = building \ {c}
          /\ UNCHANGED <<table, made, used>>
        BY <1>6 DEF FactoryFails, Raise
    <2>2. /\ BuildersWait' /\ id \in Suspends /\ id \in AgentId
          /\ \A x \in AgentId \ {id} : Builders(x)' = Builders(x)
          /\ Cardinality(Builders(id)') = Cardinality(Builders(id)) - 1
        BY <1>4, <2>0, <2>1
    <2>3. Claims(id)' <= Allowed(id)
        <3>1. Claims(id) <= Allowed(id) /\ Allowed(id) \in Nat
            BY <2>2, ClaimsNext, ClaimTypes DEF Allowed
        <3>2. Cardinality(used[id]) \in Nat /\ Cardinality(Builders(id)) \in Nat
            BY <2>2, ClaimTypes
        <3>3. QED
            BY <2>1, <2>2, <3>1, <3>2, ClaimsNext DEF Claims
    <2>4. \A x \in AgentId \ {id} : Claims(x)' = Claims(x)
        BY <2>1, <2>2, ClaimsNext DEF Claims
    <2>5. OnlyRacersReplace'
        BY <2>3, <2>4, ClaimsNext
    <2>6. QED
        BY <2>1, <2>2, <2>5 DEF InstanceTypes, StoredIsUsed
<1>7. QED
    BY <1>1, <1>2, <1>3, <1>5, <1>6 DEF LookupStep, GetUnknown, Looks, Raise

(* The rest of the steps on agents.                                        *)
LEMMA InstanceStepKeeps ==
    ASSUME InstanceInv, [Next]_vars
    PROVE  InstanceInv'
<1> USE DEF InstanceInv
<1>1. ASSUME UNCHANGED <<table, made, todo, building, used>>
      PROVE  InstanceInv'
    BY <1>1 DEF InstanceTypes, BuildersWait, StoredIsUsed, OnlyRacersReplace, Builders
<1>2. ASSUME NEW c \in Caller, NEW list, Idle(c), todo' = [todo EXCEPT ![c] = list],
             UNCHANGED <<table, made, building, used>>
      PROVE  InstanceInv'
    <2>1. c \notin building
        BY <1>2 DEF Idle, BuildersWait
    <2>2. \A x \in AgentId : Builders(x)' = Builders(x)
        BY <1>2, <2>1 DEF InstanceTypes, Builders
    <2>3. OnlyRacersReplace'
        BY <1>2, <2>2, ClaimsNext DEF Claims
    <2>4. QED
        BY <1>2, <2>1, <2>3 DEF InstanceTypes, BuildersWait, StoredIsUsed
<1>3. ASSUME NEW c \in Caller, NEW topic \in Topic, ProcessPublish(c, topic)
      PROVE  InstanceInv'
    BY <1>2, <1>3 DEF ProcessPublish
<1>4. ASSUME NEW c \in Caller, NEW id \in AgentId, ProcessSend(c, id)
      PROVE  InstanceInv'
    BY <1>2, <1>4 DEF ProcessSend
<1>5. ASSUME NEW id \in AgentId, RegisterInstance(id)
      PROVE  InstanceInv'
    <2>1. /\ Stores(id) /\ table[id] = 0 /\ todo' = todo /\ building' = building
          /\ id \in AgentId \ Suspends
        BY <1>5, InstancesAssumption DEF RegisterInstance, Store, Stores, Present
    <2>2. /\ InstanceTypes' /\ StoredIsUsed' /\ BuildersWait' /\ Cardinality(used'[id]) = 1
          /\ \A x \in AgentId \ {id} : used'[x] = used[x]
        BY <2>1, StoreCounts DEF InstanceTypes, BuildersWait, StoredIsUsed
    <2>3. \A x \in AgentId : Builders(x)' = Builders(x)
        BY <2>1 DEF Builders
    <2>4. Claims(id)' <= Allowed(id)
        BY <2>1, <2>2, <2>3, PromptIsUnbuilt, ClaimsNext DEF Allowed
    <2>5. \A x \in AgentId \ {id} : Claims(x)' = Claims(x)
        BY <2>2, <2>3, ClaimsNext DEF Claims
    <2>6. OnlyRacersReplace'
        BY <2>4, <2>5, ClaimsNext
    <2>7. QED
        BY <2>2, <2>6
<1>6. CASE WalkNext
    BY <1>1, <1>6 DEF WalkNext, WalkStart, WalkStep, WalkEnd
<1>7. CASE UNCHANGED instanceVars
    BY <1>1, <1>7 DEF instanceVars
<1>8. QED
    BY <1>3, <1>4, <1>5, <1>6, <1>7, LookupStepKeeps DEF Next, InstanceStep, vars

(* The inductive invariant of the agent table.                             *)
LEMMA InstanceInvariant == Spec => []InstanceInv
<1>1. Init => InstanceInv
    <2>1. SUFFICES ASSUME Init PROVE InstanceInv
        OBVIOUS
    <2>2. InstanceTypes /\ BuildersWait /\ StoredIsUsed
        BY <2>1, FS_EmptySet DEF Init, InstancesInit, InstanceTypes, BuildersWait, StoredIsUsed
    <2>3. ASSUME NEW id \in AgentId PROVE Claims(id) <= Allowed(id)
        <3>1. used[id] = {} /\ Builders(id) = {}
            BY <2>1 DEF Init, InstancesInit, Builders
        <3>2. QED
            BY <2>2, <3>1, ClaimTypes, FS_EmptySet DEF Claims, Allowed
    <2>4. QED
        BY <2>2, <2>3, ClaimsNext DEF InstanceInv
<1>2. InstanceInv /\ [Next]_vars => InstanceInv'
    BY InstanceStepKeeps
<1>3. QED
    BY <1>1, <1>2, PTL DEF Spec

(* Only the look-ups that were under way before the first instance of an   *)
(* agent was stored can replace it, each of them once: _get_agent looks    *)
(* before it calls the factory, if not again before it stores, and         *)
(* register_agent_instance refuses an id in use.                           *)
THEOREM RacersAreBounded == Spec => []OnlyRacersReplace
<1>1. InstanceInv => OnlyRacersReplace
    BY DEF InstanceInv
<1>2. QED
    BY <1>1, InstanceInvariant, PTL
-----------------------------------------------------------------------------
(* The walks of save_state() and close().                                  *)

Walks == [on : BOOLEAN, todo : SUBSET AgentId, size : Nat, visited : SUBSET AgentId,
          ended : {"none", "error", "complete"}]

\* a walk under way has visited, or will, as many agents as it began with,
\* and they are all still in the table, which only grows
WalkTracks ==
    /\ walk \in Walks
    /\ IsFiniteSet(Present)
    /\ walk.on => /\ walk.ended = "none"
                  /\ walk.visited \cup walk.todo \subseteq Present
                  /\ Cardinality(walk.visited \cup walk.todo) = walk.size

\* a step on the agents that no walk sees: at most one more entry
Grows ==
    /\ walk' = walk
    /\ Present' = Present \/ \E id \in AgentId : Present' = Present \cup {id}

(* A table that grows keeps the walk on track.                             *)
LEMMA GrowthKeepsTrack ==
    ASSUME WalkTracks, Grows
    PROVE  WalkTracks'
<1>1. IsFiniteSet(Present') /\ Present \subseteq Present'
    BY FS_AddElement DEF WalkTracks, Grows
<1>2. QED
    BY <1>1 DEF WalkTracks, Grows

(* Every step that is not a walk's is one under which the table grows.     *)
LEMMA OthersGrow ==
    ASSUME InstanceInv, [Next]_vars, ~WalkNext
    PROVE  Grows
<1> USE DEF InstanceInv, InstanceTypes
<1>1. ASSUME NEW id \in AgentId, Store(id)
      PROVE  Present' = Present \cup {id}
    BY <1>1 DEF Store, Present
<1>2. ASSUME table' = table
      PROVE  Present' = Present
    BY <1>2 DEF Present
<1>3. ASSUME NEW c \in Caller, LookupStep(c)
      PROVE  Grows
    <2>1. CASE FactoryReturns(c)
        <3>1. Head(todo[c]) \in AgentId
            BY <2>1, InstancesAssumption DEF FactoryReturns, BuildersWait
        <3>2. QED
            BY <1>1, <2>1, <3>1 DEF FactoryReturns, Grows
    <2>2. CASE ~FactoryReturns(c)
        BY <1>1, <1>2, <1>3, <2>2
           DEF LookupStep, GetCached, GetMissing, GetUnknown, FactoryFails, Grows
    <2>3. QED
        BY <2>1, <2>2
<1>4. ASSUME NEW id \in AgentId, RegisterInstance(id)
      PROVE  Grows
    BY <1>1, <1>4 DEF RegisterInstance, Grows
<1>5. CASE UNCHANGED <<table, walk>>
    BY <1>2, <1>5 DEF Grows
<1>6. QED
    BY <1>3, <1>4, <1>5 DEF Next, InstanceStep, ProcessPublish, ProcessSend, vars, instanceVars

(* A walk keeps its own track.                                             *)
LEMMA WalkKeepsTrack ==
    ASSUME WalkTracks, WalkNext
    PROVE  WalkTracks'
<1>1. Present' = Present
    BY DEF WalkNext, WalkStart, WalkStep, WalkEnd, Present
<1>2. CASE WalkStart
    <2>1. Cardinality(Present) \in Nat /\ Present \subseteq AgentId
        BY FS_CardinalityType DEF WalkTracks, Present
    <2>2. QED
        BY <1>1, <1>2, <2>1 DEF WalkStart, WalkTracks, Walks
<1>3. CASE WalkStep
    <2>1. PICK id \in walk.todo :
            walk' = [walk EXCEPT !.todo = @ \ {id}, !.visited = @ \cup {id}]
        BY <1>3 DEF WalkStep
    <2>2. QED
        BY <1>1, <1>3, <2>1 DEF WalkStep, WalkTracks, Walks
<1>4. CASE WalkEnd
    <2>1. PICK e \in {"error", "complete"} : walk' = [NoWalk EXCEPT !.ended = e]
        BY <1>4 DEF WalkEnd
    <2>2. walk' = [on |-> FALSE, todo |-> {}, size |-> 0, visited |-> {}, ended |-> e]
        BY <2>1 DEF NoWalk
    <2>3. walk' \in Walks /\ ~walk'.on
        BY <2>2 DEF Walks
    <2>4. QED
        BY <1>1, <2>3 DEF WalkTracks
<1>5. QED
    BY <1>2, <1>3, <1>4 DEF WalkNext

(* A save_state() or close() that ends without an error has visited every  *)
(* agent there was when it ended: as entries are never removed, a table    *)
(* of the same size is the table the walk began with.                      *)
THEOREM WalkMissesNone == Spec => WalkIsComplete
<1> DEFINE Complete == (walk.on /\ walk'.ended = "complete") => walk.visited = Present
<1>1. Init => WalkTracks
    <2>1. ASSUME Init PROVE Present = {} /\ walk = NoWalk
        BY <2>1 DEF Init, InstancesInit, Present
    <2>2. NoWalk \in Walks /\ ~NoWalk.on
        BY DEF Walks, NoWalk
    <2>3. QED
        BY <2>1, <2>2, FS_EmptySet DEF WalkTracks
<1>2. InstanceInv /\ WalkTracks /\ [Next]_vars => WalkTracks'
    BY OthersGrow, GrowthKeepsTrack, WalkKeepsTrack
<1>3. InstanceInv /\ WalkTracks /\ [Next]_vars => [Complete]_instanceVars
    <2>1. SUFFICES ASSUME InstanceInv, WalkTracks, [Next]_vars, walk.on, walk'.ended = "complete"
                   PROVE  walk.visited = Present
        OBVIOUS
    <2>2. WalkNext
        BY <2>1, OthersGrow DEF Grows, WalkTracks
    <2>3. Cardinality(Present) = walk.size /\ walk.todo = {}
        BY <2>1, <2>2 DEF WalkNext, WalkStart, WalkStep, WalkEnd, NoWalk, WalkTracks, Walks
    <2>4. walk.visited \in SUBSET Present /\ Cardinality(walk.visited) = Cardinality(Present)
        BY <2>1, <2>3 DEF WalkTracks
    <2>5. QED
        BY <2>1, <2>4, FS_Subset DEF WalkTracks
<1>4. QED
    BY <1>1, <1>2, <1>3, InstanceInvariant, PTL DEF Spec, WalkIsComplete
=============================================================================
