--------------------------- MODULE AgentInstances ---------------------------
(***************************************************************************)
(* The agent table of SingleThreadedAgentRuntime: lazy creation by         *)
(* _get_agent, registered instances, and save_state()/close(), which walk  *)
(* the table with awaits between its entries.                              *)
(*                                                                         *)
(* Callers are the coroutines that look agents up; each has a list of ids  *)
(* to go.  Between a look-up and the store of a new instance lies the      *)
(* await of the factory, which suspends only if it really is asynchronous. *)
(***************************************************************************)
EXTENDS Naturals, Sequences, FiniteSets

CONSTANTS
    Caller,
    AgentId,
    Factory,      \* the ids whose type has a factory; the others take instances
    Suspends,     \* the ids whose factory suspends
    MaxInstances  \* bound on the instances ever made

ASSUME InstancesAssumption ==
    /\ Factory \subseteq AgentId
    /\ Suspends \subseteq Factory
    /\ MaxInstances \in Nat /\ IsFiniteSet(Caller)

VARIABLES
    table,    \* _instantiated_agents: id -> instance number, 0 when absent
    made,     \* instances made so far
    todo,     \* the ids each caller still has to look up
    building, \* the callers that await the factory of the first of theirs
    used,     \* id -> the instances handed to callers
    walk      \* a walk over the table: its ids still to visit and its size

instanceVars == <<table, made, todo, building, used, walk>>

Present == {id \in AgentId : table[id] # 0}

NoWalk == [on |-> FALSE, todo |-> {}, size |-> 0, visited |-> {}, ended |-> "none"]

InstancesInit ==
    /\ table = [id \in AgentId |-> 0]
    /\ made = 0
    /\ todo = [c \in Caller |-> <<>>]
    /\ building = {}
    /\ used = [id \in AgentId |-> {}]
    /\ walk = NoWalk
-----------------------------------------------------------------------------
Store(id) ==
    /\ made < MaxInstances
    /\ made' = made + 1
    /\ table' = [table EXCEPT ![id] = made']
    /\ used' = [used EXCEPT ![id] = @ \cup {made'}]

Looks(c, id) == todo[c] # <<>> /\ Head(todo[c]) = id /\ c \notin building
Found(c) == todo' = [todo EXCEPT ![c] = Tail(@)]

\* a failed look-up fails the delivery: nobody on its list is called
Raise(c) == todo' = [todo EXCEPT ![c] = <<>>]

GetCached(c, id) ==
    /\ Looks(c, id) /\ id \in Present
    /\ used' = [used EXCEPT ![id] = @ \cup {table[id]}]
    /\ Found(c)
    /\ UNCHANGED <<table, made, building, walk>>

\* mutation: an agent whose factory suspends is built for every look-up
GetMissingAlways(c, id) ==
    /\ Looks(c, id) /\ id \in Factory \ (Present \ Suspends)
    /\ IF id \in Suspends
       THEN building' = building \cup {c} /\ UNCHANGED <<table, made, used, todo>>
       ELSE Store(id) /\ Found(c) /\ UNCHANGED building
    /\ UNCHANGED walk

\* _get_agent finds nothing and calls the factory
GetMissing(c, id) ==
    /\ Looks(c, id) /\ id \in Factory \ Present
    /\ IF id \in Suspends
       THEN building' = building \cup {c} /\ UNCHANGED <<table, made, used, todo>>
       ELSE Store(id) /\ Found(c) /\ UNCHANGED building
    /\ UNCHANGED walk

\* LookupError: no instance and no factory
GetUnknown(c, id) ==
    /\ Looks(c, id) /\ id \notin Factory \cup Present
    /\ Raise(c)
    /\ UNCHANGED <<table, made, building, used, walk>>

\* the factory returned: store without looking again
FactoryReturns(c) ==
    /\ c \in building
    /\ Store(Head(todo[c]))
    /\ Found(c)
    /\ building' = building \ {c}
    /\ UNCHANGED walk

FactoryFails(c) ==
    /\ c \in building
    /\ Raise(c)
    /\ building' = building \ {c}
    /\ UNCHANGED <<table, made, used, walk>>

\* register_agent_instance: refused for an id in use or a type with a factory
RegisterInstance(id) ==
    /\ id \notin Present
    /\ id \notin Factory
    /\ Store(id)
    /\ UNCHANGED <<todo, building, walk>>
-----------------------------------------------------------------------------
(* save_state() and close(): a dict iteration, which raises RuntimeError   *)
(* at its next step if the dict changed size meanwhile.                    *)

WalkStart ==
    /\ ~walk.on
    /\ walk' = [on |-> TRUE, todo |-> Present, size |-> Cardinality(Present),
                visited |-> {}, ended |-> "none"]
    /\ UNCHANGED <<table, made, todo, building, used>>

WalkStep ==
    /\ walk.on
    /\ Cardinality(Present) = walk.size
    /\ \E id \in walk.todo :
          walk' = [walk EXCEPT !.todo = @ \ {id}, !.visited = @ \cup {id}]
    /\ UNCHANGED <<table, made, todo, building, used>>

\* mutation: the iteration does not notice new entries at its end
WalkEndUnnoticed ==
    /\ walk.on /\ walk.todo = {}
    /\ walk' = [NoWalk EXCEPT !.ended = "complete"]
    /\ UNCHANGED <<table, made, todo, building, used>>

WalkEnd ==
    /\ walk.on
    /\ \/ /\ Cardinality(Present) # walk.size
          /\ walk' = [NoWalk EXCEPT !.ended = "error"]
       \/ /\ Cardinality(Present) = walk.size
          /\ walk.todo = {}
          /\ walk' = [NoWalk EXCEPT !.ended = "complete"]
    /\ UNCHANGED <<table, made, todo, building, used>>

LookupStep(c) ==
    \/ \E id \in AgentId : GetCached(c, id) \/ GetMissing(c, id) \/ GetUnknown(c, id)
    \/ FactoryReturns(c)
    \/ FactoryFails(c)

WalkNext == WalkStart \/ WalkStep \/ WalkEnd
-----------------------------------------------------------------------------
(* An agent id names one instance: all callers ever served an id got the   *)
(* same agent.                                                             *)
OneInstancePerId == \A id \in AgentId : Cardinality(used[id]) <= 1

\* the callers that await the factory of id
Builders(id) == {c \in building : Head(todo[c]) = id}

(* When it does not, it is the doing of the look-ups that were under way   *)
(* before the first instance was stored: each of them may replace the      *)
(* agent once, with what its factory returned, and whoever comes later is  *)
(* given the one in the table.  An id whose factory does not suspend, or   *)
(* that was registered, has one instance for good.                         *)
OnlyRacersReplace ==
    \A id \in AgentId :
        Cardinality(used[id]) + Cardinality(Builders(id))
            <= IF id \in Suspends THEN Cardinality(Caller) ELSE 1

(* A save_state() or close() that ends without an error has visited every  *)
(* agent there was when it ended, however creations interleaved with it.   *)
WalkIsComplete ==
    [][(walk.on /\ walk'.ended = "complete") => walk.visited = Present]_instanceVars
=============================================================================
