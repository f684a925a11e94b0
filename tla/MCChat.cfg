SPECIFICATION Spec
CONSTANTS
    a = a
    b = b
    Roster <- TwoMembers
    Manager = manager
    NoOne = NoOne
    Styles = {"round_robin", "swarm", "selector", "parallel"}
    FaultyStyles = {"round_robin"}
    MaxTurns <- TwoTurns
    Handoffs <- Outside
    MaxRuns = 2
    MaxLoads = 1
CHECK_DEADLOCK FALSE
INVARIANTS RespondersAreActive EveryoneHears TurnsInOrder
PROPERTIES ResultIsThread RunEnds
