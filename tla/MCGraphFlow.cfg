SPECIFICATION Spec
CONSTANTS
    Root = "or"
    Parts <- StopTree
    Ands = {"and"}
    Limit <- StopLimits
    External = {"outside"}
    Agents = {"A", "B", "C", "D", "E"}
    Edges <- LoopEdges
    Starts <- LoopStarts
    Says <- LoopSays
    MaxTurns = 4
    MaxRuns = 3
    SaveMidway = FALSE
INVARIANTS ReadyIsDue VerdictJustified
PROPERTIES RunEnds
CHECK_DEADLOCK FALSE
