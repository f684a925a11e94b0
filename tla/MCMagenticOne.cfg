SPECIFICATION Spec
CONSTANTS
    a = a
    b = b
    Roster <- MCRoster
    MaxTurns = 2
    MaxStalls = 2
    MaxRuns = 2
INVARIANTS ThreadIsShared
PROPERTIES RunEnds
CHECK_DEADLOCK FALSE
