SPECIFICATION Spec
CONSTANTS
    ask = ask
    nested = nested
    event = event
    echo = echo
    a = a
    b = b
    Msg <- Mixed
    Agent = {a, b}
    KindOf <- Kinds
    To <- Targets
    ParentOf <- Parents
    NoMsg = NoMsg
    NoAgent = NoAgent
    Outcomes <- AnyEnd
    Verdicts = {"pass", "drop", "raise"}
    CanCancel = TRUE
    IgnoreErrors = FALSE
    Stops = {"stop", "when", "idle"}
    Quiet = FALSE
    MaxStarts = 1
INVARIANTS WaitingIsOwed UnfinishedLedger
PROPERTIES StopEnds
CHECK_DEADLOCK FALSE
