SPECIFICATION Spec
CONSTANTS
    ask = ask
    nested = nested
    event = event
    echo = echo
    a = a
    b = b
    Msg <- Requests
    Agent = {a, b}
    KindOf <- Kinds
    To <- Targets
    ParentOf <- Parents
    NoMsg = NoMsg
    NoAgent = NoAgent
    Outcomes <- AlwaysReturn
    Verdicts = {"pass", "drop"}
    CanCancel = FALSE
    IgnoreErrors = TRUE
    Stops = {"idle"}
    Quiet = TRUE
    MaxStarts = 1
PROPERTIES IdleStopReturns
CHECK_DEADLOCK FALSE
