SPECIFICATION Spec
CONSTANTS
    ask = ask
    nested = nested
    event = event
    echo = echo
    a = a
    b = b
    Msg <- Everything
    Agent = {a, b}
    KindOf <- Kinds
    To <- Targets
    ParentOf <- Parents
    NoMsg = NoMsg
    NoAgent = NoAgent
    Outcomes <- SendsFail
    Verdicts = {}
    CanCancel = FALSE
    IgnoreErrors = TRUE
    Stops = {"idle"}
    Quiet = TRUE
    MaxStarts = 2
INVARIANTS UnfinishedLedger
PROPERTIES IdleStopIsIdle SenderAnswered IdleStopReturns PublishReachesAll
CHECK_DEADLOCK FALSE
