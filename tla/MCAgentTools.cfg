SPECIFICATION Spec
CONSTANTS
    local = local
    remote = remote
    transfer = transfer
    absent = absent
    Closer = Closer
    Clients <- MCClients
    Contexts <- MCContexts
    Answers <- MCAnswers
    Inputs <- MCInputs
    Handoffs = {transfer}
    Static = {local}
    Remote = {remote}
    MaxToolIterations = 2
    Reflects = {TRUE, FALSE}
    MaxCalls = 3
    MaxRuns = 2
    MaxEvents = 1
    MaxFaults = 1
INVARIANTS ModelSeesPairs EventsInPlace
PROPERTIES RunEnds
CHECK_DEADLOCK FALSE
