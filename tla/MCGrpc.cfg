SPECIFICATION Spec
CONSTANTS
    a = a
    b = b
    T1 = T1
    T2 = T2
    Workers = {a, b}
    Types = {T1, T2}
    Ids = {1}
    Events = {1}
    None = None
    MaxStarts <- BStartsTwice
    Instances = {T1}
    Mute = {}
    Leaves = {T1}
    Serves <- EachServesOne
    Asks <- OnlyAAsks
    Stopping <- FirstOfB
    Publishing = {a}
    Crashing <- FirstOfB
    Reconnects = FALSE
INVARIANTS NothingOutlives HandlerIsThere EventExactlyOnce
PROPERTIES CallSettles
CHECK_DEADLOCK FALSE
