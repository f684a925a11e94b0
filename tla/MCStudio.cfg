SPECIFICATION Spec
CONSTANTS
    Sockets = {1, 2}
    Nothing = Nothing
    MaxStreams = 2
    Users = {1}
CHECK_DEADLOCK FALSE
INVARIANTS ActiveIsLive StopReaches
PROPERTIES StoppedEnds
