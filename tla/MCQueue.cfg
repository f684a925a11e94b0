SPECIFICATION Spec
CONSTANTS
    Task = {t1, t2, t3}
    Item = {x, y}
    MaxSize = 2
    UnfinishedBound = 2
INVARIANTS TypeOK NoIdleGetter JoinCountsWork ShutdownWakesAll
PROPERTIES ImplementsJoinableQueue
