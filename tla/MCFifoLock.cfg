SPECIFICATION Spec
CONSTANTS
    Task = {t1, t2, t3, t4, t5}
INVARIANTS OneOwner LockedIsOwned
PROPERTIES ImplementsFifoMutex EventuallyServed
