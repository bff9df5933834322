\* Three packets, of which two may be outstanding: one asks for a record lock, one gives one
\* up, one moves a lock.  The back pipe fills, and a reset may come at any moment.
SPECIFICATION UnitFairSpec
CONSTANTS
    Msgs = {m1, m2, m3}
    Dummy = Dummy
    Death = Death
    Limit = 2
    PipeCapacity = 2
    BackCapacity = 1
    LockChanges <- TakeLock
    OldLocks = 1
    LockRecord = {m1}
    FreeRecord = {m2}
    Resets = TRUE
INVARIANTS DummyOnce UnitPipeHasRoom LocksConserved RepliedIsLeftAlone
PROPERTIES StartedReplied ResetReturns
CHECK_DEADLOCK FALSE
