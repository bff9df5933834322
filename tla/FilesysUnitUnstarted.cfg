\* A packet that arrives while the limit on started packets is reached.
SPECIFICATION UnitFairSpec
CONSTANTS
    Msgs = {m1, m2}
    Dummy = Dummy
    Death = Death
    Limit = 1
    PipeCapacity = 2
    BackCapacity = 2
    LockChanges = {0}
    OldLocks = 0
    LockRecord = {}
    FreeRecord = {}
    Resets = FALSE
PROPERTIES AllReplied
