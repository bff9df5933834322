CONSTANTS
    Names = {"x", "y"}
    Paths <- SomePaths
    MaxInodes = 3
    MaxLocks = 1
    MaxExNext = 2
    Keys = {k1}
    Scans = {s1}
    CacheMax = 0
    FlushNum = 1
    FlushTries = 3
    InitHost <- FileAndDrawer
    Watched <- WatchDrawer
    HostMayFail = {"open", "rename"}
    HostRefusesOpen = TRUE
    Habits = {"rename file"}
SPECIFICATION TreeSpec
INVARIANTS NoFreedUse
