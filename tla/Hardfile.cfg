\* Two requests, two slots, one opener; two threads because the device may be opened again,
\* or reset, while one is busy.  The emulation thread may stop for good (Abandoned).
CONSTANTS
    Requests = {r1, r2}
    None = None
    Threads = {t1, t2}
    Slots = 2
    PipeSize = 4
    ReplyRoom = 4
    MaxOpens = 1
    MaxStrays = 1
SPECIFICATION HardfileFairSpec
INVARIANTS TempIsProcessed ChangeIntListed
PROPERTIES CausedRegistered KeepsContract EmuReturns AllAnswered
CHECK_DEADLOCK FALSE
