\* A ring that fills and two writers that serialise their calls, as native2amiga.cpp does.
CONSTANTS
    Writers = {w1, w2}
    Size = 4
    Chunks = 2
    MaxWrites = 6
    OneAtATime = TRUE
SPECIFICATION PipeFairSpec
INVARIANTS FastPathSafe
PROPERTIES PipeFifo FlushDelivers WriterReturns
