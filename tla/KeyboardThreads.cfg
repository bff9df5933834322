\* A ring of two keys (three places) and six keys, recorded on a thread of their own.
CONSTANTS
    KEYBUF_SIZE = 3
    MaxKeys = 6
    LostSync = 2
    WarnTime = 2
    HoldTime = 2
    MaxMisses = 0
    OwnThread = TRUE
    PromptAck = TRUE
SPECIFICATION KeyboardSpec
INVARIANT RingExact
