\* A ring of one key (two places), four keys, one lost interrupt.
CONSTANTS
    KEYBUF_SIZE = 2
    MaxKeys = 4
    LostSync = 2
    WarnTime = 2
    HoldTime = 2
    MaxMisses = 1
    OwnThread = TRUE
    PromptAck = TRUE
SPECIFICATION KeyboardFairSpec
INVARIANTS RingSafe
PROPERTIES KeysInOrder ResetAnnounced KeysArrive ResetHappens
