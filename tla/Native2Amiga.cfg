\* Two host threads, a pipe that fills, and devices that change the other request
\* bits without undoing what the host threads do.
CONSTANTS
    Threads = {t1, t2}
    Emu = emu
    EmuSends = FALSE
    OtherBits = "atomic"
    Capacity = 3
    MaxMessages = 2
    Units = 2
SPECIFICATION N2AFairSpec
INVARIANTS WholeMessages NeverNotEnough
PROPERTIES AllDelivered EmulatorReturns
