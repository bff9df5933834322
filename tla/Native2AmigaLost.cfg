\* devices_rethink changes the other request bits.
CONSTANTS
    Threads = {t1, t2}
    Emu = emu
    EmuSends = FALSE
    OtherBits = "plain"
    Capacity = 4
    MaxMessages = 2
    Units = 1
SYMMETRY ThreadSymmetry
SPECIFICATION N2ASpec
INVARIANTS NeverNotEnough
