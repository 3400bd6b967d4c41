SPECIFICATION HSpec
CONSTANTS
    None = None
    Threads = {w1, w2}
    Uuids = {u1, u2}
    Tries = 2
    Uefi = FALSE
    Faults = TRUE
SYMMETRY Symm
INVARIANTS IndInv VmHasDisk AnswersHold
PROPERTY DiskOutlivesVm
