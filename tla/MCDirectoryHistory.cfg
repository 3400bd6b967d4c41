SPECIFICATION HSpec
CONSTANTS
    None = None
    Group = group
    Threads = {w1, w2}
    Users = {u1, u2}
SYMMETRY Symm
VIEW Seen
INVARIANTS IndInv WritesNamed AnswersHold
PROPERTIES FlagsKept
