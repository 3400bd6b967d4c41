SPECIFICATION HSpec
CONSTANTS
    None = None
    Threads = {w1, w2}
    Names <- TwoHosts
    MaxId = 2
SYMMETRY Symm
VIEW Seen
INVARIANTS IndInv AnswersTellWrites AnswersHold
PROPERTY LinksNamed
