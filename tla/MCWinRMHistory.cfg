SPECIFICATION HSpec
CONSTANTS
    None = None
    Threads = {w1, w2}
    Hosts = {h1}
    Settings = {s1, s2}
    Timeouts = {60, 600}
    Default = 600
    a = a
    b = b
    Chunks = {a, b}
    Files <- TwoFiles
    Sources = {src}
    Targets = {dst}
    MaxLen = 3
    MaxLate = 1
SYMMETRY Symm
VIEW Seen
INVARIANTS IndInv CommandsCurrent UploadsArePrefixes AnswersHold
