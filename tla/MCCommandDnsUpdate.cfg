SPECIFICATION HSpec
CONSTANTS
    None = None
    Threads = {w1, w2}
    Values = {a, b}
    Areas <- DnsArea
SYMMETRY Symm
VIEW Seen
INVARIANTS UpdatesAreAtomic
