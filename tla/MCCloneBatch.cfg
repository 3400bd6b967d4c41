SPECIFICATION HSpec
CONSTANTS
    None = None
    h1 = h1
    h2 = h2
    n1 = n1
    n2 = n2
    src = src
    Threads = {w1}
    Hosts = {h1}
    Dirs = {src, other}
    SourceDir = src
    Names = {n1, n2}
    CallNames = {n1}
    MaxOrphans = 1
    Batches <- OneHost
    BatchNames <- TwoVms
INVARIANT BatchFindsImage
