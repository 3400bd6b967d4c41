SPECIFICATION FairSpec
CONSTANTS
    None = None
    w1 = w1
    w2 = w2
    lo = lo
    hv = hv
    db = db
    given = given
    Threads = {w1, w2}
    Hosts = {lo, hv}
    LocalNames = {lo}
    Localhost = lo
    Settings = {db, given}
    Default = given
    FromDb = db
    Inventory = {hv}
    ConnIds = {c1, c2, c3, c4}
INVARIANTS IndInv OneConnection
PROPERTIES ImplementsRegistry CallsDrain
