SPECIFICATION HSpec
CONSTANTS
    None = None
    inv = inv
    invRo = invRo
    w1 = w1
    w2 = w2
    db1 = db1
    db2 = db2
    Threads = {w1, w2}
    Aliases <- MCAliases
    ToolAliases <- MCToolAliases
    Suffixed <- MCSuffixed
    RO <- MCRO
    DefaultAlias = inv
    Targets = {db1, db2}
    BootTarget = db1
    PoolIds = {p1, p2, p3, p4}
    MaxConn = 1
    RoConfigured = TRUE
SYMMETRY Symm
INVARIANTS IndInv ConnectionsAccounted ReplyMatchesEffect RolesSeparated RoFollowsPrimary
PROPERTY ImplementsRegistry
