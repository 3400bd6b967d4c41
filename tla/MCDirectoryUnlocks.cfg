SPECIFICATION Spec
CONSTANTS
    None = None
    Group = group
    Threads = {w1, w2}
    Users = {u1, u2}
PROPERTIES UnlocksItsUser
