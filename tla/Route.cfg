SPECIFICATION MCSpec
CONSTANTS
    Ifs = 2
    Leases <- SomeLeases
    Setups <- SomeSetups
    MaxForeign = 1
    MaxMsgs = 1
CHECK_DEADLOCK FALSE
INVARIANTS  TreeIsSearchTree
PROPERTIES IsKeyedSet
