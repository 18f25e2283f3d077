SPECIFICATION MCSpec
CONSTANTS
    Ifaces = {"e0", "e1"}
    MaxChanges = 3
    MaxCommands = 1
    LinkQueue = 1
    Setups <- SomeSetups
    None = None
    EmptyDuid = EmptyDuid
    BigDuid = BigDuid
CHECK_DEADLOCK FALSE
INVARIANTS FollowsKernel PidfileHolds
PROPERTIES LauncherIsTold 
