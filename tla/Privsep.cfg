SPECIFICATION MCSpec
CONSTANTS
    Ids = {"a", "b"}
    Pids = {1, 2, 3}
    MaxOps = 3
    Setups <- SomeSetups
    k1 = k1
    k2 = k2
    None = None
CHECK_DEADLOCK FALSE
INVARIANTS HelpersAreRight RequestsAreAnswered ClientsAreServed
 
