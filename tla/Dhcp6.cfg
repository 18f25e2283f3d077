SPECIFICATION Spec
CONSTANTS
    NAs = {"A", "B"}
    PDs = {"P", "Q"}
    Sub <- SubAddress
    Inf = 9
    SOL_MAX_DELAY = 1
    CNF_MAX_DELAY = 1
    INF_MAX_DELAY = 1
    IRT = 1
    MRT = 2
    REQ_MAX_RC = 2
    DEC_MAX_RC = 2
    CNF_MAX_RD = 2
    INF_MAX_RD = 2
    IRT_DEFAULT = 3
    MaxTime = 4
    Setups <- SomeSetups
CHECK_DEADLOCK FALSE
INVARIANTS LeaseIsKept ScriptAfterDad 
