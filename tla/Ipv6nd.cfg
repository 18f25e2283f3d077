CONSTANTS
    r1 = r1
    r2 = r2
    p1 = p1
    Pfx = {p1}
    LL = LL
    STATIC = STATIC
    Routers = {r1, r2}
    NoRouter = NoRouter
    Inf = 100
    IDGEN_RETRIES = 2
    Setups <- SomeSetups
    MAX_RTR_SOLICITATIONS = 1
    RTR_SOLICITATION_INTERVAL = 1
    MAX_RTR_SOLICITATION_DELAY = 1
    RTR_CARRIER_EXPIRE = 2
    IDGEN_DELAY = 1
    MIN_EXTENDED_VLTIME = 2
    EXPIRED_MAX = 1
    QueueBound = 2
    ListBound = 3
SPECIFICATION Spec
CHECK_DEADLOCK FALSE
INVARIANTS NextIsQueued RoutersAreApplied KnowsKernel DadIsReported
