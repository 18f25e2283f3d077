CONSTANTS
    Addrs = {a1, a2, a3}
    INADDR_ANY = any
    NULL = null
    PROBE_WAIT = 1
    PROBE_NUM = 2
    PROBE_MIN = 1
    PROBE_MAX = 1
    ANNOUNCE_WAIT = 1
    ANNOUNCE_NUM = 2
    MAX_CONFLICTS = 2
    RATE_LIMIT_INTERVAL = 3
    DEFEND_INTERVAL = 2
    ipv4ll_time = 1
    Setups <- SomeSetups
    ConflictBound = 2
SPECIFICATION FairSpec
CHECK_DEADLOCK FALSE
INVARIANTS AddrIsKept
PROPERTIES ClaimsAreProbed GivesUpOnlyContested RetriesAreLimited LinkLocalComes
