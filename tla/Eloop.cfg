CONSTANTS
    x1 = x1
    x2 = x2
    a1 = a1
    Loop = Loop
    Other = Other
    NSEC_PER_SEC = 2
    Timeout <- TwoTimeouts
    ArgOf <- SharedArg
    Queue <- TwoQueues
    Delays <- FewDelays
    MaxSec = 1
    MaxAdds = 3
    Fds = {f1, f2}
    Sigs = {"TERM", "HUP", "CHLD"}
    ELOOP_NSIGNALS = 2
    Conditions = {"IN"}
    MaxOps = 3
    MaxNews = 3
    NoFd = NoFd
SPECIFICATION FairBoth
CHECK_DEADLOCK FALSE
INVARIANTS TimersKeepTime EventsAreServed
PROPERTIES ImplementsTimerQueue  
