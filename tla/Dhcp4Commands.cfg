CONSTANTS
    a1 = a1
    a2 = a2
    NoAddr = NoAddr
    Addr <- BothAddr
    Pool <- OneAddr
    ReqAddr = a1
    Arping <- NoArping
    OptionSets <- AnyOptions
    Outcomes <- FineOrExpired
    Events <- AllEvents
SPECIFICATION Spec
INVARIANTS NeverStuck FiniteLeaseExpires LeaseFileMatches AddressIsThere
