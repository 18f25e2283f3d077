CONSTANTS
    a1 = a1
    a2 = a2
    NoAddr = NoAddr
    Addr <- BothAddr
    Pool <- BothAddr
    ReqAddr = a1
    Arping <- NoArping
    OptionSets <- LeaseFaultLiveOptions
    Outcomes <- FineExpiredOrFault
    Events <- FaultEvents
SPECIFICATION MCSpec
INVARIANTS BoundIsCommitted ExchangeGoesOn
PROPERTIES ProbedBeforeUse 
