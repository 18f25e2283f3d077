CONSTANTS
    a1 = a1
    a2 = a2
    NoAddr = NoAddr
    Addr <- BothAddr
    Pool <- OneAddr
    ReqAddr = a1
    Arping <- NoArping
    OptionSets <- UsualOptions
    Outcomes <- AllFine
    Events <- ConflictNak
SPECIFICATION Spec
PROPERTY NakRestarts
CHECK_DEADLOCK FALSE
