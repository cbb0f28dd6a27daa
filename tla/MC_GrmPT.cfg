CONSTANTS
    wGood = wGood
    wNoValue = wNoValue
    Inbound <- MCInbound
    Req <- MCReq
SPECIFICATION Spec
INVARIANTS
    TypeOK
PROPERTIES
    WellFormedWriteAnswered
    MainFlowRefined
