CONSTANTS
    renewal = renewal
    certResult = certResult
    Inbound <- MCInbound
    Req <- MCReq
SPECIFICATION Spec
INVARIANTS
    TypeOK
PROPERTIES
    InboundEventuallyAnswered
    MainFlowRefined
