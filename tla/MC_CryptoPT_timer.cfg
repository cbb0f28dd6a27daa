CONSTANTS
    renewal = renewal
    certResult = certResult
    Inbound <- MCInbound
    Req <- MCReq
SPECIFICATION Spec
INVARIANTS
    NoTimerOutlivesCall
