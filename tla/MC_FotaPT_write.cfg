CONSTANTS
    wFloat = wFloat
    wInt = wInt
    mGood = mGood
    mMissing = mMissing
    mForeign = mForeign
    mWrongVendor = mWrongVendor
    Req <- MCReqAll
    Inbound <- MCInboundIntWrite
SPECIFICATION Spec
INVARIANTS
    EveryHandledAnswered
