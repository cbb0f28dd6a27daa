CONSTANTS
    wFloat = wFloat
    wInt = wInt
    mGood = mGood
    mMissing = mMissing
    mForeign = mForeign
    mWrongVendor = mWrongVendor
    Inbound <- MCInbound
    Req <- MCReq
SPECIFICATION Spec
INVARIANTS
    TypeOK
PROPERTIES
    SigintEndsProcess
    MainFlowRefined
