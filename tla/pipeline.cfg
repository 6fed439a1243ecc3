SPECIFICATION FairSpec
CONSTANTS
    p1 = p1
    p2 = p2
    p3 = p3
    n1 = n1
    n2 = n2
    f1 = f1
    d1 = d1
    Notices = {n1, n2}
    Content <- MCContent
    SmsConfigured = TRUE
    MaxFaults = 1
    MaxDeaths = 2
    Payments = {p1, p2, p3}
    Payment <- MCPayment
    ByHand <- MCByHand
    NoWallet = NoWallet
    MlroAddressSet = TRUE
    VelocityLimit = 1
    CriticalVelocity = 2
    MaxTicks = 1
    Receipts = {d1}
    Reported <- MCReported
    MaxRequests = 2
    MaxTogether = 3
CHECK_DEADLOCK FALSE
INVARIANTS
    SentHasArrived
    CopiesAreBounded
    PatternsAreFlagged
PROPERTIES
    AnsweredNoticesSettle
