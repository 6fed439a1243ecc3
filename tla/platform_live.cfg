SPECIFICATION FairSpec
CONSTANTS
    c1 = c1
    c2 = c2
    c3 = c3
    kA = kA
    kB = kB
    kC = kC
    q1 = q1
    q2 = q2
    NoCall = NoCall
    NoQr = NoQr
    Calls = {c1, c2}
    Wallets <- MCWallets
    FeePool = 4
    Opening <- MCOpening
    InitialStatus <- MCStatus
    Keys <- MCKeys
    KeyLength <- MCKeyLength
    QrIds = {q1, q2}
    Offers <- MCOffers
    Orders <- LiveOrders
    Watched = {}
    MaxCrashes = 0
    MaxQrCrashes = 1
    ReportKinds = {}
    LargeAmount = 120
    Float = 3
CHECK_DEADLOCK FALSE
PROPERTIES
    EveryCallFinishes
    CodesAreKept
