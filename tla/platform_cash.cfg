SPECIFICATION Spec
CONSTANTS
    c1 = c1
    c2 = c2
    c3 = c3
    kA = kA
    kB = kB
    kC = kC
    q1 = q1
    q2 = q2
    NoCall = NoCall
    NoQr = NoQr
    Calls = {c1, c2, c3}
    Wallets <- MCWallets
    FeePool = 4
    Opening <- MCOpening
    InitialStatus <- MCStatus
    Keys <- MCKeys
    KeyLength <- MCKeyLength
    QrIds = {q1}
    Offers <- MCOffers
    Orders <- MixedOrders
    Watched = {1}
    MaxCrashes = 0
    MaxQrCrashes = 0
    ReportKinds = {"reconciliation", "sarb", "ledgerReconcile", "stats"}
    LargeAmount = 120
    Float = 3
SYMMETRY Perms
CONSTRAINT ReportMix
ACTION_CONSTRAINT StatusesMatter
CHECK_DEADLOCK FALSE
INVARIANTS
    BooksAndAnswersAgree
    ReportsAreExplained
PROPERTIES
    RowsAreHonest
    CheckedFlowsNeverOverdraw
