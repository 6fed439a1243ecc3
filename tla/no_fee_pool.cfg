SPECIFICATION Spec
CONSTANTS
    c1 = c1
    c2 = c2
    c3 = c3
    kA = kA
    kB = kB
    kC = kC
    NoCall = NoCall
    Calls = {c1, c2, c3}
    Wallets <- MCWallets
    FeePool = 5
    Opening <- MCOpening
    InitialStatus <- MCStatus
    Keys <- MCKeys
    KeyLength <- MCKeyLength
    QrIds = {}
    NoQr = NoQr
    Offers <- NoOffers
    Orders <- MCOrders
    Watched = {2}
    MaxCrashes = 1
SYMMETRY Perms
INVARIANTS
    LedgerExplainsBalances
