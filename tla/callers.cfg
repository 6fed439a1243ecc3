SPECIFICATION Spec
CONSTANTS
    send = send
    scan = scan
    cash = cash
    g1 = g1
    g2 = g2
    g3 = g3
    w1 = w1
    w2 = w2
    w3 = w3
    tea = tea
    Sessions = {send, scan, cash}
    KindOf <- MCKindOf
    Amounts = {50, 60}
    MaxTaps = 2
    Submissions = {g1, g2, g3}
    SagaKey <- MCSagaKey
    IsPayShap <- MCIsPayShap
    Attempts = 3
    CircuitThreshold = 2
    Products = {tea}
    Works <- MCWorks
    MaxBreaks = 1
    app = app
    Intents = {"rent", "gift"}
    MaxOpenings = 3
    MaxOpening = 2
    MaxRepeats = 3
    phone = phone
    Numbers <- MCNumbers
    Holder <- MCHolder
    MaxDials = 2
    MaxPresses = 5
    MaxAirtimeFaults = 1
    x1 = x1
    x2 = x2
    p1 = p1
    p2 = p2
    p3 = p3
    p4 = p4
    Codes = {x1, x2}
    Payers = {p1, p2, p3, p4}
    Pays <- MCPays
    MaxDbFaults = 2
    reader = reader
    teller = teller
    PageSize = 2
    MaxLines = 4
    MaxFetches = 3
    Mixes <- MCMixes
CHECK_DEADLOCK FALSE
INVARIANTS
    SuccessMeansSettled
    FailuresAreBounded
    MovementsExplainStock
    RetriesKeepTheirKey
    OnlyNamedWalletsArePaid
    AirtimeIsPaidFor
    HistoryIsComplete
