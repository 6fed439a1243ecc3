SPECIFICATION Spec
CONSTANTS
    Users = {"ann", "bob"}
    Agents = {"ann"}
    Known = {"ann"}
    Choices <- MCChoices
    Tiers = {0, 1, 3}
    PinLimit = 2
    MaxCalls = 4
    MaxBreaks = 1
    MaxLapses = 1
    MaxAsks = 4
    Mixes <- MCMixes
CHECK_DEADLOCK FALSE
INVARIANTS
    WrongPinsLock
    RegisteredOnce
    TiersAgree
    
    
    PagesActForTheUser
