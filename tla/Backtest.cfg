SPECIFICATION Spec
CONSTANTS
    Mints = {"m1", "m2"}
    Wallets = {"c", "o"}
    ResIds = {1, 2}
    Capital = 100000
    Sizes = {}
    Fills = {}
    Proceeds = {}
    Unrealized = {}
    MaxDailyLossPct = 5
    MaxDrawdownPct = 20
    MaxDeployedPct = 60
    MaxTokenPct = 5
    MaxTraderPct = 15
    MaxOpenPositions = 20
    MaxPending = 5
    MinPosition = 10
    Dollar = 1
    MaxDetectionAge = 3
    MinTokenAge = 1
    NewTokenAge = 3
    StopLossPct = 25
    TrailingArmPct = 40
    TrailingStopPct = 20
    MaxHold = 4
    Ladder <- MCLadder
    Tapes <- MCTapes
    Traders <- MCTraders
    Depths = {30000, 80000}
    SizingModes = {"confidence_weighted", "kelly"}
    DetectionLatency = 2
    MaxStaleness = 2
    BaseBp = 75
    CapBp = 200
    Fee = 1
    MayFail = TRUE
CHECK_DEADLOCK FALSE
INVARIANTS
    TypeOK
    NeverClosesBeforeOpening
    BooksAgree
    StopsAreTaken
    OnlyUnsellableStaysOpen
    FitsTheBook
