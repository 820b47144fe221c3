SPECIFICATION Spec
CONSTANTS
    Mints = {m1, m2}
    Wallets = {w1}
    ResIds = {r1, r2, r3}
    Capital = 10
    Sizes = {2}
    Fills = {1, 3}
    Proceeds = {2}
    Unrealized = {2}
    MaxDailyLossPct = 10
    MaxDrawdownPct = 25
    MaxDeployedPct = 70
    MaxTokenPct = 30
    MaxTraderPct = 40
    MaxOpenPositions = 2
    MaxPending = 2
    MinPosition = 2
    Dollar = 2
    HarvestAmounts = {4}
    MaxHarvested = 4
SYMMETRY Symmetry
INVARIANTS
    Conservation
    ExposureBacked
    NeverOverbooked
    CapsHonoured
PROPERTY ImplementsBook
