SPECIFICATION Spec
CONSTANTS
    Mints = {m1}
    Wallets = {w1}
    ResIds = {r1, r2}
    Capital = 20
    Sizes = {4}
    Fills = {2, 6}
    Proceeds = {3}
    Unrealized = {0}
    MaxDailyLossPct = 100
    MaxDrawdownPct = 100
    MaxDeployedPct = 100
    MaxTokenPct = 100
    MaxTraderPct = 100
    MaxOpenPositions = 3
    MaxPending = 3
    MinPosition = 2
    Dollar = 2
    Jobs = {j1}
    Units = 2
    MaxFaults = 2
SYMMETRY Symmetry
INVARIANTS LedgerNeverUnderstates StoresAgree SerialExitsAreSafe
PROPERTY FollowsTheBook
