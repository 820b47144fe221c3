SPECIFICATION Spec
CONSTANTS
    w1 = w1
    w2 = w2
    x1 = x1
    Callers = {w1, w2}
    Workers = {w1, w2}
    Direct = {}
    Threshold = 2
    Chain <- MCBuySell
    Wallets = {x1}
    Followed = {x1}
    NoWallet = NoWallet
    QueueSize = 1
    Gate = 0
    TTL = 1
    MaxAge = 1
    MaxDeliveries = 2
    MaxCrashes = 1
INVARIANTS
    SignalTypeOK
    OneCopyPerBuy
PROPERTIES
    SuspensionTakesHold
    WorkersSurvive
