SPECIFICATION RosterSpec
CONSTANTS
    w1 = w1
    w2 = w2
    Wallets = {w1, w2}
    Account <- MCAccount
    Launchpad = {}
    Facts <- MCFacts
    Floor <- MCFloor
    Scorable = {w1}
    Promise <- MCPromise
    Scores <- MCScores
    TargetRoster = 1
    BudgetBootstrap = 1
    BudgetSteady = 1
    MinScore = 60
    MinConfidence = 50
    Orders = {"active", "suspended", "blacklisted"}
PROPERTY RemovedStaysRemoved
