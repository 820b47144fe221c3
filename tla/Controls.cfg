SPECIFICATION ControlsSpec
CONSTANTS
    Operators = {o1, o2, o3}
    Signings = {q1}
    Keys = {i1, i2}
    Attempts = {a1, a2, a3}
    NoKey = NoKey
    r1 = r1
    ApiRequests = {r1}
    InitialMode = "paper"
    MaxOpen = 1
    k1 = k1
    k2 = k2
    v0 = v0
    v1 = v1
    s1 = s1
    s2 = s2
    Settings = {k1, k2}
    RootKeys = {k2}
    Values = {v0, v1}
    Default = v0
    Saves <- MCSaves
    Services = {"decision"}
    Once = {}
    Requests = {s1, s2}
INVARIANTS
    NoSpendAfterKill
    ReopenedByCommand
    AtMostOneBroadcast
    StatusIsTruthful
    LiveIsChosen
    StrandedOnlyByRace
    AcknowledgedIsSaved
PROPERTY ImplementsContract
