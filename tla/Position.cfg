SPECIFICATION PositionSpec
CONSTANTS
    PositionService = PositionService
    Cli = Cli
    Harvesters = {PositionService, Cli}
    Modes = {TRUE, FALSE}
    Capital = 100
    Stakes = {70}
    Results <- WinOrLose
    Unrealized <- UnderWater
    ThresholdPct = 25
    TakePct = 40
    MinActive = 60
    MaxDeployedPct = 100
    Gross = {100, 160}
    MaxCalls = 2
    MaxFaults = 1
    Executors = {"paper", "local", "daemon"}
    Units = 2
    Unprotected = 2
    Ceiling = 1
    Misfortunes = {"err", "unknown"}
    MaxDeaths = 1
SYMMETRY Callers
INVARIANTS
    CountedOnlyIfSent
    OncePerBaseline
    HarvestWithinShare
    ExitTypeOK
    NothingStranded
    EmergencyIsAnswered
