SPECIFICATION Spec
CONSTANTS
    PositionService = PositionService
    Harvesters = {PositionService}
    Modes = {FALSE}
    Capital = 100
    Stakes = {70}
    Results <- WinOrLose
    Unrealized <- UnderWater
    ThresholdPct = 25
    TakePct = 40
    MinActive = 60
    MaxDeployedPct = 100
    Gross = {140}
    MaxCalls = 2
    MaxFaults = 0
CONSTRAINT MarkIsCurrent
INVARIANT SameDollarsOnce
