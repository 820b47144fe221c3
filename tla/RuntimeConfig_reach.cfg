SPECIFICATION ConfigSpec
CONSTANTS
    k1 = k1
    v0 = v0
    v1 = v1
    Settings = {k1}
    RootKeys = {}
    Values = {v0, v1}
    Default = v0
    Saves <- MCOneSave
    Services = {"decision"}
    Once = {"worker"}
    r1 = r1
    Requests = {r1}
PROPERTY SettingsReachServices
