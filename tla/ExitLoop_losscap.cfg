SPECIFICATION PersistentSpec
CONSTANTS
    Executors = {"local"}
    Units = 2
    Unprotected = 1
    Ceiling = 2
    Misfortunes = {}
    MaxDeaths = 0
PROPERTY StopLossRetries
