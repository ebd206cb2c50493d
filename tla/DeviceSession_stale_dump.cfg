SPECIFICATION SessionSpec
CONSTANTS
    None = None
    Models = {"Machinedrum", "Monomachine"}
    Budgets <- MCBudgets
    SyncScenarios <- MCSyncScenarios
    Slots = {g1, g2}
    Settings = {"host", "factory"}
    MaxAttempts = 2
    MaxVerifyRequests = 1
    MacroSteps = 2
    MaxWire = 1
    Disturbances = 1
PROPERTIES
    StartsOverFromARead
CHECK_DEADLOCK FALSE
