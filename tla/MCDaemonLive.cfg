CONSTANTS
    Admins = {a1, a2}
    Configs <- MCConfigs
    InitCfg <- MCInitCfg
    WatchConfig = FALSE
    HasP2P = TRUE
    MaxSignals = 0
    MaxTicks = 0
    MaxEdits = 1
    FileFaults = {"load"}
SPECIFICATION Spec
PROPERTY AdminAnswered
PROPERTY CancelHonoured
CHECK_DEADLOCK FALSE
