CONSTANTS
    Admins = {}
    Configs <- MCConfigs
    InitCfg <- MCInitCfg
    WatchConfig = TRUE
    HasP2P = TRUE
    MaxSignals = 1
    MaxTicks = 2
    MaxEdits = 1
    FileFaults = {"load"}
SPECIFICATION Spec
PROPERTY CancelHonoured
CHECK_DEADLOCK FALSE
