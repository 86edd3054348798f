CONSTANTS
    Admins = {a1, a2}
    Configs <- MCConfigs
    InitCfg <- MCInitCfg
    WatchConfig = FALSE
    HasP2P = TRUE
    MaxSignals = 0
    MaxTicks = 0
    MaxEdits = 2
    FileFaults = {"load"}
SPECIFICATION Spec
INVARIANT AtMostOnePeering
CHECK_DEADLOCK FALSE
