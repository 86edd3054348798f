CONSTANTS
    Admins = {a1}
    Configs <- MCConfigs
    InitCfg <- MCInitCfg
    WatchConfig = FALSE
    HasP2P = TRUE
    MaxSignals = 0
    MaxTicks = 0
    MaxEdits = 1
    FileFaults = {"rate", "logging"}
SPECIFICATION Spec
PROPERTY ReloadAtomic
CHECK_DEADLOCK FALSE
