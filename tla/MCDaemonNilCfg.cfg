CONSTANTS
    Admins = {a1}
    Configs <- MCConfigs
    InitCfg <- MCInitCfg
    WatchConfig = FALSE
    HasP2P = TRUE
    MaxSignals = 1
    MaxTicks = 0
    MaxEdits = 1
    FileFaults = {"load"}
SPECIFICATION Spec
INVARIANT NoNilConfigDeref
CHECK_DEADLOCK FALSE
