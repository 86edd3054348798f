CONSTANTS
    Admins = {}
    Configs <- MCConfigs
    InitCfg <- MCInitCfg
    WatchConfig = FALSE
    HasP2P = TRUE
    MaxSignals = 0
    MaxTicks = 0
    MaxEdits = 0
    FileFaults = {"load"}
SPECIFICATION Spec
INVARIANT ExitStatusReflectsFailures
CHECK_DEADLOCK FALSE
