CONSTANTS
    Admins = {a1}
    Configs <- MCConfigs
    InitCfg <- MCInitCfg
    WatchConfig = TRUE
    HasP2P = TRUE
    MaxSignals = 1
    MaxTicks = 2
    MaxEdits = 1
    FileFaults = {"load", "logging"}
SPECIFICATION Spec
INVARIANT TypeOK
INVARIANT NoForgottenRequest
CHECK_DEADLOCK FALSE
