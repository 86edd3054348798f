CONSTANTS
    a1 = a1
    a2 = a2
    a3 = a3
    c1 = c1
    c2 = c2
    h1 = h1
    Ads <- MCAds
    Chunks <- MCChunks
    Hamts <- MCHamts
    ChainOf <- MCChainOf
    MaxCrashes = 0
SPECIFICATION FaultySpec
INVARIANT NoOrphanEntries
CHECK_DEADLOCK FALSE
