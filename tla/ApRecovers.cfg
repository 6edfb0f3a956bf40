SPECIFICATION FairSpec
CONSTANTS
    a1 = a1
    a2 = a2
    boot = boot
    Boot = boot
    None = None
    Applies <- OneApply
    Names <- OneName
    CfgChannels <- AutoOr11
    StaChannels <- LowBand
    Fallible <- IwHostapd
    MaxMoves = 1
    MaxDeaths = 1
    MaxFaults = 1
INVARIANTS TypeOK MaskedNeedsFailure
PROPERTIES ApInSync DhcpUp
CHECK_DEADLOCK FALSE
