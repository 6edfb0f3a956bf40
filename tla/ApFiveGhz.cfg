SPECIFICATION FairSpec
CONSTANTS
    a1 = a1
    a2 = a2
    boot = boot
    Boot = boot
    None = None
    Applies <- NoApply
    Names <- OneName
    CfgChannels <- Auto
    StaChannels <- HighBand
    Fallible <- AllReliable
    MaxMoves = 0
    MaxDeaths = 0
    MaxFaults = 0
PROPERTY ApComesBack
CHECK_DEADLOCK FALSE
