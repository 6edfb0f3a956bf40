SPECIFICATION Spec
CONSTANTS
    h1 = h1 h2 = h2
    home = home cafe = cafe
    Boot = Boot
    None = None
    Header = Header
    Handlers <- TwoRequests
    Requests <- MCRequests
    Saved <- MCSaved
    Ssids <- MCSsids
    Airs <- MCAirs
    Polls = 1
    MaxMoves = 1
    MaxFaults = 1
    MaxRestarts = 1
INVARIANTS TypeOK SupplicantInStep
PROPERTIES EditsOneNetwork
CHECK_DEADLOCK FALSE
SYMMETRY Sym
