SPECIFICATION FairSpec
CONSTANTS
    h1 = h1 h2 = h2 h3 = h3
    a = a b = b
    Handlers <- MCHandlers
    Ips <- MCIps
    Requests <- MCRequests
    MaxFlushes = 1
    MaxFaults = 1
    MaxRestarts = 1
INVARIANTS BlockedIsDropped BuildGoesOn
PROPERTIES AnsweredBlockTakesEffect
CHECK_DEADLOCK FALSE
