SPECIFICATION Spec
CONSTANTS
    p1 = p1
    Script = Script
    box = box phone = phone
    None = None
    Pages <- MCPages
    Names <- MCNames
    Hosts <- MCHosts
    MaxKeys = 4
INVARIANTS GivenPairs GivenParses RemovedIsOut
SYMMETRY Sym
