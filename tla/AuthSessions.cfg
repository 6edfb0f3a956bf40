SPECIFICATION Spec
CONSTANTS
    w1 = w1 w2 = w2
    h1 = h1 h2 = h2
    pa = pa pb = pb
    Empty = Empty
    Workers <- MCWorkers
    Handlers <- MCHandlers
    Passwords <- MCPasswords
    TTL = 2
    MaxTime = 3
    MaxLogins = 2
    MaxRestarts = 1
INVARIANTS OwnPasswordOnly SessionsAreLogins
SYMMETRY Sym
