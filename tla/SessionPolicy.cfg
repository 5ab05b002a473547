SPECIFICATION Spec
CONSTANTS
    c1 = c1
    c2 = c2
    t1 = t1
    t2 = t2
    Clients <- TwoClients
    Tokens <- OneToken
    NoSession = NoSession
    NoToken = NoToken
    Idle = 3
    Absolute = 6
    BumpMin = 1
    Second = 2
    Faults = {"store", "crash"}
    MaxTime = 9
SYMMETRY Symmetric
INVARIANTS TypeOK IdleCap AbsoluteCap
PROPERTY SessionsEndForGood
