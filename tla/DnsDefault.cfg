SPECIFICATION Spec
CONSTANTS
    c1 = c1
    c2 = c2
    u1 = u1
    Clients <- OneClient
    Watch = watch
    Ops = {"ksOn", "ap"}
    Faults = {}
    Urls <- MCUrls
    NoUrl = NoUrl
    NoRec = NoRec
    Window = 1
    MaxReqs = 2
    MaxCrashes = 0
CHECK_DEADLOCK FALSE
INVARIANT FailClosedArmed
