SPECIFICATION Spec
CONSTANTS
    c1 = c1
    c2 = c2
    u1 = u1
    Clients <- OneClient
    Watch = watch
    Ops = {"enter", "exit", "ksOn", "ksOff", "dnsOn", "dnsOff", "join"}
    Faults = {}
    Urls <- MCUrls
    NoUrl = NoUrl
    NoRec = NoRec
    Window = 1
    MaxReqs = 3
    MaxCrashes = 2
CHECK_DEADLOCK FALSE
CONSTRAINT Undisturbed
INVARIANTS TypeOK NeverStranded SavedIsPosture PauseRelaxesAll FlowsCut
PROPERTY PauseAsPromised
