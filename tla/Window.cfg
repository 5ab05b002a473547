SPECIFICATION Spec
CONSTANTS
    c1 = c1
    c2 = c2
    u1 = u1
    Clients <- OneClient
    Watch = watch
    Ops = {"enter", "ksOff", "join"}
    Faults = {}
    Urls <- MCUrls
    NoUrl = NoUrl
    NoRec = NoRec
    Window = 1
    MaxReqs = 2
    MaxCrashes = 1
CHECK_DEADLOCK FALSE
CONSTRAINTS NoTraffic SetUp RaceOrRestart
PROPERTY PauseEnds
