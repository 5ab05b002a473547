SPECIFICATION Spec
CONSTANTS
    c1 = c1
    c2 = c2
    u1 = u1
    Clients <- OneClient
    Watch = watch
    Ops = {"enter", "exit", "ksOn", "ksOff", "dnsOn", "dnsOff", "ap", "join", "vpnUp", "vpnDown", "import"}
    Faults = {"cmd", "ctx", "store"}
    Urls <- MCUrls
    NoUrl = NoUrl
    NoRec = NoRec
    Window = 1
    MaxReqs = 1
    MaxCrashes = 0
CHECK_DEADLOCK FALSE
CONSTRAINTS Undisturbed NoTraffic SetUp ToggleCancelled
INVARIANT RecordFirst
PROPERTY RecordKeepsPosture
