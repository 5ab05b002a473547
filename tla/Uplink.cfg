SPECIFICATION Spec
CONSTANTS
    Requests = {"r1"}
    Networks = {"A", "B"}
    MaxIds = 6
    Day = 2
    MaxFaults = 1
INVARIANTS TypeOK JoinTakes MACPerNetwork
PROPERTIES RollsSpaced RollsComeRound
ACTION_CONSTRAINT QuietSettings
