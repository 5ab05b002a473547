SPECIFICATION Spec
CONSTANTS
    Keys = {k1, k2, k3, k4, k5, k6}
    Absent = Absent
    Torn = Torn
    CAValidity = 6
    LeafValidity = 4
    RenewBefore = 2
INVARIANTS TypeOK ChainInDate MaterialServes LeafSignedByCA
PROPERTY Heals
