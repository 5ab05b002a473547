SPECIFICATION Spec
CONSTANTS
    c1 = c1
    c2 = c2
    c3 = c3
    good = good
    wrong = wrong
    newer = newer
    huge = huge
    empty = empty
    Clients <- ThreeClients
    Images <- MCImages
    Size <- MCSize
    Valid <- MCValid
    MaxBlocks = 2
    None = None
    Hole = Hole
INVARIANTS TypeOK NoTruncatedLeft FlashesTested
PROPERTY ResetHappens
