SPECIFICATION Spec
CONSTANTS
    q1 = q1
    q2 = q2
    k1 = k1
    quad9 = quad9
    mullvad = mullvad
    Queries <- MCQueries
    Streams = {k1}
    Slots = 1
    Providers <- MCProviders
    Default = quad9
    MaxSets = 2
INVARIANTS TypeOK NoSilence RawNeedsOverlap ProviderKept
PROPERTIES QueriesEnd ServeEnds
CONSTRAINTS Apart ChoicesApart
