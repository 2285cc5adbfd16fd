CONSTANTS
    u1 = u1
    u2 = u2
    s1 = s1
    s2 = s2
    Users <- TwoUsers
    Servers <- TwoServers
    MaxEntries = 2
    MaxRetries = 1
    HasTimeout = TRUE
SPECIFICATION FairSpec
INVARIANTS TypeOK OneConnection
PROPERTIES FetchIsNeeded ConfigIsAlive UsesEnd SendsAreRetried
