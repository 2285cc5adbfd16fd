CONSTANTS
    MaxCalls = 2
    MaxRenewals = 0
SPECIFICATION FairSpec
INVARIANTS LaterMethodsWait
