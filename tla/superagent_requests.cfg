CONSTANTS
    r1 = r1
    r2 = r2
    Requests <- TwoRequests
    UserRetries = 3
    MaxRenewals = 1
SPECIFICATION SAFairSpec
CONSTRAINT AttemptBound
PROPERTIES OnlyRefusedTokensDropped RetryCarriesNewToken CallerIsCalled
