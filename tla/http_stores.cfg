CONSTANTS
    r1 = r1
    r2 = r2
    Timer = Timer
    Requests <- TwoRequests
    MaxCalls = 3
    Stores = {"memory", "remote"}
    CanUseRefreshTokens = TRUE
    ScheduleRefresh = FALSE
    RetryUnauthenticated = TRUE
SPECIFICATION FairSpec
CONSTRAINTS RequestBound CallBound UnusedBound
PROPERTIES OnlyBadTokensDropped RetryCarriesNewerToken AcquisitionIsNeeded SendsRetryOnce SendSettles
