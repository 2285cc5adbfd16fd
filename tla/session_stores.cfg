CONSTANTS
    c1 = c1
    Timer = Timer
    Clients <- OneClient
    MaxCalls = 3
    Stores = {"memory", "remote"}
    CanUseRefreshTokens = TRUE
    ScheduleRefresh = TRUE
SPECIFICATION FairSpec
INVARIANTS StateFollowsFlight TimerIsForNewestToken RefreshTokenSentOnce RefusedTokenIsGone
PROPERTIES ScheduledRefreshHappens
