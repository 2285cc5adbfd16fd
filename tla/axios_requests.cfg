CONSTANTS
    r1 = r1
    r2 = r2
    Requests <- TwoRequests
    Plugins <- AuthLast
    OtherRetries = 2
    RetryUnauthenticated = TRUE
    MaxRenewals = 1
SPECIFICATION Spec
SYMMETRY RequestSymmetry
PROPERTIES OnlyRefusedTokensDropped RefusedTokenNotSentAgain RequestsShareRetries
