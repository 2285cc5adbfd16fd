CONSTANTS
    MaxCalls = 4
    MaxRenewals = 2
SPECIFICATION FairSpec
INVARIANTS MethodsInOrder
PROPERTIES TokenIsSent OnlyRefusedTokenDropped RequestAnswered
