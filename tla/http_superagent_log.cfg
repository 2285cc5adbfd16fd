CONSTANTS
    Clients = {"superagent"}
    Cases <- MCCases
SPECIFICATION FairSpec
INVARIANTS OutcomeIsLogged
CHECK_DEADLOCK FALSE
