CONSTANTS
    Clients = {"default", "axios", "superagent"}
    Cases <- MCCases
SPECIFICATION FairSpec
INVARIANTS SuiteHolds AttemptsAreLogged
PROPERTIES ImplementsIHttpClient SendEnds
CHECK_DEADLOCK FALSE
