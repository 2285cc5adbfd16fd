CONSTANTS
    Handlers = {h1, h2}
    Timer = Timer
    Sockets = {s1}
    Targets = {t1}
    MaxIds = 2
    MaxDepth = 3
    Undefined = Undefined
    Nobody = Nobody
SPECIFICATION Spec
INVARIANTS TransactionsDoNotMix
PROPERTIES RequestKeepsItsId
SYMMETRY Symmetry
CHECK_DEADLOCK FALSE
