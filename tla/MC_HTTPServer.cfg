CONSTANTS
    Requests = {"r1", "r2", "r3", "r4"}
    HTTPWorkers = {"w1", "w2"}
    MaxDepth = 2
    NoRequest = "none"
SPECIFICATION FairHTTP
CHECK_DEADLOCK FALSE
INVARIANTS
    OneOwner
    NobodyForgotten
PROPERTIES
    EveryRequestAnswered
    InterruptStops
