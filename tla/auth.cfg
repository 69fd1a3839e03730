SPECIFICATION FairSpec
CONSTANTS
    Plans <- MCPlans
    Offered = {"known", "stale"}
    Accepted = {"known"}
    ServerMethods = {"none", "password", "publickey", "ki"}
    Proceed <- MCProceed
    MaxRounds = 2
    Banner = TRUE
    MayDie = TRUE
INVARIANTS
    AuthAgrees
    OneUnderWay
    AllTried
PROPERTIES
    AuthEnds
CHECK_DEADLOCK FALSE
