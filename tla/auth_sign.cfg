SPECIFICATION FairSpec
CONSTANTS
    Plans <- AgentPlans
    Offered = {"known", "stale"}
    Accepted = {"known"}
    ServerMethods = {"none", "password", "publickey", "ki"}
    Proceed <- KeepMethods
    MaxRounds = 2
    Banner = TRUE
    MayDie = FALSE
PROPERTY AgentAuthEnds
CHECK_DEADLOCK FALSE
