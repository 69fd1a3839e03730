SPECIFICATION FairSpec
CONSTANTS
    Prefs <- MCPrefs
    Pairs <- MCPairs
    NeedsMac = {"ctr"}
    HostKeys = {"ed25519"}
    MaxRekeys = 1
    MaxData = 1
    MaxBeats = 1
    PendingMax = 2
INVARIANTS
    SessionsSurvive
    KeysAgree
    NothingLost
PROPERTIES
    SessionIdFixed
    ExchangeEnds
CHECK_DEADLOCK FALSE
