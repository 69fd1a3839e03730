SPECIFICATION FairSpec
CONSTANTS
    N = 3
    MaxFaults = 2
    LocalPorts = {p1}
    NRemote = 0
    Tun = FALSE
    AutoMode = FALSE
    KeepaliveMax = 2
    RefusesSessions = FALSE
    ReconnectInterval = 0
    PeerKeepalive = FALSE
INVARIANTS
    TypeOK
    NoStaleListener
    VerdictExact
PROPERTIES
    VerdictOnSilence
    Reconnects
    Recovers
CHECK_DEADLOCK FALSE
