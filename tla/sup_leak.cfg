SPECIFICATION FairSpec
CONSTANTS
    N = 3
    MaxFaults = 1
    LocalPorts = {p1}
    NRemote = 1
    Tun = FALSE
    AutoMode = FALSE
    KeepaliveMax = 1
    RefusesSessions = FALSE
    ReconnectInterval = 1
    PeerKeepalive = FALSE
PROPERTIES
    Recovers
CHECK_DEADLOCK FALSE
