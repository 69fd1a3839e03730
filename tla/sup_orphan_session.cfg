SPECIFICATION FairSpec
CONSTANTS
    N = 3
    MaxFaults = 1
    LocalPorts = {}
    NRemote = 0
    Tun = TRUE
    AutoMode = FALSE
    KeepaliveMax = 1
    RefusesSessions = FALSE
    ReconnectInterval = 1
    PeerKeepalive = TRUE
PROPERTIES
    Recovers
CHECK_DEADLOCK FALSE
