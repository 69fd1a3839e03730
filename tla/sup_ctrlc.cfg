SPECIFICATION FairSpec
CONSTANTS
    N = 3
    MaxFaults = 1
    LocalPorts = {p1}
    NRemote = 0
    Tun = FALSE
    AutoMode = FALSE
    KeepaliveMax = 1
    RefusesSessions = FALSE
    ReconnectInterval = 1
    PeerKeepalive = FALSE
PROPERTIES
    CtrlCTerminates
CHECK_DEADLOCK FALSE
