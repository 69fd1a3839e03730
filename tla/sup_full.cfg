SPECIFICATION Spec
CONSTANTS
    N = 2
    MaxFaults = 1
    LocalPorts = {p1}
    NRemote = 2
    Tun = TRUE
    AutoMode = TRUE
    KeepaliveMax = 1
    RefusesSessions = FALSE
    ReconnectInterval = 0
    PeerKeepalive = FALSE
INVARIANTS
    NoSilentDeath
    TunReleased
CHECK_DEADLOCK FALSE
