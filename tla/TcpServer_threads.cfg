\* The server threads: safety and liveness, both accept modes, library observers.
CONSTANTS
    Conns = {c1, c2}
    c1 = c1
    c2 = c2
    NoConn = NoConn
    IP <- MC_IP
    Observers <- MC_ObserversLibrary
    MaxChunks = 1
    AutoReap = TRUE
    AcceptTimeouts = {0, 1}
    NestedWindow <- MC_SafeNestedWindow
    SignalWindow <- MC_SafeSignalWindow
SPECIFICATION Spec
INVARIANT TypeOK
INVARIANT DisconnectNotifiedOnceLast
PROPERTY PeerCloseNotified
PROPERTY RemoverReclaims
PROPERTY SignalLeadsToExit
PROPERTY LifecycleRefined
