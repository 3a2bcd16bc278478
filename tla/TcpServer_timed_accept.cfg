\* The accept loop calls acceptClient with a timeout of 1 second.
CONSTANTS
    Conns = {c1, c2}
    c1 = c1
    c2 = c2
    NoConn = NoConn
    IP <- MC_IP
    Observers <- MC_ObserversMain
    MaxChunks = 1
    AutoReap = TRUE
    AcceptTimeouts = {1}
    NestedWindow = {}
    SignalWindow <- MC_SafeSignalWindow
SPECIFICATION Spec
PROPERTY ConnectionEventuallyAccepted
