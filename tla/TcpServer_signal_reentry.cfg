\* A termination signal may arrive at any point of the main thread, and a
\* second, different one at any point of the first handler's close().
CONSTANTS
    Conns = {c1, c2}
    c1 = c1
    c2 = c2
    NoConn = NoConn
    IP <- MC_IP
    Observers <- MC_ObserversMain
    MaxChunks = 1
    AutoReap = TRUE
    AcceptTimeouts = {0}
    NestedWindow <- MC_AnyNestedWindow
    SignalWindow <- MC_AnySignalWindow
SPECIFICATION Spec
PROPERTY SignalLeadsToExit
CHECK_DEADLOCK FALSE
