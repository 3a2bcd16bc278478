\* Exit-time teardown racing the receive threads woken by close().
CONSTANTS
    Conns = {c1, c2}
    c1 = c1
    c2 = c2
    NoConn = NoConn
    IP <- MC_IP
    Observers <- MC_ObserversMain
    MaxChunks = 1
    AutoReap = TRUE
    AcceptTimeouts = {0}
    NestedWindow = {}
    SignalWindow <- MC_SafeSignalWindow
SPECIFICATION Spec
PROPERTY NoDispatchAfterTeardown
