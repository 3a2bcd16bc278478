\* Routes: ip route twice, then no ip route for one destination.
SPECIFICATION Spec
CONSTANTS
    Hostnames = {hA, h9}
    AlphaStart = {hA}
    Ifnames = {"lan", "wan", "wg0"}
    WgIfnames = {"wg0"}
    Addrs = {a1}
    Dsts = {d1, d2}
    Gws = {g1}
    Nameservers = {n1}
    Loopback = lo
    PubKeys = {}
    KeyShaped = {}
    AllowedIps = {}
    DigitStart = {}
    Endpoints = {"none"}
    ShortNoSlash = {}
    Keepalives = {off}
    KeepaliveOff = off
    Ports = {}
    Portmaps = {}
    ValidPortmap = {}
    FilterRules = {}
    ValidFilter = {}
    NatGen = unset
    FilterGen = unset
    NoValue = unset
    HostConfig = TRUE
    FreeFds = 2
    MaxCmds = 5
INVARIANT RoutesAgree
\* The user may stop typing at any point; MaxCmds bounds the commands.
CHECK_DEADLOCK FALSE
