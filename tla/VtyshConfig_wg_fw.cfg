\* Firewall applies around a wg listenport.
SPECIFICATION Spec
CONSTANTS
    Hostnames = {hA}
    AlphaStart = {hA}
    Ifnames = {"lan", "wan"}
    WgIfnames = {}
    Addrs = {}
    Dsts = {}
    Gws = {}
    Nameservers = {}
    Loopback = lo
    PubKeys = {}
    KeyShaped = {}
    AllowedIps = {}
    DigitStart = {}
    Endpoints = {"none"}
    ShortNoSlash = {}
    Keepalives = {off}
    KeepaliveOff = off
    Ports = {51820}
    Portmaps = {}
    ValidPortmap = {}
    FilterRules = {}
    ValidFilter = {}
    NatGen <- MC_NatGen
    FilterGen <- MC_FilterGen
    NoValue = unset
    HostConfig = TRUE
    FreeFds = 2
    MaxCmds = 6
INVARIANT WgPortOpen
\* The user may stop typing at any point; MaxCmds bounds the commands.
CHECK_DEADLOCK FALSE
