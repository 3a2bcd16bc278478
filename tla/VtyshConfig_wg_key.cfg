\* A key generated for a peer command that wg set then rejects.
SPECIFICATION Spec
CONSTANTS
    Hostnames = {hA}
    AlphaStart = {hA}
    Ifnames = {"lan", "wan"}
    WgIfnames = {}
    Addrs = {}
    Dsts = {}
    Gws = {}
    Nameservers = {}
    Loopback = lo
    PubKeys = {k1, kshort}
    KeyShaped = {k1}
    AllowedIps = {ip1, ipx}
    DigitStart = {ip1}
    Endpoints = {"none", ep1, eplong}
    ShortNoSlash = {"none", ep1}
    Keepalives = {off, 25, 2000}
    KeepaliveOff = off
    Ports = {51820, 51821}
    Portmaps = {}
    ValidPortmap = {}
    FilterRules = {}
    ValidFilter = {}
    NatGen = unset
    FilterGen = unset
    NoValue = unset
    HostConfig = TRUE
    FreeFds = 2
    MaxCmds = 6
INVARIANT PublishedKeyIsDeviceKey
\* The user may stop typing at any point; MaxCmds bounds the commands.
CHECK_DEADLOCK FALSE
