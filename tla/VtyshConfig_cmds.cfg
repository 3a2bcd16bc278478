\* All vtysh commands: node, hostname, addresses, routes, DNS, WireGuard, firewall, write and restarts.
SPECIFICATION Spec
CONSTANTS
    Hostnames = {hA, h9}
    AlphaStart = {hA}
    Ifnames = {"lan", "wan", "wg0"}
    WgIfnames = {"wg0"}
    Addrs = {a1}
    Dsts = {d1, d2}
    Gws = {g1}
    Nameservers = {n1}
    Loopback = lo
    PubKeys = {k1, kshort}
    KeyShaped = {k1}
    AllowedIps = {ip1, ipx}
    DigitStart = {ip1}
    Endpoints = {"none", ep1, eplong}
    ShortNoSlash = {"none", ep1}
    Keepalives = {off, 25, 2000}
    KeepaliveOff = off
    Ports = {51820, 51821}
    Portmaps = {m1, mbad}
    ValidPortmap = {m1}
    FilterRules = {r1, rbad}
    ValidFilter = {r1}
    NatGen <- MC_NatGen
    FilterGen <- MC_FilterGen
    NoValue = unset
    HostConfig = TRUE
    FreeFds = 2
    MaxCmds = 6
INVARIANT TypeOK
INVARIANT OneLinePerKey
\* The user may stop typing at any point; MaxCmds bounds the commands.
CHECK_DEADLOCK FALSE
