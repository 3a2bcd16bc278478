---------------------------- MODULE VtyshConfig ----------------------------
(***************************************************************************)
(* The vtysh command shell (src/wgshell/vtysh).  Each DEFUN is one action  *)
(* of the single shell thread.  A handler first edits the running          *)
(* configuration config_top, then, unless the shell is replaying a saved   *)
(* configuration (ENSURE_CONFIG returns early when vty->type == VTY_FILE), *)
(* changes the system through uci, wg, ifconfig or a file.                 *)
(*                                                                         *)
(* A configuration line is a record whose fields are the words of the      *)
(* line in order, so that config_del_line_byleft (delete every line that   *)
(* starts with a given text) is a match on leading fields.  Arguments are  *)
(* model values; the tests the handlers make on their text (first          *)
(* character, length, a '/') are the subsets named in the CONSTANTS.       *)
(***************************************************************************)
EXTENDS Integers, Sequences, SequencesExt, FiniteSets

CONSTANTS
    Hostnames,     \* WORD arguments of "hostname"
    AlphaStart,    \* those whose first character is a letter
    Ifnames,       \* ETHNAME arguments; "lan" and "wan" among them
    WgIfnames,     \* those starting with "wg0" or "wg1"
    Addrs,         \* "A.B.C.D A.B.C.D" address/netmask pairs of ip address
    Dsts,          \* "A.B.C.D A.B.C.D" destination/netmask pairs of routes
    Gws,           \* next hops
    Nameservers,   \* "A.B.C.D A.B.C.D" argument pairs of "nameserver"
    Loopback,      \* the nameserver "no nameserver" writes
    PubKeys,       \* PUBLICKEY arguments
    KeyShaped,     \* those 44 characters long and ending in '='
    AllowedIps,    \* WORD arguments of allowed-ips
    DigitStart,    \* those whose first character is a digit
    Endpoints,     \* endpoint arguments, the keyword "none" among them
    ShortNoSlash,  \* those at most 128 characters long without a '/'
    Keepalives,    \* persistent-keepalive arguments: numbers and KeepaliveOff
    KeepaliveOff,  \* the keyword "off"
    Ports,         \* listenport arguments, as atoi reads them
    Portmaps,      \* argument lists of "sfirewall nat portmap"
    ValidPortmap,  \* those whose NUM starts with a digit and, for "all", ports are 0
    FilterRules,   \* argument lists of "sfirewall filter" without insert|append
    ValidFilter,   \* those that pass the handler's checks of ports, addresses, day, times
    NatGen,        \* the sections the portmap.txt generator writes, NoValue if no file
    FilterGen,     \* the sections the filter.txt generator writes, NoValue if no file
    NoValue,       \* an unset field, address or port
    HostConfig,    \* FALSE when host.config is NULL (vtysh without a file)
    FreeFds,       \* descriptors a new shell can still open (RLIMIT_NOFILE less those in use)
    MaxCmds        \* bound on the number of commands in a behaviour

ASSUME AlphaStart \subseteq Hostnames
ASSUME {"lan", "wan"} \subseteq Ifnames /\ WgIfnames \subseteq Ifnames \ {"lan", "wan"}
ASSUME Loopback \notin Nameservers
ASSUME KeyShaped \subseteq PubKeys /\ DigitStart \subseteq AllowedIps
ASSUME "none" \in Endpoints /\ ShortNoSlash \subseteq Endpoints
ASSUME KeepaliveOff \in Keepalives /\ \A p \in Keepalives \ {KeepaliveOff} : p \in Nat
ASSUME Ports \subseteq Nat
ASSUME ValidPortmap \subseteq Portmaps /\ ValidFilter \subseteq FilterRules
ASSUME HostConfig \in BOOLEAN /\ MaxCmds \in Nat /\ FreeFds \in Nat \ {0}

VARIABLES
    node,       \* vty->node, or "exited" after exit(0)
    running,    \* config_top
    startup,    \* the lines of host.config as a process reads it (the page cache)
    disk,       \* the lines of host.config the kernel has written back to the disk
    wpc,        \* "writing" between fopen(host.config, "w") and the dump
    saved,      \* the configuration the last completed "write" saved
    fresh,      \* TRUE right after the shell started and replayed startup
    cmds,       \* number of commands run so far
    leaked,     \* FILEs the shell opened and never closed
    sysHost,    \* the system hostname (sethostname + uci system)
    uciRoutes,  \* the network.@route sections, in order
    resolv,     \* the nameservers in /etc/resolv.conf
    uciNet,     \* network.lan / network.wan: an address, "dhcp" or NoValue
    ifAddr,     \* the address ifconfig gave each interface, NoValue if down
    wgPort,     \* the listen port of the wg0 device
    wgLink,     \* wg0 is up
    wgPeers,    \* the peers of wg0: allowed-ips, endpoint, keepalive
    fwRules,    \* the sections of /etc/config/firewall, in order
    keyFile,    \* the key in CONFIG_DIR/privatekey (and its publickey), 0 if none
    devKey,     \* the private key wg0 uses, 0 if none
    keyGen,     \* number of keys "wg genkey" generated so far
    orgFw,      \* /etc/config/firewall.ORG, NoValue until the first apply
    sfNat,      \* /etc/config/sfirewall_nat
    sfFilter    \* /etc/config/sfirewall_filter

shellVars == << node, running, startup, wpc, saved, fresh, cmds, leaked >>
ipVars == << sysHost, uciRoutes, resolv, uciNet, ifAddr >>
wgVars == << wgPort, wgLink, wgPeers, fwRules, keyFile, devKey, keyGen >>
fwVars == << orgFw, sfNat, sfFilter >>
vars == << shellVars, ipVars, wgVars, fwVars >>
fileVars == << startup, disk, wpc, saved, leaked >>
sysVars == << ipVars, wgVars, fwVars >>

-----------------------------------------------------------------------------
(* Configuration lines and the config_top list operations.                 *)

HostnameLine(h) == [kind |-> "hostname", name |-> h]
RouteLine(d, g, i) == [kind |-> "route", dst |-> d, gw |-> g, ifname |-> i]
NameserverLine(n) == [kind |-> "nameserver", ns |-> n]
AddressLine(i, a) == [kind |-> "address", ifname |-> i, addr |-> a]
ListenportLine(p) == [kind |-> "listenport", port |-> p]
LinkLine(up) == [kind |-> "link", up |-> up]
PortmapLine(m) == [kind |-> "portmap", args |-> m]
FilterLine(r, pos) == [kind |-> "filter", rule |-> r, pos |-> pos]

\* The four forms of "wg peer": the key, then allowed-ips, endpoint and
\* persistent-keepalive, each form extending the one before.
PeerLine(k, f) == [x \in {"kind", "key"} \cup DOMAIN f |->
                     IF x = "kind" THEN "peer" ELSE IF x = "key" THEN k ELSE f[x]]

\* The line starts with the text of prefix p.
LeftMatch(l, p) == DOMAIN p \subseteq DOMAIN l /\ \A f \in DOMAIN p : l[f] = p[f]

\* config_add_line appends to config_top.
config_add_line(run, l) == Append(run, l)

\* config_del_line removes the lines equal to l.
config_del_line(run, l) == SelectSeq(run, LAMBDA x : x # l)

\* config_del_line_byleft removes the lines that start with p.
config_del_line_byleft(run, p) == SelectSeq(run, LAMBDA x : ~LeftMatch(x, p))

\* wg listenport: config_del_line_byleft("wg listenport"), config_add_line.
ListenportEffect(run, l) ==
    config_add_line(config_del_line_byleft(run, [kind |-> "listenport"]), l)

\* wg peer ...: config_del_line_byleft("wg peer KEY"), config_add_line.
PeerEffect(run, l) ==
    config_add_line(config_del_line_byleft(run, [kind |-> "peer", key |-> l.key]), l)

\* wg link-up|link-down: deletes both "wg link-up" and "wg link-down".
LinkEffect(run, l) ==
    LET noUp == config_del_line_byleft(run, [kind |-> "link", up |-> TRUE])
    IN config_add_line(config_del_line_byleft(noUp, [kind |-> "link", up |-> FALSE]), l)

\* sfirewall nat portmap ...: config_del_line of the same line, then add.
PortmapEffect(run, l) == config_add_line(config_del_line(run, l), l)

\* sfirewall filter ... (insert|append) ...: deletes the line of the other
\* form "to prevent duplicate rules", then the same line, then adds it.
FilterEffect(run, l) ==
    LET other == [l EXCEPT !.pos = IF @ = "insert" THEN "append" ELSE "insert"]
    IN config_add_line(config_del_line(config_del_line(run, other), l), l)

\* Mutant: deletes "ip address ETHNAME A.B.C.D" instead of "ip address ETHNAME".
AddressEffectFullLine(run, l) ==
    config_add_line(config_del_line_byleft(run, [kind |-> "address", ifname |-> l.ifname,
                                                 addr |-> l.addr]), l)

\* ip address ETHNAME ...: config_del_line_byleft("ip address ETHNAME").
AddressEffect(run, l) ==
    config_add_line(config_del_line_byleft(run, [kind |-> "address", ifname |-> l.ifname]), l)

\* hostname: config_del_line_byleft("hostname") then config_add_line.
HostnameEffect(run, l) ==
    config_add_line(config_del_line_byleft(run, [kind |-> "hostname"]), l)

\* ip route: config_del_line of the same line, then config_add_line.
RouteEffect(run, l) == config_add_line(config_del_line(run, l), l)

\* nameserver: config_del_line_byleft("nameserver") then config_add_line.
NameserverEffect(run, l) ==
    config_add_line(config_del_line_byleft(run, [kind |-> "nameserver"]), l)

\* The effect of one line on config_top, as its handler makes it whether the
\* line is typed or read from the configuration file.
ConfigEffect(run, l) ==
    CASE l.kind = "hostname" -> HostnameEffect(run, l)
      [] l.kind = "route" -> RouteEffect(run, l)
      [] l.kind = "nameserver" -> NameserverEffect(run, l)
      [] l.kind = "listenport" -> ListenportEffect(run, l)
      [] l.kind = "peer" -> PeerEffect(run, l)
      [] l.kind = "link" -> LinkEffect(run, l)
      [] l.kind = "address" -> AddressEffect(run, l)
      [] l.kind = "portmap" -> PortmapEffect(run, l)
      [] l.kind = "filter" -> FilterEffect(run, l)

\* vtysh starts by reading host.config with vty->type = VTY_FILE: every line
\* runs its handler, which stops at ENSURE_CONFIG after editing config_top.
ReadConfig(lines) == FoldLeft(ConfigEffect, << >>, lines)


-----------------------------------------------------------------------------
\* What the kernel holds at boot: the wg0 device is empty and down, and the
\* network scripts bring lan and wan up from uci.
BootAddr == [i \in Ifnames |-> IF i \in {"lan", "wan"} THEN uciNet[i] ELSE NoValue]

Init ==
    /\ node = "view"
    /\ running = << >>
    /\ startup = << >>
    /\ disk = << >>
    /\ wpc = "idle"
    /\ saved = << >>
    /\ fresh = TRUE
    /\ cmds = 0
    /\ leaked = 0
    /\ sysHost \in Hostnames
    /\ uciRoutes = << >>
    /\ resolv = Loopback
    /\ uciNet = [i \in {"lan", "wan"} |-> NoValue]
    /\ ifAddr = [i \in Ifnames |-> NoValue]
    /\ wgPort = NoValue
    /\ wgLink = FALSE
    /\ wgPeers = [k \in PubKeys |-> NoValue]
    /\ fwRules = << [name |-> "Allow-DHCP-Renew", port |-> NoValue] >>
    /\ keyFile = 0
    /\ devKey = 0
    /\ keyGen = 0
    /\ orgFw = NoValue
    /\ sfNat = << >>
    /\ sfFilter = << >>

\* fopen succeeds while the shell has n more descriptors free (EMFILE
\* otherwise); an fclose gives the descriptor back.
FdsFree(n) == leaked + n <= FreeFds

\* A command of the shell; its handler runs to completion.
Cmd(n) == node = n /\ wpc = "idle" /\ cmds < MaxCmds /\ cmds' = cmds + 1 /\ fresh' = FALSE

-----------------------------------------------------------------------------
(* cmd_common.c                                                            *)

\* enable: host.enable and host.enable_encrypt are never set (the password
\* commands are compiled out), so the shell goes to ENABLE_NODE.
enable ==
    /\ Cmd("view")
    /\ node' = "enable"
    /\ UNCHANGED << running, fileVars, sysVars >>

disable ==
    /\ Cmd("enable")
    /\ node' = "view"
    /\ UNCHANGED << running, fileVars, sysVars >>

config_terminal ==
    /\ Cmd("enable")
    /\ node' = "config"
    /\ UNCHANGED << running, fileVars, sysVars >>

\* exit: down one node; exit(0) ends the shell in VIEW_NODE.
config_exit ==
    /\ \E n \in {"view", "enable", "config"} : Cmd(n)
    /\ node' = CASE node = "view" -> "exited"
                 [] node = "enable" -> "view"
                 [] node = "config" -> "enable"
    /\ UNCHANGED << running, fileVars, sysVars >>

\* write file: fails without host.config or when fopen fails; otherwise
\* fopen(host.config, "w") truncates the file, and the FILE is never
\* closed ...
config_write_file ==
    /\ \E n \in {"enable", "config"} : Cmd(n)
    /\ IF HostConfig /\ FdsFree(1)
       THEN /\ startup' = << >>
            /\ wpc' = "writing"
            /\ leaked' = leaked + 1
       ELSE UNCHANGED << startup, wpc, leaked >>
    /\ UNCHANGED << node, running, disk, saved, sysVars >>

\* ... and config_dump writes config_top into it, then fflush: the lines
\* reach the kernel, not the disk (there is neither fsync nor fclose).
config_write_file_dump ==
    /\ wpc = "writing"
    /\ startup' = running
    /\ saved' = running
    /\ wpc' = "idle"
    /\ UNCHANGED << node, running, disk, fresh, cmds, leaked, sysVars >>

\* The kernel writes the dirty pages of host.config back, at a time of its
\* own choosing: the disk then holds the file as processes see it.
Writeback ==
    /\ disk # startup
    /\ disk' = startup
    /\ UNCHANGED << node, running, startup, wpc, saved, fresh, cmds, leaked, sysVars >>

\* hostname WORD
config_hostname(h) ==
    /\ Cmd("config")
    /\ h \in AlphaStart
    /\ running' = ConfigEffect(running, HostnameLine(h))
    /\ sysHost' = h
    /\ UNCHANGED << node, fileVars, uciRoutes, resolv, uciNet, ifAddr, wgVars, fwVars >>

\* no hostname: host.name is cleared and the line deleted; the system name
\* is only reset on NANO_R2S_PLUS builds.
config_no_hostname ==
    /\ Cmd("config")
    /\ running' = config_del_line_byleft(running, [kind |-> "hostname"])
    /\ UNCHANGED << node, fileVars, sysVars >>

-----------------------------------------------------------------------------
(* cmd_ip.c                                                                *)

\* The interfaces ip address and ip route accept: lan, wan, wg0*, wg1*.
SupportedIf(i) == i \in {"lan", "wan"} \cup WgIfnames

\* ip address ETHNAME A.B.C.D A.B.C.D: uci for lan and wan (wan restarts the
\* network), then ifconfig ETHNAME A netmask M.
ip_address(i, a) ==
    /\ Cmd("config")
    /\ SupportedIf(i)
    /\ running' = ConfigEffect(running, AddressLine(i, a))
    /\ uciNet' = IF i \in {"lan", "wan"} THEN [uciNet EXCEPT ![i] = a] ELSE uciNet
    /\ ifAddr' = [ifAddr EXCEPT ![i] = a]
    /\ UNCHANGED << node, fileVars, sysHost, uciRoutes, resolv, wgVars, fwVars >>

\* no ip address ETHNAME: asks for confirmation; an answer not starting with
\* 'y' cancels, but end of input (fgets returns NULL) goes ahead.  No
\* ENSURE_CONFIG: the handler never runs in file mode ("no" lines are not
\* saved).  The uci fields of lan/wan are deleted and ifconfig takes the
\* interface down.
no_ip_address(i, answer) ==
    /\ Cmd("config")
    /\ SupportedIf(i)
    /\ IF answer = "n"
       THEN UNCHANGED << running, uciNet, ifAddr >>
       ELSE /\ running' = config_del_line_byleft(running, [kind |-> "address", ifname |-> i])
            /\ uciNet' = IF i \in {"lan", "wan"} THEN [uciNet EXCEPT ![i] = NoValue] ELSE uciNet
            /\ ifAddr' = [ifAddr EXCEPT ![i] = NoValue]
    /\ UNCHANGED << node, fileVars, sysHost, uciRoutes, resolv, wgVars, fwVars >>

\* ip address wan dhcp: only wan; uci proto=dhcp and a network restart.
ip_address_dhcp(i) ==
    /\ Cmd("config")
    /\ i = "wan"
    /\ running' = ConfigEffect(running, AddressLine(i, "dhcp"))
    /\ uciNet' = [uciNet EXCEPT ![i] = "dhcp"]
    /\ ifAddr' = [ifAddr EXCEPT ![i] = "dhcp"]
    /\ UNCHANGED << node, fileVars, sysHost, uciRoutes, resolv, wgVars, fwVars >>

\* Mutant: the uci gateway and interface are taken from swapped argv slots.
ip_route_swapped(d, g, i) ==
    /\ Cmd("config")
    /\ SupportedIf(i)
    /\ running' = ConfigEffect(running, RouteLine(d, g, i))
    /\ uciRoutes' = Append(uciRoutes, [dst |-> d, gw |-> i, ifname |-> g])
    /\ UNCHANGED << node, fileVars, sysHost, resolv, uciNet, ifAddr, wgVars, fwVars >>

\* ip route A.B.C.D A.B.C.D A.B.C.D ETHNAME: the line is made unique in
\* config_top, but "uci add network route" always adds a new section.
ip_route(d, g, i) ==
    /\ Cmd("config")
    /\ SupportedIf(i)
    /\ running' = ConfigEffect(running, RouteLine(d, g, i))
    /\ uciRoutes' = Append(uciRoutes, [dst |-> d, gw |-> g, ifname |-> i])
    /\ UNCHANGED << node, fileVars, sysHost, resolv, uciNet, ifAddr, wgVars, fwVars >>

\* no ip route A.B.C.D A.B.C.D: deletes the lines for that destination, then
\* "uci delete network.@route[-1]", the last route section, whichever it is.
no_ip_route(d) ==
    /\ Cmd("config")
    /\ running' = config_del_line_byleft(running, [kind |-> "route", dst |-> d])
    /\ uciRoutes' = SubSeq(uciRoutes, 1, Len(uciRoutes) - 1)
    /\ UNCHANGED << node, fileVars, sysHost, resolv, uciNet, ifAddr, wgVars, fwVars >>

\* nameserver A.B.C.D A.B.C.D: rewrites /etc/resolv.conf, unless fopen fails.
config_dns(n) ==
    /\ Cmd("config")
    /\ running' = ConfigEffect(running, NameserverLine(n))
    /\ resolv' = IF FdsFree(1) THEN n ELSE resolv
    /\ UNCHANGED << node, fileVars, sysHost, uciRoutes, uciNet, ifAddr, wgVars, fwVars >>

\* no nameserver: resolv.conf gets 127.0.0.1, unless fopen fails.
config_no_dns ==
    /\ Cmd("config")
    /\ running' = config_del_line_byleft(running, [kind |-> "nameserver"])
    /\ resolv' = IF FdsFree(1) THEN Loopback ELSE resolv
    /\ UNCHANGED << node, fileVars, sysHost, uciRoutes, uciNet, ifAddr, wgVars, fwVars >>

-----------------------------------------------------------------------------
(* cmd_vpn.c                                                               *)

\* atoi: leading blanks, an optional sign, then decimal digits up to the
\* first character that is not one.
DigitChars == << "0", "1", "2", "3", "4", "5", "6", "7", "8", "9" >>
IsDigit(c) == \E j \in 1..10 : DigitChars[j] = c
DigitValue(c) == CHOOSE v \in 0..9 : DigitChars[v + 1] = c

RECURSIVE AtoiDigits(_, _)
AtoiDigits(s, acc) ==
    IF s # << >> /\ IsDigit(Head(s))
    THEN AtoiDigits(Tail(s), 10 * acc + DigitValue(Head(s)))
    ELSE acc

RECURSIVE Atoi(_)
Atoi(s) ==
    CASE s = << >> -> 0
      [] Head(s) \in {" ", "\t", "\n"} -> Atoi(Tail(s))
      [] Head(s) = "-" -> -AtoiDigits(Tail(s), 0)
      [] Head(s) = "+" -> AtoiDigits(Tail(s), 0)
      [] OTHER -> AtoiDigits(s, 0)

RECURSIVE Decimal(_)
Decimal(n) == IF n < 10 THEN << DigitChars[n + 1] >>
              ELSE Decimal(n \div 10) \o << DigitChars[(n % 10) + 1] >>

WgInbound == "Allow-WG-Inbound"

\* The first line of: uci show firewall | grep Allow-WG-Inbound | awk -F'='
\* '{ print $1 }' | sed s/.name//g, which for section j is
\* "firewall.@rule[N]" and a newline, N counting the rule sections before it
\* (redirect sections are not rules).
UciRulePath(rules, j) ==
    LET n == Cardinality({i \in 1..(j - 1) : rules[i].name # "redirect"})
    IN << "f", "i", "r", "e", "w", "a", "l", "l", ".", "@", "r", "u", "l", "e", "[" >>
         \o Decimal(n) \o << "]", "\n" >>

\* fwrule: -1 when grep finds nothing (fgets reads no line), else atoi of
\* the first line.
FwRule(rules) ==
    LET js == {j \in 1..Len(rules) : rules[j].name = WgInbound}
    IN IF js = {} THEN -1 ELSE Atoi(UciRulePath(rules, Min(js)))

\* "uci delete N" names a package N; no package is named by a number, so
\* uci reports "Entry not found" and the rules are unchanged.
UciDeleteNumber(rules, n) == rules

\* wg listenport NUM
wg_listenport(p) ==
    /\ Cmd("config")
    /\ running' = ConfigEffect(running, ListenportLine(p))
    /\ wgPort' = p
    /\ LET fwrule == FwRule(fwRules)
           kept == IF fwrule > 0 THEN UciDeleteNumber(fwRules, fwrule) ELSE fwRules
       IN fwRules' = Append(kept, [name |-> WgInbound, port |-> p])
    /\ UNCHANGED << node, fileVars, ipVars, wgLink, wgPeers, keyFile, devKey, keyGen, fwVars >>

\* "wg set" parses its whole command line before it changes the device;
\* "endpoint none" is not an endpoint it can parse.
WgParses(f) == "ep" \in DOMAIN f => f.ep # "none"

\* wg set wg0 ... peer K with the fields in f: fields left out keep their
\* value on an existing peer.
SetPeer(old, f) ==
    [x \in {"aips", "ep", "ka"} |->
        IF x \in DOMAIN f THEN f[x] ELSE IF old = NoValue THEN NoValue ELSE old[x]]

\* The body shared by the four "wg peer" forms once their arguments passed
\* the checks: genkey when CONFIG_DIR/privatekey is missing (before
\* ENSURE_CONFIG), the config line, then wg set with private-key and peer.
PeerCmd(k, f) ==
    /\ Cmd("config")
    /\ k \in KeyShaped
    /\ keyFile' = IF keyFile = 0 THEN keyGen + 1 ELSE keyFile
    /\ keyGen' = IF keyFile = 0 THEN keyGen + 1 ELSE keyGen
    /\ running' = ConfigEffect(running, PeerLine(k, f))
    /\ IF WgParses(f)
       THEN /\ devKey' = keyFile'
            /\ wgPeers' = [wgPeers EXCEPT ![k] = SetPeer(@, f)]
       ELSE UNCHANGED << devKey, wgPeers >>
    /\ UNCHANGED << node, fileVars, ipVars, wgPort, wgLink, fwRules, fwVars >>

NoFields == [x \in {} |-> NoValue]

\* wg peer PUBLICKEY
wg_peer_public_key(k) == PeerCmd(k, NoFields)

\* wg peer PUBLICKEY allowed-ips WORD
wg_peer_allowed_ips(k, a) ==
    /\ a \in DigitStart
    /\ PeerCmd(k, [aips |-> a])

\* wg peer PUBLICKEY allowed-ips WORD endpoint (none|FQDN:PORT|A.B.C.D:PORT)
wg_peer_endpoint(k, a, e) ==
    /\ a \in DigitStart
    /\ e \in ShortNoSlash
    /\ PeerCmd(k, [aips |-> a, ep |-> e])

\* ... persistent-keepalive (off|NUM): a number must be in 1..1800.
wg_peer_persistent_keepalive(k, a, e, p) ==
    /\ a \in DigitStart
    /\ e \in ShortNoSlash
    /\ p # KeepaliveOff => p \in 1..1800
    /\ PeerCmd(k, [aips |-> a, ep |-> e, ka |-> p])

\* no wg peer PUBLICKEY: no check of the key.
no_wg_peer(k) ==
    /\ Cmd("config")
    /\ running' = config_del_line_byleft(running, [kind |-> "peer", key |-> k])
    /\ wgPeers' = [wgPeers EXCEPT ![k] = NoValue]
    /\ UNCHANGED << node, fileVars, ipVars, wgPort, wgLink, fwRules, keyFile, devKey, keyGen, fwVars >>

\* wg (link-up|link-down): ip link set up|down dev wg0.
wg_link(up) ==
    /\ Cmd("config")
    /\ running' = ConfigEffect(running, LinkLine(up))
    /\ wgLink' = up
    /\ UNCHANGED << node, fileVars, ipVars, wgPort, wgPeers, fwRules, keyFile, devKey, keyGen, fwVars >>

\* wg regenerate-key: a new key pair in CONFIG_DIR, and wg0 uses it.
wg_rekey ==
    /\ Cmd("config")
    /\ keyGen' = keyGen + 1
    /\ keyFile' = keyGen + 1
    /\ devKey' = keyGen + 1
    /\ UNCHANGED << node, running, fileVars, ipVars, wgPort, wgLink, wgPeers, fwRules, fwVars >>

\* wg clear-key: rm publickey and privatekey; wg0 keeps its key.
wg_clearkey ==
    /\ Cmd("config")
    /\ keyFile' = 0
    /\ UNCHANGED << node, running, fileVars, ipVars, wgPort, wgLink, wgPeers, fwRules, devKey, keyGen, fwVars >>

-----------------------------------------------------------------------------
(* cmd_fw.c                                                                *)

\* sfirewall nat portmap NUM (vpn|wan) A.B.C.D (tcp|udp|all) PORT PORT: only
\* config_top changes; the rules come from portmap.txt at apply time.
sfirewall_nat_portmap(m) ==
    /\ Cmd("config")
    /\ m \in ValidPortmap
    /\ running' = ConfigEffect(running, PortmapLine(m))
    /\ UNCHANGED << node, fileVars, sysVars >>

no_sfirewall_nat_portmap(m) ==
    /\ Cmd("config")
    /\ m \in ValidPortmap
    /\ running' = config_del_line(running, PortmapLine(m))
    /\ UNCHANGED << node, fileVars, sysVars >>

\* sfirewall filter NUM ... (insert|append) ...
sfirewall_filter_rules(r, pos) ==
    /\ Cmd("config")
    /\ r \in ValidFilter
    /\ running' = ConfigEffect(running, FilterLine(r, pos))
    /\ UNCHANGED << node, fileVars, sysVars >>

\* no sfirewall filter ...: deletes only the line of the form given.
no_sfirewall_filter_rules(r, pos) ==
    /\ Cmd("config")
    /\ r \in ValidFilter
    /\ running' = config_del_line(running, FilterLine(r, pos))
    /\ UNCHANGED << node, fileVars, sysVars >>

\* apply_firewall_rules: firewall.ORG is a copy of the firewall taken the
\* first time; the new firewall is firewall.ORG followed by sfirewall_filter,
\* sfirewall_mac (only ever touched, so empty) and sfirewall_nat.
ApplyFirewallRules(filter, nat) ==
    /\ orgFw' = IF orgFw = NoValue THEN fwRules ELSE orgFw
    /\ fwRules' = orgFw' \o filter \o nat

\* An apply command: fopen(rule file, "w") may fail (nothing happens);
\* otherwise the rule file is truncated to "\n", and if the text file
\* (missing when gen is NoValue) cannot be opened the handler returns
\* there, leaving it truncated and its FILE open.  Else the generated
\* sections are written, both files closed and the firewall rebuilt.
ApplyCmd(gen, file, other, nat) ==
    /\ Cmd("config")
    /\ \/ /\ ~FdsFree(1)
          /\ UNCHANGED << fwRules, fwVars, leaked >>
       \/ /\ FdsFree(1) /\ (gen = NoValue \/ ~FdsFree(2))
          /\ file' = << >>
          /\ leaked' = leaked + 1
          /\ UNCHANGED << fwRules, orgFw, other >>
       \/ /\ FdsFree(2) /\ gen # NoValue
          /\ file' = gen
          /\ ApplyFirewallRules(IF nat THEN sfFilter ELSE gen, IF nat THEN gen ELSE sfNat)
          /\ UNCHANGED << other, leaked >>
    /\ UNCHANGED << node, running, startup, disk, wpc, saved, ipVars, wgPort, wgLink,
                    wgPeers, keyFile, devKey, keyGen >>

\* sfirewall nat portmap apply
sfirewall_nat_portmap_apply == ApplyCmd(NatGen, sfNat, sfFilter, TRUE)

\* sfirewall filter apply
sfirewall_filter_rules_apply == ApplyCmd(FilterGen, sfFilter, sfNat, FALSE)

-----------------------------------------------------------------------------
(* cmd_tool.c                                                              *)

\* system() runs "sync; sync; sleep 3" in the foreground: the dirty pages
\* of host.config reach the disk before the command returns.
Sync == disk' = startup

\* reboot: on a "y" answer the syncs run, then "reboot -f" is started in
\* the background and the shell exits; the forced reboot that follows is
\* PowerLoss.  Any other answer, or end of file, changes nothing.
config_reboot(ans) ==
    /\ Cmd("config")
    /\ IF ans = "y" THEN node' = "exited" /\ Sync ELSE UNCHANGED << node, disk >>
    /\ UNCHANGED << running, startup, wpc, saved, leaked, sysVars >>

\* poweroff: on "y" the syncs run and "poweroff" is started in the
\* background; the shell returns to the prompt and keeps taking commands
\* until the power goes (PowerLoss).  Any other answer changes nothing.
config_poweroff(ans) ==
    /\ Cmd("config")
    /\ IF ans = "y" THEN Sync ELSE UNCHANGED disk
    /\ UNCHANGED << node, running, startup, wpc, saved, leaked, sysVars >>

-----------------------------------------------------------------------------
(* Starting the shell again                                                *)

\* Replaying a peer line with no key file runs "wg genkey" once.
ReplayGenKey(lines) == keyFile = 0 /\ \E j \in 1..Len(lines) : lines[j].kind = "peer"

\* The shell reads host.config, whose lines are cfg, in file mode.
StartShell(cfg) ==
    /\ node' = "view"
    /\ running' = ReadConfig(cfg)
    /\ fresh' = TRUE
    /\ leaked' = 0
    /\ keyFile' = IF ReplayGenKey(cfg) THEN keyGen + 1 ELSE keyFile
    /\ keyGen' = IF ReplayGenKey(cfg) THEN keyGen + 1 ELSE keyGen

\* After exit(0) a new vtysh process starts (the next login); the files,
\* uci and the kernel state persist.
Relaunch ==
    /\ node = "exited"
    /\ StartShell(startup)
    /\ UNCHANGED << startup, disk, wpc, saved, cmds, ipVars, wgPort, wgLink, wgPeers, fwRules,
                    devKey, fwVars >>

\* Power loss at any point, then a boot that starts the shell: host.config
\* is what had reached the disk (a write in progress may have left it
\* truncated), uci and the key files persist, the kernel state is rebuilt
\* from uci.
PowerLoss ==
    /\ cmds < MaxCmds
    /\ cmds' = cmds + 1
    /\ startup' = disk
    /\ StartShell(disk)
    /\ wpc' = "idle"
    /\ ifAddr' = BootAddr
    /\ wgPort' = NoValue
    /\ wgLink' = FALSE
    /\ wgPeers' = [k \in PubKeys |-> NoValue]
    /\ devKey' = 0
    /\ UNCHANGED << disk, saved, sysHost, uciRoutes, resolv, uciNet, fwRules, fwVars >>

-----------------------------------------------------------------------------
Next ==
    \/ enable \/ disable \/ config_terminal \/ config_exit
    \/ config_write_file \/ config_write_file_dump \/ Writeback
    \/ \E h \in Hostnames : config_hostname(h)
    \/ config_no_hostname
    \/ \E i \in Ifnames, a \in Addrs : ip_address(i, a)
    \/ \E i \in Ifnames, ans \in {"y", "n", "eof"} : no_ip_address(i, ans)
    \/ \E i \in Ifnames : ip_address_dhcp(i)
    \/ \E d \in Dsts, g \in Gws, i \in Ifnames : ip_route(d, g, i)
    \/ \E d \in Dsts : no_ip_route(d)
    \/ \E n \in Nameservers : config_dns(n)
    \/ config_no_dns
    \/ \E p \in Ports : wg_listenport(p)
    \/ \E k \in PubKeys : wg_peer_public_key(k)
    \/ \E k \in PubKeys, a \in AllowedIps : wg_peer_allowed_ips(k, a)
    \/ \E k \in PubKeys, a \in AllowedIps, e \in Endpoints : wg_peer_endpoint(k, a, e)
    \/ \E k \in PubKeys, a \in AllowedIps, e \in Endpoints, p \in Keepalives :
          wg_peer_persistent_keepalive(k, a, e, p)
    \/ \E k \in PubKeys : no_wg_peer(k)
    \/ \E up \in BOOLEAN : wg_link(up)
    \/ wg_rekey \/ wg_clearkey
    \/ \E m \in Portmaps : sfirewall_nat_portmap(m) \/ no_sfirewall_nat_portmap(m)
    \/ \E r \in FilterRules, pos \in {"insert", "append"} :
          sfirewall_filter_rules(r, pos) \/ no_sfirewall_filter_rules(r, pos)
    \/ sfirewall_nat_portmap_apply \/ sfirewall_filter_rules_apply
    \/ \E ans \in {"y", "n"} : config_reboot(ans)
    \/ \E ans \in {"y", "n"} : config_poweroff(ans)
    \/ Relaunch \/ PowerLoss

\* The shell is driven by a user: nothing forces a next command.
Spec == Init /\ [][Next]_vars

-----------------------------------------------------------------------------
(* Properties                                                              *)

PeerFieldSets ==
    {NoFields} \cup {[aips |-> a] : a \in AllowedIps}
      \cup {[aips |-> a, ep |-> e] : a \in AllowedIps, e \in Endpoints}
      \cup {[aips |-> a, ep |-> e, ka |-> p] : a \in AllowedIps, e \in Endpoints, p \in Keepalives}

Line ==
    {HostnameLine(h) : h \in Hostnames}
      \cup {RouteLine(d, g, i) : d \in Dsts, g \in Gws, i \in Ifnames}
      \cup {NameserverLine(n) : n \in Nameservers}
      \cup {AddressLine(i, a) : i \in Ifnames, a \in Addrs \cup {"dhcp"}}
      \cup {ListenportLine(p) : p \in Ports}
      \cup {LinkLine(up) : up \in BOOLEAN}
      \cup {PeerLine(k, f) : k \in PubKeys, f \in PeerFieldSets}
      \cup {PortmapLine(m) : m \in Portmaps}
      \cup {FilterLine(r, pos) : r \in FilterRules, pos \in {"insert", "append"}}

Opt(S) == S \cup {NoValue}

\* Sections of the firewall: the default rule, WireGuard rules, and the
\* generated redirect and filter sections.
Section == [name : {"Allow-DHCP-Renew", WgInbound, "redirect", "SFIREWALL_FILTER"},
            port : Opt(Ports)]

TypeOK ==
    /\ node \in {"view", "enable", "config", "exited"}
    /\ running \in Seq(Line) /\ startup \in Seq(Line) /\ disk \in Seq(Line)
    /\ saved \in Seq(Line)
    /\ wpc \in {"idle", "writing"}
    /\ fresh \in BOOLEAN
    /\ cmds \in 0..MaxCmds
    /\ leaked \in 0..FreeFds
    /\ sysHost \in Hostnames
    /\ uciRoutes \in Seq([dst : Dsts, gw : Gws, ifname : Ifnames])
    /\ resolv \in Nameservers \cup {Loopback}
    /\ uciNet \in [{"lan", "wan"} -> Opt(Addrs \cup {"dhcp"})]
    /\ ifAddr \in [Ifnames -> Opt(Addrs \cup {"dhcp"})]
    /\ wgPort \in Opt(Ports)
    /\ wgLink \in BOOLEAN
    /\ wgPeers \in [PubKeys -> Opt([aips : Opt(AllowedIps), ep : Opt(Endpoints),
                                    ka : Opt(Keepalives)])]
    /\ fwRules \in Seq(Section) /\ orgFw \in Opt(Seq(Section))
    /\ sfNat \in Seq(Section) /\ sfFilter \in Seq(Section)
    /\ keyFile \in 0..keyGen /\ devKey \in 0..keyGen

\* What config_del_line_byleft removes before each handler adds its line.
LineKey(l) ==
    CASE l.kind = "peer" -> << "peer", l.key >>
      [] l.kind = "address" -> << "address", l.ifname >>
      [] l.kind = "route" -> << "route", l.dst, l.gw, l.ifname >>
      [] l.kind = "portmap" -> << "portmap", l.args >>
      [] l.kind = "filter" -> << "filter", l.rule >>
      [] OTHER -> << l.kind >>

\* The running configuration never holds two lines for one peer, one
\* interface address, one listen port, one link state, one hostname or one
\* nameserver pair, and never both the insert and the append form of a
\* filter rule, however commands, writes and restarts interleave: each
\* handler deletes the lines its own line replaces.
OneLinePerKey ==
    \A i, j \in 1..Len(running) : i # j => LineKey(running[i]) # LineKey(running[j])

\* The routes uci will install at boot are the routes config_top lists:
\* "ip route" and "no ip route" ("Disable the ip route") keep the two in step.
RoutesAgree ==
    ToSet(uciRoutes)
      = {[dst |-> l.dst, gw |-> l.gw, ifname |-> l.ifname] :
            l \in {x \in ToSet(running) : x.kind = "route"}}

\* A shell that has just started shows the configuration the last "write"
\* reported as saved ("Configuration saved SUCCESS").
RestartRestoresSaved == fresh => running = saved

\* "wg listenport" deletes the existing Allow-WG-Inbound firewall rule before
\* it adds the one for the new port (the comment of cmd_vpn.c:58).
WgInboundRuleUnique ==
    Cardinality({j \in 1..Len(fwRules) : fwRules[j].name = WgInbound}) <= 1

\* wg listenport opens the port wg0 listens on: it adds an Allow-WG-Inbound
\* firewall rule for that port, and the firewall applies must keep it.
WgPortOpen ==
    wgPort # NoValue =>
        \E j \in 1..Len(fwRules) : fwRules[j].name = WgInbound /\ fwRules[j].port = wgPort

\* The sections the apply commands generate, in the order they stand.
GeneratedSections(rules) ==
    SelectSeq(rules, LAMBDA x : x.name \in {"redirect", "SFIREWALL_FILTER"})

\* apply_firewall_rules rebuilds the firewall from sfirewall_filter and
\* sfirewall_nat, so the generated rules the firewall runs with must be the
\* ones those files hold: otherwise the next apply of one kind silently
\* changes the rules of the other kind.
FirewallMatchesRuleFiles == GeneratedSections(fwRules) = sfFilter \o sfNat

\* CONFIG_DIR/publickey, which "wg regenerate-key" shows as "My Public key",
\* belongs to the private key wg0 uses whenever both exist.
PublishedKeyIsDeviceKey == keyFile # 0 /\ devKey # 0 => keyFile = devKey

====
