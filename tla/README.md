# TLA+ models of qr-wireguard-ui

This directory holds TLA+ specifications of the programs under `src/`,
the TLC configurations that check them, and `PROJECT.json`, which maps every
modelled definition to the source lines it translates, lists the runs, the
mutants that show each property can fail, the findings and the hazards.

## 1. The system

Two programs live in `src/`:

* **web-agentd** (`src/webagent/cpp/src`): a TCP server on port 51821. Its
  parts are:
  * `TcpServer` (`server.cpp`): the listening socket, the list `_clients`
    guarded by `_clientsMtx`, the subscriber list guarded by
    `_subscribersMtx`, and the dead-clients remover thread
    (`removeDeadClients`), which every 2 s locks the list, finds a client
    with `!isConnected()`, closes it, deletes it, and erases it from the list.
  * `Client` (`client.cpp`, not in the repository; spec 4.2): it owns one
    socket and one receive thread. The thread delivers every chunk through
    `clientEventHandler` to the matching subscribers. On end of stream or
    error it marks the client disconnected, publishes `DISCONNECTED` and
    returns. `~Client` joins that thread.
  * the main driver (`main.cpp`): it installs `sig_handler` for
    SIGINT/SIGQUIT/SIGTERM, starts the server, subscribes one observer for
    127.0.0.1, and loops on `acceptClient(0)`. The handler calls
    `setTerminate(true)`, then `server.close()`, then `exit()`, all on
    whatever thread it interrupted. That is the main thread, which may be
    inside `acceptClient`.

  The interacting threads are: main (or the signal handler on its stack),
  the remover, one receive thread per client, and the remote peers. They
  meet at `_clientsMtx`, at the join of the remover in
  `terminateDeadClientsRemover`, and at the join of a receive thread in
  `~Client`.
* **vtysh** (`src/wgshell/vtysh`): a router-style command shell. Its
  commands edit a running configuration (`config_top`, a list of lines
  changed with `config_add_line`, `config_del_line` and
  `config_del_line_byleft`). Outside file mode, where `ENSURE_CONFIG`
  returns early while a saved configuration is replayed, they also change
  the system through `uci`, `wg`, `ifconfig` and generated firewall files.
  The command families are:
  * node commands and hostname (`cmd_common.c`);
  * addresses, routes and DNS (`cmd_ip.c`);
  * WireGuard (`cmd_vpn.c`);
  * firewall port maps and filters with their apply generators (`cmd_fw.c`);
  * tools (`cmd_tool.c`).

  The shell is single-threaded. What makes it hard is long sequences of
  commands, the agreement between the running configuration and the system
  state each command edits, and the parsing in the apply generators.

## 2. Modules

| Module | Models | Source |
|---|---|---|
| `TcpServer` | The server, the main driver, the signal handler, the remover, the client receive threads and the peers | `server.cpp`, `main.cpp`, spec 4.2 for `Client` |
| `ConnectionLifecycle` | What the server promises per connection, without threads or locks: accept, in-order delivery, drop only at the peer's end of stream or at shutdown, notification, free, exit. `TcpServer` refines it | spec 4.2, 4.4, 5 |
| `MC_TcpServer` | Constants for TLC: two connections with different IPs, observer lists, signal windows | – |
| `VtyshConfig` | The vtysh shell: node commands, hostname, write file, the `cmd_ip.c` and `cmd_vpn.c` handlers, restarts and power loss | `cmd_common.c`, `cmd_ip.c`, `cmd_vpn.c`, `vtysh_config.h` |
| `MC_VtyshConfig` | Instantiation for TLC; the argument sets are model values in the cfgs | – |
| `FirewallApply` | The rule generators of `sfirewall nat portmap apply` and `sfirewall filter apply`: one action per iteration of each `fgets` loop, with `fgets`, the newline strip, `strncmp` and `strtok` as operators over strings | `cmd_fw.c` 209-266, 714-836 |
| `MC_FirewallApply` | Candidate lines of `portmap.txt` and `filter.txt` for TLC | – |

### TcpServer: state

| Variable | Code |
|---|---|
| `mpc`, `mcur` | The main thread's position in `main`/`acceptClient`, and the Client being accepted |
| `cpc`, `dtor` | The position in `close()`, run by `sig_handler` or by `~TcpServer`; `"gone"` once `~TcpServer` has destroyed the members, `"exited"` when the process ends. `dtor` says the running `close()` is the destructor's |
| `outer` | Where a second `sig_handler` interrupted the first one's `close()`, or `"none"` |
| `terminate` | `_flagTerminate` |
| `stopReaper` | `_stopRemoveClientsTask` |
| `rp`, `rcur` | The remover's position and the client it is deleting |
| `owner` | The holder of `_clientsMtx` |
| `clients` | `_clients`, in order |
| `subs` | `_subscribers`: each has `wantedIP` and which of the three callback slots are set |
| `lsock`, `peer`, `sent` | The listening socket, and each peer's connection and the number of chunks it sent |
| `recvd`, `connected`, `fd`, `rpc`, `cstate` | Per Client: chunks read, the connected flag, its socket, its receive thread, and whether the object exists or was deleted |
| `inbox` | The callbacks each subscriber received for each client, in order |

### TcpServer: actions

Each action is one step of one thread, cut at the points where another
thread can observe a difference. These are lock acquisitions, joins, and
updates of shared variables.

* **Main thread:** `Start`, `Subscribe`, `AcceptLoop`, `WaitForClient`,
  `AcceptClient`, `StartListen`, `LockClientsForPush`, `PushClient`,
  `ReturnFromMain`.
* **Signal:** `Signal` is `sig_handler` up to the call of `close()`. It can
  fire whenever `mpc` is in `SignalWindow`.
* **Nested signal:** `signal()` blocks only the signal being handled, so
  another of SIGINT, SIGTERM and SIGQUIT can run `sig_handler` again on the
  same stack. `NestedSignal` fires when the first handler's `close()` is at
  a point of `NestedWindow`. It records that point in `outer` and starts
  `close()` from the top. The interrupted `close()` never resumes, because
  `exit()` follows the nested one, and a mutex it held stays held. If the
  first `close()` was inside `join()` of the remover, the nested
  `terminateDeadClientsRemover` joins the same thread again. `pthread_join`
  then fails with `EINVAL`, and the `std::system_error` it throws ends the
  process through `std::terminate` (`JoinPending` in `CloseStopRemover`).
  At most one nested signal is delivered, and none during the destructor's
  `close()`, where `exit()` would be called twice.
* **close():**
  * `CloseStopRemover` and `CloseJoinRemover` model
    `terminateDeadClientsRemover`.
  * `CloseLockClients` and `CloseClients` are the locked loop that calls
    `client->close()` and then `clear()`.
  * `CloseServer` is `::close(_sockfd)`.
  * `StaticDestructors` is what follows a returning `close()`. In
    `sig_handler`, `exit()` runs the static destructors, and `~TcpServer`
    of the global `server` calls `close()` a second time. After the
    destructor's own `close()`, the members are destroyed (`"gone"`).
  * `ProcessExit` is the end of the process image, which stops every
    thread.
* **Remover:** `RemoverLoopTest`, `RemoverLock`, `RemoverScan`
  (`find_if` + `client->close()`), `RemoverFree` (`delete`, which joins the
  receive thread, then `erase`), `RemoverSleep`.
* **Receive thread of client `c`:**
  * `ReceiveData(c)` publishes each chunk through `publishSingleClientMsg`.
  * `ReceiveEnd(c)` is a `recv` that returns 0 or fails.
  * `ReceiveDisconnected(c)` is the `DISCONNECTED` event through
    `publishClientDisconnected`.
* **Peers:** `PeerConnect`, `PeerSend`, `PeerClose`.

The subscriber mutex guards only appends and callback loops. No two of those
change the same state, so each critical section is one atomic step.

### Refinement

`ConnectionLifecycle` states what a connection goes through, read off
the detailed state by `LifeOf(c)`:

* `none`: no Client yet;
* `live`: a connected Client;
* `down`: `connected` is false and `DISCONNECTED` is not yet published;
* `done`: the receive thread has returned;
* `freed`: the Client was deleted.

`delivered` is `recvd`, `running` is "not exited", and `stopping` is
"`close()` has begun". The abstract `Drop(c)` is allowed only when the peer
closed and every chunk was delivered, or at shutdown. So a remover that
closed a connected Client, or a receive loop that ended early, breaks the
refinement. Its fairness says that delivery, drop, notification, free
(with the remover on) and exit all happen when they stay possible.
Acceptance is not promised, because a timed accept never accepts.

### Fairness

Every thread is an OS thread under a preemptive scheduler, so each one that
can run eventually runs.

* The main, close and remover steps are strongly fair (`SF`). They compete
  for `_clientsMtx`, so their steps are only intermittently enabled. Every
  other holder keeps the mutex for a bounded scan or push, and the remover
  sleeps between scans.
* Receive threads are weakly fair.
* The peers and the signal get no fairness: a peer may never send or close,
  and a signal may never come.
* After `exit()` the model stutters (`Exited`), so deadlock checking stays
  on for the passing runs.

### VtyshConfig: state

| Variable | Code |
|---|---|
| `node` | `vty->node` (view, enable, config), or `"exited"` after `exit(0)` |
| `running` | `config_top`: a sequence of line records whose fields are the words of the line |
| `startup`, `disk`, `wpc`, `saved` | `host.config` as processes read it (the page cache) and as the disk holds it; whether `write file` has truncated it and not yet dumped; what the last completed write saved |
| `fresh` | The shell has just started and replayed `host.config` |
| `cmds` | The commands run so far, bounded by `MaxCmds` |
| `leaked` | The `FILE`s the shell opened and never closed; `FreeFds` is how many descriptors a new shell can open |
| `sysHost`, `uciRoutes`, `resolv`, `uciNet`, `ifAddr` | The hostname, the `network.@route` sections in order, `/etc/resolv.conf`, `network.lan`/`network.wan`, and the address `ifconfig` gave each interface |
| `wgPort`, `wgLink`, `wgPeers`, `devKey` | The wg0 device: listen port, link state, peers with allowed-ips, endpoint and keepalive, private key |
| `fwRules` | The `firewall.@rule` sections in order |
| `orgFw`, `sfNat`, `sfFilter` | `/etc/config/firewall.ORG` (unset until the first apply), `/etc/config/sfirewall_nat`, `/etc/config/sfirewall_filter` |
| `keyFile`, `keyGen` | The key in `CONFIG_DIR/privatekey` (and its `publickey`), and how many keys `wg genkey` made |

### VtyshConfig: actions

Every `DEFUN` that changes state is one action named after it. Its guard
is the argument checks and the node the command is installed in
(`cmd_*_init`). The action does what the handler does:

1. It edits `config_top` with `config_del_line`, `config_del_line_byleft`
   and `config_add_line`. `ConfigEffect` collects this part of each handler.
2. It changes the system: uci, wg, ifconfig and files.

Some details of the model:

* **Argument tests.** A test a handler makes on the text of an argument is a
  subset constant. Examples are a key of 44 characters ending in `=`, an
  allowed-ips word that starts with a digit, and an endpoint without `/`.
* **Write file.** `write file` is two steps: `fopen(..., "w")` truncates the
  file, then `config_dump` writes it and `fflush` hands it to the kernel. A
  power loss can fall between them. There is no `fsync`: `Writeback` is
  the kernel writing the file's pages to disk at a time of its choosing
  (or the `sync` of `reboot` and `poweroff`), and `PowerLoss` restarts from `disk`, not from `startup`.
* **Start-up.** The shell starts by replaying `host.config` in file mode
  (`ReadConfig`, a fold of `ConfigEffect`). `ENSURE_CONFIG` stops each
  handler before its system effects. The key test of the `wg peer` forms
  comes before `ENSURE_CONFIG`, so a replay can run `wg genkey`
  (`ReplayGenKey`).
* **Reboot and poweroff** (`cmd_tool.c`). On a `y` answer, `system()` runs
  `sync; sync; sleep 3` in the foreground (`Sync`, so `host.config` is on
  disk), then starts `reboot -f` or `poweroff` in the background. `reboot`
  then exits the shell, and `poweroff` returns to the prompt. In both cases
  the restart that follows is `PowerLoss`, which can come at any later
  point.
* **Restarts.** `Relaunch` is the next login after `exit`. `PowerLoss` can
  happen at any point: uci and files survive, while the wg0 device and the
  interface addresses are rebuilt (`BootAddr`).
* **The old WireGuard firewall rule.** `wg listenport` looks up the old
  rule as the shell pipeline does. The pipeline prints the path
  `firewall.@rule[N]`, and `atoi` reads it (`UciRulePath`, `Atoi`).
* **wg set.** `wg set` keeps the fields a shorter `wg peer` form leaves
  out (`SetPeer`). It rejects `endpoint none` as a whole (`WgParses`).
* **Firewall apply.** `ApplyCmd` is the shared shape of both apply
  commands, and `ApplyFirewallRules` is `apply_firewall_rules`: the
  firewall becomes `firewall.ORG` followed by the filter and NAT files.
* **Descriptors.** `fopen` fails when no descriptor is left (`FdsFree`).
  `write file` never closes its `FILE`, and a failed apply returns without
  closing its rule file, so each leaks one descriptor (`leaked`) until the
  shell process ends. `FreeFds` stands for `RLIMIT_NOFILE` less the
  descriptors in use. It is 2 in every cfg, so the limit is reached within
  `MaxCmds`. `resolv.conf` and the rule files are closed again.
* **Free choices.** The `no ip address` confirmation may be answered `y`,
  `n` or end of file.

There is no fairness: a user drives the shell and may stop typing at any
point. The cfgs therefore turn off deadlock checking, because the
`MaxCmds` bound ends every behaviour.

## 3. Runs

All runs use two connections `c1` (127.0.0.1) and `c2` (10.0.0.2), one data
chunk per peer (`MaxChunks = 1`), and the remover enabled.

| Run | Config | Checks | Expect |
|---|---|---|---|
| `server_threads` | `TcpServer_threads.cfg` | `TypeOK`, `DisconnectNotifiedOnceLast`, `PeerCloseNotified`, `RemoverReclaims`, `SignalLeadsToExit`, and `LifecycleRefined` (the `ConnectionLifecycle` specification with its fairness). It runs with the main observer plus a wildcard observer, with both accept modes, and with signals outside the locked push. | pass |
| `signal_reentry` | `TcpServer_signal_reentry.cfg` | `SignalLeadsToExit` with a signal allowed anywhere on the main thread and a second one anywhere in the first handler's `close()` | violation |
| `timed_accept` | `TcpServer_timed_accept.cfg` | `ConnectionEventuallyAccepted` with `acceptClient(1)` | violation |
| `exit_teardown` | `TcpServer_teardown.cfg` | `NoDispatchAfterTeardown` | violation |
| `fw_apply_newline` | `FirewallApply_newline.cfg` | `AppliedAsWritten` (module `MC_FirewallApply`) | violation |

What the runs show:

* **Memory safety.** `LifecycleRefined` covers it: in `ConnectionLifecycle`
  a connection is freed only after its disconnect was notified, so a
  remover that deleted a Client without joining its receive thread (the
  thread still publishing `DISCONNECTED`) breaks the refinement.
* **Disconnect notification.** Only exact-IP observers are told of a
  disconnect, once, after all data. Every peer close is reported unless the
  process exits first.
* **Reclaiming.** The remover eventually reclaims every listed dead client.
  This includes a client that disconnected before it was listed.
* **Signal outside the lock.** A signal that does not hit the locked push
  always leads to exit. That includes a second signal while the first
  handler joins the remover (`server_threads` allows it there): the failed
  second join aborts the process. `sig_handler` first logs with
  `spdlog::info` (`main.cpp:43`), which takes the logger's mutex. A signal
  that lands while main holds that mutex would hang the same way. The model
  leaves the logger out, so this claim holds only for a process whose main
  thread is not logging when the signal comes.
* **Re-entered handler.** A signal handler that locks `_clientsMtx` hangs
  whenever its own thread already holds the mutex. `signal_reentry` finds
  this in 7 states: the first handler's `close()` locks `_clientsMtx`, a
  second signal re-enters `sig_handler`, and the nested `close()` waits for
  the mutex forever. Checked on its own, a single signal during the push in
  `acceptClient` hangs the same way: main holds `_clientsMtx`, the handler
  sets `_stopRemoveClientsTask`, the remover waits for the mutex and never
  reaches the flag test, and `join` never returns.
* **Timed accept.** `acceptClient(t > 0)` never accepts, because
  `FD_ISSET` tests an empty `_fds`.
* **Data slots.** `clientEventHandler` calls only `publishSingleClientMsg`
  (`publishClientMsg` is under `#if 0`, `server.cpp:87`), so data never
  reaches an observer's IP-scoped `incomingPacketHandler`, although spec
  4.4 and 9 describe a dispatch to both slots. The model dispatches as the
  code does. No run checks this any more: the `#if 0` is plain in the
  source, and the run budget goes to the firewall's partial failure below.
* **Refinement.** The server implements `ConnectionLifecycle`. Data is
  delivered in order and only while the connection is live. A connection
  ends only at the peer's end of stream or at shutdown. Notification comes
  before the free. Every promised step happens under the threads' fairness.
* **Exit teardown.** `exit()` in `sig_handler` destroys the global
  `server` while receive threads still run. The trace (22 states):
  * main accepts `c1` and starts its receive thread;
  * the signal comes before the push, so `close()` never closes `c1`;
  * `exit()` runs `~TcpServer`, whose second `close()` finds an empty
    list, and the members are destroyed;
  * the peer sends, and `c1`'s thread dispatches the chunk through the
    destroyed `_subscribers`.

  Listed Clients whose sockets `close()` shut can do the same with
  `DISCONNECTED`.

Why these bounds are enough:

* Two connections give two receive threads, and a client that is alive next
  to a dead one. They also give an IP that the wildcard observer matches and
  the main observer does not.
* One chunk is enough to order data before a disconnect.
* The remover's loop, the accept loop and the close sequence are cycles, so
  no counter bounds them.

The passing run allows the second signal only while the first handler
joins the remover, which keeps it at about 100 s, liveness included.
With every point of the first `close()` except the locked loop
(`{stop, join, lock, server}`) it also passes, with 175 820 distinct
states in about 6.5 minutes, over the time budget of a run.

Every property of a passing run has a mutant in `PROJECT.json`. The mutant
is an operator defined in the module next to the action it replaces, and it
plays a plausible slip in that code:

* a Client pointer cleared before the push (for `TypeOK`);
* a wildcard in the disconnect match (for `DisconnectNotifiedOnceLast`);
* the disconnect flag and the notification in the wrong order (for
  `PeerCloseNotified`);
* a dropped `!` in `find_if` (for `RemoverReclaims`);
* a join without setting the stop flag (for `SignalLeadsToExit`);
* a receive without checking `recv`'s result (for `LifecycleRefined`).

### vtysh runs (`MC_VtyshConfig`)

| Run | Config | Checks | Expect |
|---|---|---|---|
| `vtysh_cmds` | `VtyshConfig_cmds.cfg` | `TypeOK`, `OneLinePerKey` over every command family with 6 commands: node, hostname, address, route and DNS commands; WireGuard with well-formed and malformed keys, allowed-ips, endpoints and keepalives; port maps and filters; both apply commands with their failure paths; writes, exits and power loss | pass |
| `routes` | `VtyshConfig_routes.cfg` | `RoutesAgree` | violation |
| `write_crash` | `VtyshConfig_write_crash.cfg` | `RestartRestoresSaved` | violation |
| `wg_rule` | `VtyshConfig_wg_rule.cfg` | `WgInboundRuleUnique` | violation |
| `wg_key` | `VtyshConfig_wg_key.cfg` | `PublishedKeyIsDeviceKey` | violation |
| `wg_fw` | `VtyshConfig_wg_fw.cfg` | `WgPortOpen` | violation |
| `fw_partial` | `VtyshConfig_fw_partial.cfg` | `FirewallMatchesRuleFiles` over both apply commands and every failure of their `fopen` calls | violation |

What the runs show:

* **One line per key.** `config_top` never holds two lines for one peer,
  interface, listen port, link state, hostname or nameserver pair. Routes
  are kept unique as whole lines.
* **Routes.** `no ip route d2` for a destination without a route still
  runs `uci delete network.@route[-1]`. That removes the uci route of `d1`,
  while `config_top` keeps it. The trace has 5 states.
* **Write crash.** `write` reports success once `fflush` has handed the
  file to the kernel, but nothing calls `fsync`. A power loss before the
  kernel writes the pages back starts the shell from the old disk contents
  (here, empty), although the write reported success. The trace has 6
  states. A second `write` that truncates the file and loses power before
  its dump loses the first write in the same way.
* **WireGuard inbound rule.** Two `wg listenport` commands leave two
  `Allow-WG-Inbound` rules. `atoi("firewall.@rule[1]")` is 0, so the
  delete guard `fwrule > 0` never holds.
* **Published key.** The trace is `wg peer k1`, then `wg clear-key`, then
  `wg peer k1 allowed-ips ip1 endpoint none`. The last command makes a new
  key file, but `wg set` rejects `endpoint none`, so the device keeps the
  old key while `publickey` shows the new one.
* **Firewall snapshot.** `apply_firewall_rules` copies
  `/etc/config/firewall` to `firewall.ORG` only if no copy exists, and
  rebuilds the firewall from that copy every time. The trace is a firewall
  apply, then `wg listenport 51820`, then another apply. The last apply
  drops the `Allow-WG-Inbound` rule, while wg0 still listens on 51820.
* **Firewall partial failure.** An apply command truncates its rule
  file (`fopen(..., "w")`, `cmd_fw.c:209` and `:726`) before it opens the
  text file it reads. If that second `fopen` fails, the handler returns
  `CMD_WARNING` with the rule file empty and the firewall unchanged. The
  trace (7 states) is a NAT apply that succeeds, a `write` that leaks its
  `FILE`, and a NAT apply that gets the last descriptor for
  `sfirewall_nat` and none for `portmap.txt`. The firewall still forwards
  the port, but `sfirewall_nat` no longer holds the redirect, so the next
  `sfirewall filter apply` (in a later shell, with its descriptors back)
  rebuilds the firewall without it.
* **Filter forms.** `sfirewall filter ... insert` and `... append` of one
  rule never both stay in `config_top`: the handler deletes the other form
  first (part of `OneLinePerKey`).

Why these bounds are enough:

* **Six commands.** Two of them reach the config node. The rest are
  enough for:
  * a line, a write and a power loss;
  * a write, a second write and a crash;
  * link-up followed by link-down.
* **Two destinations.** They are the least that tells "the last route" from
  "this route".
* **Two ports.** They give a second listenport with a different value.
* **Two keys and two allowed-ips.** One is well formed and one is not, so
  the argument checks are exercised. The same holds for the port map
  and filter rule sets (`m1`/`mbad`, `r1`/`rbad`).
* **One generated section per apply.** Enough to tell a rebuilt firewall
  from `firewall.ORG`; the `wg_fw` trace needs three commands after
  reaching the config node.

The passing run reaches about 1.2 million distinct states in about 75 s. The mutants of the passing properties
are:

* for `OneLinePerKey`: a slip that deletes `ip address ETHNAME A.B.C.D`
  instead of `ip address ETHNAME`;
* for `TypeOK`: swapped `argv` slots in the uci route.

In `cmd_fw.c` the rules an apply generates are the constants `NatGen` and
`FilterGen` (one generated section each). An apply has three outcomes:
`fopen` of the rule file fails and nothing changes; the rule file is
truncated and the handler returns because the text file is missing or no
second descriptor is free; or the file is written and
`apply_firewall_rules` runs. `firewall.ORG` is the
variable `orgFw`, unset until the first apply.

### firewall generator run (`MC_FirewallApply`)

`FirewallApply` keeps each file as a string. `natStep` and `filterStep`
are one iteration of the two `while (fgets(...))` loops: the line up to and
including its newline is read, its last character is cut
(`xbuf[strlen(xbuf)-1] = '\0'`), the prefix is tested with `strncmp`, and
`strtok` splits the rest on blanks. A line with too few words writes
nothing (the `if (s == NULL) continue;` chain). The filter loop carries
`action_index` (an unknown action word keeps the previous rule's target)
and `count` (the rule name) from line to line. A written section is a
record of its option values; an option the code leaves out is `""`.

`Init` picks a `portmap.txt` and a `filter.txt` of one or two lines from
the candidates in `MC_FirewallApply`, ending with a newline or not: two
well-formed lines of each kind (ports `0`/`any` and real ports, both
directions, with and without a time window), a line with too few words,
and a line of another command. Nothing in the repository writes these
files, so a file without a final newline is a file the program may read.

`AppliedAsWritten` compares what the loops wrote, once a file is read to
the end, with the sections of the file's lines as written (split at `"\n"`
and not cut), parsed by the same per-line operators. The check finds it
violated in two steps: the last line `... tcp 8080 80` with no newline
becomes `dest_port '8'`, where the code's own example comment says `80`.
A last line ending in port `0` loses the word altogether, so the rule is
dropped. With every file newline-terminated the property holds over all
1848 states, so the strip is the only difference.

## 4. Not modelled, and why

* `sendToAllClients`, `sendToClient(ip)`, `sendMessage` and `printClients`
  do not change server state. The program only ever replies on the receive
  thread with `send_OK`/`send_NOK`.
* `publishClientMsg` is compiled out.
* The body of `onIncomingMsg_basedSocket` is not modelled. It calls
  `vtyshell::doAction`, which is not in the repository.
* Argument parsing and `daemonize` are not modelled.
* At most two signals are delivered: one, and one nested in its handler's
  `close()`. A third signal number would nest once more in the same way.
* `Client::close` never fails.
* In `cmd_tool.c`, only `reboot` and `poweroff` change state. `ping`,
  `ssh`, `tcpdump`, `netstat`, `sysinfo` and `show date` run a program and
  print. `sh` hands the user a root shell, which can change anything.
* In vtysh, the `show` commands, `write terminal` and `list` change nothing.
  The password commands, `end` and `wg_peer_full` are compiled out.
* `config_del_line_byleft` is a text-prefix match. The model matches whole
  words, so "ip address wg0" deleting the lines of an interface named
  "wg01" is not modelled.
* `fopen` fails only for a missing file or a missing descriptor. Other
  causes, such as a read-only `/etc/config`, are not modelled.
* Writeback copies the whole file at once. Partly written pages are not
  modelled.
* In `VtyshConfig`, the sections an apply generates are the constants
  `NatGen` and `FilterGen`; the generators themselves are `FirewallApply`.
  The two modules are not composed: no code in the repository writes
  `portmap.txt` or `filter.txt`, and the `sfirewall` config lines are never
  read by an apply, so nothing links the commands to the files' contents.
  `sfirewall_mac` is only ever touched, so it is empty.
* Words longer than the `param` buffers (32 or 64 bytes) overflow them in
  `sprintf`. That is undefined behaviour, outside the strings the model
  enumerates.
* `containers.h` defines the WireGuard device structs and
  `free_wgdevice`. No file of the repository includes it, so nothing calls
  the free.

## 5. Plan

The modules, in order of importance:

1. `TcpServer`, `ConnectionLifecycle` and `MC_TcpServer`: done,
   including the refinement and the exit-time teardown.
2. `VtyshConfig`: done for `cmd_common.c`, `cmd_ip.c`, `cmd_vpn.c`, the
   commands of `cmd_fw.c`, and `reboot`/`poweroff` of `cmd_tool.c`.
3. `FirewallApply`: done. The carried `action_index` is modelled, but no
   property states what a line without `permit|deny|reject` should give.
4. `TcpServer`: nested signals: done.
5. `VtyshConfig`: descriptors leaked by `write file` and failed applies,
   and the partial failure of the apply commands (`fw_partial`): done.
   Because of the budget of twelve runs, the `#if 0` on the IP-scoped data
   slot is no longer a run of its own (see "Data slots" in section 3).

Left open, each needing a violation run of its own: `wg set` keeping the
fields a shorter `wg peer` form omits (`cmd_vpn.c:232`), and the
`no ip address` confirmation taken as yes at end of input (`cmd_ip.c:159`).
