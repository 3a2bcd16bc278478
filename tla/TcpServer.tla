----------------------------- MODULE TcpServer -----------------------------
(***************************************************************************)
(* The web-agentd TCP server (src/webagent/cpp/src/server.cpp) driven by  *)
(* its main program (src/webagent/cpp/src/main.cpp).                      *)
(*                                                                         *)
(* Threads: the main thread (start, subscribe, the acceptClients loop; a  *)
(* termination signal runs sig_handler -> TcpServer::close() on this      *)
(* thread's stack), the dead-clients remover ("reaper"), and one receive  *)
(* thread per accepted Client.  The clients vector is guarded by          *)
(* _clientsMtx, modelled as the variable owner.  The subscribers mutex is *)
(* not a variable: every critical section under it (subscribe, the        *)
(* publish loops) is one atomic step here, which is exactly the mutual    *)
(* exclusion it provides.                                                  *)
(*                                                                         *)
(* Client (client.h/client.cpp) is not part of src/; its receive loop,    *)
(* close() and destructor are modelled from the spec (section 4.2).       *)
(***************************************************************************)
EXTENDS Naturals, Sequences, SequencesExt

CONSTANTS
    Conns,          \* peers that may connect; each becomes one Client
    IP,             \* IP[c]: the address inet_ntoa gives for peer c
    Observers,      \* observers subscribed by main, in order
    MaxChunks,      \* bound on the data chunks one peer sends
    AutoReap,       \* start(..., removeDeadClientsAutomatically)
    AcceptTimeouts, \* timeout arguments the accept loop passes to acceptClient
    SignalWindow,   \* main-thread points at which SIGINT/SIGTERM/SIGQUIT may arrive
    NestedWindow,   \* points of sig_handler's close() at which another of them may arrive
    NoConn          \* "no client" marker

ASSUME /\ IP \in [Conns -> STRING]
       /\ Observers \in Seq([wantedIP : STRING, ip : BOOLEAN, single : BOOLEAN, disc : BOOLEAN])
       /\ Len(Observers) >= 1
       /\ MaxChunks \in Nat
       /\ AutoReap \in BOOLEAN
       /\ AcceptTimeouts \subseteq Nat /\ AcceptTimeouts # {}
       /\ NoConn \notin Conns

\* Threads that can own _clientsMtx.
NoThread == "none"

VARIABLES
    mpc,        \* main thread program counter
    mcur,       \* Client being accepted by the main thread
    cpc,        \* TcpServer::close() progress on the main thread ("idle" when not running)
    dtor,       \* the running close() is the one ~TcpServer calls
    outer,      \* where a second sig_handler interrupted the first one's close(), or "none"
    terminate,  \* _flagTerminate
    stopReaper, \* _stopRemoveClientsTask
    rp,         \* reaper thread program counter
    rcur,       \* Client the reaper is removing
    owner,      \* holder of _clientsMtx
    clients,    \* _clients
    subs,       \* _subscribers
    lsock,      \* listening socket _sockfd
    peer,       \* remote side of each connection
    sent,       \* chunks the peer has written
    recvd,      \* chunks the receive thread has read
    cstate,     \* Client object: "none" | "live" | "freed"
    connected,  \* Client::isConnected()
    fd,         \* Client socket: "none" | "open" | "closed"
    rpc,        \* receive thread program counter
    inbox       \* inbox[c][s]: callbacks observer s received for client c

vars == << mpc, mcur, cpc, dtor, outer, terminate, stopReaper, rp, rcur, owner, clients,
           subs, lsock, peer, sent, recvd, cstate, connected, fd, rpc, inbox >>
mainVars   == << mpc, mcur >>
closeVars  == << cpc, dtor, outer, terminate, stopReaper >>
reaperVars == << rp, rcur >>
listVars   == << owner, clients >>
netVars    == << lsock, peer, sent >>
clientVars == << recvd, cstate, connected, fd, rpc, inbox >>

Obs == 1..Len(Observers)

MainPcs == {"start", "subscribe", "loop", "wait", "accept", "listen", "lock",
            "push", "return"}

Alive == cpc # "exited"

-----------------------------------------------------------------------------
(* Subscription matching.                                                 *)

\* publishSingleClientMsg: exact IP or the empty (wildcard) wantedIP.
MatchesData(s, c) == subs[s].wantedIP = IP[c] \/ subs[s].wantedIP = ""

\* Mutant: the disconnect path copies the data path's wildcard match.
MatchesDiscWildcard(s, c) == subs[s].wantedIP = IP[c] \/ subs[s].wantedIP = ""

\* publishClientDisconnected: exact IP only, no wildcard.
MatchesDisc(s, c) == subs[s].wantedIP = IP[c]

\* _fds is never written in server.cpp, and the global TcpServer is
\* zero-initialised, so FD_ISSET(_sockfd, &_fds) is false.
FdIsSet == FALSE

\* A connection completed by the kernel and not yet accepted.
Pending(c) == peer[c] \in {"connected", "closed"} /\ cstate[c] = "none"

-----------------------------------------------------------------------------
Init ==
    /\ mpc = "start"
    /\ mcur = NoConn
    /\ cpc = "idle"
    /\ dtor = FALSE
    /\ outer = "none"
    /\ terminate = FALSE
    /\ stopReaper = FALSE
    /\ rp = "none"
    /\ rcur = NoConn
    /\ owner = NoThread
    /\ clients = << >>
    /\ subs = << >>
    /\ lsock = "none"
    /\ peer = [c \in Conns |-> "idle"]
    /\ sent = [c \in Conns |-> 0]
    /\ recvd = [c \in Conns |-> 0]
    /\ cstate = [c \in Conns |-> "none"]
    /\ connected = [c \in Conns |-> FALSE]
    /\ fd = [c \in Conns |-> "none"]
    /\ rpc = [c \in Conns |-> "none"]
    /\ inbox = [c \in Conns |-> [s \in Obs |-> << >>]]

-----------------------------------------------------------------------------
(* Main thread.  Its steps are disabled while sig_handler runs on it.     *)

MainFree == Alive /\ cpc = "idle"

\* TcpServer::start: the remover thread is spawned before the socket is
\* created; a socket/bind/listen failure makes main return EXIT_FAILURE,
\* which runs ~TcpServer -> close().
Start ==
    /\ MainFree /\ mpc = "start"
    /\ rp' = IF AutoReap THEN "top" ELSE "none"
    /\ \/ lsock' = "open" /\ mpc' = "subscribe"
       \/ lsock' = "none" /\ mpc' = "return"
    /\ UNCHANGED << mcur, closeVars, rcur, listVars, subs, peer, sent, clientVars >>

\* TcpServer::subscribe, once per observer main registers.
Subscribe ==
    /\ MainFree /\ mpc = "subscribe"
    /\ subs' = Append(subs, Observers[Len(subs) + 1])
    /\ mpc' = IF Len(subs) + 1 = Len(Observers) THEN "loop" ELSE "subscribe"
    /\ UNCHANGED << mcur, closeVars, reaperVars, listVars, netVars, clientVars >>

\* while (!server.shouldTerminate()) acceptClients(); -> acceptClient(t):
\* t = 0 blocks in accept(), t > 0 first calls waitForClient.
AcceptLoop(t) ==
    /\ MainFree /\ mpc = "loop" /\ ~terminate
    /\ mpc' = IF t = 0 THEN "accept" ELSE "wait"
    /\ UNCHANGED << mcur, closeVars, reaperVars, listVars, subs, netVars, clientVars >>

\* waitForClient(timeout > 0): waitFor fails, times out, or reports the
\* socket readable; then FD_ISSET on _fds decides.  Any failure throws,
\* acceptClients logs it, and the loop goes round again.
WaitForClient ==
    /\ MainFree /\ mpc = "wait"
    /\ mpc' = IF (\E c \in Conns : Pending(c)) /\ FdIsSet THEN "accept" ELSE "loop"
    /\ UNCHANGED << mcur, closeVars, reaperVars, listVars, subs, netVars, clientVars >>

\* accept() returns a pending connection; new Client(fd) is connected.
AcceptClient(c) ==
    /\ MainFree /\ mpc = "accept" /\ lsock = "open" /\ Pending(c)
    /\ cstate' = [cstate EXCEPT ![c] = "live"]
    /\ connected' = [connected EXCEPT ![c] = TRUE]
    /\ fd' = [fd EXCEPT ![c] = "open"]
    /\ mcur' = c
    /\ mpc' = "listen"
    /\ UNCHANGED << closeVars, reaperVars, listVars, subs, netVars, recvd, rpc, inbox >>

\* setIp, setEventsHandler, startListen: the receive thread starts before
\* the Client is in _clients.
StartListen ==
    /\ MainFree /\ mpc = "listen"
    /\ rpc' = [rpc EXCEPT ![mcur] = "recv"]
    /\ mpc' = "lock"
    /\ UNCHANGED << mcur, closeVars, reaperVars, listVars, subs, netVars, recvd, cstate, connected, fd, inbox >>

\* std::lock_guard<std::mutex> lock(_clientsMtx)
LockClientsForPush ==
    /\ MainFree /\ mpc = "lock" /\ owner = NoThread
    /\ owner' = "main"
    /\ mpc' = "push"
    /\ UNCHANGED << mcur, closeVars, reaperVars, clients, subs, netVars, clientVars >>

\* Mutant: the pointer to the new Client is cleared before it is pushed.
PushClientCleared ==
    /\ MainFree /\ mpc = "push"
    /\ clients' = Append(clients, NoConn)
    /\ owner' = NoThread
    /\ mcur' = NoConn
    /\ mpc' = "loop"
    /\ UNCHANGED << closeVars, reaperVars, subs, netVars, clientVars >>

\* _clients.push_back(newClient); the guard unlocks on return.
PushClient ==
    /\ MainFree /\ mpc = "push"
    /\ clients' = Append(clients, mcur)
    /\ owner' = NoThread
    /\ mcur' = NoConn
    /\ mpc' = "loop"
    /\ UNCHANGED << closeVars, reaperVars, subs, netVars, clientVars >>

\* Returning from main runs the static destructors: ~TcpServer of the
\* global server calls close().
ReturnFromMain ==
    /\ MainFree /\ mpc = "return"
    /\ cpc' = "stop"
    /\ dtor' = TRUE
    /\ UNCHANGED << mainVars, outer, terminate, stopReaper, reaperVars, listVars, subs, netVars, clientVars >>

\* sig_handler: setTerminate(true) then close(), on the interrupted main thread.
Signal ==
    /\ MainFree /\ mpc \in SignalWindow
    /\ terminate' = TRUE
    /\ cpc' = "stop"
    /\ UNCHANGED << mainVars, dtor, outer, stopReaper, reaperVars, listVars, subs, netVars, clientVars >>

\* signal() blocks only the signal being handled: another of SIGINT,
\* SIGTERM, SIGQUIT runs sig_handler again on the same stack, and its
\* close() starts from the top.  It never returns to the interrupted
\* close() (exit() follows it); a lock that close() held stays held.
NestedSignal ==
    /\ Alive /\ cpc \in NestedWindow /\ ~dtor /\ outer = "none"
    /\ outer' = cpc
    /\ cpc' = "stop"
    /\ UNCHANGED << mainVars, dtor, terminate, stopReaper, reaperVars, listVars, subs, netVars, clientVars >>

-----------------------------------------------------------------------------
(* TcpServer::close(), run by sig_handler or by ~TcpServer.               *)

\* The interrupted close() is inside _clientsRemoverThread->join().
JoinPending == outer = "join"

\* Mutant: joins the remover without setting _stopRemoveClientsTask.
CloseStopRemoverNoFlag ==
    /\ Alive /\ cpc = "stop"
    /\ cpc' = CASE rp \in {"none", "joined"} -> "lock"
                 [] JoinPending -> "exited"
                 [] OTHER -> "join"
    /\ UNCHANGED << mainVars, dtor, outer, terminate, stopReaper, reaperVars, listVars, subs, netVars, clientVars >>

\* terminateDeadClientsRemover: only if the remover thread exists.  A
\* second join of a thread the interrupted close() is already joining
\* fails (pthread_join: EINVAL); the std::system_error it throws leaves
\* sig_handler and ends in std::terminate, which aborts the process.
CloseStopRemover ==
    /\ Alive /\ cpc = "stop"
    /\ IF rp \notin {"none", "joined"}
         THEN stopReaper' = TRUE /\ cpc' = IF JoinPending THEN "exited" ELSE "join"
         ELSE cpc' = "lock" /\ UNCHANGED stopReaper
    /\ UNCHANGED << mainVars, dtor, outer, terminate, reaperVars, listVars, subs, netVars, clientVars >>

\* _clientsRemoverThread->join(); delete; = nullptr
CloseJoinRemover ==
    /\ Alive /\ cpc = "join" /\ rp = "exited"
    /\ rp' = "joined"
    /\ cpc' = "lock"
    /\ UNCHANGED << mainVars, dtor, outer, terminate, stopReaper, rcur, listVars, subs, netVars, clientVars >>

\* lock_guard on _clientsMtx.  The handler runs on the main thread: if the
\* main thread already owns the mutex, this never succeeds.
CloseLockClients ==
    /\ Alive /\ cpc = "lock" /\ owner = NoThread
    /\ owner' = "main"
    /\ cpc' = "clients"
    /\ UNCHANGED << mainVars, dtor, outer, terminate, stopReaper, reaperVars, clients, subs, netVars, clientVars >>

\* client->close() for every listed client, then _clients.clear().  The
\* Clients are closed but not deleted.
CloseClients ==
    /\ Alive /\ cpc = "clients"
    /\ fd' = [c \in Conns |-> IF Contains(clients, c) THEN "closed" ELSE fd[c]]
    /\ clients' = << >>
    /\ owner' = NoThread
    /\ cpc' = "server"
    /\ UNCHANGED << mainVars, dtor, outer, terminate, stopReaper, reaperVars, subs, netVars, recvd, cstate, connected, rpc, inbox >>

\* ::close(_sockfd)
CloseServer ==
    /\ Alive /\ cpc = "server"
    /\ lsock' = "closed"
    /\ cpc' = "exit"
    /\ UNCHANGED << mainVars, dtor, outer, terminate, stopReaper, reaperVars, listVars, subs, peer, sent, clientVars >>

\* close() has returned.  In sig_handler, exit(EXIT_SUCCESS) follows and
\* runs the static destructors: ~TcpServer calls close() a second time.
\* When close() was ~TcpServer's own, the destructor then destroys the
\* server's members (_subscribers, _clients, the mutexes): the server
\* object is gone, while receive threads of unfreed Clients still run.
StaticDestructors ==
    /\ Alive /\ cpc = "exit"
    /\ IF dtor THEN cpc' = "gone" /\ UNCHANGED dtor
               ELSE cpc' = "stop" /\ dtor' = TRUE
    /\ UNCHANGED << mainVars, outer, terminate, stopReaper, reaperVars, listVars, subs, netVars, clientVars >>

\* The destructors are done and the process image ends with every thread.
ProcessExit ==
    /\ Alive /\ cpc = "gone"
    /\ cpc' = "exited"
    /\ UNCHANGED << mainVars, dtor, outer, terminate, stopReaper, reaperVars, listVars, subs, netVars, clientVars >>


-----------------------------------------------------------------------------
(* removeDeadClients, the remover thread.                                 *)

\* while (!_stopRemoveClientsTask)
RemoverLoopTest ==
    /\ Alive /\ rp = "top"
    /\ rp' = IF stopReaper THEN "exited" ELSE "lock"
    /\ UNCHANGED << mainVars, closeVars, rcur, listVars, subs, netVars, clientVars >>

\* lock_guard on _clientsMtx
RemoverLock ==
    /\ Alive /\ rp = "lock" /\ owner = NoThread
    /\ owner' = "reaper"
    /\ rp' = "scan"
    /\ UNCHANGED << mainVars, closeVars, rcur, clients, subs, netVars, clientVars >>

\* Mutant: the find_if predicate lost its negation (isConnected()).
RemoverScanInverted ==
    /\ Alive /\ rp = "scan"
    /\ LET i == SelectInSeq(clients, LAMBDA c : connected[c])
       IN IF i = 0
            THEN owner' = NoThread /\ rp' = "sleep" /\ UNCHANGED << rcur, fd >>
            ELSE /\ rcur' = clients[i] /\ rp' = "free" /\ UNCHANGED owner
                 /\ fd' = [fd EXCEPT ![clients[i]] = "closed"]
    /\ UNCHANGED << mainVars, closeVars, clients, subs, netVars, recvd, cstate,
                    connected, rpc, inbox >>

\* find_if the first client with !isConnected(); if there is one,
\* client->close() closes its socket; if none, the guard unlocks and the
\* thread goes to sleep(2).
RemoverScan ==
    /\ Alive /\ rp = "scan"
    /\ LET i == SelectInSeq(clients, LAMBDA c : ~connected[c])
       IN IF i = 0
            THEN /\ owner' = NoThread
                 /\ rp' = "sleep"
                 /\ UNCHANGED << rcur, fd >>
            ELSE /\ rcur' = clients[i]
                 /\ fd' = [fd EXCEPT ![clients[i]] = "closed"]
                 /\ rp' = "free"
                 /\ UNCHANGED owner
    /\ UNCHANGED << mainVars, closeVars, clients, subs, netVars, recvd, cstate,
                    connected, rpc, inbox >>

\* delete *clientToRemove (~Client joins the receive thread), then
\* _clients.erase; the do-while scans again.
RemoverFree ==
    /\ Alive /\ rp = "free" /\ rpc[rcur] = "exited"
    /\ cstate' = [cstate EXCEPT ![rcur] = "freed"]
    /\ clients' = Remove(clients, rcur)
    /\ rp' = "scan"
    /\ UNCHANGED << mainVars, closeVars, rcur, owner, subs, netVars, recvd,
                    connected, fd, rpc, inbox >>

\* sleep(2)
RemoverSleep ==
    /\ Alive /\ rp = "sleep"
    /\ rp' = "top"
    /\ UNCHANGED << mainVars, closeVars, rcur, listVars, subs, netVars, clientVars >>

-----------------------------------------------------------------------------
(* Client receive thread (spec 4.2) and the server's clientEventHandler.  *)

\* clientEventHandler(INCOMING_MSG) -> publishSingleClientMsg: every
\* matching observer with an incomingSinglePacketHandler gets the chunk.
PublishSingleClientMsg(c) ==
    inbox' = [inbox EXCEPT ![c] =
                [s \in Obs |-> IF s <= Len(subs) /\ MatchesData(s, c) /\ subs[s].single
                                 THEN Append(inbox[c][s], "single")
                                 ELSE inbox[c][s]]]

\* clientEventHandler(DISCONNECTED) -> publishClientDisconnected.
PublishClientDisconnected(c) ==
    inbox' = [inbox EXCEPT ![c] =
                [s \in Obs |-> IF s <= Len(subs) /\ MatchesDisc(s, c) /\ subs[s].disc
                                 THEN Append(inbox[c][s], "disc")
                                 ELSE inbox[c][s]]]

\* Mutant: the receive loop does not check that recv returned data.
ReceiveDataUnchecked(c) ==
    /\ Alive /\ rpc[c] = "recv" /\ fd[c] = "open"
    /\ recvd' = [recvd EXCEPT ![c] = @ + 1]
    /\ PublishSingleClientMsg(c)
    /\ UNCHANGED << mainVars, closeVars, reaperVars, listVars, subs, netVars,
                    cstate, connected, fd, rpc >>

\* recv returns one chunk of data, which is published on this thread.
ReceiveData(c) ==
    /\ Alive /\ rpc[c] = "recv" /\ fd[c] = "open" /\ recvd[c] < sent[c]
    /\ recvd' = [recvd EXCEPT ![c] = @ + 1]
    /\ PublishSingleClientMsg(c)
    /\ UNCHANGED << mainVars, closeVars, reaperVars, listVars, subs, netVars,
                    cstate, connected, fd, rpc >>

\* Mutant: only a failing recv (< 0) ends the loop; a return of 0 does not.
ReceiveEndOnErrorOnly(c) ==
    /\ Alive /\ rpc[c] = "recv" /\ fd[c] = "closed"
    /\ connected' = [connected EXCEPT ![c] = FALSE]
    /\ rpc' = [rpc EXCEPT ![c] = "disc"]
    /\ UNCHANGED << mainVars, closeVars, reaperVars, listVars, subs, netVars,
                    recvd, cstate, fd, inbox >>

\* recv returns 0 (peer closed, all data read) or fails (socket closed
\* under it): the Client marks itself disconnected.
ReceiveEnd(c) ==
    /\ Alive /\ rpc[c] = "recv"
    /\ \/ fd[c] = "closed"
       \/ peer[c] = "closed" /\ recvd[c] = sent[c]
    /\ connected' = [connected EXCEPT ![c] = FALSE]
    /\ rpc' = [rpc EXCEPT ![c] = "disc"]
    /\ UNCHANGED << mainVars, closeVars, reaperVars, listVars, subs, netVars,
                    recvd, cstate, fd, inbox >>

\* Mutant: clientEventHandler dispatches DISCONNECTED to the data path.
ReceiveDisconnectedSwapped(c) ==
    /\ Alive /\ rpc[c] = "disc"
    /\ PublishSingleClientMsg(c)
    /\ rpc' = [rpc EXCEPT ![c] = "exited"]
    /\ UNCHANGED << mainVars, closeVars, reaperVars, listVars, subs, netVars,
                    recvd, cstate, connected, fd >>

\* ... then publishes DISCONNECTED and the thread returns.
ReceiveDisconnected(c) ==
    /\ Alive /\ rpc[c] = "disc"
    /\ PublishClientDisconnected(c)
    /\ rpc' = [rpc EXCEPT ![c] = "exited"]
    /\ UNCHANGED << mainVars, closeVars, reaperVars, listVars, subs, netVars,
                    recvd, cstate, connected, fd >>

-----------------------------------------------------------------------------
(* The remote peers.                                                      *)

\* connect() completes into the listen backlog.
PeerConnect(c) ==
    /\ Alive /\ peer[c] = "idle" /\ lsock = "open"
    /\ peer' = [peer EXCEPT ![c] = "connected"]
    /\ UNCHANGED << mainVars, closeVars, reaperVars, listVars, subs, lsock, sent, clientVars >>

PeerSend(c) ==
    /\ Alive /\ peer[c] = "connected" /\ sent[c] < MaxChunks
    /\ sent' = [sent EXCEPT ![c] = @ + 1]
    /\ UNCHANGED << mainVars, closeVars, reaperVars, listVars, subs, lsock, peer, clientVars >>

PeerClose(c) ==
    /\ Alive /\ peer[c] = "connected"
    /\ peer' = [peer EXCEPT ![c] = "closed"]
    /\ UNCHANGED << mainVars, closeVars, reaperVars, listVars, subs, lsock, sent, clientVars >>

-----------------------------------------------------------------------------
MainStep ==
    \/ Start \/ Subscribe \/ WaitForClient \/ StartListen
    \/ LockClientsForPush \/ PushClient \/ ReturnFromMain
    \/ \E t \in AcceptTimeouts : AcceptLoop(t)
    \/ \E c \in Conns : AcceptClient(c)

CloseStep ==
    \/ CloseStopRemover \/ CloseJoinRemover \/ CloseLockClients
    \/ CloseClients \/ CloseServer \/ StaticDestructors \/ ProcessExit

RemoverStep ==
    RemoverLoopTest \/ RemoverLock \/ RemoverScan \/ RemoverFree \/ RemoverSleep

ReceiveStep(c) == ReceiveData(c) \/ ReceiveEnd(c) \/ ReceiveDisconnected(c)

PeerStep(c) == PeerConnect(c) \/ PeerSend(c) \/ PeerClose(c)

\* After exit() nothing happens any more.
Exited == ~Alive /\ UNCHANGED vars

Next ==
    \/ MainStep \/ Signal \/ NestedSignal \/ CloseStep \/ RemoverStep
    \/ \E c \in Conns : ReceiveStep(c) \/ PeerStep(c)
    \/ Exited

\* Every thread is an OS thread under a preemptive scheduler, so each one
\* that can run eventually does.  Lock acquisition is strongly fair: the
\* other holders keep _clientsMtx for a bounded scan or push, and the
\* remover sleeps 2 s between scans.  Peers and signals are the
\* environment and get no fairness.
Fairness ==
    /\ SF_vars(MainStep)
    /\ SF_vars(CloseStep)
    /\ SF_vars(RemoverStep)
    /\ \A c \in Conns : WF_vars(ReceiveStep(c))

Spec == Init /\ [][Next]_vars /\ Fairness

-----------------------------------------------------------------------------
(* Properties                                                             *)

TypeOK ==
    /\ mpc \in MainPcs
    /\ mcur \in Conns \cup {NoConn}
    /\ cpc \in {"idle", "stop", "join", "lock", "clients", "server", "exit", "gone", "exited"}
    /\ dtor \in BOOLEAN
    /\ outer \in {"none", "stop", "join", "lock", "clients", "server"}
    /\ terminate \in BOOLEAN /\ stopReaper \in BOOLEAN
    /\ rp \in {"none", "top", "lock", "scan", "free", "sleep", "exited", "joined"}
    /\ rcur \in Conns \cup {NoConn}
    /\ owner \in {NoThread, "main", "reaper"}
    /\ clients \in Seq(Conns)
    /\ subs \in Seq([wantedIP : STRING, ip : BOOLEAN, single : BOOLEAN, disc : BOOLEAN])
    /\ lsock \in {"none", "open", "closed"}
    /\ peer \in [Conns -> {"idle", "connected", "closed"}]
    /\ sent \in [Conns -> 0..MaxChunks] /\ recvd \in [Conns -> 0..MaxChunks]
    /\ cstate \in [Conns -> {"none", "live", "freed"}]
    /\ connected \in [Conns -> BOOLEAN]
    /\ fd \in [Conns -> {"none", "open", "closed"}]
    /\ rpc \in [Conns -> {"none", "recv", "disc", "exited"}]
    /\ inbox \in [Conns -> [Obs -> Seq({"single", "ip", "disc"})]]

\* Each observer gets at most one disconnect notification per client, it
\* is the last callback it gets for that client, and only observers whose
\* wantedIP is exactly the client's IP get it (publishClientDisconnected
\* has no wildcard match, unlike the data path).
DisconnectNotifiedOnceLast ==
    \A c \in Conns, s \in Obs :
        \A i \in 1..Len(inbox[c][s]) : inbox[c][s][i] = "disc" =>
            /\ i = Len(inbox[c][s])
            /\ subs[s].wantedIP = IP[c]

\* Observer callbacks run only while the server object exists: no receive
\* thread dispatches through _subscribers (publishSingleClientMsg,
\* publishClientDisconnected) after ~TcpServer, run by exit() from
\* sig_handler or by returning from main, has destroyed the members.
NoDispatchAfterTeardown == [][inbox' # inbox => cpc # "gone"]_vars

\* Once a peer has closed its end and its receive thread runs, every
\* observer subscribed for that exact IP with a disconnection handler is
\* told, unless the process exits first.
PeerCloseNotified ==
    \A c \in Conns :
        (peer[c] = "closed" /\ rpc[c] = "recv") ~>
            \/ ~Alive
            \/ \A s \in 1..Len(subs) :
                  MatchesDisc(s, c) /\ subs[s].disc => Contains(inbox[c][s], "disc")

\* A disconnected Client in _clients is eventually deleted by the remover
\* (or the process exits): dead clients do not accumulate.
RemoverReclaims ==
    \A c \in Conns :
        (Contains(clients, c) /\ ~connected[c]) ~> (cstate[c] = "freed" \/ ~Alive)

\* Once sig_handler (or ~TcpServer) starts close(), the process exits:
\* close() never blocks forever on the remover or on _clientsMtx.
SignalLeadsToExit == (cpc # "idle") ~> ~Alive

\* The refinement mapping: a connection's abstract life is read off its
\* Client object, its connected flag and its receive thread.
LifeOf(c) ==
    CASE cstate[c] = "none"  -> "none"
      [] cstate[c] = "freed" -> "freed"
      [] rpc[c] = "exited"   -> "done"
      [] ~connected[c]       -> "down"
      [] OTHER               -> "live"

Lifecycle == INSTANCE ConnectionLifecycle
    WITH life <- [c \in Conns |-> LifeOf(c)], delivered <- recvd,
         running <- Alive, stopping <- cpc # "idle", Reclaim <- AutoReap

\* The server implements ConnectionLifecycle: accepted connections deliver
\* the peer's chunks in order, end only at the peer's end of stream or at
\* close(), are notified and then freed, with every step that stays
\* possible eventually taken -- across the accept loop, the receive
\* threads, the remover and the signal handler's close().
LifecycleRefined == Lifecycle!LSpec

\* Spec 4.1/4.4: with a timeout, acceptClient waits until the listening
\* socket is readable and then accepts, so a loop of acceptClient calls
\* eventually accepts every pending connection.
ConnectionEventuallyAccepted ==
    \A c \in Conns : Pending(c) ~> (cstate[c] # "none" \/ ~Alive)

=============================================================================
