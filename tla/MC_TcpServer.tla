---------------------------- MODULE MC_TcpServer ----------------------------
(* Instantiates TcpServer for TLC: two peers, one on the loopback address *)
(* main.cpp's observer subscribes for and one from elsewhere.             *)
EXTENDS TcpServer

CONSTANTS c1, c2

\* inet_ntoa of each peer's address.
MC_IP == (c1 :> "127.0.0.1") @@ (c2 :> "10.0.0.2")

\* The observer main() registers: all three handlers, wantedIP 127.0.0.1.
MainObserver == [wantedIP |-> "127.0.0.1", ip |-> TRUE, single |-> TRUE, disc |-> TRUE]

\* A library caller's wildcard observer (wantedIP ""), as server_observer_t allows.
WildcardObserver == [wantedIP |-> "", ip |-> FALSE, single |-> TRUE, disc |-> TRUE]

MC_ObserversMain == << MainObserver >>
MC_ObserversLibrary == << MainObserver, WildcardObserver >>

\* Every main-thread point except the _clientsMtx critical section in
\* acceptClient, where the handler would lock a mutex its own thread holds.
MC_SafeSignalWindow == MainPcs \ {"push"}
MC_AnySignalWindow == MainPcs

\* Points of sig_handler's close() at which a second, different signal may
\* run sig_handler again: all of them, or only while the first close()
\* joins the remover (the second join fails and aborts the process).
MC_AnyNestedWindow == {"stop", "join", "lock", "clients", "server"}
MC_SafeNestedWindow == {"join"}
=============================================================================
