------------------------ MODULE ConnectionLifecycle ------------------------
(***************************************************************************)
(* What the web-agentd TCP server promises about each connection, without *)
(* its threads, mutex or program counters.                                 *)
(*                                                                         *)
(* A connection is accepted, its data is delivered to the observers in    *)
(* the order the peer sent it, it is dropped only when the peer has       *)
(* closed and every chunk was delivered or the server is shutting down,   *)
(* the observers are then told, and only after that is the Client freed. *)
(* Once the process has exited nothing changes any more.                  *)
(***************************************************************************)
EXTENDS Naturals

CONSTANTS
    Conns,      \* the peers that may connect
    MaxChunks,  \* bound on the chunks one peer sends
    Reclaim     \* dead Clients are reclaimed while the server runs

VARIABLES
    life,       \* life[c]: "none" | "live" | "down" | "done" | "freed"
    delivered,  \* chunks of peer c handed to the observers
    peer,       \* remote side: "idle" | "connected" | "closed"
    sent,       \* chunks the peer has written
    running,    \* the process has not exited
    stopping    \* shutdown (the close sequence) has begun

avars == << life, delivered, peer, sent, running, stopping >>

LInit ==
    /\ life = [c \in Conns |-> "none"]
    /\ delivered = [c \in Conns |-> 0]
    /\ peer = [c \in Conns |-> "idle"]
    /\ sent = [c \in Conns |-> 0]
    /\ running = TRUE
    /\ stopping = FALSE

\* A peer that has connected is accepted, unless shutdown has begun.
Accept(c) ==
    /\ running /\ ~stopping
    /\ peer[c] # "idle" /\ life[c] = "none"
    /\ life' = [life EXCEPT ![c] = "live"]
    /\ UNCHANGED << delivered, peer, sent, running, stopping >>

\* The next chunk the peer sent reaches the observers.
Deliver(c) ==
    /\ running /\ life[c] = "live" /\ delivered[c] < sent[c]
    /\ delivered' = [delivered EXCEPT ![c] = @ + 1]
    /\ UNCHANGED << life, peer, sent, running, stopping >>

\* A live connection ends only at the peer's end of stream or at shutdown.
Drop(c) ==
    /\ running /\ life[c] = "live"
    /\ \/ peer[c] = "closed" /\ delivered[c] = sent[c]
       \/ stopping
    /\ life' = [life EXCEPT ![c] = "down"]
    /\ UNCHANGED << delivered, peer, sent, running, stopping >>

\* The observers are told of the disconnection.
Notify(c) ==
    /\ running /\ life[c] = "down"
    /\ life' = [life EXCEPT ![c] = "done"]
    /\ UNCHANGED << delivered, peer, sent, running, stopping >>

\* The Client of a finished connection is freed.
Free(c) ==
    /\ running /\ life[c] = "done"
    /\ life' = [life EXCEPT ![c] = "freed"]
    /\ UNCHANGED << delivered, peer, sent, running, stopping >>

Stop ==
    /\ running /\ ~stopping
    /\ stopping' = TRUE
    /\ UNCHANGED << life, delivered, peer, sent, running >>

Exit ==
    /\ running /\ stopping
    /\ running' = FALSE
    /\ UNCHANGED << life, delivered, peer, sent, stopping >>

\* The environment: peers connect while the server runs, send, and close.
PeerAct(c) ==
    /\ running
    /\ \/ peer[c] = "idle" /\ peer' = [peer EXCEPT ![c] = "connected"] /\ UNCHANGED sent
       \/ peer[c] = "connected" /\ sent[c] < MaxChunks
          /\ sent' = [sent EXCEPT ![c] = @ + 1] /\ UNCHANGED peer
       \/ peer[c] = "connected" /\ peer' = [peer EXCEPT ![c] = "closed"] /\ UNCHANGED sent
    /\ UNCHANGED << life, delivered, running, stopping >>

LNext ==
    \/ Stop \/ Exit
    \/ \E c \in Conns :
          Accept(c) \/ Deliver(c) \/ Drop(c) \/ Notify(c) \/ Free(c) \/ PeerAct(c)

\* Acceptance is not promised (a timed accept may never accept).  Every
\* other server step that stays possible happens; reclaiming only when
\* the server runs its remover.
LSpec ==
    /\ LInit /\ [][LNext]_avars
    /\ \A c \in Conns :
          /\ WF_avars(Deliver(c)) /\ WF_avars(Drop(c)) /\ WF_avars(Notify(c))
          /\ Reclaim => WF_avars(Free(c))
    /\ WF_avars(Exit)

=============================================================================
