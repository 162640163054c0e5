----------------------------- MODULE HolePunch -----------------------------
(***************************************************************************)
(* NAT hole punching: the P2P connections of two peers that a rendezvous   *)
(* server has introduced, one of them as the tie-breaker, from the first   *)
(* probe to the pair of sockets that carries the connection.               *)
(*                                                                         *)
(* Each peer has its main socket and the probe sockets.  Three threads of  *)
(* a peer take steps: the timer of the probe rounds, which is not on the   *)
(* connection's strand (BeginRound, SendProbe); the reader of a socket,    *)
(* which routes a datagram by the maps and posts a task (Receive); and the *)
(* strand, which runs the tasks and the 5 ms tick (RunTask, Flush).        *)
(*                                                                         *)
(* A socket stands for the public address that the NAT gives it.  A        *)
(* datagram may be lost or overtaken.  The probe key of a peer is one word *)
(* of the shared key: routing by it is modelled with the words.            *)
(* ConnectionMaps has the end of a P2P connection, which is left out here. *)
(***************************************************************************)
EXTENDS Naturals, Sequences, FiniteSets

CONSTANTS
    Peers, TieBreaker,  \* two peers; the one whose StartParams.WinTies is set
    NumPorts,           \* probe sockets of a peer; socket 0 is its main socket
    NATs,               \* what the NATs may pass: "any" address, or the "twin" of
                        \*   a socket, the one it has contacted
    RandomRound,        \* NATProbeRound4_Random: the round that is disabled
    MaxNet, MaxTasks,   \* bounds: datagrams on their way to a peer; its tasks
    MaxLost             \* bound: datagrams lost

ASSUME PeersAssumption ==
    /\ Cardinality(Peers) = 2 /\ TieBreaker \in Peers
    /\ NumPorts \in Nat /\ NATs \subseteq {"any", "twin"}

Main == 0
Sockets == Main .. NumPorts
None == NumPorts + 1      \* no address
Waiting == 0              \* portIndex: until the timer of the next round
Off == NumPorts + 1       \*   no timer is left
Other(p) == CHOOSE q \in Peers : q # p

VARIABLES
    nat,                      \* the NATs between the peers
    ProtocolRound, portIndex, \* of each peer; the probe socket the round has come to
    conn,                     \* the fields of each peer's connection
    shutdown,
    tasks,                    \* posted to the strand
    net,                      \* datagrams on their way to a peer
    lost

roundVars == <<ProtocolRound, portIndex>>
vars == <<nat, roundVars, conn, shutdown, tasks, net, lost>>

WinTies(p) == p = TieBreaker

-----------------------------------------------------------------------------
(* The keys: EncryptionKey is <<high word, low word>> *)

EncryptionKey == <<"high", "low">>
Swap(key) == <<key[2], key[1]>>

GetOutgoingProbeKey(p) == IF WinTies(p) THEN EncryptionKey[1] ELSE EncryptionKey[2]
GetExpectedIncomingProbeKey(p) == IF WinTies(p) THEN EncryptionKey[2] ELSE EncryptionKey[1]
GetOutgoingHandshakeKey(p) == IF WinTies(p) THEN Swap(EncryptionKey) ELSE EncryptionKey

GetExpectedIncomingHandshakeKey(p) ==
    IF WinTies(p) THEN EncryptionKey ELSE Swap(EncryptionKey)

-----------------------------------------------------------------------------
(* The network *)

Passing(d) == d.at \in Sockets /\ (nat = "any" \/ d.from = d.at)

Probe(p, s, t) == [kind |-> "probe", key |-> GetOutgoingProbeKey(p), from |-> s, at |-> t]

(* Before the connection is established, nothing is retransmitted: the id   *)
(* message goes into one datagram.                                          *)
Data(p) ==
    [kind |-> "data", handshake |-> conn[p].handshake, key |-> GetOutgoingHandshakeKey(p),
     id |-> conn[p].queued \/ conn[p].ConnectionEstablished,
     from |-> conn[p].source, at |-> conn[p].dest]

(* GenerateS2CUnknownSource() *)
Unknown(d) == [kind |-> "unknown", from |-> d.at, at |-> d.from]

HasRoom(p) == Len(net[Other(p)]) < MaxNet

(* Peer p sends d, when the NATs pass it.                                   *)
Sent(network, p, d) ==
    IF Passing(d) THEN [network EXCEPT ![Other(p)] = Append(@, d)] ELSE network

Without(s, i) == SubSeq(s, 1, i - 1) \o SubSeq(s, i + 1, Len(s))

Lose(p) ==
    /\ lost < MaxLost /\ lost' = lost + 1
    /\ \E i \in DOMAIN net[p] : net' = [net EXCEPT ![p] = Without(@, i)]
    /\ UNCHANGED <<nat, roundVars, conn, shutdown, tasks>>

(* InitializeP2PConnection(): source is Deps.AddressMap and Outgoing's      *)
(* sender, dest its peer address; addrMap has the <<socket, address>> that  *)
(* refer to the connection; handshake is what datagrams carry; queued says  *)
(* that the id message waits to be sent, and RemoteId that the peer's came. *)
HolePunchInit ==
    /\ nat \in NATs
    /\ ProtocolRound = [p \in Peers |-> 1] /\ portIndex = [p \in Peers |-> Waiting]
    /\ conn = [p \in Peers |->
          [SeenProbe |-> FALSE, source |-> Main, dest |-> None, addrMap |-> {},
           handshake |-> "none", ConnectionEstablished |-> FALSE,
           PeerAddressChangesAllowed |-> FALSE, queued |-> FALSE, RemoteId |-> FALSE]]
    /\ shutdown = [p \in Peers |-> FALSE]
    /\ tasks = [p \in Peers |-> <<>>] /\ net = [p \in Peers |-> <<>>] /\ lost = 0

-----------------------------------------------------------------------------
(* The rounds, off the strand *)

StopRounds(p) == portIndex' = [portIndex EXCEPT ![p] = Off] /\ UNCHANGED ProtocolRound

(* onNATProbeRound(): the checks, and the extra probe of the main socket.   *)
BeginRound(p) ==
    /\ portIndex[p] = Waiting
    /\ IF shutdown[p] \/ conn[p].SeenProbe \/ ProtocolRound[p] >= RandomRound
       THEN StopRounds(p) /\ UNCHANGED net
       ELSE /\ HasRoom(p)
            /\ portIndex' = [portIndex EXCEPT ![p] = 1] /\ UNCHANGED ProtocolRound
            /\ net' = IF ProtocolRound[p] <= 2 THEN Sent(net, p, Probe(p, Main, Main)) ELSE net
    /\ UNCHANGED <<nat, conn, shutdown, tasks, lost>>

(* The rendezvous server's connection is not found: the attempt is aborted. *)
ServerClosed(p) ==
    /\ portIndex[p] = Waiting /\ ~conn[p].SeenProbe /\ ~shutdown[p]
    /\ StopRounds(p)
    /\ shutdown' = [shutdown EXCEPT ![p] = TRUE]
    /\ UNCHANGED <<nat, conn, tasks, net, lost>>

(* The next pass of the loop: to the twin of the socket in the first round, *)
(* near the peer's port after that.  The last one starts the next timer.    *)
SendProbe(p) ==
    /\ portIndex[p] \in 1 .. NumPorts
    /\ IF conn[p].SeenProbe
       THEN StopRounds(p) /\ UNCHANGED net
       ELSE /\ HasRoom(p)
            /\ \E t \in IF ProtocolRound[p] = 1 THEN {portIndex[p]} ELSE Sockets :
                  net' = Sent(net, p, Probe(p, portIndex[p], t))
            /\ IF portIndex[p] < NumPorts
               THEN portIndex' = [portIndex EXCEPT ![p] = @ + 1] /\ UNCHANGED ProtocolRound
               ELSE /\ portIndex' = [portIndex EXCEPT ![p] = Waiting]
                    /\ ProtocolRound' = [ProtocolRound EXCEPT ![p] = @ + 1]
    /\ UNCHANGED <<nat, conn, shutdown, tasks, lost>>

-----------------------------------------------------------------------------
(* The reader of a socket *)

Known(p, d) == <<d.at, d.from>> \in conn[p].addrMap

(* A datagram whose handshake tells that its sender has moved.              *)
Moved(p, d) == ~Known(p, d) /\ d.kind = "data" /\ d.handshake = "update"

(* onUDPDatagram(), onUnrecognizedSource(): the source address first, then  *)
(* the key of a probe or of a connection request, then the connection id.   *)
TaskOf(p, d) ==
    CASE Known(p, d) -> IF d.kind = "probe" THEN "none" ELSE "datagram"
      [] Moved(p, d) -> "datagram"
      [] ~Known(p, d) /\ d.kind = "probe" ->
            IF d.key = GetExpectedIncomingProbeKey(p) THEN "probe" ELSE "none"
      [] ~Known(p, d) /\ d.kind = "data" /\ d.handshake = "p2p" ->
            IF d.key[2] = GetExpectedIncomingProbeKey(p) THEN "connect" ELSE "none"
      [] OTHER -> "none"

(* The i-th datagram is read.  A bare one from an unknown source is         *)
(* answered: the source is not recognized.                                  *)
Receive(p, i) ==
    /\ i \in DOMAIN net[p] /\ Len(tasks[p]) < MaxTasks
    /\ LET d == net[p][i]
           rest == [net EXCEPT ![p] = Without(@, i)]
           task == TaskOf(p, d)
       IN /\ tasks' = IF task = "none" THEN tasks
                      ELSE [tasks EXCEPT ![p] = Append(@, [task |-> task, datagram |-> d])]
          /\ conn' = [conn EXCEPT ![p].PeerAddressChangesAllowed = @ \/ Moved(p, d)]
          /\ net' = IF ~Known(p, d) /\ d.kind = "data" /\ d.handshake = "none"
                      /\ Len(net[Other(p)]) <= MaxNet
                    THEN Sent(rest, p, Unknown(d)) ELSE rest
    /\ UNCHANGED <<nat, roundVars, shutdown, lost>>

-----------------------------------------------------------------------------
(* The strand *)

(* setPeerAddress(): the entry moves within the map of the socket.          *)
SetPeerAddress(f, t) ==
    [f EXCEPT !.addrMap = (@ \ {<<f.source, f.dest>>}) \cup {<<f.source, t>>},
              !.dest = t, !.queued = @ \/ t # f.dest]

(* Fault: the old entry is looked for in the map of the new socket.         *)
BugSetPeerAddressAndSource(f, s, t) ==
    [f EXCEPT !.addrMap = (@ \ {<<s, f.dest>>}) \cup {<<s, t>>},
              !.source = s, !.dest = t, !.queued = @ \/ t # f.dest]

(* setPeerAddressAndSource(): the old entry stays if the new one is taken.  *)
SetPeerAddressAndSource(f, s, t) ==
    [f EXCEPT !.addrMap = IF <<s, t>> \in @ THEN @
                          ELSE (@ \ {<<f.source, f.dest>>}) \cup {<<s, t>>},
              !.source = s, !.dest = t, !.queued = @ \/ t # f.dest]

(* Fault: data from any address establishes the tie-breaker's connection.   *)
BugOnAuthenticatedDatagram(p, f, t) ==
    LET move == f.PeerAddressChangesAllowed /\ t # f.dest
        g == IF move THEN [SetPeerAddress(f, t) EXCEPT !.PeerAddressChangesAllowed = FALSE]
             ELSE f
    IN [g EXCEPT !.handshake = "none", !.ConnectionEstablished = TRUE]

(* OnAuthenticatedDatagram(): a moved peer's new address; no more requests; *)
(* the tie-breaker waits for data from the address it has chosen.           *)
OnAuthenticatedDatagram(p, f, t) ==
    LET move == f.PeerAddressChangesAllowed /\ t # f.dest
        g == IF move THEN [SetPeerAddress(f, t) EXCEPT !.PeerAddressChangesAllowed = FALSE]
             ELSE f
    IN [g EXCEPT !.handshake = "none",
                 !.ConnectionEstablished = @ \/ ~(g.SeenProbe /\ WinTies(p) /\ t # g.dest)]

(* ProcessDatagram(), with OnUnauthenticatedHandshake() and the id message. *)
ProcessDatagram(p, f, d) ==
    IF shutdown[p] THEN f
    ELSE IF d.kind = "unknown"
    THEN IF f.RemoteId THEN [f EXCEPT !.handshake = "update"] ELSE f
    ELSE [OnAuthenticatedDatagram(p, f, d.from) EXCEPT !.RemoteId = @ \/ d.id]

OnNATProbe(f, d) ==
    IF f.SeenProbe THEN f
    ELSE SetPeerAddressAndSource([f EXCEPT !.SeenProbe = TRUE, !.handshake = "p2p"],
                                 d.at, d.from)

(* OnP2PConnection(): the tie-breaker keeps the pair of its first probe.    *)
OnP2PConnection(p, f, d) ==
    IF d.key # GetExpectedIncomingHandshakeKey(p) THEN f
    ELSE LET seen == [f EXCEPT !.SeenProbe = TRUE]
         IN ProcessDatagram(p,
              IF f.SeenProbe /\ WinTies(p) THEN f
              ELSE IF f.dest # d.from \/ f.source # d.at
              THEN SetPeerAddressAndSource(seen, d.at, d.from)
              ELSE seen, d)

RunTask(p) ==
    /\ tasks[p] # <<>>
    /\ tasks' = [tasks EXCEPT ![p] = Tail(@)]
    /\ LET d == Head(tasks[p]).datagram
           task == Head(tasks[p]).task
       IN conn' = [conn EXCEPT ![p] =
             CASE task = "probe" -> OnNATProbe(@, d)
               [] task = "connect" -> OnP2PConnection(p, @, d)
               [] task = "datagram" -> ProcessDatagram(p, @, d)]
    /\ UNCHANGED <<nat, roundVars, shutdown, net, lost>>

(* onTimerTick(): what is queued is sent, padding if nothing is.            *)
Flush(p) ==
    /\ ~shutdown[p] /\ conn[p].dest # None
    /\ HasRoom(p) /\ net' = Sent(net, p, Data(p))
    /\ conn' = [conn EXCEPT ![p].queued = FALSE]
    /\ UNCHANGED <<nat, roundVars, shutdown, tasks, lost>>

PeerNext(p) ==
    \/ BeginRound(p) \/ SendProbe(p) \/ ServerClosed(p) \/ Lose(p)
    \/ \E i \in 1 .. MaxNet + 1 : Receive(p, i)
    \/ RunTask(p)
    \/ Flush(p)

HolePunchNext == \E p \in Peers : PeerNext(p)

HolePunchSpec == HolePunchInit /\ [][HolePunchNext]_vars

(* The strand runs its tasks and its tick; what is not lost arrives.        *)
FairHolePunch ==
    /\ HolePunchSpec
    /\ \A p \in Peers : WF_vars(RunTask(p)) /\ WF_vars(Receive(p, 1)) /\ SF_vars(Flush(p))

-----------------------------------------------------------------------------
(* The connection of p has heard a probe and attaches connection requests. *)
Heard(p) == conn[p].handshake = "p2p"

Running == \A p \in Peers : ~shutdown[p]
Established == \A p \in Peers : conn[p].ConnectionEstablished
Matched == Established /\ \A p \in Peers : conn[p].source = conn[Other(p)].dest

(* Datagrams of the peer reach the connection: at any time the only entry   *)
(* that the address maps of the sockets have for it is the pair it sends    *)
(* with, however probes, connection requests and moves follow each other    *)
(* (setPeerAddressAndSource(), setPeerAddress()).                           *)
RouteExact ==
    \A p \in Peers :
        conn[p].addrMap = IF conn[p].dest = None THEN {}
                          ELSE {<<conn[p].source, conn[p].dest>>}

(* Once both peers have told the app OnConnect(), they settle on one pair   *)
(* of sockets, though each may have heard the other first on another pair:  *)
(* the tie-breaker waits for the address it chose, and a peer that is not   *)
(* recognized says that it has moved.                                       *)
EstablishedMeet == (<>Established /\ []Running) => <>[]Matched

(* When the probes get through to one peer only, its connection request     *)
(* alone brings both peers to one pair: "Only A breaks through" and "Only B *)
(* breaks through" of HolePunch.README.txt, with a datagram lost.           *)
OneHeard ==
    (/\ <>(\E p \in Peers : Heard(p)) /\ (\E p \in Peers : []~Heard(p))
     /\ []Running) => <>[]Matched

(* "Both A and B break through": the request of the tie-breaker "will be    *)
(* retransmitted so no worries", and so the peers meet.                     *)
Meet == (<>(\E p \in Peers : Heard(p)) /\ []Running) => <>[]Matched

=============================================================================
