----------------------------- MODULE NATProofs -----------------------------
(***************************************************************************)
(* Proofs about the two ways through a NAT, for any number of peers,       *)
(* sockets, ports and troubles.                                            *)
(*                                                                         *)
(* Hole punching: the route a connection sends on is the one the address   *)
(* maps have for it.  RouteExact is inductive with the types of what is    *)
(* queued and in flight.                                                   *)
(*                                                                         *)
(* Port mapping: the thread of the mapper keeps copies of requests while   *)
(* the application destroys and repeats them.  The invariant PortIInv      *)
(* relates the three copies (the request in hand, the one the gateway is   *)
(* being asked for, the one the endpoint was last asked for) to what was   *)
(* reported, so that a late answer or an old removal cannot leave a port   *)
(* reported that the gateway does not map.                                 *)
(***************************************************************************)
EXTENDS HolePunch, PortMapper, FiniteSetTheorems, TLAPS

-----------------------------------------------------------------------------
(* Hole punching *)

Words == {"high", "low"}

(* What is on its way: from a socket, to a socket.                          *)
Datagrams ==
    [kind : {"probe"}, key : Words, from : Sockets, at : Sockets]
    \cup [kind : {"data"}, handshake : {"none", "p2p", "update"}, key : Words \X Words,
          id : BOOLEAN, from : Sockets, at : Sockets]
    \cup [kind : {"unknown"}, from : Sockets, at : Sockets]

PostedTasks == [task : {"probe", "connect", "datagram"}, datagram : Datagrams]

Connections ==
    [SeenProbe : BOOLEAN, source : Sockets, dest : Sockets \cup {None},
     addrMap : SUBSET (Sockets \X Sockets), handshake : {"none", "p2p", "update"},
     ConnectionEstablished : BOOLEAN, PeerAddressChangesAllowed : BOOLEAN,
     queued : BOOLEAN, RemoteId : BOOLEAN]

HolePunchTypeOK ==
    /\ ProtocolRound \in [Peers -> Nat] /\ portIndex \in [Peers -> Nat]
    /\ conn \in [Peers -> Connections]
    /\ tasks \in [Peers -> Seq(PostedTasks)] /\ net \in [Peers -> Seq(Datagrams)]

(* The address maps have the pair of sockets of connection f, if it has one. *)
Routed(f) == f.addrMap = IF f.dest = None THEN {} ELSE {<<f.source, f.dest>>}

Current(f) == f \in Connections /\ Routed(f)

PunchIInv == HolePunchTypeOK /\ RouteExact

-----------------------------------------------------------------------------
(* Lemmas on the operators of HolePunch *)

(* Sockets are numbers; None is not one of them. *)
LEMMA SocketNumbers == None \notin Sockets /\ Main \in Sockets /\ NumPorts \in Nat
  BY PeersAssumption DEF Sockets, None, Main

(* setPeerAddress() moves the entry in the maps with the address. *)
LEMMA SetPeerAddressIs ==
    ASSUME NEW f, Current(f), NEW t \in Sockets
    PROVE  Current(SetPeerAddress(f, t))
<1> DEFINE m == (f.addrMap \ {<<f.source, f.dest>>}) \cup {<<f.source, t>>}
           q == f.queued \/ t # f.dest
           g == [f EXCEPT !.addrMap = m, !.dest = t, !.queued = q]
<1>1. SetPeerAddress(f, t) = g
  BY DEF SetPeerAddress
<1>2. m = {<<f.source, t>>} /\ f.source \in Sockets
  BY Zenon DEF Current, Routed, Connections
<1>3. m \in SUBSET (Sockets \X Sockets) /\ q \in BOOLEAN
  BY <1>2
<1>4. t # None
  BY SocketNumbers, Zenon
<1> HIDE DEF m, q
<1>5. g \in Connections /\ g.source = f.source /\ g.dest = t /\ g.addrMap = m
  BY <1>3, Zenon DEF Current, Connections
<1> QED
  BY <1>1, <1>2, <1>4, <1>5, Zenon DEF Current, Routed

(* setPeerAddressAndSource() moves the entry with the pair of sockets. *)
LEMMA SetPeerAddressAndSourceIs ==
    ASSUME NEW f, Current(f), NEW s \in Sockets, NEW t \in Sockets
    PROVE  Current(SetPeerAddressAndSource(f, s, t))
<1> DEFINE m == IF <<s, t>> \in f.addrMap THEN f.addrMap
                ELSE (f.addrMap \ {<<f.source, f.dest>>}) \cup {<<s, t>>}
           q == f.queued \/ t # f.dest
           g == [f EXCEPT !.addrMap = m, !.source = s, !.dest = t, !.queued = q]
<1>1. SetPeerAddressAndSource(f, s, t) = g
  BY DEF SetPeerAddressAndSource
<1>2. m = {<<s, t>>}
  BY Zenon DEF Current, Routed, Connections
<1>3. m \in SUBSET (Sockets \X Sockets) /\ q \in BOOLEAN
  BY <1>2
<1>4. t # None
  BY SocketNumbers, Zenon
<1> HIDE DEF m, q
<1>5. g \in Connections /\ g.source = s /\ g.dest = t /\ g.addrMap = m
  BY <1>3, Zenon DEF Current, Connections
<1> QED
  BY <1>1, <1>2, <1>4, <1>5, Zenon DEF Current, Routed

(* Changes of other fields leave the entries alone.                         *)
LEMMA OtherFields ==
    ASSUME NEW f, Current(f), NEW h \in {"none", "p2p", "update"},
           NEW e \in BOOLEAN, NEW b \in BOOLEAN
    PROVE  /\ Current([f EXCEPT !.handshake = h, !.ConnectionEstablished = e])
           /\ Current([f EXCEPT !.PeerAddressChangesAllowed = b])
           /\ Current([f EXCEPT !.handshake = h])
           /\ Current([f EXCEPT !.RemoteId = b])
           /\ Current([f EXCEPT !.queued = b])
           /\ Current([f EXCEPT !.SeenProbe = b])
           /\ Current([f EXCEPT !.SeenProbe = b, !.handshake = h])
  BY Zenon DEF Current, Connections, Routed

(* An authenticated datagram leaves the entry current. *)
LEMMA OnAuthenticatedDatagramIs ==
    ASSUME NEW p \in Peers, NEW f, Current(f), NEW t \in Sockets
    PROVE  Current(OnAuthenticatedDatagram(p, f, t))
<1> DEFINE move == f.PeerAddressChangesAllowed /\ t # f.dest
           g == IF move THEN [SetPeerAddress(f, t) EXCEPT !.PeerAddressChangesAllowed = FALSE]
                ELSE f
           e == g.ConnectionEstablished \/ ~(g.SeenProbe /\ WinTies(p) /\ t # g.dest)
<1>1. Current(g)
  BY SetPeerAddressIs, OtherFields, Zenon
<1>2. e \in BOOLEAN
  OBVIOUS
<1>3. OnAuthenticatedDatagram(p, f, t) = [g EXCEPT !.handshake = "none", !.ConnectionEstablished = e]
  BY DEF OnAuthenticatedDatagram
<1> HIDE DEF g, e
<1>4. "none" \in {"none", "p2p", "update"}
  OBVIOUS
<1>5. Current([g EXCEPT !.handshake = "none", !.ConnectionEstablished = e])
  BY <1>1, <1>2, <1>4, OtherFields, Zenon
<1> QED
  BY <1>3, <1>5, Zenon

(* So does any datagram given to the connection. *)
LEMMA ProcessDatagramIs ==
    ASSUME NEW p \in Peers, NEW f, Current(f), NEW d \in Datagrams
    PROVE  Current(ProcessDatagram(p, f, d))
<1>1. d.from \in Sockets
  BY Zenon DEF Datagrams
<1> DEFINE g == OnAuthenticatedDatagram(p, f, d.from)
           r == g.RemoteId \/ d.id
<1>2. Current(g)
  BY <1>1, OnAuthenticatedDatagramIs, Zenon
<1>3. r \in BOOLEAN
  OBVIOUS
<1>4. ProcessDatagram(p, f, d) \in
         {f, [f EXCEPT !.handshake = "update"], [g EXCEPT !.RemoteId = r]}
  BY DEF ProcessDatagram
<1> HIDE DEF g, r
<1> QED
  BY <1>2, <1>3, <1>4, OtherFields, ZenonT(40)

(* So does a probe. *)
LEMMA OnNATProbeIs ==
    ASSUME NEW f, Current(f), NEW d \in Datagrams
    PROVE  Current(OnNATProbe(f, d))
<1>1. d.from \in Sockets /\ d.at \in Sockets
  BY Zenon DEF Datagrams
<1>2. Current([f EXCEPT !.SeenProbe = TRUE, !.handshake = "p2p"])
  BY OtherFields, Zenon
<1> QED
  BY <1>1, <1>2, SetPeerAddressAndSourceIs, Zenon DEF OnNATProbe

(* So does a request for a connection. *)
LEMMA OnP2PConnectionIs ==
    ASSUME NEW p \in Peers, NEW f, Current(f), NEW d \in Datagrams
    PROVE  Current(OnP2PConnection(p, f, d))
<1> DEFINE seen == [f EXCEPT !.SeenProbe = TRUE]
           g == IF f.SeenProbe /\ WinTies(p) THEN f
                ELSE IF f.dest # d.from \/ f.source # d.at
                THEN SetPeerAddressAndSource(seen, d.at, d.from)
                ELSE seen
<1>1. d.from \in Sockets /\ d.at \in Sockets
  BY Zenon DEF Datagrams
<1>2. Current(seen)
  BY OtherFields, Zenon
<1>3. Current(g)
  BY <1>1, <1>2, SetPeerAddressAndSourceIs, Zenon
<1>4. OnP2PConnection(p, f, d) \in {f, ProcessDatagram(p, g, d)}
  BY DEF OnP2PConnection
<1> HIDE DEF g
<1> QED
  BY <1>3, <1>4, ProcessDatagramIs, Zenon

-----------------------------------------------------------------------------
(* What is sent comes from a socket and goes to a socket.                   *)
LEMMA SentIs ==
    ASSUME NEW n \in [Peers -> Seq(Datagrams)], NEW p, NEW d, Passing(d) => d \in Datagrams
    PROVE  Sent(n, p, d) \in [Peers -> Seq(Datagrams)]
<1>1. CASE Passing(d)
  <2>1. ASSUME NEW q \in Peers PROVE Append(n[q], d) \in Seq(Datagrams)
    BY <1>1
  <2> QED
    BY <1>1, <2>1, Zenon DEF Sent
<1>2. CASE ~Passing(d)
  BY <1>2, Zenon DEF Sent
<1> QED
  BY <1>1, <1>2, Zenon

(* A queue without one of its entries. *)
LEMMA WithoutIs ==
    ASSUME NEW S, NEW s \in Seq(S), NEW i \in DOMAIN s
    PROVE  Without(s, i) \in Seq(S)
  BY DEF Without

(* What SendNATProbe() sends. *)
LEMMA ProbeIs ==
    ASSUME NEW p \in Peers, NEW s \in Sockets, NEW t
    PROVE  Passing(Probe(p, s, t)) => Probe(p, s, t) \in Datagrams
  BY Zenon DEF Probe, Passing, Datagrams, GetOutgoingProbeKey, EncryptionKey, Words

(* InitializeP2PConnection() starts without a route. *)
LEMMA InitPunch == HolePunchInit => PunchIInv
  BY SocketNumbers DEF HolePunchInit, PunchIInv, HolePunchTypeOK, RouteExact, Connections,
     Waiting

(* Steps that leave the connections alone.                                  *)
LEMMA SameConnections ==
    ASSUME PunchIInv, conn' = conn, ProtocolRound' \in [Peers -> Nat],
           portIndex' \in [Peers -> Nat], tasks' \in [Peers -> Seq(PostedTasks)],
           net' \in [Peers -> Seq(Datagrams)]
    PROVE  PunchIInv'
  BY Zenon DEF PunchIInv, HolePunchTypeOK, RouteExact

(* Steps that change one connection.                                        *)
LEMMA OneConnection ==
    ASSUME PunchIInv, NEW p \in Peers, NEW g, Current(g), conn' = [conn EXCEPT ![p] = g],
           ProtocolRound' = ProtocolRound, portIndex' = portIndex,
           tasks' \in [Peers -> Seq(PostedTasks)], net' \in [Peers -> Seq(Datagrams)]
    PROVE  PunchIInv'
<1>1. conn' \in [Peers -> Connections]
  BY Zenon DEF PunchIInv, HolePunchTypeOK, Current
<1>2. RouteExact'
  BY Zenon DEF PunchIInv, HolePunchTypeOK, RouteExact, Current, Routed
<1> QED
  BY <1>1, <1>2, Zenon DEF PunchIInv, HolePunchTypeOK

(* Rounds stop without touching a route. *)
LEMMA StopRoundsIs ==
    ASSUME PunchIInv, NEW p \in Peers, StopRounds(p)
    PROVE  ProtocolRound' \in [Peers -> Nat] /\ portIndex' \in [Peers -> Nat]
  BY SocketNumbers DEF StopRounds, Off, PunchIInv, HolePunchTypeOK

(* A round begins (onNATProbeRound). *)
LEMMA BeginRoundKeeps ==
    ASSUME PunchIInv, NEW p \in Peers, BeginRound(p)
    PROVE  PunchIInv'
<1>1. /\ net \in [Peers -> Seq(Datagrams)] /\ portIndex \in [Peers -> Nat]
      /\ ProtocolRound \in [Peers -> Nat] /\ tasks \in [Peers -> Seq(PostedTasks)]
  BY Zenon DEF PunchIInv, HolePunchTypeOK
<1>2. conn' = conn /\ tasks' = tasks
  BY Zenon DEF BeginRound
<1>3. Sent(net, p, Probe(p, Main, Main)) \in [Peers -> Seq(Datagrams)]
  BY <1>1, SentIs, ProbeIs, SocketNumbers, Zenon
<1>4. net' \in [Peers -> Seq(Datagrams)]
  BY <1>1, <1>3, Zenon DEF BeginRound
<1>5. ProtocolRound' \in [Peers -> Nat] /\ portIndex' \in [Peers -> Nat]
  <2>1. CASE StopRounds(p)
    BY <2>1, StopRoundsIs, Zenon
  <2>2. CASE ~StopRounds(p)
    <3>1. portIndex' = [portIndex EXCEPT ![p] = 1] /\ ProtocolRound' = ProtocolRound
      BY <2>2, Zenon DEF BeginRound
    <3> QED
      BY <1>1, <3>1, Zenon
  <2> QED
    BY <2>1, <2>2, Zenon
<1> QED
  BY <1>1, <1>2, <1>4, <1>5, SameConnections, Zenon

(* A round sends its next probe. *)
LEMMA SendProbeKeeps ==
    ASSUME PunchIInv, NEW p \in Peers, SendProbe(p)
    PROVE  PunchIInv'
<1>1. /\ net \in [Peers -> Seq(Datagrams)] /\ portIndex \in [Peers -> Nat]
      /\ ProtocolRound \in [Peers -> Nat] /\ tasks \in [Peers -> Seq(PostedTasks)]
  BY Zenon DEF PunchIInv, HolePunchTypeOK
<1>2. conn' = conn /\ tasks' = tasks
  BY Zenon DEF SendProbe
<1>3. portIndex[p] \in Sockets
  BY <1>1, SocketNumbers DEF SendProbe, Sockets, Main
<1>4. ASSUME NEW t PROVE Sent(net, p, Probe(p, portIndex[p], t)) \in [Peers -> Seq(Datagrams)]
  BY <1>1, <1>3, SentIs, ProbeIs, Zenon
<1>5. net' \in [Peers -> Seq(Datagrams)]
  BY <1>1, <1>4 DEF SendProbe
<1>6. ProtocolRound' \in [Peers -> Nat] /\ portIndex' \in [Peers -> Nat]
  <2>1. CASE StopRounds(p)
    BY <2>1, StopRoundsIs, Zenon
  <2>2. CASE ~StopRounds(p)
    <3>1. IF portIndex[p] < NumPorts
          THEN portIndex' = [portIndex EXCEPT ![p] = @ + 1] /\ ProtocolRound' = ProtocolRound
          ELSE /\ portIndex' = [portIndex EXCEPT ![p] = Waiting]
               /\ ProtocolRound' = [ProtocolRound EXCEPT ![p] = @ + 1]
      BY <2>2, Zenon DEF SendProbe
    <3>2. CASE portIndex[p] < NumPorts
      <4>1. portIndex' = [portIndex EXCEPT ![p] = portIndex[p] + 1] /\ ProtocolRound' = ProtocolRound
        BY <3>1, <3>2, Zenon
      <4> QED
        BY <1>1, <4>1
    <3>3. CASE ~(portIndex[p] < NumPorts)
      <4>1. /\ portIndex' = [portIndex EXCEPT ![p] = Waiting]
            /\ ProtocolRound' = [ProtocolRound EXCEPT ![p] = ProtocolRound[p] + 1]
        BY <3>1, <3>3, Zenon
      <4> QED
        BY <1>1, <4>1 DEF Waiting
    <3> QED
      BY <3>2, <3>3, Zenon
  <2> QED
    BY <2>1, <2>2, Zenon
<1> QED
  BY <1>1, <1>2, <1>5, <1>6, SameConnections, Zenon

(* A socket receives a datagram and posts it to the connection. *)
LEMMA ReceiveKeeps ==
    ASSUME PunchIInv, NEW p \in Peers, NEW i, Receive(p, i)
    PROVE  PunchIInv'
<1> DEFINE d == net[p][i]
           rest == [net EXCEPT ![p] = Without(@, i)]
           b == conn[p].PeerAddressChangesAllowed \/ Moved(p, d)
           g == [conn[p] EXCEPT !.PeerAddressChangesAllowed = b]
<1>1. /\ net \in [Peers -> Seq(Datagrams)] /\ tasks \in [Peers -> Seq(PostedTasks)]
      /\ conn \in [Peers -> Connections] /\ Current(conn[p])
  BY Zenon DEF PunchIInv, HolePunchTypeOK, RouteExact, Current, Routed
<1>2. i \in DOMAIN net[p] /\ d \in Datagrams
  BY <1>1 DEF Receive
<1>3. rest \in [Peers -> Seq(Datagrams)]
  BY <1>1, <1>2, WithoutIs, Zenon
<1>4. Passing(Unknown(d)) => Unknown(d) \in Datagrams
  BY <1>2, Zenon DEF Unknown, Passing, Datagrams
<1>5. net' \in [Peers -> Seq(Datagrams)]
  <2>1. Sent(rest, p, Unknown(d)) \in [Peers -> Seq(Datagrams)]
    BY <1>3, <1>4, SentIs, Zenon
  <2>2. net' \in {rest, Sent(rest, p, Unknown(d))}
    BY Zenon DEF Receive
  <2> QED
    BY <1>3, <2>1, <2>2, Zenon
<1>6. tasks' \in [Peers -> Seq(PostedTasks)]
  <2>1. TaskOf(p, d) \in {"none", "probe", "connect", "datagram"}
    BY <1>2, Zenon DEF TaskOf, Moved, Datagrams
  <2>2. TaskOf(p, d) # "none" => [task |-> TaskOf(p, d), datagram |-> d] \in PostedTasks
    BY <1>2, <2>1, Zenon DEF PostedTasks
  <2>3. tasks' = IF TaskOf(p, d) = "none" THEN tasks
                 ELSE [tasks EXCEPT ![p] = Append(@, [task |-> TaskOf(p, d), datagram |-> d])]
    BY Zenon DEF Receive
  <2> QED
    BY <1>1, <2>2, <2>3
<1>7. b \in BOOLEAN
  BY Zenon
<1>8. conn' = [conn EXCEPT ![p] = g]
  BY <1>1, Zenon DEF Receive
<1> HIDE DEF b
<1>9. Current(g)
  BY <1>1, <1>7, OtherFields, Zenon
<1>10. ProtocolRound' = ProtocolRound /\ portIndex' = portIndex
  BY Zenon DEF Receive, roundVars
<1> HIDE DEF g
<1> QED
  BY <1>5, <1>6, <1>8, <1>9, <1>10, OneConnection, Zenon

(* The strand of the connection runs what was posted. *)
LEMMA RunTaskKeeps ==
    ASSUME PunchIInv, NEW p \in Peers, RunTask(p)
    PROVE  PunchIInv'
<1> DEFINE d == Head(tasks[p]).datagram
           task == Head(tasks[p]).task
           f == conn[p]
           g == CASE task = "probe" -> OnNATProbe(f, d)
                  [] task = "connect" -> OnP2PConnection(p, f, d)
                  [] task = "datagram" -> ProcessDatagram(p, f, d)
<1>1. /\ net \in [Peers -> Seq(Datagrams)] /\ tasks \in [Peers -> Seq(PostedTasks)]
      /\ conn \in [Peers -> Connections] /\ Current(f)
  BY Zenon DEF PunchIInv, HolePunchTypeOK, RouteExact, Current, Routed
<1>2. /\ tasks[p] # <<>> /\ tasks' = [tasks EXCEPT ![p] = Tail(@)]
      /\ conn' = [conn EXCEPT ![p] = g] /\ net' = net
      /\ ProtocolRound' = ProtocolRound /\ portIndex' = portIndex
  BY <1>1, Zenon DEF RunTask, roundVars
<1>3. Head(tasks[p]) \in PostedTasks /\ Tail(tasks[p]) \in Seq(PostedTasks)
  BY <1>1, <1>2
<1>4. d \in Datagrams /\ task \in {"probe", "connect", "datagram"}
  BY <1>3, Zenon DEF PostedTasks
<1>5. Current(g)
  <2> HIDE DEF d, task, f
  <2>1. Current(OnNATProbe(f, d)) /\ Current(OnP2PConnection(p, f, d))
        /\ Current(ProcessDatagram(p, f, d))
    BY <1>1, <1>4, OnNATProbeIs, OnP2PConnectionIs, ProcessDatagramIs, Zenon
  <2> QED
    BY <1>4, <2>1, Zenon
<1>6. tasks' \in [Peers -> Seq(PostedTasks)]
  BY <1>1, <1>2, <1>3, Zenon
<1> HIDE DEF g
<1> QED
  BY <1>1, <1>2, <1>5, <1>6, OneConnection, Zenon

(* The timer of the connection sends what is queued. *)
LEMMA FlushKeeps ==
    ASSUME PunchIInv, NEW p \in Peers, Flush(p)
    PROVE  PunchIInv'
<1> DEFINE g == [conn[p] EXCEPT !.queued = FALSE]
           id == conn[p].queued \/ conn[p].ConnectionEstablished
<1>1. /\ net \in [Peers -> Seq(Datagrams)] /\ tasks \in [Peers -> Seq(PostedTasks)]
      /\ conn \in [Peers -> Connections] /\ Current(conn[p])
  BY Zenon DEF PunchIInv, HolePunchTypeOK, RouteExact, Current, Routed
<1>2. conn' = [conn EXCEPT ![p] = g] /\ tasks' = tasks
      /\ ProtocolRound' = ProtocolRound /\ portIndex' = portIndex
  BY <1>1, Zenon DEF Flush, roundVars
<1>3. Current(g)
  BY <1>1, OtherFields, Zenon
<1>4. Data(p) \in Datagrams
  <2>1. GetOutgoingHandshakeKey(p) \in Words \X Words
    BY Zenon DEF GetOutgoingHandshakeKey, Swap, EncryptionKey, Words
  <2>2. /\ conn[p].source \in Sockets /\ conn[p].dest \in Sockets
        /\ conn[p].handshake \in {"none", "p2p", "update"}
    BY <1>1, Zenon DEF Connections, Flush
  <2>3. id \in BOOLEAN
    OBVIOUS
  <2>4. Data(p) = [kind |-> "data", handshake |-> conn[p].handshake,
                   key |-> GetOutgoingHandshakeKey(p), id |-> id,
                   from |-> conn[p].source, at |-> conn[p].dest]
    BY Zenon DEF Data
  <2> HIDE DEF id
  <2> QED
    BY <2>1, <2>2, <2>3, <2>4 DEF Datagrams
<1>5. net' \in [Peers -> Seq(Datagrams)]
  BY <1>1, <1>4, SentIs, Zenon DEF Flush
<1> HIDE DEF g
<1> QED
  BY <1>1, <1>2, <1>3, <1>5, OneConnection, Zenon

(* Every step keeps the routes current. *)
LEMMA NextPunch == PunchIInv /\ [HolePunchNext]_vars => PunchIInv'
<1> SUFFICES ASSUME PunchIInv, [HolePunchNext]_vars PROVE PunchIInv'
  OBVIOUS
<1>0. /\ net \in [Peers -> Seq(Datagrams)] /\ portIndex \in [Peers -> Nat]
      /\ ProtocolRound \in [Peers -> Nat] /\ tasks \in [Peers -> Seq(PostedTasks)]
  BY Zenon DEF PunchIInv, HolePunchTypeOK
<1>1. ASSUME NEW p \in Peers, ServerClosed(p) PROVE PunchIInv'
  BY <1>0, <1>1, StopRoundsIs, SameConnections, Zenon DEF ServerClosed
<1>2. ASSUME NEW p \in Peers, Lose(p) PROVE PunchIInv'
  <2>1. net' \in [Peers -> Seq(Datagrams)]
    BY <1>0, <1>2, WithoutIs DEF Lose
  <2> QED
    BY <1>0, <1>2, <2>1, SameConnections, Zenon DEF Lose, roundVars
<1>3. CASE UNCHANGED vars
  BY <1>0, <1>3, SameConnections, Zenon DEF vars, roundVars
<1>4. ASSUME NEW p \in Peers, PeerNext(p) PROVE PunchIInv'
  BY <1>1, <1>2, <1>4, BeginRoundKeeps, SendProbeKeeps, ReceiveKeeps, RunTaskKeeps, FlushKeeps, Zenon
     DEF PeerNext
<1> QED
  BY <1>3, <1>4, Zenon DEF HolePunchNext

(* For any number of probe sockets, datagrams, tasks and losses: the only   *)
(* entry the address maps have for a P2P connection is the pair of sockets  *)
(* it sends with, whatever order probes, requests and moves come in.        *)
THEOREM RouteStaysExact == HolePunchSpec => []RouteExact
<1>1. PunchIInv => RouteExact
  BY DEF PunchIInv
<1> QED
  BY <1>1, InitPunch, NextPunch, PTL DEF HolePunchSpec

-----------------------------------------------------------------------------
(* Port mapping *)

(* What the application asks for and what is asked of the gateway.          *)
Types == {"none", "Add", "Remove"}
Requesters == {"none", "open", "stuck", "over"}
Externals == {"none", "local", "random"}

Controls ==
    [LastApp : Types, RetriesRemaining : Int, Requester : Requesters,
     asked : Types, port : Externals, FailedRequestedPort : BOOLEAN,
     AddedExternalPort : Externals, AddAgainOnTimer : BOOLEAN, due : BOOLEAN]

Gateways ==
    [known : BOOLEAN, RetriesRemaining : Int, Requester : Requesters, Completed : BOOLEAN]

Machines ==
    [API_Requests : [Ports -> [Type : Types, API_LifetimePtr : Nat]],
     API_Requests_Updated : BOOLEAN, Requests : [Ports -> Types],
     LAN : BOOLEAN, AttemptsRemaining : Int, SSDPAddresses : BOOLEAN, asked : Int,
     gateway : Gateways, control : {"unknown", "active", "inactive"},
     ControlRequests : [Ports -> Controls]]

Apps ==
    [life : SUBSET (Ports \X Nat), ExternalMappedPort : [Ports -> Externals],
     API_References : Nat, PortMapper : BOOLEAN, used : Nat]

PortTypeOK ==
    /\ app \in Apps
    /\ machine \in Machines
    /\ router \in [Ports -> SUBSET Externals]
    /\ lapsed \in [Ports -> SUBSET Externals]
    /\ network \in BOOLEAN

(* The objects are counted, and the number of the next one is new.          *)
Numbered == IsFiniteSet(app.life) /\ \A o \in app.life : o[2] <= app.used

(* A request that points to an object wants the port, and an external port  *)
(* is reported only through such a pointer.  Requests is a copy that may be *)
(* old.                                                                     *)
WishOf(request, reported) ==
    /\ request.Type = "Add" <=> request.API_LifetimePtr # 0
    /\ request.API_LifetimePtr = 0 => reported = "none"

Wishes ==
    /\ \A p \in Ports : WishOf(machine.API_Requests[p], app.ExternalMappedPort[p])
    /\ ~machine.API_Requests_Updated =>
          \A p \in Ports : machine.Requests[p] = machine.API_Requests[p].Type

(* A request under way knows what it asked for, and no port is reported     *)
(* while its removal is under way.                                          *)
AskedFor(c, reported) ==
    /\ c.asked = "none" <=> c.Requester \in {"none", "over"}
    /\ c.asked = "Remove" => reported = "none"

(* While the endpoint waits to be found again, OnXMLResponse() will look at *)
(* the old copy: it asks for no removal of a port reported in the meantime. *)
NotRemovedByOldWish(c, wish, reported) ==
    /\ c.LastApp = "Remove"
    /\ wish = "Remove" /\ reported # "none" => c.RetriesRemaining = 0

(* An endpoint that is active has nothing more to come from the gateway's   *)
(* description.                                                             *)
Described(g) ==
    g.known /\ g.Completed /\ g.Requester \in {"none", "over"} /\ g.RetriesRemaining = 0

PortIInv ==
    /\ PortTypeOK /\ Numbered /\ PointersLive /\ Wishes /\ ReportedIsMapped
    /\ \A p \in Ports : AskedFor(machine.ControlRequests[p], app.ExternalMappedPort[p])
    /\ machine.control # "active" =>
          \A p \in Ports : NotRemovedByOldWish(machine.ControlRequests[p], machine.Requests[p],
                                               app.ExternalMappedPort[p])
    /\ machine.control = "active" => Described(machine.gateway)
    /\ machine.gateway.Requester = "open" => machine.gateway.known


-----------------------------------------------------------------------------
(* Lemmas on the operators of PortMapper *)

(* A mapper starts with what the application asked for, and nothing else.   *)
LEMMA NewMachineIs ==
    ASSUME NEW lan \in BOOLEAN, NEW requests \in [Ports -> [Type : Types, API_LifetimePtr : Nat]],
           NEW m, m = NewMachine(lan, requests)
    PROVE  /\ m \in Machines
           /\ m.API_Requests = requests /\ m.API_Requests_Updated
           /\ m.Requests = [p \in Ports |-> "none"]
           /\ m.gateway.Requester = "none" /\ m.control = "unknown"
           /\ m.ControlRequests = [p \in Ports |-> NewControlRequest]
<1>1. NewControlRequest \in Controls
  BY PortsAssumption DEF NewControlRequest, Controls, Types, Requesters, Externals, Retries
<1>2. Retries \in Nat
  BY PortsAssumption, Zenon DEF Retries
<1> QED
  BY <1>1, <1>2 DEF NewMachine, Machines, Gateways, Types, Requesters

(* A new machine has no request of the application. *)
LEMMA NoRequests ==
    NoMachine.API_Requests = [p \in Ports |-> NoRequest]
  BY Zenon DEF NoMachine, NewMachine

(* A request that begins asks for what the application wants; it is a       *)
(* removal only if retries are left, or the wish has changed.               *)
LEMMA BeginIs ==
    ASSUME NEW c \in Controls, NEW type \in Types, NEW lan \in BOOLEAN,
           NEW timeout \in BOOLEAN, NEW reported, AskedFor(c, reported),
           type = "Remove" /\ reported # "none" => c.LastApp = "Remove" /\ c.RetriesRemaining = 0
    PROVE  LET b == BeginControlSOAPRequest(c, type, lan, timeout)
           IN  b \in Controls /\ AskedFor(b, reported)
<1> DEFINE r == Checked(c.Requester, timeout)
           d == Renewed(AppChanged([c EXCEPT !.Requester = r], type), type)
           b == BeginControlSOAPRequest(c, type, lan, timeout)
<1>0. Retries \in Nat
  BY PortsAssumption, Zenon DEF Retries
<1>1. r \in Requesters /\ (r = "none" => c.asked = "none")
      /\ (r \in {"none", "over"} <=> c.Requester \in {"none", "over"})
  BY Zenon DEF Checked, Requesters, Controls, AskedFor
<1>2. CASE type = "none"
  BY <1>2, Zenon DEF BeginControlSOAPRequest
<1>3. CASE type # "none" /\ r # "none"
  <2>1. b = [c EXCEPT !.Requester = r, !.FailedRequestedPort = @ /\ r = c.Requester]
    BY <1>3, Zenon DEF BeginControlSOAPRequest
  <2> QED
    BY <2>1, <1>1, Zenon DEF Controls, AskedFor
<1>4. CASE type # "none" /\ r = "none"
  <2> DEFINE c1 == [c EXCEPT !.Requester = r]
             a == AppChanged(c1, type)
  <2>0. /\ c1 \in Controls /\ c1.Requester = "none" /\ c1.asked = "none"
        /\ c1.LastApp = c.LastApp /\ c1.RetriesRemaining = c.RetriesRemaining
    BY <1>1, <1>4, Zenon DEF Controls
  <2>a. /\ a \in Controls /\ a.Requester = "none" /\ a.asked = "none"
        /\ type = "Remove" /\ reported # "none" => a.RetriesRemaining = 0
    <3> HIDE DEF c1
    <3>1. CASE c1.LastApp = type
      BY <3>1, <2>0, Zenon DEF AppChanged
    <3>2. CASE c1.LastApp # type
      <4> DEFINE n == IF (type = "Add") = (c1.AddedExternalPort = "none")
                      THEN Retries ELSE c1.RetriesRemaining
                 t == c1.AddAgainOnTimer /\ (type = "Add" \/ c1.AddedExternalPort = "none")
      <4>1. a = [c1 EXCEPT !.LastApp = type, !.RetriesRemaining = n, !.AddAgainOnTimer = t]
        BY <3>2, Zenon DEF AppChanged
      <4>2. n \in Int
        BY <1>0, <2>0 DEF Controls
      <4>3. t \in BOOLEAN
        BY Zenon
      <4> HIDE DEF n, t, a
      <4> QED
        BY <4>1, <4>2, <4>3, <3>2, <2>0, Zenon DEF Controls
    <3> QED
      BY <3>1, <3>2, Zenon
  <2>1. /\ d \in Controls /\ d.Requester = "none" /\ d.asked = "none"
        /\ type = "Remove" /\ reported # "none" => d.RetriesRemaining = 0
    <3> HIDE DEF a
    <3>1. d = Renewed(a, type)
      BY Zenon DEF a
    <3> QED
      BY <3>1, <2>a, <1>0 DEF Renewed, Controls
  <2> HIDE DEF d
  <2>2. CASE ~lan \/ d.RetriesRemaining <= 0
    <3>1. b = d
      BY <1>4, <2>2, Zenon DEF BeginControlSOAPRequest, d
    <3> QED
      BY <3>1, <2>1, Zenon DEF AskedFor
  <2>3. CASE ~(~lan \/ d.RetriesRemaining <= 0)
    <3> DEFINE e == [d EXCEPT !.RetriesRemaining = @ - 1]
    <3>1. b = RequestSOAP(e, type)
      BY <1>4, <2>3, Zenon DEF BeginControlSOAPRequest, d
    <3>2. e \in Controls /\ e.Requester = "none" /\ e.asked = "none"
      BY <2>1 DEF Controls
    <3>3. type = "Remove" => reported = "none"
      BY <2>1, <2>3
    <3> HIDE DEF e
    <3>4. PICK port \in Externals :
             b = IF port = "none" THEN e
                 ELSE [e EXCEPT !.Requester = "open", !.asked = type, !.port = port]
      BY <3>1, <3>2, Zenon DEF RequestSOAP, Controls, Externals
    <3>5. CASE port = "none"
      BY <3>2, <3>4, <3>5, Zenon DEF AskedFor
    <3>6. CASE port # "none"
      BY <3>2, <3>3, <3>4, <3>6, <1>4, ZenonT(40) DEF AskedFor, Controls, Requesters
    <3> QED
      BY <3>5, <3>6, Zenon
  <2> QED
    BY <2>2, <2>3, Zenon
<1> QED
  BY <1>2, <1>3, <1>4, Zenon

(* One lifetime object more or less, counted. *)
LEMMA LifeCounts ==
    ASSUME NEW S, IsFiniteSet(S), NEW o
    PROVE  /\ Cardinality(S) \in Nat
           /\ Cardinality(S) = 0 => S = {}
           /\ o \notin S => /\ IsFiniteSet(S \union {o})
                            /\ Cardinality(S \union {o}) = Cardinality(S) + 1
           /\ o \in S => /\ Cardinality(S) > 0
                         /\ IsFiniteSet(S \ {o})
                         /\ Cardinality(S \ {o}) = Cardinality(S) - 1
<1>1. Cardinality(S) \in Nat /\ (Cardinality(S) = 0 => S = {})
  BY FS_CardinalityType, FS_EmptySet, Zenon
<1>2. o \notin S => /\ IsFiniteSet(S \union {o})
                   /\ Cardinality(S \union {o}) = Cardinality(S) + 1
  BY FS_AddElement, Zenon
<1>3. o \in S => IsFiniteSet(S \ {o}) /\ Cardinality(S \ {o}) = Cardinality(S) - 1
  BY FS_RemoveElement, Zenon
<1>4. o \in S => Cardinality(S) # 0
  BY <1>1, Zenon
<1>5. o \in S => Cardinality(S) > 0
  BY <1>1, <1>4
<1> QED
  BY <1>1, <1>2, <1>3, <1>5, Zenon

(* Where no object is pointed to, no port is wanted. *)
LEMMA NoWish == WishOf(NoRequest, "none")
  BY DEF WishOf, NoRequest

-----------------------------------------------------------------------------
(* Nothing is asked for or reported at first. *)
LEMMA InitPortIInv == PortInit => PortIInv
<1> SUFFICES ASSUME PortInit PROVE PortIInv
  OBVIOUS
<1> USE PortsAssumption
<1> DEFINE request == [Type |-> "Add", API_LifetimePtr |-> 1]
           requests == [NoMachine.API_Requests EXCEPT ![First] = request]
<1>1. /\ requests \in [Ports -> [Type : Types, API_LifetimePtr : Nat]]
      /\ requests[First] = request
      /\ \A p \in Ports \ {First} : requests[p] = NoRequest
  BY NoRequests DEF NoRequest, Types
<1>2. machine = NewMachine(TRUE, requests)
  BY Zenon DEF PortInit
<1> HIDE DEF requests
<1>3. /\ machine \in Machines
      /\ machine.API_Requests = requests /\ machine.API_Requests_Updated
      /\ machine.Requests = [p \in Ports |-> "none"]
      /\ machine.gateway.Requester = "none" /\ machine.control = "unknown"
      /\ machine.ControlRequests = [p \in Ports |-> NewControlRequest]
  <2>1. requests \in [Ports -> [Type : Types, API_LifetimePtr : Nat]]
    BY <1>1, Zenon
  <2> HIDE DEF request
  <2> QED
    BY <1>2, <2>1, NewMachineIs, Zenon
<1>4. PortTypeOK
  <2>1. app \in Apps
    <3>1. <<First, 1>> \in Ports \X Nat
      OBVIOUS
    <3> QED
      BY <3>1, Zenon DEF PortInit, Externals, Apps
  <2>2. /\ router \in [Ports -> SUBSET Externals] /\ network \in BOOLEAN
        /\ lapsed \in [Ports -> SUBSET Externals]
    BY Zenon DEF PortInit
  <2> QED
    BY <1>3, <2>1, <2>2, Zenon DEF PortTypeOK
<1>5. /\ app.life = {<<First, 1>>} /\ app.API_References = 1 /\ app.PortMapper = TRUE
      /\ app.used = 1
  BY Zenon DEF PortInit
<1>6. /\ Numbered
      /\ app.API_References = Cardinality(app.life)
  <2>1. IsFiniteSet(app.life) /\ Cardinality(app.life) = 1
    <3>1. IsFiniteSet({<<First, 1>>}) /\ Cardinality({<<First, 1>>}) = 1
      BY FS_Singleton, Zenon
    <3> QED
      BY <1>5, <3>1, Zenon
  <2>2. \A o \in app.life : o[2] <= app.used
    BY <1>5
  <2> QED
    BY <1>5, <2>1, <2>2, Zenon DEF Numbered
<1>7. PointersLive
  <2>1. \A p \in Ports : LET ref == machine.API_Requests[p].API_LifetimePtr
                          IN  ref # 0 => <<p, ref>> \in app.life
    BY <1>1, <1>3, <1>5 DEF NoRequest
  <2>2. app.PortMapper = (app.API_References > 0)
    <3>1. app.API_References > 0
      BY <1>5
    <3>2. (app.API_References > 0) = TRUE
      BY <3>1, Zenon
    <3> QED
      BY <1>5, <3>2, Zenon
  <2> QED
    BY <1>6, <2>1, <2>2, Zenon DEF PointersLive
<1>8. Wishes
  <2>1. \A p \in Ports : app.ExternalMappedPort[p] = "none"
    BY Zenon DEF PortInit
  <2>2. \A p \in Ports : WishOf(machine.API_Requests[p], "none")
    BY <1>1, <1>3 DEF NoRequest, WishOf
  <2> QED
    BY <1>3, <2>1, <2>2, Zenon DEF Wishes
<1>9. ReportedIsMapped
  BY Zenon DEF PortInit, ReportedIsMapped
<1>10. /\ \A p \in Ports : AskedFor(machine.ControlRequests[p], app.ExternalMappedPort[p])
       /\ \A p \in Ports : NotRemovedByOldWish(machine.ControlRequests[p], machine.Requests[p],
                                               app.ExternalMappedPort[p])
  BY <1>3 DEF AskedFor, NotRemovedByOldWish, NewControlRequest
<1> QED
  BY <1>3, <1>4, <1>6, <1>7, <1>8, <1>9, <1>10, Zenon DEF PortIInv

(* The pieces of the invariant about machine and app.                       *)
Quiet ==
    /\ \A p \in Ports : AskedFor(machine.ControlRequests[p], app.ExternalMappedPort[p])
    /\ machine.control # "active" =>
          \A p \in Ports : NotRemovedByOldWish(machine.ControlRequests[p], machine.Requests[p],
                                               app.ExternalMappedPort[p])
    /\ machine.control = "active" => Described(machine.gateway)
    /\ machine.gateway.Requester = "open" => machine.gateway.known

Wanted == [Type : Types, API_LifetimePtr : Nat]

(* A machine that differs in API_Requests only.                             *)
LEMMA API_RequestIs ==
    ASSUME NEW m \in Machines, NEW p \in Ports, NEW request \in Wanted,
           NEW n, n = API_Request(m, p, request)
    PROVE  /\ n \in Machines
           /\ n.API_Requests = [m.API_Requests EXCEPT ![p] = request]
           /\ n.API_Requests_Updated
           /\ n.Requests = m.Requests /\ n.gateway = m.gateway
           /\ n.control = m.control /\ n.ControlRequests = m.ControlRequests
  BY Zenon DEF API_Request, Machines, Wanted

(* A new mapper has nothing under way.                                      *)
LEMMA NewMachineQuiet ==
    ASSUME machine'.control = "unknown", machine'.gateway.Requester = "none",
           machine'.Requests = [p \in Ports |-> "none"],
           machine'.ControlRequests = [p \in Ports |-> NewControlRequest]
    PROVE  Quiet'
  BY DEF Quiet, AskedFor, NotRemovedByOldWish, NewControlRequest

(* A table with one entry changed. *)
LEMMA ExceptAt ==
    ASSUME NEW S, NEW T, NEW f \in [S -> T], NEW p \in S, NEW v
    PROVE  /\ [f EXCEPT ![p] = v][p] = v
           /\ \A q \in S \ {p} : [f EXCEPT ![p] = v][q] = f[q]
  BY Zenon

(* What is asked for and under way stays in step when the application      *)
(* changes one of its requests: the port of it is not reported any more.    *)
LEMMA QuietKept ==
    ASSUME PortIInv, NEW p \in Ports, app.ExternalMappedPort \in [Ports -> Externals],
           app'.ExternalMappedPort = [app.ExternalMappedPort EXCEPT ![p] = "none"],
           machine'.Requests = machine.Requests, machine'.gateway = machine.gateway,
           machine'.control = machine.control,
           machine'.ControlRequests = machine.ControlRequests
    PROVE  Quiet'
<1>1. \A q \in Ports : app'.ExternalMappedPort[q] \in {"none", app.ExternalMappedPort[q]}
  BY ExceptAt, Zenon
<1>2. \A q \in Ports : AskedFor(machine.ControlRequests[q], app'.ExternalMappedPort[q])
  <2>1. ASSUME NEW q \in Ports
        PROVE  AskedFor(machine.ControlRequests[q], app'.ExternalMappedPort[q])
    <3>1. AskedFor(machine.ControlRequests[q], app.ExternalMappedPort[q])
      BY Zenon DEF PortIInv
    <3>2. app.ExternalMappedPort[q] = "none" => app'.ExternalMappedPort[q] = "none"
      BY <1>1, Zenon
    <3> QED
      BY <3>1, <3>2, Zenon DEF AskedFor
  <2> QED
    BY <2>1, Zenon
<1>3. machine.control # "active" =>
         \A q \in Ports : NotRemovedByOldWish(machine.ControlRequests[q], machine.Requests[q],
                                              app'.ExternalMappedPort[q])
  <2>1. ASSUME machine.control # "active", NEW q \in Ports
        PROVE  NotRemovedByOldWish(machine.ControlRequests[q], machine.Requests[q],
                                   app'.ExternalMappedPort[q])
    <3>1. NotRemovedByOldWish(machine.ControlRequests[q], machine.Requests[q],
                              app.ExternalMappedPort[q])
      BY <2>1, Zenon DEF PortIInv
    <3>2. app.ExternalMappedPort[q] = "none" => app'.ExternalMappedPort[q] = "none"
      BY <1>1, Zenon
    <3> QED
      BY <3>1, <3>2, Zenon DEF NotRemovedByOldWish
  <2> QED
    BY <2>1, Zenon
<1> QED
  BY <1>2, <1>3, Zenon DEF PortIInv, Quiet

(* The application asks for a port (RequestPortMap). *)
LEMMA RequestPortMapKeeps ==
    ASSUME PortIInv, NEW p \in Ports, RequestPortMap(p)
    PROVE  PortIInv'
<1> DEFINE ref == app.used + 1
           new == [Type |-> "Add", API_LifetimePtr |-> ref]
           o == <<p, ref>>
<1>1. /\ app.life \in SUBSET (Ports \X Nat) /\ app.ExternalMappedPort \in [Ports -> Externals]
      /\ app.API_References \in Nat /\ app.used \in Nat /\ app \in Apps
      /\ machine \in Machines /\ machine.API_Requests \in [Ports -> Wanted]
  BY Zenon DEF PortIInv, PortTypeOK, Apps, Machines, Wanted
<1>2. /\ new \in Wanted /\ ref \in Nat \ {0} /\ o \in Ports \X Nat /\ ref > app.used
      /\ new.API_LifetimePtr = ref /\ new.Type = "Add"
  BY <1>1 DEF Wanted, Types
<1>3. /\ app'.life = app.life \union {o} /\ app'.used = ref
      /\ app'.ExternalMappedPort = [app.ExternalMappedPort EXCEPT ![p] = "none"]
      /\ app'.API_References = app.API_References + 1 /\ app'.PortMapper = TRUE
      /\ app' \in Apps
  <2>1. app' = [app EXCEPT !.life = app.life \union {o}, !.used = ref,
                           !.ExternalMappedPort = [app.ExternalMappedPort EXCEPT ![p] = "none"],
                           !.PortMapper = TRUE, !.API_References = app.API_References + 1]
    BY <1>1, Zenon DEF RequestPortMap, Apps
  <2>2. /\ app.life \union {o} \in SUBSET (Ports \X Nat)
        /\ [app.ExternalMappedPort EXCEPT ![p] = "none"] \in [Ports -> Externals]
        /\ app.API_References + 1 \in Nat /\ ref \in Nat
    <3> HIDE DEF o, ref
    <3> QED
      BY <1>1, <1>2 DEF Externals
  <2> HIDE DEF o, ref
  <2> QED
    BY <1>1, <2>1, <2>2, Zenon DEF Apps
<1>4. /\ router' = router /\ lapsed' = lapsed /\ network' = network /\ network \in BOOLEAN
      /\ machine' = IF app.API_References <= 0
                    THEN NewMachine(network, [NoMachine.API_Requests EXCEPT ![p] = new])
                    ELSE API_Request(machine, p, new)
  BY Zenon DEF RequestPortMap, PortIInv, PortTypeOK
<1>5. /\ o \notin app.life /\ IsFiniteSet(app.life)
      /\ app.API_References = Cardinality(app.life)
  <2>1. \A a \in app.life : a[2] <= app.used
    BY Zenon DEF PortIInv, Numbered
  <2>2. o[2] = ref /\ ~(ref <= app.used)
    BY <1>1, <1>2
  <2> HIDE DEF o, ref
  <2> QED
    BY <2>1, <2>2, Zenon DEF PortIInv, Numbered, PointersLive
<1> HIDE DEF new
<1>6. /\ machine' \in Machines /\ machine'.API_Requests_Updated
      /\ machine'.API_Requests[p] = new
      /\ \A q \in Ports \ {p} : machine'.API_Requests[q] \in {NoRequest, machine.API_Requests[q]}
      /\ app.API_References <= 0 => \A q \in Ports \ {p} : machine'.API_Requests[q] = NoRequest
      /\ ~(app.API_References <= 0) =>
            \A q \in Ports \ {p} : machine'.API_Requests[q] = machine.API_Requests[q]
      /\ Quiet'
  <2>1. CASE app.API_References <= 0
    <3> DEFINE requests == [NoMachine.API_Requests EXCEPT ![p] = new]
    <3>1. requests \in [Ports -> Wanted] /\ requests[p] = new
          /\ \A q \in Ports \ {p} : requests[q] = NoRequest
      BY <1>2, NoRequests DEF NoRequest, Wanted, Types
    <3>2. machine' = NewMachine(network, requests)
      BY <1>4, <2>1, Zenon
    <3> HIDE DEF requests
    <3>3. /\ machine' \in Machines
          /\ machine'.API_Requests = requests /\ machine'.API_Requests_Updated
          /\ machine'.Requests = [q \in Ports |-> "none"]
          /\ machine'.gateway.Requester = "none" /\ machine'.control = "unknown"
          /\ machine'.ControlRequests = [q \in Ports |-> NewControlRequest]
      BY <1>4, <3>1, <3>2, NewMachineIs, SMTT(30) DEF Wanted
    <3>4. Quiet'
      BY <3>3, NewMachineQuiet, Zenon
    <3> QED
      BY <2>1, <3>1, <3>3, <3>4, Zenon
  <2>2. CASE ~(app.API_References <= 0)
    <3>1. machine' = API_Request(machine, p, new)
      BY <1>4, <2>2, Zenon
    <3>2. /\ machine' \in Machines
          /\ machine'.API_Requests = [machine.API_Requests EXCEPT ![p] = new]
          /\ machine'.API_Requests_Updated
          /\ machine'.Requests = machine.Requests /\ machine'.gateway = machine.gateway
          /\ machine'.control = machine.control
          /\ machine'.ControlRequests = machine.ControlRequests
      BY <1>1, <1>2, <3>1, API_RequestIs, SMTT(30)
    <3>3. Quiet'
      BY <1>1, <1>3, <3>2, QuietKept, Zenon
    <3>4. /\ machine'.API_Requests[p] = new
          /\ \A q \in Ports \ {p} : machine'.API_Requests[q] = machine.API_Requests[q]
      BY <1>1, <3>2, Zenon
    <3> QED
      BY <2>2, <3>2, <3>3, <3>4, Zenon
  <2> QED
    BY <2>1, <2>2, Zenon
<1>7. /\ app'.ExternalMappedPort[p] = "none"
      /\ \A q \in Ports \ {p} : app'.ExternalMappedPort[q] = app.ExternalMappedPort[q]
  <2> DEFINE f == app.ExternalMappedPort
             g == [f EXCEPT ![p] = "none"]
  <2>1. f \in [Ports -> Externals] /\ app'.ExternalMappedPort = g
    BY <1>1, <1>3, Zenon
  <2> HIDE DEF f
  <2>2. g[p] = "none" /\ \A q \in Ports \ {p} : g[q] = f[q]
    BY <2>1, ExceptAt, Zenon
  <2> HIDE DEF g
  <2> QED
    BY <2>1, <2>2, Zenon DEF f
<1>8. PortTypeOK'
  BY <1>3, <1>4, <1>6, Zenon DEF PortIInv, PortTypeOK
<1>9. Numbered' /\ app'.API_References = Cardinality(app'.life)
  <2>1. /\ IsFiniteSet(app.life \union {o})
        /\ Cardinality(app.life \union {o}) = Cardinality(app.life) + 1
    BY <1>5, LifeCounts, Zenon
  <2>2. \A a \in app.life : a[2] <= ref
    <3>1. ASSUME NEW a \in app.life PROVE a[2] <= ref
      <4>1. a[2] \in Nat /\ a[2] <= app.used
        BY <1>1 DEF PortIInv, Numbered
      <4> QED
        BY <4>1, <1>1
    <3> QED
      BY <3>1, Zenon
  <2>3. o[2] <= ref
    BY <1>1
  <2> HIDE DEF o, ref
  <2> QED
    BY <1>3, <1>5, <2>1, <2>2, <2>3, Zenon DEF Numbered
<1>10. PointersLive'
  <2>1. app'.API_References > 0
    <3>1. app.API_References \in Nat /\ app'.API_References = app.API_References + 1
      BY <1>1, <1>3, Zenon
    <3> QED
      BY <3>1
  <2>2. app'.PortMapper = (app'.API_References > 0)
    BY <1>3, <2>1, Zenon
  <2>3. ASSUME NEW q \in Ports, machine'.API_Requests[q].API_LifetimePtr # 0
        PROVE  <<q, machine'.API_Requests[q].API_LifetimePtr>> \in app'.life
    <3>1. CASE q = p
      BY <1>2, <1>3, <1>6, <3>1, Zenon
    <3>2. CASE q # p
      <4>1. NoRequest.API_LifetimePtr = 0
        BY DEF NoRequest
      <4>2. machine'.API_Requests[q] = machine.API_Requests[q]
        BY <1>6, <2>3, <3>2, <4>1, Zenon
      <4> QED
        BY <1>3, <2>3, <4>2, Zenon DEF PortIInv, PointersLive
    <3> QED
      BY <3>1, <3>2, Zenon
  <2> QED
    BY <1>9, <2>2, <2>3, Zenon DEF PointersLive
<1>11. Wishes'
  <2>1. ASSUME NEW q \in Ports PROVE WishOf(machine'.API_Requests[q], app'.ExternalMappedPort[q])
    <3>1. CASE q = p
      BY <1>2, <1>6, <1>7, <3>1, Zenon DEF WishOf
    <3>2. CASE q # p /\ ~(app.API_References <= 0)
      <4>1. /\ machine'.API_Requests[q] = machine.API_Requests[q]
            /\ app'.ExternalMappedPort[q] = app.ExternalMappedPort[q]
        BY <1>6, <1>7, <3>2, Zenon
      <4> QED
        BY <4>1, Zenon DEF PortIInv, Wishes
    <3>3. CASE q # p /\ app.API_References <= 0
      <4>1. app.life = {}
        <5>1. Cardinality(app.life) = 0
          BY <1>1, <1>5, <3>3
        <5> QED
          BY <1>5, <5>1, LifeCounts, Zenon
      <4>2. app.ExternalMappedPort[q] = "none"
        BY <4>1, Zenon DEF PortIInv, PointersLive, Wishes, WishOf
      <4>3. machine'.API_Requests[q] = NoRequest /\ app'.ExternalMappedPort[q] = "none"
        BY <1>6, <1>7, <3>3, <4>2, Zenon
      <4> QED
        BY <4>3, NoWish, Zenon
    <3> QED
      BY <3>1, <3>2, <3>3, Zenon
  <2> QED
    BY <1>6, <2>1, Zenon DEF Wishes
<1>12. ReportedIsMapped'
  BY <1>4, <1>7, Zenon DEF ReportedIsMapped, PortIInv
<1> QED
  BY <1>6, <1>8, <1>9, <1>10, <1>11, <1>12, Zenon DEF PortIInv, Quiet

(* The application destroys a MappedPortLifetime. *)
LEMMA DestroyKeeps ==
    ASSUME PortIInv, NEW o \in app.life, Destroy(o)
    PROVE  PortIInv'
<1> DEFINE refs == app.API_References - 1
           last == refs <= 0
           p == o[1]
<1>1. /\ app.life \in SUBSET (Ports \X Nat) /\ app.ExternalMappedPort \in [Ports -> Externals]
      /\ app.API_References \in Nat /\ app.used \in Nat /\ app \in Apps
      /\ machine \in Machines /\ machine.API_Requests \in [Ports -> Wanted]
  BY Zenon DEF PortIInv, PortTypeOK, Apps, Machines, Wanted
<1>p. p \in Ports /\ \A q \in Ports, n \in Nat : o = <<q, n>> => q = p
  BY <1>1
<1>2. /\ app.API_References = Cardinality(app.life) /\ app.API_References > 0
      /\ refs = Cardinality(app.life \ {o}) /\ refs \in Nat /\ IsFiniteSet(app.life \ {o})
  <2>1. app.API_References = Cardinality(app.life) /\ IsFiniteSet(app.life)
    BY Zenon DEF PortIInv, PointersLive, Numbered
  <2>2. /\ Cardinality(app.life) > 0 /\ IsFiniteSet(app.life \ {o})
        /\ Cardinality(app.life \ {o}) = Cardinality(app.life) - 1
    BY <2>1, LifeCounts, Zenon
  <2>3. app.API_References \in Nat
    BY <1>1, Zenon
  <2> HIDE DEF last
  <2> QED
    BY <2>1, <2>2, <2>3
<1>3. /\ app'.life = app.life \ {o} /\ app'.used = app.used
      /\ app'.ExternalMappedPort = [app.ExternalMappedPort EXCEPT ![p] = "none"]
      /\ app'.API_References = refs /\ app'.PortMapper = ~last
      /\ app' \in Apps
  <2>1. last => refs = 0
    BY <1>1, <1>2
  <2>2. app' = [app EXCEPT !.life = app.life \ {o},
                           !.ExternalMappedPort = [app.ExternalMappedPort EXCEPT ![p] = "none"],
                           !.API_References = IF last THEN 0 ELSE refs, !.PortMapper = ~last]
    BY <1>1, Zenon DEF Destroy, Apps
  <2>3. (IF last THEN 0 ELSE refs) = refs
    BY <2>1, Zenon
  <2>4. /\ app.life \ {o} \in SUBSET (Ports \X Nat)
        /\ [app.ExternalMappedPort EXCEPT ![p] = "none"] \in [Ports -> Externals]
    BY <1>1, <1>p, Zenon DEF Externals
  <2> HIDE DEF refs, last, p
  <2> QED
    BY <1>1, <1>2, <2>2, <2>3, <2>4, Zenon DEF Apps
<1>4. /\ router' = router /\ lapsed' = lapsed /\ network' = network
      /\ machine' = IF last THEN NoMachine ELSE API_Request(machine, p, Removal(o))
  BY Zenon DEF Destroy
<1> HIDE DEF p
<1>5. /\ machine' \in Machines /\ machine'.API_Requests_Updated
      /\ machine'.API_Requests[p].API_LifetimePtr = 0 /\ machine'.API_Requests[p].Type # "Add"
      /\ last => \A q \in Ports : machine'.API_Requests[q] = NoRequest
      /\ ~last => \A q \in Ports \ {p} : machine'.API_Requests[q] = machine.API_Requests[q]
      /\ Quiet'
  <2>1. CASE last
    <3> DEFINE requests == [q \in Ports |-> NoRequest]
    <3>1. requests \in [Ports -> Wanted]
      BY Zenon DEF NoRequest, Wanted, Types
    <3>2. machine' = NewMachine(FALSE, requests)
      BY <1>4, <2>1, Zenon DEF NoMachine
    <3>0. \A q \in Ports : requests[q] = NoRequest
      BY Zenon
    <3> HIDE DEF requests
    <3>3. /\ machine' \in Machines
          /\ machine'.API_Requests = requests /\ machine'.API_Requests_Updated
          /\ machine'.Requests = [q \in Ports |-> "none"]
          /\ machine'.gateway.Requester = "none" /\ machine'.control = "unknown"
          /\ machine'.ControlRequests = [q \in Ports |-> NewControlRequest]
      BY <3>1, <3>2, NewMachineIs, Zenon DEF Wanted
    <3>4. Quiet'
      BY <3>3, NewMachineQuiet, Zenon
    <3>5. NoRequest.API_LifetimePtr = 0 /\ NoRequest.Type # "Add"
      BY DEF NoRequest
    <3> QED
      BY <1>p, <2>1, <3>0, <3>3, <3>4, <3>5, Zenon
  <2>2. CASE ~last
    <3>0. Removal(o) \in Wanted /\ Removal(o).API_LifetimePtr = 0 /\ Removal(o).Type = "Remove"
      BY Zenon DEF Removal, Wanted, Types
    <3>1. machine' = API_Request(machine, p, Removal(o))
      BY <1>4, <2>2, Zenon
    <3>2. /\ machine' \in Machines
          /\ machine'.API_Requests = [machine.API_Requests EXCEPT ![p] = Removal(o)]
          /\ machine'.API_Requests_Updated
          /\ machine'.Requests = machine.Requests /\ machine'.gateway = machine.gateway
          /\ machine'.control = machine.control
          /\ machine'.ControlRequests = machine.ControlRequests
      BY <1>1, <1>p, <3>0, <3>1, API_RequestIs, SMTT(30)
    <3>3. Quiet'
      BY <1>1, <1>p, <1>3, <3>2, QuietKept, Zenon
    <3>4. /\ machine'.API_Requests[p] = Removal(o)
          /\ \A q \in Ports \ {p} : machine'.API_Requests[q] = machine.API_Requests[q]
      BY <1>1, <1>p, <3>2, Zenon
    <3>5. "Remove" # "Add"
      OBVIOUS
    <3> QED
      BY <2>2, <3>0, <3>2, <3>3, <3>4, <3>5, Zenon
  <2> QED
    BY <2>1, <2>2, Zenon
<1>6. /\ app'.ExternalMappedPort[p] = "none"
      /\ \A q \in Ports \ {p} : app'.ExternalMappedPort[q] = app.ExternalMappedPort[q]
  BY <1>1, <1>p, <1>3, ExceptAt, Zenon
<1>7. PortTypeOK'
  BY <1>3, <1>4, <1>5, Zenon DEF PortIInv, PortTypeOK
<1>8. Numbered'
  BY <1>2, <1>3, Zenon DEF PortIInv, Numbered
<1>9. PointersLive'
  <2>1. app'.API_References = Cardinality(app'.life)
    BY <1>2, <1>3, Zenon
  <2>2. (~last) = (app'.API_References > 0)
    BY <1>2, <1>3
  <2>3. app'.PortMapper = (app'.API_References > 0)
    BY <1>3, <2>2, Zenon
  <2>4. ASSUME NEW q \in Ports, machine'.API_Requests[q].API_LifetimePtr # 0
        PROVE  <<q, machine'.API_Requests[q].API_LifetimePtr>> \in app'.life
    <3>1. NoRequest.API_LifetimePtr = 0
      BY DEF NoRequest
    <3>2. q # p /\ machine'.API_Requests[q] = machine.API_Requests[q]
      BY <1>5, <2>4, <3>1, Zenon
    <3>3. <<q, machine.API_Requests[q].API_LifetimePtr>> \in app.life
      BY <2>4, <3>2, Zenon DEF PortIInv, PointersLive
    <3>4. machine.API_Requests[q].API_LifetimePtr \in Nat
      BY <1>1, Zenon DEF Wanted
    <3>5. <<q, machine.API_Requests[q].API_LifetimePtr>> # o
      BY <1>p, <3>2, <3>4, Zenon
    <3> QED
      BY <1>3, <3>2, <3>3, <3>5, Zenon
  <2> QED
    BY <2>1, <2>3, <2>4, Zenon DEF PointersLive
<1>10. Wishes'
  <2>1. ASSUME NEW q \in Ports PROVE WishOf(machine'.API_Requests[q], app'.ExternalMappedPort[q])
    <3>1. CASE q = p
      BY <1>5, <1>6, <3>1, Zenon DEF WishOf
    <3>2. CASE q # p /\ ~last
      <4>1. /\ machine'.API_Requests[q] = machine.API_Requests[q]
            /\ app'.ExternalMappedPort[q] = app.ExternalMappedPort[q]
        BY <1>5, <1>6, <3>2, Zenon
      <4> QED
        BY <4>1, Zenon DEF PortIInv, Wishes
    <3>3. CASE q # p /\ last
      <4>1. app.life \ {o} = {}
        <5>1. Cardinality(app.life \ {o}) = 0
          BY <1>2, <3>3
        <5> QED
          BY <1>2, <5>1, LifeCounts, Zenon
      <4>2. machine.API_Requests[q].API_LifetimePtr = 0
        <5>1. machine.API_Requests[q].API_LifetimePtr \in Nat
          BY <1>1, Zenon DEF Wanted
        <5>2. <<q, machine.API_Requests[q].API_LifetimePtr>> # o
          BY <1>p, <3>3, <5>1, Zenon
        <5> QED
          BY <4>1, <5>2, Zenon DEF PortIInv, PointersLive
      <4>3. machine'.API_Requests[q] = NoRequest /\ app'.ExternalMappedPort[q] = "none"
        BY <1>5, <1>6, <3>3, <4>2, Zenon DEF PortIInv, Wishes, WishOf
      <4> QED
        BY <4>3, NoWish, Zenon
    <3> QED
      BY <3>1, <3>2, <3>3, Zenon
  <2> QED
    BY <1>5, <2>1, Zenon DEF Wishes
<1>11. ReportedIsMapped'
  BY <1>4, <1>6, <1>p, Zenon DEF ReportedIsMapped, PortIInv
<1> QED
  BY <1>5, <1>7, <1>8, <1>9, <1>10, <1>11, Zenon DEF PortIInv, Quiet

(* Steps that leave the application's side and the gateway alone.           *)
LEMMA MachineOnly ==
    ASSUME PortIInv, machine' \in Machines,
           machine'.API_Requests = machine.API_Requests,
           \/ ~machine'.API_Requests_Updated =>
                 \A p \in Ports : machine'.Requests[p] = machine.API_Requests[p].Type
           \/ /\ machine'.API_Requests_Updated = machine.API_Requests_Updated
              /\ machine'.Requests = machine.Requests,
           app' = app, router' = router, lapsed' = lapsed, network' \in BOOLEAN, Quiet'
    PROVE  PortIInv'
<1>1. PortTypeOK' /\ Numbered'
  BY Zenon DEF PortIInv, PortTypeOK, Numbered
<1>2. PointersLive' /\ ReportedIsMapped'
  BY Zenon DEF PortIInv, PointersLive, ReportedIsMapped
<1>3. Wishes'
  <2>1. ~machine'.API_Requests_Updated =>
           \A p \in Ports : machine'.Requests[p] = machine'.API_Requests[p].Type
    BY Zenon DEF PortIInv, Wishes
  <2>2. \A p \in Ports : WishOf(machine'.API_Requests[p], app'.ExternalMappedPort[p])
    BY Zenon DEF PortIInv, Wishes
  <2> QED
    BY <2>1, <2>2, Zenon DEF Wishes
<1> QED
  BY <1>1, <1>2, <1>3, Zenon DEF PortIInv, Quiet

(* After a tick the copy of the requests is that of the application.        *)
LEMMA CopyIs ==
    ASSUME PortIInv
    PROVE  API_CopyRequests(machine) \in [Ports -> Types]
           /\ \A p \in Ports : API_CopyRequests(machine)[p] = machine.API_Requests[p].Type
  BY Zenon DEF PortIInv, PortTypeOK, Wishes, Machines, API_CopyRequests

(* The background thread takes over the requests (OnTimerTick). *)
LEMMA TickKeeps ==
    ASSUME PortIInv, NEW poll \in BOOLEAN, NEW late, Tick(poll, late)
    PROVE  PortIInv'
<1> DEFINE m     == machine
           types == API_CopyRequests(m)
           lan   == PollLANInfo(m, poll)
           up    == lan /\ ~m.LAN
           tries == IF up THEN Retries ELSE m.AttemptsRemaining
           ask   == RequestSSDP(m, tries, up)
           g     == [m.gateway EXCEPT !.Completed = @ /\ ~up,
                                      !.Requester = Checked(@, late = "gateway")]
           begin == g.known /\ g.Requester = "none" /\ g.RetriesRemaining > 0
           h     == IF begin THEN BeginGatewayXMLRequest(g) ELSE g
           c     == m.ControlRequests
           k     == IF up THEN [p \in Ports |-> Reset(c[p])]
                    ELSE IF m.control # "active" THEN c
                    ELSE [p \in Ports |->
                            BeginControlSOAPRequest(c[p], types[p], lan, late = p)]
           ctl   == IF up /\ m.control = "active" THEN "inactive" ELSE m.control
           left  == IF tries > 0 THEN tries - 1 ELSE tries
           asked == IF ask THEN m.asked + 1 ELSE m.asked
<1>1. machine' = [m EXCEPT
          !.Requests = types, !.API_Requests_Updated = FALSE,
          !.LAN = lan, !.SSDPAddresses = @ \/ up, !.AttemptsRemaining = left,
          !.asked = asked, !.gateway = h, !.control = ctl, !.ControlRequests = k]
  BY Zenon DEF Tick, OnTick
<1>2. /\ m \in Machines /\ m.gateway \in Gateways /\ c \in [Ports -> Controls]
      /\ lan \in BOOLEAN /\ m.AttemptsRemaining \in Int /\ m.asked \in Int
      /\ m.control \in {"unknown", "active", "inactive"} /\ m.SSDPAddresses \in BOOLEAN
  BY Zenon DEF PortIInv, PortTypeOK, Machines, PollLANInfo
<1>3. types \in [Ports -> Types] /\ \A p \in Ports : types[p] = m.API_Requests[p].Type
  BY CopyIs, Zenon
<1>4. \A p \in Ports : types[p] = "Remove" => app.ExternalMappedPort[p] = "none"
  BY <1>3, Zenon DEF PortIInv, Wishes, WishOf
<1>5. Retries \in Nat
  BY PortsAssumption, Zenon DEF Retries
<1>6. left \in Int /\ asked \in Int
  BY <1>2, <1>5
<1>7. /\ h \in Gateways
      /\ h.Requester = "open" => h.known
      /\ ~up /\ Described(m.gateway) => Described(h)
  <2> DEFINE e == Checked(m.gateway.Requester, late = "gateway")
             q == m.gateway.Completed /\ ~up
  <2>1. /\ e \in Requesters /\ (e = "open" => m.gateway.Requester = "open")
        /\ m.gateway.Requester \in {"none", "over"} => e = "none"
    BY <1>2, Zenon DEF Checked, Requesters, Gateways
  <2>2. g = [m.gateway EXCEPT !.Completed = q, !.Requester = e] /\ q \in BOOLEAN
    BY Zenon
  <2>3. ~up /\ m.gateway.Completed => q
    BY Zenon
  <2> HIDE DEF e, q, g
  <2>4. /\ g \in Gateways /\ g.Requester = e /\ g.Completed = q
        /\ g.known = m.gateway.known /\ g.RetriesRemaining = m.gateway.RetriesRemaining
    BY <1>2, <2>1, <2>2, Zenon DEF Gateways
  <2>5. g.Requester = "open" => g.known
    BY <2>1, <2>4, Zenon DEF PortIInv
  <2>6. ~up /\ Described(m.gateway) => Described(g) /\ ~begin
    BY <2>1, <2>3, <2>4 DEF Described
  <2>7. begin => h \in Gateways /\ h.known
    <3>1. g.RetriesRemaining - 1 \in Int /\ "open" \in Requesters
      BY <2>4 DEF Gateways, Requesters
    <3>2. begin => h = [g EXCEPT !.RetriesRemaining = g.RetriesRemaining - 1,
                                 !.Requester = "open"]
      BY Zenon DEF BeginGatewayXMLRequest
    <3> HIDE DEF h
    <3> QED
      BY <2>4, <3>1, <3>2, Zenon DEF Gateways
  <2> QED
    BY <2>4, <2>5, <2>6, <2>7, Zenon
<1>8. /\ k \in [Ports -> Controls]
      /\ \A p \in Ports : AskedFor(k[p], app.ExternalMappedPort[p])
      /\ ctl # "active" => \A p \in Ports : k[p].LastApp = "Remove"
  <2>1. CASE up
    <3>1. ASSUME NEW p \in Ports
          PROVE  /\ Reset(c[p]) \in Controls /\ Reset(c[p]).LastApp = "Remove"
                 /\ Reset(c[p]).asked = c[p].asked /\ Reset(c[p]).Requester = c[p].Requester
      <4>1. c[p] \in Controls /\ Retries \in Int
        BY <1>2, <1>5, SMTT(30)
      <4> QED
        BY <4>1, Zenon DEF Reset, Controls, Externals, Types
    <3>2. k = [p \in Ports |-> Reset(c[p])]
      BY <2>1, Zenon
    <3> HIDE DEF k
    <3> QED
      <4>1. k \in [Ports -> Controls] /\ \A p \in Ports : k[p].LastApp = "Remove"
        BY <3>1, <3>2, Zenon
      <4>2. ASSUME NEW p \in Ports PROVE AskedFor(k[p], app.ExternalMappedPort[p])
        <5>1. AskedFor(c[p], app.ExternalMappedPort[p])
          BY Zenon DEF PortIInv
        <5>2. k[p].asked = c[p].asked /\ k[p].Requester = c[p].Requester
          BY <3>1, <3>2, Zenon
        <5> QED
          BY <5>1, <5>2, Zenon DEF AskedFor
      <4> QED
        BY <4>1, <4>2, Zenon
  <2>2. CASE ~up /\ m.control # "active"
    <3>1. k = c /\ ctl = m.control
      BY <2>2, Zenon
    <3> HIDE DEF k, ctl
    <3> QED
      BY <1>2, <2>2, <3>1, Zenon DEF PortIInv, NotRemovedByOldWish
  <2>3. CASE ~up /\ m.control = "active"
    <3>1. k = [p \in Ports |-> BeginControlSOAPRequest(c[p], types[p], lan, late = p)]
          /\ ctl = "active"
      BY <2>3, Zenon
    <3>2. ASSUME NEW p \in Ports
          PROVE  LET b == BeginControlSOAPRequest(c[p], types[p], lan, late = p)
                 IN  b \in Controls /\ AskedFor(b, app.ExternalMappedPort[p])
      <4>1. /\ c[p] \in Controls /\ types[p] \in Types /\ (late = p) \in BOOLEAN
            /\ AskedFor(c[p], app.ExternalMappedPort[p])
            /\ types[p] = "Remove" => app.ExternalMappedPort[p] = "none"
        BY <1>2, <1>3, <1>4, Zenon DEF PortIInv
      <4> HIDE DEF types, lan, c
      <4> QED
        BY <4>1, <1>2, BeginIs, Zenon
    <3> HIDE DEF k, ctl, types, lan, c
    <3> QED
      BY <3>1, <3>2, Zenon
  <2> QED
    BY <2>1, <2>2, <2>3, Zenon
<1>9. ctl \in {"unknown", "active", "inactive"} /\ (ctl = "active" => ~up /\ m.control = "active")
  BY <1>2, Zenon
<1>10. up \in BOOLEAN /\ (m.SSDPAddresses \/ up) \in BOOLEAN
  BY Zenon
<1> HIDE DEF types, lan, up, tries, ask, g, begin, h, c, k, ctl, left, asked
<1>11. /\ machine' \in Machines /\ machine'.API_Requests = m.API_Requests
       /\ machine'.Requests = types /\ machine'.gateway = h /\ machine'.control = ctl
       /\ machine'.ControlRequests = k
  BY <1>1, <1>2, <1>3, <1>6, <1>7, <1>8, <1>9, <1>10, Zenon DEF Machines
<1>12. Quiet'
  <2>1. app' = app
    BY Zenon DEF Tick
  <2>2. \A p \in Ports : AskedFor(k[p], app.ExternalMappedPort[p])
    BY <1>8, Zenon
  <2>3. ctl # "active" =>
          \A p \in Ports : NotRemovedByOldWish(k[p], types[p], app.ExternalMappedPort[p])
    BY <1>4, <1>8, Zenon DEF NotRemovedByOldWish
  <2>4. ctl = "active" => Described(h)
    BY <1>7, <1>9, Zenon DEF PortIInv
  <2> QED
    BY <1>7, <1>11, <2>1, <2>2, <2>3, <2>4, Zenon DEF Quiet
<1> QED
  <2>1. app' = app /\ router' = router /\ lapsed' = lapsed /\ network' \in BOOLEAN
    BY Zenon DEF Tick, PortIInv, PortTypeOK
  <2>2. \A p \in Ports : machine'.Requests[p] = machine.API_Requests[p].Type
    BY <1>3, <1>11, Zenon
  <2> QED
    BY <1>11, <1>12, <2>1, <2>2, MachineOnly, Zenon

(* A gateway answers the search. *)
LEMMA OnSSDPResponseKeeps ==
    ASSUME PortIInv, OnSSDPResponse
    PROVE  PortIInv'
<1> DEFINE g     == machine.gateway
           retry == [g EXCEPT !.known = TRUE, !.RetriesRemaining = Retries]
           h     == IF g.known /\ g.Completed THEN g
                    ELSE IF g.Requester = "none" THEN BeginGatewayXMLRequest(retry) ELSE retry
<1>1. machine' = [machine EXCEPT !.asked = @ - 1, !.gateway = h]
  BY Zenon DEF OnSSDPResponse
<1>2. machine \in Machines /\ g \in Gateways /\ machine.asked - 1 \in Int /\ Retries \in Int
      /\ Retries - 1 \in Int /\ "open" \in Requesters
  BY PortsAssumption DEF PortIInv, PortTypeOK, Machines, Retries, Requesters
<1>3. h \in Gateways /\ (h.Requester = "open" => h.known) /\ (Described(g) => Described(h))
  <2> HIDE DEF g
  <2>1. CASE g.known /\ g.Completed
    BY <1>2, <2>1, Zenon
  <2>2. CASE ~(g.known /\ g.Completed)
    <3>1. retry \in Gateways /\ retry.known /\ retry.RetriesRemaining = Retries
      BY <1>2, Zenon DEF Gateways
    <3>2. CASE g.Requester = "none"
      <4> HIDE DEF retry
      <4>1. h = [retry EXCEPT !.RetriesRemaining = Retries - 1, !.Requester = "open"]
        BY <2>2, <3>1, <3>2 DEF BeginGatewayXMLRequest
      <4> HIDE DEF h
      <4> QED
        BY <1>2, <2>2, <3>1, <4>1, Zenon DEF Gateways, Described
    <3>3. CASE g.Requester # "none"
      <4>1. h = retry
        BY <2>2, <3>3, Zenon
      <4> HIDE DEF h, retry
      <4> QED
        BY <2>2, <3>1, <4>1, Zenon DEF Described
    <3> QED
      BY <3>2, <3>3, Zenon
  <2> QED
    BY <2>1, <2>2, Zenon
<1> HIDE DEF h
<1>4. /\ machine' \in Machines /\ machine'.API_Requests = machine.API_Requests
      /\ machine'.API_Requests_Updated = machine.API_Requests_Updated
      /\ machine'.Requests = machine.Requests /\ machine'.gateway = h
      /\ machine'.control = machine.control
      /\ machine'.ControlRequests = machine.ControlRequests
  BY <1>1, <1>2, <1>3, Zenon DEF Machines
<1>5. app' = app /\ router' = router /\ lapsed' = lapsed /\ network' \in BOOLEAN
  BY Zenon DEF OnSSDPResponse, PortIInv, PortTypeOK
<1>6. Quiet'
  BY <1>3, <1>4, <1>5, Zenon DEF PortIInv, Quiet
<1> QED
  BY <1>4, <1>5, <1>6, MachineOnly, Zenon

(* An endpoint that OnXMLResponse() finds was not active: the removal of a  *)
(* port reported in the meantime is not asked for.                          *)
LEMMA OnXMLResponseKeeps ==
    ASSUME PortIInv, OnXMLResponse
    PROVE  PortIInv'
<1> DEFINE g == machine.gateway
           h == [g EXCEPT !.Requester = "over", !.Completed = TRUE, !.RetriesRemaining = 0]
           c == machine.ControlRequests
           k == [p \in Ports |-> BeginControlSOAPRequest(
                                   c[p], machine.Requests[p], machine.LAN, FALSE)]
<1>1. machine' = [machine EXCEPT !.gateway = h, !.control = "active", !.ControlRequests = k]
  BY Zenon DEF OnXMLResponse
<1>2. /\ machine \in Machines /\ g \in Gateways /\ c \in [Ports -> Controls]
      /\ machine.LAN \in BOOLEAN /\ machine.Requests \in [Ports -> Types]
  BY Zenon DEF PortIInv, PortTypeOK, Machines
<1>3. g.known /\ machine.control # "active"
  BY Zenon DEF OnXMLResponse, PortIInv, Described
<1>4. h \in Gateways /\ Described(h) /\ h.Requester # "open"
  <2>1. 0 \in Int /\ "over" \in Requesters /\ "over" # "open"
    BY DEF Requesters
  <2> QED
    BY <1>2, <1>3, <2>1, Zenon DEF Gateways, Described
<1>5. ASSUME NEW p \in Ports
      PROVE  LET b == BeginControlSOAPRequest(c[p], machine.Requests[p], machine.LAN, FALSE)
             IN  b \in Controls /\ AskedFor(b, app.ExternalMappedPort[p])
  <2>1. /\ c[p] \in Controls /\ machine.Requests[p] \in Types /\ FALSE \in BOOLEAN
        /\ AskedFor(c[p], app.ExternalMappedPort[p])
        /\ machine.Requests[p] = "Remove" /\ app.ExternalMappedPort[p] # "none"
              => c[p].LastApp = "Remove" /\ c[p].RetriesRemaining = 0
    BY <1>2, <1>3, Zenon DEF PortIInv, NotRemovedByOldWish
  <2> HIDE DEF c
  <2> QED
    BY <2>1, <1>2, BeginIs, Zenon
<1>6. /\ k \in [Ports -> Controls]
      /\ \A p \in Ports : AskedFor(k[p], app.ExternalMappedPort[p])
  BY <1>5, Zenon
<1> HIDE DEF g, h, c, k
<1>7. /\ machine' \in Machines /\ machine'.API_Requests = machine.API_Requests
      /\ machine'.API_Requests_Updated = machine.API_Requests_Updated
      /\ machine'.Requests = machine.Requests /\ machine'.gateway = h
      /\ machine'.control = "active" /\ machine'.ControlRequests = k
  BY <1>1, <1>2, <1>4, <1>6, Zenon DEF Machines
<1>8. app' = app /\ router' = router /\ lapsed' = lapsed /\ network' \in BOOLEAN
  BY Zenon DEF OnXMLResponse, PortIInv, PortTypeOK
<1>9. Quiet'
  BY <1>4, <1>6, <1>7, <1>8, Zenon DEF Quiet
<1> QED
  BY <1>7, <1>8, <1>9, MachineOnly, Zenon

(* Steps of the gateway's requester that end a request.                     *)
LEMMA GatewayOver ==
    ASSUME PortIInv, machine' = [machine EXCEPT !.gateway.Requester = "over"],
           app' = app, router' = router, lapsed' = lapsed, network' \in BOOLEAN
    PROVE  PortIInv'
<1> DEFINE g == machine.gateway
           h == [g EXCEPT !.Requester = "over"]
<1>1. machine \in Machines /\ g \in Gateways /\ "over" \in Requesters /\ "over" # "open"
  BY Zenon DEF PortIInv, PortTypeOK, Machines, Requesters
<1>2. h \in Gateways /\ h.Requester = "over" /\ (Described(g) => Described(h))
  BY <1>1, Zenon DEF Gateways, Described
<1>3. machine' = [machine EXCEPT !.gateway = h]
  BY <1>1, Zenon DEF Machines
<1> HIDE DEF h, g
<1>4. /\ machine' \in Machines /\ machine'.API_Requests = machine.API_Requests
      /\ machine'.API_Requests_Updated = machine.API_Requests_Updated
      /\ machine'.Requests = machine.Requests /\ machine'.gateway = h
      /\ machine'.control = machine.control
      /\ machine'.ControlRequests = machine.ControlRequests
  BY <1>1, <1>2, <1>3, Zenon DEF Machines
<1>5. Quiet'
  BY <1>1, <1>2, <1>4, Zenon DEF PortIInv, Quiet, g
<1> QED
  BY <1>4, <1>5, MachineOnly, Zenon

(* The description is of no use: an endpoint that is known is not active.   *)
LEMMA BadDescriptionKeeps ==
    ASSUME PortIInv, BadDescription
    PROVE  PortIInv'
<1> DEFINE g == machine.gateway
           h == [g EXCEPT !.Requester = "over", !.Completed = TRUE, !.RetriesRemaining = 0]
<1>1. machine' = [machine EXCEPT !.gateway = h]
  BY Zenon DEF BadDescription
<1>2. machine \in Machines /\ g \in Gateways /\ machine.control # "active"
  BY Zenon DEF BadDescription, PortIInv, PortTypeOK, Machines, Described
<1>3. h \in Gateways /\ h.Requester # "open"
  <2>1. 0 \in Int /\ "over" \in Requesters /\ "over" # "open"
    BY DEF Requesters
  <2> QED
    BY <1>2, <2>1, Zenon DEF Gateways
<1> HIDE DEF g, h
<1>4. /\ machine' \in Machines /\ machine'.API_Requests = machine.API_Requests
      /\ machine'.API_Requests_Updated = machine.API_Requests_Updated
      /\ machine'.Requests = machine.Requests /\ machine'.gateway = h
      /\ machine'.control = machine.control
      /\ machine'.ControlRequests = machine.ControlRequests
  BY <1>1, <1>2, <1>3, Zenon DEF Machines
<1>5. app' = app /\ router' = router /\ lapsed' = lapsed /\ network' \in BOOLEAN
  BY Zenon DEF BadDescription, PortIInv, PortTypeOK
<1>6. Quiet'
  BY <1>2, <1>3, <1>4, <1>5, Zenon DEF PortIInv, Quiet
<1> QED
  BY <1>4, <1>5, <1>6, MachineOnly, Zenon

(* A search, a description or an answer fails. *)
LEMMA LoseResponseKeeps ==
    ASSUME PortIInv, LoseResponse
    PROVE  PortIInv'
<1>1. machine' = [machine EXCEPT !.asked = machine.asked - 1]
  BY Zenon DEF LoseResponse
<1>2. machine \in Machines /\ machine.asked - 1 \in Int
  BY DEF PortIInv, PortTypeOK, Machines
<1>3. /\ machine' \in Machines /\ machine'.API_Requests = machine.API_Requests
      /\ machine'.API_Requests_Updated = machine.API_Requests_Updated
      /\ machine'.Requests = machine.Requests /\ machine'.gateway = machine.gateway
      /\ machine'.control = machine.control
      /\ machine'.ControlRequests = machine.ControlRequests
  BY <1>1, <1>2, Zenon DEF Machines
<1>4. app' = app /\ router' = router /\ lapsed' = lapsed /\ network' \in BOOLEAN
  BY Zenon DEF LoseResponse, PortIInv, PortTypeOK
<1>5. Quiet'
  BY <1>3, <1>4, Zenon DEF PortIInv, Quiet
<1> QED
  BY <1>3, <1>4, <1>5, MachineOnly, Zenon

(* The gateway's side after a step: r is mapped for p, or its lease ended,  *)
(* and nothing has changed for the other ports.                             *)
Granted(p, r) ==
    /\ router' \in [Ports -> SUBSET Externals] /\ lapsed' \in [Ports -> SUBSET Externals]
    /\ r \in router'[p] \union lapsed'[p] \union {"none"}
    /\ \A q \in Ports \ {p} : router'[q] = router[q] /\ lapsed'[q] = lapsed[q]

(* Steps that change one request of the endpoint, and what was reported for *)
(* it if they answer it.                                                    *)
LEMMA ControlOnly ==
    ASSUME PortIInv, NEW p \in Ports, NEW d \in Controls, NEW n \in Int, NEW r \in Externals,
           machine' = [machine EXCEPT
              !.AttemptsRemaining = n,
              !.ControlRequests = [machine.ControlRequests EXCEPT ![p] = d]],
           app' = [app EXCEPT
              !.ExternalMappedPort = [app.ExternalMappedPort EXCEPT ![p] = r]],
           AskedFor(d, r), d.LastApp = machine.ControlRequests[p].LastApp,
           \/ d.RetriesRemaining = 0
           \/ /\ d.RetriesRemaining = machine.ControlRequests[p].RetriesRemaining
              /\ r = app.ExternalMappedPort[p],
           machine.API_Requests[p].API_LifetimePtr = 0 => r = "none",
           network' = network, Granted(p, r)
    PROVE  PortIInv'
<1>1. /\ machine \in Machines /\ machine.ControlRequests \in [Ports -> Controls]
      /\ app \in Apps /\ app.ExternalMappedPort \in [Ports -> Externals]
  BY Zenon DEF PortIInv, PortTypeOK, Machines, Apps
<1> DEFINE k == [machine.ControlRequests EXCEPT ![p] = d]
           x == [app.ExternalMappedPort EXCEPT ![p] = r]
<1>2. /\ k \in [Ports -> Controls] /\ k[p] = d
      /\ \A q \in Ports \ {p} : k[q] = machine.ControlRequests[q]
      /\ x \in [Ports -> Externals] /\ x[p] = r
      /\ \A q \in Ports \ {p} : x[q] = app.ExternalMappedPort[q]
  BY <1>1, Zenon
<1>3. /\ machine' \in Machines /\ machine'.API_Requests = machine.API_Requests
      /\ machine'.API_Requests_Updated = machine.API_Requests_Updated
      /\ machine'.Requests = machine.Requests /\ machine'.gateway = machine.gateway
      /\ machine'.control = machine.control /\ machine'.ControlRequests = k
  <2> HIDE DEF k
  <2> QED
    BY <1>1, <1>2, Zenon DEF Machines, k
<1>4. /\ app' \in Apps /\ app'.life = app.life /\ app'.ExternalMappedPort = x
      /\ app'.API_References = app.API_References /\ app'.PortMapper = app.PortMapper
      /\ app'.used = app.used
  <2> HIDE DEF x
  <2> QED
    BY <1>1, <1>2, Zenon DEF Apps, x
<1> HIDE DEF k, x
<1>5. PortTypeOK' /\ Numbered'
  BY <1>3, <1>4, Zenon DEF PortIInv, PortTypeOK, Numbered, Granted
<1>6. PointersLive'
  BY <1>3, <1>4, Zenon DEF PortIInv, PointersLive
<1>7. Wishes'
  <2>1. ASSUME NEW q \in Ports PROVE WishOf(machine'.API_Requests[q], x[q])
    <3>1. WishOf(machine.API_Requests[q], app.ExternalMappedPort[q])
      BY Zenon DEF PortIInv, Wishes
    <3> QED
      BY <3>1, <1>2, <1>3, Zenon DEF WishOf
  <2> QED
    BY <1>3, <1>4, <2>1, Zenon DEF PortIInv, Wishes
<1>8. ReportedIsMapped'
  <2>1. ASSUME NEW q \in Ports
        PROVE  x[q] \in router'[q] \union lapsed'[q] \union {"none"}
    BY <1>2, Zenon DEF PortIInv, ReportedIsMapped, Granted
  <2> QED
    BY <1>4, <2>1, Zenon DEF ReportedIsMapped
<1>9. Quiet'
  <2>1. \A q \in Ports : AskedFor(k[q], x[q])
    BY <1>2, Zenon DEF PortIInv
  <2>2. machine.control # "active" =>
          \A q \in Ports : NotRemovedByOldWish(k[q], machine.Requests[q], x[q])
    BY <1>2, ZenonT(40) DEF PortIInv, NotRemovedByOldWish
  <2> QED
    BY <1>3, <1>4, <2>1, <2>2, Zenon DEF PortIInv, Quiet
<1> QED
  BY <1>5, <1>6, <1>7, <1>8, <1>9, Zenon DEF PortIInv, Quiet

(* What the gateway carries out takes no reported port away.                *)
LEMMA CarryIs ==
    ASSUME PortIInv, NEW p \in Ports, Carry(p),
           machine.ControlRequests[p].Requester \in {"open", "stuck"}
    PROVE  /\ Granted(p, app.ExternalMappedPort[p])
           /\ machine.ControlRequests[p].asked = "Add"
                 => Granted(p, machine.ControlRequests[p].port)
<1> DEFINE c == machine.ControlRequests[p]
           s == IF c.asked = "Add" THEN router[p] \union {c.port} ELSE router[p] \ {c.port}
           l == lapsed[p] \ {c.port}
<1>1. /\ router \in [Ports -> SUBSET Externals] /\ c.port \in Externals /\ c.asked \in Types
      /\ lapsed \in [Ports -> SUBSET Externals]
      /\ AskedFor(c, app.ExternalMappedPort[p])
      /\ app.ExternalMappedPort[p] \in router[p] \union lapsed[p] \union {"none"}
  BY Zenon DEF PortIInv, PortTypeOK, Machines, Controls, ReportedIsMapped
<1>2. router' = [router EXCEPT ![p] = s] /\ lapsed' = [lapsed EXCEPT ![p] = l]
  BY Zenon DEF Carry
<1>3. /\ s \in SUBSET Externals /\ l \in SUBSET Externals
      /\ c.asked = "Add" => s = router[p] \union {c.port}
      /\ c.asked = "Add" \/ app.ExternalMappedPort[p] = "none"
  BY <1>1, Zenon DEF AskedFor, Types
<1>4. /\ router' \in [Ports -> SUBSET Externals] /\ lapsed' \in [Ports -> SUBSET Externals]
      /\ router'[p] = s /\ lapsed'[p] = l
      /\ \A q \in Ports \ {p} : router'[q] = router[q] /\ lapsed'[q] = lapsed[q]
  <2> HIDE DEF s, l
  <2> QED
    BY <1>1, <1>2, <1>3, Zenon
<1>5. /\ app.ExternalMappedPort[p] \in s \union l \union {"none"}
      /\ c.asked = "Add" => c.port \in s
  BY <1>1, <1>3, Zenon
<1> QED
  BY <1>4, <1>5, Zenon DEF Granted

(* A gateway that is left alone takes no reported port away either.         *)
LEMMA AloneIs ==
    ASSUME PortIInv, NEW p \in Ports, router' = router, lapsed' = lapsed
    PROVE  Granted(p, app.ExternalMappedPort[p])
  BY Zenon DEF PortIInv, PortTypeOK, ReportedIsMapped, Granted

(* A machine whose endpoint has one request changed.                        *)
LEMMA OneControl ==
    ASSUME PortIInv, NEW p \in Ports, NEW d
    PROVE  /\ [machine EXCEPT !.ControlRequests[p] = d] =
                [machine EXCEPT !.AttemptsRemaining = machine.AttemptsRemaining,
                                !.ControlRequests = [machine.ControlRequests EXCEPT ![p] = d]]
           /\ app = [app EXCEPT !.ExternalMappedPort =
                       [app.ExternalMappedPort EXCEPT ![p] = app.ExternalMappedPort[p]]]
<1>1. /\ machine \in Machines /\ machine.ControlRequests \in [Ports -> Controls]
      /\ app \in Apps /\ app.ExternalMappedPort \in [Ports -> Externals]
  BY Zenon DEF PortIInv, PortTypeOK, Machines, Apps
<1>2. [app.ExternalMappedPort EXCEPT ![p] = app.ExternalMappedPort[p]] = app.ExternalMappedPort
  BY <1>1, Zenon
<1>3. app = [app EXCEPT !.ExternalMappedPort = app.ExternalMappedPort]
  BY <1>1, Zenon DEF Apps
<1>4. [machine EXCEPT !.ControlRequests[p] = d] =
        [machine EXCEPT !.AttemptsRemaining = machine.AttemptsRemaining,
                        !.ControlRequests = [machine.ControlRequests EXCEPT ![p] = d]]
  BY <1>1, Zenon DEF Machines
<1> QED
  BY <1>2, <1>3, <1>4, Zenon

(* What a finished request leaves in the state of its port. *)
LEMMA OverIs ==
    ASSUME NEW c \in Controls
    PROVE  /\ Over(c) \in Controls /\ Over(c).asked = "none" /\ Over(c).Requester = "over"
           /\ Over(c).LastApp = c.LastApp /\ Over(c).RetriesRemaining = c.RetriesRemaining
<1>1. "over" \in Requesters /\ "none" \in Types /\ "none" \in Externals
  BY Zenon DEF Requesters, Types, Externals
<1> QED
  BY <1>1, Zenon DEF Over, Controls

(* The gateway answers a mapping request. *)
LEMMA OnSOAPResponseKeeps ==
    ASSUME PortIInv, NEW p \in Ports, OnSOAPResponse(p)
    PROVE  PortIInv'
<1> DEFINE c == machine.ControlRequests[p]
           mapped == IF c.asked = "Add" THEN c.port ELSE "none"
           again == c.asked = "Add"
           d == [Over(c) EXCEPT !.FailedRequestedPort = FALSE, !.RetriesRemaining = 0,
                                !.due = FALSE, !.AddAgainOnTimer = again,
                                !.AddedExternalPort = mapped]
           old == app.ExternalMappedPort[p]
           ptr == machine.API_Requests[p].API_LifetimePtr
           r == IF ptr = 0 THEN old ELSE mapped
<1>1. /\ machine \in Machines /\ machine.ControlRequests \in [Ports -> Controls]
      /\ c \in Controls /\ app \in Apps /\ app.ExternalMappedPort \in [Ports -> Externals]
      /\ c.port \in Externals /\ "none" \in Externals /\ old \in Externals
  BY Zenon DEF PortIInv, PortTypeOK, Machines, Apps, Controls, Externals
<1>2. /\ c.Requester = "open" /\ Carry(p) /\ network' = network
      /\ machine' = [machine EXCEPT !.AttemptsRemaining = 0, !.ControlRequests[p] = d]
      /\ app' = IF ptr = 0 THEN app
                ELSE [app EXCEPT !.ExternalMappedPort[p] = mapped]
  BY Zenon DEF OnSOAPResponse, Answered
<1>3. ptr = 0 => old = "none"
  BY Zenon DEF PortIInv, Wishes, WishOf
<1>4. mapped \in Externals /\ r \in Externals /\ (ptr = 0 => r = "none")
  BY <1>1, <1>3, Zenon
<1>5. Granted(p, r)
  <2>1. Granted(p, old) /\ (c.asked = "Add" => Granted(p, c.port))
    BY <1>2, CarryIs, Zenon
  <2>2. Granted(p, "none")
    BY <2>1, Zenon DEF Granted
  <2> QED
    BY <2>1, <2>2, Zenon
<1>6. app' = [app EXCEPT !.ExternalMappedPort = [app.ExternalMappedPort EXCEPT ![p] = r]]
  <2>1. CASE ptr = 0
    BY <1>2, <2>1, OneControl, Zenon
  <2>2. CASE ptr # 0
    BY <1>1, <1>2, <2>2, Zenon DEF Apps
  <2> QED
    BY <2>1, <2>2, Zenon
<1>7. machine' = [machine EXCEPT
          !.AttemptsRemaining = 0,
          !.ControlRequests = [machine.ControlRequests EXCEPT ![p] = d]]
  <2> HIDE DEF d
  <2> QED
    BY <1>1, <1>2, Zenon DEF Machines
<1>8. again \in BOOLEAN /\ 0 \in Int /\ FALSE \in BOOLEAN
  OBVIOUS
<1> HIDE DEF c, mapped, again, r, old, ptr
<1>9. /\ d \in Controls /\ d.asked = "none" /\ d.Requester = "over"
      /\ d.LastApp = c.LastApp /\ d.RetriesRemaining = 0
  BY <1>1, <1>4, <1>8, OverIs, ZenonT(40) DEF Controls
<1> HIDE DEF d
<1>10. AskedFor(d, r)
  BY <1>9, Zenon DEF AskedFor
<1>11. /\ d.LastApp = machine.ControlRequests[p].LastApp /\ network' = network
       /\ machine.API_Requests[p].API_LifetimePtr = 0 => r = "none"
  BY <1>2, <1>4, <1>9, Zenon DEF c, ptr
<1> QED
  BY <1>4, <1>5, <1>6, <1>7, <1>8, <1>9, <1>10, <1>11, ControlOnly, Zenon

(* A request that fails, or that is given up, changes nothing reported.     *)
LEMMA FailedControl ==
    ASSUME PortIInv, NEW p \in Ports, NEW d \in Controls,
           machine' = [machine EXCEPT !.ControlRequests[p] = d], app' = app, network' = network,
           d.asked = "none", d.Requester = "over",
           d.LastApp = machine.ControlRequests[p].LastApp,
           d.RetriesRemaining = machine.ControlRequests[p].RetriesRemaining,
           machine.ControlRequests[p].Requester \in {"open", "stuck"},
           Carry(p) \/ UNCHANGED <<router, lapsed>>
    PROVE  PortIInv'
<1> DEFINE r == app.ExternalMappedPort[p]
<1>1. /\ r \in Externals /\ machine.AttemptsRemaining \in Int
      /\ machine.API_Requests[p].API_LifetimePtr = 0 => r = "none"
  BY Zenon DEF PortIInv, PortTypeOK, Apps, Machines, Wishes, WishOf
<1>2. Granted(p, r)
  BY CarryIs, AloneIs, Zenon
<1>3. AskedFor(d, r)
  BY Zenon DEF AskedFor
<1>4. /\ machine' = [machine EXCEPT !.AttemptsRemaining = machine.AttemptsRemaining,
                                    !.ControlRequests = [machine.ControlRequests EXCEPT ![p] = d]]
      /\ app' = [app EXCEPT !.ExternalMappedPort = [app.ExternalMappedPort EXCEPT ![p] = r]]
  BY OneControl, Zenon
<1> QED
  BY <1>1, <1>2, <1>3, <1>4, ControlOnly, Zenon

(* A mapping request fails. *)
LEMMA FailedSOAPKeeps ==
    ASSUME PortIInv, NEW p \in Ports, RefuseSOAP(p) \/ FailSOAP(p) \/ LateSOAP(p)
    PROVE  PortIInv'
<1> DEFINE c == machine.ControlRequests[p]
<1>1. c \in Controls
  BY Zenon DEF PortIInv, PortTypeOK, Machines
<1>2. CASE RefuseSOAP(p)
  <2> DEFINE add == c.asked = "Add"
             d == [Over(c) EXCEPT !.AddAgainOnTimer = FALSE, !.FailedRequestedPort = add]
  <2>1. add \in BOOLEAN
    BY Zenon
  <2>2. /\ c.Requester = "open" /\ machine' = [machine EXCEPT !.ControlRequests[p] = d]
        /\ app' = app /\ network' = network /\ UNCHANGED <<router, lapsed>>
    BY <1>2, Zenon DEF RefuseSOAP
  <2> HIDE DEF c, add
  <2>3. /\ d \in Controls /\ d.asked = "none" /\ d.Requester = "over"
        /\ d.LastApp = c.LastApp /\ d.RetriesRemaining = c.RetriesRemaining
    BY <1>1, <2>1, OverIs, Zenon DEF Controls
  <2> HIDE DEF d
  <2> QED
    BY <2>2, <2>3, FailedControl, Zenon DEF c
<1>3. CASE FailSOAP(p)
  <2> DEFINE d == [Over(c) EXCEPT !.FailedRequestedPort = FALSE]
  <2>1. /\ c.Requester = "open" /\ machine' = [machine EXCEPT !.ControlRequests[p] = d]
        /\ app' = app /\ network' = network
        /\ Carry(p) \/ UNCHANGED <<router, lapsed>>
    BY <1>3, Zenon DEF FailSOAP
  <2> HIDE DEF c
  <2>2. /\ d \in Controls /\ d.asked = "none" /\ d.Requester = "over"
        /\ d.LastApp = c.LastApp /\ d.RetriesRemaining = c.RetriesRemaining
    BY <1>1, OverIs, Zenon DEF Controls
  <2> HIDE DEF d
  <2> QED
    BY <2>1, <2>2, FailedControl, Zenon DEF c
<1>4. CASE LateSOAP(p)
  <2> DEFINE d == Over(c)
  <2>1. /\ c.Requester = "stuck" /\ machine' = [machine EXCEPT !.ControlRequests[p] = Over(@)]
        /\ app' = app /\ network' = network
        /\ Carry(p) \/ UNCHANGED <<router, lapsed>>
    BY <1>4, Zenon DEF LateSOAP
  <2>2. machine' = [machine EXCEPT !.ControlRequests[p] = d]
    BY <2>1, Zenon
  <2> HIDE DEF c
  <2>3. /\ d \in Controls /\ d.asked = "none" /\ d.Requester = "over"
        /\ d.LastApp = c.LastApp /\ d.RetriesRemaining = c.RetriesRemaining
    BY <1>1, OverIs, Zenon
  <2> HIDE DEF d
  <2> QED
    BY <2>1, <2>2, <2>3, FailedControl, Zenon DEF c
<1> QED
  BY <1>2, <1>3, <1>4, Zenon

(* The lease of a mapping is due again. *)
LEMMA LeaseDueKeeps ==
    ASSUME PortIInv, NEW p \in Ports, LeaseDue(p)
    PROVE  PortIInv'
<1> DEFINE c == machine.ControlRequests[p]
           d == [c EXCEPT !.due = TRUE]
           r == app.ExternalMappedPort[p]
<1>1. /\ c \in Controls /\ machine.AttemptsRemaining \in Int /\ AskedFor(c, r) /\ r \in Externals
      /\ machine \in Machines /\ machine.ControlRequests \in [Ports -> Controls]
      /\ machine.API_Requests[p].API_LifetimePtr = 0 => r = "none"
  BY Zenon DEF PortIInv, PortTypeOK, Apps, Machines, Wishes, WishOf
<1>2. machine' = [machine EXCEPT !.ControlRequests[p] = d]
  <2>1. machine' = [machine EXCEPT !.ControlRequests[p].due = TRUE]
    BY Zenon DEF LeaseDue
  <2> QED
    BY <2>1, <1>1, Zenon DEF Machines
<1>3. app' = app /\ network' = network /\ Granted(p, r)
  BY AloneIs, Zenon DEF LeaseDue
<1>4. /\ machine' = [machine EXCEPT !.AttemptsRemaining = machine.AttemptsRemaining,
                                    !.ControlRequests = [machine.ControlRequests EXCEPT ![p] = d]]
      /\ app' = [app EXCEPT !.ExternalMappedPort = [app.ExternalMappedPort EXCEPT ![p] = r]]
  BY <1>2, <1>3, OneControl, Zenon
<1>5. /\ d \in Controls /\ d.asked = c.asked /\ d.Requester = c.Requester
      /\ d.LastApp = c.LastApp /\ d.RetriesRemaining = c.RetriesRemaining
  <2> HIDE DEF c
  <2> QED
    BY <1>1, Zenon DEF Controls
<1> HIDE DEF d
<1>6. AskedFor(d, r)
  BY <1>1, <1>5, Zenon DEF AskedFor
<1> QED
  BY <1>1, <1>3, <1>4, <1>5, <1>6, ControlOnly, Zenon

(* A lease that ends is not forgotten: what is mapped or has lapsed stays.  *)
LEMMA LeaseEndsKeeps ==
    ASSUME PortIInv, NEW p \in Ports, NEW e \in router[p], LeaseEnds(p, e)
    PROVE  PortIInv'
<1>1. /\ router \in [Ports -> SUBSET Externals] /\ lapsed \in [Ports -> SUBSET Externals]
      /\ e \in Externals
  BY Zenon DEF PortIInv, PortTypeOK
<1>2. /\ router' = [router EXCEPT ![p] = router[p] \ {e}]
      /\ lapsed' = [lapsed EXCEPT ![p] = lapsed[p] \union {e}]
      /\ app' = app /\ machine' = machine /\ network' = network
  BY Zenon DEF LeaseEnds
<1>3. /\ router' \in [Ports -> SUBSET Externals] /\ lapsed' \in [Ports -> SUBSET Externals]
      /\ \A q \in Ports : router[q] \union lapsed[q] \subseteq router'[q] \union lapsed'[q]
  BY <1>1, <1>2, SMTT(30)
<1>4. PortTypeOK' /\ Numbered'
  BY <1>2, <1>3, Zenon DEF PortIInv, PortTypeOK, Numbered
<1>5. ReportedIsMapped'
  BY <1>2, <1>3, Zenon DEF PortIInv, ReportedIsMapped
<1>6. PointersLive' /\ Wishes'
  BY <1>2, Zenon DEF PortIInv, PointersLive, Wishes
<1>7. Quiet'
  BY <1>2, Zenon DEF PortIInv, Quiet
<1> QED
  BY <1>4, <1>5, <1>6, <1>7, Zenon DEF PortIInv, Quiet

(* Every step keeps the copies in agreement. *)
LEMMA NextPortIInv == PortIInv /\ [PortNext]_portVars => PortIInv'
<1> SUFFICES ASSUME PortIInv, [PortNext]_portVars PROVE PortIInv'
  BY Zenon
<1>1. ASSUME NEW p \in Ports, RequestPortMap(p) PROVE PortIInv'
  BY <1>1, RequestPortMapKeeps, Zenon
<1>10. ASSUME NEW o \in app.life, Destroy(o) PROVE PortIInv'
  BY <1>10, DestroyKeeps, Zenon
<1>11. CASE BadDescription
  BY <1>11, BadDescriptionKeeps, Zenon
<1>12. ASSUME NEW p \in Ports, NEW e \in router[p], LeaseEnds(p, e) PROVE PortIInv'
  BY <1>12, LeaseEndsKeeps, Zenon
<1>2. ASSUME NEW poll \in BOOLEAN, NEW late \in Ports \union {"gateway", "nobody"}, Tick(poll, late)
      PROVE  PortIInv'
  BY <1>2, TickKeeps, Zenon
<1>3. CASE OnSSDPResponse
  BY <1>3, OnSSDPResponseKeeps, Zenon
<1>4. CASE LoseResponse
  BY <1>4, LoseResponseKeeps, Zenon
<1>5. CASE OnXMLResponse
  BY <1>5, OnXMLResponseKeeps, Zenon
<1>6. CASE FailXML \/ LateXML
  <2>1. network' \in BOOLEAN
    BY <1>6, Zenon DEF FailXML, LateXML, PortIInv, PortTypeOK
  <2> QED
    BY <1>6, <2>1, GatewayOver, Zenon DEF FailXML, LateXML
<1>7. ASSUME NEW p \in Ports,
             \/ OnSOAPResponse(p) \/ RefuseSOAP(p) \/ FailSOAP(p) \/ LateSOAP(p) \/ LeaseDue(p)
      PROVE  PortIInv'
  BY <1>7, OnSOAPResponseKeeps, FailedSOAPKeeps, LeaseDueKeeps, Zenon
<1>8. CASE NetworkChange
  <2>1. network' \in BOOLEAN /\ app' = app /\ machine' = machine
        /\ router' = router /\ lapsed' = lapsed
    BY <1>8, Zenon DEF NetworkChange
  <2>2. Quiet'
    BY <2>1, Zenon DEF PortIInv, Quiet
  <2>3. machine' \in Machines
    BY <2>1, Zenon DEF PortIInv, PortTypeOK
  <2> QED
    BY <2>1, <2>2, <2>3, MachineOnly, Zenon
<1>9. CASE UNCHANGED portVars
  <2>1. network' \in BOOLEAN /\ app' = app /\ machine' = machine
        /\ router' = router /\ lapsed' = lapsed
    BY <1>9, Zenon DEF portVars, PortIInv, PortTypeOK
  <2>2. Quiet'
    BY <2>1, Zenon DEF PortIInv, Quiet
  <2>3. machine' \in Machines
    BY <2>1, Zenon DEF PortIInv, PortTypeOK
  <2> QED
    BY <2>1, <2>2, <2>3, MachineOnly, Zenon
<1> QED
  BY <1>1, <1>2, <1>3, <1>4, <1>5, <1>6, <1>7, <1>8, <1>9, <1>10, <1>11, <1>12
    DEF PortNext

(* The invariant of the mapper. *)
LEMMA PortInvariance == PortSpec => []PortIInv
  BY InitPortIInv, NextPortIInv, PTL DEF PortSpec

(* For any set of ports and any number of calls, failures and outages: the  *)
(* mapper lives exactly while MappedPortLifetime objects do, and the thread *)
(* of the mapper writes only through pointers to objects that are alive,    *)
(* also when several objects share a port.                                  *)
THEOREM MapperPointersLive == PortSpec => []PointersLive
<1>1. PortIInv => PointersLive
  BY Zenon DEF PortIInv
<1> QED
  BY <1>1, PortInvariance, PTL

(* A port reported to the object that a request points to was mapped by the *)
(* gateway, and nothing but the end of its lease has taken it away since:   *)
(* the mapper removes no port that it reports, though requests overlap,     *)
(* fail half done, time out, and though a LAN change has OnXMLResponse()    *)
(* act on an old copy of the requests.                                      *)
THEOREM ReportedStaysMapped == PortSpec => []ReportedIsMapped
<1>1. PortIInv => ReportedIsMapped
  BY Zenon DEF PortIInv
<1> QED
  BY <1>1, PortInvariance, PTL
=============================================================================
