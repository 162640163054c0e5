--------------------------- MODULE ConnectionMaps ---------------------------
(***************************************************************************)
(* The three maps by which a session finds the connection a datagram is    *)
(* for (TonkineseMaps.h, .cpp), the code that keeps them in step with what  *)
(* each Connection believes its own id and address to be, and the threads  *)
(* that race for them:                                                     *)
(*   - one reader per UDP socket: onUDPDatagram() looks the source up, and  *)
(*     onUnrecognizedSource() then looks an id or a P2P key up;             *)
(*   - the connect strand: onConnectRequest() creates connections;          *)
(*   - one strand per connection: it runs the tasks the readers posted.     *)
(*                                                                         *)
(* A map is a function with None for the keys it does not hold;             *)
(* LightHashMap shows that the hash table behind it is one.  A P2P key is   *)
(* identified with the connection it was made for.  The strand of a new    *)
(* connection does not wait for the connect strand to insert its address.  *)
(* A datagram for a connection that was denied or deleted is not followed  *)
(* (StrandAlive of ConnectionLifecycle).                                   *)
(***************************************************************************)
EXTENDS Naturals, FiniteSets, Sequences

CONSTANTS
    Conns,           \* Connection objects, P2P the ones created for a P2P
    P2P,             \*   connection; memory is reused after a deletion
    Sockets, Main,   \* UDP sockets, each with an address map; MainSocket
    Addrs,           \* source addresses
    ShortIds,        \* 256: the ids that fit in a byte are 0..ShortIds-1
    IdCount,         \* kConnectionIdCount
    MaximumClients,  \* TonkSocketConfig
    MaxTasks,        \* bound: tasks waiting on one strand
    MaxReading,      \* bound: readers between two lookups
    None             \* no connection; the unspecified address

ASSUME ConnectionMapsAssumption ==
    /\ P2P \subseteq Conns /\ None \notin Conns \cup Addrs
    /\ Main \in Sockets
    /\ ShortIds \in Nat /\ IdCount \in Nat /\ ShortIds < IdCount
    /\ MaximumClients \in Nat /\ MaxTasks \in Nat /\ MaxReading \in Nat

VARIABLES
    ids,         \* ConnectionIdMap: map, BestUnusedIds, BestUnusedCount, NextId
    addrMaps,    \* ConnectionAddrMap of each socket: map and the recent pair
    keyMap,      \* P2PConnectionKeyMap: the connections it holds
    conn,        \* what each Connection knows, and the tasks on its strand
    connecting,  \* the connection onConnectRequest() is about to insert, where
    reading      \* the source each reader found in no map

vars == <<ids, addrMaps, keyMap, conn, connecting, reading>>

Ids == 0 .. IdCount - 1
NoId == IdCount   \* TONK_INVALID_ID

Kinds == {"accept", "data", "update", "probe", "p2p"}
Tasks == [kind : Kinds, socket : Sockets, addr : Addrs]

(* A Connection that does not exist.  Two fields are history: stray, an      *)
(* entry for it was inserted after it had moved or was gone; lost, another   *)
(* connection had its address when it was to be inserted there.             *)
Fresh ==
    [stage |-> "none", id |-> NoId, socket |-> Main, peer |-> None,
     tasks |-> <<>>, allowed |-> FALSE, seen |-> FALSE, wins |-> FALSE,
     stray |-> FALSE, lost |-> FALSE]

NotConnecting == [conn |-> None, socket |-> Main, addr |-> None]

-----------------------------------------------------------------------------
(* ConnectionMap: Insert() leaves a key that is taken alone, Remove() only  *)
(* removes the connection it is given.                                      *)
Insert(map, k, c) == IF map[k] = None THEN [map EXCEPT ![k] = c] ELSE map
Remove(map, k, c) == IF map[k] = c THEN [map EXCEPT ![k] = None] ELSE map

(* The next id >= ShortIds in cyclic order that is not in the map.          *)
Distance(i) == IF i > ids.NextId THEN i - ids.NextId ELSE i + IdCount - ids.NextId
Unused == {i \in ShortIds .. IdCount - 1 : ids.map[i] = None}
NextUnused == CHOOSE i \in Unused : \A j \in Unused : Distance(i) <= Distance(j)

(* The id InsertAndAssignId() writes to idOut, and the map it leaves.       *)
AssignedId ==
    IF ids.count > 0 THEN ids.BestUnusedIds[ids.count - 1]
    ELSE IF \A i \in Ids : ids.map[i] # None THEN NoId
    ELSE NextUnused

InsertAndAssignId(c) ==
    LET i == AssignedId
    IN  IF i = NoId THEN ids
        ELSE [ids EXCEPT
                !.map = Insert(@, i, c),
                !.count = IF @ > 0 /\ ids.map[i] = None THEN @ - 1 ELSE @,
                !.NextId = IF ids.count > 0 THEN @ ELSE i]

BugRemoveAndUnassignId(i, c) ==
    IF i = NoId THEN ids
    ELSE [ids EXCEPT
            !.map = Remove(@, i, c),
            !.BestUnusedIds = IF ids.count < ShortIds
                              THEN [@ EXCEPT ![ids.count] = i % ShortIds] ELSE @,
            !.count = IF @ < ShortIds THEN @ + 1 ELSE @]

RemoveAndUnassignId(i, c) ==
    IF i = NoId THEN ids
    ELSE LET short == i < ShortIds /\ ids.count < ShortIds
         IN  [ids EXCEPT
                !.map = Remove(@, i, c),
                !.BestUnusedIds = IF short THEN [@ EXCEPT ![ids.count] = i] ELSE @,
                !.count = IF short THEN @ + 1 ELSE @]

(* ConnectionAddrMap: the last address found is answered from a cache.      *)
FindByAddr(am, a) == IF a = am.RecentAddress THEN am.RecentConnection ELSE am.map[a]

Remember(am, a) ==
    IF a # am.RecentAddress /\ am.map[a] # None
    THEN [am EXCEPT !.RecentAddress = a, !.RecentConnection = am.map[a]]
    ELSE am

Forget(am, c) ==
    IF am.RecentConnection = c
    THEN [am EXCEPT !.RecentAddress = None, !.RecentConnection = None]
    ELSE am

InsertAddress(am, a, c) == [am EXCEPT !.map = Insert(@, a, c)]

BugRemoveAddress(am, a, c) ==
    IF a = None THEN am ELSE [am EXCEPT !.map = Remove(@, a, c)]

RemoveAddress(am, a, c) ==
    IF a = None THEN am ELSE [Forget(am, c) EXCEPT !.map = Remove(@, a, c)]

BugKeepOldAddress(am, old, new, c) ==
    [Forget(am, c) EXCEPT !.map = Insert(@, new, c)]

ChangeAddress(am, old, new, c) ==
    [Forget(am, c) EXCEPT
        !.map = Insert(IF old = None THEN @ ELSE Remove(@, old, c), new, c)]

-----------------------------------------------------------------------------
Init ==
    /\ \E offset \in 0 .. ShortIds :
         ids = [map |-> [i \in Ids |-> None],
                BestUnusedIds |-> [n \in 0 .. ShortIds - 1 |->
                                     (ShortIds - 1 - n + offset) % ShortIds],
                count |-> ShortIds, NextId |-> 0]
    /\ addrMaps = [s \in Sockets |->
                     [map |-> [a \in Addrs |-> None],
                      RecentAddress |-> None, RecentConnection |-> None]]
    /\ keyMap = {}
    /\ conn = [c \in Conns |-> Fresh]
    /\ connecting = NotConnecting
    /\ reading = [s \in Sockets |-> None]

(* A task is posted; only P2P tasks look at the socket they came from.       *)
Post(c, kind, s, a) ==
    /\ conn[c].stage \in {"live", "removed"}
    /\ Len(conn[c].tasks) < MaxTasks
    /\ conn' = [conn EXCEPT
                  ![c].tasks = Append(@,
                      [kind |-> kind, addr |-> a,
                       socket |-> IF kind \in {"probe", "p2p"} THEN s ELSE Main]),
                  ![c].allowed = @ \/ kind = "update"]

(* onUDPDatagram(), or the second lookup of onConnectRequest(): the source   *)
(* is in the address map.                                                   *)
RouteDatagram(s, a) ==
    /\ reading[s] = None
    /\ \E c \in Conns :
         /\ FindByAddr(addrMaps[s], a) = c
         /\ Post(c, "data", s, a)
    /\ addrMaps' = [addrMaps EXCEPT ![s] = Remember(@, a)]
    /\ UNCHANGED <<ids, keyMap, connecting, reading>>

(* onUDPDatagram(): the source is not in the address map.                   *)
UnrecognizedSource(s, a) ==
    /\ reading[s] = None
    /\ Cardinality({r \in Sockets : reading[r] # None}) < MaxReading
    /\ FindByAddr(addrMaps[s], a) = None
    /\ reading' = [reading EXCEPT ![s] = a]
    /\ UNCHANGED <<ids, addrMaps, keyMap, conn, connecting>>

(* onUnrecognizedSource(): what the datagram turns out to be.  A datagram    *)
(* that is none of these, or whose key or id is in no map, is dropped.       *)
UpdateSourceAddress(s, c) ==
    /\ reading[s] # None
    /\ \E i \in Ids : ids.map[i] = c
    /\ Post(c, "update", s, reading[s])
    /\ reading' = [reading EXCEPT ![s] = None]
    /\ UNCHANGED <<ids, addrMaps, keyMap, connecting>>

PeerToPeer(s, c) ==
    /\ reading[s] # None
    /\ c \in keyMap
    /\ \E kind \in {"probe", "p2p"} : Post(c, kind, s, reading[s])
    /\ reading' = [reading EXCEPT ![s] = None]
    /\ UNCHANGED <<ids, addrMaps, keyMap, connecting>>

DropDatagram(s) ==
    /\ reading[s] # None
    /\ reading' = [reading EXCEPT ![s] = None]
    /\ UNCHANGED <<ids, addrMaps, keyMap, conn, connecting>>

-----------------------------------------------------------------------------
(* Memory is reused only when nothing holds the old pointer any more.       *)
InAddressMap(c) == \E s \in Sockets, a \in Addrs : addrMaps[s].map[a] = c
Unallocated(c) ==
    conn[c].stage = "none" /\ ~InAddressMap(c) /\ connecting.conn # c

GetConnectionCount == Cardinality({i \in Ids : ids.map[i] # None})

(* onConnectRequest() creates a connection, whose first task will ask the    *)
(* application and take an id, and then inserts its address.                 *)
OnConnectRequest(c, s, a) ==
    /\ connecting.conn = None
    /\ c \notin P2P /\ Unallocated(c)
    /\ FindByAddr(addrMaps[s], a) = None
    /\ GetConnectionCount < MaximumClients
    /\ conn' = [conn EXCEPT ![c] =
                  [Fresh EXCEPT !.stage = "live", !.socket = s, !.peer = a,
                     !.tasks = <<[kind |-> "accept", socket |-> Main, addr |-> a]>>]]
    /\ connecting' = [conn |-> c, socket |-> s, addr |-> a]
    /\ UNCHANGED <<ids, addrMaps, keyMap, reading>>

(* The address is the one of the request, wherever the connection is by now. *)
InsertConnecting ==
    LET c == connecting.conn
        s == connecting.socket
        a == connecting.addr
        current == conn[c].stage = "live" /\ conn[c].peer = a
        holder  == addrMaps[s].map[a]
    IN  /\ c # None
        /\ addrMaps' = [addrMaps EXCEPT ![s] = InsertAddress(@, a, c)]
        /\ conn' = [conn EXCEPT
                      ![c].stray = @ \/ (~current /\ holder = None),
                      ![c].lost = IF current THEN holder \notin {None, c} ELSE @]
        /\ connecting' = NotConnecting
        /\ UNCHANGED <<ids, keyMap, reading>>

(* onP2PStartConnect(): the rendezvous server asks for a connection.  The    *)
(* application accepts it, or denies it and it is deleted at once.           *)
StartP2PConnect(c, wins) ==
    /\ c \in P2P /\ Unallocated(c)
    /\ \/ /\ ids' = InsertAndAssignId(c)
          /\ keyMap' = keyMap \cup {c}
          /\ conn' = [conn EXCEPT ![c] =
                        [Fresh EXCEPT !.stage = "live", !.id = AssignedId, !.wins = wins]]
       \/ /\ ids' = [ids EXCEPT !.NextId = InsertAndAssignId(c).NextId]
          /\ UNCHANGED <<keyMap, conn>>
    /\ UNCHANGED <<addrMaps, connecting, reading>>

-----------------------------------------------------------------------------
(* removeFromMaps(), with the id map, the stage and the tasks that are left. *)
DropFromMaps(c, newIds, stage, tasks) ==
    /\ ids' = newIds
    /\ addrMaps' = [addrMaps EXCEPT ![conn[c].socket] =
                      RemoveAddress(@, conn[c].peer, c)]
    /\ keyMap' = keyMap \ {c}
    /\ conn' = [conn EXCEPT ![c].stage = stage, ![c].tasks = tasks]

(* The strand runs its oldest task.                                         *)
Running(c, kinds) ==
    /\ conn[c].tasks # <<>>
    /\ Head(conn[c].tasks).kind \in kinds
    /\ UNCHANGED <<connecting, reading>>

(* completeIncomingConnection(): the connection takes an id, and the         *)
(* application accepts it, or denies it and the id is given back.  A denied  *)
(* connection is never deleted (NothingLeaked of ConnectionLifecycle).      *)
AcceptConnection(c) ==
    /\ Running(c, {"accept"})
    /\ \/ /\ ids' = InsertAndAssignId(c)
          /\ conn' = [conn EXCEPT ![c].id = AssignedId, ![c].tasks = Tail(@)]
          /\ UNCHANGED <<addrMaps, keyMap>>
       \/ DropFromMaps(c, [ids EXCEPT !.NextId = InsertAndAssignId(c).NextId],
                       "denied", Tail(conn[c].tasks))

(* OnAuthenticatedDatagram(): the connection k moves to the source of the    *)
(* datagram if a handshake has allowed it to.                               *)
Moves(k, a) == k.stage = "live" /\ k.allowed /\ a # k.peer

SetPeerAddress(c, k, maps, a) ==
    /\ addrMaps' = [maps EXCEPT ![k.socket] = ChangeAddress(@, k.peer, a, c)]
    /\ conn' = [conn EXCEPT ![c] =
                  [k EXCEPT !.peer = a, !.allowed = FALSE,
                            !.lost = maps[k.socket].map[a] \notin {None, c}]]

ProcessDatagram(c, k, maps, a) ==
    \/ /\ Moves(k, a)
       /\ SetPeerAddress(c, k, maps, a)
    \/ /\ addrMaps' = maps    \* not authentic, or nothing to change
       /\ conn' = [conn EXCEPT ![c] = k]

RunDatagram(c) ==
    /\ Running(c, {"data", "update"})
    /\ ProcessDatagram(c, [conn[c] EXCEPT !.tasks = Tail(@)], addrMaps,
                       Head(conn[c].tasks).addr)
    /\ UNCHANGED <<ids, keyMap>>

(* setPeerAddressAndSource(): the maps, and the connection, after the switch *)
(* to socket s and address a.  The old entry goes only if the new one could *)
(* be inserted.                                                             *)
SwitchedMaps(c, s, a) ==
    LET inserted == [addrMaps EXCEPT ![s] = InsertAddress(@, a, c)]
    IN  IF addrMaps[s].map[a] # None \/ conn[c].peer = None THEN inserted
        ELSE [inserted EXCEPT ![conn[c].socket] = RemoveAddress(@, conn[c].peer, c)]

SwitchedConn(c, s, a) ==
    [conn[c] EXCEPT !.socket = s, !.peer = a, !.seen = TRUE, !.tasks = Tail(@)]

OnNATProbe(c) ==
    /\ Running(c, {"probe"})
    /\ LET task == Head(conn[c].tasks)
       IN  IF conn[c].seen
           THEN /\ conn' = [conn EXCEPT ![c].tasks = Tail(@)]
                /\ UNCHANGED addrMaps
           ELSE /\ conn' = [conn EXCEPT ![c] = SwitchedConn(c, task.socket, task.addr)]
                /\ addrMaps' = SwitchedMaps(c, task.socket, task.addr)
    /\ UNCHANGED <<ids, keyMap>>

(* OnP2PConnection(): the tie-breaker keeps the pair of its first probe.     *)
OnP2PConnection(c) ==
    /\ Running(c, {"p2p"})
    /\ LET task == Head(conn[c].tasks)
           s == task.socket
           a == task.addr
       IN  IF conn[c].seen /\ conn[c].wins
           THEN ProcessDatagram(c, [conn[c] EXCEPT !.tasks = Tail(@)], addrMaps, a)
           ELSE IF conn[c].peer # a \/ conn[c].socket # s
           THEN ProcessDatagram(c, SwitchedConn(c, s, a), SwitchedMaps(c, s, a), a)
           ELSE ProcessDatagram(c, SwitchedConn(c, s, a), addrMaps, a)
    /\ UNCHANGED <<ids, keyMap>>

(* A timer tick after the shutdown: reportClose() and removeFromMaps().      *)
RemoveFromMaps(c) ==
    /\ conn[c].stage = "live"
    /\ conn[c].tasks # <<>> => Head(conn[c].tasks).kind # "accept"
    /\ DropFromMaps(c, RemoveAndUnassignId(conn[c].id, c), "removed", conn[c].tasks)
    /\ UNCHANGED <<connecting, reading>>

(* A later tick: nothing refers to the connection, and it is deleted.        *)
Delete(c) ==
    /\ conn[c].stage = "removed" /\ conn[c].tasks = <<>>
    /\ conn' = [conn EXCEPT ![c] = [Fresh EXCEPT !.stray = conn[c].stray]]
    /\ UNCHANGED <<ids, addrMaps, keyMap, connecting, reading>>

-----------------------------------------------------------------------------
Next ==
    \/ \E s \in Sockets, a \in Addrs : RouteDatagram(s, a) \/ UnrecognizedSource(s, a)
    \/ \E s \in Sockets, c \in Conns : UpdateSourceAddress(s, c) \/ PeerToPeer(s, c)
    \/ \E s \in Sockets : DropDatagram(s)
    \/ \E c \in Conns, s \in Sockets, a \in Addrs : OnConnectRequest(c, s, a)
    \/ InsertConnecting
    \/ \E c \in Conns, wins \in BOOLEAN : StartP2PConnect(c, wins)
    \/ \E c \in Conns : AcceptConnection(c) \/ RunDatagram(c)
    \/ \E c \in Conns : OnNATProbe(c) \/ OnP2PConnection(c)
    \/ \E c \in Conns : RemoveFromMaps(c) \/ Delete(c)

Spec == Init /\ [][Next]_vars

-----------------------------------------------------------------------------
(* Maps, cache, free list and connections hold values of their types.       *)
TypeOK ==
    /\ ids \in [map : [Ids -> Conns \cup {None}],
                BestUnusedIds : [0 .. ShortIds - 1 -> 0 .. ShortIds - 1],
                count : 0 .. ShortIds, NextId : Ids]
    /\ addrMaps \in [Sockets -> [map : [Addrs -> Conns \cup {None}],
                                 RecentAddress : Addrs \cup {None},
                                 RecentConnection : Conns \cup {None}]]
    /\ keyMap \subseteq P2P
    /\ conn \in [Conns -> [stage : {"none", "live", "removed", "denied"},
                           id : Ids \cup {NoId}, socket : Sockets,
                           peer : Addrs \cup {None}, tasks : Seq(Tasks),
                           allowed : BOOLEAN, seen : BOOLEAN, wins : BOOLEAN,
                           stray : BOOLEAN, lost : BOOLEAN]]
    /\ connecting \in [conn : Conns \cup {None}, socket : Sockets,
                       addr : Addrs \cup {None}]
    /\ reading \in [Sockets -> Addrs \cup {None}]

(* The cached pair is an entry of the map: FindByAddr() never answers with a *)
(* connection the map would not give, although entries are inserted, moved  *)
(* and removed by every strand.                                             *)
CacheCoherent ==
    \A s \in Sockets :
        LET am == addrMaps[s]
        IN  IF am.RecentConnection = None THEN am.RecentAddress = None
            ELSE /\ am.RecentAddress \in Addrs
                 /\ am.map[am.RecentAddress] = am.RecentConnection

(* An id belongs to one connection, which is the one that believes it does,  *)
(* and the stack of free one-byte ids holds exactly the ones not in the map, *)
(* each once.  So InsertAndAssignId() never fails on a free id, and its loop *)
(* for a longer one ends.                                                   *)
IdsExact ==
    /\ \A c \in Conns, i \in Ids : ids.map[i] = c <=> conn[c].stage = "live" /\ conn[c].id = i
    /\ \A n \in 0 .. ids.count - 1 : ids.map[ids.BestUnusedIds[n]] = None
    /\ \A n, m \in 0 .. ids.count - 1 :
          ids.BestUnusedIds[n] = ids.BestUnusedIds[m] => n = m
    /\ \A i \in 0 .. ShortIds - 1 :
          ids.map[i] = None => \E n \in 0 .. ids.count - 1 : ids.BestUnusedIds[n] = i

(* The connect strand has yet to insert the connection where it is.          *)
Inserting(c) == connecting.conn = c /\ connecting.addr = conn[c].peer

(* Address maps and connections agree, except for the races the two history *)
(* fields tell.  An address map routes a source to a connection only if the *)
(* connection is live and that is its current socket and peer address, but  *)
(* for an entry that the connect strand inserted after the connection had   *)
(* moved or was gone: a move takes the old entry along, and removal leaves  *)
(* none.  And a live connection is found at its address, unless another one *)
(* had the address when it came there.  P2P connections leave the key map   *)
(* when removed, but break the rest (RemovalComplete, PeersGoneFromMaps).    *)
EntriesCurrent ==
    /\ \A s \in Sockets, a \in Addrs, c \in Conns \ P2P :
          addrMaps[s].map[a] = c /\ ~conn[c].stray =>
              conn[c].stage = "live" /\ conn[c].socket = s /\ conn[c].peer = a
    /\ \A c \in Conns \ P2P :
          conn[c].stage = "live" /\ ~Inserting(c) /\ ~conn[c].lost =>
              addrMaps[conn[c].socket].map[conn[c].peer] = c
    /\ \A c \in keyMap : conn[c].stage = "live"

-----------------------------------------------------------------------------
(* The rest does not hold.                                                  *)

(* "Make sure that the maps do not contain the Connection" (removeFromMaps): *)
(* the connect strand does not put one back either.                         *)
ClientsGoneFromMaps ==
    \A c \in Conns \ P2P : conn[c].stage # "live" => ~InAddressMap(c)

(* A live connection is in the address map.  The code expects losses to a    *)
(* race in onConnectRequest(), which "would eventually get resolved by (1) ID *)
(* flag causing proper source address to be used"; but setPeerAddress() only *)
(* warns, and a datagram from the address the connection believes it has     *)
(* moves nothing.                                                           *)
Reachable ==
    \A c \in Conns \ P2P :
        conn[c].stage = "live" /\ connecting.conn # c => InAddressMap(c)

(* "Make sure that the maps do not contain the Connection", for the P2P      *)
(* connections too.                                                         *)
PeersGoneFromMaps == \A c \in P2P : conn[c].stage # "live" => ~InAddressMap(c)

(* "Make sure that the maps do not contain the Connection":                 *)
(* removeFromMaps() itself leaves no entry behind.                          *)
RemovalComplete ==
    [][\A c \in Conns :
          conn[c].stage = "live" /\ conn'[c].stage = "removed" => ~InAddressMap(c)']_vars

(* The address of a connection changes only with a datagram that carried    *)
(* the handshake which allows it.                                           *)
MovesOnHandshake ==
    [][\A c \in Conns \ P2P :
          conn[c].stage = "live" /\ conn'[c].stage = "live" /\ conn'[c].peer # conn[c].peer
          => Head(conn[c].tasks).kind = "update"]_vars

(* The connections a session has accepted never outnumber MaximumClients.   *)
ClientsBounded == Cardinality({c \in Conns \ P2P : conn[c].id # NoId}) <= MaximumClients

=============================================================================
