------------------------------- MODULE Session -------------------------------
(***************************************************************************)
(* An ApplicationSession and its sockets (TonkineseSession.cpp,             *)
(* TonkineseUDP.cpp) from tonk_socket_create() to the end of                *)
(* tonk_socket_destroy(), which deletes the object.                         *)
(*                                                                         *)
(* Everything that may still touch the session holds a reference: the read  *)
(* of each socket, tasks of the connect strand, sends, the firewall task    *)
(* and every connection.  Shutdown() waits until none is left.              *)
(*                                                                         *)
(* A handler is one step.  Connections are abstracted to whether they hold  *)
(* the session, are in the id map, or still wait for their first task; what *)
(* they do is in ConnectionLifecycle.                                       *)
(***************************************************************************)
EXTENDS Integers, Sequences, FiniteSets

CONSTANTS
    Main, Probes,   \* MainSocket; ProbeListenerSockets
    Connections,    \* connections there can be at once; a bound
    MaxQueue,       \* bound: tasks queued on the connect strand
    MaxSends        \* bound: sends outstanding

ASSUME SocketsAssumption == IsFiniteSet(Probes) /\ Main \notin Probes
ASSUME ConnectionsAssumption == IsFiniteSet(Connections)

Sockets == {Main} \cup Probes

(* What a datagram from an unknown source asks of the connect strand.       *)
Errands == {"advertise", "reply", "request"}
Tasks == Errands \cup {"p2p", "close"}

VARIABLES
    stage,          \* the app: "new", "running"; then the thread in Shutdown():
                    \*   "released", "draining", "joined", "ended"
    shutdown, refs, \* RefCounter
    opened,         \* sockets that are open
    reading,        \* sockets with a read posted
    arrived,        \* those whose read has completed, not handled yet
    P2PSocketsInitialized,
    queue,          \* the connect strand
    firewall,       \* the task of AddFirewallRule() is posted
    sends,          \* sends that hold the session
    looseSends,     \* rejections sent by denied connections
    holding,        \* connections that hold the session
    starting,       \* those whose first task has not run
    inIds,          \* those in the id map
    rejected        \* history: an incoming connection was denied

counter == <<shutdown, refs>>
socketVars == <<opened, reading, arrived, P2PSocketsInitialized>>
connectionVars == <<holding, starting, inIds>>
sessionVars == <<stage, counter, socketVars, queue, firewall, sends, looseSends, connectionVars,
                 rejected>>

One(b) == IF b THEN 1 ELSE 0

SessionInit ==
    /\ stage = "new"
    /\ shutdown = FALSE /\ refs = 1
    /\ opened = {} /\ reading = {} /\ arrived = {} /\ P2PSocketsInitialized = FALSE
    /\ queue = <<>> /\ firewall = FALSE /\ sends = 0 /\ looseSends = 0
    /\ holding = {} /\ starting = {} /\ inIds = {} /\ rejected = FALSE

(* n references come and go; StartShutdown() releases the session's own,    *)
(* once.                                                                    *)
Count(n) == refs' = refs + n /\ UNCHANGED shutdown
CountAndShutdown(n) == shutdown' = TRUE /\ refs' = refs + n - One(~shutdown)

-----------------------------------------------------------------------------
(* The app *)

(* UDPSocket::Initialize(): a socket is opened and bound, and its first     *)
(* read is posted, which holds the session.                                 *)
OpenSockets(bound) == opened' = opened \cup bound /\ reading' = reading \cup bound

(* Initialize() opens the main socket.                                      *)
Initialize(upnp) ==
    /\ stage = "new" /\ stage' = "running"
    /\ OpenSockets({Main})
    /\ firewall' = upnp
    /\ Count(1 + One(upnp))
    /\ UNCHANGED <<arrived, P2PSocketsInitialized, queue, sends, looseSends, connectionVars,
                   rejected>>

(* AppRelease(), the first step of Shutdown(): by tonk_socket_destroy(), or *)
(* by Initialize() when it fails.                                           *)
AppRelease ==
    /\ stage \in {"new", "running"} /\ stage' = "released"
    /\ CountAndShutdown(0)
    /\ UNCHANGED <<socketVars, queue, firewall, sends, looseSends, connectionVars,
                   rejected>>

TonkConnect(c) ==
    /\ stage = "running" /\ c \notin holding
    /\ Count(1)
    /\ holding' = holding \cup {c} /\ inIds' = inIds \cup {c}
    /\ UNCHANGED <<stage, socketVars, queue, firewall, sends, looseSends, starting,
                   rejected>>

(* Send() with the session's counter.                                       *)
TonkAdvertise ==
    /\ stage = "running" /\ sends < MaxSends
    /\ sends' = sends + 1 /\ Count(1)
    /\ UNCHANGED <<stage, socketVars, queue, firewall, looseSends, connectionVars,
                   rejected>>

(* onUnrecognizedSource() leaves it to the connect strand.                  *)
Post(task) ==
    /\ Len(queue) < MaxQueue
    /\ queue' = Append(queue, task) /\ Count(1)

TonkInject(task) ==
    /\ stage = "running"
    /\ Post(task)
    /\ UNCHANGED <<stage, socketVars, firewall, sends, looseSends, connectionVars,
                   rejected>>

-----------------------------------------------------------------------------
(* Worker threads *)

WorkersRun == stage \notin {"joined", "ended"}

ReadCompletes(s) ==
    /\ WorkersRun /\ s \in opened \cap (reading \ arrived)
    /\ arrived' = arrived \cup {s}
    /\ UNCHANGED <<stage, counter, opened, reading, P2PSocketsInitialized, queue, firewall,
                   sends, looseSends, connectionVars, rejected>>

(* postNextRead()'s handler of a datagram, or of an error of a peer, reads  *)
(* on; after the socket was closed too.                                     *)
OnUDPDatagram(s) ==
    /\ WorkersRun /\ s \in arrived
    /\ arrived' = arrived \ {s}
    /\ \/ UNCHANGED <<counter, queue>>
       \/ \E task \in Errands : Post(task)
    /\ UNCHANGED <<stage, opened, reading, P2PSocketsInitialized, firewall, sends, looseSends,
                   connectionVars, rejected>>

(* The handler of an error without a source, or of nothing read: reading    *)
(* ends.  So ends a read on a closed socket.                                *)
FailRead(s) ==
    /\ WorkersRun /\ s \in reading
    /\ reading' = reading \ {s} /\ arrived' = arrived \ {s}
    /\ CountAndShutdown(-1)
    /\ UNCHANGED <<stage, opened, P2PSocketsInitialized, queue, firewall, sends, looseSends,
                   connectionVars, rejected>>

CompleteSend ==
    /\ WorkersRun /\ sends > 0
    /\ sends' = sends - 1 /\ Count(-1)
    /\ UNCHANGED <<stage, socketVars, queue, firewall, looseSends, connectionVars,
                   rejected>>

(* This one is counted by a connection that has let go of the session.      *)
CompleteLooseSend ==
    /\ WorkersRun /\ looseSends > 0
    /\ looseSends' = looseSends - 1
    /\ UNCHANGED <<stage, counter, socketVars, queue, firewall, sends, connectionVars,
                   rejected>>

AddFirewallRule ==
    /\ WorkersRun /\ firewall
    /\ firewall' = FALSE /\ Count(-1)
    /\ UNCHANGED <<stage, socketVars, queue, sends, looseSends, connectionVars, rejected>>

-----------------------------------------------------------------------------
(* The connect strand: each task releases its reference at its end *)

Run(task) ==
    /\ WorkersRun
    /\ queue # <<>> /\ Head(queue) = task /\ queue' = Tail(queue)

(* OnAdvertisement(); the answer to an unknown source; onConnectRequest()   *)
(* that finds the client connected, or answers with a cookie or a rejection. *)
RunErrand ==
    /\ \E task \in Errands : Run(task)
    /\ \/ Count(-1) /\ UNCHANGED sends
       \/ /\ Head(queue) # "advertise" /\ sends < MaxSends
          /\ sends' = sends + 1 /\ Count(0)
    /\ UNCHANGED <<stage, socketVars, firewall, looseSends, connectionVars, rejected>>

(* onConnectRequest() creates a connection, also during shutdown.           *)
OnConnectRequest(c) ==
    /\ Run("request")
    /\ c \notin holding
    /\ holding' = holding \cup {c} /\ starting' = starting \cup {c}
    /\ Count(0)
    /\ UNCHANGED <<stage, socketVars, firewall, sends, looseSends, inIds, rejected>>

(* onP2PStartConnect() that does nothing: in shutdown, or for a key that is *)
(* in use.                                                                  *)
IgnoreP2P ==
    /\ Run("p2p")
    /\ Count(-1)
    /\ UNCHANGED <<stage, socketVars, firewall, sends, looseSends, connectionVars,
                   rejected>>

(* initializeP2PSockets(), the first time; those in bound could be bound.   *)
InitializeP2PSockets(bound) ==
    /\ IF P2PSocketsInitialized THEN bound = {} ELSE bound \subseteq Probes
    /\ OpenSockets(bound)
    /\ P2PSocketsInitialized' = TRUE
    /\ UNCHANGED arrived

(* Fault: shutdown is not checked.                                          *)
BugOnP2PStartConnect(c, bound) ==
    /\ Run("p2p")
    /\ InitializeP2PSockets(bound)
    /\ \/ Count(Cardinality(bound) - 1) /\ UNCHANGED connectionVars
       \/ /\ c \notin holding
          /\ holding' = holding \cup {c} /\ inIds' = inIds \cup {c}
          /\ UNCHANGED starting
          /\ Count(Cardinality(bound))
    /\ UNCHANGED <<stage, firewall, sends, looseSends, rejected>>

(* onP2PStartConnect(); the app may deny the connection.                    *)
OnP2PStartConnect(c, bound) ==
    /\ Run("p2p") /\ ~shutdown
    /\ InitializeP2PSockets(bound)
    /\ \/ Count(Cardinality(bound) - 1) /\ UNCHANGED connectionVars
       \/ /\ c \notin holding
          /\ holding' = holding \cup {c} /\ inIds' = inIds \cup {c}
          /\ UNCHANGED starting
          /\ Count(Cardinality(bound))
    /\ UNCHANGED <<stage, firewall, sends, looseSends, rejected>>

(* Fault: the probe sockets stay open.                                      *)
BugRunClose ==
    /\ Run("close")
    /\ opened' = opened \ {Main}
    /\ Count(-1)
    /\ UNCHANGED <<stage, reading, arrived, P2PSocketsInitialized, firewall, sends, looseSends,
                   connectionVars, rejected>>

(* The task of Shutdown() that closes the sockets.                          *)
RunClose ==
    /\ Run("close")
    /\ opened' = opened \ (IF P2PSocketsInitialized THEN Sockets ELSE {Main})
    /\ Count(-1)
    /\ UNCHANGED <<stage, reading, arrived, P2PSocketsInitialized, firewall, sends, looseSends,
                   connectionVars, rejected>>

-----------------------------------------------------------------------------
(* The strands of the connections *)

(* completeIncomingConnection()                                             *)
CompleteIncomingConnection(c) ==
    /\ WorkersRun /\ c \in starting
    /\ starting' = starting \ {c} /\ inIds' = inIds \cup {c}
    /\ UNCHANGED <<stage, counter, socketVars, queue, firewall, sends, looseSends, holding,
                   rejected>>

(* The same, denied: Connection::Shutdown() lets go of the session, and     *)
(* then the rejection is sent.                                              *)
DenyIncomingConnection(c) ==
    /\ WorkersRun /\ c \in starting /\ looseSends < MaxSends
    /\ starting' = starting \ {c} /\ holding' = holding \ {c}
    /\ looseSends' = looseSends + 1 /\ rejected' = TRUE
    /\ Count(-1)
    /\ UNCHANGED <<stage, socketVars, queue, firewall, sends, inIds>>

(* OnP2PStartConnect(), for a rendezvous server's request.                  *)
RequestP2P(c) ==
    /\ WorkersRun /\ c \in inIds
    /\ Post("p2p")
    /\ UNCHANGED <<stage, socketVars, firewall, sends, looseSends, connectionVars,
                   rejected>>

(* removeFromMaps(), when the connection ends or its tick sees the session  *)
(* in shutdown.                                                             *)
RemoveFromMaps(c) ==
    /\ WorkersRun /\ c \in inIds
    /\ inIds' = inIds \ {c}
    /\ UNCHANGED <<stage, counter, socketVars, queue, firewall, sends, looseSends, holding,
                   starting, rejected>>

(* Connection::Shutdown() and its deletion, once the app has freed it and   *)
(* its own references are gone.                                             *)
ConnectionShutdown(c) ==
    /\ WorkersRun /\ c \in holding \ (starting \cup inIds)
    /\ holding' = holding \ {c}
    /\ Count(-1)
    /\ UNCHANGED <<stage, socketVars, queue, firewall, sends, looseSends, starting, inIds,
                   rejected>>

-----------------------------------------------------------------------------
(* The rest of Shutdown() *)

(* The id map is empty or a second has passed: the close task is posted.    *)
CloseSockets ==
    /\ stage = "released" /\ stage' = "draining"
    /\ queue' = Append(queue, "close") /\ Count(1)
    /\ UNCHANGED <<socketVars, firewall, sends, looseSends, connectionVars, rejected>>

(* Fault: only the connections are waited for.                              *)
BugDrained ==
    /\ stage = "draining" /\ holding = {}
    /\ stage' = "joined"
    /\ UNCHANGED <<counter, socketVars, queue, firewall, sends, looseSends, connectionVars,
                   rejected>>

(* ObjectInUse() is false: the context is stopped and the workers joined.   *)
Drained ==
    /\ stage = "draining" /\ refs = 0
    /\ stage' = "joined"
    /\ UNCHANGED <<counter, socketVars, queue, firewall, sends, looseSends, connectionVars,
                   rejected>>

(* UDPSocket::Shutdown() of each socket; then the session is deleted.       *)
EndShutdown ==
    /\ stage = "joined" /\ stage' = "ended"
    /\ opened' = {}
    /\ UNCHANGED <<counter, reading, arrived, P2PSocketsInitialized, queue, firewall, sends,
                   looseSends, connectionVars, rejected>>

RunTask ==
    \/ RunErrand \/ IgnoreP2P \/ RunClose
    \/ \E c \in Connections : OnConnectRequest(c)
    \/ \E c \in Connections, bound \in SUBSET Probes : OnP2PStartConnect(c, bound)

SessionNext ==
    \/ \E upnp \in BOOLEAN : Initialize(upnp)
    \/ AppRelease \/ TonkAdvertise
    \/ \E task \in Errands : TonkInject(task)
    \/ \E s \in Sockets : ReadCompletes(s) \/ OnUDPDatagram(s) \/ FailRead(s)
    \/ CompleteSend \/ CompleteLooseSend \/ AddFirewallRule
    \/ RunTask
    \/ \E c \in Connections :
         \/ TonkConnect(c) \/ CompleteIncomingConnection(c) \/ DenyIncomingConnection(c)
         \/ RequestP2P(c) \/ RemoveFromMaps(c) \/ ConnectionShutdown(c)
    \/ CloseSockets \/ Drained \/ EndShutdown

SessionSpec == SessionInit /\ [][SessionNext]_sessionVars

(* Worker threads run what is posted or completed, a read of a closed       *)
(* socket fails, a connection's tick sees the shutdown, the app frees its   *)
(* connections, and the thread in Shutdown() keeps polling.                 *)
FairSession ==
    /\ SessionSpec
    /\ WF_sessionVars(RunTask)
    /\ WF_sessionVars(CompleteSend) /\ WF_sessionVars(AddFirewallRule)
    /\ \A s \in Sockets :
         /\ WF_sessionVars(OnUDPDatagram(s))
         /\ WF_sessionVars(s \notin opened /\ FailRead(s))
    /\ \A c \in Connections :
         /\ WF_sessionVars(CompleteIncomingConnection(c))
         /\ WF_sessionVars(shutdown /\ RemoveFromMaps(c))
         /\ WF_sessionVars(ConnectionShutdown(c))
    /\ WF_sessionVars(CloseSockets) /\ WF_sessionVars(Drained) /\ WF_sessionVars(EndShutdown)

-----------------------------------------------------------------------------
(* Properties *)

(* The references counted are those of the operations that hold one: none   *)
(* is lost or released twice, however they overlap with the shutdown (every *)
(* IncrementReferences() of the session has one DecrementReferences()).     *)
SessionRefsExact ==
    refs = One(~shutdown) + Cardinality(reading) + Len(queue) + One(firewall) + sends
             + Cardinality(holding)

(* Once Shutdown() has stopped the workers, nothing that was posted is left *)
(* to run on the session that will be deleted: no read, task, send or       *)
(* connection (the assertions of UDPSocket::Shutdown).  A session that      *)
(* denied an incoming connection is excepted for sends: the rejection may   *)
(* outlast the connection's hold on the session (NoSendOutstanding).        *)
EndsQuiet ==
    ~WorkersRun =>
        /\ reading = {} /\ queue = <<>> /\ holding = {} /\ firewall = FALSE
        /\ sends = 0 /\ (rejected \/ looseSends = 0)

(* Before the close task has run, or after.                                 *)
SocketsClosed ==
    /\ stage \in {"draining", "joined", "ended"}
    /\ \A i \in DOMAIN queue : queue[i] # "close"

(* "They will not be opened after this point while in shutdown" (Shutdown): *)
(* no P2P request that is still queued opens a socket that nobody closes.   *)
NeverReopened == [][SocketsClosed => opened' \subseteq opened]_sessionVars

(* tonk_socket_destroy() ends: whatever is under way when it is called, the *)
(* references it waits for "forever" are released.                          *)
ShutdownEnds == stage = "released" ~> stage = "ended"

(* OutstandingSends == 0, as UDPSocket::Shutdown() asserts, with denied     *)
(* connections too.  It does not hold.                                      *)
NoSendOutstanding == ~WorkersRun => sends + looseSends = 0

=============================================================================
