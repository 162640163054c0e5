------------------------ MODULE ConnectionLifecycle ------------------------
(***************************************************************************)
(* The life of one Connection object, from tonk_connect() or an incoming   *)
(* connection request to `delete this`, and the threads that touch it:     *)
(*                                                                         *)
(*   the strand    tasks posted to AsioEventStrand and the 5 ms timer tick *)
(*   the resolver  the completion of async_resolve(), not on the strand    *)
(*   a UDP worker  looks the source address of a datagram up in the        *)
(*                 address map, then posts a task                          *)
(*   the connect strand   creates incoming connections                     *)
(*   a UDP worker  completes async_send_to()                               *)
(*   the app       calls the API, also from inside callbacks               *)
(*                                                                         *)
(* A strand task is one step: nothing else runs on the strand meanwhile.   *)
(* The tick of a connection that is shut down is several, because it reads *)
(* what the other threads change.  Addresses are abstracted to whether the *)
(* address map refers to the connection and whether the connection knows   *)
(* the address it would have to remove.  An error of the timer             *)
(* (onTimerError) is left out: asio reports one only to a wait that was    *)
(* cancelled, and the timer is never cancelled before it is deleted.       *)
(***************************************************************************)
EXTENDS Integers

CONSTANTS
    Kinds,       \* how the connection begins, from {"outgoing", "incoming"}
    MayDeny,     \* may OnIncomingConnection() deny it?
    MaxLookups,  \* bound: datagrams and ICMP errors routed to it
    MaxFlushes,  \* bound: calls of tonk_flush()
    MaxSends     \* bound: sends outstanding

ASSUME KindAssumption ==
    /\ Kinds \subseteq {"outgoing", "incoming"} /\ MayDeny \in BOOLEAN
    /\ MaxLookups \in Nat /\ MaxFlushes \in Nat /\ MaxSends \in Nat

Tasks == {"init", "datagram", "icmp", "flush"}

VARIABLES
    kind,
    shutdown, refs, appHolds,   \* RefCounter
    app,             \* the app: "none", "holds", "freeing" or "released"
    tasks,           \* tasks of each sort posted to the strand
    pc,              \* the tick: "off", "idle", "closing", "closed", "free"
    resolver,        \* "pending", "checked", "inserted" or "done"
    connecting,      \* the connect strand has yet to insert the address
    found,           \* a lookup has returned the connection, no task yet
    sends,           \* sends not completed
    inMap, hasPeer,  \* in the address map; Outgoing's peer address is set
    reported, removed,          \* HasReportedClose, RemovedFromMaps
    denied,          \* OnIncomingConnection() denied the connection
    deleted,
    lookups, flushes,           \* counted for the bounds
    closes, late,    \* history: OnClose() calls; a callback came after one
    usedShutdown,    \* history: Shutdown() ran while the object was in use
    filled,          \* ConnectionConfig has its callbacks
    strandless       \* history: a task was posted to a strand that is gone

counter == <<shutdown, refs>>
bounds == <<lookups, flushes>>
history == <<closes, late, usedShutdown, filled, strandless>>
vars == <<kind, counter, appHolds, app, tasks, pc, resolver, connecting, found,
          sends, inMap, hasPeer, reported, removed, denied, deleted, bounds,
          history>>

(* tonk_connect() has returned, with the resolver at work and the timer     *)
(* armed; or onConnectRequest() has posted the first task.  Each holds a    *)
(* reference besides the connection's own.                                  *)
Init ==
    /\ kind \in Kinds
    /\ shutdown = FALSE /\ refs = 2 /\ appHolds = TRUE
    /\ app = (IF kind = "outgoing" THEN "holds" ELSE "none")
    /\ tasks = [t \in Tasks |-> IF t = "init" /\ kind = "incoming" THEN 1 ELSE 0]
    /\ pc = (IF kind = "outgoing" THEN "idle" ELSE "off")
    /\ resolver = (IF kind = "outgoing" THEN "pending" ELSE "done")
    /\ connecting = (kind = "incoming")
    /\ found = FALSE /\ sends = 0 /\ inMap = FALSE /\ hasPeer = FALSE
    /\ reported = FALSE /\ removed = FALSE /\ denied = FALSE /\ deleted = FALSE
    /\ lookups = 0 /\ flushes = 0
    /\ closes = 0 /\ late = FALSE
    /\ usedShutdown = FALSE /\ filled = (kind = "outgoing")
    /\ strandless = FALSE

(* StartShutdown() latches the flag and releases the connection's own       *)
(* reference, once, under ShutdownLock; n references come and go besides.   *)
CountAndShutdown(n) ==
    /\ shutdown' = TRUE
    /\ refs' = refs + n - (IF shutdown THEN 0 ELSE 1)
Count(n) == refs' = refs + n /\ UNCHANGED shutdown

(* A handler that may fail and start the shutdown. *)
CountMaybeShutdown(n) == Count(n) \/ CountAndShutdown(n)

Callback == late' = (late \/ closes > 0)

-----------------------------------------------------------------------------
(* The app *)

appOnly == <<kind, appHolds, tasks, pc, resolver, connecting, found, sends,
             inMap, hasPeer, reported, removed, denied, deleted, bounds, history>>

(* tonk_close(); also a tonk_send() that fails. *)
TonkClose ==
    /\ app = "holds" /\ ~shutdown
    /\ CountAndShutdown(0)
    /\ UNCHANGED <<appOnly, app>>

(* tonk_free(): AppRelease() starts the shutdown, then lets go. *)
TonkFree ==
    /\ app = "holds"
    /\ CountAndShutdown(0)
    /\ app' = "freeing"
    /\ UNCHANGED appOnly

AppRelease ==
    /\ app = "freeing"
    /\ app' = "released" /\ appHolds' = FALSE
    /\ UNCHANGED <<kind, counter, tasks, pc, resolver, connecting, found, sends,
                   inMap, hasPeer, reported, removed, denied, deleted, bounds,
                   history>>

(* Fault: the task is posted without a reference. *)
BugTonkFlush ==
    /\ app = "holds" /\ flushes < MaxFlushes
    /\ flushes' = flushes + 1
    /\ Count(0)
    /\ tasks' = [tasks EXCEPT !["flush"] = @ + 1]
    /\ UNCHANGED <<kind, appHolds, app, pc, resolver, connecting, found, sends,
                   inMap, hasPeer, reported, removed, denied, deleted, lookups,
                   history>>

TonkFlush ==
    /\ app = "holds" /\ flushes < MaxFlushes
    /\ flushes' = flushes + 1
    /\ Count(1)
    /\ tasks' = [tasks EXCEPT !["flush"] = @ + 1]
    /\ UNCHANGED <<kind, appHolds, app, pc, resolver, connecting, found, sends,
                   inMap, hasPeer, reported, removed, denied, deleted, lookups,
                   history>>

-----------------------------------------------------------------------------
(* UDP workers and the resolver *)

(* The connection has an id from the start, or from its first task, until   *)
(* removeFromMaps().                                                        *)
InIdMap == ~removed /\ (kind = "outgoing" \/ app # "none")

(* FindByAddr() and FindById() take a reference under the lock of the map,  *)
(* whatever became of the connection the entry refers to.                   *)
FindConnection ==
    /\ inMap \/ InIdMap
    /\ ~found /\ lookups < MaxLookups
    /\ found' = TRUE /\ lookups' = lookups + 1
    /\ Count(1)
    /\ UNCHANGED <<kind, appHolds, app, tasks, pc, resolver, connecting, sends,
                   inMap, hasPeer, reported, removed, denied, deleted, flushes,
                   history>>

(* Shutdown() destroys the strand, of a denied connection too.              *)
HasStrand == ~deleted /\ ~denied

(* OnUDPDatagram() or OnICMPError() posts the task, which keeps it.         *)
PostTask(t) ==
    /\ found /\ HasStrand
    /\ found' = FALSE
    /\ tasks' = [tasks EXCEPT ![t] = @ + 1]
    /\ UNCHANGED <<kind, counter, appHolds, app, pc, resolver, connecting,
                   sends, inMap, hasPeer, reported, removed, denied, deleted,
                   bounds, history>>

(* The same after Shutdown(): undefined, as the strand or the whole object  *)
(* is gone.  The worker gets no further.                                    *)
PostToNoStrand ==
    /\ found /\ ~HasStrand
    /\ strandless' = TRUE
    /\ UNCHANGED <<kind, counter, appHolds, app, tasks, pc, resolver, connecting,
                   found, sends, inMap, hasPeer, reported, removed, denied,
                   deleted, bounds, closes, late, usedShutdown, filled>>

CompleteSend ==
    /\ sends > 0
    /\ sends' = sends - 1
    /\ Count(-1)
    /\ UNCHANGED <<kind, appHolds, app, tasks, pc, resolver, connecting, found,
                   inMap, hasPeer, reported, removed, denied, deleted, bounds,
                   history>>

(* onConnectRequest() inserts the address of the connection it created,     *)
(* whatever became of it, unless another connection has taken the address.  *)
InsertAddress ==
    /\ connecting
    /\ connecting' = FALSE /\ inMap' \in {inMap, TRUE}
    /\ UNCHANGED <<kind, counter, appHolds, app, tasks, pc, resolver, found,
                   sends, hasPeer, reported, removed, denied, deleted, bounds,
                   history>>

resolverOnly == <<kind, appHolds, app, tasks, pc, connecting, found, sends,
                  reported, removed, denied, deleted, bounds, history>>

(* onResolve() returns early once shut down, or fails and starts it. *)
OnResolveEnd ==
    /\ resolver = "pending"
    /\ resolver' = "done"
    /\ CountAndShutdown(-1)
    /\ UNCHANGED <<resolverOnly, inMap, hasPeer>>

OnResolve ==
    /\ resolver = "pending" /\ ~shutdown
    /\ resolver' = "checked"
    /\ UNCHANGED <<resolverOnly, counter, inMap, hasPeer>>

(* setPeerAddress(): ChangeAddress(), then SetPeerUDPAddress(). *)
SetPeerAddressInMap ==
    /\ resolver = "checked"
    /\ resolver' = "inserted" /\ inMap' = TRUE
    /\ UNCHANGED <<resolverOnly, counter, hasPeer>>

SetPeerAddress ==
    /\ resolver = "inserted"
    /\ resolver' = "done" /\ hasPeer' = TRUE
    /\ Count(-1)
    /\ UNCHANGED <<resolverOnly, inMap>>

-----------------------------------------------------------------------------
(* Tasks on the strand *)

strandOnly == <<kind, appHolds, app, resolver, connecting, found, deleted, bounds>>

(* Datagrams sent while a task or a tick runs: each Send() takes a          *)
(* reference until it completes.                                            *)
Sending(n) == sends + n <= MaxSends /\ sends' = sends + n

Finish(t) == tasks[t] > 0 /\ tasks' = [tasks EXCEPT ![t] = @ - 1]

StrandFree == pc \in {"off", "idle"}

(* ProcessDatagram() ignores a datagram once shut down; otherwise it may    *)
(* call OnConnect() and OnData(), note a new peer address, reply, or fail.  *)
RunDatagram(n) ==
    /\ StrandFree /\ Finish("datagram")
    /\ Sending(n)
    /\ IF shutdown
       THEN n = 0 /\ Count(-1) /\ UNCHANGED <<late, inMap, hasPeer>>
       ELSE /\ Callback /\ CountMaybeShutdown(n - 1)
            /\ \/ UNCHANGED <<inMap, hasPeer>>
               \/ inMap' = TRUE /\ hasPeer' = TRUE
    /\ UNCHANGED <<strandOnly, pc, reported, removed, denied, closes,
                   usedShutdown, filled, strandless>>

(* OnICMPError(): shut down, or connect to the next address. *)
RunIcmp ==
    /\ StrandFree /\ Finish("icmp")
    /\ \/ CountAndShutdown(-1) /\ UNCHANGED <<inMap, hasPeer>>
       \/ /\ kind = "outgoing" /\ ~shutdown
          /\ Count(-1) /\ inMap' = TRUE /\ hasPeer' = TRUE
    /\ UNCHANGED <<strandOnly, sends, pc, reported, removed, denied, history>>

RunFlush(n) ==
    /\ StrandFree /\ Finish("flush")
    /\ Sending(n) /\ CountMaybeShutdown(n - 1)
    /\ UNCHANGED <<strandOnly, pc, inMap, hasPeer, reported, removed, denied,
                   history>>

(* completeIncomingConnection(), accepted: the app holds the connection,    *)
(* the timer starts, the first datagram is processed.                       *)
AcceptConnection(n) ==
    /\ StrandFree /\ Finish("init")
    /\ hasPeer' = TRUE /\ app' = "holds" /\ pc' = "idle" /\ filled' = TRUE
    /\ Sending(n) /\ Callback /\ CountMaybeShutdown(n - 1)
    /\ UNCHANGED <<kind, appHolds, resolver, connecting, found, deleted, bounds,
                   inMap, reported, removed, denied, closes, usedShutdown,
                   strandless>>

(* Denied, with or without a configuration: Shutdown() reports OnClose(),   *)
(* removes the connection from the maps and destroys the strand.  The       *)
(* rejection is sent, and the reference of the task is left to it.          *)
DenyConnection ==
    /\ MayDeny
    /\ StrandFree /\ Finish("init")
    /\ denied' = TRUE
    /\ usedShutdown' = (usedShutdown \/ appHolds \/ refs # 0)
    /\ closes' = closes + 1 /\ filled' \in BOOLEAN
    /\ reported' = TRUE /\ removed' = TRUE
    /\ hasPeer' = TRUE /\ inMap' = FALSE
    /\ Sending(1) /\ CountAndShutdown(1)
    /\ UNCHANGED <<strandOnly, pc, late, strandless>>

-----------------------------------------------------------------------------
(* The timer tick *)

tickOnly == <<kind, appHolds, app, tasks, resolver, connecting, found, hasPeer,
              denied, bounds>>

(* onTimerTick() of a live connection: OnTick(), sends, and time-outs or a  *)
(* socket that is shut down.                                                *)
LiveTick(n) ==
    /\ pc = "idle" /\ ~shutdown
    /\ Sending(n) /\ Callback /\ CountMaybeShutdown(n)
    /\ UNCHANGED <<tickOnly, pc, inMap, reported, removed, deleted, closes,
                   usedShutdown, filled, strandless>>

(* Fault: the close is reported only once the app has let go. *)
BugLateReport(n) ==
    /\ pc = "idle" /\ shutdown /\ ~appHolds
    /\ pc' = "closing" /\ reported' = TRUE
    /\ IF reported THEN UNCHANGED <<closes, sends, counter>> /\ n = 0
       ELSE closes' = closes + 1 /\ Sending(n) /\ Count(n)
    /\ UNCHANGED <<tickOnly, inMap, removed, deleted, late, usedShutdown,
                   filled, strandless>>

(* Fault: HasReportedClose is not consulted. *)
BugReportClose(n) ==
    /\ pc = "idle" /\ shutdown
    /\ pc' = "closing" /\ reported' = TRUE
    /\ closes' = closes + 1 /\ Sending(n) /\ Count(n)
    /\ UNCHANGED <<tickOnly, inMap, removed, deleted, late, usedShutdown,
                   filled, strandless>>

(* onDiscoTimerTick(): reportClose() calls OnClose() once and sends the     *)
(* disconnect message of an established connection.                         *)
ReportClose(n) ==
    /\ pc = "idle" /\ shutdown
    /\ pc' = "closing" /\ reported' = TRUE
    /\ IF reported THEN UNCHANGED <<closes, sends, counter>> /\ n = 0
       ELSE closes' = closes + 1 /\ Sending(n) /\ Count(n)
    /\ UNCHANGED <<tickOnly, inMap, removed, deleted, late, usedShutdown,
                   filled, strandless>>

(* removeFromMaps(), once: it removes the peer address it knows. *)
RemoveFromMaps ==
    /\ pc = "closing"
    /\ pc' = "closed" /\ removed' = TRUE
    /\ inMap' = (IF ~removed /\ hasPeer THEN FALSE ELSE inMap)
    /\ UNCHANGED <<tickOnly, counter, sends, reported, deleted, history>>

(* ObjectInUse() reads AppHoldsReference, then RefCount. *)
CheckApp ==
    /\ pc = "closed"
    /\ pc' = (IF appHolds THEN "idle" ELSE "free")
    /\ UNCHANGED <<tickOnly, counter, sends, inMap, reported, removed, deleted,
                   history>>

(* Fault: only the app's reference counts. *)
BugCheckReferences ==
    /\ pc = "free"
    /\ pc' = "off" /\ deleted' = TRUE
    /\ UNCHANGED <<tickOnly, counter, sends, inMap, reported, removed, history>>

(* Fault: the timer is not armed again while references remain. *)
BugOneCheck ==
    /\ pc = "free"
    /\ pc' = "off" /\ deleted' = (refs = 0)
    /\ UNCHANGED <<tickOnly, counter, sends, inMap, reported, removed, history>>

(* No reference is left: Shutdown() and `delete this`. *)
CheckReferences ==
    /\ pc = "free"
    /\ IF refs # 0 THEN pc' = "idle" /\ UNCHANGED deleted
                   ELSE pc' = "off" /\ deleted' = TRUE
    /\ UNCHANGED <<tickOnly, counter, sends, inMap, reported, removed, history>>

Next ==
    \/ TonkClose \/ TonkFree \/ AppRelease \/ TonkFlush
    \/ FindConnection \/ PostTask("datagram") \/ PostTask("icmp")
    \/ PostToNoStrand \/ CompleteSend \/ InsertAddress
    \/ OnResolveEnd \/ OnResolve \/ SetPeerAddressInMap \/ SetPeerAddress
    \/ \E n \in 0 .. MaxSends :
           RunDatagram(n) \/ RunFlush(n) \/ AcceptConnection(n)
             \/ LiveTick(n) \/ ReportClose(n)
    \/ RunIcmp \/ DenyConnection
    \/ RemoveFromMaps \/ CheckApp \/ CheckReferences

Spec == Init /\ [][Next]_vars

(* Worker threads run what is posted, sends complete, the resolver answers, *)
(* the timer keeps firing and an API call returns.                          *)
FairSpec ==
    /\ Spec
    /\ WF_vars(AppRelease) /\ WF_vars(InsertAddress) /\ WF_vars(CompleteSend)
    /\ WF_vars(PostTask("datagram") \/ PostTask("icmp"))
    /\ WF_vars(OnResolveEnd \/ OnResolve \/ SetPeerAddressInMap
                 \/ SetPeerAddress)
    /\ SF_vars(\E n \in 0 .. MaxSends : RunDatagram(n))
    /\ SF_vars(\E n \in 0 .. MaxSends : RunFlush(n))
    /\ SF_vars(RunIcmp)
    /\ WF_vars((\E n \in 0 .. MaxSends : AcceptConnection(n)) \/ DenyConnection)
    /\ WF_vars(\E n \in 0 .. MaxSends : ReportClose(n))
    /\ WF_vars(RemoveFromMaps \/ CheckApp \/ CheckReferences)

-----------------------------------------------------------------------------
(* Properties *)

One(b) == IF b THEN 1 ELSE 0

Queued == tasks["init"] + tasks["datagram"] + tasks["icmp"] + tasks["flush"]

(* What holds a reference and will release it: the connection until it      *)
(* shuts down, tasks, a lookup, sends and the resolver.                     *)
Holders ==
    Queued + One(~shutdown) + One(found) + sends + One(resolver # "done")

(* Every flag, counter and program counter is in its range: in particular   *)
(* the reference count never wraps below zero (RefCounter).                 *)
TypeOK ==
    /\ kind \in {"outgoing", "incoming"}
    /\ shutdown \in BOOLEAN /\ refs \in Nat /\ appHolds \in BOOLEAN
    /\ app \in {"none", "holds", "freeing", "released"}
    /\ tasks \in [Tasks -> Nat]
    /\ pc \in {"off", "idle", "closing", "closed", "free"}
    /\ resolver \in {"pending", "checked", "inserted", "done"}
    /\ connecting \in BOOLEAN /\ found \in BOOLEAN /\ sends \in Nat
    /\ inMap \in BOOLEAN /\ hasPeer \in BOOLEAN
    /\ reported \in BOOLEAN /\ removed \in BOOLEAN
    /\ denied \in BOOLEAN /\ deleted \in BOOLEAN
    /\ lookups \in 0 .. MaxLookups /\ flushes \in 0 .. MaxFlushes
    /\ closes \in Nat /\ late \in BOOLEAN
    /\ usedShutdown \in BOOLEAN /\ filled \in BOOLEAN
    /\ strandless \in BOOLEAN

(* The reference count of a connection that was not denied is the number of *)
(* operations that hold one, whatever the order in which they start and     *)
(* complete: each increment has exactly one decrement ("all code paths      *)
(* covered with reference counting", onDiscoTimerTick).  The first task of  *)
(* a connection that is denied never releases its own (NothingLeaked).      *)
RefCountExact == ~denied => refs = Holders

(* The object is deleted only when nothing that began before can touch it   *)
(* again: no task on its strand, no lookup that found it, no send that will *)
(* free memory of its allocator, no resolver at work, no reference of the   *)
(* app (onDiscoTimerTick, ObjectInUse).  A lookup can find the deleted      *)
(* object only through an address that is in the map still (GoneFromMaps).  *)
DeletedUnused ==
    deleted => /\ \A t \in Tasks : tasks[t] = 0
               /\ sends = 0 /\ resolver = "done" /\ ~appHolds
               /\ found => inMap

(* OnClose() is called at most once, nothing is called after it, and a      *)
(* connection is deleted only after it ("it will be the last callback       *)
(* received", tonk_close).                                                  *)
CloseIsLast == closes <= 1 /\ ~late /\ (deleted => closes = 1)

(* OnClose() is certain once the shutdown has started: "OnClose() will      *)
(* definitely be called at some point after tonk_close()".                  *)
CloseReported == shutdown ~> closes > 0

(* After tonk_free() the object is deleted, whatever is still under way.    *)
FreedIsDeleted == app = "released" ~> deleted

(* The rest does not hold (ResolverRace.cfg, DeniedInUse.cfg). *)

(* A connection that left the maps is not in them: "Make sure that the maps *)
(* do not contain the Connection" (removeFromMaps).                         *)
GoneFromMaps == deleted \/ denied => ~inMap

(* No lookup hands out a connection whose strand is destroyed: "incoming    *)
(* datagrams will stop being assigned to this Connection"                   *)
(* (onDiscoTimerTick).                                                      *)
StrandAlive == ~strandless

(* RefCountExact of denied connections too.                                 *)
NothingLeaked == refs = Holders

(* Shutdown() runs only on an object nobody uses, as it asserts.            *)
ShutdownUnused == ~usedShutdown

(* OnClose() is never called through a configuration that was not filled    *)
(* in: OnIncomingConnection() fills it in when it accepts.                  *)
CloseOfFilledConfig == closes > 0 => filled
=============================================================================
