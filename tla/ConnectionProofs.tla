-------------------------- MODULE ConnectionProofs --------------------------
(***************************************************************************)
(* What a connection promises, for every value of the constants.           *)
(*                                                                         *)
(* Its life, for any number of lookups, flushes and sends: the reference   *)
(* count is the number of operations that hold a reference, the deletion   *)
(* finds none of them, and OnClose() is called once and last.              *)
(* RefCountExact is not inductive: a denied connection has one reference   *)
(* more (CountExact), the first task of an incoming connection runs before *)
(* its timer starts, and whatever follows reportClose() in the tick finds  *)
(* the shutdown latched (Stages).  Gone is what the deletion leaves.       *)
(*                                                                         *)
(* Its clock (TimeIInv): every sample of the windowed minimum is the       *)
(* difference of a datagram that was sent, so the two minima hold two real *)
(* delays and the clock offset with either sign, modulo the range of       *)
(* timestamps.                                                             *)
(***************************************************************************)
EXTENDS ConnectionLifecycle, TimeSync, TLAPS

-----------------------------------------------------------------------------
(* The life of a connection *)

(* TypeOK in parts, for the provers. *)
Places ==
    /\ kind \in {"outgoing", "incoming"}
    /\ app \in {"none", "holds", "freeing", "released"}
    /\ pc \in {"off", "idle", "closing", "closed", "free"}
    /\ resolver \in {"pending", "checked", "inserted", "done"}

Flags ==
    /\ shutdown \in BOOLEAN /\ appHolds \in BOOLEAN
    /\ connecting \in BOOLEAN /\ found \in BOOLEAN
    /\ inMap \in BOOLEAN /\ hasPeer \in BOOLEAN
    /\ reported \in BOOLEAN /\ removed \in BOOLEAN
    /\ denied \in BOOLEAN /\ deleted \in BOOLEAN /\ late \in BOOLEAN
    /\ usedShutdown \in BOOLEAN /\ filled \in BOOLEAN
    /\ strandless \in BOOLEAN

Numbers ==
    /\ tasks \in [Tasks -> Nat] /\ sends \in Nat /\ closes \in Nat
    /\ lookups \in 0 .. MaxLookups /\ flushes \in 0 .. MaxFlushes

Stages ==
    /\ tasks["init"] <= 1
    /\ tasks["init"] = 1 => /\ pc = "off" /\ ~reported
                           /\ app = "none" /\ ~denied
    /\ closes = One(reported)
    /\ reported => shutdown
    /\ ~late
    /\ pc \in {"closing", "closed", "free"} => reported
    /\ appHolds <=> app # "released"
    /\ pc = "free" => ~appHolds
    /\ pc \in {"closed", "free"} => removed

(* RefCountExact, with the reference a denied connection keeps for ever.    *)
CountExact == refs = Holders + One(denied)

(* What the deletion leaves behind.                                         *)
Gone ==
    deleted => /\ reported /\ removed /\ ~appHolds /\ pc = "off"
               /\ \A t \in Tasks : tasks[t] = 0
               /\ sends = 0 /\ resolver = "done" /\ (found => inMap)

IInv == Places /\ Flags /\ Numbers /\ refs \in Nat /\ CountExact /\ Stages

-----------------------------------------------------------------------------

(* What a task that ends leaves in the queues. *)
LEMMA FinishTasks ==
    ASSUME tasks \in [Tasks -> Nat], NEW t \in Tasks, Finish(t)
    PROVE  /\ tasks' \in [Tasks -> Nat]
           /\ tasks[t] >= 1
           /\ \A u \in Tasks :
                 tasks'[u] = IF u = t THEN tasks[u] - 1 ELSE tasks[u]
  BY DEF Finish

(* The initial references are the connection's own and the resolver's or    *)
(* the first task's.                                                        *)
LEMMA InitIInv == Init => IInv
  <1> SUFFICES ASSUME Init PROVE IInv
    OBVIOUS
  <1>1. kind \in {"outgoing", "incoming"}
    BY KindAssumption, Zenon DEF Init
  <1>2. Places
    BY <1>1, Zenon DEF Init, Places
  <1>3. Flags
    BY Zenon DEF Init, Flags
  <1>4. Numbers
    BY KindAssumption DEF Init, Numbers, Tasks
  <1>5. refs \in Nat /\ CountExact
    <2>1. CASE kind = "outgoing"
      BY <2>1 DEF Init, CountExact, Holders, Queued, One, Tasks
    <2>2. CASE kind = "incoming"
      BY <2>2 DEF Init, CountExact, Holders, Queued, One, Tasks
    <2> QED
      BY <1>1, <2>1, <2>2, Zenon
  <1>6. Stages
    <2>1. CASE kind = "outgoing"
      BY <2>1 DEF Init, Stages, One, Tasks
    <2>2. CASE kind = "incoming"
      BY <2>2 DEF Init, Stages, One, Tasks
    <2> QED
      BY <1>1, <2>1, <2>2, Zenon
  <1> QED
    BY <1>2, <1>3, <1>4, <1>5, <1>6, Zenon DEF IInv

(* The app's calls: a flush takes a reference for its task, the shutdown    *)
(* gives one up once.                                                       *)
LEMMA AppIInv ==
    ASSUME IInv,
           \/ TonkClose
           \/ TonkFree
           \/ AppRelease
           \/ TonkFlush
    PROVE  IInv'
  <1> USE DEF counter, bounds, history, appOnly, CountAndShutdown, Count
  <1>1. CASE TonkClose
    <2>1. Places'
      BY <1>1, Zenon DEF TonkClose, IInv, Places
    <2>2. Flags'
      BY <1>1, ZenonT(60) DEF TonkClose, IInv, Flags
    <2>3. Numbers'
      BY <1>1, KindAssumption, Zenon DEF TonkClose, IInv, Numbers, Stages, Tasks
    <2>4. CountExact'
      BY <1>1
      DEF TonkClose, IInv, Flags, Numbers, CountExact, Holders, Queued, One,
          Tasks
    <2>5. Stages'
      BY <1>1, Zenon
      DEF TonkClose, IInv, Places, Flags, Numbers, CountExact, Holders,
          Queued, Stages, One, Tasks
    <2>6. refs' \in Nat
      BY <2>3, <2>4 DEF Numbers, CountExact, Holders, Queued, One, Tasks
    <2> QED
      BY <2>1, <2>2, <2>3, <2>4, <2>5, <2>6, Zenon DEF IInv
  <1>2. CASE TonkFree
    <2>1. Places'
      BY <1>2, Zenon DEF TonkFree, IInv, Places
    <2>2. Flags'
      BY <1>2, ZenonT(60) DEF TonkFree, IInv, Flags
    <2>3. Numbers'
      BY <1>2, KindAssumption, Zenon DEF TonkFree, IInv, Numbers, Stages, Tasks
    <2>4. CountExact'
      BY <1>2
      DEF TonkFree, IInv, Flags, Numbers, CountExact, Holders, Queued, One,
          Tasks
    <2>5. Stages'
      BY <1>2, Zenon
      DEF TonkFree, IInv, Places, Flags, Numbers, CountExact, Holders,
          Queued, Stages, One, Tasks
    <2>6. refs' \in Nat
      BY <2>3, <2>4 DEF Numbers, CountExact, Holders, Queued, One, Tasks
    <2> QED
      BY <2>1, <2>2, <2>3, <2>4, <2>5, <2>6, Zenon DEF IInv
  <1>3. CASE AppRelease
    <2>1. Places'
      BY <1>3, Zenon DEF AppRelease, IInv, Places
    <2>2. Flags'
      BY <1>3, ZenonT(60) DEF AppRelease, IInv, Flags
    <2>3. Numbers'
      BY <1>3, KindAssumption, Zenon DEF AppRelease, IInv, Numbers, Stages, Tasks
    <2>4. CountExact'
      BY <1>3, Zenon
      DEF AppRelease, IInv, Flags, Numbers, CountExact, Holders, Queued, One,
          Tasks
    <2>5. Stages'
      BY <1>3, Zenon
      DEF AppRelease, IInv, Places, Flags, Numbers, CountExact, Holders,
          Queued, Stages, One, Tasks
    <2>6. refs' \in Nat
      BY <2>3, <2>4 DEF Numbers, CountExact, Holders, Queued, One, Tasks
    <2> QED
      BY <2>1, <2>2, <2>3, <2>4, <2>5, <2>6, Zenon DEF IInv
  <1>4. CASE TonkFlush
    <2>1. Places'
      BY <1>4, Zenon DEF TonkFlush, IInv, Places
    <2>2. Flags'
      BY <1>4 DEF TonkFlush, IInv, Flags
    <2>3. Numbers'
      BY <1>4, KindAssumption DEF TonkFlush, IInv, Numbers, Stages, Tasks
    <2>4. CountExact'
      BY <1>4
      DEF TonkFlush, IInv, Flags, Numbers, CountExact, Holders, Queued, One,
          Tasks
    <2>5. Stages'
      BY <1>4, Zenon
      DEF TonkFlush, IInv, Places, Flags, Numbers, CountExact, Holders,
          Queued, Stages, One, Tasks
    <2>6. refs' \in Nat
      BY <2>3, <2>4 DEF Numbers, CountExact, Holders, Queued, One, Tasks
    <2> QED
      BY <2>1, <2>2, <2>3, <2>4, <2>5, <2>6, Zenon DEF IInv
  <1> QED
    BY <1>1, <1>2, <1>3, <1>4, Zenon

(* Lookups, completed sends and the resolver: each hands its reference on   *)
(* or gives it up.                                                          *)
LEMMA WorkerIInv ==
    ASSUME IInv,
           \/ FindConnection
           \/ PostTask("datagram")
           \/ PostTask("icmp")
           \/ PostToNoStrand
           \/ CompleteSend
           \/ InsertAddress
           \/ OnResolveEnd
           \/ OnResolve
           \/ SetPeerAddressInMap
           \/ SetPeerAddress
    PROVE  IInv'
  <1> USE DEF counter, bounds, history, resolverOnly, CountAndShutdown, Count
  <1>1. CASE FindConnection
    <2>1. Places'
      BY <1>1, Zenon DEF FindConnection, IInv, Places
    <2>2. Flags'
      BY <1>1, ZenonT(60) DEF FindConnection, IInv, Flags
    <2>3. Numbers'
      BY <1>1, KindAssumption DEF FindConnection, IInv, Numbers, Stages, Tasks
    <2>4. CountExact'
      BY <1>1
      DEF FindConnection, IInv, Flags, Numbers, CountExact, Holders, Queued,
          One, Tasks
    <2>5. Stages'
      BY <1>1, Zenon
      DEF FindConnection, IInv, Places, Flags, Numbers, CountExact, Holders,
          Queued, Stages, One, Tasks
    <2>6. refs' \in Nat
      BY <2>3, <2>4 DEF Numbers, CountExact, Holders, Queued, One, Tasks
    <2> QED
      BY <2>1, <2>2, <2>3, <2>4, <2>5, <2>6, Zenon DEF IInv
  <1>2. CASE PostTask("datagram")
    <2>1. Places'
      BY <1>2, Zenon DEF PostTask, IInv, Places
    <2>2. Flags'
      BY <1>2, ZenonT(60) DEF PostTask, IInv, Flags
    <2>3. Numbers'
      BY <1>2, KindAssumption, SMTT(30) DEF PostTask, IInv, Numbers, Stages, Tasks
    <2>4. CountExact'
      BY <1>2, SMTT(30)
      DEF PostTask, IInv, Flags, Numbers, CountExact, Holders, Queued, One,
          Tasks
    <2>5. Stages'
      BY <1>2, Zenon
      DEF PostTask, IInv, Places, Flags, Numbers, CountExact, Holders,
          Queued, Stages, One, Tasks
    <2>6. refs' \in Nat
      BY <2>3, <2>4 DEF Numbers, CountExact, Holders, Queued, One, Tasks
    <2> QED
      BY <2>1, <2>2, <2>3, <2>4, <2>5, <2>6, Zenon DEF IInv
  <1>3. CASE PostTask("icmp")
    <2>1. Places'
      BY <1>3, Zenon DEF PostTask, IInv, Places
    <2>2. Flags'
      BY <1>3, ZenonT(60) DEF PostTask, IInv, Flags
    <2>3. Numbers'
      BY <1>3, KindAssumption, SMTT(30) DEF PostTask, IInv, Numbers, Stages, Tasks
    <2>4. CountExact'
      BY <1>3, SMTT(30)
      DEF PostTask, IInv, Flags, Numbers, CountExact, Holders, Queued, One,
          Tasks
    <2>5. Stages'
      BY <1>3, Zenon
      DEF PostTask, IInv, Places, Flags, Numbers, CountExact, Holders,
          Queued, Stages, One, Tasks
    <2>6. refs' \in Nat
      BY <2>3, <2>4 DEF Numbers, CountExact, Holders, Queued, One, Tasks
    <2> QED
      BY <2>1, <2>2, <2>3, <2>4, <2>5, <2>6, Zenon DEF IInv
  <1>4. CASE CompleteSend
    <2>1. Places'
      BY <1>4, Zenon DEF CompleteSend, IInv, Places
    <2>2. Flags'
      BY <1>4 DEF CompleteSend, IInv, Flags
    <2>3. Numbers'
      BY <1>4, KindAssumption DEF CompleteSend, IInv, Numbers, Stages, Tasks
    <2>4. CountExact'
      BY <1>4
      DEF CompleteSend, IInv, Flags, Numbers, CountExact, Holders, Queued,
          One, Tasks
    <2>5. Stages'
      BY <1>4
      DEF CompleteSend, IInv, Places, Flags, Numbers, CountExact, Holders,
          Queued, Stages, One, Tasks
    <2>6. refs' \in Nat
      BY <2>3, <2>4 DEF Numbers, CountExact, Holders, Queued, One, Tasks
    <2> QED
      BY <2>1, <2>2, <2>3, <2>4, <2>5, <2>6, Zenon DEF IInv
  <1>5. CASE InsertAddress
    <2>1. Places'
      BY <1>5, Zenon DEF InsertAddress, IInv, Places
    <2>2. Flags'
      BY <1>5, ZenonT(60) DEF InsertAddress, IInv, Flags
    <2>3. Numbers'
      BY <1>5, KindAssumption, Zenon DEF InsertAddress, IInv, Numbers, Stages, Tasks
    <2>4. CountExact'
      BY <1>5, Zenon
      DEF InsertAddress, IInv, Flags, Numbers, CountExact, Holders, Queued,
          One, Tasks
    <2>5. Stages'
      BY <1>5, Zenon
      DEF InsertAddress, IInv, Places, Flags, Numbers, CountExact, Holders,
          Queued, Stages, One, Tasks
    <2>6. refs' \in Nat
      BY <2>3, <2>4 DEF Numbers, CountExact, Holders, Queued, One, Tasks
    <2> QED
      BY <2>1, <2>2, <2>3, <2>4, <2>5, <2>6, Zenon DEF IInv
  <1>6. CASE OnResolveEnd
    <2>1. Places'
      BY <1>6, Zenon DEF OnResolveEnd, IInv, Places
    <2>2. Flags'
      BY <1>6, ZenonT(60) DEF OnResolveEnd, IInv, Flags
    <2>3. Numbers'
      BY <1>6, KindAssumption, Zenon DEF OnResolveEnd, IInv, Numbers, Stages, Tasks
    <2>4. CountExact'
      BY <1>6
      DEF OnResolveEnd, IInv, Flags, Numbers, CountExact, Holders, Queued,
          One, Tasks
    <2>5. Stages'
      BY <1>6
      DEF OnResolveEnd, IInv, Places, Flags, Numbers, CountExact, Holders,
          Queued, Stages, One, Tasks
    <2>6. refs' \in Nat
      BY <2>3, <2>4 DEF Numbers, CountExact, Holders, Queued, One, Tasks
    <2> QED
      BY <2>1, <2>2, <2>3, <2>4, <2>5, <2>6, Zenon DEF IInv
  <1>7. CASE OnResolve
    <2>1. Places'
      BY <1>7, Zenon DEF OnResolve, IInv, Places
    <2>2. Flags'
      BY <1>7, ZenonT(60) DEF OnResolve, IInv, Flags
    <2>3. Numbers'
      BY <1>7, KindAssumption, Zenon DEF OnResolve, IInv, Numbers, Stages, Tasks
    <2>4. CountExact'
      BY <1>7, Zenon
      DEF OnResolve, IInv, Flags, Numbers, CountExact, Holders, Queued, One,
          Tasks
    <2>5. Stages'
      BY <1>7, Zenon
      DEF OnResolve, IInv, Places, Flags, Numbers, CountExact, Holders,
          Queued, Stages, One, Tasks
    <2>6. refs' \in Nat
      BY <2>3, <2>4 DEF Numbers, CountExact, Holders, Queued, One, Tasks
    <2> QED
      BY <2>1, <2>2, <2>3, <2>4, <2>5, <2>6, Zenon DEF IInv
  <1>8. CASE SetPeerAddressInMap
    <2>1. Places'
      BY <1>8, Zenon DEF SetPeerAddressInMap, IInv, Places
    <2>2. Flags'
      BY <1>8, ZenonT(60) DEF SetPeerAddressInMap, IInv, Flags
    <2>3. Numbers'
      BY <1>8, KindAssumption, Zenon
      DEF SetPeerAddressInMap, IInv, Numbers, Stages, Tasks
    <2>4. CountExact'
      BY <1>8, Zenon
      DEF SetPeerAddressInMap, IInv, Flags, Numbers, CountExact, Holders,
          Queued, One, Tasks
    <2>5. Stages'
      BY <1>8, Zenon
      DEF SetPeerAddressInMap, IInv, Places, Flags, Numbers, CountExact,
          Holders, Queued, Stages, One, Tasks
    <2>6. refs' \in Nat
      BY <2>3, <2>4 DEF Numbers, CountExact, Holders, Queued, One, Tasks
    <2> QED
      BY <2>1, <2>2, <2>3, <2>4, <2>5, <2>6, Zenon DEF IInv
  <1>9. CASE SetPeerAddress
    <2>1. Places'
      BY <1>9, Zenon DEF SetPeerAddress, IInv, Places
    <2>2. Flags'
      <3>1. hasPeer' = TRUE /\ shutdown' = shutdown
        BY <1>9, Zenon DEF SetPeerAddress
      <3>2. UNCHANGED <<appHolds, connecting, found, deleted, reported, removed,
                        denied, usedShutdown, filled, late, inMap, strandless>>
        BY <1>9, Zenon DEF SetPeerAddress
      <3> QED
        BY <3>1, <3>2 DEF IInv, Flags
    <2>3. Numbers'
      BY <1>9, KindAssumption, Zenon DEF SetPeerAddress, IInv, Numbers, Stages, Tasks
    <2>4. CountExact'
      BY <1>9
      DEF SetPeerAddress, IInv, Flags, Numbers, CountExact, Holders, Queued,
          One, Tasks
    <2>5. Stages'
      BY <1>9
      DEF SetPeerAddress, IInv, Places, Flags, Numbers, CountExact, Holders,
          Queued, Stages, One, Tasks
    <2>6. refs' \in Nat
      BY <2>3, <2>4 DEF Numbers, CountExact, Holders, Queued, One, Tasks
    <2> QED
      BY <2>1, <2>2, <2>3, <2>4, <2>5, <2>6, Zenon DEF IInv
  <1>10. CASE PostToNoStrand
    <2>0. Flags'
      <3>1. strandless' = TRUE
        BY <1>10, Zenon DEF PostToNoStrand
      <3>2. UNCHANGED <<shutdown, appHolds, connecting, found, deleted, reported,
                        removed, denied, usedShutdown, filled, late, inMap,
                        hasPeer>>
        BY <1>10, Zenon DEF PostToNoStrand
      <3> QED
        BY <3>1, <3>2 DEF IInv, Flags
    <2>1. Places' /\ Numbers'
      BY <1>10, Zenon DEF PostToNoStrand, IInv, Places, Numbers
    <2>2. refs' \in Nat /\ CountExact'
      BY <1>10, Zenon DEF PostToNoStrand, IInv, CountExact, Holders, Queued
    <2>3. Stages'
      BY <1>10, Zenon DEF PostToNoStrand, IInv, Stages
    <2> QED
      BY <2>0, <2>1, <2>2, <2>3, Zenon DEF IInv
  <1> QED
    BY <1>1, <1>2, <1>3, <1>4, <1>5, <1>6, <1>7, <1>8, <1>9, <1>10, Zenon

(* Tasks on the strand: a task gives up its reference when it ends, each    *)
(* send takes one; nothing is called back once the shutdown is latched.     *)
LEMMA StrandIInv ==
    ASSUME NEW n \in Nat, IInv,
           \/ RunDatagram(n)
           \/ RunFlush(n)
           \/ AcceptConnection(n)
           \/ RunIcmp
           \/ DenyConnection
    PROVE  IInv'
  <1> USE
  DEF counter, bounds, history, strandOnly, CountMaybeShutdown, Sending,
      Callback,
              StrandFree, CountAndShutdown, Count
  <1>1. CASE RunDatagram(n)
    <2>0. Finish("datagram") /\ tasks \in [Tasks -> Nat] /\ "datagram" \in Tasks
      BY <1>1, Zenon DEF RunDatagram, IInv, Numbers, Tasks
    <2>t. /\ tasks' \in [Tasks -> Nat] /\ tasks["datagram"] >= 1
          /\ tasks'["init"] = tasks["init"]
          /\ tasks'["datagram"] = tasks["datagram"] - 1
          /\ tasks'["icmp"] = tasks["icmp"]
          /\ tasks'["flush"] = tasks["flush"]
      BY <2>0, FinishTasks, Zenon DEF Tasks
    <2>q. Queued' = Queued - 1 /\ Queued \in Nat
      <3>1. /\ tasks["init"] \in Nat /\ tasks["datagram"] \in Nat
            /\ tasks["icmp"] \in Nat /\ tasks["flush"] \in Nat
        BY <2>0, Zenon DEF Tasks
      <3> QED
        BY <2>t, <3>1 DEF Queued
    <2>1. Places'
      BY <1>1, Zenon DEF RunDatagram, IInv, Places
    <2>2. Flags'
      <3>1. shutdown' \in BOOLEAN /\ late' \in BOOLEAN
            /\ inMap' \in BOOLEAN /\ hasPeer' \in BOOLEAN
        <4>1. CASE shutdown
          BY <1>1, <4>1, Zenon DEF RunDatagram, IInv, Flags
        <4>2. CASE ~shutdown
          BY <1>1, <4>2, Zenon DEF RunDatagram, IInv, Flags
        <4> QED
          BY <4>1, <4>2, Zenon
      <3>2. UNCHANGED <<appHolds, connecting, found, deleted, reported, removed,
                        denied, usedShutdown, filled, strandless>>
        BY <1>1, Zenon DEF RunDatagram
      <3> QED
        BY <3>1, <3>2, Zenon DEF IInv, Flags
    <2>3. Numbers'
      BY <1>1, KindAssumption, <2>t, SMTT(30)
      DEF RunDatagram, IInv, Numbers, Stages, Tasks
    <2>4. CountExact'
      <3>1. /\ found' = found /\ resolver' = resolver /\ sends' = sends + n
            /\ denied' = denied
            /\ \/ refs' = refs + (n - 1) /\ shutdown' = shutdown
               \/ /\ shutdown' = TRUE
                  /\ refs' = refs + (n - 1) - (IF shutdown THEN 0 ELSE 1)
        BY <1>1, SMTT(30) DEF RunDatagram, IInv, Numbers
      <3> QED
        BY <3>1, <2>q DEF IInv, Flags, Numbers, CountExact, Holders, One
    <2>5. Stages'
      BY <1>1, <2>t, SMTT(30)
      DEF RunDatagram, IInv, Places, Flags, Numbers, CountExact, Holders,
          Queued, Stages, One, Tasks
    <2>6. refs' \in Nat
      BY <2>3, <2>4 DEF Numbers, CountExact, Holders, Queued, One, Tasks
    <2> QED
      BY <2>1, <2>2, <2>3, <2>4, <2>5, <2>6, Zenon DEF IInv
  <1>2. CASE RunFlush(n)
    <2>0. Finish("flush") /\ tasks \in [Tasks -> Nat] /\ "flush" \in Tasks
      BY <1>2, Zenon DEF RunFlush, IInv, Numbers, Tasks
    <2>t. /\ tasks' \in [Tasks -> Nat] /\ tasks["flush"] >= 1
          /\ tasks'["init"] = tasks["init"]
          /\ tasks'["datagram"] = tasks["datagram"]
          /\ tasks'["icmp"] = tasks["icmp"]
          /\ tasks'["flush"] = tasks["flush"] - 1
      BY <2>0, FinishTasks, Zenon DEF Tasks
    <2>q. Queued' = Queued - 1 /\ Queued \in Nat
      <3>1. /\ tasks["init"] \in Nat /\ tasks["datagram"] \in Nat
            /\ tasks["icmp"] \in Nat /\ tasks["flush"] \in Nat
        BY <2>0, Zenon DEF Tasks
      <3> QED
        BY <2>t, <3>1 DEF Queued
    <2>1. Places'
      BY <1>2, Zenon DEF RunFlush, IInv, Places
    <2>2. Flags'
      <3>1. shutdown' \in BOOLEAN
        <4>1. CASE shutdown
          BY <1>2, <4>1, Zenon DEF RunFlush, IInv, Flags
        <4>2. CASE ~shutdown
          BY <1>2, <4>2, Zenon DEF RunFlush, IInv, Flags
        <4> QED
          BY <4>1, <4>2, Zenon
      <3>2. UNCHANGED <<appHolds, connecting, found, deleted, reported, removed,
                        denied, usedShutdown, filled, late, inMap, hasPeer,
                        strandless>>
        BY <1>2, Zenon DEF RunFlush
      <3> QED
        BY <3>1, <3>2 DEF IInv, Flags
    <2>3. Numbers'
      BY <1>2, KindAssumption, <2>t DEF RunFlush, IInv, Numbers, Stages, Tasks
    <2>4. CountExact'
      <3>1. /\ found' = found /\ resolver' = resolver /\ sends' = sends + n
            /\ denied' = denied
            /\ \/ refs' = refs + (n - 1) /\ shutdown' = shutdown
               \/ /\ shutdown' = TRUE
                  /\ refs' = refs + (n - 1) - (IF shutdown THEN 0 ELSE 1)
        BY <1>2, Zenon DEF RunFlush, IInv, Numbers
      <3> QED
        BY <3>1, <2>q DEF IInv, Flags, Numbers, CountExact, Holders, One
    <2>5. Stages'
      BY <1>2, <2>t, SMTT(30)
      DEF RunFlush, IInv, Places, Flags, Numbers, CountExact, Holders,
          Queued, Stages, One, Tasks
    <2>6. refs' \in Nat
      BY <2>3, <2>4 DEF Numbers, CountExact, Holders, Queued, One, Tasks
    <2> QED
      BY <2>1, <2>2, <2>3, <2>4, <2>5, <2>6, Zenon DEF IInv
  <1>3. CASE AcceptConnection(n)
    <2>0. Finish("init") /\ tasks \in [Tasks -> Nat] /\ "init" \in Tasks
      BY <1>3, Zenon DEF AcceptConnection, IInv, Numbers, Tasks
    <2>t. /\ tasks' \in [Tasks -> Nat] /\ tasks["init"] >= 1
          /\ tasks'["init"] = tasks["init"] - 1
          /\ tasks'["datagram"] = tasks["datagram"]
          /\ tasks'["icmp"] = tasks["icmp"]
          /\ tasks'["flush"] = tasks["flush"]
      BY <2>0, FinishTasks, Zenon DEF Tasks
    <2>q. Queued' = Queued - 1 /\ Queued \in Nat
      <3>1. /\ tasks["init"] \in Nat /\ tasks["datagram"] \in Nat
            /\ tasks["icmp"] \in Nat /\ tasks["flush"] \in Nat
        BY <2>0, Zenon DEF Tasks
      <3> QED
        BY <2>t, <3>1 DEF Queued
    <2>1. Places'
      BY <1>3, Zenon DEF AcceptConnection, IInv, Places
    <2>2. Flags'
      BY <1>3, ZenonT(60) DEF AcceptConnection, IInv, Flags
    <2>3. Numbers'
      BY <1>3, KindAssumption, <2>t
      DEF AcceptConnection, IInv, Numbers, Stages, Tasks
    <2>4. CountExact'
      <3>1. /\ found' = found /\ resolver' = resolver /\ sends' = sends + n
            /\ denied' = denied
            /\ \/ refs' = refs + (n - 1) /\ shutdown' = shutdown
               \/ /\ shutdown' = TRUE
                  /\ refs' = refs + (n - 1) - (IF shutdown THEN 0 ELSE 1)
        BY <1>3, Zenon DEF AcceptConnection, IInv, Numbers
      <3> QED
        BY <3>1, <2>q DEF IInv, Flags, Numbers, CountExact, Holders, One
    <2>5. Stages'
      BY <1>3, <2>t, SMTT(30)
      DEF AcceptConnection, IInv, Places, Flags, Numbers, CountExact,
          Holders, Queued, Stages, One, Tasks
    <2>6. refs' \in Nat
      BY <2>3, <2>4 DEF Numbers, CountExact, Holders, Queued, One, Tasks
    <2> QED
      BY <2>1, <2>2, <2>3, <2>4, <2>5, <2>6, Zenon DEF IInv
  <1>4. CASE RunIcmp
    <2>0. Finish("icmp") /\ tasks \in [Tasks -> Nat] /\ "icmp" \in Tasks
      BY <1>4, Zenon DEF RunIcmp, IInv, Numbers, Tasks
    <2>t. /\ tasks' \in [Tasks -> Nat] /\ tasks["icmp"] >= 1
          /\ tasks'["init"] = tasks["init"]
          /\ tasks'["datagram"] = tasks["datagram"]
          /\ tasks'["icmp"] = tasks["icmp"] - 1
          /\ tasks'["flush"] = tasks["flush"]
      BY <2>0, FinishTasks, Zenon DEF Tasks
    <2>q. Queued' = Queued - 1 /\ Queued \in Nat
      <3>1. /\ tasks["init"] \in Nat /\ tasks["datagram"] \in Nat
            /\ tasks["icmp"] \in Nat /\ tasks["flush"] \in Nat
        BY <2>0, Zenon DEF Tasks
      <3> QED
        BY <2>t, <3>1 DEF Queued
    <2>1. Places'
      BY <1>4, Zenon DEF RunIcmp, IInv, Places
    <2>2. Flags'
      BY <1>4, ZenonT(60) DEF RunIcmp, IInv, Flags
    <2>3. Numbers'
      BY <1>4, KindAssumption, <2>t, Zenon DEF RunIcmp, IInv, Numbers, Stages, Tasks
    <2>4. CountExact'
      BY <1>4, <2>t, SMTT(30)
      DEF RunIcmp, IInv, Flags, Numbers, CountExact, Holders, Queued, One,
          Tasks
    <2>5. Stages'
      BY <1>4, <2>t, SMTT(30)
      DEF RunIcmp, IInv, Places, Flags, Numbers, CountExact, Holders, Queued,
          Stages, One, Tasks
    <2>6. refs' \in Nat
      BY <2>3, <2>4 DEF Numbers, CountExact, Holders, Queued, One, Tasks
    <2> QED
      BY <2>1, <2>2, <2>3, <2>4, <2>5, <2>6, Zenon DEF IInv
  <1>5. CASE DenyConnection
    <2>0. Finish("init") /\ tasks \in [Tasks -> Nat] /\ "init" \in Tasks
      BY <1>5, Zenon DEF DenyConnection, IInv, Numbers, Tasks
    <2>t. /\ tasks' \in [Tasks -> Nat] /\ tasks["init"] >= 1
          /\ tasks'["init"] = tasks["init"] - 1
          /\ tasks'["datagram"] = tasks["datagram"]
          /\ tasks'["icmp"] = tasks["icmp"]
          /\ tasks'["flush"] = tasks["flush"]
      BY <2>0, FinishTasks, Zenon DEF Tasks
    <2>q. Queued' = Queued - 1 /\ Queued \in Nat
      <3>1. /\ tasks["init"] \in Nat /\ tasks["datagram"] \in Nat
            /\ tasks["icmp"] \in Nat /\ tasks["flush"] \in Nat
        BY <2>0, Zenon DEF Tasks
      <3> QED
        BY <2>t, <3>1 DEF Queued
    <2>9. denied = FALSE
      BY <2>t DEF IInv, Flags, Numbers, Stages, Tasks
    <2>1. Places'
      BY <1>5, Zenon DEF DenyConnection, IInv, Places
    <2>2. Flags'
      BY <1>5, ZenonT(60) DEF DenyConnection, IInv, Flags
    <2>3. Numbers'
      BY <1>5, KindAssumption, <2>t
      DEF DenyConnection, IInv, Numbers, Stages, Tasks
    <2>4. CountExact'
      <3>1. /\ found' = found /\ resolver' = resolver /\ sends' = sends + 1
            /\ denied' = TRUE /\ shutdown' = TRUE
            /\ refs' = refs + 1 - (IF shutdown THEN 0 ELSE 1)
        BY <1>5, Zenon DEF DenyConnection, IInv, Numbers
      <3> QED
        BY <3>1, <2>q, <2>9
        DEF IInv, Flags, Numbers, CountExact, Holders, One
    <2>5. Stages'
      BY <1>5, <2>t, SMTT(90)
      DEF DenyConnection, IInv, Places, Flags, Numbers, CountExact, Holders,
          Queued, Stages, One, Tasks
    <2>6. refs' \in Nat
      BY <2>3, <2>4 DEF Numbers, CountExact, Holders, Queued, One, Tasks
    <2> QED
      BY <2>1, <2>2, <2>3, <2>4, <2>5, <2>6, Zenon DEF IInv
  <1> QED
    BY <1>1, <1>2, <1>3, <1>4, <1>5, Zenon

(* The tick: OnClose() is called once, and the object is deleted when the   *)
(* count it reads is zero.                                                  *)
LEMMA TickIInv ==
    ASSUME NEW n \in Nat, IInv,
           \/ LiveTick(n)
           \/ ReportClose(n)
           \/ RemoveFromMaps
           \/ CheckApp
           \/ CheckReferences
    PROVE  IInv'
  <1> USE
  DEF counter, bounds, history, tickOnly, CountMaybeShutdown, Sending, Callback,
      CountAndShutdown, Count
  <1>1. CASE LiveTick(n)
    <2>1. Places'
      BY <1>1, Zenon DEF LiveTick, IInv, Places
    <2>2. Flags'
      BY <1>1, ZenonT(60) DEF LiveTick, IInv, Flags
    <2>3. Numbers'
      <3>1. sends \in Nat /\ sends' = sends + n
        BY <1>1, Zenon DEF LiveTick, IInv, Numbers
      <3>2. sends' \in Nat
        BY <3>1
      <3> QED
        BY <1>1, <3>2, Zenon DEF LiveTick, IInv, Numbers
    <2>4. CountExact'
      BY <1>1
      DEF LiveTick, IInv, Flags, Numbers, CountExact, Holders, Queued, One,
          Tasks
    <2>5. Stages'
      BY <1>1, SMTT(30)
      DEF LiveTick, IInv, Places, Flags, Numbers, CountExact, Holders,
          Queued, Stages, One, Tasks
    <2>6. refs' \in Nat
      BY <2>3, <2>4 DEF Numbers, CountExact, Holders, Queued, One, Tasks
    <2> QED
      BY <2>1, <2>2, <2>3, <2>4, <2>5, <2>6, Zenon DEF IInv
  <1>2. CASE ReportClose(n)
    <2>1. Places'
      BY <1>2, Zenon DEF ReportClose, IInv, Places
    <2>2. Flags'
      BY <1>2, ZenonT(60) DEF ReportClose, IInv, Flags
    <2>3. Numbers'
      <3>1. CASE reported
        BY <1>2, <3>1, Zenon DEF ReportClose, IInv, Numbers, Tasks
      <3>2. CASE ~reported
        BY <1>2, <3>2 DEF ReportClose, IInv, Numbers, Tasks
      <3> QED
        BY <3>1, <3>2, Zenon
    <2>4. CountExact'
      <3>1. CASE reported
        BY <1>2, <3>1, Zenon DEF ReportClose, IInv, Flags, Numbers,
            CountExact, Holders, Queued, One, Tasks
      <3>2. CASE ~reported
        BY <1>2, <3>2, SMTT(30) DEF ReportClose, IInv, Flags, Numbers,
            CountExact, Holders, Queued, One, Tasks
      <3> QED
        BY <3>1, <3>2, Zenon
    <2>5. Stages'
      <3>1. CASE reported
        BY <1>2, <3>1, Zenon DEF ReportClose, IInv, Numbers, Flags, Stages, One
      <3>2. CASE ~reported
        BY <1>2, <3>2, SMTT(30) DEF ReportClose, IInv, Numbers, Flags, Stages, One
      <3> QED
        BY <3>1, <3>2, Zenon
    <2>6. refs' \in Nat
      BY <2>3, <2>4 DEF Numbers, CountExact, Holders, Queued, One, Tasks
    <2> QED
      BY <2>1, <2>2, <2>3, <2>4, <2>5, <2>6, Zenon DEF IInv
  <1>3. CASE RemoveFromMaps
    <2>1. Places'
      BY <1>3, Zenon DEF RemoveFromMaps, IInv, Places
    <2>2. Flags'
      BY <1>3, ZenonT(60) DEF RemoveFromMaps, IInv, Flags
    <2>3. Numbers'
      BY <1>3, KindAssumption, Zenon DEF RemoveFromMaps, IInv, Numbers, Stages, Tasks
    <2>4. CountExact'
      BY <1>3, Zenon
      DEF RemoveFromMaps, IInv, Flags, Numbers, CountExact, Holders, Queued,
          One, Tasks
    <2>5. Stages'
      BY <1>3, Zenon
      DEF RemoveFromMaps, IInv, Places, Flags, Numbers, CountExact, Holders,
          Queued, Stages, One, Tasks
    <2>6. refs' \in Nat
      BY <2>3, <2>4 DEF Numbers, CountExact, Holders, Queued, One, Tasks
    <2> QED
      BY <2>1, <2>2, <2>3, <2>4, <2>5, <2>6, Zenon DEF IInv
  <1>4. CASE CheckApp
    <2>1. Places'
      BY <1>4, Zenon DEF CheckApp, IInv, Places
    <2>2. Flags'
      BY <1>4 DEF CheckApp, IInv, Flags
    <2>3. Numbers'
      BY <1>4, KindAssumption, Zenon DEF CheckApp, IInv, Numbers, Stages, Tasks
    <2>4. CountExact'
      BY <1>4, Zenon
      DEF CheckApp, IInv, Flags, Numbers, CountExact, Holders, Queued, One,
          Tasks
    <2>5. Stages'
      BY <1>4, Zenon
      DEF CheckApp, IInv, Places, Flags, Numbers, CountExact, Holders,
          Queued, Stages, One, Tasks
    <2>6. refs' \in Nat
      BY <2>3, <2>4 DEF Numbers, CountExact, Holders, Queued, One, Tasks
    <2> QED
      BY <2>1, <2>2, <2>3, <2>4, <2>5, <2>6, Zenon DEF IInv
  <1>5. CASE CheckReferences
    <2>1. Places'
      BY <1>5, Zenon DEF CheckReferences, IInv, Places
    <2>2. Flags'
      <3>1. deleted' \in BOOLEAN
        BY <1>5, Zenon DEF CheckReferences, IInv, Flags
      <3>2. UNCHANGED <<shutdown, appHolds, connecting, found, inMap, hasPeer,
                        reported, removed, denied, late, usedShutdown, filled,
                        strandless>>
        BY <1>5, Zenon DEF CheckReferences
      <3> QED
        BY <3>1, <3>2 DEF IInv, Flags
    <2>3. Numbers'
      BY <1>5, KindAssumption, Zenon DEF CheckReferences, IInv, Numbers, Stages, Tasks
    <2>4. CountExact'
      BY <1>5, Zenon
      DEF CheckReferences, IInv, Flags, Numbers, CountExact, Holders, Queued,
          One, Tasks
    <2>5. Stages'
      BY <1>5, Zenon
      DEF CheckReferences, IInv, Places, Flags, Numbers, CountExact, Holders,
          Queued, Stages, One, Tasks
    <2>6. refs' \in Nat
      BY <2>3, <2>4 DEF Numbers, CountExact, Holders, Queued, One, Tasks
    <2> QED
      BY <2>1, <2>2, <2>3, <2>4, <2>5, <2>6, Zenon DEF IInv
  <1> QED
    BY <1>1, <1>2, <1>3, <1>4, <1>5, Zenon

(* Every step keeps the invariant. *)
LEMMA NextIInv == IInv /\ [Next]_vars => IInv'
  <1> SUFFICES ASSUME IInv, [Next]_vars PROVE IInv'
    OBVIOUS
  <1>1. CASE UNCHANGED vars
    BY <1>1, SMTT(90)
    DEF vars, counter, bounds, history, IInv, Places, Flags, Numbers,
        CountExact, Holders, Queued, Stages
  <1>2. ASSUME NEW n \in 0 .. MaxSends,
               \/ RunDatagram(n) \/ RunFlush(n) \/ AcceptConnection(n)
               \/ LiveTick(n) \/ ReportClose(n)
        PROVE  IInv'
    <2>1. n \in Nat
      BY KindAssumption
    <2> QED
      BY <1>2, <2>1, StrandIInv, TickIInv, Zenon
  <1>3. CASE RunIcmp \/ DenyConnection
    BY <1>3, StrandIInv, Zenon
  <1>4. CASE RemoveFromMaps \/ CheckApp \/ CheckReferences
    BY <1>4, TickIInv, Zenon
  <1> QED
    BY <1>1, <1>2, <1>3, <1>4, AppIInv, WorkerIInv, Zenon DEF Next

(* onDiscoTimerTick() finds the count zero: every operation that held a     *)
(* reference has released it.                                               *)
LEMMA GoneBegins == ASSUME IInv, CheckReferences, ~deleted PROVE Gone'
  <1> SUFFICES ASSUME deleted' PROVE Gone'
    BY Zenon DEF Gone
  <1>1. refs = 0 /\ pc = "free"
    BY Zenon DEF CheckReferences
  <1>2. /\ tasks["init"] \in Nat /\ tasks["datagram"] \in Nat
        /\ tasks["icmp"] \in Nat /\ tasks["flush"] \in Nat /\ sends \in Nat
    BY Zenon DEF IInv, Numbers, Tasks
  <1> DEFINE own == One(~shutdown)
             lookup == One(found)
             resolving == One(resolver # "done")
             leaked == One(denied)
  <1>3. /\ own \in Nat /\ lookup \in Nat /\ resolving \in Nat /\ leaked \in Nat
        /\ Queued \in Nat
    BY <1>2 DEF One, Queued
  <1>4. Queued + own + lookup + sends + resolving + leaked = 0
    BY <1>1, ZenonT(60) DEF IInv, CountExact, Holders
  <1>5. Queued = 0 /\ sends = 0 /\ lookup = 0 /\ resolving = 0
    <2> HIDE DEF own, lookup, resolving, leaked
    <2> QED
      BY <1>2, <1>3, <1>4
  <1>6. ~found /\ resolver = "done"
    BY <1>5 DEF One
  <1>7. /\ tasks["init"] = 0 /\ tasks["datagram"] = 0
        /\ tasks["icmp"] = 0 /\ tasks["flush"] = 0
    <2> DEFINE a == tasks["init"]
               b == tasks["datagram"]
               c == tasks["icmp"]
               d == tasks["flush"]
    <2>1. a \in Nat /\ b \in Nat /\ c \in Nat /\ d \in Nat
      BY <1>2, Zenon
    <2>2. a + b + c + d = 0
      BY <1>5, ZenonT(60) DEF Queued
    <2> HIDE DEF a, b, c, d
    <2>3. a = 0 /\ b = 0 /\ c = 0 /\ d = 0
      BY <2>1, <2>2
    <2> QED
      BY <2>3, Zenon DEF a, b, c, d
  <1>8. reported /\ removed /\ ~appHolds
    BY <1>1, Zenon DEF IInv, Stages
  <1> QED
    BY <1>1, <1>5, <1>6, <1>7, <1>8, Zenon
    DEF CheckReferences, tickOnly, Gone, Tasks

(* Nothing happens to a deleted connection but lookups of an address that   *)
(* is still in the map.                                                     *)
LEMMA GoneKept == ASSUME IInv, Gone, deleted, [Next]_vars PROVE Gone'
  <1>1. /\ removed /\ reported /\ shutdown /\ pc = "off" /\ app = "released"
        /\ \A t \in Tasks : tasks[t] = 0
        /\ sends = 0 /\ resolver = "done"
    BY Zenon DEF Gone, IInv, Stages
  <1>2. ~(sends > 0) /\ \A t \in Tasks : ~(tasks[t] > 0)
    BY <1>1
  <1>3. CASE FindConnection \/ InsertAddress \/ PostToNoStrand \/ UNCHANGED vars
    BY <1>1, <1>3, Zenon
    DEF FindConnection, InsertAddress, PostToNoStrand, InIdMap, Gone, vars
  <1>4. ~(TonkClose \/ TonkFree \/ AppRelease \/ TonkFlush)
    BY <1>1, Zenon DEF TonkClose, TonkFree, AppRelease, TonkFlush
  <1>5. ~(PostTask("datagram") \/ PostTask("icmp") \/ CompleteSend)
    BY <1>2, Zenon DEF PostTask, HasStrand, CompleteSend
  <1>6. ~(OnResolveEnd \/ OnResolve \/ SetPeerAddressInMap \/ SetPeerAddress)
    BY <1>1, Zenon
    DEF OnResolveEnd, OnResolve, SetPeerAddressInMap, SetPeerAddress
  <1>7. ASSUME NEW n
        PROVE  ~( \/ RunDatagram(n) \/ RunFlush(n) \/ AcceptConnection(n)
                  \/ LiveTick(n) \/ ReportClose(n) \/ RunIcmp \/ DenyConnection)
    BY <1>1, <1>2, Zenon
    DEF RunDatagram, RunFlush, AcceptConnection, LiveTick, ReportClose, RunIcmp,
        DenyConnection, Finish, Tasks
  <1>8. ~(RemoveFromMaps \/ CheckApp \/ CheckReferences)
    BY <1>1, Zenon DEF RemoveFromMaps, CheckApp, CheckReferences
  <1> QED
    BY <1>3, <1>4, <1>5, <1>6, <1>7, <1>8, Zenon DEF Next

(* Only the check of onDiscoTimerTick() deletes the object.                 *)
LEMMA NextGone == ASSUME IInv, Gone, [Next]_vars PROVE Gone'
  <1>1. CASE deleted
    BY <1>1, GoneKept, Zenon
  <1>2. CASE ~deleted /\ CheckReferences
    BY <1>2, GoneBegins, Zenon
  <1>3. CASE ~deleted /\ ~CheckReferences
    <2>1. UNCHANGED deleted
      BY <1>3, Zenon
      DEF Next, TonkClose, TonkFree, AppRelease, TonkFlush, FindConnection,
          PostTask, PostToNoStrand, CompleteSend, InsertAddress, OnResolveEnd,
          OnResolve, SetPeerAddressInMap, SetPeerAddress, RunDatagram, RunFlush,
          AcceptConnection, LiveTick, ReportClose, RunIcmp, DenyConnection,
          RemoveFromMaps, CheckApp, appOnly, resolverOnly, strandOnly, vars
    <2> QED
      BY <1>3, <2>1, Zenon DEF Gone
  <1> QED
    BY <1>1, <1>2, <1>3, Zenon

(* The invariant of the life of a connection. *)
THEOREM Invariance == Spec => [](IInv /\ Gone)
  <1>1. Init => Gone
    BY Zenon DEF Init, Gone
  <1> QED
    BY <1>1, InitIInv, NextIInv, NextGone, PTL DEF Spec

(* The flags, counters and program counters stay in their ranges, and the   *)
(* reference count (RefCounter) never goes below zero.                      *)
THEOREM TypeCorrect == Spec => []TypeOK
  <1>1. IInv => TypeOK
    BY Zenon DEF IInv, Places, Flags, Numbers, TypeOK
  <1> QED
    BY <1>1, Invariance, PTL

(* The reference count of a connection that was not denied is the number of *)
(* operations that hold one.                                                *)
THEOREM ReferencesCounted == Spec => []RefCountExact
  <1>1. ASSUME IInv, ~denied PROVE refs = Holders
    <2>1. Holders \in Nat
      BY <1>1 DEF IInv, Numbers, Tasks, Holders, Queued, One
    <2>2. refs = Holders + 0
      BY <1>1, Zenon DEF IInv, CountExact, One
    <2> QED
      BY <2>1, <2>2
  <1>2. IInv => RefCountExact
    BY <1>1, Zenon DEF RefCountExact
  <1> QED
    BY <1>2, Invariance, PTL

(* onDiscoTimerTick() deletes the object only when no task, lookup, send,   *)
(* resolver or app that began before can touch it again.                    *)
THEOREM DeletedSafely == Spec => []DeletedUnused
  <1>1. Gone => DeletedUnused
    BY Zenon DEF Gone, DeletedUnused
  <1> QED
    BY <1>1, Invariance, PTL

(* OnClose() is called once, and it is the last callback.                   *)
THEOREM ClosedOnceAndLast == Spec => []CloseIsLast
  <1>1. IInv /\ Gone => CloseIsLast
    BY DEF IInv, Flags, Numbers, Stages, Gone, One, CloseIsLast
  <1> QED
    BY <1>1, Invariance, PTL

-----------------------------------------------------------------------------
(* Time *)

(* Quotient and remainder. *)
LEMMA DivMod ==
    ASSUME NEW x \in Int, NEW n \in Nat \ {0}
    PROVE  /\ x \div n \in Int
           /\ x % n \in 0 .. n - 1
           /\ x = ((x \div n) * n) + (x % n)
BY SMT

(* The remainder is the only number below n that differs by a multiple. *)
LEMMA ModUnique ==
    ASSUME NEW x \in Int, NEW n \in Nat \ {0}, NEW q \in Int,
           NEW t \in 0 .. n - 1, x = q * n + t
    PROVE  x % n = t
<1> DEFINE p == x \div n
<1> DEFINE u == x % n
<1>1. p \in Int /\ u \in 0 .. n - 1 /\ x = p * n + u
  BY DivMod, Zenon
<1> HIDE DEF p, u
<1>2. (q - p) * n = u - t
  BY <1>1, SMT
<1>3. ~(q - p >= 1)
  <2> SUFFICES ASSUME q - p >= 1 PROVE FALSE
    OBVIOUS
  <2>1. (q - p) * n >= n
    BY <1>1, SMT
  <2> QED
    BY <2>1, <1>1, <1>2, SMT
<1>4. ~(q - p <= -1)
  <2> SUFFICES ASSUME q - p <= -1 PROVE FALSE
    OBVIOUS
  <2>1. (q - p) * n <= -n
    BY <1>1, SMT
  <2> QED
    BY <2>1, <1>1, <1>2, SMT
<1>5. q = p
  BY <1>1, <1>3, <1>4, SMT
<1>6. u = t
  BY <1>1, <1>5, SMT
<1> QED
  BY <1>6 DEF u

(* A remainder may be taken before an addition. *)
LEMMA ModAdd ==
    ASSUME NEW a \in Int, NEW b \in Int, NEW n \in Nat \ {0}
    PROVE  ((a % n) + b) % n = (a + b) % n
<1> DEFINE p == a \div n
<1> DEFINE u == a % n
<1>1. p \in Int /\ u \in Int /\ a = p * n + u
  BY DivMod
<1> DEFINE q == (u + b) \div n
<1> DEFINE t == (u + b) % n
<1>2. u + b \in Int
  BY <1>1, SMT
<1>3. q \in Int /\ t \in 0 .. n - 1 /\ u + b = q * n + t
  BY <1>2, DivMod, Zenon
<1>4. t = ((a % n) + b) % n
  OBVIOUS
<1> HIDE DEF p, u, q, t
<1>5. a + b = (p + q) * n + t
  BY <1>1, <1>3, SMT
<1>6. (a + b) % n = t
  <2>1. a + b \in Int /\ p + q \in Int
    BY <1>1, <1>3
  <2> QED
    BY <1>3, <1>5, <2>1, ModUnique, Zenon
<1> QED
  BY <1>4, <1>6

(* The low bits of a wrapped counter are those of the counter. *)
LEMMA ModOfMultiple ==
    ASSUME NEW a \in Int, NEW s \in Nat \ {0}, NEW k \in Nat \ {0}
    PROVE  (a % (k * s)) % s = a % s
<1> DEFINE m == k * s
<1>1. m \in Nat \ {0}
  BY SMT
<1> DEFINE p == a \div m
<1> DEFINE u == a % m
<1>2. p \in Int /\ u \in Int /\ a = p * m + u
  <2> HIDE DEF m
  <2> QED
    BY <1>1, DivMod
<1> DEFINE q == u \div s
<1> DEFINE t == u % s
<1>3. q \in Int /\ t \in 0 .. s - 1 /\ u = q * s + t
  <2> HIDE DEF u
  <2> QED
    BY <1>2, DivMod, Zenon
<1>4. t = (a % (k * s)) % s
  OBVIOUS
<1> HIDE DEF p, u, q, t
<1>5. p * m = (p * k) * s
  BY <1>2, SMT
<1> HIDE DEF m
<1>6. p * k \in Int
  BY <1>2, SMT
<1> DEFINE pk == p * k
<1> HIDE DEF pk
<1>7. a = (pk + q) * s + t
  BY <1>2, <1>3, <1>5, <1>6, SMT DEF pk
<1>8. pk + q \in Int
  BY <1>3, <1>6 DEF pk
<1> QED
  BY <1>3, <1>4, <1>7, <1>8, ModUnique, Zenon

(* The bias is less than half the range s, and v lies within half the range *)
(* of a reference that is by the bias behind r.                             *)
Reaches(s, bias, v, r) ==
    /\ bias > -(s \div 2) /\ bias < s \div 2
    /\ v - r >= -(s \div 2) - bias /\ v - r < (s \div 2) - bias

(* v, truncated to the range s, is read as v next to r.                     *)
Expands(s, k, bias, v, r) ==
    ExpandFromTruncatedWithBias(r % (k * s), Truncate(v, s), bias, s, k * s) = v % (k * s)

(* With a bias the accepted range lies by as much further in the past       *)
(* (Counter::ExpandFromTruncatedWithBias).                                  *)
THEOREM BiasMovesRange ==
    ASSUME NEW s \in Nat \ {0}, s % 2 = 0, NEW k \in Nat \ {0},
           NEW bias \in Int, NEW v \in Nat, NEW r \in Nat, Reaches(s, bias, v, r)
    PROVE  Expands(s, k, bias, v, r)
<1> USE DEF Reaches, Expands
<1> DEFINE h == s \div 2
<1> DEFINE m == k * s
<1> DEFINE R == r % m
<1> DEFINE low == r % s
<1> DEFINE small == v % s
<1> DEFINE e == (v \div s) - (r \div s)
<1>1. h \in Nat /\ 2 * h = s /\ m \in Nat \ {0} /\ v \in Int /\ r \in Int
  BY SMT
<1>2. R % s = low
  BY <1>1, ModOfMultiple, Zenon
<1>3. R \in Int
  <2> HIDE DEF m
  <2> QED
    BY <1>1, DivMod
<1>4. /\ low \in 0 .. s - 1 /\ small \in 0 .. s - 1 /\ e \in Int
      /\ v - r = e * s + (small - low)
  <2>1. /\ v \div s \in Int /\ small \in 0 .. s - 1
        /\ v = (v \div s) * s + small
    BY <1>1, DivMod, Zenon
  <2>2. /\ r \div s \in Int /\ low \in 0 .. s - 1
        /\ r = (r \div s) * s + low
    BY <1>1, DivMod, Zenon
  <2> DEFINE a == v \div s
  <2> DEFINE b == r \div s
  <2>3. a \in Int /\ b \in Int /\ v = a * s + small /\ r = b * s + low
    BY <2>1, <2>2, Zenon
  <2>4. e = a - b
    OBVIOUS
  <2> HIDE DEF a, b, e, low, small
  <2>5. e * s = a * s - b * s
    BY <2>3, <2>4, SMT
  <2> QED
    BY <2>1, <2>2, <2>3, <2>4, <2>5, SMT
<1>5. (e >= 1 => e * s >= s) /\ (e <= -1 => e * s <= -s)
      /\ (e <= -2 => e * s <= -2 * s) /\ (e >= 2 => e * s >= 2 * s)
  <2> HIDE DEF e
  <2> QED
    BY <1>4, SMT
<1> DEFINE result == small + (R - low)
<1>6. (R + (v - r)) % m = v % m
  <2> HIDE DEF m
  <2>1. r \in Int /\ v - r \in Int /\ r + (v - r) = v
    OBVIOUS
  <2>2. ((r % m) + (v - r)) % m = (r + (v - r)) % m
    BY <1>1, <2>1, ModAdd, Zenon
  <2> QED
    BY <2>1, <2>2, Zenon
<1>7. e = 0 => result = R + (v - r)
  <2> HIDE DEF e, R, low, small
  <2> QED
    BY <1>3, <1>4, SMT
<1>8. e = -1 => result - s = R + (v - r)
  <2> HIDE DEF e, R, low, small
  <2> QED
    BY <1>3, <1>4, SMT
<1>9. e = 1 => result + s = R + (v - r)
  <2> HIDE DEF e, R, low, small
  <2> QED
    BY <1>3, <1>4, SMT
<1> DEFINE expanded ==
      IF low < small
      THEN IF small - low >= (s \div 2) - bias THEN (result - s) % m ELSE result % m
      ELSE IF low - small > (s \div 2) + bias THEN (result + s) % m ELSE result % m
<1>10. ExpandFromTruncatedWithBias(R, small, bias, s, m) = expanded
  BY <1>2, Zenon DEF ExpandFromTruncatedWithBias
<1>11. CASE low < small /\ small - low >= h - bias
  <2>1. e = -1
    <3> HIDE DEF e, low, small
    <3> QED
      BY <1>1, <1>4, <1>5, <1>11, SMT
  <2>2. (result - s) % m = v % m
    <3>1. result - s = R + (v - r)
      BY <1>8, <2>1, Zenon
    <3> QED
      BY <1>6, <3>1, Zenon
  <2> QED
    BY <1>10, <1>11, <2>2, Zenon DEF Truncate
<1>12. CASE low < small /\ ~(small - low >= h - bias)
  <2>1. e = 0
    <3> HIDE DEF e, low, small
    <3> QED
      BY <1>1, <1>4, <1>5, <1>12, SMT
  <2>2. result % m = v % m
    <3>1. result = R + (v - r)
      BY <1>7, <2>1, Zenon
    <3> QED
      BY <1>6, <3>1, Zenon
  <2> QED
    BY <1>10, <1>12, <2>2, Zenon DEF Truncate
<1>13. CASE ~(low < small) /\ low - small > h + bias
  <2>1. e = 1
    <3> HIDE DEF e, low, small
    <3> QED
      BY <1>1, <1>4, <1>5, <1>13, SMT
  <2>2. (result + s) % m = v % m
    <3>1. result + s = R + (v - r)
      BY <1>9, <2>1, Zenon
    <3> QED
      BY <1>6, <3>1, Zenon
  <2> QED
    BY <1>10, <1>13, <2>2, Zenon DEF Truncate
<1>14. CASE ~(low < small) /\ ~(low - small > h + bias)
  <2>1. e = 0
    <3> HIDE DEF e, low, small
    <3> QED
      BY <1>1, <1>4, <1>5, <1>14, SMT
  <2>2. result % m = v % m
    <3>1. result = R + (v - r)
      BY <1>7, <2>1, Zenon
    <3> QED
      BY <1>6, <3>1, Zenon
  <2> QED
    BY <1>10, <1>14, <2>2, Zenon DEF Truncate
<1> QED
  BY <1>11, <1>12, <1>13, <1>14, Zenon

(* A number that differs by a multiple has the same remainder. *)
LEMMA ModShift ==
    ASSUME NEW x \in Int, NEW q \in Int, NEW n \in Nat \ {0}
    PROVE  (x + q * n) % n = x % n
<1> DEFINE p == x \div n
<1> DEFINE t == x % n
<1>1. p \in Int /\ t \in 0 .. n - 1 /\ x = p * n + t
  BY DivMod, Zenon
<1> HIDE DEF p, t
<1>2. x + q * n = (p + q) * n + t /\ x + q * n \in Int /\ p + q \in Int
  BY <1>1, SMT
<1>3. (x + q * n) % n = t
  BY <1>1, <1>2, ModUnique, Zenon
<1> QED
  BY <1>3, Zenon DEF t

(* A number below the range is its own remainder. *)
LEMMA ModSmall ==
    ASSUME NEW n \in Nat \ {0}, NEW x \in 0 .. n - 1
    PROVE  x % n = x
BY SMT

(* Wrapped numbers can be subtracted before they are wrapped. *)
LEMMA ModSub ==
    ASSUME NEW a \in Int, NEW b \in Int, NEW n \in Nat \ {0}
    PROVE  ((a % n) - (b % n)) % n = (a - b) % n
<1> DEFINE p == b \div n
<1> DEFINE t == b % n
<1>1. p \in Int /\ t \in Int /\ b = p * n + t
  BY DivMod
<1> HIDE DEF p, t
<1>2. -t \in Int /\ (a % n) + (-t) = (a % n) - t /\ a + (-t) = (a - b) + p * n /\ a - b \in Int
  BY <1>1, DivMod, SMT
<1>3. ((a % n) + (-t)) % n = (a + (-t)) % n
  BY <1>2, ModAdd, Zenon
<1>4. ((a - b) + p * n) % n = (a - b) % n
  BY <1>1, <1>2, ModShift, ZenonT(40)
<1> QED
  BY <1>2, <1>3, <1>4, Zenon DEF t

(* Halving a wrapped number wraps its half at half the range. *)
LEMMA HalfMod ==
    ASSUME NEW x \in Int, NEW h \in Nat \ {0}
    PROVE  (x % (2 * h)) \div 2 = (x \div 2) % h
<1> DEFINE q == x \div (2 * h)
<1> DEFINE r == x % (2 * h)
<1>1. 2 * h \in Nat \ {0}
  BY SMT
<1>2. q \in Int /\ r \in 0 .. (2 * h) - 1 /\ x = q * (2 * h) + r
  BY <1>1, DivMod, Zenon
<1> HIDE DEF q, r
<1> DEFINE w == q * h
<1>3. w \in Int /\ x = 2 * w + r
  BY <1>2, SMT
<1>4. x \div 2 = w + (r \div 2) /\ r \div 2 \in 0 .. h - 1 /\ x \div 2 \in Int
  <2> HIDE DEF w
  <2> QED
    BY <1>2, <1>3, SMT
<1>5. (x \div 2) % h = r \div 2
  BY <1>2, <1>4, ModUnique, Zenon
<1> QED
  BY <1>5, Zenon DEF r

(* The parts of the assumption. *)
LEMMA Ranges ==
    /\ TSRange \in Nat \ {0}
    /\ TSRange \div 2 \in Nat \ {0} /\ TSRange = 2 * (TSRange \div 2)
    /\ (TSRange \div 2) % 2 = 0 /\ (TSRange \div 2) \div 2 = TSRange \div 4
    /\ TSRange \div 4 = 2 * (TSRange \div 8) /\ TSRange \div 8 \in Nat \ {0}
    /\ TSRange = 8 * (TSRange \div 8)
BY TimeAssumption, SMT DEF TimeAssumption

(* The difference of a timestamp and the clock holds nothing but the delay  *)
(* of the datagram and the difference of the clocks.                        *)
LEMMA DeltaIs ==
    ASSUME NEW now \in Int, NEW o \in Int, NEW d \in Int
    PROVE  (now - ((now + o - d) % TSRange)) % TSRange = (d - o) % TSRange
<1> DEFINE a == now + o - d
<1> DEFINE p == a \div TSRange
<1> DEFINE t == a % TSRange
<1>1. a \in Int /\ TSRange \in Nat \ {0}
  BY Ranges
<1>2. p \in Int /\ t \in Int /\ a = p * TSRange + t
  <2> HIDE DEF a
  <2> QED
    BY <1>1, DivMod
<1> HIDE DEF p, t
<1> DEFINE w == p * TSRange
<1>3. w \in Int /\ now - t = (d - o) + w /\ d - o \in Int
  <2>1. w \in Int
    BY <1>1, <1>2
  <2> HIDE DEF w
  <2>2. a = w + t
    BY <1>2, Zenon DEF w
  <2> QED
    BY <1>2, <2>1, <2>2, SMT
<1>4. ((d - o) + p * TSRange) % TSRange = (d - o) % TSRange
  BY <1>1, <1>2, <1>3, ModShift, Zenon
<1> QED
  BY <1>3, <1>4, Zenon DEF t

(* Adding the clock difference back gives the delay.                        *)
LEMMA TripIs ==
    ASSUME NEW o \in Int, NEW d \in Delays
    PROVE  (((d - o) % TSRange) + o) % TSRange = d
<1>1. d \in Int /\ d \in 0 .. TSRange - 1 /\ TSRange \in Nat \ {0}
  BY TimeAssumption, Ranges DEF TimeAssumption
<1>2. d - o \in Int /\ (d - o) + o = d
  BY <1>1
<1>3. (((d - o) % TSRange) + o) % TSRange = ((d - o) + o) % TSRange
  BY <1>1, <1>2, ModAdd, Zenon
<1> QED
  BY <1>1, <1>2, <1>3, ModSmall, Zenon

(* Half the sum of the two differences is the mean of the delays.           *)
LEMMA MeanDelay ==
    ASSUME NEW o \in Int, NEW d \in Delays, NEW p \in Delays
    PROVE  /\ MinOWD((p + o) % TSRange, (d - o) % TSRange) = (d + p) \div 2
           /\ (d + p) \div 2 < TSRange \div 4
<1>1. /\ d \in Int /\ p \in Int /\ d + p \in 0 .. TSRange - 1 /\ TSRange \in Nat \ {0}
      /\ (d + p) \div 2 < TSRange \div 4
  BY TimeAssumption, Ranges, SMT DEF TimeAssumption
<1> DEFINE v == (d - o) % TSRange
<1>2. d - o \in Int /\ p + o \in Int
  BY <1>1
<1>3. v \in Int
  BY <1>1, <1>2, DivMod
<1>4. (((p + o) % TSRange) + v) % TSRange = ((p + o) + v) % TSRange
  BY <1>1, <1>2, <1>3, ModAdd, Zenon
<1>5. (v + (p + o)) % TSRange = ((d - o) + (p + o)) % TSRange
  BY <1>1, <1>2, ModAdd, Zenon
<1>6. (p + o) + v = v + (p + o) /\ (d - o) + (p + o) = d + p
  <2> HIDE DEF v
  <2> QED
    BY <1>1, <1>3
<1>7. (((p + o) % TSRange) + v) % TSRange = d + p
  BY <1>1, <1>4, <1>5, <1>6, ModSmall, Zenon
<1> QED
  BY <1>1, <1>7, Zenon DEF MinOWD

(* Half the difference of the two differences is the clock difference, and  *)
(* half of what the delays differ.                                          *)
LEMMA ClockDeltaIs ==
    ASSUME NEW o \in Int, NEW d \in Delays, NEW p \in Delays
    PROVE  ClockDelta((p + o) % TSRange, (d - o) % TSRange)
             = (o + ((p - d) \div 2)) % (TSRange \div 2)
<1> DEFINE H == TSRange \div 2
<1>1. d \in Int /\ p \in Int /\ TSRange \in Nat \ {0} /\ H \in Nat \ {0} /\ TSRange = 2 * H
  BY TimeAssumption, Ranges DEF TimeAssumption
<1> DEFINE x == (p + o) - (d - o)
<1>2. /\ d - o \in Int /\ p + o \in Int /\ x \in Int
      /\ x \div 2 = o + ((p - d) \div 2)
  BY <1>1, SMT
<1>3. (((p + o) % TSRange) - ((d - o) % TSRange)) % TSRange = x % TSRange
  BY <1>1, <1>2, ModSub, ZenonT(40)
<1> HIDE DEF x, H
<1>4. (x % (2 * H)) \div 2 = (x \div 2) % H
  BY <1>1, <1>2, HalfMod, Zenon
<1> QED
  BY <1>1, <1>2, <1>3, <1>4, Zenon DEF ClockDelta, H

(* A time sent as 23 bits is expanded to the moment that was meant.         *)
LEMMA TimeArrives ==
    ASSUME NEW now \in Int, NEW o \in Offsets, NEW d \in Delays, NEW p \in Delays,
           NEW delay \in Delays, Start <= now, now <= MaxTime
    PROVE  FromLocalTime23(now + o + delay,
                           (now + ((o + ((p - d) \div 2)) % (TSRange \div 2)))
                             % (TSRange \div 2))
             = now + o + ((p - d) \div 2)
<1> DEFINE H == TSRange \div 2
<1> DEFINE B == TSRange \div 8
<1> DEFINE E == o + ((p - d) \div 2)
<1> DEFINE T == now + E
<1> DEFINE r == now + o + delay
<1>1. /\ TSRange \in Nat \ {0} /\ H \in Nat \ {0} /\ TSRange = 2 * H /\ H % 2 = 0
      /\ B \in Nat \ {0} /\ H \div 2 = 2 * B /\ TSRange = 8 * B /\ TimeBias = B
  BY Ranges, TimeAssumption, Zenon DEF TimeAssumption
<1>2. /\ o \in Int /\ d \in 0 .. (2 * B) - 1 /\ p \in 0 .. (2 * B) - 1
      /\ delay \in 0 .. (2 * B) - 1 /\ Start \in Int /\ MaxTime \in Int
      /\ Start + o >= B /\ MaxTime + o + (2 * B) < TSRange * TSRange
  BY Ranges, TimeAssumption DEF TimeAssumption
<1> HIDE DEF H, B
<1>3. /\ E \in Int /\ T \in Nat /\ r \in Nat
      /\ T - r >= -(2 * B) - B /\ T - r < (2 * B) - B
      /\ T <= MaxTime + o + 2 * B /\ r <= MaxTime + o + 2 * B
  BY <1>1, <1>2, SMT
<1>4. (now + (E % H)) % H = T % H
  <2> HIDE DEF E
  <2>1. E % H \in Int /\ now + (E % H) = (E % H) + now /\ E + now = T
    BY <1>1, <1>3, DivMod
  <2>2. ((E % H) + now) % H = (E + now) % H
    BY <1>1, <1>3, ModAdd, Zenon
  <2> HIDE DEF T
  <2> QED
    BY <2>1, <2>2, Zenon
<1> DEFINE k == 2 * TSRange
<1>5. k \in Nat \ {0} /\ k * H = TSRange * TSRange
  BY <1>1
<1>6. T \in 0 .. (k * H) - 1 /\ r \in 0 .. (k * H) - 1 /\ k * H \in Nat \ {0}
  <2> DEFINE sq == TSRange * TSRange
  <2>1. sq \in Int
    BY <1>1
  <2>2. MaxTime + o + (2 * B) < sq
    BY <1>2, Zenon
  <2> HIDE DEF sq, E, T, r
  <2>3. T \in 0 .. sq - 1 /\ r \in 0 .. sq - 1 /\ sq \in Nat \ {0}
    BY <1>1, <1>2, <1>3, <2>1, <2>2, SMT
  <2> QED
    BY <1>5, <2>3, Zenon DEF sq
<1> HIDE DEF k, E, T, r
<1>7. B \in Int /\ B > -(H \div 2) /\ B < H \div 2
      /\ T - r >= -(H \div 2) - B /\ T - r < (H \div 2) - B
  BY <1>1, <1>3
<1>8. ExpandFromTruncatedWithBias(r % (k * H), Truncate(T, H), B, H, k * H) = T % (k * H)
  <2>1. H \in Nat \ {0} /\ H % 2 = 0 /\ k \in Nat \ {0} /\ T \in Nat /\ r \in Nat
        /\ B \in Int
    BY <1>1, <1>3, <1>5
  <2>2. Reaches(H, B, T, r)
    BY <1>7, Zenon DEF Reaches
  <2>3. Expands(H, k, B, T, r)
    BY <2>1, <2>2, BiasMovesRange, Zenon
  <2> QED
    BY <2>3, Zenon DEF Expands
<1>9. r % (k * H) = r /\ T % (k * H) = T
  BY <1>6, ModSmall, Zenon
<1>10. ExpandFromTruncatedWithBias(r, T % H, TimeBias, H, TSRange * TSRange) = T
  BY <1>1, <1>5, <1>8, <1>9, Zenon DEF Truncate
<1>11. FromLocalTime23(r, T % H) = T
  BY <1>10, Zenon DEF FromLocalTime23, H
<1>12. FromLocalTime23(r, (now + (E % H)) % H) = T
  BY <1>4, <1>11, Zenon
<1>13. T = now + o + ((p - d) \div 2)
  BY <1>2, SMT DEF T, E
<1> QED
  BY <1>12, <1>13, Zenon DEF H, E, r

(* The value of a sample is the difference of a datagram. *)
Real(s) == \E d \in Delays : s.Value = (d - offset) % TSRange

(* What is computed from the reports is computed from the latest ones. *)
Computed ==
    /\ RemoteTimeDelta = ClockDelta(LastFC_MinDeltaTS24, Samples[0].Value)
    /\ MinimumOneWayDelay =
         LET owd == MinOWD(LastFC_MinDeltaTS24, Samples[0].Value)
         IN  IF owd >= TSRange \div 4 THEN 0 ELSE owd

TimeIInv ==
    /\ offset \in Offsets
    /\ clock \in Int /\ Start <= clock /\ clock <= MaxTime
    /\ Samples = [i \in 0 .. 2 |-> Samples[i]]
    /\ IsValid(Samples) => \A i \in 0 .. 2 : Real(Samples[i])
    /\ GotPeerUpdate => /\ peerTrip \in Delays
                        /\ LastFC_MinDeltaTS24 = (peerTrip + offset) % TSRange
    /\ Synchronized => GotPeerUpdate
    /\ Synchronized /\ IsValid(Samples) => Computed

(* Whatever expires or is displaced, the samples are differences of         *)
(* datagrams: WindowedMinTS24::Update() invents none.                       *)
LEMMA UpdateKeepsReal ==
    ASSUME NEW s, NEW sample, s = [i \in 0 .. 2 |-> s[i]], Real(sample),
           IsValid(s) => \A i \in 0 .. 2 : Real(s[i])
    PROVE  LET u == Update(s, sample)
           IN  u = [i \in 0 .. 2 |-> u[i]] /\ \A i \in 0 .. 2 : Real(u[i])
<1> DEFINE P(a) == a = [i \in 0 .. 2 |-> a[i]] /\ \A i \in 0 .. 2 : Real(a[i])
<1>0. 0 \in 0 .. 2 /\ 1 \in 0 .. 2 /\ 2 \in 0 .. 2
  OBVIOUS
<1>1. P([i \in 0 .. 2 |-> sample])
  BY Zenon
<1>2. ASSUME NEW a, P(a), NEW j \in 0 .. 2, NEW r, Real(r)
      PROVE  P([a EXCEPT ![j] = r])
  <2>1. [a EXCEPT ![j] = r] = [i \in 0 .. 2 |-> IF i = j THEN r ELSE a[i]]
    BY <1>2, Zenon
  <2> QED
    BY <1>2, <2>1, Zenon
<1>3. ASSUME P(s) PROVE P(Update(s, sample))
  <2> DEFINE t == InsertSample(s, sample)
  <2>1. P([s EXCEPT ![1] = sample, ![2] = sample])
    <3>1. P([s EXCEPT ![1] = sample])
      BY <1>0, <1>2, <1>3, Zenon
    <3> QED
      BY <1>0, <1>2, <3>1, Zenon
  <2>2. P([s EXCEPT ![2] = sample])
    BY <1>0, <1>2, <1>3, Zenon
  <2> HIDE DEF P
  <2>3. P(t)
    BY <1>3, <2>1, <2>2, Zenon DEF InsertSample
  <2> HIDE DEF t
  <2>4. P([t EXCEPT ![1] = sample, ![2] = sample]) /\ P([t EXCEPT ![2] = sample])
    <3>1. P([t EXCEPT ![1] = sample])
      BY <1>0, <1>2, <2>3, Zenon
    <3> QED
      BY <1>0, <1>2, <2>3, <3>1, Zenon
  <2>5. Real(t[1]) /\ Real(t[2])
    BY <1>0, <2>3, Zenon DEF P
  <2>6. P([t EXCEPT ![0] = t[2], ![1] = sample, ![2] = sample])
    <3>1. P([t EXCEPT ![0] = t[2]])
      BY <1>0, <1>2, <2>3, <2>5, Zenon
    <3>2. P([t EXCEPT ![0] = t[2], ![1] = sample])
      BY <1>0, <1>2, <3>1, Zenon
    <3> QED
      BY <1>0, <1>2, <3>2, Zenon
  <2>7. P([t EXCEPT ![0] = t[1], ![1] = t[2], ![2] = sample])
    <3>1. P([t EXCEPT ![0] = t[1]])
      BY <1>0, <1>2, <2>3, <2>5, Zenon
    <3>2. P([t EXCEPT ![0] = t[1], ![1] = t[2]])
      BY <1>0, <1>2, <2>5, <3>1, Zenon
    <3> QED
      BY <1>0, <1>2, <3>2, Zenon
  <2>8. P(Expire(t, sample))
    BY <2>6, <2>7, Zenon DEF Expire
  <2> QED
    BY <1>1, <2>3, <2>4, <2>8, Zenon DEF Update, t
<1>4. CASE IsValid(s)
  BY <1>3, <1>4, Zenon
<1>5. CASE ~IsValid(s)
  <2>1. Update(s, sample) = [i \in 0 .. 2 |-> sample]
    BY <1>5, Zenon DEF Update
  <2> QED
    BY <1>1, <2>1, Zenon
<1> QED
  BY <1>4, <1>5, Zenon

(* Nothing is known before the first datagrams.                             *)
LEMMA TimeInitially == TimeInit => TimeIInv
<1> SUFFICES ASSUME TimeInit PROVE TimeIInv
  OBVIOUS
<1>1. Samples = [i \in 0 .. 2 |-> [Value |-> 0, Timestamp |-> 0]]
  BY Zenon DEF TimeInit
<1>2. ~IsValid(Samples) /\ Samples = [i \in 0 .. 2 |-> Samples[i]]
  BY <1>1 DEF IsValid
<1>3. clock = Start /\ Start \in Int /\ Start <= MaxTime /\ MaxTime \in Int
  BY TimeAssumption DEF TimeAssumption, TimeInit
<1>4. clock \in Int /\ Start <= clock /\ clock <= MaxTime
  BY <1>3
<1> QED
  BY <1>2, <1>4, Zenon DEF TimeInit, TimeIInv

(* Recalculate() leaves the estimates as the latest reports make them.      *)
LEMMA RecalculateKeeps ==
    ASSUME Recalculate, Synchronized => GotPeerUpdate'
    PROVE  /\ Synchronized' => GotPeerUpdate'
           /\ Synchronized' /\ IsValid(Samples)' => Computed'
<1>0. IsValid(Samples)' <=> IsValid(Samples')
  BY DEF IsValid
<1>1. CASE IsValid(Samples') /\ GotPeerUpdate'
  BY <1>1, Zenon DEF Recalculate, Computed, MinOWD, ClockDelta
<1>2. CASE ~(IsValid(Samples') /\ GotPeerUpdate')
  BY <1>0, <1>2, Zenon DEF Recalculate
<1> QED
  BY <1>1, <1>2, Zenon

(* Both reports keep the books. *)
LEMMA TimeNextKeeps == TimeIInv /\ [TimeNext]_timeVars => TimeIInv'
<1> SUFFICES ASSUME TimeIInv, [TimeNext]_timeVars PROVE TimeIInv'
  OBVIOUS
<1>0. /\ offset \in Offsets
      /\ clock \in Int /\ Start <= clock /\ clock <= MaxTime
      /\ Samples = [i \in 0 .. 2 |-> Samples[i]]
      /\ IsValid(Samples) => \A i \in 0 .. 2 : Real(Samples[i])
      /\ GotPeerUpdate => /\ peerTrip \in Delays
                          /\ LastFC_MinDeltaTS24 = (peerTrip + offset) % TSRange
      /\ Synchronized => GotPeerUpdate
      /\ Synchronized /\ IsValid(Samples) => Computed
  BY Zenon DEF TimeIInv
<1>1. ASSUME NEW gap \in Gaps, NEW delay \in Delays,
             OnAuthenticatedDatagramTimestamp(gap, delay)
      PROVE  TimeIInv'
  <2> DEFINE now == clock + gap
  <2> DEFINE sample == [Value |-> (now - ((now + offset - delay) % TSRange)) % TSRange,
                        Timestamp |-> now]
  <2>1. /\ now <= MaxTime /\ clock' = now
        /\ Samples' = Update(Samples, sample)
        /\ GotPeerUpdate' = GotPeerUpdate /\ LastFC_MinDeltaTS24' = LastFC_MinDeltaTS24
        /\ Recalculate
        /\ offset' = offset /\ peerTrip' = peerTrip
    BY <1>1, Zenon DEF OnAuthenticatedDatagramTimestamp
  <2>2. now \in Int /\ Start <= now /\ offset \in Int /\ delay \in Int
    BY <1>0, TimeAssumption DEF TimeAssumption
  <2>3. Real(sample)
    <3>1. sample.Value = (now - ((now + offset - delay) % TSRange)) % TSRange
      BY Zenon
    <3> HIDE DEF now, sample
    <3>2. sample.Value = (delay - offset) % TSRange
      BY <2>2, <3>1, DeltaIs, Zenon
    <3> QED
      BY <3>2, Zenon DEF Real
  <2> HIDE DEF now, sample
  <2>4. /\ Samples' = [i \in 0 .. 2 |-> Samples'[i]]
        /\ \A i \in 0 .. 2 : Real(Samples'[i])
    BY <1>0, <2>1, <2>3, UpdateKeepsReal, Zenon
  <2>5. \A i \in 0 .. 2 : Real(Samples[i])'
    BY <2>1, <2>4, Zenon DEF Real
  <2>7. /\ Synchronized' => GotPeerUpdate'
        /\ Synchronized' /\ IsValid(Samples)' => Computed'
    BY <1>0, <2>1, RecalculateKeeps, Zenon
  <2> QED
    BY <1>0, <2>1, <2>2, <2>4, <2>5, <2>7, Zenon DEF TimeIInv
<1>2. ASSUME NEW delay \in Delays, OnPeerMinDeltaTS24(delay)
      PROVE  TimeIInv'
  <2>1. /\ LastFC_MinDeltaTS24' = (delay + offset) % TSRange
        /\ GotPeerUpdate' = TRUE /\ Samples' = Samples /\ Recalculate
        /\ peerTrip' = delay /\ clock' = clock /\ offset' = offset
    BY <1>2, Zenon DEF OnPeerMinDeltaTS24
  <2>2. /\ Synchronized' => GotPeerUpdate'
        /\ Synchronized' /\ IsValid(Samples)' => Computed'
    BY <1>0, <2>1, RecalculateKeeps, Zenon
  <2>3. IsValid(Samples)' => \A i \in 0 .. 2 : Real(Samples[i])'
    BY <1>0, <2>1, Zenon DEF IsValid, Real
  <2> QED
    BY <1>0, <2>1, <2>2, <2>3, Zenon DEF TimeIInv
<1>3. CASE UNCHANGED timeVars
  BY <1>0, <1>3, Zenon DEF timeVars, TimeIInv, Computed, Real, IsValid
<1> QED
  BY <1>1, <1>2, <1>3, Zenon DEF TimeNext

(* The estimates of TimeSynchronizer::Recalculate() and the times that are  *)
(* converted with them are exact for every range of timestamps, every clock *)
(* difference and all delays below a quarter of the range.                  *)
THEOREM TimeStaysExact == TimeSpec => []TimeExact
<1>1. TimeIInv => TimeExact
  <2> SUFFICES ASSUME TimeIInv, Synchronized, IsValid(Samples)
               PROVE  /\ MinimumOneWayDelay = (TripOf(0) + peerTrip) \div 2
                      /\ \A delay \in Delays :
                           FromLocalTime23(clock + offset + delay, ToRemoteTime23(clock))
                             = clock + offset + (peerTrip - TripOf(0)) \div 2
    BY Zenon DEF TimeExact
  <2>1. /\ offset \in Offsets /\ clock \in Int /\ Start <= clock /\ clock <= MaxTime
        /\ Real(Samples[0]) /\ peerTrip \in Delays
        /\ LastFC_MinDeltaTS24 = (peerTrip + offset) % TSRange
        /\ Computed
    BY DEF TimeIInv
  <2>2. offset \in Int
    BY <2>1, TimeAssumption, Zenon DEF TimeAssumption
  <2>3. PICK d \in Delays : Samples[0].Value = (d - offset) % TSRange
    BY <2>1, Zenon DEF Real
  <2>4. TripOf(0) = d
    BY <2>2, <2>3, TripIs, Zenon DEF TripOf
  <2>5. /\ MinOWD(LastFC_MinDeltaTS24, Samples[0].Value) = (d + peerTrip) \div 2
        /\ (d + peerTrip) \div 2 < TSRange \div 4
    BY <2>1, <2>2, <2>3, MeanDelay, Zenon
  <2>6. MinimumOneWayDelay = (d + peerTrip) \div 2
    <3>1. (d + peerTrip) \div 2 \in Int /\ TSRange \div 4 \in Int
      BY <2>1, Ranges, TimeAssumption DEF TimeAssumption
    <3>2. ~((d + peerTrip) \div 2 >= TSRange \div 4)
      BY <2>5, <3>1
    <3> QED
      BY <2>1, <2>5, <3>2, Zenon DEF Computed
  <2>7. RemoteTimeDelta = (offset + ((peerTrip - d) \div 2)) % (TSRange \div 2)
    BY <2>1, <2>2, <2>3, ClockDeltaIs, Zenon DEF Computed
  <2>8. ASSUME NEW delay \in Delays
        PROVE  FromLocalTime23(clock + offset + delay, ToRemoteTime23(clock))
                 = clock + offset + ((peerTrip - d) \div 2)
    <3>1. FromLocalTime23(clock + offset + delay,
                          (clock + ((offset + ((peerTrip - d) \div 2)) % (TSRange \div 2)))
                            % (TSRange \div 2))
            = clock + offset + ((peerTrip - d) \div 2)
      BY <2>1, TimeArrives, SMT
    <3>2. ToRemoteTime23(clock)
            = (clock + ((offset + ((peerTrip - d) \div 2)) % (TSRange \div 2)))
                % (TSRange \div 2)
      BY <2>7, Zenon DEF ToRemoteTime23
    <3> QED
      BY <3>1, <3>2, Zenon
  <2> QED
    BY <2>4, <2>6, <2>8, Zenon
<1> QED
  BY TimeInitially, TimeNextKeeps, <1>1, PTL DEF TimeSpec

=============================================================================
