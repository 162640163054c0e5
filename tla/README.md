# Tonk in TLA+

Tonk is a library for reliable UDP: multiplexed reliable and unreliable channels
between two peers, forward error correction (Siamese), message compression, time
synchronisation, connection migration, NAT hole punching and protection against
connection floods. This directory models its protocol and its concurrency in TLA+,
checks the models with TLC on small instances and proves most of the safety
properties with TLAPS for every value of the constants.

`PROJECT.json` has the details: every component with its state of modelling, every
run, which lines of the source each definition stands for, a plausible bug for each
property that makes it fail, the hazards of the code, and the findings.

Contents

1. The system
2. What is hard about it
3. The modules
4. Runs, bounds and fairness
5. Findings
6. Proofs
7. Not modelled

## 1. The system

### Threads

A *session* (`ApplicationSession`, `TonkSocket` in the API) owns an Asio context
with at least two worker threads, the main UDP socket and a pool of sockets for NAT
probing. Everything below runs on these workers:

| Runs | What |
|---|---|
| concurrently, one at a time per socket | the completion of a UDP read: look the source up, post a task |
| concurrently | the completion of a UDP send, which releases a reference |
| concurrently | the completion of a name lookup and of a NAT probe timer (not on a strand) |
| one at a time per session (`AsioConnectStrand`) | connection requests, the start of P2P connections, closing sockets |
| one at a time per connection (`AsioEventStrand`) | datagrams, flushes, ICMP errors and the 5 ms tick of that connection |

The application calls the API from its own threads and from inside callbacks.

### Parts, state and operations

| Part | Source | State | Operations that change it |
|---|---|---|---|
| Anti-replay window | `StrikeRegister` | ring of bits, base, rotation, largest nonce | Accept, Reset |
| Counters | `Counter.h` | none | compare, truncate, expand |
| Outgoing session | `TonkineseOutgoing` | queues, nonce, packet number, last acknowledgement | queue, flush, retransmit, send recovery, take an acknowledgement |
| Incoming session | `TonkineseIncoming` | next expected packet, partial messages, last AckAck | process a datagram, decode, deliver, acknowledge |
| Siamese | `SiameseEncoder`, `SiameseDecoder` | windows of packets, recovery rows, loss lists | add, acknowledge, encode, decode, remove |
| Compression | `PacketCompression` | two rings, one at each end | compress, insert uncompressed, decompress |
| Connection | `TonkineseConnection` | references, shutdown, timers, id, peer address, P2P state | initialise, resolve, accept, deny, tick, close, free, migrate, punch |
| Session | `TonkineseSession`, `tonk.cpp` | sockets, workers, session count | create, connect, start P2P, shut down |
| UDP socket | `TonkineseUDP` | pending read, address map | route a datagram, admit a request, send, close |
| Hole punching | `TonkineseConnection`, `TonkineseProtocol` | round, port, probe seen, peer address and socket | probe round, probe, P2P request, handshake |
| Maps | `TonkineseMaps` | hash tables, free ids, cached lookup | insert, move, remove, find |
| Flood control | `TonkineseFlood` | counts per address, rate bins, cookie keys | request, disconnect, rotate keys |
| Wire protocol | `TonkineseProtocol` | none | read and write fields, choose ports |
| Bandwidth | `TonkineseBandwidth` | tokens, shape, estimators | spend, refill, feedback, probe |
| Time sync | `TimeSync` | windowed minimum, peer's minimum | take a timestamp, take the peer's minimum |
| NAT mapping | `TonkineseNAT` | requests, gateways, HTTP requests | request, tick, responses, LAN change |
| File transfer | `tonk_file_transfer` | progress, view, state | send, receive, free |
| Allocator | `PacketAllocator` | windows of units, preferred and full lists | allocate, reallocate, shrink, free |
| Cipher, random numbers, logging, firewall and WLAN glue, SDKs | various | | |

### How they interact

Downwards: `tonk_send()` appends to a queue of the outgoing session under a lock. A
tick or a flush compresses the queued buffers, combines them into datagrams, gives
each reliable datagram a packet number and a place in the encoder window, truncates
the numbers, encrypts, and sends.

Upwards: the reader of a socket finds the connection by source address, by an id in
the footer, or by a P2P key, and posts a task to the strand of the connection. The
task expands the nonce, rejects duplicates and bad tags, expands the packet number,
and delivers what is in sequence; the rest waits in the decoder until a gap is
filled by an original, a retransmission or a recovery packet.

Backwards: every tick may acknowledge. An acknowledgement moves the encoder window,
decides the truncation of later numbers, and is itself answered with an AckAck that
silences the receiver.

Around: connection requests pass the flood detector, become a connection, receive an
id in the first task on their strand and are in the maps until the tick that closes
them. A connection is deleted by the tick that finds no reference left.

## 2. What is hard about it

`PROJECT.json` lists the hazards at their lines. They fall in these groups:

* **Two copies of one fact.** The next expected packet in session and decoder; the
  compression history at both ends; the id and address in a connection and in the
  maps; the cached lookup next to the map; the reference count and the operations
  that hold references.
* **Numbers relative to what the other side knew.** Nonces and packet numbers are
  truncated by stale knowledge and expanded by newer knowledge, after loss, reordering
  and retransmission, across a wrap.
* **A tie.** Two peers punch holes at once and must end up on one pair of sockets.
* **Copies of requests.** The port mapper's thread works on copies while the
  application destroys and repeats the originals.
* **Windows.** The anti-replay ring, encoder and decoder windows slide and shrink by
  whole words or subwindows; something removed too early is lost or taken for new.
* **Code off the strand.** The resolver, the connect strand, UDP readers, completed
  sends and the app race with the tick that closes and deletes.
* **Failure half way.** Denied connections, taken addresses, failed allocation,
  buffers that do not compress.
* **Progress.** Retransmission after the last packet, silence of acknowledgements, the
  full encoder window, a flush that is always cut short, `OnClose()`, deletion.

## 3. The modules

| Module | Part | Extends / instantiates |
|---|---|---|
| `StrikeRegister` | the anti-replay window | |
| `Counter` | truncation, expansion and comparison of wrapping counters (operators) | |
| `DatagramNumbers` | how many bytes numbers take and how they are read | `Counter` |
| `TimeSync` | the windowed minimum, the estimates of delay and clock difference | `Counter` |
| `ReliableStream` | abstract: what a reliable channel promises | |
| `ReliableDelivery` | one direction of a connection: encoder window, network, decoder window, acknowledgements | refines `ReliableStream` |
| `SiameseCodec` | encoder and decoder with their sums, rows, regions and removal | |
| `MessagePath` | queues, splitting, combining, compression, reassembly | |
| `FileTransfer` | files over a reliable channel, at both ends | |
| `ConnectionLifecycle` | one connection object from creation to deletion | |
| `ConnectionMap` | abstract: a partial function | |
| `LightHashMap` | the open-addressing hash table | refines `ConnectionMap` |
| `ConnectionMaps` | ids, addresses and P2P keys, and who uses them | |
| `Session` | a session's sockets, references and shutdown | |
| `HolePunch` | two peers, their sockets and the NATs between them | |
| `PortMapper` | gateway port mapping: application, thread, gateway | |
| `FloodDetector` | limits per address, request rate, cookies | |
| `PacketHeap` | abstract: disjoint blocks of memory | |
| `PacketAllocator` | windows of units, preferred and full lists | refines `PacketHeap` |

`MC*` modules hold values of constants and symmetry sets. `MCStructures` runs the
structures that share no state (anti-replay window, allocator, time, flood detector, file
transfer, hash table) side by side: a behaviour picks one of them and leaves the others
alone. `*Proofs` modules hold theorems (section 6).

**StrikeRegister.** `SlidingWindow`, `WindowBase`, `WindowBitRotation` and `LargestSequence`
are the members of the class. `Accept` is split by its three outcomes: the nonce is in
the window, the window slides by words and clears them, or it starts again
(`StrikeInWindow`, `SlideAndStrike`, `ResetAndStrike`). `struck` is a history variable:
the nonces accepted so far.

**ReliableDelivery.** The sender has `NextSequenceNumber`, the first element of the
encoder window and what the peer acknowledged; the receiver has the decoder window
(`held`, `ColumnStart`, `NextExpected`), the stored recovery rows, the session's copy of
the next expected number and `LastAckAckSeq`. Originals, recovery packets,
acknowledgements and AckAcks are under way, and may be lost and overtaken. One action
per handler: `SendReliable`, `PostRetransmit`, `PostRecovery`, `OnAcknowledgements`,
`ReceiveOriginal`, `ReceiveRecovery` (with the decoder's outcomes: unneeded, single,
stored, solved), `PostAcknowledgements`, `ReceiveAckAck`. Delivery of everything that is
now in sequence and the removal from the window belong to the action that caused them,
as in the code. Rows are abstract: a set of rows solves as many losses as it has rows,
if the window still holds the other packets. Packet numbers do not wrap here;
`DatagramNumbers` shows when a number on the wire means the number that was sent.

**DatagramNumbers.** The sender picks one, two or three bytes for the nonce and for
the packet number from the distance to what the peer last reported (`WriteNonceBytes`,
`GetPacketNumBytes`); the receiver expands them around what it has (`ReadNonce`,
`ReadSeq`). The tag of a datagram is right exactly when the nonce was read right
(`Authentic`). Acknowledgements and time syncs return the receiver's numbers and can
overtake each other.

**MessagePath.** The queues with their buffers, the flush as a walk over the queues
with every way out (`StartFlush`, `Take...`, `NextQueue`, `StopFlush`), datagrams as
sequences of frames with sizes, the rings at both ends. Compression is a choice: a
buffer shrinks or not. What was compressed opens only if the receiver's history equals
the sender's at that time. `apart` is a history variable: two blocks that are not next to
each other in the sender's ring went out as one run. The receiver takes datagrams in order, which is what
`ReliableDelivery` establishes; unreliable frames may be lost. Compression is enabled.

**ConnectionLifecycle.** One connection, incoming or outgoing. Its reference count
and app reference, the tasks on its strand, the phase of the tick, a lookup in the
UDP reader, sends in flight, the resolver and the app's calls. Handlers that can be
interrupted at a point that matters are split there: the resolver between its checks
and the insertion of the address, the connect strand between posting the first task
and inserting the address, the tick between reporting, removing, releasing and deleting.
A lookup may return a connection whose strand `Shutdown()` has destroyed (`PostToNoStrand`);
what the worker does then is undefined, and the model leaves it there (`strandless`).

**LightHashMap.** Slots, probing, growth at the load limit and the removal that moves
later entries into the gap. Hashes are chosen in the initial state.

**ConnectionMaps.** Several connections. `RouteDatagram` is the reader: by address
with the cached lookup, then by id, then by P2P key. `RunDatagram` and `OnNATProbe` run
the posted tasks with the address change, `OnConnectRequest`, `InsertConnecting` and
`AcceptConnection` admit, `RemoveFromMaps` and `Delete` retire. The connect strand inserts
the address of a connection whose first task may have run before, so that it has moved, was
denied or is gone. Two fields of a connection are history: `stray`, such an entry was
inserted for it late; `lost`, another connection had the address it came to. Memory is used
again only when no map holds the old pointer.
Outgoing connections are left to `ConnectionLifecycle`.

**FloodDetector.** Requests run one after the other; with `Overlap` a disconnect can
take place between the reading and the writing of a count, because it runs on another
strand and there is no lock. Time is a clock in ticks that resets with the bins.

**TimeSync.** One of the two peers. The clocks differ by `offset`, which nobody knows, and
a datagram takes one of `Delays`; its timestamp wraps at `TSRange`. The receiver keeps the
wrapped differences in the three samples of the windowed minimum (`Update`), the peer
reports its own (`OnPeerMinDeltaTS24`), and half of their sum and difference are the
estimates (`Recalculate`). `trips` and `peerTrip` are history variables.

**SiameseCodec.** A column is a packet; the contents of a sum are the set of columns in
it, and adding one twice removes it. Encoder: window, running sums, removal of what was
acknowledged, recovery packets by their kinds. Decoder: window, recovery packets in the
order of their regions, the checked region, the matrix that is resumed, and its own sums,
which must hold what the encoder's held. Elimination may fail whatever the rows are. Columns
do not wrap. `ReliableDelivery` abstracts all of this to rows that cover a region.

**FileTransfer.** A byte is a unit that knows its file and place. The sender maps views or
has a buffer and sends chunks when the channel has room; the receiver rebuilds the file in
memory or in a temporary file. Mapping can fail, and the connection can close. File bytes
never look like a header or a cancel message.

**Session.** `tonk_socket_create()` to the end of `tonk_socket_destroy()`: posted reads,
tasks of the connect strand, sends, the firewall task and connections hold references;
`Shutdown()` is split where it waits. Connections are abstracted to whether they hold the
session, are in the map, or still wait for their first task. `rejected` is a history
variable: an incoming connection was denied.

**HolePunch.** The P2P connections of two peers. Three threads of a peer take steps: the
timer of the rounds (`BeginRound`, `SendProbe`), the reader of a socket (`Receive`), and the
strand (`RunTask`, `Flush`). A socket stands for its public address; the NATs pass any
address or only the twin of a socket. Datagrams may be lost and overtaken.
`TONK_DISABLE_RANDOM_ROUND` is defined (`TonkineseProtocol.h:618`).

**PortMapper.** The application's `MappedPortLifetime` objects, the thread that works on
copies of the requests, and one gateway. SSDP, HTTP and SOAP requests can fail, be lost or
be answered late, and the network can go down. `GetLANInfo()` is a stub on Linux; the model
has the outcome of the Windows code. An outage is longer than the 5 s between two looks at
the LAN. The gateway ends a lease that the mapper does not keep renewing (`LeaseEnds`);
`lapsed` is a history variable with the mappings that ended this way.

**PacketAllocator.** Windows with the set of units in use, the two lists of windows, the
search from where the last one ended, `calloc()` for large requests, reallocation, shrinking
of a block. `PKTALLOC_SHRINK` is not defined, so empty windows stay.

## 4. Runs, bounds and fairness

Runs that pass:

| Run | Checks | Instance, and why it is enough |
|---|---|---|
| `structures` | a nonce is accepted at most once, and a new one in or ahead of the window is; the allocator's books agree and it implements a heap of disjoint blocks; the time estimates are exact; a cookie outlives one interval; a file arrives as it was sent; the hash table implements a partial function | the header of `MCStructures` lists the instance of each: slides around the ring and resets; two windows that fill and empty; timestamps that wrap, and a clock difference that equals a delay; keys replaced while cookies are out; views that end inside and between chunks; collisions, wrap and growth |
| `reliable_safety` | both next-expected numbers agree; what the receiver lacks can be retransmitted; silence only when the sender knows; Unordered once while in the window; refines the stream | 3 packets, 1 copy each, 1 acknowledgement under way, 2 recovery packets, window 3, subwindows of 1: loss at each end and in the middle, recovery with a removed start, removal at both ends |
| `reliable_liveness` | all is delivered; the encoder drains; acknowledgements cease | 3 packets through a window of 2, so it fills up; without recovery packets, so that retransmission alone has to do it |
| `siamese_codec` | a decoder fed in order is never disabled; what it recovers is what was sent; the checked region is current | 5 columns, 3 rows, thresholds of 2: sums used and reset, rows stored before and after the window moves, a matrix resumed. 6 columns and two lanes pass as well |
| `datagram_numbers` | the newest datagram's numbers read right; a first transmission, however late, reads right or is refused | fields of 4, 8 and 32; packet numbers start at 14 and wrap at 16; 6 datagrams, of which up to 2 are feedback: fewer than 6 never bring a datagram half a range late |
| `message_path` | histories equal; messages whole and in order; every accepted reliable message arrives | sections of 8, 2 messages of 2 and 9 on 2 channels, 1 short one, a ring of 10: a message that is split, buffers that are combined with short frames, a wrap of the ring, any run of failures to compress. The case that `apart` excepts does arise |
| `connection_lifecycle` | exact reference count, unless denied; deletion only when unused; `OnClose()` once and last; shutdown leads to `OnClose()`; a freed connection is deleted | incoming and outgoing, accepted and denied; 2 lookups, 2 flushes, 3 sends: each kind of holder can outlive each other kind |
| `connection_maps` | ids unique and returned; the cached lookup equals the map; the ordinary connection has an entry at its current address and no other, but for a late insertion and an address another connection held | an ordinary and a P2P connection, 2 addresses they contend for, 3 ids of which 1 short, so that a long one is searched for. 2 short ids (1 240 316 states) and 2 sockets with 2 ids (17 276 635 states) pass as well |
| `session_shutdown` | when the session is deleted nothing can touch it, except the completion of a rejection; no socket is opened again; a shutdown ends | main and 1 probe socket, 2 connections, a strand of 2 tasks, 1 send: each holder can be the last |
| `hole_punch` | the address maps hold exactly the pair a connection sends with; established peers settle on one pair of sockets | 2 peers, 1 probe port each, both kinds of NAT, 1 datagram and 1 task waiting per peer, 1 loss |
| `port_mapper` | the thread uses no destroyed object; what is reported was mapped and at most its lease has ended; a port is mapped in the end | 1 port, 2 retries, 4 requests, 1 failure: a port that is released and requested again while an answer is under way. 2 ports with 3 requests pass as well (1 290 469 states) |

One run is expected to fail (`recovery_reordered`), see *Findings*.

Deadlock is checked where the system goes on for ever (`datagram_numbers`). The others come
to rest: every nonce was struck, the bounded application has sent everything, the connection
is deleted, or late entries keep every object of `connection_maps` from being used again.

Bounds. Each is a constant named `Max...`, or a set of clients, windows or connections, that
appears as a guard. They are not limits of the code, which has none there or one out of
reach. `MaximumClients`, `MaximumConnectionsPerAddress`, `MaximumLossRecoveryCount`,
`MaxReliable` and `MaxUnreliable` are no such bounds but limits of the code itself. The
theorems of section 6 hold for every value that their assumptions admit. One liveness
property depends on a bound: `Mapped` is about a single trouble, and fails with two
(section 5), because the mapper gives up after its retries.

Symmetry: connections of one kind and addresses in `connection_maps`, which has safety
properties only.

Fairness, and where it comes from:

* `ReliableDelivery`: the 5 ms timer retransmits and acknowledges (weak fairness of
  `RetransmitFirst` and `PostAcknowledgements`). The network may lose any datagram but
  not every one of those that are sent again and again (strong fairness of each packet,
  of acknowledgements and of AckAcks arriving).
* `MessagePath`: each tick flushes. Bandwidth and encoder window stop a flush again and
  again, but not at the same queue for ever: the token bucket refills with time and
  the encoder drains (`EncoderDrains`). What is on the wire is processed.
* `ConnectionLifecycle`: workers run what is posted; an API call that has begun
  returns; sends complete; the resolver answers; the timer fires. Strands are first in
  first out, so a waiting task gets its turn between ticks (strong fairness).
* `Session`: workers run the tasks and complete reads and sends; a closed socket fails its
  read; connections see the shutdown at their next tick and let go.
* `HolePunch`: the strand runs its tasks; the first datagram under way is read unless it is
  lost; the tick flushes again and again (strong fairness: a flush needs room on the
  bounded network).
* `PortMapper`: the timer ticks; the gateway answers, or the request fails or times out;
  leases come due.

## 5. Findings

Each of these checks one statement of a comment, an assertion, a document or the public
header, and TLC finds an execution of the code that contradicts it. The first is a run of
`PROJECT.json`, which has the quotation; the others say where the properties of section 4
stop, and why those are stated the way they are. They are reproduced with
`tlc -config <configuration> <module>`:

| Configuration | Module | Refuted | At | What happens |
|---|---|---|---|---|
| `CodecOrder.cfg` (`recovery_reordered`) | `MCSiameseCodec` | `OutOfOrderHandled` | `SiameseDecoder.cpp:2629` | an in-order sum packet that `AddRecovery()` refuses as clipped still counts in `LatestColumn`, so an older Cauchy packet after it is out of order: it is stored and solved, but `LastRecoveryMetadata` stays at a packet before it. `RemoveElements()` finds no stored packet, takes that metadata for the start of the next one, sees it before the window and sets `EmergencyDisabled` |
| `AckAfterTimeSync.cfg` | `DatagramNumbers` | `ReorderedAckTolerated` | `TonkineseOutgoing.cpp:1450` | an acknowledgement overtaken by a time sync closes the connection |
| `SeqMisfiled.cfg` | `DatagramNumbers` | `NeverMisfiled` | `TonkineseIncoming.cpp:216` | an overtaken retransmission is read as a later packet |
| `ResolverRace.cfg` | `ConnectionLifecycle` | `GoneFromMaps` | `TonkineseConnection.cpp:379` | the resolver inserts an address after the connection left the maps |
| `DeniedInUse.cfg` | `ConnectionLifecycle` | `ShutdownUnused` | `TonkineseConnection.cpp:194` | a denied connection is shut down in use and its references stay |
| `DeniedSend.cfg` | `Session` | `NoSendOutstanding` | `TonkineseUDP.cpp:894` | a rejection is still being sent when the socket is destroyed |
| `UnorderedDuplicate.cfg` | `ReliableDelivery` | `UnorderedNeverTwice` | `TonkineseIncoming.cpp:315` | "not in the window" is taken for "new": an Unordered message is delivered again after its packet was removed |
| `SyncFrame.cfg` | `MCMessagePath` | `AlwaysSynchronised` | `TonkineseOutgoing.cpp:976` | two incompressible buffers share a datagram without a sync frame |
| `LateProbe.cfg` | `MCConnectionMaps` | `PeersGoneFromMaps` | `TonkineseConnection.cpp:818` | a waiting NAT probe puts a closed connection back into the map |
| `StalePermission.cfg` | `MCConnectionMaps` | `MovesOnHandshake` | `TonkineseConnection.cpp:1358` | a late datagram uses the permission of another handshake |
| `TooManyClients.cfg` | `MCConnectionMaps` | `ClientsBounded` | `TonkineseUDP.cpp:770` | requests pass the client limit before the ids are taken |
| `PeersMeet.cfg` | `HolePunch` | `Meet` | `TonkineseConnection.cpp:1368` | `StopHandshake()` runs before the tie-breaker is decided, so a request that is lost is not sent again; `docs/HolePunch.README.txt` says "it will be retransmitted so no worries" |
| `SilentGateway.cfg` | `PortMapper` | `Mapped` | `TonkineseNAT.cpp:1755` | a time-out closes a socket that was never opened, so the request never ends |
| `BigBuffer.cfg` | `FileTransfer` | `ProgressExact` | `tonk_file_transfer.cpp:746` | the progress of a buffer is not the total the assertion expects |
| `FloodRace.cfg` | `FloodDetector` | `PerAddressLimit` | `TonkineseFlood.cpp:252` | an overlapping disconnect loses a count |

Other statements that the models refute, by a change of one of the configurations:

| Refuted | Configuration and change | At | What happens |
|---|---|---|---|
| `ReorderLimitHonoured` | `Structures.cfg` | `StrikeRegister.cpp:107` | the window is 4096 nonces, the documented limit of reordering 8192, and a jump starts it empty |
| `EnoughIsTried` | `SiameseCodec.cfg` | `SiameseDecoder.cpp:694` | `Decode()` does not extend the checked region after a failed elimination, although more rows are there |
| `GoneFromMaps` | `DeniedInUse.cfg` | `TonkineseUDP.cpp:868` | the address of a denied connection is inserted after its removal |
| `CloseOfFilledConfig` | `DeniedInUse.cfg` | `TonkineseConnection.cpp:1752` | a denial calls `OnClose` of a configuration that was not filled in |
| `NothingLeaked` | `DeniedInUse.cfg` | `TonkineseConnection.cpp:194` | the first task of a denied connection never releases its reference, so nothing deletes the object |
| `StrandAlive` | `ResolverRace.cfg` | `TonkineseConnection.cpp:772` | a lookup through the late entry returns a connection whose strand is destroyed |
| `ClientsGoneFromMaps` | `ConnectionMaps.cfg` | `TonkineseUDP.cpp:868` | the connect strand inserts the address of a connection that is gone |
| `Reachable` | `ConnectionMaps.cfg` | `TonkineseConnection.cpp:1401` | a connection moves to an address that another one holds and is then in no address map; `TonkineseUDP.cpp:862` says that a connection without an entry "would eventually get resolved" by the id flag or a data time-out, but a datagram from the address the connection believes it has moves nothing |
| `RemovalComplete` | `ConnectionMaps.cfg` | `TonkineseConnection.cpp:1431` | a failed insertion leaves the old entry behind |
| `MessagesInOrder` | `MessagePath.cfg`: `Alloc = 9`, `Ring = 20`, `Sizes = {0, 2}`, `MaxShorts = 0`, `Spec` | `TonkineseOutgoing.cpp:1712` | a reliable message of no bytes is accepted and not sent |
| `LegalSizesAccepted` | `MessagePath.cfg`: `Alloc = 9`, `Ring = 20`, `Sizes = {2}`, `Shorts <- MCFullShorts`, `MaxSent = 1`, `Spec` | `TonkineseOutgoing.cpp:1592` | an unreliable message of exactly the documented maximum is refused |
| `AllowedIsUncounted` | `FloodRace.cfg`: `Overlap = FALSE` | `TonkineseUDP.cpp:816` | a failed allocation stays counted |
| `CookieLastsHandshake` | `FloodRace.cfg`: `Overlap = FALSE` | `TonkineseFlood.cpp:164` | a cookie lapses after little more than 5 s of the 10 s assumed |
| `FloodIsRecent` | `FloodRace.cfg`: `Overlap = FALSE` | `TonkineseFlood.cpp:112` | requests of long ago count as the minute before |
| `DoneMeansSent` | `Structures.cfg` | `tonk_file_transfer.h:175` | a sender that failed reports its file as done, without the flag for failure |
| `Delivered` | `FileTransfer` with the values of `Structures.cfg`: `NameLengths = {2}`, `MaxFaults = 0` | `tonk_file_transfer.cpp:338` | a name of 256 characters or more is cut: its length is given one byte up to 65535 |
| `ReportedWorks` | `PortMapper.cfg` | `TonkineseNAT.h:88` | a port stays reported after its lease has run out |
| `MappedWhateverFails` | `PortMapper.cfg` | `TonkineseNAT.cpp:1082` | after a description of no use the gateway is not asked again, although "Requests are retried several times if needed" |
| `Mapped` | `PortMapper.cfg`: `kPortMappingRetries = 3`, `MaxTroubles = 2` | `TonkineseNAT.cpp:678` | the late answer to a request from before an outage leaves the search no attempts, and the one SSDP response after it is lost |
| `MappedWhileHeld` | `PortMapper.cfg` | `TonkineseNAT.cpp:122` | of two objects for one port, the end of the newer one replaces the request by a removal while the older one lives |
| `NoWindowLost` | `PacketAllocator`: `WindowMaxUnits = 36`, `Windows = {1}`, `Large = {}`, `Requests = {2, 3, 16}`, `MaxBlocks = 2` | `PacketAllocator.h:764` | a search that resumes near the end of an empty window fails, and nothing ever takes the window from the full list |
| `PreferredHasRoom` | `PacketAllocator`: `Windows = {1}`, `Large = {}`, `Requests = {2, 3}`, `MaxBlocks = 6` | `PacketAllocator.cpp:184` | a full window stays preferred |

`OutOfOrderHandled` holds when `CauchyThreshold` exceeds the columns of the instance, so that
no recovery packet uses the sums. `ReliableDelivery` leaves the sums out, and `NeverDisabled`,
proved there, says just that: without sums nothing disables the decoder.

## 6. Proofs

TLC covers the instances of section 4. The theorems below hold for every value of the
constants that satisfies the assumptions named next to them (`ASSUME`). TLC evaluates the
assumptions in every run, so the instances are among the cases proved.

| Module | Theorems | State |
|---|---|---|
| `ReliableDeliveryProofs` | `TypeCorrect`, `OrderedDelivery`, `CopiesAlwaysAgree`, `NothingStranded`, `SilenceJustified`, `DecoderStaysEnabled`, `UnorderedDelivery`, `StreamRefinement` | every safety property of `reliable_safety`, and that `ReliableDelivery` implements `ReliableStream` |
| `DatagramNumbersProofs` | `NewestAlwaysDecodes`, `FirstTransmissionAlwaysDecodes`, `PeerIsNeverAhead` | both properties of `datagram_numbers`; the sender never thinks the receiver further than it is |
| | `ComparesAsUnbounded`, `ExpandRoundTrip` | what `Counter.h` promises, for every even range and every multiple of it |
| `ConnectionProofs` | `TypeCorrect`, `ReferencesCounted`, `DeletedSafely`, `ClosedOnceAndLast` | every safety property of `connection_lifecycle` |
| | `TimeStaysExact`, `BiasMovesRange` | `TimeExact` of the time synchronisation (`structures`), and the expansion with a bias that it uses |
| `ConnectionMapsProofs` | `MapsTypeCorrect`, `IdsStayExact`, `CacheStaysCoherent`, `EntriesStayCurrent` | every property of `connection_maps` |
| `EndpointProofs` | `SessionCounted`, `SessionEndsQuiet`, `SessionNeverReopened` | every safety property of `session_shutdown` |
| | `TypeCorrect`, `NeverAcceptedTwice`, `FreshAccepted`, `SlideIsMinimal` | `StruckIsDuplicate`, `FreshIsNotDuplicate`, `SlidesNoFurtherThanNeeded` of the anti-replay window (`structures`) |
| | `CookieOutlivesInterval` | `CookieLasts` of the flood detector (`structures`) |
| `FileTransferProofs` | `FilesArriveIntact` | `Delivered` of the file transfer (`structures`) |
| `NATProofs` | `RouteStaysExact`, `MapperPointersLive`, `ReportedStaysMapped` | every safety property of `hole_punch` and `port_mapper` |
| `PacketAllocatorProofs` | `AllocatorIntegrity`, `AllocatorImplementsHeap` | `IntegrityCheck`, and that `PacketAllocator` implements `PacketHeap` (`structures`) |

**Assumptions.** Most say that bounds are natural numbers, that sizes are not zero, that
sets of sockets, ports and connections are finite where they are counted, and that a value
which stands for "none" is none of the others. Those that say more repeat a constant of the
code: `FieldAssumption` and `BoundAssumption` (the ranges of one, two and three bytes divide
the ranges of the full numbers; a connection does not use up its 2^64 nonces;
`MaxDatagrams` is less than half of the range of three bytes, so a datagram more than 2^23
others late is outside the theorem), `WindowAssumption` (lanes and subwindows),
`PeersAssumption` (two peers), `TimeAssumption` (the bias is an eighth of the range of a
timestamp, one way takes less than a quarter of it, and the clocks stay an eighth of that
range above zero and below the end of theirs). `FilesArriveIntact` has a
hypothesis of its own, `WithinLimits`: buffers of at most one view and names whose length
fits its byte. The code does not see to either, and section 5 has what happens then.

**The anti-replay window.** `StruckIsDuplicate` is not inductive: a window whose bits
were wrong would satisfy it until it slides. `WindowExact` says that the bit of each
nonce the rotated ring covers is set exactly when the nonce was accepted, and that no
accepted nonce lies ahead of the window. Sliding keeps it because the words that are
cleared are those whose nonces fall out of the window, which needs the arithmetic of
the rotation modulo the ring (the lemmas on `BitOf`).

**Cookies.** `CookieLasts` says what a check answers now; the inductive `CookieIInv` says
which key made a cookie: the key of one younger than an interval has not been replaced, and
if it is the older of the two, the newer one is no older than the cookie.

**Time.** What the peers keep are differences of wrapped timestamps. `TimeIInv` says that
each sample of the windowed minimum that counts is the wrapped clock difference plus a delay
that a datagram really had, and that the estimates were computed from such values. That half of the sum and half of the difference
come out exactly is arithmetic modulo the range, with `BiasMovesRange` for the timestamps.

**File transfer.** `Delivered` looks at a finished file only. `FileIInv` describes the stream
between the two views: every message continues the one before it or starts a file whose
predecessor was closed (`StreamOK`), the first one continues what the receiver holds, and the
sender continues the last one (`TipOK`). Both sides have views that end at multiples of
`kMaxViewBytes`, or with the file (`Spans`, `Takes`), though each moves its view at times of
its own; so a message never goes beyond the view of the receiver, which would drop the rest.

**Packet allocator.** `IntegrityCheck` is not inductive: two blocks that overlap share bits,
and the bits still agree with the blocks; freeing one of them then breaks the agreement.
`Exact` adds that no two live blocks overlap, that a block ends inside its window and that
the window of a live block is on a list. It is stated of the allocator as one value, since
`Reallocate()` frees in the state that `Allocate()` leaves. Each helper of the code keeps it
(`CarveExact`, `GiveBackExact`, `MoveExact`, `PromoteExact`), and `AllocatedKeeps` says that
the block handed out is apart from all live ones, because a hole is free of bits and the bits
are those of the blocks (`HoleApart`). `AllocatorStep` puts the four calls together; from it
follow the invariant and, step by step, the refinement of `PacketHeap`. `AllocatorAssumption`
asks that units and windows have a size, that the preallocated windows are windows, and that
fallback memory is none of them.

**Reliable delivery.** The inductive invariant has five parts besides `TypeOK`.
`EncoderExact` ties the first element of the encoder window to the last acknowledgement.
`InFlight` says that whatever is on the network is true of its sender: no
acknowledgement is ahead of the receiver, no AckAck ahead of the sender's knowledge.
`WindowExact` says that the decoder has everything from the start of its window up to
the packet it expects. `HistoryExact` ties the window to what was delivered.
`RowsExact` is the least obvious: it is needed for `NeverDisabled`. The decoder may drop
the start of its window only below the region of the last recovery packet received in
order; so that no stored or later packet needs what was dropped, regions must move
forward with their ends, and the region in question must still be in the window as long
as a stored row might use it. The refinement maps `sent` and `delivered` of the stream to
the packet counter and the ordered history; each step of the detailed specification is a
send, a delivery of a run of packets, or a stutter.

**Datagram numbers.** The properties speak of a datagram when it is read, long after
the sender chose its bytes. `Close` keeps for every datagram under way how far the largest
accepted nonce can have moved away from it; `Numbers` does the same for packet numbers, as
long as none was misfiled. Its core (`Repeated`) counts: each datagram adds at most one
packet, so between the first transmission of a packet and its arrival the receiver's
expectation moves no further than the nonces do. A datagram whose packet number takes fewer
bytes than its nonce is refused when it is late, and this is exactly the case the count
leaves open. `Answers` says that acknowledgements under way report numbers the receiver has
passed, whichever overtakes which.

**Connection lifecycle.** `RefCountExact` is nearly inductive: it needs `Stages`,
which orders the phases of a connection (the close was reported once exactly when the
flag says so; the flag is set only after shutdown). Denied connections are counted too, with
the one reference that is never released (`CountExact`). `DeletedUnused` is the separate
invariant `Gone`: a count of zero that is exact leaves no holder when the object is deleted,
and afterwards a lookup gets it only from an entry of the address map that came back.

**Connection maps.** The three invariants support each other, so `IInv` has all of them,
sharpened: `FreeExact` (the stack of free one-byte ids has no id twice and exactly those
not in the map), `Coherent` for each address map, `Routed` (the entry of a connection that is
not P2P is at its current socket and address or nowhere, unless a late one was inserted),
`Found` (a live one has its entry, unless the insertion is still to come or the address was
taken), and an order of the posted tasks (`TasksInOrder`): the first task, which takes the
id, comes before every datagram. `Placed` ties the insertion under way to its connection,
which stays on that socket because only P2P connections change sockets.

**Session.** The count is a sum of cardinalities (`SessionRefsExact`); `Stages` says what
is closed, stopped or empty at each point of `Shutdown()`. `EndsQuiet` follows from a count
of zero, and for the rejections, which hold a connection and not the session, from there
being none unless a connection was denied; `NeverReopened` from the guard of the pool and the stage.

**Hole punching and port mapping.** `RouteExact` is inductive with the type: each handler
moves the entry in the map with the address or the socket. `PortIInv` ties the three copies
of a request together: what the application wants, what the thread was told (`Wishes`) and
what the gateway was asked for last (`AskedFor`, `NotRemovedByOldWish`), and when the
gateway's description is known to be complete (`Described`). TLC checks it with two
troubles, on 717 147 states.

**Counters.** The difference of two wrapped counters is the wrapped difference
(`WrappedDifference`), and a number is determined by its remainder within one range
(`ModUnique`). `ExpandRoundTrip` and `BiasMovesRange` follow by cases on which side of
the reference the counter lies.

**Only model-checked.**

* Liveness under fairness (`EverythingDelivered`, `EncoderDrains`, `AcksCease`,
  `AllDelivered`, `CloseReported`, `FreedIsDeleted`, `ShutdownEnds`, `EstablishedMeet`,
  `Mapped`) and anything with `ENABLED`: beyond the proof system.
* `MessagePath` (`HistorySynchronised`, `MessagesInOrder`): what splitting and reassembly
  compute over a whole queue is defined recursively, and what a recursive definition
  computes for every input needs an induction over data that the provers cannot do.
* `SiameseCodec` (`InOrderNeverDisables`, `RecoversExactly`, `RegionCurrent`): the sums are
  folds over columns, with the same limit.
* `LightHashMap` (`ImplementsMap`): the removal closes a gap recursively and growth inserts
  all entries again.

## 7. Not modelled

Finite field arithmetic (`gf256`; recovery is abstracted
to "as many rows as losses"), the cipher and the random numbers (a tag that fits only the
right nonce), Zstd (a tag that opens only over an equal history), logging, the
Windows firewall and WLAN glue, HTTP and SSDP text, the loss and delay estimators
(floating-point heuristics), the libraries under `thirdparty`, build glue.

What the models leave out of the parts they cover: reordering beyond the limits the
`Max...` constants set; failed allocation, except where it leaks a count; undefined
behaviour after an object was deleted in use, since the properties say that it is not;
the bandwidth limit, which is a choice to stop a flush.
