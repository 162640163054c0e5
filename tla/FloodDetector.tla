---------------------------- MODULE FloodDetector ----------------------------
(***************************************************************************)
(* Admission of connection requests (TonkineseFlood.h, .cpp): a count of    *)
(* connections for each IP address, the rate of requests in two one-minute  *)
(* bins, and cookies under two keys that are replaced in turn.              *)
(*                                                                         *)
(* OnConnectionRequest() runs on the connect strand and OnDisconnect() on   *)
(* the strand of the connection that ends, on other worker threads;         *)
(* CountMap has no lock.  Each call first finds the entry and then changes   *)
(* it.                                                                      *)
(*                                                                         *)
(* Time passes in ticks.  Ages are kept instead of times, and are not told  *)
(* apart beyond the last value the code compares them with.                 *)
(***************************************************************************)
EXTENDS Naturals, FiniteSets

CONSTANTS
    Clients,      \* connections that may be open at once
    Ips,          \* IP addresses
    MaximumConnectionsPerAddress,
    FloodConnectionsPerMinute,
    BinDuration,  \* kBinDurationUsec in ticks
    KeyInterval,  \* kKeyRotationIntervalUsec in ticks
    Overlap,      \* whether to consider calls that overlap in time
    None

ASSUME FloodAssumption ==
    /\ {MaximumConnectionsPerAddress, FloodConnectionsPerMinute, BinDuration,
        KeyInterval} \subseteq Nat \ {0}
    /\ Overlap \in BOOLEAN /\ None \notin Clients \cup Ips

VARIABLES
    CountMap,             \* connections counted for each address; 0: no entry
    request,              \* the request between finding and changing its entry
    client,               \* each connection: address, stage, count it has read
    ConnectionCountA, ConnectionCountB,
    binAge,               \* since BinStartUsec
    keyAge,               \* since LastKeyUpdateUsec
    LastUpdatedKeyIndex,
    cookie,               \* the last cookie given to each address
    idleAge,              \* history: since the last request that was counted
    leaked                \* history: requests counted that got no connection

rate == <<ConnectionCountA, ConnectionCountB, binAge, idleAge>>
keys == <<keyAge, LastUpdatedKeyIndex, cookie>>
floodVars == <<CountMap, request, client, rate, keys, leaked>>

NoCookie == [index |-> 0, current |-> FALSE, age |-> 2 * KeyInterval]
Closed == [ip |-> None, stage |-> "closed", count |-> 0]

Smaller(x, y) == IF x < y THEN x ELSE y

FloodInit ==
    /\ CountMap = [ip \in Ips |-> 0]
    /\ request = None
    /\ client = [c \in Clients |-> Closed]
    /\ ConnectionCountA = 0 /\ ConnectionCountB = 0
    /\ binAge = 2 * BinDuration /\ keyAge = KeyInterval
    /\ LastUpdatedKeyIndex = 0
    /\ cookie = [ip \in Ips |-> NoCookie]
    /\ idleAge = 2 * BinDuration
    /\ leaked = [ip \in Ips |-> 0]

Tick ==
    /\ binAge' = Smaller(binAge + 1, 2 * BinDuration)
    /\ idleAge' = Smaller(idleAge + 1, 2 * BinDuration)
    /\ keyAge' = Smaller(keyAge + 1, KeyInterval)
    /\ cookie' = [ip \in Ips |->
                    [cookie[ip] EXCEPT !.age = Smaller(@ + 1, 2 * KeyInterval)]]
    /\ UNCHANGED <<CountMap, request, client, ConnectionCountA, ConnectionCountB,
                   LastUpdatedKeyIndex, leaked>>

(* Without overlap a new call starts only when none is under way.            *)
CanStart ==
    ~Overlap => request = None /\ \A c \in Clients : client[c].stage # "closing"

-----------------------------------------------------------------------------
(* The rate: the bins move on by one, however long ago they were current.   *)
Shifts == binAge >= 2 * BinDuration
NewCountA == IF Shifts THEN ConnectionCountB ELSE ConnectionCountA
NewCountB ==    \* counts above the threshold are not told apart
    Smaller((IF Shifts THEN 0 ELSE ConnectionCountB) + 1, FloodConnectionsPerMinute + 1)

RateNotExceeded ==
    NewCountA <= FloodConnectionsPerMinute /\ NewCountB <= FloodConnectionsPerMinute

(* The keys: the older one is replaced, and cookies made with it lapse.      *)
Rotates == keyAge >= KeyInterval

NewKeyIndex == IF Rotates THEN 1 - LastUpdatedKeyIndex ELSE LastUpdatedKeyIndex

(* Fault: cookies under either key lapse. *)
BugRotated(k) == [k EXCEPT !.current = @ /\ ~Rotates]

Rotated(k) ==
    [k EXCEPT !.current = @ /\ ~(Rotates /\ k.index = NewKeyIndex)]

BelowLimit(ip) == CountMap[ip] < MaximumConnectionsPerAddress

(* OnConnectionRequest() up to the point where the count is changed.  With   *)
(* shows, the client has made the cookie it was sent its key.               *)
OnConnectionRequest(c, ip, shows) ==
    /\ CanStart /\ request = None
    /\ client[c] = Closed
    /\ BelowLimit(ip)
    /\ ConnectionCountA' = NewCountA
    /\ ConnectionCountB' = NewCountB
    /\ binAge' = IF Shifts THEN BinDuration ELSE binAge
    /\ idleAge' = 0
    /\ IF RateNotExceeded
       THEN /\ request' = [client |-> c, ip |-> ip, found |-> CountMap[ip] > 0]
            /\ UNCHANGED keys
       ELSE /\ keyAge' = IF Rotates THEN 0 ELSE keyAge
            /\ LastUpdatedKeyIndex' = NewKeyIndex
            /\ IF shows /\ Rotated(cookie[ip]).current
               THEN /\ request' = [client |-> c, ip |-> ip, found |-> CountMap[ip] > 0]
                    /\ cookie' = [i \in Ips |-> Rotated(cookie[i])]
               ELSE /\ cookie' = [[i \in Ips |-> Rotated(cookie[i])] EXCEPT ![ip] =
                                    [index |-> NewKeyIndex, current |-> TRUE, age |-> 0]]
                    /\ UNCHANGED request
    /\ UNCHANGED <<CountMap, client, leaked>>

(* insert() leaves an entry that another thread has made meanwhile alone;    *)
(* the node found before may meanwhile be free, or hold another address.    *)
Counted(ip) ==
    IF ~request.found THEN {[CountMap EXCEPT ![ip] = IF @ = 0 THEN 1 ELSE @]}
    ELSE IF CountMap[ip] > 0 THEN {[CountMap EXCEPT ![ip] = @ + 1]}
    ELSE {CountMap} \cup {[CountMap EXCEPT ![i] = @ + 1] : i \in {j \in Ips : CountMap[j] > 0}}

(* The count is changed, Allow is returned, and onConnectRequest() creates   *)
(* the connection, unless it is out of memory.                              *)
AllowConnection ==
    /\ request # None
    /\ CountMap' \in Counted(request.ip)
    /\ client' = [client EXCEPT ![request.client] =
                    [ip |-> request.ip, stage |-> "open", count |-> 0]]
    /\ request' = None
    /\ UNCHANGED <<rate, keys, leaked>>

(* Nothing will call OnDisconnect() for this request.                       *)
FailToAllocate ==
    /\ request # None
    /\ CountMap' \in Counted(request.ip)
    /\ leaked' = [leaked EXCEPT ![request.ip] = @ + 1]
    /\ request' = None
    /\ UNCHANGED <<client, rate, keys>>

(* OnDisconnect() reads the count of its address, and writes it back.        *)
OnDisconnect(c) ==
    /\ CanStart
    /\ client[c].stage = "open"
    /\ client' = [client EXCEPT ![c] =
                    IF CountMap[client[c].ip] = 0 THEN Closed
                    ELSE [@ EXCEPT !.stage = "closing", !.count = CountMap[client[c].ip]]]
    /\ UNCHANGED <<CountMap, request, rate, keys, leaked>>

Uncount(c) ==
    /\ client[c].stage = "closing"
    /\ CountMap' = [CountMap EXCEPT ![client[c].ip] =
                      IF client[c].count <= 1 THEN 0 ELSE client[c].count - 1]
    /\ client' = [client EXCEPT ![c] = Closed]
    /\ UNCHANGED <<request, rate, keys, leaked>>

-----------------------------------------------------------------------------
FloodNext ==
    \/ Tick
    \/ \E c \in Clients, ip \in Ips, shows \in BOOLEAN : OnConnectionRequest(c, ip, shows)
    \/ AllowConnection
    \/ FailToAllocate
    \/ \E c \in Clients : OnDisconnect(c) \/ Uncount(c)

FloodSpec == FloodInit /\ [][FloodNext]_floodVars

-----------------------------------------------------------------------------
ConnectedFrom(ip) == {c \in Clients : client[c].ip = ip}

(* Unless calls overlap, the map counts exactly the connections that were    *)
(* allowed and have not been disconnected, and the requests whose allocation failed: only these  *)
(* keep an address from its full number of connections.                     *)
CountsExact ==
    \A ip \in Ips : CountMap[ip] = Cardinality(ConnectedFrom(ip)) + leaked[ip]

(* "If OnConnectionRequest() returned Allow, then OnDisconnect() must be     *)
(* called to decrement the count": nothing else is left in the map.          *)
AllowedIsUncounted ==
    \A ip \in Ips : CountMap[ip] = Cardinality(ConnectedFrom(ip))

(* "Connections beyond this limit will be rejected": no address ever has     *)
(* more connections than MaximumClientsPerIP.                               *)
PerAddressLimit ==
    \A ip \in Ips : Cardinality(ConnectedFrom(ip)) <= MaximumConnectionsPerAddress

(* A cookie is accepted at least until one rotation interval after it was    *)
(* sent, whenever the keys are replaced meanwhile.                          *)
CookieLasts == \A ip \in Ips : cookie[ip].age < KeyInterval => cookie[ip].current

(* "Assuming that a 3-way connection handshake completes within 10 seconds,  *)
(* we can pick a new key every 5 seconds": a cookie is accepted for two      *)
(* rotation intervals.                                                      *)
CookieLastsHandshake ==
    \A ip \in Ips : cookie[ip].age < 2 * KeyInterval => cookie[ip].current

(* A request after two idle bins is not taken for part of a flood.           *)
FloodIsRecent ==
    [][idleAge >= 2 * BinDuration /\ idleAge' = 0 => UNCHANGED cookie]_floodVars

=============================================================================
