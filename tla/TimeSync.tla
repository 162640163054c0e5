------------------------------ MODULE TimeSync ------------------------------
(***************************************************************************)
(* The clock synchronisation of a connection (TimeSync.h, .cpp), at one of  *)
(* its two peers.  Every datagram carries its send time in TSRange steps;   *)
(* the receiver keeps a windowed minimum of (receipt - send), the peer      *)
(* reports its own, and half their sum and difference estimate the one-way  *)
(* delay and the clock difference.  All of it is done on wrapped numbers.   *)
(*                                                                         *)
(* The unit of time is one step of a timestamp.  A true delay is what a     *)
(* datagram took; the clocks differ by an offset that neither peer knows.   *)
(***************************************************************************)
EXTENDS Integers, Counter

CONSTANTS
    TSRange,      \* timestamps wrap at this number, 2^24; Counter23 at half
    Window,       \* kDriftWindowUsec
    TimeBias,     \* kTime23Bias
    Delays,       \* true delays of datagrams
    Offsets,      \* remote clock minus local clock
    Start,        \* local time when the connection starts
    Gaps,         \* times between two datagrams that arrive
    MaxTime       \* bound: local time

(* A datagram takes less than a quarter of the range of timestamps (33 s),   *)
(* and both clocks stay well inside the 64 bits of a time: TSRange squared. *)
ASSUME TimeAssumption ==
    /\ TSRange \in Nat \ {0} /\ TSRange % 8 = 0 /\ TimeBias = TSRange \div 8
    /\ Delays \subseteq 0 .. (TSRange \div 4) - 1
    /\ Offsets \subseteq Int /\ Gaps \subseteq Nat
    /\ Window \in Nat /\ Start \in Nat /\ MaxTime \in Nat /\ Start <= MaxTime
    /\ \A o \in Offsets : /\ Start + o >= TSRange \div 8
                          /\ MaxTime + o + (TSRange \div 4) < TSRange * TSRange

VARIABLES
    clock,                  \* local time
    offset,
    Samples,                \* WindowedMinTS24Deltas
    GotPeerUpdate,
    LastFC_MinDeltaTS24,
    Synchronized,
    RemoteTimeDelta,
    MinimumOneWayDelay,
    trips,                  \* history: delay and arrival of each datagram that
                            \*   came within Window of the last one
    peerTrip                \* history: the delay the peer last reported

timeVars == <<clock, offset, Samples, GotPeerUpdate, LastFC_MinDeltaTS24, Synchronized,
              RemoteTimeDelta, MinimumOneWayDelay, trips, peerTrip>>

TimeInit ==
    /\ clock = Start
    /\ offset \in Offsets
    /\ Samples = [i \in 0 .. 2 |-> [Value |-> 0, Timestamp |-> 0]]
    /\ GotPeerUpdate = FALSE /\ LastFC_MinDeltaTS24 = 0
    /\ Synchronized = FALSE /\ RemoteTimeDelta = 0 /\ MinimumOneWayDelay = 0
    /\ trips = {} /\ peerTrip = 0

-----------------------------------------------------------------------------
(* The windowed minimum *)

IsValid(s) == s[0].Value # 0

TimeoutExpired(sample, now, timeout) == now - sample.Timestamp > timeout

(* operator<= of Counter24.                                                 *)
NotAbove(a, b) == AtLeast(b, a, TSRange)

(* The new value into the sorted array.                                     *)
InsertSample(s, sample) ==
    IF NotAbove(sample.Value, s[1].Value) THEN [s EXCEPT ![1] = sample, ![2] = sample]
    ELSE IF NotAbove(sample.Value, s[2].Value) THEN [s EXCEPT ![2] = sample]
    ELSE s

(* The best has been the best for a whole window.                           *)
Expire(s, sample) ==
    IF TimeoutExpired(s[1], sample.Timestamp, Window)
    THEN [s EXCEPT ![0] = s[2], ![1] = sample, ![2] = sample]
    ELSE [s EXCEPT ![0] = s[1], ![1] = s[2], ![2] = sample]

Update(s, sample) ==
    IF \/ ~IsValid(s)
       \/ NotAbove(sample.Value, s[0].Value)
       \/ TimeoutExpired(s[2], sample.Timestamp, Window)
    THEN [i \in 0 .. 2 |-> sample]
    ELSE LET t == InsertSample(s, sample)
             Since(i, time) == t[i].Value = t[i - 1].Value
                                 /\ TimeoutExpired(t[i], sample.Timestamp, time)
         IN  IF TimeoutExpired(t[0], sample.Timestamp, Window) THEN Expire(t, sample)
             ELSE IF Since(1, Window \div 4) THEN [t EXCEPT ![1] = sample, ![2] = sample]
             ELSE IF Since(2, Window \div 2) THEN [t EXCEPT ![2] = sample]
             ELSE t

-----------------------------------------------------------------------------
(* The synchroniser *)

(* Fault: the sum is halved before it is wrapped.                           *)
BugMinOWD(send, receive) == (send + receive) \div 2

MinOWD(send, receive) == ((send + receive) % TSRange) \div 2

ClockDelta(send, receive) == ((send - receive) % TSRange) \div 2

Recalculate ==
    IF IsValid(Samples') /\ GotPeerUpdate'
    THEN LET owd == MinOWD(LastFC_MinDeltaTS24', Samples'[0].Value)
         IN  /\ RemoteTimeDelta' = ClockDelta(LastFC_MinDeltaTS24', Samples'[0].Value)
             /\ MinimumOneWayDelay' = IF owd >= TSRange \div 4 THEN 0 ELSE owd
             /\ Synchronized' = TRUE
    ELSE UNCHANGED <<RemoteTimeDelta, MinimumOneWayDelay, Synchronized>>

(* The peer's report: its own windowed minimum, a delay of one of our        *)
(* datagrams.  Reports can be late: any delay may come at any time.         *)
OnPeerMinDeltaTS24(delay) ==
    /\ LastFC_MinDeltaTS24' = (delay + offset) % TSRange
    /\ GotPeerUpdate' = TRUE
    /\ UNCHANGED Samples
    /\ Recalculate
    /\ peerTrip' = delay
    /\ UNCHANGED <<clock, offset, trips>>

(* A datagram arrives, gap after the last one; it was sent delay ago by the  *)
(* peer's clock.                                                            *)
OnAuthenticatedDatagramTimestamp(gap, delay) ==
    LET now == clock + gap
        remoteSendTS24 == (now + offset - delay) % TSRange
        deltaTS24 == (now - remoteSendTS24) % TSRange
    IN  /\ now <= MaxTime
        /\ clock' = now
        /\ Samples' = Update(Samples, [Value |-> deltaTS24, Timestamp |-> now])
        /\ UNCHANGED <<GotPeerUpdate, LastFC_MinDeltaTS24>>
        /\ Recalculate
        /\ trips' = {t \in trips : now - t.at <= Window} \cup {[delay |-> delay, at |-> now]}
        /\ UNCHANGED <<offset, peerTrip>>

TimeNext ==
    \/ \E gap \in Gaps, delay \in Delays : OnAuthenticatedDatagramTimestamp(gap, delay)
    \/ \E delay \in Delays : OnPeerMinDeltaTS24(delay)

TimeSpec == TimeInit /\ [][TimeNext]_timeVars

-----------------------------------------------------------------------------
(* A local time as the application sends it to the peer, and as the peer     *)
(* expands it around its own clock when it arrives.                         *)
ToRemoteTime23(time) == (time + RemoteTimeDelta) % (TSRange \div 2)

FromLocalTime23(time, timestamp) ==
    ExpandFromTruncatedWithBias(time, timestamp, TimeBias, TSRange \div 2, TSRange * TSRange)

(* The true delay of the datagram behind sample i.                          *)
TripOf(i) == (Samples[i].Value + offset) % TSRange

(* The best sample is a datagram that came within the window, so a clock     *)
(* that drifts is followed, and no datagram of the last half window was     *)
(* faster, however the samples expired or were displaced; the others are    *)
(* sorted after it (WindowedMinTS24::Update).  It needs clocks that do not  *)
(* differ by exactly a delay: the value zero stands for no sample.          *)
MinimumTracked ==
    trips # {} =>
        /\ [delay |-> TripOf(0), at |-> Samples[0].Timestamp] \in trips
        /\ \A t \in trips : clock - t.at <= Window \div 2 => TripOf(0) <= t.delay
        /\ TripOf(0) <= TripOf(1) /\ TripOf(1) <= TripOf(2)

(* The estimates are the mean of the two fastest trips known, and the true  *)
(* clock difference but for half of what those trips differ, although each  *)
(* was computed from wrapped differences; and a local time sent as a 23-bit *)
(* remote time arrives as the same moment on the peer's clock, with that    *)
(* same error (Recalculate, ToRemoteTime23, FromLocalTime23).  A difference *)
(* of zero stands for no sample: the estimates then wait for the next one.  *)
TimeExact ==
    Synchronized /\ IsValid(Samples) =>
        /\ MinimumOneWayDelay = (TripOf(0) + peerTrip) \div 2
        /\ \A delay \in Delays :
             FromLocalTime23(clock + offset + delay, ToRemoteTime23(clock))
                 = clock + offset + (peerTrip - TripOf(0)) \div 2
=============================================================================
