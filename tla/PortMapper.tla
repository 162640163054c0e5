----------------------------- MODULE PortMapper -----------------------------
(***************************************************************************)
(* The gateway port mapper of TonkineseNAT.cpp.  While the application     *)
(* holds a MappedPortLifetime for a local port, a background thread finds  *)
(* the gateway (SSDP), reads its description (HTTP) and asks its control   *)
(* endpoint (SOAP over HTTP) to map the port; when the object is destroyed *)
(* and others remain, it asks for the mapping to be removed.               *)
(*                                                                         *)
(* One gateway with one control endpoint is on the network.  The external  *)
(* port of a mapping is "local" (the number asked for) or "random".  The   *)
(* gateway ends a lease that the mapper does not keep renewing.            *)
(***************************************************************************)
EXTENDS Naturals, FiniteSets

CONSTANTS
    Ports, First,         \* local ports, and the one asked for first
    kPortMappingRetries,
    MaxRequests,          \* calls of RequestPortMap()
    MaxTroubles           \* requests that fail or time out, SSDP responses
                          \* that are lost, descriptions that are of no use,
                          \* times the network goes down

ASSUME PortsAssumption ==
    IsFiniteSet(Ports) /\ First \in Ports /\ kPortMappingRetries \in Nat

VARIABLES
    app,      \* the application's side, guarded by APILock
    machine,  \* StateMachine, SSDPRequester and the endpoints
    router,   \* the gateway: external ports mapped to each local port
    lapsed,   \* history: those whose lease ran out
    network,  \* is the network up?
    troubles

portVars == <<app, machine, router, lapsed, network, troubles>>

Trouble == troubles < MaxTroubles /\ troubles' = troubles + 1

Retries == kPortMappingRetries

-----------------------------------------------------------------------------
NoRequest == [Type |-> "none", API_LifetimePtr |-> 0]

\* Requester is an HTTPRequester: open, stuck (Done, but an operation of its
\* socket is outstanding), over (Done and AsyncRefs = 0), or none.  The type
\* and the port it asked for are those its callback captured.
NewControlRequest ==
    [LastApp |-> "Remove", RetriesRemaining |-> Retries,
     Requester |-> "none", asked |-> "none", port |-> "none",
     FailedRequestedPort |-> FALSE, AddedExternalPort |-> "none",
     AddAgainOnTimer |-> FALSE, due |-> FALSE]

\* GatewayPortMapper::Initialize() with the tick in AsioHost::Initialize(),
\* which reads the LAN and, if it is up, sends the first multicast; lan is
\* FALSE too while no mapper exists.  "asked" counts the SSDP responses to
\* come.
NewMachine(lan, requests) ==
    [API_Requests |-> requests, API_Requests_Updated |-> TRUE,
     Requests |-> [p \in Ports |-> "none"],
     LAN |-> lan, AttemptsRemaining |-> Retries - 1,
     SSDPAddresses |-> lan, asked |-> IF lan THEN 1 ELSE 0,
     gateway |-> [known |-> FALSE, RetriesRemaining |-> 0,
                  Requester |-> "none", Completed |-> FALSE],
     control |-> "unknown",
     ControlRequests |-> [p \in Ports |-> NewControlRequest]]

NoMachine == NewMachine(FALSE, [p \in Ports |-> NoRequest])

\* The first RequestPortMap() of the process has returned.  life holds the
\* objects that are alive, each a local port and a number; there can be several
\* for one port.  ExternalMappedPort is that of the object API_Requests points
\* to: the others keep the value they had.
PortInit ==
    /\ app = [life |-> {<<First, 1>>},
              ExternalMappedPort |-> [p \in Ports |-> "none"],
              API_References |-> 1, PortMapper |-> TRUE, used |-> 1]
    /\ machine = NewMachine(TRUE, [NoMachine.API_Requests EXCEPT
                                     ![First] = [Type |-> "Add",
                                                 API_LifetimePtr |-> 1]])
    /\ router = [p \in Ports |-> {}] /\ lapsed = [p \in Ports |-> {}]
    /\ network = TRUE
    /\ troubles = 0

-----------------------------------------------------------------------------
\* StateMachine::API_Request(), for machine m.  The tick it dispatches is a Tick.
API_Request(m, p, request) ==
    [m EXCEPT !.API_Requests[p] = request, !.API_Requests_Updated = TRUE]

RequestPortMap(p) ==
    LET ref == app.used + 1
        new == [Type |-> "Add", API_LifetimePtr |-> ref]
    IN  /\ app.used < MaxRequests
        /\ machine' =
             IF app.API_References <= 0
             THEN NewMachine(network, [NoMachine.API_Requests EXCEPT ![p] = new])
             ELSE API_Request(machine, p, new)
        /\ app' = [app EXCEPT !.life = @ \union {<<p, ref>>}, !.used = ref,
                              !.ExternalMappedPort[p] = "none",
                              !.PortMapper = TRUE, !.API_References = @ + 1]
        /\ UNCHANGED <<router, lapsed, network, troubles>>

\* What the destructor of object o puts in API_Requests.
BugRemoval(o) == [Type |-> "Remove", API_LifetimePtr |-> o[2]]

Removal(o) == [Type |-> "Remove", API_LifetimePtr |-> 0]

\* ~MappedPortLifetime(): the last one ends the mapper and leaves its mapping.
\* Any other replaces the request for its port, whose ever that is by now.
Destroy(o) ==
    LET last == app.API_References - 1 <= 0 IN
    /\ o \in app.life
    /\ app' = [app EXCEPT !.life = @ \ {o}, !.ExternalMappedPort[o[1]] = "none",
                          !.API_References = IF last THEN 0 ELSE @ - 1,
                          !.PortMapper = ~last]
    /\ machine' = IF last THEN NoMachine
                  ELSE API_Request(machine, o[1], Removal(o))
    /\ UNCHANGED <<router, lapsed, network, troubles>>

-----------------------------------------------------------------------------
\* Pieces of StateMachine::OnTick().

\* HTTPRequester::OnTick_IsDisposable() and what its callers do with it: one
\* that is over is freed, an open one may have timed out.
Checked(requester, timeout) ==
    CASE requester = "over" -> "none"
      [] requester = "open" /\ timeout -> "stuck"
      [] OTHER -> requester

BeginGatewayXMLRequest(g) ==
    [g EXCEPT !.RetriesRemaining = @ - 1, !.Requester = "open"]

\* The application's wish changed since the last request made for it.
BugAppChanged(c, type) ==
    [c EXCEPT !.LastApp = type,
              !.RetriesRemaining =
                  IF c.LastApp # type /\ c.AddedExternalPort # "none"
                  THEN Retries ELSE @]

AppChanged(c, type) ==
    IF c.LastApp = type THEN c
    ELSE [c EXCEPT
           !.LastApp = type,
           !.RetriesRemaining =
               IF (type = "Add") = (c.AddedExternalPort = "none")
               THEN Retries ELSE @,
           !.AddAgainOnTimer =
               @ /\ (type = "Add" \/ c.AddedExternalPort = "none")]

\* The mapping is old enough to be renewed.
Renewed(c, type) ==
    IF type = "Add" /\ c.AddAgainOnTimer /\ c.AddedExternalPort # "none" /\ c.due
    THEN [c EXCEPT !.RetriesRemaining = Retries]
    ELSE c

\* RequestSOAP(): it returns at once when there is no port to remove.
RequestSOAP(c, type) ==
    LET port == IF type = "Remove" THEN c.AddedExternalPort
                ELSE IF c.FailedRequestedPort THEN "random"
                ELSE IF c.AddedExternalPort = "none" THEN "local"
                ELSE c.AddedExternalPort
    IN  IF port = "none" THEN c
        ELSE [c EXCEPT !.Requester = "open", !.asked = type, !.port = port]

\* BeginControlSOAPRequests() for one request of the endpoint; a timeout calls
\* the callback with a failure.
BeginControlSOAPRequest(c, type, lan, timeout) ==
    LET r == Checked(c.Requester, timeout)
        d == Renewed(AppChanged([c EXCEPT !.Requester = r], type), type)
    IN  IF type = "none" THEN c
        ELSE IF r # "none"
             THEN [c EXCEPT !.Requester = r,
                            !.FailedRequestedPort = @ /\ r = c.Requester]
        ELSE IF ~lan \/ d.RetriesRemaining <= 0 THEN d
        ELSE RequestSOAP([d EXCEPT !.RetriesRemaining = @ - 1], type)

\* OnLANChange() for one request of the endpoint.
Reset(c) ==
    [c EXCEPT !.AddAgainOnTimer = FALSE, !.AddedExternalPort = "none",
              !.FailedRequestedPort = FALSE, !.LastApp = "Remove",
              !.due = FALSE, !.RetriesRemaining = Retries]

API_CopyRequests(m) ==
    IF m.API_Requests_Updated
    THEN [p \in Ports |-> m.API_Requests[p].Type] ELSE m.Requests

\* The LAN as known after a tick in which it is read or not.
PollLANInfo(m, poll) == IF poll THEN network ELSE m.LAN

\* SSDPRequester::OnTick(): with "tries" attempts left, is a multicast sent?
\* It is once the LAN was up and its sockets were opened.
RequestSSDP(m, tries, up) ==
    tries > 0 /\ (m.SSDPAddresses \/ up) /\ m.asked < Retries

\* StateMachine::OnTick() with SSDPRequester::OnTick(); "poll" says that the
\* LAN is read, "late" which request has just timed out.
OnTick(m, poll, late) ==
    LET types == API_CopyRequests(m)
        lan   == PollLANInfo(m, poll)
        up    == lan /\ ~m.LAN
        tries == IF up THEN Retries ELSE m.AttemptsRemaining
        ask   == RequestSSDP(m, tries, up)
        g     == [m.gateway EXCEPT !.Completed = @ /\ ~up,
                                   !.Requester = Checked(@, late = "gateway")]
        begin == g.known /\ g.Requester = "none" /\ g.RetriesRemaining > 0
        c     == m.ControlRequests
    IN  [m EXCEPT
          !.Requests = types, !.API_Requests_Updated = FALSE,
          !.LAN = lan, !.SSDPAddresses = @ \/ up,
          !.AttemptsRemaining = IF tries > 0 THEN tries - 1 ELSE tries,
          !.asked = IF ask THEN @ + 1 ELSE @,
          !.gateway = IF begin THEN BeginGatewayXMLRequest(g) ELSE g,
          !.control = IF up /\ @ = "active" THEN "inactive" ELSE @,
          !.ControlRequests =
              IF up THEN [p \in Ports |-> Reset(c[p])]
              ELSE IF m.control # "active" THEN c
              ELSE [p \in Ports |->
                      BeginControlSOAPRequest(c[p], types[p], lan, late = p)]]

Tick(poll, late) ==
    /\ app.PortMapper
    /\ machine' = OnTick(machine, poll, late)
    /\ \/ late = "nobody" /\ UNCHANGED troubles
       \/ /\ late = "gateway" /\ machine.gateway.Requester = "open"
          /\ Trouble
       \/ /\ late \in Ports /\ machine.ControlRequests[late].Requester = "open"
          /\ machine.control = "active"
          /\ Trouble
    /\ UNCHANGED <<app, router, lapsed, network>>

-----------------------------------------------------------------------------
\* What comes back from the network.

OnSSDPResponse ==
    LET g     == machine.gateway
        retry == [g EXCEPT !.known = TRUE, !.RetriesRemaining = Retries]
    IN  /\ machine.asked > 0 /\ network
        /\ machine' = [machine EXCEPT
             !.asked = @ - 1,
             !.gateway = IF g.known /\ g.Completed THEN g
                         ELSE IF g.Requester = "none"
                              THEN BeginGatewayXMLRequest(retry) ELSE retry]
        /\ UNCHANGED <<app, router, lapsed, network, troubles>>

LoseResponse ==
    /\ machine.asked > 0 /\ Trouble
    /\ machine' = [machine EXCEPT !.asked = @ - 1]
    /\ UNCHANGED <<app, router, lapsed, network>>

\* A request fails for want of a network, or is one of the troubles.
Fails == IF network THEN Trouble ELSE UNCHANGED troubles

\* The description arrives.  OnXMLResponse() finds the endpoint, or finds it
\* again, and looks at its requests at once.
OnXMLResponse ==
    /\ machine.gateway.Requester = "open" /\ network
    /\ machine' = [machine EXCEPT
         !.gateway = [@ EXCEPT !.Requester = "over", !.Completed = TRUE,
                               !.RetriesRemaining = 0],
         !.control = "active",
         !.ControlRequests = [p \in Ports |-> BeginControlSOAPRequest(
                                 @[p], machine.Requests[p], machine.LAN, FALSE)]]
    /\ UNCHANGED <<app, router, lapsed, network, troubles>>

FailXML ==
    /\ machine.gateway.Requester = "open"
    /\ Fails
    /\ machine' = [machine EXCEPT !.gateway.Requester = "over"]
    /\ UNCHANGED <<app, router, lapsed, network>>

\* The gateway answers, but not with code 200, or with a description or a
\* URLBase that cannot be parsed: it is not asked again on this LAN.
BadDescription ==
    /\ machine.gateway.Requester = "open" /\ network
    /\ Trouble
    /\ machine' = [machine EXCEPT
         !.gateway = [@ EXCEPT !.Requester = "over", !.Completed = TRUE,
                               !.RetriesRemaining = 0]]
    /\ UNCHANGED <<app, router, lapsed, network>>

\* The gateway carries out a request.
Carry(p) ==
    LET c == machine.ControlRequests[p] IN
    /\ router' = [router EXCEPT ![p] = IF c.asked = "Add" THEN @ \union {c.port}
                                       ELSE @ \ {c.port}]
    /\ lapsed' = [lapsed EXCEPT ![p] = @ \ {c.port}]

Over(c) == [c EXCEPT !.Requester = "over", !.asked = "none", !.port = "none"]

\* The request the callback answers is the one it captured.
BugAnswered(p) == machine.Requests[p]

Answered(p) == machine.ControlRequests[p].asked

\* The callback of RequestSOAP() for a response with code 200.
OnSOAPResponse(p) ==
    LET c      == machine.ControlRequests[p]
        mapped == IF Answered(p) = "Add" THEN c.port ELSE "none"
    IN  /\ c.Requester = "open" /\ network
        /\ Carry(p)
        /\ machine' = [machine EXCEPT
             !.AttemptsRemaining = 0,
             !.ControlRequests[p] =
                 [Over(c) EXCEPT
                    !.FailedRequestedPort = FALSE, !.RetriesRemaining = 0,
                    !.due = FALSE, !.AddAgainOnTimer = Answered(p) = "Add",
                    !.AddedExternalPort = mapped]]
        /\ app' = IF machine.API_Requests[p].API_LifetimePtr = 0 THEN app
                  ELSE [app EXCEPT !.ExternalMappedPort[p] = mapped]
        /\ UNCHANGED <<network, troubles>>

\* The same callback for any other code: an Add tries another port next.
RefuseSOAP(p) ==
    LET c == machine.ControlRequests[p] IN
    /\ c.Requester = "open" /\ network
    /\ Trouble
    /\ machine' = [machine EXCEPT !.ControlRequests[p] =
         [Over(c) EXCEPT !.AddAgainOnTimer = FALSE,
                         !.FailedRequestedPort = c.asked = "Add"]]
    /\ UNCHANGED <<app, router, lapsed, network>>

\* The connection breaks, before or after the gateway did what was asked.
FailSOAP(p) ==
    LET c == machine.ControlRequests[p] IN
    /\ c.Requester = "open"
    /\ Fails
    /\ Carry(p) \/ UNCHANGED <<router, lapsed>>
    /\ machine' = [machine EXCEPT !.ControlRequests[p] =
                     [Over(c) EXCEPT !.FailedRequestedPort = FALSE]]
    /\ UNCHANGED <<app, network>>

\* What a requester that timed out was waiting for happens after all.
LateXML ==
    /\ machine.gateway.Requester = "stuck"
    /\ machine' = [machine EXCEPT !.gateway.Requester = "over"]
    /\ UNCHANGED <<app, router, lapsed, network, troubles>>

LateSOAP(p) ==
    /\ machine.ControlRequests[p].Requester = "stuck"
    /\ Carry(p) \/ UNCHANGED <<router, lapsed>>
    /\ machine' = [machine EXCEPT !.ControlRequests[p] = Over(@)]
    /\ UNCHANGED <<app, network, troubles>>

\* kUPnPLeaseRenewSecs go by.
LeaseDue(p) ==
    /\ machine.ControlRequests[p].AddedExternalPort # "none"
    /\ ~machine.ControlRequests[p].due
    /\ machine' = [machine EXCEPT !.ControlRequests[p].due = TRUE]
    /\ UNCHANGED <<app, router, lapsed, network, troubles>>

\* Renewals of external port e keep its lease: they begin ten seconds before
\* the end and are repeated every second, while no answer takes fifteen
\* seconds (HTTPRequester::kTimeoutUsec).
Kept(p, e) ==
    LET c == machine.ControlRequests[p] IN
    /\ app.PortMapper /\ machine.LAN /\ machine.control = "active"
    /\ machine.Requests[p] = "Add" /\ c.AddAgainOnTimer
    /\ c.AddedExternalPort = e /\ c.Requester # "stuck"

\* kUPnPLeaseDurationSecs have gone by: the gateway forgets the mapping.
LeaseEnds(p, e) ==
    /\ e \in router[p] /\ ~Kept(p, e)
    /\ router' = [router EXCEPT ![p] = @ \ {e}]
    /\ lapsed' = [lapsed EXCEPT ![p] = @ \union {e}]
    /\ UNCHANGED <<app, machine, network, troubles>>

\* The network goes down, for longer than the interval between two readings
\* of the LAN, and comes up again.
NetworkChange ==
    /\ \/ network /\ Trouble
       \/ ~network /\ ~machine.LAN /\ UNCHANGED troubles
    /\ network' = ~network
    /\ UNCHANGED <<app, machine, router, lapsed>>

PortNext ==
    \/ \E p \in Ports : RequestPortMap(p)
    \/ \E o \in app.life : Destroy(o)
    \/ \E poll \in BOOLEAN, late \in Ports \union {"gateway", "nobody"} :
          Tick(poll, late)
    \/ OnSSDPResponse \/ LoseResponse \/ OnXMLResponse \/ FailXML \/ LateXML
    \/ BadDescription
    \/ \E p \in Ports : \/ OnSOAPResponse(p) \/ RefuseSOAP(p) \/ FailSOAP(p)
                        \/ LateSOAP(p) \/ LeaseDue(p)
    \/ \E p \in Ports : \E e \in router[p] : LeaseEnds(p, e)
    \/ NetworkChange

PortSpec == PortInit /\ [][PortNext]_portVars

\* The one second timer keeps ticking and the LAN is read; the gateway answers
\* what reaches it, or the socket ends; time passes.
FairPort ==
    /\ PortSpec
    /\ WF_portVars(Tick(TRUE, "nobody"))
    /\ WF_portVars(OnSSDPResponse)
    /\ WF_portVars(OnXMLResponse \/ FailXML \/ LateXML)
    /\ \A p \in Ports :
          /\ WF_portVars(OnSOAPResponse(p) \/ FailSOAP(p) \/ LateSOAP(p))
          /\ WF_portVars(LeaseDue(p))

\* The same with a gateway that may keep a connection open and say nothing.
SilentPort ==
    /\ PortSpec
    /\ WF_portVars(Tick(TRUE, "nobody"))
    /\ WF_portVars(OnSSDPResponse)
    /\ WF_portVars(OnXMLResponse \/ FailXML)
    /\ \A p \in Ports :
          /\ WF_portVars(OnSOAPResponse(p) \/ FailSOAP(p))
          /\ WF_portVars(LeaseDue(p))

-----------------------------------------------------------------------------
\* The mapper lives exactly while objects do, and the objects the background
\* thread writes through are alive, with several for one port too: a destructor
\* clears the pointer of its port before the memory goes away.
PointersLive ==
    /\ app.API_References = Cardinality(app.life)
    /\ app.PortMapper = (app.API_References > 0)
    /\ \A p \in Ports :
          LET ref == machine.API_Requests[p].API_LifetimePtr
          IN  ref # 0 => <<p, ref>> \in app.life

\* A port reported to the object that API_Requests points to was mapped by the
\* gateway and has not been removed by the mapper since, whatever answers came
\* late.  Only the end of its lease takes it away (ReportedWorks).
ReportedIsMapped ==
    \A p \in Ports :
        app.ExternalMappedPort[p] \in router[p] \union lapsed[p] \union {"none"}

\* The request for the port stands, and nothing has replaced it by a removal.
Stands(p) == machine.API_Requests[p].API_LifetimePtr # 0

\* The gateway has answered on this LAN, with a description of no use.
Undescribed == machine.gateway.Completed /\ machine.control # "active"

\* A port whose request stands is mapped in the end, and the external port is
\* reported to its object, however requests to add and to remove it alternated
\* and failed on the way, as long as the gateway's description is of use and only
\* one thing went wrong: a late answer from before an outage stops the search
\* (AttemptsRemaining), and the loss of the response to come then ends it.
Mapped ==
    \A p \in Ports :
        <>[](network /\ Stands(p) /\ ~Undescribed)
            => <>[](app.ExternalMappedPort[p] \in router[p])

-----------------------------------------------------------------------------
\* The rest does not hold.

\* The external port that is reported is mapped: "When the port mapping
\* succeeds, the ExternalMappedPort member will be updated" (MappedPortLifetime).
ReportedWorks ==
    \A p \in Ports : app.ExternalMappedPort[p] \in router[p] \union {"none"}

\* "Requests are retried several times if needed" (RequestPortMap): a failure
\* of any kind does not leave the port unmapped.
MappedWhateverFails ==
    \A p \in Ports :
        <>[](network /\ Stands(p))
            => <>[](app.ExternalMappedPort[p] \in router[p])

\* A port is mapped in the end while an object for it is alive: the object
\* "tracks the lifetime of a request to map a port" (MappedPortLifetime).
MappedWhileHeld ==
    \A p \in Ports :
        <>[](network /\ ~Undescribed /\ \E o \in app.life : o[1] = p)
            => <>[](app.ExternalMappedPort[p] \in router[p])
=============================================================================
