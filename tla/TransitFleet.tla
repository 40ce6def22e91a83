----------------------------- MODULE TransitFleet ----------------------------
(***************************************************************************)
(* The relays and egress gateways: the processes that register themselves  *)
(* and send heartbeats, the tables the control plane selects from, and the *)
(* relays it provisions on EC2.                                            *)
(*                                                                         *)
(* One tick is 15 seconds: a process calls the control plane every         *)
(* Period = 2 ticks, a relay is selected within FreshRelay = 3 of its last *)
(* call and a gateway within FreshGateway = 2.  A call that is due is made *)
(* before time goes on.  A provisioned relay is not told its id, so it     *)
(* sends no heartbeat.                                                     *)
(***************************************************************************)
EXTENDS Integers, FiniteSetsExt

CONSTANTS
  FixedRelays, Gateways,     \* processes that register themselves
  Instances,                 \* EC2 instances that may be launched
  FleetCalls,                \* requests to provision or terminate, in progress
  Measures,                  \* <<CPU load, active sessions>> a heartbeat may carry
  RelaySessions,             \* RELAY_MAX_SESSIONS
  GatewaySessions,           \* EGRESS_MAX_SESSIONS
  LocalRelays,               \* relays in the region of the node that asks
  Period, FreshRelay, FreshGateway,
  MaxTime, MaxFleetFaults    \* bounds on the ticks and on failing calls

ASSUME FleetAssumption ==
  /\ {Period, FreshRelay, FreshGateway, MaxTime, MaxFleetFaults} \subseteq Nat
  /\ {RelaySessions, GatewaySessions} \subseteq Nat
  /\ LocalRelays \subseteq FixedRelays \cup Instances
  /\ FixedRelays \cap Instances = {}
  /\ Measures \subseteq Nat \X Nat
  /\ Period < FreshRelay /\ Period <= FreshGateway

VARIABLES
  now,            \* the time, in ticks
  fleetRows,      \* relays and egress_gateways: [id -> last heartbeat, load, sessions]
  server,         \* [process -> running, its next request, when it is due, whether the last failed]
  ec2,            \* instances that run
  fleetCall,      \* [call -> what it does and where it stands]
  fleetFaults,    \* calls that failed so far
  strayed         \* history: instances whose provisioning failed after the launch

fleetVars == <<now, fleetRows, server, ec2, fleetCall, fleetFaults, strayed>>

-----------------------------------------------------------------------------
Servers == FixedRelays \cup Gateways
RelayIds == FixedRelays \cup Instances

NoRow == [beat |-> -1, load |-> 0, sessions |-> 0]

Idle == [running |-> FALSE, request |-> "register", due |-> 0, failed |-> FALSE]

NoFleetCall == [step |-> "done", id |-> 0]

FleetInit ==
  /\ now = 0
  /\ fleetRows = [i \in Servers \cup Instances |-> NoRow]
  /\ server = [s \in Servers |-> Idle]
  /\ ec2 = {}
  /\ fleetCall = [c \in FleetCalls |-> NoFleetCall]
  /\ fleetFaults = 0
  /\ strayed = {}

Registered(i) == fleetRows[i] # NoRow

FleetFault == fleetFaults < MaxFleetFaults /\ fleetFaults' = fleetFaults + 1

\* The process starts and makes its first call at once.
StartServer(s) ==
  /\ ~server[s].running
  /\ server' = [server EXCEPT ![s] = [Idle EXCEPT !.running = TRUE, !.due = now]]
  /\ UNCHANGED <<now, fleetRows, ec2, fleetCall, fleetFaults, strayed>>

\* shutdown: the row stays until nobody looks at it any more.
StopServer(s) ==
  /\ server[s].running
  /\ server' = [server EXCEPT ![s] = Idle]
  /\ UNCHANGED <<now, fleetRows, ec2, fleetCall, fleetFaults, strayed>>

Due(s, request) == server[s].running /\ server[s].due = now /\ server[s].request = request

\* PgRelayStore.insert: a new row, or one that is available again.
insertRelay(i) == [fleetRows EXCEPT ![i].beat = now]

\* PgEgressStore.insert
insertGateway(i) == [fleetRows EXCEPT ![i].beat = now]

\* PgRelayStore.heartbeat updates a row that is there.
heartbeatRelay(i, measure) ==
  IF Registered(i)
  THEN [fleetRows EXCEPT ![i] = [beat |-> now, load |-> measure[1], sessions |-> measure[2]]]
  ELSE fleetRows

\* PgEgressStore.heartbeat
heartbeatGateway(i, measure) ==
  IF Registered(i)
  THEN [fleetRows EXCEPT ![i] = [beat |-> now, load |-> measure[1], sessions |-> measure[2]]]
  ELSE fleetRows

\* The process goes on to its heartbeat request, or waits for the next interval.
Then(s, request) ==
  server' = [server EXCEPT ![s].request = request,
                           ![s].due = IF request = "register" THEN now + Period ELSE now,
                           ![s].failed = request = "heartbeat" /\ @]

\* POST /api/v1/relays/register
RegisterRelay(s) ==
  /\ s \in FixedRelays /\ Due(s, "register")
  /\ fleetRows' = insertRelay(s)
  /\ Then(s, "heartbeat")
  /\ UNCHANGED <<now, ec2, fleetCall, fleetFaults, strayed>>

\* POST /api/v1/relays/:id/heartbeat
RelayHeartbeat(s) ==
  /\ s \in FixedRelays /\ Due(s, "heartbeat")
  /\ \E measure \in Measures : fleetRows' = heartbeatRelay(s, measure)
  /\ Then(s, "register")
  /\ UNCHANGED <<now, ec2, fleetCall, fleetFaults, strayed>>

\* POST /api/v1/egress/register
RegisterGateway(s) ==
  /\ s \in Gateways /\ Due(s, "register")
  /\ fleetRows' = insertGateway(s)
  /\ Then(s, "heartbeat")
  /\ UNCHANGED <<now, ec2, fleetCall, fleetFaults, strayed>>

\* POST /api/v1/egress/:id/heartbeat
GatewayHeartbeat(s) ==
  /\ s \in Gateways /\ Due(s, "heartbeat")
  /\ \E measure \in Measures : fleetRows' = heartbeatGateway(s, measure)
  /\ Then(s, "register")
  /\ UNCHANGED <<now, ec2, fleetCall, fleetFaults, strayed>>

\* A request of a relay or gateway fails, perhaps only its answer; the error is
\* logged and the next interval makes both requests again.
RequestFails(s, after) ==
  /\ FleetFault
  /\ fleetRows' \in {fleetRows, after}
  /\ server' = [server EXCEPT ![s] = [Idle EXCEPT !.running = TRUE, !.due = now + Period, !.failed = TRUE]]
  /\ UNCHANGED <<now, ec2, fleetCall, strayed>>

RelayRequestFails(s) ==
  /\ s \in FixedRelays
  /\ \/ Due(s, "register") /\ RequestFails(s, insertRelay(s))
     \/ Due(s, "heartbeat") /\ \E measure \in Measures : RequestFails(s, heartbeatRelay(s, measure))

GatewayRequestFails(s) ==
  /\ s \in Gateways
  /\ \/ Due(s, "register") /\ RequestFails(s, insertGateway(s))
     \/ Due(s, "heartbeat") /\ \E measure \in Measures : RequestFails(s, heartbeatGateway(s, measure))

FleetTick ==
  /\ now < MaxTime
  /\ \A s \in Servers : server[s].running => server[s].due > now
  /\ now' = now + 1
  /\ UNCHANGED <<fleetRows, server, ec2, fleetCall, fleetFaults, strayed>>

-----------------------------------------------------------------------------
CallStep(c, s, i) == fleetCall' = [fleetCall EXCEPT ![c] = [step |-> s, id |-> i]]

CallDone(c) == fleetCall' = [fleetCall EXCEPT ![c] = NoFleetCall]

\* AwsEc2RelayProvisioner.launch, its RunInstances.
launch(c) ==
  /\ fleetCall[c].step = "done"
  /\ \E i \in Instances :
       /\ i \notin ec2 /\ ~Registered(i) /\ i \notin strayed
       /\ \A d \in FleetCalls : fleetCall[d].id # i
       /\ ec2' = ec2 \cup {i}
       /\ CallStep(c, "insert", i)
  /\ UNCHANGED <<now, fleetRows, server, fleetFaults, strayed>>

\* pollForPublicIp has an address, and PgRelayStore.insert adds the row.
insertProvisioned(c) ==
  /\ fleetCall[c].step = "insert"
  /\ fleetRows' = [fleetRows EXCEPT ![fleetCall[c].id] = [beat |-> now, load |-> 0, sessions |-> 0]]
  /\ CallDone(c)
  /\ UNCHANGED <<now, server, ec2, fleetFaults, strayed>>

\* POST /api/v1/relays/:id/terminate reads the row and needs an instance.
terminateRelay(c) ==
  /\ fleetCall[c].step = "done"
  /\ \E i \in Instances : Registered(i) /\ CallStep(c, "terminate", i)
  /\ UNCHANGED <<now, fleetRows, server, ec2, fleetFaults, strayed>>

\* Variant of terminateInstance: the row goes first, the instance later.
terminateInstanceLater(c) ==
  /\ fleetCall[c].step = "terminate"
  /\ fleetRows' = [fleetRows EXCEPT ![fleetCall[c].id] = NoRow]
  /\ CallStep(c, "remove", fleetCall[c].id)
  /\ UNCHANGED <<now, server, ec2, fleetFaults, strayed>>

\* AwsEc2RelayProvisioner.terminate
terminateInstance(c) ==
  /\ fleetCall[c].step = "terminate"
  /\ ec2' = ec2 \ {fleetCall[c].id}
  /\ CallStep(c, "remove", fleetCall[c].id)
  /\ UNCHANGED <<now, fleetRows, server, fleetFaults, strayed>>

\* PgRelayStore.remove
removeRelay(c) ==
  /\ fleetCall[c].step = "remove"
  /\ fleetRows' = [fleetRows EXCEPT ![fleetCall[c].id] = NoRow]
  /\ CallDone(c)
  /\ UNCHANGED <<now, server, ec2, fleetFaults, strayed>>

\* No public address in time, a failing statement, or the control plane ends.
FleetCallFails(c) ==
  /\ FleetFault
  /\ fleetCall[c].step # "done"
  /\ CallDone(c)
  /\ strayed' = IF fleetCall[c].step = "insert" THEN strayed \cup {fleetCall[c].id} ELSE strayed
  /\ UNCHANGED <<now, fleetRows, server, ec2>>

ServerNext == \E s \in Servers :
  \/ StartServer(s) \/ StopServer(s) \/ RegisterRelay(s) \/ RelayHeartbeat(s)
  \/ RegisterGateway(s) \/ GatewayHeartbeat(s) \/ RelayRequestFails(s) \/ GatewayRequestFails(s)

ProvisionNext(calls) == \E c \in calls :
  \/ launch(c) \/ insertProvisioned(c) \/ terminateRelay(c) \/ terminateInstance(c)
  \/ removeRelay(c) \/ FleetCallFails(c)

FleetNext == ServerNext \/ ProvisionNext(FleetCalls) \/ FleetTick

FleetSpec == FleetInit /\ [][FleetNext]_fleetVars
-----------------------------------------------------------------------------
\* Variant of RelayCandidates: relays are as short-lived as gateways.
RelayCandidatesShort == {i \in RelayIds : Registered(i) /\ now - fleetRows[i].beat < Period}

\* PgRelayStore.candidates
RelayCandidates == {i \in RelayIds : Registered(i) /\ now - fleetRows[i].beat < FreshRelay}

\* What a relay announces as capacity_mbps: its limit on sessions by twenty, at least one.
capacityMbps == Max({1, (RelaySessions + 10) \div 20})

Utilization(sessions, limit) == IF limit > 0 THEN Min({100, (sessions * 100) \div limit}) ELSE 0

\* toHealth of pg-relay-store.ts; a provisioned relay keeps the default of 1000 Mbps.
RelayUtilization(i) ==
  Utilization(fleetRows[i].sessions, 20 * (IF i \in Instances THEN 1000 ELSE capacityMbps))

\* toGateway of pg-egress-store.ts
GatewayUtilization(g) == Utilization(fleetRows[g].sessions, GatewaySessions)

\* RelayRoutingService.healthy
healthyRelay(i) == i \in RelayCandidates /\ fleetRows[i].load < 95 /\ RelayUtilization(i) < 95

\* RelayRoutingService.penalty; the latency a relay reports is taken before its call
\* is sent, so it adds nothing.
penalty(i) == fleetRows[i].load + 2 * RelayUtilization(i)

scoreRelay(i) == (IF i \in LocalRelays THEN 800 ELSE 600) - penalty(i)

\* MeshController.selectRelayEndpoint: a best-scored relay, or none.
selectRelayEndpoint ==
  LET alive == {i \in RelayIds : healthyRelay(i)}
  IN  {i \in alive : \A j \in alive : scoreRelay(j) <= scoreRelay(i)}

\* PgEgressStore.candidates
GatewayCandidates == {g \in Gateways : Registered(g) /\ now - fleetRows[g].beat < FreshGateway}

\* EgressSelector.select filters them; which one it prefers is left open.
selectEgress == {g \in GatewayCandidates : fleetRows[g].load < 95 /\ GatewayUtilization(g) < 95}

\* The variables have their types.
FleetTypeOK ==
  /\ now \in 0..MaxTime
  /\ \A i \in Servers \cup Instances : fleetRows[i].beat \in -1..now
  /\ \A s \in Servers : server[s].due \in 0..(now + Period) /\ server[s].request \in {"register", "heartbeat"}
  /\ ec2 \cup strayed \subseteq Instances
  /\ \A c \in FleetCalls : fleetCall[c].step \in {"done", "insert", "terminate", "remove"}
  /\ fleetFaults \in 0..MaxFleetFaults

\* A process that runs and whose last calls succeeded.
Live(s) ==
  /\ server[s].running /\ ~server[s].failed
  /\ Registered(s) /\ fleetRows[s].beat >= server[s].due - Period

\* A process below its own limits.
Roomy(s, limit) == fleetRows[s].load < 95 /\ fleetRows[s].sessions * 100 < 95 * limit

\* While some relay lives that is below 95% of its load and of its limit on sessions
\* (RELAY_MAX_SESSIONS rounded to a multiple of 20, as it travels in megabits per
\* second), a node is always given a relay heard from within 45 seconds, also when
\* the next heartbeat is due and not there yet.  A live gateway can be selected too,
\* but not in the moment its heartbeat is due, since EgressSelector's 30 seconds are
\* the heartbeat's period.
LiveServersAreSelected ==
  /\ (\E r \in FixedRelays : Live(r) /\ Roomy(r, 20 * capacityMbps)) => selectRelayEndpoint # {}
  /\ \A r \in selectRelayEndpoint : now - fleetRows[r].beat < FreshRelay
  /\ \A g \in Gateways : Live(g) /\ Roomy(g, GatewaySessions) /\ server[g].due > now => g \in selectEgress

\* Every EC2 instance that runs has a row to terminate it by, or is still being
\* provisioned, unless its provisioning failed after the launch: terminating never
\* forgets an instance, however two requests and a failure interleave.
InstancesAreKnown ==
  \A i \in ec2 : Registered(i) \/ i \in strayed \/ \E c \in FleetCalls : fleetCall[c] = [step |-> "insert", id |-> i]
=============================================================================
