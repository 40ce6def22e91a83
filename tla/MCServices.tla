----------------------------- MODULE MCServices ------------------------------
(***************************************************************************)
(* The services around the rollout and the mesh, for TLC.  They share no   *)
(* variable, so exploring their product would only multiply their states:  *)
(* each behaviour explores one of them, chosen by "part", and the others   *)
(* stay where they start.  Their state spaces add up.  The fleet is        *)
(* explored with one request to provision or terminate, and again without  *)
(* its processes and with all the requests.                                *)
(***************************************************************************)
EXTENDS Gateway, OutOfBand, AuditChain, Outbox, Migrations, Retention, TrustCore,
        TransitFleet, EgressProxy, HostEnrolment, SecureDns

VARIABLE part    \* the service, or the route of the gateway, this behaviour explores

\* Requests per window, per route.
MCLimits == [lockdown |-> 2, policy |-> 2]

\* <<CPU load, sessions>> of a relay or gateway that is nearly full, and of one that
\* is overloaded.
MCMeasures == {<<94, 18>>, <<95, 0>>}

\* The names each threat feed contains.
MCFeeds == <<{2}, {3}>>

Services == {"oob", "audit", "outbox", "migrations", "retention", "trust", "fleet",
             "provision", "egress", "host", "dns"}

services == <<gatewayVars, oobVars, auditVars, outboxVars, migrationVars, retentionVars,
              trustVars, fleetVars, egressVars, hostVars, dnsVars, part>>

ServicesInit ==
  /\ part \in Routes \cup Services
  /\ GatewayInit /\ OobInit /\ AuditInit /\ OutboxInit /\ MigrationInit
  /\ RetentionInit /\ TrustInit /\ FleetInit
  /\ EgressInit /\ HostInit /\ DnsInit

RestExcept(moved) ==
  /\ moved # "gateway" => UNCHANGED gatewayVars
  /\ moved # "oob" => UNCHANGED oobVars
  /\ moved # "audit" => UNCHANGED auditVars
  /\ moved # "outbox" => UNCHANGED outboxVars
  /\ moved # "migrations" => UNCHANGED migrationVars
  /\ moved # "retention" => UNCHANGED retentionVars
  /\ moved # "trust" => UNCHANGED trustVars
  /\ moved # "fleet" => UNCHANGED fleetVars
  /\ moved # "egress" => UNCHANGED egressVars
  /\ moved # "host" => UNCHANGED hostVars
  /\ moved # "dns" => UNCHANGED dnsVars
  /\ UNCHANGED part

ServicesNext ==
  \/ part \in Routes /\ GatewayNext({part}) /\ RestExcept("gateway")
  \/ part = "oob" /\ OobNext /\ RestExcept("oob")
  \/ part = "audit" /\ AuditNext /\ RestExcept("audit")
  \/ part = "outbox" /\ OutboxNext /\ RestExcept("outbox")
  \/ part = "migrations" /\ MigrationNext /\ RestExcept("migrations")
  \/ part = "retention" /\ RetentionNext /\ RestExcept("retention")
  \/ part = "trust" /\ TrustNext /\ RestExcept("trust")
  \/ part = "fleet" /\ (ServerNext \/ ProvisionNext({1}) \/ FleetTick) /\ RestExcept("fleet")
  \/ part = "provision" /\ (ProvisionNext(FleetCalls) \/ FleetTick) /\ RestExcept("fleet")
  \/ part = "egress" /\ EgressNext /\ RestExcept("egress")
  \/ part = "host" /\ HostNext /\ RestExcept("host")
  \/ part = "dns" /\ DnsNext /\ RestExcept("dns")

\* While the outbox is explored, the maintenance worker's loop goes on.
ServicesSpec ==
  /\ ServicesInit
  /\ [][ServicesNext]_services
  /\ \A d \in Dispatchers :
       WF_services(/\ part = "outbox"
                   /\ flush(d) \/ send(d) \/ CommitFlush(d)
                   /\ RestExcept("outbox"))

\* The variables of every service have their types.
ServicesTypeOK ==
  /\ GatewayTypeOK /\ OobTypeOK /\ AuditTypeOK /\ OutboxTypeOK /\ MigrationTypeOK
  /\ RetentionTypeOK /\ TrustTypeOK /\ FleetTypeOK
  /\ EgressTypeOK /\ HostTypeOK /\ DnsTypeOK
=============================================================================
