--------------------------- MODULE MeshMembership ---------------------------
(***************************************************************************)
(* Joining the mesh and changing keys.                                     *)
(*                                                                         *)
(* A host enrols over gRPC: it generates keys, the control plane leases    *)
(* it addresses, stores a device and a node in one transaction, issues a   *)
(* certificate and tells the other nodes.  Later the host rotates its      *)
(* WireGuard key when a ROTATE_IDENTITY_REQUIRED command asks it to.       *)
(*                                                                         *)
(* The gRPC server handles calls side by side, each a sequence of database *)
(* statements.  All of them go through one PgRepositories object, and its  *)
(* transaction() keeps the client of the open transaction in a field of    *)
(* that object: statements of other calls find it there and run in that    *)
(* transaction too.                                                        *)
(***************************************************************************)
EXTENDS Integers, Sequences, FiniteSets, FiniteSetsExt

CONSTANTS
  Hosts,        \* hosts, numbers; the least is enrolled from the start
  Calls,        \* slots for calls the gRPC server handles, positive numbers
  PoolSize,     \* leases of the address pool, 1..PoolSize
  MaxKeys,      \* bound on the WireGuard keys that are generated
  MaxAttempts,  \* attempts of PgKeyRotationLedger.rotate (5 in the code)
  MaxFaults     \* bound on failures

ASSUME MeshAssumption ==
  /\ Hosts # {} /\ Hosts \subseteq Nat /\ Calls \subseteq Nat \ {0}
  /\ PoolSize \in Nat \ {0} /\ MaxKeys \in Nat /\ MaxAttempts \in Nat \ {0} /\ MaxFaults \in Nat

VARIABLES
  devices,      \* the committed devices rows: <<hardware, id>>
  nodes,        \* per host, its committed mesh_nodes row
  certificates, \* hosts with a certificates row
  ledger,       \* key_rotations: <<host, epoch, key>>
  rotations,    \* per host, its pending ROTATE_IDENTITY_REQUIRED commands
  tx,           \* PgRepositories.tx: the call whose client it is, 0 when undefined
  client,       \* per call, the transaction of its client
  call,         \* per slot, the call under way
  host,         \* per host, what it has installed, and its call
  operator,     \* PUT /nodes/:id/region under way: the row it read
  keys,         \* WireGuard keys generated so far: 1..keys
  faults,
  told,         \* history: per host, the hosts it was ever told about
  acks,         \* history: <<host, epoch, key>> of the answered rotations
  foreign,      \* history: a statement ran in the transaction of another call
  lost,         \* history: a call failed after its first effect, or its answer was lost
  overwritten   \* history: a node row was saved that had changed since it was read

tables == <<devices, nodes, certificates, ledger, rotations>>
session == <<tx, client>>
history == <<told, acks, foreign, lost, overwritten>>
vars == <<tables, session, call, host, operator, keys, faults, history>>

First == Min(Hosts)
NoRow == [in |-> FALSE, device |-> 0, lease |-> 0, key |-> 0, region |-> 0]
NoClient == [open |-> FALSE, aborted |-> FALSE, devices |-> {}, nodes |-> [h \in Hosts |-> NoRow]]
NoCall == [step |-> "none", who |-> First, key |-> 0, saved |-> 0, row |-> NoRow, peers |-> {},
           todo |-> {}, attempts |-> 0, epoch |-> 0]

Init ==
  LET row == [NoRow EXCEPT !.in = TRUE, !.device = 1, !.lease = 1, !.key = 1]
  IN  /\ devices = {<<First, 1>>}
      /\ nodes = [h \in Hosts |-> IF h = First THEN row ELSE NoRow]
      /\ certificates = {First}
      /\ ledger = {}
      /\ rotations = [h \in Hosts |-> 0]
      /\ tx = 0 /\ client = [c \in Calls |-> NoClient]
      /\ call = [c \in Calls |-> NoCall]
      /\ host = [h \in Hosts |-> [up |-> h = First, key |-> nodes[h].key, waits |-> 0]]
      /\ operator = [of |-> First, row |-> NoRow]
      /\ keys = 1 /\ faults = 0
      /\ told = [h \in Hosts |-> {}] /\ acks = {}
      /\ foreign = FALSE /\ lost = FALSE /\ overwritten = FALSE

-----------------------------------------------------------------------------
(* PgRepositories: where a statement runs, and what it sees there.         *)

\* q(): the client in tx, or the pool.  On a client whose transaction has ended each
\* statement commits by itself, as on the pool.
q == tx # 0 /\ client[tx].open
SeenDevices == IF q THEN devices \cup client[tx].devices ELSE devices
SeenNodes == [h \in Hosts |-> IF q /\ client[tx].nodes[h].in THEN client[tx].nodes[h] ELSE nodes[h]]
Enrolled == {h \in Hosts : SeenNodes[h].in}
Hardware(rows) == {d[1] : d \in rows}

\* The statement runs where another call's transaction is, or outside its own.
Strays(c) == foreign' = (foreign \/ (tx # 0 /\ tx # c) \/ (client[c].open /\ tx # c))

\* A transaction that an error has aborted refuses every further statement.
Refused == q /\ client[tx].aborted

At(c, step) == call[c].step = step
Goto(c, step) == call' = [call EXCEPT ![c].step = step]
Waiting(c) == call[c].who \in {h \in Hosts : host[h].waits = c}

\* The call answers its host with an error.  A host that was rotating acknowledges its
\* command as failed.
Throw(c) ==
  LET h == call[c].who
  IN  /\ call' = [call EXCEPT ![c] = NoCall]
      /\ host' = IF Waiting(c) THEN [host EXCEPT ![h].waits = 0] ELSE host
      /\ rotations' = IF Waiting(c) /\ host[h].up THEN [rotations EXCEPT ![h] = 0] ELSE rotations

\* transaction(): the client of this call takes the place of whatever is in tx ...
Begin(c) ==
  /\ At(c, "begin")
  /\ client' = [client EXCEPT ![c].open = TRUE]
  /\ tx' = c
  /\ call' = [call EXCEPT ![c].step = "device", ![c].saved = tx]
  /\ UNCHANGED <<tables, host, operator, keys, faults, history>>

\* ... which comes back at the end, before COMMIT.
Restore(c) ==
  /\ At(c, "restore")
  /\ tx' = call[c].saved
  /\ Goto(c, "commit")
  /\ UNCHANGED <<tables, client, host, operator, keys, faults, history>>

\* COMMIT of an aborted transaction rolls it back and reports no error.
Commit(c) ==
  /\ At(c, "commit")
  /\ client' = [client EXCEPT ![c] = NoClient]
  /\ IF client[c].aborted THEN UNCHANGED <<devices, nodes>>
     ELSE /\ devices' = devices \cup client[c].devices
          /\ nodes' = [h \in Hosts |-> IF client[c].nodes[h].in THEN client[c].nodes[h] ELSE nodes[h]]
  /\ Goto(c, "certificate")
  /\ UNCHANGED <<certificates, ledger, rotations, tx, host, operator, keys, faults, history>>

\* Variant of Rollback: the client goes back to the pool with its transaction open.
RollbackKeeping(c) ==
  /\ tx' = call[c].saved
  /\ Throw(c)
  /\ UNCHANGED <<devices, nodes, certificates, ledger, client>>

\* An error inside the transaction: it is rolled back, and aborted is the transaction in
\* which the failing statement ran.
Rollback(c) ==
  /\ tx' = IF At(c, "commit") THEN tx ELSE call[c].saved
  /\ client' = [d \in Calls |-> IF d = c THEN NoClient
                                ELSE IF q /\ d = tx /\ ~At(c, "commit") THEN [client[d] EXCEPT !.aborted = TRUE]
                                ELSE client[d]]
  /\ Throw(c)
  /\ UNCHANGED <<devices, nodes, certificates, ledger>>

-----------------------------------------------------------------------------
(* RegisterNode.                                                           *)

\* enrollNode: the host generates its keys and calls.
Enrol(h, c) ==
  /\ ~host[h].up /\ host[h].waits = 0 /\ keys < MaxKeys
  /\ keys' = keys + 1
  /\ At(c, "none")
  /\ host' = [host EXCEPT ![h].waits = c]
  /\ call' = [call EXCEPT ![c] = [NoCall EXCEPT !.step = "lease", !.who = h, !.key = keys']]
  /\ UNCHANGED <<tables, session, operator, faults, history>>

\* AddressAllocator.next: the first lease that no listed node has.
next == LET free == 1..PoolSize \ {SeenNodes[h].lease : h \in Enrolled}
        IN  IF free = {} THEN 0 ELSE Min(free)

Lease(c) ==
  /\ At(c, "lease")
  /\ Strays(c)
  /\ IF Refused \/ next = 0 THEN Throw(c)
     ELSE /\ call' = [call EXCEPT ![c].step = "checks", ![c].row =
                        [NoRow EXCEPT !.in = TRUE, !.device = call[c].key, !.lease = next,
                                      !.key = call[c].key]]
          /\ UNCHANGED <<host, rotations>>
  /\ UNCHANGED <<devices, nodes, certificates, ledger, session, operator, keys, faults,
                 told, acks, lost, overwritten>>

\* EnrollmentService.register: hardware enrolled before is a ConflictError.
Checks(c) ==
  /\ At(c, "checks")
  /\ Strays(c)
  /\ IF Refused \/ call[c].who \in Hardware(SeenDevices) THEN Throw(c)
     ELSE Goto(c, "begin") /\ UNCHANGED <<host, rotations>>
  /\ UNCHANGED <<devices, nodes, certificates, ledger, session, operator, keys, faults,
                 told, acks, lost, overwritten>>

\* The device of this registration: each generates an id of its own, numbered here as
\* the key that the host generated for it.
Device(c) == <<call[c].who, call[c].key>>

\* The unique indexes of devices and mesh_nodes: an INSERT waits for another open
\* transaction that holds the same hardware or address, and fails when a row does.
Others == {d \in Calls : client[d].open /\ ~(q /\ tx = d)}
HardwareHeld(c) == \E d \in Others : call[c].who \in Hardware(client[d].devices)
LeaseHeld(c) == \E d \in Others, g \in Hosts :
                  client[d].nodes[g].in /\ client[d].nodes[g].lease = call[c].row.lease

\* Variant of SaveDevice: the device is saved outside the transaction.
SaveDeviceAtOnce(c) ==
  /\ At(c, "device")
  /\ devices' = devices \cup {Device(c)}
  /\ Goto(c, "node")
  /\ UNCHANGED <<nodes, certificates, ledger, rotations, session, host, operator, keys, faults, history>>

SaveDevice(c) ==
  /\ At(c, "device")
  /\ ~HardwareHeld(c)
  /\ Strays(c)
  /\ IF Refused \/ call[c].who \in Hardware(SeenDevices) THEN Rollback(c)
     ELSE /\ IF q THEN client' = [client EXCEPT ![tx].devices = @ \cup {Device(c)}] /\ UNCHANGED devices
                  ELSE devices' = devices \cup {Device(c)} /\ UNCHANGED client
          /\ Goto(c, "node")
          /\ UNCHANGED <<nodes, certificates, ledger, rotations, tx, host>>
  /\ UNCHANGED <<operator, keys, faults, told, acks, lost, overwritten>>

\* Variant of Conflict: mesh_nodes has no unique address.
ConflictNever(c) == Device(c) \notin SeenDevices

\* mesh_nodes refers to the device of this registration, and has unique addresses.
Conflict(c) ==
  \/ Device(c) \notin SeenDevices
  \/ \E g \in Enrolled : SeenNodes[g].lease = call[c].row.lease

SaveNode(c) ==
  /\ At(c, "node")
  /\ ~LeaseHeld(c)
  /\ Strays(c)
  /\ IF Refused \/ Conflict(c) THEN Rollback(c)
     ELSE /\ IF q THEN client' = [client EXCEPT ![tx].nodes[call[c].who] = call[c].row] /\ UNCHANGED nodes
                  ELSE nodes' = [nodes EXCEPT ![call[c].who] = call[c].row] /\ UNCHANGED client
          /\ Goto(c, "restore")
          /\ UNCHANGED <<devices, certificates, ledger, rotations, tx, host>>
  /\ UNCHANGED <<operator, keys, faults, told, acks, lost, overwritten>>

\* TrustCoreIssuer.issueNode: the row refers to the committed node of this registration.
IssueCertificate(c) ==
  /\ At(c, "certificate")
  /\ IF ~nodes[call[c].who].in \/ nodes[call[c].who].device # call[c].key
     THEN Throw(c) /\ lost' = TRUE /\ UNCHANGED certificates
     ELSE /\ certificates' = certificates \cup {call[c].who}
          /\ Goto(c, "list")
          /\ UNCHANGED <<host, rotations, lost>>
  /\ UNCHANGED <<devices, nodes, ledger, session, operator, keys, faults, told, acks, foreign, overwritten>>

\* Variant of ListPeers: the distributor of development tells nobody.
ListPeersNoop(c) ==
  /\ At(c, "list")
  /\ call' = [call EXCEPT ![c].step = "reply", ![c].peers = Enrolled \ {call[c].who}]
  /\ UNCHANGED <<tables, session, host, operator, keys, faults, history>>

ListPeers(c) ==
  /\ At(c, "list")
  /\ Strays(c)
  /\ IF Refused THEN Throw(c) /\ lost' = TRUE
     ELSE LET peers == Enrolled \ {call[c].who}
          IN  /\ call' = [call EXCEPT ![c].step = IF peers = {} THEN "reply" ELSE "configure",
                                      ![c].peers = peers, ![c].todo = peers]
              /\ UNCHANGED <<host, rotations, lost>>
  /\ UNCHANGED <<devices, nodes, certificates, ledger, session, operator, keys, faults, told, acks, overwritten>>

\* MeshController.planFor, for nodes of one zone: everyone else.  reconcile queues it as
\* an APPLY_PEERS command.
planFor(h, all) == all \ {h}
reconcile(h, all) == told' = [told EXCEPT ![h] = @ \cup planFor(h, all)]

\* MeshControllerPeerDistributor.configure: every node listed, one by one.
Configure(c) ==
  /\ At(c, "configure")
  /\ LET peer == Min(call[c].todo)
     IN  /\ reconcile(peer, call[c].peers \cup {call[c].who})
         /\ call' = [call EXCEPT ![c].todo = @ \ {peer},
                                 ![c].step = IF call[c].todo = {peer} THEN "reply" ELSE @]
  /\ UNCHANGED <<tables, session, host, operator, keys, faults, acks, foreign, lost, overwritten>>

\* The host gets its answer, brings the interface up with its key and the peers, and
\* stores the keys; or it no longer waits.
Reply(c) ==
  LET h == call[c].who
  IN  /\ At(c, "reply")
      /\ call' = [call EXCEPT ![c] = NoCall]
      /\ IF Waiting(c)
         THEN /\ host' = [host EXCEPT ![h].up = TRUE, ![h].key = call[c].key, ![h].waits = 0]
              /\ told' = [told EXCEPT ![h] = @ \cup call[c].peers]
         ELSE UNCHANGED <<host, told>>
      /\ UNCHANGED <<tables, session, operator, keys, faults, acks, foreign, lost, overwritten>>

-----------------------------------------------------------------------------
(* RotatePeerKey, and who asks for it.                                     *)

\* KeyRotationSchedulerService.run: the nodes whose last rotation is too old, unless a
\* command is pending.  A node that never rotated is not in the ledger.
nodesOverdueForRotation == {h \in Hosts : \E r \in ledger : r[1] = h}

Ask(h) ==
  /\ rotations[h] = 0
  /\ rotations' = [rotations EXCEPT ![h] = 1]
  /\ UNCHANGED <<devices, nodes, certificates, ledger, session, call, host, operator, keys, faults, history>>

SchedulerRun == \E h \in nodesOverdueForRotation : Ask(h)

\* PgThreatActionPort.rotateMeshIdentity, for any enrolled node.
ThreatRotation == \E h \in Hosts : nodes[h].in /\ Ask(h)

\* streamHeartbeat hands one command out, as an action of mesh.proto, and acknowledges
\* it: the stream's reader rotates nothing here.
StreamHeartbeat(h) ==
  /\ rotations[h] > 0 /\ host[h].waits = 0
  /\ rotations' = [rotations EXCEPT ![h] = 0]
  /\ UNCHANGED <<devices, nodes, certificates, ledger, session, call, host, operator, keys, faults, history>>

\* Variant of Rotate: the host switches its interface over before it asks.
RotateFirst(h, c) ==
  /\ host[h].up /\ host[h].waits = 0 /\ rotations[h] > 0 /\ keys < MaxKeys
  /\ keys' = keys + 1
  /\ At(c, "none")
  /\ host' = [host EXCEPT ![h].waits = c, ![h].key = keys']
  /\ call' = [call EXCEPT ![c] = [NoCall EXCEPT !.step = "read", !.who = h, !.key = keys']]
  /\ UNCHANGED <<tables, session, operator, faults, history>>

\* ProductionAgent.execute: a new key, signed with the identity key, goes to the server.
Rotate(h, c) ==
  /\ host[h].up /\ host[h].waits = 0 /\ rotations[h] > 0 /\ keys < MaxKeys
  /\ keys' = keys + 1
  /\ At(c, "none")
  /\ host' = [host EXCEPT ![h].waits = c]
  /\ call' = [call EXCEPT ![c] = [NoCall EXCEPT !.step = "read", !.who = h, !.key = keys']]
  /\ UNCHANGED <<tables, session, operator, faults, history>>

\* rotatePeerKey: the node, its device and its signature, and that nobody has the key.
ReadNode(c) ==
  /\ At(c, "read")
  /\ Strays(c)
  /\ IF Refused \/ call[c].who \notin Enrolled THEN Throw(c)
     ELSE /\ call' = [call EXCEPT ![c].step = "epoch", ![c].row = SeenNodes[call[c].who]]
          /\ UNCHANGED <<host, rotations>>
  /\ UNCHANGED <<devices, nodes, certificates, ledger, session, operator, keys, faults,
                 told, acks, lost, overwritten>>

\* PgKeyRotationLedger.rotate: the highest epoch, then an INSERT of the next one, again
\* when another rotation took it.
ReadEpoch(c) ==
  /\ At(c, "epoch")
  /\ call' = [call EXCEPT ![c].step = "insert",
                          ![c].epoch = 1 + Max({0} \cup {r[2] : r \in {s \in ledger : s[1] = call[c].who}})]
  /\ UNCHANGED <<tables, session, host, operator, keys, faults, history>>

Taken(c) == \E r \in ledger : r[1] = call[c].who /\ r[2] = call[c].epoch

\* Variant of InsertEpoch: a conflict goes unnoticed.
InsertEpochIgnoring(c) ==
  /\ At(c, "insert")
  /\ ledger' = IF Taken(c) THEN ledger ELSE ledger \cup {<<call[c].who, call[c].epoch, call[c].key>>}
  /\ Goto(c, "saveKey")
  /\ UNCHANGED <<devices, nodes, certificates, rotations, session, host, operator, keys, faults, history>>

InsertEpoch(c) ==
  /\ At(c, "insert")
  /\ IF ~Taken(c)
     THEN /\ ledger' = ledger \cup {<<call[c].who, call[c].epoch, call[c].key>>}
          /\ Goto(c, "saveKey")
          /\ UNCHANGED <<host, rotations>>
     ELSE /\ IF call[c].attempts + 1 = MaxAttempts THEN Throw(c)
             ELSE /\ call' = [call EXCEPT ![c].step = "epoch", ![c].attempts = @ + 1]
                  /\ UNCHANGED <<host, rotations>>
          /\ UNCHANGED ledger
  /\ UNCHANGED <<devices, nodes, certificates, session, operator, keys, faults, history>>

\* saveNode writes the whole row, as it was read, with the new key.
SaveKey(c) ==
  LET h == call[c].who
      row == [call[c].row EXCEPT !.key = call[c].key]
  IN  /\ At(c, "saveKey")
      /\ Strays(c)
      /\ IF Refused THEN Throw(c) /\ lost' = TRUE /\ UNCHANGED <<nodes, client, overwritten>>
         ELSE /\ IF q THEN client' = [client EXCEPT ![tx].nodes[h] = row] /\ UNCHANGED nodes
                      ELSE nodes' = [nodes EXCEPT ![h] = row] /\ UNCHANGED client
              /\ overwritten' = (overwritten \/ SeenNodes[h] # call[c].row)
              /\ Goto(c, "replan")
              /\ UNCHANGED <<host, rotations, lost>>
      /\ UNCHANGED <<devices, certificates, ledger, tx, operator, keys, faults, told, acks>>

\* The rotated node, and only it, is sent its plan again.
Replan(c) ==
  /\ At(c, "replan")
  /\ Strays(c)
  /\ IF Refused THEN Throw(c) /\ lost' = TRUE /\ UNCHANGED told
     ELSE reconcile(call[c].who, Enrolled) /\ Goto(c, "answer") /\ UNCHANGED <<host, rotations, lost>>
  /\ UNCHANGED <<devices, nodes, certificates, ledger, session, operator, keys, faults, acks, overwritten>>

\* The host is told the epoch, switches its interface to the new key and acknowledges.
Answer(c) ==
  LET h == call[c].who
  IN  /\ At(c, "answer")
      /\ call' = [call EXCEPT ![c] = NoCall]
      /\ acks' = acks \cup {<<h, call[c].epoch, call[c].key>>}
      /\ IF Waiting(c) THEN /\ host' = [host EXCEPT ![h].key = call[c].key, ![h].waits = 0]
                            /\ rotations' = [rotations EXCEPT ![h] = 0]
                       ELSE UNCHANGED <<host, rotations>>
      /\ UNCHANGED <<devices, nodes, certificates, ledger, session, operator, keys, faults,
                     told, foreign, lost, overwritten>>
-----------------------------------------------------------------------------
(* PUT /nodes/:id/region, in the REST process: the row is read, and saved  *)
(* whole with the new region.                                              *)

PutRegionReads ==
  /\ ~operator.row.in
  /\ \E h \in Hosts : nodes[h].in /\ nodes[h].region = 0 /\ operator' = [of |-> h, row |-> nodes[h]]
  /\ UNCHANGED <<tables, session, call, host, keys, faults, history>>

PutRegionSaves ==
  /\ operator.row.in
  /\ nodes' = [nodes EXCEPT ![operator.of] = [operator.row EXCEPT !.region = 1]]
  /\ overwritten' = (overwritten \/ nodes[operator.of] # operator.row)
  /\ operator' = [of |-> First, row |-> NoRow]
  /\ UNCHANGED <<devices, certificates, ledger, rotations, session, call, host, keys, faults,
                 told, acks, foreign, lost>>

-----------------------------------------------------------------------------
(* What goes wrong.                                                        *)

Fault == faults < MaxFaults /\ faults' = faults + 1

\* A statement of the call fails, or the attestation.
Fail(c) ==
  /\ Fault
  /\ ~At(c, "none")
  /\ IF client[c].open THEN Rollback(c)
     ELSE Throw(c) /\ UNCHANGED <<session, devices, nodes, certificates, ledger>>
  /\ lost' = (lost \/ call[c].step \in {"certificate", "list", "configure", "reply", "saveKey", "replan", "answer"})
  /\ UNCHANGED <<operator, keys, told, acks, foreign, overwritten>>

\* The answer does not reach the host, or the host dies before it has acted on it.
LoseAnswer(h) ==
  /\ Fault
  /\ host[h].waits # 0
  /\ host' = [host EXCEPT ![h].waits = 0]
  /\ rotations' = IF host[h].up THEN [rotations EXCEPT ![h] = 0] ELSE rotations
  /\ lost' = TRUE
  /\ UNCHANGED <<devices, nodes, certificates, ledger, session, call, operator, keys, told, acks, foreign,
                 overwritten>>

\* The gRPC server's process ends: open transactions are rolled back.
Crash ==
  /\ Fault
  /\ \E c \in Calls : ~At(c, "none")
  /\ call' = [c \in Calls |-> NoCall]
  /\ tx' = 0 /\ client' = [c \in Calls |-> NoClient]
  /\ host' = [h \in Hosts |-> [host[h] EXCEPT !.waits = 0]]
  /\ rotations' = [h \in Hosts |-> IF host[h].up /\ host[h].waits # 0 THEN 0 ELSE rotations[h]]
  /\ lost' = TRUE
  /\ UNCHANGED <<devices, nodes, certificates, ledger, operator, keys, told, acks, foreign, overwritten>>

Statement(c) ==
  \/ Lease(c) \/ Checks(c) \/ Begin(c) \/ SaveDevice(c) \/ SaveNode(c) \/ Restore(c) \/ Commit(c)
  \/ IssueCertificate(c) \/ ListPeers(c) \/ Configure(c) \/ Reply(c)
  \/ ReadNode(c) \/ ReadEpoch(c) \/ InsertEpoch(c) \/ SaveKey(c) \/ Replan(c) \/ Answer(c)

Next ==
  \/ \E c \in Calls : Statement(c) \/ Fail(c) \/ \E h \in Hosts : Enrol(h, c) \/ Rotate(h, c)
  \/ SchedulerRun \/ ThreatRotation
  \/ \E h \in Hosts : StreamHeartbeat(h) \/ LoseAnswer(h)
  \/ PutRegionReads \/ PutRegionSaves \/ Crash

Spec == Init /\ [][Next]_vars

-----------------------------------------------------------------------------
TypeOK ==
  /\ devices \subseteq Hosts \X (1..keys) /\ certificates \subseteq Hosts
  /\ tx \in Calls \cup {0}
  /\ \A h \in Hosts : /\ nodes[h].lease \in 0..PoolSize
                      /\ host[h].waits # 0 => call[host[h].waits].who = h
  /\ \A c \in Calls : call[c].attempts < MaxAttempts /\ (client[c].open => ~At(c, "none"))

\* Two nodes never have the same address, although registrations that run side by side
\* read the same free lease: the unique index lets one through, and the other is rolled
\* back with its device.
LeasesAreDistinct ==
  \A g, h \in Hosts : g # h /\ nodes[g].in /\ nodes[h].in => nodes[g].lease # nodes[h].lease

\* EnrollmentService.register stores the device and the node together or not at all,
\* whatever fails or crashes in between; provided no statement ran in the transaction of
\* another call, through the shared tx of PgRepositories.
EnrolmentIsAtomic ==
  ~foreign => devices = {<<h, nodes[h].device>> : h \in {g \in Hosts : nodes[g].in}}

\* When no call is under way, every node was told of every other: of two hosts that enrol
\* side by side, the one that lists the nodes last finds the other.
NoNodeIsForgotten ==
  ~foreign /\ ~lost /\ (\A c \in Calls : At(c, "none")) =>
    \A g, h \in Hosts : g # h /\ nodes[g].in /\ nodes[h].in => h \in told[g]

\* Rotations of one node are answered with different epochs, also when two of them read
\* the same highest epoch: the retry of PgKeyRotationLedger.rotate gives the loser its own.
\* And a host uses the private key of the public key the control plane has for it, unless
\* the answer to a rotation was lost, a row was written back over a newer one, or a
\* statement ran in the transaction of another call.
KeysAgree ==
  /\ \A a, b \in acks : a[1] = b[1] /\ a[2] = b[2] => a[3] = b[3]
  /\ \A h \in Hosts : host[h].up /\ host[h].waits = 0 /\ ~lost /\ ~overwritten /\ ~foreign
                         => host[h].key = nodes[h].key
=============================================================================
