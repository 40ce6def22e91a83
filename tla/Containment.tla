----------------------------- MODULE Containment ----------------------------
(***************************************************************************)
(* Containing a node: heartbeats and threat signals, the correlator and    *)
(* the threat engine, manual quarantine and emergency lockdown, restore    *)
(* with a clearance, JIT grants, and the access decision that reads them.  *)
(*                                                                         *)
(* The control plane runs requests side by side.  Each is the sequence of  *)
(* database statements it still has to make; a row read by one statement   *)
(* is a local of the request and may be stale when a later one writes it   *)
(* back.  One enrolled node "node", and an identifier "ghost" which the    *)
(* callers may name and nothing was enrolled under.                        *)
(***************************************************************************)
EXTENDS Integers, Sequences, FiniteSets, Functions

CONSTANTS
  Operators,    \* slots for concurrent requests of operators
  Grants,       \* JIT grants
  Weights,      \* what a reported signal contributes: confidence * weight
  MaxRequests,  \* bound on operator requests
  MaxSignals,   \* bound on the signals in a window: older ones have aged out
  MaxFaults     \* bound on failures and expiries

ASSUME ContainmentAssumption ==
  /\ "agent" \notin Operators
  /\ Weights \subseteq Nat
  /\ MaxRequests \in Nat /\ MaxSignals \in Nat /\ MaxFaults \in Nat

VARIABLES
  platform,     \* the node's platform
  device,       \* its devices row
  grants,       \* jit_grants that have not expired, per grant
  window,       \* threat_signal_window, per node key, oldest first
  incidents,    \* whether an incident is OPEN, per node key
  revoked,      \* its certificate is revoked
  queue,        \* its pending controller_commands
  batch,        \* commands of the last heartbeat reply not yet executed
  isolated,     \* the quarantine is in effect on the host
  req,          \* per slot, the request under way
  requests, faults,
  order,        \* history: the last isolation command queued
  contained,    \* history: the device was marked compromised and not restored
  ended,        \* history: the grants a containment terminated
  overwritten,  \* history: a row was saved that had changed since it was read
  missed,       \* history: an isolation command was lost or had no effect
  raced         \* history: two evaluations found no rotation pending at the same time

rows == <<device, grants, window, incidents, revoked>>
node == <<platform, queue, batch, isolated>>
history == <<order, contained, ended, overwritten, missed, raced>>
vars == <<rows, node, req, requests, faults, history>>

Keys == {"node", "ghost"}
Slots == Operators \cup {"agent"}
Zones == {"own", "other"}   \* the node's zone, and another one
PostureWeight == 15
NoGrant == [exists |-> FALSE, zone |-> "own", approved |-> FALSE, terminated |-> FALSE]
Done == [todo |-> <<>>, key |-> "node", good |-> TRUE, weight |-> 0, all |-> FALSE,
         device |-> [compromised |-> FALSE, good |-> TRUE], id |-> 0, grant |-> NoGrant,
         list |-> {}, score |-> 0]

Init ==
  /\ platform \in {"linux", "windows"}
  /\ device = [compromised |-> FALSE, good |-> TRUE]
  /\ grants = [g \in Grants |-> NoGrant]
  /\ window = [k \in Keys |-> <<>>]
  /\ incidents = [k \in Keys |-> FALSE]
  /\ revoked = FALSE
  /\ queue = <<>> /\ batch = <<>> /\ isolated = FALSE
  /\ req = [r \in Slots |-> Done]
  /\ requests = 0 /\ faults = 0
  /\ order = "RESTORE" /\ contained = FALSE /\ ended = {} /\ overwritten = FALSE /\ missed = FALSE
  /\ raced = FALSE

-----------------------------------------------------------------------------
(* The requests: what each handler does, statement by statement.           *)

\* ThreatCorrelator.ingest; the engine's statements follow from the score.
ingest == <<"record", "window", "open">>

\* ThreatCorrelator.dismiss: the window, then ThreatEngine.resolveIncidents.
dismiss == <<"clear", "close">>

\* ThreatEngine.evaluate: severity and actions for a score.
Severity(score) == CASE score >= 85 -> "EMERGENCY" [] score >= 65 -> "CRITICAL"
                     [] score >= 35 -> "WARN" [] OTHER -> "INFO"

evaluate(score) ==
  CASE Severity(score) = "EMERGENCY" -> <<"list", "terminate", "isolate", "revoke", "hasPending">>
    [] Severity(score) = "CRITICAL" -> <<"list", "terminate", "isolate">>
    [] OTHER -> <<>>

\* ThreatResponseService.handle for the CRITICAL event of a manual quarantine; it
\* returns UNKNOWN_NODE when the node does not exist.
handle(k) == IF k = "node" THEN <<"device", "compromise", "list", "terminate", "isolate">> ELSE <<>>

\* ThreatResponseService.restore, once the clearance is verified.
restore(k) == IF k = "node" THEN <<"device", "restored", "restoreNode">> ELSE <<>>

\* PgSocActions.emergencyLockdown
emergencyLockdown == <<"isolate", "list", "terminate">>

\* HeartbeatService.accept, the correlator for a failed posture, then the commands.
accept(good) == <<"device", "posture">> \o (IF good THEN <<>> ELSE ingest) \o <<"pending">>

\* JitService.approve and terminate read the grant and write it back.
approve == <<"grant", "approve">>
terminate == <<"grant", "terminateOne">>

Begin(r, todo, local) ==
  /\ req[r].todo = <<>>
  /\ todo # <<>>
  /\ req' = [req EXCEPT ![r] = [local EXCEPT !.todo = todo]]

Request(r, todo, local) ==
  /\ Begin(r, todo, local)
  /\ requests < MaxRequests
  /\ requests' = requests + 1
  /\ UNCHANGED <<rows, node, faults, history>>

\* POST /nodes/:id/quarantine, and SecuritySocBackend.quarantine
PostQuarantine(r) == \E k \in Keys : Request(r, handle(k), [Done EXCEPT !.key = k])

\* DiagnosticsClearanceVerifier.verify, with EcosystemIntegrationService.accept: signed
\* by Diagnostics, recent, and for this node.  Nothing records that a token was used.
verify(token, k) == token.signed /\ token.recent /\ token.node = k

\* POST /nodes/:id/restore
PostRestore(r) ==
  \E k \in Keys, token \in [signed : BOOLEAN, recent : BOOLEAN, node : Keys] :
    verify(token, k) /\ Request(r, restore(k), [Done EXCEPT !.key = k])

\* POST /soc/emergency-lockdown
PostLockdown(r) == Request(r, emergencyLockdown, [Done EXCEPT !.all = TRUE])

\* POST /threats/signal
PostSignal(r) ==
  \E k \in Keys, w \in Weights : Request(r, ingest, [Done EXCEPT !.key = k, !.weight = w])

\* POST /threats/:nodeId/dismiss
PostDismiss(r) == \E k \in Keys : Request(r, dismiss, [Done EXCEPT !.key = k])

\* POST /jit/:id/approve and /jit/:id/terminate
PostApprove(r) == \E g \in Grants : Request(r, approve, [Done EXCEPT !.id = g])
PostTerminate(r) == \E g \in Grants : Request(r, terminate, [Done EXCEPT !.id = g])

\* POST /jit: JitService.request saves a grant of its own, in one statement.
PostJit ==
  /\ \E g \in Grants, z \in Zones :
       /\ ~grants[g].exists
       /\ grants' = [grants EXCEPT ![g] = [NoGrant EXCEPT !.exists = TRUE, !.zone = z]]
  /\ UNCHANGED <<device, window, incidents, revoked, node, req, requests, faults, history>>

\* POST /agent/heartbeat, sent by the agent between two batches while its host lets it.
CutOff == platform = "windows" /\ isolated

PostHeartbeat ==
  /\ ~CutOff /\ batch = <<>>
  /\ \E good \in BOOLEAN :
       Begin("agent", accept(good), [Done EXCEPT !.good = good, !.weight = PostureWeight])
  /\ UNCHANGED <<rows, node, requests, faults, history>>
-----------------------------------------------------------------------------
(* The statements.  Each leaves the request with what it read and what it  *)
(* still has to do.                                                        *)

At(r, step) == req[r].todo # <<>> /\ Head(req[r].todo) = step
Rest(r) == Tail(req[r].todo)
Continue(r, local) == req' = [req EXCEPT ![r] = IF local.todo = <<>> THEN Done ELSE local]
Goto(r, todo) == Continue(r, [req[r] EXCEPT !.todo = todo, !.device = Done.device, !.grant = NoGrant,
                                             !.score = 0])

\* The request ends here: it returns, or throws.
End(r) == Goto(r, <<>>)

\* PostgresRepository.get, for the device.
ReadDevice(r) ==
  /\ At(r, "device")
  /\ Continue(r, [req[r] EXCEPT !.todo = Rest(r), !.device = device])
  /\ UNCHANGED <<rows, node, requests, faults, history>>

\* saveDevice writes every column the caller holds.
saveDevice(r, d) ==
  /\ device' = d
  /\ overwritten' = (overwritten \/ device # req[r].device)
  /\ UNCHANGED <<grants, window, incidents, revoked, node, requests, faults, order, ended, missed, raced>>

\* Variant of SavePosture: the other columns are not carried over.
SavePostureOnly(r) ==
  /\ At(r, "posture")
  /\ saveDevice(r, [compromised |-> FALSE, good |-> req[r].good])
  /\ Goto(r, Rest(r))
  /\ UNCHANGED contained

SavePosture(r) ==
  /\ At(r, "posture")
  /\ saveDevice(r, [req[r].device EXCEPT !.good = req[r].good])
  /\ Goto(r, Rest(r))
  /\ UNCHANGED contained

SaveCompromised(r) ==
  /\ At(r, "compromise")
  /\ saveDevice(r, [req[r].device EXCEPT !.compromised = TRUE])
  /\ Goto(r, Rest(r))
  /\ contained' = TRUE

SaveRestored(r) ==
  /\ At(r, "restored")
  /\ saveDevice(r, [req[r].device EXCEPT !.compromised = FALSE])
  /\ Goto(r, Rest(r))
  /\ contained' = FALSE

\* listActive(now), and the filter of handle and of PgThreatActionPort.terminateJit
\* (none in emergencyLockdown); terminateJit finds no node for a ghost.
Active(g) == grants[g].exists /\ ~grants[g].terminated

Listed(r) ==
  {g \in Grants : Active(g) /\ req[r].key = "node" /\ (req[r].all \/ grants[g].zone = "own")}

ListGrants(r) ==
  /\ At(r, "list")
  /\ Continue(r, [req[r] EXCEPT !.todo = IF Listed(r) = {} THEN Tail(Rest(r)) ELSE Rest(r),
                                !.list = {<<g, grants[g]>> : g \in Listed(r)}])
  /\ UNCHANGED <<rows, node, requests, faults, history>>

\* Variant of saveGrant: an existing row keeps its is_terminated.
saveGrantKeeping(g, read, written) ==
  /\ grants' = [grants EXCEPT ![g].approved = written.approved]
  /\ overwritten' = (overwritten \/ grants[g] # read)
  /\ UNCHANGED <<device, window, incidents, revoked, node, requests, faults, order, contained, missed, raced>>

\* saveGrant: the approval and the termination are written.
saveGrant(g, read, written) ==
  /\ grants' = [grants EXCEPT ![g].approved = written.approved, ![g].terminated = written.terminated]
  /\ overwritten' = (overwritten \/ grants[g] # read)
  /\ UNCHANGED <<device, window, incidents, revoked, node, requests, faults, order, contained, missed, raced>>

\* The loop over the listed grants, one save per turn.
TerminateListed(r) ==
  /\ At(r, "terminate")
  /\ \E l \in req[r].list :
       /\ saveGrant(l[1], l[2], [l[2] EXCEPT !.terminated = TRUE])
       /\ Continue(r, [req[r] EXCEPT !.todo = IF req[r].list = {l} THEN Rest(r) ELSE @,
                                     !.list = @ \ {l}])
       /\ ended' = ended \cup {l[1]}

\* Variant of ReadGrant: a missing grant goes unnoticed.
ReadGrantUnchecked(r) ==
  /\ At(r, "grant")
  /\ Continue(r, [req[r] EXCEPT !.todo = Rest(r), !.grant = grants[req[r].id]])
  /\ UNCHANGED <<rows, node, requests, faults, history>>

\* JitService: the grant is read; a missing one is a NotFoundError.
ReadGrant(r) ==
  /\ At(r, "grant")
  /\ IF grants[req[r].id].exists
     THEN Continue(r, [req[r] EXCEPT !.todo = Rest(r), !.grant = grants[req[r].id]])
     ELSE End(r)
  /\ UNCHANGED <<rows, node, requests, faults, history>>

SaveApproved(r) ==
  /\ At(r, "approve")
  /\ saveGrant(req[r].id, req[r].grant, [req[r].grant EXCEPT !.approved = TRUE])
  /\ Goto(r, Rest(r))
  /\ UNCHANGED ended

SaveTerminated(r) ==
  /\ At(r, "terminateOne")
  /\ saveGrant(req[r].id, req[r].grant, [req[r].grant EXCEPT !.terminated = TRUE])
  /\ Goto(r, Rest(r))
  /\ UNCHANGED ended
Latest(signals) == IF Len(signals) <= MaxSignals THEN signals
                   ELSE SubSeq(signals, Len(signals) - MaxSignals + 1, Len(signals))

\* PgThreatSignalStore.record
Record(r) ==
  /\ At(r, "record")
  /\ window' = [window EXCEPT ![req[r].key] = Latest(Append(@, req[r].weight))]
  /\ Goto(r, Rest(r))
  /\ UNCHANGED <<device, grants, incidents, revoked, node, requests, faults, history>>

\* ThreatEngine.score
score(signals) == LET raw == FoldFunction(LAMBDA w, n : n + w, 0, signals)
                  IN  IF raw > 100 THEN 100 ELSE raw

\* PgThreatSignalStore.window: deletes the signals that are too old, and reads the rest.
Window(r) ==
  /\ At(r, "window")
  /\ \E n \in 0..Len(window[req[r].key]) :
       /\ n = Len(window[req[r].key]) => window[req[r].key] = <<>>
       /\ window' = [window EXCEPT ![req[r].key] = SubSeq(@, n + 1, Len(@))]
       /\ Continue(r, [req[r] EXCEPT !.todo = Rest(r), !.score = score(window'[req[r].key])])
  /\ UNCHANGED <<device, grants, incidents, revoked, node, requests, faults, history>>

\* PgIncidentPort.open, for a ghost by its fallback; then the actions of the engine.
OpenIncident(r) ==
  /\ At(r, "open")
  /\ incidents' = [incidents EXCEPT ![req[r].key] = TRUE]
  /\ Goto(r, evaluate(req[r].score) \o Rest(r))
  /\ UNCHANGED <<device, grants, window, revoked, node, requests, faults, history>>

\* PgThreatSignalStore.clear
ClearWindow(r) ==
  /\ At(r, "clear")
  /\ window' = [window EXCEPT ![req[r].key] = <<>>]
  /\ Goto(r, Rest(r))
  /\ UNCHANGED <<device, grants, incidents, revoked, node, requests, faults, history>>

\* PgIncidentPort.close
CloseIncidents(r) ==
  /\ At(r, "close")
  /\ incidents' = [incidents EXCEPT ![req[r].key] = FALSE]
  /\ Goto(r, Rest(r))
  /\ UNCHANGED <<device, grants, window, revoked, node, requests, faults, history>>

Enqueue(r, command) ==
  /\ queue' = IF req[r].key = "node" THEN Append(queue, command) ELSE queue
  /\ order' = IF req[r].key = "node" /\ command # "ROTATE" THEN command ELSE order
  /\ Goto(r, Rest(r))
  /\ UNCHANGED <<rows, platform, batch, isolated, requests, faults, contained, ended, overwritten, missed,
                 raced>>

\* PgPolicyEnforcer.isolateNode and restoreNode: nothing for a node that is not enrolled.
isolateNode(r) == At(r, "isolate") /\ Enqueue(r, "QUARANTINE")
restoreNode(r) == At(r, "restoreNode") /\ Enqueue(r, "RESTORE")

\* PgThreatActionPort.revokeNodeCertificates
revokeNodeCertificates(r) ==
  /\ At(r, "revoke")
  /\ revoked' = (revoked \/ req[r].key = "node")
  /\ Goto(r, Rest(r))
  /\ UNCHANGED <<device, grants, window, incidents, node, requests, faults, history>>

\* Variant of rotateMeshIdentity: a fresh command per evaluation.
rotateMeshIdentityAlways(r) ==
  /\ At(r, "hasPending")
  /\ Goto(r, <<"rotate">> \o Rest(r))
  /\ UNCHANGED <<rows, node, requests, faults, history>>

\* PgThreatActionPort.rotateMeshIdentity: not when one is pending; the check and the
\* insertion are two statements.
rotateMeshIdentity(r) ==
  /\ At(r, "hasPending")
  /\ Goto(r, (IF "ROTATE" \in Range(queue) THEN <<>> ELSE <<"rotate">>) \o Rest(r))
  /\ raced' = (raced \/ \E other \in Slots : At(other, "rotate"))
  /\ UNCHANGED <<rows, node, requests, faults, order, contained, ended, overwritten, missed>>

EnqueueRotation(r) == At(r, "rotate") /\ Enqueue(r, "ROTATE")

Statement(r) ==
  \/ ReadDevice(r) \/ SavePosture(r) \/ SaveCompromised(r) \/ SaveRestored(r)
  \/ ListGrants(r) \/ TerminateListed(r) \/ ReadGrant(r) \/ SaveApproved(r) \/ SaveTerminated(r)
  \/ Record(r) \/ Window(r) \/ OpenIncident(r) \/ ClearWindow(r) \/ CloseIncidents(r)
  \/ isolateNode(r) \/ restoreNode(r) \/ revokeNodeCertificates(r)
  \/ rotateMeshIdentity(r) \/ EnqueueRotation(r)

-----------------------------------------------------------------------------
(* The agent.  Its three commands have the same priority: pending returns  *)
(* them in the order they were issued.                                     *)

Pending ==
  /\ At("agent", "pending")
  /\ batch' = queue
  /\ Goto("agent", Rest("agent"))
  /\ UNCHANGED <<rows, platform, queue, isolated, requests, faults, history>>

\* isolate and restore of the adapters: Linux drops what it forwards, Windows every
\* packet in both directions.
Isolated(c) == IF c = "QUARANTINE" THEN TRUE ELSE IF c = "RESTORE" THEN FALSE ELSE isolated

\* The commands of s still pending once the oldest c is acknowledged.
WithoutFirst(s, c) ==
  LET i == CHOOSE i \in DOMAIN s : s[i] = c /\ \A j \in 1..(i - 1) : s[j] # c
  IN  SubSeq(s, 1, i - 1) \o SubSeq(s, i + 1, Len(s))

\* ProductionAgent.execute.  The acknowledgement of a QUARANTINE cannot leave a Windows
\* host: both attempts fail, the agent's process ends, the command stays pending.
Execute ==
  /\ batch # <<>> /\ ~CutOff
  /\ isolated' = Isolated(Head(batch))
  /\ IF platform = "windows" /\ isolated'
     THEN batch' = <<>> /\ UNCHANGED queue
     ELSE batch' = Tail(batch) /\ queue' = WithoutFirst(queue, Head(batch))
  /\ UNCHANGED <<rows, platform, req, requests, faults, history>>

Fault ==
  /\ faults < MaxFaults
  /\ faults' = faults + 1
  /\ UNCHANGED <<platform, device, grants, window, incidents, revoked, requests, order, contained, ended,
                 overwritten, raced>>

\* The host's firewall tool fails: isolate and restore swallow it, the command is acknowledged.
ExecuteSwallowed ==
  /\ Fault
  /\ batch # <<>> /\ ~CutOff /\ Head(batch) # "ROTATE"
  /\ batch' = Tail(batch) /\ queue' = WithoutFirst(queue, Head(batch))
  /\ missed' = TRUE
  /\ UNCHANGED <<isolated, req>>

\* Variant of ExecuteUnanswered: the agent goes on with the batch.
ExecuteUnansweredAndOn ==
  /\ Fault
  /\ batch # <<>> /\ ~CutOff
  /\ isolated' = Isolated(Head(batch))
  /\ batch' = Tail(batch)
  /\ UNCHANGED <<queue, req, missed>>

\* The command takes effect but no acknowledgement gets through: the rest of the batch
\* is dropped with the process, and everything is fetched again.
ExecuteUnanswered ==
  /\ Fault
  /\ batch # <<>> /\ ~CutOff
  /\ isolated' = Isolated(Head(batch))
  /\ batch' = <<>>
  /\ UNCHANGED <<queue, req, missed>>

\* A request fails between two statements; a heartbeat that fails ends the agent's run.
Fail(r) ==
  /\ Fault
  /\ req[r].todo # <<>>
  /\ End(r)
  /\ UNCHANGED <<queue, batch, isolated, missed>>

\* A command expires an hour after it was issued.
Expire ==
  /\ Fault
  /\ queue # <<>> /\ batch = <<>>
  /\ queue' = Tail(queue)
  /\ missed' = TRUE
  /\ UNCHANGED <<batch, isolated, req>>

Next ==
  \/ \E r \in Operators :
       \/ PostQuarantine(r) \/ PostRestore(r) \/ PostLockdown(r) \/ PostSignal(r)
       \/ PostDismiss(r) \/ PostApprove(r) \/ PostTerminate(r)
  \/ PostJit \/ PostHeartbeat
  \/ \E r \in Slots : Statement(r) \/ Fail(r)
  \/ Pending \/ Execute \/ ExecuteSwallowed \/ ExecuteUnanswered \/ Expire

Spec == Init /\ [][Next]_vars

\* Requests that were accepted go on, and the agent keeps sending heartbeats and
\* executing what it receives.
FairSpec ==
  /\ Spec
  /\ \A r \in Slots : WF_vars(Statement(r))
  /\ WF_vars(PostHeartbeat) /\ WF_vars(Pending) /\ WF_vars(Execute)
-----------------------------------------------------------------------------
(* PolicyDecisionService.decide, on the rows of this moment.  Of a policy  *)
(* only its action, whether it needs a grant and whether it matches count. *)

postureOk == ~device.compromised /\ device.good

\* hasJit asks for a grant of the resource that is neither terminated nor expired.
hasJit == \E g \in Grants : Active(g)

\* The first policy that matches, by descending priority, decides.
decide(mfa, policies) ==
  LET matching == SelectSeq(policies, LAMBDA p : p.matches)
  IN  IF ~mfa \/ ~postureOk \/ matching = <<>> THEN "DENY"
      ELSE IF Head(matching).requiresJit /\ ~hasJit THEN "DENY"
      ELSE Head(matching).action

Policies == [action : {"ALLOW", "DENY"}, requiresJit : BOOLEAN, matches : BOOLEAN]

-----------------------------------------------------------------------------
TypeOK ==
  /\ \A g \in Grants : grants[g].approved \/ grants[g].terminated => grants[g].exists
  /\ \A k \in Keys : Len(window[k]) <= MaxSignals
  /\ \A i \in DOMAIN queue : queue[i] \in {"QUARANTINE", "RESTORE", "ROTATE"}
  /\ \A r \in Slots : req[r].list # {} => At(r, "terminate")
  /\ order \in {"QUARANTINE", "RESTORE"}

\* A quarantined device is denied access, whatever the policies and the grants, until a
\* restore with a clearance; unless a handler wrote back a device row that had changed
\* since it read it (ThreatResponseService.handle, HeartbeatService.accept).
QuarantineDenies ==
  contained /\ ~overwritten =>
    \A mfa \in BOOLEAN, p, q \in Policies : decide(mfa, <<p, q>>) = "DENY"

\* A grant that a quarantine, an engine's containment or a lockdown terminated gives no
\* access any more, whoever approves it afterwards; unless it was read for an approval
\* before and written back after.
EndedGrantsStayEnded == \A g \in ended : grants[g].terminated \/ overwritten

\* When the node has executed all its commands, the quarantine is in effect exactly if
\* the last order of the control plane was to isolate: commands of concurrent requests,
\* lost acknowledgements and agents that die in a batch do not reverse the order.
IsolationFollowsLastOrder ==
  queue = <<>> /\ batch = <<>> /\ ~missed => (isolated <=> order = "QUARANTINE")

\* A node that fails every heartbeat does not collect ROTATE_IDENTITY_REQUIRED commands:
\* a second one is pending only if two evaluations made their check before either
\* inserted its command.
RotationsDoNotPileUp ==
  ~raced => \A i, j \in DOMAIN queue : queue[i] = "ROTATE" /\ queue[j] = "ROTATE" => i = j

\* What the comment of saveDevice says: each caller reads the device and spreads it, so
\* an unconditional write of all columns preserves the fields that the caller does not
\* change; only a restore clears is_compromised.
CompromisedUntilRestored ==
  [][device.compromised /\ ~device'.compromised => \E r \in Slots : SaveRestored(r)]_vars

\* What the comment of emergencyLockdown says: the lockdown only isolates, so recovery
\* node by node still applies: a node whose last order is RESTORE leaves its quarantine.
RestoreTakesEffect == [](order = "RESTORE" /\ isolated => <>(~isolated \/ order = "QUARANTINE"))
=============================================================================
