-------------------------- MODULE NodeReconciliation ------------------------
(***************************************************************************)
(* Keeping one node at its desired state.                                  *)
(*                                                                         *)
(* An operator records the desired state of a node (node_desired_state) or *)
(* sends it a direct command.  NodeReconciliationService.checkNode, called *)
(* by the maintenance worker and by POST /nodes/:id/reconcile, compares    *)
(* the desired state with the node's last successful acknowledgements and  *)
(* queues corrections.  The agent drains its queue at each heartbeat.      *)
(*                                                                         *)
(* Nodes do not interact here, so the module models one node.  Only what   *)
(* one PUT differs in from another is kept: routes are the revision they   *)
(* came with, server lists, topologies and policy sets are numbers.        *)
(***************************************************************************)
EXTENDS PlatformAdapter, Integers, Sequences

CONSTANTS
  Checkers,     \* the callers of checkNode: the worker and REST requests
  Servers,      \* numbers of DNS server lists
  MaxChanges,   \* bound on operator requests, topology and policy changes
  MaxFaults,    \* bound on failures, restarts and expiries
  MaxQueue      \* bound on the pending commands

ASSUME ReconciliationAssumption ==
  /\ "worker" \in Checkers
  /\ Servers \subseteq Nat
  /\ MaxChanges \in Nat /\ MaxFaults \in Nat /\ MaxQueue \in Nat

VARIABLES
  platform,     \* the node's platform
  desired,      \* its node_desired_state row; revision 0 while there is none
  topology,     \* the peer plan planFor computes for it now
  policies,     \* the active policy set
  queue,        \* its pending controller_commands: per priority, in issue order
  acked,        \* per command type, its latest SUCCEEDED acknowledgement
  batch,        \* the commands of the last heartbeat reply not yet executed
  revision,     \* AgentReconciler.revision, in the agent's memory
  host,         \* what is in effect on the host
  checking,     \* per checker, what checkNode has read
  changes, faults,
  hidden        \* history: an execution whose effect and answer disagree

control == <<desired, topology, policies>>
agent == <<batch, revision, host>>
vars == <<platform, control, queue, acked, agent, checking, changes, faults, hidden>>

NoAck == [status |-> "NONE", value |-> 0]
Idle == [revision |-> 0, dns |-> 0, kill |-> Off, topology |-> 0, policies |-> 0]
Command(t, v, plan, priority) == [type |-> t, value |-> v, plan |-> plan, priority |-> priority]

\* The default of PgCommandQueue.enqueue, and the priority of the corrections.
Default == 100
Urgent == 150
Priorities == {Default, Urgent}
enqueue(c) == queue' = [queue EXCEPT ![c.priority] = Append(@, c)]

Init ==
  /\ platform \in {"linux", "windows"}
  /\ desired = [revision |-> 0, dns |-> 0, kill |-> Off]
  /\ topology = 0 /\ policies = 1
  /\ queue = [p \in Priorities |-> <<>>]
  /\ acked = [t \in CommandTypes |-> NoAck]
  /\ batch = <<>> /\ revision = 0
  /\ host = [f \in HostFields |-> IF f = "TUNNEL" THEN 1 ELSE 0]
  /\ checking = [w \in Checkers |-> Idle]
  /\ changes = 0 /\ faults = 0
  /\ hidden = FALSE

-----------------------------------------------------------------------------
(* Requests of the operators, and changes elsewhere in the control plane.  *)

Change ==
  /\ changes < MaxChanges
  /\ changes' = changes + 1
  /\ UNCHANGED <<platform, acked, agent, checking, faults, hidden>>

\* PgDesiredStateStore.upsert: one statement; every field is replaced and the
\* revision is incremented, even when the fields are the same.
upsert(dns, kill) ==
  desired' = [revision |-> desired.revision + 1, dns |-> dns, kill |-> kill]

\* PUT /api/v1/nodes/:id/desired-state
PutDesiredState ==
  /\ Change
  /\ \E dns \in Servers, kill \in {Off, On} : upsert(dns, kill)
  /\ UNCHANGED <<topology, policies, queue>>

\* POST /api/v1/nodes/:id/kill-switch
PostKillSwitch ==
  /\ Change
  /\ \E kill \in {Off, On} : enqueue(Command("SET_KILL_SWITCH", kill, 0, Default))
  /\ UNCHANGED control

\* POST /api/v1/nodes/:id/dns
PostDns ==
  /\ Change
  /\ \E dns \in Servers : enqueue(Command("SET_DNS", dns, 0, Default))
  /\ UNCHANGED control

\* PUT /api/v1/policies/:id
PutPolicy ==
  /\ Change
  /\ policies' = policies + 1
  /\ UNCHANGED <<desired, topology, queue>>

\* An enrolment, a key rotation, a region or a relay changes the node's peer plan.
TopologyChange ==
  /\ Change
  /\ topology' = topology + 1
  /\ UNCHANGED <<desired, policies, queue>>

-----------------------------------------------------------------------------
(* NodeReconciliationService, for the state d that checkNode has read.     *)

checkRoutesAndIntegrity(d) ==
  LET ack == acked["RECONCILE"]
      inSync == ack.status = "APPLIED" /\ ack.value >= d.revision
  IN  IF inSync THEN <<>>
      ELSE <<Command("RECONCILE", d.revision, d.policies, Urgent)>>

EchoIs(t, v) == acked[t].status # "NONE" /\ acked[t].value = v

\* Variant of checkDns: any successful SET_DNS counts.
checkDnsRecency(d) ==
  IF acked["SET_DNS"].status # "NONE" THEN <<>> ELSE <<Command("SET_DNS", d.dns, 0, Urgent)>>

checkDns(d) ==
  IF EchoIs("SET_DNS", d.dns) THEN <<>> ELSE <<Command("SET_DNS", d.dns, 0, Urgent)>>

checkKillSwitch(d) ==
  IF EchoIs("SET_KILL_SWITCH", d.kill) THEN <<>>
  ELSE <<Command("SET_KILL_SWITCH", d.kill, 0, Urgent)>>

\* MeshController.reconcile resends with the default priority.
checkPeerTopology(d) ==
  IF EchoIs("APPLY_PEERS", d.topology) THEN <<>>
  ELSE <<Command("APPLY_PEERS", d.topology, 0, Default)>>

checkPolicyVersion(d) ==
  IF EchoIs("APPLY_FIREWALL", d.policies) THEN <<>>
  ELSE <<Command("APPLY_FIREWALL", d.policies, 0, Urgent)>>

\* The reads of checkNode; it returns at once when there is no desired state.
checkNodeReads(w) ==
  /\ checking[w] = Idle
  /\ desired.revision > 0
  /\ checking' = [checking EXCEPT ![w] =
       [revision |-> desired.revision, dns |-> desired.dns, kill |-> desired.kill,
        topology |-> topology, policies |-> policies]]
  /\ UNCHANGED <<platform, control, queue, acked, agent, changes, faults, hidden>>

\* The maintenance worker's loop: checkAll takes the nodes in turn.
runReconciliationLoop == checkNodeReads("worker")

\* POST /api/v1/nodes/:id/reconcile
PostReconcile == \E w \in Checkers \ {"worker"} : checkNodeReads(w)

\* The five checks of checkNode, in order: each reads an acknowledgement, and queues a command
\* without asking whether the same one is pending.
checkNodeCorrects(w) ==
  LET d == checking[w]
  IN  /\ d # Idle
      /\ Len(queue[Urgent]) + Len(queue[Default]) < MaxQueue
      /\ queue' = [queue EXCEPT
           ![Urgent] = @ \o checkRoutesAndIntegrity(d) \o checkDns(d) \o checkKillSwitch(d)
                         \o checkPolicyVersion(d),
           ![Default] = @ \o checkPeerTopology(d)]
      /\ checking' = [checking EXCEPT ![w] = Idle]
      /\ UNCHANGED <<platform, control, acked, agent, changes, faults, hidden>>

-----------------------------------------------------------------------------
(* The agent.                                                              *)

Reachable == host["SET_KILL_SWITCH"] # Blocked

\* Variant of pending: only the urgent commands are handed out.
pendingUrgent == queue[Urgent]

\* PgCommandQueue.pending: ORDER BY priority DESC, issued_at.
pending == queue[Urgent] \o queue[Default]

Heartbeat ==
  /\ Reachable
  /\ batch = <<>> /\ (\E p \in Priorities : queue[p] # <<>>)
  /\ batch' = pending
  /\ UNCHANGED <<platform, control, queue, acked, revision, host, checking, changes, faults, hidden>>

\* Variant of Stale: an older state is applied like any other.
StaleNever(c) == FALSE

\* AgentReconciler.reconcile refuses a state older than the last one it applied.
Stale(c) == c.type = "RECONCILE" /\ c.value < revision

\* AgentReconciler.reconcile: the integrity files, then the routes, then the firewall.
\* A file whose hash differs takes the tunnel down and throws.
reconcile(c) ==
  LET routes == Call(platform, host, "RECONCILE", c.value)
      firewall(s) == Call(platform, s, "APPLY_FIREWALL", c.plan)
  IN  [returns |-> UNION {firewall(s).returns : s \in routes.returns},
       throws |-> ClearTransientCredentials(platform, host) \cup routes.throws
                  \cup UNION {firewall(s).throws : s \in routes.returns}]

Outcomes(c) == IF Stale(c) THEN [returns |-> {host}, throws |-> {}]
               ELSE IF c.type = "RECONCILE" THEN reconcile(c)
               ELSE Call(platform, host, c.type, c.value)

\* What the command does when every tool succeeds.
Effect(c) == IF Stale(c) THEN host
             ELSE IF c.type = "RECONCILE"
                  THEN With(With(host, c.type, c.value), "APPLY_FIREWALL", c.plan)
                  ELSE With(host, c.type, c.value)

\* The details echoed in a successful acknowledgement.
Echo(c) == IF Stale(c) THEN [status |-> "STALE", value |-> revision]
                       ELSE [status |-> "APPLIED", value |-> c.value]

\* Variant of Reconciled: the agent remembers the revision it expects next.
ReconciledNext(c) == IF c.type = "RECONCILE" /\ ~Stale(c) THEN c.value + 1 ELSE revision

Reconciled(c) == IF c.type = "RECONCILE" /\ ~Stale(c) THEN c.value ELSE revision

Without(s, i) == SubSeq(s, 1, i - 1) \o SubSeq(s, i + 1, Len(s))

\* The answer to c ends its row: the oldest of the rows that ask the same.
Oldest(s, c, i) == s[i] = c /\ \A j \in 1..(i - 1) : s[j] # c
Answered(c) ==
  queue' = [queue EXCEPT ![c.priority] =
              IF \E i \in DOMAIN @ : Oldest(@, c, i)
              THEN Without(@, CHOOSE i \in DOMAIN @ : Oldest(@, c, i)) ELSE @]

\* ProductionAgent.execute when all goes well: the effect, then the acknowledgement.
Execute ==
  /\ batch # <<>>
  /\ LET c == Head(batch)
     IN  /\ host' = Effect(c)
         /\ revision' = Reconciled(c)
         /\ acked' = [acked EXCEPT ![c.type] = Echo(c)]
         /\ Answered(c)
  /\ batch' = Tail(batch)
  /\ UNCHANGED <<platform, control, checking, changes, faults, hidden>>

Fault ==
  /\ faults < MaxFaults
  /\ faults' = faults + 1
  /\ UNCHANGED <<platform, control, checking, changes>>

\* Something fails: a tool, the acknowledgement (the catch block then answers
\* {ok:false}), the control plane between its two statements ("UPDATED"), or every
\* call of the agent ("LOST"), which throws out of run() and ends the process.
ExecuteBadly ==
  /\ Fault
  /\ batch # <<>>
  /\ LET c == Head(batch)
         o == Outcomes(c)
     IN  \E thrown \in BOOLEAN, answer \in {"SUCCEEDED", "FAILED", "UPDATED", "LOST"} :
         \E s \in IF thrown THEN o.throws ELSE o.returns :
           /\ answer = "SUCCEEDED" => ~thrown
           /\ s["SET_KILL_SWITCH"] = Blocked => answer = "LOST"
           /\ host' = s
           /\ hidden' = (hidden \/ s # (IF answer = "SUCCEEDED" THEN Effect(c) ELSE host))
           /\ IF answer = "LOST" THEN UNCHANGED queue ELSE Answered(c)
           /\ acked' = IF answer = "SUCCEEDED" THEN [acked EXCEPT ![c.type] = Echo(c)] ELSE acked
           /\ IF answer \in {"UPDATED", "LOST"}
              THEN revision' = 0 /\ batch' = <<>>
              ELSE batch' = Tail(batch)
                   /\ revision' = IF thrown THEN revision ELSE Reconciled(c)

\* The agent's process ends and is started again.
Restart ==
  /\ Fault
  /\ revision' = 0 /\ batch' = <<>>
  /\ UNCHANGED <<queue, acked, host, hidden>>

\* A command nobody fetches expires after its hour.
Expire ==
  /\ Fault
  /\ batch = <<>>
  /\ \E p \in Priorities : \E i \in DOMAIN queue[p] :
       queue' = [queue EXCEPT ![p] = Without(@, i)]
  /\ UNCHANGED <<acked, agent, hidden>>

Next ==
  \/ PutDesiredState \/ PostKillSwitch \/ PostDns \/ PutPolicy \/ TopologyChange
  \/ runReconciliationLoop \/ PostReconcile \/ \E w \in Checkers : checkNodeCorrects(w)
  \/ Heartbeat \/ Execute \/ ExecuteBadly \/ Restart \/ Expire

Spec == Init /\ [][Next]_vars

\* The worker's loop never ends, a request under way finishes, and an agent that can
\* send keeps sending heartbeats and executes what it received.
FairSpec ==
  /\ Spec
  /\ WF_vars(runReconciliationLoop)
  /\ \A w \in Checkers : WF_vars(checkNodeCorrects(w))
  /\ WF_vars(Heartbeat) /\ WF_vars(Execute)

-----------------------------------------------------------------------------
TypeOK ==
  /\ desired.revision \in 0..MaxChanges /\ desired.dns \in Servers \cup {0}
  /\ \A t \in CommandTypes : acked[t].status \in {"NONE", "APPLIED", "STALE"}
  /\ host \in [HostFields -> Nat]
  /\ host["RECONCILE"] <= desired.revision /\ host["SET_DNS"] \in Servers \cup {0}
  /\ host["SET_KILL_SWITCH"] \in {Off, On, Blocked} /\ host["TUNNEL"] \in {0, 1}
  /\ host["APPLY_PEERS"] <= topology /\ host["APPLY_FIREWALL"] <= policies
  /\ revision \in 0..desired.revision
  /\ \A i \in DOMAIN batch : batch[i].type \in CommandTypes

Current == [revision |-> desired.revision, dns |-> desired.dns, kill |-> desired.kill,
            topology |-> topology, policies |-> policies]

\* checkNode would find no drift.
InSync ==
  /\ checkRoutesAndIntegrity(Current) = <<>> /\ checkDns(Current) = <<>>
  /\ checkKillSwitch(Current) = <<>> /\ checkPeerTopology(Current) = <<>>
  /\ checkPolicyVersion(Current) = <<>>

\* When checkNode finds a node in sync and no command is on its way, the routes, the
\* servers, the kill switch and the peers really are the desired ones: whatever the
\* order in which corrections of several checkers, older states and direct commands
\* were queued, and across restarts of the agent, provided that every execution was
\* answered by what it did.  (Not so the firewall: a RECONCILE queued from an older
\* read loads older rules without an APPLY_FIREWALL acknowledgement.)
InSyncIsReal ==
  desired.revision > 0 /\ InSync /\ (\A p \in Priorities : queue[p] = <<>>) /\ batch = <<>> /\ ~hidden =>
    /\ host["RECONCILE"] >= desired.revision
    /\ host["SET_DNS"] = desired.dns
    /\ host["SET_KILL_SWITCH"] = desired.kill
    /\ host["APPLY_PEERS"] = topology

\* Routes of an older revision replace newer ones only on an agent that was restarted
\* since, or if AgentReconciler never recorded the newer ones because the firewall
\* threw after them: it refuses them as STALE otherwise.
RoutesRegressOnlyAfterRestart ==
  [][host'["RECONCILE"] < host["RECONCILE"] =>
       \/ revision = 0 \/ host'["RECONCILE"] = 0
       \/ hidden /\ revision < host["RECONCILE"]]_vars

\* Once the operators are done, the worker and the agent bring the node in sync for
\* good, however corrections, direct commands and older reads were interleaved with
\* failures, restarts and expiries; unless the host was cut off by a kill switch of
\* which only the drop rule was installed.
Converges == <>[](desired.revision > 0 => InSync) \/ <>[]~Reachable
=============================================================================
