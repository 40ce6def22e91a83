---------------------------- MODULE PolicyRollout ---------------------------
(***************************************************************************)
(* A policy rollout end to end: concurrent SafeApplyService.apply calls,   *)
(* the command queue and the nodes' agents, under crashes, failing         *)
(* statements, lost messages and expiring commands.                        *)
(*                                                                         *)
(* No node has a node_desired_state row, so NodeReconciliationService      *)
(* issues nothing.                                                         *)
(***************************************************************************)
EXTENDS EndpointAgent, SafeApply

vars == <<queueVars, agentVars, applyVars>>

TypeOK == QueueTypeOK /\ AgentTypeOK /\ ApplyTypeOK

Init == QueueInit /\ AgentInit /\ ApplyInit

-----------------------------------------------------------------------------
\* Enrolment: the node's row appears in NodeRepository.list().  No code path
\* removes a node from that list.
Enroll(n) ==
  /\ n \notin active
  /\ active' = active \cup {n}
  /\ UNCHANGED <<queueVars, agentVars, commitStatus, rows, targets, todo, pc, caught, late>>

\* POST /api/v1/policies/apply up to the INSERT of the commit.
StartApply(c) == StageInsert(c) /\ UNCHANGED agentVars

\* Commands live 60 minutes and an apply() at most a few more than the 5 of its
\* window, so a command of a running apply() does not expire.
Expire ==
  /\ expire
  /\ pc[commands[expired + 1].commit] \in Ended
  /\ UNCHANGED <<agentVars, applyVars>>

Apply(c) == ApplyStep(c) /\ UNCHANGED agentVars
Probe(c) == ProbeAnswers(c) /\ UNCHANGED agentVars
Tick(c) == Deadline(c) /\ UNCHANGED agentVars
ApplyFault(c) == StatementFails(c) /\ UNCHANGED agentVars
Crash == ApiCrash /\ UNCHANGED agentVars
Agent(n) == AgentStep(n) /\ UNCHANGED applyVars
AgentTrouble(n) == AgentFault(n) /\ UNCHANGED applyVars

Next ==
  \/ \E c \in Commits : StartApply(c) \/ Apply(c) \/ Probe(c) \/ Tick(c) \/ ApplyFault(c)
  \/ \E n \in Nodes : Enroll(n) \/ Agent(n) \/ AgentTrouble(n)
  \/ Crash
  \/ Expire

Spec == Init /\ [][Next]_vars

\* apply() and the agents keep running: the event loop resumes a call whose
\* statement answered, timers fire, and an agent heartbeats every 30 seconds and
\* is restarted when it exits.  Nothing is assumed of the probe, of enrolment, of
\* expiry or of faults, and a command may throw on the node every time.
Fairness ==
  /\ \A c \in Commits : WF_vars(Apply(c)) /\ WF_vars(Tick(c))
  /\ \A n \in Nodes : WF_vars(Agent(n))

FairSpec == Spec /\ Fairness

-----------------------------------------------------------------------------
Issued(type, c, n) == \E i \in DOMAIN commands : /\ commands[i].type = type
                                                 /\ commands[i].commit = c
                                                 /\ commands[i].node = n

Takers(c) == {n \in Nodes : c \in applied[n]}

FewMissing(missing, aimed) == Tolerable(missing \ WindowsNodes, aimed)

\* SafeApplyService's success criterion (safe-apply.ts:12-17): while a commit is
\* COMMITTED, the targeted nodes that never had its rules in their firewall are
\* within nodeFailureThreshold.  Windows nodes are not counted as missing: their
\* adapter may report a success it did not have.
CommitMeansApplied ==
  \A c \in Commits : commitStatus[c] = "COMMITTED"
    => FewMissing(targets[c] \ Takers(c), targets[c])

\* Once apply() has returned ROLLED_BACK, or rethrown from its catch block, every
\* node that was sent the commit's APPLY_FIREWALL has been sent its
\* ROLLBACK_FIREWALL, and commit and rows say ROLLED_BACK (safe-apply.ts:47-60).
RollbackReachesEveryTarget ==
  \A c \in Commits : pc[c] \in {"ROLLED_BACK", "rethrown"}
    => /\ commitStatus[c] = "ROLLED_BACK"
       /\ \A n \in Nodes : /\ Issued("APPLY_FIREWALL", c, n) => Issued("ROLLBACK_FIREWALL", c, n)
                           /\ rows[c][n] \in {"none", "ROLLED_BACK"}

\* Once apply() has returned COMMITTED, the stored status agrees, no node was ever
\* sent a rollback of it, and every targeted node has an answer or a timeout on
\* record (safe-apply.ts:53-55).
CommittedIsUndisturbed ==
  \A c \in Commits : pc[c] = "COMMITTED"
    => /\ commitStatus[c] = "COMMITTED"
       /\ \A n \in Nodes : ~ Issued("ROLLBACK_FIREWALL", c, n)
       /\ \A n \in targets[c] : rows[c][n] \in {"SUCCEEDED", "FAILED", "TIMED_OUT"}

\* A rollout row that left PENDING never changes again except to ROLLED_BACK: the
\* deadline does not take back an answer and a late answer does not undo a timeout
\* (the WHERE status='PENDING' of pg-rollout-store.ts:37-41 and 46-51).
AnsweredRowsAreFinal ==
  [][\A c \in Commits, n \in Nodes :
       rows[c][n] \notin {"none", "PENDING"}
         => rows'[c][n] \in {rows[c][n], "ROLLED_BACK"}]_vars

\* The rollout implements the atomic one: statuses move forward only, the targets
\* are fixed once, and COMMITTED is entered only when enough nodes have the rules.
Rollout == INSTANCE AtomicRollout
             WITH outcome <- commitStatus, aim <- targets,
                  takers <- [c \in Commits |-> Takers(c)],
                  Enough <- FewMissing

\* AtomicRollout's specification under this mapping.
ImplementsAtomicRollout == Rollout!Spec

\* Every apply() ends: also when the probe hangs, which is why it is raced against
\* the remaining window (safe-apply.ts:75-84).
ApplyTerminates ==
  \A c \in Commits : (pc[c] \in Running) ~> (pc[c] \in Ended)

\* No command is starved: it is acknowledged or its time to live runs out, across
\* agent restarts and lost acknowledgements (production-agent.ts:37-48).
CommandsDrain ==
  \A c \in Commits, n \in Nodes, t \in CommandTypes :
    Issued(t, c, n) ~> \A i \in DOMAIN commands :
                         commands[i].type = t /\ commands[i].commit = c /\ commands[i].node = n
                           => commands[i].acked \/ i <= expired

-----------------------------------------------------------------------------
(* The inductive invariant behind the safety properties.                   *)

\* What an acknowledgement proves.  A command in a batch is the node's own; while
\* an agent acknowledges ok:true, and in every archived success that echoes a
\* commitId, the rules are or were in the firewall of that (not Windows) node.
AnswersAreTrue ==
  /\ \A n \in Nodes : \A i \in batch[n] : commands[i].node = n
  /\ \A n \in Nodes \ WindowsNodes : \A i \in batch[n] :
       phase[n] \in AckOk /\ First(i, batch[n]) /\ commands[i].type = "APPLY_FIREWALL"
         => commands[i].commit \in applied[n]
  /\ \A a \in acks :
       a.commit # NoCommit /\ a.status = "SUCCEEDED" /\ commands[a.id].node \notin WindowsNodes
         => a.commit \in applied[commands[a.id].node]
  /\ \A c \in Commits : \A n \in Nodes \ WindowsNodes :
       rows[c][n] = "SUCCEEDED" => c \in applied[n]

\* What is known of a commit at each place of its apply().
BeforeRows == {"idle", "list", "stage", "start"}
Deciding == {"announce", "finalize"} \cup Polling
Committing == {"commit", "announceCommit", "COMMITTED"}
RolledBack == {"announceRollback", "ROLLED_BACK", "rethrown"}

ControlIsSound(c) ==
  /\ pc[c] = "idle" => commitStatus[c] = "none"
  /\ pc[c] \in Staging \cup Deciding \cup {"commit"} => commitStatus[c] = "STAGED"
  /\ pc[c] \in {"announceCommit", "COMMITTED"} => commitStatus[c] = "COMMITTED"
  /\ pc[c] \in {"mark", "rollback"} => commitStatus[c] # "none"
  /\ pc[c] \in {"rollbackList", "broadcast"} \cup RolledBack => commitStatus[c] = "ROLLED_BACK"
  /\ pc[c] \in {"idle", "list"} => targets[c] = {}
  /\ pc[c] \in BeforeRows => \A n \in Nodes : rows[c][n] = "none"
  /\ pc[c] \in Deciding =>
       \A n \in targets[c] : rows[c][n] \in {"PENDING", "SUCCEEDED", "FAILED"}
  /\ pc[c] \in Committing =>
       \A n \in targets[c] : rows[c][n] \in {"SUCCEEDED", "FAILED", "TIMED_OUT"}
  /\ pc[c] \in {"rollback", "rollbackList", "broadcast"} \cup RolledBack =>
       \A n \in Nodes : rows[c][n] \in {"none", "ROLLED_BACK"}
  /\ commitStatus[c] = "COMMITTED" \/ pc[c] = "commit" =>
       FewMissing(targets[c] \ Takers(c), targets[c])

\* Which commands of a commit have been issued at each place of its apply().
BroadcastIsSound(c) ==
  /\ todo[c] \subseteq active
  /\ pc[c] = "stage" => todo[c] \subseteq targets[c]
  /\ \A n \in Nodes : Issued("APPLY_FIREWALL", c, n) => n \in active \cap targets[c]
  /\ pc[c] \in {"idle"} \cup Staging \cup Deciding \cup Committing =>
       \A n \in Nodes : ~ Issued("ROLLBACK_FIREWALL", c, n)
  /\ pc[c] = "broadcast" =>
       \A n \in Nodes : Issued("APPLY_FIREWALL", c, n)
                          => n \in todo[c] \/ Issued("ROLLBACK_FIREWALL", c, n)
  /\ pc[c] \in RolledBack =>
       \A n \in Nodes : Issued("APPLY_FIREWALL", c, n) => Issued("ROLLBACK_FIREWALL", c, n)

\* The strengthening that makes the safety properties inductive: answers are
\* true, and every apply() is where its commit's rows and commands say.
RolloutInvariant ==
  /\ TypeOK
  /\ AnswersAreTrue
  /\ \A c \in Commits : ControlIsSound(c) /\ BroadcastIsSound(c)

-----------------------------------------------------------------------------
(* What comments and tests say of the rollout and the code does not do.    *)

Acked(type, c, n, status) ==
  \E a \in acks : /\ a.status = status
                  /\ commands[a.id].type = type
                  /\ commands[a.id].commit = c
                  /\ commands[a.id].node = n

\* pg-rollout-store.ts:24-28, "A command_acknowledgements status of anything other
\* than SUCCEEDED [...] is treated as FAILED here": no poll of refresh goes round
\* leaving PENDING the row of a node whose acknowledgement says FAILED.
FailedAnswersAreSeen ==
  [][\A c \in Commits, n \in Nodes :
       (pc[c] = "refresh" /\ pc'[c] = "loop" /\ Acked("APPLY_FIREWALL", c, n, "FAILED"))
         => rows'[c][n] # "PENDING"]_vars

\* safe-apply-integration.test.ts:12-13, "a bad apply actually gets rolled back on
\* the node": a node that has reported the rollback of a commit does not put the
\* commit's rules in place afterwards.
RolledBackStaysOff ==
  [][\A c \in Commits, n \in Nodes :
       c \in firewall'[n] \ firewall[n]
         => ~ Acked("ROLLBACK_FIREWALL", c, n, "SUCCEEDED")]_vars

\* pg-policy-enforcer.ts:48-49, "commit needs no further node-facing action: the
\* rules are already live from stage": the rules of a commit that apply() returned
\* as COMMITTED are in the firewall of the nodes recorded as SUCCEEDED.
CommittedRulesAreLive ==
  \A c \in Commits : pc[c] = "COMMITTED"
    => \A n \in targets[c] : rows[c][n] = "SUCCEEDED" => c \in firewall[n]
=============================================================================
