------------------------------ MODULE SafeApply -----------------------------
(***************************************************************************)
(* SafeApplyService.apply (src/application/safe-apply.ts) with its         *)
(* production collaborators PgPolicyEnforcer, PgRolloutStore and           *)
(* PgControlPlaneProbe.  One process per commit id, as POST                *)
(* /api/v1/policies/apply starts one apply() per request and nothing       *)
(* serialises them.                                                        *)
(*                                                                         *)
(* A step is one SQL statement, except that refresh and the rollout row    *)
(* updates of one call are one step: no other process reads or writes the  *)
(* policy_rollout_nodes rows of the commit while its apply() runs.         *)
(***************************************************************************)
EXTENDS CommandQueue

CONSTANTS
  ThresholdNum, ThresholdDen   \* nodeFailureThreshold as a fraction

ASSUME ThresholdAssumption == /\ ThresholdNum \in Nat
                              /\ ThresholdDen \in Nat \ {0}
                              /\ ThresholdNum <= ThresholdDen

VARIABLES
  active,         \* the nodes NodeRepository.list() returns
  commitStatus,   \* policy_commits.status, "none" before the INSERT
  rows,           \* policy_rollout_nodes.status, "none" where there is no row
  targets,        \* apply()'s targetedNodeIds
  todo,           \* nodes the current enqueue loop has not reached
  pc,             \* where apply() is
  caught,         \* apply() is in its catch block
  late            \* Date.now() >= deadline

applyVars == <<active, commitStatus, rows, targets, todo, pc, caught, late>>

RowStatus == {"PENDING", "SUCCEEDED", "FAILED", "TIMED_OUT", "ROLLED_BACK"}

Staging == {"list", "stage", "start", "announce"}
Polling == {"loop", "probe", "refresh"}
RollingBack == {"mark", "rollback", "rollbackList", "broadcast"}
Trying == Polling \cup RollingBack
            \cup {"finalize", "announceRollback", "commit", "announceCommit"}

\* How apply() ended: it returned one of its two results, it rethrew after the
\* catch block did its work, an error left apply() with work undone, or the API
\* process died.
Ended == {"COMMITTED", "ROLLED_BACK", "rethrown", "abandoned", "crashed"}
Running == Staging \cup Trying

ApplyTypeOK ==
  /\ active \subseteq Nodes
  /\ commitStatus \in [Commits -> {"none", "STAGED", "COMMITTED", "ROLLED_BACK"}]
  /\ rows \in [Commits -> [Nodes -> RowStatus \cup {"none"}]]
  /\ targets \in [Commits -> SUBSET Nodes]
  /\ todo \in [Commits -> SUBSET Nodes]
  /\ pc \in [Commits -> {"idle"} \cup Running \cup Ended]
  /\ caught \in [Commits -> BOOLEAN]
  /\ late \in [Commits -> BOOLEAN]

ApplyInit ==
  /\ active \in SUBSET Nodes
  /\ commitStatus = [c \in Commits |-> "none"]
  /\ rows = [c \in Commits |-> [n \in Nodes |-> "none"]]
  /\ targets = [c \in Commits |-> {}]
  /\ todo = [c \in Commits |-> {}]
  /\ pc = [c \in Commits |-> "idle"]
  /\ caught = [c \in Commits |-> FALSE]
  /\ late = [c \in Commits |-> FALSE]

Goto(c, label) == pc' = [pc EXCEPT ![c] = label]

\* Inside waitForOutcome, whose deadline is forgotten when it is left.
PollGoto(c, label) == /\ Goto(c, label)
                      /\ late' = [late EXCEPT ![c] = @ /\ label \in Polling]

-----------------------------------------------------------------------------
(* PgPolicyEnforcer.stage and PgRolloutStore.start: before the try block.  *)

\* The compiler accepted the policies: INSERT INTO policy_commits.
StageInsert(c) ==
  /\ pc[c] = "idle"
  /\ commitStatus' = [commitStatus EXCEPT ![c] = "STAGED"]
  /\ Goto(c, "list")
  /\ UNCHANGED <<queueVars, active, rows, targets, todo, caught, late>>

\* const nodes=await this.nodes.list()
StageList(c) ==
  /\ pc[c] = "list"
  /\ targets' = [targets EXCEPT ![c] = active]
  /\ todo' = [todo EXCEPT ![c] = active]
  /\ Goto(c, IF active = {} THEN "start" ELSE "stage")
  /\ UNCHANGED <<queueVars, active, commitStatus, rows, caught, late>>

\* One enqueue of stage's loop.
StageEnqueue(c) ==
  /\ pc[c] = "stage"
  /\ \E n \in todo[c] :
       /\ enqueue(n, "APPLY_FIREWALL", c, 100)
       /\ todo' = [todo EXCEPT ![c] = @ \ {n}]
       /\ Goto(c, IF todo[c] = {n} THEN "start" ELSE "stage")
  /\ UNCHANGED <<acks, expired, faults, active, commitStatus, rows, targets, caught, late>>

RolloutStart(c) ==
  /\ pc[c] = "start"
  /\ rows' = [rows EXCEPT ![c] = [n \in Nodes |-> IF n \in targets[c] THEN "PENDING" ELSE @[n]]]
  /\ Goto(c, "announce")
  /\ UNCHANGED <<queueVars, active, commitStatus, targets, todo, caught, late>>

\* publish("security.policy.staged"), publish("security.policy.rolled_back") and
\* publish("security.policy.committed"): the outbox row is not part of the state.
Announce(c, from, to) ==
  /\ pc[c] = from
  /\ Goto(c, to)
  /\ UNCHANGED <<queueVars, active, commitStatus, rows, targets, todo, caught, late>>

-----------------------------------------------------------------------------
(* waitForOutcome.                                                         *)

\* failureReason is undefined: the nodes with a status in Bad are few enough.
Tolerable(bad, aimed) ==
  Cardinality(bad) * ThresholdDen <= ThresholdNum * Cardinality(aimed)

\* The clock reaches the deadline while apply() polls.
Deadline(c) ==
  /\ pc[c] \in Polling
  /\ ~ late[c]
  /\ late' = [late EXCEPT ![c] = TRUE]
  /\ UNCHANGED <<queueVars, active, commitStatus, rows, targets, todo, pc, caught>>

\* while(Date.now()<deadline)
LoopHead(c) ==
  /\ pc[c] = "loop"
  /\ PollGoto(c, IF late[c] THEN "finalize" ELSE "probe")
  /\ UNCHANGED <<queueVars, active, commitStatus, rows, targets, todo, caught>>

\* verifyControlPlane() settles first: true goes on, false rolls back.
ProbeAnswers(c) ==
  /\ pc[c] = "probe"
  /\ PollGoto(c, "refresh") \/ PollGoto(c, "mark")
  /\ UNCHANGED <<queueVars, active, commitStatus, rows, targets, todo, caught>>

\* Variant of ProbeTimesOut: the probe is awaited, not raced.
ProbeAwaited(c) == pc[c] = "probe" /\ FALSE

\* sleep(remaining).then(()=>false) settles first: the probe hangs.
ProbeTimesOut(c) ==
  /\ pc[c] = "probe"
  /\ late[c]
  /\ PollGoto(c, "mark")
  /\ UNCHANGED <<queueVars, active, commitStatus, rows, targets, todo, caught>>

\* The acknowledgement rows PgRolloutStore.refresh selects for node n.
RolloutAcks(c, n) == {a \in acks : /\ commands[a.id].type = "APPLY_FIREWALL"
                                   /\ commands[a.id].node = n
                                   /\ a.commit = c}

\* The row of node n after refresh's UPDATEs (WHERE status='PENDING').
Refreshed(c, n) ==
  IF rows[c][n] # "PENDING" \/ RolloutAcks(c, n) = {} THEN rows[c][n]
  ELSE IF \E a \in RolloutAcks(c, n) : a.status = "SUCCEEDED" THEN "SUCCEEDED"
  ELSE "FAILED"

\* Variant of Refresh: statuses.some(...) in the place of statuses.every(...).
RefreshSome(c) ==
  /\ pc[c] = "refresh"
  /\ LET after == [n \in Nodes |-> Refreshed(c, n)]
         With(s) == {n \in targets[c] : after[n] = s}
     IN  /\ rows' = [rows EXCEPT ![c] = after]
         /\ PollGoto(c, IF ~ Tolerable(With("FAILED"), targets[c]) THEN "mark"
                        ELSE IF With("PENDING") # targets[c] THEN "commit"
                        ELSE "loop")
  /\ UNCHANGED <<queueVars, active, commitStatus, targets, todo, caught>>

\* One poll: refresh, failureReason, allTerminal.
Refresh(c) ==
  /\ pc[c] = "refresh"
  /\ LET after == [n \in Nodes |-> Refreshed(c, n)]
         With(s) == {n \in targets[c] : after[n] = s}
     IN  /\ rows' = [rows EXCEPT ![c] = after]
         /\ PollGoto(c, IF ~ Tolerable(With("FAILED"), targets[c]) THEN "mark"
                    ELSE IF With("PENDING") = {} THEN "commit"
                    ELSE "loop")
  /\ UNCHANGED <<queueVars, active, commitStatus, targets, todo, caught>>

\* Variant of Finalize: failureReason without includeTimedOut.
FinalizeIgnoringTimeouts(c) ==
  /\ pc[c] = "finalize"
  /\ LET after == [n \in Nodes |-> IF rows[c][n] = "PENDING" THEN "TIMED_OUT"
                                   ELSE rows[c][n]]
         bad == {n \in targets[c] : after[n] = "FAILED"}
     IN  /\ rows' = [rows EXCEPT ![c] = after]
         /\ Goto(c, IF Tolerable(bad, targets[c]) THEN "commit" ELSE "mark")
  /\ UNCHANGED <<queueVars, active, commitStatus, targets, todo, caught, late>>

\* Variant of Finalize: finalizeTimeouts without AND status='PENDING'.
FinalizeEveryRow(c) ==
  /\ pc[c] = "finalize"
  /\ rows' = [rows EXCEPT ![c] = [n \in Nodes |-> IF @[n] = "none" THEN "none"
                                                  ELSE "TIMED_OUT"]]
  /\ Goto(c, "mark")
  /\ UNCHANGED <<queueVars, active, commitStatus, targets, todo, caught, late>>

\* The window is over: finalizeTimeouts, summary, failureReason with TIMED_OUT.
Finalize(c) ==
  /\ pc[c] = "finalize"
  /\ LET after == [n \in Nodes |-> IF rows[c][n] = "PENDING" THEN "TIMED_OUT"
                                   ELSE rows[c][n]]
         bad == {n \in targets[c] : after[n] \in {"FAILED", "TIMED_OUT"}}
     IN  /\ rows' = [rows EXCEPT ![c] = after]
         /\ Goto(c, IF Tolerable(bad, targets[c]) THEN "commit" ELSE "mark")
  /\ UNCHANGED <<queueVars, active, commitStatus, targets, todo, caught, late>>

-----------------------------------------------------------------------------
(* The two outcomes, and the catch block.                                  *)

\* Variant of MarkRolledBack: a status outside the CHECK of policy_rollout_nodes.
MarkReverted(c) ==
  /\ pc[c] = "mark"
  /\ rows' = [rows EXCEPT ![c] = [n \in Nodes |-> IF @[n] = "none" THEN "none"
                                                  ELSE "REVERTED"]]
  /\ Goto(c, "rollback")
  /\ UNCHANGED <<queueVars, active, commitStatus, targets, todo, caught, late>>

\* rollout.markRolledBack: every row of the commit.
MarkRolledBack(c) ==
  /\ pc[c] = "mark"
  /\ rows' = [rows EXCEPT ![c] = [n \in Nodes |-> IF @[n] = "none" THEN "none"
                                                  ELSE "ROLLED_BACK"]]
  /\ Goto(c, "rollback")
  /\ UNCHANGED <<queueVars, active, commitStatus, targets, todo, caught, late>>

\* enforce.rollback, first statement.
RollbackUpdate(c) ==
  /\ pc[c] = "rollback"
  /\ commitStatus' = [commitStatus EXCEPT ![c] = "ROLLED_BACK"]
  /\ Goto(c, "rollbackList")
  /\ UNCHANGED <<queueVars, active, rows, targets, todo, caught, late>>

\* Variant of AfterRollback: the rolled-back branch does not return.
FallThrough(c) == IF caught[c] THEN "rethrown" ELSE "commit"

\* What follows enforce.rollback in the try block and in the catch block.
AfterRollback(c) == IF caught[c] THEN "rethrown" ELSE "announceRollback"

RollbackList(c) ==
  /\ pc[c] = "rollbackList"
  /\ todo' = [todo EXCEPT ![c] = active]
  /\ Goto(c, IF active = {} THEN AfterRollback(c) ELSE "broadcast")
  /\ UNCHANGED <<queueVars, active, commitStatus, rows, targets, caught, late>>

RollbackEnqueue(c) ==
  /\ pc[c] = "broadcast"
  /\ \E n \in todo[c] :
       /\ enqueue(n, "ROLLBACK_FIREWALL", c, 200)
       /\ todo' = [todo EXCEPT ![c] = @ \ {n}]
       /\ Goto(c, IF todo[c] = {n} THEN AfterRollback(c) ELSE "broadcast")
  /\ UNCHANGED <<acks, expired, faults, active, commitStatus, rows, targets, caught, late>>

CommitUpdate(c) ==
  /\ pc[c] = "commit"
  /\ commitStatus' = [commitStatus EXCEPT ![c] = "COMMITTED"]
  /\ Goto(c, "announceCommit")
  /\ UNCHANGED <<queueVars, active, rows, targets, todo, caught, late>>

\* What the statements of the current step write to the row of node n.
Written(c, n) ==
  CASE pc[c] = "start" /\ n \in targets[c] -> "PENDING"
    [] pc[c] = "refresh" -> Refreshed(c, n)
    [] pc[c] = "finalize" /\ rows[c][n] = "PENDING" -> "TIMED_OUT"
    [] OTHER -> rows[c][n]

\* The rows an interrupted step may leave: start and refresh write row by row,
\* finalizeTimeouts is one UPDATE, which summary follows.
Interrupted(c) ==
  {[n \in Nodes |-> IF n \in S THEN Written(c, n) ELSE rows[c][n]] :
     S \in IF pc[c] = "finalize" THEN {{}, Nodes} ELSE SUBSET Nodes}

\* Variant of StatementFails: the catch block only rethrows.
RethrowOnly(c) ==
  /\ Fault
  /\ pc[c] \in Running
  /\ PollGoto(c, "rethrown")
  /\ UNCHANGED <<commands, acks, expired, active, commitStatus, rows, targets, todo, caught>>

\* A statement of apply() fails: before the try block the error leaves apply(),
\* in it the catch block rolls back, in the catch block it leaves apply().  When
\* only the reply is lost, this is the failure of the next statement.
StatementFails(c) ==
  /\ Fault
  /\ \/ /\ pc[c] \in Trying /\ ~ caught[c]
        /\ PollGoto(c, "mark")
        /\ caught' = [caught EXCEPT ![c] = TRUE]
     \/ /\ pc[c] \in Staging \/ (pc[c] \in Trying /\ caught[c])
        /\ PollGoto(c, "abandoned")
        /\ UNCHANGED caught
  /\ \E r \in Interrupted(c) : rows' = [rows EXCEPT ![c] = r]
  /\ UNCHANGED <<commands, acks, expired, active, commitStatus, targets, todo>>

\* The API process dies: every apply() under way is gone, what it wrote stays.
ApiCrash ==
  /\ Fault
  /\ \E c \in Commits : pc[c] \in Running
  /\ pc' = [c \in Commits |-> IF pc[c] \in Running THEN "crashed" ELSE pc[c]]
  /\ \E r \in [Commits -> UNION {Interrupted(c) : c \in Commits}] :
       /\ \A c \in Commits : r[c] \in Interrupted(c)
       /\ rows' = r
  /\ UNCHANGED <<commands, acks, expired, active, commitStatus, targets, todo, caught, late>>

\* The steps of apply() that complete by themselves.
ApplyStep(c) ==
  \/ StageList(c)
  \/ StageEnqueue(c)
  \/ RolloutStart(c)
  \/ Announce(c, "announce", "loop")
  \/ LoopHead(c)
  \/ ProbeTimesOut(c)
  \/ Refresh(c)
  \/ Finalize(c)
  \/ MarkRolledBack(c)
  \/ RollbackUpdate(c)
  \/ RollbackList(c)
  \/ RollbackEnqueue(c)
  \/ Announce(c, "announceRollback", "ROLLED_BACK")
  \/ CommitUpdate(c)
  \/ Announce(c, "announceCommit", "COMMITTED")
=============================================================================
