------------------------ MODULE PolicyRolloutProofs -------------------------
(***************************************************************************)
(* The inductive invariant of the rollout, the safety properties it        *)
(* implies, and that PolicyRollout implements AtomicRollout, for any       *)
(* finite fleet, any number of concurrent applies and any number of        *)
(* faults.                                                                 *)
(***************************************************************************)
EXTENDS PolicyRolloutSteps, FiniteSetTheorems

-----------------------------------------------------------------------------
(***************************************************************************)
(* RolloutInvariant is inductive, and implies the safety properties of     *)
(* PolicyRollout, for any finite fleet, any number of concurrent applies   *)
(* and any number of faults.                                               *)
(***************************************************************************)

(* Every apply() is where its commit's rows say.                           *)

\* Taking nodes off the missing ones keeps the rest tolerable.
LEMMA FewerMissing ==
  ASSUME NEW aimed \in SUBSET Nodes, NEW more \in SUBSET Nodes, NEW less \in SUBSET Nodes,
         less \ WindowsNodes \subseteq more, Tolerable(more, aimed)
  PROVE  FewMissing(less, aimed)
<1>1. IsFiniteSet(more) /\ IsFiniteSet(aimed)
  BY QueueAssumption, FS_Subset, Zenon
<1>2. /\ IsFiniteSet(less \ WindowsNodes)
      /\ Cardinality(less \ WindowsNodes) <= Cardinality(more)
  BY <1>1, FS_Subset, Zenon
<1>3. /\ Cardinality(more) \in Nat
      /\ Cardinality(less \ WindowsNodes) \in Nat
      /\ Cardinality(aimed) \in Nat
  BY <1>1, <1>2, FS_CardinalityType, Zenon
<1>4. \A a, b, d \in Nat : a <= b => a * d <= b * d
  OBVIOUS
<1>5. \A a, b \in Nat : a * b \in Nat
  OBVIOUS
<1> QED
  BY <1>2, <1>3, <1>4, <1>5, ThresholdAssumption DEF FewMissing, Tolerable

\* A step that leaves the commit alone keeps ControlIsSound: nodes that take the
\* rules late only shrink the set of missing ones.
LEMMA ControlKept ==
  ASSUME TypeOK, TypeOK', NEW c \in Commits, ControlIsSound(c),
         commitStatus'[c] = commitStatus[c], targets'[c] = targets[c],
         (pc'[c] = pc[c] /\ rows'[c] = rows[c]) \/ pc'[c] = "crashed",
         \A n \in Nodes : applied[n] \subseteq applied'[n]
  PROVE  ControlIsSound(c)'
<1>1. ASSUME FewMissing(targets[c] \ Takers(c), targets[c])
      PROVE  FewMissing(targets[c] \ Takers(c), targets[c])'
  <2>1. /\ targets[c] \in SUBSET Nodes
        /\ (targets[c] \ Takers(c)) \ WindowsNodes \in SUBSET Nodes
        /\ targets[c] \ Takers(c)' \in SUBSET Nodes
        /\ (targets[c] \ Takers(c)') \ WindowsNodes \subseteq (targets[c] \ Takers(c)) \ WindowsNodes
    BY Zenon DEF Takers, TypeOK, ApplyTypeOK
  <2>2. Tolerable((targets[c] \ Takers(c)) \ WindowsNodes, targets[c])
    BY <1>1, Zenon DEF FewMissing
  <2>3. FewMissing(targets[c] \ Takers(c)', targets[c])
    BY <2>1, <2>2, FewerMissing, Zenon
  <2> QED
    BY <2>3, Zenon DEF FewMissing, Tolerable
<1>2. CASE pc'[c] = pc[c] /\ rows'[c] = rows[c]
  BY <1>1, <1>2, Zenon DEF ControlIsSound
<1>3. CASE pc'[c] = "crashed"
  <2>1. /\ pc'[c] \notin {"idle"} \cup Staging \cup Deciding \cup Committing \cup RolledBack
        /\ pc'[c] \notin {"mark", "rollback", "rollbackList", "broadcast"} \cup BeforeRows
    BY <1>3, Zenon DEF Staging, Deciding, Polling, Committing, RolledBack, BeforeRows
  <2> QED
    BY <1>1, <2>1, Zenon DEF ControlIsSound, Committing, BeforeRows
<1> QED
  BY <1>2, <1>3, Zenon

\* refresh decides to commit only if the nodes it counts as FAILED are all that
\* may lack the rules.
LEMMA RefreshDecides ==
  ASSUME TypeOK, TypeOK', AnswersAreTrue', NEW c \in Commits, ControlIsSound(c), Refresh(c),
         UNCHANGED agentVars, pc'[c] = "commit"
  PROVE  /\ \A n \in targets[c] : rows'[c][n] \in {"SUCCEEDED", "FAILED"}
         /\ FewMissing(targets[c] \ Takers(c), targets[c])
<1> DEFINE With(s) == {n \in targets[c] : rows'[c][n] = s}
<1>1. \A n \in Nodes : rows'[c][n] = Refreshed(c, n)
  BY Zenon DEF Refresh, TypeOK, ApplyTypeOK
<1>2. targets[c] \subseteq Nodes
  BY Zenon DEF TypeOK, ApplyTypeOK
<1>3. \A n \in targets[c] : rows'[c][n] \in {"PENDING", "SUCCEEDED", "FAILED"}
  BY <1>1, <1>2 DEF Refresh, ControlIsSound, Deciding, Polling, Refreshed
<1>4. {n \in targets[c] : [m \in Nodes |-> Refreshed(c, m)][n] = "PENDING"} = With("PENDING")
      /\ {n \in targets[c] : [m \in Nodes |-> Refreshed(c, m)][n] = "FAILED"} = With("FAILED")
  BY <1>1, <1>2, Zenon
<1>5. With("PENDING") = {} /\ Tolerable(With("FAILED"), targets[c])
  <2>1. pc'[c] = IF ~ Tolerable(With("FAILED"), targets[c]) THEN "mark"
                 ELSE IF With("PENDING") = {} THEN "commit" ELSE "loop"
    BY <1>4, Zenon DEF Refresh, PollGoto, Goto, TypeOK, ApplyTypeOK
  <2> QED
    BY <2>1, Zenon
<1>6. \A n \in targets[c] : rows'[c][n] \in {"SUCCEEDED", "FAILED"}
  BY <1>3, <1>5, Zenon
<1>7. (targets[c] \ Takers(c)) \ WindowsNodes \subseteq With("FAILED")
  BY <1>2, <1>6, Zenon DEF Takers, AnswersAreTrue, agentVars
<1>8. With("FAILED") \in SUBSET Nodes /\ targets[c] \ Takers(c) \in SUBSET Nodes
  BY <1>2, Zenon
<1> QED
  BY <1>2, <1>5, <1>6, <1>7, <1>8, FewerMissing, Zenon

\* The deadline decides to commit only if the nodes it counts as FAILED or
\* TIMED_OUT are all that may lack the rules.
LEMMA FinalizeDecides ==
  ASSUME TypeOK, TypeOK', AnswersAreTrue', NEW c \in Commits, ControlIsSound(c), Finalize(c),
         UNCHANGED agentVars, pc'[c] = "commit"
  PROVE  /\ \A n \in targets[c] : rows'[c][n] \in {"SUCCEEDED", "FAILED", "TIMED_OUT"}
         /\ FewMissing(targets[c] \ Takers(c), targets[c])
<1> DEFINE after == [n \in Nodes |-> IF rows[c][n] = "PENDING" THEN "TIMED_OUT" ELSE rows[c][n]]
           bad == {n \in targets[c] : after[n] \in {"FAILED", "TIMED_OUT"}}
<1>1. targets[c] \subseteq Nodes
  BY Zenon DEF TypeOK, ApplyTypeOK
<1>2. rows'[c] = after
  BY Zenon DEF Finalize, TypeOK, ApplyTypeOK
<1>3. Tolerable(bad, targets[c])
  <2>1. pc'[c] = IF Tolerable(bad, targets[c]) THEN "commit" ELSE "mark"
    BY Zenon DEF Finalize, Goto, TypeOK, ApplyTypeOK
  <2> QED
    BY <2>1, Zenon
<1>4. \A n \in targets[c] : after[n] \in {"SUCCEEDED", "FAILED", "TIMED_OUT"}
  BY <1>1, Zenon DEF Finalize, ControlIsSound, Deciding
<1>5. \A n \in Nodes \ WindowsNodes : after[n] = "SUCCEEDED" => n \in Takers(c)
  BY <1>2, Zenon DEF Takers, AnswersAreTrue, agentVars
<1> HIDE DEF after
<1>6. (targets[c] \ Takers(c)) \ WindowsNodes \subseteq bad
  BY <1>1, <1>4, <1>5, Zenon
<1>7. bad \in SUBSET Nodes /\ targets[c] \ Takers(c) \in SUBSET Nodes
  BY <1>1, Zenon
<1> QED
  BY <1>1, <1>2, <1>3, <1>4, <1>6, <1>7, FewerMissing, Zenon

\* The commit's own steps keep ControlIsSound.
LEMMA ControlOwn ==
  ASSUME TypeOK, TypeOK', AnswersAreTrue', NEW c \in Commits, ControlIsSound(c), ApplyAny(c)
  PROVE  ControlIsSound(c)'
<1> USE DEF Staging, Polling, Deciding, Committing, RolledBack, BeforeRows
<1>1. /\ UNCHANGED agentVars
      /\ Takers(c)' = Takers(c)
      /\ \A n \in Nodes : applied'[n] = applied[n]
  BY ApplyFrame, Zenon DEF Takers, agentVars
<1>t. /\ pc \in [Commits -> {pc[d] : d \in Commits}]
      /\ commitStatus \in [Commits -> {commitStatus[d] : d \in Commits}]
      /\ rows \in [Commits -> {rows[d] : d \in Commits}]
      /\ targets \in [Commits -> SUBSET Nodes]
  BY Zenon DEF TypeOK, ApplyTypeOK
<1>p. \A label : Goto(c, label) \/ PollGoto(c, label) => pc'[c] = label
  BY <1>t, Zenon DEF Goto, PollGoto
<1>2. CASE StageInsert(c)
  <2>1. /\ pc'[c] = "list" /\ commitStatus'[c] = "STAGED"
        /\ rows' = rows /\ targets' = targets /\ pc[c] = "idle"
    BY <1>2, <1>t, Zenon DEF StageInsert, Goto
  <2> QED
    BY <2>1, Zenon DEF ControlIsSound
<1>3. CASE StageList(c)
  <2>1. /\ pc'[c] \in {"start", "stage"} /\ pc[c] = "list"
        /\ rows' = rows /\ commitStatus' = commitStatus
    BY <1>3, <1>t, Zenon DEF StageList, Goto
  <2> QED
    BY <2>1, Zenon DEF ControlIsSound
<1>4. CASE StageEnqueue(c)
  <2>1. /\ pc'[c] \in {"start", "stage"} /\ pc[c] = "stage"
        /\ rows' = rows /\ commitStatus' = commitStatus /\ targets' = targets
    BY <1>4, <1>t, Zenon DEF StageEnqueue, Goto
  <2> QED
    BY <2>1, Zenon DEF ControlIsSound
<1>5. CASE RolloutStart(c)
  <2>1. /\ pc'[c] = "announce" /\ pc[c] = "start"
        /\ commitStatus' = commitStatus /\ targets' = targets
        /\ \A n \in targets[c] : rows'[c][n] = "PENDING"
    BY <1>5, <1>t, Zenon DEF RolloutStart, Goto
  <2> QED
    BY <2>1, Zenon DEF ControlIsSound
<1>6. CASE Announce(c, "announce", "loop") \/ LoopHead(c)
  <2>1. /\ pc[c] \in {"announce", "loop"} /\ pc'[c] \in {"loop", "probe", "finalize"}
        /\ UNCHANGED <<rows, commitStatus, targets>>
    BY <1>6, <1>p, Zenon DEF Announce, LoopHead
  <2> QED
    BY <2>1, Zenon DEF ControlIsSound
<1>7. CASE ProbeAnswers(c) \/ ProbeTimesOut(c)
  <2>1. /\ pc[c] = "probe" /\ pc'[c] \in {"refresh", "mark"}
        /\ UNCHANGED <<rows, commitStatus, targets>>
    BY <1>7, <1>p, Zenon DEF ProbeAnswers, ProbeTimesOut
  <2> QED
    BY <2>1, Zenon DEF ControlIsSound
<1>8. CASE Refresh(c)
  <2>1. /\ pc[c] = "refresh" /\ pc'[c] \in {"mark", "commit", "loop"}
        /\ UNCHANGED <<commitStatus, targets>>
    BY <1>8, <1>t, Zenon DEF Refresh, PollGoto, Goto
  <2>2. \A n \in targets[c] : rows'[c][n] \in {"PENDING", "SUCCEEDED", "FAILED"}
    <3>1. targets[c] \subseteq Nodes /\ \A n \in Nodes : rows'[c][n] = Refreshed(c, n)
      BY <1>8, <1>t, Zenon DEF Refresh, TypeOK, ApplyTypeOK
    <3> QED
      BY <2>1, <3>1, Zenon DEF ControlIsSound, Refreshed
  <2>3. CASE pc'[c] = "commit"
    <3>1. /\ \A n \in targets[c] : rows'[c][n] \in {"SUCCEEDED", "FAILED"}
          /\ FewMissing(targets[c] \ Takers(c), targets[c])
      BY <1>1, <1>8, <2>3, RefreshDecides, Zenon
    <3>2. FewMissing(targets[c] \ Takers(c), targets[c])'
      BY <1>1, <2>1, <3>1, Zenon DEF FewMissing, Tolerable
    <3> QED
      BY <2>1, <2>3, <3>1, <3>2, Zenon DEF ControlIsSound
  <2> QED
    BY <2>1, <2>2, <2>3, Zenon DEF ControlIsSound
<1>9. CASE Finalize(c)
  <2>1. /\ pc[c] = "finalize" /\ pc'[c] \in {"mark", "commit"}
        /\ UNCHANGED <<commitStatus, targets>>
    BY <1>9, <1>t, Zenon DEF Finalize, Goto
  <2>2. CASE pc'[c] = "commit"
    <3>1. /\ \A n \in targets[c] : rows'[c][n] \in {"SUCCEEDED", "FAILED", "TIMED_OUT"}
          /\ FewMissing(targets[c] \ Takers(c), targets[c])
      BY <1>1, <1>9, <2>2, FinalizeDecides, Zenon
    <3>2. FewMissing(targets[c] \ Takers(c), targets[c])'
      BY <1>1, <2>1, <3>1, Zenon DEF FewMissing, Tolerable
    <3> QED
      BY <2>1, <2>2, <3>1, <3>2, Zenon DEF ControlIsSound
  <2> QED
    BY <2>1, <2>2, Zenon DEF ControlIsSound
<1>10. (UNCHANGED targets /\ FewMissing(targets[c] \ Takers(c), targets[c]))
         => FewMissing(targets[c] \ Takers(c), targets[c])'
  BY <1>1, Zenon DEF FewMissing, Tolerable
<1>11. CASE MarkRolledBack(c)
  <2>1. /\ pc[c] = "mark" /\ pc'[c] = "rollback"
        /\ UNCHANGED <<commitStatus, targets>>
        /\ \A n \in Nodes : rows'[c][n] \in {"none", "ROLLED_BACK"}
    BY <1>11, <1>t, Zenon DEF MarkRolledBack, Goto
  <2> QED
    BY <1>10, <2>1, Zenon DEF ControlIsSound
<1>12. CASE RollbackUpdate(c)
  <2>1. /\ pc[c] = "rollback" /\ pc'[c] = "rollbackList"
        /\ commitStatus'[c] = "ROLLED_BACK"
        /\ UNCHANGED <<rows, targets>>
    BY <1>12, <1>t, Zenon DEF RollbackUpdate, Goto
  <2> QED
    BY <2>1, Zenon DEF ControlIsSound
<1>13. CASE RollbackList(c) \/ RollbackEnqueue(c)
  <2>1. pc[c] \in {"rollbackList", "broadcast"} /\ UNCHANGED <<commitStatus, rows, targets>>
    BY <1>13, Zenon DEF RollbackList, RollbackEnqueue
  <2>2. pc'[c] \in {"broadcast", AfterRollback(c)}
    BY <1>13, <1>p, Zenon DEF RollbackList, RollbackEnqueue
  <2>3. pc'[c] \in {"broadcast", "rethrown", "announceRollback"}
    BY <2>2, Zenon DEF AfterRollback
  <2> QED
    BY <2>1, <2>3, Zenon DEF ControlIsSound
<1>14. CASE Announce(c, "announceRollback", "ROLLED_BACK")
  <2>1. /\ pc[c] = "announceRollback" /\ pc'[c] = "ROLLED_BACK"
        /\ UNCHANGED <<commitStatus, rows, targets>>
    BY <1>14, <1>t, Zenon DEF Announce, Goto
  <2> QED
    BY <2>1, Zenon DEF ControlIsSound
<1>15. CASE CommitUpdate(c)
  <2>1. /\ pc[c] = "commit" /\ pc'[c] = "announceCommit"
        /\ commitStatus'[c] = "COMMITTED"
        /\ UNCHANGED <<rows, targets>>
    BY <1>15, <1>t, Zenon DEF CommitUpdate, Goto
  <2> QED
    BY <1>10, <2>1, Zenon DEF ControlIsSound
<1>16. CASE Announce(c, "announceCommit", "COMMITTED")
  <2>1. /\ pc[c] = "announceCommit" /\ pc'[c] = "COMMITTED"
        /\ UNCHANGED <<commitStatus, rows, targets>>
    BY <1>16, <1>t, Zenon DEF Announce, Goto
  <2> QED
    BY <1>10, <2>1, Zenon DEF ControlIsSound
<1>17. CASE StatementFails(c)
  <2>1. UNCHANGED <<commitStatus, targets>>
    BY <1>17, Zenon DEF StatementFails
  <2>2. CASE pc[c] \in Trying /\ pc'[c] = "mark"
    BY <1>10, <2>1, <2>2, Zenon DEF ControlIsSound, Trying, RollingBack
  <2>3. CASE pc'[c] = "abandoned"
    BY <1>10, <2>1, <2>3, Zenon DEF ControlIsSound
  <2> QED
    BY <1>17, <1>t, <2>2, <2>3, Zenon DEF StatementFails, PollGoto, Goto
<1>18. CASE Deadline(c)
  <2>1. UNCHANGED <<commitStatus, rows, targets, pc>>
    BY <1>18, Zenon DEF Deadline
  <2> QED
    BY <1>10, <2>1, Zenon DEF ControlIsSound
<1> QED
  BY <1>2, <1>3, <1>4, <1>5, <1>6, <1>7, <1>8, <1>9, <1>11, <1>12, <1>13, <1>14, <1>15,
     <1>16, <1>17, <1>18, ZenonT(40)
     DEF ApplyAny, StartApply, Apply, Probe, Tick, ApplyFault, ApplyStep

-----------------------------------------------------------------------------
(* The commands issued for a commit are those its apply() has sent.        *)

\* A step that issues nothing for the commit and leaves its apply() where it was,
\* or ends it in a crash, keeps BroadcastIsSound.
LEMMA BroadcastKept ==
  ASSUME NEW c \in Commits, BroadcastIsSound(c),
         todo'[c] = todo[c], targets'[c] = targets[c], active \subseteq active',
         pc'[c] = pc[c] \/ pc'[c] = "crashed",
         \A u \in CommandTypes, n \in Nodes : Issued(u, c, n)' <=> Issued(u, c, n)
  PROVE  BroadcastIsSound(c)'
<1>1. "APPLY_FIREWALL" \in CommandTypes /\ "ROLLBACK_FIREWALL" \in CommandTypes
  BY Zenon DEF CommandTypes
<1>2. \A n \in Nodes : /\ Issued("APPLY_FIREWALL", c, n)' <=> Issued("APPLY_FIREWALL", c, n)
                       /\ Issued("ROLLBACK_FIREWALL", c, n)' <=> Issued("ROLLBACK_FIREWALL", c, n)
  BY <1>1, Zenon
<1>3. CASE pc'[c] = pc[c]
  BY <1>2, <1>3, Zenon DEF BroadcastIsSound
<1>4. CASE pc'[c] = "crashed"
  <2>1. pc'[c] \notin {"stage", "broadcast", "idle"} \cup Staging \cup Deciding \cup Committing
                        \cup RolledBack
    BY <1>4, Zenon DEF Staging, Deciding, Polling, Committing, RolledBack
  <2> QED
    BY <1>2, <2>1, Zenon DEF BroadcastIsSound
<1> QED
  BY <1>3, <1>4, Zenon

\* The commit's own steps keep BroadcastIsSound.
LEMMA BroadcastOwn ==
  ASSUME TypeOK, NEW c \in Commits, ControlIsSound(c), BroadcastIsSound(c), ApplyAny(c)
  PROVE  BroadcastIsSound(c)'
<1> USE DEF Staging, Polling, Deciding, Committing, RolledBack
<1>t. /\ pc \in [Commits -> {pc[d] : d \in Commits}]
      /\ targets \in [Commits -> SUBSET Nodes]
      /\ todo \in [Commits -> SUBSET Nodes]
      /\ active' = active
      /\ active \subseteq Nodes
  BY ApplyFrame, Zenon DEF TypeOK, ApplyTypeOK
<1>p. \A label : Goto(c, label) \/ PollGoto(c, label) => pc'[c] = label
  BY <1>t, Zenon DEF Goto, PollGoto
<1>c. "APPLY_FIREWALL" \in CommandTypes /\ "ROLLBACK_FIREWALL" \in CommandTypes
  BY Zenon DEF CommandTypes
<1>1. CASE StageEnqueue(c)
  <2>1. PICK n \in todo[c] :
          /\ todo' = [todo EXCEPT ![c] = @ \ {n}]
          /\ Goto(c, IF todo[c] = {n} THEN "start" ELSE "stage")
          /\ \A u \in CommandTypes, d \in Commits, m \in Nodes :
               Issued(u, d, m)' <=> Issued(u, d, m) \/ (u = "APPLY_FIREWALL" /\ d = c /\ m = n)
    BY <1>1, StageEnqueueIssues, Zenon
  <2>2. /\ pc[c] = "stage" /\ pc'[c] \in {"start", "stage"}
        /\ targets' = targets /\ todo'[c] = todo[c] \ {n}
    BY <1>1, <1>t, <1>p, <2>1, Zenon DEF StageEnqueue
  <2>3. \A m \in Nodes :
          /\ Issued("APPLY_FIREWALL", c, m)' <=> Issued("APPLY_FIREWALL", c, m) \/ m = n
          /\ Issued("ROLLBACK_FIREWALL", c, m)' <=> Issued("ROLLBACK_FIREWALL", c, m)
    BY <1>c, <2>1, Zenon
  <2>4. n \in active /\ n \in targets[c]
    BY <2>2, Zenon DEF BroadcastIsSound
  <2> QED
    BY <1>t, <2>2, <2>3, <2>4, Zenon DEF BroadcastIsSound
<1>2. CASE RollbackEnqueue(c)
  <2>1. PICK n \in todo[c] :
          /\ todo' = [todo EXCEPT ![c] = @ \ {n}]
          /\ Goto(c, IF todo[c] = {n} THEN AfterRollback(c) ELSE "broadcast")
          /\ \A u \in CommandTypes, d \in Commits, m \in Nodes :
               Issued(u, d, m)' <=> Issued(u, d, m) \/ (u = "ROLLBACK_FIREWALL" /\ d = c /\ m = n)
    BY <1>2, RollbackEnqueueIssues, Zenon
  <2>2. /\ pc[c] = "broadcast" /\ targets' = targets /\ todo'[c] = todo[c] \ {n}
    BY <1>2, <1>t, <2>1, Zenon DEF RollbackEnqueue
  <2>3. \A m \in Nodes :
          /\ Issued("APPLY_FIREWALL", c, m)' <=> Issued("APPLY_FIREWALL", c, m)
          /\ Issued("ROLLBACK_FIREWALL", c, m)' <=> Issued("ROLLBACK_FIREWALL", c, m) \/ m = n
    BY <1>c, <2>1, Zenon
  <2>4. pc'[c] = IF todo[c] = {n} THEN AfterRollback(c) ELSE "broadcast"
    BY <1>p, <2>1, Zenon
  <2>5. AfterRollback(c) \in {"rethrown", "announceRollback"}
    BY Zenon DEF AfterRollback
  <2>6. \A m \in Nodes : Issued("APPLY_FIREWALL", c, m)'
                           => m \in todo'[c] \/ Issued("ROLLBACK_FIREWALL", c, m)'
    BY <2>2, <2>3, Zenon DEF BroadcastIsSound
  <2>7. todo[c] = {n} => todo'[c] = {}
    BY <2>2, Zenon
  <2> QED
    BY <1>t, <2>2, <2>3, <2>4, <2>5, <2>6, <2>7, Zenon DEF BroadcastIsSound
<1>3. CASE ~ (StageEnqueue(c) \/ RollbackEnqueue(c))
  <2>1. \A u \in CommandTypes, n \in Nodes : Issued(u, c, n)' <=> Issued(u, c, n)
    BY <1>3, ApplyFrame DEF Issued
  <2>2. \A n \in Nodes : /\ Issued("APPLY_FIREWALL", c, n)' <=> Issued("APPLY_FIREWALL", c, n)
                         /\ Issued("ROLLBACK_FIREWALL", c, n)' <=> Issued("ROLLBACK_FIREWALL", c, n)
    BY <1>c, <2>1, Zenon
  <2>3. CASE StageList(c)
    <3>1. /\ pc[c] = "list" /\ pc'[c] \in {"start", "stage"}
          /\ targets'[c] = active /\ todo'[c] = active
      BY <1>t, <1>p, <2>3, Zenon DEF StageList
    <3> QED
      BY <1>t, <2>2, <3>1, Zenon DEF BroadcastIsSound
  <2>4. CASE RollbackList(c)
    <3>1. /\ pc[c] = "rollbackList" /\ targets' = targets /\ todo'[c] = active
          /\ pc'[c] = IF active = {} THEN AfterRollback(c) ELSE "broadcast"
      BY <1>t, <1>p, <2>4, Zenon DEF RollbackList
    <3>2. AfterRollback(c) \in {"rethrown", "announceRollback"}
      BY Zenon DEF AfterRollback
    <3> QED
      BY <1>t, <2>2, <3>1, <3>2, Zenon DEF BroadcastIsSound
  <2>5. CASE Announce(c, "announceRollback", "ROLLED_BACK")
    <3>1. /\ pc[c] = "announceRollback" /\ pc'[c] = "ROLLED_BACK"
          /\ targets' = targets /\ todo' = todo
      BY <1>p, <2>5, Zenon DEF Announce
    <3> QED
      BY <1>t, <2>2, <3>1, Zenon DEF BroadcastIsSound
  <2>6. CASE /\ UNCHANGED <<targets, todo>>
             /\ \/ pc'[c] = pc[c]
                \/ pc'[c] \in {"mark", "rollback", "rollbackList", "abandoned"}
                \/ /\ pc[c] \in {"idle"} \cup Staging \cup Deciding \cup Committing
                   /\ pc'[c] \in (Staging \cup Deciding \cup Committing) \ {"stage"}
    BY <1>t, <2>2, <2>6, Zenon DEF BroadcastIsSound
  <2>7. StageInsert(c) \/ RolloutStart(c) \/ Announce(c, "announce", "loop")
          \/ Announce(c, "announceCommit", "COMMITTED") \/ CommitUpdate(c) \/ LoopHead(c)
        => /\ UNCHANGED <<targets, todo>>
           /\ pc[c] \in {"idle"} \cup Staging \cup Deciding \cup Committing
           /\ pc'[c] \in (Staging \cup Deciding \cup Committing) \ {"stage"}
    BY <1>p, Zenon DEF StageInsert, RolloutStart, Announce, CommitUpdate, LoopHead
  <2>8. ProbeAnswers(c) \/ ProbeTimesOut(c) \/ Refresh(c) \/ Finalize(c)
        => /\ UNCHANGED <<targets, todo>>
           /\ pc[c] \in Deciding
           /\ pc'[c] \in {"mark", "refresh", "commit", "loop"}
    BY <1>p, Zenon DEF ProbeAnswers, ProbeTimesOut, Refresh, Finalize
  <2>9. MarkRolledBack(c) \/ RollbackUpdate(c) \/ StatementFails(c)
        => /\ UNCHANGED <<targets, todo>>
           /\ pc'[c] \in {"mark", "rollback", "rollbackList", "abandoned"}
    BY <1>p, Zenon DEF MarkRolledBack, RollbackUpdate, StatementFails
  <2>10. Deadline(c) => UNCHANGED <<targets, todo, pc>>
    BY Zenon DEF Deadline
  <2> QED
    BY <1>3, <2>3, <2>4, <2>5, <2>6, <2>7, <2>8, <2>9, <2>10, ZenonT(40)
       DEF ApplyAny, StartApply, Apply, Probe, Tick, ApplyFault, ApplyStep
<1> QED
  BY <1>1, <1>2, <1>3, Zenon

-----------------------------------------------------------------------------
(* The invariant and the safety properties it implies.                     *)

\* A step that touches neither the queue nor a firewall (enrolment, expiry, a crash
\* of the API) keeps the invariant.
LEMMA QuietStep ==
  ASSUME RolloutInvariant, TypeOK',
         UNCHANGED <<commands, acks, phase, batch, applied, commitStatus, targets, todo>>,
         active \subseteq active',
         \A c \in Commits : (pc'[c] = pc[c] /\ rows'[c] = rows[c]) \/ pc'[c] = "crashed",
         \A c \in Commits, n \in Nodes :
           rows'[c][n] = "SUCCEEDED" => "SUCCEEDED" \in {rows[c][n], Refreshed(c, n)}
  PROVE  RolloutInvariant'
<1>1. TypeOK /\ \A c \in Commits : ControlIsSound(c) /\ BroadcastIsSound(c)
  BY Zenon DEF RolloutInvariant
<1>2. AnswersAreTrue'
  <2>1. ASSUME NEW c \in Commits, NEW n \in Nodes \ WindowsNodes, rows'[c][n] = "SUCCEEDED"
        PROVE  c \in applied[n]
    <3>1. CASE rows[c][n] = "SUCCEEDED"
      BY <3>1, Zenon DEF RolloutInvariant, AnswersAreTrue
    <3>2. CASE rows[c][n] # "SUCCEEDED"
      <4>1. Refreshed(c, n) = "SUCCEEDED"
        BY <2>1, <3>2, Zenon
      <4>2. \E a \in RolloutAcks(c, n) : a.status = "SUCCEEDED"
        BY <3>2, <4>1, Zenon DEF Refreshed
      <4> QED
        BY <4>2, QueueAssumption DEF RolloutAcks, RolloutInvariant, AnswersAreTrue
    <3> QED
      BY <3>1, <3>2, Zenon
  <2> QED
    BY <2>1 DEF RolloutInvariant, AnswersAreTrue, First, Before
<1>3. ASSUME NEW c \in Commits PROVE ControlIsSound(c)'
  BY <1>1, ControlKept, Zenon
<1>4. ASSUME NEW c \in Commits PROVE BroadcastIsSound(c)'
  <2>1. \A u \in CommandTypes, n \in Nodes : Issued(u, c, n)' <=> Issued(u, c, n)
    BY Zenon DEF Issued
  <2> QED
    BY <1>1, <2>1, BroadcastKept, Zenon
<1> QED
  BY <1>2, <1>3, <1>4, Zenon DEF RolloutInvariant

\* An agent's step keeps the invariant.
LEMMA AgentInvariant ==
  ASSUME RolloutInvariant, TypeOK', NEW n \in Nodes, Agent(n) \/ AgentTrouble(n)
  PROVE  RolloutInvariant'
<1>1. TypeOK /\ AnswersAreTrue /\ \A c \in Commits : ControlIsSound(c) /\ BroadcastIsSound(c)
  BY Zenon DEF RolloutInvariant
<1>2. AnswersAreTrue'
  BY <1>1, AgentAnswers, Zenon
<1>3. /\ UNCHANGED <<commitStatus, rows, targets, todo, pc, active>>
      /\ \A m \in Nodes : applied[m] \subseteq applied'[m]
      /\ ColumnsKept /\ DOMAIN commands' = DOMAIN commands
  BY <1>1, AgentFrame, Zenon DEF applyVars
<1>4. \A u \in CommandTypes, d \in Commits, m \in Nodes : Issued(u, d, m)' <=> Issued(u, d, m)
  BY <1>1, <1>3, AcknowledgeIssuesNothing, Zenon DEF TypeOK
<1>5. ASSUME NEW c \in Commits PROVE ControlIsSound(c)'
  BY <1>1, <1>3, ControlKept, Zenon
<1>6. ASSUME NEW c \in Commits PROVE BroadcastIsSound(c)'
  BY <1>1, <1>3, <1>4, BroadcastKept, Zenon
<1> QED
  BY <1>2, <1>5, <1>6, Zenon DEF RolloutInvariant

\* A step of one apply() keeps the invariant.
LEMMA ApplyInvariant ==
  ASSUME RolloutInvariant, TypeOK', NEW c \in Commits, ApplyAny(c)
  PROVE  RolloutInvariant'
<1>1. TypeOK /\ AnswersAreTrue /\ \A d \in Commits : ControlIsSound(d) /\ BroadcastIsSound(d)
  BY Zenon DEF RolloutInvariant
<1>2. AnswersAreTrue'
  BY <1>1, ApplyAnswers, Zenon
<1>3. ControlIsSound(c)' /\ BroadcastIsSound(c)'
  BY <1>1, <1>2, ControlOwn, BroadcastOwn, Zenon
<1>4. ASSUME NEW d \in Commits \ {c} PROVE ControlIsSound(d)' /\ BroadcastIsSound(d)'
  <2>1. /\ pc'[d] = pc[d] /\ commitStatus'[d] = commitStatus[d] /\ rows'[d] = rows[d]
        /\ targets'[d] = targets[d] /\ todo'[d] = todo[d] /\ active \subseteq active'
        /\ \A m \in Nodes : applied[m] \subseteq applied'[m]
        /\ \A u \in CommandTypes, m \in Nodes : Issued(u, d, m)' <=> Issued(u, d, m)
    BY <1>1, ApplyFrame, Zenon DEF Elsewhere, agentVars
  <2>2. ControlIsSound(d)'
    BY <1>1, <2>1, ControlKept, Zenon
  <2>3. BroadcastIsSound(d)'
    BY <1>1, <2>1, BroadcastKept, Zenon
  <2> QED
    BY <2>2, <2>3, Zenon
<1>5. \A d \in Commits : ControlIsSound(d)' /\ BroadcastIsSound(d)'
  BY <1>3, <1>4, Zenon
<1> QED
  BY <1>2, <1>5, Zenon DEF RolloutInvariant

\* A crash leaves the rows of the applies that were not under way alone.
LEMMA InterruptedUnchanged ==
  ASSUME TypeOK, NEW c \in Commits, pc[c] \notin Running, NEW r \in Interrupted(c)
  PROVE  r = rows[c]
<1>1. rows[c] \in [Nodes -> RowStatus \cup {"none"}]
  BY Zenon DEF TypeOK, ApplyTypeOK
<1>2. pc[c] \notin {"start", "refresh", "finalize"}
  BY Zenon DEF Running, Staging, Trying, Polling
<1>3. /\ r \in [Nodes -> RowStatus \cup {"none"}]
      /\ \A n \in Nodes : r[n] = rows[c][n]
  BY <1>2, InterruptedRows DEF TypeOK
<1> QED
  BY <1>1, <1>3

\* Every step keeps the invariant.
LEMMA InvariantStep ==
  RolloutInvariant /\ [Next]_vars => RolloutInvariant'
<1> SUFFICES ASSUME RolloutInvariant, [Next]_vars PROVE RolloutInvariant'
  BY Zenon
<1>t. TypeOK /\ TypeOK'
  BY TypeStep, Zenon DEF RolloutInvariant
<1>1. ASSUME NEW n \in Nodes, Enroll(n) PROVE RolloutInvariant'
  BY <1>t, <1>1, QuietStep, Zenon DEF Enroll, queueVars, agentVars
<1>2. CASE Expire
  BY <1>t, <1>2, QuietStep, Zenon DEF Expire, expire, agentVars, applyVars
<1>3. CASE UNCHANGED vars
  BY <1>t, <1>3, QuietStep, Zenon DEF vars, queueVars, agentVars, applyVars
<1>4. CASE Crash
  <2>1. \A c \in Commits : rows'[c] \in Interrupted(c)
    BY <1>4, Zenon DEF Crash, ApiCrash
  <2>2. \A c \in Commits : (pc'[c] = pc[c] /\ rows'[c] = rows[c]) \/ pc'[c] = "crashed"
    <3>1. ASSUME NEW c \in Commits PROVE pc[c] \notin Running => rows'[c] = rows[c]
      BY <1>t, <2>1, InterruptedUnchanged, Zenon
    <3> QED
      BY <1>4, <3>1, Zenon DEF Crash, ApiCrash
  <2>3. \A c \in Commits, n \in Nodes :
          rows'[c][n] = "SUCCEEDED" => "SUCCEEDED" \in {rows[c][n], Refreshed(c, n)}
    BY <1>t, <2>1, InterruptedRows DEF TypeOK
  <2> QED
    BY <1>t, <1>4, <2>2, <2>3, QuietStep, Zenon DEF Crash, ApiCrash, agentVars
<1>5. ASSUME NEW c \in Commits, ApplyAny(c) PROVE RolloutInvariant'
  BY <1>t, <1>5, ApplyInvariant, Zenon
<1>6. ASSUME NEW n \in Nodes, Agent(n) \/ AgentTrouble(n) PROVE RolloutInvariant'
  BY <1>t, <1>6, AgentInvariant, Zenon
<1> QED
  BY <1>1, <1>2, <1>3, <1>4, <1>5, <1>6, Zenon DEF Next, ApplyAny

\* The invariant holds initially.
LEMMA InvariantInit ==
  Init => RolloutInvariant
<1> SUFFICES ASSUME Init PROVE RolloutInvariant
  BY Zenon
<1>1. TypeOK
  BY TypeInit, Zenon
<1>2. AnswersAreTrue
  BY Zenon DEF Init, QueueInit, AgentInit, ApplyInit, AnswersAreTrue
<1>3. ASSUME NEW c \in Commits PROVE ControlIsSound(c)
  BY Zenon DEF Init, ApplyInit, ControlIsSound, Staging, Deciding, Polling, Committing, RolledBack,
     BeforeRows
<1>4. ASSUME NEW c \in Commits PROVE BroadcastIsSound(c)
  <2>1. \A u \in CommandTypes, n \in Nodes : ~ Issued(u, c, n)
    BY DEF Init, QueueInit, Issued
  <2>2. "APPLY_FIREWALL" \in CommandTypes /\ "ROLLBACK_FIREWALL" \in CommandTypes
    BY Zenon DEF CommandTypes
  <2> QED
    BY <2>1, <2>2, Zenon DEF Init, ApplyInit, BroadcastIsSound, RolledBack
<1> QED
  BY <1>1, <1>2, <1>3, <1>4, Zenon DEF RolloutInvariant

\* Answers are true, and every apply() is where its commit's rows and commands
\* say it is, in every reachable state.
THEOREM RolloutInvariantHolds == Spec => []RolloutInvariant
BY InvariantInit, InvariantStep, PTL DEF Spec

\* For any fleet, any threshold, any number of concurrent rollouts and faults: a
\* COMMITTED commit's rules reached all but the tolerated share of its targets.
THEOREM CommittedCommitsAreApplied == Spec => []CommitMeansApplied
<1>1. RolloutInvariant => CommitMeansApplied
  <2>1. ASSUME NEW c \in Commits, ControlIsSound(c), commitStatus[c] = "COMMITTED"
        PROVE  FewMissing(targets[c] \ Takers(c), targets[c])
    BY <2>1, Zenon DEF ControlIsSound
  <2> QED
    BY <2>1, Zenon DEF RolloutInvariant, CommitMeansApplied
<1> QED
  BY <1>1, RolloutInvariantHolds, PTL

\* For any fleet: a rollback that apply() finished reached every node the commit
\* was sent to.
THEOREM RollbacksAreComplete == Spec => []RollbackReachesEveryTarget
<1>1. RolloutInvariant => RollbackReachesEveryTarget
  <2>1. ASSUME NEW c \in Commits, ControlIsSound(c), BroadcastIsSound(c),
               pc[c] \in {"ROLLED_BACK", "rethrown"}
        PROVE  /\ commitStatus[c] = "ROLLED_BACK"
               /\ \A n \in Nodes :
                    /\ Issued("APPLY_FIREWALL", c, n) => Issued("ROLLBACK_FIREWALL", c, n)
                    /\ rows[c][n] \in {"none", "ROLLED_BACK"}
    BY <2>1, Zenon DEF ControlIsSound, BroadcastIsSound, RolledBack
  <2> QED
    BY <2>1, Zenon DEF RolloutInvariant, RollbackReachesEveryTarget
<1> QED
  BY <1>1, RolloutInvariantHolds, PTL

\* For any fleet: nothing rolls back a commit whose apply() returned COMMITTED.
THEOREM CommitsAreUndisturbed == Spec => []CommittedIsUndisturbed
<1>1. RolloutInvariant => CommittedIsUndisturbed
  <2>1. ASSUME NEW c \in Commits, ControlIsSound(c), BroadcastIsSound(c), pc[c] = "COMMITTED"
        PROVE  /\ commitStatus[c] = "COMMITTED"
               /\ \A n \in Nodes : ~ Issued("ROLLBACK_FIREWALL", c, n)
               /\ \A n \in targets[c] : rows[c][n] \in {"SUCCEEDED", "FAILED", "TIMED_OUT"}
    BY <2>1, Zenon DEF ControlIsSound, BroadcastIsSound, Committing
  <2> QED
    BY <2>1, Zenon DEF RolloutInvariant, CommittedIsUndisturbed
<1> QED
  BY <1>1, RolloutInvariantHolds, PTL

-----------------------------------------------------------------------------
(***************************************************************************)
(* The action property of the rollout rows, and that PolicyRollout         *)
(* implements AtomicRollout, for any finite fleet.                         *)
(***************************************************************************)

\* No step of an apply() moves a row that left PENDING, except to ROLLED_BACK.
LEMMA RowsMoveForward ==
  ASSUME RolloutInvariant, [Next]_vars, NEW c \in Commits, NEW n \in Nodes,
         rows[c][n] \notin {"none", "PENDING"}
  PROVE  rows'[c][n] \in {rows[c][n], "ROLLED_BACK"}
<1>t. TypeOK /\ ControlIsSound(c)
  BY Zenon DEF RolloutInvariant
<1>1. CASE rows'[c] = rows[c]
  BY <1>1, Zenon
<1>2. ASSUME rows'[c] \in Interrupted(c) PROVE rows'[c][n] = rows[c][n]
  <2>1. pc[c] # "start"
    BY <1>t, Zenon DEF ControlIsSound, BeforeRows
  <2>2. Refreshed(c, n) = rows[c][n]
    BY Zenon DEF Refreshed
  <2> QED
    BY <1>t, <1>2, <2>1, <2>2, InterruptedRows, SMTT(20) DEF TypeOK
<1>3. CASE RolloutStart(c)
  <2>1. pc[c] = "start"
    BY <1>3, Zenon DEF RolloutStart
  <2> QED
    BY <1>t, <2>1, Zenon DEF ControlIsSound, BeforeRows
<1>4. CASE Refresh(c)
  <2>1. rows'[c][n] = Refreshed(c, n)
    BY <1>t, <1>4, Zenon DEF Refresh, TypeOK, ApplyTypeOK
  <2> QED
    BY <2>1, Zenon DEF Refreshed
<1>5. CASE Finalize(c)
  BY <1>t, <1>5, Zenon DEF Finalize, TypeOK, ApplyTypeOK
<1>6. CASE MarkRolledBack(c)
  BY <1>t, <1>6, Zenon DEF MarkRolledBack, TypeOK, ApplyTypeOK
<1>7. CASE StatementFails(c)
  <2>1. PICK r \in Interrupted(c) : rows' = [rows EXCEPT ![c] = r]
    BY <1>7, Zenon DEF StatementFails
  <2>2. rows'[c] = r
    BY <1>t, <2>1, Zenon DEF TypeOK, ApplyTypeOK
  <2> QED
    BY <1>2, <2>2, Zenon
<1>8. ASSUME ApplyAny(c)
      PROVE  \/ RolloutStart(c) \/ Refresh(c) \/ Finalize(c) \/ MarkRolledBack(c)
             \/ StatementFails(c) \/ UNCHANGED rows
  BY <1>8, Zenon DEF ApplyAny, StartApply, Apply, Probe, Tick, ApplyFault, ApplyStep, StageInsert,
     StageList, StageEnqueue, Announce, Deadline, LoopHead, ProbeAnswers, ProbeTimesOut,
     RollbackUpdate, RollbackList, RollbackEnqueue, CommitUpdate
<1>9. ASSUME NEW d \in Commits \ {c}, ApplyAny(d) PROVE rows'[c] = rows[c]
  BY <1>t, <1>9, ApplyFrame, Zenon DEF Elsewhere
<1>10. ASSUME NEW m \in Nodes, Enroll(m) \/ Agent(m) \/ AgentTrouble(m) PROVE UNCHANGED rows
  BY <1>10, Zenon DEF Enroll, Agent, AgentTrouble, applyVars
<1>11. Expire \/ UNCHANGED vars => UNCHANGED rows
  BY Zenon DEF Expire, vars, applyVars
<1>12. CASE Crash
  <2>1. rows'[c] \in Interrupted(c)
    BY <1>12, Zenon DEF Crash, ApiCrash
  <2> QED
    BY <1>2, <2>1, Zenon
<1> QED
  BY <1>1, <1>3, <1>4, <1>5, <1>6, <1>7, <1>8, <1>9, <1>10, <1>11, <1>12, ZenonT(40) DEF Next, ApplyAny

\* For any fleet: an answer or a timeout on record is final, except for the
\* rollback of the whole commit.
THEOREM AnswersAreFinal == Spec => AnsweredRowsAreFinal
<1> DEFINE Final == \A c \in Commits, n \in Nodes :
                      rows[c][n] \notin {"none", "PENDING"}
                        => rows'[c][n] \in {rows[c][n], "ROLLED_BACK"}
<1>1. RolloutInvariant /\ [Next]_vars => [Final]_vars
  BY RowsMoveForward, Zenon
<1> QED
  BY <1>1, RolloutInvariantHolds, PTL DEF Spec, AnsweredRowsAreFinal

-----------------------------------------------------------------------------
(* The rollout implements AtomicRollout.                                   *)

\* The rules in a firewall now are among those ever put there.
FirewallWasApplied == \A n \in Nodes : firewall[n] \subseteq applied[n]

\* Executing a command adds at most the commit of an APPLY_FIREWALL of the node.
LEMMA ExecuteAdds ==
  ASSUME TypeOK, AnswersAreTrue, FirewallWasApplied, NEW n \in Nodes, ExecuteOk(n)
  PROVE  /\ FirewallWasApplied'
         /\ \/ UNCHANGED applied
            \/ \E c \in Commits : /\ Issued("APPLY_FIREWALL", c, n)
                                  /\ applied' = [applied EXCEPT ![n] = @ \cup {c}]
<1>1. PICK i \in batch[n] :
        \E f \in FirewallAfter(n, commands[i]) : /\ firewall' = [firewall EXCEPT ![n] = f]
                                                 /\ applied' = [applied EXCEPT ![n] = @ \cup f]
  BY Zenon DEF ExecuteOk
<1>2. PICK f \in FirewallAfter(n, commands[i]) : /\ firewall' = [firewall EXCEPT ![n] = f]
                                                 /\ applied' = [applied EXCEPT ![n] = @ \cup f]
  BY <1>1, Zenon
<1>t. /\ applied \in [Nodes -> SUBSET Commits] /\ firewall \in [Nodes -> SUBSET Commits]
      /\ i \in DOMAIN commands /\ commands[i].node = n
  BY Zenon DEF TypeOK, AgentTypeOK, AnswersAreTrue
<1>3. commands[i] \in Command
  BY <1>t DEF TypeOK, QueueTypeOK
<1>4. PICK c \in Commits : c = commands[i].commit
  BY <1>3, Zenon DEF Command
<1>5. FirewallWasApplied'
  BY <1>2, <1>t, Zenon DEF FirewallWasApplied
<1>6. CASE f \subseteq firewall[n]
  <2>1. applied[n] \cup f = applied[n]
    BY <1>6, Zenon DEF FirewallWasApplied
  <2> QED
    BY <1>2, <1>5, <1>t, <2>1, Zenon
<1>7. CASE commands[i].type = "APPLY_FIREWALL" /\ f = firewall[n] \cup {c}
  <2>1. applied[n] \cup f = applied[n] \cup {c}
    BY <1>7, Zenon DEF FirewallWasApplied
  <2>2. Issued("APPLY_FIREWALL", c, n)
    BY <1>4, <1>7, <1>t, Zenon DEF Issued
  <2>3. applied' = [applied EXCEPT ![n] = applied[n] \cup {c}]
    BY <1>2, <2>1, Zenon
  <2> QED
    BY <1>5, <2>2, <2>3, Zenon
<1>8. f \subseteq firewall[n]
        \/ (commands[i].type = "APPLY_FIREWALL" /\ f = firewall[n] \cup {c})
  <2>1. CASE commands[i].type = "APPLY_FIREWALL"
    BY <1>2, <1>4, <2>1, Zenon DEF FirewallAfter, FirewallAfterApply
  <2>2. CASE commands[i].type # "APPLY_FIREWALL"
    BY <1>2, <2>2, Zenon DEF FirewallAfter, FirewallAfterRollback
  <2> QED
    BY <2>1, <2>2, Zenon
<1> QED
  BY <1>6, <1>7, <1>8, Zenon

\* The other steps change no firewall.
LEMMA OnlyExecuteAdds ==
  ASSUME [Next]_vars, TypeOK
  PROVE  UNCHANGED <<firewall, applied>>
         \/ \E n \in Nodes : ExecuteOk(n) /\ UNCHANGED applyVars
<1>1. ASSUME NEW c \in Commits, ApplyAny(c) PROVE UNCHANGED <<firewall, applied>>
  BY <1>1, ApplyFrame, Zenon DEF agentVars
<1>2. ASSUME NEW n \in Nodes, Agent(n) \/ AgentTrouble(n), ~ ExecuteOk(n)
      PROVE  UNCHANGED <<firewall, applied>>
  BY <1>2, Zenon DEF Agent, AgentTrouble, AgentStep, AgentFault, Heartbeat, ExecuteThrows, AckUpdate,
     AckInsert, AckDuplicate, StreamHeartbeat, AckFails, AckReplyLost, Restart, agentVars
<1>3. ASSUME NEW n \in Nodes, Agent(n) \/ AgentTrouble(n) PROVE UNCHANGED applyVars
  BY <1>3, Zenon DEF Agent, AgentTrouble
<1>4. ASSUME NEW n \in Nodes, Enroll(n) PROVE UNCHANGED <<firewall, applied>>
  BY <1>4, Zenon DEF Enroll, agentVars
<1>5. Crash \/ Expire \/ UNCHANGED vars => UNCHANGED <<firewall, applied>>
  BY Zenon DEF Crash, Expire, vars, agentVars
<1> QED
  BY <1>1, <1>2, <1>3, <1>4, <1>5, Zenon DEF Next, ApplyAny

\* The history variable records every commit that is in a firewall.
LEMMA HistoryHolds == Spec => []FirewallWasApplied
<1>1. Init => FirewallWasApplied
  BY Zenon DEF Init, AgentInit, FirewallWasApplied
<1>2. RolloutInvariant /\ FirewallWasApplied /\ [Next]_vars => FirewallWasApplied'
  <2> SUFFICES ASSUME RolloutInvariant, FirewallWasApplied, [Next]_vars PROVE FirewallWasApplied'
    BY Zenon
  <2>1. TypeOK /\ AnswersAreTrue
    BY Zenon DEF RolloutInvariant
  <2>2. CASE UNCHANGED <<firewall, applied>>
    BY <2>2, Zenon DEF FirewallWasApplied
  <2>3. ASSUME NEW n \in Nodes, ExecuteOk(n) PROVE FirewallWasApplied'
    BY <2>1, <2>3, ExecuteAdds, Zenon
  <2> QED
    BY <2>1, <2>2, <2>3, OnlyExecuteAdds, Zenon
<1> QED
  BY <1>1, <1>2, RolloutInvariantHolds, PTL DEF Spec

\* Only four statements of apply() change what AtomicRollout sees.
LEMMA OnlyFourMatter ==
  ASSUME TypeOK, NEW c \in Commits, ApplyAny(c)
  PROVE  \/ UNCHANGED <<commitStatus, targets>>
         \/ StageInsert(c) \/ StageList(c) \/ RollbackUpdate(c) \/ CommitUpdate(c)
BY Zenon DEF ApplyAny, StartApply, Apply, Probe, Tick, ApplyFault, ApplyStep, StageEnqueue, RolloutStart,
   Announce, Deadline, LoopHead, ProbeAnswers, ProbeTimesOut, Refresh, Finalize,
   MarkRolledBack, RollbackList, RollbackEnqueue, StatementFails

\* Every step of the rollout is a step of AtomicRollout or leaves it alone.
LEMMA RefinementStep ==
  ASSUME RolloutInvariant, FirewallWasApplied, [Next]_vars
  PROVE  [Rollout!Next]_<<commitStatus, targets, [c \in Commits |-> Takers(c)]>>
<1> DEFINE takers == [c \in Commits |-> Takers(c)]
<1>t. /\ TypeOK /\ AnswersAreTrue
      /\ \A c \in Commits : ControlIsSound(c) /\ BroadcastIsSound(c)
      /\ commitStatus \in [Commits -> {"none", "STAGED", "COMMITTED", "ROLLED_BACK"}]
      /\ targets \in [Commits -> SUBSET Nodes]
      /\ applied \in [Nodes -> SUBSET Commits]
      /\ active \subseteq Nodes
  BY Zenon DEF RolloutInvariant, TypeOK, ApplyTypeOK, AgentTypeOK
<1>1. CASE UNCHANGED <<commitStatus, targets, applied>>
  <2>1. takers' = takers
    BY <1>1, Zenon DEF Takers
  <2> QED
    BY <1>1, <2>1, Zenon
<1>2. ASSUME NEW n \in Nodes, NEW c \in Commits, Issued("APPLY_FIREWALL", c, n),
             applied' = [applied EXCEPT ![n] = @ \cup {c}], UNCHANGED <<commitStatus, targets>>
      PROVE  Rollout!Next
  <2>1. n \in targets[c]
    BY <1>t, <1>2, Zenon DEF BroadcastIsSound
  <2>2. \A d \in Commits : Takers(d)' = IF d = c THEN Takers(c) \cup {n} ELSE Takers(d)
    BY <1>t, <1>2, Zenon DEF Takers
  <2>3. takers' = [takers EXCEPT ![c] = @ \cup {n}]
    BY <2>2, Zenon
  <2>4. Rollout!Take(c, n)
    BY <1>2, <2>1, <2>3, Zenon DEF Rollout!Take
  <2> QED
    BY <2>4, Zenon DEF Rollout!Next
<1>3. ASSUME NEW c \in Commits, ApplyAny(c), ~ UNCHANGED <<commitStatus, targets>>
      PROVE  Rollout!Next
  <2>1. takers' = takers
    BY <1>t, <1>3, ApplyFrame, Zenon DEF Takers, agentVars
  <2>c. ControlIsSound(c)
    BY <1>t, Zenon
  <2>2. CASE StageInsert(c)
    <3>1. commitStatus[c] = "none"
      BY <2>c, <2>2, Zenon DEF StageInsert, ControlIsSound
    <3>2. Rollout!Stage(c)
      BY <2>1, <2>2, <3>1, Zenon DEF StageInsert, Rollout!Stage
    <3> QED
      BY <3>2, Zenon DEF Rollout!Next
  <2>3. CASE StageList(c)
    <3>1. commitStatus[c] = "STAGED" /\ targets[c] = {}
      BY <2>c, <2>3, Zenon DEF StageList, ControlIsSound, Staging
    <3>2. Rollout!Aim(c, active)
      BY <2>1, <2>3, <3>1, Zenon DEF StageList, Rollout!Aim
    <3> QED
      BY <1>t, <3>2, Zenon DEF Rollout!Next
  <2>4. CASE RollbackUpdate(c)
    <3>0. commitStatus[c] # "none"
      BY <2>c, <2>4, Zenon DEF RollbackUpdate, ControlIsSound
    <3>1. commitStatus[c] \in {"STAGED", "COMMITTED", "ROLLED_BACK"}
      BY <1>t, <3>0, Zenon
    <3>2. commitStatus[c] # "ROLLED_BACK"
      BY <1>t, <1>3, <2>4, Zenon DEF RollbackUpdate
    <3>3. Rollout!RollBack(c)
      BY <2>1, <2>4, <3>1, <3>2, Zenon DEF RollbackUpdate, Rollout!RollBack
    <3> QED
      BY <3>3, Zenon DEF Rollout!Next
  <2>5. CASE CommitUpdate(c)
    <3>1. commitStatus[c] = "STAGED" /\ FewMissing(targets[c] \ Takers(c), targets[c])
      BY <2>c, <2>5, Zenon DEF CommitUpdate, ControlIsSound
    <3>2. Rollout!Commit(c)
      BY <2>1, <2>5, <3>1, Zenon DEF CommitUpdate, Rollout!Commit
    <3> QED
      BY <3>2, Zenon DEF Rollout!Next
  <2> QED
    BY <1>t, <1>3, <2>2, <2>3, <2>4, <2>5, OnlyFourMatter, ZenonT(40)
<1>4. CASE UNCHANGED <<firewall, applied>>
  <2>1. CASE \E c \in Commits : ApplyAny(c)
    BY <1>1, <1>3, <1>4, <2>1, Zenon
  <2>2. CASE UNCHANGED <<commitStatus, targets>>
    BY <1>1, <1>4, <2>2, Zenon
  <2>3. ASSUME NEW n \in Nodes, Enroll(n) \/ Agent(n) \/ AgentTrouble(n)
        PROVE  UNCHANGED <<commitStatus, targets>>
    BY <2>3, Zenon DEF Enroll, Agent, AgentTrouble, applyVars
  <2>4. Crash \/ Expire \/ UNCHANGED vars => UNCHANGED <<commitStatus, targets>>
    BY Zenon DEF Crash, ApiCrash, Expire, vars, applyVars
  <2> QED
    BY <2>1, <2>2, <2>3, <2>4, Zenon DEF Next, ApplyAny
<1>5. ASSUME NEW n \in Nodes, ExecuteOk(n), UNCHANGED applyVars
      PROVE  UNCHANGED <<commitStatus, targets, applied>> \/ Rollout!Next
  <2>1. UNCHANGED <<commitStatus, targets>>
    BY <1>5, Zenon DEF applyVars
  <2> QED
    BY <1>t, <1>2, <1>5, <2>1, ExecuteAdds, Zenon
<1> QED
  BY <1>t, <1>1, <1>4, <1>5, OnlyExecuteAdds, Zenon

\* For any fleet: the rollout, with its queue, polling, crashes and lost
\* messages, is an AtomicRollout.
THEOREM RolloutIsAtomic == Spec => ImplementsAtomicRollout
<1>1. Init => Rollout!Init
  <2> SUFFICES ASSUME Init PROVE Rollout!Init
    BY Zenon
  <2>1. \A c \in Commits : Takers(c) = {}
    BY Zenon DEF Init, AgentInit, Takers
  <2> QED
    BY <2>1, Zenon DEF Init, ApplyInit, Rollout!Init
<1>2. RolloutInvariant /\ FirewallWasApplied /\ [Next]_vars
        => [Rollout!Next]_<<commitStatus, targets, [c \in Commits |-> Takers(c)]>>
  BY RefinementStep, Zenon
<1> QED
  BY <1>1, <1>2, RolloutInvariantHolds, HistoryHolds, PTL
     DEF Spec, ImplementsAtomicRollout, Rollout!Spec

=============================================================================
