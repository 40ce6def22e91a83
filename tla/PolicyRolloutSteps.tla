------------------------- MODULE PolicyRolloutSteps -------------------------
(***************************************************************************)
(* What the steps of a rollout preserve, for any finite fleet, any number  *)
(* of concurrent applies and any number of faults: the types, and what an  *)
(* acknowledgement proves.                                                 *)
(***************************************************************************)
EXTENDS PolicyRollout, TLAPS

-----------------------------------------------------------------------------
(***************************************************************************)
(* What an acknowledgement proves: AnswersAreTrue is kept by every step of *)
(* the agents and of apply(); and what those steps leave alone.            *)
(***************************************************************************)

\* Setting acknowledged_at changes nothing else of the queue.
LEMMA AcknowledgeKeeps ==
  ASSUME QueueTypeOK, NEW i \in DOMAIN commands, acknowledgeUpdate(i)
  PROVE  /\ commands' \in Seq(Command)
         /\ Len(commands') = Len(commands)
         /\ DOMAIN commands' = DOMAIN commands
         /\ \A j \in DOMAIN commands : /\ commands'[j].node = commands[j].node
                                       /\ commands'[j].type = commands[j].type
                                       /\ commands'[j].commit = commands[j].commit
                                       /\ commands'[j].priority = commands[j].priority
<1> DEFINE r == [commands[i] EXCEPT !.acked = TRUE]
<1>1. commands \in Seq(Command) /\ i \in 1..Len(commands)
  BY DEF QueueTypeOK
<1>2. commands[i] \in Command
  BY <1>1
<1>3. /\ r \in Command
      /\ r.node = commands[i].node
      /\ r.type = commands[i].type
      /\ r.commit = commands[i].commit
      /\ r.priority = commands[i].priority
  BY <1>2, Zenon DEF Command
<1>4. commands' = [commands EXCEPT ![i] = r]
  BY Zenon DEF acknowledgeUpdate
<1> HIDE DEF r
<1>5. /\ commands' \in Seq(Command)
      /\ Len(commands') = Len(commands)
      /\ \A j \in 1..Len(commands) : commands'[j] = IF j = i THEN r ELSE commands[j]
  BY <1>1, <1>3, <1>4
<1> QED
  BY <1>1, <1>3, <1>5

\* The rows an interrupted step leaves differ from the rows before it only by
\* what start, refresh or finalizeTimeouts had already written.
LEMMA InterruptedRows ==
  ASSUME ApplyTypeOK, NEW c \in Commits, NEW r \in Interrupted(c)
  PROVE  /\ r \in [Nodes -> RowStatus \cup {"none"}]
         /\ \A n \in Nodes :
              \/ r[n] = rows[c][n]
              \/ pc[c] = "start" /\ r[n] = "PENDING"
              \/ pc[c] = "refresh" /\ r[n] = Refreshed(c, n)
              \/ pc[c] = "finalize" /\ rows[c][n] = "PENDING" /\ r[n] = "TIMED_OUT"
<1>1. PICK S : r = [n \in Nodes |-> IF n \in S THEN Written(c, n) ELSE rows[c][n]]
  BY Zenon DEF Interrupted
<1>2. rows[c] \in [Nodes -> RowStatus \cup {"none"}]
  BY Zenon DEF ApplyTypeOK
<1>3. \A n \in Nodes : Refreshed(c, n) \in RowStatus \cup {"none"}
  BY <1>2, Zenon DEF Refreshed, RowStatus
<1>4. \A n \in Nodes :
        \/ Written(c, n) = rows[c][n]
        \/ pc[c] = "start" /\ Written(c, n) = "PENDING"
        \/ pc[c] = "refresh" /\ Written(c, n) = Refreshed(c, n)
        \/ pc[c] = "finalize" /\ rows[c][n] = "PENDING" /\ Written(c, n) = "TIMED_OUT"
  BY Zenon DEF Written
<1>5. \A n \in Nodes : Written(c, n) \in RowStatus \cup {"none"}
  BY <1>2, <1>3, <1>4, Zenon DEF RowStatus
<1>6. r \in [Nodes -> RowStatus \cup {"none"}]
  BY <1>1, <1>2, <1>5, Zenon
<1>7. \A n \in Nodes : r[n] = Written(c, n) \/ r[n] = rows[c][n]
  BY <1>1, Zenon
<1> QED
  BY <1>4, <1>6, <1>7, Zenon

(* What every step leaves alone.                                           *)

\* The columns of a command other than acknowledged_at are never written.
ColumnsKept ==
  /\ DOMAIN commands \subseteq DOMAIN commands'
  /\ \A j \in DOMAIN commands : /\ commands'[j].node = commands[j].node
                                /\ commands'[j].type = commands[j].type
                                /\ commands'[j].commit = commands[j].commit
                                /\ commands'[j].priority = commands[j].priority

\* enqueue adds one command, and so issues exactly that one.
LEMMA EnqueueIssues ==
  ASSUME QueueTypeOK,
         NEW n \in Nodes, NEW t \in CommandTypes, NEW c \in Commits, NEW p \in Priorities,
         enqueue(n, t, c, p)
  PROVE  /\ ColumnsKept
         /\ \A u \in CommandTypes, d \in Commits, m \in Nodes :
              Issued(u, d, m)' <=> Issued(u, d, m) \/ (u = t /\ d = c /\ m = n)
<1> DEFINE r == [node |-> n, type |-> t, commit |-> c, priority |-> p, acked |-> FALSE]
<1>1. r \in Command /\ r.node = n /\ r.type = t /\ r.commit = c
  BY Zenon DEF Command
<1>2. commands' = Append(commands, r)
  BY Zenon DEF enqueue
<1> HIDE DEF r
<1>3. /\ commands \in Seq(Command)
      /\ DOMAIN commands = 1..Len(commands)
      /\ DOMAIN commands' = 1..(Len(commands) + 1)
      /\ \A j \in 1..Len(commands) : commands'[j] = commands[j]
      /\ commands'[Len(commands) + 1] = r
      /\ Len(commands) \in Nat
  BY <1>1, <1>2 DEF QueueTypeOK
<1>4. ColumnsKept
  BY <1>3 DEF ColumnsKept
<1>5. ASSUME NEW u \in CommandTypes, NEW d \in Commits, NEW m \in Nodes
      PROVE  Issued(u, d, m)' <=> Issued(u, d, m) \/ (u = t /\ d = c /\ m = n)
  <2>1. ASSUME Issued(u, d, m)' PROVE Issued(u, d, m) \/ (u = t /\ d = c /\ m = n)
    BY <1>1, <1>3, <2>1 DEF Issued
  <2>2. ASSUME Issued(u, d, m) PROVE Issued(u, d, m)'
    BY <1>3, <2>2 DEF Issued
  <2>3. ASSUME u = t /\ d = c /\ m = n PROVE Issued(u, d, m)'
    BY <1>1, <1>3, <2>3 DEF Issued
  <2> QED
    BY <2>1, <2>2, <2>3, Zenon
<1> QED
  BY <1>4, <1>5, Zenon

\* A step that only acknowledges issues nothing.
LEMMA AcknowledgeIssuesNothing ==
  ASSUME QueueTypeOK, ColumnsKept, DOMAIN commands' = DOMAIN commands
  PROVE  \A u \in CommandTypes, d \in Commits, m \in Nodes :
           Issued(u, d, m)' <=> Issued(u, d, m)
BY Zenon DEF ColumnsKept, Issued

\* What the agents' steps do to the queue and to the firewall history.
LEMMA AgentFrame ==
  ASSUME TypeOK, NEW n \in Nodes, Agent(n) \/ AgentTrouble(n)
  PROVE  /\ ColumnsKept
         /\ DOMAIN commands' = DOMAIN commands
         /\ UNCHANGED applyVars
         /\ \A m \in Nodes : applied[m] \subseteq applied'[m]
<1>1. UNCHANGED applyVars
  BY Zenon DEF Agent, AgentTrouble
<1>2. CASE UNCHANGED commands /\ UNCHANGED applied
  BY <1>1, <1>2, Zenon DEF ColumnsKept
<1>3. CASE AckUpdate(n) \/ StreamHeartbeat(n)
  <2>1. PICK i : i \in DOMAIN commands /\ acknowledgeUpdate(i)
    BY <1>3, Zenon DEF AckUpdate, StreamHeartbeat, pending, Waiting, TypeOK, AgentTypeOK
  <2>2. UNCHANGED applied
    BY <1>3, Zenon DEF AckUpdate, StreamHeartbeat, agentVars
  <2> QED
    BY <1>1, <2>1, <2>2, AcknowledgeKeeps, Zenon DEF TypeOK, ColumnsKept
<1>4. CASE ExecuteOk(n)
  <2>1. PICK f : applied' = [applied EXCEPT ![n] = @ \cup f]
    BY <1>4, Zenon DEF ExecuteOk
  <2>2. \A m \in Nodes : applied[m] \subseteq applied'[m]
    BY <2>1, Zenon DEF TypeOK, AgentTypeOK
  <2> QED
    BY <1>1, <1>4, <2>2, Zenon DEF ExecuteOk, queueVars, ColumnsKept
<1> QED
  BY <1>2, <1>3, <1>4, Zenon DEF Agent, AgentTrouble, AgentStep, AgentFault, Heartbeat, ExecuteThrows,
     AckInsert, AckDuplicate, AckFails, AckReplyLost, Restart, queueVars

\* Before reads columns that are never written.
LEMMA BeforeKept ==
  ASSUME ColumnsKept, NEW i \in DOMAIN commands, NEW j \in DOMAIN commands
  PROVE  Before(i, j)' <=> Before(i, j)
BY Zenon DEF Before, ColumnsKept

\* A batch has one first command.
LEMMA FirstIsUnique ==
  ASSUME QueueTypeOK, NEW S \in SUBSET DOMAIN commands, NEW i, NEW j, First(i, S), First(j, S)
  PROVE  i = j
<1> SUFFICES ASSUME i # j PROVE FALSE
  BY Zenon
<1>1. Before(i, j) /\ Before(j, i)
  BY Zenon DEF First
<1>2. i \in 1..Len(commands) /\ j \in 1..Len(commands)
  BY DEF First, QueueTypeOK
<1>3. commands[i] \in Command /\ commands[j] \in Command
  BY <1>2 DEF QueueTypeOK
<1>4. commands[i].priority \in {100, 200} /\ commands[j].priority \in {100, 200}
  BY <1>3, Zenon DEF Command, Priorities
<1> QED
  BY <1>1, <1>2, <1>4 DEF Before

-----------------------------------------------------------------------------
(* Acknowledgements are true.                                              *)

\* The agents' steps keep AnswersAreTrue: only a command that ran is
\* acknowledged ok:true, and only such an acknowledgement echoes its commit.
LEMMA AgentAnswers ==
  ASSUME TypeOK, AnswersAreTrue, NEW n \in Nodes, Agent(n) \/ AgentTrouble(n)
  PROVE  AnswersAreTrue'
<1>0. /\ ColumnsKept
      /\ UNCHANGED applyVars
      /\ \A m \in Nodes : applied[m] \subseteq applied'[m]
  BY AgentFrame, Zenon
<1>t. /\ commands \in Seq(Command)
      /\ \A m \in Nodes : batch[m] \subseteq DOMAIN commands
      /\ \A a \in acks : a.id \in DOMAIN commands
      /\ \A i \in DOMAIN commands : commands[i].node \in Nodes
      /\ phase \in [Nodes -> Phases] /\ batch \in [Nodes -> SUBSET DOMAIN commands]
      /\ applied \in [Nodes -> SUBSET Commits]
      /\ rows \in [Commits -> [Nodes -> RowStatus \cup {"none"}]]
  <2>1. \A i \in DOMAIN commands : commands[i] \in Command
    BY DEF TypeOK, QueueTypeOK
  <2>2. \A i \in DOMAIN commands : commands[i].node \in Nodes
    BY <2>1, Zenon DEF Command
  <2> QED
    BY <2>2, Zenon DEF TypeOK, QueueTypeOK, AgentTypeOK, ApplyTypeOK
<1> DEFINE Own == \A m \in Nodes : \A i \in batch[m] : commands[i].node = m
           Ran == \A m \in Nodes \ WindowsNodes : \A i \in batch[m] :
                    phase[m] \in AckOk /\ First(i, batch[m]) /\ commands[i].type = "APPLY_FIREWALL"
                      => commands[i].commit \in applied[m]
           Archived == \A a \in acks :
                    a.commit # NoCommit /\ a.status = "SUCCEEDED"
                      /\ commands[a.id].node \notin WindowsNodes
                        => a.commit \in applied[commands[a.id].node]
           Rows == \A c \in Commits : \A m \in Nodes \ WindowsNodes :
                    rows[c][m] = "SUCCEEDED" => c \in applied[m]
<1>i. Own /\ Ran /\ Archived /\ Rows
  BY Zenon DEF AnswersAreTrue
<1>g. Own' /\ Ran' /\ Archived' /\ Rows' => AnswersAreTrue'
  BY Zenon DEF AnswersAreTrue
<1>r. Rows'
  BY <1>0, <1>i, Zenon DEF applyVars
\* A batch that is kept or shrinks keeps its owner.
<1>o. ASSUME \A m \in Nodes : batch'[m] \subseteq batch[m] PROVE Own'
  BY <1>0, <1>i, <1>t, <1>o, Zenon DEF ColumnsKept
\* An agent that keeps its batch, or is not acknowledging ok:true, keeps Ran.
<1>n. ASSUME \A m \in Nodes : \/ phase'[m] \notin AckOk
                              \/ batch'[m] = batch[m] /\ phase[m] \in AckOk
      PROVE  Ran'
  <2> SUFFICES ASSUME NEW m \in Nodes \ WindowsNodes, NEW i \in batch'[m],
                      phase'[m] \in AckOk, First(i, batch[m])',
                      commands'[i].type = "APPLY_FIREWALL"
               PROVE  commands'[i].commit \in applied'[m]
    BY Zenon
  <2>1. batch'[m] = batch[m] /\ phase[m] \in AckOk
    BY <1>n, Zenon
  <2>2. i \in DOMAIN commands /\ \A j \in batch[m] : j \in DOMAIN commands
    BY <1>t, <2>1, Zenon
  <2>3. First(i, batch[m])
    BY <1>0, <2>1, <2>2, BeforeKept, Zenon DEF First
  <2>4. commands[i].commit \in applied[m]
    BY <1>0, <1>i, <2>1, <2>2, <2>3, Zenon DEF ColumnsKept
  <2> QED
    BY <1>0, <2>2, <2>4, Zenon DEF ColumnsKept
<1>a. ASSUME UNCHANGED acks PROVE Archived'
  BY <1>0, <1>i, <1>t, <1>a, ZenonT(40) DEF ColumnsKept
<1>b. ASSUME NEW i \in batch[n], First(i, batch[n]), AckRow(n, i) PROVE Archived'
  <2>1. i \in DOMAIN commands /\ commands[i].node = n
    BY <1>i, <1>t, Zenon
  <2> DEFINE new == [id |-> i, status |-> IF phase[n] \in AckOk THEN "SUCCEEDED" ELSE "FAILED",
                     commit |-> EchoedCommit(n, commands[i])]
  <2>2. /\ acks' = acks \cup {new}
        /\ new.id = i
        /\ new.commit = EchoedCommit(n, commands[i])
    BY <1>b, Zenon DEF AckRow, acknowledgeInsert
  <2> HIDE DEF new
  <2>3. ASSUME new.commit # NoCommit, n \notin WindowsNodes PROVE new.commit \in applied'[n]
    <3>1. /\ phase[n] \in AckOk
          /\ commands[i].type = "APPLY_FIREWALL"
          /\ new.commit = commands[i].commit
      BY <2>2, <2>3, Zenon DEF EchoedCommit
    <3>2. commands[i].commit \in applied[n]
      BY <1>b, <1>i, <2>3, <3>1, Zenon
    <3> QED
      BY <1>0, <3>1, <3>2, Zenon
  <2> QED
    BY <1>0, <1>i, <1>t, <2>1, <2>2, <2>3 DEF ColumnsKept
<1> HIDE DEF Own, Ran, Archived, Rows
<1>d. "execute" \notin AckOk /\ "idle" \notin AckOk /\ "updateFailed" \notin AckOk
      /\ "insertFailed" \notin AckOk
  BY Zenon DEF AckOk
<1>1. CASE Heartbeat(n)
  <2>1. Own'
    BY <1>1, <1>i, <1>t, Zenon DEF Own, Heartbeat, queueVars, pending, Waiting
  <2>2. Ran' /\ Archived'
    BY <1>1, <1>a, <1>d, <1>n, <1>t, Zenon DEF Heartbeat, queueVars
  <2> QED
    BY <1>g, <1>r, <2>1, <2>2, Zenon
<1>2. CASE ExecuteOk(n)
  <2>1. UNCHANGED <<commands, acks, batch>> /\ phase' = [phase EXCEPT ![n] = "updateOk"]
    BY <1>2, Zenon DEF ExecuteOk, queueVars
  <2>2. Own' /\ Archived'
    BY <1>a, <1>o, <2>1, Zenon
  <2>3. PICK i \in batch[n] :
          /\ First(i, batch[n])
          /\ \E f \in FirewallAfter(n, commands[i]) : applied' = [applied EXCEPT ![n] = @ \cup f]
    BY <1>2, Zenon DEF ExecuteOk
  <2>4. n \notin WindowsNodes /\ commands[i].type = "APPLY_FIREWALL"
          => commands[i].commit \in applied'[n]
    BY <1>t, <2>3 DEF FirewallAfter, FirewallAfterApply
  <2>5. Ran'
    <3> SUFFICES ASSUME NEW m \in Nodes \ WindowsNodes, NEW j \in batch[m],
                        phase'[m] \in AckOk, First(j, batch[m]),
                        commands[j].type = "APPLY_FIREWALL"
                 PROVE  commands[j].commit \in applied'[m]
      BY <2>1, Zenon DEF Ran, First, Before
    <3>1. CASE m = n
      BY <1>t, <2>3, <2>4, <3>1, FirstIsUnique, Zenon DEF TypeOK
    <3>2. CASE m # n
      BY <1>0, <1>i, <1>t, <2>1, <3>2, Zenon DEF Ran
    <3> QED
      BY <3>1, <3>2, Zenon
  <2> QED
    BY <1>g, <1>r, <2>2, <2>5, Zenon
<1>3. CASE ExecuteThrows(n)
  BY <1>3, <1>a, <1>d, <1>g, <1>n, <1>o, <1>r, <1>t, Zenon DEF ExecuteThrows, queueVars
<1>4. CASE AckUpdate(n)
  <2>1. UNCHANGED <<acks, batch>>
    BY <1>4, Zenon DEF AckUpdate
  <2>2. \A m \in Nodes : phase'[m] \notin AckOk \/ phase[m] \in AckOk
    BY <1>4, <1>d, <1>t, Zenon DEF AckUpdate
  <2> QED
    BY <1>a, <1>g, <1>n, <1>o, <1>r, <2>1, <2>2, Zenon
<1>5. CASE AckInsert(n)
  <2>1. PICK i \in batch[n] :
          /\ First(i, batch[n])
          /\ AckRow(n, i)
          /\ batch' = [batch EXCEPT ![n] = @ \ {i}]
          /\ phase' = [phase EXCEPT ![n] = IF batch[n] = {i} THEN "idle" ELSE "execute"]
    BY <1>5, Zenon DEF AckInsert
  <2>2. /\ \A m \in Nodes : batch'[m] \subseteq batch[m]
        /\ \A m \in Nodes : phase'[m] \notin AckOk \/ (batch'[m] = batch[m] /\ phase[m] \in AckOk)
    BY <1>d, <1>t, <2>1, Zenon
  <2> QED
    BY <1>b, <1>g, <1>n, <1>o, <1>r, <2>1, <2>2, Zenon
<1>6. ASSUME AcknowledgeThrows(n) PROVE Own' /\ Ran'
  <2>1. /\ \A m \in Nodes : batch'[m] \subseteq batch[m]
        /\ \A m \in Nodes : phase'[m] \notin AckOk \/ (batch'[m] = batch[m] /\ phase[m] \in AckOk)
    BY <1>6, <1>d, <1>t, Zenon DEF AcknowledgeThrows
  <2> QED
    BY <1>n, <1>o, <2>1, Zenon
<1>7. CASE AckDuplicate(n) \/ AckFails(n)
  BY <1>6, <1>7, <1>a, <1>g, <1>r, Zenon DEF AckDuplicate, AckFails, queueVars
<1>8. CASE AckReplyLost(n)
  BY <1>6, <1>8, <1>b, <1>g, <1>r, Zenon DEF AckReplyLost
<1>9. CASE Restart(n)
  <2>1. /\ \A m \in Nodes : batch'[m] \subseteq batch[m]
        /\ \A m \in Nodes : phase'[m] \notin AckOk \/ (batch'[m] = batch[m] /\ phase[m] \in AckOk)
        /\ UNCHANGED acks
    BY <1>9, <1>d, <1>t, Zenon DEF Restart
  <2> QED
    BY <1>a, <1>g, <1>n, <1>o, <1>r, <2>1, Zenon
<1>10. CASE StreamHeartbeat(n)
  <2>1. UNCHANGED <<phase, batch>>
    BY <1>10, Zenon DEF StreamHeartbeat, agentVars
  <2>2. Own' /\ Ran'
    BY <1>n, <1>o, <2>1, Zenon
  <2>3. CASE UNCHANGED acks
    BY <1>a, <1>g, <1>r, <2>2, <2>3, Zenon
  <2>4. CASE \E i : acknowledgeInsert(i, "ACKNOWLEDGED", NoCommit)
    <3>1. PICK i : acks' = acks \cup {[id |-> i, status |-> "ACKNOWLEDGED", commit |-> NoCommit]}
      BY <2>4, Zenon DEF acknowledgeInsert
    <3>2. Archived'
      BY <1>0, <1>i, <1>t, <3>1 DEF Archived, ColumnsKept
    <3> QED
      BY <1>g, <1>r, <2>2, <3>2, Zenon
  <2> QED
    BY <1>10, <2>3, <2>4, Zenon DEF StreamHeartbeat
<1> QED
  BY <1>1, <1>2, <1>3, <1>4, <1>5, <1>7, <1>8, <1>9, <1>10, Zenon
     DEF Agent, AgentTrouble, AgentStep, AgentFault

-----------------------------------------------------------------------------
(* The steps of one apply().                                               *)

\* An apply() touches only its own commit.
Elsewhere(c) ==
  \A d \in Commits \ {c} :
    /\ pc'[d] = pc[d] /\ commitStatus'[d] = commitStatus[d] /\ rows'[d] = rows[d]
    /\ targets'[d] = targets[d] /\ todo'[d] = todo[d]

ApplyAny(c) == StartApply(c) \/ Apply(c) \/ Probe(c) \/ Tick(c) \/ ApplyFault(c)

\* One turn of stage's loop issues APPLY_FIREWALL to one node of todo.
LEMMA StageEnqueueIssues ==
  ASSUME TypeOK, NEW c \in Commits, StageEnqueue(c)
  PROVE  /\ ColumnsKept
         /\ \E n \in todo[c] :
              /\ todo' = [todo EXCEPT ![c] = @ \ {n}]
              /\ Goto(c, IF todo[c] = {n} THEN "start" ELSE "stage")
              /\ \A u \in CommandTypes, d \in Commits, m \in Nodes :
                   Issued(u, d, m)' <=> Issued(u, d, m) \/ (u = "APPLY_FIREWALL" /\ d = c /\ m = n)
<1>1. "APPLY_FIREWALL" \in CommandTypes /\ 100 \in Priorities /\ todo[c] \subseteq Nodes
  BY Zenon DEF CommandTypes, Priorities, TypeOK, ApplyTypeOK
<1>2. PICK n \in todo[c] :
        /\ enqueue(n, "APPLY_FIREWALL", c, 100)
        /\ todo' = [todo EXCEPT ![c] = @ \ {n}]
        /\ Goto(c, IF todo[c] = {n} THEN "start" ELSE "stage")
  BY Zenon DEF StageEnqueue
<1>3. /\ ColumnsKept
      /\ \A u \in CommandTypes, d \in Commits, m \in Nodes :
           Issued(u, d, m)' <=> Issued(u, d, m) \/ (u = "APPLY_FIREWALL" /\ d = c /\ m = n)
  BY <1>1, <1>2, EnqueueIssues DEF TypeOK
<1> QED
  BY <1>2, <1>3, Zenon

\* One turn of rollback's loop issues ROLLBACK_FIREWALL to one node of todo.
LEMMA RollbackEnqueueIssues ==
  ASSUME TypeOK, NEW c \in Commits, RollbackEnqueue(c)
  PROVE  /\ ColumnsKept
         /\ \E n \in todo[c] :
              /\ todo' = [todo EXCEPT ![c] = @ \ {n}]
              /\ Goto(c, IF todo[c] = {n} THEN AfterRollback(c) ELSE "broadcast")
              /\ \A u \in CommandTypes, d \in Commits, m \in Nodes :
                   Issued(u, d, m)' <=> Issued(u, d, m) \/ (u = "ROLLBACK_FIREWALL" /\ d = c /\ m = n)
<1>1. "ROLLBACK_FIREWALL" \in CommandTypes /\ 200 \in Priorities /\ todo[c] \subseteq Nodes
  BY Zenon DEF CommandTypes, Priorities, TypeOK, ApplyTypeOK
<1>2. PICK n \in todo[c] :
        /\ enqueue(n, "ROLLBACK_FIREWALL", c, 200)
        /\ todo' = [todo EXCEPT ![c] = @ \ {n}]
        /\ Goto(c, IF todo[c] = {n} THEN AfterRollback(c) ELSE "broadcast")
  BY Zenon DEF RollbackEnqueue
<1>3. /\ ColumnsKept
      /\ \A u \in CommandTypes, d \in Commits, m \in Nodes :
           Issued(u, d, m)' <=> Issued(u, d, m) \/ (u = "ROLLBACK_FIREWALL" /\ d = c /\ m = n)
  BY <1>1, <1>2, EnqueueIssues DEF TypeOK
<1> QED
  BY <1>2, <1>3, Zenon

\* A step of the apply() of c changes only what belongs to c.
LEMMA ApplyFrame ==
  ASSUME TypeOK, NEW c \in Commits, ApplyAny(c)
  PROVE  /\ ColumnsKept
         /\ UNCHANGED <<agentVars, acks, active>>
         /\ Elsewhere(c)
         /\ ~ (StageEnqueue(c) \/ RollbackEnqueue(c)) => UNCHANGED commands
         /\ \A u \in CommandTypes, d \in Commits \ {c}, m \in Nodes :
              Issued(u, d, m)' <=> Issued(u, d, m)
<1>1. UNCHANGED <<agentVars, acks, active>>
  BY Zenon DEF ApplyAny, StartApply, Apply, Probe, Tick, ApplyFault, ApplyStep, StageInsert, StageList,
     StageEnqueue, RolloutStart, Announce, Deadline, LoopHead, ProbeAnswers,
     ProbeTimesOut, Refresh, Finalize, MarkRolledBack, RollbackUpdate, RollbackList,
     RollbackEnqueue, CommitUpdate, StatementFails, queueVars
<1>2. ~ (StageEnqueue(c) \/ RollbackEnqueue(c)) => UNCHANGED commands
  BY Zenon DEF ApplyAny, StartApply, Apply, Probe, Tick, ApplyFault, ApplyStep, StageInsert, StageList,
     RolloutStart, Announce, Deadline, LoopHead, ProbeAnswers,
     ProbeTimesOut, Refresh, Finalize, MarkRolledBack, RollbackUpdate, RollbackList,
     CommitUpdate, StatementFails, queueVars
<1>3. ColumnsKept /\ \A u \in CommandTypes, d \in Commits \ {c}, m \in Nodes :
                       Issued(u, d, m)' <=> Issued(u, d, m)
  <2>1. CASE StageEnqueue(c) \/ RollbackEnqueue(c)
    BY <2>1, StageEnqueueIssues, RollbackEnqueueIssues, ZenonT(40)
  <2>2. CASE UNCHANGED commands
    BY <2>2, Zenon DEF ColumnsKept, Issued
  <2> QED
    BY <1>2, <2>1, <2>2, Zenon
<1>4. Elsewhere(c)
  <2> SUFFICES ASSUME NEW d \in Commits \ {c}
               PROVE  /\ pc'[d] = pc[d] /\ commitStatus'[d] = commitStatus[d] /\ rows'[d] = rows[d]
                      /\ targets'[d] = targets[d] /\ todo'[d] = todo[d]
    BY Zenon DEF Elsewhere
  <2>t. /\ pc \in [Commits -> {"idle"} \cup Running \cup Ended]
        /\ rows \in [Commits -> [Nodes -> RowStatus \cup {"none"}]]
        /\ targets \in [Commits -> SUBSET Nodes]
        /\ todo \in [Commits -> SUBSET Nodes]
        /\ commitStatus \in [Commits -> {"none", "STAGED", "COMMITTED", "ROLLED_BACK"}]
    BY Zenon DEF TypeOK, ApplyTypeOK
  <2>1. pc'[d] = pc[d]
    BY <2>t, Zenon DEF ApplyAny, StartApply, Apply, Probe, Tick, ApplyFault, ApplyStep, StageInsert,
     StageList, StageEnqueue, RolloutStart, Announce, Deadline, LoopHead,
     ProbeAnswers, ProbeTimesOut, Refresh, Finalize, MarkRolledBack, RollbackUpdate, RollbackList,
     RollbackEnqueue, CommitUpdate, StatementFails, Goto, PollGoto
  <2>2. commitStatus'[d] = commitStatus[d]
    BY <2>t, Zenon DEF ApplyAny, StartApply, Apply, Probe, Tick, ApplyFault, ApplyStep, StageInsert,
     StageList, StageEnqueue, RolloutStart, Announce, Deadline, LoopHead,
     ProbeAnswers, ProbeTimesOut, Refresh, Finalize, MarkRolledBack, RollbackUpdate, RollbackList,
     RollbackEnqueue, CommitUpdate, StatementFails
  <2>3. rows'[d] = rows[d]
    BY <2>t, Zenon DEF ApplyAny, StartApply, Apply, Probe, Tick, ApplyFault, ApplyStep, StageInsert,
     StageList, StageEnqueue, RolloutStart, Announce, Deadline,
     LoopHead, ProbeAnswers, ProbeTimesOut, Refresh, Finalize, MarkRolledBack, RollbackUpdate,
     RollbackList, RollbackEnqueue, CommitUpdate, StatementFails
  <2>4. targets'[d] = targets[d] /\ todo'[d] = todo[d]
    BY <2>t, Zenon DEF ApplyAny, StartApply, Apply, Probe, Tick, ApplyFault, ApplyStep, StageInsert,
     StageList, StageEnqueue, RolloutStart, Announce, Deadline, LoopHead,
     ProbeAnswers, ProbeTimesOut, Refresh, Finalize, MarkRolledBack, RollbackUpdate, RollbackList,
     RollbackEnqueue, CommitUpdate, StatementFails
  <2> QED
    BY <2>1, <2>2, <2>3, <2>4, Zenon
<1> QED
  BY <1>1, <1>2, <1>3, <1>4, Zenon

\* A row becomes SUCCEEDED only in refresh, finished or interrupted.
LEMMA OnlyRefreshSucceeds ==
  ASSUME TypeOK, NEW c \in Commits, ApplyAny(c), NEW n \in Nodes,
         rows'[c][n] = "SUCCEEDED", rows[c][n] # "SUCCEEDED"
  PROVE  Refreshed(c, n) = "SUCCEEDED"
<1>t. rows \in [Commits -> [Nodes -> RowStatus \cup {"none"}]]
  BY Zenon DEF TypeOK, ApplyTypeOK
<1>1. rows' # rows
  BY Zenon
<1>2. \/ RolloutStart(c) \/ Refresh(c) \/ Finalize(c) \/ MarkRolledBack(c) \/ StatementFails(c)
  BY <1>1, Zenon DEF ApplyAny, StartApply, Apply, Probe, Tick, ApplyFault, ApplyStep, StageInsert,
     StageList, StageEnqueue, Announce, Deadline, LoopHead, ProbeAnswers, ProbeTimesOut,
     RollbackUpdate, RollbackList, RollbackEnqueue, CommitUpdate
<1>3. CASE RolloutStart(c)
  BY <1>3, <1>t, Zenon DEF RolloutStart
<1>4. CASE Refresh(c)
  BY <1>4, <1>t, Zenon DEF Refresh
<1>5. CASE Finalize(c)
  BY <1>5, <1>t, Zenon DEF Finalize
<1>6. CASE MarkRolledBack(c)
  BY <1>6, <1>t, Zenon DEF MarkRolledBack
<1>7. CASE StatementFails(c)
  <2>1. PICK r \in Interrupted(c) : rows' = [rows EXCEPT ![c] = r]
    BY <1>7, Zenon DEF StatementFails
  <2>2. r[n] = "SUCCEEDED"
    BY <1>t, <2>1, Zenon
  <2> QED
    BY <2>2, InterruptedRows DEF TypeOK
<1> QED
  BY <1>2, <1>3, <1>4, <1>5, <1>6, <1>7, Zenon

\* The steps of apply() keep AnswersAreTrue: refresh turns a row SUCCEEDED only on
\* an archived success of that node for that commit.
LEMMA ApplyAnswers ==
  ASSUME TypeOK, AnswersAreTrue, NEW c \in Commits, ApplyAny(c)
  PROVE  AnswersAreTrue'
<1>0. ColumnsKept /\ UNCHANGED <<phase, batch, applied, acks>> /\ Elsewhere(c)
  BY ApplyFrame, Zenon DEF agentVars
<1>t. /\ \A m \in Nodes : batch[m] \subseteq DOMAIN commands
      /\ \A a \in acks : a.id \in DOMAIN commands
  BY Zenon DEF TypeOK, QueueTypeOK, AgentTypeOK
<1>1. \A m \in Nodes : \A i \in batch'[m] : commands'[i].node = m
  BY <1>0, <1>t, Zenon DEF AnswersAreTrue, ColumnsKept
<1>2. ASSUME NEW m \in Nodes \ WindowsNodes, NEW i \in batch'[m],
             phase'[m] \in AckOk, First(i, batch[m])', commands'[i].type = "APPLY_FIREWALL"
      PROVE  commands'[i].commit \in applied'[m]
  <2>1. i \in DOMAIN commands /\ i \in batch[m]
    BY <1>0, <1>t, Zenon
  <2>2. First(i, batch[m])
    BY <1>0, <1>2, <1>t, <2>1, BeforeKept, Zenon DEF First
  <2> QED
    BY <1>0, <1>2, <2>1, <2>2, Zenon DEF AnswersAreTrue, ColumnsKept
<1>3. \A a \in acks' :
       a.commit # NoCommit /\ a.status = "SUCCEEDED" /\ commands'[a.id].node \notin WindowsNodes
         => a.commit \in applied'[commands'[a.id].node]
  BY <1>0, <1>t, Zenon DEF AnswersAreTrue, ColumnsKept
<1>4. ASSUME NEW d \in Commits, NEW m \in Nodes \ WindowsNodes, rows'[d][m] = "SUCCEEDED"
      PROVE  d \in applied'[m]
  <2>1. CASE rows[d][m] = "SUCCEEDED"
    BY <1>0, <2>1, Zenon DEF AnswersAreTrue
  <2>2. CASE rows[d][m] # "SUCCEEDED"
    <3>1. d = c
      BY <1>0, <1>4, <2>2, Zenon DEF Elsewhere
    <3>2. Refreshed(c, m) = "SUCCEEDED"
      BY <1>4, <2>2, <3>1, OnlyRefreshSucceeds, Zenon
    <3>3. \E a \in RolloutAcks(c, m) : a.status = "SUCCEEDED"
      BY <2>2, <3>1, <3>2, Zenon DEF Refreshed
    <3>4. c # NoCommit
      BY QueueAssumption, Zenon
    <3> QED
      BY <1>0, <3>1, <3>3, <3>4 DEF RolloutAcks, AnswersAreTrue
  <2> QED
    BY <2>1, <2>2, Zenon
<1> QED
  BY <1>1, <1>2, <1>3, <1>4, Zenon DEF AnswersAreTrue


-----------------------------------------------------------------------------
(***************************************************************************)
(* PolicyRollout is type correct, for any finite fleet, any number of      *)
(* concurrent applies and any number of faults.                            *)
(***************************************************************************)

(* Type correctness.                                                       *)

\* Appending a well-formed command keeps the queue and the batches well-formed.
LEMMA EnqueueType ==
  ASSUME QueueTypeOK, AgentTypeOK,
         NEW n \in Nodes, NEW t \in CommandTypes, NEW c \in Commits, NEW p \in Priorities,
         enqueue(n, t, c, p), UNCHANGED <<acks, expired, faults, agentVars>>
  PROVE  QueueTypeOK' /\ AgentTypeOK'
<1> DEFINE r == [node |-> n, type |-> t, commit |-> c, priority |-> p, acked |-> FALSE]
<1>1. r \in Command
  BY Zenon DEF Command
<1>2. /\ commands' \in Seq(Command)
      /\ Len(commands') = Len(commands) + 1
  BY <1>1 DEF enqueue, QueueTypeOK
<1>3. DOMAIN commands \subseteq DOMAIN commands'
  BY <1>2 DEF QueueTypeOK
<1> HIDE DEF r
<1>4. QueueTypeOK'
  BY <1>2, <1>3 DEF QueueTypeOK
<1>5. AgentTypeOK'
  BY <1>3, Zenon DEF AgentTypeOK, agentVars
<1> QED
  BY <1>4, <1>5, Zenon

\* What the agents' steps do to the types.
LEMMA AgentType ==
  ASSUME TypeOK, NEW n \in Nodes, Agent(n) \/ AgentTrouble(n)
  PROVE  TypeOK'
<1> USE DEF TypeOK
<1>0. ApplyTypeOK'
  BY Zenon DEF Agent, AgentTrouble, ApplyTypeOK, applyVars
<1>1. CASE Heartbeat(n)
  <2>1. pending(n, Limit) \subseteq DOMAIN commands
    BY Zenon DEF pending, Waiting
  <2>2. QueueTypeOK' /\ AgentTypeOK'
    BY <1>1, <2>1, Zenon DEF Heartbeat, QueueTypeOK, AgentTypeOK, queueVars, Phases
  <2> QED
    BY <1>0, <2>2, Zenon
<1>2. CASE ExecuteOk(n)
  <2>1. PICK i \in batch[n] :
          \E f \in FirewallAfter(n, commands[i]) :
            /\ firewall' = [firewall EXCEPT ![n] = f]
            /\ applied' = [applied EXCEPT ![n] = @ \cup f]
    BY <1>2, Zenon DEF ExecuteOk
  <2>2. PICK f \in FirewallAfter(n, commands[i]) :
            /\ firewall' = [firewall EXCEPT ![n] = f]
            /\ applied' = [applied EXCEPT ![n] = @ \cup f]
    BY <2>1, Zenon
  <2>3. commands[i] \in Command
    BY DEF QueueTypeOK, AgentTypeOK
  <2>4. f \subseteq Commits
    BY <2>2, <2>3 DEF FirewallAfter, FirewallAfterApply, FirewallAfterRollback, AgentTypeOK, Command
  <2>5. AgentTypeOK'
    BY <1>2, <2>2, <2>4, Zenon DEF ExecuteOk, AgentTypeOK, Phases, AckOk, queueVars
  <2> QED
    BY <1>0, <1>2, <2>5, Zenon DEF ExecuteOk, QueueTypeOK, queueVars
<1>3. CASE ExecuteThrows(n)
  BY <1>0, <1>3, Zenon DEF ExecuteThrows, QueueTypeOK, AgentTypeOK, queueVars, Phases, AckFailed
<1>4. CASE AckUpdate(n)
  <2>1. PICK i \in batch[n] : acknowledgeUpdate(i)
    BY <1>4, Zenon DEF AckUpdate
  <2>2. i \in DOMAIN commands
    BY Zenon DEF AgentTypeOK
  <2>3. QueueTypeOK' /\ DOMAIN commands' = DOMAIN commands
    BY <1>4, <2>1, <2>2, AcknowledgeKeeps, Zenon DEF AckUpdate, QueueTypeOK
  <2>4. AgentTypeOK'
    BY <1>4, <2>3, Zenon DEF AckUpdate, AgentTypeOK, Phases, AckOk, AckFailed
  <2> QED
    BY <1>0, <2>3, <2>4, Zenon
<1>5. ASSUME NEW i \in batch[n], AckRow(n, i), UNCHANGED <<commands, expired>>,
             faults' \in 0..MaxFaults
      PROVE  QueueTypeOK'
  <2>1. i \in DOMAIN commands /\ commands[i] \in Command
    BY DEF QueueTypeOK, AgentTypeOK
  <2>2. i \in Nat
    BY <2>1 DEF QueueTypeOK
  <2>3. EchoedCommit(n, commands[i]) \in Commits \cup {NoCommit}
    BY <2>1, Zenon DEF EchoedCommit, Command
  <2> QED
    BY <1>5, <2>1, <2>2, <2>3 DEF AckRow, acknowledgeInsert, Acknowledgement, QueueTypeOK
<1>6. CASE AckInsert(n)
  <2>1. PICK i \in batch[n] :
          /\ AckRow(n, i)
          /\ batch' = [batch EXCEPT ![n] = @ \ {i}]
          /\ phase' = [phase EXCEPT ![n] = IF batch[n] = {i} THEN "idle" ELSE "execute"]
    BY <1>6, Zenon DEF AckInsert
  <2>2. QueueTypeOK'
    BY <1>5, <1>6, <2>1, Zenon DEF AckInsert, QueueTypeOK
  <2>3. AgentTypeOK'
    BY <1>6, <2>1, Zenon DEF AckInsert, AgentTypeOK, Phases
  <2> QED
    BY <1>0, <2>2, <2>3, Zenon
<1>7. ASSUME AcknowledgeThrows(n), UNCHANGED <<commands, firewall, applied>>
      PROVE  AgentTypeOK'
  BY <1>7, Zenon DEF AcknowledgeThrows, AgentTypeOK, Phases, AckFailed
<1>8. CASE AckDuplicate(n)
  BY <1>0, <1>7, <1>8, Zenon DEF AckDuplicate, QueueTypeOK, queueVars
<1>9. ASSUME Fault PROVE faults' \in 0..MaxFaults
  BY <1>9, QueueAssumption DEF Fault, QueueTypeOK
<1>10. CASE AckFails(n)
  BY <1>0, <1>7, <1>9, <1>10, Zenon DEF AckFails, QueueTypeOK
<1>11. CASE AckReplyLost(n)
  BY <1>0, <1>5, <1>7, <1>9, <1>11, Zenon DEF AckReplyLost
<1>12. CASE Restart(n)
  <2>1. AgentTypeOK'
    BY <1>12, Zenon DEF Restart, AgentTypeOK, Phases
  <2> QED
    BY <1>0, <1>9, <1>12, <2>1, Zenon DEF Restart, QueueTypeOK
<1>13. CASE StreamHeartbeat(n)
  <2>1. PICK i \in pending(n, 1) :
          /\ acknowledgeUpdate(i)
          /\ \/ acknowledgeInsert(i, "ACKNOWLEDGED", NoCommit) /\ UNCHANGED faults
             \/ Fault /\ UNCHANGED acks
    BY <1>13, Zenon DEF StreamHeartbeat
  <2>2. i \in DOMAIN commands
    BY Zenon DEF pending, Waiting
  <2>3. /\ commands' \in Seq(Command)
        /\ Len(commands') = Len(commands)
        /\ DOMAIN commands' = DOMAIN commands
    BY <2>1, <2>2, AcknowledgeKeeps, Zenon
  <2>4. acks' \subseteq Acknowledgement /\ \A a \in acks' : a.id \in DOMAIN commands
    BY <2>1, <2>2 DEF acknowledgeInsert, Acknowledgement, QueueTypeOK
  <2>5. faults' \in 0..MaxFaults
    BY <2>1, <1>9, Zenon DEF QueueTypeOK
  <2>6. QueueTypeOK'
    BY <1>13, <2>3, <2>4, <2>5, Zenon DEF StreamHeartbeat, QueueTypeOK
  <2>7. AgentTypeOK'
    BY <1>13, <2>3, Zenon DEF StreamHeartbeat, AgentTypeOK, agentVars
  <2> QED
    BY <1>0, <2>6, <2>7, Zenon
<1> QED
  BY <1>1, <1>2, <1>3, <1>4, <1>6, <1>8, <1>10, <1>11, <1>12, <1>13, Zenon
     DEF Agent, AgentTrouble, AgentStep, AgentFault

\* Labels and late flags stay in their types wherever apply() goes.
LEMMA GotoType ==
  ASSUME ApplyTypeOK, NEW c \in Commits, NEW label \in {"idle"} \cup Running \cup Ended
  PROVE  /\ Goto(c, label) => pc' \in [Commits -> {"idle"} \cup Running \cup Ended]
         /\ PollGoto(c, label) => /\ pc' \in [Commits -> {"idle"} \cup Running \cup Ended]
                                  /\ late' \in [Commits -> BOOLEAN]
<1>1. Goto(c, label) => pc' \in [Commits -> {"idle"} \cup Running \cup Ended]
  BY Zenon DEF Goto, ApplyTypeOK
<1>2. ASSUME PollGoto(c, label) PROVE late' \in [Commits -> BOOLEAN]
  BY <1>2, Zenon DEF PollGoto, ApplyTypeOK
<1> QED
  BY <1>1, <1>2, Zenon DEF PollGoto

\* The steps of apply() that leave the queue and the agents alone.
LEMMA ApplyOwnType ==
  ASSUME TypeOK, NEW c \in Commits, UNCHANGED agentVars,
         \/ StageInsert(c) \/ StageList(c) \/ RolloutStart(c)
         \/ Announce(c, "announce", "loop") \/ Announce(c, "announceRollback", "ROLLED_BACK")
         \/ Announce(c, "announceCommit", "COMMITTED")
         \/ LoopHead(c) \/ ProbeAnswers(c) \/ ProbeTimesOut(c) \/ Refresh(c) \/ Finalize(c)
         \/ MarkRolledBack(c) \/ RollbackUpdate(c) \/ RollbackList(c) \/ CommitUpdate(c)
         \/ Deadline(c)
  PROVE  TypeOK'
<1> DEFINE Labels == {"idle"} \cup Running \cup Ended
<1> USE DEF TypeOK
<1>0. /\ {"list", "stage", "start", "announce", "loop", "probe", "refresh", "finalize",
          "mark", "rollback", "rollbackList", "broadcast", "announceRollback", "commit",
          "announceCommit", "COMMITTED", "ROLLED_BACK", "rethrown"} \subseteq Labels
  BY Zenon DEF Running, Ended, Staging, Trying, Polling, RollingBack
<1>q. ASSUME UNCHANGED queueVars PROVE QueueTypeOK' /\ AgentTypeOK'
  BY <1>q, Zenon DEF QueueTypeOK, AgentTypeOK, queueVars, agentVars
<1> HIDE DEF Labels
<1>g. ASSUME NEW label \in Labels
      PROVE  /\ Goto(c, label) => pc' \in [Commits -> Labels]
             /\ PollGoto(c, label) => pc' \in [Commits -> Labels] /\ late' \in [Commits -> BOOLEAN]
  BY GotoType, Zenon DEF Labels
<1>t. ASSUME active' \subseteq Nodes,
             commitStatus' \in [Commits -> {"none", "STAGED", "COMMITTED", "ROLLED_BACK"}],
             rows' \in [Commits -> [Nodes -> RowStatus \cup {"none"}]],
             targets' \in [Commits -> SUBSET Nodes], todo' \in [Commits -> SUBSET Nodes],
             pc' \in [Commits -> Labels],
             caught' \in [Commits -> BOOLEAN], late' \in [Commits -> BOOLEAN],
             UNCHANGED queueVars
      PROVE  TypeOK'
  BY <1>q, <1>t, Zenon DEF ApplyTypeOK, Labels
<1>1. CASE StageInsert(c)
  BY <1>0, <1>g, <1>t, <1>1, Zenon DEF StageInsert, ApplyTypeOK
<1>2. CASE StageList(c)
  BY <1>0, <1>g, <1>t, <1>2, Zenon DEF StageList, ApplyTypeOK
<1>3. CASE RolloutStart(c)
  BY <1>0, <1>g, <1>t, <1>3, Zenon DEF RolloutStart, ApplyTypeOK, RowStatus
<1>4. CASE \/ Announce(c, "announce", "loop") \/ Announce(c, "announceRollback", "ROLLED_BACK")
           \/ Announce(c, "announceCommit", "COMMITTED")
  BY <1>0, <1>g, <1>t, <1>4, Zenon DEF Announce, ApplyTypeOK
<1>5. CASE LoopHead(c)
  BY <1>0, <1>g, <1>t, <1>5, Zenon DEF LoopHead, ApplyTypeOK
<1>6. CASE ProbeAnswers(c) \/ ProbeTimesOut(c)
  BY <1>0, <1>g, <1>t, <1>6, Zenon DEF ProbeAnswers, ProbeTimesOut, ApplyTypeOK
<1>7. CASE Refresh(c)
  <2>1. \A n \in Nodes : Refreshed(c, n) \in RowStatus \cup {"none"}
    BY Zenon DEF Refreshed, ApplyTypeOK, RowStatus
  <2>2. rows' \in [Commits -> [Nodes -> RowStatus \cup {"none"}]]
    BY <1>7, <2>1, Zenon DEF Refresh, ApplyTypeOK
  <2>3. \E label \in Labels : PollGoto(c, label)
    BY <1>0, <1>7, Zenon DEF Refresh
  <2> QED
    BY <1>g, <1>t, <1>7, <2>2, <2>3, Zenon DEF Refresh, ApplyTypeOK
<1>8. CASE Finalize(c)
  <2>1. rows' \in [Commits -> [Nodes -> RowStatus \cup {"none"}]]
    BY <1>8, Zenon DEF Finalize, ApplyTypeOK, RowStatus
  <2>2. \E label \in Labels : Goto(c, label)
    BY <1>0, <1>8, Zenon DEF Finalize
  <2> QED
    BY <1>g, <1>t, <1>8, <2>1, <2>2, Zenon DEF Finalize, ApplyTypeOK
<1>9. CASE MarkRolledBack(c)
  <2>1. rows' \in [Commits -> [Nodes -> RowStatus \cup {"none"}]]
    BY <1>9, Zenon DEF MarkRolledBack, ApplyTypeOK, RowStatus
  <2> QED
    BY <1>0, <1>g, <1>t, <1>9, <2>1, Zenon DEF MarkRolledBack, ApplyTypeOK
<1>10. CASE RollbackUpdate(c)
  BY <1>0, <1>g, <1>t, <1>10, Zenon DEF RollbackUpdate, ApplyTypeOK
<1>11. CASE RollbackList(c)
  BY <1>0, <1>g, <1>t, <1>11, Zenon DEF RollbackList, AfterRollback, ApplyTypeOK
<1>12. CASE CommitUpdate(c)
  BY <1>0, <1>g, <1>t, <1>12, Zenon DEF CommitUpdate, ApplyTypeOK
<1>13. CASE Deadline(c)
  BY <1>t, <1>13, Zenon DEF Deadline, ApplyTypeOK, Labels
<1> QED
  BY <1>1, <1>2, <1>3, <1>4, <1>5, <1>6, <1>7, <1>8, <1>9, <1>10, <1>11, <1>12, <1>13, Zenon

\* The steps of apply() that enqueue a command.
LEMMA ApplyEnqueueType ==
  ASSUME TypeOK, NEW c \in Commits, UNCHANGED agentVars, StageEnqueue(c) \/ RollbackEnqueue(c)
  PROVE  TypeOK'
<1> USE DEF TypeOK
<1>0. /\ "APPLY_FIREWALL" \in CommandTypes /\ "ROLLBACK_FIREWALL" \in CommandTypes
      /\ 100 \in Priorities /\ 200 \in Priorities
  BY Zenon DEF CommandTypes, Priorities
<1>1. QueueTypeOK' /\ AgentTypeOK'
  <2>1. PICK n \in todo[c] : \/ enqueue(n, "APPLY_FIREWALL", c, 100)
                             \/ enqueue(n, "ROLLBACK_FIREWALL", c, 200)
    BY DEF StageEnqueue, RollbackEnqueue
  <2>2. n \in Nodes
    BY Zenon DEF ApplyTypeOK
  <2>3. UNCHANGED <<acks, expired, faults, agentVars>>
    BY Zenon DEF StageEnqueue, RollbackEnqueue
  <2> QED
    BY <1>0, <2>1, <2>2, <2>3, EnqueueType, Zenon
<1>2. \E label \in {"idle"} \cup Running \cup Ended : Goto(c, label)
  BY Zenon DEF StageEnqueue, RollbackEnqueue, AfterRollback, Running, Ended, Staging, Trying, RollingBack
<1>3. pc' \in [Commits -> {"idle"} \cup Running \cup Ended]
  BY <1>2, GotoType, Zenon
<1>4. todo' \in [Commits -> SUBSET Nodes]
  BY DEF StageEnqueue, RollbackEnqueue, ApplyTypeOK
<1>5. ApplyTypeOK'
  BY <1>3, <1>4, Zenon DEF ApplyTypeOK, StageEnqueue, RollbackEnqueue
<1> QED
  BY <1>1, <1>5, Zenon

\* The faults of apply().
LEMMA ApplyFaultType ==
  ASSUME TypeOK, UNCHANGED agentVars,
         ApiCrash \/ \E c \in Commits : StatementFails(c)
  PROVE  TypeOK'
<1> USE DEF TypeOK
<1>0. {"mark", "abandoned", "crashed"} \subseteq {"idle"} \cup Running \cup Ended
  BY Zenon DEF Running, Ended, Trying, RollingBack
<1>1. Fault /\ UNCHANGED <<commands, acks, expired>>
  BY Zenon DEF ApiCrash, StatementFails
<1>2. QueueTypeOK' /\ AgentTypeOK'
  BY <1>1, QueueAssumption DEF Fault, QueueTypeOK, AgentTypeOK, agentVars
<1>3. CASE ApiCrash
  <2>1. pc' \in [Commits -> {"idle"} \cup Running \cup Ended]
    BY <1>0, <1>3, Zenon DEF ApiCrash, ApplyTypeOK
  <2>2. /\ rows' \in [Commits -> UNION {Interrupted(c) : c \in Commits}]
        /\ \A c \in Commits : rows'[c] \in Interrupted(c)
    BY <1>3, Zenon DEF ApiCrash
  <2>3. \A c \in Commits : rows'[c] \in [Nodes -> RowStatus \cup {"none"}]
    BY <2>2, InterruptedRows, Zenon
  <2>4. rows' \in [Commits -> [Nodes -> RowStatus \cup {"none"}]]
    BY <2>2, <2>3, Zenon
  <2> QED
    BY <1>2, <1>3, <2>1, <2>4, Zenon DEF ApiCrash, ApplyTypeOK
<1>4. CASE \E c \in Commits : StatementFails(c)
  <2>1. PICK c \in Commits : StatementFails(c)
    BY <1>4, Zenon
  <2>2. /\ pc' \in [Commits -> {"idle"} \cup Running \cup Ended]
        /\ late' \in [Commits -> BOOLEAN]
    BY <1>0, <2>1, GotoType, Zenon DEF StatementFails
  <2>3. caught' \in [Commits -> BOOLEAN]
    BY <2>1, Zenon DEF StatementFails, ApplyTypeOK
  <2>4. PICK r \in Interrupted(c) : rows' = [rows EXCEPT ![c] = r]
    BY <2>1, Zenon DEF StatementFails
  <2>5. rows' \in [Commits -> [Nodes -> RowStatus \cup {"none"}]]
    BY <2>4, InterruptedRows, Zenon DEF ApplyTypeOK
  <2> QED
    BY <1>2, <2>1, <2>2, <2>3, <2>5, Zenon DEF StatementFails, ApplyTypeOK
<1> QED
  BY <1>3, <1>4, Zenon

\* Every step preserves the type invariant.
LEMMA TypeStep ==
  TypeOK /\ [Next]_vars => TypeOK'
<1> SUFFICES ASSUME TypeOK, [Next]_vars PROVE TypeOK'
  BY Zenon
<1>1. ASSUME NEW n \in Nodes, Enroll(n) PROVE TypeOK'
  BY <1>1, Zenon DEF Enroll, TypeOK, QueueTypeOK, AgentTypeOK, ApplyTypeOK, queueVars, agentVars
<1>2. CASE Expire
  BY <1>2 DEF Expire, expire, TypeOK, QueueTypeOK, AgentTypeOK, ApplyTypeOK, agentVars, applyVars
<1>3. CASE UNCHANGED vars
  BY <1>3, Zenon DEF vars, TypeOK, QueueTypeOK, AgentTypeOK, ApplyTypeOK, queueVars, agentVars, applyVars
<1>4. ASSUME NEW c \in Commits,
             StartApply(c) \/ Apply(c) \/ Probe(c) \/ Tick(c) \/ ApplyFault(c)
      PROVE  TypeOK'
  BY <1>4, ApplyOwnType, ApplyEnqueueType, ApplyFaultType, Zenon
     DEF StartApply, Apply, Probe, Tick, ApplyFault, ApplyStep
<1>5. ASSUME NEW n \in Nodes, Agent(n) \/ AgentTrouble(n) PROVE TypeOK'
  BY <1>5, AgentType, Zenon
<1>6. CASE Crash
  BY <1>6, ApplyFaultType, Zenon DEF Crash
<1> QED
  BY <1>1, <1>2, <1>3, <1>4, <1>5, <1>6, Zenon DEF Next

\* The initial states are well typed.
LEMMA TypeInit ==
  Init => TypeOK
BY QueueAssumption DEF Init, QueueInit, AgentInit, ApplyInit, TypeOK, QueueTypeOK, AgentTypeOK,
   ApplyTypeOK, Phases

\* The tables, the agents and the apply() calls stay well typed: rows, statuses
\* and acknowledgements only ever hold the values their CHECK constraints allow.
THEOREM TypeCorrect == Spec => []TypeOK
BY TypeInit, TypeStep, PTL DEF Spec

=============================================================================
