---------------------------- MODULE EndpointAgent ---------------------------
(***************************************************************************)
(* What a node does with the commands of its queue.                        *)
(*                                                                         *)
(* A node of Nodes \ GrpcNodes runs ProductionAgent                        *)
(* (agents/shared/production-agent.ts): each heartbeat returns a batch of  *)
(* commands, executed one after the other on the platform adapter, each    *)
(* acknowledged over HTTP before the next.  A node of GrpcNodes is         *)
(* connected through streamHeartbeat (src/api/grpc/server.ts).             *)
(***************************************************************************)
EXTENDS CommandQueue

CONSTANTS
  WindowsNodes,   \* nodes whose adapter is native/windows; the others are Linux
  GrpcNodes       \* nodes that drain their queue over the gRPC stream

ASSUME AgentAssumption == WindowsNodes \subseteq Nodes /\ GrpcNodes \subseteq Nodes

VARIABLES
  phase,      \* where the agent's loop is
  batch,      \* the commands of the last heartbeat reply not yet finished
  firewall,   \* the commits whose rules are in the node's firewall
  applied     \* history: the commits whose rules were ever put in the firewall

agentVars == <<phase, batch, firewall, applied>>

\* "update" and "insert" are the two statements of an acknowledgement under way:
\* of {ok:true,...} in the try block, of {ok:false,error} in the catch block.
AckOk == {"updateOk", "insertOk"}
AckFailed == {"updateFailed", "insertFailed"}
Updating == {"updateOk", "updateFailed"}
Inserting == {"insertOk", "insertFailed"}
Phases == {"idle", "execute"} \cup AckOk \cup AckFailed

AgentTypeOK ==
  /\ phase \in [Nodes -> Phases]
  /\ batch \in [Nodes -> SUBSET DOMAIN commands]
  /\ firewall \in [Nodes -> SUBSET Commits]
  /\ applied \in [Nodes -> SUBSET Commits]

AgentInit ==
  /\ phase = [n \in Nodes |-> "idle"]
  /\ batch = [n \in Nodes |-> {}]
  /\ firewall = [n \in Nodes |-> {}]
  /\ applied = [n \in Nodes |-> {}]

-----------------------------------------------------------------------------
\* applyFirewall.  "nft -f" loads the rules beside those already in the table, or
\* fails as a whole and throws; apply.ps1 creates the commit's rule group with
\* -ErrorAction SilentlyContinue, so it may return normally without the rules.
FirewallAfterApply(n, c) ==
  {firewall[n] \cup {c}} \cup (IF n \in WindowsNodes THEN {firewall[n]} ELSE {})

\* rollbackFirewall.  On Linux the whole bapc_security table is deleted, whatever
\* the commit, and an error of that command is swallowed; on Windows the rules of
\* the commit's own group are removed.
FirewallAfterRollback(n, c) ==
  IF n \in WindowsNodes THEN {firewall[n] \ {c}} ELSE {{}, firewall[n]}

FirewallAfter(n, command) ==
  IF command.type = "APPLY_FIREWALL" THEN FirewallAfterApply(n, command.commit)
                                     ELSE FirewallAfterRollback(n, command.commit)

\* Variant of Heartbeat: a command is acknowledged before it is executed.
HeartbeatAcksFirst(n) ==
  /\ n \notin GrpcNodes
  /\ phase[n] = "idle"
  /\ pending(n, Limit) # {}
  /\ batch' = [batch EXCEPT ![n] = pending(n, Limit)]
  /\ phase' = [phase EXCEPT ![n] = "updateOk"]
  /\ UNCHANGED <<queueVars, firewall, applied>>

\* POST /agents/{id}/heartbeat: the reply carries the pending commands.
Heartbeat(n) ==
  /\ n \notin GrpcNodes
  /\ phase[n] = "idle"
  /\ pending(n, Limit) # {}
  /\ batch' = [batch EXCEPT ![n] = pending(n, Limit)]
  /\ phase' = [phase EXCEPT ![n] = "execute"]
  /\ UNCHANGED <<queueVars, firewall, applied>>

\* The adapter call of execute() returns.
ExecuteOk(n) ==
  /\ phase[n] = "execute"
  /\ \E i \in batch[n] : /\ First(i, batch[n])
                         /\ \E f \in FirewallAfter(n, commands[i]) :
                              /\ firewall' = [firewall EXCEPT ![n] = f]
                              /\ applied' = [applied EXCEPT ![n] = @ \cup f]
  /\ phase' = [phase EXCEPT ![n] = "updateOk"]
  /\ UNCHANGED <<queueVars, batch>>

\* The adapter call of execute() throws: the catch reports ok:false.
ExecuteThrows(n) ==
  /\ phase[n] = "execute"
  /\ phase' = [phase EXCEPT ![n] = "updateFailed"]
  /\ UNCHANGED <<queueVars, batch, firewall, applied>>

\* POST ack, first statement.
AckUpdate(n) ==
  /\ phase[n] \in Updating
  /\ \E i \in batch[n] : First(i, batch[n]) /\ acknowledgeUpdate(i)
  /\ phase' = [phase EXCEPT ![n] = IF @ \in AckOk THEN "insertOk" ELSE "insertFailed"]
  /\ UNCHANGED <<acks, expired, faults, batch, firewall, applied>>

\* The details of an acknowledgement: only the success of an APPLY_FIREWALL
\* echoes the commitId; {ok:false,error} and the plain {ok:true,at} do not.
EchoedCommit(n, command) ==
  IF phase[n] \in AckOk /\ command.type = "APPLY_FIREWALL" THEN command.commit ELSE NoCommit

\* The INSERT of the acknowledgement of command i of node n.
AckRow(n, i) ==
  acknowledgeInsert(i, IF phase[n] \in AckOk THEN "SUCCEEDED" ELSE "FAILED",
                    EchoedCommit(n, commands[i]))

\* POST ack, second statement, and the 2xx reply: on to the next command.
AckInsert(n) ==
  /\ phase[n] \in Inserting
  /\ \E i \in batch[n] :
       /\ First(i, batch[n])
       /\ AckRow(n, i)
       /\ batch' = [batch EXCEPT ![n] = @ \ {i}]
       /\ phase' = [phase EXCEPT ![n] = IF batch[n] = {i} THEN "idle" ELSE "execute"]
  /\ UNCHANGED <<commands, expired, faults, firewall, applied>>

\* acknowledge() threw in the agent.  After ok:true the catch sends ok:false; after
\* ok:false the error leaves run(), the process exits and is started again.
AcknowledgeThrows(n) ==
  \/ /\ phase[n] \in AckOk
     /\ phase' = [phase EXCEPT ![n] = "updateFailed"]
     /\ UNCHANGED batch
  \/ /\ phase[n] \in AckFailed
     /\ phase' = [phase EXCEPT ![n] = "idle"]
     /\ batch' = [batch EXCEPT ![n] = {}]

\* The request is lost, or one of its two statements fails.
AckFails(n) ==
  /\ phase[n] \in AckOk \cup AckFailed
  /\ Fault
  /\ AcknowledgeThrows(n)
  /\ UNCHANGED <<commands, acks, expired, firewall, applied>>

\* Both statements are done and the reply is lost.
AckReplyLost(n) ==
  /\ phase[n] \in Inserting
  /\ Fault
  /\ \E i \in batch[n] : First(i, batch[n]) /\ AckRow(n, i)
  /\ AcknowledgeThrows(n)
  /\ UNCHANGED <<commands, expired, firewall, applied>>

\* The command already has an acknowledgement: the INSERT violates the key.
AckDuplicate(n) ==
  /\ phase[n] \in Inserting
  /\ \E i \in batch[n] : First(i, batch[n]) /\ Recorded(i)
  /\ AcknowledgeThrows(n)
  /\ UNCHANGED <<queueVars, firewall, applied>>

\* The agent process dies and is started again: the batch is forgotten.
Restart(n) ==
  /\ phase[n] # "idle"
  /\ Fault
  /\ phase' = [phase EXCEPT ![n] = "idle"]
  /\ batch' = [batch EXCEPT ![n] = {}]
  /\ UNCHANGED <<commands, acks, expired, firewall, applied>>

\* streamHeartbeat: one command is written to the stream (the two firewall types
\* as NOOP) and acknowledged without a boolean "ok"; the second statement may fail.
StreamHeartbeat(n) ==
  /\ n \in GrpcNodes
  /\ \E i \in pending(n, 1) :
       /\ acknowledgeUpdate(i)
       /\ \/ acknowledgeInsert(i, "ACKNOWLEDGED", NoCommit) /\ UNCHANGED faults
          \/ Fault /\ UNCHANGED acks
  /\ UNCHANGED <<expired, agentVars>>

AgentStep(n) ==
  \/ Heartbeat(n)
  \/ ExecuteOk(n)
  \/ ExecuteThrows(n)
  \/ AckUpdate(n)
  \/ AckInsert(n)
  \/ AckDuplicate(n)
  \/ StreamHeartbeat(n)

AgentFault(n) ==
  \/ AckFails(n)
  \/ AckReplyLost(n)
  \/ Restart(n)
=============================================================================
