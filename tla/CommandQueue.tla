---------------------------- MODULE CommandQueue ----------------------------
(***************************************************************************)
(* The durable command queue between the control plane and the nodes:      *)
(* services/mesh-controller/pg-command-queue.ts over the tables            *)
(* controller_commands (db/004) and command_acknowledgements (db/002).     *)
(*                                                                         *)
(* Every SQL statement is atomic, no two statements share a transaction.   *)
(* The module declares the tables and the statements; the processes that   *)
(* issue them are in EndpointAgent and SafeApply.                          *)
(***************************************************************************)
EXTENDS Integers, Sequences, FiniteSets

CONSTANTS
  Nodes,       \* mesh nodes that are or may become enrolled
  Commits,     \* commit ids that SafeApplyService.apply may draw
  NoCommit,    \* an acknowledgement whose details carry no commitId
  Limit,       \* how many commands one heartbeat reply carries (20)
  MaxFaults    \* bound: infrastructure faults in one behaviour

ASSUME QueueAssumption == /\ IsFiniteSet(Nodes)
                          /\ NoCommit \notin Commits
                          /\ Limit \in Nat \ {0}
                          /\ MaxFaults \in Nat

VARIABLES
  commands,    \* controller_commands in issue order: position = command_id
  acks,        \* command_acknowledgements
  expired,     \* the commands 1..expired have expires_at <= now()
  faults       \* infrastructure faults so far

queueVars == <<commands, acks, expired, faults>>

CommandTypes == {"APPLY_FIREWALL", "ROLLBACK_FIREWALL"}
Priorities == {100, 200}

Command == [node : Nodes, type : CommandTypes, commit : Commits,
            priority : Priorities, acked : BOOLEAN]

\* A row's node_id and command_type are copies of the command's own columns, so
\* the model reads them from commands[id]; "commit" is details->>'commitId'.
Acknowledgement == [id : Nat, status : {"SUCCEEDED", "FAILED", "ACKNOWLEDGED"},
                    commit : Commits \cup {NoCommit}]

QueueTypeOK ==
  /\ commands \in Seq(Command)
  /\ acks \subseteq Acknowledgement
  /\ \A a \in acks : a.id \in DOMAIN commands
  /\ expired \in 0..Len(commands)
  /\ faults \in 0..MaxFaults

QueueInit ==
  /\ commands = <<>>
  /\ acks = {}
  /\ expired = 0
  /\ faults = 0

-----------------------------------------------------------------------------
\* A crash, a failed statement or a lost HTTP message: something the code
\* survives but does not cause. Behaviours have at most MaxFaults of them.
Fault == /\ faults < MaxFaults
         /\ faults' = faults + 1

enqueue(node, type, commit, priority) ==
  commands' = Append(commands, [node |-> node, type |-> type, commit |-> commit,
                                priority |-> priority, acked |-> FALSE])

\* ORDER BY priority DESC, issued_at.
Before(i, j) == \/ commands[i].priority > commands[j].priority
                \/ commands[i].priority = commands[j].priority /\ i < j

First(i, S) == /\ i \in S
               /\ \A j \in S \ {i} : Before(i, j)

\* The rows of the WHERE clause: the node's unacknowledged, unexpired commands.
Waiting(node) == {i \in DOMAIN commands : /\ commands[i].node = node
                                          /\ ~ commands[i].acked
                                          /\ i > expired}

\* As a set: its members are drained in the order of Before.
pending(node, limit) ==
  LET W == Waiting(node)
  IN  {i \in W : Cardinality({j \in W : Before(j, i)}) < limit}

\* Variant of acknowledgeUpdate: acknowledged_at is left NULL.
acknowledgeWithoutTimestamp(i) == commands' = [commands EXCEPT ![i].acked = FALSE]

\* acknowledge() is two statements. The first takes the command off the queue ...
acknowledgeUpdate(i) == commands' = [commands EXCEPT ![i].acked = TRUE]

Recorded(i) == \E a \in acks : a.id = i

\* ... and the second archives the result; PRIMARY KEY(command_id, node_id)
\* refuses a second row for the command.
acknowledgeInsert(i, status, commit) ==
  /\ ~ Recorded(i)
  /\ acks' = acks \cup {[id |-> i, status |-> status, commit |-> commit]}

\* Time passes the expires_at of the oldest unexpired command. All commands of
\* this queue have the same time to live, so they expire in issue order.
expire == /\ expired < Len(commands)
          /\ expired' = expired + 1
          /\ UNCHANGED <<commands, acks, faults>>
=============================================================================
