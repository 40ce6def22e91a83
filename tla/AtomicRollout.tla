---------------------------- MODULE AtomicRollout ---------------------------
(***************************************************************************)
(* What a policy rollout promises, without queue, polling or faults: a     *)
(* commit is aimed once at a set of nodes, nodes take its rules one by     *)
(* one, and the commit is declared COMMITTED only while enough of the      *)
(* nodes it was aimed at have taken them.  ROLLED_BACK is final.           *)
(***************************************************************************)
EXTENDS Integers, FiniteSets

CONSTANTS Nodes, Commits,
          Enough(_, _)    \* Enough(missing, aimed)

VARIABLES
  outcome,    \* the status an operator reads for the commit
  aim,        \* the nodes it was aimed at
  takers      \* the nodes that have taken its rules

Init ==
  /\ outcome = [c \in Commits |-> "none"]
  /\ aim = [c \in Commits |-> {}]
  /\ takers = [c \in Commits |-> {}]

Stage(c) ==
  /\ outcome[c] = "none"
  /\ outcome' = [outcome EXCEPT ![c] = "STAGED"]
  /\ UNCHANGED <<aim, takers>>

Aim(c, S) ==
  /\ outcome[c] = "STAGED"
  /\ aim[c] = {}
  /\ aim' = [aim EXCEPT ![c] = S]
  /\ UNCHANGED <<outcome, takers>>

\* A node it was aimed at takes the rules, in time or late.
Take(c, n) ==
  /\ n \in aim[c]
  /\ takers' = [takers EXCEPT ![c] = @ \cup {n}]
  /\ UNCHANGED <<outcome, aim>>

Commit(c) ==
  /\ outcome[c] = "STAGED"
  /\ Enough(aim[c] \ takers[c], aim[c])
  /\ outcome' = [outcome EXCEPT ![c] = "COMMITTED"]
  /\ UNCHANGED <<aim, takers>>

\* Also of a COMMITTED commit: apply() rolls back when announcing it fails.
RollBack(c) ==
  /\ outcome[c] \in {"STAGED", "COMMITTED"}
  /\ outcome' = [outcome EXCEPT ![c] = "ROLLED_BACK"]
  /\ UNCHANGED <<aim, takers>>

Next == \E c \in Commits :
          \/ Stage(c)
          \/ \E S \in SUBSET Nodes : Aim(c, S)
          \/ \E n \in Nodes : Take(c, n)
          \/ Commit(c)
          \/ RollBack(c)

Spec == Init /\ [][Next]_<<outcome, aim, takers>>
=============================================================================
