--------------------------- MODULE MCPolicyRollout --------------------------
(***************************************************************************)
(* PolicyRollout for TLC: symmetry of the nodes (all of the same kind) and *)
(* of the commits.                                                         *)
(***************************************************************************)
EXTENDS PolicyRollout, TLC

Symmetry == Permutations(Nodes) \cup Permutations(Commits)
=============================================================================
