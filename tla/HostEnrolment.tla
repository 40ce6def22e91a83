---------------------------- MODULE HostEnrolment ----------------------------
(***************************************************************************)
(* What enrolling leaves on a Linux host.  The enroll command registers    *)
(* the host, brings up its interface and writes four files, one after the  *)
(* other; it may be interrupted anywhere and be run again.  The agent      *)
(* reads the files when it starts, and its identity key when it signs a    *)
(* rotation.                                                               *)
(*                                                                         *)
(* Runs of the command are numbered, and a node, a key or a certificate    *)
(* has the number of the run it comes from.  What the control plane does   *)
(* with a registration is in MeshMembership.                               *)
(***************************************************************************)
EXTENDS Integers

CONSTANT MaxRuns      \* bound on the runs of enroll

ASSUME HostAssumption == MaxRuns \in Nat

VARIABLES
  disk,         \* wg-private.key, identity-key.pem, client-cert.pem, and BAPC_NODE_ID of agent.env
  interface,    \* the run that set up the WireGuard interface; a rotation replaces its key only
  enrolment,    \* the run under way: its step and hardware id
  runs,         \* runs of enroll so far
  hardware,     \* hardware ids that the control plane knows
  agent,        \* the agent: the node it runs for, whether it can sign, its last rotation
  interrupted   \* history: a run ended after its registration and before its last file

hostVars == <<disk, interface, enrolment, runs, hardware, agent, interrupted>>

-----------------------------------------------------------------------------
NoEnrolment == [step |-> "none", hardware |-> 0]
NoAgent == [running |-> FALSE, node |-> 0, signs |-> FALSE, rotation |-> "none"]

HostInit ==
  /\ disk = [wg |-> 0, identity |-> 0, cert |-> 0, node |-> 0]
  /\ interface = 0
  /\ enrolment = NoEnrolment
  /\ runs = 0
  /\ hardware = {}
  /\ agent = NoAgent
  /\ interrupted = FALSE

Step(from, to) == enrolment.step = from /\ enrolment' = [enrolment EXCEPT !.step = to]

\* The machine id, here 0, or a random id when it cannot be read.
detectHardwareUuid == {0, runs + 1}

\* The command starts, detects its hardware and generates its keys (generateIdentityCsr).
enroll ==
  /\ enrolment = NoEnrolment
  /\ runs < MaxRuns
  /\ runs' = runs + 1
  /\ \E id \in detectHardwareUuid : enrolment' = [step |-> "register", hardware |-> id]
  /\ UNCHANGED <<disk, interface, hardware, agent, interrupted>>

\* client.registerNode; hardware that was enrolled before is refused, and the command
\* exits.
registerNode ==
  /\ enrolment.step = "register"
  /\ hardware' = hardware \cup {enrolment.hardware}
  /\ IF enrolment.hardware \in hardware THEN enrolment' = NoEnrolment ELSE Step("register", "apply")
  /\ UNCHANGED <<disk, interface, runs, agent, interrupted>>

\* platform.applyWireGuard
applyWireGuard ==
  /\ Step("apply", "wg")
  /\ interface' = runs
  /\ UNCHANGED <<disk, runs, hardware, agent, interrupted>>

\* Variant of writeFiles: agent.env names the node before its keys are there.
writeFilesEnvFirst ==
  /\ \/ Step("wg", "identity") /\ disk' = [disk EXCEPT !.node = runs]
     \/ Step("identity", "cert") /\ disk' = [disk EXCEPT !.wg = runs]
     \/ Step("cert", "env") /\ disk' = [disk EXCEPT !.identity = runs]
  /\ UNCHANGED <<interface, runs, hardware, agent, interrupted>>

\* The files are written one by one.
writeFiles ==
  /\ \/ Step("wg", "identity") /\ disk' = [disk EXCEPT !.wg = runs]
     \/ Step("identity", "cert") /\ disk' = [disk EXCEPT !.identity = runs]
     \/ Step("cert", "env") /\ disk' = [disk EXCEPT !.cert = runs]
  /\ UNCHANGED <<interface, runs, hardware, agent, interrupted>>

\* upsertEnvLine replaces the line of BAPC_NODE_ID, or adds it; the command is done.
upsertEnvLine ==
  /\ enrolment.step = "env"
  /\ disk' = [disk EXCEPT !.node = runs]
  /\ enrolment' = NoEnrolment
  /\ UNCHANGED <<interface, runs, hardware, agent, interrupted>>

\* The command fails or is killed, or the host goes down; a registration may have been
\* stored though its answer was lost, and the interface set up though a later command failed.
EnrollInterrupted ==
  /\ enrolment # NoEnrolment
  /\ enrolment' = NoEnrolment
  /\ IF enrolment.step = "register"
     THEN hardware' \in {hardware, hardware \cup {enrolment.hardware}} /\ UNCHANGED interrupted
     ELSE interrupted' = TRUE /\ UNCHANGED hardware
  /\ interface' \in (IF enrolment.step = "apply" THEN {interface, runs} ELSE {interface})
  /\ UNCHANGED <<disk, runs, agent>>

\* The agent starts if agent.env names a node; it has a signer if the key file exists.
\* The other settings, which an operator adds to agent.env, are there.
StartAgent ==
  /\ ~agent.running
  /\ disk.node # 0
  /\ agent' = [running |-> TRUE, node |-> disk.node, signs |-> disk.identity # 0, rotation |-> "none"]
  /\ UNCHANGED <<disk, interface, enrolment, runs, hardware, interrupted>>

StopAgent ==
  /\ agent.running
  /\ agent' = NoAgent
  /\ UNCHANGED <<disk, interface, enrolment, runs, hardware, interrupted>>

\* FileIdentitySigner.sign reads the key file each time.
sign == disk.identity

\* The public key of a node is that of the request with which its run registered it.
verifyRotationSignature(node, key) == key = node

\* ROTATE_IDENTITY_REQUIRED: without a signer, or when the signature does not verify,
\* the command fails.
RotateIdentity ==
  /\ agent.running
  /\ agent' = [agent EXCEPT !.rotation =
                 IF agent.signs /\ verifyRotationSignature(agent.node, sign) THEN "done" ELSE "failed"]
  /\ UNCHANGED <<disk, interface, enrolment, runs, hardware, interrupted>>

HostNext ==
  \/ enroll \/ registerNode \/ applyWireGuard \/ writeFiles \/ upsertEnvLine \/ EnrollInterrupted
  \/ StartAgent \/ StopAgent \/ RotateIdentity

HostSpec == HostInit /\ [][HostNext]_hostVars
-----------------------------------------------------------------------------
\* The variables have their types.
HostTypeOK ==
  /\ \A f \in {"wg", "identity", "cert", "node"} : disk[f] \in 0..runs
  /\ interface \in 0..runs
  /\ enrolment.step \in {"none", "register", "apply", "wg", "identity", "cert", "env"}
  /\ hardware \subseteq 0..runs
  /\ agent.node \in 0..runs /\ agent.rotation \in {"none", "done", "failed"}

\* agent.env never names a node whose keys are not on the disk, wherever enroll is
\* interrupted and however often it is run again: the files of the node's run, or of a
\* later one, were written before.  So the agent can always sign, and its rotation fails
\* only when a later enrolment has replaced its identity key under it.  If no run was
\* interrupted after it had registered, the files and the interface are of one run.
NodeHasItsKeys ==
  /\ disk.node # 0 => \A f \in {"wg", "identity", "cert"} : disk[f] >= disk.node
  /\ agent.running => agent.signs
  /\ agent.rotation = "failed" => disk.identity > agent.node
  /\ enrolment = NoEnrolment /\ ~interrupted =>
       \A f \in {"wg", "identity", "cert", "node"} : disk[f] = interface
=============================================================================
