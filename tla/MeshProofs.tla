---------------------------- MODULE MeshProofs ------------------------------
(***************************************************************************)
(* Proofs about joining the mesh and changing keys, for any number of      *)
(* hosts and of calls side by side.                                        *)
(*                                                                         *)
(* A row may be in the tables or in the transaction of any call, and a     *)
(* commit moves it: Rows speaks of all these places together, and needs no *)
(* exception for statements that run in the transaction of another call.   *)
(* Atomic says what a transaction holds when none does.  Recorded is about *)
(* the ledger, Attended about who waits for whom, Informed about who was   *)
(* told of whom or is about to be, and Paired about the two halves of a    *)
(* key while a call is between them.                                       *)
(*                                                                         *)
(* Each is kept by the kinds of steps there are (StepKinds): a call throws *)
(* or is answered, goes on, or begins; and the few steps of nobody's call. *)
(***************************************************************************)
EXTENDS MeshMembership, WellFoundedInduction, TLAPS

RowFields == {"in", "device", "lease", "key", "region"}
ClientFields == {"open", "aborted", "devices", "nodes"}
CallFields == {"step", "who", "key", "saved", "row", "peers", "todo", "attempts", "epoch"}
HostFields == {"up", "key", "waits"}

\* The steps of a call, by what they tell of it.
Filling == {"lease", "checks", "begin", "device", "node"}
InTransaction == {"device", "node", "restore", "commit"}
Leased == {"checks", "begin", "device", "node", "restore", "commit"}
Certified == {"list", "configure", "reply"}
Holding == {"epoch", "insert", "saveKey"}
Rotating == {"read", "epoch", "insert", "saveKey", "replan", "answer"}
Steps == {"none", "lease", "certificate"} \cup Leased \cup Certified \cup Rotating

RowShape(row) == DOMAIN row = RowFields /\ row.lease \in 0..PoolSize

CallShape(k) ==
  /\ DOMAIN k = CallFields
  /\ k.step \in Steps /\ k.who \in Hosts /\ k.saved \in Calls \cup {0}
  /\ RowShape(k.row) /\ k.peers \subseteq Hosts /\ k.todo \subseteq Hosts
  /\ k.attempts \in 0..(MaxAttempts - 1)
  /\ k.step \in Leased => k.row.in /\ k.row.device = k.key /\ k.row.key = k.key
  /\ k.step \in Holding => k.row.in
  /\ k.step = "configure" => k.todo # {}

ClientShape(t) ==
  /\ DOMAIN t = ClientFields
  /\ DOMAIN t.nodes = Hosts /\ \A h \in Hosts : RowShape(t.nodes[h])

TableShapes ==
  /\ devices \subseteq Hosts \X (1..keys) /\ certificates \subseteq Hosts
  /\ keys \in Nat \ {0}
  /\ DOMAIN nodes = Hosts /\ \A h \in Hosts : RowShape(nodes[h])
  /\ DOMAIN operator = {"of", "row"} /\ operator.of \in Hosts /\ RowShape(operator.row)
  /\ DOMAIN told = Hosts

\* Exactly the calls inside transaction() have a transaction.
ClientShapes ==
  /\ tx \in Calls \cup {0}
  /\ DOMAIN client = Calls /\ \A c \in Calls : ClientShape(client[c])
  /\ \A c \in Calls : client[c].devices \subseteq Hosts \X (1..keys)
  /\ \A c \in Calls : client[c].open <=> call[c].step \in InTransaction
  /\ \A c \in Calls : ~client[c].open => client[c] = NoClient

CallShapes == DOMAIN call = Calls /\ \A c \in Calls : CallShape(call[c])

\* Each call has a key of its own.
OwnKeys ==
  /\ \A c \in Calls : ~At(c, "none") => call[c].key \in 1..keys
  /\ \A c, d \in Calls : ~At(c, "none") /\ ~At(d, "none") /\ call[c].key = call[d].key => c = d

HostShapes ==
  /\ DOMAIN host = Hosts
  /\ \A h \in Hosts : /\ DOMAIN host[h] = HostFields
                      /\ host[h].waits \in Calls \cup {0}
                      /\ host[h].waits # 0 => call[host[h].waits].who = h /\ ~At(host[h].waits, "none")

Shapes == TableShapes /\ ClientShapes /\ CallShapes /\ OwnKeys /\ HostShapes

-----------------------------------------------------------------------------
(* What the steps do, by kind: a call that ends, a call that moves on.     *)

OthersStay(c) == DOMAIN call' = Calls /\ \A d \in Calls \ {c} : call'[d] = call[d]

\* The host no longer waits for this call.
Freed(c) ==
  /\ DOMAIN host' = Hosts
  /\ \A h \in Hosts : /\ DOMAIN host'[h] = HostFields
                      /\ host'[h].waits = IF host[h].waits = c THEN 0 ELSE host[h].waits

\* The transaction of the call is gone, the others hold what they held.
Dropped(c) ==
  /\ DOMAIN client' = Calls /\ client'[c] = NoClient
  /\ \A d \in Calls \ {c} : /\ DOMAIN client'[d] = ClientFields
                            /\ client'[d].open = client[d].open
                            /\ client'[d].devices = client[d].devices
                            /\ client'[d].nodes = client[d].nodes
                            /\ ~client[d].open => client'[d] = client[d]

Ends(c) ==
  /\ ~At(c, "none") /\ OthersStay(c) /\ call'[c] = NoCall
  /\ Freed(c) /\ Dropped(c) /\ tx' \in {tx, call[c].saved}
  /\ UNCHANGED <<devices, nodes, ledger, operator, keys, overwritten>>

Early == {"lease", "read", "epoch", "insert"} \cup Leased

\* The call throws.
Fails(c) ==
  /\ Ends(c)
  /\ \A h \in Hosts : host'[h].up = host[h].up /\ host'[h].key = host[h].key
  /\ UNCHANGED <<told, acks, certificates>>
  /\ (foreign => foreign') /\ (lost => lost')
  /\ lost' \/ call[c].step \in Early

\* The call goes on.
Moves(c, from, to) ==
  /\ OthersStay(c) /\ At(c, from)
  /\ DOMAIN call'[c] = CallFields /\ call'[c].step = to
  /\ call'[c].who = call[c].who /\ call'[c].key = call[c].key
  /\ UNCHANGED <<host, operator, keys, lost>>

Keeps(c, fields) == \A f \in fields : call'[c][f] = call[c][f]

Quiet == UNCHANGED <<devices, nodes, certificates, ledger, told, acks, overwritten>>

LeaseTaken(c) ==
  /\ Moves(c, "lease", "checks") /\ Strays(c) /\ Quiet /\ UNCHANGED session
  /\ call'[c].row = [NoRow EXCEPT !.in = TRUE, !.device = call[c].key, !.lease = next, !.key = call[c].key]
  /\ next \in 1..PoolSize
  /\ Keeps(c, {"saved", "peers", "todo", "attempts", "epoch"})

Checked(c) ==
  /\ Moves(c, "checks", "begin") /\ Strays(c) /\ Quiet /\ UNCHANGED session
  /\ Keeps(c, {"saved", "row", "peers", "todo", "attempts", "epoch"})

Begun(c) ==
  /\ Moves(c, "begin", "device") /\ Quiet /\ UNCHANGED foreign
  /\ tx' = c /\ client' = [client EXCEPT ![c].open = TRUE]
  /\ call'[c].saved = tx
  /\ Keeps(c, {"row", "peers", "todo", "attempts", "epoch"})

DeviceSaved(c) ==
  /\ Moves(c, "device", "node") /\ Strays(c) /\ UNCHANGED <<nodes, certificates, ledger, tx, told, acks, overwritten>>
  /\ ~HardwareHeld(c) /\ call[c].who \notin Hardware(SeenDevices)
  /\ IF q THEN client' = [client EXCEPT ![tx].devices = @ \cup {Device(c)}] /\ UNCHANGED devices
          ELSE devices' = devices \cup {Device(c)} /\ UNCHANGED client
  /\ Keeps(c, {"saved", "row", "peers", "todo", "attempts", "epoch"})

NodeSaved(c) ==
  /\ Moves(c, "node", "restore") /\ Strays(c) /\ UNCHANGED <<devices, certificates, ledger, tx, told, acks, overwritten>>
  /\ ~LeaseHeld(c) /\ ~Conflict(c)
  /\ IF q THEN client' = [client EXCEPT ![tx].nodes[call[c].who] = call[c].row] /\ UNCHANGED nodes
          ELSE nodes' = [nodes EXCEPT ![call[c].who] = call[c].row] /\ UNCHANGED client
  /\ Keeps(c, {"saved", "row", "peers", "todo", "attempts", "epoch"})

Restored(c) ==
  /\ Moves(c, "restore", "commit") /\ Quiet /\ UNCHANGED <<client, foreign>>
  /\ tx' = call[c].saved
  /\ Keeps(c, {"saved", "row", "peers", "todo", "attempts", "epoch"})

Committed(c) ==
  /\ Moves(c, "commit", "certificate") /\ UNCHANGED <<certificates, ledger, tx, told, acks, foreign, overwritten>>
  /\ client' = [client EXCEPT ![c] = NoClient]
  /\ IF client[c].aborted THEN UNCHANGED <<devices, nodes>>
     ELSE /\ devices' = devices \cup client[c].devices
          /\ nodes' = [h \in Hosts |-> IF client[c].nodes[h].in THEN client[c].nodes[h] ELSE nodes[h]]
  /\ Keeps(c, {"saved", "row", "peers", "todo", "attempts", "epoch"})

CertificateIssued(c) ==
  /\ Moves(c, "certificate", "list") /\ UNCHANGED <<devices, nodes, ledger, session, told, acks, foreign, overwritten>>
  /\ certificates' = certificates \cup {call[c].who}
  /\ nodes[call[c].who].in
  /\ Keeps(c, {"saved", "row", "peers", "todo", "attempts", "epoch"})

PeersListed(c) ==
  /\ \/ Moves(c, "list", "configure") /\ Enrolled \ {call[c].who} # {}
     \/ Moves(c, "list", "reply") /\ Enrolled \ {call[c].who} = {}
  /\ Strays(c) /\ Quiet /\ UNCHANGED session
  /\ call'[c].peers = Enrolled \ {call[c].who} /\ call'[c].todo = Enrolled \ {call[c].who}
  /\ Keeps(c, {"saved", "row", "attempts", "epoch"})

Configured(c) ==
  \E peer \in call[c].todo :
    /\ \/ Moves(c, "configure", "configure") /\ call[c].todo # {peer}
       \/ Moves(c, "configure", "reply") /\ call[c].todo = {peer}
    /\ told' = [told EXCEPT ![peer] = @ \cup ((call[c].peers \cup {call[c].who}) \ {peer})]
    /\ UNCHANGED <<devices, nodes, certificates, ledger, session, acks, foreign, overwritten>>
    /\ call'[c].todo = call[c].todo \ {peer}
    /\ Keeps(c, {"saved", "row", "peers", "attempts", "epoch"})

NodeRead(c) ==
  /\ Moves(c, "read", "epoch") /\ Strays(c) /\ Quiet /\ UNCHANGED session
  /\ call[c].who \in Enrolled /\ call'[c].row = SeenNodes[call[c].who]
  /\ Keeps(c, {"saved", "peers", "todo", "attempts", "epoch"})

EpochRead(c) ==
  /\ Moves(c, "epoch", "insert") /\ Quiet /\ UNCHANGED <<session, foreign>>
  /\ Keeps(c, {"saved", "row", "peers", "todo", "attempts"})

EpochInserted(c) ==
  /\ Moves(c, "insert", "saveKey") /\ UNCHANGED <<devices, nodes, certificates, session, told, acks, foreign, overwritten>>
  /\ ~Taken(c) /\ ledger' = ledger \cup {<<call[c].who, call[c].epoch, call[c].key>>}
  /\ Keeps(c, {"saved", "row", "peers", "todo", "attempts", "epoch"})

EpochLost(c) ==
  /\ Moves(c, "insert", "epoch") /\ Quiet /\ UNCHANGED <<session, foreign>>
  /\ call[c].attempts + 1 # MaxAttempts /\ call'[c].attempts = call[c].attempts + 1
  /\ Keeps(c, {"saved", "row", "peers", "todo", "epoch"})

KeySaved(c) ==
  LET h == call[c].who
      row == [call[c].row EXCEPT !.key = call[c].key]
  IN  /\ Moves(c, "saveKey", "replan") /\ Strays(c) /\ UNCHANGED <<devices, certificates, ledger, tx, told, acks>>
      /\ IF q THEN client' = [client EXCEPT ![tx].nodes[h] = row] /\ UNCHANGED nodes
              ELSE nodes' = [nodes EXCEPT ![h] = row] /\ UNCHANGED client
      /\ overwritten' = (overwritten \/ SeenNodes[h] # call[c].row)
      /\ Keeps(c, {"saved", "row", "peers", "todo", "attempts", "epoch"})

Replanned(c) ==
  /\ Moves(c, "replan", "answer") /\ Strays(c)
  /\ UNCHANGED <<devices, nodes, certificates, ledger, session, acks, overwritten>>
  /\ told' = [told EXCEPT ![call[c].who] = @ \cup (Enrolled \ {call[c].who})]
  /\ Keeps(c, {"saved", "row", "peers", "todo", "attempts", "epoch"})

Continues(c) ==
  /\ OthersStay(c) /\ ~At(c, "none") /\ call'[c].step # "none"
  /\ call'[c].who = call[c].who /\ call'[c].key = call[c].key
  /\ UNCHANGED <<host, operator, keys, lost>> /\ (foreign => foreign') /\ (overwritten => overwritten')

Goes(c) ==
  \/ LeaseTaken(c) \/ Checked(c) \/ Begun(c) \/ DeviceSaved(c) \/ NodeSaved(c) \/ Restored(c)
  \/ Committed(c) \/ CertificateIssued(c) \/ PeersListed(c) \/ Configured(c)
  \/ NodeRead(c) \/ EpochRead(c) \/ EpochInserted(c) \/ EpochLost(c) \/ KeySaved(c) \/ Replanned(c)

\* A host calls.
Opens(h, c, step) ==
  /\ At(c, "none") /\ host[h].waits = 0 /\ (host[h].up <=> step = "read") /\ step \in {"lease", "read"}
  /\ OthersStay(c) /\ keys' = keys + 1
  /\ call'[c] = [NoCall EXCEPT !.step = step, !.who = h, !.key = keys + 1]
  /\ host' = [host EXCEPT ![h].waits = c]
  /\ Quiet /\ UNCHANGED <<session, operator, foreign, lost>>

\* Nothing happens but to the pending commands.
Idle == Quiet /\ UNCHANGED <<session, call, host, operator, keys, foreign, lost>>

-----------------------------------------------------------------------------
(* A least element of a set of numbers is in it.                           *)

\* Min returns an element of the set: next and Configure rely on it.
LEMMA MinIsIn ==
  ASSUME NEW S \in SUBSET Nat, S # {}
  PROVE  Min(S) \in S
<1>1. PICK least \in S : \A d \in S : ~ <<d, least>> \in OpToRel(<, Nat)
  BY NatLessThanWellFounded, WFMin, Zenon
<1>2. \A d \in S : d < least => <<d, least>> \in OpToRel(<, Nat)
  BY Zenon DEF OpToRel
<1>3. \A d \in S : ~(d < least)
  BY <1>1, <1>2, Zenon
<1>4. \A d \in S : least =< d
  BY <1>3
<1> QED
  BY <1>4, Zenon DEF Min

\* The host that is enrolled from the start is one of the hosts.
LEMMA FirstIsHost == First \in Hosts
  BY MeshAssumption, MinIsIn, Zenon DEF First

-----------------------------------------------------------------------------
(* The kinds of steps.                                                     *)

\* Throw ends the call, and frees its host.
LEMMA ThrowEnds ==
  ASSUME Shapes, NEW c \in Calls, Throw(c), ~At(c, "none")
  PROVE  /\ OthersStay(c) /\ call'[c] = NoCall /\ Freed(c)
         /\ \A h \in Hosts : host'[h].up = host[h].up /\ host'[h].key = host[h].key
<1>0. c # 0
  BY MeshAssumption, Zenon
<1>1. OthersStay(c) /\ call'[c] = NoCall
  BY Zenon DEF Throw, OthersStay, Shapes, CallShapes
<1>2. CASE Waiting(c)
  <2> DEFINE h == call[c].who
  <2>1. h \in Hosts /\ host[h].waits = c /\ host' = [host EXCEPT ![h].waits = 0]
    BY <1>2, Zenon DEF Waiting, Throw
  <2>2. \A g \in Hosts : host[g].waits = c => g = h
    BY <1>0, Zenon DEF Shapes, HostShapes
  <2> HIDE DEF h
  <2> QED
    BY <1>1, <2>1, <2>2 DEF Freed, Shapes, HostShapes, HostFields
<1>3. CASE ~Waiting(c)
  <2>1. host' = host
    BY <1>3, Zenon DEF Throw
  <2>2. \A g \in Hosts : host[g].waits # c
    BY <1>0, <1>3, ZenonT(40) DEF Shapes, HostShapes, Waiting
  <2> QED
    BY <1>1, <2>1, <2>2, Zenon DEF Freed, Shapes, HostShapes
<1> QED
  BY <1>2, <1>3, Zenon

\* A call that throws outside transaction() has no transaction to lose.
LEMMA ThrowFails ==
  ASSUME Shapes, NEW c \in Calls, Throw(c), ~At(c, "none"), call[c].step \notin InTransaction,
         UNCHANGED <<devices, nodes, ledger, session, operator, keys, overwritten, told, acks, certificates>>,
         foreign => foreign', lost => lost', lost' \/ call[c].step \in Early
  PROVE  Fails(c)
<1>1. client[c] = NoClient
  BY Zenon DEF Shapes, ClientShapes
<1>2. Dropped(c) /\ tx' = tx
  BY <1>1, Zenon DEF session, Dropped, Shapes, ClientShapes, ClientShape
<1> QED
  BY <1>2, ThrowEnds, Zenon DEF Fails, Ends

\* Rollback ends the transaction of the call and leaves the rows of the others alone.
LEMMA RollbackFails ==
  ASSUME Shapes, NEW c \in Calls, Rollback(c), call[c].step \in InTransaction,
         UNCHANGED <<operator, keys, overwritten, told, acks>>,
         foreign => foreign', lost => lost'
  PROVE  Fails(c)
<1>1. Throw(c) /\ UNCHANGED <<devices, nodes, certificates, ledger>> /\ tx' \in {tx, call[c].saved}
  BY Zenon DEF Rollback
<1>2. ~At(c, "none") /\ call[c].step \in Early
  BY Zenon DEF At, InTransaction, Early, Leased
<1>3. Dropped(c)
  <2>1. DOMAIN client' = Calls /\ client'[c] = NoClient
    BY Zenon DEF Rollback
  <2>2. ASSUME NEW d \in Calls \ {c}
        PROVE  /\ DOMAIN client'[d] = ClientFields
               /\ client'[d].open = client[d].open
               /\ client'[d].devices = client[d].devices
               /\ client'[d].nodes = client[d].nodes
               /\ ~client[d].open => client'[d] = client[d]
    <3>1. \/ client'[d] = client[d]
          \/ client'[d] = [client[d] EXCEPT !.aborted = TRUE] /\ client[d].open
      BY Zenon DEF Rollback, q
    <3>2. DOMAIN client[d] = ClientFields
      BY Zenon DEF Shapes, ClientShapes, ClientShape
    <3> QED
      BY <3>1, <3>2, Zenon DEF ClientFields
  <2> QED
    BY <2>1, <2>2, Zenon DEF Dropped
<1> QED
  BY <1>1, <1>2, <1>3, ThrowEnds, Zenon DEF Fails, Ends

\* Lease: the call throws, or goes on.
LEMMA LeaseKind ==
  ASSUME Shapes, NEW c \in Calls, Lease(c)
  PROVE  Fails(c) \/ LeaseTaken(c)
<1>1. At(c, "lease") /\ DOMAIN call = Calls /\ DOMAIN call[c] = CallFields
  BY Zenon DEF Lease, Shapes, CallShapes, CallShape
<1>2. CASE Refused \/ next = 0
  <2>1. /\ Throw(c) /\ UNCHANGED lost /\ (foreign => foreign')
        /\ UNCHANGED <<devices, nodes, ledger, session, operator, keys, overwritten, told, acks, certificates>>
    BY <1>2, Zenon DEF Lease, Strays, session
  <2>2. ~At(c, "none") /\ call[c].step \notin InTransaction /\ call[c].step \in Early
    BY <1>1, Zenon DEF At, InTransaction, Early, Leased
  <2> QED
    BY <2>1, <2>2, ThrowFails, Zenon
<1>3. CASE ~(Refused \/ next = 0)
  <2> DEFINE row == [NoRow EXCEPT !.in = TRUE, !.device = call[c].key, !.lease = next, !.key = call[c].key]
  <2>1. next \in 1..PoolSize
    <3> DEFINE free == 1..PoolSize \ {SeenNodes[h].lease : h \in Enrolled}
    <3>1. free # {} /\ next = Min(free)
      BY <1>3, Zenon DEF next
    <3>2. free \in SUBSET Nat
      BY MeshAssumption
    <3>3. Min(free) \in free
      BY <3>1, <3>2, MinIsIn, Zenon
    <3> QED
      BY <3>1, <3>3, Zenon
  <2>2. /\ call' = [call EXCEPT ![c].step = "checks", ![c].row = row] /\ Strays(c)
        /\ UNCHANGED <<devices, nodes, certificates, ledger, session, host, operator, keys, told, acks, lost, overwritten>>
    BY <1>3, Zenon DEF Lease
  <2> HIDE DEF row, next
  <2>3. Moves(c, "lease", "checks") /\ call'[c].row = row /\ Keeps(c, {"saved", "peers", "todo", "attempts", "epoch"})
    BY <1>1, <2>2, Zenon DEF Moves, OthersStay, Keeps, At, CallFields
  <2> QED
    BY <2>1, <2>2, <2>3, Zenon DEF LeaseTaken, Quiet, row
<1> QED
  BY <1>2, <1>3, Zenon

\* Checks: the call throws, or goes on.
LEMMA ChecksKind ==
  ASSUME Shapes, NEW c \in Calls, Checks(c)
  PROVE  Fails(c) \/ Checked(c)
<1>1. At(c, "checks") /\ DOMAIN call = Calls /\ DOMAIN call[c] = CallFields
  BY Zenon DEF Checks, Shapes, CallShapes, CallShape
<1>2. CASE Refused \/ call[c].who \in Hardware(SeenDevices)
  <2>1. /\ Throw(c) /\ UNCHANGED lost /\ (foreign => foreign')
        /\ UNCHANGED <<devices, nodes, ledger, session, operator, keys, overwritten, told, acks, certificates>>
    BY <1>2, Zenon DEF Checks, Strays, session
  <2>2. ~At(c, "none") /\ call[c].step \notin InTransaction /\ call[c].step \in Early
    BY <1>1, Zenon DEF At, InTransaction, Early, Leased
  <2> QED
    BY <2>1, <2>2, ThrowFails, Zenon
<1>3. CASE ~(Refused \/ call[c].who \in Hardware(SeenDevices))
  BY <1>1, <1>3 DEF Checks, Checked, Goto, Moves, OthersStay, Quiet, Keeps, session, At, CallFields, reconcile, planFor
<1> QED
  BY <1>2, <1>3, Zenon

\* SaveDevice: the call throws, or goes on.
LEMMA SaveDeviceKind ==
  ASSUME Shapes, NEW c \in Calls, SaveDevice(c)
  PROVE  Fails(c) \/ DeviceSaved(c)
<1>1. At(c, "device") /\ DOMAIN call = Calls /\ DOMAIN call[c] = CallFields
  BY Zenon DEF SaveDevice, Shapes, CallShapes, CallShape
<1>2. CASE Refused \/ call[c].who \in Hardware(SeenDevices)
  <2>1. /\ Rollback(c) /\ UNCHANGED lost /\ (foreign => foreign')
        /\ UNCHANGED <<operator, keys, overwritten, told, acks>>
    BY <1>2, Zenon DEF SaveDevice, Strays
  <2>2. call[c].step \in InTransaction
    BY <1>1, Zenon DEF At, InTransaction
  <2> QED
    BY <2>1, <2>2, RollbackFails, Zenon
<1>3. CASE ~(Refused \/ call[c].who \in Hardware(SeenDevices))
  BY <1>1, <1>3 DEF SaveDevice, DeviceSaved, Goto, Moves, OthersStay, Quiet, Keeps, session, At, CallFields, reconcile, planFor
<1> QED
  BY <1>2, <1>3, Zenon

\* SaveNode: the call throws, or goes on.
LEMMA SaveNodeKind ==
  ASSUME Shapes, NEW c \in Calls, SaveNode(c)
  PROVE  Fails(c) \/ NodeSaved(c)
<1>1. At(c, "node") /\ DOMAIN call = Calls /\ DOMAIN call[c] = CallFields
  BY Zenon DEF SaveNode, Shapes, CallShapes, CallShape
<1>2. CASE Refused \/ Conflict(c)
  <2>1. /\ Rollback(c) /\ UNCHANGED lost /\ (foreign => foreign')
        /\ UNCHANGED <<operator, keys, overwritten, told, acks>>
    BY <1>2, Zenon DEF SaveNode, Strays
  <2>2. call[c].step \in InTransaction
    BY <1>1, Zenon DEF At, InTransaction
  <2> QED
    BY <2>1, <2>2, RollbackFails, Zenon
<1>3. CASE ~(Refused \/ Conflict(c))
  BY <1>1, <1>3 DEF SaveNode, NodeSaved, Goto, Moves, OthersStay, Quiet, Keeps, session, At, CallFields, reconcile, planFor
<1> QED
  BY <1>2, <1>3, Zenon

\* ReadNode: the call throws, or goes on.
LEMMA ReadNodeKind ==
  ASSUME Shapes, NEW c \in Calls, ReadNode(c)
  PROVE  Fails(c) \/ NodeRead(c)
<1>1. At(c, "read") /\ DOMAIN call = Calls /\ DOMAIN call[c] = CallFields
  BY Zenon DEF ReadNode, Shapes, CallShapes, CallShape
<1>2. CASE Refused \/ call[c].who \notin Enrolled
  <2>1. /\ Throw(c) /\ UNCHANGED lost /\ (foreign => foreign')
        /\ UNCHANGED <<devices, nodes, ledger, session, operator, keys, overwritten, told, acks, certificates>>
    BY <1>2, Zenon DEF ReadNode, Strays, session
  <2>2. ~At(c, "none") /\ call[c].step \notin InTransaction /\ call[c].step \in Early
    BY <1>1, Zenon DEF At, InTransaction, Early, Leased
  <2> QED
    BY <2>1, <2>2, ThrowFails, Zenon
<1>3. CASE ~(Refused \/ call[c].who \notin Enrolled)
  BY <1>1, <1>3 DEF ReadNode, NodeRead, Goto, Moves, OthersStay, Quiet, Keeps, session, At, CallFields, reconcile, planFor
<1> QED
  BY <1>2, <1>3, Zenon

\* IssueCertificate: the call throws, or goes on.
LEMMA IssueCertificateKind ==
  ASSUME Shapes, NEW c \in Calls, IssueCertificate(c)
  PROVE  Fails(c) \/ CertificateIssued(c)
<1>1. At(c, "certificate") /\ DOMAIN call = Calls /\ DOMAIN call[c] = CallFields
  BY Zenon DEF IssueCertificate, Shapes, CallShapes, CallShape
<1>2. CASE ~nodes[call[c].who].in \/ nodes[call[c].who].device # call[c].key
  <2>1. /\ Throw(c) /\ lost' /\ (foreign => foreign')
        /\ UNCHANGED <<devices, nodes, ledger, session, operator, keys, overwritten, told, acks, certificates>>
    BY <1>2, Zenon DEF IssueCertificate, Strays, session
  <2>2. ~At(c, "none") /\ call[c].step \notin InTransaction
    BY <1>1, Zenon DEF At, InTransaction
  <2> QED
    BY <2>1, <2>2, ThrowFails, Zenon
<1>3. CASE ~(~nodes[call[c].who].in \/ nodes[call[c].who].device # call[c].key)
  BY <1>1, <1>3 DEF IssueCertificate, CertificateIssued, Goto, Moves, OthersStay, Quiet, Keeps, session, At, CallFields, reconcile, planFor
<1> QED
  BY <1>2, <1>3, Zenon

\* ListPeers: the call throws, or goes on.
LEMMA ListPeersKind ==
  ASSUME Shapes, NEW c \in Calls, ListPeers(c)
  PROVE  Fails(c) \/ PeersListed(c)
<1>1. At(c, "list") /\ DOMAIN call = Calls /\ DOMAIN call[c] = CallFields
  BY Zenon DEF ListPeers, Shapes, CallShapes, CallShape
<1>2. CASE Refused
  <2>1. /\ Throw(c) /\ lost' /\ (foreign => foreign')
        /\ UNCHANGED <<devices, nodes, ledger, session, operator, keys, overwritten, told, acks, certificates>>
    BY <1>2, Zenon DEF ListPeers, Strays, session
  <2>2. ~At(c, "none") /\ call[c].step \notin InTransaction
    BY <1>1, Zenon DEF At, InTransaction
  <2> QED
    BY <2>1, <2>2, ThrowFails, Zenon
<1>3. CASE ~(Refused)
  <2> DEFINE peers == Enrolled \ {call[c].who}
             step == IF peers = {} THEN "reply" ELSE "configure"
  <2>1. /\ call' = [call EXCEPT ![c].step = step, ![c].peers = peers, ![c].todo = peers] /\ Strays(c)
        /\ UNCHANGED <<devices, nodes, certificates, ledger, session, host, operator, keys, told, acks, lost, overwritten>>
    BY <1>3, Zenon DEF ListPeers
  <2> HIDE DEF peers, step
  <2>2. /\ Moves(c, "list", step) /\ call'[c].peers = peers /\ call'[c].todo = peers
        /\ Keeps(c, {"saved", "row", "attempts", "epoch"})
    BY <1>1, <2>1, Zenon DEF Moves, OthersStay, Keeps, At, CallFields
  <2> QED
    BY <2>1, <2>2, Zenon DEF PeersListed, Quiet, peers, step
<1> QED
  BY <1>2, <1>3, Zenon

\* SaveKey: the call throws, or goes on.
LEMMA SaveKeyKind ==
  ASSUME Shapes, NEW c \in Calls, SaveKey(c)
  PROVE  Fails(c) \/ KeySaved(c)
<1>1. At(c, "saveKey") /\ DOMAIN call = Calls /\ DOMAIN call[c] = CallFields
  BY Zenon DEF SaveKey, Shapes, CallShapes, CallShape
<1>2. CASE Refused
  <2>1. /\ Throw(c) /\ lost' /\ (foreign => foreign')
        /\ UNCHANGED <<devices, nodes, ledger, session, operator, keys, overwritten, told, acks, certificates>>
    BY <1>2, Zenon DEF SaveKey, Strays, session
  <2>2. ~At(c, "none") /\ call[c].step \notin InTransaction
    BY <1>1, Zenon DEF At, InTransaction
  <2> QED
    BY <2>1, <2>2, ThrowFails, Zenon
<1>3. CASE ~(Refused)
  BY <1>1, <1>3 DEF SaveKey, KeySaved, Goto, Moves, OthersStay, Quiet, Keeps, session, At, CallFields, reconcile, planFor
<1> QED
  BY <1>2, <1>3, Zenon

\* Replan: the call throws, or goes on.
LEMMA ReplanKind ==
  ASSUME Shapes, NEW c \in Calls, Replan(c)
  PROVE  Fails(c) \/ Replanned(c)
<1>1. At(c, "replan") /\ DOMAIN call = Calls /\ DOMAIN call[c] = CallFields
  BY Zenon DEF Replan, Shapes, CallShapes, CallShape
<1>2. CASE Refused
  <2>1. /\ Throw(c) /\ lost' /\ (foreign => foreign')
        /\ UNCHANGED <<devices, nodes, ledger, session, operator, keys, overwritten, told, acks, certificates>>
    BY <1>2, Zenon DEF Replan, Strays, session
  <2>2. ~At(c, "none") /\ call[c].step \notin InTransaction
    BY <1>1, Zenon DEF At, InTransaction
  <2> QED
    BY <2>1, <2>2, ThrowFails, Zenon
<1>3. CASE ~(Refused)
  BY <1>1, <1>3 DEF Replan, Replanned, Goto, Moves, OthersStay, Quiet, Keeps, session, At, CallFields, reconcile, planFor
<1> QED
  BY <1>2, <1>3, Zenon

\* Begin: the call goes on.
LEMMA BeginKind ==
  ASSUME Shapes, NEW c \in Calls, Begin(c)
  PROVE  Begun(c)
<1>1. DOMAIN call = Calls /\ DOMAIN call[c] = CallFields
  BY Zenon DEF Shapes, CallShapes, CallShape
<1> QED
  BY <1>1, Zenon DEF Begin, Begun, Goto, Moves, OthersStay, Quiet, Keeps, session, At, CallFields, tables, history

\* Restore: the call goes on.
LEMMA RestoreKind ==
  ASSUME Shapes, NEW c \in Calls, Restore(c)
  PROVE  Restored(c)
<1>1. DOMAIN call = Calls /\ DOMAIN call[c] = CallFields
  BY Zenon DEF Shapes, CallShapes, CallShape
<1> QED
  BY <1>1, Zenon DEF Restore, Restored, Goto, Moves, OthersStay, Quiet, Keeps, session, At, CallFields, tables, history

\* Commit: the call goes on.
LEMMA CommitKind ==
  ASSUME Shapes, NEW c \in Calls, Commit(c)
  PROVE  Committed(c)
<1>1. DOMAIN call = Calls /\ DOMAIN call[c] = CallFields
  BY Zenon DEF Shapes, CallShapes, CallShape
<1> QED
  BY <1>1, Zenon DEF Commit, Committed, Goto, Moves, OthersStay, Quiet, Keeps, session, At, CallFields, tables, history

\* ReadEpoch: the call goes on.
LEMMA ReadEpochKind ==
  ASSUME Shapes, NEW c \in Calls, ReadEpoch(c)
  PROVE  EpochRead(c)
<1>1. DOMAIN call = Calls /\ DOMAIN call[c] = CallFields
  BY Zenon DEF Shapes, CallShapes, CallShape
<1> QED
  BY <1>1, Zenon DEF ReadEpoch, EpochRead, Goto, Moves, OthersStay, Quiet, Keeps, session, At, CallFields, tables, history

\* Configure: the call goes on with one peer less to tell.
LEMMA ConfigureKind ==
  ASSUME Shapes, NEW c \in Calls, Configure(c)
  PROVE  Configured(c)
<1>1. /\ DOMAIN call = Calls /\ DOMAIN call[c] = CallFields /\ At(c, "configure")
      /\ call[c].todo \subseteq Hosts /\ call[c].todo # {}
  BY Zenon DEF Shapes, CallShapes, CallShape, Configure, At
<1> DEFINE peer == Min(call[c].todo)
           step == IF call[c].todo = {peer} THEN "reply" ELSE call[c].step
<1>2. peer \in call[c].todo
  <2>1. call[c].todo \in SUBSET Nat
    BY <1>1, MeshAssumption, Zenon
  <2> QED
    BY <1>1, <2>1, MinIsIn, Zenon
<1>3. /\ call' = [call EXCEPT ![c].todo = @ \ {peer}, ![c].step = step]
      /\ told' = [told EXCEPT ![peer] = @ \cup ((call[c].peers \cup {call[c].who}) \ {peer})]
      /\ UNCHANGED <<tables, session, host, operator, keys, acks, foreign, lost, overwritten>>
  BY Zenon DEF Configure, reconcile, planFor
<1> HIDE DEF peer, step
<1>4. /\ Moves(c, "configure", step) /\ call'[c].todo = call[c].todo \ {peer}
      /\ Keeps(c, {"saved", "row", "peers", "attempts", "epoch"})
  BY <1>1, <1>3, Zenon DEF Moves, OthersStay, Keeps, At, CallFields
<1>5. step = IF call[c].todo = {peer} THEN "reply" ELSE "configure"
  BY <1>1, Zenon DEF step, At
<1> QED
  BY <1>2, <1>3, <1>4, <1>5, Zenon DEF Configured, tables

\* InsertEpoch: the call has the epoch, tries again or gives up.
LEMMA InsertEpochKind ==
  ASSUME Shapes, NEW c \in Calls, InsertEpoch(c)
  PROVE  Fails(c) \/ EpochInserted(c) \/ EpochLost(c)
<1>1. At(c, "insert") /\ DOMAIN call = Calls /\ DOMAIN call[c] = CallFields
  BY Zenon DEF InsertEpoch, Shapes, CallShapes, CallShape
<1>2. CASE Taken(c) /\ call[c].attempts + 1 = MaxAttempts
  <2>1. /\ Throw(c) /\ UNCHANGED history
        /\ UNCHANGED <<devices, nodes, ledger, session, operator, keys, certificates>>
    BY <1>2, Zenon DEF InsertEpoch
  <2>2. ~At(c, "none") /\ call[c].step \notin InTransaction /\ call[c].step \in Early
    BY <1>1, Zenon DEF At, InTransaction, Early, Leased
  <2> QED
    BY <2>1, <2>2, ThrowFails, Zenon DEF history
<1>3. CASE ~Taken(c)
  BY <1>1, <1>3 DEF InsertEpoch, EpochInserted, Goto, Moves, OthersStay, Quiet, Keeps, session, At, CallFields, history
<1>4. CASE Taken(c) /\ call[c].attempts + 1 # MaxAttempts
  BY <1>1, <1>4 DEF InsertEpoch, EpochLost, Goto, Moves, OthersStay, Quiet, Keeps, session, At, CallFields, history
<1> QED
  BY <1>2, <1>3, <1>4, Zenon

\* Fail: the call throws, in its transaction or outside.
LEMMA FailKind ==
  ASSUME Shapes, NEW c \in Calls, Fail(c)
  PROVE  Fails(c)
<1>1. /\ ~At(c, "none") /\ (lost => lost') /\ UNCHANGED <<operator, keys, told, acks, foreign, overwritten>>
      /\ IF client[c].open THEN Rollback(c)
         ELSE Throw(c) /\ UNCHANGED <<session, devices, nodes, certificates, ledger>>
  BY Zenon DEF Fail
<1>2. client[c].open <=> call[c].step \in InTransaction
  BY Zenon DEF Shapes, ClientShapes
<1>3. CASE client[c].open
  BY <1>1, <1>2, <1>3, RollbackFails, Zenon
<1>4. CASE ~client[c].open
  <2>1. lost' \/ call[c].step \in Early
    <3>1. call[c].step \in Steps
      BY Zenon DEF Shapes, CallShapes, CallShape
    <3> QED
      BY <1>1, <3>1, Zenon DEF Fail, Steps, Early, Leased, Certified, Rotating, At
  <2> QED
    BY <1>1, <1>2, <1>4, <2>1, ThrowFails, Zenon
<1> QED
  BY <1>3, <1>4, Zenon

\* Reply and Answer end the call.
LEMMA ReplyEnds ==
  ASSUME Shapes, NEW c \in Calls, Reply(c) \/ Answer(c)
  PROVE  Ends(c)
<1>1. /\ (At(c, "reply") \/ At(c, "answer")) /\ call' = [call EXCEPT ![c] = NoCall]
      /\ UNCHANGED <<devices, nodes, ledger, session, operator, keys, overwritten>>
  BY Zenon DEF Reply, Answer, tables
<1>2. ~At(c, "none") /\ call[c].step \notin InTransaction
  BY <1>1, Zenon DEF At, InTransaction
<1>3. OthersStay(c) /\ call'[c] = NoCall
  BY <1>1, Zenon DEF OthersStay, Shapes, CallShapes
<1>4. Dropped(c) /\ tx' = tx
  <2>1. client[c] = NoClient
    BY <1>2, Zenon DEF Shapes, ClientShapes
  <2> QED
    BY <1>1, <2>1, Zenon DEF session, Dropped, Shapes, ClientShapes, ClientShape
<1>5. Freed(c)
  <2> DEFINE h == call[c].who
  <2>0. c # 0
    BY MeshAssumption, Zenon
  <2>1. CASE Waiting(c)
    <3>1. /\ h \in Hosts /\ host[h].waits = c
          /\ \/ host' = [host EXCEPT ![h].up = TRUE, ![h].key = call[c].key, ![h].waits = 0]
             \/ host' = [host EXCEPT ![h].key = call[c].key, ![h].waits = 0]
      BY <2>1, Zenon DEF Waiting, Reply, Answer
    <3>2. \A g \in Hosts : host[g].waits = c => g = h
      BY <2>0, Zenon DEF Shapes, HostShapes
    <3> HIDE DEF h
    <3> QED
      BY <3>1, <3>2 DEF Freed, Shapes, HostShapes, HostFields
  <2>2. CASE ~Waiting(c)
    <3>1. host' = host
      BY <2>2, Zenon DEF Reply, Answer
    <3>2. \A g \in Hosts : host[g].waits # c
      BY <2>0, <2>2, Zenon DEF Shapes, HostShapes, Waiting
    <3> QED
      BY <3>1, <3>2, Zenon DEF Freed, Shapes, HostShapes
  <2> QED
    BY <2>1, <2>2, Zenon
<1> QED
  BY <1>1, <1>2, <1>3, <1>4, <1>5, Zenon DEF Ends

\* A call that goes on keeps its host, its key and the flags of the history.
LEMMA GoesContinues ==
  ASSUME NEW c, Goes(c)
  PROVE  Continues(c)
<1>1. CASE LeaseTaken(c)
  BY <1>1, Zenon DEF LeaseTaken, Moves, Continues, Strays, At, Quiet
<1>2. CASE Checked(c)
  BY <1>2, Zenon DEF Checked, Moves, Continues, Strays, At, Quiet
<1>3. CASE Begun(c)
  BY <1>3, Zenon DEF Begun, Moves, Continues, Strays, At, Quiet
<1>4. CASE DeviceSaved(c)
  BY <1>4, Zenon DEF DeviceSaved, Moves, Continues, Strays, At, Quiet
<1>5. CASE NodeSaved(c)
  BY <1>5, Zenon DEF NodeSaved, Moves, Continues, Strays, At, Quiet
<1>6. CASE Restored(c)
  BY <1>6, Zenon DEF Restored, Moves, Continues, Strays, At, Quiet
<1>7. CASE Committed(c)
  BY <1>7, Zenon DEF Committed, Moves, Continues, Strays, At, Quiet
<1>8. CASE CertificateIssued(c)
  BY <1>8, Zenon DEF CertificateIssued, Moves, Continues, Strays, At, Quiet
<1>9. CASE PeersListed(c)
  BY <1>9, Zenon DEF PeersListed, Moves, Continues, Strays, At, Quiet
<1>10. CASE Configured(c)
  BY <1>10 DEF Configured, Moves, Continues, Strays, At, Quiet
<1>11. CASE NodeRead(c)
  BY <1>11, Zenon DEF NodeRead, Moves, Continues, Strays, At, Quiet
<1>12. CASE EpochRead(c)
  BY <1>12, Zenon DEF EpochRead, Moves, Continues, Strays, At, Quiet
<1>13. CASE EpochInserted(c)
  BY <1>13, Zenon DEF EpochInserted, Moves, Continues, Strays, At, Quiet
<1>14. CASE EpochLost(c)
  BY <1>14, Zenon DEF EpochLost, Moves, Continues, Strays, At, Quiet
<1>15. CASE KeySaved(c)
  BY <1>15, Zenon DEF KeySaved, Moves, Continues, Strays, At, Quiet
<1>16. CASE Replanned(c)
  BY <1>16, Zenon DEF Replanned, Moves, Continues, Strays, At, Quiet
<1> QED
  BY <1>1, <1>2, <1>3, <1>4, <1>5, <1>6, <1>7, <1>8, <1>9, <1>10, <1>11, <1>12, <1>13, <1>14, <1>15, <1>16, Zenon DEF Goes

\* Every step is of one of these kinds.
LEMMA StepKinds ==
  ASSUME Shapes, [Next]_vars
  PROVE  \/ Idle \/ PutRegionReads \/ PutRegionSaves \/ Crash
         \/ \E h \in Hosts : LoseAnswer(h)
         \/ \E c \in Calls : Fails(c) \/ Goes(c) \/ (Reply(c) /\ Ends(c)) \/ (Answer(c) /\ Ends(c))
         \/ \E c \in Calls, h \in Hosts : Opens(h, c, "lease") \/ Opens(h, c, "read")
<1>1. ASSUME NEW c \in Calls, Statement(c)
      PROVE  Fails(c) \/ Goes(c) \/ (Reply(c) /\ Ends(c)) \/ (Answer(c) /\ Ends(c))
  BY <1>1, LeaseKind, ChecksKind, BeginKind, SaveDeviceKind, SaveNodeKind, RestoreKind, CommitKind,
     IssueCertificateKind, ListPeersKind, ConfigureKind, ReplyEnds, ReadNodeKind, ReadEpochKind,
     InsertEpochKind, SaveKeyKind, ReplanKind, ZenonT(40) DEF Statement, Goes
<1>2. ASSUME NEW c \in Calls, NEW h \in Hosts, Enrol(h, c)
      PROVE  Opens(h, c, "lease")
  BY <1>2, Zenon DEF Enrol, Opens, OthersStay, Quiet, tables, history, Shapes, CallShapes
<1>3. ASSUME NEW c \in Calls, NEW h \in Hosts, Rotate(h, c)
      PROVE  Opens(h, c, "read")
  BY <1>3, Zenon DEF Rotate, Opens, OthersStay, Quiet, tables, history, Shapes, CallShapes
<1>4. ASSUME NEW h \in Hosts, Ask(h) \/ StreamHeartbeat(h)
      PROVE  Idle
  BY <1>4, Zenon DEF Ask, StreamHeartbeat, Idle, Quiet, history
<1>5. ASSUME SchedulerRun \/ ThreatRotation
      PROVE  Idle
  BY <1>4, <1>5, Zenon DEF SchedulerRun, ThreatRotation, nodesOverdueForRotation
<1>6. CASE UNCHANGED vars
  BY <1>6, Zenon DEF vars, tables, history, Idle, Quiet
<1> QED
  BY <1>1, <1>2, <1>3, <1>4, <1>5, <1>6, FailKind, Zenon DEF Next

-----------------------------------------------------------------------------
(* The shapes are kept.                                                    *)

\* What a call, a row and a transaction are before they are filled has their shape.
LEMMA EmptyShapes == RowShape(NoRow) /\ CallShape(NoCall) /\ ClientShape(NoClient)
<1>1. RowShape(NoRow)
  BY MeshAssumption DEF RowShape, NoRow, RowFields
<1>2. CallShape(NoCall)
  BY <1>1, MeshAssumption, FirstIsHost DEF CallShape, NoCall, CallFields, Steps, Leased, Holding
<1>3. ClientShape(NoClient)
  BY <1>1, Zenon DEF ClientShape, NoClient, ClientFields
<1> QED
  BY <1>1, <1>2, <1>3, Zenon

\* The rows a statement sees are rows.
LEMMA SeenShapes ==
  ASSUME Shapes, NEW h \in Hosts
  PROVE  RowShape(SeenNodes[h]) /\ (h \in Enrolled <=> SeenNodes[h].in)
<1>1. q => tx \in Calls
  BY Zenon DEF q, Shapes, ClientShapes
<1> QED
  BY <1>1, Zenon DEF SeenNodes, Enrolled, Shapes, TableShapes, ClientShapes, ClientShape

\* The fields of a call fit its step.
LEMMA CallStep ==
  ASSUME Shapes, [Next]_vars
  PROVE  CallShapes'
<1>1. CallShapes /\ \A c \in Calls : CallShape(call[c])
  BY Zenon DEF Shapes, CallShapes
<1>2. CASE Idle \/ PutRegionReads \/ PutRegionSaves \/ \E h \in Hosts : LoseAnswer(h)
  <2>1. call' = call
    BY <1>2, Zenon DEF Idle, PutRegionReads, PutRegionSaves, LoseAnswer
  <2> QED
    BY <1>1, <2>1, Zenon DEF CallShapes
<1>3. CASE Crash
  BY <1>3, EmptyShapes, Zenon DEF Crash, CallShapes
<1>4. ASSUME NEW c \in Calls, Ends(c)
      PROVE  CallShapes'
  BY <1>1, <1>4, EmptyShapes, Zenon DEF Ends, OthersStay, CallShapes
<1>5. ASSUME NEW c \in Calls, NEW h \in Hosts, NEW step \in {"lease", "read"}, Opens(h, c, step)
      PROVE  CallShapes'
  <2>1. CallShape(call'[c])
    BY <1>5, EmptyShapes DEF Opens, CallShape, NoCall, CallFields, Steps, Leased, Holding, Rotating
  <2> QED
    BY <1>1, <1>5, <2>1, Zenon DEF Opens, OthersStay, CallShapes
<1>6. ASSUME NEW c \in Calls, Goes(c)
      PROVE  CallShapes'
  <2>0. CallShape(call[c])
    BY <1>1, Zenon
  <2> DEFINE Fits == CallShape(call'[c])
  <2>1. ASSUME LeaseTaken(c) PROVE Fits
    BY <2>0, <2>1, MeshAssumption DEF LeaseTaken, Moves, Keeps, CallShape, NoRow, RowShape, RowFields, Steps, Leased, Holding, Certified, Rotating, At
  <2>2. ASSUME Checked(c) PROVE Fits
    BY <2>0, <2>2, Zenon DEF Checked, Moves, Keeps, CallShape, Steps, Leased, Holding, Certified, Rotating, At
  <2>3. ASSUME Begun(c) PROVE Fits
    <3>1. tx \in Calls \cup {0}
      BY Zenon DEF Shapes, ClientShapes
    <3> QED
      BY <2>0, <2>3, <3>1, Zenon DEF Begun, Moves, Keeps, CallShape, Steps, Leased, Holding, Certified, Rotating, At
  <2>4. ASSUME DeviceSaved(c) PROVE Fits
    BY <2>0, <2>4, Zenon DEF DeviceSaved, Moves, Keeps, CallShape, Steps, Leased, Holding, Certified, Rotating, At
  <2>5. ASSUME NodeSaved(c) PROVE Fits
    BY <2>0, <2>5, Zenon DEF NodeSaved, Moves, Keeps, CallShape, Steps, Leased, Holding, Certified, Rotating, At
  <2>6. ASSUME Restored(c) PROVE Fits
    BY <2>0, <2>6, Zenon DEF Restored, Moves, Keeps, CallShape, Steps, Leased, Holding, Certified, Rotating, At
  <2>7. ASSUME Committed(c) PROVE Fits
    BY <2>0, <2>7, Zenon DEF Committed, Moves, Keeps, CallShape, Steps, Leased, Holding, Certified, Rotating, At
  <2>8. ASSUME CertificateIssued(c) PROVE Fits
    BY <2>0, <2>8, Zenon DEF CertificateIssued, Moves, Keeps, CallShape, Steps, Leased, Holding, Certified, Rotating, At
  <2>9. ASSUME PeersListed(c) PROVE Fits
    BY <2>0, <2>9, Zenon DEF PeersListed, Moves, Keeps, CallShape, Enrolled, Steps, Leased, Holding, Certified, Rotating, At
  <2>10. ASSUME Configured(c) PROVE Fits
    BY <2>0, <2>10, Zenon DEF Configured, Moves, Keeps, CallShape, Steps, Leased, Holding, Certified, Rotating, At
  <2>11. ASSUME NodeRead(c) PROVE Fits
    <3>1. RowShape(call'[c].row) /\ call'[c].row.in
      BY <2>0, <2>11, SeenShapes, Zenon DEF NodeRead, CallShape
    <3> QED
      BY <2>0, <2>11, <3>1, Zenon DEF NodeRead, Moves, Keeps, CallShape, Steps, Leased, Holding, Certified, Rotating, At
  <2>12. ASSUME EpochRead(c) PROVE Fits
    BY <2>0, <2>12, Zenon DEF EpochRead, Moves, Keeps, CallShape, Steps, Leased, Holding, Certified, Rotating, At
  <2>13. ASSUME EpochInserted(c) PROVE Fits
    BY <2>0, <2>13, Zenon DEF EpochInserted, Moves, Keeps, CallShape, Steps, Leased, Holding, Certified, Rotating, At
  <2>14. ASSUME EpochLost(c) PROVE Fits
    BY <2>0, <2>14, MeshAssumption DEF EpochLost, Moves, Keeps, CallShape, Steps, Leased, Holding, Certified, Rotating, At
  <2>15. ASSUME KeySaved(c) PROVE Fits
    BY <2>0, <2>15, Zenon DEF KeySaved, Moves, Keeps, CallShape, Steps, Leased, Holding, Certified, Rotating, At
  <2>16. ASSUME Replanned(c) PROVE Fits
    BY <2>0, <2>16, Zenon DEF Replanned, Moves, Keeps, CallShape, Steps, Leased, Holding, Certified, Rotating, At
  <2>20. Fits
    BY <1>6, <2>1, <2>2, <2>3, <2>4, <2>5, <2>6, <2>7, <2>8, <2>9, <2>10, <2>11, <2>12, <2>13, <2>14, <2>15, <2>16, ZenonT(40) DEF Goes
  <2>21. OthersStay(c)
    BY <1>6, GoesContinues, Zenon DEF Continues
  <2> QED
    BY <1>1, <2>20, <2>21, Zenon DEF OthersStay, CallShapes
<1> QED
  BY StepKinds, <1>2, <1>3, <1>4, <1>5, <1>6, Zenon DEF Fails

\* Keys stay apart: a new call gets the next one.
LEMMA KeyStep ==
  ASSUME Shapes, [Next]_vars
  PROVE  OwnKeys'
<1>0. keys \in Nat /\ OwnKeys /\ NoCall.step = "none"
  BY Zenon DEF Shapes, TableShapes, NoCall
<1>1. CASE Idle \/ PutRegionReads \/ PutRegionSaves \/ \E h \in Hosts : LoseAnswer(h)
  <2>1. call' = call /\ keys' = keys
    BY <1>1, Zenon DEF Idle, PutRegionReads, PutRegionSaves, LoseAnswer
  <2> QED
    BY <1>0, <2>1, Zenon DEF OwnKeys, At
<1>2. CASE Crash
  BY <1>0, <1>2, Zenon DEF Crash, OwnKeys, At
<1>3. ASSUME NEW c \in Calls, Ends(c)
      PROVE  OwnKeys'
  BY <1>0, <1>3 DEF Ends, OthersStay, OwnKeys, At
<1>4. ASSUME NEW c \in Calls, NEW h \in Hosts, NEW step \in {"lease", "read"}, Opens(h, c, step)
      PROVE  OwnKeys'
  <2>1. keys' = keys + 1 /\ call'[c].key = keys + 1 /\ \A d \in Calls \ {c} : call'[d] = call[d]
    BY <1>4 DEF Opens, NoCall, OthersStay
  <2>2. \A d \in Calls \ {c} : ~At(d, "none")' => call'[d].key \in 1..keys
    BY <1>0, <2>1, Zenon DEF OwnKeys, At
  <2>3. \A n \in 1..keys : n # keys + 1 /\ n \in 1..(keys + 1)
    BY <1>0
  <2>4. keys + 1 \in 1..(keys + 1)
    BY <1>0
  <2> QED
    BY <1>0, <2>1, <2>2, <2>3, <2>4 DEF OwnKeys, At
<1>5. ASSUME NEW c \in Calls, Goes(c)
      PROVE  OwnKeys'
  <2>1. Continues(c)
    BY <1>5, GoesContinues, Zenon
  <2> QED
    BY <1>0, <2>1 DEF Continues, OthersStay, OwnKeys, At
<1> QED
  BY StepKinds, <1>1, <1>2, <1>3, <1>4, <1>5, Zenon DEF Fails

\* A host waits for a call of its own.
LEMMA HostStep ==
  ASSUME Shapes, [Next]_vars
  PROVE  HostShapes'
<1>0. HostShapes /\ 0 \notin Calls
  BY MeshAssumption, Zenon DEF Shapes
<1>1. CASE Idle \/ PutRegionReads \/ PutRegionSaves
  <2>1. call' = call /\ host' = host
    BY <1>1, Zenon DEF Idle, PutRegionReads, PutRegionSaves
  <2> QED
    BY <1>0, <2>1, Zenon DEF HostShapes, At
<1>2. CASE Crash
  <2>1. host' = [h \in Hosts |-> [host[h] EXCEPT !.waits = 0]]
    BY <1>2, Zenon DEF Crash
  <2> QED
    BY <1>0, <2>1, Zenon DEF HostShapes, HostFields
<1>3. ASSUME NEW h \in Hosts, LoseAnswer(h)
      PROVE  HostShapes'
  <2>1. call' = call /\ host' = [host EXCEPT ![h].waits = 0]
    BY <1>3, Zenon DEF LoseAnswer
  <2>2. /\ DOMAIN host' = Hosts
        /\ \A g \in Hosts : DOMAIN host'[g] = HostFields /\ (host'[g].waits = 0 \/ host'[g].waits = host[g].waits)
    BY <1>0, <2>1, Zenon DEF HostShapes, HostFields
  <2> QED
    BY <1>0, <2>1, <2>2, ZenonT(40) DEF HostShapes, At
<1>4. ASSUME NEW c \in Calls, Ends(c)
      PROVE  HostShapes'
  BY <1>0, <1>4 DEF Ends, OthersStay, Freed, HostShapes, At
<1>5. ASSUME NEW c \in Calls, NEW h \in Hosts, NEW step \in {"lease", "read"}, Opens(h, c, step)
      PROVE  HostShapes'
  <2>1. /\ call'[c].who = h /\ call'[c].step # "none"
        /\ At(c, "none") /\ \A d \in Calls \ {c} : call'[d] = call[d]
    BY <1>5 DEF Opens, NoCall, OthersStay
  <2>2. /\ DOMAIN host' = Hosts
        /\ \A g \in Hosts : DOMAIN host'[g] = HostFields /\ host'[g].waits = IF g = h THEN c ELSE host[g].waits
    BY <1>0, <1>5 DEF HostShapes, HostFields, Opens
  <2> QED
    BY <1>0, <2>1, <2>2 DEF HostShapes, At
<1>6. ASSUME NEW c \in Calls, Goes(c)
      PROVE  HostShapes'
  <2>1. Continues(c)
    BY <1>6, GoesContinues, Zenon
  <2> QED
    BY <1>0, <2>1 DEF Continues, OthersStay, HostShapes, At
<1> QED
  BY StepKinds, <1>1, <1>2, <1>3, <1>4, <1>5, <1>6, Zenon DEF Fails

\* The committed tables keep their shape.
LEMMA TableStep ==
  ASSUME Shapes, [Next]_vars
  PROVE  TableShapes'
<1>0. TableShapes /\ keys \in Nat
  BY Zenon DEF Shapes, TableShapes
<1>1. ASSUME UNCHANGED <<devices, nodes, keys, operator>>, certificates' \subseteq Hosts, DOMAIN told' = Hosts
      PROVE  TableShapes'
  BY <1>0, <1>1, Zenon DEF TableShapes
<1>2. CASE Idle \/ Crash \/ \E h \in Hosts : LoseAnswer(h)
  <2>1. UNCHANGED <<devices, nodes, keys, operator, certificates, told>>
    BY <1>2, Zenon DEF Idle, Quiet, Crash, LoseAnswer
  <2> QED
    BY <1>0, <1>1, <2>1, Zenon DEF TableShapes
<1>3. CASE PutRegionReads
  <2>1. PICK h \in Hosts : operator' = [of |-> h, row |-> nodes[h]]
    BY <1>3, Zenon DEF PutRegionReads
  <2>2. UNCHANGED <<devices, nodes, keys, certificates, told>>
    BY <1>3, Zenon DEF PutRegionReads, tables, history
  <2>3. RowShape(nodes[h])
    BY <1>0, Zenon DEF TableShapes
  <2>4. DOMAIN operator' = {"of", "row"} /\ operator'.of \in Hosts /\ RowShape(operator'.row)
    BY <2>1, <2>3, Zenon
  <2> QED
    BY <1>0, <2>2, <2>4, Zenon DEF TableShapes
<1>4. CASE PutRegionSaves
  <2> DEFINE row == [operator.row EXCEPT !.region = 1]
  <2>1. /\ operator' = [of |-> First, row |-> NoRow] /\ nodes' = [nodes EXCEPT ![operator.of] = row]
        /\ UNCHANGED <<devices, keys, certificates, told>>
    BY <1>4, Zenon DEF PutRegionSaves
  <2>2. DOMAIN operator' = {"of", "row"} /\ operator'.of \in Hosts /\ RowShape(operator'.row)
    BY <2>1, FirstIsHost, EmptyShapes, Zenon
  <2>3. RowShape(row)
    BY <1>0, Zenon DEF TableShapes, RowShape, RowFields
  <2> HIDE DEF row
  <2>4. DOMAIN nodes' = Hosts /\ \A h \in Hosts : RowShape(nodes'[h])
    BY <1>0, <2>1, <2>3, Zenon DEF TableShapes
  <2> QED
    BY <1>0, <2>1, <2>2, <2>4, Zenon DEF TableShapes
<1>5. ASSUME NEW c \in Calls, Fails(c)
      PROVE  TableShapes'
  BY <1>0, <1>1, <1>5, Zenon DEF Fails, Ends, TableShapes
<1>6. ASSUME NEW c \in Calls, Reply(c) \/ Answer(c), Ends(c)
      PROVE  TableShapes'
  <2>1. certificates' = certificates
    BY <1>6, Zenon DEF Reply, Answer, tables
  <2>2. DOMAIN told' = DOMAIN told
    BY <1>6, Zenon DEF Reply, Answer
  <2> QED
    BY <1>0, <1>1, <1>6, <2>1, <2>2, Zenon DEF Ends, TableShapes
<1>7. ASSUME NEW c \in Calls, NEW h \in Hosts, NEW step \in {"lease", "read"}, Opens(h, c, step)
      PROVE  TableShapes'
  <2>1. UNCHANGED <<devices, nodes, certificates, operator, told>> /\ keys' = keys + 1
    BY <1>7, Zenon DEF Opens, Quiet
  <2>2. 1..keys \subseteq 1..(keys + 1) /\ keys + 1 \in Nat \ {0}
    BY <1>0
  <2>3. devices \subseteq Hosts \X (1..(keys + 1))
    BY <1>0, <2>2, Zenon DEF TableShapes
  <2> QED
    BY <1>0, <2>1, <2>2, <2>3, Zenon DEF TableShapes
<1>8. ASSUME NEW c \in Calls, Goes(c)
      PROVE  TableShapes'
  <2>0. Continues(c) /\ call[c].who \in Hosts /\ RowShape(call[c].row) /\ call[c].key \in 1..keys
    BY <1>8, GoesContinues, Zenon DEF Continues, Shapes, CallShapes, CallShape, OwnKeys
  <2>1. CASE LeaseTaken(c) \/ Checked(c) \/ Begun(c) \/ Restored(c) \/ PeersListed(c) \/ NodeRead(c)
             \/ EpochRead(c) \/ EpochLost(c)
    <3>1. Quiet
      BY <2>1, Zenon DEF LeaseTaken, Checked, Begun, Restored, PeersListed, NodeRead, EpochRead, EpochLost
    <3> QED
      BY <1>0, <1>1, <2>0, <3>1, Zenon DEF Quiet, Continues, TableShapes
  <2>2. CASE EpochInserted(c) \/ CertificateIssued(c) \/ Configured(c) \/ Replanned(c)
    <3>1. UNCHANGED <<devices, nodes, keys, operator>>
      BY <2>0, <2>2, Zenon DEF EpochInserted, CertificateIssued, Configured, Replanned, Continues
    <3>2. certificates' \subseteq Hosts
      BY <1>0, <2>0, <2>2, Zenon DEF EpochInserted, CertificateIssued, Configured, Replanned, TableShapes
    <3>3. DOMAIN told' = DOMAIN told
      BY <2>2, Zenon DEF EpochInserted, CertificateIssued, Configured, Replanned
    <3> QED
      BY <1>0, <1>1, <3>1, <3>2, <3>3, Zenon DEF TableShapes
  <2>3. CASE DeviceSaved(c)
    <3>1. UNCHANGED <<nodes, certificates, told, operator, keys>>
      BY <2>0, <2>3, Zenon DEF DeviceSaved, Continues
    <3>2. Device(c) \in Hosts \X (1..keys)
      BY <2>0, Zenon DEF Device
    <3>3. devices' \subseteq devices \cup {Device(c)}
      BY <2>3, Zenon DEF DeviceSaved
    <3> QED
      BY <1>0, <3>1, <3>2, <3>3, Zenon DEF TableShapes
  <2>4. CASE NodeSaved(c) \/ KeySaved(c)
    <3>1. UNCHANGED <<devices, certificates, told, operator, keys>>
      BY <2>0, <2>4, Zenon DEF NodeSaved, KeySaved, Continues
    <3>2. RowShape([call[c].row EXCEPT !.key = call[c].key])
      BY <2>0, Zenon DEF RowShape, RowFields
    <3>3. DOMAIN nodes' = Hosts /\ \A h \in Hosts : RowShape(nodes'[h])
      BY <1>0, <2>0, <2>4, <3>2, Zenon DEF NodeSaved, KeySaved, TableShapes
    <3> QED
      BY <1>0, <3>1, <3>3, Zenon DEF TableShapes
  <2>5. CASE Committed(c)
    <3>1. UNCHANGED <<certificates, told, operator, keys>>
      BY <2>0, <2>5, Zenon DEF Committed, Continues
    <3>2. ClientShape(client[c]) /\ client[c].devices \subseteq Hosts \X (1..keys)
      BY Zenon DEF Shapes, ClientShapes
    <3>3. DOMAIN nodes' = Hosts /\ \A h \in Hosts : RowShape(nodes'[h])
      BY <1>0, <2>5, <3>2, Zenon DEF Committed, ClientShape, TableShapes
    <3>4. devices' \subseteq Hosts \X (1..keys)
      BY <1>0, <2>5, <3>2, Zenon DEF Committed, TableShapes
    <3> QED
      BY <1>0, <3>1, <3>3, <3>4, Zenon DEF TableShapes
  <2> QED
    BY <1>8, <2>1, <2>2, <2>3, <2>4, <2>5, Zenon DEF Goes
<1> QED
  BY StepKinds, <1>2, <1>3, <1>4, <1>5, <1>6, <1>7, <1>8, Zenon

\* The transactions keep their shape, and are open between BEGIN and COMMIT.
LEMMA ClientStep ==
  ASSUME Shapes, [Next]_vars
  PROVE  ClientShapes'
<1>0. ClientShapes /\ keys \in Nat /\ 0 \notin Calls
  BY MeshAssumption, Zenon DEF Shapes, TableShapes
<1>1. NoClient.devices = {} /\ ~NoClient.open /\ NoCall.step \notin InTransaction
  BY Zenon DEF NoClient, NoCall, InTransaction
<1>2. CASE Idle \/ PutRegionReads \/ PutRegionSaves \/ \E h \in Hosts : LoseAnswer(h)
  <2>1. UNCHANGED <<tx, client, call, keys>>
    BY <1>2, Zenon DEF Idle, PutRegionReads, PutRegionSaves, LoseAnswer, session
  <2> QED
    BY <1>0, <2>1, Zenon DEF ClientShapes
<1>3. CASE Crash
  BY <1>0, <1>1, <1>3, EmptyShapes, Zenon DEF Crash, ClientShapes
<1>4. ASSUME NEW c \in Calls, Ends(c)
      PROVE  ClientShapes'
  <2>1. tx' \in Calls \cup {0}
    BY <1>0, <1>4, Zenon DEF Ends, ClientShapes, Shapes, CallShapes, CallShape
  <2>2. \A d \in Calls \ {c} : ClientShape(client'[d])
    BY <1>0, <1>4, Zenon DEF Ends, Dropped, ClientShapes, ClientShape
  <2>3. /\ DOMAIN client' = Calls /\ client'[c] = NoClient /\ call'[c] = NoCall /\ keys' = keys
        /\ \A d \in Calls \ {c} : call'[d] = call[d]
    BY <1>4, Zenon DEF Ends, Dropped, OthersStay
  <2>4. \A d \in Calls : client'[d].devices \subseteq Hosts \X (1..keys)
    BY <1>0, <1>1, <1>4, <2>3, Zenon DEF Ends, Dropped, ClientShapes
  <2>5. \A d \in Calls \ {c} : /\ client'[d].open <=> call[d].step \in InTransaction
                               /\ ~client'[d].open => client'[d] = NoClient
    BY <1>0, <1>4, ZenonT(40) DEF Ends, Dropped, ClientShapes
  <2> QED
    BY <1>1, <2>1, <2>2, <2>3, <2>4, <2>5, EmptyShapes, Zenon DEF ClientShapes
<1>5. ASSUME NEW c \in Calls, NEW h \in Hosts, NEW step \in {"lease", "read"}, Opens(h, c, step)
      PROVE  ClientShapes'
  <2>1. /\ call[c].step \notin InTransaction /\ call'[c].step \notin InTransaction
        /\ \A d \in Calls \ {c} : call'[d] = call[d]
    BY <1>5 DEF Opens, NoCall, At, InTransaction, OthersStay
  <2>2. UNCHANGED <<tx, client>> /\ keys' = keys + 1
    BY <1>5, Zenon DEF Opens, session
  <2>3. 1..keys \subseteq 1..(keys + 1)
    BY <1>0
  <2>4. \A d \in Calls : client[d].devices \subseteq Hosts \X (1..(keys + 1))
    BY <1>0, <2>3, ZenonT(40) DEF ClientShapes
  <2> QED
    BY <1>0, <2>1, <2>2, <2>4, Zenon DEF ClientShapes
<1>6. ASSUME NEW c \in Calls, Goes(c)
      PROVE  ClientShapes'
  <2>0. Continues(c) /\ call[c].who \in Hosts /\ RowShape(call[c].row) /\ call[c].key \in 1..keys
    BY <1>6, GoesContinues, Zenon DEF Continues, Shapes, CallShapes, CallShape, OwnKeys
  <2>1. CASE LeaseTaken(c) \/ Checked(c) \/ CertificateIssued(c) \/ PeersListed(c) \/ Configured(c) \/ NodeRead(c)
             \/ EpochRead(c) \/ EpochInserted(c) \/ EpochLost(c) \/ Replanned(c)
    <3>1. UNCHANGED <<tx, client>>
      BY <2>1, Zenon DEF LeaseTaken, Checked, CertificateIssued, PeersListed, Configured, NodeRead, EpochRead,
           EpochInserted, EpochLost, Replanned, session
    <3>2. call[c].step \notin InTransaction /\ call'[c].step \notin InTransaction
      BY <2>1, Zenon DEF LeaseTaken, Checked, CertificateIssued, PeersListed, Configured, NodeRead, EpochRead,
           EpochInserted, EpochLost, Replanned, Moves, At, InTransaction
    <3> QED
      BY <1>0, <2>0, <3>1, <3>2, Zenon DEF Continues, OthersStay, ClientShapes
  <2>2. CASE Restored(c)
    <3>1. UNCHANGED client /\ tx' \in Calls \cup {0}
      BY <2>2, Zenon DEF Restored, Shapes, CallShapes, CallShape
    <3>2. call[c].step \in InTransaction /\ call'[c].step \in InTransaction
      BY <2>2, Zenon DEF Restored, Moves, At, InTransaction
    <3> QED
      BY <1>0, <2>0, <3>1, <3>2, Zenon DEF Continues, OthersStay, ClientShapes
  <2>3. CASE Begun(c)
    <3>1. client' = [client EXCEPT ![c].open = TRUE] /\ tx' = c
      BY <2>3, Zenon DEF Begun
    <3>2. call[c].step \notin InTransaction /\ call'[c].step \in InTransaction
      BY <2>3, Zenon DEF Begun, Moves, At, InTransaction
    <3>3. /\ DOMAIN client' = Calls /\ \A d \in Calls \ {c} : client'[d] = client[d]
          /\ ClientShape(client'[c]) /\ client'[c].open /\ client'[c].devices = client[c].devices
      BY <1>0, <3>1, Zenon DEF ClientShapes, ClientShape, ClientFields
    <3> QED
      BY <1>0, <2>0, <3>1, <3>2, <3>3, Zenon DEF Continues, OthersStay, ClientShapes
  <2>4. CASE Committed(c)
    <3>1. client' = [client EXCEPT ![c] = NoClient] /\ tx' = tx
      BY <2>4, Zenon DEF Committed
    <3>2. call'[c].step \notin InTransaction
      BY <2>4, Zenon DEF Committed, Moves, InTransaction
    <3>3. DOMAIN client' = Calls /\ client'[c] = NoClient /\ \A d \in Calls \ {c} : client'[d] = client[d]
      BY <1>0, <3>1, Zenon DEF ClientShapes
    <3> QED
      BY <1>0, <1>1, <2>0, <3>1, <3>2, <3>3, EmptyShapes, Zenon DEF Continues, OthersStay, ClientShapes
  <2>5. CASE DeviceSaved(c) \/ NodeSaved(c) \/ KeySaved(c)
    <3>1. (call[c].step \in InTransaction <=> call'[c].step \in InTransaction) /\ tx' = tx
      BY <2>5, Zenon DEF DeviceSaved, NodeSaved, KeySaved, Moves, At, InTransaction
    <3>2. CASE ~q
      <4>1. client' = client
        BY <2>5, <3>2, Zenon DEF DeviceSaved, NodeSaved, KeySaved
      <4> QED
        BY <1>0, <2>0, <3>1, <4>1, Zenon DEF Continues, OthersStay, ClientShapes
    <3>3. CASE q
      <4>0. tx \in Calls /\ client[tx].open /\ ClientShape(client[tx])
        BY <1>0, <3>3, Zenon DEF q, ClientShapes
      <4>1. Device(c) \in Hosts \X (1..keys)
        BY <2>0, Zenon DEF Device
      <4>2. RowShape([call[c].row EXCEPT !.key = call[c].key])
        BY <2>0, Zenon DEF RowShape, RowFields
      <4>3. \/ client' = [client EXCEPT ![tx].devices = @ \cup {Device(c)}]
            \/ \E row : RowShape(row) /\ client' = [client EXCEPT ![tx].nodes[call[c].who] = row]
        BY <2>0, <2>5, <3>3, <4>2, Zenon DEF DeviceSaved, NodeSaved, KeySaved
      <4>4. /\ DOMAIN client' = Calls /\ \A d \in Calls \ {tx} : client'[d] = client[d]
            /\ client'[tx].open = client[tx].open /\ ClientShape(client'[tx])
            /\ client'[tx].devices \subseteq client[tx].devices \cup {Device(c)}
        <5>1. CASE client' = [client EXCEPT ![tx].devices = @ \cup {Device(c)}]
          BY <1>0, <4>0, <5>1, Zenon DEF ClientShapes, ClientShape, ClientFields
        <5>2. ASSUME NEW row, RowShape(row), client' = [client EXCEPT ![tx].nodes[call[c].who] = row]
              PROVE  /\ DOMAIN client' = Calls /\ \A d \in Calls \ {tx} : client'[d] = client[d]
                     /\ client'[tx].open = client[tx].open /\ ClientShape(client'[tx])
                     /\ client'[tx].devices \subseteq client[tx].devices \cup {Device(c)}
          BY <1>0, <2>0, <4>0, <5>2, Zenon DEF ClientShapes, ClientShape, ClientFields
        <5> QED
          BY <4>3, <5>1, <5>2, Zenon
      <4>5. client'[tx].devices \subseteq Hosts \X (1..keys)
        BY <1>0, <4>0, <4>1, <4>4, Zenon DEF ClientShapes
      <4> QED
        BY <1>0, <2>0, <3>1, <4>0, <4>4, <4>5, Zenon DEF Continues, OthersStay, ClientShapes
    <3> QED
      BY <3>2, <3>3, Zenon
  <2> QED
    BY <1>6, <2>1, <2>2, <2>3, <2>4, <2>5, Zenon DEF Goes
<1> QED
  BY StepKinds, <1>2, <1>3, <1>4, <1>5, <1>6, Zenon DEF Fails

\* In the initial state only the first host is enrolled.
LEMMA InitShapes == Init => Shapes
<1> SUFFICES ASSUME Init PROVE Shapes
  BY Zenon
<1> DEFINE first == [NoRow EXCEPT !.in = TRUE, !.device = 1, !.lease = 1, !.key = 1]
<1>1. RowShape(first)
  BY MeshAssumption DEF NoRow, RowShape, RowFields
<1>2. TableShapes
  <2>1. operator = [of |-> First, row |-> NoRow] /\ keys = 1 /\ devices = {<<First, 1>>} /\ certificates = {First}
        /\ nodes = [h \in Hosts |-> IF h = First THEN first ELSE NoRow] /\ told = [h \in Hosts |-> {}]
    BY Zenon DEF Init
  <2> HIDE DEF first
  <2> QED
    BY <1>1, <2>1, FirstIsHost, EmptyShapes DEF TableShapes
<1>3. ClientShapes
  <2>1. tx = 0 /\ client = [c \in Calls |-> NoClient] /\ call = [c \in Calls |-> NoCall]
    BY Zenon DEF Init
  <2>2. NoClient.devices = {} /\ ~NoClient.open /\ NoCall.step \notin InTransaction
    BY Zenon DEF NoClient, NoCall, InTransaction
  <2> QED
    BY <2>1, <2>2, EmptyShapes, Zenon DEF ClientShapes
<1>4. CallShapes /\ OwnKeys
  <2>1. call = [c \in Calls |-> NoCall] /\ NoCall.step = "none"
    BY Zenon DEF Init, NoCall
  <2> QED
    BY <2>1, EmptyShapes, Zenon DEF CallShapes, OwnKeys, At
<1>5. HostShapes
  BY Zenon DEF Init, HostShapes, HostFields
<1> QED
  BY <1>2, <1>3, <1>4, <1>5, Zenon DEF Shapes

\* Every step keeps the shapes.
LEMMA ShapesStep ==
  ASSUME Shapes, [Next]_vars
  PROVE  Shapes'
  BY TableStep, ClientStep, CallStep, KeyStep, HostStep, Zenon DEF Shapes

\* The shapes make the state well typed.
LEMMA ShapesType == Shapes => TypeOK
<1> SUFFICES ASSUME Shapes PROVE TypeOK
  BY Zenon
<1>1. devices \subseteq Hosts \X (1..keys) /\ certificates \subseteq Hosts /\ tx \in Calls \cup {0}
  BY Zenon DEF Shapes, TableShapes, ClientShapes
<1>2. \A h \in Hosts : nodes[h].lease \in 0..PoolSize /\ (host[h].waits # 0 => call[host[h].waits].who = h)
  BY Zenon DEF Shapes, TableShapes, RowShape, HostShapes
<1>3. ASSUME NEW c \in Calls
      PROVE  call[c].attempts < MaxAttempts /\ (client[c].open => ~At(c, "none"))
  <2>1. call[c].attempts \in 0..(MaxAttempts - 1)
    BY Zenon DEF Shapes, CallShapes, CallShape
  <2>2. client[c].open <=> call[c].step \in InTransaction
    BY Zenon DEF Shapes, ClientShapes
  <2>3. "none" \notin InTransaction
    BY Zenon DEF InTransaction
  <2>4. call[c].attempts < MaxAttempts
    BY <2>1, MeshAssumption
  <2> QED
    BY <2>2, <2>3, <2>4, Zenon DEF At
<1> QED
  BY <1>1, <1>2, <1>3, Zenon DEF TypeOK

-----------------------------------------------------------------------------
(* The rows of a host, committed and in the transactions under way: a      *)
(* place is the tables, 0, or the transaction of a call.                   *)

Places == Calls \cup {0}
DevicesAt(x) == IF x = 0 THEN devices ELSE client[x].devices
NodesAt(x) == IF x = 0 THEN nodes ELSE client[x].nodes

\* A host has one device, at one place: the unique index on the hardware.
HardwareIsUnique ==
  \A x, y \in Places : \A d \in DevicesAt(x), e \in DevicesAt(y) : d[1] = e[1] => d = e /\ x = y

\* A node refers to the device of its host, committed or of the same transaction.
NodesHaveDevices ==
  \A x \in Places, h \in Hosts :
    NodesAt(x)[h].in => <<h, NodesAt(x)[h].device>> \in devices \cup DevicesAt(x)

\* The node of a registration is inserted once.
InsertedOnce ==
  \A x \in Places, c \in Calls :
    call[c].step \in Filling /\ NodesAt(x)[call[c].who].in => NodesAt(x)[call[c].who].device # call[c].key

\* An address belongs to one host, at every place.
AddressesAreOwned ==
  \A x, y \in Places, g, h \in Hosts :
    NodesAt(x)[g].in /\ NodesAt(y)[h].in => (NodesAt(x)[g].lease = NodesAt(y)[h].lease <=> g = h)

SameNode(row, h) == nodes[h].in /\ row.lease = nodes[h].lease /\ row.device = nodes[h].device

\* Whoever acts for an enrolled host finds its node, and a copy of the node has the
\* address and the device of the node.
CopiesAgree ==
  /\ \A c \in Calls : /\ call[c].step \in Certified \cup Rotating => nodes[call[c].who].in
                      /\ call[c].step \in Holding => SameNode(call[c].row, call[c].who)
  /\ operator.row.in => SameNode(operator.row, operator.of)
  /\ \A h \in Hosts : host[h].up => nodes[h].in

Tables == HardwareIsUnique /\ NodesHaveDevices /\ AddressesAreOwned
Rows == Tables /\ InsertedOnce /\ CopiesAgree

\* The transactions hold what they held, or are dropped.
RowsStay ==
  /\ UNCHANGED <<devices, nodes>>
  /\ \A d \in Calls : \/ client'[d].devices = client[d].devices /\ client'[d].nodes = client[d].nodes
                      \/ client'[d] = NoClient

\* Dropping a transaction takes its rows away, and no others.
LEMMA StayTables ==
  ASSUME Tables, RowsStay, 0 \notin Calls
  PROVE  /\ Tables'
         /\ \A x \in Places, h \in Hosts : NodesAt(x)'[h].in => NodesAt(x)'[h] = NodesAt(x)[h] /\ NodesAt(x)[h].in
<1>1. NoClient.devices = {} /\ \A h \in Hosts : ~NoClient.nodes[h].in
  BY Zenon DEF NoClient, NoRow
<1>2. \A x \in Places : \/ DevicesAt(x)' = DevicesAt(x) /\ NodesAt(x)' = NodesAt(x)
                        \/ DevicesAt(x)' = {} /\ \A h \in Hosts : ~NodesAt(x)'[h].in
  BY <1>1, Zenon DEF RowsStay, DevicesAt, NodesAt, Places
<1>3. \A x \in Places, h \in Hosts : NodesAt(x)'[h].in => /\ NodesAt(x)'[h] = NodesAt(x)[h] /\ NodesAt(x)[h].in
                                                          /\ DevicesAt(x)' = DevicesAt(x)
  BY <1>2, Zenon
<1>4. HardwareIsUnique'
  <2>1. \A x \in Places : DevicesAt(x)' \subseteq DevicesAt(x)
    BY <1>2, Zenon
  <2> SUFFICES ASSUME NEW x \in Places, NEW y \in Places, NEW d \in DevicesAt(x)', NEW e \in DevicesAt(y)', d[1] = e[1]
               PROVE  d = e /\ x = y
    BY Zenon DEF HardwareIsUnique
  <2>2. d \in DevicesAt(x) /\ e \in DevicesAt(y)
    BY <2>1, Zenon
  <2> QED
    BY <2>2, Zenon DEF Tables, HardwareIsUnique
<1>5. NodesHaveDevices'
  BY <1>3, Zenon DEF Tables, NodesHaveDevices, RowsStay
<1>6. AddressesAreOwned'
  <2> SUFFICES ASSUME NEW x \in Places, NEW y \in Places, NEW g \in Hosts, NEW h \in Hosts,
                      NodesAt(x)'[g].in, NodesAt(y)'[h].in
               PROVE  NodesAt(x)'[g].lease = NodesAt(y)'[h].lease <=> g = h
    BY DEF AddressesAreOwned
  <2>1. /\ NodesAt(x)'[g] = NodesAt(x)[g] /\ NodesAt(x)[g].in
        /\ NodesAt(y)'[h] = NodesAt(y)[h] /\ NodesAt(y)[h].in
    BY <1>3, Zenon
  <2>2. NodesAt(x)[g].lease = NodesAt(y)[h].lease <=> g = h
    BY <2>1 DEF Tables, AddressesAreOwned
  <2> QED
    BY <2>1, <2>2, Zenon
<1> QED
  BY <1>3, <1>4, <1>5, <1>6, Zenon DEF Tables

\* Rows that come from rows of the same host keep the addresses apart.
LEMMA AddressesMove ==
  ASSUME AddressesAreOwned,
         \A x \in Places, g \in Hosts : NodesAt(x)'[g].in =>
           \E y \in Places : NodesAt(y)[g].in /\ NodesAt(y)[g].lease = NodesAt(x)'[g].lease
  PROVE  AddressesAreOwned'
<1> SUFFICES ASSUME NEW x \in Places, NEW y \in Places, NEW g \in Hosts, NEW h \in Hosts,
                    NodesAt(x)'[g].in, NodesAt(y)'[h].in
             PROVE  NodesAt(x)'[g].lease = NodesAt(y)'[h].lease <=> g = h
  BY DEF AddressesAreOwned
<1>1. PICK u \in Places : NodesAt(u)[g].in /\ NodesAt(u)[g].lease = NodesAt(x)'[g].lease
  BY Zenon
<1>2. PICK v \in Places : NodesAt(v)[h].in /\ NodesAt(v)[h].lease = NodesAt(y)'[h].lease
  BY Zenon
<1>3. NodesAt(u)[g].lease = NodesAt(v)[h].lease <=> g = h
  BY <1>1, <1>2 DEF AddressesAreOwned
<1> QED
  BY <1>1, <1>2, <1>3, Zenon

\* The transaction that a statement finds in tx is a place of its own.
LEMMA Where ==
  ASSUME Shapes
  PROVE  /\ 0 \notin Calls /\ (q => tx \in Calls /\ tx # 0)
         /\ SeenDevices = devices \cup (IF q THEN DevicesAt(tx) ELSE {})
         /\ \A d \in Calls : /\ DevicesAt(d) = client[d].devices /\ NodesAt(d) = client[d].nodes
                             /\ ~client[d].open => DevicesAt(d) = {} /\ \A h \in Hosts : ~NodesAt(d)[h].in
         /\ DevicesAt(0) = devices /\ NodesAt(0) = nodes
<1>1. 0 \notin Calls
  BY MeshAssumption, Zenon
<1>2. q => tx \in Calls
  BY Zenon DEF q, Shapes, ClientShapes
<1>3. NoClient.devices = {} /\ \A h \in Hosts : ~NoClient.nodes[h].in
  BY Zenon DEF NoClient, NoRow
<1>4. \A d \in Calls : ~client[d].open => client[d] = NoClient
  BY Zenon DEF Shapes, ClientShapes
<1> QED
  BY <1>1, <1>2, <1>3, <1>4, Zenon DEF SeenDevices, DevicesAt, NodesAt

\* SaveDevice: the hardware was at no place.
LEMMA DeviceTables ==
  ASSUME Shapes, Tables, NEW c \in Calls, DeviceSaved(c)
  PROVE  Tables' /\ \A x \in Places : NodesAt(x)' = NodesAt(x)
<1> DEFINE p == IF q THEN tx ELSE 0
<1>1. /\ \A x \in Places : NodesAt(x)' = NodesAt(x)
      /\ \A x \in Places : DevicesAt(x)' = IF x = p THEN DevicesAt(x) \cup {Device(c)} ELSE DevicesAt(x)
  <2>1. CASE q
    <3>1. client' = [client EXCEPT ![tx].devices = @ \cup {Device(c)}] /\ UNCHANGED <<devices, nodes>>
      BY <2>1, Zenon DEF DeviceSaved
    <3>2. tx \in Calls /\ tx # 0 /\ 0 \notin Calls /\ DOMAIN client = Calls /\ DOMAIN client[tx] = ClientFields
      BY <2>1, Where, Zenon DEF Shapes, ClientShapes, ClientShape
    <3>3. /\ \A d \in Calls : client'[d].nodes = client[d].nodes
          /\ \A d \in Calls : client'[d].devices = IF d = tx THEN client[d].devices \cup {Device(c)} ELSE client[d].devices
      BY <3>1, <3>2, Zenon DEF ClientFields
    <3> QED
      BY <2>1, <3>1, <3>2, <3>3, Zenon DEF NodesAt, DevicesAt, Places
  <2>2. CASE ~q
    <3>1. devices' = devices \cup {Device(c)} /\ UNCHANGED <<client, nodes>>
      BY <2>2, Zenon DEF DeviceSaved
    <3> QED
      BY <2>2, <3>1, Zenon DEF NodesAt, DevicesAt, Places
  <2> QED
    BY <2>1, <2>2, Zenon
<1>2. ASSUME NEW x \in Places, NEW d \in DevicesAt(x)
      PROVE  d[1] # call[c].who
  <2>1. \A e \in SeenDevices : e[1] # call[c].who
    BY Zenon DEF DeviceSaved, Hardware
  <2>2. CASE x = 0
    BY <1>2, <2>1, <2>2, Where, Zenon
  <2>3. CASE x # 0 /\ ~client[x].open
    BY <1>2, <2>3, Where, Zenon DEF Places
  <2>4. CASE x # 0 /\ client[x].open /\ q /\ tx = x
    BY <1>2, <2>1, <2>4, Where, Zenon DEF Places
  <2>5. CASE x # 0 /\ client[x].open /\ ~(q /\ tx = x)
    <3>1. x \in Others
      BY <2>5, Zenon DEF Others, Places
    <3>2. d \in client[x].devices
      BY <1>2, <2>5, Zenon DEF DevicesAt
    <3> QED
      BY <3>1, <3>2, Zenon DEF DeviceSaved, HardwareHeld, Hardware
  <2> QED
    BY <2>2, <2>3, <2>4, <2>5, Zenon
<1>3. p \in Places
  BY Where, Zenon DEF Places
<1>4. Device(c)[1] = call[c].who
  BY Zenon DEF Device
<1> HIDE DEF p
<1>5. HardwareIsUnique'
  <2> SUFFICES ASSUME NEW x \in Places, NEW y \in Places, NEW d \in DevicesAt(x)', NEW e \in DevicesAt(y)', d[1] = e[1]
               PROVE  d = e /\ x = y
    BY Zenon DEF HardwareIsUnique
  <2>1. d \in DevicesAt(x) \/ (d = Device(c) /\ x = p)
    BY <1>1, Zenon
  <2>2. e \in DevicesAt(y) \/ (e = Device(c) /\ y = p)
    BY <1>1, Zenon
  <2> QED
    BY <1>2, <1>4, <2>1, <2>2, Zenon DEF Tables, HardwareIsUnique
<1>6. NodesHaveDevices'
  <2>1. devices \subseteq devices' /\ \A x \in Places : DevicesAt(x) \subseteq DevicesAt(x)'
    BY <1>1, Zenon DEF DeviceSaved
  <2> QED
    BY <1>1, <2>1, Zenon DEF Tables, NodesHaveDevices
<1>7. AddressesAreOwned'
  BY <1>1, AddressesMove, Zenon DEF Tables
<1> QED
  BY <1>1, <1>5, <1>6, <1>7, Zenon DEF Tables

\* Where saveNode writes: in the transaction found in tx, or in the tables.
LEMMA NodeWritten ==
  ASSUME Shapes, NEW h \in Hosts, NEW row,
         IF q THEN client' = [client EXCEPT ![tx].nodes[h] = row] /\ UNCHANGED nodes
              ELSE nodes' = [nodes EXCEPT ![h] = row] /\ UNCHANGED client,
         UNCHANGED devices
  PROVE  /\ \A x \in Places : DevicesAt(x)' = DevicesAt(x)
         /\ \A x \in Places, g \in Hosts :
              NodesAt(x)'[g] = IF g = h /\ x = (IF q THEN tx ELSE 0) THEN row ELSE NodesAt(x)[g]
<1>1. CASE q
  <2>1. client' = [client EXCEPT ![tx].nodes[h] = row] /\ UNCHANGED nodes
    BY <1>1, Zenon
  <2>2. /\ tx \in Calls /\ tx # 0 /\ 0 \notin Calls /\ DOMAIN client = Calls
        /\ DOMAIN client[tx] = ClientFields /\ DOMAIN client[tx].nodes = Hosts
    BY <1>1, Where, Zenon DEF Shapes, ClientShapes, ClientShape
  <2>3. /\ \A d \in Calls : client'[d].devices = client[d].devices
        /\ \A d \in Calls, g \in Hosts :
             client'[d].nodes[g] = IF g = h /\ d = tx THEN row ELSE client[d].nodes[g]
    BY <2>1, <2>2, Zenon DEF ClientFields
  <2>4. /\ \A d \in Calls : d # 0 /\ NodesAt(d) = client[d].nodes /\ NodesAt(d)' = client'[d].nodes
        /\ NodesAt(0)' = NodesAt(0)
    BY <2>1, <2>2, Zenon DEF NodesAt
  <2>5. \A x \in Places : DevicesAt(x)' = DevicesAt(x)
    BY <2>1, <2>2, <2>3, ZenonT(40) DEF DevicesAt, Places
  <2>6. ASSUME NEW x \in Places, NEW g \in Hosts
        PROVE  NodesAt(x)'[g] = IF g = h /\ x = tx THEN row ELSE NodesAt(x)[g]
    <3>1. CASE x = 0
      BY <2>2, <2>4, <3>1, Zenon
    <3>2. CASE x # 0
      <4>1. x \in Calls
        BY <3>2, Zenon DEF Places
      <4>2. client'[x].nodes[g] = IF g = h /\ x = tx THEN row ELSE client[x].nodes[g]
        BY <2>3, <4>1, Zenon
      <4>3. NodesAt(x) = client[x].nodes /\ NodesAt(x)' = client'[x].nodes
        BY <2>4, <4>1, Zenon
      <4> QED
        BY <4>2, <4>3, Zenon
    <3> QED
      BY <3>1, <3>2, Zenon
  <2> QED
    BY <1>1, <2>5, <2>6, Zenon
<1>2. CASE ~q
  <2>1. nodes' = [nodes EXCEPT ![h] = row] /\ UNCHANGED client /\ DOMAIN nodes = Hosts
    BY <1>2, Zenon DEF Shapes, TableShapes
  <2> QED
    BY <1>2, <2>1, Zenon DEF NodesAt, DevicesAt, Places
<1> QED
  BY <1>1, <1>2, Zenon

\* SaveNode: the host had no node, and no node had the address.
LEMMA NodeTables ==
  ASSUME Shapes, Tables, InsertedOnce, NEW c \in Calls, NodeSaved(c)
  PROVE  /\ Tables'
         /\ \A x \in Places : ~NodesAt(x)[call[c].who].in
         /\ \A x \in Places, g \in Hosts : g # call[c].who => NodesAt(x)'[g] = NodesAt(x)[g]
         /\ \A x \in Places : NodesAt(x)'[call[c].who] \in {NodesAt(x)[call[c].who], call[c].row}
<1> DEFINE p == IF q THEN tx ELSE 0
           h == call[c].who
           row == call[c].row
<1>0. /\ h \in Hosts /\ row.in /\ row.device = call[c].key /\ call[c].step \in Filling
      /\ ~LeaseHeld(c) /\ ~Conflict(c) /\ UNCHANGED devices
  <2>1. At(c, "node") /\ ~LeaseHeld(c) /\ ~Conflict(c) /\ UNCHANGED devices
    BY Zenon DEF NodeSaved, Moves
  <2>2. call[c].step \in Filling /\ call[c].step \in Leased
    BY <2>1, Zenon DEF At, Filling, Leased
  <2> QED
    BY <2>1, <2>2, Zenon DEF Shapes, CallShapes, CallShape
<1>1. /\ \A x \in Places : DevicesAt(x)' = DevicesAt(x)
      /\ \A x \in Places, g \in Hosts : NodesAt(x)'[g] = IF g = h /\ x = p THEN row ELSE NodesAt(x)[g]
  <2>1. IF q THEN client' = [client EXCEPT ![tx].nodes[h] = row] /\ UNCHANGED nodes
             ELSE nodes' = [nodes EXCEPT ![h] = row] /\ UNCHANGED client
    BY Zenon DEF NodeSaved
  <2> HIDE DEF h, row
  <2>2. PICK k, new : k = h /\ new = row
    BY Zenon
  <2>3. /\ k \in Hosts /\ UNCHANGED devices
        /\ IF q THEN client' = [client EXCEPT ![tx].nodes[k] = new] /\ UNCHANGED nodes
                ELSE nodes' = [nodes EXCEPT ![k] = new] /\ UNCHANGED client
    BY <1>0, <2>1, <2>2, Zenon
  <2>4. /\ \A x \in Places : DevicesAt(x)' = DevicesAt(x)
        /\ \A x \in Places, g \in Hosts : NodesAt(x)'[g] = IF g = k /\ x = p THEN new ELSE NodesAt(x)[g]
    BY <2>3, NodeWritten, Zenon
  <2> QED
    BY <2>2, <2>4, Zenon
<1>2. p \in Places /\ Device(c) \in devices \cup DevicesAt(p) /\ DevicesAt(0) = devices
  <2>1. Device(c) \in SeenDevices
    BY <1>0, Zenon DEF Conflict
  <2>2. DevicesAt(0) = devices /\ SeenDevices = devices \cup (IF q THEN DevicesAt(tx) ELSE {})
    BY Where, Zenon
  <2>3. p \in Places
    BY Where, Zenon DEF Places
  <2>4. CASE q
    BY <2>1, <2>2, <2>3, <2>4, Zenon
  <2>5. CASE ~q
    BY <2>1, <2>2, <2>3, <2>5, Zenon
  <2> QED
    BY <2>4, <2>5, Zenon
<1>3. ASSUME NEW x \in Places, NodesAt(x)[h].in
      PROVE  FALSE
  <2> DEFINE d == <<h, NodesAt(x)[h].device>>
  <2>1. d \in devices \cup DevicesAt(x)
    BY <1>0, <1>3, Zenon DEF Tables, NodesHaveDevices
  <2>2. d[1] = Device(c)[1] /\ d[2] = NodesAt(x)[h].device /\ Device(c)[2] = call[c].key
    BY Zenon DEF Device
  <2> HIDE DEF d
  <2>3. d = Device(c)
    <3>1. PICK u \in Places : d \in DevicesAt(u)
      BY <1>2, <2>1, Zenon DEF Places
    <3>2. PICK v \in Places : Device(c) \in DevicesAt(v)
      BY <1>2, Zenon DEF Places
    <3> QED
      BY <2>2, <3>1, <3>2, Zenon DEF Tables, HardwareIsUnique
  <2> QED
    BY <1>0, <1>3, <2>2, <2>3, Zenon DEF InsertedOnce
<1>4. ASSUME NEW x \in Places, NEW g \in Hosts, NodesAt(x)[g].in
      PROVE  NodesAt(x)[g].lease # row.lease
  <2>1. SeenNodes[g].in => SeenNodes[g].lease # row.lease
    BY <1>0, Zenon DEF Conflict, Enrolled
  <2>2. CASE x = 0
    <3>1. CASE q /\ client[tx].nodes[g].in
      <4>1. SeenNodes[g] = NodesAt(tx)[g] /\ NodesAt(tx)[g].in /\ tx \in Places
        BY <3>1, Where, Zenon DEF SeenNodes, Places
      <4>2. NodesAt(tx)[g].lease = NodesAt(x)[g].lease
        BY <1>4, <4>1 DEF Tables, AddressesAreOwned
      <4> QED
        BY <2>1, <4>1, <4>2, Zenon
    <3>2. CASE ~(q /\ client[tx].nodes[g].in)
      <4>1. SeenNodes[g] = NodesAt(x)[g]
        BY <2>2, <3>2, Where, Zenon DEF SeenNodes
      <4> QED
        BY <1>4, <2>1, <4>1, Zenon
    <3> QED
      BY <3>1, <3>2, Zenon
  <2>3. CASE x # 0 /\ ~client[x].open
    BY <1>4, <2>3, Where, Zenon DEF Places
  <2>4. CASE x # 0 /\ client[x].open /\ q /\ tx = x
    <3>1. SeenNodes[g] = NodesAt(x)[g]
      BY <1>4, <2>4, Where, Zenon DEF SeenNodes, Places
    <3> QED
      BY <1>4, <2>1, <3>1, Zenon
  <2>5. CASE x # 0 /\ client[x].open /\ ~(q /\ tx = x)
    <3>1. x \in Others
      BY <2>5, Zenon DEF Others, Places
    <3>2. NodesAt(x) = client[x].nodes
      BY <2>5, Zenon DEF NodesAt
    <3> QED
      BY <1>0, <1>4, <3>1, <3>2, Zenon DEF LeaseHeld
  <2> QED
    BY <2>2, <2>3, <2>4, <2>5, Zenon
<1> HIDE DEF p, h, row
<1>5. NodesHaveDevices'
  <2>1. Device(c) = <<h, row.device>>
    BY <1>0, Zenon DEF Device, h
  <2> SUFFICES ASSUME NEW x \in Places, NEW g \in Hosts, NodesAt(x)'[g].in
               PROVE  <<g, NodesAt(x)'[g].device>> \in devices' \cup DevicesAt(x)'
    BY Zenon DEF NodesHaveDevices
  <2>2. CASE g = h /\ x = p
    BY <1>0, <1>1, <1>2, <2>1, <2>2, Zenon
  <2>3. CASE ~(g = h /\ x = p)
    BY <1>0, <1>1, <2>3, Zenon DEF Tables, NodesHaveDevices
  <2> QED
    BY <2>2, <2>3, Zenon
<1>6. AddressesAreOwned'
  <2> SUFFICES ASSUME NEW x \in Places, NEW y \in Places, NEW g \in Hosts, NEW k \in Hosts,
                      NodesAt(x)'[g].in, NodesAt(y)'[k].in
               PROVE  NodesAt(x)'[g].lease = NodesAt(y)'[k].lease <=> g = k
    BY DEF AddressesAreOwned
  <2>1. (g = h /\ NodesAt(x)'[g] = row) \/ (g # h /\ NodesAt(x)'[g] = NodesAt(x)[g] /\ NodesAt(x)[g].in)
    <3>1. NodesAt(x)'[g] = row \/ NodesAt(x)'[g] = NodesAt(x)[g]
      BY <1>1, Zenon
    <3>2. NodesAt(x)'[g] = row => g = h \/ NodesAt(x)'[g] = NodesAt(x)[g]
      BY <1>1, Zenon
    <3>3. g = h => NodesAt(x)'[g] = row
      BY <1>3, <3>1, Zenon
    <3> QED
      BY <3>1, <3>2, <3>3, Zenon
  <2>2. (k = h /\ NodesAt(y)'[k] = row) \/ (k # h /\ NodesAt(y)'[k] = NodesAt(y)[k] /\ NodesAt(y)[k].in)
    <3>1. NodesAt(y)'[k] = row \/ NodesAt(y)'[k] = NodesAt(y)[k]
      BY <1>1, Zenon
    <3>2. NodesAt(y)'[k] = row => k = h \/ NodesAt(y)'[k] = NodesAt(y)[k]
      BY <1>1, Zenon
    <3>3. k = h => NodesAt(y)'[k] = row
      BY <1>3, <3>1, Zenon
    <3> QED
      BY <3>1, <3>2, <3>3, Zenon
  <2>3. NodesAt(x)[g].in /\ NodesAt(y)[k].in => (NodesAt(x)[g].lease = NodesAt(y)[k].lease <=> g = k)
    BY DEF Tables, AddressesAreOwned
  <2> QED
    BY <1>4, <2>1, <2>2, <2>3, Zenon
<1>7. HardwareIsUnique'
  BY <1>1 DEF Tables, HardwareIsUnique
<1>8. /\ \A x \in Places, g \in Hosts : g # h => NodesAt(x)'[g] = NodesAt(x)[g]
      /\ \A x \in Places : NodesAt(x)'[h] \in {NodesAt(x)[h], row}
  BY <1>0, <1>1, Zenon
<1> QED
  BY <1>3, <1>5, <1>6, <1>7, <1>8, Zenon DEF Tables, h, row

\* A committed node keeps its address and its device.
NodesRemain ==
  \A g \in Hosts : nodes[g].in => /\ nodes'[g].in /\ nodes'[g].lease = nodes[g].lease
                                  /\ nodes'[g].device = nodes[g].device

\* A node was there before, for the same device.
NodesCome ==
  \A x \in Places, g \in Hosts : NodesAt(x)'[g].in =>
    \E y \in Places : /\ NodesAt(y)[g].in /\ NodesAt(y)[g].device = NodesAt(x)'[g].device
                      /\ NodesAt(y)[g].lease = NodesAt(x)'[g].lease

\* A copy of the node is written back.
Rewrites(p, h, row) ==
  /\ row.in /\ SameNode(row, h) /\ UNCHANGED devices
  /\ \A x \in Places : DevicesAt(x)' = DevicesAt(x)
  /\ \A x \in Places, g \in Hosts : NodesAt(x)'[g] = IF g = h /\ x = p THEN row ELSE NodesAt(x)[g]

\* Writing a copy of a node back changes neither its address nor its device.
LEMMA RewriteTables ==
  ASSUME Tables, NEW p \in Places, NEW h \in Hosts, NEW row, Rewrites(p, h, row)
  PROVE  Tables' /\ NodesRemain /\ NodesCome
<1>0. /\ row.in /\ SameNode(row, h) /\ UNCHANGED devices
      /\ \A x \in Places : DevicesAt(x)' = DevicesAt(x)
      /\ \A x \in Places, g \in Hosts : NodesAt(x)'[g] = IF g = h /\ x = p THEN row ELSE NodesAt(x)[g]
  BY Zenon DEF Rewrites
<1>1. NodesAt(0) = nodes /\ NodesAt(0)' = nodes' /\ 0 \in Places
  BY Zenon DEF NodesAt, Places
<1>2. NodesRemain
  <2> SUFFICES ASSUME NEW g \in Hosts, nodes[g].in
               PROVE  nodes'[g].in /\ nodes'[g].lease = nodes[g].lease /\ nodes'[g].device = nodes[g].device
    BY Zenon DEF NodesRemain
  <2>1. nodes'[g] = IF g = h /\ 0 = p THEN row ELSE nodes[g]
    BY <1>0, <1>1, Zenon
  <2> QED
    BY <1>0, <2>1, Zenon DEF SameNode
<1>3. NodesCome
  <2> SUFFICES ASSUME NEW x \in Places, NEW g \in Hosts, NodesAt(x)'[g].in
               PROVE  \E y \in Places : /\ NodesAt(y)[g].in /\ NodesAt(y)[g].device = NodesAt(x)'[g].device
                                        /\ NodesAt(y)[g].lease = NodesAt(x)'[g].lease
    BY Zenon DEF NodesCome
  <2>1. CASE g = h /\ x = p
    <3>1. NodesAt(x)'[g] = row
      BY <1>0, <2>1, Zenon
    <3>2. NodesAt(0)[g].in /\ NodesAt(0)[g].device = row.device /\ NodesAt(0)[g].lease = row.lease
      BY <1>0, <1>1, <2>1, Zenon DEF SameNode
    <3> QED
      BY <1>1, <3>1, <3>2, Zenon
  <2>2. CASE ~(g = h /\ x = p)
    <3>1. NodesAt(x)'[g] = NodesAt(x)[g]
      BY <1>0, <2>2, Zenon
    <3> QED
      BY <3>1, Zenon
  <2> QED
    BY <2>1, <2>2, Zenon
<1>4. AddressesAreOwned'
  BY <1>3, AddressesMove, Zenon DEF Tables, NodesCome
<1>5. HardwareIsUnique'
  BY <1>0 DEF Tables, HardwareIsUnique
<1>6. NodesHaveDevices'
  <2> SUFFICES ASSUME NEW x \in Places, NEW g \in Hosts, NodesAt(x)'[g].in
               PROVE  <<g, NodesAt(x)'[g].device>> \in devices' \cup DevicesAt(x)'
    BY Zenon DEF NodesHaveDevices
  <2>1. CASE g = h /\ x = p
    <3>1. NodesAt(x)'[g] = row
      BY <1>0, <2>1, Zenon
    <3>2. NodesAt(0)[g].in /\ NodesAt(0)[g].device = row.device
      BY <1>0, <1>1, <2>1, Zenon DEF SameNode
    <3>3. <<g, NodesAt(0)[g].device>> \in devices \cup DevicesAt(0) /\ DevicesAt(0) = devices
      BY <1>1, <3>2, Zenon DEF Tables, NodesHaveDevices, DevicesAt
    <3> QED
      BY <1>0, <3>1, <3>2, <3>3, Zenon
  <2>2. CASE ~(g = h /\ x = p)
    <3>1. NodesAt(x)'[g] = NodesAt(x)[g]
      BY <1>0, <2>2, Zenon
    <3> QED
      BY <1>0, <3>1, Zenon DEF Tables, NodesHaveDevices
  <2> QED
    BY <2>1, <2>2, Zenon
<1> QED
  BY <1>2, <1>3, <1>4, <1>5, <1>6, Zenon DEF Tables

\* SaveKey writes back a copy of the node.
LEMMA KeyTables ==
  ASSUME Shapes, Rows, NEW c \in Calls, KeySaved(c)
  PROVE  Tables' /\ NodesRemain /\ NodesCome
<1>1. PICK h, row, p : h = call[c].who /\ row = [call[c].row EXCEPT !.key = call[c].key] /\ p = IF q THEN tx ELSE 0
  BY Zenon
<1>2. CallShape(call[c]) /\ call[c].step = "saveKey" /\ "saveKey" \in Holding
  BY Zenon DEF KeySaved, Moves, At, Shapes, CallShapes, Holding
<1>3. h \in Hosts /\ row.in /\ SameNode(row, h)
  <2>1. SameNode(call[c].row, h) /\ call[c].row.in /\ DOMAIN call[c].row = RowFields /\ h \in Hosts
    BY <1>1, <1>2, Zenon DEF Rows, CopiesAgree, CallShape, RowShape
  <2> QED
    BY <1>1, <2>1, Zenon DEF SameNode, RowFields
<1>4. /\ UNCHANGED devices
      /\ IF q THEN client' = [client EXCEPT ![tx].nodes[h] = row] /\ UNCHANGED nodes
              ELSE nodes' = [nodes EXCEPT ![h] = row] /\ UNCHANGED client
  BY <1>1, Zenon DEF KeySaved
<1>5. /\ \A x \in Places : DevicesAt(x)' = DevicesAt(x)
      /\ \A x \in Places, g \in Hosts :
           NodesAt(x)'[g] = IF g = h /\ x = (IF q THEN tx ELSE 0) THEN row ELSE NodesAt(x)[g]
  BY <1>3, <1>4, NodeWritten, Zenon
<1>6. p \in Places
  BY <1>1, Where, Zenon DEF Places
<1>7. \A x \in Places, g \in Hosts : NodesAt(x)'[g] = IF g = h /\ x = p THEN row ELSE NodesAt(x)[g]
  BY <1>1, <1>5, Zenon
<1>8. Rewrites(p, h, row) /\ Tables
  BY <1>3, <1>4, <1>5, <1>7, Zenon DEF Rewrites, Rows
<1> QED
  BY <1>3, <1>6, <1>8, RewriteTables, Zenon

\* So does PUT /nodes/:id/region.
LEMMA RegionTables ==
  ASSUME Shapes, Rows, PutRegionSaves
  PROVE  Tables' /\ NodesRemain /\ NodesCome
<1>1. PICK h, row : h = operator.of /\ row = [operator.row EXCEPT !.region = 1]
  BY Zenon
<1>2. h \in Hosts /\ row.in /\ SameNode(row, h)
  <2>1. SameNode(operator.row, h) /\ operator.row.in /\ DOMAIN operator.row = RowFields /\ h \in Hosts
    BY <1>1, Zenon DEF PutRegionSaves, Rows, CopiesAgree, Shapes, TableShapes, RowShape
  <2> QED
    BY <1>1, <2>1, Zenon DEF SameNode, RowFields
<1>3. UNCHANGED <<devices, client>> /\ nodes' = [nodes EXCEPT ![h] = row] /\ DOMAIN nodes = Hosts
  BY <1>1, Zenon DEF PutRegionSaves, session, Shapes, TableShapes
<1>4. 0 \in Places /\ \A x \in Places : DevicesAt(x)' = DevicesAt(x)
  BY <1>3, Zenon DEF DevicesAt, Places
<1>5. \A x \in Places, g \in Hosts : NodesAt(x)'[g] = IF g = h /\ x = 0 THEN row ELSE NodesAt(x)[g]
  BY <1>3, Zenon DEF NodesAt
<1>6. Rewrites(0, h, row) /\ Tables
  BY <1>2, <1>3, <1>4, <1>5, Zenon DEF Rewrites, Rows
<1> QED
  BY <1>2, <1>4, <1>6, RewriteTables, Zenon

\* COMMIT moves the rows of the transaction to the tables.
LEMMA CommitTables ==
  ASSUME Shapes, Tables, NEW c \in Calls, Committed(c)
  PROVE  Tables' /\ NodesRemain /\ NodesCome
<1>0. /\ DOMAIN client = Calls /\ client' = [client EXCEPT ![c] = NoClient] /\ 0 \notin Calls
      /\ \A d \in Calls \ {c} : client'[d] = client[d]
      /\ client'[c] = NoClient /\ NoClient.devices = {} /\ \A h \in Hosts : ~NoClient.nodes[h].in
  <2>1. DOMAIN client = Calls /\ client' = [client EXCEPT ![c] = NoClient]
    BY Zenon DEF Committed, Shapes, ClientShapes
  <2> QED
    BY <2>1, MeshAssumption, Zenon DEF NoClient, NoRow
<1>1. CASE client[c].aborted
  <2>1. RowsStay
    BY <1>0, <1>1, Zenon DEF Committed, RowsStay
  <2>2. Tables' /\ \A x \in Places, h \in Hosts : NodesAt(x)'[h].in => NodesAt(x)'[h] = NodesAt(x)[h] /\ NodesAt(x)[h].in
    BY <1>0, <2>1, StayTables, Zenon
  <2>3. NodesCome
    BY <2>2, Zenon DEF NodesCome
  <2>4. NodesRemain
    BY <2>1, Zenon DEF NodesRemain, RowsStay
  <2> QED
    BY <2>2, <2>3, <2>4, Zenon
<1>2. CASE ~client[c].aborted
  <2>1. /\ devices' = devices \cup client[c].devices
        /\ nodes' = [h \in Hosts |-> IF client[c].nodes[h].in THEN client[c].nodes[h] ELSE nodes[h]]
    BY <1>2, Zenon DEF Committed
  <2>2. /\ DevicesAt(0) = devices /\ NodesAt(0) = nodes /\ 0 \in Places /\ c \in Places
        /\ DevicesAt(0)' = devices' /\ NodesAt(0)' = nodes'
        /\ DevicesAt(c) = client[c].devices /\ NodesAt(c) = client[c].nodes
        /\ DevicesAt(c)' = {} /\ \A h \in Hosts : ~NodesAt(c)'[h].in
    BY <1>0, Zenon DEF DevicesAt, NodesAt, Places
  <2>3. \A x \in Places : x # 0 /\ x # c => DevicesAt(x)' = DevicesAt(x) /\ NodesAt(x)' = NodesAt(x)
    BY <1>0, Zenon DEF DevicesAt, NodesAt, Places
  <2>4. HardwareIsUnique'
    <3>1. ASSUME NEW x \in Places, NEW d \in DevicesAt(x)'
          PROVE  \E u \in Places : d \in DevicesAt(u) /\ ((u = x /\ x # c) \/ (u = c /\ x = 0))
      <4>1. CASE x = c
        BY <2>2, <3>1, <4>1, Zenon
      <4>2. CASE x = 0
        <5>1. d \in DevicesAt(0) \/ d \in DevicesAt(c)
          BY <2>1, <2>2, <3>1, <4>2, Zenon
        <5>2. x # c
          BY <1>0, <4>2, Zenon
        <5> QED
          BY <2>2, <4>2, <5>1, <5>2, Zenon
      <4>3. CASE x # c /\ x # 0
        <5>1. DevicesAt(x)' = DevicesAt(x)
          BY <2>3, <4>3, Zenon
        <5>2. d \in DevicesAt(x)
          BY <3>1, <5>1, Zenon
        <5> QED
          BY <4>3, <5>2, Zenon
      <4> QED
        BY <4>1, <4>2, <4>3, Zenon
    <3> SUFFICES ASSUME NEW x \in Places, NEW y \in Places, NEW d \in DevicesAt(x)', NEW e \in DevicesAt(y)', d[1] = e[1]
                 PROVE  d = e /\ x = y
      BY Zenon DEF HardwareIsUnique
    <3>2. PICK u \in Places : d \in DevicesAt(u) /\ ((u = x /\ x # c) \/ (u = c /\ x = 0))
      BY <3>1, Zenon
    <3>3. PICK v \in Places : e \in DevicesAt(v) /\ ((v = y /\ y # c) \/ (v = c /\ y = 0))
      BY <3>1, Zenon
    <3>4. d = e /\ u = v
      <4>1. d \in DevicesAt(u) /\ e \in DevicesAt(v)
        BY <3>2, <3>3, Zenon
      <4> QED
        BY <4>1, Zenon DEF Tables, HardwareIsUnique
    <3> QED
      BY <3>2, <3>3, <3>4, Zenon
  <2>5. ASSUME NEW x \in Places, NEW g \in Hosts, NodesAt(x)'[g].in
        PROVE  \E y \in Places : /\ NodesAt(y)[g].in /\ NodesAt(x)'[g] = NodesAt(y)[g]
                                 /\ devices \cup DevicesAt(y) \subseteq devices' \cup DevicesAt(x)'
    <3>1. CASE x = 0
      <4>1. nodes'[g] = IF client[c].nodes[g].in THEN client[c].nodes[g] ELSE nodes[g]
        BY <2>1, Zenon
      <4>2. CASE client[c].nodes[g].in
        BY <2>1, <2>2, <2>5, <3>1, <4>1, <4>2, Zenon
      <4>3. CASE ~client[c].nodes[g].in
        BY <2>1, <2>2, <2>5, <3>1, <4>1, <4>3, Zenon
      <4> QED
        BY <4>2, <4>3, Zenon
    <3>2. CASE x # 0
      BY <2>1, <2>2, <2>3, <2>5, <3>2, Zenon
    <3> QED
      BY <3>1, <3>2, Zenon
  <2>6. NodesCome
    BY <2>5, Zenon DEF NodesCome
  <2>7. AddressesAreOwned'
    BY <2>6, AddressesMove, Zenon DEF Tables, NodesCome
  <2>8. NodesHaveDevices'
    <3> SUFFICES ASSUME NEW x \in Places, NEW g \in Hosts, NodesAt(x)'[g].in
                 PROVE  <<g, NodesAt(x)'[g].device>> \in devices' \cup DevicesAt(x)'
      BY Zenon DEF NodesHaveDevices
    <3>1. PICK y \in Places : /\ NodesAt(y)[g].in /\ NodesAt(x)'[g] = NodesAt(y)[g]
                              /\ devices \cup DevicesAt(y) \subseteq devices' \cup DevicesAt(x)'
      BY <2>5, Zenon
    <3>2. <<g, NodesAt(y)[g].device>> \in devices \cup DevicesAt(y)
      BY <3>1, Zenon DEF Tables, NodesHaveDevices
    <3> QED
      BY <3>1, <3>2, Zenon
  <2>9. NodesRemain
    <3> SUFFICES ASSUME NEW g \in Hosts, nodes[g].in
                 PROVE  nodes'[g].in /\ nodes'[g].lease = nodes[g].lease /\ nodes'[g].device = nodes[g].device
      BY Zenon DEF NodesRemain
    <3>1. nodes'[g] = IF client[c].nodes[g].in THEN client[c].nodes[g] ELSE nodes[g]
      BY <2>1, Zenon
    <3>2. CASE client[c].nodes[g].in
      <4>1. NodesAt(c)[g].lease = NodesAt(0)[g].lease
        BY <2>2, <3>2 DEF Tables, AddressesAreOwned
      <4> DEFINE d == <<g, NodesAt(c)[g].device>>
                 e == <<g, NodesAt(0)[g].device>>
      <4>2. d \in devices \cup DevicesAt(c) /\ e \in devices
        BY <2>2, <3>2, Zenon DEF Tables, NodesHaveDevices
      <4>3. d[1] = e[1]
        BY Zenon
      <4> HIDE DEF d, e
      <4>4. d = e
        BY <2>2, <4>2, <4>3, Zenon DEF Tables, HardwareIsUnique
      <4>5. NodesAt(c)[g].device = NodesAt(0)[g].device
        BY <4>4, Zenon DEF d, e
      <4> QED
        BY <2>2, <3>1, <3>2, <4>1, <4>5, Zenon
    <3>3. CASE ~client[c].nodes[g].in
      BY <3>1, <3>3, Zenon
    <3> QED
      BY <3>2, <3>3, Zenon
  <2> QED
    BY <2>4, <2>6, <2>7, <2>8, <2>9, Zenon DEF Tables
<1> QED
  BY <1>1, <1>2, Zenon

\* How a call that goes on changes from one part of its work to the next.
LEMMA GoesSteps ==
  ASSUME NEW c, Goes(c)
  PROVE  /\ call'[c].step \in Filling => call[c].step \in Filling
         /\ call'[c].step \in Certified \cup Rotating => call[c].step \in Certified \cup Rotating \/ CertificateIssued(c)
         /\ call'[c].step \in Holding => (call[c].step \in Holding /\ call'[c].row = call[c].row) \/ NodeRead(c)
<1>1. CASE LeaseTaken(c)
  BY <1>1, Zenon DEF LeaseTaken, Moves, At, Keeps, Filling, Certified, Rotating, Holding
<1>2. CASE Checked(c)
  BY <1>2, Zenon DEF Checked, Moves, At, Keeps, Filling, Certified, Rotating, Holding
<1>3. CASE Begun(c)
  BY <1>3, Zenon DEF Begun, Moves, At, Keeps, Filling, Certified, Rotating, Holding
<1>4. CASE DeviceSaved(c)
  BY <1>4, Zenon DEF DeviceSaved, Moves, At, Keeps, Filling, Certified, Rotating, Holding
<1>5. CASE NodeSaved(c)
  BY <1>5, Zenon DEF NodeSaved, Moves, At, Keeps, Filling, Certified, Rotating, Holding
<1>6. CASE Restored(c)
  BY <1>6, Zenon DEF Restored, Moves, At, Keeps, Filling, Certified, Rotating, Holding
<1>7. CASE Committed(c)
  BY <1>7, Zenon DEF Committed, Moves, At, Keeps, Filling, Certified, Rotating, Holding
<1>8. CASE CertificateIssued(c)
  BY <1>8, Zenon DEF CertificateIssued, Moves, At, Keeps, Filling, Certified, Rotating, Holding
<1>9. CASE PeersListed(c)
  BY <1>9, Zenon DEF PeersListed, Moves, At, Keeps, Filling, Certified, Rotating, Holding
<1>10. CASE Configured(c)
  BY <1>10, Zenon DEF Configured, Moves, At, Keeps, Filling, Certified, Rotating, Holding
<1>11. CASE NodeRead(c)
  BY <1>11, Zenon DEF NodeRead, Moves, At, Keeps, Filling, Certified, Rotating, Holding
<1>12. CASE EpochRead(c)
  BY <1>12, Zenon DEF EpochRead, Moves, At, Keeps, Filling, Certified, Rotating, Holding
<1>13. CASE EpochInserted(c)
  BY <1>13, Zenon DEF EpochInserted, Moves, At, Keeps, Filling, Certified, Rotating, Holding
<1>14. CASE EpochLost(c)
  BY <1>14, Zenon DEF EpochLost, Moves, At, Keeps, Filling, Certified, Rotating, Holding
<1>15. CASE KeySaved(c)
  BY <1>15, Zenon DEF KeySaved, Moves, At, Keeps, Filling, Certified, Rotating, Holding
<1>16. CASE Replanned(c)
  BY <1>16, Zenon DEF Replanned, Moves, At, Keeps, Filling, Certified, Rotating, Holding
<1> QED
  BY <1>1, <1>2, <1>3, <1>4, <1>5, <1>6, <1>7, <1>8, <1>9, <1>10, <1>11, <1>12, <1>13, <1>14, <1>15, <1>16, ZenonT(40) DEF Goes

\* Copies of nodes still agree when the nodes remain.
LEMMA CopiesStay ==
  ASSUME CopiesAgree, NodesRemain, Shapes,
         \A c \in Calls : \/ call'[c] = call[c] \/ call'[c].step \notin Certified \cup Rotating
                          \/ /\ nodes'[call'[c].who].in
                             /\ call'[c].step \in Holding => SameNode(call[c].row, call[c].who)',
         operator'.row.in => operator' = operator \/ SameNode(operator.row, operator.of)',
         \A h \in Hosts : host'[h].up => host[h].up \/ nodes'[h].in
  PROVE  CopiesAgree'
<1>1. \A c \in Calls : call[c].who \in Hosts
  BY Zenon DEF Shapes, CallShapes, CallShape
<1>2. \A row : \A g \in Hosts : SameNode(row, g) => SameNode(row, g)'
  BY Zenon DEF SameNode, NodesRemain
<1>3. ASSUME NEW c \in Calls
      PROVE  /\ call'[c].step \in Certified \cup Rotating => nodes'[call'[c].who].in
             /\ call'[c].step \in Holding => SameNode(call[c].row, call[c].who)'
  <2>1. "epoch" \in Rotating /\ "insert" \in Rotating /\ "saveKey" \in Rotating
    BY Zenon DEF Rotating
  <2>2. \A s \in Holding : s \in Certified \cup Rotating
    BY <2>1, Zenon DEF Holding
  <2>3. CASE call'[c] = call[c]
    <3>1. call[c].step \in Certified \cup Rotating => nodes'[call[c].who].in
      BY <1>1, Zenon DEF CopiesAgree, NodesRemain
    <3>2. call[c].step \in Holding => SameNode(call[c].row, call[c].who)'
      <4>1. PICK row, g : row = call[c].row /\ g = call[c].who
        BY Zenon
      <4>2. call[c].step \in Holding => SameNode(row, g)'
        BY <1>1, <1>2, <4>1, Zenon DEF CopiesAgree
      <4> QED
        BY <2>3, <4>1, <4>2, Zenon DEF SameNode
    <3> QED
      BY <2>3, <3>1, <3>2, Zenon
  <2>4. CASE call'[c] # call[c]
    BY <2>2, <2>4, Zenon
  <2> QED
    BY <2>3, <2>4, Zenon
<1>4. operator'.row.in => SameNode(operator.row, operator.of)'
  <2>1. CASE operator' = operator
    <3>1. PICK row, g : row = operator.row /\ g = operator.of
      BY Zenon
    <3>2. g \in Hosts /\ (row.in => SameNode(row, g)')
      BY <1>2, <3>1, Zenon DEF CopiesAgree, Shapes, TableShapes
    <3> QED
      BY <2>1, <3>1, <3>2, Zenon DEF SameNode
  <2>2. CASE operator' # operator
    BY <2>2, Zenon
  <2> QED
    BY <2>1, <2>2, Zenon
<1>5. \A h \in Hosts : host'[h].up => nodes'[h].in
  BY Zenon DEF CopiesAgree, NodesRemain
<1> QED
  BY <1>3, <1>4, <1>5, Zenon DEF CopiesAgree

\* A registration has no node yet, when nodes come from nodes.
LEMMA InsertedStays ==
  ASSUME Shapes, Tables, InsertedOnce, NodesCome, CallShapes',
         \A c \in Calls : call'[c].step \in Filling =>
           \/ call[c].step \in Filling /\ call'[c].who = call[c].who /\ call'[c].key = call[c].key
           \/ call'[c].key = keys + 1
  PROVE  InsertedOnce'
<1> SUFFICES ASSUME NEW x \in Places, NEW c \in Calls, call'[c].step \in Filling, NodesAt(x)'[call'[c].who].in
             PROVE  NodesAt(x)'[call'[c].who].device # call'[c].key
  BY Zenon DEF InsertedOnce
<1>1. PICK g \in Hosts : g = call'[c].who
  BY Zenon DEF CallShapes, CallShape
<1>2. PICK y \in Places : NodesAt(y)[g].in /\ NodesAt(y)[g].device = NodesAt(x)'[g].device
  <2>1. NodesAt(x)'[g].in
    BY <1>1, Zenon
  <2> QED
    BY <2>1, Zenon DEF NodesCome
<1>3. CASE call'[c].key = keys + 1
  <2>1. <<g, NodesAt(y)[g].device>> \in devices \cup DevicesAt(y)
    BY <1>2, Zenon DEF Tables, NodesHaveDevices
  <2>2. devices \cup DevicesAt(y) \subseteq Hosts \X (1..keys) /\ keys \in Nat
    BY Zenon DEF Shapes, TableShapes, ClientShapes, DevicesAt, Places
  <2>3. NodesAt(y)[g].device \in 1..keys
    BY <2>1, <2>2, Zenon
  <2>4. NodesAt(y)[g].device # keys + 1
    BY <2>2, <2>3
  <2> QED
    BY <1>1, <1>2, <1>3, <2>4, Zenon
<1>4. CASE call[c].step \in Filling /\ call'[c].who = call[c].who /\ call'[c].key = call[c].key
  <2>1. NodesAt(y)[g].device # call[c].key
    BY <1>1, <1>2, <1>4, Zenon DEF InsertedOnce
  <2> QED
    BY <1>1, <1>2, <1>4, <2>1, Zenon
<1> QED
  BY <1>3, <1>4, Zenon

\* A step of a call that writes no row.
LEMMA GoesStay ==
  ASSUME Shapes, NEW c \in Calls, Goes(c),
         ~DeviceSaved(c), ~NodeSaved(c), ~KeySaved(c), ~Committed(c)
  PROVE  RowsStay
<1>1. CASE LeaseTaken(c) \/ Checked(c) \/ Restored(c) \/ CertificateIssued(c) \/ PeersListed(c) \/ Configured(c)
           \/ NodeRead(c) \/ EpochRead(c) \/ EpochInserted(c) \/ EpochLost(c) \/ Replanned(c)
  <2>1. UNCHANGED <<devices, nodes, client>>
    BY <1>1, Zenon DEF LeaseTaken, Checked, Restored, CertificateIssued, PeersListed, Configured, NodeRead,
         EpochRead, EpochInserted, EpochLost, Replanned, Quiet, session
  <2> QED
    BY <2>1, Zenon DEF RowsStay
<1>2. CASE Begun(c)
  <2>1. UNCHANGED <<devices, nodes>> /\ client' = [client EXCEPT ![c].open = TRUE]
    BY <1>2, Zenon DEF Begun, Quiet
  <2>2. \A d \in Calls : client'[d].devices = client[d].devices /\ client'[d].nodes = client[d].nodes
    BY <2>1, Zenon DEF Shapes, ClientShapes, ClientShape, ClientFields
  <2> QED
    BY <2>1, <2>2, Zenon DEF RowsStay
<1> QED
  BY <1>1, <1>2, Zenon DEF Goes

\* What a statement sees of an enrolled host is its node, or a copy with its address and
\* its device.
LEMMA SeenIsSame ==
  ASSUME Shapes, Tables, NEW h \in Hosts, nodes[h].in
  PROVE  SameNode(SeenNodes[h], h)
<1>1. CASE q /\ client[tx].nodes[h].in
  <2>1. tx \in Calls /\ tx \in Places /\ 0 \in Places
    BY <1>1, Where, Zenon DEF Places
  <2>2. /\ NodesAt(0) = nodes /\ DevicesAt(0) = devices /\ SeenNodes[h] = NodesAt(tx)[h]
        /\ NodesAt(tx)[h].in /\ NodesAt(0)[h].in
    BY <1>1, <2>1, Where, Zenon DEF SeenNodes
  <2>3. NodesAt(tx)[h].lease = NodesAt(0)[h].lease
    BY <2>1, <2>2 DEF Tables, AddressesAreOwned
  <2> DEFINE d == <<h, NodesAt(tx)[h].device>>
             e == <<h, NodesAt(0)[h].device>>
  <2>4. d \in devices \cup DevicesAt(tx) /\ e \in devices
    BY <2>1, <2>2, Zenon DEF Tables, NodesHaveDevices
  <2>5. d[1] = e[1]
    BY Zenon
  <2> HIDE DEF d, e
  <2>6. d = e
    BY <2>1, <2>2, <2>4, <2>5, Zenon DEF Tables, HardwareIsUnique
  <2>7. NodesAt(tx)[h].device = NodesAt(0)[h].device
    BY <2>6, Zenon DEF d, e
  <2> QED
    BY <2>2, <2>3, <2>7, Zenon DEF SameNode
<1>2. CASE ~(q /\ client[tx].nodes[h].in)
  <2>1. SeenNodes[h] = nodes[h]
    BY <1>2, Zenon DEF SeenNodes
  <2> QED
    BY <2>1, Zenon DEF SameNode
<1> QED
  BY <1>1, <1>2, Zenon

\* A step that leaves the rows in place.
LEMMA StayRows ==
  ASSUME Shapes, Tables, RowsStay
  PROVE  Tables' /\ NodesRemain /\ NodesCome
<1>1. 0 \notin Calls
  BY MeshAssumption, Zenon
<1>2. Tables' /\ \A x \in Places, h \in Hosts : NodesAt(x)'[h].in => NodesAt(x)'[h] = NodesAt(x)[h] /\ NodesAt(x)[h].in
  BY <1>1, StayTables, Zenon
<1>3. NodesCome
  BY <1>2, Zenon DEF NodesCome
<1>4. NodesRemain
  BY Zenon DEF NodesRemain, RowsStay
<1> QED
  BY <1>2, <1>3, <1>4, Zenon

\* The rows stay as they should be in every step.
LEMMA RowsStep ==
  ASSUME Shapes, Rows, [Next]_vars
  PROVE  Rows' /\ NodesRemain
<1>0. CallShapes' /\ Tables /\ InsertedOnce /\ CopiesAgree
  BY CallStep, Zenon DEF Rows
<1>1. NoCall.step \notin Filling /\ NoCall.step \notin Certified \cup Rotating /\ ~NoRow.in
  BY Zenon DEF NoCall, NoRow, Filling, Certified, Rotating
<1>2. CASE Idle \/ PutRegionReads \/ PutRegionSaves \/ \E h \in Hosts : LoseAnswer(h)
  <2>1. UNCHANGED <<call, client>>
    BY <1>2, Zenon DEF Idle, PutRegionReads, PutRegionSaves, LoseAnswer, session
  <2>2. \A h \in Hosts : host'[h].up = host[h].up
    <3>1. CASE UNCHANGED host
      BY <3>1, Zenon
    <3>2. ASSUME NEW h \in Hosts, LoseAnswer(h)
          PROVE  \A g \in Hosts : host'[g].up = host[g].up
      <4>1. host' = [host EXCEPT ![h].waits = 0]
        BY <3>2, Zenon DEF LoseAnswer
      <4> QED
        BY <4>1, ZenonT(40) DEF Shapes, HostShapes, HostFields
    <3> QED
      BY <1>2, <3>1, <3>2, Zenon DEF Idle, PutRegionReads, PutRegionSaves
  <2>3. Tables' /\ NodesRemain /\ NodesCome
    <3>1. CASE PutRegionSaves
      BY <3>1, RegionTables, Zenon
    <3>2. CASE ~PutRegionSaves
      <4>1. UNCHANGED <<devices, nodes>>
        BY <1>2, <3>2, Zenon DEF Idle, Quiet, PutRegionReads, LoseAnswer, tables
      <4>2. RowsStay
        BY <2>1, <4>1, Zenon DEF RowsStay
      <4> QED
        BY <1>0, <4>2, StayRows, Zenon
    <3> QED
      BY <3>1, <3>2, Zenon
  <2>4. operator'.row.in => operator' = operator \/ SameNode(operator.row, operator.of)'
    <3>1. CASE PutRegionSaves
      <4>1. operator'.row = NoRow
        BY <3>1, Zenon DEF PutRegionSaves
      <4> QED
        BY <1>1, <4>1, Zenon
    <3>2. CASE PutRegionReads
      <4>1. PICK h \in Hosts : nodes[h].in /\ operator' = [of |-> h, row |-> nodes[h]]
        BY <3>2, Zenon DEF PutRegionReads
      <4>2. operator'.row = nodes[h] /\ operator'.of = h /\ nodes' = nodes
        BY <3>2, <4>1, Zenon DEF PutRegionReads, tables
      <4> QED
        BY <4>1, <4>2, Zenon DEF SameNode
    <3>3. CASE ~PutRegionSaves /\ ~PutRegionReads
      BY <1>2, <3>3, Zenon DEF Idle, LoseAnswer
    <3> QED
      BY <3>1, <3>2, <3>3, Zenon
  <2>5. InsertedOnce'
    <3>1. \A c \in Calls : call'[c].step \in Filling =>
            call[c].step \in Filling /\ call'[c].who = call[c].who /\ call'[c].key = call[c].key
      BY <2>1, Zenon
    <3> QED
      BY <1>0, <2>3, <3>1, InsertedStays, Zenon
  <2>6. CopiesAgree'
    BY <1>0, <2>1, <2>2, <2>3, <2>4, CopiesStay, ZenonT(40)
  <2> QED
    BY <2>3, <2>5, <2>6, Zenon DEF Rows
<1>3. CASE Crash
  <2>1. /\ \A c \in Calls : call'[c] = NoCall /\ client'[c] = NoClient
        /\ UNCHANGED <<devices, nodes, operator>> /\ host' = [h \in Hosts |-> [host[h] EXCEPT !.waits = 0]]
    BY <1>3, Zenon DEF Crash
  <2>2. \A h \in Hosts : host'[h].up = host[h].up
    BY <2>1, Zenon DEF Shapes, HostShapes, HostFields
  <2>3. RowsStay
    BY <2>1, Zenon DEF RowsStay
  <2>4. Tables' /\ NodesRemain /\ NodesCome
    BY <1>0, <2>3, StayRows, Zenon
  <2>5. InsertedOnce'
    BY <1>0, <1>1, <2>1, <2>4, InsertedStays, Zenon
  <2>6. \A c \in Calls : call'[c].step \notin Certified \cup Rotating
    BY <1>1, <2>1, Zenon
  <2>7. CopiesAgree'
    BY <1>0, <2>1, <2>2, <2>4, <2>6, CopiesStay, Zenon
  <2> QED
    BY <2>4, <2>5, <2>7, Zenon DEF Rows
<1>4. ASSUME NEW c \in Calls, Ends(c),
             \A h \in Hosts : host'[h].up => host[h].up \/ nodes'[h].in
      PROVE  Rows' /\ NodesRemain
  <2>1. /\ call'[c] = NoCall /\ \A d \in Calls \ {c} : call'[d] = call[d]
        /\ UNCHANGED <<devices, nodes, operator>>
    BY <1>4, Zenon DEF Ends, OthersStay
  <2>2. RowsStay
    BY <1>4, <2>1, Zenon DEF RowsStay, Ends, Dropped
  <2>3. Tables' /\ NodesRemain /\ NodesCome
    BY <1>0, <2>2, StayRows, Zenon
  <2>4. InsertedOnce'
    <3>1. \A d \in Calls : call'[d].step \in Filling =>
            call[d].step \in Filling /\ call'[d].who = call[d].who /\ call'[d].key = call[d].key
      BY <1>1, <2>1, Zenon
    <3> QED
      BY <1>0, <2>3, <3>1, InsertedStays, Zenon
  <2>5. \A d \in Calls : call'[d] = call[d] \/ call'[d].step \notin Certified \cup Rotating
    BY <1>1, <2>1, Zenon
  <2>6. CopiesAgree'
    BY <1>0, <1>4, <2>1, <2>3, <2>5, CopiesStay, Zenon
  <2> QED
    BY <2>3, <2>4, <2>6, Zenon DEF Rows
<1>5. ASSUME NEW c \in Calls, Reply(c) \/ Answer(c), Ends(c)
      PROVE  Rows' /\ NodesRemain
  <2> DEFINE h == call[c].who
  <2>1. At(c, "reply") => nodes[h].in
    <3>1. "reply" \in Certified \cup Rotating
      BY Zenon DEF Certified
    <3> QED
      BY <1>0, <3>1, Zenon DEF CopiesAgree, At
  <2>2. \A g \in Hosts : host'[g].up => host[g].up \/ (g = h /\ At(c, "reply"))
    <3>1. CASE Reply(c)
      <4>1. \/ host' = host
            \/ host' = [host EXCEPT ![h].up = TRUE, ![h].key = call[c].key, ![h].waits = 0] /\ At(c, "reply")
        BY <3>1, Zenon DEF Reply
      <4> HIDE DEF h
      <4> QED
        BY <4>1, Zenon DEF Shapes, HostShapes, HostFields
    <3>2. CASE Answer(c)
      <4>1. host' = host \/ host' = [host EXCEPT ![h].key = call[c].key, ![h].waits = 0]
        BY <3>2, Zenon DEF Answer
      <4> HIDE DEF h
      <4> QED
        BY <4>1 DEF Shapes, HostShapes, HostFields
    <3> QED
      BY <1>5, <3>1, <3>2, Zenon
  <2>3. nodes' = nodes
    BY <1>5, Zenon DEF Ends
  <2> QED
    BY <1>4, <1>5, <2>1, <2>2, <2>3, Zenon
<1>6. ASSUME NEW c \in Calls, NEW h \in Hosts, NEW step \in {"lease", "read"}, Opens(h, c, step)
      PROVE  Rows' /\ NodesRemain
  <2>1. /\ call'[c].who = h /\ call'[c].key = keys + 1 /\ call'[c].step = step
        /\ \A d \in Calls \ {c} : call'[d] = call[d]
        /\ UNCHANGED <<devices, nodes, client, operator>>
    BY <1>6 DEF Opens, NoCall, OthersStay, Quiet, session
  <2>2. \A g \in Hosts : host'[g].up = host[g].up
    <3>1. host' = [host EXCEPT ![h].waits = c]
      BY <1>6, Zenon DEF Opens
    <3> QED
      BY <3>1, ZenonT(40) DEF Shapes, HostShapes, HostFields
  <2>3. RowsStay
    BY <2>1, Zenon DEF RowsStay
  <2>4. Tables' /\ NodesRemain /\ NodesCome
    BY <1>0, <2>3, StayRows, Zenon
  <2>5. InsertedOnce'
    <3>1. \A d \in Calls : call'[d].step \in Filling =>
            \/ call[d].step \in Filling /\ call'[d].who = call[d].who /\ call'[d].key = call[d].key
            \/ call'[d].key = keys + 1
      BY <2>1, Zenon
    <3> QED
      BY <1>0, <2>4, <3>1, InsertedStays, Zenon
  <2>6. call'[c].step \notin Holding
    BY <2>1, Zenon DEF Holding
  <2>7. call'[c].step \in Certified \cup Rotating => nodes'[call'[c].who].in
    <3>1. step = "read" => nodes[h].in
      BY <1>0, <1>6, Zenon DEF Opens, CopiesAgree
    <3>2. step \in Certified \cup Rotating => step = "read"
      BY Zenon DEF Certified, Rotating
    <3> QED
      BY <2>1, <3>1, <3>2, Zenon
  <2>8. \A d \in Calls : \/ call'[d] = call[d] \/ call'[d].step \notin Certified \cup Rotating
                         \/ /\ nodes'[call'[d].who].in
                            /\ call'[d].step \in Holding => SameNode(call[d].row, call[d].who)'
    BY <2>1, <2>6, <2>7, Zenon
  <2>9. CopiesAgree'
    BY <1>0, <2>1, <2>2, <2>4, <2>8, CopiesStay, Zenon
  <2> QED
    BY <2>4, <2>5, <2>9, Zenon DEF Rows
<1>7. ASSUME NEW c \in Calls, Goes(c)
      PROVE  Rows' /\ NodesRemain
  <2>0. Continues(c) /\ call[c].who \in Hosts
    BY <1>7, GoesContinues, Zenon DEF Shapes, CallShapes, CallShape
  <2>1. /\ \A d \in Calls \ {c} : call'[d] = call[d]
        /\ call'[c].who = call[c].who /\ call'[c].key = call[c].key /\ UNCHANGED <<host, operator>>
    BY <2>0, Zenon DEF Continues, OthersStay
  <2>2. \A d \in Calls : call'[d].step \in Filling =>
          call[d].step \in Filling /\ call'[d].who = call[d].who /\ call'[d].key = call[d].key
    <3>1. call'[c].step \in Filling => call[c].step \in Filling
      BY <1>7, GoesSteps, Zenon
    <3> QED
      BY <2>1, <3>1, Zenon
  <2>3. ASSUME NodeSaved(c) PROVE Tables' /\ NodesRemain /\ InsertedOnce'
    <3> DEFINE h == call[c].who
    <3>1. /\ Tables'
          /\ \A x \in Places : ~NodesAt(x)[h].in
          /\ \A x \in Places, g \in Hosts : g # h => NodesAt(x)'[g] = NodesAt(x)[g]
          /\ \A x \in Places : NodesAt(x)'[h] \in {NodesAt(x)[h], call[c].row}
      BY <1>0, <2>3, NodeTables, Zenon
    <3>2. NodesAt(0) = nodes /\ NodesAt(0)' = nodes' /\ 0 \in Places
      BY Zenon DEF NodesAt, Places
    <3>3. NodesRemain
      BY <3>1, <3>2, Zenon DEF NodesRemain
    <3>4. InsertedOnce'
      <4> SUFFICES ASSUME NEW x \in Places, NEW d \in Calls, call'[d].step \in Filling, NodesAt(x)'[call'[d].who].in
                   PROVE  NodesAt(x)'[call'[d].who].device # call'[d].key
        BY Zenon DEF InsertedOnce
      <4>1. call[d].step \in Filling /\ call'[d].who = call[d].who /\ call'[d].key = call[d].key
        BY <2>2, Zenon
      <4>2. call[d].who \in Hosts
        BY Zenon DEF Shapes, CallShapes, CallShape
      <4>3. CASE call[d].who # h
        <5>1. NodesAt(x)'[call[d].who] = NodesAt(x)[call[d].who]
          BY <3>1, <4>2, <4>3, Zenon
        <5>2. NodesAt(x)[call[d].who].in => NodesAt(x)[call[d].who].device # call[d].key
          BY <1>0, <4>1, Zenon DEF InsertedOnce
        <5> QED
          BY <4>1, <5>1, <5>2, Zenon
      <4>4. CASE call[d].who = h
        <5>1. NodesAt(x)'[h] = call[c].row
          BY <3>1, <4>1, <4>4, Zenon
        <5>2. call[c].row.device = call[c].key /\ ~At(c, "none") /\ ~At(d, "none") /\ d # c
          <6>1. At(c, "node") /\ call'[c].step = "restore"
            BY <2>3, Zenon DEF NodeSaved, Moves
          <6>2. call[c].step \in Leased /\ ~At(c, "none") /\ call'[c].step \notin Filling
            BY <6>1, Zenon DEF At, Leased, Filling
          <6>3. ~At(d, "none")
            BY <4>1, Zenon DEF At, Filling
          <6> QED
            BY <6>2, <6>3, Zenon DEF Shapes, CallShapes, CallShape
        <5>3. call[d].key # call[c].key
          BY <5>2, Zenon DEF Shapes, OwnKeys
        <5> QED
          BY <4>1, <4>4, <5>1, <5>2, <5>3, Zenon
      <4> QED
        BY <4>3, <4>4, Zenon
    <3> QED
      BY <3>1, <3>3, <3>4, Zenon
  <2>4. ASSUME ~NodeSaved(c) PROVE Tables' /\ NodesRemain /\ InsertedOnce'
    <3>1. Tables' /\ NodesRemain /\ NodesCome
      <4>1. CASE DeviceSaved(c)
        <5>1. Tables' /\ \A x \in Places : NodesAt(x)' = NodesAt(x)
          BY <1>0, <4>1, DeviceTables, Zenon
        <5>2. nodes' = nodes
          BY <4>1, Zenon DEF DeviceSaved
        <5>3. NodesCome
          BY <5>1, Zenon DEF NodesCome
        <5> QED
          BY <5>1, <5>2, <5>3, Zenon DEF NodesRemain
      <4>2. CASE KeySaved(c)
        BY <4>2, KeyTables, Zenon
      <4>3. CASE Committed(c)
        BY <1>0, <4>3, CommitTables, Zenon
      <4>4. CASE ~DeviceSaved(c) /\ ~KeySaved(c) /\ ~Committed(c)
        BY <1>0, <1>7, <2>4, <4>4, GoesStay, StayRows, Zenon
      <4> QED
        BY <4>1, <4>2, <4>3, <4>4, Zenon
    <3>2. InsertedOnce'
      BY <1>0, <2>2, <3>1, InsertedStays, Zenon
    <3> QED
      BY <3>1, <3>2, Zenon
  <2>5. Tables' /\ NodesRemain /\ InsertedOnce'
    BY <2>3, <2>4, Zenon
  <2>6. call'[c].step \in Certified \cup Rotating => nodes'[call[c].who].in
    <3>1. call'[c].step \in Certified \cup Rotating => nodes[call[c].who].in
      BY <1>0, <1>7, GoesSteps, Zenon DEF CopiesAgree, CertificateIssued
    <3> QED
      BY <2>0, <2>5, <3>1, Zenon DEF NodesRemain
  <2>7. call'[c].step \in Holding => SameNode(call[c].row, call[c].who)'
    <3>1. PICK row, g : row = call'[c].row /\ g = call[c].who
      BY Zenon
    <3>2. call'[c].step \in Holding => SameNode(row, g)
      <4>1. CASE NodeRead(c)
        <5>1. nodes[g].in /\ row = SeenNodes[g] /\ g \in Hosts
          <6>1. call[c].step \in Certified \cup Rotating
            BY <4>1, Zenon DEF NodeRead, Moves, At, Rotating
          <6> QED
            BY <1>0, <2>0, <3>1, <4>1, <6>1, Zenon DEF NodeRead, CopiesAgree
        <5> QED
          BY <1>0, <5>1, SeenIsSame, Zenon
      <4>2. CASE ~NodeRead(c)
        BY <1>0, <1>7, <3>1, <4>2, GoesSteps, Zenon DEF CopiesAgree
      <4> QED
        BY <4>1, <4>2, Zenon
    <3>3. SameNode(row, g) => SameNode(row, g)'
      BY <2>0, <2>5, <3>1, Zenon DEF SameNode, NodesRemain
    <3> QED
      BY <2>1, <3>1, <3>2, <3>3, Zenon DEF SameNode
  <2>8. \A d \in Calls : \/ call'[d] = call[d] \/ call'[d].step \notin Certified \cup Rotating
                         \/ /\ nodes'[call'[d].who].in
                            /\ call'[d].step \in Holding => SameNode(call[d].row, call[d].who)'
    BY <2>1, <2>6, <2>7, Zenon
  <2>9. CopiesAgree'
    BY <1>0, <2>1, <2>5, <2>8, CopiesStay, Zenon
  <2> QED
    BY <2>5, <2>9, Zenon DEF Rows
<1> QED
  BY StepKinds, <1>2, <1>3, <1>4, <1>5, <1>6, <1>7, Zenon DEF Fails

-----------------------------------------------------------------------------
(* Enrolment is atomic: a transaction that no other call used holds the    *)
(* rows of its own call, as far as the call has got.                       *)

Saved(c) ==
  LET t == client[c]
  IN  /\ At(c, "device") => t.devices = {} /\ \A h \in Hosts : ~t.nodes[h].in
      /\ At(c, "node") => t.devices = {Device(c)} /\ \A h \in Hosts : ~t.nodes[h].in
      /\ call[c].step \in {"restore", "commit"} =>
           /\ t.devices = {Device(c)} /\ t.nodes[call[c].who] = call[c].row
           /\ \A h \in Hosts : t.nodes[h].in => h = call[c].who

Atomic == EnrolmentIsAtomic /\ (~foreign => \A c \in Calls : Saved(c))

\* The devices of the enrolled hosts.
DevicesOfNodes == {<<h, nodes[h].device>> : h \in {g \in Hosts : nodes[g].in}}

\* A transaction that nobody touches still holds the rows of its call.
LEMMA SavedStays ==
  ASSUME NEW d \in Calls, Saved(d), call'[d] = call[d],
         client'[d].devices = client[d].devices, client'[d].nodes = client[d].nodes
  PROVE  Saved(d)'
  BY Zenon DEF Saved, At, Device

\* A call outside transaction() has nothing saved.
LEMMA NothingSaved ==
  ASSUME NEW d \in Calls, call'[d].step \notin InTransaction
  PROVE  Saved(d)'
  BY Zenon DEF Saved, At, InTransaction

\* Writing back a row of an enrolled host changes no device.
LEMMA DevicesRewritten ==
  ASSUME NEW h \in Hosts, NEW row, row.in, nodes[h].in, row.device = nodes[h].device,
         nodes' = [nodes EXCEPT ![h] = row], DOMAIN nodes = Hosts
  PROVE  DevicesOfNodes' = DevicesOfNodes
<1>1. \A g \in Hosts : nodes'[g].in <=> nodes[g].in
  BY Zenon
<1>2. \A g \in Hosts : nodes'[g].device = nodes[g].device
  BY Zenon
<1>3. \A d : d \in DevicesOfNodes' <=> \E g \in Hosts : nodes'[g].in /\ d = <<g, nodes'[g].device>>
  BY Zenon DEF DevicesOfNodes
<1>4. \A d : d \in DevicesOfNodes <=> \E g \in Hosts : nodes[g].in /\ d = <<g, nodes[g].device>>
  BY Zenon DEF DevicesOfNodes
<1>5. \A d : d \in DevicesOfNodes' <=> d \in DevicesOfNodes
  BY <1>1, <1>2, <1>3, <1>4, SMTT(20)
<1> QED
  BY <1>5, Zenon

\* A statement that strays from no transaction runs in the one of its call, or in none.
LEMMA InOwn ==
  ASSUME Shapes, NEW c \in Calls, Strays(c), ~foreign'
  PROVE  ~foreign /\ (q => tx = c) /\ (client[c].open => q /\ tx = c)
<1>1. 0 \notin Calls
  BY MeshAssumption, Zenon
<1>2. ~foreign /\ (tx = 0 \/ tx = c) /\ (client[c].open => tx = c)
  BY Zenon DEF Strays
<1> QED
  BY <1>1, <1>2, Zenon DEF q

\* Enrolment stays atomic in every step of a call.
LEMMA AtomicGoes ==
  ASSUME Shapes, Rows, Atomic, NEW c \in Calls, Goes(c), ~foreign'
  PROVE  devices' = DevicesOfNodes' /\ \A d \in Calls : Saved(d)'
<1>0. Continues(c) /\ ~foreign /\ (\A d \in Calls : Saved(d)) /\ devices = DevicesOfNodes /\ 0 \notin Calls
  <2>1. Continues(c) /\ 0 \notin Calls
    BY GoesContinues, MeshAssumption, Zenon
  <2> QED
    BY <2>1, Zenon DEF Continues, Atomic, EnrolmentIsAtomic, DevicesOfNodes
<1>1. \A d \in Calls \ {c} : call'[d] = call[d]
  BY <1>0, Zenon DEF Continues, OthersStay
<1>2. CASE LeaseTaken(c) \/ Checked(c) \/ CertificateIssued(c) \/ PeersListed(c) \/ Configured(c)
           \/ NodeRead(c) \/ EpochRead(c) \/ EpochInserted(c) \/ EpochLost(c) \/ Replanned(c)
  <2>1. UNCHANGED <<devices, nodes, client>>
    BY <1>2, Zenon DEF LeaseTaken, Checked, CertificateIssued, PeersListed, Configured, NodeRead,
         EpochRead, EpochInserted, EpochLost, Replanned, Quiet, session
  <2>2. call'[c].step \notin InTransaction
    BY <1>2, Zenon DEF LeaseTaken, Checked, CertificateIssued, PeersListed, Configured, NodeRead,
         EpochRead, EpochInserted, EpochLost, Replanned, Moves, InTransaction
  <2>3. \A d \in Calls \ {c} : Saved(d)'
    BY <1>0, <1>1, <2>1, SavedStays, Zenon
  <2> QED
    BY <1>0, <2>1, <2>2, <2>3, NothingSaved, Zenon DEF DevicesOfNodes
<1>3. CASE Begun(c) \/ Restored(c)
  <2>1. UNCHANGED <<devices, nodes>> /\ (client' = client \/ client' = [client EXCEPT ![c].open = TRUE])
    BY <1>3, Zenon DEF Begun, Restored, Quiet
  <2>2. \A d \in Calls : client'[d].devices = client[d].devices /\ client'[d].nodes = client[d].nodes
    BY <2>1 DEF Shapes, ClientShapes, ClientShape, ClientFields
  <2>3. \A d \in Calls \ {c} : Saved(d)'
    BY <1>0, <1>1, <2>2, SavedStays, Zenon
  <2>4. Saved(c)'
    <3>1. CASE Begun(c)
      <4>1. client[c] = NoClient /\ call'[c].step = "device"
        <5>1. call[c].step \notin InTransaction
          BY <3>1, Zenon DEF Begun, Moves, At, InTransaction
        <5> QED
          BY <3>1, <5>1, Zenon DEF Begun, Moves, Shapes, ClientShapes
      <4>2. client[c].devices = {} /\ \A h \in Hosts : ~client[c].nodes[h].in
        BY <4>1 DEF NoClient, NoRow
      <4> QED
        BY <2>2, <4>1, <4>2, Zenon DEF Saved, At
    <3>2. CASE Restored(c)
      <4>1. /\ call[c].step = "restore" /\ call'[c].step = "commit" /\ call'[c].row = call[c].row
            /\ call'[c].who = call[c].who /\ call'[c].key = call[c].key /\ Saved(c)
        BY <1>0, <3>2, Zenon DEF Restored, Moves, At, Keeps
      <4> QED
        BY <2>2, <4>1, Zenon DEF Saved, At, Device
    <3> QED
      BY <1>3, <3>1, <3>2, Zenon
  <2> QED
    BY <1>0, <2>1, <2>3, <2>4, Zenon DEF DevicesOfNodes
<1>4. CASE DeviceSaved(c) \/ NodeSaved(c)
  <2>0. /\ (At(c, "device") \/ At(c, "node")) /\ call[c].who \in Hosts
        /\ call'[c].who = call[c].who /\ call'[c].key = call[c].key /\ call'[c].row = call[c].row
        /\ CallShape(call[c])
    BY <1>4, Zenon DEF DeviceSaved, NodeSaved, Moves, Keeps, Shapes, CallShapes, CallShape
  <2>1. q /\ tx = c
    <3>1. client[c].open
      BY <2>0, Zenon DEF At, Shapes, ClientShapes, InTransaction
    <3> QED
      BY <1>4, <3>1, InOwn, Zenon DEF DeviceSaved, NodeSaved
  <2>2. DOMAIN client = Calls /\ DOMAIN client[c] = ClientFields /\ DOMAIN client[c].nodes = Hosts
    BY Zenon DEF Shapes, ClientShapes, ClientShape
  <2>3. UNCHANGED <<devices, nodes>>
    BY <1>4, <2>1, Zenon DEF DeviceSaved, NodeSaved
  <2>4. CASE DeviceSaved(c)
    <3>1. client' = [client EXCEPT ![c].devices = @ \cup {Device(c)}]
      BY <2>1, <2>4, Zenon DEF DeviceSaved
    <3>2. /\ \A d \in Calls \ {c} : client'[d] = client[d]
          /\ client'[c].devices = client[c].devices \cup {Device(c)} /\ client'[c].nodes = client[c].nodes
      BY <2>2, <3>1, Zenon DEF ClientFields
    <3>3. call[c].step = "device" /\ call'[c].step = "node" /\ Saved(c)
      BY <1>0, <2>4, Zenon DEF DeviceSaved, Moves, At
    <3>4. Saved(c)'
      BY <2>0, <3>2, <3>3, Zenon DEF Saved, At, Device
    <3> QED
      BY <1>0, <1>1, <2>3, <3>2, <3>4, SavedStays, Zenon DEF DevicesOfNodes
  <2>5. CASE NodeSaved(c)
    <3>1. client' = [client EXCEPT ![c].nodes[call[c].who] = call[c].row]
      BY <2>1, <2>5, Zenon DEF NodeSaved
    <3>2. /\ \A d \in Calls \ {c} : client'[d] = client[d]
          /\ client'[c].devices = client[c].devices /\ client'[c].nodes = [client[c].nodes EXCEPT ![call[c].who] = call[c].row]
      BY <2>2, <3>1, Zenon DEF ClientFields
    <3>3. call[c].step = "node" /\ call'[c].step = "restore" /\ Saved(c)
      BY <1>0, <2>5, Zenon DEF NodeSaved, Moves, At
    <3>4. Saved(c)'
      BY <2>0, <2>2, <3>2, <3>3, Zenon DEF Saved, At, Device
    <3> QED
      BY <1>0, <1>1, <2>3, <3>2, <3>4, SavedStays, SMTT(20) DEF DevicesOfNodes
  <2> QED
    BY <1>4, <2>4, <2>5, Zenon
<1>5. CASE KeySaved(c)
  <2>1. PICK h, row : h = call[c].who /\ row = [call[c].row EXCEPT !.key = call[c].key]
    BY Zenon
  <2>2. CallShape(call[c]) /\ call[c].step = "saveKey" /\ "saveKey" \in Holding /\ call'[c].step = "replan"
    BY <1>5, Zenon DEF KeySaved, Moves, At, Shapes, CallShapes, Holding
  <2>3. ~q
    <3>1. ~client[c].open
      BY <2>2, Zenon DEF Shapes, ClientShapes, InTransaction
    <3> QED
      BY <1>5, <3>1, InOwn, Zenon DEF KeySaved, q
  <2>4. h \in Hosts /\ row.in /\ nodes[h].in /\ row.device = nodes[h].device
    <3>1. SameNode(call[c].row, h) /\ call[c].row.in /\ DOMAIN call[c].row = RowFields /\ h \in Hosts
      BY <2>1, <2>2, Zenon DEF Rows, CopiesAgree, CallShape, RowShape
    <3> QED
      BY <2>1, <3>1, Zenon DEF SameNode, RowFields
  <2>5. nodes' = [nodes EXCEPT ![h] = row] /\ UNCHANGED <<client, devices>>
    BY <1>5, <2>1, <2>3, Zenon DEF KeySaved
  <2>6. DevicesOfNodes' = DevicesOfNodes
    BY <2>4, <2>5, DevicesRewritten, Zenon DEF Shapes, TableShapes
  <2>7. call'[c].step \notin InTransaction
    BY <2>2, Zenon DEF InTransaction
  <2>8. \A d \in Calls \ {c} : Saved(d)'
    BY <1>0, <1>1, <2>5, SavedStays, Zenon
  <2> QED
    BY <1>0, <2>5, <2>6, <2>7, <2>8, NothingSaved, Zenon
<1>6. CASE Committed(c)
  <2> DEFINE h == call[c].who
             t == client[c]
  <2>1. /\ call[c].step = "commit" /\ call'[c].step = "certificate" /\ client' = [client EXCEPT ![c] = NoClient]
        /\ CallShape(call[c]) /\ h \in Hosts /\ Saved(c)
    BY <1>0, <1>6, Zenon DEF Committed, Moves, At, Shapes, CallShapes, CallShape
  <2>2. call'[c].step \notin InTransaction /\ call[c].row.in /\ call[c].row.device = call[c].key
    BY <2>1, Zenon DEF InTransaction, CallShape, Leased
  <2>3. \A d \in Calls \ {c} : Saved(d)'
    <3>1. \A d \in Calls \ {c} : client'[d] = client[d]
      BY <2>1, Zenon DEF Shapes, ClientShapes
    <3> QED
      BY <1>0, <1>1, <3>1, SavedStays, Zenon
  <2>4. devices' = DevicesOfNodes'
    <3>1. CASE t.aborted
      BY <1>0, <1>6, <3>1, Zenon DEF Committed, DevicesOfNodes
    <3>2. CASE ~t.aborted
      <4>1. /\ t.devices = {Device(c)} /\ t.nodes[h] = call[c].row
            /\ \A g \in Hosts : t.nodes[g].in => g = h
        BY <2>1, Zenon DEF Saved
      <4>2. /\ devices' = devices \cup {Device(c)}
            /\ nodes' = [g \in Hosts |-> IF t.nodes[g].in THEN t.nodes[g] ELSE nodes[g]]
        BY <1>6, <3>2, <4>1, Zenon DEF Committed
      <4>3. \A g \in Hosts : nodes'[g] = IF g = h THEN call[c].row ELSE nodes[g]
        BY <2>1, <2>2, <4>1, <4>2, Zenon
      <4>4. ~nodes[h].in
        <5> SUFFICES ASSUME nodes[h].in PROVE FALSE
          BY Zenon
        <5>1. <<h, nodes[h].device>> \in devices
          BY <1>0, <2>1, Zenon DEF DevicesOfNodes
        <5>2. DevicesAt(0) = devices /\ DevicesAt(c) = t.devices /\ 0 \in Places /\ c \in Places /\ c # 0
          BY <1>0, Zenon DEF DevicesAt, Places
        <5>3. <<h, nodes[h].device>>[1] = Device(c)[1]
          BY Zenon DEF Device
        <5>4. Device(c) \in DevicesAt(c) /\ <<h, nodes[h].device>> \in DevicesAt(0)
          BY <4>1, <5>1, <5>2, Zenon
        <5>5. HardwareIsUnique
          BY Zenon DEF Rows, Tables
        <5> HIDE DEF h, t
        <5> QED
          BY <5>2, <5>3, <5>4, <5>5, SMTT(20) DEF HardwareIsUnique
      <4>5. DevicesOfNodes' = DevicesOfNodes \cup {Device(c)}
        <5>1. Device(c) = <<h, call[c].row.device>> /\ h \in Hosts /\ call[c].row.in
          BY <2>1, <2>2, Zenon DEF Device
        <5>2. \A d : d \in DevicesOfNodes' <=> \E g \in Hosts : nodes'[g].in /\ d = <<g, nodes'[g].device>>
          BY Zenon DEF DevicesOfNodes
        <5>3. \A d : d \in DevicesOfNodes <=> \E g \in Hosts : nodes[g].in /\ d = <<g, nodes[g].device>>
          BY Zenon DEF DevicesOfNodes
        <5> HIDE DEF h, t, DevicesOfNodes
        <5>4. ASSUME NEW d \in DevicesOfNodes'
              PROVE  d \in DevicesOfNodes \cup {Device(c)}
          BY <4>3, <5>1, <5>2, <5>3, SMTT(20)
        <5>5. ASSUME NEW d \in DevicesOfNodes \cup {Device(c)}
              PROVE  d \in DevicesOfNodes'
          BY <4>3, <4>4, <5>1, <5>2, <5>3, SMTT(20)
        <5> QED
          BY <5>4, <5>5, Zenon
      <4> QED
        BY <1>0, <4>2, <4>5, Zenon
    <3> QED
      BY <3>1, <3>2, Zenon
  <2> QED
    BY <2>2, <2>3, <2>4, NothingSaved, Zenon
<1> QED
  BY <1>2, <1>3, <1>4, <1>5, <1>6, Zenon DEF Goes

\* Enrolment stays atomic.
LEMMA AtomicStep ==
  ASSUME Shapes, Rows, Atomic, [Next]_vars
  PROVE  Atomic'
<1> SUFFICES ASSUME ~foreign' PROVE devices' = DevicesOfNodes' /\ \A d \in Calls : Saved(d)'
  BY Zenon DEF Atomic, EnrolmentIsAtomic, DevicesOfNodes
<1>0. NoCall.step \notin InTransaction /\ 0 \notin Calls
  BY MeshAssumption, Zenon DEF NoCall, InTransaction
<1>1. ASSUME ~foreign
      PROVE  devices = DevicesOfNodes /\ \A d \in Calls : Saved(d)
  BY <1>1, Zenon DEF Atomic, EnrolmentIsAtomic, DevicesOfNodes
<1>2. CASE Idle \/ PutRegionReads \/ \E h \in Hosts : LoseAnswer(h)
  <2>1. UNCHANGED <<devices, nodes, client, call, foreign>>
    BY <1>2, Zenon DEF Idle, Quiet, PutRegionReads, LoseAnswer, session, tables, history
  <2>2. \A d \in Calls : Saved(d)'
    BY <1>1, <2>1, SavedStays, Zenon
  <2> QED
    BY <1>1, <2>1, <2>2, Zenon DEF DevicesOfNodes
<1>3. CASE PutRegionSaves
  <2>1. PICK h, row : h = operator.of /\ row = [operator.row EXCEPT !.region = 1]
    BY Zenon
  <2>2. h \in Hosts /\ row.in /\ nodes[h].in /\ row.device = nodes[h].device
    <3>1. SameNode(operator.row, h) /\ operator.row.in /\ DOMAIN operator.row = RowFields /\ h \in Hosts
      BY <1>3, <2>1, Zenon DEF PutRegionSaves, Rows, CopiesAgree, Shapes, TableShapes, RowShape
    <3> QED
      BY <2>1, <3>1, Zenon DEF SameNode, RowFields
  <2>3. nodes' = [nodes EXCEPT ![h] = row] /\ UNCHANGED <<devices, client, call, foreign>> /\ DOMAIN nodes = Hosts
    BY <1>3, <2>1, Zenon DEF PutRegionSaves, session, Shapes, TableShapes
  <2>4. DevicesOfNodes' = DevicesOfNodes
    BY <2>2, <2>3, DevicesRewritten, Zenon
  <2>5. \A d \in Calls : Saved(d)'
    BY <1>1, <2>3, SavedStays, Zenon
  <2> QED
    BY <1>1, <2>3, <2>4, <2>5, Zenon
<1>4. CASE Crash
  <2>1. UNCHANGED <<devices, nodes, foreign>> /\ \A d \in Calls : call'[d] = NoCall
    BY <1>4, Zenon DEF Crash
  <2>2. \A d \in Calls : Saved(d)'
    BY <1>0, <2>1, NothingSaved, Zenon
  <2> QED
    BY <1>1, <2>1, <2>2, Zenon DEF DevicesOfNodes
<1>5. ASSUME NEW c \in Calls, Ends(c), foreign => foreign'
      PROVE  devices' = DevicesOfNodes' /\ \A d \in Calls : Saved(d)'
  <2>1. /\ UNCHANGED <<devices, nodes>> /\ call'[c] = NoCall
        /\ \A d \in Calls \ {c} : /\ call'[d] = call[d] /\ client'[d].devices = client[d].devices
                                  /\ client'[d].nodes = client[d].nodes
    BY <1>5, Zenon DEF Ends, OthersStay, Dropped
  <2>2. \A d \in Calls \ {c} : Saved(d)'
    BY <1>1, <1>5, <2>1, SavedStays, Zenon
  <2>3. Saved(c)'
    BY <1>0, <2>1, NothingSaved, Zenon
  <2> QED
    BY <1>1, <1>5, <2>1, <2>2, <2>3, Zenon DEF DevicesOfNodes
<1>6. ASSUME NEW c \in Calls, Reply(c) \/ Answer(c), Ends(c)
      PROVE  foreign => foreign'
  BY <1>6, Zenon DEF Reply, Answer
<1>7. ASSUME NEW c \in Calls, NEW h \in Hosts, NEW step \in {"lease", "read"}, Opens(h, c, step)
      PROVE  devices' = DevicesOfNodes' /\ \A d \in Calls : Saved(d)'
  <2>1. /\ call'[c].step \notin InTransaction /\ \A d \in Calls \ {c} : call'[d] = call[d]
        /\ UNCHANGED <<devices, nodes, client, foreign>>
    BY <1>7 DEF Opens, NoCall, OthersStay, Quiet, session, InTransaction
  <2>2. \A d \in Calls \ {c} : Saved(d)'
    BY <1>1, <2>1, SavedStays, Zenon
  <2>3. Saved(c)'
    BY <2>1, NothingSaved, Zenon
  <2> QED
    BY <1>1, <2>1, <2>2, <2>3, Zenon DEF DevicesOfNodes
<1> QED
  BY StepKinds, <1>2, <1>3, <1>4, <1>5, <1>6, <1>7, AtomicGoes, ZenonT(40) DEF Fails

-----------------------------------------------------------------------------
(* The ledger: an epoch of a host belongs to one key.                      *)

Recorded ==
  /\ \A r, s \in ledger : r[1] = s[1] /\ r[2] = s[2] => r[3] = s[3]
  /\ acks \subseteq ledger
  /\ \A c \in Calls : call[c].step \in {"saveKey", "replan", "answer"} =>
       <<call[c].who, call[c].epoch, call[c].key>> \in ledger

\* An answered rotation is in the ledger, where its epoch is its own.
LEMMA RecordedStep ==
  ASSUME Shapes, Recorded, [Next]_vars
  PROVE  Recorded'
<1> DEFINE After == {"saveKey", "replan", "answer"}
<1>0. NoCall.step \notin After
  BY Zenon DEF NoCall
<1>1. CASE Idle \/ PutRegionReads \/ PutRegionSaves \/ \E h \in Hosts : LoseAnswer(h)
  <2>1. UNCHANGED <<ledger, acks, call>>
    BY <1>1, Zenon DEF Idle, Quiet, PutRegionReads, PutRegionSaves, LoseAnswer, tables, history
  <2> QED
    BY <2>1, Zenon DEF Recorded
<1>2. CASE Crash
  <2>1. UNCHANGED <<ledger, acks>> /\ \A c \in Calls : call'[c] = NoCall
    BY <1>2, Zenon DEF Crash
  <2> QED
    BY <1>0, <2>1, Zenon DEF Recorded
<1>3. ASSUME NEW c \in Calls, Ends(c), acks' \subseteq ledger
      PROVE  Recorded'
  BY <1>0, <1>3, Zenon DEF Recorded, Ends, OthersStay
<1>4. ASSUME NEW c \in Calls, Fails(c) \/ (Reply(c) /\ Ends(c)) \/ (Answer(c) /\ Ends(c))
      PROVE  Recorded'
  <2>1. CASE acks' = acks
    BY <1>3, <1>4, <2>1, Zenon DEF Fails, Recorded
  <2>2. CASE Answer(c)
    <3>1. acks' = acks \cup {<<call[c].who, call[c].epoch, call[c].key>>} /\ call[c].step \in After
      BY <2>2, Zenon DEF Answer, At
    <3>2. acks' \subseteq ledger
      BY <3>1, Zenon DEF Recorded
    <3> QED
      BY <1>3, <1>4, <3>2, Zenon DEF Fails
  <2> QED
    BY <1>4, <2>1, <2>2, Zenon DEF Fails, Reply
<1>5. ASSUME NEW c \in Calls, NEW h \in Hosts, NEW step \in {"lease", "read"}, Opens(h, c, step)
      PROVE  Recorded'
  <2>1. /\ call'[c].step \notin After /\ \A d \in Calls \ {c} : call'[d] = call[d]
        /\ UNCHANGED <<ledger, acks>>
    BY <1>5 DEF Opens, NoCall, OthersStay, Quiet
  <2> QED
    BY <2>1, Zenon DEF Recorded
<1>6. ASSUME NEW c \in Calls, Goes(c)
      PROVE  Recorded'
  <2>0. /\ \A d \in Calls \ {c} : call'[d] = call[d]
        /\ call'[c].who = call[c].who /\ call'[c].key = call[c].key
    BY <1>6, GoesContinues, Zenon DEF Continues, OthersStay
  <2>1. CASE EpochInserted(c)
    <3> DEFINE r == <<call[c].who, call[c].epoch, call[c].key>>
    <3>1. ledger' = ledger \cup {r} /\ acks' = acks /\ call'[c].epoch = call[c].epoch /\ ~Taken(c)
      BY <2>1, Zenon DEF EpochInserted, Keeps
    <3>2. r[1] = call[c].who /\ r[2] = call[c].epoch
      BY Zenon
    <3>3. \A s \in ledger : ~(s[1] = r[1] /\ s[2] = r[2])
      BY <3>1, <3>2, Zenon DEF Taken
    <3>4. r = <<call'[c].who, call'[c].epoch, call'[c].key>>
      BY <2>0, <3>1, Zenon
    <3> HIDE DEF r
    <3>5. \A s, t \in ledger' : s[1] = t[1] /\ s[2] = t[2] => s[3] = t[3]
      BY <3>1, <3>3, ZenonT(40) DEF Recorded
    <3>6. acks' \subseteq ledger'
      BY <3>1, Zenon DEF Recorded
    <3>7. ASSUME NEW d \in Calls, call'[d].step \in After
          PROVE  <<call'[d].who, call'[d].epoch, call'[d].key>> \in ledger'
      <4>1. CASE d = c
        BY <3>1, <3>4, <4>1, Zenon
      <4>2. CASE d # c
        BY <2>0, <3>1, <3>7, <4>2, Zenon DEF Recorded
      <4> QED
        BY <4>1, <4>2, Zenon
    <3> QED
      BY <3>5, <3>6, <3>7, Zenon DEF Recorded
  <2>2. CASE ~EpochInserted(c)
    <3>1. UNCHANGED <<ledger, acks>>
      BY <1>6, <2>2, Zenon DEF Goes, LeaseTaken, Checked, Begun, DeviceSaved, NodeSaved, Restored, Committed,
           CertificateIssued, PeersListed, Configured, NodeRead, EpochRead, EpochLost, KeySaved, Replanned, Quiet
    <3>2. call'[c].step \in After => KeySaved(c) \/ Replanned(c)
      BY <1>6, <2>2, Zenon DEF Goes, LeaseTaken, Checked, Begun, DeviceSaved, NodeSaved, Restored, Committed,
           CertificateIssued, PeersListed, Configured, NodeRead, EpochRead, EpochLost, Moves
    <3>3. call'[c].step \in After => call[c].step \in After /\ call'[c].epoch = call[c].epoch
      BY <3>2, Zenon DEF KeySaved, Replanned, Moves, At, Keeps
    <3> QED
      BY <2>0, <3>1, <3>3, Zenon DEF Recorded
  <2> QED
    BY <2>1, <2>2, Zenon
<1> QED
  BY StepKinds, <1>1, <1>2, <1>4, <1>5, <1>6, Zenon

-----------------------------------------------------------------------------
(* Who waits for whom: while no answer is lost, the host of every call     *)
(* waits for it.                                                           *)

Attended == ~lost => \A c \in Calls : ~At(c, "none") => host[call[c].who].waits = c

\* A host that calls waits until its call ends.
LEMMA AttendedStep ==
  ASSUME Shapes, Attended, [Next]_vars
  PROVE  Attended'
<1> SUFFICES ASSUME ~lost' PROVE \A c \in Calls : call'[c].step # "none" => host'[call'[c].who].waits = c
  BY Zenon DEF Attended, At
<1>0. NoCall.step = "none" /\ 0 \notin Calls /\ HostShapes /\ \A c \in Calls : call[c].who \in Hosts
  BY MeshAssumption, Zenon DEF NoCall, Shapes, CallShapes, CallShape
<1>1. CASE Idle \/ PutRegionReads \/ PutRegionSaves
  <2>1. UNCHANGED <<call, host, lost>>
    BY <1>1, Zenon DEF Idle, PutRegionReads, PutRegionSaves, history
  <2> QED
    BY <2>1, Zenon DEF Attended, At
<1>2. CASE Crash \/ \E h \in Hosts : LoseAnswer(h)
  BY <1>2, Zenon DEF Crash, LoseAnswer
<1>3. ASSUME NEW c \in Calls, Ends(c), lost => lost'
      PROVE  \A d \in Calls : call'[d].step # "none" => host'[call'[d].who].waits = d
  <2>1. /\ call'[c] = NoCall /\ \A d \in Calls \ {c} : call'[d] = call[d]
        /\ \A h \in Hosts : host'[h].waits = IF host[h].waits = c THEN 0 ELSE host[h].waits
    BY <1>3, Zenon DEF Ends, OthersStay, Freed
  <2> QED
    BY <1>0, <1>3, <2>1, Zenon DEF Attended, At
<1>4. ASSUME NEW c \in Calls, Reply(c) \/ Answer(c)
      PROVE  lost => lost'
  BY <1>4, Zenon DEF Reply, Answer
<1>5. ASSUME NEW c \in Calls, NEW h \in Hosts, NEW step \in {"lease", "read"}, Opens(h, c, step)
      PROVE  \A d \in Calls : call'[d].step # "none" => host'[call'[d].who].waits = d
  <2>1. /\ call'[c].who = h /\ \A d \in Calls \ {c} : call'[d] = call[d]
        /\ host[h].waits = 0 /\ host' = [host EXCEPT ![h].waits = c] /\ lost' = lost
    BY <1>5 DEF Opens, NoCall, OthersStay
  <2>2. \A g \in Hosts : host'[g].waits = IF g = h THEN c ELSE host[g].waits
    BY <1>0, <2>1, Zenon DEF HostShapes, HostFields
  <2> QED
    BY <1>0, <2>1, <2>2 DEF Attended, At
<1>6. ASSUME NEW c \in Calls, Goes(c)
      PROVE  \A d \in Calls : call'[d].step # "none" => host'[call'[d].who].waits = d
  <2>1. Continues(c)
    BY <1>6, GoesContinues, Zenon
  <2> QED
    BY <1>0, <2>1, Zenon DEF Continues, OthersStay, Attended, At
<1> QED
  BY StepKinds, <1>1, <1>2, <1>3, <1>4, <1>5, <1>6, ZenonT(40) DEF Fails

-----------------------------------------------------------------------------
(* Who was told of whom: while a node was not told of another, a call is   *)
(* under way that will tell it.                                            *)

Covers(c, g, h) ==
  \/ call[c].step \in {"certificate", "list"} /\ call[c].who \in {g, h}
  \/ At(c, "configure") /\ call[c].who = h /\ g \in call[c].todo
  \/ call[c].step \in {"configure", "reply"} /\ call[c].who = g /\ h \in call[c].peers

Informed ==
  ~foreign /\ ~lost =>
    \A g, h \in Hosts : g # h /\ nodes[g].in /\ nodes[h].in =>
      h \in told[g] \/ \E c \in Calls : Covers(c, g, h)

Telling == {"certificate", "list", "configure", "reply"}

\* What remains to be told stays covered when each call that covers it still does.
LEMMA InformedStays ==
  ASSUME Informed, ~foreign, ~lost,
         \A g \in Hosts : nodes'[g].in => nodes[g].in,
         \A g \in Hosts : told[g] \subseteq told'[g],
         \A c \in Calls, g, h \in Hosts :
           g # h /\ nodes[g].in /\ nodes[h].in /\ Covers(c, g, h) => Covers(c, g, h)' \/ h \in told'[g]
  PROVE  Informed'
<1> SUFFICES ASSUME NEW g \in Hosts, NEW h \in Hosts, g # h, nodes'[g].in, nodes'[h].in
             PROVE  h \in told'[g] \/ \E c \in Calls : Covers(c, g, h)'
  BY Zenon DEF Informed
<1>1. h \in told[g] \/ \E c \in Calls : Covers(c, g, h)
  BY Zenon DEF Informed
<1> QED
  BY <1>1, Zenon

\* A call that is not telling anybody covers nothing.
LEMMA CoversNothing ==
  ASSUME NEW c, call[c].step \notin Telling
  PROVE  \A g, h : ~Covers(c, g, h)
  BY Zenon DEF Covers, At, Telling

\* Nobody is forgotten in a step of a call.
LEMMA InformedGoes ==
  ASSUME Shapes, Rows, Atomic, Informed, NEW c \in Calls, Goes(c), ~foreign', ~lost'
  PROVE  Informed'
<1>0. Continues(c) /\ ~foreign /\ ~lost
  BY GoesContinues, Zenon DEF Continues
<1>1. \A d \in Calls \ {c} : call'[d] = call[d]
  BY <1>0, Zenon DEF Continues, OthersStay
<1>2. \A d \in Calls \ {c}, g, h \in Hosts : Covers(d, g, h) => Covers(d, g, h)'
  BY <1>1, Zenon DEF Covers, At
<1>3. call[c].who \in Hosts /\ call'[c].who = call[c].who
  BY <1>0, Zenon DEF Continues, Shapes, CallShapes, CallShape
<1>4. \A g \in Hosts : told[g] \subseteq told'[g]
  <2>1. CASE told' = told
    BY <2>1, Zenon
  <2>2. CASE Configured(c)
    <3>1. PICK peer, more : told' = [told EXCEPT ![peer] = @ \cup more]
      BY <2>2, Zenon DEF Configured
    <3> QED
      BY <3>1, Zenon DEF Shapes, TableShapes
  <2>3. CASE Replanned(c)
    <3>1. PICK peer, more : told' = [told EXCEPT ![peer] = @ \cup more]
      BY <2>3, Zenon DEF Replanned
    <3> QED
      BY <3>1, Zenon DEF Shapes, TableShapes
  <2> QED
    BY <2>1, <2>2, <2>3, Zenon DEF Goes, LeaseTaken, Checked, Begun, DeviceSaved, NodeSaved, Restored, Committed,
         CertificateIssued, PeersListed, NodeRead, EpochRead, EpochInserted, EpochLost, KeySaved, Quiet
<1>5. CASE Committed(c)
  <2>1. /\ call[c].step = "commit" /\ call'[c].step = "certificate" /\ told' = told
        /\ \A h \in Hosts : client[c].nodes[h].in => h = call[c].who
    BY <1>0, <1>5, Zenon DEF Committed, Moves, At, Atomic, Saved
  <2>2. \A g \in Hosts : nodes'[g].in => nodes[g].in \/ g = call[c].who
    BY <1>5, <2>1, Zenon DEF Committed
  <2>3. \A g, h \in Hosts : ~Covers(c, g, h)
    BY <2>1, CoversNothing, Zenon DEF Telling
  <2> SUFFICES ASSUME NEW g \in Hosts, NEW h \in Hosts, g # h, nodes'[g].in, nodes'[h].in
               PROVE  h \in told'[g] \/ \E d \in Calls : Covers(d, g, h)'
    BY Zenon DEF Informed
  <2>4. CASE call[c].who \in {g, h}
    <3>1. Covers(c, g, h)'
      BY <1>3, <2>1, <2>4, Zenon DEF Covers
    <3> QED
      BY <3>1, Zenon
  <2>5. CASE call[c].who \notin {g, h}
    <3>1. nodes[g].in /\ nodes[h].in
      BY <2>2, <2>5, Zenon
    <3>2. h \in told[g] \/ \E d \in Calls : Covers(d, g, h)
      BY <1>0, <3>1, Zenon DEF Informed
    <3> QED
      BY <1>2, <2>1, <2>3, <3>2, Zenon
  <2> QED
    BY <2>4, <2>5, Zenon
<1>6. CASE ~Committed(c)
  <2>1. \A g \in Hosts : nodes'[g].in => nodes[g].in
    <3>1. CASE nodes' = nodes
      BY <3>1, Zenon
    <3>2. CASE KeySaved(c)
      <4>1. nodes[call[c].who].in
        <5>1. call[c].step \in Certified \cup Rotating
          BY <3>2, Zenon DEF KeySaved, Moves, At, Rotating
        <5> QED
          BY <5>1, Zenon DEF Rows, CopiesAgree
      <4>2. PICK row : nodes' = nodes \/ nodes' = [nodes EXCEPT ![call[c].who] = row]
        BY <3>2, Zenon DEF KeySaved
      <4> QED
        BY <4>1, <4>2, Zenon DEF Shapes, TableShapes
    <3>3. CASE NodeSaved(c)
      <4>1. client[c].open
        BY <3>3, Zenon DEF NodeSaved, Moves, At, Shapes, ClientShapes, InTransaction
      <4>2. q
        BY <3>3, <4>1, InOwn, Zenon DEF NodeSaved
      <4> QED
        BY <3>3, <4>2, Zenon DEF NodeSaved
    <3> QED
      BY <1>6, <3>1, <3>2, <3>3, Zenon DEF Goes, LeaseTaken, Checked, Begun, DeviceSaved, Restored,
           CertificateIssued, PeersListed, Configured, NodeRead, EpochRead, EpochInserted, EpochLost, Replanned, Quiet
  <2>2. ASSUME NEW g \in Hosts, NEW h \in Hosts, g # h, nodes[g].in, nodes[h].in, Covers(c, g, h)
        PROVE  Covers(c, g, h)' \/ h \in told'[g]
    <3>1. CASE CertificateIssued(c)
      <4>1. call[c].step = "certificate" /\ call'[c].step = "list"
        BY <3>1, Zenon DEF CertificateIssued, Moves, At
      <4> QED
        BY <1>3, <2>2, <4>1, Zenon DEF Covers, At
    <3>2. CASE PeersListed(c)
      <4>1. /\ call[c].step = "list" /\ call'[c].peers = Enrolled \ {call[c].who} /\ call'[c].todo = Enrolled \ {call[c].who}
            /\ call'[c].step = IF Enrolled \ {call[c].who} = {} THEN "reply" ELSE "configure"
        BY <3>2, Zenon DEF PeersListed, Moves, At
      <4>2. ~q
        <5>1. ~client[c].open
          BY <4>1, Zenon DEF Shapes, ClientShapes, InTransaction
        <5> QED
          BY <3>2, <5>1, InOwn, Zenon DEF PeersListed, q
      <4>3. g \in Enrolled /\ h \in Enrolled
        BY <2>2, <4>2, Zenon DEF Enrolled, SeenNodes
      <4>4. call[c].who \in {g, h}
        BY <2>2, <4>1, Zenon DEF Covers, At
      <4> QED
        BY <1>3, <2>2, <4>1, <4>3, <4>4, SMTT(20) DEF Covers, At
    <3>3. CASE Configured(c)
      <4>1. PICK peer \in call[c].todo :
              /\ \/ Moves(c, "configure", "configure") /\ call[c].todo # {peer}
                 \/ Moves(c, "configure", "reply") /\ call[c].todo = {peer}
              /\ told' = [told EXCEPT ![peer] = @ \cup ((call[c].peers \cup {call[c].who}) \ {peer})]
              /\ call'[c].todo = call[c].todo \ {peer} /\ call'[c].peers = call[c].peers
        BY <3>3, Zenon DEF Configured, Keeps
      <4>2. /\ call[c].step = "configure"
            /\ call'[c].step = IF call[c].todo = {peer} THEN "reply" ELSE "configure"
        BY <4>1, Zenon DEF Moves, At
      <4>3. CASE call[c].who = g /\ h \in call[c].peers
        BY <1>3, <4>1, <4>2, <4>3, Zenon DEF Covers, At
      <4>4. CASE call[c].who = h /\ g \in call[c].todo /\ g = peer
        <5>1. h \in told'[g]
          BY <2>2, <4>1, <4>4, Zenon DEF Shapes, TableShapes
        <5> QED
          BY <5>1, Zenon
      <4>5. CASE call[c].who = h /\ g \in call[c].todo /\ g # peer
        <5>1. call[c].todo # {peer} /\ g \in call'[c].todo
          BY <4>1, <4>5, Zenon
        <5> QED
          BY <1>3, <4>2, <4>5, <5>1, Zenon DEF Covers, At
      <4>6. (call[c].who = g /\ h \in call[c].peers) \/ (call[c].who = h /\ g \in call[c].todo)
        BY <2>2, <4>2, Zenon DEF Covers, At
      <4> QED
        BY <4>3, <4>4, <4>5, <4>6, Zenon
    <3>4. CASE ~CertificateIssued(c) /\ ~PeersListed(c) /\ ~Configured(c)
      <4>1. call[c].step \notin Telling
        BY <1>6, <3>4, Zenon DEF Goes, LeaseTaken, Checked, Begun, DeviceSaved, NodeSaved, Restored,
             NodeRead, EpochRead, EpochInserted, EpochLost, KeySaved, Replanned, Moves, At, Telling
      <4> QED
        BY <2>2, <4>1, CoversNothing, Zenon
    <3> QED
      BY <3>1, <3>2, <3>3, <3>4, Zenon
  <2>3. \A d \in Calls, g, h \in Hosts :
          g # h /\ nodes[g].in /\ nodes[h].in /\ Covers(d, g, h) => Covers(d, g, h)' \/ h \in told'[g]
    BY <1>2, <2>2, Zenon
  <2> QED
    BY <1>0, <1>4, <2>1, <2>3, InformedStays, Zenon
<1> QED
  BY <1>5, <1>6, Zenon

\* Nobody is forgotten.
LEMMA InformedStep ==
  ASSUME Shapes, Rows, Atomic, Attended, Informed, [Next]_vars
  PROVE  Informed'
<1> SUFFICES ASSUME ~foreign', ~lost' PROVE Informed'
  BY Zenon DEF Informed
<1>1. CASE Idle \/ PutRegionReads \/ PutRegionSaves
  <2>1. UNCHANGED <<call, told, foreign, lost>>
    BY <1>1, Zenon DEF Idle, Quiet, PutRegionReads, PutRegionSaves, history
  <2>2. \A g \in Hosts : nodes'[g].in => nodes[g].in
    <3>1. CASE PutRegionSaves
      <4>1. nodes[operator.of].in
        BY <3>1, Zenon DEF PutRegionSaves, Rows, CopiesAgree, SameNode
      <4>2. PICK row : nodes' = [nodes EXCEPT ![operator.of] = row]
        BY <3>1, Zenon DEF PutRegionSaves
      <4> QED
        BY <4>1, <4>2, Zenon DEF Shapes, TableShapes
    <3>2. CASE ~PutRegionSaves
      BY <1>1, <3>2, Zenon DEF Idle, Quiet, PutRegionReads, tables
    <3> QED
      BY <3>1, <3>2, Zenon
  <2>3. \A d \in Calls, g, h \in Hosts : Covers(d, g, h) => Covers(d, g, h)'
    BY <2>1 DEF Covers, At
  <2> QED
    BY <2>1, <2>2, <2>3, InformedStays, Zenon
<1>2. CASE Crash \/ \E h \in Hosts : LoseAnswer(h)
  BY <1>2, Zenon DEF Crash, LoseAnswer
<1>3. ASSUME NEW c \in Calls, \A d \in Calls \ {c} : call'[d] = call[d], nodes' = nodes, foreign => foreign', lost => lost',
             \A g \in Hosts : told[g] \subseteq told'[g],
             \A g, h \in Hosts : Covers(c, g, h) => h \in told'[g]
      PROVE  Informed'
  <2>1. \A d \in Calls \ {c}, g, h \in Hosts : Covers(d, g, h) => Covers(d, g, h)'
    BY <1>3, Zenon DEF Covers, At
  <2> QED
    BY <1>3, <2>1, InformedStays, Zenon
<1>4. ASSUME NEW c \in Calls, Fails(c)
      PROVE  Informed'
  <2>1. /\ \A d \in Calls \ {c} : call'[d] = call[d]
        /\ nodes' = nodes /\ told' = told /\ (foreign => foreign') /\ (lost => lost') /\ call[c].step \in Early
    BY <1>4, Zenon DEF Fails, Ends, OthersStay
  <2>2. call[c].step \notin Telling
    BY <2>1, Zenon DEF Early, Leased, Telling
  <2> QED
    BY <1>3, <2>1, <2>2, CoversNothing, Zenon
<1>5. ASSUME NEW c \in Calls, Reply(c), Ends(c)
      PROVE  Informed'
  <2> DEFINE h == call[c].who
  <2>1. /\ \A d \in Calls \ {c} : call'[d] = call[d]
        /\ UNCHANGED <<nodes, foreign, lost>> /\ call[c].step = "reply" /\ h \in Hosts
    BY <1>5, Zenon DEF Ends, OthersStay, Reply, At, tables, Shapes, CallShapes, CallShape
  <2>2. Waiting(c)
    <3>1. ~At(c, "none") /\ ~lost
      BY <1>5, <2>1, Zenon DEF Ends
    <3> QED
      BY <2>1, <3>1, Zenon DEF Attended, Waiting
  <2>3. told' = [told EXCEPT ![h] = @ \cup call[c].peers] /\ DOMAIN told = Hosts
    BY <1>5, <2>2, Zenon DEF Reply, Shapes, TableShapes
  <2>4. \A g, k \in Hosts : Covers(c, g, k) => g = h /\ k \in call[c].peers
    BY <2>1, Zenon DEF Covers, At
  <2> HIDE DEF h
  <2>5. \A g \in Hosts : told[g] \subseteq told'[g]
    BY <2>3, Zenon
  <2>6. \A g, k \in Hosts : Covers(c, g, k) => k \in told'[g]
    BY <2>3, <2>4, Zenon
  <2> QED
    BY <1>3, <2>1, <2>5, <2>6, Zenon
<1>6. ASSUME NEW c \in Calls, Answer(c), Ends(c)
      PROVE  Informed'
  <2>1. /\ \A d \in Calls \ {c} : call'[d] = call[d]
        /\ UNCHANGED <<nodes, foreign, lost, told>> /\ call[c].step = "answer"
    BY <1>6, Zenon DEF Ends, OthersStay, Answer, At
  <2>2. call[c].step \notin Telling
    BY <2>1, Zenon DEF Telling
  <2> QED
    BY <1>3, <2>1, <2>2, CoversNothing, Zenon
<1>7. ASSUME NEW c \in Calls, NEW h \in Hosts, NEW step \in {"lease", "read"}, Opens(h, c, step)
      PROVE  Informed'
  <2>1. /\ \A d \in Calls \ {c} : call'[d] = call[d]
        /\ UNCHANGED <<nodes, foreign, lost, told>> /\ call[c].step = "none"
    BY <1>7, Zenon DEF Opens, OthersStay, At, Quiet
  <2>2. call[c].step \notin Telling
    BY <2>1, Zenon DEF Telling
  <2> QED
    BY <1>3, <2>1, <2>2, CoversNothing, Zenon
<1> QED
  BY StepKinds, <1>1, <1>2, <1>4, <1>5, <1>6, <1>7, InformedGoes, ZenonT(40)

-----------------------------------------------------------------------------
(* The keys: what a host uses, and what its node says, as far as its call  *)
(* has got.                                                                *)

Settled(h) ==
  host[h].waits = 0 => IF host[h].up THEN host[h].key = nodes[h].key ELSE ~nodes[h].in

Halfway(c) ==
  LET n == nodes[call[c].who]
      h == host[call[c].who]
  IN  /\ call[c].step \in {"lease"} \cup Leased => ~n.in /\ ~h.up
      /\ call[c].step \in {"certificate"} \cup Certified => ~h.up /\ (n.in => n.key = call[c].key)
      /\ call[c].step \in {"read"} \cup Holding => h.up /\ h.key = n.key
      /\ call[c].step \in {"replan", "answer"} => h.up /\ n.key = call[c].key

Paired ==
  ~foreign /\ ~lost /\ ~overwritten => /\ \A h \in Hosts : Settled(h)
                                       /\ \A c \in Calls : Halfway(c)

SameHost(h) ==
  /\ host'[h].up = host[h].up /\ host'[h].key = host[h].key /\ host'[h].waits = host[h].waits
  /\ nodes'[h].in = nodes[h].in /\ nodes'[h].key = nodes[h].key

\* A call that ended has nothing to pair.
LEMMA HalfwayNone ==
  ASSUME NEW c, call[c].step = "none"
  PROVE  Halfway(c)
  BY Zenon DEF Halfway, Leased, Certified, Holding

\* A step on behalf of one host leaves the others as they are.
LEMMA PairedElsewhere ==
  ASSUME Paired, ~foreign, ~lost, ~overwritten, NEW c \in Calls, NEW w \in Hosts,
         \A d \in Calls : call[d].who \in Hosts,
         \A d \in Calls \ {c} : call'[d] = call[d],
         \A d \in Calls \ {c} : ~At(d, "none") => call[d].who # w,
         \A h \in Hosts \ {w} : SameHost(h),
         Settled(w)', Halfway(c)'
  PROVE  Paired'
<1>1. ASSUME NEW h \in Hosts PROVE Settled(h)'
  <2>1. CASE h = w
    BY <2>1, Zenon
  <2>2. CASE h # w
    <3>1. Settled(h) /\ SameHost(h)
      BY <2>2, Zenon DEF Paired
    <3> QED
      BY <3>1, Zenon DEF Settled, SameHost
  <2> QED
    BY <2>1, <2>2, Zenon
<1>2. ASSUME NEW d \in Calls PROVE Halfway(d)'
  <2>1. CASE d = c
    BY <2>1, Zenon
  <2>2. CASE d # c /\ At(d, "none")
    BY <2>2, HalfwayNone, ZenonT(40) DEF At, Halfway, Leased, Certified, Holding
  <2>3. CASE d # c /\ ~At(d, "none")
    <3>1. Halfway(d) /\ SameHost(call[d].who) /\ call'[d] = call[d]
      BY <2>3, Zenon DEF Paired
    <3>2. /\ call'[d].who = call[d].who /\ call'[d].step = call[d].step /\ call'[d].key = call[d].key
          /\ host'[call'[d].who].up = host[call[d].who].up /\ host'[call'[d].who].key = host[call[d].who].key
          /\ nodes'[call'[d].who].in = nodes[call[d].who].in /\ nodes'[call'[d].who].key = nodes[call[d].who].key
      BY <3>1, Zenon DEF SameHost
    <3> QED
      BY <3>1, <3>2, ZenonT(40) DEF Halfway
  <2> QED
    BY <2>1, <2>2, <2>3, Zenon
<1> QED
  BY <1>1, <1>2, Zenon DEF Paired

\* The hosts of two calls are different.
LEMMA HostsOfCalls ==
  ASSUME Attended, ~lost, NEW c \in Calls, ~At(c, "none")
  PROVE  \A d \in Calls \ {c} : ~At(d, "none") => call[d].who # call[c].who
  BY Zenon DEF Attended

\* In a step of a call the key of its host and of its node change together, or neither.
LEMMA PairedGoes ==
  ASSUME Shapes, Rows, Atomic, Attended, Paired, NEW c \in Calls, Goes(c), ~foreign', ~lost', ~overwritten'
  PROVE  Paired'
<1> DEFINE w == call[c].who
<1>0. Continues(c) /\ ~foreign /\ ~lost /\ ~overwritten /\ ~At(c, "none")
  BY GoesContinues, Zenon DEF Continues
<1>1. /\ \A d \in Calls \ {c} : call'[d] = call[d]
      /\ \A d \in Calls : call[d].who \in Hosts
      /\ call'[c].who = w /\ call'[c].key = call[c].key /\ host' = host
  BY <1>0, Zenon DEF Continues, OthersStay, Shapes, CallShapes, CallShape
<1>2. \A d \in Calls \ {c} : ~At(d, "none") => call[d].who # w
  BY <1>0, HostsOfCalls, Zenon
<1>3. Halfway(c) /\ host[w].waits = c /\ c # 0
  BY <1>0, MeshAssumption, Zenon DEF Paired, Attended
<1>4. Settled(w)'
  BY <1>1, <1>3, Zenon DEF Settled
<1>5. SUFFICES (\A h \in Hosts \ {w} : SameHost(h)) /\ Halfway(c)'
  BY <1>0, <1>1, <1>2, <1>4, PairedElsewhere, Zenon
<1>6. CASE Committed(c)
  <2>1. /\ call[c].step = "commit" /\ call'[c].step = "certificate"
        /\ client[c].nodes[w] = call[c].row /\ \A h \in Hosts : client[c].nodes[h].in => h = w
    BY <1>0, <1>6, Zenon DEF Committed, Moves, At, Atomic, Saved
  <2>2. call[c].row.key = call[c].key
    BY <2>1, Zenon DEF Shapes, CallShapes, CallShape, Leased
  <2>3. \A h \in Hosts : nodes'[h] = nodes[h] \/ (h = w /\ nodes'[h] = call[c].row)
    BY <1>6, <2>1, ZenonT(40) DEF Committed
  <2>4. ~nodes[w].in /\ ~host[w].up
    BY <1>3, <2>1, Zenon DEF Halfway, Leased
  <2>5. Halfway(c)'
    BY <1>1, <2>1, <2>2, <2>3, <2>4, Zenon DEF Halfway, Leased, Certified, Holding
  <2> QED
    BY <1>1, <2>3, <2>5, Zenon DEF SameHost
<1>7. CASE KeySaved(c)
  <2>1. call[c].step = "saveKey" /\ call'[c].step = "replan"
    BY <1>7, Zenon DEF KeySaved, Moves, At
  <2>2. ~q
    <3>1. ~client[c].open
      BY <2>1, Zenon DEF Shapes, ClientShapes, InTransaction
    <3> QED
      BY <1>7, <3>1, InOwn, Zenon DEF KeySaved, q
  <2>3. nodes' = [nodes EXCEPT ![w] = [call[c].row EXCEPT !.key = call[c].key]]
    BY <1>7, <2>2, Zenon DEF KeySaved
  <2>4. DOMAIN nodes = Hosts /\ DOMAIN call[c].row = RowFields
    BY Zenon DEF Shapes, TableShapes, CallShapes, CallShape, RowShape
  <2>5. nodes'[w].key = call[c].key /\ \A h \in Hosts \ {w} : nodes'[h] = nodes[h]
    BY <1>1, <2>3, <2>4, Zenon DEF RowFields
  <2>6. host[w].up
    BY <1>3, <2>1, Zenon DEF Halfway, Holding
  <2>7. Halfway(c)'
    BY <1>1, <2>1, <2>5, <2>6, Zenon DEF Halfway, Leased, Certified, Holding
  <2> QED
    BY <1>1, <2>5, <2>7, Zenon DEF SameHost
<1>8. CASE ~Committed(c) /\ ~KeySaved(c)
  <2>1. nodes' = nodes
    <3>1. CASE NodeSaved(c)
      <4>1. client[c].open
        BY <3>1, Zenon DEF NodeSaved, Moves, At, Shapes, ClientShapes, InTransaction
      <4> QED
        BY <3>1, <4>1, InOwn, Zenon DEF NodeSaved
    <3> QED
      BY <1>8, <3>1, Zenon DEF Goes, LeaseTaken, Checked, Begun, DeviceSaved, Restored,
           CertificateIssued, PeersListed, Configured, NodeRead, EpochRead, EpochInserted, EpochLost, Replanned, Quiet
  <2>2. \/ call[c].step \in {"lease"} \cup Leased /\ call'[c].step \in Leased
        \/ call[c].step \in {"certificate"} \cup Certified /\ call'[c].step \in Certified
        \/ call[c].step \in {"read"} \cup Holding /\ call'[c].step \in Holding
        \/ call[c].step = "replan" /\ call'[c].step = "answer"
    BY <1>8, Zenon DEF Goes, LeaseTaken, Checked, Begun, DeviceSaved, NodeSaved, Restored,
         CertificateIssued, PeersListed, Configured, NodeRead, EpochRead, EpochInserted, EpochLost, Replanned,
         Moves, At, Leased, Certified, Holding
  <2>3. Halfway(c)'
    <3> HIDE DEF w
    <3> QED
      BY <1>1, <1>3, <2>1, <2>2, Zenon DEF Halfway, Leased, Certified, Holding, w
  <2> QED
    BY <1>1, <2>1, <2>3, Zenon DEF SameHost
<1> QED
  BY <1>6, <1>7, <1>8, Zenon

\* A host uses the key that its node has.
LEMMA PairedStep ==
  ASSUME Shapes, Rows, Atomic, Attended, Paired, [Next]_vars
  PROVE  Paired'
<1> SUFFICES ASSUME ~foreign', ~lost', ~overwritten' PROVE Paired'
  BY Zenon DEF Paired
<1>0. \A c \in Calls : call[c].who \in Hosts /\ c # 0
  BY MeshAssumption, Zenon DEF Shapes, CallShapes, CallShape
<1>1. CASE Idle \/ PutRegionReads \/ PutRegionSaves
  <2>1. UNCHANGED <<call, host, foreign, lost>> /\ ~overwritten
    <3>1. UNCHANGED <<call, host, foreign, lost>>
      BY <1>1, Zenon DEF Idle, PutRegionReads, PutRegionSaves, history
    <3>2. overwritten => overwritten'
      BY <1>1, Zenon DEF Idle, Quiet, PutRegionReads, PutRegionSaves, history
    <3> QED
      BY <3>1, <3>2, Zenon
  <2>2. \A h \in Hosts : nodes'[h].in = nodes[h].in /\ nodes'[h].key = nodes[h].key
    <3>1. CASE PutRegionSaves
      <4>1. nodes[operator.of] = operator.row /\ nodes' = [nodes EXCEPT ![operator.of] = [operator.row EXCEPT !.region = 1]]
        BY <3>1, Zenon DEF PutRegionSaves
      <4>2. DOMAIN nodes = Hosts /\ DOMAIN operator.row = RowFields /\ operator.of \in Hosts
        BY Zenon DEF Shapes, TableShapes, RowShape
      <4> QED
        BY <4>1, <4>2, Zenon DEF RowFields
    <3>2. CASE ~PutRegionSaves
      BY <1>1, <3>2, Zenon DEF Idle, Quiet, PutRegionReads, tables
    <3> QED
      BY <3>1, <3>2, Zenon
  <2>3. \A h \in Hosts : Settled(h) => Settled(h)'
    BY <2>1, <2>2, Zenon DEF Settled
  <2>4. \A c \in Calls : Halfway(c) => Halfway(c)'
    BY <1>0, <2>1, <2>2, Zenon DEF Halfway
  <2> QED
    BY <2>1, <2>3, <2>4, Zenon DEF Paired
<1>2. CASE Crash \/ \E h \in Hosts : LoseAnswer(h)
  BY <1>2, Zenon DEF Crash, LoseAnswer
<1>3. ASSUME NEW c \in Calls, NEW w \in Hosts, w = call[c].who, Ends(c), ~foreign, ~lost, Settled(w)',
             \A h \in Hosts \ {w} : host'[h].up = host[h].up /\ host'[h].key = host[h].key
      PROVE  Paired'
  <2>1. /\ \A d \in Calls \ {c} : call'[d] = call[d]
        /\ call'[c] = NoCall /\ nodes' = nodes /\ ~overwritten /\ ~At(c, "none")
        /\ \A h \in Hosts : host'[h].waits = IF host[h].waits = c THEN 0 ELSE host[h].waits
    BY <1>3, Zenon DEF Ends, OthersStay, Freed
  <2>2. \A h \in Hosts \ {w} : SameHost(h)
    <3>1. \A h \in Hosts \ {w} : host[h].waits # c
      BY <1>0, <1>3, ZenonT(40) DEF Shapes, HostShapes
    <3> QED
      BY <1>3, <2>1, <3>1, Zenon DEF SameHost
  <2>3. Halfway(c)'
    BY <2>1 DEF Halfway, Leased, Certified, Holding, NoCall
  <2>4. \A d \in Calls \ {c} : ~At(d, "none") => call[d].who # w
    BY <1>3, <2>1, HostsOfCalls, Zenon
  <2> QED
    BY <1>0, <1>3, <2>1, <2>2, <2>3, <2>4, PairedElsewhere, ZenonT(40)
<1>4. ASSUME NEW c \in Calls, Fails(c)
      PROVE  Paired'
  <2>1. /\ Ends(c) /\ ~foreign /\ ~lost /\ ~overwritten /\ nodes' = nodes /\ call[c].step \in Early
        /\ \A h \in Hosts : host'[h].up = host[h].up /\ host'[h].key = host[h].key
    BY <1>4, Zenon DEF Fails, Ends
  <2>2. Halfway(c)
    BY <2>1, Zenon DEF Paired
  <2>3. call[c].step \in ({"lease"} \cup Leased) \cup ({"read"} \cup Holding)
    BY <2>1, Zenon DEF Early, Holding
  <2>4. PICK g \in Hosts : g = call[c].who
    BY <1>0, Zenon
  <2>5. (~nodes[g].in /\ ~host[g].up) \/ (host[g].up /\ host[g].key = nodes[g].key)
    BY <2>2, <2>3, <2>4, Zenon DEF Halfway
  <2>6. Settled(g)'
    BY <2>1, <2>5, Zenon DEF Settled
  <2> QED
    BY <1>3, <2>1, <2>4, <2>6, Zenon
<1>5. ASSUME NEW c \in Calls, Reply(c), Ends(c)
      PROVE  Paired'
  <2>1. ~foreign /\ ~lost /\ ~overwritten /\ call[c].step = "reply" /\ nodes' = nodes /\ ~At(c, "none")
    BY <1>5 DEF Reply, At, Ends, tables
  <2>2. Waiting(c)
    BY <1>0, <2>1, Zenon DEF Attended, Waiting
  <2>3. host' = [host EXCEPT ![call[c].who].up = TRUE, ![call[c].who].key = call[c].key, ![call[c].who].waits = 0]
    BY <1>5, <2>2, Zenon DEF Reply
  <2>4. nodes[call[c].who].in
    BY <2>1, Zenon DEF Rows, CopiesAgree, Certified
  <2>5. nodes[call[c].who].key = call[c].key
    <3>1. Halfway(c)
      BY <2>1, Zenon DEF Paired
    <3> QED
      BY <2>1, <2>4, <3>1, Zenon DEF Halfway, Certified
  <2>6. DOMAIN host = Hosts /\ \A h \in Hosts : DOMAIN host[h] = HostFields
    BY Zenon DEF Shapes, HostShapes
  <2>7. PICK g \in Hosts : g = call[c].who
    BY <1>0, Zenon
  <2>8. /\ host'[g].up /\ host'[g].key = call[c].key
        /\ \A h \in Hosts \ {g} : host'[h].up = host[h].up /\ host'[h].key = host[h].key
    BY <2>3, <2>6, <2>7, Zenon DEF HostFields
  <2>9. Settled(g)'
    BY <2>1, <2>5, <2>7, <2>8, Zenon DEF Settled
  <2> QED
    BY <1>3, <1>5, <2>1, <2>7, <2>8, <2>9, ZenonT(40)
<1>6. ASSUME NEW c \in Calls, Answer(c), Ends(c)
      PROVE  Paired'
  <2>1. ~foreign /\ ~lost /\ ~overwritten /\ call[c].step = "answer" /\ nodes' = nodes /\ ~At(c, "none")
    BY <1>6 DEF Answer, At, Ends
  <2>2. Waiting(c)
    BY <1>0, <2>1, Zenon DEF Attended, Waiting
  <2>3. host' = [host EXCEPT ![call[c].who].key = call[c].key, ![call[c].who].waits = 0]
    BY <1>6, <2>2, Zenon DEF Answer
  <2>4. host[call[c].who].up /\ nodes[call[c].who].key = call[c].key
    <3>1. Halfway(c)
      BY <2>1, Zenon DEF Paired
    <3> QED
      BY <2>1, <3>1, Zenon DEF Halfway
  <2>6. DOMAIN host = Hosts /\ \A h \in Hosts : DOMAIN host[h] = HostFields
    BY Zenon DEF Shapes, HostShapes
  <2>7. PICK g \in Hosts : g = call[c].who
    BY <1>0, Zenon
  <2>8. /\ host'[g].up = host[g].up /\ host'[g].key = call[c].key
        /\ \A h \in Hosts \ {g} : host'[h].up = host[h].up /\ host'[h].key = host[h].key
    BY <2>3, <2>6, <2>7, Zenon DEF HostFields
  <2>9. Settled(g)'
    BY <2>1, <2>4, <2>7, <2>8, Zenon DEF Settled
  <2> QED
    BY <1>3, <1>6, <2>1, <2>7, <2>8, <2>9, ZenonT(40)
<1>7. ASSUME NEW c \in Calls, NEW h \in Hosts, NEW step \in {"lease", "read"}, Opens(h, c, step)
      PROVE  Paired'
  <2>1. /\ \A d \in Calls \ {c} : call'[d] = call[d]
        /\ ~foreign /\ ~lost /\ ~overwritten /\ nodes' = nodes /\ host[h].waits = 0 /\ (host[h].up <=> step = "read")
        /\ host' = [host EXCEPT ![h].waits = c]
    BY <1>7, Zenon DEF Opens, OthersStay, Quiet
  <2>2. call'[c].who = h /\ call'[c].step = step
    BY <1>7 DEF Opens, NoCall
  <2>3. Settled(h)
    BY <2>1, Zenon DEF Paired
  <2>4. /\ \A g \in Hosts \ {h} : host'[g] = host[g]
        /\ host'[h].waits = c /\ host'[h].up = host[h].up /\ host'[h].key = host[h].key
    BY <2>1, ZenonT(40) DEF Shapes, HostShapes, HostFields
  <2>5. \A g \in Hosts \ {h} : SameHost(g)
    BY <2>1, <2>4, Zenon DEF SameHost
  <2>6. Settled(h)'
    BY <1>0, <2>4, Zenon DEF Settled
  <2>7. Halfway(c)'
    <3>1. CASE step = "read"
      BY <2>1, <2>2, <2>3, <2>4, <3>1, Zenon DEF Settled, Halfway, Leased, Certified, Holding
    <3>2. CASE step = "lease"
      BY <2>1, <2>2, <2>3, <2>4, <3>2, ZenonT(40) DEF Settled, Halfway, Leased, Certified, Holding
    <3> QED
      BY <3>1, <3>2, Zenon
  <2>8. \A d \in Calls \ {c} : ~At(d, "none") => call[d].who # h
    BY <1>0, <2>1, Zenon DEF Attended
  <2> QED
    BY <1>0, <2>1, <2>5, <2>6, <2>7, <2>8, PairedElsewhere, ZenonT(40)
<1> QED
  BY StepKinds, <1>1, <1>2, <1>4, <1>5, <1>6, <1>7, PairedGoes, ZenonT(40)

-----------------------------------------------------------------------------
(* The inductive invariant.                                                *)

MeshInvariant == Shapes /\ Rows /\ Atomic /\ Recorded /\ Attended /\ Informed /\ Paired

\* In the initial state one host is enrolled, and nobody calls.
LEMMA InitMesh == Init => MeshInvariant
<1> SUFFICES ASSUME Init PROVE MeshInvariant
  BY Zenon
<1> DEFINE first == [NoRow EXCEPT !.in = TRUE, !.device = 1, !.lease = 1, !.key = 1]
<1>1. /\ devices = {<<First, 1>>} /\ nodes = [h \in Hosts |-> IF h = First THEN first ELSE NoRow]
      /\ client = [c \in Calls |-> NoClient] /\ call = [c \in Calls |-> NoCall]
      /\ operator = [of |-> First, row |-> NoRow] /\ ledger = {} /\ acks = {}
      /\ host = [h \in Hosts |-> [up |-> h = First, key |-> nodes[h].key, waits |-> 0]]
  BY Zenon DEF Init
<1>2. first.in /\ first.device = 1 /\ ~NoRow.in
  BY Zenon DEF NoRow
<1> HIDE DEF first
<1>3. NoClient.devices = {} /\ \A h \in Hosts : NoClient.nodes[h] = NoRow
  BY Zenon DEF NoClient
<1>4. First \in Hosts /\ 0 \notin Calls
  BY FirstIsHost, MeshAssumption, Zenon
<1>5. \A c \in Calls : call[c].step = "none"
  BY <1>1, Zenon DEF NoCall
<1>6. \A x \in Places : DevicesAt(x) = IF x = 0 THEN {<<First, 1>>} ELSE {}
  BY <1>1, <1>3, Zenon DEF Places, DevicesAt
<1>7. \A x \in Places, h \in Hosts : NodesAt(x)[h] = IF x = 0 /\ h = First THEN first ELSE NoRow
  BY <1>1, <1>3, Zenon DEF Places, NodesAt
<1>8. Rows
  <2>1. HardwareIsUnique
    BY <1>6, Zenon DEF HardwareIsUnique
  <2>2. NodesHaveDevices
    BY <1>1, <1>2, <1>7, Zenon DEF NodesHaveDevices
  <2>3. AddressesAreOwned
    BY <1>2, <1>7, Zenon DEF AddressesAreOwned
  <2>4. InsertedOnce
    BY <1>5, Zenon DEF InsertedOnce, Filling
  <2>5. CopiesAgree
    <3>1. \A c \in Calls : call[c].step \notin Certified \cup Rotating \cup Holding
      BY <1>5, Zenon DEF Certified, Rotating, Holding
    <3>2. ~operator.row.in
      BY <1>1, <1>2, Zenon
    <3>3. \A h \in Hosts : host[h].up => nodes[h].in
      BY <1>1, <1>2, Zenon
    <3> QED
      BY <3>1, <3>2, <3>3, Zenon DEF CopiesAgree
  <2> QED
    BY <2>1, <2>2, <2>3, <2>4, <2>5, Zenon DEF Rows, Tables
<1>9. Atomic
  <2>1. \A h \in Hosts : nodes[h].in <=> h = First
    BY <1>1, <1>2, Zenon
  <2>2. nodes[First].device = 1
    BY <1>1, <1>2, <1>4, Zenon
  <2>3. {<<h, nodes[h].device>> : h \in {g \in Hosts : nodes[g].in}} = {<<First, 1>>}
    BY <1>4, <2>1, <2>2, Zenon
  <2>4. \A c \in Calls : Saved(c)
    BY <1>5, Zenon DEF Saved, At
  <2> QED
    BY <1>1, <2>3, <2>4, Zenon DEF Atomic, EnrolmentIsAtomic
<1>10. Recorded /\ Attended
  <2>1. \A c \in Calls : call[c].step \notin {"saveKey", "replan", "answer"}
    BY <1>5, Zenon
  <2> QED
    BY <1>1, <1>5, <2>1, Zenon DEF Recorded, Attended, At
<1>11. Informed
  BY <1>1, <1>2, Zenon DEF Informed
<1>12. Paired
  <2>1. \A c \in Calls : Halfway(c)
    BY <1>5, HalfwayNone, Zenon
  <2>2. \A h \in Hosts : host[h].up = (h = First) /\ host[h].key = nodes[h].key
    BY <1>1, Zenon
  <2>3. \A h \in Hosts : h # First => ~nodes[h].in
    BY <1>1, <1>2, Zenon
  <2>4. \A h \in Hosts : Settled(h)
    BY <2>2, <2>3, Zenon DEF Settled
  <2> QED
    BY <2>1, <2>4, Zenon DEF Paired
<1> QED
  BY <1>8, <1>9, <1>10, <1>11, <1>12, InitShapes, ZenonT(40) DEF MeshInvariant

\* Every step of the mesh keeps the invariant, and every node its address and device.
LEMMA MeshStep ==
  ASSUME MeshInvariant, [Next]_vars
  PROVE  MeshInvariant' /\ NodesRemain
  BY ShapesStep, RowsStep, AtomicStep, RecordedStep, AttendedStep, InformedStep, PairedStep, ZenonT(40) DEF MeshInvariant

\* The rows, the transactions, the calls and the hosts agree with each other in every
\* reachable state, however many calls run side by side, fail or are lost.
THEOREM MeshInductive == Spec => []MeshInvariant
<1>1. MeshInvariant /\ [Next]_vars => MeshInvariant'
  BY MeshStep, Zenon
<1> QED
  BY <1>1, InitMesh, PTL DEF Spec

\* Types, the leases in the pool, the bound on the attempts of PgKeyRotationLedger.rotate,
\* and that exactly a call under way has a transaction or a host that waits for it.
THEOREM MeshTypes == Spec => []TypeOK
<1>1. MeshInvariant => TypeOK
  BY ShapesType, Zenon DEF MeshInvariant
<1> QED
  BY <1>1, MeshInductive, PTL

\* Two nodes never have the same address, also when statements run in the transaction
\* of another call.
THEOREM MeshLeases == Spec => []LeasesAreDistinct
<1>1. ASSUME MeshInvariant PROVE LeasesAreDistinct
  <2>1. 0 \in Places /\ NodesAt(0) = nodes
    BY Zenon DEF Places, NodesAt
  <2>2. AddressesAreOwned
    BY <1>1, Zenon DEF MeshInvariant, Rows, Tables
  <2>3. \A g, h \in Hosts : nodes[g].in /\ nodes[h].in => (nodes[g].lease = nodes[h].lease <=> g = h)
    BY <2>1, <2>2, SMTT(20) DEF AddressesAreOwned
  <2> QED
    BY <2>3, Zenon DEF LeasesAreDistinct
<1> QED
  BY <1>1, MeshInductive, PTL

\* A registration stores its device and its node together or not at all, as long as no
\* statement runs in the transaction of another call.
THEOREM MeshAtomic == Spec => []EnrolmentIsAtomic
<1>1. MeshInvariant => EnrolmentIsAtomic
  BY Zenon DEF MeshInvariant, Atomic
<1> QED
  BY <1>1, MeshInductive, PTL

\* When no call is under way and none was lost, every node was told of every other, for
\* any number of hosts that enrol side by side.
THEOREM MeshTold == Spec => []NoNodeIsForgotten
<1>1. ASSUME MeshInvariant PROVE NoNodeIsForgotten
  <2>1. ASSUME \A c \in Calls : At(c, "none") PROVE \A c \in Calls, g, h \in Hosts : ~Covers(c, g, h)
    BY <2>1, Zenon DEF Covers, At
  <2> QED
    BY <1>1, <2>1, Zenon DEF MeshInvariant, Informed, NoNodeIsForgotten
<1> QED
  BY <1>1, MeshInductive, PTL

\* An epoch of a node is answered with one key, and a host that waits for nothing uses
\* the key of its node, unless an answer was lost, a row was written back over a newer
\* one or a statement ran in the transaction of another call.
THEOREM MeshKeys == Spec => []KeysAgree
<1>1. ASSUME MeshInvariant PROVE KeysAgree
  <2>1. \A a, b \in acks : a[1] = b[1] /\ a[2] = b[2] => a[3] = b[3]
    BY <1>1, Zenon DEF MeshInvariant, Recorded
  <2>2. ASSUME NEW h \in Hosts, host[h].up, host[h].waits = 0, ~lost, ~overwritten, ~foreign
        PROVE  host[h].key = nodes[h].key
    <3>1. Settled(h)
      BY <1>1, <2>2, Zenon DEF MeshInvariant, Paired
    <3> QED
      BY <2>2, <3>1, Zenon DEF Settled
  <2> QED
    BY <2>1, <2>2, Zenon DEF KeysAgree
<1> QED
  BY <1>1, MeshInductive, PTL

\* A node that is enrolled stays enrolled, at the address and with the device it got,
\* whatever is written back over it: saveNode of a rotation and PUT /nodes/:id/region
\* write rows they read before, which may be out of date only in key and region.
THEOREM MeshNodesRemain == Spec => [][NodesRemain]_vars
<1>1. MeshInvariant /\ [Next]_vars => NodesRemain
  BY MeshStep, Zenon
<1> QED
  BY <1>1, MeshInductive, PTL DEF Spec
=============================================================================
