---------------------------- MODULE FleetProofs -----------------------------
(***************************************************************************)
(* Proofs about what the mesh relies on outside of it: the transit fleet   *)
(* and the out-of-band channel with its snapshots.  Each is proved for any *)
(* number of servers and calls, with an inductive invariant of its own;    *)
(* the argument is stated at the head of its part.                         *)
(***************************************************************************)
EXTENDS TransitFleet, OutOfBand, WellFoundedInduction, TLAPS

-----------------------------------------------------------------------------
(***************************************************************************)
(* The transit fleet.                                                      *)
(*                                                                         *)
(* An instance is known by its row, by the call that launched it or        *)
(* because that call failed; it stays so because a row is removed only     *)
(* after its instance (RemovedIsGone). A live process can be selected      *)
(* because its calls are made when they are due (NoneIsLate), which keeps  *)
(* its row more recent than the selection asks.                            *)
(***************************************************************************)

RowFields == {"beat", "load", "sessions"}
ServerFields == {"running", "request", "due", "failed"}
FleetCallFields == {"step", "id"}

FleetShapes ==
  /\ now \in Nat
  /\ DOMAIN fleetRows = Servers \cup Instances
  /\ \A i \in Servers \cup Instances :
       /\ DOMAIN fleetRows[i] = RowFields
       /\ fleetRows[i].beat \in Int /\ fleetRows[i].load \in Nat /\ fleetRows[i].sessions \in Nat
  /\ DOMAIN server = Servers
  /\ \A s \in Servers : DOMAIN server[s] = ServerFields /\ server[s].due \in Nat
  /\ DOMAIN fleetCall = FleetCalls
  /\ \A c \in FleetCalls : DOMAIN fleetCall[c] = FleetCallFields
  /\ \A c \in FleetCalls : fleetCall[c].step # "done" => fleetCall[c].id \in Instances
  /\ ec2 \subseteq Instances

\* A call that is due is made before time goes on.
NoneIsLate == \A s \in Servers : server[s].running => server[s].due >= now

\* The row of an instance is removed after the instance.
RemovedIsGone == \A c \in FleetCalls : fleetCall[c].step = "remove" => fleetCall[c].id \notin ec2

FleetInvariant == FleetShapes /\ NoneIsLate /\ RemovedIsGone /\ InstancesAreKnown

\* No process runs and no instance was launched.
LEMMA FleetStarts == FleetInit => FleetInvariant
<1> SUFFICES ASSUME FleetInit PROVE FleetInvariant
  BY Zenon
<1>1. /\ DOMAIN NoRow = RowFields /\ NoRow.beat = -1 /\ NoRow.load = 0 /\ NoRow.sessions = 0
      /\ DOMAIN Idle = ServerFields /\ Idle.due = 0 /\ Idle.running = FALSE
      /\ DOMAIN NoFleetCall = FleetCallFields /\ NoFleetCall.step = "done"
  BY Zenon DEF NoRow, RowFields, Idle, ServerFields, NoFleetCall, FleetCallFields
<1>2. /\ DOMAIN fleetRows = Servers \cup Instances /\ \A i \in Servers \cup Instances : fleetRows[i] = NoRow
      /\ DOMAIN server = Servers /\ \A s \in Servers : server[s] = Idle
      /\ DOMAIN fleetCall = FleetCalls /\ \A c \in FleetCalls : fleetCall[c] = NoFleetCall
      /\ now = 0 /\ ec2 = {}
  BY Zenon DEF FleetInit
<1>3. FleetShapes
  BY <1>1, <1>2 DEF FleetShapes
<1> QED
  BY <1>1, <1>2, <1>3, Zenon DEF FleetInvariant, NoneIsLate, RemovedIsGone, InstancesAreKnown

\* What a request of a process does to the rows: a row that is there stays there.
RowsKept(rows) ==
  /\ DOMAIN rows = Servers \cup Instances
  /\ \A i \in Servers \cup Instances :
       /\ DOMAIN rows[i] = RowFields
       /\ rows[i].beat \in Int /\ rows[i].load \in Nat /\ rows[i].sessions \in Nat
       /\ Registered(i) => rows[i] # NoRow

\* A registration removes no row.
LEMMA InsertKeepsRows ==
  ASSUME FleetShapes, NEW s \in Servers
  PROVE  RowsKept(fleetRows) /\ RowsKept(insertRelay(s))
<1>1. now \in Nat /\ now \in Int /\ now # -1 /\ NoRow.beat = -1
  BY DEF FleetShapes, NoRow
<1>2. RowsKept(fleetRows)
  BY Zenon DEF RowsKept, FleetShapes, Registered
<1>3. RowsKept(insertRelay(s))
  <2> DEFINE row == [fleetRows[s] EXCEPT !.beat = now]
  <2>1. /\ DOMAIN row = RowFields /\ row.beat = now
        /\ row.load = fleetRows[s].load /\ row.sessions = fleetRows[s].sessions
    BY Zenon DEF FleetShapes, RowFields
  <2>2. insertRelay(s) = [fleetRows EXCEPT ![s] = row]
    BY Zenon DEF insertRelay, FleetShapes
  <2> HIDE DEF row
  <2>3. row # NoRow
    BY <1>1, <2>1, Zenon
  <2> QED
    BY <1>1, <2>1, <2>2, <2>3, Zenon DEF RowsKept, FleetShapes, Registered
<1> QED
  BY <1>2, <1>3, Zenon

\* A heartbeat removes no row.
LEMMA RequestKeepsRows ==
  ASSUME FleetShapes, NEW s \in Servers, NEW measure \in Measures
  PROVE  RowsKept(heartbeatRelay(s, measure)) /\ RowsKept(heartbeatGateway(s, measure))
<1>1. now \in Nat /\ now \in Int /\ now # -1 /\ NoRow.beat = -1
  BY DEF FleetShapes, NoRow
<1>2. RowsKept(fleetRows)
  BY InsertKeepsRows, Zenon
<1> DEFINE row == [beat |-> now, load |-> measure[1], sessions |-> measure[2]]
<1>3. /\ DOMAIN row = RowFields /\ row.beat = now /\ row.load = measure[1] /\ row.sessions = measure[2]
  BY Zenon DEF RowFields
<1>4. heartbeatRelay(s, measure) = [fleetRows EXCEPT ![s] = row] \/ heartbeatRelay(s, measure) = fleetRows
  BY Zenon DEF heartbeatRelay
<1> HIDE DEF row
<1>5. row # NoRow /\ measure[1] \in Nat /\ measure[2] \in Nat
  BY <1>1, <1>3, FleetAssumption, Zenon
<1>6. RowsKept(heartbeatRelay(s, measure))
  BY <1>1, <1>2, <1>3, <1>4, <1>5, Zenon DEF RowsKept, FleetShapes, Registered
<1>7. heartbeatGateway(s, measure) = heartbeatRelay(s, measure)
  BY Zenon DEF heartbeatGateway, heartbeatRelay
<1> QED
  BY <1>6, <1>7, Zenon

\* A step of a process.
LEMMA ServerMoves ==
  ASSUME FleetInvariant, NEW s \in Servers, NEW l, server' = [server EXCEPT ![s] = l],
         DOMAIN l = ServerFields, l.due \in Nat, l.running => l.due >= now,
         RowsKept(fleetRows'), UNCHANGED <<now, ec2, fleetCall>>, strayed \subseteq strayed'
  PROVE  FleetInvariant'
<1>0. FleetShapes
  BY Zenon DEF FleetInvariant
<1>1. DOMAIN server' = Servers /\ server'[s] = l /\ \A p \in Servers \ {s} : server'[p] = server[p]
  BY <1>0, Zenon DEF FleetShapes
<1>2. FleetShapes'
  BY <1>0, <1>1, Zenon DEF FleetShapes, RowsKept
<1>3. NoneIsLate'
  BY <1>1, Zenon DEF NoneIsLate, FleetInvariant
<1>4. RemovedIsGone'
  BY Zenon DEF RemovedIsGone, FleetInvariant
<1>5. InstancesAreKnown'
  <2>1. \A i \in ec2 : Registered(i) => Registered(i)'
    BY <1>0, Zenon DEF FleetShapes, RowsKept, Registered
  <2> QED
    BY <2>1, Zenon DEF InstancesAreKnown, FleetInvariant
<1> QED
  BY <1>2, <1>3, <1>4, <1>5, Zenon DEF FleetInvariant

\* The record of a process that starts, waits after a failure, or goes on.
LEMMA ServerRecords ==
  ASSUME FleetShapes, NEW s \in Servers, NEW d \in Nat, NEW f, NEW request
  PROVE  /\ LET l == [Idle EXCEPT !.running = TRUE, !.due = d] IN
              DOMAIN l = ServerFields /\ l.due = d
         /\ LET l == [Idle EXCEPT !.running = TRUE, !.due = d, !.failed = TRUE] IN
              DOMAIN l = ServerFields /\ l.due = d
         /\ LET l == [server[s] EXCEPT !.request = request, !.due = d, !.failed = f] IN
              DOMAIN l = ServerFields /\ l.due = d
         /\ DOMAIN Idle = ServerFields /\ Idle.due = 0 /\ Idle.running = FALSE
BY Zenon DEF FleetShapes, Idle, ServerFields

\* A process starts, with its first call due at once, or stops.
LEMMA StartStopPreserves ==
  ASSUME FleetInvariant, NEW s \in Servers, StartServer(s) \/ StopServer(s)
  PROVE  FleetInvariant'
<1>0. FleetShapes /\ now \in Nat
  BY Zenon DEF FleetInvariant, FleetShapes
<1>1. RowsKept(fleetRows') /\ UNCHANGED <<now, ec2, fleetCall, strayed>>
  BY <1>0, Zenon DEF StartServer, StopServer, RowsKept, FleetShapes, Registered
<1>2. CASE StartServer(s)
  <2> DEFINE l == [Idle EXCEPT !.running = TRUE, !.due = now]
  <2>1. DOMAIN l = ServerFields /\ l.due = now
    BY <1>0, ServerRecords, Zenon
  <2>2. server' = [server EXCEPT ![s] = l]
    BY <1>2, Zenon DEF StartServer
  <2> HIDE DEF l
  <2>3. l.due \in Nat /\ l.due >= now
    BY <1>0, <2>1
  <2> QED
    BY <1>1, <2>1, <2>2, <2>3, ServerMoves, Zenon
<1>3. CASE StopServer(s)
  <2>1. server' = [server EXCEPT ![s] = Idle]
    BY <1>3, Zenon DEF StopServer
  <2>2. DOMAIN Idle = ServerFields /\ Idle.due \in Nat /\ ~Idle.running
    BY Zenon DEF Idle, ServerFields
  <2> QED
    BY <1>1, <2>1, <2>2, ServerMoves, Zenon
<1> QED
  BY <1>2, <1>3, Zenon

\* A process whose request is answered goes on.
LEMMA ThenPreserves ==
  ASSUME FleetInvariant, NEW s \in Servers, NEW request, Then(s, request),
         RowsKept(fleetRows'), UNCHANGED <<now, ec2, fleetCall, strayed>>
  PROVE  FleetInvariant'
<1>0. FleetShapes /\ now \in Nat /\ Period \in Nat
  BY FleetAssumption, Zenon DEF FleetInvariant, FleetShapes
<1> DEFINE d == IF request = "register" THEN now + Period ELSE now
           f == request = "heartbeat" /\ server[s].failed
           l == [server[s] EXCEPT !.request = request, !.due = d, !.failed = f]
<1>1. d \in Nat /\ d >= now
  BY <1>0
<1>2. server' = [server EXCEPT ![s] = l]
  BY <1>0, Zenon DEF Then, FleetShapes
<1> HIDE DEF d, f
<1>3. DOMAIN l = ServerFields /\ l.due = d
  BY <1>0, <1>1, Zenon DEF FleetShapes, ServerFields
<1> HIDE DEF l
<1> QED
  BY <1>1, <1>2, <1>3, ServerMoves, Zenon

\* A process whose request failed tries again after a period, whether or not the request
\* was served.
LEMMA FailPreserves ==
  ASSUME FleetInvariant, NEW s \in Servers, NEW after, RequestFails(s, after), RowsKept(after)
  PROVE  FleetInvariant'
<1>0. FleetShapes /\ now \in Nat /\ Period \in Nat
  BY FleetAssumption, Zenon DEF FleetInvariant, FleetShapes
<1> DEFINE l == [Idle EXCEPT !.running = TRUE, !.due = now + Period, !.failed = TRUE]
<1>1. RowsKept(fleetRows)
  BY <1>0, Zenon DEF RowsKept, FleetShapes, Registered
<1>2. RowsKept(fleetRows') /\ UNCHANGED <<now, ec2, fleetCall, strayed>>
  BY <1>1, Zenon DEF RequestFails
<1>3. DOMAIN l = ServerFields /\ l.due = now + Period
  BY Zenon DEF Idle, ServerFields
<1>4. server' = [server EXCEPT ![s] = l]
  BY Zenon DEF RequestFails
<1> HIDE DEF l
<1>5. l.due \in Nat /\ l.due >= now
  BY <1>0, <1>3
<1> QED
  BY <1>2, <1>3, <1>4, <1>5, ServerMoves, Zenon

\* Each step of a relay or gateway process.
LEMMA ServerPreserves ==
  ASSUME FleetInvariant, ServerNext
  PROVE  FleetInvariant'
<1>0. FleetShapes
  BY Zenon DEF FleetInvariant
<1>1. PICK s \in Servers :
        \/ StartServer(s) \/ StopServer(s) \/ RegisterRelay(s) \/ RelayHeartbeat(s)
        \/ RegisterGateway(s) \/ GatewayHeartbeat(s) \/ RelayRequestFails(s) \/ GatewayRequestFails(s)
  BY Zenon DEF ServerNext
<1>2. RowsKept(insertRelay(s)) /\ RowsKept(insertGateway(s))
  <2>1. insertGateway(s) = insertRelay(s)
    BY Zenon DEF insertGateway, insertRelay
  <2> QED
    BY <1>0, <2>1, InsertKeepsRows, Zenon
<1>3. \A m \in Measures : RowsKept(heartbeatRelay(s, m)) /\ RowsKept(heartbeatGateway(s, m))
  BY <1>0, RequestKeepsRows, Zenon
<1>4. CASE StartServer(s) \/ StopServer(s)
  BY <1>4, StartStopPreserves, Zenon
<1>5. CASE RegisterRelay(s)
  BY <1>2, <1>5, ThenPreserves, Zenon DEF RegisterRelay
<1>6. CASE RelayHeartbeat(s)
  BY <1>3, <1>6, ThenPreserves, Zenon DEF RelayHeartbeat
<1>7. CASE RegisterGateway(s)
  BY <1>2, <1>7, ThenPreserves, Zenon DEF RegisterGateway
<1>8. CASE GatewayHeartbeat(s)
  BY <1>3, <1>8, ThenPreserves, Zenon DEF GatewayHeartbeat
<1>9. CASE RelayRequestFails(s)
  BY <1>2, <1>3, <1>9, FailPreserves, Zenon DEF RelayRequestFails
<1>10. CASE GatewayRequestFails(s)
  BY <1>2, <1>3, <1>10, FailPreserves, Zenon DEF GatewayRequestFails
<1> QED
  BY <1>1, <1>4, <1>5, <1>6, <1>7, <1>8, <1>9, <1>10, Zenon

\* Time passes only when no call is due.
LEMMA FleetTickPreserves ==
  ASSUME FleetInvariant, FleetTick
  PROVE  FleetInvariant'
<1>0. FleetShapes
  BY Zenon DEF FleetInvariant
<1>1. now' = now + 1 /\ UNCHANGED <<fleetRows, server, ec2, fleetCall, strayed>>
  BY Zenon DEF FleetTick
<1>2. FleetShapes'
  BY <1>0, <1>1 DEF FleetShapes
<1>3. NoneIsLate'
  <2> SUFFICES ASSUME NEW s \in Servers, server[s].running PROVE server[s].due >= now + 1
    BY <1>1, Zenon DEF NoneIsLate
  <2>1. server[s].due \in Nat /\ now \in Nat /\ server[s].due > now
    BY <1>0, Zenon DEF FleetShapes, FleetTick
  <2> QED
    BY <2>1
<1> QED
  BY <1>1, <1>2, <1>3, Zenon DEF FleetInvariant, RemovedIsGone, InstancesAreKnown, Registered

\* A request to provision or terminate moves on; what it does to the instances and
\* their rows keeps every running instance known.
LEMMA CallMoves ==
  ASSUME FleetInvariant, NEW c \in FleetCalls, NEW l, fleetCall' = [fleetCall EXCEPT ![c] = l],
         DOMAIN l = FleetCallFields, l.step # "done" => l.id \in Instances,
         UNCHANGED <<now, server>>, ec2' \subseteq Instances,
         DOMAIN fleetRows' = Servers \cup Instances,
         \A i \in Servers \cup Instances :
           fleetRows'[i] = fleetRows[i] \/
           /\ DOMAIN fleetRows'[i] = RowFields /\ fleetRows'[i].beat \in Int
           /\ fleetRows'[i].load \in Nat /\ fleetRows'[i].sessions \in Nat,
         l.step = "remove" => l.id \notin ec2',
         \A d \in FleetCalls \ {c} : fleetCall[d].step = "remove" => fleetCall[d].id \notin ec2' \ ec2,
         \A i \in ec2' :
            \/ Registered(i)' \/ i \in strayed'
            \/ l = [step |-> "insert", id |-> i]
            \/ i \in ec2 /\ fleetRows'[i] = fleetRows[i] /\ strayed' = strayed /\ fleetCall[c].step # "insert"
            \/ i \in ec2 /\ fleetRows'[i] = fleetRows[i] /\ strayed \subseteq strayed' /\ fleetCall[c].id # i
  PROVE  FleetInvariant'
<1>0. FleetShapes /\ NoneIsLate /\ RemovedIsGone /\ InstancesAreKnown
  BY Zenon DEF FleetInvariant
<1>1. DOMAIN fleetCall' = FleetCalls /\ fleetCall'[c] = l /\ \A d \in FleetCalls \ {c} : fleetCall'[d] = fleetCall[d]
  BY <1>0, Zenon DEF FleetShapes
<1>2. FleetShapes'
  BY <1>0, <1>1, Zenon DEF FleetShapes
<1>3. NoneIsLate'
  BY <1>0, Zenon DEF NoneIsLate
<1>4. RemovedIsGone'
  BY <1>0, <1>1, Zenon DEF RemovedIsGone
<1>5. InstancesAreKnown'
  <2> SUFFICES ASSUME NEW i \in ec2'
               PROVE  Registered(i)' \/ i \in strayed' \/ \E d \in FleetCalls : fleetCall'[d] = [step |-> "insert", id |-> i]
    BY Zenon DEF InstancesAreKnown
  <2>1. CASE l = [step |-> "insert", id |-> i]
    BY <1>1, <2>1, Zenon
  <2>2. CASE /\ i \in ec2 /\ fleetRows'[i] = fleetRows[i] /\ strayed \subseteq strayed'
             /\ fleetCall[c] # [step |-> "insert", id |-> i]
    <3>1. CASE Registered(i)
      BY <2>2, <3>1, Zenon DEF Registered
    <3>2. CASE i \in strayed
      BY <2>2, <3>2, Zenon
    <3>3. CASE \E d \in FleetCalls : fleetCall[d] = [step |-> "insert", id |-> i]
      BY <1>1, <2>2, <3>3, Zenon
    <3> QED
      BY <1>0, <2>2, <3>1, <3>2, <3>3, Zenon DEF InstancesAreKnown
  <2>3. CASE i \in ec2 /\ fleetRows'[i] = fleetRows[i] /\ strayed' = strayed /\ fleetCall[c].step # "insert"
    BY <2>2, <2>3
  <2>4. CASE i \in ec2 /\ fleetRows'[i] = fleetRows[i] /\ strayed \subseteq strayed' /\ fleetCall[c].id # i
    BY <2>2, <2>4
  <2> QED
    BY <2>1, <2>3, <2>4, Zenon
<1> QED
  BY <1>2, <1>3, <1>4, <1>5, Zenon DEF FleetInvariant

\* An instance is launched: the call that launched it knows it.
LEMMA LaunchPreserves ==
  ASSUME FleetInvariant, NEW c \in FleetCalls, launch(c)
  PROVE  FleetInvariant'
<1>0. FleetShapes /\ fleetCall[c].step = "done"
  BY Zenon DEF FleetInvariant, launch
<1>1. PICK i \in Instances : /\ \A d \in FleetCalls : fleetCall[d].id # i
                             /\ ec2' = ec2 \cup {i}
                             /\ CallStep(c, "insert", i)
  BY Zenon DEF launch
<1> DEFINE l == [step |-> "insert", id |-> i]
<1>2. DOMAIN l = FleetCallFields /\ l.step = "insert" /\ l.id = i /\ l = [step |-> "insert", id |-> i]
  BY Zenon DEF FleetCallFields
<1>3. fleetCall' = [fleetCall EXCEPT ![c] = l]
  BY <1>1, Zenon DEF CallStep
<1> HIDE DEF l
<1>4. UNCHANGED <<now, fleetRows, server, strayed>> /\ ec2' \subseteq Instances
      /\ DOMAIN fleetRows' = Servers \cup Instances
  BY <1>0, <1>1, Zenon DEF launch, FleetShapes
<1>5. \A d \in FleetCalls \ {c} : fleetCall[d].step = "remove" => fleetCall[d].id \notin ec2' \ ec2
  BY <1>1, Zenon
<1> QED
  BY <1>0, <1>1, <1>2, <1>3, <1>4, <1>5, CallMoves, Zenon

\* The launched instance gets its row, which knows it from then on.
LEMMA InsertProvisionedPreserves ==
  ASSUME FleetInvariant, NEW c \in FleetCalls, insertProvisioned(c)
  PROVE  FleetInvariant'
<1>0. /\ FleetShapes /\ fleetCall[c].step = "insert" /\ fleetCall[c].id \in Instances
      /\ UNCHANGED <<now, server, ec2, strayed>>
  BY Zenon DEF FleetInvariant, insertProvisioned, FleetShapes
<1>i. PICK i \in Instances : i = fleetCall[c].id
  BY <1>0, Zenon
<1> DEFINE row == [beat |-> now, load |-> 0, sessions |-> 0]
<1>1. /\ DOMAIN row = RowFields /\ row.beat = now /\ row.load = 0 /\ row.sessions = 0
      /\ row.beat # -1 /\ row.beat \in Int
  BY <1>0 DEF RowFields, FleetShapes
<1>2. fleetRows' = [fleetRows EXCEPT ![i] = row]
  BY <1>i, Zenon DEF insertProvisioned
<1>3. DOMAIN NoFleetCall = FleetCallFields /\ NoFleetCall.step = "done" /\ NoRow.beat = -1
  BY Zenon DEF NoFleetCall, FleetCallFields, NoRow
<1>4. fleetCall' = [fleetCall EXCEPT ![c] = NoFleetCall]
  BY Zenon DEF insertProvisioned, CallDone
<1> HIDE DEF row
<1>5. /\ DOMAIN fleetRows' = Servers \cup Instances /\ fleetRows'[i] = row
      /\ \A j \in Servers \cup Instances : j # i => fleetRows'[j] = fleetRows[j]
  BY <1>0, <1>2, Zenon DEF FleetShapes
<1>6. Registered(i)'
  BY <1>1, <1>3, <1>5, Zenon DEF Registered
<1>7. ec2 \subseteq Instances
  BY <1>0, Zenon DEF FleetShapes
<1>8. \A j \in ec2' : \/ Registered(j)'
                      \/ j \in ec2 /\ fleetRows'[j] = fleetRows[j] /\ strayed \subseteq strayed' /\ fleetCall[c].id # j
  BY <1>0, <1>i, <1>5, <1>6, <1>7, Zenon
<1>9. \A j \in Servers \cup Instances :
        fleetRows'[j] = fleetRows[j] \/
        /\ DOMAIN fleetRows'[j] = RowFields /\ fleetRows'[j].beat \in Int
        /\ fleetRows'[j].load \in Nat /\ fleetRows'[j].sessions \in Nat
  BY <1>1, <1>5
<1> QED
  BY <1>0, <1>3, <1>4, <1>5, <1>7, <1>8, <1>9, CallMoves, ZenonT(40)

\* An instance is terminated before its row is removed.
LEMMA TerminatePreserves ==
  ASSUME FleetInvariant, NEW c \in FleetCalls, terminateRelay(c) \/ terminateInstance(c)
  PROVE  FleetInvariant'
<1>0. /\ FleetShapes /\ fleetCall[c].step # "insert"
      /\ UNCHANGED <<now, server, fleetRows, strayed>> /\ ec2' \subseteq ec2 /\ ec2 \subseteq Instances
  <2>1. CASE terminateRelay(c)
    BY <2>1, Zenon DEF FleetInvariant, terminateRelay, FleetShapes
  <2>2. CASE terminateInstance(c)
    BY <2>2, Zenon DEF FleetInvariant, terminateInstance, FleetShapes
  <2> QED
    BY <2>1, <2>2, Zenon
<1>1. PICK i \in Instances, s \in {"terminate", "remove"} :
        CallStep(c, s, i) /\ (s = "remove" => i \notin ec2')
  <2>1. CASE terminateRelay(c)
    BY <2>1, Zenon DEF terminateRelay
  <2>2. CASE terminateInstance(c)
    <3>1. fleetCall[c].id \in Instances /\ fleetCall[c].id \notin ec2' /\ CallStep(c, "remove", fleetCall[c].id)
      BY <1>0, <2>2, Zenon DEF terminateInstance, FleetShapes
    <3> QED
      BY <3>1, Zenon
  <2> QED
    BY <2>1, <2>2, Zenon
<1> DEFINE l == [step |-> s, id |-> i]
<1>2. DOMAIN l = FleetCallFields /\ l.step = s /\ l.id = i
  BY Zenon DEF FleetCallFields
<1>3. fleetCall' = [fleetCall EXCEPT ![c] = l]
  BY <1>1, Zenon DEF CallStep
<1> HIDE DEF l
<1>4. DOMAIN fleetRows' = Servers \cup Instances /\ fleetRows' = fleetRows /\ ec2' \subseteq Instances
  BY <1>0, Zenon DEF FleetShapes
<1> QED
  BY <1>0, <1>1, <1>2, <1>3, <1>4, CallMoves, Zenon

\* A row is removed whose instance was terminated.
LEMMA RemovePreserves ==
  ASSUME FleetInvariant, NEW c \in FleetCalls, removeRelay(c)
  PROVE  FleetInvariant'
<1>0. /\ FleetShapes /\ fleetCall[c].step = "remove" /\ fleetCall[c].id \in Instances
      /\ UNCHANGED <<now, server, ec2, strayed>> /\ fleetCall[c].id \notin ec2 /\ ec2 \subseteq Instances
  BY Zenon DEF FleetInvariant, removeRelay, FleetShapes, RemovedIsGone
<1>1. /\ DOMAIN NoRow = RowFields /\ NoRow.beat \in Int /\ NoRow.load \in Nat /\ NoRow.sessions \in Nat
  BY DEF NoRow, RowFields
<1>2. DOMAIN NoFleetCall = FleetCallFields /\ NoFleetCall.step = "done"
  BY Zenon DEF NoFleetCall, FleetCallFields
<1>3. fleetCall' = [fleetCall EXCEPT ![c] = NoFleetCall]
  BY Zenon DEF removeRelay, CallDone
<1>4. /\ DOMAIN fleetRows' = Servers \cup Instances /\ fleetRows'[fleetCall[c].id] = NoRow
      /\ \A j \in Servers \cup Instances : j # fleetCall[c].id => fleetRows'[j] = fleetRows[j]
  BY <1>0, Zenon DEF FleetShapes, removeRelay
<1> QED
  BY <1>0, <1>1, <1>2, <1>3, <1>4, CallMoves, Zenon

\* A provisioning that fails between the launch and the row leaves an instance astray.
LEMMA FleetCallFailsPreserves ==
  ASSUME FleetInvariant, NEW c \in FleetCalls, FleetCallFails(c)
  PROVE  FleetInvariant'
<1>0. /\ FleetShapes /\ UNCHANGED <<now, fleetRows, server, ec2>> /\ ec2 \subseteq Instances
      /\ DOMAIN fleetRows' = Servers \cup Instances /\ fleetRows' = fleetRows
  BY Zenon DEF FleetInvariant, FleetCallFails, FleetShapes
<1>1. DOMAIN NoFleetCall = FleetCallFields /\ NoFleetCall.step = "done"
  BY Zenon DEF NoFleetCall, FleetCallFields
<1>2. PICK l : l = NoFleetCall
  BY Zenon
<1>3. /\ fleetCall' = [fleetCall EXCEPT ![c] = l] /\ DOMAIN l = FleetCallFields
      /\ l.step # "done" => l.id \in Instances
      /\ l.step = "remove" => l.id \notin ec2'
  BY <1>1, <1>2, Zenon DEF FleetCallFails, CallDone
<1>4. \A i \in Servers \cup Instances :
        fleetRows'[i] = fleetRows[i] \/
        /\ DOMAIN fleetRows'[i] = RowFields /\ fleetRows'[i].beat \in Int
        /\ fleetRows'[i].load \in Nat /\ fleetRows'[i].sessions \in Nat
  BY <1>0, Zenon
<1>5. /\ UNCHANGED <<now, server>> /\ ec2' \subseteq Instances /\ DOMAIN fleetRows' = Servers \cup Instances
      /\ \A d \in FleetCalls \ {c} : fleetCall[d].step = "remove" => fleetCall[d].id \notin ec2' \ ec2
  BY <1>0, Zenon
<1>6. \A i \in ec2' :
        \/ Registered(i)' \/ i \in strayed'
        \/ l = [step |-> "insert", id |-> i]
        \/ i \in ec2 /\ fleetRows'[i] = fleetRows[i] /\ strayed' = strayed /\ fleetCall[c].step # "insert"
        \/ i \in ec2 /\ fleetRows'[i] = fleetRows[i] /\ strayed \subseteq strayed' /\ fleetCall[c].id # i
  <2>1. CASE fleetCall[c].step = "insert"
    <3>1. strayed' = strayed \cup {fleetCall[c].id}
      BY <2>1, Zenon DEF FleetCallFails
    <3> QED
      BY <1>0, <3>1, Zenon
  <2>2. CASE fleetCall[c].step # "insert"
    <3>1. strayed' = strayed
      BY <2>2, Zenon DEF FleetCallFails
    <3> QED
      BY <1>0, <2>2, <3>1, Zenon
  <2> QED
    BY <2>1, <2>2, Zenon
<1> QED
  BY <1>3, <1>4, <1>5, <1>6, CallMoves, ZenonT(60)

\* Every step of the fleet preserves the invariant.
LEMMA FleetHolds == FleetSpec => []FleetInvariant
<1>1. FleetInit => FleetInvariant
  BY FleetStarts, Zenon
<1>2. FleetInvariant /\ [FleetNext]_fleetVars => FleetInvariant'
  <2> SUFFICES ASSUME FleetInvariant, [FleetNext]_fleetVars PROVE FleetInvariant'
    BY Zenon
  <2>1. CASE ServerNext
    BY <2>1, ServerPreserves, Zenon
  <2>2. CASE ProvisionNext(FleetCalls)
    BY <2>2, LaunchPreserves, InsertProvisionedPreserves, TerminatePreserves, RemovePreserves,
       FleetCallFailsPreserves, Zenon DEF ProvisionNext
  <2>3. CASE FleetTick
    BY <2>3, FleetTickPreserves, Zenon
  <2>4. CASE UNCHANGED fleetVars
    BY <2>4, Zenon DEF fleetVars, FleetInvariant, FleetShapes, NoneIsLate, RemovedIsGone, InstancesAreKnown,
       Registered
  <2> QED
    BY <2>1, <2>2, <2>3, <2>4, Zenon DEF FleetNext
<1> QED
  BY <1>1, <1>2, PTL DEF FleetSpec

\* Every EC2 instance that runs can be terminated by its row, is being provisioned, or
\* is one whose provisioning failed: no interleaving of requests and failures forgets it.
THEOREM NoInstanceIsForgotten == FleetSpec => []InstancesAreKnown
<1>1. FleetInvariant => InstancesAreKnown
  BY Zenon DEF FleetInvariant
<1> QED
  BY <1>1, FleetHolds, PTL

\* Less than 95 per cent of a limit, rounded down, is less than 95.
LEMMA Percent ==
  ASSUME NEW x \in Nat, NEW limit \in Nat, x * 100 < 95 * limit
  PROVE  Utilization(x, limit) < 95
<1>1. limit > 0 /\ x * 100 \in Nat
  OBVIOUS
<1> DEFINE q == (x * 100) \div limit
<1>2. q \in Int /\ q < 95
  BY <1>1
<1> HIDE DEF q
<1>3. Min({100, q}) = q
  BY <1>2 DEF Min
<1> QED
  BY <1>1, <1>2, <1>3, Zenon DEF Utilization, q

\* A share of a limit is a number from 0 to 100.
LEMMA UtilizationIsNat ==
  ASSUME NEW x \in Nat, NEW limit \in Nat
  PROVE  Utilization(x, limit) \in Nat
<1>1. CASE limit > 0
  <2> DEFINE q == (x * 100) \div limit
  <2>1. q \in Nat
    BY <1>1
  <2> HIDE DEF q
  <2>2. Min({100, q}) \in {100, q}
    <3>1. CASE q <= 100
      BY <2>1, <3>1 DEF Min
    <3>2. CASE ~(q <= 100)
      BY <2>1, <3>2 DEF Min
    <3> QED
      BY <3>1, <3>2, Zenon
  <2> QED
    BY <1>1, <2>1, <2>2 DEF Utilization, q
<1>2. CASE ~(limit > 0)
  BY <1>2, Zenon DEF Utilization
<1> QED
  BY <1>1, <1>2, Zenon

\* A relay has some capacity, however few sessions it is given.
LEMMA CapacityIsPositive == capacityMbps \in Nat /\ capacityMbps >= 1
<1> DEFINE q == (RelaySessions + 10) \div 20
<1>1. q \in Nat
  BY FleetAssumption
<1> HIDE DEF q
<1>2. Max({1, q}) \in Nat /\ Max({1, q}) >= 1
  <2>1. CASE q <= 1
    BY <1>1, <2>1 DEF Max
  <2>2. CASE ~(q <= 1)
    BY <1>1, <2>2 DEF Max
  <2> QED
    BY <2>1, <2>2, Zenon
<1> QED
  BY <1>2, Zenon DEF capacityMbps, q

\* Of the relays that are alive one scores best: a score is at most 800.
LEMMA ABestRelayExists ==
  ASSUME FleetShapes, \E i \in RelayIds : healthyRelay(i)
  PROVE  selectRelayEndpoint # {}
<1> DEFINE alive == {i \in RelayIds : healthyRelay(i)}
           Deficits == {800 - scoreRelay(i) : i \in alive}
<1>1. \A i \in alive : scoreRelay(i) \in Int /\ scoreRelay(i) <= 800
  <2> SUFFICES ASSUME NEW i \in alive PROVE scoreRelay(i) \in Int /\ scoreRelay(i) <= 800
    BY Zenon
  <2>1. i \in Servers \cup Instances
    BY Zenon DEF RelayIds, Servers
  <2>2. fleetRows[i].load \in Nat /\ fleetRows[i].sessions \in Nat
    BY <2>1, Zenon DEF FleetShapes
  <2> DEFINE limit == 20 * (IF i \in Instances THEN 1000 ELSE capacityMbps)
  <2>3. limit \in Nat
    BY CapacityIsPositive
  <2>4. RelayUtilization(i) \in Nat
    <3>1. RelayUtilization(i) = Utilization(fleetRows[i].sessions, limit)
      BY Zenon DEF RelayUtilization
    <3> HIDE DEF limit
    <3> QED
      BY <2>2, <2>3, <3>1, UtilizationIsNat, Zenon
  <2>5. penalty(i) \in Nat
    BY <2>2, <2>4 DEF penalty
  <2> QED
    BY <2>5 DEF scoreRelay
<1>2. Deficits \subseteq Nat /\ Deficits # {}
  BY <1>1
<1> HIDE DEF Deficits
<1>3. PICK least \in Deficits : \A d \in Deficits : ~ <<d, least>> \in OpToRel(<, Nat)
  BY <1>2, NatLessThanWellFounded, WFMin, Zenon
<1>4. \A d \in Deficits : least <= d
  <2>1. \A d \in Deficits : d < least => <<d, least>> \in OpToRel(<, Nat)
    BY <1>2, Zenon DEF OpToRel
  <2>2. \A d \in Deficits : ~(d < least)
    BY <1>3, <2>1, Zenon
  <2> QED
    BY <1>2, <2>2
<1>5. PICK best \in alive : least = 800 - scoreRelay(best)
  BY Zenon DEF Deficits
<1>6. \A j \in alive : scoreRelay(j) <= scoreRelay(best)
  <2> SUFFICES ASSUME NEW j \in alive PROVE scoreRelay(j) <= scoreRelay(best)
    BY Zenon
  <2>1. least <= 800 - scoreRelay(j)
    BY <1>4 DEF Deficits
  <2> QED
    BY <1>1, <1>5, <2>1
<1>7. best \in selectRelayEndpoint
  BY <1>6, Zenon DEF selectRelayEndpoint
<1> QED
  BY <1>7, Zenon

\* A process that lives called less than a period before its next call is due.
LEMMA LiveIsRecent ==
  ASSUME FleetInvariant, NEW s \in Servers, Live(s)
  PROVE  /\ now \in Nat /\ fleetRows[s].beat \in Int /\ fleetRows[s].load \in Nat
         /\ fleetRows[s].sessions \in Nat /\ server[s].due \in Nat
         /\ now - fleetRows[s].beat <= Period
         /\ server[s].due > now => now - fleetRows[s].beat < Period
<1>1. /\ now \in Nat /\ fleetRows[s].beat \in Int /\ fleetRows[s].load \in Nat
      /\ fleetRows[s].sessions \in Nat /\ server[s].due \in Nat
  BY Zenon DEF FleetInvariant, FleetShapes
<1>2. server[s].due >= now /\ fleetRows[s].beat >= server[s].due - Period
  BY Zenon DEF Live, FleetInvariant, NoneIsLate
<1>3. Period \in Nat
  BY FleetAssumption, Zenon
<1> QED
  BY <1>1, <1>2, <1>3

\* A live process has a recent row, and a recent row below its limits can be selected.
LEMMA SelectionHolds ==
  ASSUME FleetInvariant
  PROVE  LiveServersAreSelected
<1>1. ASSUME NEW r \in FixedRelays, Live(r), Roomy(r, 20 * capacityMbps)
      PROVE  selectRelayEndpoint # {}
  <2>1. r \in Servers /\ r \in RelayIds /\ r \notin Instances
    BY FleetAssumption, Zenon DEF Servers, RelayIds
  <2>2. Period \in Nat /\ FreshRelay \in Nat /\ Period < FreshRelay
    BY FleetAssumption, Zenon
  <2>3. /\ now \in Nat /\ fleetRows[r].beat \in Int /\ fleetRows[r].sessions \in Nat
        /\ now - fleetRows[r].beat <= Period
    BY <1>1, <2>1, LiveIsRecent, Zenon
  <2>4. r \in RelayCandidates
    BY <1>1, <2>1, <2>2, <2>3 DEF RelayCandidates, Live
  <2>5. 20 * capacityMbps \in Nat
    BY CapacityIsPositive
  <2>6. RelayUtilization(r) = Utilization(fleetRows[r].sessions, 20 * capacityMbps)
    BY <2>1 DEF RelayUtilization
  <2>7. RelayUtilization(r) < 95
    BY <1>1, <2>3, <2>5, <2>6, Percent, Zenon DEF Roomy
  <2>8. healthyRelay(r)
    BY <1>1, <2>4, <2>7, Zenon DEF healthyRelay, Roomy
  <2> QED
    BY <2>1, <2>8, ABestRelayExists, Zenon DEF FleetInvariant
<1>2. \A r \in selectRelayEndpoint : now - fleetRows[r].beat < FreshRelay
  BY Zenon DEF selectRelayEndpoint, healthyRelay, RelayCandidates
<1>3. ASSUME NEW g \in Gateways, Live(g), Roomy(g, GatewaySessions), server[g].due > now
      PROVE  g \in selectEgress
  <2>1. g \in Servers /\ Period \in Nat /\ FreshGateway \in Nat /\ Period <= FreshGateway /\ GatewaySessions \in Nat
    BY FleetAssumption, Zenon DEF Servers
  <2>2. /\ now \in Nat /\ fleetRows[g].beat \in Int /\ fleetRows[g].sessions \in Nat
        /\ now - fleetRows[g].beat < Period
    BY <1>3, <2>1, LiveIsRecent, Zenon
  <2>3. g \in GatewayCandidates
    BY <1>3, <2>1, <2>2 DEF GatewayCandidates, Live
  <2>4. GatewayUtilization(g) < 95
    BY <1>3, <2>1, <2>2, Percent, Zenon DEF GatewayUtilization, Roomy
  <2> QED
    BY <1>3, <2>3, <2>4, Zenon DEF selectEgress, Roomy
<1> QED
  BY <1>1, <1>2, <1>3, Zenon DEF LiveServersAreSelected

\* While a relay lives that is below its limits a node is given a relay, and a recent
\* one; a live gateway below its limits can be selected until its heartbeat is due.
THEOREM LiveServersStaySelectable == FleetSpec => []LiveServersAreSelected
<1>1. FleetInvariant => LiveServersAreSelected
  BY SelectionHolds, Zenon
<1> QED
  BY <1>1, FleetHolds, PTL

-----------------------------------------------------------------------------
(***************************************************************************)
(* The out-of-band snapshots.                                              *)
(*                                                                         *)
(* GoodSurvives speaks of snapshots that are saved. It needs that what a   *)
(* call is about to save was confirmed by the server (SavedIsConfirmed),   *)
(* that one snapshot is the last known good one unless a save stands       *)
(* between its two statements or failed there (OneGood), and what a call   *)
(* that nothing disturbs has done so far (Undisturbed).                    *)
(***************************************************************************)

CallFields == {"op", "step", "document", "checksum"}
SnapshotFields == {"id", "document", "checksum", "lkg"}
DocumentFields == {"content", "order"}

OobShapes ==
  /\ DOMAIN oob = OobCalls
  /\ \A c \in OobCalls :
       /\ DOMAIN oob[c] = CallFields /\ DOMAIN oob[c].document = DocumentFields
       /\ c \in InProgress => oob[c].op \in {"checkpoint", "rollback"}
       /\ oob[c].op = "checkpoint" =>
            oob[c].document \in Documents /\ oob[c].checksum = Checksum(oob[c].document)
       /\ oob[c].op = "rollback" => oob[c].step \in {"healthy", "push", "verify", "unverified"}
  /\ \A row \in snapshots : DOMAIN row = SnapshotFields /\ DOMAIN row.document = DocumentFields
  /\ oobFaults \in Nat

\* What is saved, or is about to be, was confirmed by the server.
SavedIsConfirmed ==
  /\ \A row \in snapshots : row.checksum \in confirmed
  /\ \A c \in OobCalls : oob[c].step \in {"unset", "insert"} => oob[c].checksum \in confirmed

\* One snapshot is the last known good one, or a save stands between its statements.
OneGood ==
  snapshots # {} => \/ \E row \in snapshots : Good = {row}
                    \/ Good = {} /\ (oobFaults > 0 \/ \E c \in OobCalls : oob[c].step = "insert")

GoodHas(content) == \A row \in Good : row.document.content = content

\* Without failures and with one call at a time: what the call has done so far.
Undisturbed ==
  oobFaults = 0 /\ ~crossed =>
    /\ listening
    /\ \A c, d \in InProgress : c = d
    /\ InProgress = {} => GoodHas(documents.content)
    /\ \A c \in InProgress :
         /\ oob[c].step \in {"healthy", "push"} \/ oob[c].op = "rollback" => GoodHas(documents.content)
         /\ oob[c].op = "rollback" => GoodHas(oob[c].document.content)
         /\ oob[c].op = "checkpoint" /\ oob[c].step \in {"verify", "unset", "insert"} =>
              documents = oob[c].document
         /\ oob[c].step = "insert" => Good = {}

OobInvariant == OobShapes /\ SavedIsConfirmed /\ OneGood /\ Undisturbed

\* Before the first checkpoint nothing is saved, and nothing is under way.
LEMMA OobStarts == OobInit => OobInvariant
<1> SUFFICES ASSUME OobInit PROVE OobInvariant
  BY Zenon
<1>1. /\ DOMAIN OobIdle = CallFields /\ DOMAIN OobIdle.document = DocumentFields
      /\ OobIdle.op = "none" /\ OobIdle.step = "done"
  BY Zenon DEF OobIdle, NoDocument, CallFields, DocumentFields
<1>2. DOMAIN oob = OobCalls /\ \A c \in OobCalls : oob[c] = OobIdle
  BY Zenon DEF OobInit
<1>3. snapshots = {} /\ oobFaults = 0 /\ listening /\ Good = {} /\ InProgress = {}
  BY <1>1, <1>2, Zenon DEF OobInit, Good, InProgress
<1> QED
  BY <1>1, <1>2, <1>3, Zenon DEF OobInvariant, OobShapes, SavedIsConfirmed, OneGood, Undisturbed, GoodHas

\* A call that ends; where and why is the caller's matter.
LEMMA EndEnds ==
  ASSUME OobShapes, NEW c \in OobCalls, OobEnd(c)
  PROVE  /\ DOMAIN oob' = OobCalls /\ oob'[c].step = "done" /\ oob'[c].op = "none"
         /\ DOMAIN oob'[c] = CallFields /\ DOMAIN oob'[c].document = DocumentFields
         /\ \A d \in OobCalls \ {c} : oob'[d] = oob[d]
         /\ InProgress' = InProgress \ {c}
<1>1. /\ DOMAIN OobIdle = CallFields /\ DOMAIN OobIdle.document = DocumentFields
      /\ OobIdle.op = "none" /\ OobIdle.step = "done"
  BY Zenon DEF OobIdle, NoDocument, CallFields, DocumentFields
<1>2. DOMAIN oob' = OobCalls /\ oob'[c] = OobIdle /\ \A d \in OobCalls \ {c} : oob'[d] = oob[d]
  BY Zenon DEF OobEnd, OobShapes
<1>3. InProgress' = InProgress \ {c}
  BY <1>1, <1>2, Zenon DEF InProgress
<1> QED
  BY <1>1, <1>2, <1>3, Zenon

\* A call that goes on.
LEMMA GotoGoes ==
  ASSUME OobShapes, NEW c \in OobCalls, NEW s, OobGoto(c, s)
  PROVE  /\ DOMAIN oob' = OobCalls /\ oob'[c].step = s /\ oob'[c].op = oob[c].op
         /\ oob'[c].document = oob[c].document /\ oob'[c].checksum = oob[c].checksum
         /\ DOMAIN oob'[c] = CallFields
         /\ \A d \in OobCalls \ {c} : oob'[d] = oob[d]
BY Zenon DEF OobGoto, OobShapes, CallFields

\* A call begins.
LEMMA StartPreserves ==
  ASSUME OobInvariant, NEW c \in OobCalls, checkpoint(c) \/ rollback(c)
  PROVE  OobInvariant'
<1>0. OobShapes
  BY Zenon DEF OobInvariant
<1>1. PICK call : /\ OobStart(c, call) /\ DOMAIN call = CallFields /\ DOMAIN call.document = DocumentFields
                  /\ call.step = "healthy"
                  /\ \/ /\ call.op = "checkpoint" /\ call.document \in Documents
                        /\ call.checksum = Checksum(call.document)
                     \/ call.op = "rollback" /\ \E row \in Good : call.document = row.document
  <2>1. CASE checkpoint(c)
    <3>1. PICK document \in Documents :
            OobStart(c, [op |-> "checkpoint", step |-> "healthy", document |-> document,
                         checksum |-> Checksum(document)])
      BY <2>1, Zenon DEF checkpoint
    <3>2. DOMAIN document = DocumentFields
      BY Zenon DEF Documents, DocumentFields
    <3> QED
      BY <3>1, <3>2 DEF CallFields
  <2>2. CASE rollback(c)
    <3>1. PICK row \in Good :
            OobStart(c, [op |-> "rollback", step |-> "healthy", document |-> row.document,
                         checksum |-> row.checksum])
      BY <2>2, Zenon DEF rollback
    <3>2. DOMAIN row.document = DocumentFields
      BY <1>0, Zenon DEF OobShapes, Good
    <3> QED
      BY <3>1, <3>2 DEF CallFields
  <2> QED
    BY <2>1, <2>2, Zenon
<1>2. /\ c \notin InProgress /\ UNCHANGED <<documents, listening, snapshots, oobFaults, confirmed>>
      /\ ~crossed' => ~crossed /\ InProgress = {}
  BY <1>1, Zenon DEF OobStart
<1>3. DOMAIN oob' = OobCalls /\ oob'[c] = call /\ \A d \in OobCalls \ {c} : oob'[d] = oob[d]
  BY <1>0, <1>1, Zenon DEF OobStart, OobShapes
<1>4. Good' = Good /\ InProgress' = InProgress \cup {c}
  BY <1>1, <1>2, <1>3 DEF Good, InProgress
<1>5. OobShapes'
  BY <1>0, <1>1, <1>2, <1>3, <1>4, ZenonT(40) DEF OobShapes
<1>6. SavedIsConfirmed'
  BY <1>1, <1>2, <1>3, Zenon DEF SavedIsConfirmed, OobInvariant
<1>7. OneGood'
  <2>1. \A d \in OobCalls : oob[d].step = "insert" => oob'[d].step = "insert"
    BY <1>2, <1>3, Zenon DEF InProgress
  <2> QED
    BY <1>2, <1>4, <2>1, Zenon DEF OneGood, OobInvariant
<1>8. Undisturbed'
  <2> SUFFICES ASSUME oobFaults = 0, ~crossed'
               PROVE  /\ listening /\ \A a, b \in InProgress' : a = b
                      /\ InProgress' # {}
                      /\ \A d \in InProgress' :
                           /\ GoodHas(documents.content)
                           /\ oob'[d].op = "rollback" => GoodHas(oob'[d].document.content)
                           /\ oob'[d].step = "healthy"
    BY <1>2, <1>4, Zenon DEF Undisturbed, GoodHas
  <2>1. listening /\ InProgress = {} /\ GoodHas(documents.content)
    BY <1>2, Zenon DEF Undisturbed, OobInvariant
  <2> QED
    BY <1>1, <1>3, <1>4, <2>1 DEF GoodHas
<1> QED
  BY <1>5, <1>6, <1>7, <1>8, Zenon DEF OobInvariant

\* What is left of the invariant when a call ends: the shapes, and with no failure and
\* no crossing nothing but what the good snapshot holds.
LEMMA EndPreserves ==
  ASSUME OobInvariant, NEW c \in InProgress, OobEnd(c),
         \A row \in snapshots' : DOMAIN row = SnapshotFields /\ DOMAIN row.document = DocumentFields,
         oobFaults' \in Nat, crossed' = crossed,
         oobFaults' = 0 /\ ~crossed => /\ oobFaults = 0 /\ listening' = listening
                                       /\ GoodHas(documents.content)'
  PROVE  OobShapes' /\ Undisturbed'
<1>0. OobShapes /\ c \in OobCalls
  BY Zenon DEF OobInvariant, InProgress
<1>1. /\ DOMAIN oob' = OobCalls /\ oob'[c].step = "done" /\ oob'[c].op = "none"
      /\ DOMAIN oob'[c] = CallFields /\ DOMAIN oob'[c].document = DocumentFields
      /\ \A d \in OobCalls \ {c} : oob'[d] = oob[d]
      /\ InProgress' = InProgress \ {c}
  BY <1>0, EndEnds, Zenon
<1>2. OobShapes'
  BY <1>0, <1>1, Zenon DEF OobShapes
<1>3. Undisturbed'
  <2> SUFFICES ASSUME oobFaults' = 0, ~crossed
               PROVE  listening' /\ InProgress' = {} /\ GoodHas(documents.content)'
    BY Zenon DEF Undisturbed
  <2>1. listening /\ \A a, b \in InProgress : a = b
    BY Zenon DEF Undisturbed, OobInvariant
  <2> QED
    BY <1>1, <2>1, Zenon
<1> QED
  BY <1>2, <1>3, Zenon

\* A call that ends at a request to the server, or fails.
LEMMA DropPreserves ==
  ASSUME OobInvariant, NEW c \in InProgress, OobEnd(c), oobFaults' \in Nat, crossed' = crossed,
         UNCHANGED snapshots, confirmed \subseteq confirmed',
         oobFaults' >= oobFaults, oob[c].step = "insert" => oobFaults' > 0,
         oobFaults' = 0 /\ ~crossed => /\ oobFaults = 0 /\ UNCHANGED <<listening, documents>>
                                       /\ GoodHas(documents.content)
  PROVE  OobInvariant'
<1>0. OobShapes /\ c \in OobCalls
  BY Zenon DEF OobInvariant, InProgress
<1>1. /\ DOMAIN oob' = OobCalls /\ oob'[c].step = "done"
      /\ \A d \in OobCalls \ {c} : oob'[d] = oob[d]
  BY <1>0, EndEnds, Zenon
<1>2. Good' = Good
  BY Zenon DEF Good
<1>3. OobShapes' /\ Undisturbed'
  BY <1>0, <1>2, EndPreserves, Zenon DEF OobShapes, GoodHas
<1>4. SavedIsConfirmed'
  BY <1>1, Zenon DEF SavedIsConfirmed, OobInvariant
<1>5. OneGood'
  <2> SUFFICES ASSUME snapshots # {}, ~ \E row \in snapshots : Good = {row}
               PROVE  Good = {} /\ (oobFaults' > 0 \/ \E d \in OobCalls : oob'[d].step = "insert")
    BY <1>2, Zenon DEF OneGood
  <2>1. Good = {} /\ (oobFaults > 0 \/ \E d \in OobCalls : oob[d].step = "insert")
    BY Zenon DEF OneGood, OobInvariant
  <2>2. CASE oobFaults > 0
    BY <1>0, <2>1, <2>2 DEF OobShapes
  <2>3. CASE \E d \in OobCalls : oob[d].step = "insert"
    BY <1>1, <2>1, <2>3, Zenon
  <2> QED
    BY <2>1, <2>2, <2>3, Zenon
<1> QED
  BY <1>3, <1>4, <1>5, Zenon DEF OobInvariant

\* The server is asked for its health.
LEMMA HealthyPreserves ==
  ASSUME OobInvariant, NEW c \in OobCalls, healthy(c)
  PROVE  OobInvariant'
<1>0. OobShapes /\ c \in InProgress
  BY Zenon DEF OobInvariant, InProgress, healthy
<1>1. /\ oob[c].step = "healthy"
      /\ UNCHANGED <<documents, listening, snapshots, oobFaults, confirmed, crossed>>
  BY Zenon DEF healthy
<1>2. CASE ~listening
  <2>1. OobEnd(c)
    BY <1>2, Zenon DEF healthy
  <2>2. ~(oobFaults = 0 /\ ~crossed) /\ oobFaults \in Nat
    BY <1>0, <1>2, Zenon DEF OobInvariant, Undisturbed, OobShapes
  <2> QED
    BY <1>0, <1>1, <2>1, <2>2, DropPreserves
<1>3. CASE listening
  <2>0. OobGoto(c, "push")
    BY <1>3, Zenon DEF healthy
  <2>1. /\ DOMAIN oob' = OobCalls /\ oob'[c].step = "push" /\ oob'[c].op = oob[c].op
        /\ oob'[c].document = oob[c].document /\ oob'[c].checksum = oob[c].checksum
        /\ DOMAIN oob'[c] = CallFields
        /\ \A d \in OobCalls \ {c} : oob'[d] = oob[d]
    BY <1>0, <2>0, GotoGoes, Zenon
  <2>2. InProgress' = InProgress /\ Good' = Good
    BY <1>0, <1>1, <2>1, Zenon DEF InProgress, Good
  <2>3. OobShapes'
    BY <1>0, <1>1, <2>1, <2>2 DEF OobShapes
  <2>4. SavedIsConfirmed'
    BY <1>1, <2>1, Zenon DEF SavedIsConfirmed, OobInvariant
  <2>5. OneGood'
    BY <1>1, <2>1, <2>2, Zenon DEF OneGood, OobInvariant
  <2>6. Undisturbed'
    <3> SUFFICES ASSUME oobFaults = 0, ~crossed
                 PROVE  Undisturbed'
      BY <1>1, Zenon DEF Undisturbed
    <3>1. /\ listening /\ \A a, b \in InProgress : a = b
          /\ GoodHas(documents.content)
          /\ oob[c].op = "rollback" => GoodHas(oob[c].document.content)
      BY <1>0, <1>1, Zenon DEF Undisturbed, OobInvariant
    <3>2. InProgress = {c}
      BY <1>0, <3>1, Zenon
    <3>3. InProgress' # {}
      BY <1>0, <2>2, Zenon
    <3>5. \A d \in InProgress' : d = c
      BY <2>2, <3>2, Zenon
    <3>6. GoodHas(documents.content)'
      BY <1>1, <2>2, <3>1, Zenon DEF GoodHas
    <3>7. (oob[c].op = "rollback" => GoodHas(oob[c].document.content))'
      BY <2>1, <2>2, <3>1, Zenon DEF GoodHas
    <3> QED
      BY <1>1, <2>1, <3>1, <3>3, <3>5, <3>6, <3>7, Zenon DEF Undisturbed
  <2> QED
    BY <2>3, <2>4, <2>5, <2>6, Zenon DEF OobInvariant
<1> QED
  BY <1>2, <1>3, Zenon

\* The document is pushed.
LEMMA PushPreserves ==
  ASSUME OobInvariant, NEW c \in OobCalls, push(c)
  PROVE  OobInvariant'
<1>0. OobShapes /\ c \in InProgress
  BY Zenon DEF OobInvariant, InProgress, push
<1>1. oob[c].step = "push" /\ UNCHANGED <<listening, snapshots, oobFaults, confirmed, crossed>>
  BY Zenon DEF push
<1>2. CASE ~listening
  <2>1. OobEnd(c)
    BY <1>2, Zenon DEF push
  <2>2. ~(oobFaults = 0 /\ ~crossed) /\ oobFaults \in Nat
    BY <1>0, <1>2, Zenon DEF OobInvariant, Undisturbed, OobShapes
  <2> QED
    BY <1>0, <1>1, <2>1, <2>2, DropPreserves
<1>3. CASE listening
  <2>0. OobGoto(c, "verify") /\ documents' = oob[c].document
    BY <1>3, Zenon DEF push
  <2>1. /\ DOMAIN oob' = OobCalls /\ oob'[c].step = "verify" /\ oob'[c].op = oob[c].op
        /\ oob'[c].document = oob[c].document /\ oob'[c].checksum = oob[c].checksum
        /\ DOMAIN oob'[c] = CallFields
        /\ \A d \in OobCalls \ {c} : oob'[d] = oob[d]
    BY <1>0, <2>0, GotoGoes, Zenon
  <2>2. InProgress' = InProgress /\ Good' = Good
    BY <1>0, <1>1, <2>1, Zenon DEF InProgress, Good
  <2>3. OobShapes'
    BY <1>0, <1>1, <2>1, <2>2 DEF OobShapes
  <2>4. SavedIsConfirmed'
    BY <1>1, <2>1, Zenon DEF SavedIsConfirmed, OobInvariant
  <2>5. OneGood'
    BY <1>1, <2>1, <2>2, Zenon DEF OneGood, OobInvariant
  <2>6. Undisturbed'
    <3> SUFFICES ASSUME oobFaults = 0, ~crossed
                 PROVE  Undisturbed'
      BY <1>1, Zenon DEF Undisturbed
    <3>1. /\ listening /\ \A a, b \in InProgress : a = b
          /\ oob[c].op = "rollback" => GoodHas(oob[c].document.content)
      BY <1>0, <1>1, Zenon DEF Undisturbed, OobInvariant
    <3>2. InProgress' # {} /\ \A d \in InProgress' : d = c
      BY <1>0, <2>2, <3>1, Zenon
    <3>3. (oob[c].op = "rollback" => GoodHas(documents.content) /\ GoodHas(oob[c].document.content))'
      BY <2>0, <2>1, <2>2, <3>1, Zenon DEF GoodHas
    <3>4. documents' = oob'[c].document
      BY <2>0, <2>1, Zenon
    <3> QED
      BY <1>1, <2>1, <3>1, <3>2, <3>3, <3>4, Zenon DEF Undisturbed
  <2> QED
    BY <2>3, <2>4, <2>5, <2>6, Zenon DEF OobInvariant
<1> QED
  BY <1>2, <1>3, Zenon

\* The document is read back.
LEMMA VerifyPreserves ==
  ASSUME OobInvariant, NEW c \in OobCalls, verifyDocument(c)
  PROVE  OobInvariant'
<1>0. OobShapes /\ c \in InProgress /\ oobFaults \in Nat
  BY Zenon DEF OobInvariant, InProgress, verifyDocument, OobShapes
<1>1. /\ oob[c].step = "verify" /\ UNCHANGED <<documents, listening, snapshots, oobFaults, crossed>>
      /\ confirmed \subseteq confirmed'
      /\ documents # NoDocument /\ Checksum(documents) = oob[c].checksum => oob[c].checksum \in confirmed'
  BY Zenon DEF verifyDocument
<1>2. oob[c].op \in {"checkpoint", "rollback"}
  BY <1>0, Zenon DEF OobShapes
<1>3. ASSUME OobEnd(c), oobFaults = 0 /\ ~crossed => oob[c].op = "rollback"
      PROVE  OobInvariant'
  <2>1. oobFaults' = 0 /\ ~crossed => GoodHas(documents.content)
    BY <1>0, <1>1, <1>3, Zenon DEF OobInvariant, Undisturbed
  <2> QED
    BY <1>0, <1>1, <1>3, <2>1, DropPreserves
<1>4. CASE oob[c].op = "rollback" /\ Confirms(c)
  <2>1. OobEnd(c)
    BY <1>4, Zenon DEF verifyDocument
  <2> QED
    BY <1>3, <1>4, <2>1, Zenon
<1>5. CASE oob[c].op = "checkpoint" /\ ~Confirms(c)
  <2>1. OobEnd(c)
    BY <1>5, Zenon DEF verifyDocument
  <2>2. oobFaults = 0 /\ ~crossed => Confirms(c)
    <3> SUFFICES ASSUME oobFaults = 0, ~crossed PROVE Confirms(c)
      BY Zenon
    <3>1. listening /\ documents = oob[c].document
      BY <1>0, <1>1, <1>5, Zenon DEF OobInvariant, Undisturbed
    <3>2. oob[c].document \in Documents /\ oob[c].checksum = Checksum(oob[c].document)
      BY <1>0, <1>5, Zenon DEF OobShapes, InProgress
    <3>3. NoDocument \notin Documents
      BY OobAssumption, Zenon DEF NoDocument, Documents
    <3> QED
      BY <3>1, <3>2, <3>3, Zenon DEF Confirms
  <2> QED
    BY <1>3, <1>5, <2>1, <2>2, Zenon
<1>6. CASE oob[c].op = "checkpoint" /\ Confirms(c)
  <2>0. OobGoto(c, "unset") /\ oob[c].checksum \in confirmed'
    BY <1>1, <1>6, Zenon DEF verifyDocument, Confirms
  <2>1. /\ DOMAIN oob' = OobCalls /\ oob'[c].step = "unset" /\ oob'[c].op = oob[c].op
        /\ oob'[c].document = oob[c].document /\ oob'[c].checksum = oob[c].checksum
        /\ DOMAIN oob'[c] = CallFields
        /\ \A d \in OobCalls \ {c} : oob'[d] = oob[d]
    BY <1>0, <2>0, GotoGoes, Zenon
  <2>2. InProgress' = InProgress /\ Good' = Good
    BY <1>0, <1>1, <2>1, Zenon DEF InProgress, Good
  <2>3. OobShapes'
    BY <1>0, <1>1, <1>6, <2>1, <2>2 DEF OobShapes
  <2>4. SavedIsConfirmed'
    BY <1>1, <2>0, <2>1, Zenon DEF SavedIsConfirmed, OobInvariant
  <2>5. OneGood'
    BY <1>1, <2>1, <2>2, Zenon DEF OneGood, OobInvariant
  <2>6. Undisturbed'
    <3> SUFFICES ASSUME oobFaults = 0, ~crossed
                 PROVE  Undisturbed'
      BY <1>1, Zenon DEF Undisturbed
    <3>1. listening /\ (\A a, b \in InProgress : a = b) /\ documents = oob[c].document
      BY <1>0, <1>1, <1>6, Zenon DEF Undisturbed, OobInvariant
    <3>2. InProgress' # {} /\ \A d \in InProgress' : d = c
      BY <1>0, <2>2, <3>1, Zenon
    <3> QED
      BY <1>1, <1>6, <2>1, <3>1, <3>2, Zenon DEF Undisturbed
  <2> QED
    BY <2>3, <2>4, <2>5, <2>6, Zenon DEF OobInvariant
<1>7. CASE oob[c].op = "rollback" /\ ~Confirms(c)
  <2>0. OobGoto(c, "unverified")
    BY <1>7, Zenon DEF verifyDocument
  <2>1. /\ DOMAIN oob' = OobCalls /\ oob'[c].step = "unverified" /\ oob'[c].op = oob[c].op
        /\ oob'[c].document = oob[c].document /\ oob'[c].checksum = oob[c].checksum
        /\ DOMAIN oob'[c] = CallFields
        /\ \A d \in OobCalls \ {c} : oob'[d] = oob[d]
    BY <1>0, <2>0, GotoGoes, Zenon
  <2>2. InProgress' = InProgress \ {c} /\ Good' = Good
    BY <1>0, <1>1, <2>1, Zenon DEF InProgress, Good
  <2>3. OobShapes'
    BY <1>0, <1>1, <1>7, <2>1, <2>2 DEF OobShapes
  <2>4. SavedIsConfirmed'
    BY <1>1, <2>1, Zenon DEF SavedIsConfirmed, OobInvariant
  <2>5. OneGood'
    BY <1>1, <2>1, <2>2, Zenon DEF OneGood, OobInvariant
  <2>6. Undisturbed'
    <3> SUFFICES ASSUME oobFaults = 0, ~crossed
                 PROVE  Undisturbed'
      BY <1>1, Zenon DEF Undisturbed
    <3>1. listening /\ (\A a, b \in InProgress : a = b) /\ GoodHas(documents.content)
      BY <1>0, <1>1, <1>7, Zenon DEF Undisturbed, OobInvariant
    <3>2. InProgress' = {}
      BY <1>0, <2>2, <3>1, Zenon
    <3>3. GoodHas(documents.content)'
      BY <1>1, <2>2, <3>1, Zenon DEF GoodHas
    <3> QED
      BY <1>1, <3>1, <3>2, <3>3, Zenon DEF Undisturbed
  <2> QED
    BY <2>3, <2>4, <2>5, <2>6, Zenon DEF OobInvariant
<1> QED
  BY <1>2, <1>4, <1>5, <1>6, <1>7, Zenon

\* The flag of the snapshots is cleared.
LEMMA UnsetPreserves ==
  ASSUME OobInvariant, NEW c \in OobCalls, unsetGood(c)
  PROVE  OobInvariant'
<1>0. OobShapes /\ c \in InProgress
  BY Zenon DEF OobInvariant, InProgress, unsetGood
<1>1. /\ oob[c].step = "unset" /\ UNCHANGED <<documents, listening, oobFaults, confirmed, crossed>>
      /\ OobGoto(c, "insert")
      /\ snapshots' = {[row EXCEPT !.lkg = FALSE] : row \in snapshots}
  BY Zenon DEF unsetGood
<1>2. /\ DOMAIN oob' = OobCalls /\ oob'[c].step = "insert" /\ oob'[c].op = oob[c].op
      /\ oob'[c].document = oob[c].document /\ oob'[c].checksum = oob[c].checksum
      /\ DOMAIN oob'[c] = CallFields
      /\ \A d \in OobCalls \ {c} : oob'[d] = oob[d]
  BY <1>0, <1>1, GotoGoes, Zenon
<1>3. \A row \in snapshots' :
        /\ DOMAIN row = SnapshotFields /\ DOMAIN row.document = DocumentFields
        /\ row.lkg = FALSE /\ \E old \in snapshots : row.checksum = old.checksum
  <2> SUFFICES ASSUME NEW row \in snapshots'
               PROVE  /\ DOMAIN row = SnapshotFields /\ DOMAIN row.document = DocumentFields
                      /\ row.lkg = FALSE /\ \E old \in snapshots : row.checksum = old.checksum
    BY Zenon
  <2>1. PICK old \in snapshots : row = [old EXCEPT !.lkg = FALSE]
    BY <1>1, Zenon
  <2>2. DOMAIN old = SnapshotFields /\ DOMAIN old.document = DocumentFields
    BY <1>0, Zenon DEF OobShapes
  <2> QED
    BY <2>1, <2>2, Zenon DEF SnapshotFields
<1>4. InProgress' = InProgress /\ Good' = {}
  BY <1>0, <1>1, <1>2, <1>3, Zenon DEF InProgress, Good
<1>5. oob[c].op = "checkpoint"
  BY <1>0, <1>1, Zenon DEF OobShapes
<1>6. OobShapes'
  BY <1>0, <1>1, <1>2, <1>3, <1>4, <1>5 DEF OobShapes
<1>7. SavedIsConfirmed'
  BY <1>1, <1>2, <1>3, Zenon DEF SavedIsConfirmed, OobInvariant
<1>8. OneGood'
  BY <1>2, <1>4, Zenon DEF OneGood
<1>9. Undisturbed'
  <2> SUFFICES ASSUME oobFaults = 0, ~crossed
               PROVE  Undisturbed'
    BY <1>1, Zenon DEF Undisturbed
  <2>1. listening /\ (\A a, b \in InProgress : a = b) /\ documents = oob[c].document
    BY <1>0, <1>1, <1>5, Zenon DEF Undisturbed, OobInvariant
  <2>2. InProgress' # {} /\ \A d \in InProgress' : d = c
    BY <1>0, <1>4, <2>1, Zenon
  <2> QED
    BY <1>1, <1>2, <1>4, <1>5, <2>1, <2>2, Zenon DEF Undisturbed
<1> QED
  BY <1>6, <1>7, <1>8, <1>9, Zenon DEF OobInvariant

\* The new snapshot is written, or refused because another one carries the flag.
LEMMA InsertPreserves ==
  ASSUME OobInvariant, NEW c \in OobCalls, insertSnapshot(c)
  PROVE  OobInvariant'
<1>0. OobShapes /\ c \in InProgress /\ oobFaults \in Nat
  BY Zenon DEF OobInvariant, InProgress, insertSnapshot, OobShapes
<1>1. /\ oob[c].step = "insert" /\ UNCHANGED <<documents, listening, oobFaults, confirmed, crossed>>
      /\ OobEnd(c)
  BY Zenon DEF insertSnapshot
<1>2. /\ DOMAIN oob' = OobCalls /\ oob'[c].step = "done"
      /\ \A d \in OobCalls \ {c} : oob'[d] = oob[d]
  BY <1>0, <1>1, EndEnds, Zenon
<1>3. oob[c].op = "checkpoint" /\ oob[c].checksum \in confirmed
  BY <1>0, <1>1, Zenon DEF OobShapes, OobInvariant, SavedIsConfirmed
<1>4. CASE Good # {}
  <2>1. snapshots' = snapshots
    BY <1>4, Zenon DEF insertSnapshot
  <2>2. ~(oobFaults = 0 /\ ~crossed)
    BY <1>0, <1>1, <1>4, Zenon DEF OobInvariant, Undisturbed
  <2>3. OobShapes' /\ Undisturbed'
    BY <1>0, <1>1, <2>1, <2>2, EndPreserves, Zenon DEF OobShapes
  <2>4. SavedIsConfirmed'
    BY <1>1, <1>2, <2>1, Zenon DEF SavedIsConfirmed, OobInvariant
  <2>5. OneGood'
    BY <1>4, <2>1, Zenon DEF OneGood, OobInvariant, Good
  <2> QED
    BY <2>3, <2>4, <2>5, Zenon DEF OobInvariant
<1>5. CASE Good = {}
  <2> DEFINE new == [id |-> Cardinality(snapshots) + 1, document |-> jsonb(oob[c].document),
                     checksum |-> oob[c].checksum, lkg |-> TRUE]
  <2>1. snapshots' = snapshots \cup {new}
    BY <1>5, Zenon DEF insertSnapshot
  <2>2. /\ DOMAIN new = SnapshotFields /\ new.lkg = TRUE /\ new.checksum = oob[c].checksum
        /\ DOMAIN new.document = DocumentFields
        /\ new.document.content = oob[c].document.content
    BY <1>0, Zenon DEF OobShapes, SnapshotFields, DocumentFields, jsonb
  <2> HIDE DEF new
  <2>3. Good' = {new}
    BY <1>5, <2>1, <2>2, Zenon DEF Good
  <2>4. \E row \in snapshots' : Good' = {row}
    BY <2>1, <2>3, Zenon
  <2>5. oobFaults = 0 /\ ~crossed => GoodHas(documents.content)'
    <3> SUFFICES ASSUME oobFaults = 0, ~crossed
                 PROVE  GoodHas(documents.content)'
      BY Zenon
    <3>1. documents = oob[c].document
      BY <1>0, <1>1, <1>3, Zenon DEF OobInvariant, Undisturbed
    <3> QED
      BY <1>1, <2>2, <2>3, <3>1, Zenon DEF GoodHas
  <2>6. \A row \in snapshots' : DOMAIN row = SnapshotFields /\ DOMAIN row.document = DocumentFields
    BY <1>0, <2>1, <2>2, Zenon DEF OobShapes
  <2>7. OobShapes' /\ Undisturbed'
    BY <1>0, <1>1, <2>5, <2>6, EndPreserves, Zenon
  <2>8. SavedIsConfirmed'
    BY <1>1, <1>2, <1>3, <2>1, <2>2, Zenon DEF SavedIsConfirmed, OobInvariant
  <2>9. OneGood'
    BY <2>4, Zenon DEF OneGood
  <2> QED
    BY <2>7, <2>8, <2>9, Zenon DEF OobInvariant
<1> QED
  BY <1>4, <1>5, Zenon

\* Failures, and the server's stops and starts.
LEMMA OobFaultPreserves ==
  ASSUME OobInvariant, (\E c \in OobCalls : OobFail(c)) \/ OobServerStops \/ OobServerStarts
  PROVE  OobInvariant'
<1>0. OobShapes /\ oobFaults \in Nat
  BY Zenon DEF OobInvariant, OobShapes
<1>1. ASSUME NEW c \in OobCalls, OobFail(c) PROVE OobInvariant'
  <2>1. /\ c \in InProgress /\ OobEnd(c) /\ oobFaults' = oobFaults + 1
        /\ UNCHANGED <<documents, listening, snapshots, confirmed, crossed>>
    BY <1>1, Zenon DEF OobFail, OobFault
  <2>2. oobFaults' \in Nat /\ oobFaults' > 0 /\ oobFaults' >= oobFaults /\ oobFaults' # 0
    BY <1>0, <2>1
  <2> QED
    BY <2>1, <2>2, DropPreserves, Zenon
<1>2. ASSUME OobServerStops PROVE OobInvariant'
  <2>1. oobFaults' = oobFaults + 1 /\ UNCHANGED <<snapshots, oob, confirmed, crossed>>
    BY <1>2, Zenon DEF OobServerStops, OobFault
  <2>2. oobFaults' \in Nat /\ oobFaults' > 0 /\ oobFaults' # 0
    BY <1>0, <2>1
  <2>3. Good' = Good /\ InProgress' = InProgress
    BY <2>1, Zenon DEF Good, InProgress
  <2> QED
    BY <2>1, <2>2, <2>3, Zenon DEF OobInvariant, OobShapes, SavedIsConfirmed, OneGood, Undisturbed
<1>3. ASSUME OobServerStarts PROVE OobInvariant'
  <2>1. ~listening /\ UNCHANGED <<documents, snapshots, oob, oobFaults, confirmed, crossed>>
    BY <1>3, Zenon DEF OobServerStarts
  <2>2. ~(oobFaults = 0 /\ ~crossed)
    BY <2>1, Zenon DEF OobInvariant, Undisturbed
  <2>3. Good' = Good /\ InProgress' = InProgress
    BY <2>1, Zenon DEF Good, InProgress
  <2> QED
    BY <2>1, <2>2, <2>3, Zenon DEF OobInvariant, OobShapes, SavedIsConfirmed, OneGood, Undisturbed
<1> QED
  BY <1>1, <1>2, <1>3, Zenon

\* The last-known-good snapshot survives: every snapshot was confirmed by the server,
\* one is flagged except inside a save or after one that failed, and when nothing
\* failed or crossed the server holds its content.
THEOREM GoodIsNeverLost == OobSpec => []GoodSurvives
<1>1. OobInit => OobInvariant
  BY OobStarts, Zenon
<1>2. OobInvariant /\ [OobNext]_oobVars => OobInvariant'
  <2> SUFFICES ASSUME OobInvariant, [OobNext]_oobVars PROVE OobInvariant'
    BY Zenon
  <2>1. CASE OobNext
    BY <2>1, StartPreserves, HealthyPreserves, PushPreserves, VerifyPreserves, UnsetPreserves,
       InsertPreserves, OobFaultPreserves, Zenon DEF OobNext
  <2>2. CASE UNCHANGED oobVars
    <3>1. UNCHANGED <<documents, listening, snapshots, oob, oobFaults, confirmed, crossed>>
      BY <2>2, Zenon DEF oobVars
    <3>2. Good' = Good /\ InProgress' = InProgress
      BY <3>1, Zenon DEF Good, InProgress
    <3> QED
      BY <3>1, <3>2, ZenonT(40) DEF OobInvariant, OobShapes, SavedIsConfirmed, OneGood, Undisturbed, GoodHas
  <2> QED
    BY <2>1, <2>2, Zenon
<1>3. OobInvariant => GoodSurvives
  BY Zenon DEF OobInvariant, SavedIsConfirmed, OneGood, Undisturbed, GoodHas, GoodSurvives
<1> QED
  BY <1>1, <1>2, <1>3, PTL DEF OobSpec

=============================================================================
