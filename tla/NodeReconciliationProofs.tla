----------------------- MODULE NodeReconciliationProofs ---------------------
(***************************************************************************)
(* Proofs about NodeReconciliation, for every number of checkers, changes  *)
(* and failures.                                                           *)
(*                                                                         *)
(* Shapes says of which kind every value is, and that nothing runs ahead   *)
(* of the control plane: no command, read or host carries a revision, a    *)
(* topology or a policy set newer than the current one.  Answers adds what *)
(* checkNode and AgentReconciler rely on: as long as every execution was   *)
(* answered by what it did, the last acknowledgement of a command type is  *)
(* what is in effect, and the revision in the agent's memory is that of    *)
(* its routes.                                                             *)
(***************************************************************************)
EXTENDS NodeReconciliation, SequenceTheorems, TLAPS

\* A value the control plane has sent, or may send, in a command of type t.
Sane(t, v) ==
  /\ v \in Nat
  /\ t = "RECONCILE" => v <= desired.revision
  /\ t = "SET_DNS" => v \in Servers \cup {0}
  /\ t = "SET_KILL_SWITCH" => v \in {Off, On}
  /\ t = "APPLY_PEERS" => v <= topology
  /\ t = "APPLY_FIREWALL" => v <= policies

\* A value a failing tool may leave behind, too: a mixture, or a block.
Settable(t, v) ==
  \/ Sane(t, v)
  \/ t \in {"RECONCILE", "APPLY_FIREWALL"} /\ v = 0
  \/ t = "SET_KILL_SWITCH" /\ v = Blocked

\* A command the control plane has queued.
Order(c) ==
  /\ c.type \in CommandTypes /\ c.priority \in Priorities
  /\ Sane(c.type, c.value) /\ Sane("APPLY_FIREWALL", c.plan)

Orders == {c \in [type : CommandTypes, value : Nat, plan : Nat, priority : Priorities] : Order(c)}

\* A host on which nothing newer than the control plane's state is in effect.
HostShape(s) ==
  /\ s \in [HostFields -> Nat]
  /\ s["RECONCILE"] <= desired.revision /\ s["SET_DNS"] \in Servers \cup {0}
  /\ s["SET_KILL_SWITCH"] \in {Off, On, Blocked} /\ s["TUNNEL"] \in {0, 1}
  /\ s["APPLY_PEERS"] <= topology /\ s["APPLY_FIREWALL"] <= policies

\* What checkNode may have read.
Read(d) ==
  /\ Sane("RECONCILE", d.revision) /\ Sane("SET_DNS", d.dns) /\ Sane("SET_KILL_SWITCH", d.kill)
  /\ Sane("APPLY_PEERS", d.topology) /\ Sane("APPLY_FIREWALL", d.policies)

Row == Read(Current) /\ desired.revision <= changes

Shapes ==
  /\ Row /\ changes \in 0..MaxChanges
  /\ DOMAIN queue = Priorities /\ (\A p \in Priorities : queue[p] \in Seq(Orders))
  /\ batch \in Seq(Orders)
  /\ DOMAIN acked = CommandTypes
  /\ \A t \in CommandTypes : acked[t].status \in {"NONE", "APPLIED", "STALE"}
  /\ HostShape(host)
  /\ revision \in 0..desired.revision
  /\ DOMAIN checking = Checkers /\ (\A w \in Checkers : Read(checking[w]))

Answers ==
  ~hidden =>
    /\ acked["RECONCILE"].status = "APPLIED" => host["RECONCILE"] = acked["RECONCILE"].value
    /\ \A t \in {"SET_DNS", "SET_KILL_SWITCH", "APPLY_PEERS"} :
         acked[t].status # "NONE" => host[t] = acked[t].value
    /\ revision = 0 \/ host["RECONCILE"] \in {0, revision}

-----------------------------------------------------------------------------
\* What the rows of the control plane are.
LEMMA RowIs ==
  Row => /\ desired.revision \in Nat /\ desired.dns \in Servers \cup {0} /\ desired.kill \in {Off, On}
         /\ topology \in Nat /\ policies \in Nat
BY Zenon DEF Row, Read, Current, Sane

\* A host stays in shape when one field takes a value that was sent.
LEMMA WithShape ==
  ASSUME Row, NEW s, HostShape(s), NEW t \in CommandTypes, NEW v, Settable(t, v)
  PROVE  HostShape(With(s, t, v))
<1>1. v \in Nat
  BY DEF Settable, Sane, Blocked
<1>2. With(s, t, v) \in [HostFields -> Nat] /\ With(s, t, v)[t] = v
  BY <1>1, Zenon DEF HostShape, With, HostFields
<1>3. \A f \in HostFields \ {t} : With(s, t, v)[f] = s[f]
  BY Zenon DEF HostShape, With
<1>4. CASE t = "RECONCILE"
  BY <1>1, <1>2, <1>3, <1>4, RowIs DEF HostShape, HostFields, CommandTypes, Settable, Sane
<1>5. CASE t = "SET_DNS"
  BY <1>1, <1>2, <1>3, <1>5, RowIs, Zenon DEF HostShape, HostFields, CommandTypes, Settable, Sane
<1>6. CASE t = "SET_KILL_SWITCH"
  BY <1>1, <1>2, <1>3, <1>6, RowIs, Zenon DEF HostShape, HostFields, CommandTypes, Settable, Sane
<1>7. CASE t = "APPLY_PEERS"
  BY <1>1, <1>2, <1>3, <1>7, RowIs, Zenon DEF HostShape, HostFields, CommandTypes, Settable, Sane
<1>8. CASE t = "APPLY_FIREWALL"
  BY <1>1, <1>2, <1>3, <1>8, RowIs DEF HostShape, HostFields, CommandTypes, Settable, Sane
<1> QED
  BY <1>4, <1>5, <1>6, <1>7, <1>8, Zenon DEF CommandTypes

\* So does one whose tunnel is taken down, which is all clearTransientCredentials does.
LEMMA ClearShape ==
  ASSUME NEW s, HostShape(s), NEW u \in ClearTransientCredentials(platform, s)
  PROVE  HostShape(u) /\ u["RECONCILE"] = s["RECONCILE"]
<1>1. u \in {s, With(s, "TUNNEL", 0)}
  BY Zenon DEF ClearTransientCredentials, LinuxClearTransientCredentials, WindowsClearTransientCredentials
<1>2. /\ With(s, "TUNNEL", 0) \in [HostFields -> Nat] /\ With(s, "TUNNEL", 0)["TUNNEL"] = 0
      /\ \A f \in HostFields \ {"TUNNEL"} : With(s, "TUNNEL", 0)[f] = s[f]
  BY Zenon DEF HostShape, With, HostFields
<1>3. HostShape(With(s, "TUNNEL", 0)) /\ With(s, "TUNNEL", 0)["RECONCILE"] = s["RECONCILE"]
  <2> DEFINE w == With(s, "TUNNEL", 0)
  <2>1. /\ w["RECONCILE"] = s["RECONCILE"] /\ w["SET_DNS"] = s["SET_DNS"] /\ w["APPLY_PEERS"] = s["APPLY_PEERS"]
        /\ w["SET_KILL_SWITCH"] = s["SET_KILL_SWITCH"] /\ w["APPLY_FIREWALL"] = s["APPLY_FIREWALL"]
    BY <1>2, Zenon DEF HostFields, CommandTypes
  <2> QED
    BY <1>2, <2>1, Zenon DEF HostShape
<1> QED
  BY <1>1, <1>3, Zenon

\* Whatever a method of the adapter does, it sets its own field, to the value it was
\* given, to a mixture or to rules that block everything.
LEMMA CallShape ==
  ASSUME Row, NEW s, HostShape(s), NEW t \in CommandTypes, NEW v, Sane(t, v)
  PROVE  /\ \A u \in Call(platform, s, t, v).returns \cup Call(platform, s, t, v).throws :
              HostShape(u) /\ (t # "RECONCILE" => u["RECONCILE"] = s["RECONCILE"])
         /\ t = "RECONCILE" => /\ \A u \in Call(platform, s, t, v).returns : u["RECONCILE"] \in {0, v}
                               /\ \A u \in Call(platform, s, t, v).throws : u["RECONCILE"] \in {0, s["RECONCILE"]}
<1>0. Settable(t, v)
  BY Zenon DEF Settable
<1>1. \A w : Settable(t, w) => HostShape(With(s, t, w))
  BY WithShape, Zenon
<1>2. \A w : With(s, t, w)[t] = w /\ \A f \in HostFields \ {t} : With(s, t, w)[f] = s[f]
  BY Zenon DEF HostShape, With, HostFields
<1>3. CASE t = "SET_DNS"
  <2>1. \A u \in Call(platform, s, t, v).returns \cup Call(platform, s, t, v).throws : u \in {s, With(s, t, v)}
    BY <1>3, Zenon DEF Call, LinuxSetDns, WindowsSetDns
  <2> QED
    BY <1>0, <1>1, <1>2, <1>3, <2>1 DEF HostFields, CommandTypes
<1>4. CASE t = "APPLY_PEERS"
  <2>1. \A u \in Call(platform, s, t, v).returns \cup Call(platform, s, t, v).throws : u \in {s, With(s, t, v)}
    BY <1>4, Zenon DEF Call, LinuxApplyPeers, WindowsApplyPeers
  <2> QED
    BY <1>0, <1>1, <1>2, <1>4, <2>1 DEF HostFields, CommandTypes
<1>5. CASE t = "APPLY_FIREWALL"
  <2>1. \A u \in Call(platform, s, t, v).returns \cup Call(platform, s, t, v).throws :
          u \in {s, With(s, t, v), With(s, t, 0)}
    BY <1>5, Zenon DEF Call, LinuxApplyFirewall, WindowsApplyFirewall
  <2>2. Settable(t, 0)
    BY <1>5, Zenon DEF Settable
  <2> QED
    BY <1>0, <1>1, <1>2, <1>5, <2>1, <2>2 DEF HostFields, CommandTypes
<1>6. CASE t = "SET_KILL_SWITCH"
  <2>1. \A u \in Call(platform, s, t, v).returns \cup Call(platform, s, t, v).throws :
          u \in {s, With(s, t, On), With(s, t, Off), With(s, t, Blocked)}
    BY <1>6, Zenon DEF Call, LinuxSetKillSwitch, WindowsSetKillSwitch
  <2>2. Settable(t, On) /\ Settable(t, Off) /\ Settable(t, Blocked)
    BY <1>6, Zenon DEF Settable, Sane, On, Off
  <2> QED
    BY <1>1, <1>2, <1>6, <2>1, <2>2 DEF HostFields, CommandTypes
<1>7. CASE t = "RECONCILE"
  <2>1. /\ \A u \in Call(platform, s, t, v).returns : u \in {With(s, t, v), With(s, t, 0)}
        /\ \A u \in Call(platform, s, t, v).throws : u \in {s, With(s, t, 0)}
    BY <1>7, Zenon DEF Call, LinuxReplaceRoutes, WindowsReplaceRoutes
  <2>2. Settable(t, 0)
    BY <1>7, Zenon DEF Settable
  <2> QED
    BY <1>0, <1>1, <1>2, <1>7, <2>1, <2>2 DEF HostFields, CommandTypes
<1> QED
  BY <1>3, <1>4, <1>5, <1>6, <1>7, Zenon DEF CommandTypes

\* What a command does when every tool succeeds.
LEMMA EffectShape ==
  ASSUME Row, HostShape(host), NEW c \in Orders
  PROVE  /\ HostShape(Effect(c))
         /\ Stale(c) => Effect(c) = host
         /\ ~Stale(c) => Effect(c)[c.type] = c.value
         /\ \A t \in {"RECONCILE", "SET_DNS", "SET_KILL_SWITCH", "APPLY_PEERS"} :
              t # c.type => Effect(c)[t] = host[t]
<1>1. c.type \in CommandTypes /\ Sane(c.type, c.value) /\ Sane("APPLY_FIREWALL", c.plan)
  BY Zenon DEF Orders, Order
<1> DEFINE w == With(host, c.type, c.value)
<1>2. HostShape(w)
  BY <1>1, WithShape, Zenon DEF Settable
<1>3. w[c.type] = c.value /\ \A f \in HostFields \ {c.type} : w[f] = host[f]
  BY <1>1, Zenon DEF HostShape, With, HostFields
<1>4. CASE Stale(c)
  BY <1>4, Zenon DEF Effect
<1>5. CASE ~Stale(c) /\ c.type # "RECONCILE"
  <2>1. Effect(c) = w
    BY <1>5, Zenon DEF Effect
  <2> QED
    BY <1>2, <1>3, <1>5, <2>1, Zenon DEF HostFields, CommandTypes
<1>6. CASE ~Stale(c) /\ c.type = "RECONCILE"
  <2>1. Effect(c) = With(w, "APPLY_FIREWALL", c.plan)
    BY <1>6, Zenon DEF Effect
  <2> HIDE DEF w
  <2>2. HostShape(With(w, "APPLY_FIREWALL", c.plan))
    BY <1>1, <1>2, WithShape, Zenon DEF Settable, CommandTypes
  <2>3. \A f \in HostFields \ {"APPLY_FIREWALL"} : With(w, "APPLY_FIREWALL", c.plan)[f] = w[f]
    BY <1>2, Zenon DEF HostShape, With
  <2> QED
    BY <1>3, <1>6, <2>1, <2>2, <2>3, Zenon DEF HostFields, CommandTypes
<1> QED
  BY <1>4, <1>5, <1>6, Zenon

\* What a command may do when something fails: the routes change only if it is a
\* RECONCILE that is not stale, to its revision or to a mixture.
LEMMA OutcomeShape ==
  ASSUME Row, HostShape(host), NEW c \in Orders
  PROVE  /\ \A s \in Outcomes(c).returns \cup Outcomes(c).throws :
              /\ HostShape(s)
              /\ Stale(c) \/ c.type # "RECONCILE" => s["RECONCILE"] = host["RECONCILE"]
              /\ s["RECONCILE"] \in {0, host["RECONCILE"], c.value}
         /\ c.type = "RECONCILE" /\ ~Stale(c) => \A s \in Outcomes(c).returns : s["RECONCILE"] \in {0, c.value}
<1>1. c.type \in CommandTypes /\ Sane(c.type, c.value) /\ Sane("APPLY_FIREWALL", c.plan)
  BY Zenon DEF Orders, Order
<1>2. CASE Stale(c)
  BY <1>2, Zenon DEF Outcomes
<1>3. CASE ~Stale(c) /\ c.type # "RECONCILE"
  <2>1. Outcomes(c) = Call(platform, host, c.type, c.value)
    BY <1>3, Zenon DEF Outcomes
  <2> QED
    BY <1>1, <1>3, <2>1, CallShape
<1>4. CASE ~Stale(c) /\ c.type = "RECONCILE"
  <2> DEFINE routes == Call(platform, host, "RECONCILE", c.value)
             firewall(s) == Call(platform, s, "APPLY_FIREWALL", c.plan)
  <2>1. /\ Outcomes(c).returns = UNION {firewall(s).returns : s \in routes.returns}
        /\ Outcomes(c).throws = ClearTransientCredentials(platform, host) \cup routes.throws
                                \cup UNION {firewall(s).throws : s \in routes.returns}
    BY <1>4, Zenon DEF Outcomes, reconcile
  <2>2. /\ \A s \in routes.returns \cup routes.throws : HostShape(s)
        /\ \A s \in routes.returns : s["RECONCILE"] \in {0, c.value}
        /\ \A s \in routes.throws : s["RECONCILE"] \in {0, host["RECONCILE"]}
    BY <1>1, <1>4, CallShape DEF CommandTypes
  <2>3. \A s \in routes.returns : \A u \in firewall(s).returns \cup firewall(s).throws :
          HostShape(u) /\ u["RECONCILE"] = s["RECONCILE"]
    <3> HIDE DEF routes
    <3> QED
      BY <1>1, <2>2, CallShape DEF CommandTypes
  <2>4. \A u \in ClearTransientCredentials(platform, host) : HostShape(u) /\ u["RECONCILE"] = host["RECONCILE"]
    BY ClearShape, Zenon
  <2> HIDE DEF routes, firewall
  <2>5. \A u \in Outcomes(c).returns : HostShape(u) /\ u["RECONCILE"] \in {0, c.value}
    BY <2>1, <2>2, <2>3
  <2>6. \A u \in Outcomes(c).throws : HostShape(u) /\ u["RECONCILE"] \in {0, host["RECONCILE"], c.value}
    BY <2>1, <2>2, <2>3, <2>4
  <2> QED
    BY <1>4, <2>5, <2>6, Zenon
<1> QED
  BY <1>2, <1>3, <1>4, Zenon

-----------------------------------------------------------------------------
\* The rows of the control plane only grow, and what was sane stays so.
LEMMA Grows ==
  ASSUME Shapes, Row', desired.revision <= desired'.revision, topology <= topology', policies <= policies'
  PROVE  /\ Orders \subseteq Orders' /\ Seq(Orders) \subseteq Seq(Orders')
         /\ \A d : Read(d) => Read(d)'
         /\ HostShape(host) => (\A s : s = host => HostShape(s)')
<1>1. /\ desired.revision \in Nat /\ topology \in Nat /\ policies \in Nat
      /\ desired'.revision \in Nat /\ topology' \in Nat /\ policies' \in Nat
  BY Zenon DEF Shapes, Row, Read, Current, Sane
<1>2. \A t, v : Sane(t, v) => Sane(t, v)'
  BY <1>1 DEF Sane
<1>3. Orders \subseteq Orders'
  BY <1>2, Zenon DEF Orders, Order
<1>4. Seq(Orders) \subseteq Seq(Orders')
  BY <1>3, SeqMonotonic, Zenon
<1>5. \A d : Read(d) => Read(d)'
  BY <1>2, Zenon DEF Read
<1>6. ASSUME HostShape(host), NEW s, s = host PROVE HostShape(s)'
  <2>1. HostShape(s)
    BY <1>6, Zenon
  <2> QED
    BY <1>1, <2>1 DEF HostShape, HostFields, CommandTypes
<1> QED
  BY <1>3, <1>4, <1>5, <1>6, Zenon

\* Requests of the operators and changes elsewhere.
LEMMA ChangeShapes ==
  Shapes /\ (PutDesiredState \/ PostKillSwitch \/ PostDns \/ PutPolicy \/ TopologyChange) => Shapes'
<1> SUFFICES ASSUME Shapes, PutDesiredState \/ PostKillSwitch \/ PostDns \/ PutPolicy \/ TopologyChange
             PROVE  Shapes'
  BY Zenon
<1>0. MaxChanges \in Nat /\ changes \in Nat /\ Row /\ Servers \subseteq Nat
  BY ReconciliationAssumption DEF Shapes
<1>1. changes' = changes + 1 /\ changes' \in 0..MaxChanges /\ UNCHANGED <<acked, batch, revision, host, checking>>
  BY <1>0 DEF PutDesiredState, PostKillSwitch, PostDns, PutPolicy, TopologyChange, Change, agent
<1>2. /\ Row' /\ desired.revision <= desired'.revision /\ topology <= topology' /\ policies <= policies'
  <2>1. CASE PutDesiredState
    <3>1. PICK dns \in Servers, kill \in {Off, On} :
            desired' = [revision |-> desired.revision + 1, dns |-> dns, kill |-> kill]
      BY <2>1, Zenon DEF PutDesiredState, upsert
    <3>2. UNCHANGED <<topology, policies>>
      BY <2>1, Zenon DEF PutDesiredState
    <3> QED
      BY <1>0, <1>1, <3>1, <3>2 DEF Row, Read, Current, Sane, Off, On
  <2>2. CASE PostKillSwitch \/ PostDns
    BY <1>0, <1>1, <2>2 DEF PostKillSwitch, PostDns, control, Row, Read, Current, Sane
  <2>3. CASE PutPolicy \/ TopologyChange
    BY <1>0, <1>1, <2>3 DEF PutPolicy, TopologyChange, Row, Read, Current, Sane
  <2> QED
    BY <2>1, <2>2, <2>3, Zenon
<1>3. DOMAIN queue' = Priorities /\ \A p \in Priorities : queue'[p] \in Seq(Orders')
  <2>1. Seq(Orders) \subseteq Seq(Orders')
    BY <1>2, Grows, Zenon
  <2>2. DOMAIN queue = Priorities /\ \A p \in Priorities : queue[p] \in Seq(Orders)
    BY Zenon DEF Shapes
  <2>3. CASE UNCHANGED queue
    BY <2>1, <2>2, <2>3, Zenon
  <2>4. ASSUME NEW c \in Orders, enqueue(c)
        PROVE  DOMAIN queue' = Priorities /\ \A p \in Priorities : queue'[p] \in Seq(Orders')
    <3>1. c.priority \in Priorities
      BY Zenon DEF Orders, Order
    <3>2. Append(queue[c.priority], c) \in Seq(Orders)
      BY <2>2, <3>1, AppendProperties, Zenon
    <3>3. queue' = [queue EXCEPT ![c.priority] = Append(queue[c.priority], c)]
      BY <2>4, Zenon DEF enqueue
    <3> QED
      BY <2>1, <2>2, <3>1, <3>2, <3>3, Zenon
  <2>5. CASE PostKillSwitch
    <3>1. PICK kill \in {Off, On} : enqueue(Command("SET_KILL_SWITCH", kill, 0, Default))
      BY <2>5, Zenon DEF PostKillSwitch
    <3>2. Command("SET_KILL_SWITCH", kill, 0, Default) \in Orders
      BY <1>0, RowIs DEF Command, Orders, Order, Sane, CommandTypes, Priorities, Off, On
    <3> QED
      BY <2>4, <3>1, <3>2, Zenon
  <2>6. CASE PostDns
    <3>1. PICK dns \in Servers : enqueue(Command("SET_DNS", dns, 0, Default))
      BY <2>6, Zenon DEF PostDns
    <3>2. Command("SET_DNS", dns, 0, Default) \in Orders
      BY <1>0, RowIs DEF Command, Orders, Order, Sane, CommandTypes, Priorities
    <3> QED
      BY <2>4, <3>1, <3>2, Zenon
  <2> QED
    BY <2>3, <2>5, <2>6, Zenon DEF PutDesiredState, PutPolicy, TopologyChange
<1>4. batch' \in Seq(Orders') /\ HostShape(host)' /\ (\A w \in Checkers : Read(checking[w])')
  <2>1. batch' \in Seq(Orders')
    BY <1>1, <1>2, Grows, Zenon DEF Shapes
  <2>2. HostShape(host)'
    <3>1. PICK s : s = host
      BY Zenon
    <3>2. HostShape(s)' /\ host' = s
      BY <1>1, <1>2, <3>1, Grows, Zenon DEF Shapes
    <3> QED
      BY <3>2, Zenon DEF HostShape
  <2>3. ASSUME NEW w \in Checkers PROVE Read(checking[w])'
    <3>1. PICK d : d = checking[w]
      BY Zenon
    <3>2. Read(d)' /\ checking'[w] = d
      BY <1>1, <1>2, <3>1, Grows, Zenon DEF Shapes
    <3> QED
      BY <3>2, Zenon DEF Read
  <2> QED
    BY <2>1, <2>2, <2>3, Zenon
<1>5. revision' \in 0..desired'.revision
  <2>1. desired.revision \in Nat /\ desired'.revision \in Nat
    BY <1>2, Zenon DEF Shapes, Row, Read, Current, Sane
  <2>2. revision' = revision /\ revision \in 0..desired.revision
    BY <1>1, Zenon DEF Shapes
  <2> QED
    BY <1>2, <2>1, <2>2
<1> QED
  BY <1>1, <1>2, <1>3, <1>4, <1>5, Zenon DEF Shapes

\* The reads and the corrections of checkNode.
LEMMA CheckShapes ==
  ASSUME NEW w \in Checkers, Shapes, checkNodeReads(w) \/ checkNodeCorrects(w) PROVE Shapes'
<1>0. /\ DOMAIN queue = Priorities /\ (\A p \in Priorities : queue[p] \in Seq(Orders)) /\ Row
      /\ DOMAIN checking = Checkers /\ \A v \in Checkers : Read(checking[v])
  BY Zenon DEF Shapes
<1>1. UNCHANGED <<platform, desired, topology, policies, acked, batch, revision, host, changes>>
  BY Zenon DEF checkNodeReads, checkNodeCorrects, control, agent
<1>2. DOMAIN checking' = Checkers /\ \A v \in Checkers : Read(checking'[v])
  <2>1. CASE checkNodeReads(w)
    <3>1. checking' = [checking EXCEPT ![w] = Current]
      BY <2>1, Zenon DEF checkNodeReads, Current
    <3> QED
      BY <1>0, <3>1, Zenon DEF Row
  <2>2. CASE checkNodeCorrects(w)
    <3>1. checking' = [checking EXCEPT ![w] = Idle]
      BY <2>2, Zenon DEF checkNodeCorrects
    <3>2. Read(Idle)
      BY <1>0, RowIs DEF Read, Idle, Sane, Off
    <3> QED
      BY <1>0, <3>1, <3>2, Zenon
  <2> QED
    BY <2>1, <2>2, Zenon
<1>3. DOMAIN queue' = Priorities /\ \A p \in Priorities : queue'[p] \in Seq(Orders)
  <2>1. CASE checkNodeReads(w)
    BY <1>0, <2>1, Zenon DEF checkNodeReads
  <2>2. CASE checkNodeCorrects(w)
    <3> DEFINE d == checking[w]
               urgent == queue[Urgent] \o checkRoutesAndIntegrity(d) \o checkDns(d) \o checkKillSwitch(d)
                           \o checkPolicyVersion(d)
               default == queue[Default] \o checkPeerTopology(d)
    <3>1. queue' = [queue EXCEPT ![Urgent] = urgent, ![Default] = default]
      BY <2>2, Zenon DEF checkNodeCorrects
    <3>2. Read(d)
      BY <1>0, Zenon
    <3> HIDE DEF d
    <3>3. \A c \in Orders : <<c>> \in Seq(Orders) /\ <<>> \in Seq(Orders)
      OBVIOUS
    <3>4. checkRoutesAndIntegrity(d) \in Seq(Orders)
      <4>1. Command("RECONCILE", d.revision, d.policies, Urgent) \in Orders
        BY <1>0, <3>2, RowIs, Zenon DEF Read, Command, Orders, Order, Sane, CommandTypes, Priorities
      <4> QED
        BY <3>3, <4>1, Zenon DEF checkRoutesAndIntegrity
    <3>5. checkDns(d) \in Seq(Orders)
      <4>1. Command("SET_DNS", d.dns, 0, Urgent) \in Orders
        BY <1>0, <3>2, RowIs, SMTT(20) DEF Read, Command, Orders, Order, Sane, CommandTypes, Priorities
      <4> QED
        BY <3>3, <4>1, Zenon DEF checkDns
    <3>6. checkKillSwitch(d) \in Seq(Orders)
      <4>1. Command("SET_KILL_SWITCH", d.kill, 0, Urgent) \in Orders
        BY <1>0, <3>2, RowIs, SMTT(20) DEF Read, Command, Orders, Order, Sane, CommandTypes, Priorities
      <4> QED
        BY <3>3, <4>1, Zenon DEF checkKillSwitch
    <3>7. checkPeerTopology(d) \in Seq(Orders)
      <4>1. Command("APPLY_PEERS", d.topology, 0, Default) \in Orders
        BY <1>0, <3>2, RowIs, SMTT(20) DEF Read, Command, Orders, Order, Sane, CommandTypes, Priorities
      <4> QED
        BY <3>3, <4>1, Zenon DEF checkPeerTopology
    <3>8. checkPolicyVersion(d) \in Seq(Orders)
      <4>1. Command("APPLY_FIREWALL", d.policies, 0, Urgent) \in Orders
        BY <1>0, <3>2, RowIs DEF Read, Command, Orders, Order, Sane, CommandTypes, Priorities
      <4> QED
        BY <3>3, <4>1, Zenon DEF checkPolicyVersion
    <3>9. urgent \in Seq(Orders) /\ default \in Seq(Orders)
      <4>1. queue[Urgent] \in Seq(Orders) /\ queue[Default] \in Seq(Orders)
        BY <1>0, Zenon DEF Priorities
      <4> QED
        BY <3>4, <3>5, <3>6, <3>7, <3>8, <4>1, ConcatProperties, Zenon
    <3> HIDE DEF urgent, default
    <3> QED
      BY <1>0, <3>1, <3>9, Zenon DEF Priorities, Urgent, Default
  <2> QED
    BY <2>1, <2>2, Zenon
<1>4. Orders' = Orders /\ HostShape(host)' = HostShape(host) /\ Row' = Row
  BY <1>1, ZenonT(40) DEF Orders, Order, Sane, HostShape, Row, Read, Current
<1>5. \A v \in Checkers : Read(checking[v])'
  BY <1>1, <1>2, ZenonT(40) DEF Read, Sane
<1> QED
  BY <1>1, <1>2, <1>3, <1>4, <1>5, Zenon DEF Shapes

\* The answer to a command, and an expiry, leave the commands of the queue as they are.
LEMMA QueueShrinks ==
  ASSUME Shapes, \/ \E c \in Orders : Answered(c)
                 \/ \E p \in Priorities : \E i \in DOMAIN queue[p] : queue' = [queue EXCEPT ![p] = Without(@, i)]
                 \/ UNCHANGED queue
  PROVE  DOMAIN queue' = Priorities /\ \A p \in Priorities : queue'[p] \in Seq(Orders)
<1>0. DOMAIN queue = Priorities /\ \A p \in Priorities : queue[p] \in Seq(Orders)
  BY Zenon DEF Shapes
<1>1. ASSUME NEW s \in Seq(Orders), NEW i \in DOMAIN s PROVE Without(s, i) \in Seq(Orders)
  <2>1. i \in 1..Len(s) /\ Len(s) \in Nat
    BY LenProperties, Zenon
  <2>2. SubSeq(s, 1, i - 1) \in Seq(Orders) /\ SubSeq(s, i + 1, Len(s)) \in Seq(Orders)
    BY <2>1, SubSeqProperties
  <2> QED
    BY <2>2, ConcatProperties, Zenon DEF Without
<1>2. ASSUME NEW p \in Priorities, NEW q \in Seq(Orders), queue' = [queue EXCEPT ![p] = q]
      PROVE  DOMAIN queue' = Priorities /\ \A r \in Priorities : queue'[r] \in Seq(Orders)
  BY <1>0, <1>2, Zenon
<1>3. CASE \E c \in Orders : Answered(c)
  <2>1. PICK c \in Orders : Answered(c)
    BY <1>3, Zenon
  <2>2. c.priority \in Priorities /\ queue[c.priority] \in Seq(Orders)
    BY <1>0, Zenon DEF Orders, Order
  <2> DEFINE s == queue[c.priority]
             n == CHOOSE i \in DOMAIN s : Oldest(s, c, i)
  <2>3. queue' = [queue EXCEPT ![c.priority] = IF \E i \in DOMAIN s : Oldest(s, c, i) THEN Without(s, n) ELSE s]
    BY <2>1, Zenon DEF Answered
  <2>4. CASE \E i \in DOMAIN s : Oldest(s, c, i)
    <3>1. n \in DOMAIN s
      BY <2>4, Zenon
    <3>2. queue' = [queue EXCEPT ![c.priority] = Without(s, n)] /\ Without(s, n) \in Seq(Orders)
      BY <1>1, <2>2, <2>3, <2>4, <3>1, Zenon
    <3> QED
      BY <1>2, <2>2, <3>2, Zenon
  <2>5. CASE ~ \E i \in DOMAIN s : Oldest(s, c, i)
    BY <1>2, <2>2, <2>3, <2>5, Zenon
  <2> QED
    BY <2>4, <2>5, Zenon
<1>4. CASE \E p \in Priorities : \E i \in DOMAIN queue[p] : queue' = [queue EXCEPT ![p] = Without(@, i)]
  <2>1. PICK p \in Priorities : \E i \in DOMAIN queue[p] : queue' = [queue EXCEPT ![p] = Without(@, i)]
    BY <1>4, Zenon
  <2>2. PICK i \in DOMAIN queue[p] : queue' = [queue EXCEPT ![p] = Without(@, i)]
    BY <2>1, Zenon
  <2> QED
    BY <1>0, <1>1, <1>2, <2>2, Zenon
<1> QED
  BY <1>0, <1>3, <1>4, Zenon

\* A step of the agent keeps the shapes if what it touches is in shape.
LEMMA AgentShapes ==
  ASSUME Shapes, UNCHANGED <<desired, topology, policies, changes, checking>>,
         DOMAIN queue' = Priorities, \A p \in Priorities : queue'[p] \in Seq(Orders), batch' \in Seq(Orders),
         DOMAIN acked' = CommandTypes,
         \A t \in CommandTypes : acked'[t].status \in {"NONE", "APPLIED", "STALE"},
         HostShape(host'), revision' \in 0..desired.revision
  PROVE  Shapes'
<1>1. \A t, v : Sane(t, v)' <=> Sane(t, v)
  BY Zenon DEF Sane
<1>2. Orders' = Orders
  <2>1. \A c : Order(c)' <=> Order(c)
    BY <1>1, Zenon DEF Order
  <2> QED
    BY <2>1, Zenon DEF Orders
<1>3. Row'
  <2>1. Read(Current)
    BY Zenon DEF Shapes, Row
  <2>2. Read(Current)'
    BY <1>1, <2>1, Zenon DEF Read, Current
  <2> QED
    BY <2>2, Zenon DEF Shapes, Row
<1>4. HostShape(host)'
  BY Zenon DEF HostShape
<1>5. \A w \in Checkers : Read(checking[w])'
  BY <1>1, Zenon DEF Shapes, Read
<1> QED
  BY <1>2, <1>3, <1>4, <1>5, Zenon DEF Shapes

\* The acknowledgement of a command that was executed.
LEMMA EchoShape ==
  ASSUME Shapes, NEW c \in Orders, acked' = [acked EXCEPT ![c.type] = Echo(c)]
  PROVE  /\ DOMAIN acked' = CommandTypes
         /\ \A t \in CommandTypes : acked'[t].status \in {"NONE", "APPLIED", "STALE"}
         /\ acked'[c.type] = Echo(c) /\ \A t \in CommandTypes \ {c.type} : acked'[t] = acked[t]
<1>1. c.type \in CommandTypes /\ DOMAIN acked = CommandTypes
  BY Zenon DEF Orders, Order, Shapes
<1>2. Echo(c).status \in {"APPLIED", "STALE"}
  BY Zenon DEF Echo
<1>3. \A t \in CommandTypes : acked[t].status \in {"NONE", "APPLIED", "STALE"}
  BY Zenon DEF Shapes
<1> QED
  BY <1>1, <1>2, <1>3, Zenon

\* The revision the agent remembers after a command.
LEMMA ReconciledShape ==
  ASSUME Shapes, NEW c \in Orders PROVE Reconciled(c) \in 0..desired.revision
<1>1. desired.revision \in Nat /\ revision \in 0..desired.revision
  BY RowIs, Zenon DEF Shapes
<1>2. Sane(c.type, c.value)
  BY Zenon DEF Orders, Order
<1> QED
  BY <1>1, <1>2 DEF Reconciled, Sane

\* The rest of a batch is a batch.
LEMMA BatchShrinks ==
  ASSUME Shapes, batch # <<>> PROVE Head(batch) \in Orders /\ Tail(batch) \in Seq(Orders)
<1>1. batch \in Seq(Orders)
  BY Zenon DEF Shapes
<1> QED
  BY <1>1, HeadTailProperties, Zenon

\* A command executed as it should be, and answered by what it did.
LEMMA ExecuteShapes == Shapes /\ Execute => Shapes'
<1> SUFFICES ASSUME Shapes, Execute PROVE Shapes'
  BY Zenon
<1>1. PICK c \in Orders : c = Head(batch)
  BY BatchShrinks, Zenon DEF Execute
<1>2. /\ host' = Effect(c) /\ revision' = Reconciled(c) /\ acked' = [acked EXCEPT ![c.type] = Echo(c)]
      /\ Answered(c) /\ batch' = Tail(batch) /\ UNCHANGED <<desired, topology, policies, changes, checking>>
  BY <1>1, Zenon DEF Execute, control
<1>3. DOMAIN queue' = Priorities /\ \A p \in Priorities : queue'[p] \in Seq(Orders)
  BY <1>2, QueueShrinks, Zenon
<1>4. batch' \in Seq(Orders)
  BY <1>2, BatchShrinks, Zenon DEF Execute
<1>5. HostShape(host')
  BY <1>2, EffectShape, Zenon DEF Shapes
<1>6. revision' \in 0..desired.revision
  BY <1>2, ReconciledShape, Zenon
<1>7. DOMAIN acked' = CommandTypes /\ \A t \in CommandTypes : acked'[t].status \in {"NONE", "APPLIED", "STALE"}
  BY <1>2, EchoShape, Zenon
<1> QED
  BY <1>2, <1>3, <1>4, <1>5, <1>6, <1>7, AgentShapes, Zenon

\* What an execution in which something fails does.
LEMMA BadlyDoes ==
  ASSUME Shapes, ExecuteBadly
  PROVE  /\ UNCHANGED <<desired, topology, policies, changes, checking>> /\ batch # <<>>
         /\ \E c \in Orders, thrown \in BOOLEAN, answer \in {"SUCCEEDED", "FAILED", "UPDATED", "LOST"} :
              /\ host' \in IF thrown THEN Outcomes(c).throws ELSE Outcomes(c).returns
              /\ answer = "SUCCEEDED" => ~thrown
              /\ hidden' = (hidden \/ host' # (IF answer = "SUCCEEDED" THEN Effect(c) ELSE host))
              /\ UNCHANGED queue \/ Answered(c)
              /\ acked' = IF answer = "SUCCEEDED" THEN [acked EXCEPT ![c.type] = Echo(c)] ELSE acked
              /\ IF answer \in {"UPDATED", "LOST"} THEN revision' = 0 /\ batch' = <<>>
                 ELSE batch' = Tail(batch) /\ revision' = IF thrown THEN revision ELSE Reconciled(c)
<1>1. UNCHANGED <<desired, topology, policies, changes, checking>> /\ batch # <<>>
  BY Zenon DEF ExecuteBadly, Fault, control
<1>2. PICK c \in Orders : c = Head(batch)
  BY <1>1, BatchShrinks, Zenon
<1>3. PICK thrown \in BOOLEAN, answer \in {"SUCCEEDED", "FAILED", "UPDATED", "LOST"} :
        \E s \in IF thrown THEN Outcomes(c).throws ELSE Outcomes(c).returns :
              /\ answer = "SUCCEEDED" => ~thrown
              /\ host' = s
              /\ hidden' = (hidden \/ s # (IF answer = "SUCCEEDED" THEN Effect(c) ELSE host))
              /\ IF answer = "LOST" THEN UNCHANGED queue ELSE Answered(c)
              /\ acked' = IF answer = "SUCCEEDED" THEN [acked EXCEPT ![c.type] = Echo(c)] ELSE acked
              /\ IF answer \in {"UPDATED", "LOST"} THEN revision' = 0 /\ batch' = <<>>
                 ELSE batch' = Tail(batch) /\ revision' = IF thrown THEN revision ELSE Reconciled(c)
  BY <1>2 DEF ExecuteBadly
<1>4. UNCHANGED queue \/ Answered(c)
  BY <1>3, Zenon
<1> QED
  BY <1>1, <1>3, <1>4, Zenon

\* So does an execution in which something fails, whatever was left behind.
LEMMA BadlyShapes == Shapes /\ ExecuteBadly => Shapes'
<1> SUFFICES ASSUME Shapes, ExecuteBadly PROVE Shapes'
  BY Zenon
<1>1. UNCHANGED <<desired, topology, policies, changes, checking>> /\ batch # <<>>
  BY BadlyDoes, Zenon
<1>2. PICK c \in Orders, thrown \in BOOLEAN, answer \in {"SUCCEEDED", "FAILED", "UPDATED", "LOST"} :
        /\ host' \in IF thrown THEN Outcomes(c).throws ELSE Outcomes(c).returns
        /\ UNCHANGED queue \/ Answered(c)
        /\ acked' = IF answer = "SUCCEEDED" THEN [acked EXCEPT ![c.type] = Echo(c)] ELSE acked
        /\ IF answer \in {"UPDATED", "LOST"} THEN revision' = 0 /\ batch' = <<>>
           ELSE batch' = Tail(batch) /\ revision' = IF thrown THEN revision ELSE Reconciled(c)
  BY BadlyDoes, Zenon
<1>3. DOMAIN queue' = Priorities /\ \A p \in Priorities : queue'[p] \in Seq(Orders)
  BY <1>2, QueueShrinks, Zenon
<1>4. batch' \in Seq(Orders)
  BY <1>1, <1>2, BatchShrinks, EmptySeq, Zenon
<1>5. HostShape(host')
  <2>1. host' \in Outcomes(c).returns \cup Outcomes(c).throws
    BY <1>2, Zenon
  <2> QED
    BY <2>1, OutcomeShape, Zenon DEF Shapes
<1>6. revision' \in 0..desired.revision
  <2>1. desired.revision \in Nat /\ revision \in 0..desired.revision
    BY RowIs, Zenon DEF Shapes
  <2>2. revision' \in {0, revision, Reconciled(c)}
    BY <1>2, Zenon
  <2>3. 0 \in 0..desired.revision
    BY <2>1
  <2> QED
    BY <2>1, <2>2, <2>3, ReconciledShape, Zenon
<1>7. DOMAIN acked' = CommandTypes /\ \A t \in CommandTypes : acked'[t].status \in {"NONE", "APPLIED", "STALE"}
  <2>1. CASE acked' = acked
    BY <2>1, Zenon DEF Shapes
  <2>2. CASE acked' = [acked EXCEPT ![c.type] = Echo(c)]
    BY <2>2, EchoShape, Zenon
  <2> QED
    BY <1>2, <2>1, <2>2, Zenon
<1> QED
  BY <1>1, <1>3, <1>4, <1>5, <1>6, <1>7, AgentShapes, Zenon

\* A heartbeat, a restart and an expiry.
LEMMA IdleShapes == Shapes /\ (Heartbeat \/ Restart \/ Expire) => Shapes'
<1> SUFFICES ASSUME Shapes, Heartbeat \/ Restart \/ Expire PROVE Shapes'
  BY Zenon
<1>1. UNCHANGED <<desired, topology, policies, changes, checking, acked, host>>
  BY Zenon DEF Heartbeat, Restart, Expire, Fault, control, agent
<1>2. /\ DOMAIN queue = Priorities /\ (\A p \in Priorities : queue[p] \in Seq(Orders)) /\ batch \in Seq(Orders)
      /\ revision \in 0..desired.revision /\ desired.revision \in Nat
  BY RowIs, Zenon DEF Shapes
<1>3. DOMAIN queue' = Priorities /\ \A p \in Priorities : queue'[p] \in Seq(Orders)
  BY QueueShrinks, Zenon DEF Heartbeat, Restart, Expire
<1>4. batch' \in Seq(Orders)
  <2>1. pending \in Seq(Orders)
    BY <1>2, ConcatProperties, Zenon DEF pending, Priorities
  <2> QED
    BY <1>2, <2>1, EmptySeq, Zenon DEF Heartbeat, Restart, Expire, agent
<1>5. revision' \in 0..desired.revision
  BY <1>2 DEF Heartbeat, Restart, Expire, agent
<1>6. /\ HostShape(host') /\ DOMAIN acked' = CommandTypes
      /\ \A t \in CommandTypes : acked'[t].status \in {"NONE", "APPLIED", "STALE"}
  BY <1>1, Zenon DEF Shapes
<1> QED
  BY <1>1, <1>3, <1>4, <1>5, <1>6, AgentShapes, Zenon

\* The rows, the queue, the agent and the host as they start.
LEMMA InitShapes == Init => Shapes /\ Answers
<1> SUFFICES ASSUME Init PROVE Shapes /\ Answers
  BY Zenon
<1>1. MaxChanges \in Nat /\ <<>> \in Seq(Orders)
  BY ReconciliationAssumption, EmptySeq, Zenon
<1>2. /\ desired = [revision |-> 0, dns |-> 0, kill |-> Off] /\ topology = 0 /\ policies = 1 /\ changes = 0
      /\ queue = [p \in Priorities |-> <<>>] /\ batch = <<>> /\ revision = 0
      /\ acked = [t \in CommandTypes |-> NoAck] /\ checking = [w \in Checkers |-> Idle]
      /\ host = [f \in HostFields |-> IF f = "TUNNEL" THEN 1 ELSE 0]
  BY Zenon DEF Init
<1>3. Row /\ Read(Idle) /\ changes \in 0..MaxChanges
  BY <1>1, <1>2 DEF Row, Read, Current, Idle, Sane, Off
<1>4. HostShape(host)
  BY <1>2 DEF HostShape, HostFields, CommandTypes, Off
<1>5. \A t \in CommandTypes : acked[t] = NoAck /\ NoAck.status = "NONE"
  BY <1>2, Zenon DEF NoAck
<1>6. Shapes
  BY <1>1, <1>2, <1>3, <1>4, <1>5 DEF Shapes
<1>7. Answers
  BY <1>2, <1>5, Zenon DEF Answers, CommandTypes
<1> QED
  BY <1>6, <1>7, Zenon

\* Every step keeps the shapes.
LEMMA NextShapes == Shapes /\ [Next]_vars => Shapes'
<1> SUFFICES ASSUME Shapes, [Next]_vars PROVE Shapes'
  BY Zenon
<1>1. "worker" \in Checkers
  BY ReconciliationAssumption, Zenon
<1>2. CASE runReconciliationLoop \/ PostReconcile
  BY <1>1, <1>2, CheckShapes, Zenon DEF runReconciliationLoop, PostReconcile
<1>3. ASSUME NEW w \in Checkers, checkNodeCorrects(w) PROVE Shapes'
  BY <1>3, CheckShapes, ZenonT(40)
<1>4. CASE UNCHANGED vars
  BY <1>4, SMTT(20) DEF vars, control, agent, Shapes, Row, Read, Current, Sane, Orders, Order, HostShape
<1> QED
  BY <1>2, <1>3, <1>4, ChangeShapes, ExecuteShapes, BadlyShapes, IdleShapes, Zenon DEF Next

-----------------------------------------------------------------------------
\* A command executed as it should be and acknowledged: the answer is what is in effect.
LEMMA EffectAnswers ==
  ASSUME Shapes, Answers, NEW c \in Orders, ~hidden, host' = Effect(c), revision' = Reconciled(c),
         acked' = [acked EXCEPT ![c.type] = Echo(c)]
  PROVE  Answers'
<1> DEFINE Watched == {"SET_DNS", "SET_KILL_SWITCH", "APPLY_PEERS"}
<1>1. /\ acked["RECONCILE"].status = "APPLIED" => host["RECONCILE"] = acked["RECONCILE"].value
      /\ \A t \in Watched : acked[t].status # "NONE" => host[t] = acked[t].value
      /\ revision = 0 \/ host["RECONCILE"] \in {0, revision}
  BY Zenon DEF Answers
<1>2. acked'[c.type] = Echo(c) /\ \A t \in CommandTypes \ {c.type} : acked'[t] = acked[t]
  BY EchoShape, Zenon
<1>3. /\ Stale(c) => host' = host
      /\ ~Stale(c) => host'[c.type] = c.value
      /\ \A t \in {"RECONCILE", "SET_DNS", "SET_KILL_SWITCH", "APPLY_PEERS"} : t # c.type => host'[t] = host[t]
  BY EffectShape, Zenon DEF Shapes
<1>4. c.type \in CommandTypes
  BY Zenon DEF Orders, Order
<1>5. CASE Stale(c)
  <2>1. c.type = "RECONCILE" /\ revision' = revision /\ Echo(c).status = "STALE"
    BY <1>5, Zenon DEF Stale, Reconciled, Echo
  <2> QED
    BY <1>1, <1>2, <1>3, <1>5, <2>1, Zenon DEF Answers, CommandTypes
<1>6. CASE ~Stale(c)
  <2>1. Echo(c).status = "APPLIED" /\ Echo(c).value = c.value
    BY <1>6, Zenon DEF Echo
  <2>2. revision' = IF c.type = "RECONCILE" THEN c.value ELSE revision
    BY <1>6, Zenon DEF Reconciled
  <2>3. \A t \in Watched : acked'[t].status # "NONE" => host'[t] = acked'[t].value
    BY <1>1, <1>2, <1>3, <1>6, <2>1 DEF CommandTypes
  <2>4. CASE c.type = "RECONCILE"
    BY <1>2, <1>3, <1>6, <2>1, <2>2, <2>3, <2>4, Zenon DEF Answers
  <2>5. CASE c.type # "RECONCILE"
    BY <1>1, <1>2, <1>3, <2>2, <2>3, <2>5, Zenon DEF Answers, CommandTypes
  <2> QED
    BY <2>4, <2>5, Zenon
<1> QED
  BY <1>5, <1>6, Zenon

\* An execution in which something fails is hidden unless its answer tells what it did.
LEMMA BadlyAnswers == Shapes /\ Answers /\ ExecuteBadly => Answers'
<1> SUFFICES ASSUME Shapes, Answers, ExecuteBadly, ~hidden' PROVE Answers'
  BY Zenon DEF Answers
<1>1. PICK c \in Orders, thrown \in BOOLEAN, answer \in {"SUCCEEDED", "FAILED", "UPDATED", "LOST"} :
        /\ host' \in IF thrown THEN Outcomes(c).throws ELSE Outcomes(c).returns
        /\ answer = "SUCCEEDED" => ~thrown
        /\ hidden' = (hidden \/ host' # (IF answer = "SUCCEEDED" THEN Effect(c) ELSE host))
        /\ acked' = IF answer = "SUCCEEDED" THEN [acked EXCEPT ![c.type] = Echo(c)] ELSE acked
        /\ IF answer \in {"UPDATED", "LOST"} THEN revision' = 0
           ELSE revision' = IF thrown THEN revision ELSE Reconciled(c)
  BY BadlyDoes, Zenon
<1>2. ~hidden /\ host' = (IF answer = "SUCCEEDED" THEN Effect(c) ELSE host)
  BY <1>1, Zenon
<1>3. CASE answer = "SUCCEEDED"
  <2>1. host' = Effect(c) /\ revision' = Reconciled(c) /\ acked' = [acked EXCEPT ![c.type] = Echo(c)]
    BY <1>1, <1>2, <1>3, Zenon
  <2> QED
    BY <1>2, <2>1, EffectAnswers, Zenon
<1>4. CASE answer # "SUCCEEDED"
  <2>1. host' = host /\ acked' = acked /\ revision' \in {0, revision, Reconciled(c)}
    BY <1>1, <1>2, <1>4, Zenon
  <2>2. revision' = 0 \/ host["RECONCILE"] \in {0, revision'}
    <3>1. CASE revision' \in {0, revision}
      BY <1>2, <3>1, Zenon DEF Answers
    <3>2. CASE revision' \notin {0, revision}
      <4>1. host \in Outcomes(c).returns /\ revision' = Reconciled(c)
        BY <1>1, <2>1, <3>2, Zenon
      <4>2. c.type = "RECONCILE" /\ ~Stale(c) /\ revision' = c.value
        BY <3>2, <4>1, Zenon DEF Reconciled
      <4>3. host["RECONCILE"] \in {0, c.value}
        BY <4>1, <4>2, OutcomeShape, Zenon DEF Shapes
      <4> QED
        BY <4>2, <4>3, Zenon
    <3> QED
      BY <3>1, <3>2, Zenon
  <2> QED
    BY <1>2, <2>1, <2>2, Zenon DEF Answers
<1> QED
  BY <1>3, <1>4, Zenon

\* Every step keeps the answers true.
LEMMA NextAnswers == Shapes /\ Answers /\ [Next]_vars => Answers'
<1> SUFFICES ASSUME Shapes, Answers, [Next]_vars PROVE Answers'
  BY Zenon
<1>1. CASE Execute
  <2> SUFFICES ASSUME ~hidden PROVE Answers'
    BY <1>1, Zenon DEF Answers, Execute
  <2>1. PICK c \in Orders : c = Head(batch)
    BY <1>1, BatchShrinks, Zenon DEF Execute
  <2>2. host' = Effect(c) /\ revision' = Reconciled(c) /\ acked' = [acked EXCEPT ![c.type] = Echo(c)]
    BY <1>1, <2>1, Zenon DEF Execute
  <2> QED
    BY <2>2, EffectAnswers, Zenon
<1>2. CASE Restart
  BY <1>2, Zenon DEF Restart, Answers
<1>3. ASSUME UNCHANGED <<acked, host, revision, hidden>> PROVE Answers'
  BY <1>3, Zenon DEF Answers
<1>4. CASE PutDesiredState \/ PostKillSwitch \/ PostDns \/ PutPolicy \/ TopologyChange
  BY <1>3, <1>4, Zenon DEF PutDesiredState, PostKillSwitch, PostDns, PutPolicy, TopologyChange, Change, agent
<1>5. CASE runReconciliationLoop \/ PostReconcile
  BY <1>3, <1>5, Zenon DEF runReconciliationLoop, PostReconcile, checkNodeReads, agent
<1>6. ASSUME NEW w \in Checkers, checkNodeCorrects(w) PROVE Answers'
  BY <1>3, <1>6, Zenon DEF checkNodeCorrects, agent
<1>7. CASE Heartbeat \/ Expire
  BY <1>3, <1>7, Zenon DEF Heartbeat, Expire, agent
<1>8. CASE UNCHANGED vars
  BY <1>3, <1>8, Zenon DEF vars, agent
<1> QED
  BY <1>1, <1>2, <1>4, <1>5, <1>6, <1>7, <1>8, BadlyAnswers, Zenon DEF Next

\* The shapes and the answers hold throughout.
LEMMA ReconciliationHolds == Spec => [](Shapes /\ Answers)
<1>1. Shapes /\ Answers /\ [Next]_vars => (Shapes /\ Answers)'
  BY NextShapes, NextAnswers, Zenon
<1> QED
  BY <1>1, InitShapes, PTL DEF Spec

-----------------------------------------------------------------------------
\* No state of any control plane, agent or host leaves its kind, and nothing on a host
\* or in the agent's memory is newer than the control plane's own rows.
THEOREM ReconciliationTypes == Spec => []TypeOK
<1>1. Shapes => TypeOK
  <2> SUFFICES ASSUME Shapes PROVE TypeOK
    BY Zenon
  <2>1. desired.revision \in 0..MaxChanges /\ desired.dns \in Servers \cup {0}
    BY RowIs, ReconciliationAssumption DEF Shapes, Row
  <2>2. \A i \in DOMAIN batch : batch[i].type \in CommandTypes
    <3>1. batch \in Seq(Orders)
      BY Zenon DEF Shapes
    <3>2. \A i \in DOMAIN batch : batch[i] \in Orders
      BY <3>1, LenProperties, Zenon
    <3> QED
      BY <3>2, Zenon DEF Orders, Order
  <2>3. HostShape(host) /\ revision \in 0..desired.revision
        /\ \A t \in CommandTypes : acked[t].status \in {"NONE", "APPLIED", "STALE"}
    BY Zenon DEF Shapes
  <2> QED
    BY <2>1, <2>2, <2>3, Zenon DEF TypeOK, HostShape
<1> QED
  BY <1>1, ReconciliationHolds, PTL

\* A node that checkNode finds in sync really has the routes, servers, kill switch and
\* peers of its desired state: checkNode never sees them, only acknowledgements.
THEOREM InSyncHolds == Spec => []InSyncIsReal
<1>1. Shapes /\ Answers => InSyncIsReal
  <2> SUFFICES ASSUME Shapes, Answers, InSync, ~hidden
               PROVE  /\ host["RECONCILE"] >= desired.revision /\ host["SET_DNS"] = desired.dns
                      /\ host["SET_KILL_SWITCH"] = desired.kill /\ host["APPLY_PEERS"] = topology
    BY Zenon DEF InSyncIsReal
  <2>1. /\ Current.revision = desired.revision /\ Current.dns = desired.dns
        /\ Current.kill = desired.kill /\ Current.topology = topology
    BY Zenon DEF Current
  <2>2. acked["RECONCILE"].status = "APPLIED" /\ acked["RECONCILE"].value >= desired.revision
    BY <2>1, Zenon DEF InSync, checkRoutesAndIntegrity
  <2>3. EchoIs("SET_DNS", desired.dns)
    BY <2>1, Zenon DEF InSync, checkDns
  <2>4. EchoIs("SET_KILL_SWITCH", desired.kill)
    BY <2>1, Zenon DEF InSync, checkKillSwitch
  <2>5. EchoIs("APPLY_PEERS", topology)
    BY <2>1, Zenon DEF InSync, checkPeerTopology
  <2> QED
    BY <2>2, <2>3, <2>4, <2>5, Zenon DEF Answers, EchoIs
<1> QED
  BY <1>1, ReconciliationHolds, PTL

\* AgentReconciler replaces routes by older ones only after a restart, or if it never
\* recorded the newer ones because the firewall threw after them.
THEOREM RoutesAdvance == Spec => RoutesRegressOnlyAfterRestart
<1> DEFINE Regress == host'["RECONCILE"] < host["RECONCILE"] =>
                        \/ revision = 0 \/ host'["RECONCILE"] = 0
                        \/ hidden /\ revision < host["RECONCILE"]
<1>1. Shapes /\ Answers /\ [Next]_vars => [Regress]_vars
  <2> SUFFICES ASSUME Shapes, Answers, Next PROVE Regress
    BY Zenon
  <2>0. host["RECONCILE"] \in Nat /\ revision \in Nat
    BY RowIs DEF Shapes, HostShape, HostFields, CommandTypes
  <2>1. ASSUME NEW c \in Orders, ~(Stale(c) \/ c.type # "RECONCILE"),
               host'["RECONCILE"] \in {0, host["RECONCILE"], c.value}
        PROVE  Regress
    <3>1. c.value \in Nat /\ c.value >= revision
      BY <2>0, <2>1 DEF Orders, Stale
    <3> QED
      BY <2>0, <2>1, <3>1 DEF Answers
  <2>2. ASSUME host'["RECONCILE"] = host["RECONCILE"] PROVE Regress
    BY <2>0, <2>2
  <2> HIDE DEF Regress
  <2>3. CASE Execute
    <3>1. PICK c \in Orders : c = Head(batch)
      BY <2>3, BatchShrinks, Zenon DEF Execute
    <3>2. host' = Effect(c)
      BY <2>3, <3>1, Zenon DEF Execute
    <3>3. CASE Stale(c) \/ c.type # "RECONCILE"
      BY <2>2, <3>2, <3>3, EffectShape, Zenon DEF Shapes
    <3>4. CASE ~(Stale(c) \/ c.type # "RECONCILE")
      <4>1. host'["RECONCILE"] = c.value
        BY <3>2, <3>4, EffectShape, Zenon DEF Shapes
      <4> QED
        BY <2>1, <3>4, <4>1, Zenon
    <3> QED
      BY <3>3, <3>4, Zenon
  <2>4. CASE ExecuteBadly
    <3>1. PICK c \in Orders : host' \in Outcomes(c).returns \cup Outcomes(c).throws
      BY <2>4, BadlyDoes, Zenon
    <3>2. /\ Stale(c) \/ c.type # "RECONCILE" => host'["RECONCILE"] = host["RECONCILE"]
          /\ host'["RECONCILE"] \in {0, host["RECONCILE"], c.value}
      BY <3>1, OutcomeShape, Zenon DEF Shapes
    <3> QED
      BY <2>1, <2>2, <3>2, Zenon
  <2>5. CASE Restart \/ Heartbeat \/ Expire
    BY <2>2, <2>5, Zenon DEF Restart, Heartbeat, Expire, agent
  <2>6. CASE PutDesiredState \/ PostKillSwitch \/ PostDns \/ PutPolicy \/ TopologyChange
    BY <2>2, <2>6, Zenon DEF PutDesiredState, PostKillSwitch, PostDns, PutPolicy, TopologyChange, Change, agent
  <2>7. CASE runReconciliationLoop \/ PostReconcile
    BY <2>2, <2>7, Zenon DEF runReconciliationLoop, PostReconcile, checkNodeReads, agent
  <2>8. ASSUME NEW w \in Checkers, checkNodeCorrects(w) PROVE Regress
    BY <2>2, <2>8, Zenon DEF checkNodeCorrects, agent
  <2> QED
    BY <2>3, <2>4, <2>5, <2>6, <2>7, <2>8, Zenon DEF Next
<1>2. Spec => [][Regress]_vars
  BY <1>1, ReconciliationHolds, PTL DEF Spec
<1> QED
  BY <1>2, Zenon DEF RoutesRegressOnlyAfterRestart

=============================================================================
