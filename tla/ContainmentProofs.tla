-------------------------- MODULE ContainmentProofs -------------------------
(***************************************************************************)
(* Proofs about Containment, for any number of operators, grants, requests *)
(* and failures.                                                           *)
(*                                                                         *)
(* Shapes says where every request stands: which statements are left, that *)
(* they are in an order the code can produce, which grants it holds, and   *)
(* that the agent's batch is the oldest part of the queue.  On top of it,  *)
(* each property has an invariant of its own: Marked (a contained device   *)
(* keeps its mark), Ended (a terminated grant exists and stays ended),     *)
(* OrderIsLast (the last isolation command pending is the last order, and  *)
(* with none pending it is in effect) and OneRotation (whoever is about to *)
(* insert a rotation found none, and is alone).                            *)
(***************************************************************************)
EXTENDS Containment, SequenceTheorems, TLAPS

Fields == {"todo", "key", "good", "weight", "all", "device", "id", "grant", "list", "score"}
DeviceFields == {"compromised", "good"}
GrantFields == {"exists", "zone", "approved", "terminated"}
Commands == {"QUARANTINE", "RESTORE", "ROTATE"}

Steps == {"device", "posture", "compromise", "restored", "list", "terminate", "grant", "approve",
          "terminateOne", "record", "window", "open", "clear", "close", "isolate", "restoreNode",
          "revoke", "hasPending", "rotate", "pending"}

\* The statements that need one before them have it just before them: the loop over
\* grants follows their list, a grant is read before it is saved, and a rotation is
\* inserted right after the check that found none.
InOrder(todo) ==
  \A i \in 1..Len(todo) :
    /\ todo[i] = "list" => i < Len(todo) /\ todo[i + 1] = "terminate"
    /\ i > 1 /\ todo[i] = "terminate" => todo[i - 1] = "list"
    /\ i > 1 /\ todo[i] \in {"approve", "terminateOne"} => todo[i - 1] = "grant"
    /\ i > 1 => todo[i] # "rotate"

NeedsGrant(todo) == \E i \in 1..Len(todo) : todo[i] \in {"grant", "approve", "terminateOne"}

\* A request under way.
Local(l) ==
  /\ DOMAIN l = Fields
  /\ l.todo \in Seq(Steps) /\ InOrder(l.todo)
  /\ l.key \in Keys /\ l.weight \in Nat
  /\ DOMAIN l.device = DeviceFields /\ DOMAIN l.grant = GrantFields
  /\ NeedsGrant(l.todo) => l.id \in Grants

Known == {g \in Grants : grants[g].exists}

\* What a request holds of the grants: they exist, and it lists some only to terminate them.
HoldsGrants(l, known) ==
  /\ \A p \in l.list : p[1] \in known /\ DOMAIN p[2] = GrantFields
  /\ l.list # {} => l.todo # <<>> /\ Head(l.todo) = "terminate"
  /\ l.todo # <<>> /\ Head(l.todo) \in {"approve", "terminateOne"} => l.id \in known

\* The commands the agent holds are the oldest pending ones.
Starts(held, pending) == Len(held) <= Len(pending) /\ \A i \in 1..Len(held) : held[i] = pending[i]

Rows ==
  /\ DOMAIN grants = Grants /\ \A g \in Grants : DOMAIN grants[g] = GrantFields
  /\ DOMAIN device = DeviceFields
  /\ window \in [Keys -> Seq(Nat)]
  /\ queue \in Seq(Commands) /\ batch \in Seq(Commands)
  /\ Starts(batch, queue)

Shapes ==
  /\ DOMAIN req = Slots
  /\ \A r \in Slots : Local(req[r]) /\ HoldsGrants(req[r], Known)
  /\ Rows

-----------------------------------------------------------------------------
\* What is left of a request after a statement is in order too.
LEMMA TailInOrder ==
  ASSUME NEW todo \in Seq(Steps), InOrder(todo), todo # <<>>
  PROVE  /\ Tail(todo) \in Seq(Steps) /\ InOrder(Tail(todo))
         /\ NeedsGrant(Tail(todo)) => NeedsGrant(todo)
<1>1. Tail(todo) \in Seq(Steps) /\ Len(Tail(todo)) = Len(todo) - 1 /\ Len(todo) \in Nat
  BY HeadTailProperties, LenProperties, Zenon
<1>2. \A i \in 1..Len(Tail(todo)) : Tail(todo)[i] = todo[i + 1]
  BY HeadTailProperties, Zenon
<1>3. InOrder(Tail(todo))
  BY <1>1, <1>2 DEF InOrder
<1>4. NeedsGrant(Tail(todo)) => NeedsGrant(todo)
  BY <1>1, <1>2 DEF NeedsGrant
<1> QED
  BY <1>1, <1>3, <1>4, Zenon

\* The statement that follows belongs to the one before it.
LEMMA HeadIsAfter ==
  ASSUME NEW todo \in Seq(Steps), InOrder(todo), todo # <<>>, Tail(todo) # <<>>
  PROVE  /\ Head(Tail(todo)) \in {"approve", "terminateOne"} => Head(todo) = "grant"
         /\ Head(Tail(todo)) = "terminate" => Head(todo) = "list"
         /\ Head(Tail(todo)) # "rotate"
         /\ Head(todo) = "list" => Head(Tail(todo)) = "terminate"
<1>1. Head(todo) = todo[1] /\ Head(Tail(todo)) = todo[2] /\ Len(todo) >= 2 /\ Len(todo) \in Nat
  BY HeadTailProperties, LenProperties, EmptySeq
<1> QED
  BY <1>1 DEF InOrder

\* The list of grants is followed by the loop over it.
LEMMA ListIsFollowed ==
  ASSUME NEW todo \in Seq(Steps), InOrder(todo), todo # <<>>, Head(todo) = "list"
  PROVE  Tail(todo) # <<>> /\ Head(Tail(todo)) = "terminate"
<1>1. Len(todo) \in Nat \ {0} /\ todo[1] = "list" /\ Len(Tail(todo)) = Len(todo) - 1
  BY EmptySeq, HeadTailProperties
<1>2. 1 \in 1..Len(todo)
  BY <1>1
<1>3. Len(todo) > 1
  BY <1>1, <1>2, Zenon DEF InOrder
<1>4. Len(Tail(todo)) > 0
  BY <1>1, <1>3
<1>5. Tail(todo) # <<>>
  BY <1>4
<1> QED
  BY <1>5, HeadIsAfter, Zenon

\* A statement may put others before what is left, unless what is left starts with one
\* that belongs to a statement before it.
LEMMA ConcatInOrder ==
  ASSUME NEW s \in Seq(Steps), NEW t \in Seq(Steps), InOrder(s), InOrder(t),
         t # <<>> => Head(t) \notin {"terminate", "approve", "terminateOne", "rotate"}
  PROVE  /\ s \o t \in Seq(Steps) /\ InOrder(s \o t)
         /\ NeedsGrant(s \o t) => NeedsGrant(s) \/ NeedsGrant(t)
<1> DEFINE u == s \o t
<1>1. /\ u \in Seq(Steps) /\ Len(u) = Len(s) + Len(t) /\ Len(s) \in Nat /\ Len(t) \in Nat
      /\ \A i \in 1..Len(s) : u[i] = s[i]
      /\ \A i \in 1..Len(t) : u[i + Len(s)] = t[i]
  BY ConcatProperties, LenProperties
<1>2. \A i \in (Len(s) + 1)..Len(u) : i - Len(s) \in 1..Len(t) /\ u[i] = t[i - Len(s)]
  <2> SUFFICES ASSUME NEW i \in (Len(s) + 1)..Len(u)
               PROVE  i - Len(s) \in 1..Len(t) /\ u[i] = t[i - Len(s)]
    BY Zenon
  <2>1. i - Len(s) \in 1..Len(t) /\ (i - Len(s)) + Len(s) = i
    BY <1>1
  <2> QED
    BY <1>1, <2>1, Zenon
<1>3. Len(t) > 0 => t[1] \notin {"terminate", "approve", "terminateOne", "rotate"}
  BY HeadTailProperties
<1> HIDE DEF u
<1>4. InOrder(u)
  <2> SUFFICES ASSUME NEW i \in 1..Len(u)
               PROVE  /\ u[i] = "list" => i < Len(u) /\ u[i + 1] = "terminate"
                      /\ i > 1 /\ u[i] = "terminate" => u[i - 1] = "list"
                      /\ i > 1 /\ u[i] \in {"approve", "terminateOne"} => u[i - 1] = "grant"
                      /\ i > 1 => u[i] # "rotate"
    BY Zenon DEF InOrder
  <2>1. CASE i \in 1..Len(s)
    <3>1. u[i] = s[i] /\ (i > 1 => u[i - 1] = s[i - 1]) /\ (i < Len(s) => u[i + 1] = s[i + 1] /\ i < Len(u))
      <4>1. u[i] = s[i] /\ (i < Len(s) => i < Len(u))
        BY <1>1, <2>1
      <4>2. i > 1 => i - 1 \in 1..Len(s)
        BY <1>1, <2>1
      <4>3. i < Len(s) => i + 1 \in 1..Len(s)
        BY <1>1, <2>1
      <4> QED
        BY <1>1, <4>1, <4>2, <4>3, Zenon
    <3> QED
      BY <2>1, <3>1, Zenon DEF InOrder
  <2>2. CASE i = Len(s) + 1
    BY <1>1, <1>2, <1>3, <2>2 DEF InOrder
  <2>3. CASE i > Len(s) + 1
    <3>1. i - Len(s) \in 1..Len(t) /\ i - Len(s) > 1 /\ u[i] = t[i - Len(s)]
      BY <1>1, <1>2, <2>3
    <3>2. (i - 1) - Len(s) = (i - Len(s)) - 1 /\ (i + 1) - Len(s) = (i - Len(s)) + 1
      BY <1>1
    <3>3. u[i - 1] = t[(i - Len(s)) - 1]
      BY <1>1, <1>2, <2>3, <3>2, SMTT(20)
    <3>4. i < Len(u) => u[i + 1] = t[(i - Len(s)) + 1]
      BY <1>1, <1>2, <2>3, <3>2, SMTT(20)
    <3>5. i < Len(u) <=> i - Len(s) < Len(t)
      BY <1>1
    <3> QED
      BY <3>1, <3>3, <3>4, <3>5, <2>3, SMTT(20) DEF InOrder
  <2> QED
    BY <1>1, <2>1, <2>2, <2>3
<1>5. NeedsGrant(u) => NeedsGrant(s) \/ NeedsGrant(t)
  <2> SUFFICES ASSUME NEW i \in 1..Len(u), u[i] \in {"grant", "approve", "terminateOne"}
               PROVE  NeedsGrant(s) \/ NeedsGrant(t)
    BY Zenon DEF NeedsGrant
  <2>1. CASE i <= Len(s)
    <3>1. i \in 1..Len(s) /\ u[i] = s[i]
      BY <1>1, <2>1
    <3> QED
      BY <3>1, Zenon DEF NeedsGrant
  <2>2. CASE i > Len(s)
    <3>1. i - Len(s) \in 1..Len(t) /\ u[i] = t[i - Len(s)]
      BY <1>1, <1>2, <2>2
    <3> QED
      BY <3>1, Zenon DEF NeedsGrant
  <2> QED
    BY <1>1, <2>1, <2>2
<1> QED
  BY <1>1, <1>4, <1>5, Zenon DEF u

\* The handlers state their statements in order.
LEMMA HandlersInOrder ==
  ASSUME NEW todo,
         \/ todo \in {<<>>, ingest, dismiss, emergencyLockdown, <<"rotate">>}
         \/ \E k \in Keys : todo \in {handle(k), restore(k)}
         \/ \E b \in BOOLEAN : todo = accept(b)
         \/ \E n : todo = evaluate(n)
  PROVE  todo \in Seq(Steps) /\ InOrder(todo) /\ ~NeedsGrant(todo)
<1> DEFINE Good(t) == t \in Seq(Steps) /\ InOrder(t) /\ ~NeedsGrant(t)
<1>1. Good(ingest) /\ Good(dismiss)
  BY DEF ingest, dismiss, InOrder, NeedsGrant, Steps
<1>2. Good(<<"device", "compromise", "list", "terminate", "isolate">>)
  BY DEF InOrder, NeedsGrant, Steps
<1>3. Good(<<"list", "terminate", "isolate", "revoke", "hasPending">>)
  BY DEF InOrder, NeedsGrant, Steps
<1>4. Good(<<"list", "terminate", "isolate">>)
  BY DEF InOrder, NeedsGrant, Steps
<1>5. Good(<<"device", "posture">>) /\ Good(<<"pending">>)
  BY DEF InOrder, NeedsGrant, Steps
<1>6. Good(<<"device", "restored", "restoreNode">>)
  BY DEF InOrder, NeedsGrant, Steps
<1>7. Good(emergencyLockdown)
  BY DEF emergencyLockdown, InOrder, NeedsGrant, Steps
<1>8. Good(<<>>) /\ Good(<<"rotate">>)
  BY DEF InOrder, NeedsGrant, Steps
<1>9. \A b \in BOOLEAN : Good(accept(b))
  <2>1. Good(<<"device", "posture">> \o <<>>) /\ Good(<<"device", "posture">> \o ingest)
    <3>1. Head(ingest) = "record"
      BY DEF ingest
    <3>2. Good(<<"device", "posture">> \o ingest)
      BY <1>1, <1>5, <3>1, ConcatInOrder, Zenon
    <3>3. Good(<<"device", "posture">> \o <<>>)
      BY <1>5, <1>8, ConcatInOrder, Zenon
    <3> QED
      BY <3>2, <3>3, Zenon
  <2>2. Head(<<"pending">>) = "pending"
    OBVIOUS
  <2>3. Good((<<"device", "posture">> \o <<>>) \o <<"pending">>) /\ Good((<<"device", "posture">> \o ingest) \o <<"pending">>)
    BY <1>5, <2>1, <2>2, ConcatInOrder, Zenon
  <2> QED
    BY <2>3, Zenon DEF accept
<1> HIDE DEF Good
<1>10. \A k : Good(handle(k)) /\ Good(restore(k))
  BY <1>2, <1>6, <1>8, Zenon DEF handle, restore
<1>11. \A n : Good(evaluate(n))
  BY <1>3, <1>4, <1>8, Zenon DEF evaluate
<1>12. Good(todo)
  BY <1>1, <1>7, <1>8, <1>9, <1>10, <1>11, Zenon
<1> QED
  BY <1>12, Zenon DEF Good

\* A request that is over.
LEMMA DoneIsLocal == Local(Done) /\ \A known : HoldsGrants(Done, known)
<1>1. <<>> \in Seq(Steps) /\ InOrder(<<>>) /\ ~NeedsGrant(<<>>)
  BY HandlersInOrder, Zenon
<1>2. DOMAIN Done = Fields
  BY Zenon DEF Done, Fields
<1>3. DOMAIN Done.device = DeviceFields /\ DOMAIN Done.grant = GrantFields
  BY Zenon DEF Done, NoGrant, DeviceFields, GrantFields
<1>4. Done.todo = <<>> /\ Done.key \in Keys /\ Done.weight \in Nat /\ Done.list = {}
  BY Zenon DEF Done, Keys
<1> QED
  BY <1>1, <1>2, <1>3, <1>4, Zenon DEF Local, HoldsGrants

\* A command is added behind those the agent holds.
LEMMA AppendStarts ==
  ASSUME NEW held \in Seq(Commands), NEW pending \in Seq(Commands), Starts(held, pending), NEW c \in Commands
  PROVE  Append(pending, c) \in Seq(Commands) /\ Starts(held, Append(pending, c))
BY AppendProperties, LenProperties DEF Starts

\* An acknowledgement removes the command the agent executed, the oldest one.
LEMMA AcknowledgeOldest ==
  ASSUME NEW held \in Seq(Commands), NEW pending \in Seq(Commands), Starts(held, pending), held # <<>>
  PROVE  /\ pending # <<>> /\ Head(pending) = Head(held)
         /\ WithoutFirst(pending, Head(held)) = Tail(pending)
         /\ Tail(pending) \in Seq(Commands) /\ Tail(held) \in Seq(Commands)
         /\ Starts(Tail(held), Tail(pending))
<1>1. Len(held) \in Nat \ {0} /\ Len(pending) \in Nat \ {0} /\ pending # <<>> /\ Head(held) = held[1]
  BY EmptySeq, LenProperties DEF Starts
<1>2. held[1] = pending[1] /\ Head(pending) = pending[1]
  BY <1>1 DEF Starts
<1> DEFINE one == CHOOSE i \in DOMAIN pending : pending[i] = held[1] /\ \A j \in 1..(i - 1) : pending[j] # held[1]
<1>3. one = 1
  <2>1. 1 \in DOMAIN pending /\ pending[1] = held[1] /\ \A j \in 1..(1 - 1) : pending[j] # held[1]
    BY <1>1, <1>2
  <2>2. \A k \in DOMAIN pending : (pending[k] = held[1] /\ \A j \in 1..(k - 1) : pending[j] # held[1]) => k = 1
    BY <1>1, <1>2
  <2> QED
    BY <2>1, <2>2, Zenon
<1>4. WithoutFirst(pending, held[1]) = SubSeq(pending, 1, one - 1) \o SubSeq(pending, one + 1, Len(pending))
  BY Zenon DEF WithoutFirst
<1>5. WithoutFirst(pending, held[1]) = SubSeq(pending, 1, 0) \o SubSeq(pending, 2, Len(pending))
  <2> HIDE DEF one
  <2> QED
    BY <1>3, <1>4
<1>6. SubSeq(pending, 1, 0) \o SubSeq(pending, 2, Len(pending)) = Tail(pending)
  <2>1. SubSeq(pending, 1, 0) = <<>>
    BY SubSeqEmpty
  <2>2. Tail(pending) = SubSeq(pending, 2, Len(pending)) /\ Tail(pending) \in Seq(Commands)
    BY <1>1, TailIsSubSeq, HeadTailProperties, Zenon
  <2>3. <<>> \o Tail(pending) = Tail(pending)
    BY <2>2, ConcatEmptySeq, Zenon
  <2> QED
    BY <2>1, <2>2, <2>3, Zenon
<1>7. Starts(Tail(held), Tail(pending)) /\ Tail(pending) \in Seq(Commands) /\ Tail(held) \in Seq(Commands)
  <2>1. /\ Tail(held) \in Seq(Commands) /\ Len(Tail(held)) = Len(held) - 1
        /\ \A i \in 1..Len(Tail(held)) : Tail(held)[i] = held[i + 1]
    BY <1>1, HeadTailProperties, Zenon
  <2>2. /\ Tail(pending) \in Seq(Commands) /\ Len(Tail(pending)) = Len(pending) - 1
        /\ \A i \in 1..Len(Tail(pending)) : Tail(pending)[i] = pending[i + 1]
    BY <1>1, HeadTailProperties, Zenon
  <2> QED
    BY <1>1, <2>1, <2>2 DEF Starts
<1> QED
  BY <1>1, <1>2, <1>5, <1>6, <1>7, Zenon

\* The requests and the rows as the control plane starts.
LEMMA InitShapes == Init => Shapes
<1> SUFFICES ASSUME Init PROVE Shapes
  BY Zenon
<1>1. DOMAIN req = Slots /\ \A r \in Slots : Local(req[r]) /\ HoldsGrants(req[r], Known)
  BY DoneIsLocal, Zenon DEF Init
<1>2. DOMAIN grants = Grants /\ \A g \in Grants : DOMAIN grants[g] = GrantFields
  BY Zenon DEF Init, NoGrant, GrantFields
<1>3. DOMAIN device = DeviceFields
  BY Zenon DEF Init, DeviceFields
<1>4. /\ window \in [Keys -> Seq(Nat)] /\ queue \in Seq(Commands) /\ batch \in Seq(Commands)
      /\ Starts(batch, queue)
  BY DEF Init, Starts
<1> QED
  BY <1>1, <1>2, <1>3, <1>4, Zenon DEF Shapes, Rows

\* A grant that exists stays; what a request holds of the grants stays true.
LEMMA HoldsMore ==
  ASSUME NEW l, NEW known, HoldsGrants(l, known), NEW more, known \subseteq more
  PROVE  HoldsGrants(l, more)
BY Zenon DEF HoldsGrants

\* A step of one request leaves the others as they are.
LEMMA OneRequestMoves ==
  ASSUME Shapes, Rows', Known \subseteq Known', NEW r \in Slots,
         DOMAIN req' = Slots, \A s \in Slots \ {r} : req'[s] = req[s],
         Local(req'[r]), HoldsGrants(req'[r], Known')
  PROVE  Shapes'
<1>1. ASSUME NEW s \in Slots PROVE Local(req'[s]) /\ HoldsGrants(req'[s], Known')
  <2>1. CASE s = r
    BY <2>1, Zenon
  <2>2. CASE s # r
    <3>1. req'[s] = req[s] /\ Local(req[s]) /\ HoldsGrants(req[s], Known)
      BY <2>2, Zenon DEF Shapes
    <3>2. HoldsGrants(req[s], Known')
      BY <3>1, HoldsMore, Zenon
    <3> QED
      BY <3>1, <3>2, Zenon
  <2> QED
    BY <2>1, <2>2, Zenon
<1> QED
  BY <1>1, Zenon DEF Shapes

\* Continue replaces the one request, or ends it.
LEMMA ContinueMoves ==
  ASSUME Shapes, NEW r \in Slots, NEW l, Continue(r, l)
  PROVE  /\ DOMAIN req' = Slots /\ \A s \in Slots \ {r} : req'[s] = req[s]
         /\ req'[r] = IF l.todo = <<>> THEN Done ELSE l
BY Zenon DEF Shapes, Continue

\* Goto drops what the request read, and goes on with the statements todo.
LEMMA GotoMoves ==
  ASSUME Shapes, NEW r \in Slots, NEW todo \in Seq(Steps), InOrder(todo),
         NeedsGrant(todo) => req[r].id \in Grants, Goto(r, todo)
  PROVE  /\ DOMAIN req' = Slots /\ \A s \in Slots \ {r} : req'[s] = req[s]
         /\ Local(req'[r]) /\ req'[r].todo = todo
         /\ todo # <<>> => req'[r].list = req[r].list /\ req'[r].id = req[r].id /\ req'[r].key = req[r].key
         /\ todo = <<>> => req'[r] = Done
<1> DEFINE l == [req[r] EXCEPT !.todo = todo, !.device = Done.device, !.grant = NoGrant, !.score = 0]
<1>1. DOMAIN req[r] = Fields /\ Local(req[r])
  BY Zenon DEF Shapes, Local
<1>2. /\ DOMAIN l = Fields /\ l.todo = todo /\ l.device = Done.device /\ l.grant = NoGrant
      /\ l.key = req[r].key /\ l.weight = req[r].weight /\ l.id = req[r].id /\ l.list = req[r].list
  BY <1>1, Zenon DEF Fields
<1>3. Continue(r, l)
  BY Zenon DEF Goto
<1> HIDE DEF l
<1>4. /\ DOMAIN req' = Slots /\ \A s \in Slots \ {r} : req'[s] = req[s]
      /\ req'[r] = IF l.todo = <<>> THEN Done ELSE l
  BY <1>3, ContinueMoves, Zenon
<1>5. DOMAIN Done.device = DeviceFields /\ DOMAIN NoGrant = GrantFields /\ Done.todo = <<>>
  BY Zenon DEF Done, NoGrant, DeviceFields, GrantFields
<1>6. Local(l)
  BY <1>1, <1>2, <1>5, Zenon DEF Local
<1> QED
  BY <1>2, <1>4, <1>5, <1>6, DoneIsLocal, Zenon

\* What a request reads and does to no row.
LEMMA RowsStay ==
  ASSUME Shapes, UNCHANGED <<device, grants, window, queue, batch>>
  PROVE  Rows' /\ Known' = Known
BY Zenon DEF Shapes, Rows, Known

\* A request begins with nothing read.
LEMMA BeginShapes ==
  ASSUME Shapes, UNCHANGED <<device, grants, window, queue, batch>>,
         NEW r \in Slots, NEW todo \in Seq(Steps), InOrder(todo),
         NEW l, Local(l), l.list = {}, NeedsGrant(todo) => l.id \in Grants,
         todo # <<>> => Head(todo) \notin {"approve", "terminateOne"},
         Begin(r, todo, l)
  PROVE  Shapes'
<1> DEFINE m == [l EXCEPT !.todo = todo]
<1>1. /\ DOMAIN m = Fields /\ m.todo = todo /\ m.key = l.key /\ m.weight = l.weight /\ m.device = l.device
      /\ m.grant = l.grant /\ m.id = l.id /\ m.list = l.list
  BY Zenon DEF Local, Fields
<1>2. DOMAIN req' = Slots /\ (\A s \in Slots \ {r} : req'[s] = req[s]) /\ req'[r] = m
  BY Zenon DEF Begin, Shapes
<1> HIDE DEF m
<1>3. Local(m)
  BY <1>1, Zenon DEF Local
<1>4. HoldsGrants(m, Known')
  BY <1>1, Zenon DEF HoldsGrants
<1> QED
  BY <1>2, <1>3, <1>4, RowsStay, OneRequestMoves, Zenon

\* A statement after which the request goes on with the rest, having read nothing.
LEMMA RestShapes ==
  ASSUME Shapes, Rows', Known \subseteq Known', NEW r \in Slots, req[r].todo # <<>>,
         Head(req[r].todo) \notin {"terminate", "grant"}, Goto(r, Rest(r))
  PROVE  Shapes'
<1>1. /\ Local(req[r]) /\ HoldsGrants(req[r], Known) /\ req[r].list = {}
  BY Zenon DEF Shapes, HoldsGrants
<1>2. Rest(r) \in Seq(Steps) /\ InOrder(Rest(r)) /\ (NeedsGrant(Rest(r)) => req[r].id \in Grants)
  BY <1>1, TailInOrder, Zenon DEF Local, Rest
<1>3. Rest(r) # <<>> => Head(Rest(r)) \notin {"approve", "terminateOne"}
  <2>1. req[r].todo \in Seq(Steps) /\ InOrder(req[r].todo)
    BY <1>1, Zenon DEF Local
  <2> QED
    BY <2>1, HeadIsAfter, Zenon DEF Rest
<1>4. /\ DOMAIN req' = Slots /\ \A s \in Slots \ {r} : req'[s] = req[s]
      /\ Local(req'[r]) /\ req'[r].todo = Rest(r)
      /\ Rest(r) # <<>> => req'[r].list = req[r].list
      /\ Rest(r) = <<>> => req'[r] = Done
  BY <1>2, GotoMoves, Zenon
<1>5. HoldsGrants(req'[r], Known')
  <2>1. CASE Rest(r) = <<>>
    BY <1>4, <2>1, DoneIsLocal, Zenon
  <2>2. CASE Rest(r) # <<>>
    BY <1>1, <1>3, <1>4, <2>2, Zenon DEF HoldsGrants
  <2> QED
    BY <2>1, <2>2, Zenon
<1> QED
  BY <1>4, <1>5, OneRequestMoves, Zenon

\* A request that ends, or goes on with what s adds before the rest.
LEMMA AddedShapes ==
  ASSUME Shapes, UNCHANGED <<device, grants, window, queue, batch>>, NEW r \in Slots, req[r].todo # <<>>,
         Head(req[r].todo) \notin {"terminate", "grant", "list"},
         NEW s \in Seq(Steps), InOrder(s), ~NeedsGrant(s), Goto(r, s \o Rest(r))
  PROVE  Shapes' /\ req'[r].todo = s \o Rest(r)
<1>1. /\ Local(req[r]) /\ HoldsGrants(req[r], Known) /\ req[r].list = {}
  BY Zenon DEF Shapes, HoldsGrants
<1>2. /\ Rest(r) \in Seq(Steps) /\ InOrder(Rest(r))
      /\ NeedsGrant(Rest(r)) => req[r].id \in Grants
  BY <1>1, TailInOrder, Zenon DEF Local, Rest
<1>3. Rest(r) # <<>> => Head(Rest(r)) \notin {"terminate", "approve", "terminateOne", "rotate"}
  <2>1. req[r].todo \in Seq(Steps) /\ InOrder(req[r].todo)
    BY <1>1, Zenon DEF Local
  <2> QED
    BY <2>1, HeadIsAfter, Zenon DEF Rest
<1> DEFINE u == s \o Rest(r)
<1>4. u \in Seq(Steps) /\ InOrder(u) /\ (NeedsGrant(u) => req[r].id \in Grants)
  BY <1>2, <1>3, ConcatInOrder, Zenon
<1>5. u # <<>> => Head(u) \notin {"approve", "terminateOne"}
  <2>1. CASE s = <<>>
    BY <1>2, <1>3, <2>1
  <2>2. CASE s # <<>>
    <3>1. Len(s) \in Nat \ {0} /\ u[1] = s[1] /\ Head(u) = u[1]
      BY <1>2, <2>2, EmptySeq, ConcatProperties
    <3> QED
      BY <3>1 DEF NeedsGrant
  <2> QED
    BY <2>1, <2>2, Zenon
<1> HIDE DEF u
<1>6. /\ DOMAIN req' = Slots /\ \A q \in Slots \ {r} : req'[q] = req[q]
      /\ Local(req'[r]) /\ req'[r].todo = u
      /\ u # <<>> => req'[r].list = req[r].list
      /\ u = <<>> => req'[r] = Done
  <2>1. Goto(r, u)
    BY Zenon DEF u
  <2> QED
    BY <1>4, <2>1, GotoMoves, Zenon
<1>7. HoldsGrants(req'[r], Known')
  <2>1. CASE u = <<>>
    BY <1>6, <2>1, DoneIsLocal, Zenon
  <2>2. CASE u # <<>>
    BY <1>1, <1>5, <1>6, <2>2, Zenon DEF HoldsGrants
  <2> QED
    BY <2>1, <2>2, Zenon
<1>8. Shapes'
  BY <1>6, <1>7, RowsStay, OneRequestMoves, Zenon
<1> QED
  BY <1>6, <1>8, Zenon DEF u

\* A request that fails, or ends early.
LEMMA EndShapes ==
  ASSUME Shapes, Rows', Known \subseteq Known', NEW r \in Slots, End(r)
  PROVE  Shapes' /\ req'[r] = Done
<1>1. <<>> \in Seq(Steps) /\ InOrder(<<>>) /\ ~NeedsGrant(<<>>)
  BY HandlersInOrder, Zenon
<1>2. /\ DOMAIN req' = Slots /\ \A q \in Slots \ {r} : req'[q] = req[q]
      /\ req'[r] = Done
  BY <1>1, GotoMoves, Zenon DEF End
<1> QED
  BY <1>2, DoneIsLocal, OneRequestMoves, Zenon

\* The requests of operators, with what they name.
LEMMA FreshIsLocal ==
  ASSUME NEW l, \/ \E k \in Keys : l = [Done EXCEPT !.key = k]
                \/ \E k \in Keys, w \in Nat : l = [Done EXCEPT !.key = k, !.weight = w]
                \/ \E b \in BOOLEAN, w \in Nat : l = [Done EXCEPT !.good = b, !.weight = w]
                \/ l = [Done EXCEPT !.all = TRUE]
                \/ \E g \in Grants : l = [Done EXCEPT !.id = g]
  PROVE  Local(l) /\ l.list = {} /\ (l.id # Done.id => l.id \in Grants)
<1> DEFINE Same == /\ DOMAIN l = Fields /\ l.todo = Done.todo /\ l.device = Done.device /\ l.grant = Done.grant
                   /\ l.list = Done.list /\ l.key \in Keys /\ l.weight \in Nat
                   /\ l.id # Done.id => l.id \in Grants
<1>1. DOMAIN Done = Fields /\ Local(Done) /\ Done.list = {} /\ Done.todo = <<>> /\ ~NeedsGrant(Done.todo)
  BY DoneIsLocal, HandlersInOrder, Zenon DEF Done, Fields
<1>2. Done.key \in Keys /\ Done.weight \in Nat
  BY <1>1, Zenon DEF Local
<1>3. Same
  BY <1>1, <1>2, Zenon DEF Fields
<1> QED
  BY <1>1, <1>3, Zenon DEF Local

\* A handler starts with its statements in order and nothing read.
LEMMA RequestShapes ==
  ASSUME Shapes, NEW r \in Operators,
         \/ PostQuarantine(r) \/ PostRestore(r) \/ PostLockdown(r) \/ PostSignal(r)
         \/ PostDismiss(r) \/ PostApprove(r) \/ PostTerminate(r)
  PROVE  Shapes'
<1> r \in Slots
  BY Zenon DEF Slots
<1> USE DEF rows, node
<1>1. CASE PostQuarantine(r)
  <2>1. PICK k \in Keys : Request(r, handle(k), [Done EXCEPT !.key = k])
    BY <1>1, Zenon DEF PostQuarantine
  <2>2. handle(k) # <<>> => Head(handle(k)) = "device"
    BY DEF handle
  <2> QED
    BY <2>1, <2>2, HandlersInOrder, FreshIsLocal, BeginShapes, Zenon DEF Request
<1>2. CASE PostRestore(r)
  <2>1. PICK k \in Keys : Request(r, restore(k), [Done EXCEPT !.key = k])
    BY <1>2, Zenon DEF PostRestore
  <2>2. restore(k) # <<>> => Head(restore(k)) = "device"
    BY DEF restore
  <2> QED
    BY <2>1, <2>2, HandlersInOrder, FreshIsLocal, BeginShapes, Zenon DEF Request
<1>3. CASE PostLockdown(r)
  <2>1. Head(emergencyLockdown) = "isolate"
    BY DEF emergencyLockdown
  <2> QED
    BY <1>3, <2>1, HandlersInOrder, FreshIsLocal, BeginShapes, Zenon DEF Request, PostLockdown
<1>4. CASE PostSignal(r)
  <2>1. PICK k \in Keys, w \in Weights : Request(r, ingest, [Done EXCEPT !.key = k, !.weight = w])
    BY <1>4, Zenon DEF PostSignal
  <2>2. Head(ingest) = "record" /\ w \in Nat
    BY ContainmentAssumption DEF ingest
  <2> QED
    BY <2>1, <2>2, HandlersInOrder, FreshIsLocal, BeginShapes, Zenon DEF Request
<1>5. CASE PostDismiss(r)
  <2>1. PICK k \in Keys : Request(r, dismiss, [Done EXCEPT !.key = k])
    BY <1>5, Zenon DEF PostDismiss
  <2>2. Head(dismiss) = "clear"
    BY DEF dismiss
  <2> QED
    BY <2>1, <2>2, HandlersInOrder, FreshIsLocal, BeginShapes, Zenon DEF Request
<1>6. CASE PostApprove(r) \/ PostTerminate(r)
  <2>1. PICK g \in Grants, todo \in {approve, terminate} : Request(r, todo, [Done EXCEPT !.id = g])
    BY <1>6, Zenon DEF PostApprove, PostTerminate
  <2>2. todo \in Seq(Steps) /\ InOrder(todo) /\ Head(todo) = "grant"
    <3>1. approve \in Seq(Steps) /\ InOrder(approve) /\ Head(approve) = "grant"
      BY DEF approve, InOrder, Steps
    <3>2. terminate \in Seq(Steps) /\ InOrder(terminate) /\ Head(terminate) = "grant"
      BY DEF terminate, InOrder, Steps
    <3> QED
      BY <3>1, <3>2, Zenon
  <2>3. [Done EXCEPT !.id = g].id = g
    BY Zenon DEF Done
  <2> QED
    BY <2>1, <2>2, <2>3, FreshIsLocal, BeginShapes, Zenon DEF Request
<1> QED
  BY <1>1, <1>2, <1>3, <1>4, <1>5, <1>6, Zenon

\* saveGrant changes the approval and the termination of one grant.
LEMMA SaveGrantRows ==
  ASSUME Shapes, NEW g \in Grants, NEW read, NEW written, saveGrant(g, read, written)
  PROVE  /\ Rows' /\ Known' = Known
         /\ \A h \in Grants : grants'[h].exists = grants[h].exists
         /\ \A h \in Grants \ {g} : grants'[h] = grants[h]
         /\ grants'[g].terminated = written.terminated /\ grants'[g].approved = written.approved
<1>1. DOMAIN grants = Grants /\ \A h \in Grants : DOMAIN grants[h] = GrantFields
  BY Zenon DEF Shapes, Rows
<1>2. grants' = [grants EXCEPT ![g].approved = written.approved, ![g].terminated = written.terminated]
  BY Zenon DEF saveGrant
<1>3. grants' = [grants EXCEPT ![g] = [[grants[g] EXCEPT !.approved = written.approved]
                                           EXCEPT !.terminated = written.terminated]]
  BY <1>1, <1>2, Zenon
<1> DEFINE row == [[grants[g] EXCEPT !.approved = written.approved] EXCEPT !.terminated = written.terminated]
<1>4. /\ DOMAIN row = GrantFields /\ row.exists = grants[g].exists
      /\ row.terminated = written.terminated /\ row.approved = written.approved
  BY <1>1, Zenon DEF GrantFields
<1> HIDE DEF row
<1>5. DOMAIN grants' = Grants /\ grants'[g] = row /\ \A h \in Grants \ {g} : grants'[h] = grants[h]
  BY <1>1, <1>3, Zenon DEF row
<1>6. \A h \in Grants : DOMAIN grants'[h] = GrantFields /\ grants'[h].exists = grants[h].exists
  BY <1>1, <1>4, <1>5, Zenon
<1>7. Rows'
  BY <1>5, <1>6, Zenon DEF saveGrant, node, Shapes, Rows
<1> QED
  BY <1>4, <1>5, <1>6, <1>7, Zenon DEF Known

\* The window keeps the latest signals.
LEMMA LatestIsSeq ==
  ASSUME NEW s \in Seq(Nat)
  PROVE  Latest(s) \in Seq(Nat) /\ Len(Latest(s)) <= MaxSignals
<1>1. Len(s) \in Nat /\ MaxSignals \in Nat
  BY LenProperties, ContainmentAssumption, Zenon
<1>2. CASE Len(s) > MaxSignals
  BY <1>1, <1>2, SubSeqProperties DEF Latest
<1>3. CASE Len(s) <= MaxSignals
  BY <1>3, Zenon DEF Latest
<1> QED
  BY <1>1, <1>2, <1>3

\* Each statement leaves the requests in order and the rows of their kind.
LEMMA StatementShapes ==
  ASSUME Shapes, NEW r \in Slots, Statement(r)
  PROVE  Shapes'
<1> USE DEF rows, node
<1>0. /\ Local(req[r]) /\ HoldsGrants(req[r], Known) /\ DOMAIN req[r] = Fields
      /\ req[r].todo \in Seq(Steps) /\ InOrder(req[r].todo) /\ req[r].key \in Keys
  BY Zenon DEF Shapes, Local
<1>1. ASSUME ReadDevice(r) PROVE Shapes'
  <2> DEFINE l == [req[r] EXCEPT !.todo = Rest(r), !.device = device]
  <2>1. Rest(r) \in Seq(Steps) /\ InOrder(Rest(r)) /\ (NeedsGrant(Rest(r)) => req[r].id \in Grants)
    BY <1>0, <1>1, TailInOrder, Zenon DEF Local, Rest, ReadDevice, At
  <2>2. Rest(r) # <<>> => Head(Rest(r)) \notin {"approve", "terminateOne"}
    BY <1>0, <1>1, HeadIsAfter, Zenon DEF Rest, ReadDevice, At
  <2>3. /\ DOMAIN l = Fields /\ l.todo = Rest(r) /\ l.device = device /\ l.grant = req[r].grant
        /\ l.key = req[r].key /\ l.weight = req[r].weight /\ l.id = req[r].id /\ l.list = req[r].list
    BY <1>0, Zenon DEF Fields
  <2>4. Continue(r, l)
    BY <1>1, Zenon DEF ReadDevice
  <2>5. req[r].list = {}
    BY <1>0, <1>1, Zenon DEF HoldsGrants, ReadDevice, At
  <2> HIDE DEF l
  <2>6. Local(l) /\ HoldsGrants(l, Known)
    BY <1>0, <2>1, <2>2, <2>3, <2>5, Zenon DEF Local, HoldsGrants, Shapes, Rows
  <2>7. Rows' /\ Known' = Known
    BY <1>1, RowsStay, Zenon DEF ReadDevice
  <2> QED
    BY <2>4, <2>6, <2>7, DoneIsLocal, ContinueMoves, OneRequestMoves, Zenon
<1>2. ASSUME SavePosture(r) \/ SaveCompromised(r) \/ SaveRestored(r) PROVE Shapes'
  <2>1. DOMAIN req[r].device = DeviceFields
    BY <1>0, Zenon DEF Local
  <2>2. Rows' /\ Known' = Known
    BY <1>2, <2>1, Zenon DEF SavePosture, SaveCompromised, SaveRestored, saveDevice, Shapes, Rows, Known
  <2>3. At(r, "posture") \/ At(r, "compromise") \/ At(r, "restored")
    BY <1>2, Zenon DEF SavePosture, SaveCompromised, SaveRestored
  <2>4. Goto(r, Rest(r))
    BY <1>2, Zenon DEF SavePosture, SaveCompromised, SaveRestored
  <2> QED
    BY <2>2, <2>3, <2>4, RestShapes, Zenon DEF At
<1>3. ASSUME ListGrants(r) PROVE Shapes'
  <2> DEFINE todo == IF Listed(r) = {} THEN Tail(Rest(r)) ELSE Rest(r)
             list == {<<g, grants[g]>> : g \in Listed(r)}
             l == [req[r] EXCEPT !.todo = todo, !.list = list]
  <2>1. req[r].todo # <<>> /\ Head(req[r].todo) = "list"
    BY <1>3, Zenon DEF ListGrants, At
  <2>2. Rest(r) # <<>> /\ Head(Rest(r)) = "terminate"
    BY <1>0, <2>1, ListIsFollowed, Zenon DEF Rest
  <2>3. Rest(r) \in Seq(Steps) /\ InOrder(Rest(r)) /\ (NeedsGrant(Rest(r)) => req[r].id \in Grants)
    BY <1>0, <2>1, TailInOrder, Zenon DEF Local, Rest
  <2>4. /\ Tail(Rest(r)) \in Seq(Steps) /\ InOrder(Tail(Rest(r)))
        /\ NeedsGrant(Tail(Rest(r))) => req[r].id \in Grants
    BY <2>2, <2>3, TailInOrder, Zenon
  <2>5. Tail(Rest(r)) # <<>> => Head(Tail(Rest(r))) \notin {"approve", "terminateOne"}
    BY <2>2, <2>3, HeadIsAfter, Zenon
  <2>6. todo \in Seq(Steps) /\ InOrder(todo) /\ (NeedsGrant(todo) => req[r].id \in Grants)
    BY <2>3, <2>4, Zenon
  <2>7. \A p \in list : p[1] \in Known /\ DOMAIN p[2] = GrantFields
    BY DEF Listed, Active, Known, Shapes, Rows
  <2>8. list # {} => todo = Rest(r)
    <3>1. Listed(r) = {} => list = {}
      BY Zenon
    <3> QED
      BY <3>1, Zenon
  <2>9. todo # <<>> => Head(todo) \notin {"approve", "terminateOne"}
    BY <2>2, <2>5, Zenon
  <2>10. Continue(r, l)
    BY <1>3, Zenon DEF ListGrants
  <2> HIDE DEF todo, list
  <2>11. /\ DOMAIN l = Fields /\ l.todo = todo /\ l.device = req[r].device /\ l.grant = req[r].grant
         /\ l.key = req[r].key /\ l.weight = req[r].weight /\ l.id = req[r].id /\ l.list = list
    BY <1>0, Zenon DEF Fields
  <2> HIDE DEF l
  <2>12. Local(l)
    BY <1>0, <2>6, <2>11, Zenon DEF Local
  <2>13. HoldsGrants(l, Known)
    BY <2>2, <2>7, <2>8, <2>9, <2>11, Zenon DEF HoldsGrants
  <2>14. Rows' /\ Known' = Known
    BY <1>3, RowsStay, Zenon DEF ListGrants
  <2> QED
    BY <2>10, <2>12, <2>13, <2>14, DoneIsLocal, ContinueMoves, OneRequestMoves, Zenon
<1>4. ASSUME TerminateListed(r) PROVE Shapes'
  <2>1. PICK p \in req[r].list :
          /\ saveGrant(p[1], p[2], [p[2] EXCEPT !.terminated = TRUE])
          /\ Continue(r, [req[r] EXCEPT !.todo = IF req[r].list = {p} THEN Rest(r) ELSE @, !.list = @ \ {p}])
    BY <1>4, Zenon DEF TerminateListed
  <2>2. req[r].todo # <<>> /\ Head(req[r].todo) = "terminate"
    BY <1>4, Zenon DEF TerminateListed, At
  <2> DEFINE todo == IF req[r].list = {p} THEN Rest(r) ELSE req[r].todo
             list == req[r].list \ {p}
             l == [req[r] EXCEPT !.todo = todo, !.list = list]
  <2>3. Continue(r, l)
    BY <1>0, <2>1, Zenon DEF Fields
  <2>4. todo \in Seq(Steps) /\ InOrder(todo) /\ (NeedsGrant(todo) => req[r].id \in Grants)
    BY <1>0, <2>2, TailInOrder, Zenon DEF Local, Rest
  <2>5. todo # <<>> => Head(todo) \notin {"approve", "terminateOne"}
    BY <1>0, <2>2, HeadIsAfter, Zenon DEF Rest
  <2>6. list # {} => todo = req[r].todo
    BY Zenon
  <2>7. p[1] \in Grants /\ list \subseteq req[r].list
    BY <1>0, Zenon DEF HoldsGrants, Known
  <2> HIDE DEF todo, list
  <2>8. /\ DOMAIN l = Fields /\ l.todo = todo /\ l.device = req[r].device /\ l.grant = req[r].grant
        /\ l.key = req[r].key /\ l.weight = req[r].weight /\ l.id = req[r].id /\ l.list = list
    BY <1>0, Zenon DEF Fields
  <2> HIDE DEF l
  <2>9. Local(l)
    BY <1>0, <2>4, <2>8, Zenon DEF Local
  <2>10. HoldsGrants(l, Known)
    BY <1>0, <2>2, <2>5, <2>6, <2>7, <2>8, Zenon DEF HoldsGrants
  <2>11. Rows' /\ Known' = Known
    BY <2>1, <2>7, SaveGrantRows, Zenon
  <2> QED
    BY <2>3, <2>9, <2>10, <2>11, DoneIsLocal, ContinueMoves, OneRequestMoves, Zenon
<1>5. ASSUME ReadGrant(r) PROVE Shapes'
  <2>1. req[r].todo # <<>> /\ Head(req[r].todo) = "grant"
    BY <1>5, Zenon DEF ReadGrant, At
  <2>2. req[r].id \in Grants
    <3>1. 1 \in 1..Len(req[r].todo) /\ req[r].todo[1] = "grant"
      BY <1>0, <2>1, EmptySeq, HeadTailProperties
    <3> QED
      BY <1>0, <3>1, Zenon DEF Local, NeedsGrant
  <2>3. Rows' /\ Known' = Known
    BY <1>5, RowsStay, Zenon DEF ReadGrant
  <2>4. CASE ~grants[req[r].id].exists
    BY <1>5, <2>3, <2>4, EndShapes, Zenon DEF ReadGrant
  <2>5. CASE grants[req[r].id].exists
    <3> DEFINE l == [req[r] EXCEPT !.todo = Rest(r), !.grant = grants[req[r].id]]
    <3>1. Continue(r, l)
      BY <1>5, <2>5, Zenon DEF ReadGrant
    <3>2. Rest(r) \in Seq(Steps) /\ InOrder(Rest(r))
      BY <1>0, <2>1, TailInOrder, Zenon DEF Rest
    <3>3. req[r].list = {} /\ req[r].id \in Known
      BY <1>0, <2>1, <2>2, <2>5, Zenon DEF HoldsGrants, Known
    <3>4. /\ DOMAIN l = Fields /\ l.todo = Rest(r) /\ l.device = req[r].device
          /\ l.grant = grants[req[r].id] /\ l.key = req[r].key /\ l.weight = req[r].weight
          /\ l.id = req[r].id /\ l.list = req[r].list
      BY <1>0, Zenon DEF Fields
    <3>5. DOMAIN grants[req[r].id] = GrantFields
      BY <2>2, Zenon DEF Shapes, Rows
    <3> HIDE DEF l
    <3>6. Local(l)
      BY <1>0, <2>2, <3>2, <3>4, <3>5, Zenon DEF Local
    <3>7. HoldsGrants(l, Known)
      BY <3>3, <3>4, Zenon DEF HoldsGrants
    <3> QED
      BY <2>3, <3>1, <3>6, <3>7, DoneIsLocal, ContinueMoves, OneRequestMoves, Zenon
  <2> QED
    BY <2>4, <2>5, Zenon
<1>6. ASSUME SaveApproved(r) \/ SaveTerminated(r) PROVE Shapes'
  <2>1. At(r, "approve") \/ At(r, "terminateOne")
    BY <1>6, Zenon DEF SaveApproved, SaveTerminated
  <2>2. req[r].id \in Grants
    BY <1>0, <2>1, Zenon DEF HoldsGrants, Known, At
  <2>3. Rows' /\ Known' = Known
    BY <1>6, <2>2, SaveGrantRows, Zenon DEF SaveApproved, SaveTerminated
  <2>4. Goto(r, Rest(r))
    BY <1>6, Zenon DEF SaveApproved, SaveTerminated
  <2> QED
    BY <2>1, <2>3, <2>4, RestShapes, Zenon DEF At
<1>7. ASSUME Record(r) \/ ClearWindow(r) PROVE Shapes'
  <2>1. window \in [Keys -> Seq(Nat)] /\ req[r].key \in Keys /\ req[r].weight \in Nat
    BY <1>0, Zenon DEF Shapes, Rows, Local
  <2>2. \A s \in Seq(Nat) : Latest(s) \in Seq(Nat)
    BY LatestIsSeq, Zenon
  <2>3. Latest(Append(window[req[r].key], req[r].weight)) \in Seq(Nat)
    <3>1. window[req[r].key] \in Seq(Nat)
      BY <2>1, Zenon
    <3>2. Append(window[req[r].key], req[r].weight) \in Seq(Nat)
      BY <2>1, <3>1, AppendProperties, Zenon
    <3> QED
      BY <2>2, <3>2, Zenon
  <2>4. window' \in [Keys -> Seq(Nat)]
    <3>1. PICK s \in Seq(Nat) : window' = [window EXCEPT ![req[r].key] = s]
      <4>1. CASE Record(r)
        BY <2>3, <4>1, Zenon DEF Record
      <4>2. CASE ClearWindow(r)
        BY <4>2, EmptySeq, Zenon DEF ClearWindow
      <4> QED
        BY <1>7, <4>1, <4>2, Zenon
    <3> QED
      BY <2>1, <3>1, Zenon
  <2>5. Rows' /\ Known' = Known
    BY <1>7, <2>4, Zenon DEF Record, ClearWindow, Shapes, Rows, Known
  <2>6. Goto(r, Rest(r)) /\ (At(r, "record") \/ At(r, "clear"))
    BY <1>7, Zenon DEF Record, ClearWindow
  <2> QED
    BY <2>5, <2>6, RestShapes, Zenon DEF At
<1>8. ASSUME Window(r) PROVE Shapes'
  <2>1. PICK n \in 0..Len(window[req[r].key]) :
          /\ window' = [window EXCEPT ![req[r].key] = SubSeq(@, n + 1, Len(@))]
          /\ Continue(r, [req[r] EXCEPT !.todo = Rest(r), !.score = score(window'[req[r].key])])
    BY <1>8, Zenon DEF Window
  <2>2. window \in [Keys -> Seq(Nat)] /\ req[r].key \in Keys /\ window[req[r].key] \in Seq(Nat)
    BY <1>0, Zenon DEF Shapes, Rows, Local
  <2>3. SubSeq(window[req[r].key], n + 1, Len(window[req[r].key])) \in Seq(Nat)
    BY <2>2, SubSeqProperties
  <2>4. window' \in [Keys -> Seq(Nat)]
    BY <2>1, <2>2, <2>3, Zenon
  <2>5. Rows' /\ Known' = Known
    BY <1>8, <2>4, Zenon DEF Window, Shapes, Rows, Known
  <2> DEFINE l == [req[r] EXCEPT !.todo = Rest(r), !.score = score(window'[req[r].key])]
  <2>6. Rest(r) \in Seq(Steps) /\ InOrder(Rest(r)) /\ (NeedsGrant(Rest(r)) => req[r].id \in Grants)
    BY <1>0, <1>8, TailInOrder, Zenon DEF Local, Rest, Window, At
  <2>7. Rest(r) # <<>> => Head(Rest(r)) \notin {"approve", "terminateOne"}
    BY <1>0, <1>8, HeadIsAfter, Zenon DEF Rest, Window, At
  <2>8. /\ DOMAIN l = Fields /\ l.todo = Rest(r) /\ l.device = req[r].device /\ l.grant = req[r].grant
        /\ l.key = req[r].key /\ l.weight = req[r].weight /\ l.id = req[r].id /\ l.list = req[r].list
    BY <1>0, Zenon DEF Fields
  <2>9. Continue(r, l)
    BY <2>1, Zenon
  <2>10. req[r].list = {}
    BY <1>0, <1>8, Zenon DEF HoldsGrants, Window, At
  <2> HIDE DEF l
  <2>11. Local(l) /\ HoldsGrants(l, Known)
    BY <1>0, <2>6, <2>7, <2>8, <2>10, Zenon DEF Local, HoldsGrants
  <2> QED
    BY <2>5, <2>9, <2>11, DoneIsLocal, ContinueMoves, OneRequestMoves, Zenon
<1>9. ASSUME OpenIncident(r) PROVE Shapes'
  <2>1. At(r, "open") /\ Goto(r, evaluate(req[r].score) \o Rest(r))
    BY <1>9, Zenon DEF OpenIncident
  <2>2. LET s == evaluate(req[r].score) IN s \in Seq(Steps) /\ InOrder(s) /\ ~NeedsGrant(s)
    BY HandlersInOrder, Zenon
  <2> QED
    BY <1>9, <2>1, <2>2, AddedShapes, Zenon DEF At, OpenIncident
<1>10. ASSUME CloseIncidents(r) \/ revokeNodeCertificates(r) PROVE Shapes'
  <2>1. Goto(r, Rest(r)) /\ (At(r, "close") \/ At(r, "revoke"))
    BY <1>10, Zenon DEF CloseIncidents, revokeNodeCertificates
  <2>2. Rows' /\ Known' = Known
    BY <1>10, RowsStay, Zenon DEF CloseIncidents, revokeNodeCertificates
  <2> QED
    BY <2>1, <2>2, RestShapes, Zenon DEF At
<1>11. ASSUME isolateNode(r) \/ restoreNode(r) \/ EnqueueRotation(r) PROVE Shapes'
  <2>1. PICK c \in Commands : Enqueue(r, c)
    BY <1>11, Zenon DEF isolateNode, restoreNode, EnqueueRotation, Commands
  <2>2. queue' \in Seq(Commands) /\ Starts(batch', queue')
    BY <2>1, AppendStarts, Zenon DEF Enqueue, Shapes, Rows
  <2>3. Rows' /\ Known' = Known
    BY <2>1, <2>2, Zenon DEF Enqueue, Shapes, Rows, Known
  <2>4. Goto(r, Rest(r)) /\ (At(r, "isolate") \/ At(r, "restoreNode") \/ At(r, "rotate"))
    BY <1>11, <2>1, Zenon DEF isolateNode, restoreNode, EnqueueRotation, Enqueue
  <2> QED
    BY <2>3, <2>4, RestShapes, Zenon DEF At
<1>12. ASSUME rotateMeshIdentity(r) PROVE Shapes'
  <2>1. PICK s \in {<<>>, <<"rotate">>} : Goto(r, s \o Rest(r))
    BY <1>12, Zenon DEF rotateMeshIdentity
  <2>2. s \in Seq(Steps) /\ InOrder(s) /\ ~NeedsGrant(s)
    BY HandlersInOrder, Zenon
  <2> QED
    BY <1>12, <2>1, <2>2, AddedShapes, Zenon DEF At, rotateMeshIdentity
<1> QED
  BY <1>1, <1>2, <1>3, <1>4, <1>5, <1>6, <1>7, <1>8, <1>9, <1>10, <1>11, <1>12, Zenon DEF Statement

\* The agent's steps.
LEMMA AgentShapes ==
  ASSUME Shapes, Pending \/ Execute \/ ExecuteSwallowed \/ ExecuteUnanswered \/ Expire
  PROVE  Shapes'
<1> USE DEF rows, node
<1>0. queue \in Seq(Commands) /\ batch \in Seq(Commands) /\ Starts(batch, queue) /\ <<>> \in Seq(Commands)
  BY DEF Shapes, Rows
<1>1. CASE Pending
  <2>1. Starts(queue, queue)
    BY <1>0, LenProperties DEF Starts
  <2>2. Rows' /\ Known' = Known
    BY <1>1, <2>1, Zenon DEF Pending, Shapes, Rows, Known
  <2>3. "agent" \in Slots
    BY Zenon DEF Slots
  <2> QED
    BY <1>1, <2>2, <2>3, RestShapes, Zenon DEF Pending, At
<1>2. CASE Execute \/ ExecuteSwallowed \/ ExecuteUnanswered \/ Expire
  <2>1. queue' \in Seq(Commands) /\ batch' \in Seq(Commands) /\ Starts(batch', queue')
    <3>1. Starts(<<>>, queue)
      BY <1>0, LenProperties DEF Starts
    <3>2. queue # <<>> => Tail(queue) \in Seq(Commands) /\ Starts(<<>>, Tail(queue))
      BY <1>0, LenProperties, HeadTailProperties DEF Starts
    <3>3. CASE Expire
      BY <1>0, <3>2, <3>3, Zenon DEF Expire
    <3>4. CASE ExecuteUnanswered
      BY <1>0, <3>1, <3>4, Zenon DEF ExecuteUnanswered
    <3>5. batch # <<>> =>
            LET left == WithoutFirst(queue, Head(batch))
            IN  left \in Seq(Commands) /\ Tail(batch) \in Seq(Commands) /\ Starts(Tail(batch), left)
      BY <1>0, AcknowledgeOldest, Zenon
    <3>6. CASE ExecuteSwallowed
      BY <1>0, <3>5, <3>6, Zenon DEF ExecuteSwallowed
    <3>7. CASE Execute
      BY <1>0, <3>1, <3>5, <3>7, Zenon DEF Execute
    <3> QED
      BY <1>2, <3>3, <3>4, <3>6, <3>7, Zenon
  <2>2. UNCHANGED <<req, device, grants, window>>
    BY <1>2, Zenon DEF Execute, ExecuteSwallowed, ExecuteUnanswered, Expire, Fault
  <2> QED
    BY <2>1, <2>2, Zenon DEF Shapes, Rows, Known
<1> QED
  BY <1>1, <1>2, Zenon

\* Every step keeps the requests in order and the rows of their kind.
LEMMA NextShapes == Shapes /\ [Next]_vars => Shapes'
<1> SUFFICES ASSUME Shapes, [Next]_vars PROVE Shapes'
  BY Zenon
<1>1. ASSUME NEW r \in Operators,
             \/ PostQuarantine(r) \/ PostRestore(r) \/ PostLockdown(r) \/ PostSignal(r)
             \/ PostDismiss(r) \/ PostApprove(r) \/ PostTerminate(r)
      PROVE  Shapes'
  BY <1>1, RequestShapes, Zenon
<1>2. CASE PostJit
  <2>1. PICK g \in Grants, z \in Zones :
          grants' = [grants EXCEPT ![g] = [NoGrant EXCEPT !.exists = TRUE, !.zone = z]]
    BY <1>2, Zenon DEF PostJit
  <2> DEFINE row == [NoGrant EXCEPT !.exists = TRUE, !.zone = z]
  <2>2. DOMAIN row = GrantFields /\ row.exists
    BY Zenon DEF NoGrant, GrantFields
  <2> HIDE DEF row
  <2>3. DOMAIN grants = Grants /\ \A h \in Grants : DOMAIN grants[h] = GrantFields
    BY Zenon DEF Shapes, Rows
  <2>4. DOMAIN grants' = Grants /\ grants'[g] = row /\ \A h \in Grants \ {g} : grants'[h] = grants[h]
    BY <2>1, <2>3, Zenon DEF row
  <2>5. \A h \in Grants : DOMAIN grants'[h] = GrantFields /\ (grants[h].exists => grants'[h].exists)
    BY <2>2, <2>3, <2>4, Zenon
  <2>6. Rows' /\ Known \subseteq Known'
    BY <1>2, <2>4, <2>5, Zenon DEF PostJit, node, Shapes, Rows, Known
  <2>7. UNCHANGED req
    BY <1>2, Zenon DEF PostJit
  <2> QED
    BY <2>6, <2>7, HoldsMore, Zenon DEF Shapes
<1>3. CASE PostHeartbeat
  <2>1. PICK good \in BOOLEAN :
          Begin("agent", accept(good), [Done EXCEPT !.good = good, !.weight = PostureWeight])
    BY <1>3, Zenon DEF PostHeartbeat
  <2>2. accept(good) \in Seq(Steps) /\ InOrder(accept(good)) /\ ~NeedsGrant(accept(good))
    BY HandlersInOrder, Zenon
  <2>3. accept(good) # <<>> => Head(accept(good)) \notin {"approve", "terminateOne"}
    BY <2>2, EmptySeq DEF NeedsGrant
  <2>4. "agent" \in Slots /\ PostureWeight \in Nat
    BY Zenon DEF Slots, PostureWeight
  <2> QED
    BY <1>3, <2>1, <2>2, <2>3, <2>4, FreshIsLocal, BeginShapes, Zenon DEF PostHeartbeat, rows, node
<1>4. ASSUME NEW r \in Slots, Statement(r) PROVE Shapes'
  BY <1>4, StatementShapes, Zenon
<1>5. ASSUME NEW r \in Slots, Fail(r) PROVE Shapes'
  <2>1. UNCHANGED <<device, grants, window, queue, batch>> /\ End(r)
    BY <1>5, Zenon DEF Fail, Fault
  <2> QED
    BY <2>1, RowsStay, EndShapes, Zenon
<1>6. CASE Pending \/ Execute \/ ExecuteSwallowed \/ ExecuteUnanswered \/ Expire
  BY <1>6, AgentShapes, Zenon
<1>7. CASE UNCHANGED vars
  BY <1>7, Zenon DEF vars, rows, node, Shapes, Rows, Known
<1> QED
  BY <1>1, <1>2, <1>3, <1>4, <1>5, <1>6, <1>7, Zenon DEF Next

-----------------------------------------------------------------------------
\* What each step may change.
LEMMA Frames ==
  ASSUME [Next]_vars
  PROVE  /\ overwritten => overwritten'
         /\ \/ UNCHANGED <<device, contained>>
            \/ \E r \in Slots : SavePosture(r) \/ SaveCompromised(r) \/ SaveRestored(r)
         /\ \/ UNCHANGED <<grants, ended>>
            \/ PostJit
            \/ \E r \in Slots : TerminateListed(r) \/ SaveApproved(r) \/ SaveTerminated(r)
         /\ \/ UNCHANGED window
            \/ \E r \in Slots : Record(r) \/ Window(r) \/ ClearWindow(r)
         /\ \/ UNCHANGED <<queue, batch, isolated, order, missed>>
            \/ \E r \in Slots : isolateNode(r) \/ restoreNode(r) \/ EnqueueRotation(r)
            \/ Pending \/ Execute \/ ExecuteSwallowed \/ ExecuteUnanswered \/ Expire
         /\ UNCHANGED raced \/ \E r \in Slots : rotateMeshIdentity(r)
<1> USE DEF rows, node, history
<1>1. ASSUME NEW r \in Operators,
             \/ PostQuarantine(r) \/ PostRestore(r) \/ PostLockdown(r) \/ PostSignal(r)
             \/ PostDismiss(r) \/ PostApprove(r) \/ PostTerminate(r)
      PROVE  UNCHANGED <<rows, node, history>>
  BY <1>1, Zenon DEF PostQuarantine, PostRestore, PostLockdown, PostSignal, PostDismiss, PostApprove, PostTerminate,
              Request
<1>2. CASE PostJit
  BY <1>2, Zenon DEF PostJit
<1>3. CASE PostHeartbeat
  BY <1>3, Zenon DEF PostHeartbeat
<1>4. ASSUME NEW r \in Slots, ReadDevice(r) \/ ListGrants(r) \/ ReadGrant(r)
      PROVE  UNCHANGED <<rows, node, history>>
  BY <1>4, Zenon DEF ReadDevice, ListGrants, ReadGrant
<1>5. ASSUME NEW r \in Slots, SavePosture(r) \/ SaveCompromised(r) \/ SaveRestored(r)
      PROVE  /\ overwritten => overwritten'
             /\ UNCHANGED <<grants, ended, window, queue, batch, isolated, order, missed, raced>>
  BY <1>5, Zenon DEF SavePosture, SaveCompromised, SaveRestored, saveDevice
<1>6. ASSUME NEW r \in Slots, TerminateListed(r) \/ SaveApproved(r) \/ SaveTerminated(r)
      PROVE  /\ overwritten => overwritten'
             /\ UNCHANGED <<device, contained, window, queue, batch, isolated, order, missed, raced>>
  BY <1>6, Zenon DEF TerminateListed, SaveApproved, SaveTerminated, saveGrant
<1>7. ASSUME NEW r \in Slots, Record(r) \/ Window(r) \/ ClearWindow(r)
      PROVE  UNCHANGED <<device, contained, overwritten, grants, ended, queue, batch, isolated, order, missed,
                         raced>>
  BY <1>7, Zenon DEF Record, Window, ClearWindow
<1>8. ASSUME NEW r \in Slots, \/ OpenIncident(r) \/ CloseIncidents(r) \/ revokeNodeCertificates(r)
                              \/ rotateMeshIdentity(r)
      PROVE  /\ UNCHANGED <<device, contained, overwritten, grants, ended, window, queue, batch, isolated,
                            order, missed>>
             /\ UNCHANGED raced \/ rotateMeshIdentity(r)
  BY <1>8, Zenon DEF OpenIncident, CloseIncidents, revokeNodeCertificates, rotateMeshIdentity
<1>9. ASSUME NEW r \in Slots, isolateNode(r) \/ restoreNode(r) \/ EnqueueRotation(r)
      PROVE  UNCHANGED <<device, contained, overwritten, grants, ended, window, raced>>
  BY <1>9, Zenon DEF isolateNode, restoreNode, EnqueueRotation, Enqueue
<1>10. ASSUME NEW r \in Slots, Fail(r)
       PROVE  UNCHANGED <<device, contained, overwritten, grants, ended, window, queue, batch, isolated, order,
                          missed, raced>>
  BY <1>10, Zenon DEF Fail, Fault
<1>11. CASE Pending \/ Execute \/ ExecuteSwallowed \/ ExecuteUnanswered \/ Expire
  <2>1. CASE Pending
    BY <2>1, Zenon DEF Pending, rows, node, history
  <2>2. CASE Execute
    BY <2>2, Zenon DEF Execute, rows, node, history
  <2>3. CASE ExecuteSwallowed \/ ExecuteUnanswered
    BY <2>3 DEF ExecuteSwallowed, ExecuteUnanswered, Fault
  <2>4. CASE Expire
    BY <2>4, Zenon DEF Expire, Fault
  <2> QED
    BY <1>11, <2>1, <2>2, <2>3, <2>4, Zenon
<1>12. CASE UNCHANGED vars
  BY <1>12, Zenon DEF vars
<1> QED
  BY <1>1, <1>2, <1>3, <1>4, <1>5, <1>6, <1>7, <1>8, <1>9, <1>10, <1>11, <1>12, Zenon DEF Next, Statement

\* The rows that record the containment.
Marked == contained /\ ~overwritten => device.compromised

\* Only a step that overwrites the device row unmarks a contained device.
LEMMA NextMarked == Shapes /\ Marked /\ [Next]_vars => Marked'
<1> SUFFICES ASSUME Shapes, Marked, [Next]_vars PROVE Marked'
  BY Zenon
<1>1. CASE UNCHANGED <<device, contained>>
  BY <1>1, Frames, Zenon DEF Marked
<1>2. ASSUME NEW r \in Slots, SavePosture(r) PROVE Marked'
  <2>1. DOMAIN req[r].device = DeviceFields
    BY Zenon DEF Shapes, Local
  <2>2. device'.compromised = req[r].device.compromised
    BY <1>2, <2>1, Zenon DEF SavePosture, saveDevice, DeviceFields
  <2>3. ~overwritten' => ~overwritten /\ req[r].device = device
    BY <1>2, Zenon DEF SavePosture, saveDevice
  <2>4. contained' = contained
    BY <1>2, Zenon DEF SavePosture
  <2> QED
    BY <2>2, <2>3, <2>4, Zenon DEF Marked
<1>3. ASSUME NEW r \in Slots, SaveCompromised(r) PROVE Marked'
  <2>1. DOMAIN req[r].device = DeviceFields
    BY Zenon DEF Shapes, Local
  <2> QED
    BY <1>3, <2>1, Zenon DEF Marked, SaveCompromised, saveDevice, DeviceFields
<1>4. ASSUME NEW r \in Slots, SaveRestored(r) PROVE Marked'
  BY <1>4, Zenon DEF Marked, SaveRestored
<1> QED
  BY <1>1, <1>2, <1>3, <1>4, Frames, Zenon

\* A device that was quarantined, and not restored, is denied access by decide whatever
\* the policies and the grants, for any number of requests and signals, unless a handler
\* wrote back a stale device row.
THEOREM QuarantineHolds == Spec => []QuarantineDenies
<1>1. Init => Shapes /\ Marked
  BY InitShapes, Zenon DEF Init, Marked
<1>2. Shapes /\ Marked /\ [Next]_vars => (Shapes /\ Marked)'
  BY NextShapes, NextMarked, Zenon
<1>3. Marked => QuarantineDenies
  BY Zenon DEF Marked, QuarantineDenies, decide, postureOk
<1> QED
  BY <1>1, <1>2, <1>3, PTL DEF Spec

-----------------------------------------------------------------------------
\* The rows of grants: only one that exists is approved or terminated, and one that a
\* containment terminated is still terminated unless a stale row was written.
Ended ==
  /\ ended \subseteq Grants
  /\ \A g \in Grants : grants[g].approved \/ grants[g].terminated => grants[g].exists
  /\ EndedGrantsStayEnded

\* Only a step that overwrites a grant revives one that ended.
LEMMA NextEnded == Shapes /\ Ended /\ [Next]_vars => Ended'
<1> SUFFICES ASSUME Shapes, Ended, [Next]_vars PROVE Ended'
  BY Zenon
<1>0. DOMAIN grants = Grants /\ \A g \in Grants : DOMAIN grants[g] = GrantFields
  BY Zenon DEF Shapes, Rows
<1>1. CASE UNCHANGED <<grants, ended>>
  BY <1>1, Frames, Zenon DEF Ended, EndedGrantsStayEnded
<1>2. CASE PostJit
  <2>1. PICK g \in Grants, z \in Zones :
          /\ ~grants[g].exists
          /\ grants' = [grants EXCEPT ![g] = [NoGrant EXCEPT !.exists = TRUE, !.zone = z]]
    BY <1>2, Zenon DEF PostJit
  <2>2. [NoGrant EXCEPT !.exists = TRUE, !.zone = z].exists
    BY Zenon DEF NoGrant
  <2>3. grants'[g].exists /\ \A h \in Grants \ {g} : grants'[h] = grants[h]
    BY <1>0, <2>1, <2>2, Zenon
  <2>4. UNCHANGED <<ended, overwritten>>
    BY <1>2, Zenon DEF PostJit, history
  <2>5. g \in ended => overwritten
    BY <2>1, Zenon DEF Ended, EndedGrantsStayEnded
  <2> QED
    BY <2>3, <2>4, <2>5, Zenon DEF Ended, EndedGrantsStayEnded
<1>3. ASSUME NEW r \in Slots, TerminateListed(r) PROVE Ended'
  <2>1. PICK p \in req[r].list :
          /\ saveGrant(p[1], p[2], [p[2] EXCEPT !.terminated = TRUE])
          /\ ended' = ended \cup {p[1]}
    BY <1>3, Zenon DEF TerminateListed
  <2>2. p[1] \in Grants /\ grants[p[1]].exists /\ DOMAIN p[2] = GrantFields
    BY Zenon DEF Shapes, HoldsGrants, Known
  <2>3. PICK written : saveGrant(p[1], p[2], written) /\ written.terminated
    <3>1. [p[2] EXCEPT !.terminated = TRUE].terminated
      BY <2>2, Zenon DEF GrantFields
    <3> QED
      BY <2>1, <3>1, Zenon
  <2>4. /\ \A h \in Grants : grants'[h].exists = grants[h].exists
        /\ \A h \in Grants \ {p[1]} : grants'[h] = grants[h]
        /\ grants'[p[1]].terminated
    BY <2>1, <2>2, <2>3, SaveGrantRows
  <2> QED
    BY <2>1, <2>2, <2>4, Frames, Zenon DEF Ended, EndedGrantsStayEnded
<1>4. ASSUME NEW r \in Slots, SaveApproved(r) \/ SaveTerminated(r) PROVE Ended'
  <2>1. At(r, "approve") \/ At(r, "terminateOne")
    BY <1>4, Zenon DEF SaveApproved, SaveTerminated
  <2>2. req[r].id \in Grants /\ grants[req[r].id].exists /\ DOMAIN req[r].grant = GrantFields
    BY <2>1, Zenon DEF Shapes, Local, HoldsGrants, Known, At
  <2>3. PICK written : /\ saveGrant(req[r].id, req[r].grant, written)
                       /\ req[r].grant.terminated => written.terminated
    <3>1. CASE SaveApproved(r)
      <4>1. [req[r].grant EXCEPT !.approved = TRUE].terminated = req[r].grant.terminated
        BY <2>2, Zenon DEF GrantFields
      <4> QED
        BY <3>1, <4>1, Zenon DEF SaveApproved
    <3>2. CASE SaveTerminated(r)
      <4>1. [req[r].grant EXCEPT !.terminated = TRUE].terminated
        BY <2>2, Zenon DEF GrantFields
      <4> QED
        BY <3>2, <4>1, Zenon DEF SaveTerminated
    <3> QED
      BY <1>4, <3>1, <3>2, Zenon
  <2>4. /\ \A h \in Grants : grants'[h].exists = grants[h].exists
        /\ \A h \in Grants \ {req[r].id} : grants'[h] = grants[h]
        /\ grants'[req[r].id].terminated = written.terminated
    BY <2>2, <2>3, SaveGrantRows
  <2>5. ~overwritten' => ~overwritten /\ grants[req[r].id] = req[r].grant
    BY <2>3, Zenon DEF saveGrant
  <2>6. ended' = ended
    BY <1>4, Zenon DEF SaveApproved, SaveTerminated
  <2> QED
    BY <2>2, <2>3, <2>4, <2>5, <2>6, Zenon DEF Ended, EndedGrantsStayEnded
<1> QED
  BY <1>1, <1>2, <1>3, <1>4, Frames, Zenon

\* A grant that a quarantine, an engine's containment or a lockdown terminated stays
\* terminated, however many approvals are made at the same time, unless one of them
\* wrote back the grant it had read before.
THEOREM TerminationHolds == Spec => []EndedGrantsStayEnded
<1>1. Init => Shapes /\ Ended
  BY InitShapes DEF Init, Ended, EndedGrantsStayEnded, NoGrant
<1>2. Shapes /\ Ended /\ [Next]_vars => (Shapes /\ Ended)'
  BY NextShapes, NextEnded, Zenon
<1>3. Ended => EndedGrantsStayEnded
  BY Zenon DEF Ended
<1> QED
  BY <1>1, <1>2, <1>3, PTL DEF Spec

-----------------------------------------------------------------------------
\* The last isolation command that is pending is the order; when none is pending, the
\* order is in effect on the host.
OrderIsLast ==
  ~missed =>
    /\ \A i \in 1..Len(queue) :
         queue[i] # "ROTATE" /\ (\A j \in 1..Len(queue) : j > i => queue[j] = "ROTATE") => queue[i] = order
    /\ (\A i \in 1..Len(queue) : queue[i] = "ROTATE") => (isolated <=> order = "QUARANTINE")

\* A queued order is the last one, an executed one leaves the queue with the node as it
\* says; only an order that is swallowed or expires may be missed.
LEMMA NextOrderIsLast == Shapes /\ OrderIsLast /\ [Next]_vars => OrderIsLast'
<1> SUFFICES ASSUME Shapes, OrderIsLast, [Next]_vars PROVE OrderIsLast'
  BY Zenon
<1>0. queue \in Seq(Commands) /\ batch \in Seq(Commands) /\ Starts(batch, queue) /\ Len(queue) \in Nat
  BY DEF Shapes, Rows
<1>1. CASE UNCHANGED <<queue, batch, isolated, order, missed>>
  BY <1>1, Zenon DEF OrderIsLast
<1>2. ASSUME NEW r \in Slots, isolateNode(r) \/ restoreNode(r) \/ EnqueueRotation(r) PROVE OrderIsLast'
  <2>1. PICK c \in Commands : Enqueue(r, c)
    BY <1>2, Zenon DEF isolateNode, restoreNode, EnqueueRotation, Commands
  <2>2. UNCHANGED <<isolated, missed>>
    BY <2>1, Zenon DEF Enqueue
  <2>3. CASE req[r].key # "node"
    BY <2>1, <2>2, <2>3 DEF Enqueue, OrderIsLast
  <2>4. CASE req[r].key = "node"
    <3>1. /\ queue' = Append(queue, c) /\ order' = IF c # "ROTATE" THEN c ELSE order
      BY <2>1, <2>4, Zenon DEF Enqueue
    <3>2. /\ Len(queue') = Len(queue) + 1 /\ queue'[Len(queue) + 1] = c
          /\ \A i \in 1..Len(queue) : queue'[i] = queue[i]
      BY <1>0, <3>1, AppendProperties
    <3> QED
      BY <1>0, <2>2, <3>1, <3>2 DEF OrderIsLast
  <2> QED
    BY <2>3, <2>4, Zenon
<1>3. CASE ExecuteSwallowed \/ Expire
  BY <1>3, Zenon DEF ExecuteSwallowed, Expire, OrderIsLast
<1>4. CASE Pending
  BY <1>4, Zenon DEF Pending, history, OrderIsLast
<1>5. CASE ExecuteUnanswered
  <2>1. queue # <<>> /\ Head(queue) = Head(batch) /\ queue[1] = Head(batch) /\ 1 \in 1..Len(queue)
    BY <1>0, <1>5, AcknowledgeOldest, EmptySeq DEF ExecuteUnanswered
  <2>2. isolated' = Isolated(queue[1]) /\ UNCHANGED <<queue, order, missed>>
    BY <1>5, <2>1, Zenon DEF ExecuteUnanswered, Fault
  <2>3. queue[1] = "ROTATE" => isolated' = isolated
    BY <2>2, Zenon DEF Isolated
  <2> QED
    BY <2>1, <2>2, <2>3, Zenon DEF OrderIsLast
<1>6. CASE Execute
  <2>1. /\ queue # <<>> /\ queue[1] = Head(batch) /\ 1 \in 1..Len(queue)
        /\ WithoutFirst(queue, Head(batch)) = Tail(queue)
    BY <1>0, <1>6, AcknowledgeOldest, EmptySeq DEF Execute
  <2>2. isolated' = Isolated(queue[1]) /\ UNCHANGED <<order, missed>>
    BY <1>6, <2>1, Zenon DEF Execute, history
  <2>3. CASE platform = "windows" /\ isolated'
    <3>1. queue' = queue
      BY <1>6, <2>3, Zenon DEF Execute
    <3>2. queue[1] # "ROTATE"
      BY <1>6, <2>2, <2>3, Zenon DEF Execute, CutOff, Isolated
    <3> QED
      BY <2>1, <2>2, <3>1, <3>2, Zenon DEF OrderIsLast
  <2>4. CASE ~(platform = "windows" /\ isolated')
    <3>1. queue' = Tail(queue)
      BY <1>6, <2>1, <2>4, Zenon DEF Execute
    <3>2. Len(queue') = Len(queue) - 1 /\ \A i \in 1..Len(queue') : queue'[i] = queue[i + 1]
      BY <1>0, <2>1, <3>1, HeadTailProperties, Zenon
    <3>3. queue[1] \in Commands
      BY <1>0, <2>1
    <3>4. ASSUME ~missed, NEW i \in 1..Len(queue'), queue'[i] # "ROTATE",
                 \A j \in 1..Len(queue') : j > i => queue'[j] = "ROTATE"
          PROVE  queue'[i] = order'
      <4>1. i + 1 \in 1..Len(queue) /\ queue[i + 1] = queue'[i]
        BY <1>0, <3>2, <3>4
      <4>2. ASSUME NEW j \in 1..Len(queue), j > i + 1 PROVE queue[j] = "ROTATE"
        <5>1. j - 1 \in 1..Len(queue') /\ j - 1 > i /\ (j - 1) + 1 = j
          BY <1>0, <3>2, <4>2
        <5> QED
          BY <3>2, <3>4, <5>1, Zenon
      <4> QED
        BY <2>2, <3>4, <4>1, <4>2, Zenon DEF OrderIsLast
    <3>5. ASSUME ~missed, \A i \in 1..Len(queue') : queue'[i] = "ROTATE"
          PROVE  isolated' <=> order' = "QUARANTINE"
      <4>1. ASSUME NEW j \in 1..Len(queue), j > 1 PROVE queue[j] = "ROTATE"
        <5>1. j - 1 \in 1..Len(queue') /\ (j - 1) + 1 = j
          BY <1>0, <3>2, <4>1
        <5> QED
          BY <3>2, <3>5, <5>1, Zenon
      <4>2. CASE queue[1] = "ROTATE"
        <5>1. \A j \in 1..Len(queue) : queue[j] = "ROTATE"
          BY <1>0, <4>1, <4>2
        <5>2. isolated' = isolated
          BY <2>2, <4>2, Zenon DEF Isolated
        <5> QED
          BY <2>2, <3>5, <5>1, <5>2 DEF OrderIsLast
      <4>3. CASE queue[1] # "ROTATE"
        <5>1. queue[1] = order
          BY <2>1, <3>5, <4>1, <4>3, Zenon DEF OrderIsLast
        <5>2. isolated' <=> queue[1] = "QUARANTINE"
          BY <2>2, <3>3, <4>3, Zenon DEF Isolated, Commands
        <5> QED
          BY <2>2, <5>1, <5>2, Zenon
      <4> QED
        BY <4>2, <4>3, Zenon
    <3> QED
      BY <2>2, <3>4, <3>5, Zenon DEF OrderIsLast
  <2> QED
    BY <2>3, <2>4, Zenon
<1> QED
  BY <1>1, <1>2, <1>3, <1>4, <1>5, <1>6, Frames, Zenon

\* When the node has no command left, its quarantine is in effect exactly if the last
\* order was to isolate it, for any number of concurrent requests, agents that die in a
\* batch and lost acknowledgements.
THEOREM IsolationFollows == Spec => []IsolationFollowsLastOrder
<1>1. Init => Shapes /\ OrderIsLast
  BY InitShapes DEF Init, OrderIsLast
<1>2. Shapes /\ OrderIsLast /\ [Next]_vars => (Shapes /\ OrderIsLast)'
  BY NextShapes, NextOrderIsLast, Zenon
<1>3. OrderIsLast => IsolationFollowsLastOrder
  BY DEF OrderIsLast, IsolationFollowsLastOrder
<1> QED
  BY <1>1, <1>2, <1>3, PTL DEF Spec

-----------------------------------------------------------------------------
\* What a request has to do after one of its statements: the rest, the rest without a
\* loop over no grants, the same (the loop goes on), nothing, or what the engine adds.
LEMMA StatementTodo ==
  ASSUME Shapes, NEW r \in Slots, Statement(r), ~rotateMeshIdentity(r)
  PROVE  /\ \A s \in Slots \ {r} : req'[s] = req[s]
         /\ \/ req'[r].todo \in {<<>>, Rest(r)}
            \/ req'[r].todo = Tail(Rest(r)) /\ At(r, "list")
            \/ req'[r].todo = req[r].todo /\ At(r, "terminate")
            \/ At(r, "open") /\ \E n : req'[r].todo = evaluate(n) \o Rest(r)
<1>0. DOMAIN req[r] = Fields /\ Done.todo = <<>>
  BY Zenon DEF Shapes, Local, Done
<1>1. ASSUME NEW l, Continue(r, l)
      PROVE  (\A s \in Slots \ {r} : req'[s] = req[s]) /\ req'[r].todo \in {<<>>, l.todo}
  BY <1>0, <1>1, ContinueMoves, Zenon
<1>2. ASSUME NEW todo, Goto(r, todo)
      PROVE  (\A s \in Slots \ {r} : req'[s] = req[s]) /\ req'[r].todo \in {<<>>, todo}
  <2> DEFINE l == [req[r] EXCEPT !.todo = todo, !.device = Done.device, !.grant = NoGrant, !.score = 0]
  <2>1. l.todo = todo /\ Continue(r, l)
    BY <1>0, <1>2, Zenon DEF Goto, Fields
  <2> HIDE DEF l
  <2> QED
    BY <1>1, <2>1, Zenon
<1>3. CASE \/ SavePosture(r) \/ SaveCompromised(r) \/ SaveRestored(r) \/ SaveApproved(r) \/ SaveTerminated(r)
           \/ Record(r) \/ ClearWindow(r) \/ CloseIncidents(r) \/ isolateNode(r) \/ restoreNode(r)
           \/ revokeNodeCertificates(r) \/ EnqueueRotation(r)
  <2>1. Goto(r, Rest(r))
    BY <1>3, Zenon DEF SavePosture, SaveCompromised, SaveRestored, SaveApproved, SaveTerminated, Record, ClearWindow,
                CloseIncidents, isolateNode, restoreNode, revokeNodeCertificates, EnqueueRotation, Enqueue
  <2> QED
    BY <1>2, <2>1, Zenon
<1>4. CASE ReadDevice(r)
  <2> DEFINE l == [req[r] EXCEPT !.todo = Rest(r), !.device = device]
  <2>1. l.todo = Rest(r) /\ Continue(r, l)
    BY <1>0, <1>4, Zenon DEF ReadDevice, Fields
  <2> HIDE DEF l
  <2> QED
    BY <1>1, <2>1, Zenon
<1>9. CASE Window(r)
  <2> DEFINE l == [req[r] EXCEPT !.todo = Rest(r), !.score = score(window'[req[r].key])]
  <2>1. l.todo = Rest(r) /\ Continue(r, l)
    BY <1>0, <1>9, Zenon DEF Window, Fields
  <2> HIDE DEF l
  <2> QED
    BY <1>1, <2>1, Zenon
<1>5. CASE ReadGrant(r)
  <2>1. CASE grants[req[r].id].exists
    <3> DEFINE l == [req[r] EXCEPT !.todo = Rest(r), !.grant = grants[req[r].id]]
    <3>1. l.todo = Rest(r) /\ Continue(r, l)
      BY <1>0, <1>5, <2>1, Zenon DEF ReadGrant, Fields
    <3> HIDE DEF l
    <3> QED
      BY <1>1, <3>1, Zenon
  <2>2. CASE ~grants[req[r].id].exists
    BY <1>2, <1>5, <2>2, Zenon DEF ReadGrant, End
  <2> QED
    BY <2>1, <2>2, Zenon
<1>6. CASE ListGrants(r)
  <2> DEFINE l == [req[r] EXCEPT !.todo = IF Listed(r) = {} THEN Tail(Rest(r)) ELSE Rest(r),
                                 !.list = {<<g, grants[g]>> : g \in Listed(r)}]
  <2>1. l.todo \in {Rest(r), Tail(Rest(r))} /\ Continue(r, l)
    <3>1. Continue(r, l)
      BY <1>6, Zenon DEF ListGrants
    <3>2. l.todo = IF Listed(r) = {} THEN Tail(Rest(r)) ELSE Rest(r)
      BY <1>0, Zenon DEF Fields
    <3> HIDE DEF l
    <3> QED
      BY <3>1, <3>2, Zenon
  <2> HIDE DEF l
  <2>2. req'[r].todo \in {<<>>, Rest(r), Tail(Rest(r))}
    BY <1>1, <2>1, Zenon
  <2> QED
    BY <1>1, <1>6, <2>1, <2>2, Zenon DEF ListGrants
<1>7. CASE TerminateListed(r)
  <2>0. PICK p \in req[r].list :
          Continue(r, [req[r] EXCEPT !.todo = IF req[r].list = {p} THEN Rest(r) ELSE @, !.list = @ \ {p}])
    BY <1>7, Zenon DEF TerminateListed
  <2> DEFINE l == [req[r] EXCEPT !.todo = IF req[r].list = {p} THEN Rest(r) ELSE @, !.list = @ \ {p}]
  <2>1. l.todo \in {Rest(r), req[r].todo} /\ Continue(r, l)
    <3>1. l.todo = IF req[r].list = {p} THEN Rest(r) ELSE req[r].todo
      BY <1>0, Zenon DEF Fields
    <3> HIDE DEF l
    <3> QED
      BY <2>0, <3>1, Zenon DEF l
  <2> HIDE DEF l
  <2>2. req'[r].todo \in {<<>>, Rest(r), req[r].todo}
    BY <1>1, <2>1, Zenon
  <2> QED
    BY <1>1, <1>7, <2>1, <2>2, Zenon DEF TerminateListed
<1>8. CASE OpenIncident(r)
  <2>1. At(r, "open") /\ Goto(r, evaluate(req[r].score) \o Rest(r))
    BY <1>8, Zenon DEF OpenIncident
  <2> QED
    BY <1>2, <2>1, Zenon
<1> QED
  BY <1>3, <1>4, <1>5, <1>6, <1>7, <1>8, <1>9, Zenon DEF Statement

\* A request is about to insert a rotation only after the check for a pending one.
LEMMA RotationAfterCheck ==
  ASSUME Shapes, [Next]_vars, NEW s \in Slots, At(s, "rotate")'
  PROVE  (At(s, "rotate") /\ req'[s] = req[s]) \/ rotateMeshIdentity(s)
<1>0. \A r \in Slots : req[r].todo \in Seq(Steps) /\ InOrder(req[r].todo)
  BY Zenon DEF Shapes, Local
<1>1. ASSUME NEW r \in Slots, NEW todo, NEW l, Begin(r, todo, l), DOMAIN l = Fields, Head(todo) # "rotate"
      PROVE  s # r /\ req'[s] = req[s]
  BY <1>1, Zenon DEF Begin, At, Shapes, Fields
<1>2. ASSUME NEW r \in Operators,
             \/ PostQuarantine(r) \/ PostRestore(r) \/ PostLockdown(r) \/ PostSignal(r)
             \/ PostDismiss(r) \/ PostApprove(r) \/ PostTerminate(r)
      PROVE  req'[s] = req[s]
  <2>1. r \in Slots
    BY Zenon DEF Slots
  <2>2. /\ \A k : DOMAIN [Done EXCEPT !.key = k] = Fields
        /\ \A k, w : DOMAIN [Done EXCEPT !.key = k, !.weight = w] = Fields
        /\ DOMAIN [Done EXCEPT !.all = TRUE] = Fields
        /\ \A g : DOMAIN [Done EXCEPT !.id = g] = Fields
    BY Zenon DEF Done, Fields
  <2>3. CASE PostQuarantine(r) \/ PostRestore(r)
    <3>1. PICK k \in Keys : \E todo \in {handle(k), restore(k)} : Begin(r, todo, [Done EXCEPT !.key = k])
      BY <2>3, Zenon DEF PostQuarantine, PostRestore, Request
    <3>2. PICK todo \in {handle(k), restore(k)} : Begin(r, todo, [Done EXCEPT !.key = k])
      BY <3>1, Zenon
    <3>3. todo # <<>>
      BY <3>2, Zenon DEF Begin
    <3>4. Head(todo) # "rotate"
      BY <3>3 DEF handle, restore
    <3> QED
      BY <1>1, <2>1, <2>2, <3>2, <3>4, Zenon
  <2>4. CASE PostLockdown(r)
    <3>1. Head(emergencyLockdown) # "rotate"
      BY DEF emergencyLockdown
    <3>2. Begin(r, emergencyLockdown, [Done EXCEPT !.all = TRUE])
      BY <2>4, Zenon DEF PostLockdown, Request
    <3> QED
      BY <1>1, <2>1, <2>2, <3>1, <3>2, Zenon
  <2>5. CASE PostSignal(r)
    <3>1. Head(ingest) # "rotate"
      BY DEF ingest
    <3>2. PICK k \in Keys, w \in Weights : Begin(r, ingest, [Done EXCEPT !.key = k, !.weight = w])
      BY <2>5, Zenon DEF PostSignal, Request
    <3> QED
      BY <1>1, <2>1, <2>2, <3>1, <3>2, Zenon
  <2>6. CASE PostDismiss(r)
    <3>1. Head(dismiss) # "rotate"
      BY DEF dismiss
    <3>2. PICK k \in Keys : Begin(r, dismiss, [Done EXCEPT !.key = k])
      BY <2>6, Zenon DEF PostDismiss, Request
    <3> QED
      BY <1>1, <2>1, <2>2, <3>1, <3>2, Zenon
  <2>7. CASE PostApprove(r) \/ PostTerminate(r)
    <3>1. Head(approve) # "rotate" /\ Head(terminate) # "rotate"
      BY DEF approve, terminate
    <3>2. PICK g \in Grants, todo \in {approve, terminate} : Begin(r, todo, [Done EXCEPT !.id = g])
      BY <2>7, Zenon DEF PostApprove, PostTerminate, Request
    <3>3. Head(todo) # "rotate"
      BY <3>1, Zenon
    <3> QED
      BY <1>1, <2>1, <2>2, <3>2, <3>3, Zenon
  <2> QED
    BY <1>2, <2>3, <2>4, <2>5, <2>6, <2>7, Zenon
<1>3. CASE PostHeartbeat
  <2>1. PICK good \in BOOLEAN :
          Begin("agent", accept(good), [Done EXCEPT !.good = good, !.weight = PostureWeight])
    BY <1>3, Zenon DEF PostHeartbeat
  <2>2. Head(accept(good)) = "device" /\ "agent" \in Slots
    <3>1. ingest \in Seq(Steps) /\ <<>> \in Seq(Steps) /\ <<"pending">> \in Seq(Steps)
      BY DEF ingest, Steps
    <3>2. <<"device", "posture">> \in Seq(Steps)
      BY DEF Steps
    <3> DEFINE mid == IF good THEN <<>> ELSE ingest
    <3>3. mid \in Seq(Steps)
      BY <3>1, Zenon
    <3> HIDE DEF mid
    <3>4. (<<"device", "posture">> \o mid)[1] = "device" /\ <<"device", "posture">> \o mid \in Seq(Steps)
          /\ Len(<<"device", "posture">> \o mid) >= 2
      BY <3>2, <3>3, ConcatProperties
    <3>5. Head((<<"device", "posture">> \o mid) \o <<"pending">>) = "device"
      BY <3>1, <3>4, ConcatProperties
    <3> QED
      BY <3>5, Zenon DEF accept, mid, Slots
  <2>3. DOMAIN [Done EXCEPT !.good = good, !.weight = PostureWeight] = Fields
    BY Zenon DEF Done, Fields
  <2> QED
    BY <1>1, <2>1, <2>2, <2>3, Zenon DEF At
<1>4. ASSUME NEW r \in Slots, Statement(r), ~rotateMeshIdentity(r)
      PROVE  At(s, "rotate") /\ req'[s] = req[s]
  <2>1. r # s => req'[s] = req[s]
    BY <1>4, StatementTodo, Zenon
  <2>2. ASSUME r = s PROVE FALSE
    <3>1. req[s].todo # <<>>
      BY <1>4, <2>2, Zenon DEF Statement, At, ReadDevice, SavePosture, SaveCompromised, SaveRestored, ListGrants,
              TerminateListed, ReadGrant, SaveApproved, SaveTerminated, Record, Window, OpenIncident,
              ClearWindow, CloseIncidents, isolateNode, restoreNode, revokeNodeCertificates, EnqueueRotation
    <3>2. Rest(s) # <<>> => Head(Rest(s)) # "rotate"
      BY <1>0, <3>1, HeadIsAfter, Zenon DEF Rest
    <3>3. Rest(s) \in Seq(Steps) /\ InOrder(Rest(s))
      BY <1>0, <3>1, TailInOrder, Zenon DEF Rest
    <3>4. At(s, "list") => Rest(s) # <<>>
      BY <1>0, ListIsFollowed, Zenon DEF At, Rest
    <3>5. At(s, "list") /\ Tail(Rest(s)) # <<>> => Head(Tail(Rest(s))) # "rotate"
      BY <3>3, <3>4, HeadIsAfter, Zenon
    <3>6. ASSUME NEW n PROVE LET t == evaluate(n) \o Rest(s) IN t # <<>> => Head(t) # "rotate"
      <4>1. evaluate(n) \in Seq(Steps)
        BY HandlersInOrder, Zenon
      <4>2. CASE evaluate(n) = <<>>
        BY <3>2, <3>3, <4>2, ConcatEmptySeq, Zenon
      <4>3. CASE evaluate(n) # <<>>
        <5>1. Head(evaluate(n)) = "list"
          BY <4>3 DEF evaluate
        <5>2. 1 \in 1..Len(evaluate(n)) /\ evaluate(n)[1] = "list"
          BY <4>1, <4>3, <5>1, EmptySeq
        <5>3. (evaluate(n) \o Rest(s))[1] = "list"
          BY <3>3, <4>1, <5>2, ConcatProperties
        <5> QED
          BY <5>3
      <4> QED
        BY <4>2, <4>3, Zenon
    <3> QED
      BY <1>4, <2>2, <3>2, <3>5, <3>6, StatementTodo, Zenon DEF At
  <2> QED
    BY <2>1, <2>2, Zenon DEF At
<1>5. ASSUME NEW r \in Slots, rotateMeshIdentity(r), r # s PROVE req'[s] = req[s]
  BY <1>5, ContinueMoves, Zenon DEF rotateMeshIdentity, Goto
<1>6. ASSUME NEW r \in Slots, Fail(r) PROVE req'[s] = req[s]
  <2>1. (r # s => req'[s] = req[s]) /\ req'[r] = Done
    <3>1. \A t \in Slots \ {r} : req'[t] = req[t]
      BY <1>6, ContinueMoves, Zenon DEF Fail, End, Goto
    <3>2. UNCHANGED <<device, grants, window, queue, batch>> /\ End(r)
      BY <1>6, Zenon DEF Fail, Fault
    <3> QED
      BY <3>1, <3>2, RowsStay, EndShapes, Zenon
  <2>2. Done.todo = <<>>
    BY Zenon DEF Done
  <2> QED
    BY <2>1, <2>2, Zenon DEF At
<1>7. CASE Pending
  <2>1. "agent" \in Slots /\ req["agent"].todo # <<>> /\ Goto("agent", Rest("agent"))
    BY <1>7, Zenon DEF Pending, At, Slots
  <2>2. /\ Rest("agent") \in Seq(Steps) /\ InOrder(Rest("agent"))
        /\ Rest("agent") # <<>> => Head(Rest("agent")) # "rotate"
        /\ NeedsGrant(Rest("agent")) => req["agent"].id \in Grants
    BY <1>0, <2>1, TailInOrder, HeadIsAfter, Zenon DEF Rest, Shapes, Local
  <2>3. req'["agent"].todo = Rest("agent") /\ \A t \in Slots \ {"agent"} : req'[t] = req[t]
    BY <2>1, <2>2, GotoMoves, Zenon
  <2> QED
    BY <2>2, <2>3, Zenon DEF At
<1>8. CASE UNCHANGED req
  BY <1>8, Zenon DEF At
<1>9. PostJit \/ Execute \/ ExecuteSwallowed \/ ExecuteUnanswered \/ Expire \/ UNCHANGED vars => UNCHANGED req
  BY Zenon DEF PostJit, Execute, ExecuteSwallowed, ExecuteUnanswered, Expire, vars
<1> QED
  BY <1>2, <1>3, <1>4, <1>5, <1>6, <1>7, <1>8, <1>9, Zenon DEF Next, At

\* Unless two evaluations made their check before either inserted its command, at most
\* one request is about to insert a rotation, and then none is pending.
OneRotation ==
  ~raced =>
    /\ \A r, s \in Slots : At(r, "rotate") /\ At(s, "rotate") => r = s
    /\ (\E r \in Slots : At(r, "rotate")) => \A i \in 1..Len(queue) : queue[i] # "ROTATE"
    /\ \A i, j \in 1..Len(queue) : queue[i] = "ROTATE" /\ queue[j] = "ROTATE" => i = j

\* A rotation is queued only by a request that found none, and two are queued only when
\* two requests looked before either inserted.
LEMMA NextOneRotation == Shapes /\ OneRotation /\ [Next]_vars => OneRotation'
<1> SUFFICES ASSUME Shapes, OneRotation, [Next]_vars PROVE OneRotation'
  BY Zenon
<1>0. queue \in Seq(Commands) /\ batch \in Seq(Commands) /\ Starts(batch, queue) /\ Len(queue) \in Nat
  BY DEF Shapes, Rows
<1>1. \A s \in Slots : At(s, "rotate")' => (At(s, "rotate") /\ req'[s] = req[s]) \/ rotateMeshIdentity(s)
  BY RotationAfterCheck, Zenon
<1>2. ASSUME NEW r \in Slots, rotateMeshIdentity(r) PROVE OneRotation'
  <2>1. UNCHANGED queue /\ (~raced' => ~raced /\ \A s \in Slots : ~At(s, "rotate"))
    BY <1>2, Zenon DEF rotateMeshIdentity, node
  <2>2. At(r, "hasPending")
    BY <1>2, Zenon DEF rotateMeshIdentity
  <2>3. ASSUME NEW s \in Slots, At(s, "rotate")', ~raced' PROVE s = r
    <3>1. \A q \in Slots \ {r} : req'[q] = req[q]
      BY <1>2, ContinueMoves, Zenon DEF rotateMeshIdentity, Goto
    <3> QED
      BY <2>1, <2>3, <3>1, Zenon DEF At
  <2>4. ASSUME At(r, "rotate")' PROVE \A i \in 1..Len(queue) : queue[i] # "ROTATE"
    <3>1. CASE "ROTATE" \in Range(queue)
      <4>1. Goto(r, <<>> \o Rest(r))
        BY <1>2, <3>1, Zenon DEF rotateMeshIdentity
      <4>2. req[r].todo \in Seq(Steps) /\ InOrder(req[r].todo) /\ req[r].todo # <<>>
        BY <2>2, Zenon DEF Shapes, Local, At
      <4>3. <<>> \o Rest(r) = Rest(r)
        BY <4>2, TailInOrder, ConcatEmptySeq, Zenon DEF Rest
      <4>4. <<>> \in Seq(Steps) /\ InOrder(<<>>) /\ ~NeedsGrant(<<>>)
        BY HandlersInOrder, Zenon
      <4>5. req'[r].todo = Rest(r)
        BY <1>2, <2>2, <4>1, <4>3, <4>4, AddedShapes, Zenon DEF At, rotateMeshIdentity, rows, node
      <4>6. Rest(r) # <<>> => Head(Rest(r)) # "rotate"
        BY <4>2, HeadIsAfter, Zenon DEF Rest
      <4> QED
        BY <2>4, <4>5, <4>6, Zenon DEF At
    <3>2. CASE ~"ROTATE" \in Range(queue)
      BY <3>2 DEF Range
    <3> QED
      BY <3>1, <3>2, Zenon
  <2> QED
    BY <2>1, <2>3, <2>4, Zenon DEF OneRotation
<1>3. ASSUME \A r \in Slots : ~rotateMeshIdentity(r) PROVE OneRotation'
  <2>1. UNCHANGED raced
    BY <1>3, Frames, Zenon
  <2>2. \A s \in Slots : At(s, "rotate")' => At(s, "rotate") /\ req'[s] = req[s]
    BY <1>1, <1>3, Zenon
  <2>3. CASE UNCHANGED queue
    BY <2>1, <2>2, <2>3, Zenon DEF OneRotation
  <2>4. CASE queue # <<>> /\ queue' = Tail(queue)
    <3>1. Len(queue') = Len(queue) - 1 /\ \A i \in 1..Len(queue') : queue'[i] = queue[i + 1]
      BY <1>0, <2>4, HeadTailProperties, Zenon
    <3>2. \A i \in 1..Len(queue') : i + 1 \in 1..Len(queue)
      BY <1>0, <3>1
    <3> SUFFICES ASSUME ~raced
                 PROVE  /\ \A r, s \in Slots : At(r, "rotate")' /\ At(s, "rotate")' => r = s
                        /\ (\E r \in Slots : At(r, "rotate")') => \A i \in 1..Len(queue') : queue'[i] # "ROTATE"
                        /\ \A i, j \in 1..Len(queue') : queue'[i] = "ROTATE" /\ queue'[j] = "ROTATE" => i = j
      BY <2>1, Zenon DEF OneRotation
    <3>3. \A r, s \in Slots : At(r, "rotate")' /\ At(s, "rotate")' => r = s
      BY <2>2, Zenon DEF OneRotation
    <3>4. (\E r \in Slots : At(r, "rotate")') => \A i \in 1..Len(queue') : queue'[i] # "ROTATE"
      BY <2>2, <3>1, <3>2, Zenon DEF OneRotation
    <3>5. ASSUME NEW i \in 1..Len(queue'), NEW j \in 1..Len(queue'), queue'[i] = "ROTATE", queue'[j] = "ROTATE"
          PROVE  i = j
      <4>1. i + 1 = j + 1
        BY <3>1, <3>2, <3>5, Zenon DEF OneRotation
      <4> QED
        BY <4>1
    <3> QED
      BY <3>3, <3>4, <3>5, Zenon
  <2>5. ASSUME NEW r \in Slots, isolateNode(r) \/ restoreNode(r) \/ EnqueueRotation(r) PROVE OneRotation'
    <3>1. PICK c \in Commands : Enqueue(r, c) /\ (c = "ROTATE" => EnqueueRotation(r))
      BY <2>5, Zenon DEF isolateNode, restoreNode, EnqueueRotation, Commands
    <3>2. CASE req[r].key # "node"
      BY <2>3, <3>1, <3>2, Zenon DEF Enqueue
    <3>3. CASE req[r].key = "node"
      <4>1. queue' = Append(queue, c)
        BY <3>1, <3>3, Zenon DEF Enqueue
      <4>2. /\ Len(queue') = Len(queue) + 1 /\ queue'[Len(queue) + 1] = c
            /\ \A i \in 1..Len(queue) : queue'[i] = queue[i]
        BY <1>0, <4>1, AppendProperties
      <4>3. CASE c # "ROTATE"
        <5>1. \A i \in 1..Len(queue') : queue'[i] = "ROTATE" => i \in 1..Len(queue) /\ queue[i] = "ROTATE"
          BY <1>0, <4>2, <4>3
        <5> QED
          BY <2>1, <2>2, <5>1, Zenon DEF OneRotation
      <4>4. CASE c = "ROTATE"
        <5>1. At(r, "rotate") /\ Goto(r, Rest(r))
          BY <3>1, <4>4, Zenon DEF EnqueueRotation, Enqueue
        <5>2. req[r].todo \in Seq(Steps) /\ InOrder(req[r].todo) /\ req[r].todo # <<>> /\ Local(req[r])
          BY <5>1, Zenon DEF Shapes, Local, At
        <5>3. /\ Rest(r) \in Seq(Steps) /\ InOrder(Rest(r))
              /\ NeedsGrant(Rest(r)) => req[r].id \in Grants
              /\ Rest(r) # <<>> => Head(Rest(r)) # "rotate"
          BY <5>2, TailInOrder, HeadIsAfter, Zenon DEF Rest, Local
        <5>4. req'[r].todo = Rest(r)
          BY <5>1, <5>3, GotoMoves, Zenon
        <5>5. ~At(r, "rotate")'
          BY <5>3, <5>4, Zenon DEF At
        <5>6. ~raced => \A s \in Slots : ~At(s, "rotate")'
          BY <2>2, <5>1, <5>5, Zenon DEF OneRotation
        <5>7. ~raced => \A i \in 1..Len(queue') : queue'[i] = "ROTATE" => i = Len(queue) + 1
          BY <1>0, <4>2, <5>1 DEF OneRotation
        <5> QED
          BY <2>1, <5>6, <5>7, Zenon DEF OneRotation
      <4> QED
        BY <4>3, <4>4, Zenon
    <3> QED
      BY <3>2, <3>3, Zenon
  <2>6. CASE Pending \/ ExecuteUnanswered
    BY <2>3, <2>6, Zenon DEF Pending, ExecuteUnanswered
  <2>7. CASE Execute \/ ExecuteSwallowed \/ Expire
    <3>1. batch # <<>> => queue # <<>> /\ WithoutFirst(queue, Head(batch)) = Tail(queue)
      BY <1>0, AcknowledgeOldest, Zenon
    <3>2. UNCHANGED queue \/ (queue # <<>> /\ queue' = Tail(queue))
      BY <2>7, <3>1, Zenon DEF Execute, ExecuteSwallowed, Expire
    <3> QED
      BY <2>3, <2>4, <3>2, Zenon
  <2> QED
    BY <2>3, <2>5, <2>6, <2>7, Frames, Zenon
<1> QED
  BY <1>2, <1>3, Zenon

\* However often the engine evaluates a node, a second rotation of its identity is
\* pending only if two evaluations overlapped between check and insertion.
THEOREM RotationsStaySingle == Spec => []RotationsDoNotPileUp
<1>1. Init => Shapes /\ OneRotation
  <2>1. Init => \A r \in Slots : ~At(r, "rotate")
    BY DEF Init, At, Done
  <2>2. Init => queue = <<>> /\ Len(queue) = 0
    BY Zenon DEF Init
  <2> QED
    BY InitShapes, <2>1, <2>2 DEF OneRotation
<1>2. Shapes /\ OneRotation /\ [Next]_vars => (Shapes /\ OneRotation)'
  BY NextShapes, NextOneRotation, Zenon
<1>3. Shapes /\ OneRotation => RotationsDoNotPileUp
  <2>1. Shapes => DOMAIN queue = 1..Len(queue)
    BY DEF Shapes, Rows
  <2> QED
    BY <2>1, Zenon DEF OneRotation, RotationsDoNotPileUp
<1> QED
  BY <1>1, <1>2, <1>3, PTL DEF Spec

-----------------------------------------------------------------------------
\* The windows are bounded and the order is an isolation command.
Bounded == (\A k \in Keys : Len(window[k]) <= MaxSignals) /\ order \in {"QUARANTINE", "RESTORE"}

\* The windows keep the latest signals only, and the last order is one of the two.
LEMMA NextBounded == Shapes /\ Bounded /\ [Next]_vars => Bounded'
<1> SUFFICES ASSUME Shapes, Bounded, [Next]_vars PROVE Bounded'
  BY Zenon
<1>0. window \in [Keys -> Seq(Nat)] /\ MaxSignals \in Nat
  BY ContainmentAssumption, Zenon DEF Shapes, Rows
<1>1. order' \in {"QUARANTINE", "RESTORE"}
  <2>1. ASSUME NEW r \in Slots, isolateNode(r) \/ restoreNode(r) \/ EnqueueRotation(r)
        PROVE  order' \in {"QUARANTINE", "RESTORE"}
    BY <2>1, Zenon DEF isolateNode, restoreNode, EnqueueRotation, Enqueue, Bounded
  <2>2. ASSUME Pending \/ Execute \/ ExecuteSwallowed \/ ExecuteUnanswered \/ Expire PROVE order' = order
    <3>1. CASE Pending \/ Execute
      BY <3>1, Zenon DEF Pending, Execute, history
    <3>2. CASE ExecuteSwallowed \/ ExecuteUnanswered \/ Expire
      BY <3>2, Zenon DEF ExecuteSwallowed, ExecuteUnanswered, Expire, Fault
    <3> QED
      BY <2>2, <3>1, <3>2, Zenon
  <2> QED
    BY <2>1, <2>2, Frames, Zenon DEF Bounded
<1>2. ASSUME NEW r \in Slots, Record(r) \/ Window(r) \/ ClearWindow(r), NEW k \in Keys
      PROVE  Len(window'[k]) <= MaxSignals
  <2>1. req[r].key \in Keys /\ req[r].weight \in Nat /\ window[k] \in Seq(Nat) /\ Len(window[k]) \in Nat
    <3>1. Local(req[r])
      BY Zenon DEF Shapes
    <3>2. req[r].key \in Keys /\ req[r].weight \in Nat
      BY <3>1, Zenon DEF Local
    <3>3. window[k] \in Seq(Nat)
      BY <1>0, Zenon
    <3> QED
      BY <3>2, <3>3, LenProperties, Zenon
  <2>2. CASE Record(r)
    <3>1. window' = [window EXCEPT ![req[r].key] = Latest(Append(@, req[r].weight))]
      BY <2>2, Zenon DEF Record
    <3>2. Append(window[k], req[r].weight) \in Seq(Nat)
      BY <2>1, AppendProperties, Zenon
    <3>3. window'[k] = IF k = req[r].key THEN Latest(Append(window[k], req[r].weight)) ELSE window[k]
      BY <1>0, <2>1, <3>1, Zenon
    <3> QED
      BY <3>2, <3>3, LatestIsSeq, Zenon DEF Bounded
  <2>3. CASE ClearWindow(r)
    <3>1. window'[k] = IF k = req[r].key THEN <<>> ELSE window[k]
      BY <1>0, <2>1, <2>3, Zenon DEF ClearWindow
    <3> QED
      BY <1>0, <3>1, EmptySeq DEF Bounded
  <2>4. CASE Window(r)
    <3>1. PICK n \in 0..Len(window[req[r].key]) :
            window' = [window EXCEPT ![req[r].key] = SubSeq(@, n + 1, Len(@))]
      BY <2>4, Zenon DEF Window
    <3>2. window'[k] = IF k = req[r].key THEN SubSeq(window[k], n + 1, Len(window[k])) ELSE window[k]
      BY <1>0, <2>1, <3>1, Zenon
    <3>3. k = req[r].key => Len(SubSeq(window[k], n + 1, Len(window[k]))) <= Len(window[k])
      BY <2>1, <3>1, SubSeqProperties
    <3>4. Len(window[k]) <= MaxSignals
      BY Zenon DEF Bounded
    <3>5. k = req[r].key => Len(SubSeq(window[k], n + 1, Len(window[k]))) \in Nat
      BY <2>1, <3>1, SubSeqProperties
    <3> QED
      BY <1>0, <2>1, <3>2, <3>3, <3>4, <3>5
  <2> QED
    BY <1>2, <2>2, <2>3, <2>4, Zenon
<1>3. \A k \in Keys : Len(window'[k]) <= MaxSignals
  BY <1>2, Frames, Zenon DEF Bounded
<1> QED
  BY <1>1, <1>3, Zenon DEF Bounded

\* The rows and requests are of their kind: only grants that exist are approved or
\* terminated, and a request lists grants only while it terminates them.
THEOREM ContainmentTypes == Spec => []TypeOK
<1>1. Init => Shapes /\ Ended /\ Bounded
  <2>1. Init => Ended
    BY DEF Init, Ended, EndedGrantsStayEnded, NoGrant
  <2>2. Init => Bounded
    BY ContainmentAssumption DEF Init, Bounded
  <2> QED
    BY <2>1, <2>2, InitShapes, Zenon
<1>2. Shapes /\ Ended /\ Bounded /\ [Next]_vars => (Shapes /\ Ended /\ Bounded)'
  BY NextShapes, NextEnded, NextBounded, Zenon
<1>3. Shapes /\ Ended /\ Bounded => TypeOK
  <2> SUFFICES ASSUME Shapes, Ended, Bounded PROVE TypeOK
    BY Zenon
  <2>1. \A r \in Slots : req[r].list # {} => At(r, "terminate")
    BY Zenon DEF Shapes, HoldsGrants, At
  <2>2. \A i \in DOMAIN queue : queue[i] \in Commands
    BY DEF Shapes, Rows
  <2> QED
    BY <2>1, <2>2, Zenon DEF Ended, Bounded, TypeOK, Commands
<1> QED
  BY <1>1, <1>2, <1>3, PTL DEF Spec
=============================================================================
