--------------------------- MODULE RequestProofs ----------------------------
(***************************************************************************)
(* Proofs about what answers requests: the gateway's pipeline, the         *)
(* resolver and the SOCKS5 egress proxy.  Each is proved for any number of *)
(* requests, queries and clients, with an inductive invariant of its own;  *)
(* the argument is stated at the head of its part.                         *)
(***************************************************************************)
EXTENDS Gateway, SecureDns, EgressProxy, FiniteSetTheorems, TLAPS

-----------------------------------------------------------------------------
(***************************************************************************)
(* The request pipeline of the gateway.                                    *)
(*                                                                         *)
(* A nonce is admitted once because its row outlives every claim that      *)
(* could repeat it (NonceIsKept); a mutation runs once per key because, as *)
(* long as the key is not excused, the handler that ran has its answer     *)
(* stored or is about to store it, and a request past its look-up has      *)
(* another beside it that is (RunIsKept); an answer fits its body because  *)
(* it is stored with the body it was computed from (AnswerIsOfBody).       *)
(***************************************************************************)

SlotFields == {"step", "q", "answer"}

GatewayShapes ==
  /\ clock \in Nat
  /\ DOMAIN slot = Requests
  /\ \A r \in Requests : /\ DOMAIN slot[r] = SlotFields
                         /\ slot[r].q.nonce \in Nonces \cup {Absent} /\ slot[r].q.key \in Keys \cup {Absent}
  /\ \A row \in nonceRows \cup keyRows : row.until \in Nat
  /\ claims \in [Nonces -> Seq(Nat)]
  /\ ran \in [Keys -> 0..2]

\* A nonce has a row as long as its last claim is younger than its life.
NonceIsKept ==
  \A n \in Nonces : \A i \in 1..Len(claims[n]) :
    /\ claims[n][i] <= clock
    /\ \/ claims[n][i] + NonceLife <= clock
       \/ \E row \in nonceRows : row.nonce = n /\ row.until >= claims[n][i] + NonceLife

\* A handler that ran for a key has its answer stored, or is about to store it; and a
\* request past its look-up then has another beside it that is.
KeptRun(k) ==
  /\ ran[k] <= 1
  /\ ran[k] # 0 => \/ \E row \in keyRows : row.key = k /\ row.until > clock
                   \/ \E r \in Requests : slot[r].step = "put" /\ slot[r].q.key = k
  /\ ran[k] # 0 => \A r \in Requests : slot[r].step = "compute" /\ slot[r].q.key = k =>
                     \E o \in Requests : slot[o].step = "put" /\ slot[o].q.key = k

RunIsKept == \A k \in Keys \ excused : KeptRun(k)

\* An answer that is stored, or is about to be, was computed from the body it is stored with.
AnswerIsOfBody ==
  /\ \A row \in keyRows : row.response.body = row.body
  /\ \A r \in Requests : slot[r].step = "put" => slot[r].answer.body = slot[r].q.body
  /\ AnswersAreForTheBody

GatewayInvariant == GatewayShapes /\ NonceIsKept /\ NonceAdmitsOnce /\ RunIsKept /\ AnswerIsOfBody

\* A gateway that has served no request.
LEMMA GatewayStarts == GatewayInit => GatewayInvariant
<1> SUFFICES ASSUME GatewayInit PROVE GatewayInvariant
  BY Zenon
<1>1. DOMAIN Free = SlotFields /\ Free.step = "done" /\ Free.q = NoQuery /\ Free.answer.status = 0
  BY Zenon DEF Free, SlotFields, NoResponse, Response
<1>2. NoQuery.nonce = Absent /\ NoQuery.key = Absent
  BY Zenon DEF NoQuery
<1>3. DOMAIN slot = Requests /\ \A r \in Requests : slot[r] = Free
  BY Zenon DEF GatewayInit
<1>4. clock = 1 /\ nonceRows = {} /\ keyRows = {} /\ claims \in [Nonces -> Seq(Nat)]
  BY DEF GatewayInit
<1>5. ran \in [Keys -> 0..2] /\ \A k \in Keys : ran[k] = 0
  BY DEF GatewayInit
<1>6. \A n \in Nonces : claims[n] = <<>>
  BY Zenon DEF GatewayInit
<1>7. GatewayShapes
  BY <1>1, <1>2, <1>3, <1>4, <1>5, Zenon DEF GatewayShapes
<1>8. NonceIsKept /\ NonceAdmitsOnce
  BY <1>6 DEF NonceIsKept, NonceAdmitsOnce
<1>9. RunIsKept
  BY <1>5 DEF RunIsKept, KeptRun
<1>10. AnswerIsOfBody
  BY <1>1, <1>3, <1>4 DEF AnswerIsOfBody, AnswersAreForTheBody
<1> QED
  BY <1>7, <1>8, <1>9, <1>10, Zenon DEF GatewayInvariant

\* A step of one request: what it leaves of the slots.
Moved(r, step, q, answer) ==
  /\ DOMAIN slot' = Requests
  /\ \A o \in Requests \ {r} : slot'[o] = slot[o]
  /\ DOMAIN slot'[r] = SlotFields
  /\ slot'[r].step = step /\ slot'[r].q = q /\ slot'[r].answer = answer

\* A request that goes on to another step of the pipeline keeps what it carries.
LEMMA GotoMoved ==
  ASSUME GatewayShapes, NEW r \in Requests, NEW s, Goto(r, s)
  PROVE  Moved(r, s, slot[r].q, slot[r].answer)
BY Zenon DEF GatewayShapes, Goto, Moved, SlotFields

\* A request that is answered is over, with the answer given to it.
LEMMA RespondMoved ==
  ASSUME GatewayShapes, NEW r \in Requests, NEW response, respond(r, response)
  PROVE  Moved(r, "done", slot[r].q, response)
BY Zenon DEF GatewayShapes, respond, Moved, SlotFields

\* A request that is refused is over, and its slot carries nothing of it.
LEMMA RefuseMoved ==
  ASSUME GatewayShapes, NEW r \in Requests, NEW status, Refuse(r, status)
  PROVE  \E answer : Moved(r, "done", NoQuery, answer) /\ answer.status = status
<1> DEFINE free == [Free EXCEPT !.answer.status = status]
<1>1. DOMAIN free = SlotFields /\ free.step = "done" /\ free.q = NoQuery /\ free.answer.status = status
  BY Zenon DEF Free, SlotFields, NoResponse, Response
<1>2. slot' = [slot EXCEPT ![r] = free]
  BY Zenon DEF Refuse
<1> HIDE DEF free
<1>3. Moved(r, "done", NoQuery, free.answer)
  BY <1>1, <1>2, Zenon DEF Moved, GatewayShapes
<1> QED
  BY <1>1, <1>3, Zenon

\* A refused request leaves no trace: it is over, without an answer of the handler.
LEMMA RefusePreserves ==
  ASSUME GatewayInvariant, NEW r \in Requests, NEW status, status # 200, Refuse(r, status),
         slot[r].step # "put", UNCHANGED <<clock, nonceRows, keyRows, claims, ran, excused>>
  PROVE  GatewayInvariant'
<1>1. PICK answer : Moved(r, "done", NoQuery, answer) /\ answer.status = status
  BY RefuseMoved, Zenon DEF GatewayInvariant
<1>2. NoQuery.nonce = Absent /\ NoQuery.key = Absent
  BY Zenon DEF NoQuery
<1>3. GatewayShapes'
  BY <1>1, <1>2, ZenonT(40) DEF Moved, GatewayShapes, GatewayInvariant
<1>4. NonceIsKept' /\ NonceAdmitsOnce'
  BY Zenon DEF NonceIsKept, NonceAdmitsOnce, GatewayInvariant
<1>5. RunIsKept'
  <2> SUFFICES ASSUME NEW k \in Keys \ excused
               PROVE  KeptRun(k)'
    BY Zenon DEF RunIsKept
  <2>1. \A o \in Requests : slot[o].step = "put" => o # r /\ slot'[o] = slot[o]
    BY <1>1, Zenon DEF Moved
  <2>2. \A o \in Requests : slot'[o].step = "compute" => o # r /\ slot'[o] = slot[o]
    BY <1>1, Zenon DEF Moved
  <2> QED
    BY <2>1, <2>2 DEF RunIsKept, KeptRun, GatewayInvariant
<1>6. AnswerIsOfBody'
  BY <1>1 DEF Moved, AnswerIsOfBody, AnswersAreForTheBody, GatewayInvariant
<1> QED
  BY <1>3, <1>4, <1>5, <1>6, Zenon DEF GatewayInvariant

\* A request that goes on, and neither enters nor leaves the handler.
LEMMA AdvancePreserves ==
  ASSUME GatewayInvariant, NEW r \in Requests, NEW s, NEW q, NEW answer, Moved(r, s, q, answer),
         q.nonce \in Nonces \cup {Absent}, q.key \in Keys \cup {Absent}, slot[r].step # "put",
         s \notin {"put", "compute"}, s = "done" => answer.body = q.body,
         UNCHANGED <<clock, nonceRows, keyRows, claims, ran, excused>>
  PROVE  GatewayInvariant'
<1>1. GatewayShapes'
  BY Zenon DEF Moved, GatewayShapes, GatewayInvariant
<1>2. NonceIsKept' /\ NonceAdmitsOnce'
  BY Zenon DEF NonceIsKept, NonceAdmitsOnce, GatewayInvariant
<1>3. RunIsKept'
  <2> SUFFICES ASSUME NEW k \in Keys \ excused
               PROVE  KeptRun(k)'
    BY Zenon DEF RunIsKept
  <2>1. \A o \in Requests : slot[o].step = "put" => o # r /\ slot'[o] = slot[o]
    BY Zenon DEF Moved
  <2>2. \A o \in Requests : slot'[o].step = "compute" => o # r /\ slot'[o] = slot[o]
    BY Zenon DEF Moved
  <2> QED
    BY <2>1, <2>2 DEF RunIsKept, KeptRun, GatewayInvariant
<1>4. AnswerIsOfBody'
  BY DEF Moved, AnswerIsOfBody, AnswersAreForTheBody, GatewayInvariant
<1> QED
  BY <1>1, <1>2, <1>3, <1>4, Zenon DEF GatewayInvariant

\* Tokens and rate limit.
LEMMA HandlePreserves ==
  ASSUME GatewayInvariant, NEW r \in Requests, NEW q \in Query, handle(r, q)
  PROVE  GatewayInvariant'
<1>1. slot[r].step = "done" /\ UNCHANGED <<clock, nonceRows, keyRows, claims, ran, excused>>
  BY Zenon DEF handle
<1>2. CASE \E status \in {401, 403, 429} : Refuse(r, status)
  BY <1>1, <1>2, RefusePreserves
<1>3. CASE slot' = [slot EXCEPT ![r] =
                     [Free EXCEPT !.q = q, !.step = IF q.route = "lockdown" THEN "claim" ELSE "read"]]
  <2> DEFINE s == IF q.route = "lockdown" THEN "claim" ELSE "read"
             l == [Free EXCEPT !.q = q, !.step = s]
  <2>1. s \notin {"put", "compute", "done"}
    BY Zenon
  <2> HIDE DEF s
  <2>2. DOMAIN l = SlotFields /\ l.step = s /\ l.q = q
    BY Zenon DEF Free, SlotFields
  <2>3. slot' = [slot EXCEPT ![r] = l]
    BY <1>3, Zenon DEF s
  <2> HIDE DEF l
  <2>4. Moved(r, s, q, l.answer)
    BY <2>2, <2>3, Zenon DEF Moved, GatewayInvariant, GatewayShapes
  <2>5. q.nonce \in Nonces \cup {Absent} /\ q.key \in Keys \cup {Absent}
    BY Zenon DEF Query
  <2> QED
    BY <1>1, <2>1, <2>4, <2>5, AdvancePreserves, Zenon
<1> QED
  BY <1>2, <1>3 DEF handle

\* The claim of a nonce.
LEMMA ClaimPreserves ==
  ASSUME GatewayInvariant, NEW r \in Requests, enforceReplayNonce(r)
  PROVE  GatewayInvariant'
<1> DEFINE n == slot[r].q.nonce
<1>0. GatewayShapes /\ NonceLife \in Nat
  BY GatewayAssumption, Zenon DEF GatewayInvariant
<1>1. CASE n = Absent \/ Claimed(n)
  BY <1>1, RefusePreserves DEF enforceReplayNonce
<1>2. CASE ~(n = Absent \/ Claimed(n))
  <2>1. /\ nonceRows' = nonceRows \cup {[nonce |-> n, until |-> clock + NonceLife]}
        /\ claims' = [claims EXCEPT ![n] = Append(@, clock)]
        /\ Goto(r, "read") /\ UNCHANGED <<clock, hits, keyRows, ran, excused>> /\ slot[r].step = "claim"
    BY <1>2, Zenon DEF enforceReplayNonce
  <2>2. n \in Nonces /\ claims[n] \in Seq(Nat) /\ Len(claims[n]) \in Nat /\ clock \in Nat
    BY <1>0, <1>2 DEF GatewayShapes
  <2>3. Moved(r, "read", slot[r].q, slot[r].answer)
    BY <1>0, <2>1, GotoMoved, Zenon
  <2> HIDE DEF n
  <2>4. /\ claims' \in [Nonces -> Seq(Nat)]
        /\ \A m \in Nonces \ {n} : claims'[m] = claims[m]
        /\ claims'[n] = Append(claims[n], clock)
    BY <1>0, <2>1, <2>2 DEF GatewayShapes
  <2>5. /\ Len(claims'[n]) = Len(claims[n]) + 1 /\ claims'[n][Len(claims[n]) + 1] = clock
        /\ \A i \in 1..Len(claims[n]) : claims'[n][i] = claims[n][i]
    BY <2>2, <2>4
  <2>6. \A i \in 1..Len(claims[n]) : claims[n][i] + NonceLife <= clock
    <3>1. ~ \E row \in nonceRows : row.nonce = n
      BY <1>2, Zenon DEF Claimed, n
    <3> QED
      BY <2>2, <3>1, Zenon DEF GatewayInvariant, NonceIsKept
  <2>7. GatewayShapes'
    <3>1. \A row \in nonceRows' \cup keyRows' : row.until \in Nat
      BY <1>0, <2>1, <2>2 DEF GatewayShapes
    <3> QED
      BY <1>0, <2>1, <2>3, <2>4, <3>1, Zenon DEF GatewayShapes, Moved
  <2>8. NonceIsKept'
    <3> SUFFICES ASSUME NEW m \in Nonces, NEW i \in 1..Len(claims'[m])
                 PROVE  /\ claims'[m][i] <= clock'
                        /\ \/ claims'[m][i] + NonceLife <= clock'
                           \/ \E row \in nonceRows' : row.nonce = m /\ row.until >= claims'[m][i] + NonceLife
      BY Zenon DEF NonceIsKept
    <3>1. CASE m # n
      BY <2>1, <2>4, <3>1, Zenon DEF NonceIsKept, GatewayInvariant
    <3>2. CASE m = n /\ i \in 1..Len(claims[n])
      BY <2>1, <2>2, <2>5, <2>6, <3>2 DEF NonceIsKept, GatewayInvariant
    <3>3. CASE m = n /\ i = Len(claims[n]) + 1
      <4> DEFINE row == [nonce |-> n, until |-> clock + NonceLife]
      <4>1. row \in nonceRows' /\ row.nonce = n /\ row.until >= clock + NonceLife
        BY <1>0, <2>1, <2>2
      <4>2. claims'[m][i] = clock /\ clock' = clock
        BY <2>1, <2>5, <3>3, Zenon
      <4> HIDE DEF row
      <4> QED
        BY <2>2, <3>3, <4>1, <4>2
    <3> QED
      BY <2>2, <2>5, <3>1, <3>2, <3>3
  <2>9. NonceAdmitsOnce'
    <3> SUFFICES ASSUME NEW m \in Nonces, NEW i \in DOMAIN claims'[m], NEW j \in DOMAIN claims'[m], i < j
                 PROVE  claims'[m][j] - claims'[m][i] >= NonceLife
      BY Zenon DEF NonceAdmitsOnce
    <3>1. CASE m # n
      BY <2>4, <3>1, Zenon DEF NonceAdmitsOnce, GatewayInvariant
    <3>2. CASE m = n
      <4>1. DOMAIN claims'[n] = 1..(Len(claims[n]) + 1) /\ DOMAIN claims[n] = 1..Len(claims[n])
        BY <2>2, <2>4, <2>5
      <4>2. i \in 1..Len(claims[n])
        BY <2>2, <3>2, <4>1
      <4>3. CASE j \in 1..Len(claims[n])
        BY <2>5, <3>2, <4>1, <4>2, <4>3, Zenon DEF NonceAdmitsOnce, GatewayInvariant
      <4>4. CASE j = Len(claims[n]) + 1
        <5>1. claims[n][i] \in Nat
          BY <2>2, <4>2
        <5> QED
          BY <1>0, <2>2, <2>5, <2>6, <3>2, <4>2, <4>4, <5>1, SMTT(20)
      <4> QED
        BY <2>2, <3>2, <4>1, <4>3, <4>4
    <3> QED
      BY <3>1, <3>2, Zenon
  <2>10. RunIsKept'
    <3>1. \A o \in Requests : slot[o].step \in {"put", "compute"} <=> slot'[o].step \in {"put", "compute"}
      BY <2>1, <2>3, Zenon DEF Moved
    <3>2. \A o \in Requests : slot[o].step \in {"put", "compute"} => slot'[o] = slot[o]
      BY <2>1, <2>3, Zenon DEF Moved
    <3>3. \A k \in Keys \ excused : KeptRun(k)'
      BY <2>1, <3>1, <3>2 DEF RunIsKept, KeptRun, GatewayInvariant
    <3> QED
      BY <2>1, <3>3, Zenon DEF RunIsKept
  <2>11. AnswerIsOfBody'
    BY <2>1, <2>3 DEF AnswerIsOfBody, AnswersAreForTheBody, Moved, GatewayInvariant
  <2> QED
    BY <2>7, <2>8, <2>9, <2>10, <2>11, Zenon DEF GatewayInvariant
<1> QED
  BY <1>1, <1>2, Zenon

\* The body is read; a request with a key looks it up.
LEMMA ReadPreserves ==
  ASSUME GatewayInvariant, NEW r \in Requests, readJson(r)
  PROVE  GatewayInvariant'
<1>0. GatewayShapes
  BY Zenon DEF GatewayInvariant
<1>1. slot[r].step = "read" /\ UNCHANGED <<clock, nonceRows, keyRows, claims, ran, excused>>
  BY Zenon DEF readJson
<1>2. CASE ~slot[r].q.json
  BY <1>1, <1>2, RefusePreserves DEF readJson
<1>3. CASE slot[r].q.json /\ slot[r].q.key # Absent
  <2>1. Moved(r, "get", slot[r].q, slot[r].answer)
    BY <1>0, <1>3, GotoMoved, Zenon DEF readJson
  <2>2. slot[r].q.nonce \in Nonces \cup {Absent} /\ slot[r].q.key \in Keys \cup {Absent}
    BY <1>0, Zenon DEF GatewayShapes
  <2> QED
    BY <1>1, <2>1, <2>2, AdvancePreserves
<1>4. CASE slot[r].q.json /\ slot[r].q.key = Absent
  <2>1. Moved(r, "compute", slot[r].q, slot[r].answer)
    BY <1>0, <1>4, GotoMoved, Zenon DEF readJson
  <2>2. GatewayShapes'
    BY <1>0, <1>1, <2>1, Zenon DEF Moved, GatewayShapes
  <2>3. NonceIsKept' /\ NonceAdmitsOnce'
    BY <1>1, Zenon DEF NonceIsKept, NonceAdmitsOnce, GatewayInvariant
  <2>4. RunIsKept'
    <3>1. ASSUME NEW k \in Keys \ excused PROVE KeptRun(k)'
      <4>1. k # Absent
        BY GatewayAssumption, Zenon
      <4>2. \A o \in Requests : slot'[o].step \in {"put", "compute"} /\ slot'[o].q.key = k => slot'[o] = slot[o]
        BY <1>4, <2>1, <4>1, Zenon DEF Moved
      <4>3. \A o \in Requests : slot[o].step = "put" => slot'[o] = slot[o]
        BY <1>1, <2>1, Zenon DEF Moved
      <4> QED
        BY <1>1, <4>2, <4>3 DEF RunIsKept, KeptRun, GatewayInvariant
    <3> QED
      BY <1>1, <3>1, Zenon DEF RunIsKept
  <2>5. AnswerIsOfBody'
    BY <1>1, <2>1 DEF AnswerIsOfBody, AnswersAreForTheBody, Moved, GatewayInvariant
  <2> QED
    BY <2>2, <2>3, <2>4, <2>5, Zenon DEF GatewayInvariant
<1> QED
  BY <1>2, <1>3, <1>4, Zenon

\* The look-up of a key: a stored answer is repeated for the same body only.
LEMMA GetPreserves ==
  ASSUME GatewayInvariant, NEW r \in Requests, get(r)
  PROVE  GatewayInvariant'
<1>0. GatewayShapes
  BY Zenon DEF GatewayInvariant
<1>1. slot[r].step = "get" /\ UNCHANGED <<clock, nonceRows, keyRows, claims, ran, excused>>
  BY Zenon DEF get
<1>2. slot[r].q.nonce \in Nonces \cup {Absent} /\ slot[r].q.key \in Keys \cup {Absent}
  BY <1>0, Zenon DEF GatewayShapes
<1>3. CASE LiveRows(slot[r].q.key) = {} /\ Goto(r, "compute")
  <2>1. Moved(r, "compute", slot[r].q, slot[r].answer)
    BY <1>0, <1>3, GotoMoved, Zenon
  <2>2. GatewayShapes'
    BY <1>0, <1>1, <2>1, Zenon DEF Moved, GatewayShapes
  <2>3. NonceIsKept' /\ NonceAdmitsOnce'
    BY <1>1, Zenon DEF NonceIsKept, NonceAdmitsOnce, GatewayInvariant
  <2>4. RunIsKept'
    <3>1. ASSUME NEW k \in Keys \ excused PROVE KeptRun(k)'
      <4>1. \A o \in Requests : slot[o].step = "put" => slot'[o] = slot[o]
        BY <1>1, <2>1, Zenon DEF Moved
      <4>2. \A o \in Requests : o # r => slot'[o] = slot[o]
        BY <2>1, Zenon DEF Moved
      <4>3. slot[r].q.key = k => ~ \E row \in keyRows : row.key = k /\ row.until > clock
        BY <1>3, Zenon DEF LiveRows
      <4>4. slot'[r].q.key = slot[r].q.key /\ slot'[r].step = "compute"
        BY <2>1, Zenon DEF Moved
      <4>5. KeptRun(k)
        BY Zenon DEF RunIsKept, GatewayInvariant
      <4>6. slot[r].q.key = k /\ ran[k] # 0 => \E o \in Requests : slot[o].step = "put" /\ slot[o].q.key = k
        BY <4>3, <4>5, Zenon DEF KeptRun
      <4>7. ran[k] # 0 => \A p \in Requests : slot'[p].step = "compute" /\ slot'[p].q.key = k =>
                            \E o \in Requests : slot'[o].step = "put" /\ slot'[o].q.key = k
        BY <4>1, <4>2, <4>4, <4>5, <4>6, Zenon DEF KeptRun
      <4> QED
        BY <1>1, <4>1, <4>5, <4>7, Zenon DEF KeptRun
    <3> QED
      BY <1>1, <3>1, Zenon DEF RunIsKept
  <2>5. AnswerIsOfBody'
    BY <1>1, <2>1 DEF AnswerIsOfBody, AnswersAreForTheBody, Moved, GatewayInvariant
  <2> QED
    BY <2>2, <2>3, <2>4, <2>5, Zenon DEF GatewayInvariant
<1>4. ASSUME NEW row \in LiveRows(slot[r].q.key), SameRequest(row, slot[r].q), respond(r, row.response)
      PROVE  GatewayInvariant'
  <2>1. Moved(r, "done", slot[r].q, row.response)
    BY <1>0, <1>4, RespondMoved, Zenon
  <2>2. row.response.body = slot[r].q.body
    BY <1>4, Zenon DEF LiveRows, SameRequest, GatewayInvariant, AnswerIsOfBody
  <2> QED
    BY <1>1, <1>2, <2>1, <2>2, AdvancePreserves
<1>5. CASE Refuse(r, 409)
  BY <1>1, <1>5, RefusePreserves
<1> QED
  BY <1>3, <1>4, <1>5, Zenon DEF get

\* The handler runs.
LEMMA ComputePreserves ==
  ASSUME GatewayInvariant, NEW r \in Requests, compute(r)
  PROVE  GatewayInvariant'
<1> DEFINE q == slot[r].q
<1>0. GatewayShapes
  BY Zenon DEF GatewayInvariant
<1>1. slot[r].step = "compute" /\ UNCHANGED <<clock, nonceRows, keyRows, claims>>
  BY Zenon DEF compute
<1>2. q.nonce \in Nonces \cup {Absent} /\ q.key \in Keys \cup {Absent}
  BY <1>0, Zenon DEF GatewayShapes
<1>3. Response(200, q.target, q.body).body = q.body
  BY Zenon DEF Response
<1>4. CASE Refuse(r, 500) /\ UNCHANGED <<ran, excused>>
  BY <1>1, <1>4, RefusePreserves
<1>5. CASE respond(r, Response(200, q.target, q.body)) /\ UNCHANGED <<ran, excused>>
  <2>1. Moved(r, "done", q, Response(200, q.target, q.body))
    BY <1>0, <1>5, RespondMoved, Zenon
  <2> QED
    BY <1>1, <1>2, <1>3, <1>5, <2>1, AdvancePreserves
<1>6. CASE /\ q.key # Absent
           /\ slot' = [slot EXCEPT ![r].step = "put", ![r].answer = Response(200, q.target, q.body)]
           /\ ran' = [ran EXCEPT ![q.key] = IF @ < 2 THEN @ + 1 ELSE 2]
           /\ excused' = IF Raced(r) THEN excused \cup {q.key} ELSE excused
  <2>1. Moved(r, "put", q, Response(200, q.target, q.body))
    BY <1>0, <1>6 DEF Moved, GatewayShapes, SlotFields
  <2>2. /\ q.key \in Keys /\ ran' \in [Keys -> 0..2]
        /\ \A k \in Keys \ {q.key} : ran'[k] = ran[k]
        /\ ran[q.key] = 0 => ran'[q.key] = 1
    BY <1>0, <1>2, <1>6 DEF GatewayShapes
  <2>3. GatewayShapes'
    BY <1>0, <1>1, <2>1, <2>2 DEF Moved, GatewayShapes
  <2>4. NonceIsKept' /\ NonceAdmitsOnce'
    BY <1>1, Zenon DEF NonceIsKept, NonceAdmitsOnce, GatewayInvariant
  <2>5. RunIsKept'
    <3> SUFFICES ASSUME NEW k \in Keys \ excused' PROVE KeptRun(k)'
      BY Zenon DEF RunIsKept
    <3>1. k \notin excused /\ KeptRun(k)
      BY <1>6, Zenon DEF RunIsKept, GatewayInvariant
    <3>2. \A o \in Requests : slot[o].step = "put" => slot'[o] = slot[o]
      BY <1>1, <2>1, Zenon DEF Moved
    <3>3. slot'[r].step = "put" /\ slot'[r].q.key = q.key /\ \A o \in Requests : o # r => slot'[o] = slot[o]
      BY <2>1, Zenon DEF Moved
    <3>4. CASE k = q.key
      <4>1. ~Raced(r)
        BY <1>6, <3>4, Zenon
      <4>2. ran[k] = 0
        <5>1. ran[k] # 0 => \E o \in Requests : slot[o].step = "put" /\ slot[o].q.key = k
          BY <1>1, <3>1, <3>4, Zenon DEF KeptRun
        <5> QED
          BY <1>1, <3>4, <4>1, <5>1, Zenon DEF Raced
      <4>3. ran'[k] = 1
        BY <2>2, <3>4, <4>2, Zenon
      <4> QED
        BY <3>3, <3>4, <4>3 DEF KeptRun
    <3>5. CASE k # q.key
      <4>1. ran'[k] = ran[k]
        BY <2>2, <3>5, Zenon
      <4>2. \A o \in Requests : slot'[o].step = "compute" => slot'[o] = slot[o]
        BY <3>3, Zenon
      <4> QED
        BY <1>1, <3>1, <3>2, <4>1, <4>2, Zenon DEF KeptRun
    <3> QED
      BY <3>4, <3>5, Zenon
  <2>6. AnswerIsOfBody'
    BY <1>1, <1>3, <2>1 DEF AnswerIsOfBody, AnswersAreForTheBody, Moved, GatewayInvariant
  <2> QED
    BY <2>3, <2>4, <2>5, <2>6, Zenon DEF GatewayInvariant
<1> QED
  BY <1>4, <1>5, <1>6, Zenon DEF compute

\* The answer is stored, unless the key has a row.
LEMMA PutPreserves ==
  ASSUME GatewayInvariant, NEW r \in Requests, put(r)
  PROVE  GatewayInvariant'
<1> DEFINE q == slot[r].q
           stored == [key |-> q.key, body |-> q.body, response |-> slot[r].answer, until |-> clock + KeyLife]
<1>0. GatewayShapes /\ KeyLife \in Nat \ {0}
  BY GatewayAssumption, Zenon DEF GatewayInvariant
<1>1. slot[r].step = "put" /\ UNCHANGED <<clock, nonceRows, claims, ran>>
  BY Zenon DEF put
<1>2. Moved(r, "done", q, slot[r].answer)
  BY <1>0, RespondMoved, Zenon DEF put
<1>3. slot[r].answer.body = q.body
  BY <1>1, Zenon DEF GatewayInvariant, AnswerIsOfBody
<1>4. stored.key = q.key /\ stored.body = q.body /\ stored.response = slot[r].answer /\ stored.until = clock + KeyLife
  BY Zenon
<1>5. \/ /\ \E row \in keyRows : row.key = q.key
         /\ keyRows' = keyRows /\ excused' = excused \cup {q.key}
      \/ /\ keyRows' = keyRows \cup {stored}
         /\ excused' = IF Raced(r) THEN excused \cup {q.key} ELSE excused
  BY Zenon DEF put
<1> HIDE DEF stored
<1>6. clock \in Nat /\ stored.until \in Nat /\ stored.until > clock
  BY <1>0, <1>4 DEF GatewayShapes
<1>7. GatewayShapes'
  <2>1. \A row \in nonceRows' \cup keyRows' : row.until \in Nat
    BY <1>0, <1>1, <1>5, <1>6, Zenon DEF GatewayShapes
  <2> QED
    BY <1>0, <1>1, <1>2, <2>1, Zenon DEF Moved, GatewayShapes
<1>8. NonceIsKept' /\ NonceAdmitsOnce'
  BY <1>1, Zenon DEF NonceIsKept, NonceAdmitsOnce, GatewayInvariant
<1>9. RunIsKept'
  <2> SUFFICES ASSUME NEW k \in Keys \ excused' PROVE KeptRun(k)'
    BY Zenon DEF RunIsKept
  <2>1. k \notin excused /\ KeptRun(k)
    BY <1>5, Zenon DEF RunIsKept, GatewayInvariant
  <2>2. slot'[r].step = "done" /\ \A o \in Requests : o # r => slot'[o] = slot[o]
    BY <1>2, Zenon DEF Moved
  <2>3. CASE k = q.key
    <3>1. ~Raced(r) /\ stored \in keyRows'
      BY <1>5, <2>3, Zenon
    <3>2. \A o \in Requests : ~(slot'[o].step = "compute" /\ slot'[o].q.key = k)
      BY <2>2, <2>3, <3>1, Zenon DEF Raced
    <3> QED
      BY <1>1, <1>4, <1>6, <2>1, <2>3, <3>1, <3>2, Zenon DEF KeptRun
  <2>4. CASE k # q.key
    <3>1. \A o \in Requests : slot[o].step = "put" /\ slot[o].q.key = k => slot'[o] = slot[o]
      BY <2>2, <2>4, Zenon
    <3>2. \A o \in Requests : slot'[o].step = "compute" => slot'[o] = slot[o]
      BY <2>2, Zenon
    <3>3. keyRows \subseteq keyRows'
      BY <1>5, Zenon
    <3> QED
      BY <1>1, <2>1, <3>1, <3>2, <3>3, Zenon DEF KeptRun
  <2> QED
    BY <2>3, <2>4, Zenon
<1>10. AnswerIsOfBody'
  BY <1>2, <1>3, <1>4, <1>5 DEF AnswerIsOfBody, AnswersAreForTheBody, Moved, GatewayInvariant
<1> QED
  BY <1>7, <1>8, <1>9, <1>10, Zenon DEF GatewayInvariant

\* Time passes; a key whose row expires is free.
LEMMA TickPreserves ==
  ASSUME GatewayInvariant, Tick
  PROVE  GatewayInvariant'
<1>0. GatewayShapes /\ NonceLife \in Nat
  BY GatewayAssumption, Zenon DEF GatewayInvariant
<1>1. clock \in Nat /\ clock' = clock + 1 /\ UNCHANGED <<nonceRows, keyRows, slot, claims, excused>>
  BY <1>0, Zenon DEF Tick, GatewayShapes
<1>2. ran' \in [Keys -> 0..2]
  <2> DEFINE next(k) == IF \E row \in keyRows : row.key = k /\ row.until = clock + 1 THEN 0 ELSE ran[k]
  <2>1. ran' = [k \in Keys |-> next(k)]
    BY Zenon DEF Tick
  <2>2. \A k \in Keys : next(k) \in 0..2
    <3>1. \A k \in Keys : next(k) = 0 \/ next(k) = ran[k]
      BY Zenon
    <3>2. \A k \in Keys : ran[k] \in 0..2
      BY <1>0, Zenon DEF GatewayShapes
    <3> HIDE DEF next
    <3> QED
      BY <3>1, <3>2
  <2> HIDE DEF next
  <2> QED
    BY <2>1, <2>2, Zenon
<1>3. \A k \in Keys : \/ ran'[k] = 0
                      \/ ran'[k] = ran[k] /\ ~ \E row \in keyRows : row.key = k /\ row.until = clock + 1
  BY Zenon DEF Tick
<1>4. GatewayShapes'
  BY <1>0, <1>1, <1>2 DEF GatewayShapes
<1>5. NonceIsKept'
  <2> SUFFICES ASSUME NEW n \in Nonces, NEW i \in 1..Len(claims[n])
               PROVE  /\ claims[n][i] <= clock'
                      /\ \/ claims[n][i] + NonceLife <= clock'
                         \/ \E row \in nonceRows : row.nonce = n /\ row.until >= claims[n][i] + NonceLife
    BY <1>1, Zenon DEF NonceIsKept
  <2>1. claims[n][i] \in Nat
    BY <1>0 DEF GatewayShapes
  <2>2. /\ claims[n][i] <= clock
        /\ \/ claims[n][i] + NonceLife <= clock
           \/ \E row \in nonceRows : row.nonce = n /\ row.until >= claims[n][i] + NonceLife
    BY Zenon DEF NonceIsKept, GatewayInvariant
  <2>3. clock \in Nat /\ NonceLife \in Nat /\ clock' = clock + 1
    BY <1>0, <1>1, GatewayAssumption, Zenon DEF GatewayShapes
  <2>4. CASE claims[n][i] + NonceLife <= clock
    BY <2>1, <2>2, <2>3, <2>4
  <2>5. CASE \E row \in nonceRows : row.nonce = n /\ row.until >= claims[n][i] + NonceLife
    <3>1. claims[n][i] <= clock'
      BY <2>1, <2>2, <2>3
    <3> QED
      BY <2>5, <3>1, Zenon
  <2> QED
    BY <2>2, <2>4, <2>5, Zenon
<1>6. NonceAdmitsOnce'
  BY <1>1, Zenon DEF NonceAdmitsOnce, GatewayInvariant
<1>7. RunIsKept'
  <2>1. ASSUME NEW k \in Keys \ excused PROVE KeptRun(k)'
    <3>1. KeptRun(k)
      BY Zenon DEF RunIsKept, GatewayInvariant
    <3>2. CASE ran'[k] = 0
      BY <3>2 DEF KeptRun
    <3>3. CASE ran'[k] = ran[k] /\ ~ \E row \in keyRows : row.key = k /\ row.until = clock + 1
      <4>1. \A row \in keyRows : row.key = k /\ row.until > clock => row.until > clock'
        BY <1>0, <1>1, <3>3 DEF GatewayShapes
      <4> QED
        BY <1>1, <3>1, <3>3, <4>1, Zenon DEF KeptRun
    <3> QED
      BY <1>3, <3>2, <3>3, Zenon
  <2> QED
    BY <1>1, <2>1, Zenon DEF RunIsKept
<1>8. AnswerIsOfBody'
  BY <1>1, Zenon DEF AnswerIsOfBody, AnswersAreForTheBody, GatewayInvariant
<1> QED
  BY <1>4, <1>5, <1>6, <1>7, <1>8, Zenon DEF GatewayInvariant

\* Only rows that have expired are purged.
LEMMA PurgePreserves ==
  ASSUME GatewayInvariant, purgeGatewayRows
  PROVE  GatewayInvariant'
<1>0. GatewayShapes /\ NonceLife \in Nat /\ clock \in Nat
  BY GatewayAssumption, Zenon DEF GatewayInvariant, GatewayShapes
<1>1. UNCHANGED <<clock, slot, claims, ran, excused>>
  BY Zenon DEF purgeGatewayRows
<1>2. /\ nonceRows' \subseteq nonceRows /\ \A row \in nonceRows \ nonceRows' : row.until < clock
      /\ keyRows' \subseteq keyRows /\ \A row \in keyRows \ keyRows' : row.until < clock
  BY <1>0 DEF purgeGatewayRows, GatewayShapes
<1>3. GatewayShapes'
  BY <1>0, <1>1, <1>2, Zenon DEF GatewayShapes
<1>4. NonceIsKept'
  <2> SUFFICES ASSUME NEW n \in Nonces, NEW i \in 1..Len(claims[n])
               PROVE  /\ claims[n][i] <= clock
                      /\ \/ claims[n][i] + NonceLife <= clock
                         \/ \E row \in nonceRows' : row.nonce = n /\ row.until >= claims[n][i] + NonceLife
    BY <1>1, Zenon DEF NonceIsKept
  <2>1. claims[n][i] \in Nat /\ claims[n][i] <= clock
    BY <1>0 DEF GatewayShapes, GatewayInvariant, NonceIsKept
  <2>2. ASSUME NEW row \in nonceRows, row.nonce = n, row.until >= claims[n][i] + NonceLife, row \notin nonceRows'
        PROVE  claims[n][i] + NonceLife <= clock
    BY <1>0, <1>2, <2>1, <2>2 DEF GatewayShapes
  <2> QED
    BY <2>1, <2>2, Zenon DEF NonceIsKept, GatewayInvariant
<1>5. NonceAdmitsOnce'
  BY <1>1, Zenon DEF NonceAdmitsOnce, GatewayInvariant
<1>6. RunIsKept'
  <2>1. \A row \in keyRows : row.until > clock => row \in keyRows'
    BY <1>0, <1>2 DEF GatewayShapes
  <2>2. ASSUME NEW k \in Keys \ excused PROVE KeptRun(k)'
    BY <1>1, <2>1, Zenon DEF KeptRun, RunIsKept, GatewayInvariant
  <2> QED
    BY <1>1, <2>2, Zenon DEF RunIsKept
<1>7. AnswerIsOfBody'
  BY <1>1, <1>2, Zenon DEF AnswerIsOfBody, AnswersAreForTheBody, GatewayInvariant
<1> QED
  BY <1>3, <1>4, <1>5, <1>6, <1>7, Zenon DEF GatewayInvariant

\* A restart cuts the requests; the rows stay.
LEMMA RestartPreserves ==
  ASSUME GatewayInvariant, RestartGateway
  PROVE  GatewayInvariant'
<1>0. GatewayShapes
  BY Zenon DEF GatewayInvariant
<1>1. UNCHANGED <<clock, nonceRows, keyRows, claims, ran>>
  BY Zenon DEF RestartGateway
<1>2. DOMAIN slot' = Requests /\ \A r \in Requests : slot'[r] = Free
  BY Zenon DEF RestartGateway
<1>3. DOMAIN Free = SlotFields /\ Free.step = "done" /\ Free.q = NoQuery /\ Free.answer.status = 0
  BY Zenon DEF Free, SlotFields, NoResponse, Response
<1>4. NoQuery.nonce = Absent /\ NoQuery.key = Absent
  BY Zenon DEF NoQuery
<1>5. GatewayShapes'
  BY <1>0, <1>1, <1>2, <1>3, <1>4, Zenon DEF GatewayShapes
<1>6. NonceIsKept' /\ NonceAdmitsOnce'
  BY <1>1, Zenon DEF NonceIsKept, NonceAdmitsOnce, GatewayInvariant
<1>7. RunIsKept'
  <2> SUFFICES ASSUME NEW k \in Keys \ excused' PROVE KeptRun(k)'
    BY Zenon DEF RunIsKept
  <2>1. k \notin excused /\ \A o \in Requests : ~(slot[o].step = "put" /\ slot[o].q.key = k)
    BY Zenon DEF RestartGateway
  <2>2. KeptRun(k)
    BY <2>1, Zenon DEF RunIsKept, GatewayInvariant
  <2> QED
    BY <1>1, <1>2, <1>3, <2>1, <2>2, Zenon DEF KeptRun
<1>8. AnswerIsOfBody'
  BY <1>1, <1>2, <1>3 DEF AnswerIsOfBody, AnswersAreForTheBody, GatewayInvariant
<1> QED
  BY <1>5, <1>6, <1>7, <1>8, Zenon DEF GatewayInvariant

\* Every step of the gateway, for any set of routes.
LEMMA GatewayStep ==
  ASSUME GatewayInvariant, [GatewayNext(Routes)]_gatewayVars
  PROVE  GatewayInvariant'
<1>1. CASE UNCHANGED gatewayVars
  BY <1>1 DEF gatewayVars, GatewayInvariant, GatewayShapes, NonceIsKept, NonceAdmitsOnce, RunIsKept, KeptRun,
              AnswerIsOfBody, AnswersAreForTheBody
<1> QED
  BY <1>1, HandlePreserves, ClaimPreserves, ReadPreserves, GetPreserves, ComputePreserves, PutPreserves,
     TickPreserves, PurgePreserves, RestartPreserves, ZenonT(40) DEF GatewayNext

\* Every step of the gateway preserves the invariant.
LEMMA GatewayHolds == GatewaySpec => []GatewayInvariant
BY GatewayStarts, GatewayStep, PTL DEF GatewaySpec

\* A nonce admits one request in its life, for any number of requests, nonces and routes,
\* across restarts of the gateway and purges of the table.
THEOREM NoncesAdmitOnce == GatewaySpec => []NonceAdmitsOnce
<1>1. GatewayInvariant => NonceAdmitsOnce
  BY Zenon DEF GatewayInvariant
<1> QED
  BY <1>1, GatewayHolds, PTL

\* A handler runs once for an idempotency key while its answer lives, apart from the
\* races and losses that the property names.
THEOREM KeysRunOnce == GatewaySpec => []KeyRunsOnce
<1>1. GatewayInvariant => KeyRunsOnce
  BY Zenon DEF GatewayInvariant, RunIsKept, KeptRun, KeyRunsOnce
<1> QED
  BY <1>1, GatewayHolds, PTL

\* No request is answered with what was computed for another body.
THEOREM AnswersFit == GatewaySpec => []AnswersAreForTheBody
<1>1. GatewayInvariant => AnswersAreForTheBody
  BY Zenon DEF GatewayInvariant, AnswerIsOfBody
<1> QED
  BY <1>1, GatewayHolds, PTL

-----------------------------------------------------------------------------
(***************************************************************************)
(* The resolver and its audit.                                             *)
(*                                                                         *)
(* What a query may answer depends on what was found out before: OnCourse  *)
(* says, step by step, what a query knows of its name, what failed for it  *)
(* and what was audited, and Answered says it of a query that is over.     *)
(***************************************************************************)

QueryFields == {"name", "type", "step", "at"}

DnsShapes ==
  /\ DOMAIN query = Queries /\ DOMAIN reply = Queries /\ DOMAIN lost = Queries
  /\ \A q \in Queries : DOMAIN query[q] = QueryFields /\ query[q].at \in Nat

ListedName(name) == name \in Suspicious \cup UNION {Feeds[f] : f \in 1..FeedCount}

\* What a query's step says of its name, of what failed and of what was audited.
OnCourse(l, answer, failed, audited) ==
  /\ l.step # "done" => answer = "none"
  /\ l.step # "done" /\ l.step # "upstream" => "upstream" \notin failed
  /\ l.step \in {"sinkhole", "upstream"} => audited \/ "audit" \in failed
  /\ l.step = "evaluate" =>
       l.name \notin Suspicious /\ \A f \in 1..FeedCount : f < l.at => l.name \notin Feeds[f]
  /\ l.step \in {"auditAllow", "upstream"} => ~ListedName(l.name)
  /\ l.step = "upstream" => l.at >= 1 /\ (l.at > 1 => "upstream" \in failed)

\* AuditNeverFailsAQuery of one query.
Answered(l, answer, failed, audited) ==
  /\ answer = "SERVFAIL" =>
       "feed" \in failed \/ ("upstream" \in failed /\ l.at > UpstreamCount)
       \/ (l.type = "MX" /\ ~ListedName(l.name))
  /\ ListedName(l.name) => answer # "resolved" /\ "upstream" \notin failed
  /\ answer \in {"sinkhole", "empty", "resolved"} => audited \/ "audit" \in failed

Fine(l, answer, failed, audited) ==
  OnCourse(l, answer, failed, audited) /\ Answered(l, answer, failed, audited)

DnsInvariant ==
  DnsShapes /\ \A q \in Queries : Fine(query[q], reply[q], lost[q], q \in logged)

\* A name is listed when it is suspicious or a feed has it.
LEMMA ListedMeans ==
  ASSUME NEW name
  PROVE  ListedName(name) <=> name \in Suspicious \/ \E f \in 1..FeedCount : name \in Feeds[f]
BY Zenon DEF ListedName

\* No query has arrived.
LEMMA DnsStarts == DnsInit => DnsInvariant
<1> SUFFICES ASSUME DnsInit PROVE DnsInvariant
  BY Zenon
<1>1. /\ DOMAIN NoDatagram = QueryFields /\ NoDatagram.at = 1 /\ NoDatagram.step = "waiting"
  BY Zenon DEF NoDatagram, QueryFields
<1>2. /\ DOMAIN query = Queries /\ DOMAIN reply = Queries /\ DOMAIN lost = Queries
      /\ \A q \in Queries : query[q] = NoDatagram /\ reply[q] = "none" /\ lost[q] = {}
  BY Zenon DEF DnsInit
<1> QED
  BY <1>1, <1>2 DEF DnsInvariant, DnsShapes, Fine, OnCourse, Answered

\* A step of one query: only what is known of that query has to be shown again.
LEMMA OneQueryMoves ==
  ASSUME DnsInvariant, NEW q \in Queries, NEW l,
         query' = [query EXCEPT ![q] = l], DOMAIN l = QueryFields, l.at \in Nat,
         DOMAIN reply' = Queries, \A p \in Queries \ {q} : reply'[p] = reply[p],
         DOMAIN lost' = Queries, \A p \in Queries \ {q} : lost'[p] = lost[p],
         logged' \in {logged, logged \cup {q}},
         Fine(l, reply'[q], lost'[q], q \in logged')
  PROVE  DnsInvariant'
<1>1. DOMAIN query' = Queries /\ query'[q] = l /\ \A p \in Queries \ {q} : query'[p] = query[p]
  BY Zenon DEF DnsInvariant, DnsShapes
<1>2. DnsShapes'
  BY <1>1, Zenon DEF DnsInvariant, DnsShapes
<1>3. ASSUME NEW p \in Queries PROVE Fine(query'[p], reply'[p], lost'[p], p \in logged')
  <2>1. CASE p = q
    BY <1>1, <2>1, Zenon
  <2>2. CASE p # q
    <3>1. query'[p] = query[p] /\ reply'[p] = reply[p] /\ lost'[p] = lost[p] /\ (p \in logged' <=> p \in logged)
      BY <1>1, <2>2, Zenon
    <3>2. Fine(query[p], reply[p], lost[p], p \in logged)
      BY Zenon DEF DnsInvariant
    <3> QED
      BY <3>1, <3>2, Zenon DEF Fine, OnCourse, Answered
  <2> QED
    BY <2>1, <2>2, Zenon
<1> QED
  BY <1>2, <1>3, Zenon DEF DnsInvariant, Fine, OnCourse, Answered

\* The record of a query that is sent on, or answered.
LEMMA Sent ==
  ASSUME DnsShapes, NEW q \in Queries, NEW s
  PROVE  LET l == [query[q] EXCEPT !.step = s, !.at = 1]
         IN  /\ DOMAIN l = QueryFields /\ l.step = s /\ l.at = 1
             /\ l.name = query[q].name /\ l.type = query[q].type
BY Zenon DEF DnsShapes, QueryFields

\* The record of a query that asks the next feed or upstream.
LEMMA Asked ==
  ASSUME DnsShapes, NEW q \in Queries
  PROVE  LET l == [query[q] EXCEPT !.at = query[q].at + 1]
         IN  /\ DOMAIN l = QueryFields /\ l.step = query[q].step /\ l.at = query[q].at + 1
             /\ l.name = query[q].name /\ l.type = query[q].type
BY Zenon DEF DnsShapes, QueryFields

\* The record of a query that is answered.
LEMMA Ended ==
  ASSUME DnsShapes, NEW q \in Queries
  PROVE  LET l == [query[q] EXCEPT !.step = "done"]
         IN  /\ DOMAIN l = QueryFields /\ l.step = "done" /\ l.at = query[q].at
             /\ l.name = query[q].name /\ l.type = query[q].type
BY Zenon DEF DnsShapes, QueryFields

\* What is known of the query before its step.
LEMMA Before ==
  ASSUME DnsInvariant, NEW q \in Queries
  PROVE  /\ DnsShapes /\ query[q].at \in Nat
         /\ OnCourse(query[q], reply[q], lost[q], q \in logged)
         /\ Answered(query[q], reply[q], lost[q], q \in logged)
BY Zenon DEF DnsInvariant, DnsShapes, Fine

\* A query goes on to another step.
LEMMA GoPreserves ==
  ASSUME DnsInvariant, NEW q \in Queries, NEW s, Go(q, s),
         DOMAIN lost' = Queries, \A p \in Queries \ {q} : lost'[p] = lost[p],
         logged' \in {logged, logged \cup {q}},
         query[q].step # "done", query[q].step # "upstream", s # "done", s # "evaluate",
         lost'[q] \in {lost[q], lost[q] \cup {"audit"}},
         s \in {"sinkhole", "upstream"} => q \in logged' \/ "audit" \in lost'[q],
         s \in {"auditAllow", "upstream"} => ~ListedName(query[q].name)
  PROVE  DnsInvariant'
<1> DEFINE l == [query[q] EXCEPT !.step = s, !.at = 1]
<1>0. DnsShapes /\ OnCourse(query[q], reply[q], lost[q], q \in logged)
  BY Before, Zenon
<1>1. /\ DOMAIN l = QueryFields /\ l.step = s /\ l.at = 1
      /\ l.name = query[q].name /\ l.type = query[q].type
  BY <1>0, Sent, Zenon
<1>2. query' = [query EXCEPT ![q] = l] /\ reply' = reply
  BY Zenon DEF Go
<1> HIDE DEF l
<1>3. reply'[q] = "none" /\ "upstream" \notin lost'[q]
  BY <1>0, <1>2, Zenon DEF OnCourse
<1>4. Fine(l, reply'[q], lost'[q], q \in logged')
  BY <1>1, <1>3, SMTT(20) DEF Fine, OnCourse, Answered
<1>5. l.at \in Nat /\ DOMAIN reply' = Queries /\ \A p \in Queries \ {q} : reply'[p] = reply[p]
  BY <1>0, <1>1, <1>2 DEF DnsShapes
<1> QED
  BY <1>1, <1>2, <1>4, <1>5, OneQueryMoves, Zenon

\* A query is answered.
LEMMA ReplyPreserves ==
  ASSUME DnsInvariant, NEW q \in Queries, NEW answer, Reply(q, answer),
         DOMAIN lost' = Queries, \A p \in Queries \ {q} : lost'[p] = lost[p],
         logged' = logged, lost'[q] \in {lost[q], lost[q] \cup {"feed"}},
         answer = "SERVFAIL" =>
            "feed" \in lost'[q] \/ ("upstream" \in lost[q] /\ query[q].at > UpstreamCount)
            \/ (query[q].type = "MX" /\ ~ListedName(query[q].name)),
         ListedName(query[q].name) => answer # "resolved",
         answer \in {"sinkhole", "empty", "resolved"} => q \in logged \/ "audit" \in lost[q]
  PROVE  DnsInvariant'
<1> DEFINE l == [query[q] EXCEPT !.step = "done"]
<1>0. DnsShapes /\ query[q].at \in Nat /\ Answered(query[q], reply[q], lost[q], q \in logged)
  BY Before, Zenon
<1>1. /\ DOMAIN l = QueryFields /\ l.step = "done" /\ l.at = query[q].at
      /\ l.name = query[q].name /\ l.type = query[q].type
  BY <1>0, Ended, Zenon
<1>2. /\ query' = [query EXCEPT ![q] = l] /\ DOMAIN reply' = Queries /\ reply'[q] = answer
      /\ \A p \in Queries \ {q} : reply'[p] = reply[p]
  BY <1>0, Zenon DEF Reply, DnsShapes
<1> HIDE DEF l
<1>3. Fine(l, answer, lost'[q], q \in logged')
  BY <1>0, <1>1, Zenon DEF Fine, OnCourse, Answered
<1> QED
  BY <1>0, <1>1, <1>2, <1>3, OneQueryMoves, Zenon

\* The next feed or upstream is asked.
LEMMA NextPreserves ==
  ASSUME DnsInvariant, NEW q \in Queries,
         query' = [query EXCEPT ![q].at = @ + 1], UNCHANGED <<reply, logged>>,
         DOMAIN lost' = Queries, \A p \in Queries \ {q} : lost'[p] = lost[p],
         \/ /\ query[q].step = "evaluate" /\ lost'[q] = lost[q]
            /\ query[q].at \in 1..FeedCount => query[q].name \notin Feeds[query[q].at]
         \/ query[q].step = "upstream" /\ lost'[q] = lost[q] \cup {"upstream"}
  PROVE  DnsInvariant'
<1> DEFINE l == [query[q] EXCEPT !.at = query[q].at + 1]
<1>0. /\ DnsShapes /\ query[q].at \in Nat
      /\ OnCourse(query[q], reply[q], lost[q], q \in logged)
      /\ Answered(query[q], reply[q], lost[q], q \in logged)
  BY Before, Zenon
<1>1. /\ DOMAIN l = QueryFields /\ l.step = query[q].step /\ l.at = query[q].at + 1
      /\ l.name = query[q].name /\ l.type = query[q].type
  BY <1>0, Asked, Zenon
<1>2. query' = [query EXCEPT ![q] = l]
  BY <1>0, Zenon DEF DnsShapes
<1> HIDE DEF l
<1>3. /\ reply'[q] = "none" /\ l.at \in Nat /\ DOMAIN reply' = Queries
      /\ (\A p \in Queries \ {q} : reply'[p] = reply[p]) /\ logged' = logged
  BY <1>0, <1>1 DEF OnCourse, DnsShapes
<1>4. CASE query[q].step = "evaluate"
  <2>1. \A f \in 1..FeedCount : f < l.at => l.name \notin Feeds[f]
    <3> SUFFICES ASSUME NEW f \in 1..FeedCount, f < query[q].at + 1 PROVE query[q].name \notin Feeds[f]
      BY <1>1, Zenon
    <3>1. FeedCount \in Nat
      BY DnsAssumption, Zenon
    <3>2. CASE f = query[q].at
      BY <1>4, <3>2, Zenon
    <3>3. CASE f < query[q].at
      BY <1>0, <1>4, <3>3, Zenon DEF OnCourse
    <3> QED
      BY <1>0, <3>1, <3>2, <3>3
  <2>2. Fine(l, reply'[q], lost'[q], q \in logged')
    BY <1>0, <1>1, <1>3, <1>4, <2>1, Zenon DEF Fine, OnCourse, Answered
  <2> QED
    BY <1>1, <1>2, <1>3, <2>2, OneQueryMoves, Zenon
<1>5. CASE query[q].step = "upstream"
  <2>1. Fine(l, reply'[q], lost'[q], q \in logged')
    BY <1>0, <1>1, <1>3, <1>5 DEF Fine, OnCourse, Answered
  <2> QED
    BY <1>1, <1>2, <1>3, <2>1, OneQueryMoves, Zenon
<1> QED
  BY <1>4, <1>5, Zenon

\* A datagram arrives.
LEMMA HandleQueryPreserves ==
  ASSUME DnsInvariant, NEW q \in Queries, handleQuery(q)
  PROVE  DnsInvariant'
<1>0. /\ DnsShapes /\ query[q].step = "waiting" /\ UNCHANGED <<lost, logged>>
      /\ reply[q] = "none" /\ "upstream" \notin lost[q]
  BY Before, Zenon DEF handleQuery, At, OnCourse
<1>1. PICK name \in DnsNames, type \in {"A", "AAAA", "TXT", "MX", "other"} :
        IF type = "other"
        THEN /\ query' = [query EXCEPT ![q] = [name |-> name, type |-> type, step |-> "done", at |-> 1]]
             /\ reply' = [reply EXCEPT ![q] = "NOTIMP"]
        ELSE /\ query' = [query EXCEPT ![q] =
                  [name |-> name, type |-> type, at |-> 1,
                   step |-> IF name \in Suspicious THEN "auditSinkhole" ELSE "evaluate"]]
             /\ UNCHANGED reply
  BY Zenon DEF handleQuery
<1>2. CASE type = "other"
  <2> DEFINE l == [name |-> name, type |-> type, step |-> "done", at |-> 1]
  <2>1. DOMAIN l = QueryFields /\ l.at = 1 /\ l.at \in Nat /\ l.step = "done" /\ l.name = name
    BY Zenon DEF QueryFields
  <2>2. query' = [query EXCEPT ![q] = l]
    BY <1>1, <1>2, Zenon
  <2> HIDE DEF l
  <2>3. reply'[q] = "NOTIMP" /\ DOMAIN reply' = Queries /\ \A p \in Queries \ {q} : reply'[p] = reply[p]
    BY <1>0, <1>1, <1>2, Zenon DEF DnsShapes
  <2>4. Fine(l, reply'[q], lost'[q], q \in logged')
    BY <1>0, <2>1, <2>3, Zenon DEF Fine, OnCourse, Answered
  <2>5. DOMAIN lost' = Queries /\ \A p \in Queries \ {q} : lost'[p] = lost[p]
    BY <1>0, Zenon DEF DnsShapes
  <2> QED
    BY <1>0, <2>1, <2>2, <2>3, <2>4, <2>5, OneQueryMoves, Zenon
<1>3. CASE type # "other"
  <2> DEFINE s == IF name \in Suspicious THEN "auditSinkhole" ELSE "evaluate"
             l == [name |-> name, type |-> type, at |-> 1, step |-> s]
  <2>1. DOMAIN l = QueryFields /\ l.at = 1 /\ l.at \in Nat /\ l.step = s /\ l.name = name
    BY Zenon DEF QueryFields
  <2>2. query' = [query EXCEPT ![q] = l]
    BY <1>1, <1>3, Zenon
  <2>3. \/ s = "auditSinkhole"
        \/ s = "evaluate" /\ name \notin Suspicious
    <3>1. CASE name \in Suspicious
      BY <3>1, Zenon
    <3>2. CASE name \notin Suspicious
      BY <3>2, Zenon
    <3> QED
      BY <3>1, <3>2, Zenon
  <2> HIDE DEF l, s
  <2>4. reply'[q] = "none" /\ DOMAIN reply' = Queries /\ \A p \in Queries \ {q} : reply'[p] = reply[p]
    BY <1>0, <1>1, <1>3, Zenon DEF DnsShapes
  <2>5. \A f \in 1..FeedCount : ~(f < l.at)
    BY <2>1, DnsAssumption
  <2>6. Fine(l, reply'[q], lost'[q], q \in logged')
    BY <1>0, <2>1, <2>3, <2>4, <2>5, Zenon DEF Fine, OnCourse, Answered
  <2>7. DOMAIN lost' = Queries /\ \A p \in Queries \ {q} : lost'[p] = lost[p]
    BY <1>0, Zenon DEF DnsShapes
  <2> QED
    BY <1>0, <2>1, <2>2, <2>4, <2>6, <2>7, OneQueryMoves, Zenon
<1> QED
  BY <1>2, <1>3, Zenon

\* The feeds are asked in turn.
LEMMA EvaluatePreserves ==
  ASSUME DnsInvariant, NEW q \in Queries, evaluate(q) \/ FeedFails(q)
  PROVE  DnsInvariant'
<1>0. /\ DnsShapes /\ query[q].step = "evaluate" /\ query[q].at \in Nat
      /\ OnCourse(query[q], reply[q], lost[q], q \in logged)
  BY Before, Zenon DEF evaluate, FeedFails, At
<1>1. CASE evaluate(q)
  <2>0. UNCHANGED <<lost, logged>> /\ DOMAIN lost' = Queries /\ \A p \in Queries \ {q} : lost'[p] = lost[p]
    BY <1>0, <1>1, Zenon DEF evaluate, DnsShapes
  <2>1. CASE query[q].at > FeedCount /\ Go(q, "auditAllow")
    <3>1. ~ListedName(query[q].name)
      BY <1>0, <2>1, DnsAssumption, ListedMeans DEF OnCourse
    <3> QED
      BY <1>0, <2>0, <2>1, <3>1, GoPreserves, Zenon
  <2>2. CASE Go(q, "auditSinkhole")
    BY <1>0, <2>0, <2>2, GoPreserves, Zenon
  <2>3. CASE /\ query[q].at <= FeedCount /\ query[q].name \notin Feeds[query[q].at]
             /\ query' = [query EXCEPT ![q].at = @ + 1]
             /\ UNCHANGED reply
    BY <1>0, <2>0, <2>3, NextPreserves, Zenon
  <2> QED
    BY <1>1, <2>1, <2>2, <2>3, Zenon DEF evaluate
<1>2. CASE FeedFails(q)
  <2>1. /\ Reply(q, "SERVFAIL") /\ logged' = logged /\ DOMAIN lost' = Queries
        /\ lost'[q] = lost[q] \cup {"feed"} /\ \A p \in Queries \ {q} : lost'[p] = lost[p]
    BY <1>0, <1>2, Zenon DEF FeedFails, Lose, DnsShapes
  <2> QED
    BY <2>1, ReplyPreserves, Zenon
<1> QED
  BY <1>1, <1>2, Zenon

\* The decision is recorded, or its record fails: the query goes on either way.
LEMMA RecordPreserves ==
  ASSUME DnsInvariant, NEW q \in Queries, recordDecision(q) \/ RecordFails(q)
  PROVE  DnsInvariant'
<1>0. /\ DnsShapes /\ query[q].step \in {"auditSinkhole", "auditAllow"}
      /\ OnCourse(query[q], reply[q], lost[q], q \in logged)
  BY Before, Zenon DEF recordDecision, RecordFails, At
<1>1. /\ Go(q, AfterAudit(q)) /\ DOMAIN lost' = Queries /\ \A p \in Queries \ {q} : lost'[p] = lost[p]
      /\ logged' \in {logged, logged \cup {q}}
      /\ \/ logged' = logged \cup {q} /\ lost'[q] = lost[q]
         \/ lost'[q] = lost[q] \cup {"audit"}
  BY <1>0, Zenon DEF recordDecision, RecordFails, Lose, DnsShapes
<1>2. \/ AfterAudit(q) = "sinkhole"
      \/ AfterAudit(q) = "upstream" /\ ~ListedName(query[q].name)
  BY <1>0, Zenon DEF AfterAudit, At, OnCourse
<1>3. q \in logged' \/ "audit" \in lost'[q]
  BY <1>1, Zenon
<1> QED
  BY <1>0, <1>1, <1>2, <1>3, GoPreserves, Zenon

\* The sinkhole, the upstreams and their end.
LEMMA AnswerPreserves ==
  ASSUME DnsInvariant, NEW q \in Queries,
         sinkhole(q) \/ resolveUpstream(q) \/ UpstreamFails(q) \/ UpstreamsExhausted(q)
  PROVE  DnsInvariant'
<1>0. /\ DnsShapes /\ query[q].step \in {"sinkhole", "upstream"} /\ query[q].at \in Nat
      /\ OnCourse(query[q], reply[q], lost[q], q \in logged)
  BY Before, Zenon DEF sinkhole, resolveUpstream, UpstreamFails, UpstreamsExhausted, At
<1>1. q \in logged \/ "audit" \in lost[q]
  BY <1>0, Zenon DEF OnCourse
<1>2. query[q].step = "upstream" => ~ListedName(query[q].name)
  BY <1>0, Zenon DEF OnCourse
<1>3. CASE sinkhole(q)
  <2>1. /\ UNCHANGED <<lost, logged>> /\ DOMAIN lost' = Queries /\ \A p \in Queries \ {q} : lost'[p] = lost[p]
        /\ Reply(q, "sinkhole") \/ Reply(q, "empty")
    BY <1>0, <1>3, Zenon DEF sinkhole, DnsShapes
  <2> QED
    BY <1>1, <2>1, ReplyPreserves, Zenon
<1>4. CASE resolveUpstream(q)
  <2>1. /\ UNCHANGED <<lost, logged>> /\ DOMAIN lost' = Queries /\ \A p \in Queries \ {q} : lost'[p] = lost[p]
        /\ \/ Reply(q, "SERVFAIL") /\ query[q].type = "MX"
           \/ Reply(q, "resolved")
           \/ Reply(q, "empty")
    BY <1>0, <1>4, Zenon DEF resolveUpstream, DnsShapes
  <2>2. ~ListedName(query[q].name)
    BY <1>2, <1>4, Zenon DEF resolveUpstream, At
  <2> QED
    BY <1>1, <2>1, <2>2, ReplyPreserves, Zenon
<1>5. CASE UpstreamFails(q)
  <2>1. /\ query' = [query EXCEPT ![q].at = @ + 1] /\ UNCHANGED <<reply, logged>>
        /\ query[q].step = "upstream" /\ lost'[q] = lost[q] \cup {"upstream"}
        /\ DOMAIN lost' = Queries /\ \A p \in Queries \ {q} : lost'[p] = lost[p]
    BY <1>0, <1>5, Zenon DEF UpstreamFails, At, Lose, DnsShapes
  <2> QED
    BY <2>1, NextPreserves, Zenon
<1>6. CASE UpstreamsExhausted(q)
  <2>1. /\ Reply(q, "SERVFAIL") /\ UNCHANGED <<lost, logged>> /\ DOMAIN lost' = Queries
        /\ (\A p \in Queries \ {q} : lost'[p] = lost[p]) /\ query[q].at > UpstreamCount
        /\ query[q].step = "upstream"
    BY <1>0, <1>6, Zenon DEF UpstreamsExhausted, At, DnsShapes
  <2>2. "upstream" \in lost[q]
    BY <1>0, <2>1, DnsAssumption DEF OnCourse
  <2> QED
    BY <2>1, <2>2, ReplyPreserves, Zenon
<1> QED
  BY <1>3, <1>4, <1>5, <1>6, Zenon

\* No failure of the audit fails a query, no listed name is resolved or sent upstream,
\* and no query is answered unaudited unless its own audit failed.
THEOREM DnsOutlivesItsAudit == DnsSpec => []AuditNeverFailsAQuery
<1>1. DnsInit => DnsInvariant
  BY DnsStarts, Zenon
<1>2. DnsInvariant /\ [DnsNext]_dnsVars => DnsInvariant'
  <2> SUFFICES ASSUME DnsInvariant, [DnsNext]_dnsVars PROVE DnsInvariant'
    BY Zenon
  <2>1. CASE DnsNext
    BY <2>1, HandleQueryPreserves, EvaluatePreserves, RecordPreserves, AnswerPreserves, Zenon DEF DnsNext
  <2>2. CASE UNCHANGED dnsVars
    BY <2>2, Zenon DEF dnsVars, DnsInvariant, DnsShapes, Fine, OnCourse, Answered
  <2> QED
    BY <2>1, <2>2, Zenon
<1>3. DnsInvariant => AuditNeverFailsAQuery
  BY Zenon DEF DnsInvariant, Fine, Answered, AuditNeverFailsAQuery, Listed, ListedName
<1> QED
  BY <1>1, <1>2, <1>3, PTL DEF DnsSpec

-----------------------------------------------------------------------------
(***************************************************************************)
(* The session count of the SOCKS5 proxy, for any number of clients.       *)
(*                                                                         *)
(* The count is right because "closed" of handleClient is set exactly for  *)
(* the clients whose end an event has reported (ClosedOnce); that an       *)
(* upstream connection outlives its client only after an error needs that  *)
(* a client is ended by the proxy only when its upstream is not there any  *)
(* more, or never was (UpstreamFollows).                                   *)
(***************************************************************************)

ClientStates == {"none", "greeting", "request", "connecting", "piping", "ending", "destroyed", "gone"}

EgressTypes ==
  /\ sockets \in [Clients -> [client : ClientStates, upstream : {"none", "connecting", "open", "closed"},
                              closed : BOOLEAN]]
  /\ reset \subseteq Clients

ClosedOnce == \A c \in Clients :
  /\ sockets[c].closed <=> (sockets[c].client = "gone" \/ c \in reset)
  /\ c \in reset => sockets[c].client \in {"destroyed", "gone"}

UpstreamFollows == \A c \in Clients :
  /\ sockets[c].client \in {"none", "greeting", "request"} => sockets[c].upstream = "none"
  /\ sockets[c].client = "ending" => sockets[c].upstream \in {"none", "closed"}
  /\ sockets[c].upstream = "open" /\ ~Open(c) => c \in reset

UnfinishedClients == {c \in Clients : Unfinished(c)}

NoClientsYet == sockets = [c \in Clients |-> NoSocket] /\ activeConnections = 0 /\ reset = {}

\* The inductive invariant.
EgressInvariant ==
  EgressTypes /\ ClosedOnce /\ UpstreamFollows /\ activeConnections = Cardinality(UnfinishedClients)

\* One client more is counted as one more, and one less as one less.
LEMMA CountChanges ==
  ASSUME NEW c \in Clients
  PROVE  /\ IsFiniteSet(UnfinishedClients)
         /\ c \notin UnfinishedClients =>
              Cardinality(UnfinishedClients \cup {c}) = Cardinality(UnfinishedClients) + 1
         /\ c \in UnfinishedClients =>
              Cardinality(UnfinishedClients \ {c}) = Cardinality(UnfinishedClients) - 1
<1>1. IsFiniteSet(UnfinishedClients)
  BY EgressAssumption, FS_Subset, Zenon DEF UnfinishedClients
<1> QED
  BY <1>1, FS_AddElement, FS_RemoveElement, Zenon

\* A proxy without clients satisfies the invariant.
LEMMA NoClients == NoClientsYet => EgressInvariant
<1> SUFFICES ASSUME NoClientsYet PROVE EgressInvariant
  BY Zenon
<1> USE DEF NoClientsYet
<1>1. EgressTypes
  BY Zenon DEF EgressTypes, NoSocket, ClientStates
<1>2. ClosedOnce
  BY Zenon DEF ClosedOnce, NoSocket
<1>3. UpstreamFollows
  BY Zenon DEF UpstreamFollows, NoSocket
<1>4. UnfinishedClients = {}
  BY Zenon DEF UnfinishedClients, Unfinished, Open, NoSocket
<1> QED
  BY <1>1, <1>2, <1>3, <1>4, FS_EmptySet, Zenon DEF EgressInvariant

\* A step that sets no "closed" and changes no reset preserves the invariant if each
\* client that was unfinished stays so and no other becomes it.
LEMMA SameCount ==
  ASSUME EgressInvariant, NEW c \in Clients,
         UNCHANGED <<activeConnections, reset>>,
         NEW state \in ClientStates, NEW up \in {"none", "connecting", "open", "closed"},
         sockets' = [sockets EXCEPT ![c].client = state, ![c].upstream = up],
         Unfinished(c), state \notin {"none", "gone"},
         state \in {"greeting", "request"} => up = "none",
         state = "ending" => up \in {"none", "closed"},
         state = "destroyed" => up # "open"
  PROVE  EgressInvariant'
<1> USE DEF EgressInvariant
<1>1. sockets[c].closed = FALSE /\ c \notin reset /\ sockets[c].client # "gone"
  BY Zenon DEF EgressTypes, ClosedOnce, Unfinished, Open
<1>2. EgressTypes'
  BY ZenonT(40) DEF EgressTypes
<1>3. /\ sockets'[c].client = state /\ sockets'[c].upstream = up /\ sockets'[c].closed = sockets[c].closed
      /\ \A d \in Clients \ {c} : sockets'[d] = sockets[d]
  BY Zenon DEF EgressTypes
<1>4. ClosedOnce'
  BY <1>1, <1>3, Zenon DEF ClosedOnce
<1>5. UpstreamFollows'
  BY <1>1, <1>3, ZenonT(40) DEF UpstreamFollows, Open, ClientStates
<1>6. UnfinishedClients' = UnfinishedClients
  BY <1>1, <1>3, ZenonT(40) DEF UnfinishedClients, Unfinished, Open, ClientStates
<1> QED
  BY <1>2, <1>4, <1>5, <1>6, Zenon

\* A step of the upstream socket alone preserves it, if the client is not one that the
\* proxy has not connected yet.
LEMMA UpstreamOnly ==
  ASSUME EgressInvariant, NEW c \in Clients,
         UNCHANGED <<activeConnections, reset>>,
         NEW up \in {"closed", "open"},
         sockets' = [sockets EXCEPT ![c].upstream = up],
         sockets[c].client \notin {"none", "greeting", "request"},
         up = "open" => c \in reset
  PROVE  EgressInvariant'
<1> USE DEF EgressInvariant
<1>1. EgressTypes'
  BY Zenon DEF EgressTypes
<1>2. /\ sockets'[c].client = sockets[c].client /\ sockets'[c].upstream = up
      /\ sockets'[c].closed = sockets[c].closed
      /\ \A d \in Clients \ {c} : sockets'[d] = sockets[d]
  BY Zenon DEF EgressTypes
<1>3. ClosedOnce'
  BY <1>2, Zenon DEF ClosedOnce
<1>4. UpstreamFollows'
  BY <1>2 DEF UpstreamFollows, ClosedOnce, Open
<1>5. UnfinishedClients' = UnfinishedClients
  BY <1>2, Zenon DEF UnfinishedClients, Unfinished, Open
<1> QED
  BY <1>1, <1>3, <1>4, <1>5, Zenon

\* onClose counts the client down once, whichever event calls it.
LEMMA CountedDownOnce ==
  ASSUME EgressInvariant, NEW c \in Clients, ClientError(c) \/ ClientClose(c)
  PROVE  EgressInvariant'
<1> USE DEF EgressInvariant
<1>1. PICK s \in {"destroyed", "gone"} :
        /\ onClose(c, s)
        /\ s = "destroyed" => Open(c) /\ reset' = reset \cup {c}
        /\ s = "gone" => sockets[c].client \in {"ending", "destroyed"} /\ reset' = reset
  BY Zenon DEF ClientError, ClientClose
<1>2. EgressTypes'
  BY <1>1, ZenonT(40) DEF EgressTypes, onClose, ClientStates
<1>3. /\ sockets'[c].client = s /\ sockets'[c].upstream = sockets[c].upstream /\ sockets'[c].closed
      /\ \A d \in Clients \ {c} : sockets'[d] = sockets[d]
  BY <1>1, Zenon DEF EgressTypes, onClose
<1>4. reset' \subseteq reset \cup {c} /\ reset \subseteq reset'
  BY <1>1, Zenon
<1>5. ClosedOnce'
  BY <1>1, <1>3, <1>4, Zenon DEF ClosedOnce
<1>6. UpstreamFollows'
  BY <1>1, <1>3, <1>4, ZenonT(40) DEF UpstreamFollows, Open
<1>7. UnfinishedClients' = UnfinishedClients \ {c}
  BY <1>1, <1>3, <1>4, Zenon DEF UnfinishedClients, Unfinished, Open
<1>8. c \in UnfinishedClients <=> ~sockets[c].closed
  BY <1>1, Zenon DEF UnfinishedClients, Unfinished, Open, ClosedOnce
<1>9. activeConnections' = Cardinality(UnfinishedClients')
  <2>1. CASE sockets[c].closed
    BY <1>1, <1>7, <1>8, <2>1, Zenon DEF onClose
  <2>2. CASE ~sockets[c].closed
    BY <1>1, <1>7, <1>8, <2>2, CountChanges, Zenon DEF onClose
  <2> QED
    BY <2>1, <2>2, Zenon
<1> QED
  BY <1>2, <1>5, <1>6, <1>9, Zenon

\* A client that connects is counted.
LEMMA CountedUp ==
  ASSUME EgressInvariant, NEW c \in Clients, handleClient(c)
  PROVE  EgressInvariant'
<1> USE DEF EgressInvariant, handleClient, ClientIs
<1>1. EgressTypes'
  BY Zenon DEF EgressTypes, ClientStates
<1>2. /\ sockets'[c].client = "greeting" /\ sockets'[c].upstream = sockets[c].upstream
      /\ sockets'[c].closed = sockets[c].closed
      /\ \A d \in Clients \ {c} : sockets'[d] = sockets[d]
  BY Zenon DEF EgressTypes
<1>3. ClosedOnce'
  BY <1>2, Zenon DEF ClosedOnce
<1>4. UpstreamFollows'
  BY <1>2 DEF UpstreamFollows, Open
<1>5. c \notin UnfinishedClients /\ UnfinishedClients' = UnfinishedClients \cup {c}
  BY <1>2 DEF UnfinishedClients, Unfinished, Open
<1> QED
  BY <1>1, <1>3, <1>4, <1>5, CountChanges, Zenon

\* Every step of the proxy and of its sockets preserves the invariant.
LEMMA EgressStep == EgressInvariant /\ [EgressNext]_egressVars => EgressInvariant'
<1> SUFFICES ASSUME EgressInvariant, [EgressNext]_egressVars PROVE EgressInvariant'
  BY Zenon
<1>1. CASE start
  <2>1. NoClientsYet'
    BY <1>1, Zenon DEF start, NoClientsYet
  <2> QED
    BY <2>1, NoClients, PTL
<1>2. CASE stop \/ UNCHANGED egressVars
  BY <1>2, Zenon DEF stop, egressVars, EgressInvariant, EgressTypes, ClosedOnce, UpstreamFollows,
              UnfinishedClients, Unfinished, Open
<1>3. ASSUME NEW c \in Clients, handleClient(c) PROVE EgressInvariant'
  BY <1>3, CountedUp, Zenon
<1>4. ASSUME NEW c \in Clients, ClientError(c) \/ ClientClose(c) PROVE EgressInvariant'
  BY <1>4, CountedDownOnce, Zenon
<1>5. ASSUME NEW c \in Clients, SplitRequest(c) PROVE EgressInvariant'
  <2>1. NoClientsYet'
    BY <1>5, Zenon DEF SplitRequest, NoClientsYet
  <2> QED
    BY <2>1, NoClients, PTL
<1>6. ASSUME NEW c \in Clients, Greeting(c) \/ RefuseRequest(c) \/ handleRequest(c) PROVE EgressInvariant'
  <2>1. PICK state \in ClientStates, up \in {"none", "connecting"} :
          /\ sockets' = [sockets EXCEPT ![c].client = state, ![c].upstream = up]
          /\ state \in {"request", "destroyed", "ending"} => up = "none"
          /\ state \in {"request", "destroyed", "ending", "connecting"}
    BY <1>6 DEF Greeting, RefuseRequest, handleRequest, ClientIs, ClientStates,
                EgressInvariant, EgressTypes, UpstreamFollows
  <2>2. Unfinished(c) /\ UNCHANGED <<activeConnections, reset>>
    BY <1>6, Zenon DEF Greeting, RefuseRequest, handleRequest, Unfinished, Open
  <2> QED
    BY <2>1, <2>2, SameCount, Zenon
<1>7. ASSUME NEW c \in Clients, ClientEnd(c) PROVE EgressInvariant'
  <2>1. PICK up \in {"none", "connecting", "closed"} :
          sockets' = [sockets EXCEPT ![c].client = "destroyed", ![c].upstream = up]
    BY <1>7, Zenon DEF ClientEnd, EgressInvariant, EgressTypes
  <2>2. Unfinished(c) /\ UNCHANGED <<activeConnections, reset>>
    BY <1>7, Zenon DEF ClientEnd, Unfinished
  <2> QED
    BY <2>1, <2>2, SameCount, Zenon DEF ClientStates
<1>8. ASSUME NEW c \in Clients, UpstreamError(c) \/ UpstreamEnd(c) PROVE EgressInvariant'
  <2>1. CASE Open(c)
    <3>1. sockets' = [sockets EXCEPT ![c].client = "ending", ![c].upstream = "closed"]
      BY <1>8, <2>1, Zenon DEF UpstreamError, UpstreamEnd
    <3>2. Unfinished(c) /\ UNCHANGED <<activeConnections, reset>>
      BY <1>8, <2>1, Zenon DEF UpstreamError, UpstreamEnd, Unfinished
    <3> QED
      BY <3>1, <3>2, SameCount, Zenon DEF ClientStates
  <2>2. CASE ~Open(c)
    <3>1. sockets' = [sockets EXCEPT ![c].upstream = "closed"] /\ UNCHANGED <<activeConnections, reset>>
      BY <1>8, <2>2, Zenon DEF UpstreamError, UpstreamEnd, EgressInvariant, EgressTypes
    <3>2. sockets[c].client \notin {"none", "greeting", "request"}
      BY <1>8, Zenon DEF UpstreamError, UpstreamEnd, EgressInvariant, UpstreamFollows
    <3> QED
      BY <3>1, <3>2, UpstreamOnly, Zenon
  <2> QED
    BY <2>1, <2>2, Zenon
<1>9. ASSUME NEW c \in Clients, Connected(c) PROVE EgressInvariant'
  <2>1. CASE sockets[c].client = "connecting"
    <3>1. sockets' = [sockets EXCEPT ![c].client = "piping", ![c].upstream = "open"]
      BY <1>9, <2>1, Zenon DEF Connected
    <3>2. Unfinished(c) /\ UNCHANGED <<activeConnections, reset>>
      BY <1>9, <2>1, Zenon DEF Connected, Unfinished, Open
    <3> QED
      BY <3>1, <3>2, SameCount, Zenon DEF ClientStates
  <2>2. CASE sockets[c].client # "connecting"
    <3>1. PICK up \in {"open", "closed"} :
            /\ sockets' = [sockets EXCEPT ![c].upstream = up] /\ UNCHANGED <<activeConnections, reset>>
            /\ up = "open" => c \in reset
      BY <1>9, <2>2, Zenon DEF Connected, EgressInvariant, EgressTypes
    <3>2. sockets[c].client \notin {"none", "greeting", "request"}
      BY <1>9, Zenon DEF Connected, EgressInvariant, UpstreamFollows
    <3> QED
      BY <3>1, <3>2, UpstreamOnly, Zenon
  <2> QED
    BY <2>1, <2>2, Zenon
<1> QED
  BY <1>1, <1>2, <1>3, <1>4, <1>5, <1>6, <1>7, <1>8, <1>9, Zenon DEF EgressNext

\* The sessions that a gateway reports are those of the clients whose end it has not seen,
\* and only an error of a client leaves its upstream connection behind, for any clients.
THEOREM CountIsRight == EgressSpec => []SessionsAreCounted
<1>1. EgressInit => EgressInvariant
  BY NoClients, Zenon DEF EgressInit, NoClientsYet
<1>2. EgressInvariant => SessionsAreCounted
  BY Zenon DEF EgressInvariant, UpstreamFollows, UnfinishedClients, SessionsAreCounted
<1> QED
  BY <1>1, <1>2, EgressStep, PTL DEF EgressSpec

=============================================================================
