------------------------------- MODULE Gateway -------------------------------
(***************************************************************************)
(* The REST gateway in front of the control plane: RestRouter.handle and   *)
(* the three guards it applies before a handler runs.                      *)
(*                                                                         *)
(* A request runs to its first await (route, bearer token, rate limit) in  *)
(* one step, because Node.js does not interleave it before; every later    *)
(* await (claim of the nonce, body, look-up of the idempotency key,        *)
(* handler, store of the answer) is a step of its own, so two requests     *)
(* interleave there.  Two routes stand for the two kinds there are:        *)
(* "lockdown" (replay protected, POST /api/v1/soc/emergency-lockdown) and  *)
(* "policy" (idempotent, PUT /api/v1/policies/:id).  The rate limiter      *)
(* lives in the process and is lost when it restarts; nonces and           *)
(* idempotency keys are rows of the database, removed by the retention     *)
(* job some time after they expire.                                        *)
(***************************************************************************)
EXTENDS Integers, Sequences, FiniteSets

CONSTANTS
  Requests,     \* the connections a caller holds open
  Nonces,       \* values of X-Request-Nonce
  Keys,         \* values of Idempotency-Key
  Bodies,       \* request bodies
  Targets,      \* what :id of the policy route names
  Limits,       \* [route -> requests allowed in one window]
  Window,       \* length of the rate-limit window, in ticks
  NonceLife,    \* life of a nonce, in ticks
  KeyLife,      \* life of an idempotency key, in ticks
  MaxClock      \* bound on the ticks explored

Absent == 0     \* a header that is not sent

ASSUME GatewayAssumption ==
  /\ Absent \notin Nonces \cup Keys \cup Bodies \cup Targets
  /\ DOMAIN Limits = {"lockdown", "policy"}
  /\ {Window, NonceLife, KeyLife, MaxClock} \subseteq Nat \ {0}

VARIABLES
  clock,        \* the time, in ticks
  hits,         \* MemoryRateLimiter.hits: [path -> times of the caller's requests let in]
  nonceRows,    \* replay_nonces
  keyRows,      \* api_idempotency
  slot,         \* [request -> the request being served and where it stands]
  claims,       \* history: [nonce -> times it was accepted]
  ran,          \* history: [key -> times the handler ran since the key was last free]
  excused       \* history: keys whose run was raced, unanswered or not stored

gatewayVars == <<clock, hits, nonceRows, keyRows, slot, claims, ran, excused>>

-----------------------------------------------------------------------------
Routes == {"lockdown", "policy"}

\* The paths of the routes, each with its window.
Paths == {<<"lockdown", Absent>>} \cup ({"policy"} \X Targets)

RoleOf == [lockdown |-> "security-owner", policy |-> "security-approver"]

\* What a caller may send.  A token is valid before exp; a body may not be JSON.
Query ==
  [route : {"lockdown"}, role : {"security-owner", "security-approver"},
   exp : {0, MaxClock + 1}, nonce : Nonces \cup {Absent}, key : {Absent},
   target : {Absent}, body : {Absent}, json : BOOLEAN]
  \cup
  [route : {"policy"}, role : {"security-approver"},
   exp : {MaxClock + 1}, nonce : {Absent}, key : Keys \cup {Absent},
   target : Targets, body : Bodies, json : {TRUE}]

NoQuery == [route |-> "policy", role |-> "security-approver", exp |-> 0, nonce |-> Absent,
            key |-> Absent, target |-> Absent, body |-> Absent, json |-> TRUE]

\* A response: its status, and the target and the body it was computed from.
Response(status, target, body) == [status |-> status, target |-> target, body |-> body]

NoResponse == Response(0, Absent, Absent)

Free == [step |-> "done", q |-> NoQuery, answer |-> NoResponse]

GatewayInit ==
  /\ clock = 1
  /\ hits = [p \in Paths |-> <<>>]
  /\ nonceRows = {}
  /\ keyRows = {}
  /\ slot = [r \in Requests |-> Free]
  /\ claims = [n \in Nonces |-> <<>>]
  /\ ran = [k \in Keys |-> 0]
  /\ excused = {}

-----------------------------------------------------------------------------
Goto(r, s) == slot' = [slot EXCEPT ![r].step = s]

respond(r, response) == slot' = [slot EXCEPT ![r].step = "done", ![r].answer = response]

Refuse(r, status) == slot' = [slot EXCEPT ![r] = [Free EXCEPT !.answer.status = status]]

\* HmacBearerGuard.verify: a signed token that has not expired and a role of the route.
verify(q) == q.exp > clock /\ q.role = RoleOf[q.route]

Path(q) == <<q.route, q.target>>

Recent(q) == SelectSeq(hits[Path(q)], LAMBDA t : t > clock - Window)

\* Variant of check: a refused request is counted too.
checkAlways(q) == hits' = [hits EXCEPT ![Path(q)] = Append(Recent(q), clock)]

\* MemoryRateLimiter.check: drop what is out of the window, then count.
check(q) ==
  hits' = [hits EXCEPT ![Path(q)] =
             IF Len(Recent(q)) < Limits[q.route] THEN Append(Recent(q), clock)
             ELSE Recent(q)]

\* RestRouter.handle up to its first await.
handle(r, q) ==
  /\ slot[r].step = "done"
  /\ \/ /\ ~verify(q)
        /\ Refuse(r, IF q.exp > clock THEN 403 ELSE 401)
        /\ UNCHANGED hits
     \/ /\ verify(q)
        /\ check(q)
        /\ IF Len(Recent(q)) < Limits[q.route]
           THEN slot' = [slot EXCEPT ![r] =
                  [Free EXCEPT !.q = q, !.step = IF q.route = "lockdown" THEN "claim" ELSE "read"]]
           ELSE Refuse(r, 429)
  /\ UNCHANGED <<clock, nonceRows, keyRows, claims, ran, excused>>

\* Variant of Claimed: the claim of a nonce that has a row succeeds too.
ClaimedNever(nonce) == FALSE

Claimed(nonce) == \E row \in nonceRows : row.nonce = nonce

\* enforceReplayNonce with PgReplayStore.claim: INSERT ... ON CONFLICT DO NOTHING.
enforceReplayNonce(r) ==
  LET nonce == slot[r].q.nonce
  IN  /\ slot[r].step = "claim"
      /\ IF nonce = Absent \/ Claimed(nonce)
         THEN /\ Refuse(r, IF nonce = Absent THEN 400 ELSE 409)
              /\ UNCHANGED <<nonceRows, claims>>
         ELSE /\ nonceRows' = nonceRows \cup {[nonce |-> nonce, until |-> clock + NonceLife]}
              /\ claims' = [claims EXCEPT ![nonce] = Append(@, clock)]
              /\ Goto(r, "read")
      /\ UNCHANGED <<clock, hits, keyRows, ran, excused>>

\* RestRouter.readJson: a body that is not JSON ends the request, the nonce stays claimed.
readJson(r) ==
  /\ slot[r].step = "read"
  /\ IF slot[r].q.json
     THEN Goto(r, IF slot[r].q.key = Absent THEN "compute" ELSE "get")
     ELSE Refuse(r, 400)
  /\ UNCHANGED <<clock, hits, nonceRows, keyRows, claims, ran, excused>>

\* Variant of SameRequest: any body is taken for the stored one.
SameRequestAlways(row, q) == TRUE

\* The hash is of the body alone: neither the route nor the target is in it.
SameRequest(row, q) == row.body = q.body

\* The rows PgIdempotencyStore.get sees.
LiveRows(key) == {row \in keyRows : row.key = key /\ row.until > clock}

\* Variant of get: a stored answer is not looked up.
getNothing(r) ==
  /\ slot[r].step = "get"
  /\ Goto(r, "compute")
  /\ UNCHANGED <<clock, hits, nonceRows, keyRows, claims, ran, excused>>

\* withIdempotency before compute: replay, refuse, or go on.
get(r) ==
  LET q == slot[r].q
  IN  /\ slot[r].step = "get"
      /\ \/ /\ LiveRows(q.key) = {}
            /\ Goto(r, "compute")
         \/ \E row \in LiveRows(q.key) :
              IF SameRequest(row, q) THEN respond(r, row.response) ELSE Refuse(r, 409)
      /\ UNCHANGED <<clock, hits, nonceRows, keyRows, claims, ran, excused>>

\* Another request with the same key is past its look-up and has not stored its answer.
Raced(r) ==
  \E o \in Requests \ {r} : slot[o].q.key = slot[r].q.key /\ slot[o].step \in {"compute", "put"}

\* The handler runs; it may fail, and then nothing is stored.
compute(r) ==
  LET q == slot[r].q
  IN  /\ slot[r].step = "compute"
      /\ \/ /\ Refuse(r, 500)
            /\ UNCHANGED <<ran, excused>>
         \/ /\ q.key = Absent
            /\ respond(r, Response(200, q.target, q.body))
            /\ UNCHANGED <<ran, excused>>
         \/ /\ q.key # Absent
            /\ slot' = [slot EXCEPT ![r].step = "put",
                                    ![r].answer = Response(200, q.target, q.body)]
            /\ ran' = [ran EXCEPT ![q.key] = IF @ < 2 THEN @ + 1 ELSE 2]
            /\ excused' = IF Raced(r) THEN excused \cup {q.key} ELSE excused
      /\ UNCHANGED <<clock, hits, nonceRows, keyRows, claims>>

\* PgIdempotencyStore.put: ON CONFLICT DO NOTHING, also against an expired row.
put(r) ==
  LET q == slot[r].q
  IN  /\ slot[r].step = "put"
      /\ respond(r, slot[r].answer)
      /\ IF \E row \in keyRows : row.key = q.key
         THEN keyRows' = keyRows /\ excused' = excused \cup {q.key}
         ELSE /\ keyRows' = keyRows \cup {[key |-> q.key, body |-> q.body,
                                           response |-> slot[r].answer, until |-> clock + KeyLife]}
              /\ excused' = IF Raced(r) THEN excused \cup {q.key} ELSE excused
      /\ UNCHANGED <<clock, hits, nonceRows, claims, ran>>

-----------------------------------------------------------------------------
\* A key is free again when its row expires.
Tick ==
  /\ clock < MaxClock
  /\ clock' = clock + 1
  /\ ran' = [k \in Keys |-> IF \E row \in keyRows : row.key = k /\ row.until = clock + 1
                            THEN 0 ELSE ran[k]]
  /\ UNCHANGED <<hits, nonceRows, keyRows, slot, claims, excused>>

\* purge_expired_control_plane_rows, the two tables of the gateway.
purgeGatewayRows ==
  /\ nonceRows' = {row \in nonceRows : row.until >= clock}
  /\ keyRows' = {row \in keyRows : row.until >= clock}
  /\ <<nonceRows', keyRows'>> # <<nonceRows, keyRows>>
  /\ UNCHANGED <<clock, hits, slot, claims, ran, excused>>

\* The process ends and starts again: requests are cut, the limiter is empty.
RestartGateway ==
  /\ slot' = [r \in Requests |-> Free]
  /\ hits' = [p \in Paths |-> <<>>]
  /\ excused' = excused \cup {slot[r].q.key : r \in {o \in Requests : slot[o].step = "put"}}
  /\ UNCHANGED <<clock, nonceRows, keyRows, claims, ran>>

\* The gateway serving some of its routes; two routes share no row and no window.
GatewayNext(routes) ==
  \/ \E r \in Requests, q \in Query : q.route \in routes /\ handle(r, q)
  \/ \E r \in Requests : enforceReplayNonce(r) \/ readJson(r) \/ get(r) \/ compute(r) \/ put(r)
  \/ Tick
  \/ purgeGatewayRows
  \/ RestartGateway

GatewaySpec == GatewayInit /\ [][GatewayNext(Routes)]_gatewayVars
-----------------------------------------------------------------------------
\* The variables have their types.
GatewayTypeOK ==
  /\ clock \in 1..MaxClock
  /\ \A p \in Paths : Len(hits[p]) <= Limits[p[1]]
  /\ nonceRows \subseteq [nonce : Nonces, until : Nat]
  /\ keyRows \subseteq [key : Keys, body : Bodies, until : Nat,
                        response : [status : {200}, target : Targets, body : Bodies]]
  /\ slot \in [Requests ->
       [step : {"done", "claim", "read", "get", "compute", "put"},
        q : Query \cup {NoQuery},
        answer : [status : {0, 200, 400, 401, 403, 409, 429, 500},
                  target : Targets \cup {Absent}, body : Bodies \cup {Absent}]]]
  /\ ran \in [Keys -> 0..2]
  /\ excused \subseteq Keys

\* One nonce lets at most one request through in its five minutes, whatever
\* requests, restarts of the process and purges of the table come between
\* (enforceReplayNonce, PgReplayStore.claim, purge_expired_control_plane_rows).
NonceAdmitsOnce ==
  \A n \in Nonces : \A i, j \in DOMAIN claims[n] : i < j => claims[n][j] - claims[n][i] >= NonceLife

\* Within the life of its stored answer a handler runs once for an idempotency
\* key (withIdempotency), unless two requests with the key were past the look-up
\* together, the process ended before the answer was stored, or the store was
\* refused by an expired row that had not been purged.
KeyRunsOnce == \A k \in Keys \ excused : ran[k] <= 1

\* A request is never answered with what was computed for another body, whatever
\* requests with its key ran before it, beside it or were cut off (withIdempotency
\* compares the hash of the body, and of nothing else: not the route, not the target).
AnswersAreForTheBody ==
  \A r \in Requests : slot[r].step = "done" /\ slot[r].answer.status = 200 =>
    slot[r].answer.body = slot[r].q.body
=============================================================================
