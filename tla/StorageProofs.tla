--------------------------- MODULE StorageProofs ----------------------------
(***************************************************************************)
(* Proofs about what is stored: the audit chain, the outbox, the           *)
(* migrations, the telemetry partitions, the files of an enrolled host,    *)
(* and the trust anchor with its revocation lists.  Each is proved for any *)
(* number of writers, runs and rows, with an inductive invariant of its    *)
(* own; the argument is stated at the head of its part.                    *)
(***************************************************************************)
EXTENDS AuditChain, Outbox, Migrations, Retention, HostEnrolment, TrustCore, SequenceTheorems,
        WellFoundedInduction, TLAPS

-----------------------------------------------------------------------------
(***************************************************************************)
(* The hash chain of the audit log.                                        *)
(*                                                                         *)
(* A hash begins with the number it covers, so a record that links to      *)
(* another than the one before it does not verify (NumbersAreHashed); with *)
(* that, the chain verifies exactly as long as every record was computed   *)
(* from the row that was last when it was inserted.                        *)
(***************************************************************************)

\* What a hash is made of.
Marks == Nat \cup Writers

WriterFields == {"reading", "sequence", "hash"}

Records == [sequence : Nat, by : Writers, previous : Seq(Marks), hash : Seq(Marks)]

AuditShapes ==
  /\ chain \in Seq(Records)
  /\ identity \in Nat
  /\ DOMAIN writer = Writers
  /\ \A w \in Writers : DOMAIN writer[w] = WriterFields
  /\ \A w \in Writers : writer[w].sequence \in Nat /\ writer[w].hash \in Seq(Marks)

\* As long as the chain is whole, a hash begins with the number of its row: so a
\* writer that read the hash of the last row read its number too.
NumbersAreHashed ==
  ~broken => /\ last.hash[1] = last.sequence
             /\ \A w \in Writers : writer[w].hash[1] = writer[w].sequence

AuditInvariant == AuditShapes /\ NumbersAreHashed /\ ChainVerifies

\* A hash begins with the number it covers, and tells two numbers apart.
LEMMA DigestNumber ==
  ASSUME NEW n \in Nat, NEW w \in Writers, NEW h \in Seq(Marks)
  PROVE  digest(n, w, h) \in Seq(Marks) /\ digest(n, w, h)[1] = n
<1>1. <<n, w>> \in Seq(Marks) /\ Len(<<n, w>>) = 2 /\ <<n, w>>[1] = n
  BY DEF Marks
<1>2. digest(n, w, h) \in Seq(Marks)
  BY <1>1, ConcatProperties, Zenon DEF digest
<1>3. Len(h) \in Nat
  BY LenProperties, Zenon
<1>4. 1 \in 1..(Len(<<n, w>>) + Len(h)) /\ 1 <= Len(<<n, w>>)
  BY <1>1, <1>3
<1>5. (<<n, w>> \o h)[1] = <<n, w>>[1]
  BY <1>1, <1>4, ConcatProperties, Zenon
<1> QED
  BY <1>1, <1>2, <1>5, Zenon DEF digest

\* The genesis hash is one, of the number 0.
LEMMA GenesisIsHash == Genesis \in Seq(Marks) /\ Genesis[1] = 0
<1>1. 0 \in Marks
  BY Zenon DEF Marks
<1> QED
  BY <1>1 DEF Genesis

\* An empty chain verifies.
LEMMA AuditStarts == AuditInit => AuditInvariant
<1> SUFFICES ASSUME AuditInit PROVE AuditInvariant
  BY Zenon
<1>1. /\ DOMAIN Silent = WriterFields /\ Silent.sequence = 0 /\ Silent.hash = Genesis
  BY Zenon DEF Silent, WriterFields
<1>2. DOMAIN writer = Writers /\ \A w \in Writers : writer[w] = Silent
  BY Zenon DEF AuditInit
<1>3. chain = <<>> /\ identity = 0 /\ broken = FALSE
  BY Zenon DEF AuditInit
<1>4. last.sequence = 0 /\ last.hash = Genesis
  BY <1>3, Zenon DEF last
<1>5. AuditShapes
  BY <1>1, <1>2, <1>3, GenesisIsHash, EmptySeq DEF AuditShapes
<1>6. NumbersAreHashed
  BY <1>1, <1>2, <1>4, GenesisIsHash, Zenon DEF NumbersAreHashed
<1>7. ChainVerifies
  BY <1>3 DEF ChainVerifies, verifyChain
<1> QED
  BY <1>5, <1>6, <1>7, Zenon DEF AuditInvariant

\* The last row, or the genesis, has a number and a hash.
LEMMA LastIsRead ==
  ASSUME AuditShapes
  PROVE  last.sequence \in Nat /\ last.hash \in Seq(Marks)
<1>1. CASE chain = <<>>
  BY <1>1, GenesisIsHash, Zenon DEF last
<1>2. CASE chain # <<>>
  <2>1. Len(chain) \in 1..Len(chain)
    BY <1>2, LenProperties, EmptySeq DEF AuditShapes
  <2>2. chain[Len(chain)] \in Records
    BY <2>1, ElementOfSeq, Zenon DEF AuditShapes
  <2> QED
    BY <1>2, <2>2, Zenon DEF last, Records
<1> QED
  BY <1>1, <1>2, Zenon

\* A writer that falls silent, or reads the last row.
LEMMA WriterMoves ==
  ASSUME AuditInvariant, NEW w \in Writers, record(w) \/ AppendFails(w)
  PROVE  AuditInvariant'
<1>0. AuditShapes /\ NumbersAreHashed /\ ChainVerifies
  BY Zenon DEF AuditInvariant
<1>1. /\ UNCHANGED <<chain, broken>> /\ identity' \in Nat
      /\ DOMAIN writer' = Writers /\ \A v \in Writers \ {w} : writer'[v] = writer[v]
      /\ \/ writer'[w] = Silent
         \/ writer'[w] = [reading |-> TRUE, sequence |-> last.sequence, hash |-> last.hash]
  <2>1. CASE record(w)
    BY <1>0, <2>1, Zenon DEF record, AuditShapes
  <2>2. CASE AppendFails(w)
    BY <1>0, <2>2 DEF AppendFails, AuditShapes
  <2> QED
    BY <2>1, <2>2, Zenon
<1>2. /\ DOMAIN writer'[w] = WriterFields
      /\ \/ writer'[w].sequence = 0 /\ writer'[w].hash = Genesis
         \/ writer'[w].sequence = last.sequence /\ writer'[w].hash = last.hash
  <2>1. CASE writer'[w] = Silent
    BY <2>1 DEF Silent, WriterFields
  <2>2. CASE writer'[w] = [reading |-> TRUE, sequence |-> last.sequence, hash |-> last.hash]
    BY <2>2 DEF WriterFields
  <2> QED
    BY <1>1, <2>1, <2>2, Zenon
<1>3. last' = last
  BY <1>1, Zenon DEF last
<1>4. AuditShapes'
  <2>1. last.sequence \in Nat /\ last.hash \in Seq(Marks)
    BY <1>0, LastIsRead, Zenon
  <2>2. writer'[w].sequence \in Nat /\ writer'[w].hash \in Seq(Marks)
    BY <1>2, <2>1, GenesisIsHash
  <2> QED
    BY <1>0, <1>1, <1>2, <2>2, Zenon DEF AuditShapes
<1>5. NumbersAreHashed'
  BY <1>0, <1>1, <1>2, <1>3, GenesisIsHash, Zenon DEF NumbersAreHashed
<1>6. ChainVerifies'
  BY <1>0, <1>1, Zenon DEF ChainVerifies, verifyChain
<1> QED
  BY <1>4, <1>5, <1>6, Zenon DEF AuditInvariant

\* A record is added: it verifies after the last one exactly if its writer read that one,
\* and its number is the next exactly if no number was lost since.
LEMMA AppendPreserves ==
  ASSUME AuditInvariant, NEW w \in Writers, append(w)
  PROVE  AuditInvariant'
<1>0. AuditShapes /\ NumbersAreHashed /\ ChainVerifies
  BY Zenon DEF AuditInvariant
<1> DEFINE row == Row(w)
           seen == writer[w].sequence
           hash == writer[w].hash
           N == Len(chain)
<1>1. /\ chain' = Append(chain, row) /\ identity' = identity + 1
      /\ DOMAIN writer' = Writers /\ \A v \in Writers \ {w} : writer'[v] = writer[v]
      /\ writer'[w] = Silent
      /\ broken' = (broken \/ hash # last.hash \/ identity # last.sequence)
  BY <1>0, Zenon DEF append, AuditShapes
<1>2. /\ seen \in Nat /\ hash \in Seq(Marks) /\ identity \in Nat /\ chain \in Seq(Records) /\ N \in Nat
      /\ last.sequence \in Nat /\ last.hash \in Seq(Marks)
  BY <1>0, LastIsRead, LenProperties, Zenon DEF AuditShapes
<1>3. /\ row.sequence = identity + 1 /\ row.by = w /\ row.previous = hash
      /\ row.hash = digest(seen + 1, w, hash) /\ row.hash \in Seq(Marks) /\ row.hash[1] = seen + 1
      /\ row \in Records
  <2>1. /\ digest(seen + 1, w, hash) \in Seq(Marks) /\ digest(seen + 1, w, hash)[1] = seen + 1
    BY <1>2, DigestNumber, SMTT(20)
  <2> QED
    BY <1>2, <2>1 DEF Row, Records
<1>4. /\ DOMAIN Silent = WriterFields /\ Silent.sequence = 0 /\ Silent.hash = Genesis
  BY Zenon DEF Silent, WriterFields
<1>5. /\ chain' \in Seq(Records) /\ Len(chain') = N + 1 /\ chain'[N + 1] = row
      /\ \A i \in 1..N : chain'[i] = chain[i]
  BY <1>1, <1>2, <1>3, AppendProperties
<1>6. last'.sequence = row.sequence /\ last'.hash = row.hash
  <2>1. chain' # <<>>
    BY <1>2, <1>5, EmptySeq
  <2> QED
    BY <1>5, <2>1, Zenon DEF last
<1>7. DOMAIN chain = 1..N /\ DOMAIN chain' = 1..(N + 1)
  BY <1>2, <1>5, LenProperties, Zenon
<1>8. last.hash = (IF N + 1 = 1 THEN Genesis ELSE chain'[N + 1 - 1].hash)
  <2>1. CASE N = 0
    <3>1. chain = <<>>
      BY <1>2, <2>1, EmptySeq, Zenon
    <3> QED
      BY <2>1, <3>1 DEF last
  <2>2. CASE N # 0
    <3>1. chain # <<>> /\ N \in 1..N /\ N + 1 - 1 = N /\ N + 1 # 1
      BY <1>2, <2>2, EmptySeq
    <3>2. chain'[N] = chain[N] /\ last.hash = chain[N].hash
      BY <1>5, <3>1, Zenon DEF last
    <3> QED
      BY <3>1, <3>2, Zenon
  <2> QED
    BY <2>1, <2>2, Zenon
<1> HIDE DEF row
<1>9. AuditShapes'
  <2>1. writer'[w].sequence \in Nat /\ writer'[w].hash \in Seq(Marks) /\ DOMAIN writer'[w] = WriterFields
    BY <1>1, <1>4, GenesisIsHash
  <2>2. \A v \in Writers : writer'[v].sequence \in Nat /\ writer'[v].hash \in Seq(Marks) /\ DOMAIN writer'[v] = WriterFields
    BY <1>0, <1>1, <2>1, Zenon DEF AuditShapes
  <2>3. identity' \in Nat
    BY <1>1, <1>2
  <2> QED
    BY <1>1, <1>5, <2>2, <2>3, Zenon DEF AuditShapes
<1>10. ASSUME ~broken, hash = last.hash PROVE seen = last.sequence
  BY <1>0, <1>10, Zenon DEF NumbersAreHashed
<1>11. NumbersAreHashed'
  <2> SUFFICES ASSUME ~broken'
               PROVE  /\ last'.hash[1] = last'.sequence
                      /\ \A v \in Writers : writer'[v].hash[1] = writer'[v].sequence
    BY Zenon DEF NumbersAreHashed
  <2>1. ~broken /\ hash = last.hash /\ identity = last.sequence
    BY <1>1, Zenon
  <2>2. seen = last.sequence
    BY <1>10, <2>1, Zenon
  <2> QED
    BY <1>0, <1>1, <1>3, <1>4, <1>6, <2>1, <2>2, GenesisIsHash, SMTT(20) DEF NumbersAreHashed
<1> DEFINE Sound(c, i) == /\ c[i].previous = (IF i = 1 THEN Genesis ELSE c[i - 1].hash)
                          /\ c[i].hash = digest(c[i].sequence, c[i].by, c[i].previous)
<1>12. \A i \in 1..N : Sound(chain', i) <=> Sound(chain, i)
  <2> SUFFICES ASSUME NEW i \in 1..N PROVE Sound(chain', i) <=> Sound(chain, i)
    BY Zenon
  <2>1. chain'[i] = chain[i]
    BY <1>5, Zenon
  <2>2. i # 1 => chain'[i - 1] = chain[i - 1]
    <3> SUFFICES ASSUME i # 1 PROVE i - 1 \in 1..N
      BY <1>5, Zenon
    <3> QED
      BY <1>2
  <2> QED
    BY <2>1, <2>2, Zenon
<1>13. (verifyChain <=> \A i \in 1..N : Sound(chain, i)) /\ (verifyChain' <=> \A i \in 1..(N + 1) : Sound(chain', i))
  BY <1>7, Zenon DEF verifyChain
<1>14. Sound(chain', N + 1) <=> hash = last.hash /\ row.hash = digest(row.sequence, w, hash)
  <2>1. chain'[N + 1].previous = hash /\ chain'[N + 1].by = w
    BY <1>3, <1>5, Zenon
  <2>2. chain'[N + 1].previous = (IF N + 1 = 1 THEN Genesis ELSE chain'[N + 1 - 1].hash)
          <=> hash = last.hash
    BY <1>8, <2>1, Zenon
  <2>3. chain'[N + 1].hash = digest(chain'[N + 1].sequence, chain'[N + 1].by, chain'[N + 1].previous)
          <=> row.hash = digest(row.sequence, w, hash)
    BY <1>5, <2>1, Zenon
  <2> QED
    BY <2>2, <2>3
<1>15. 1..(N + 1) = (1..N) \cup {N + 1}
  BY <1>2, SMTT(20)
<1> HIDE DEF Sound
<1>16. verifyChain' <=> verifyChain /\ Sound(chain', N + 1)
  BY <1>12, <1>13, <1>15, Zenon
<1>17. row.hash = digest(row.sequence, w, hash) <=> seen = identity
  <2>1. digest(identity + 1, w, hash)[1] = identity + 1
    BY <1>2, DigestNumber
  <2> QED
    BY <1>2, <1>3, <2>1
<1>18. ChainVerifies'
  <2>1. verifyChain <=> ~broken
    BY <1>0, Zenon DEF ChainVerifies
  <2>2. CASE broken
    BY <1>1, <1>16, <2>1, <2>2, Zenon DEF ChainVerifies
  <2>3. CASE ~broken /\ hash # last.hash
    BY <1>1, <1>14, <1>16, <2>3, Zenon DEF ChainVerifies
  <2>4. CASE ~broken /\ hash = last.hash
    BY <1>1, <1>10, <1>14, <1>16, <1>17, <2>1, <2>4, Zenon DEF ChainVerifies
  <2> QED
    BY <2>2, <2>3, <2>4, Zenon
<1> QED
  BY <1>9, <1>11, <1>18, Zenon DEF AuditInvariant

\* The chain verifies exactly as long as no record was added over a stale last row or
\* after a lost number, for every number of writers, records and failures.
THEOREM ChainTellsTheTruth == AuditSpec => []ChainVerifies
<1>1. AuditInit => AuditInvariant
  BY AuditStarts, Zenon
<1>2. AuditInvariant /\ [AuditNext]_auditVars => AuditInvariant'
  <2> SUFFICES ASSUME AuditInvariant, [AuditNext]_auditVars PROVE AuditInvariant'
    BY Zenon
  <2>1. CASE AuditNext
    BY <2>1, WriterMoves, AppendPreserves, Zenon DEF AuditNext
  <2>2. CASE UNCHANGED auditVars
    BY <2>2, Zenon DEF auditVars, AuditInvariant, AuditShapes, NumbersAreHashed, ChainVerifies, verifyChain, last
  <2> QED
    BY <2>1, <2>2, Zenon
<1>3. AuditInvariant => ChainVerifies
  BY Zenon DEF AuditInvariant
<1> QED
  BY <1>1, <1>2, <1>3, PTL DEF AuditSpec

-----------------------------------------------------------------------------
(***************************************************************************)
(* Proof that the outbox neither loses nor repeats an event without need,  *)
(* for any number of dispatchers, rows and failures.                       *)
(*                                                                         *)
(* The property says nothing of a flush that is under way, so it is not    *)
(* inductive.  A flush holds unpublished rows that no other flush holds    *)
(* (LocksExclude), it has delivered exactly those it counts as sent        *)
(* (SentOnce), and a row that no flush has sent was delivered only if a    *)
(* flush that sent it was rolled back or committed.                        *)
(***************************************************************************)

Flushes == [active : BOOLEAN, todo : SUBSET Rows, sent : SUBSET Rows, failed : SUBSET Rows]

Held(d) == flushing[d].todo \cup flushing[d].sent \cup flushing[d].failed

OutboxTypes ==
  /\ rows \in [Rows -> {"absent", "unpublished", "published"}]
  /\ flushing \in [Dispatchers -> Flushes]
  /\ delivered \in [Rows -> 0..2]
  /\ undone \subseteq Rows

\* FOR UPDATE SKIP LOCKED: a row is held by one flush, once, and is unpublished.
LocksExclude ==
  /\ \A d \in Dispatchers : ~flushing[d].active => Held(d) = {}
  /\ \A d \in Dispatchers : flushing[d].todo \cap (flushing[d].sent \cup flushing[d].failed) = {}
  /\ \A d, e \in Dispatchers : d # e => Held(d) \cap Held(e) = {}
  /\ \A d \in Dispatchers : \A o \in Held(d) : rows[o] = "unpublished"

\* A row was delivered once if a flush has sent it, and not at all before that.
SentOnce ==
  /\ \A d \in Dispatchers : \A o \in flushing[d].sent : delivered[o] > 0
  /\ \A o \in Rows : rows[o] = "published" => delivered[o] > 0
  /\ \A o \in Rows \ undone :
       /\ delivered[o] <= 1
       /\ rows[o] = "unpublished" /\ (\A d \in Dispatchers : o \notin flushing[d].sent) => delivered[o] = 0

\* Rows are written in order: before a row that is there, none is missing undelivered.
WrittenInOrder ==
  \A o, p \in Rows : o < p /\ rows[p] # "absent" => rows[o] # "absent" \/ delivered[o] > 0

\* The inductive invariant.
OutboxInvariant == OutboxTypes /\ LocksExclude /\ SentOnce /\ WrittenInOrder

\* The loop of flush takes a row it has not yet handled: the oldest of them exists.
LEMMA OldestIsThere ==
  ASSUME NEW S, S \subseteq Rows, S # {}
  PROVE  Min(S) \in S
<1>1. S \subseteq Nat
  BY OutboxAssumption DEF Rows
<1>2. PICK x \in S : \A y \in S : ~(<<y, x>> \in OpToRel(<, Nat))
  BY <1>1, WFMin, NatLessThanWellFounded, Zenon
<1>3. \A y \in S : x <= y
  <2>1. \A y \in S : y < x => <<y, x>> \in OpToRel(<, Nat)
    BY <1>1, Zenon DEF OpToRel
  <2>2. \A y \in S : ~(y < x)
    BY <1>2, <2>1, Zenon
  <2> QED
    BY <1>1, <2>2
<1> QED
  BY <1>3, Zenon DEF Min

\* What flush, send, a failing send and the end of a transaction make of a flush's state
\* is such a state again.
LEMMA FlushStates ==
  ASSUME NEW active \in BOOLEAN, NEW todo \in SUBSET Rows, NEW sent \in SUBSET Rows, NEW failed \in SUBSET Rows
  PROVE  [active |-> active, todo |-> todo, sent |-> sent, failed |-> failed] \in Flushes
BY Zenon DEF Flushes

\* A state of a flush is the record of its four fields.
LEMMA FlushFields ==
  ASSUME NEW r \in Flushes
  PROVE  r = [active |-> r.active, todo |-> r.todo, sent |-> r.sent, failed |-> r.failed]
BY Zenon DEF Flushes

\* The SELECT of flush starts a flush that has all its rows to do.
LEMMA FlushSelects ==
  ASSUME NEW x
  PROVE  [NotFlushing EXCEPT !.active = TRUE, !.todo = x]
           = [active |-> TRUE, todo |-> x, sent |-> {}, failed |-> {}]
<1> DEFINE yes == TRUE
<1> DEFINE no == FALSE
<1> DEFINE none == {}
<1> DEFINE r == [active |-> no, todo |-> none, sent |-> none, failed |-> none]
<1> DEFINE q == [active |-> yes, todo |-> none, sent |-> none, failed |-> none]
<1>1. NotFlushing = r
  BY Zenon DEF NotFlushing
<1>2. [r EXCEPT !.active = yes] = q
  <2> HIDE DEF yes, no, none
  <2> QED
    OBVIOUS
<1>3. [q EXCEPT !.todo = x] = [active |-> yes, todo |-> x, sent |-> none, failed |-> none]
  <2> HIDE DEF yes, no, none
  <2> QED
    OBVIOUS
<1>4. [r EXCEPT !.active = yes, !.todo = x] = [[r EXCEPT !.active = yes] EXCEPT !.todo = x]
  <2> HIDE DEF r, yes
  <2> QED
    BY Zenon
<1>5. [r EXCEPT !.active = yes, !.todo = x] = [active |-> yes, todo |-> x, sent |-> none, failed |-> none]
  <2> HIDE DEF r, q, yes, none
  <2> QED
    BY <1>2, <1>3, <1>4, Zenon
<1>6. [NotFlushing EXCEPT !.active = yes, !.todo = x] = [active |-> yes, todo |-> x, sent |-> none, failed |-> none]
  <2> HIDE DEF r, q, yes, none
  <2> QED
    BY <1>1, <1>5, Zenon
<1> QED
  BY <1>6, Zenon

\* A delivery moves a row from those to do to those sent, or to those failed.
LEMMA FlushMoves ==
  ASSUME NEW g \in [Dispatchers -> Flushes], NEW d \in Dispatchers, NEW o
  PROVE  /\ [g EXCEPT ![d].todo = @ \ {o}, ![d].sent = @ \cup {o}]
              = [g EXCEPT ![d] = [active |-> g[d].active, todo |-> g[d].todo \ {o},
                                  sent |-> g[d].sent \cup {o}, failed |-> g[d].failed]]
         /\ [g EXCEPT ![d].todo = @ \ {o}, ![d].failed = @ \cup {o}]
              = [g EXCEPT ![d] = [active |-> g[d].active, todo |-> g[d].todo \ {o},
                                  sent |-> g[d].sent, failed |-> g[d].failed \cup {o}]]
<1> DEFINE a == g[d].active
<1> DEFINE t == g[d].todo \ {o}
<1> DEFINE s == g[d].sent
<1> DEFINE f == g[d].failed
<1> DEFINE q == [active |-> a, todo |-> t, sent |-> s, failed |-> f]
<1>1. g[d] = [active |-> a, todo |-> g[d].todo, sent |-> s, failed |-> f]
  BY FlushFields, Zenon
<1>2. [g[d] EXCEPT !.todo = t] = q
  <2> DEFINE old == g[d].todo
  <2>1. [[active |-> a, todo |-> old, sent |-> s, failed |-> f] EXCEPT !.todo = t] = q
    <3> HIDE DEF a, t, s, f, old
    <3> QED
      OBVIOUS
  <2> DEFINE r == [active |-> a, todo |-> old, sent |-> s, failed |-> f]
  <2>2. g[d] = r
    BY <1>1, Zenon
  <2> HIDE DEF t, q, r
  <2> QED
    BY <2>1, <2>2, Zenon DEF r
<1>3. ASSUME NEW x
      PROVE  /\ [q EXCEPT !.sent = x] = [active |-> a, todo |-> t, sent |-> x, failed |-> f]
             /\ [q EXCEPT !.failed = x] = [active |-> a, todo |-> t, sent |-> s, failed |-> x]
  <2> HIDE DEF a, t, s, f
  <2> QED
    OBVIOUS
<1>4. [g EXCEPT ![d].todo = @ \ {o}, ![d].sent = @ \cup {o}]
        = [g EXCEPT ![d] = [[g[d] EXCEPT !.todo = t] EXCEPT !.sent = g[d].sent \cup {o}]]
  BY Zenon
<1>5. [g EXCEPT ![d].todo = @ \ {o}, ![d].failed = @ \cup {o}]
        = [g EXCEPT ![d] = [[g[d] EXCEPT !.todo = t] EXCEPT !.failed = g[d].failed \cup {o}]]
  BY Zenon
<1> QED
  BY <1>2, <1>3, <1>4, <1>5, ZenonT(40)

\* Before anything is written the invariant holds.
LEMMA OutboxInitially == OutboxInit => OutboxInvariant
<1> SUFFICES ASSUME OutboxInit PROVE OutboxInvariant
  BY Zenon
<1> USE DEF OutboxInit
<1>1. NotFlushing \in Flushes
  BY FlushStates, Zenon DEF NotFlushing
<1>2. OutboxTypes
  BY <1>1 DEF OutboxTypes
<1>3. LocksExclude
  BY Zenon DEF LocksExclude, Held, NotFlushing
<1>4. SentOnce
  BY DEF SentOnce, NotFlushing
<1>5. WrittenInOrder
  BY Zenon DEF WrittenInOrder
<1> QED
  BY <1>2, <1>3, <1>4, <1>5, Zenon DEF OutboxInvariant
\* The rows a flush holds after its SELECT, a delivery or the end of its transaction
\* exclude those of every other flush if they are selectable or were held before.
LEMMA FlushKeepsLocks ==
  ASSUME OutboxTypes, LocksExclude, NEW d \in Dispatchers, NEW f \in Flushes,
         flushing' = [flushing EXCEPT ![d] = f], UNCHANGED rows,
         ~f.active => f.todo \cup f.sent \cup f.failed = {},
         f.todo \cap (f.sent \cup f.failed) = {},
         f.todo \cup f.sent \cup f.failed \subseteq Selectable \cup Held(d)
  PROVE  /\ flushing' \in [Dispatchers -> Flushes]
         /\ LocksExclude'
<1>1. flushing' \in [Dispatchers -> Flushes]
  BY Zenon DEF OutboxTypes
<1>2. \A e \in Dispatchers : flushing'[e] = IF e = d THEN f ELSE flushing[e]
  BY Zenon DEF OutboxTypes
<1> DEFINE H == f.todo \cup f.sent \cup f.failed
<1>3. Held(d)' = H /\ \A e \in Dispatchers \ {d} : Held(e)' = Held(e)
  BY <1>2, Zenon DEF Held
<1>4. \A e \in Dispatchers \ {d} : H \cap Held(e) = {}
  <2>1. \A e \in Dispatchers : Selectable \cap Held(e) = {}
    BY Zenon DEF Selectable, Locked, Held
  <2> QED
    BY <2>1, Zenon DEF LocksExclude
<1>5. \A o \in H : rows[o] = "unpublished"
  BY Zenon DEF Selectable, LocksExclude
<1>6. \A e \in Dispatchers : ~flushing'[e].active => Held(e)' = {}
  BY <1>2, <1>3, ZenonT(40) DEF LocksExclude
<1>7. \A e \in Dispatchers : flushing'[e].todo \cap (flushing'[e].sent \cup flushing'[e].failed) = {}
  BY <1>2, Zenon DEF LocksExclude
<1>8. \A e, g \in Dispatchers : e # g => Held(e)' \cap Held(g)' = {}
  BY <1>3, <1>4 DEF LocksExclude
<1>9. \A e \in Dispatchers : \A o \in Held(e)' : rows'[o] = "unpublished"
  BY <1>3, <1>5 DEF LocksExclude
<1> QED
  BY <1>1, <1>6, <1>7, <1>8, <1>9, Zenon DEF LocksExclude, Held

\* Every step keeps the invariant.
LEMMA OutboxInductive == OutboxInvariant /\ [OutboxNext]_outboxVars => OutboxInvariant'
<1> SUFFICES ASSUME OutboxInvariant, [OutboxNext]_outboxVars PROVE OutboxInvariant'
  BY Zenon
<1> USE DEF OutboxInvariant
<1>a. NotFlushing \in Flushes
  BY FlushStates, Zenon DEF NotFlushing
<1>b. \A d \in Dispatchers : Held(d) \subseteq Rows /\ flushing[d] \in Flushes
  BY Zenon DEF Held, OutboxTypes, Flushes
<1>1. ASSUME NEW o \in Rows, publish(o) PROVE OutboxInvariant'
  <2> USE <1>1 DEF publish
  <2>1. OutboxTypes'
    BY Zenon DEF OutboxTypes
  <2>2. LocksExclude'
    <3>1. \A p \in Rows : rows[p] = "unpublished" => rows'[p] = "unpublished"
      BY Zenon DEF OutboxTypes
    <3> QED
      BY <1>b, <3>1, Zenon DEF LocksExclude, Held
  <2>3. SentOnce'
    BY Zenon DEF SentOnce, OutboxTypes
  <2>4. WrittenInOrder'
    BY Zenon DEF WrittenInOrder, OutboxTypes
  <2> QED
    BY <2>1, <2>2, <2>3, <2>4, Zenon
<1>2. ASSUME NEW d \in Dispatchers, flush(d) PROVE OutboxInvariant'
  <2> USE <1>2 DEF flush
  <2> DEFINE f == [NotFlushing EXCEPT !.active = TRUE, !.todo = Oldest(Selectable)]
  <2>1. Oldest(Selectable) \subseteq Selectable /\ Selectable \subseteq Rows
    BY Zenon DEF Oldest, Selectable
  <2>2. f = [active |-> TRUE, todo |-> Oldest(Selectable), sent |-> {}, failed |-> {}]
    BY FlushSelects, Zenon
  <2>3. f \in Flushes
    <3>1. [active |-> TRUE, todo |-> Oldest(Selectable), sent |-> {}, failed |-> {}] \in Flushes
      BY <2>1, FlushStates, Zenon
    <3> QED
      BY <2>2, <3>1, Zenon
  <2>4. flushing' \in [Dispatchers -> Flushes] /\ LocksExclude'
    BY <2>1, <2>2, <2>3, FlushKeepsLocks, Zenon
  <2>5. OutboxTypes'
    BY <2>4, Zenon DEF OutboxTypes
  <2>6. flushing[d].sent = {}
    BY Zenon DEF LocksExclude, Held
  <2>7. \A e \in Dispatchers : flushing'[e].sent = flushing[e].sent
    BY <2>2, <2>6, Zenon DEF OutboxTypes
  <2>8. SentOnce'
    BY <2>7, Zenon DEF SentOnce
  <2>9. WrittenInOrder'
    BY Zenon DEF WrittenInOrder
  <2> QED
    BY <2>4, <2>5, <2>8, <2>9, Zenon
<1>3. ASSUME NEW d \in Dispatchers, send(d) PROVE OutboxInvariant'
  <2> DEFINE o == Min(flushing[d].todo)
  <2> DEFINE f == [active |-> flushing[d].active, todo |-> flushing[d].todo \ {o},
                   sent |-> flushing[d].sent \cup {o}, failed |-> flushing[d].failed]
  <2>1. flushing[d].active \in BOOLEAN /\ flushing[d].todo \subseteq Rows
        /\ flushing[d].sent \subseteq Rows /\ flushing[d].failed \subseteq Rows
    BY <1>b, Zenon DEF Flushes
  <2>2. o \in flushing[d].todo /\ o \in Rows
    BY <1>3, <2>1, OldestIsThere, Zenon DEF send
  <2>3. f \in Flushes
    BY <2>1, <2>2, FlushStates, Zenon
  <2>4. flushing' = [flushing EXCEPT ![d] = f]
    BY <1>3, FlushMoves, ZenonT(40) DEF send, OutboxTypes
  <2>5. UNCHANGED <<rows, undone>> /\ delivered' = [delivered EXCEPT ![o] = IF @ < 2 THEN @ + 1 ELSE 2]
    BY <1>3, Zenon DEF send
  <2>6. flushing' \in [Dispatchers -> Flushes] /\ LocksExclude'
    <3>1. f.todo \cup f.sent \cup f.failed = Held(d) /\ f.active = flushing[d].active
      BY <2>2, Zenon DEF Held
    <3>2. ~f.active => f.todo \cup f.sent \cup f.failed = {}
      BY <3>1, Zenon DEF LocksExclude
    <3>3. f.todo \cap (f.sent \cup f.failed) = {}
      BY Zenon DEF LocksExclude
    <3> HIDE DEF f
    <3> QED
      BY <2>3, <2>4, <2>5, <3>1, <3>2, <3>3, FlushKeepsLocks, Zenon
  <2>7. \A e \in Dispatchers : flushing'[e].sent = IF e = d THEN flushing[e].sent \cup {o} ELSE flushing[e].sent
    BY <2>4, Zenon DEF OutboxTypes
  <2>8. \A e \in Dispatchers : o \notin flushing[e].sent
    <3>1. o \notin flushing[d].sent
      BY <2>2, Zenon DEF LocksExclude
    <3>2. \A e \in Dispatchers \ {d} : o \notin flushing[e].sent
      BY <2>2, Zenon DEF LocksExclude, Held
    <3> QED
      BY <3>1, <3>2, Zenon
  <2>9. rows[o] = "unpublished"
    BY <2>2, Zenon DEF LocksExclude, Held
  <2> HIDE DEF o, f
  <2>10. \A p \in Rows : /\ delivered'[p] \in 0..2
                         /\ delivered'[p] >= delivered[p]
                         /\ p # o => delivered'[p] = delivered[p]
    BY <2>2, <2>5 DEF OutboxTypes
  <2>11. delivered'[o] > 0 /\ (o \notin undone => delivered'[o] = 1)
    BY <2>2, <2>5, <2>8, <2>9 DEF OutboxTypes, SentOnce
  <2>12. OutboxTypes'
    BY <2>2, <2>5, <2>6, <2>10, Zenon DEF OutboxTypes
  <2>13. SentOnce'
    <3>1. \A e \in Dispatchers : flushing[e].sent \subseteq Rows
      BY <1>b, Zenon DEF Flushes
    <3>2. \A e \in Dispatchers : \A p \in flushing'[e].sent : delivered'[p] > 0
      BY <2>2, <2>7, <2>10, <2>11, <3>1, ZenonT(40) DEF SentOnce, OutboxTypes
    <3>3. \A p \in Rows : rows'[p] = "published" => delivered'[p] > 0
      BY <2>5, <2>9, <2>10, Zenon DEF SentOnce
    <3>4. \A p \in Rows \ undone' : delivered'[p] <= 1
      BY <2>5, <2>10, <2>11 DEF SentOnce
    <3>5. \A p \in Rows \ undone' :
            rows'[p] = "unpublished" /\ (\A e \in Dispatchers : p \notin flushing'[e].sent) => delivered'[p] = 0
      BY <2>5, <2>7, <2>10, Zenon DEF SentOnce
    <3> QED
      BY <3>2, <3>3, <3>4, <3>5, Zenon DEF SentOnce
  <2>14. WrittenInOrder'
    BY <2>5, <2>10, <2>11, Zenon DEF WrittenInOrder
  <2> QED
    BY <2>6, <2>12, <2>13, <2>14, Zenon
<1>4. ASSUME NEW d \in Dispatchers, SendFails(d) PROVE OutboxInvariant'
  <2> DEFINE o == Min(flushing[d].todo)
  <2> DEFINE f == [active |-> flushing[d].active, todo |-> flushing[d].todo \ {o},
                   sent |-> flushing[d].sent, failed |-> flushing[d].failed \cup {o}]
  <2>1. flushing[d].active \in BOOLEAN /\ flushing[d].todo \subseteq Rows
        /\ flushing[d].sent \subseteq Rows /\ flushing[d].failed \subseteq Rows
    BY <1>b, Zenon DEF Flushes
  <2>2. o \in flushing[d].todo /\ o \in Rows
    BY <1>4, <2>1, OldestIsThere, Zenon DEF SendFails
  <2>3. f \in Flushes
    BY <2>1, <2>2, FlushStates, Zenon
  <2>4. flushing' = [flushing EXCEPT ![d] = f]
    BY <1>4, FlushMoves, ZenonT(40) DEF SendFails, OutboxTypes
  <2>5. UNCHANGED <<rows, delivered, undone>>
    BY <1>4, Zenon DEF SendFails
  <2>6. flushing' \in [Dispatchers -> Flushes] /\ LocksExclude'
    <3>1. f.todo \cup f.sent \cup f.failed = Held(d) /\ f.active = flushing[d].active
      BY <2>2, Zenon DEF Held
    <3>2. ~f.active => f.todo \cup f.sent \cup f.failed = {}
      BY <3>1, Zenon DEF LocksExclude
    <3>3. f.todo \cap (f.sent \cup f.failed) = {}
      BY Zenon DEF LocksExclude
    <3> HIDE DEF f
    <3> QED
      BY <2>3, <2>4, <2>5, <3>1, <3>2, <3>3, FlushKeepsLocks, Zenon
  <2>7. \A e \in Dispatchers : flushing'[e].sent = flushing[e].sent
    BY <2>4, Zenon DEF OutboxTypes
  <2>8. OutboxTypes' /\ SentOnce' /\ WrittenInOrder'
    BY <2>5, <2>6, <2>7, Zenon DEF OutboxTypes, SentOnce, WrittenInOrder
  <2> QED
    BY <2>6, <2>8, Zenon
<1>5. ASSUME NEW d \in Dispatchers, CommitFlush(d) PROVE OutboxInvariant'
  <2> USE <1>5 DEF CommitFlush, Published
  <2>1. flushing' \in [Dispatchers -> Flushes]
    BY <1>a, Zenon DEF OutboxTypes
  <2>2. \A e \in Dispatchers : flushing'[e] = IF e = d THEN NotFlushing ELSE flushing[e]
    BY Zenon DEF OutboxTypes
  <2>3. OutboxTypes'
    BY <2>1, Zenon DEF OutboxTypes
  <2>4. \A p \in Rows : rows'[p] = IF p \in flushing[d].sent THEN "published" ELSE rows[p]
    BY Zenon
  <2>5. Held(d)' = {} /\ \A e \in Dispatchers \ {d} : Held(e)' = Held(e)
    BY <2>2 DEF Held, NotFlushing
  <2>6. LocksExclude'
    <3>1. \A e \in Dispatchers : ~flushing'[e].active => Held(e)' = {}
      BY <2>2, <2>5, Zenon DEF LocksExclude
    <3>2. \A e \in Dispatchers : flushing'[e].todo \cap (flushing'[e].sent \cup flushing'[e].failed) = {}
      BY <2>2 DEF LocksExclude, NotFlushing
    <3>3. \A e, g \in Dispatchers : e # g => Held(e)' \cap Held(g)' = {}
      BY <2>5, Zenon DEF LocksExclude
    <3>4. \A e \in Dispatchers \ {d} : \A p \in Held(e) : p \notin flushing[d].sent
      BY Zenon DEF LocksExclude, Held
    <3>5. \A e \in Dispatchers : \A p \in Held(e)' : rows'[p] = "unpublished"
      BY <1>b, <2>4, <2>5, <3>4 DEF LocksExclude
    <3> QED
      BY <3>1, <3>2, <3>3, <3>5, Zenon DEF LocksExclude, Held
  <2>7. SentOnce'
    <3>1. \A e \in Dispatchers : flushing'[e].sent \subseteq flushing[e].sent
      BY <2>2 DEF NotFlushing
    <3>2. \A p \in Rows : rows'[p] = "unpublished" /\ (\A e \in Dispatchers : p \notin flushing'[e].sent)
            => rows[p] = "unpublished" /\ \A e \in Dispatchers : p \notin flushing[e].sent
      BY <2>2, <2>4, Zenon
    <3> QED
      BY <2>4, <3>1, <3>2, Zenon DEF SentOnce
  <2>8. WrittenInOrder'
    <3>1. \A p \in flushing[d].sent : rows[p] = "unpublished"
      BY Zenon DEF LocksExclude, Held
    <3> QED
      BY <2>4, <3>1, Zenon DEF WrittenInOrder
  <2> QED
    BY <2>3, <2>6, <2>7, <2>8, Zenon
<1>6. ASSUME NEW d \in Dispatchers, RollbackFlush(d) PROVE OutboxInvariant'
  <2> USE <1>6 DEF RollbackFlush
  <2>1. flushing' \in [Dispatchers -> Flushes] /\ LocksExclude'
    BY <1>a, FlushKeepsLocks, Zenon DEF NotFlushing
  <2>2. \A e \in Dispatchers : flushing'[e] = IF e = d THEN NotFlushing ELSE flushing[e]
    BY Zenon DEF OutboxTypes
  <2>3. OutboxTypes'
    BY <1>b, <2>1, Zenon DEF OutboxTypes, Held
  <2>4. SentOnce'
    <3>1. \A e \in Dispatchers : flushing'[e].sent \subseteq flushing[e].sent
      BY <2>2 DEF NotFlushing
    <3>2. \A p \in Rows \ undone' : (\A e \in Dispatchers : p \notin flushing'[e].sent)
            => \A e \in Dispatchers : p \notin flushing[e].sent
      BY <2>2, Zenon
    <3> QED
      BY <3>1, <3>2, Zenon DEF SentOnce
  <2>5. WrittenInOrder'
    BY Zenon DEF WrittenInOrder
  <2> QED
    BY <2>1, <2>3, <2>4, <2>5, Zenon
<1>7. ASSUME purgeOutbox PROVE OutboxInvariant'
  <2>1. PICK old \in SUBSET Purgeable :
          /\ rows' = [o \in Rows |-> IF o \in old THEN "absent" ELSE rows[o]]
          /\ UNCHANGED <<flushing, outboxFaults, delivered, undone>>
    BY <1>7, Zenon DEF purgeOutbox
  <2>2. \A p \in Rows : /\ rows'[p] = IF p \in old THEN "absent" ELSE rows[p]
                        /\ p \in old => rows[p] = "published"
    BY <2>1, Zenon DEF Purgeable
  <2>3. OutboxTypes'
    BY <2>1, Zenon DEF OutboxTypes
  <2>4. LocksExclude'
    <3>1. \A p \in Rows : rows[p] = "unpublished" => rows'[p] = "unpublished"
      BY <2>2, Zenon
    <3> QED
      BY <1>b, <2>1, <3>1, Zenon DEF LocksExclude, Held
  <2>5. SentOnce'
    BY <2>1, <2>2, Zenon DEF SentOnce
  <2>6. WrittenInOrder'
    BY <2>1, <2>2, Zenon DEF WrittenInOrder, SentOnce
  <2> QED
    BY <2>3, <2>4, <2>5, <2>6, Zenon
<1>8. CASE UNCHANGED outboxVars
  BY <1>8, Zenon DEF outboxVars, OutboxTypes, LocksExclude, Held, SentOnce, WrittenInOrder
<1> QED
  BY <1>1, <1>2, <1>3, <1>4, <1>5, <1>6, <1>7, <1>8, Zenon DEF OutboxNext

\* However many replicas of the maintenance worker flush, a row is delivered twice only
\* if a flush that had sent it was rolled back, and a row that is marked as published or
\* purged was delivered (OutboxDispatcher.flush and the retention job).
THEOREM OutboxDeliversExactlyOnce == OutboxSpec => []DeliveredExactlyOnce
<1>1. OutboxInvariant => DeliveredExactlyOnce
  BY Zenon DEF OutboxInvariant, SentOnce, WrittenInOrder, DeliveredExactlyOnce, Rows
<1> QED
  BY <1>1, OutboxInitially, OutboxInductive, PTL DEF OutboxSpec

-----------------------------------------------------------------------------
(***************************************************************************)
(* The migrations of the schema.                                           *)
(*                                                                         *)
(* A migration takes effect once because a runner reads what is applied,   *)
(* applies the rest and commits under the advisory lock, which one runner  *)
(* holds at a time (LockIsHeld): what it read is still what is applied     *)
(* when it commits (Runs).                                                 *)
(***************************************************************************)

RunnerFields == {"step", "files", "existing", "next", "applied"}

\* What is known of a runner: the names it applied so far are those it read as not
\* applied, before the file it is at.
Runs(run) ==
  /\ DOMAIN run = RunnerFields
  /\ run.step \in {"idle", "lock", "read", "apply"}
  /\ run.files \in Seq(Checksums) /\ Len(run.files) <= MaxFiles
  /\ run.next \in Nat
  /\ run.step # "apply" => run.next = 1 /\ run.applied = {}
  /\ run.step = "apply" =>
       /\ run.next >= 1 /\ run.next <= Len(run.files) + 1
       /\ run.applied = {n \in Names : n < run.next /\ run.existing[n] = Unapplied}

MigrationShapes ==
  /\ schemaMigrations \in [Names -> Checksums \cup {Unapplied}]
  /\ DOMAIN executed = Names
  /\ DOMAIN runner = Runners
  /\ \A r \in Runners : Runs(runner[r])

\* The advisory lock: who is past it holds it, and what it read is still true.
LockIsHeld ==
  \A r \in Runners :
    /\ runner[r].step \in {"read", "apply"} => lockHolder = r
    /\ runner[r].step = "apply" => runner[r].existing = schemaMigrations

MigrationInvariant == MigrationShapes /\ LockIsHeld /\ MigrationsRunOnce

\* A process that does not migrate.
LEMMA NotMigratingRuns == Runs(NotMigrating) /\ NotMigrating.step = "idle"
<1>1. <<>> \in Seq(Checksums) /\ Len(<<>>) = 0
  BY EmptySeq, Zenon
<1> QED
  BY <1>1, MigrationAssumption DEF Runs, NotMigrating, RunnerFields

\* A new database: nothing is applied.
LEMMA MigrationStarts == MigrationInit => MigrationInvariant
<1> SUFFICES ASSUME MigrationInit PROVE MigrationInvariant
  BY Zenon
<1>1. DOMAIN runner = Runners /\ \A r \in Runners : runner[r] = NotMigrating
  BY Zenon DEF MigrationInit
<1>2. MigrationShapes
  BY <1>1, NotMigratingRuns, Zenon DEF MigrationInit, MigrationShapes
<1>3. LockIsHeld
  BY <1>1, NotMigratingRuns, Zenon DEF LockIsHeld
<1>4. MigrationsRunOnce
  BY Zenon DEF MigrationInit, MigrationsRunOnce
<1> QED
  BY <1>2, <1>3, <1>4, Zenon DEF MigrationInvariant

\* A step of one runner that commits nothing.
LEMMA RunnerMoves ==
  ASSUME MigrationInvariant, NEW r \in Runners, NEW run,
         runner' = [runner EXCEPT ![r] = run],
         UNCHANGED <<schemaMigrations, executed>>,
         Runs(run),
         run.step \in {"read", "apply"} => lockHolder' = r,
         run.step = "apply" => run.existing = schemaMigrations,
         lockHolder' = lockHolder \/ lockHolder \in {r, None}
  PROVE  MigrationInvariant'
<1>1. DOMAIN runner' = Runners /\ runner'[r] = run /\ \A q \in Runners \ {r} : runner'[q] = runner[q]
  BY Zenon DEF MigrationInvariant, MigrationShapes
<1>2. MigrationShapes'
  BY <1>1, Zenon DEF MigrationInvariant, MigrationShapes
<1>3. LockIsHeld'
  <2> SUFFICES ASSUME NEW q \in Runners
               PROVE  /\ runner'[q].step \in {"read", "apply"} => lockHolder' = q
                      /\ runner'[q].step = "apply" => runner'[q].existing = schemaMigrations
    BY Zenon DEF LockIsHeld
  <2>1. CASE q = r
    BY <1>1, <2>1, Zenon
  <2>2. CASE q # r
    <3>1. runner'[q] = runner[q]
      BY <1>1, <2>2, Zenon
    <3>2. None # q
      BY MigrationAssumption, Zenon DEF None
    <3> QED
      BY <2>2, <3>1, <3>2, Zenon DEF LockIsHeld, MigrationInvariant
  <2> QED
    BY <2>1, <2>2, Zenon
<1>4. MigrationsRunOnce'
  BY Zenon DEF MigrationInvariant, MigrationsRunOnce
<1> QED
  BY <1>2, <1>3, <1>4, Zenon DEF MigrationInvariant

\* The files are read before the lock is asked for.
LEMMA LoadPreserves ==
  ASSUME MigrationInvariant, NEW r \in Runners, loadMigrations(r)
  PROVE  MigrationInvariant'
<1>0. PICK n \in Names : \E files \in [1..n -> Checksums] :
        runner' = [runner EXCEPT ![r] = [NotMigrating EXCEPT !.step = "lock", !.files = files]]
  BY Zenon DEF loadMigrations
<1>1. PICK files \in [1..n -> Checksums] :
        runner' = [runner EXCEPT ![r] = [NotMigrating EXCEPT !.step = "lock", !.files = files]]
  BY <1>0, Zenon
<1> DEFINE run == [NotMigrating EXCEPT !.step = "lock", !.files = files]
<1>2. n \in Nat /\ n <= MaxFiles
  BY MigrationAssumption DEF Names
<1>3. files \in Seq(Checksums) /\ Len(files) = n
  BY <1>2
<1>4. /\ DOMAIN run = RunnerFields /\ run.step = "lock" /\ run.files = files
      /\ run.next = 1 /\ run.applied = {}
  BY Zenon DEF NotMigrating, RunnerFields
<1> HIDE DEF run
<1>5. Runs(run)
  BY <1>2, <1>3, <1>4 DEF Runs
<1>6. runner' = [runner EXCEPT ![r] = run] /\ UNCHANGED <<schemaMigrations, executed, lockHolder>>
  BY <1>1, Zenon DEF loadMigrations, run
<1> QED
  BY <1>4, <1>5, <1>6, RunnerMoves, Zenon

\* The advisory lock is taken only when nobody holds it.
LEMMA LockPreserves ==
  ASSUME MigrationInvariant, NEW r \in Runners, takeLock(r)
  PROVE  MigrationInvariant'
<1> DEFINE run == [runner[r] EXCEPT !.step = "read"]
<1>1. Runs(runner[r]) /\ runner[r].step = "lock"
  BY Zenon DEF MigrationInvariant, MigrationShapes, takeLock
<1>2. /\ DOMAIN run = RunnerFields /\ run.step = "read" /\ run.files = runner[r].files
      /\ run.next = runner[r].next /\ run.applied = runner[r].applied
  BY <1>1, Zenon DEF Runs, RunnerFields
<1>3. runner' = [runner EXCEPT ![r] = run] /\ UNCHANGED <<schemaMigrations, executed>>
  BY Zenon DEF takeLock
<1> HIDE DEF run
<1>4. Runs(run)
  BY <1>1, <1>2, Zenon DEF Runs
<1>5. lockHolder = None /\ lockHolder' = r
  BY Zenon DEF takeLock
<1> QED
  BY <1>2, <1>3, <1>4, <1>5, RunnerMoves, Zenon

\* What a runner reads as applied is what is applied, for it holds the lock.
LEMMA ReadPreserves ==
  ASSUME MigrationInvariant, NEW r \in Runners, readExisting(r)
  PROVE  MigrationInvariant'
<1> DEFINE run == [runner[r] EXCEPT !.step = "apply", !.existing = schemaMigrations]
<1>1. Runs(runner[r]) /\ runner[r].step = "read" /\ lockHolder = r
  BY Zenon DEF MigrationInvariant, MigrationShapes, LockIsHeld, readExisting
<1>2. /\ DOMAIN run = RunnerFields /\ run.step = "apply" /\ run.files = runner[r].files
      /\ run.next = runner[r].next /\ run.applied = runner[r].applied
      /\ run.existing = schemaMigrations
  BY <1>1, Zenon DEF Runs, RunnerFields
<1>3. runner' = [runner EXCEPT ![r] = run] /\ UNCHANGED <<schemaMigrations, executed, lockHolder>>
  BY Zenon DEF readExisting
<1> HIDE DEF run
<1>4. run.next = 1 /\ run.applied = {n \in Names : n < run.next /\ run.existing[n] = Unapplied}
  BY <1>1, <1>2, MigrationAssumption, SMTT(20) DEF Runs, Names
<1>5. Runs(run)
  BY <1>1, <1>2, <1>4, LenProperties DEF Runs
<1> QED
  BY <1>1, <1>2, <1>3, <1>5, RunnerMoves, Zenon

\* A runner that fails is rolled back and loses its lock.
LEMMA AbandonPreserves ==
  ASSUME MigrationInvariant, NEW r \in Runners, Abandon(r)
  PROVE  MigrationInvariant'
<1>1. lockHolder' = lockHolder \/ lockHolder \in {r, None}
  BY Zenon DEF Abandon
<1> QED
  BY <1>1, NotMigratingRuns, RunnerMoves, Zenon DEF Abandon

\* A file is applied exactly if the runner did not read it as applied.
LEMMA ApplyPreserves ==
  ASSUME MigrationInvariant, NEW r \in Runners, applyFile(r)
  PROVE  MigrationInvariant'
<1> DEFINE n == runner[r].next
           run == [runner[r] EXCEPT !.next = n + 1,
                     !.applied = IF runner[r].existing[n] = Unapplied THEN runner[r].applied \cup {n}
                                 ELSE runner[r].applied]
<1>1. CASE Changed(r)
  BY <1>1, AbandonPreserves, Zenon DEF applyFile
<1>2. CASE ~Changed(r)
  <2>1. /\ Runs(runner[r]) /\ runner[r].step = "apply" /\ lockHolder = r
        /\ runner[r].existing = schemaMigrations
        /\ n <= Len(runner[r].files)
    BY Zenon DEF MigrationInvariant, MigrationShapes, LockIsHeld, applyFile
  <2>2. /\ DOMAIN run = RunnerFields /\ run.step = "apply" /\ run.files = runner[r].files
        /\ run.next = n + 1 /\ run.existing = runner[r].existing
        /\ run.applied = IF runner[r].existing[n] = Unapplied THEN runner[r].applied \cup {n}
                         ELSE runner[r].applied
    BY <2>1, Zenon DEF Runs, RunnerFields
  <2>3. runner' = [runner EXCEPT ![r] = run] /\ UNCHANGED <<schemaMigrations, executed, lockHolder>>
    BY <1>2, Zenon DEF applyFile
  <2>4. /\ n \in Nat /\ Len(runner[r].files) \in Nat /\ n >= 1 /\ Len(runner[r].files) <= MaxFiles
        /\ runner[r].applied = {m \in Names : m < n /\ runner[r].existing[m] = Unapplied}
    BY <2>1, LenProperties, Zenon DEF Runs
  <2>5. n \in Names
    BY <2>1, <2>4, MigrationAssumption DEF Names
  <2> HIDE DEF run, n
  <2>6. run.applied = {m \in Names : m < n + 1 /\ run.existing[m] = Unapplied}
    <3>1. \A m \in Names : m < n + 1 <=> m < n \/ m = n
      BY <2>4, MigrationAssumption DEF Names
    <3>2. CASE runner[r].existing[n] = Unapplied
      BY <2>2, <2>4, <2>5, <3>1, <3>2, Zenon
    <3>3. CASE runner[r].existing[n] # Unapplied
      BY <2>2, <2>4, <2>5, <3>1, <3>3, Zenon
    <3> QED
      BY <3>2, <3>3, Zenon
  <2>7. Runs(run)
    BY <2>1, <2>2, <2>4, <2>6, SMTT(20) DEF Runs
  <2> QED
    BY <2>1, <2>2, <2>3, <2>7, RunnerMoves, Zenon
<1> QED
  BY <1>1, <1>2, Zenon

\* A commit makes effective what the runner applied: no name that was applied before, and
\* all the names up to its last one.
LEMMA CommitPreserves ==
  ASSUME MigrationInvariant, NEW r \in Runners, commitMigrations(r)
  PROVE  MigrationInvariant'
<1>1. /\ Runs(runner[r]) /\ runner[r].step = "apply" /\ lockHolder = r
      /\ runner[r].existing = schemaMigrations /\ runner[r].next > Len(runner[r].files)
      /\ schemaMigrations \in [Names -> Checksums \cup {Unapplied}]
  BY Zenon DEF MigrationInvariant, MigrationShapes, LockIsHeld, commitMigrations
<1> DEFINE L == Len(runner[r].files)
<1>2. L \in Nat /\ L <= MaxFiles /\ runner[r].files \in Seq(Checksums)
  BY <1>1, LenProperties, Zenon DEF Runs
<1>3. \A n \in Names : n \in runner[r].applied <=> n <= L /\ schemaMigrations[n] = Unapplied
  BY <1>1, <1>2, MigrationAssumption, SMTT(20) DEF Runs, Names
<1>4. \A n \in Names : n <= L => runner[r].files[n] \in Checksums /\ runner[r].files[n] # Unapplied
  BY <1>2, MigrationAssumption, ElementOfSeq DEF Names, Unapplied
<1>5. /\ DOMAIN schemaMigrations' = Names /\ DOMAIN executed' = Names
      /\ \A n \in Names :
           /\ n \in runner[r].applied => /\ schemaMigrations'[n] = runner[r].files[n]
                                         /\ executed'[n] = executed[n] + 1
           /\ n \notin runner[r].applied => /\ schemaMigrations'[n] = schemaMigrations[n]
                                            /\ executed'[n] = executed[n]
      /\ schemaMigrations' = [n \in Names |-> schemaMigrations'[n]]
  BY Zenon DEF commitMigrations
<1>6. DOMAIN runner' = Runners /\ runner'[r] = NotMigrating /\ \A q \in Runners \ {r} : runner'[q] = runner[q]
  BY Zenon DEF commitMigrations, MigrationInvariant, MigrationShapes
<1> HIDE DEF L
<1>7. \A n \in Names : schemaMigrations'[n] \in Checksums \cup {Unapplied}
  BY <1>1, <1>3, <1>4, <1>5, Zenon
<1>8. MigrationShapes'
  <2>1. schemaMigrations' \in [Names -> Checksums \cup {Unapplied}]
    BY <1>5, <1>7, Zenon
  <2>2. \A q \in Runners : Runs(runner'[q])
    BY <1>6, NotMigratingRuns, Zenon DEF MigrationInvariant, MigrationShapes
  <2>3. \A q \in Runners : Runs(runner[q])'
    BY <2>2, Zenon DEF Runs
  <2> QED
    BY <1>5, <1>6, <2>1, <2>3, Zenon DEF MigrationShapes
<1>9. LockIsHeld'
  BY <1>1, <1>6, NotMigratingRuns, Zenon DEF LockIsHeld, MigrationInvariant
<1>10. MigrationsRunOnce'
  <2> SUFFICES ASSUME NEW n \in Names
               PROVE  /\ executed'[n] = (IF schemaMigrations'[n] = Unapplied THEN 0 ELSE 1)
                      /\ schemaMigrations'[n] # Unapplied =>
                           \A p \in 1..(n - 1) : schemaMigrations'[p] # Unapplied
    BY Zenon DEF MigrationsRunOnce
  <2>1. /\ executed[n] = (IF schemaMigrations[n] = Unapplied THEN 0 ELSE 1)
        /\ schemaMigrations[n] # Unapplied => \A p \in 1..(n - 1) : schemaMigrations[p] # Unapplied
    BY Zenon DEF MigrationsRunOnce, MigrationInvariant
  <2>2. executed'[n] = (IF schemaMigrations'[n] = Unapplied THEN 0 ELSE 1)
    BY <1>3, <1>4, <1>5, <2>1
  <2>3. ASSUME schemaMigrations'[n] # Unapplied, NEW p \in 1..(n - 1)
        PROVE  schemaMigrations'[p] # Unapplied
    <3>1. p \in Names /\ p < n /\ n \in Nat
      BY MigrationAssumption DEF Names
    <3>2. CASE n <= L
      BY <1>2, <1>3, <1>4, <1>5, <3>1, <3>2, SMTT(20)
    <3>3. CASE ~(n <= L)
      BY <1>3, <1>4, <1>5, <2>1, <2>3, <3>1, <3>3, ZenonT(40)
    <3> QED
      BY <3>2, <3>3, Zenon
  <2> QED
    BY <2>2, <2>3, Zenon
<1> QED
  BY <1>8, <1>9, <1>10, Zenon DEF MigrationInvariant

\* Every migration takes effect at most once, and none before the ones it follows.
THEOREM MigrationsTakeEffectOnce == MigrationSpec => []MigrationsRunOnce
<1>1. MigrationInit => MigrationInvariant
  BY MigrationStarts, Zenon
<1>2. MigrationInvariant /\ [MigrationNext]_migrationVars => MigrationInvariant'
  <2> SUFFICES ASSUME MigrationInvariant, [MigrationNext]_migrationVars PROVE MigrationInvariant'
    BY Zenon
  <2>1. CASE MigrationNext
    BY <2>1, LoadPreserves, LockPreserves, ReadPreserves, ApplyPreserves, CommitPreserves,
       AbandonPreserves, Zenon DEF MigrationNext, MigrationFails
  <2>2. CASE UNCHANGED migrationVars
    BY <2>2, Zenon DEF migrationVars, MigrationInvariant, MigrationShapes, LockIsHeld, MigrationsRunOnce
  <2> QED
    BY <2>1, <2>2, Zenon
<1>3. MigrationInvariant => MigrationsRunOnce
  BY Zenon DEF MigrationInvariant
<1> QED
  BY <1>1, <1>2, <1>3, PTL DEF MigrationSpec

-----------------------------------------------------------------------------
(***************************************************************************)
(* The partitions of the telemetry tables.                                 *)
(*                                                                         *)
(* An event finds its partition because a complete cycle leaves partitions *)
(* up to MonthsAhead months beyond the month it began in                   *)
(* (MonthsAreCovered), also when a month ends while it runs; and it stays  *)
(* because only older partitions are dropped (EventsStay).                 *)
(***************************************************************************)

CycleFields == {"step", "i"}

RetentionShapes ==
  /\ month \in Nat /\ began \in Nat /\ ensured \in Nat /\ began <= month /\ ensured <= month
  /\ DOMAIN cycle = CycleFields /\ cycle.i \in Nat
  /\ \A m \in stored : m \in Nat /\ m <= month
  /\ \A m \in partitions : m \in Nat

\* The months a completed cycle asked for that are still to come have partitions, and
\* so have the months the cycle in progress asked for, unless a month ended since.
MonthsAreCovered ==
  /\ \A m \in Nat : ensured <= m /\ m <= ensured + MonthsAhead /\ month <= m => m \in partitions
  /\ cycle.step # "ensure" => cycle.i = 0
  /\ cycle.i <= MonthsAhead
  /\ cycle.i > 0 /\ began = month =>
       \A m \in Nat : month <= m /\ m < month + cycle.i => m \in partitions

EventsStay == \A m \in stored : m >= month - RetentionMonths => m \in partitions

RetentionInvariant == RetentionShapes /\ MonthsAreCovered /\ EventsStay

\* The first cycle has yet to begin.
LEMMA RetentionStarts == RetentionInit => RetentionInvariant
<1> SUFFICES ASSUME RetentionInit PROVE RetentionInvariant
  BY Zenon
<1>1. DOMAIN cycle = CycleFields /\ cycle.i = 0
  BY Zenon DEF RetentionInit, Resting, CycleFields
<1> QED
  BY <1>1, RetentionAssumption
  DEF RetentionInit, RetentionInvariant, RetentionShapes, MonthsAreCovered, EventsStay

\* A cycle asks for the partition of one more month; the last one completes it, unless a
\* month ended since the first.
LEMMA EnsurePreserves ==
  ASSUME RetentionInvariant, ensureUpcomingPartitions
  PROVE  RetentionInvariant'
<1>0. RetentionShapes /\ MonthsAreCovered /\ EventsStay
  BY Zenon DEF RetentionInvariant
<1> DEFINE start == IF cycle.i = 0 THEN month ELSE began
           done == cycle.i = MonthsAhead
<1>1. /\ partitions' = partitions \cup {month + cycle.i} /\ began' = start
      /\ ensured' = IF done /\ start = month THEN month ELSE ensured
      /\ UNCHANGED <<month, stored>>
  BY Zenon DEF ensureUpcomingPartitions, TargetMonth
<1>2. MonthsAhead \in Nat
  BY RetentionAssumption, Zenon
<1>3. /\ DOMAIN cycle' = CycleFields
      /\ \/ done /\ cycle'.step = "drop" /\ cycle'.i = 0
         \/ ~done /\ cycle'.step = "ensure" /\ cycle'.i = cycle.i + 1
  <2>1. CASE done
    BY <2>1, Zenon DEF ensureUpcomingPartitions, CycleFields
  <2>2. CASE ~done
    BY <2>2, Zenon DEF ensureUpcomingPartitions, CycleFields
  <2> QED
    BY <2>1, <2>2, Zenon
<1>4. /\ month \in Nat /\ began \in Nat /\ ensured \in Nat /\ began <= month /\ ensured <= month
      /\ cycle.i \in Nat /\ cycle.i <= MonthsAhead
  BY <1>0, Zenon DEF RetentionShapes, MonthsAreCovered
<1>5. RetentionShapes'
  BY <1>0, <1>1, <1>2, <1>3, <1>4, SMTT(20) DEF RetentionShapes
<1>6. start = month => \A m \in Nat : month <= m /\ m <= month + cycle.i => m \in partitions'
  <2> SUFFICES ASSUME start = month, NEW m \in Nat, month <= m, m <= month + cycle.i
               PROVE  m \in partitions'
    BY Zenon
  <2>1. CASE m = month + cycle.i
    BY <1>1, <2>1, Zenon
  <2>2. CASE m < month + cycle.i
    <3>1. cycle.i > 0 /\ began = month
      BY <1>4, <2>2
    <3> QED
      BY <1>0, <1>1, <2>2, <3>1, Zenon DEF MonthsAreCovered
  <2> QED
    BY <1>4, <2>1, <2>2
<1>7. MonthsAreCovered'
  <2>1. \A m \in Nat : ensured' <= m /\ m <= ensured' + MonthsAhead /\ month <= m => m \in partitions'
    <3>1. CASE done /\ start = month
      BY <1>1, <1>6, <3>1, Zenon
    <3>2. CASE ~(done /\ start = month)
      BY <1>0, <1>1, <3>2, Zenon DEF MonthsAreCovered
    <3> QED
      BY <3>1, <3>2, Zenon
  <2>2. cycle'.step # "ensure" => cycle'.i = 0
    BY <1>3, Zenon
  <2>3. cycle'.i <= MonthsAhead
    BY <1>2, <1>3, <1>4
  <2>4. cycle'.i > 0 /\ began' = month =>
          \A m \in Nat : month <= m /\ m < month + cycle'.i => m \in partitions'
    BY <1>1, <1>3, <1>4, <1>6
  <2> QED
    BY <1>1, <2>1, <2>2, <2>3, <2>4, Zenon DEF MonthsAreCovered
<1>8. EventsStay'
  BY <1>0, <1>1, Zenon DEF EventsStay
<1> QED
  BY <1>5, <1>7, <1>8, Zenon DEF RetentionInvariant

\* Only partitions that are older than the months of retention are dropped.
LEMMA DropPartitionsPreserves ==
  ASSUME RetentionInvariant, dropExpiredPartitions
  PROVE  RetentionInvariant'
<1>0. RetentionShapes /\ MonthsAreCovered /\ EventsStay
  BY Zenon DEF RetentionInvariant
<1>1. /\ DOMAIN cycle' = CycleFields /\ cycle'.i = 0
      /\ partitions' = {p \in partitions : p >= month - RetentionMonths}
      /\ UNCHANGED <<month, began, ensured, stored>>
  BY Zenon DEF dropExpiredPartitions, Resting, CycleFields
<1>2. RetentionMonths \in Nat /\ MonthsAhead \in Nat
  BY RetentionAssumption, Zenon
<1>3. RetentionShapes'
  BY <1>0, <1>1 DEF RetentionShapes
<1>4. MonthsAreCovered'
  BY <1>0, <1>1, <1>2 DEF MonthsAreCovered, RetentionShapes
<1>5. EventsStay'
  BY <1>0, <1>1, Zenon DEF EventsStay
<1> QED
  BY <1>3, <1>4, <1>5, Zenon DEF RetentionInvariant

\* A cycle that fails, an event that is stored and the end of a month.
LEMMA OtherRetentionStepsPreserve ==
  ASSUME RetentionInvariant, CycleFails \/ appendEvent \/ MonthEnds
  PROVE  RetentionInvariant'
<1>0. RetentionShapes /\ MonthsAreCovered /\ EventsStay
  BY Zenon DEF RetentionInvariant
<1>1. RetentionMonths \in Nat /\ MonthsAhead \in Nat
  BY RetentionAssumption, Zenon
<1>2. CASE CycleFails
  <2>1. /\ DOMAIN cycle' = CycleFields /\ cycle'.i = 0
        /\ UNCHANGED <<month, partitions, began, ensured, stored>>
    BY <1>2, Zenon DEF CycleFails, Resting, CycleFields
  <2> QED
    BY <1>0, <1>1, <2>1 DEF RetentionInvariant, RetentionShapes, MonthsAreCovered, EventsStay
<1>3. CASE appendEvent
  BY <1>0, <1>3 DEF appendEvent, RetentionInvariant, RetentionShapes, MonthsAreCovered, EventsStay
<1>4. CASE MonthEnds
  <2>1. month' = month + 1 /\ UNCHANGED <<partitions, cycle, began, ensured, stored>>
    BY <1>4, Zenon DEF MonthEnds
  <2>2. RetentionShapes'
    BY <1>0, <2>1 DEF RetentionShapes
  <2>3. MonthsAreCovered'
    BY <1>0, <1>1, <2>1 DEF MonthsAreCovered, RetentionShapes
  <2>4. EventsStay'
    BY <1>0, <1>1, <2>1, SMTT(20) DEF EventsStay, RetentionShapes
  <2> QED
    BY <2>2, <2>3, <2>4, Zenon DEF RetentionInvariant
<1> QED
  BY <1>2, <1>3, <1>4, Zenon

\* An event finds its partition while the last complete cycle reaches its month, and
\* stays for the months of retention, whatever cycles fail or straddle a month.
THEOREM RetentionKeepsEvents == RetentionSpec => []EventsAreKept
<1>1. RetentionInit => RetentionInvariant
  BY RetentionStarts, Zenon
<1>2. RetentionInvariant /\ [RetentionNext]_retentionVars => RetentionInvariant'
  <2> SUFFICES ASSUME RetentionInvariant, [RetentionNext]_retentionVars PROVE RetentionInvariant'
    BY Zenon
  <2>1. CASE RetentionNext
    BY <2>1, EnsurePreserves, DropPartitionsPreserves, OtherRetentionStepsPreserve, Zenon DEF RetentionNext
  <2>2. CASE UNCHANGED retentionVars
    BY <2>2, Zenon DEF retentionVars, RetentionInvariant, RetentionShapes, MonthsAreCovered, EventsStay
  <2> QED
    BY <2>1, <2>2, Zenon
<1>3. RetentionInvariant => EventsAreKept
  BY RetentionAssumption
  DEF RetentionInvariant, RetentionShapes, MonthsAreCovered, EventsStay, EventsAreKept
<1> QED
  BY <1>1, <1>2, <1>3, PTL DEF RetentionSpec

-----------------------------------------------------------------------------
(***************************************************************************)
(* The files of an enrolled host, for any number of runs of enroll.        *)
(*                                                                         *)
(* NodeHasItsKeys is not inductive: that the last write completes a node   *)
(* needs what the writes before it have left, step by step (WrittenSoFar), *)
(* and that an agent can sign needs that the identity key is never older   *)
(* than the node it was started for (AgentIsCovered).                      *)
(***************************************************************************)

AgentStates == [running : BOOLEAN, node : Nat, signs : BOOLEAN, rotation : {"none", "done", "failed"}]

HostTypes ==
  /\ runs \in Nat
  /\ disk \in [wg : 0..runs, identity : 0..runs, cert : 0..runs, node : 0..runs]
  /\ interface \in 0..runs
  /\ enrolment \in [step : {"none", "register", "apply", "wg", "identity", "cert", "env"}, hardware : Nat]
  /\ enrolment.step = "none" => enrolment = NoEnrolment
  /\ agent \in AgentStates

\* Which files the run under way has written.
WrittenSoFar ==
  /\ enrolment.step \in {"wg", "identity", "cert", "env"} => interface = runs
  /\ enrolment.step \in {"identity", "cert", "env"} => disk.wg = runs
  /\ enrolment.step \in {"cert", "env"} => disk.identity = runs
  /\ enrolment.step = "env" => disk.cert = runs

KeysBeforeNode ==
  disk.node # 0 => disk.wg >= disk.node /\ disk.identity >= disk.node /\ disk.cert >= disk.node

AgentIsCovered ==
  /\ agent.running => agent.signs /\ agent.node <= disk.identity
  /\ agent.rotation = "failed" => agent.running /\ disk.identity > agent.node

\* Before a run has begun to write, the files are those of the run before it.
FilesAgree ==
  ~interrupted /\ enrolment.step \in {"none", "register", "apply"} =>
    disk.wg = interface /\ disk.identity = interface /\ disk.cert = interface /\ disk.node = interface

\* The inductive invariant.
HostInvariant == HostTypes /\ WrittenSoFar /\ KeysBeforeNode /\ AgentIsCovered /\ FilesAgree

\* The records that describe an agent are what they look like.
LEMMA AgentRecords ==
  ASSUME NEW running \in BOOLEAN, NEW node \in Nat, NEW signs \in BOOLEAN,
         NEW rotation \in {"none", "done", "failed"}
  PROVE  [running |-> running, node |-> node, signs |-> signs, rotation |-> rotation] \in AgentStates
BY Zenon DEF AgentStates

\* A host on which nothing was enrolled yet satisfies the invariant.
LEMMA HostInitially == HostInit => HostInvariant
<1> SUFFICES ASSUME HostInit PROVE HostInvariant
  BY Zenon
<1> USE DEF HostInit, NoEnrolment, NoAgent
<1>1. HostTypes
  <2>1. agent \in AgentStates
    BY AgentRecords, 0 \in Nat, Zenon
  <2> QED
    BY <2>1 DEF HostTypes
<1>2. WrittenSoFar /\ KeysBeforeNode
  BY Zenon DEF WrittenSoFar, KeysBeforeNode
<1>3. AgentIsCovered
  BY Zenon DEF AgentIsCovered
<1>4. FilesAgree
  BY Zenon DEF FilesAgree
<1> QED
  BY <1>1, <1>2, <1>3, <1>4, Zenon DEF HostInvariant

\* Every step of the enroll command and of the agent preserves the invariant.
LEMMA HostStep == HostInvariant /\ [HostNext]_hostVars => HostInvariant'
<1> SUFFICES ASSUME HostInvariant, [HostNext]_hostVars PROVE HostInvariant'
  BY Zenon
<1> USE DEF HostInvariant, HostTypes, WrittenSoFar, KeysBeforeNode, AgentIsCovered, FilesAgree
<1>1. CASE enroll
  BY <1>1 DEF enroll, detectHardwareUuid, NoEnrolment
<1>2. CASE registerNode
  BY <1>2 DEF registerNode, Step, NoEnrolment
<1>3. CASE applyWireGuard
  BY <1>3 DEF applyWireGuard, Step, NoEnrolment
<1>4. CASE writeFiles
  <2>1. CASE Step("wg", "identity") /\ disk' = [disk EXCEPT !.wg = runs]
    BY <1>4, <2>1 DEF writeFiles, Step, NoEnrolment
  <2>2. CASE Step("identity", "cert") /\ disk' = [disk EXCEPT !.identity = runs]
    <3>1. /\ disk'.identity = runs /\ disk'.wg = disk.wg /\ disk'.cert = disk.cert /\ disk'.node = disk.node
          /\ disk' \in [wg : 0..runs, identity : 0..runs, cert : 0..runs, node : 0..runs]
      BY <2>2
    <3>2. AgentIsCovered'
      BY <1>4, <3>1 DEF writeFiles, AgentStates
    <3> QED
      BY <1>4, <2>2, <3>1, <3>2, Zenon DEF writeFiles, Step, NoEnrolment
  <2>3. CASE Step("cert", "env") /\ disk' = [disk EXCEPT !.cert = runs]
    BY <1>4, <2>3, Zenon DEF writeFiles, Step, NoEnrolment
  <2> QED
    BY <1>4, <2>1, <2>2, <2>3, Zenon DEF writeFiles
<1>5. CASE upsertEnvLine
  BY <1>5 DEF upsertEnvLine, NoEnrolment
<1>6. CASE EnrollInterrupted
  <2>1. interface' \in 0..runs /\ (enrolment.step # "apply" => interface' = interface)
    BY <1>6 DEF EnrollInterrupted
  <2>2. CASE enrolment.step = "register"
    BY <1>6, <2>1, <2>2, Zenon DEF EnrollInterrupted, NoEnrolment
  <2>3. CASE enrolment.step # "register"
    BY <1>6, <2>1, <2>3, ZenonT(40) DEF EnrollInterrupted, NoEnrolment
  <2> QED
    BY <2>2, <2>3, Zenon
<1>7. CASE StartAgent
  <2>1. disk.node \in Nat /\ disk.identity # 0
    BY <1>7 DEF StartAgent
  <2>2. agent' = [running |-> TRUE, node |-> disk.node, signs |-> TRUE, rotation |-> "none"]
    BY <1>7, <2>1, Zenon DEF StartAgent
  <2>3. agent' \in AgentStates
    BY <2>1, <2>2, AgentRecords, Zenon
  <2> QED
    BY <1>7, <2>2, <2>3, SMTT(20) DEF StartAgent
<1>8. CASE StopAgent
  <2>1. agent' \in AgentStates
    BY <1>8, AgentRecords, 0 \in Nat, Zenon DEF StopAgent, NoAgent
  <2> QED
    BY <1>8, <2>1, Zenon DEF StopAgent, NoAgent
<1>9. CASE RotateIdentity
  <2>1. PICK r \in {"done", "failed"} :
          agent' = [agent EXCEPT !.rotation = r] /\ (r = "failed" => disk.identity # agent.node)
    BY <1>9, Zenon DEF RotateIdentity, sign, verifyRotationSignature
  <2>2. agent' \in AgentStates
    BY <2>1, Zenon DEF AgentStates
  <2>3. /\ agent'.running = agent.running /\ agent'.node = agent.node
        /\ agent'.signs = agent.signs /\ agent'.rotation = r
    BY <2>1, Zenon DEF AgentStates
  <2>4. AgentIsCovered'
    BY <1>9, <2>1, <2>3 DEF RotateIdentity, AgentStates
  <2> QED
    BY <1>9, <2>2, <2>4, Zenon DEF RotateIdentity
<1>10. CASE UNCHANGED hostVars
  BY <1>10, Zenon DEF hostVars
<1> QED
  BY <1>1, <1>2, <1>3, <1>4, <1>5, <1>6, <1>7, <1>8, <1>9, <1>10, Zenon DEF HostNext

\* The invariant is stronger than the property.
LEMMA HostInvariantGivesKeys == HostInvariant => NodeHasItsKeys
BY SMTT(20) DEF HostInvariant, HostTypes, KeysBeforeNode, AgentIsCovered, FilesAgree, NodeHasItsKeys, NoEnrolment

\* agent.env never names a node whose keys enroll has not written, and the agent it
\* starts can sign the node's rotations, for any number of runs and interruptions.
THEOREM KeysAreThere == HostSpec => []NodeHasItsKeys
BY HostInitially, HostStep, HostInvariantGivesKeys, PTL DEF HostSpec

-----------------------------------------------------------------------------
(***************************************************************************)
(* One trust anchor and complete revocation lists, for any number of       *)
(* processes, nodes and generated keys.                                    *)
(*                                                                         *)
(* OneAnchor needs that a process past its look-up, and every signature,   *)
(* implies a row in dev_trust_anchor: only then may the row not be written *)
(* any more (Anchored, Signed).  CrlKeepsRevoked needs that only a         *)
(* certificate that exists is being revoked, that a completed revocation   *)
(* is never undone, and the property of the list being built               *)
(* (RevokedStayRevoked).                                                   *)
(***************************************************************************)

TrustTypes ==
  /\ generated \in Nat
  /\ devTrustAnchor \in Nat
  /\ process \in [Processes -> [step : {"down", "create", "reread", "issuer", "ready"}, key : Nat]]
  /\ certificates \in [CertNodes -> [state : {"none", "active", "revoked"}, key : Nat]]

Anchored == \A p \in Processes :
  /\ process[p].step \in {"reread", "issuer", "ready"} => devTrustAnchor # NoKey
  /\ process[p].step \in {"issuer", "ready"} => process[p].key = devTrustAnchor

Signed ==
  /\ \A n \in CertNodes : certificates[n].state # "none" =>
                            devTrustAnchor # NoKey /\ certificates[n].key = devTrustAnchor
  /\ crl.key \in {NoKey, devTrustAnchor}
  /\ listing # NotListing => listing.by \in Processes /\ process[listing.by].step = "ready"

RevokedStayRevoked ==
  /\ \A n \in revoking : n \in CertNodes /\ certificates[n].state # "none"
  /\ \A n \in condemned : n \in CertNodes /\ certificates[n].state = "revoked"
  /\ listing.condemned \subseteq listing.revoked
  /\ crl.condemned \subseteq crl.revoked

\* The inductive invariant.
TrustInvariant == TrustTypes /\ Anchored /\ Signed /\ RevokedStayRevoked

\* Before any process has started the invariant holds.
LEMMA TrustInitially == TrustInit => TrustInvariant
BY DEF TrustInit, TrustInvariant, TrustTypes, Anchored, Signed, RevokedStayRevoked, Down, NoKey, NotListing

\* The statements of loadTrustAnchor, in any interleaving, preserve the invariant.
LEMMA BootStep ==
  ASSUME TrustInvariant, NEW p \in Processes,
         loadAnchor(p) \/ createAnchor(p) \/ rereadAnchor(p) \/ upsertIssuerRow(p)
  PROVE  TrustInvariant'
<1> USE DEF TrustInvariant, TrustTypes, NoCertificateChange, Boot, NoKey
<1>1. RevokedStayRevoked'
  BY Zenon DEF RevokedStayRevoked, loadAnchor, createAnchor, rereadAnchor, upsertIssuerRow
<1>2. CASE loadAnchor(p)
  BY <1>1, <1>2, SMTT(20) DEF loadAnchor, Anchored, Signed
<1>3. CASE createAnchor(p)
  BY <1>1, <1>3 DEF createAnchor, Anchored, Signed
<1>4. CASE rereadAnchor(p)
  BY <1>1, <1>4, Zenon DEF rereadAnchor, Winner, Anchored, Signed
<1>5. CASE upsertIssuerRow(p)
  BY <1>1, <1>5 DEF upsertIssuerRow, Anchored, Signed
<1> QED
  BY <1>2, <1>3, <1>4, <1>5, Zenon

\* Issuing, revoking and listing preserve the invariant.
LEMMA CertificateStep ==
  ASSUME TrustInvariant,
         \/ \E p \in Processes : listRevoked(p) \/ \E n \in CertNodes : issueNode(p, n)
         \/ \E n \in CertNodes : activeCertificateFor(n) \/ revoke(n)
         \/ buildCrl
  PROVE  TrustInvariant'
<1> USE DEF TrustInvariant, TrustTypes, NoKey
<1>1. ASSUME NEW p \in Processes, listRevoked(p) PROVE TrustInvariant'
  BY <1>1, Zenon DEF listRevoked, Anchored, Signed, RevokedStayRevoked
<1>2. ASSUME NEW p \in Processes, NEW n \in CertNodes, issueNode(p, n) PROVE TrustInvariant'
  BY <1>2, Zenon DEF issueNode, Anchored, Signed, RevokedStayRevoked
<1>3. ASSUME NEW n \in CertNodes, activeCertificateFor(n) PROVE TrustInvariant'
  BY <1>3, Zenon DEF activeCertificateFor, Anchored, Signed, RevokedStayRevoked
<1>4. ASSUME NEW n \in CertNodes, revoke(n) PROVE TrustInvariant'
  BY <1>4, ZenonT(40) DEF revoke, Anchored, Signed, RevokedStayRevoked
<1>5. CASE buildCrl
  BY <1>5, Zenon DEF buildCrl, Entries, NotListing, Anchored, Signed, RevokedStayRevoked
<1> QED
  BY <1>1, <1>2, <1>3, <1>4, <1>5, Zenon

\* A process that ends and an issuer that is deactivated preserve the invariant.
LEMMA OtherStep ==
  ASSUME TrustInvariant, (\E p \in Processes : StopProcess(p)) \/ DeactivateIssuer \/ UNCHANGED trustVars
  PROVE  TrustInvariant'
<1> USE DEF TrustInvariant, TrustTypes, NoKey
<1>1. ASSUME NEW p \in Processes, StopProcess(p) PROVE TrustInvariant'
  BY <1>1, Zenon DEF StopProcess, Boot, NotListing, Anchored, Signed, RevokedStayRevoked
<1>2. CASE DeactivateIssuer
  BY <1>2, Zenon DEF DeactivateIssuer, NoCertificateChange, Anchored, Signed, RevokedStayRevoked
<1>3. CASE UNCHANGED trustVars
  BY <1>3, Zenon DEF trustVars, Anchored, Signed, RevokedStayRevoked
<1> QED
  BY <1>1, <1>2, <1>3, Zenon

\* The invariant holds throughout.
LEMMA TrustInvariantHolds == TrustSpec => []TrustInvariant
<1>1. TrustInvariant /\ [TrustNext]_trustVars => TrustInvariant'
  BY BootStep, CertificateStep, OtherStep, Zenon DEF TrustNext
<1> QED
  BY <1>1, TrustInitially, PTL DEF TrustSpec

\* However the processes start, race and restart, all that are ready hold one key, and
\* every certificate and revocation list is signed with it (loadOrCreate).
THEOREM AnchorIsShared == TrustSpec => []OneAnchor
<1>1. TrustInvariant => OneAnchor
  BY Zenon DEF TrustInvariant, Anchored, Signed, OneAnchor
<1> QED
  BY <1>1, TrustInvariantHolds, PTL

\* A served revocation list has every node whose revocation had been completed when the
\* list was read (listRevoked, ForgeCrlBuilder.build).
THEOREM ListsAreComplete == TrustSpec => []CrlKeepsRevoked
<1>1. TrustInvariant => CrlKeepsRevoked
  BY Zenon DEF TrustInvariant, RevokedStayRevoked, CrlKeepsRevoked
<1> QED
  BY <1>1, TrustInvariantHolds, PTL

=============================================================================
