----------------------------- MODULE AuditChain -----------------------------
(***************************************************************************)
(* The tamper-evident audit chain: AuditService.record and verify over the *)
(* table audit_chain.                                                      *)
(*                                                                         *)
(* record reads the last row and then inserts the next, in two statements  *)
(* of which other requests and the maintenance worker know nothing.  The   *)
(* sequence number that is hashed is the last one plus one; the one that   *)
(* is stored comes from the identity column, which an INSERT that fails    *)
(* advances too.                                                           *)
(***************************************************************************)
EXTENDS Naturals, Sequences

CONSTANTS
  Writers,       \* requests and loops that record an action
  MaxRecords,    \* bound on the rows of audit_chain
  MaxAborts      \* bound on the INSERTs that fail

ASSUME AuditAssumption == {MaxRecords, MaxAborts} \subseteq Nat

VARIABLES
  chain,         \* audit_chain in the order of its sequence column
  identity,      \* last value the identity column handed out
  writer,        \* [writer -> what it read, or Silent]
  aborts,        \* INSERTs that failed so far
  broken         \* history: a row was added over a stale last row, or after a lost number

auditVars == <<chain, identity, writer, aborts, broken>>

-----------------------------------------------------------------------------
\* The hash covers the sequence number, who wrote what, and the previous hash.  It
\* is its arguments, so that it is equal only for equal ones.
digest(sequence, by, previous) == <<sequence, by>> \o previous

Genesis == <<0>>

Silent == [reading |-> FALSE, sequence |-> 0, hash |-> Genesis]

\* PgRepositories.last: the row with the highest sequence number.
last == IF chain = <<>> THEN [sequence |-> 0, hash |-> Genesis]
        ELSE [sequence |-> chain[Len(chain)].sequence, hash |-> chain[Len(chain)].hash]

AuditInit ==
  /\ chain = <<>>
  /\ identity = 0
  /\ writer = [w \in Writers |-> Silent]
  /\ aborts = 0
  /\ broken = FALSE

\* AuditService.record up to its second statement.
record(w) ==
  /\ ~writer[w].reading
  /\ Len(chain) < MaxRecords
  /\ writer' = [writer EXCEPT ![w] =
       [reading |-> TRUE, sequence |-> last.sequence, hash |-> last.hash]]
  /\ UNCHANGED <<chain, identity, aborts, broken>>

\* Variant of Row: the number that is hashed is the one last read.
RowUncounted(w) ==
  [sequence |-> identity + 1, by |-> w, previous |-> writer[w].hash,
   hash |-> digest(writer[w].sequence, w, writer[w].hash)]

\* The row AuditService.record builds; the database gives it its sequence number.
Row(w) ==
  [sequence |-> identity + 1, by |-> w, previous |-> writer[w].hash,
   hash |-> digest(writer[w].sequence + 1, w, writer[w].hash)]

\* PgRepositories.append of a record.
append(w) ==
  /\ writer[w].reading
  /\ chain' = Append(chain, Row(w))
  /\ identity' = identity + 1
  /\ writer' = [writer EXCEPT ![w] = Silent]
  /\ broken' = (broken \/ writer[w].hash # last.hash \/ identity # last.sequence)
  /\ UNCHANGED aborts

\* The INSERT fails: the caller's request fails, the number is not given back.
AppendFails(w) ==
  /\ writer[w].reading
  /\ aborts < MaxAborts
  /\ aborts' = aborts + 1
  /\ identity' = identity + 1
  /\ writer' = [writer EXCEPT ![w] = Silent]
  /\ UNCHANGED <<chain, broken>>

AuditNext == \E w \in Writers : record(w) \/ append(w) \/ AppendFails(w)

AuditSpec == AuditInit /\ [][AuditNext]_auditVars
-----------------------------------------------------------------------------
\* AuditService.verify: every row names the hash before it and hashes to its own.
verifyChain ==
  \A i \in DOMAIN chain :
    /\ chain[i].previous = (IF i = 1 THEN Genesis ELSE chain[i - 1].hash)
    /\ chain[i].hash = digest(chain[i].sequence, chain[i].by, chain[i].previous)

\* The variables have their types.
AuditTypeOK ==
  /\ \A i \in DOMAIN chain : chain[i].by \in Writers /\ chain[i].sequence \in 1..identity
  /\ \A i, j \in DOMAIN chain : i < j => chain[i].sequence < chain[j].sequence
  /\ identity <= MaxRecords + MaxAborts + 2
  /\ aborts \in 0..MaxAborts
  /\ broken \in BOOLEAN

\* GET /api/v1/audit/verify answers true exactly as long as no two records raced
\* for the same last row and no number of the identity column was lost before a
\* record: either of them breaks the chain for good, and nothing else does.
ChainVerifies == verifyChain <=> ~broken
=============================================================================
