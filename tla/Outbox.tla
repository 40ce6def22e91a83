-------------------------------- MODULE Outbox -------------------------------
(***************************************************************************)
(* The transactional outbox: publish writes a row, the maintenance worker  *)
(* (possibly several replicas of it) delivers rows, the retention job      *)
(* removes delivered ones.                                                 *)
(*                                                                         *)
(* OutboxDispatcher.flush is one database transaction: the rows it selects *)
(* stay locked, and what it writes stays invisible to others, until it     *)
(* commits or rolls back.  A delivery cannot be rolled back.               *)
(***************************************************************************)
EXTENDS Naturals, FiniteSets, FiniteSetsExt

CONSTANTS
  Dispatchers,     \* replicas of the maintenance worker
  MaxEvents,       \* bound on the rows ever written, numbered by created_at
  FlushLimit,      \* rows one flush takes (100 in the code)
  MaxOutboxFaults  \* bound on failing deliveries and transactions

ASSUME OutboxAssumption == {MaxEvents, FlushLimit, MaxOutboxFaults} \subseteq Nat /\ FlushLimit > 0

VARIABLES
  rows,            \* [row -> "absent", "unpublished", "published"] as committed
  flushing,        \* [dispatcher -> the rows it has locked and what it did with them]
  outboxFaults,    \* failures so far
  delivered,       \* history: [row -> times it was sent]
  undone           \* history: rows sent by a flush that was then rolled back

outboxVars == <<rows, flushing, outboxFaults, delivered, undone>>

-----------------------------------------------------------------------------
Rows == 1..MaxEvents

NotFlushing == [active |-> FALSE, todo |-> {}, sent |-> {}, failed |-> {}]

OutboxInit ==
  /\ rows = [o \in Rows |-> "absent"]
  /\ flushing = [d \in Dispatchers |-> NotFlushing]
  /\ outboxFaults = 0
  /\ delivered = [o \in Rows |-> 0]
  /\ undone = {}

\* TransactionalOutbox.publish: the key of the event is not unique, so a call
\* that is repeated writes another row.
publish(o) ==
  /\ rows[o] = "absent"
  /\ delivered[o] = 0
  /\ \A p \in Rows : p < o => rows[p] # "absent" \/ delivered[p] > 0
  /\ rows' = [rows EXCEPT ![o] = "unpublished"]
  /\ UNCHANGED <<flushing, outboxFaults, delivered, undone>>

Locked == UNION {flushing[d].todo \cup flushing[d].sent \cup flushing[d].failed : d \in Dispatchers}

\* Variant of Selectable: the rows another flush has locked are selected too.
SelectableLocked == {o \in Rows : rows[o] = "unpublished"}

\* WHERE published_at IS NULL ... FOR UPDATE SKIP LOCKED
Selectable == {o \in Rows : rows[o] = "unpublished"} \ Locked

\* ORDER BY created_at ... LIMIT $1
Oldest(S) == {o \in S : Cardinality({p \in S : p < o}) < FlushLimit}

\* OutboxDispatcher.flush, its SELECT.
flush(d) ==
  /\ ~flushing[d].active
  /\ Selectable # {}
  /\ flushing' = [flushing EXCEPT ![d] = [NotFlushing EXCEPT !.active = TRUE, !.todo = Oldest(Selectable)]]
  /\ UNCHANGED <<rows, outboxFaults, delivered, undone>>

\* One row of the loop: send it, then mark it in the transaction.
send(d) ==
  /\ flushing[d].todo # {}
  /\ LET o == Min(flushing[d].todo)
     IN  /\ flushing' = [flushing EXCEPT ![d].todo = @ \ {o}, ![d].sent = @ \cup {o}]
         /\ delivered' = [delivered EXCEPT ![o] = IF @ < 2 THEN @ + 1 ELSE 2]
  /\ UNCHANGED <<rows, outboxFaults, undone>>

\* The send throws: the row keeps the error and stays unpublished.
SendFails(d) ==
  /\ flushing[d].todo # {}
  /\ outboxFaults < MaxOutboxFaults
  /\ outboxFaults' = outboxFaults + 1
  /\ LET o == Min(flushing[d].todo)
     IN  flushing' = [flushing EXCEPT ![d].todo = @ \ {o}, ![d].failed = @ \cup {o}]
  /\ UNCHANGED <<rows, delivered, undone>>

Published(d) == flushing[d].sent

\* Variant of CommitFlush: the locks on rows whose delivery failed are kept.
CommitFlushLocking(d) ==
  /\ flushing[d].active
  /\ flushing[d].todo = {}
  /\ rows' = [o \in Rows |-> IF o \in Published(d) THEN "published" ELSE rows[o]]
  /\ flushing' = [flushing EXCEPT ![d] = [NotFlushing EXCEPT !.failed = flushing[d].failed]]
  /\ UNCHANGED <<outboxFaults, delivered, undone>>

\* COMMIT in Postgres.transaction.
CommitFlush(d) ==
  /\ flushing[d].active
  /\ flushing[d].todo = {}
  /\ rows' = [o \in Rows |-> IF o \in Published(d) THEN "published" ELSE rows[o]]
  /\ flushing' = [flushing EXCEPT ![d] = NotFlushing]
  /\ UNCHANGED <<outboxFaults, delivered, undone>>

\* A statement fails or the worker ends: ROLLBACK, and the locks are gone.
RollbackFlush(d) ==
  /\ flushing[d].active
  /\ outboxFaults < MaxOutboxFaults
  /\ outboxFaults' = outboxFaults + 1
  /\ undone' = undone \cup flushing[d].sent
  /\ flushing' = [flushing EXCEPT ![d] = NotFlushing]
  /\ UNCHANGED <<rows, delivered>>

\* Published rows that are old enough for purge_expired_control_plane_rows.
Purgeable == {o \in Rows : rows[o] = "published"}

purgeOutbox ==
  \E old \in SUBSET Purgeable :
    /\ old # {}
    /\ rows' = [o \in Rows |-> IF o \in old THEN "absent" ELSE rows[o]]
    /\ UNCHANGED <<flushing, outboxFaults, delivered, undone>>

OutboxNext ==
  \/ \E o \in Rows : publish(o)
  \/ \E d \in Dispatchers : flush(d) \/ send(d) \/ SendFails(d) \/ CommitFlush(d) \/ RollbackFlush(d)
  \/ purgeOutbox

\* runOutboxLoop calls flush again every five seconds, also after an error, and a
\* flush that is not disturbed runs to its end.
OutboxFairness == \A d \in Dispatchers : WF_outboxVars(flush(d) \/ send(d) \/ CommitFlush(d))

OutboxSpec == OutboxInit /\ [][OutboxNext]_outboxVars /\ OutboxFairness
-----------------------------------------------------------------------------
\* The variables have their types.
OutboxTypeOK ==
  /\ rows \in [Rows -> {"absent", "unpublished", "published"}]
  /\ \A d \in Dispatchers :
       /\ flushing[d].todo \cup flushing[d].sent \cup flushing[d].failed \subseteq Rows
       /\ flushing[d].active \in BOOLEAN
  /\ delivered \in [Rows -> 0..2]
  /\ undone \subseteq Rows

\* However many replicas flush, a row is delivered twice only if a flush that had
\* sent it was rolled back (the comment on OutboxDispatcher.flush: "multiple
\* dispatcher replicas never double-deliver the same row"), and a row that is
\* marked as published, or purged, was delivered: a failed delivery, a rolled-back
\* flush or the retention job never lose an event.
DeliveredExactlyOnce ==
  \A o \in Rows :
    /\ o \notin undone => delivered[o] <= 1
    /\ rows[o] = "published" \/ (rows[o] = "absent" /\ \E p \in Rows : p > o /\ rows[p] # "absent")
         => delivered[o] > 0

\* Every event that is written is delivered (runOutboxLoop), though deliveries fail
\* and flushes are rolled back a bounded number of times: again and again there is
\* no undelivered event (at most MaxEvents are written, so none waits forever).
EventsAreDelivered == []<>(\A o \in Rows : rows[o] = "unpublished" => delivered[o] > 0)
=============================================================================
