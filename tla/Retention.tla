------------------------------ MODULE Retention ------------------------------
(***************************************************************************)
(* The monthly partitions of security_events and the job that keeps them:  *)
(* RetentionService, called by runRetentionLoop every hour.                *)
(*                                                                         *)
(* The table has no default partition, so an event is written only if the  *)
(* partition of its month exists.  Each statement of a cycle is a step,    *)
(* and each reads the time again: a month may end between two of them.     *)
(***************************************************************************)
EXTENDS Integers

CONSTANTS
  RetentionMonths,   \* EVENT_RETENTION_MONTHS
  MonthsAhead,       \* months created in advance (1 in the code)
  LastMonth          \* bound on the months explored

\* The first months are those db/005 creates: no more of them are asked for in advance.
ASSUME RetentionAssumption ==
  {RetentionMonths, MonthsAhead, LastMonth} \subseteq Nat /\ MonthsAhead <= 1

VARIABLES
  month,        \* the current month
  partitions,   \* months that have a partition
  cycle,        \* step of the cycle in progress
  began,        \* month in which the cycle's first statement ran
  ensured,      \* history: last month in which a cycle created all it should
  stored        \* history: months in which an event was written

retentionVars == <<month, partitions, cycle, began, ensured, stored>>

Resting == [step |-> "rest", i |-> 0]

\* db/005 creates the partitions of the month it runs in and of the next.
RetentionInit ==
  /\ month = 1
  /\ partitions = 1..2
  /\ cycle = Resting
  /\ began = 1
  /\ ensured = 1
  /\ stored = {}

\* Variant of TargetMonth: every statement of the loop asks for the current month.
TargetMonthCurrent(i) == month

\* The month the i-th statement of ensureUpcomingPartitions asks for.
TargetMonth(i) == month + i

\* ensureUpcomingPartitions: ensure_month_partition for this month and the next ones.
ensureUpcomingPartitions ==
  LET start == IF cycle.i = 0 THEN month ELSE began
      done  == cycle.i = MonthsAhead
  IN  /\ cycle.step = "rest" \/ cycle.step = "ensure"
      /\ partitions' = partitions \cup {TargetMonth(cycle.i)}
      /\ began' = start
      /\ cycle' = IF done THEN [step |-> "drop", i |-> 0] ELSE [step |-> "ensure", i |-> cycle.i + 1]
      /\ ensured' = IF done /\ start = month THEN month ELSE ensured
      /\ UNCHANGED <<month, stored>>

\* drop_expired_event_partitions: whole months before the cutoff.
dropExpiredPartitions ==
  /\ cycle.step = "drop"
  /\ partitions' = {p \in partitions : p >= month - RetentionMonths}
  /\ cycle' = Resting
  /\ UNCHANGED <<month, began, ensured, stored>>

\* A statement fails: the rest of the cycle is left for the next one.
CycleFails ==
  /\ cycle.step # "rest"
  /\ cycle' = Resting
  /\ UNCHANGED <<month, partitions, began, ensured, stored>>

\* PgRepositories.append of a security event, refused without a partition.
appendEvent ==
  /\ month \in partitions
  /\ stored' = stored \cup {month}
  /\ UNCHANGED <<month, partitions, cycle, began, ensured>>

MonthEnds ==
  /\ month < LastMonth
  /\ month' = month + 1
  /\ UNCHANGED <<partitions, cycle, began, ensured, stored>>

RetentionNext ==
  \/ ensureUpcomingPartitions \/ dropExpiredPartitions \/ CycleFails \/ appendEvent \/ MonthEnds

RetentionSpec == RetentionInit /\ [][RetentionNext]_retentionVars
-----------------------------------------------------------------------------
\* The variables have their types.
RetentionTypeOK ==
  /\ month \in 1..LastMonth
  /\ partitions \subseteq 1..(LastMonth + MonthsAhead + 1)
  /\ cycle.step \in {"rest", "ensure", "drop"} /\ cycle.i \in 0..MonthsAhead
  /\ stored \subseteq 1..LastMonth

\* An event finds its partition as long as one cycle created its partitions within
\* one month, in this month or the one before, and an event that was written is kept
\* for the months of retention, whatever cycles fail or are cut by the end of a month.
EventsAreKept ==
  /\ month \in ensured..(ensured + MonthsAhead) => month \in partitions
  /\ \A m \in stored : m >= month - RetentionMonths => m \in partitions
=============================================================================
