------------------------------ MODULE Migrations -----------------------------
(***************************************************************************)
(* The schema migrations: MigrationRunner.apply, run by every deployment   *)
(* with the files it was built with.                                       *)
(*                                                                         *)
(* One run is one transaction that first takes an advisory lock.  Under    *)
(* READ COMMITTED each statement sees what was committed before it began,  *)
(* so a run that waited for the lock sees what the run before it wrote.    *)
(***************************************************************************)
EXTENDS Naturals, Sequences

CONSTANTS
  Runners,        \* deployments that migrate
  MaxFiles,       \* bound on the migration files of a deployment
  Checksums       \* versions a file of one name may have

\* 0 stands for no checksum and for no runner.
ASSUME MigrationAssumption == MaxFiles \in Nat /\ 0 \notin Checksums /\ 0 \notin Runners

VARIABLES
  schemaMigrations,  \* public.schema_migrations, committed: [name -> checksum or Unapplied]
  executed,          \* history: [name -> committed executions of its SQL]
  lockHolder,        \* the runner that holds the advisory lock, or None
  runner             \* [runner -> its files, what it read and what it has done so far]

migrationVars == <<schemaMigrations, executed, lockHolder, runner>>

-----------------------------------------------------------------------------
Unapplied == 0
None == 0
Names == 1..MaxFiles

NotMigrating ==
  [step |-> "idle", files |-> <<>>, existing |-> [n \in Names |-> Unapplied], next |-> 1, applied |-> {}]

MigrationInit ==
  /\ schemaMigrations = [n \in Names |-> Unapplied]
  /\ executed = [n \in Names |-> 0]
  /\ lockHolder = None
  /\ runner = [r \in Runners |-> NotMigrating]

\* loadMigrations (sorted by name), ensureTable and BEGIN.
loadMigrations(r) ==
  /\ runner[r].step = "idle"
  /\ \E n \in Names : \E files \in [1..n -> Checksums] :
       runner' = [runner EXCEPT ![r] = [NotMigrating EXCEPT !.step = "lock", !.files = files]]
  /\ UNCHANGED <<schemaMigrations, executed, lockHolder>>

\* Variant of takeLock: what was applied is read before the lock is held.
takeLockAfterReading(r) ==
  /\ runner[r].step = "lock"
  /\ IF runner[r].next = 1 /\ lockHolder # r
     THEN /\ runner' = [runner EXCEPT ![r].existing = schemaMigrations, ![r].next = MaxFiles + 1]
          /\ UNCHANGED lockHolder
     ELSE /\ lockHolder = None
          /\ lockHolder' = r
          /\ runner' = [runner EXCEPT ![r].step = "apply", ![r].next = 1]
  /\ UNCHANGED <<schemaMigrations, executed>>

\* SELECT pg_advisory_xact_lock: waits until the lock is free.
takeLock(r) ==
  /\ runner[r].step = "lock"
  /\ lockHolder = None
  /\ lockHolder' = r
  /\ runner' = [runner EXCEPT ![r].step = "read"]
  /\ UNCHANGED <<schemaMigrations, executed>>

\* SELECT name, checksum FROM schema_migrations
readExisting(r) ==
  /\ runner[r].step = "read"
  /\ runner' = [runner EXCEPT ![r].step = "apply", ![r].existing = schemaMigrations]
  /\ UNCHANGED <<schemaMigrations, executed, lockHolder>>

\* ROLLBACK: the lock goes with the transaction.
Abandon(r) ==
  /\ runner' = [runner EXCEPT ![r] = NotMigrating]
  /\ lockHolder' = IF lockHolder = r THEN None ELSE lockHolder
  /\ UNCHANGED <<schemaMigrations, executed>>

\* The file was applied with another checksum.
Changed(r) ==
  LET n == runner[r].next
  IN  runner[r].existing[n] \notin {Unapplied, runner[r].files[n]}

\* One file of the loop: refuse, skip, or execute and record it.
applyFile(r) ==
  LET n == runner[r].next
  IN  /\ runner[r].step = "apply"
      /\ n <= Len(runner[r].files)
      /\ IF Changed(r)
         THEN Abandon(r)
         ELSE /\ runner' = [runner EXCEPT ![r].next = n + 1,
                 ![r].applied = IF runner[r].existing[n] = Unapplied THEN @ \cup {n} ELSE @]
              /\ UNCHANGED <<schemaMigrations, executed, lockHolder>>

\* COMMIT: the rows and the schema become visible together.
commitMigrations(r) ==
  /\ runner[r].step = "apply"
  /\ runner[r].next > Len(runner[r].files)
  /\ schemaMigrations' = [n \in Names |-> IF n \in runner[r].applied THEN runner[r].files[n]
                                           ELSE schemaMigrations[n]]
  /\ executed' = [n \in Names |-> IF n \in runner[r].applied THEN executed[n] + 1 ELSE executed[n]]
  /\ lockHolder' = None
  /\ runner' = [runner EXCEPT ![r] = NotMigrating]

\* A migration fails, or the process ends.
MigrationFails(r) == runner[r].step # "idle" /\ Abandon(r)

MigrationNext ==
  \E r \in Runners :
    \/ loadMigrations(r) \/ takeLock(r) \/ readExisting(r) \/ applyFile(r)
    \/ commitMigrations(r) \/ MigrationFails(r)

MigrationSpec == MigrationInit /\ [][MigrationNext]_migrationVars
-----------------------------------------------------------------------------
\* The variables have their types.
MigrationTypeOK ==
  /\ schemaMigrations \in [Names -> Checksums \cup {Unapplied}]
  /\ lockHolder \in Runners \cup {None}
  /\ \A r \in Runners : runner[r].step \in {"idle", "lock", "read", "apply"}

\* The SQL of a migration takes effect once, whatever deployments run together,
\* fail or are started again, and no migration without all the earlier ones
\* (MigrationRunner.apply under its advisory lock, in one transaction).
MigrationsRunOnce ==
  \A n \in Names :
    /\ executed[n] = (IF schemaMigrations[n] = Unapplied THEN 0 ELSE 1)
    /\ schemaMigrations[n] # Unapplied => \A p \in 1..(n - 1) : schemaMigrations[p] # Unapplied
=============================================================================
