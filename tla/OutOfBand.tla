------------------------------ MODULE OutOfBand ------------------------------
(***************************************************************************)
(* The out-of-band recovery path: OobController on the control plane, the  *)
(* OobServer process it pushes documents to over HTTP, and the table       *)
(* recovery_snapshots that remembers the last-known-good document.         *)
(*                                                                         *)
(* One scope is modelled: the server's map and the table are keyed by      *)
(* scope, so scopes do not interact.  Every HTTP request and every SQL     *)
(* statement is a step of the call that makes it.  A JSON document is its  *)
(* content and the order of its keys: a checksum is taken over the text,   *)
(* so it tells two orders apart, and a jsonb column keeps the content but  *)
(* not the order.                                                          *)
(***************************************************************************)
EXTENDS Naturals, FiniteSets

CONSTANTS
  OobCalls,        \* requests to /api/v1/oob/... in progress
  Contents,        \* contents of recovery documents
  MaxSnapshots,    \* bound on the rows of recovery_snapshots
  MaxOobFaults     \* bound on failures and restarts

\* No document has the content that stands for none.
ASSUME OobAssumption == {MaxSnapshots, MaxOobFaults} \subseteq Nat /\ 0 \notin Contents

VARIABLES
  documents,       \* OobServer.documents for the scope, lost when the server restarts
  listening,       \* the OobServer answers
  snapshots,       \* recovery_snapshots
  oob,             \* [call -> what it does and where it stands]
  oobFaults,       \* failures so far
  confirmed,       \* history: documents whose checksum the server confirmed
  crossed          \* history: two calls were in progress together

oobVars == <<documents, listening, snapshots, oob, oobFaults, confirmed, crossed>>

-----------------------------------------------------------------------------
\* The order in which jsonb returns keys, and another one a caller may have sent.
Orders == {"stored", "sent"}

Documents == [content : Contents, order : Orders]

NoDocument == [content |-> 0, order |-> "stored"]

\* sha256 over JSON.stringify(document): equal only for equal texts.
Checksum(document) == <<document.content, document.order>>

\* What a jsonb column returns for a document written to it.
jsonb(document) == [document EXCEPT !.order = "stored"]

OobIdle == [op |-> "none", step |-> "done", document |-> NoDocument,
            checksum |-> Checksum(NoDocument)]

OobInit ==
  /\ documents = NoDocument
  /\ listening = TRUE
  /\ snapshots = {}
  /\ oob = [c \in OobCalls |-> OobIdle]
  /\ oobFaults = 0
  /\ confirmed = {}
  /\ crossed = FALSE

Good == {row \in snapshots : row.lkg}

InProgress == {c \in OobCalls : oob[c].step \notin {"done", "unverified"}}

OobStart(c, call) ==
  /\ c \notin InProgress
  /\ oob' = [oob EXCEPT ![c] = call]
  /\ crossed' = (crossed \/ InProgress # {})
  /\ UNCHANGED <<documents, listening, snapshots, oobFaults, confirmed>>

OobGoto(c, s) == oob' = [oob EXCEPT ![c].step = s]

OobEnd(c) == oob' = [oob EXCEPT ![c] = OobIdle]

-----------------------------------------------------------------------------
\* POST /api/v1/oob/checkpoint: the checksum is taken of the document as sent.
checkpoint(c) ==
  /\ Cardinality(snapshots) < MaxSnapshots
  /\ \E document \in Documents :
       OobStart(c, [op |-> "checkpoint", step |-> "healthy", document |-> document,
                    checksum |-> Checksum(document)])

\* Variant of rollback: any snapshot of the scope is taken, not the flagged one.
rollbackAny(c) ==
  \E row \in snapshots :
    OobStart(c, [op |-> "rollback", step |-> "healthy", document |-> row.document,
                 checksum |-> row.checksum])

\* PgRecoveryStore.lastKnownGood, read first by OobController.rollback.
rollback(c) ==
  \E row \in Good :
    OobStart(c, [op |-> "rollback", step |-> "healthy", document |-> row.document,
                 checksum |-> row.checksum])

\* HttpOobChannel.healthy: any error or timeout counts as unhealthy.
healthy(c) ==
  /\ oob[c].step = "healthy"
  /\ IF listening THEN OobGoto(c, "push") ELSE OobEnd(c)
  /\ UNCHANGED <<documents, listening, snapshots, oobFaults, confirmed, crossed>>

\* HttpOobChannel.push and the PUT branch of OobServer.handle.
push(c) ==
  /\ oob[c].step = "push"
  /\ IF listening
     THEN documents' = oob[c].document /\ OobGoto(c, "verify")
     ELSE OobEnd(c) /\ UNCHANGED documents
  /\ UNCHANGED <<listening, snapshots, oobFaults, confirmed, crossed>>

\* HttpOobChannel.verify and the GET branch of OobServer.handle.
Confirms(c) == listening /\ documents # NoDocument /\ Checksum(documents) = oob[c].checksum

verifyDocument(c) ==
  /\ oob[c].step = "verify"
  /\ IF Confirms(c)
     THEN IF oob[c].op = "checkpoint" THEN OobGoto(c, "unset") ELSE OobEnd(c)
     ELSE IF oob[c].op = "checkpoint" THEN OobEnd(c) ELSE OobGoto(c, "unverified")
  /\ confirmed' = IF documents # NoDocument /\ Checksum(documents) = oob[c].checksum
                  THEN confirmed \cup {oob[c].checksum} ELSE confirmed
  /\ UNCHANGED <<documents, listening, snapshots, oobFaults, crossed>>

\* PgRecoveryStore.save, its first statement.
unsetGood(c) ==
  /\ oob[c].step = "unset"
  /\ snapshots' = {[row EXCEPT !.lkg = FALSE] : row \in snapshots}
  /\ OobGoto(c, "insert")
  /\ UNCHANGED <<documents, listening, oobFaults, confirmed, crossed>>

\* Variant of insertSnapshot: the flag is cleared after the insert, not before it.
insertSnapshotFirst(c) ==
  /\ oob[c].step = "insert"
  /\ snapshots' = snapshots \cup
       {[id |-> Cardinality(snapshots) + 1, document |-> jsonb(oob[c].document),
         checksum |-> oob[c].checksum, lkg |-> FALSE]}
  /\ OobEnd(c)
  /\ UNCHANGED <<documents, listening, oobFaults, confirmed, crossed>>

\* PgRecoveryStore.save, its second statement; one_lkg_per_scope refuses a second flag.
insertSnapshot(c) ==
  /\ oob[c].step = "insert"
  /\ snapshots' = IF Good # {} THEN snapshots
                  ELSE snapshots \cup
                    {[id |-> Cardinality(snapshots) + 1, document |-> jsonb(oob[c].document),
                      checksum |-> oob[c].checksum, lkg |-> TRUE]}
  /\ OobEnd(c)
  /\ UNCHANGED <<documents, listening, oobFaults, confirmed, crossed>>

-----------------------------------------------------------------------------
OobFault == oobFaults < MaxOobFaults /\ oobFaults' = oobFaults + 1

\* A request times out (HttpOobChannel.withTimeout), a statement fails or the control
\* plane ends.  One that took effect first is its step, and then this.
OobFail(c) ==
  /\ OobFault
  /\ c \in InProgress
  /\ OobEnd(c)
  /\ UNCHANGED <<documents, listening, snapshots, confirmed, crossed>>

\* OobServer stops; its documents were in memory only.
OobServerStops ==
  /\ OobFault
  /\ listening
  /\ listening' = FALSE
  /\ documents' = NoDocument
  /\ UNCHANGED <<snapshots, oob, confirmed, crossed>>

OobServerStarts ==
  /\ ~listening
  /\ listening' = TRUE
  /\ UNCHANGED <<documents, snapshots, oob, oobFaults, confirmed, crossed>>

OobNext ==
  \/ \E c \in OobCalls :
       \/ checkpoint(c) \/ rollback(c) \/ healthy(c) \/ push(c) \/ verifyDocument(c)
       \/ unsetGood(c) \/ insertSnapshot(c) \/ OobFail(c)
  \/ OobServerStops
  \/ OobServerStarts

OobSpec == OobInit /\ [][OobNext]_oobVars
-----------------------------------------------------------------------------
\* The variables have their types.
OobTypeOK ==
  /\ documents \in Documents \cup {NoDocument}
  /\ listening \in BOOLEAN
  /\ snapshots \subseteq [id : 1..MaxSnapshots + Cardinality(OobCalls), document : Documents,
                          checksum : {Checksum(d) : d \in Documents}, lkg : BOOLEAN]
  /\ \A c \in OobCalls :
       /\ oob[c].op \in {"none", "checkpoint", "rollback"}
       /\ oob[c].step \in {"done", "healthy", "push", "verify", "unset", "insert", "unverified"}
       /\ oob[c].document \in Documents \cup {NoDocument}
  /\ oobFaults \in 0..MaxOobFaults
  /\ crossed \in BOOLEAN

\* A scope that has snapshots has exactly one last-known-good one, except between
\* the two statements of PgRecoveryStore.save or after one that ended there; every
\* snapshot is of a document the server confirmed, whatever other calls and restarts
\* of the server come between push, verify and save (checkpoint).  And with no
\* failure and no two calls at a time the last-known-good content is what the server
\* holds whenever no call is in progress: checkpoint pushes before it saves, and a
\* rollback pushes what was saved even if it then fails to verify.
GoodSurvives ==
  /\ \A row \in snapshots : row.checksum \in confirmed
  /\ snapshots # {} =>
       \/ \E row \in snapshots : Good = {row}
       \/ Good = {} /\ (oobFaults > 0 \/ \E c \in OobCalls : oob[c].step = "insert")
  /\ oobFaults = 0 /\ ~crossed /\ InProgress = {} =>
       \A row \in Good : row.document.content = documents.content

\* A rollback that nothing disturbs is confirmed (the runbook, and the comment on
\* the routes: "rollback restores the last recorded last-known-good"); the route
\* answers with an error when OobController.rollback fails to verify.
RollbackIsConfirmed ==
  oobFaults = 0 /\ ~crossed => \A c \in OobCalls : oob[c].step # "unverified"
=============================================================================
