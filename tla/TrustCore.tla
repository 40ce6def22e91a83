------------------------------ MODULE TrustCore ------------------------------
(***************************************************************************)
(* The development trust anchor and what is signed with it.                *)
(*                                                                         *)
(* Every process of the control plane runs loadTrustAnchor when it starts: *)
(* it reads the shared key from dev_trust_anchor or generates one and      *)
(* offers it, then records the issuer.  A ready process issues node        *)
(* certificates and signs revocation lists; a node is issued one           *)
(* certificate, at enrolment.  Every statement is a step of its own.       *)
(***************************************************************************)
EXTENDS Naturals, FiniteSets

CONSTANTS
  Processes,     \* processes that load the anchor: control-api, mesh-grpc
  CertNodes,     \* nodes that are enrolled
  MaxAnchorKeys  \* bound on the keys generated

ASSUME TrustAssumption == MaxAnchorKeys \in Nat

VARIABLES
  devTrustAnchor,  \* dev_trust_anchor: the key of its row, or NoKey
  issuerRow,       \* certificate_issuers: its key, and is_active
  process,         \* [process -> where its boot stands, and the key it holds]
  generated,       \* keys generated so far
  certificates,    \* [node -> "none", "active" or "revoked", and the key that signed it]
  revoking,        \* node whose certificate is being revoked: its look-up found one
  condemned,       \* history: nodes whose revocation was completed
  listing,         \* revocation list being built: what listRevoked returned
  crl              \* the list served last, with the condemned nodes when it was read

trustVars == <<devTrustAnchor, issuerRow, process, generated, certificates, revoking,
               condemned, listing, crl>>

-----------------------------------------------------------------------------
NoKey == 0

Down == [step |-> "down", key |-> NoKey]

NotListing == [by |-> 0, revoked |-> {}, condemned |-> {}]

TrustInit ==
  /\ devTrustAnchor = NoKey
  /\ issuerRow = [key |-> NoKey, active |-> TRUE]
  /\ process = [p \in Processes |-> Down]
  /\ generated = 0
  /\ certificates = [n \in CertNodes |-> [state |-> "none", key |-> NoKey]]
  /\ revoking = {}
  /\ condemned = {}
  /\ listing = NotListing
  /\ crl = [key |-> NoKey, revoked |-> {}, condemned |-> {}]

Boot(p, s, key) == process' = [process EXCEPT ![p] = [step |-> s, key |-> key]]

NoCertificateChange == UNCHANGED <<certificates, revoking, condemned, listing, crl>>

\* PgDevTrustAnchorStore.loadOrCreate, its first SELECT.
loadAnchor(p) ==
  /\ process[p].step = "down"
  /\ IF devTrustAnchor # NoKey THEN Boot(p, "issuer", devTrustAnchor) ELSE Boot(p, "create", NoKey)
  /\ UNCHANGED <<devTrustAnchor, issuerRow, generated>>
  /\ NoCertificateChange

\* createSelfSignedDevCa and the INSERT ... ON CONFLICT DO NOTHING.
createAnchor(p) ==
  /\ process[p].step = "create"
  /\ generated < MaxAnchorKeys
  /\ generated' = generated + 1
  /\ devTrustAnchor' = IF devTrustAnchor = NoKey THEN generated + 1 ELSE devTrustAnchor
  /\ Boot(p, "reread", generated + 1)
  /\ UNCHANGED issuerRow
  /\ NoCertificateChange

\* Variant of Winner: a process keeps the key it generated.
WinnerOwn(p) == process[p].key

\* The row that is there, this process's or another's.
Winner(p) == devTrustAnchor

\* loadOrCreate, its second SELECT, and importPrivateKeyPem.
rereadAnchor(p) ==
  /\ process[p].step = "reread"
  /\ Boot(p, "issuer", Winner(p))
  /\ UNCHANGED <<devTrustAnchor, issuerRow, generated>>
  /\ NoCertificateChange

\* upsertIssuerRow: refused when the issuer has been deactivated.
upsertIssuerRow(p) ==
  /\ process[p].step = "issuer"
  /\ IF issuerRow.active
     THEN Boot(p, "ready", process[p].key) /\ issuerRow' = [issuerRow EXCEPT !.key = process[p].key]
     ELSE Boot(p, "down", NoKey) /\ UNCHANGED issuerRow
  /\ UNCHANGED <<devTrustAnchor, generated>>
  /\ NoCertificateChange

\* A process ends; a revocation list it was building is not served.
StopProcess(p) ==
  /\ process[p].step # "down"
  /\ Boot(p, "down", NoKey)
  /\ listing' = IF listing.by = p THEN NotListing ELSE listing
  /\ UNCHANGED <<devTrustAnchor, issuerRow, generated, certificates, revoking, condemned, crl>>

\* An operator deactivates the issuer in the database.
DeactivateIssuer ==
  /\ issuerRow.active
  /\ issuerRow' = [issuerRow EXCEPT !.active = FALSE]
  /\ UNCHANGED <<devTrustAnchor, process, generated>>
  /\ NoCertificateChange

\* TrustCoreIssuer.issueNode: sign with the key in memory, then save the record.
issueNode(p, n) ==
  /\ process[p].step = "ready"
  /\ certificates[n].state = "none"
  /\ certificates' = [certificates EXCEPT ![n] = [state |-> "active", key |-> process[p].key]]
  /\ UNCHANGED <<devTrustAnchor, issuerRow, process, generated, revoking, condemned, listing, crl>>

\* PgCertificateStore.activeCertificateFor; without one there is nothing to revoke.
activeCertificateFor(n) ==
  /\ certificates[n].state = "active"
  /\ revoking' = revoking \cup {n}
  /\ UNCHANGED <<devTrustAnchor, issuerRow, process, generated, certificates, condemned, listing, crl>>

\* TrustCoreIssuer.revoke and PgCertificateStore.revoke.
revoke(n) ==
  /\ n \in revoking
  /\ certificates' = [certificates EXCEPT ![n].state = "revoked"]
  /\ revoking' = revoking \ {n}
  /\ condemned' = condemned \cup {n}
  /\ UNCHANGED <<devTrustAnchor, issuerRow, process, generated, listing, crl>>

\* PgCertificateStore.listRevoked for GET /api/v1/certificates/crl.
listRevoked(p) ==
  /\ process[p].step = "ready"
  /\ listing = NotListing
  /\ listing' = [by |-> p, condemned |-> condemned,
                 revoked |-> {n \in CertNodes : certificates[n].state = "revoked"}]
  /\ UNCHANGED <<devTrustAnchor, issuerRow, process, generated, certificates, revoking, condemned, crl>>

\* Variant of Entries: a list keeps only what the list before it did not have.
EntriesNew == listing.revoked \ crl.revoked

Entries == listing.revoked

\* ForgeCrlBuilder.build: signed with the anchor's key, and served.
buildCrl ==
  /\ listing # NotListing
  /\ crl' = [key |-> process[listing.by].key, revoked |-> Entries, condemned |-> listing.condemned]
  /\ listing' = NotListing
  /\ UNCHANGED <<devTrustAnchor, issuerRow, process, generated, certificates, revoking, condemned>>

TrustNext ==
  \/ \E p \in Processes :
       \/ loadAnchor(p) \/ createAnchor(p) \/ rereadAnchor(p) \/ upsertIssuerRow(p) \/ StopProcess(p)
       \/ listRevoked(p) \/ \E n \in CertNodes : issueNode(p, n)
  \/ \E n \in CertNodes : activeCertificateFor(n) \/ revoke(n)
  \/ buildCrl
  \/ DeactivateIssuer

TrustSpec == TrustInit /\ [][TrustNext]_trustVars
-----------------------------------------------------------------------------
\* The variables have their types.
TrustTypeOK ==
  /\ devTrustAnchor \in 0..generated
  /\ issuerRow \in [key : 0..generated, active : BOOLEAN]
  /\ process \in [Processes -> [step : {"down", "create", "reread", "issuer", "ready"}, key : 0..generated]]
  /\ generated \in 0..MaxAnchorKeys
  /\ certificates \in [CertNodes -> [state : {"none", "active", "revoked"}, key : 0..generated]]
  /\ revoking \subseteq CertNodes
  /\ condemned \subseteq CertNodes
  /\ listing.by \in Processes \cup {0}

\* However the processes start, race and restart, all that are ready hold the one
\* key of dev_trust_anchor, and every certificate and every revocation list is
\* signed with it (loadOrCreate: "race-safe"; db/009: certificates and the CRL
\* "chain-verify" against each other).
OneAnchor ==
  /\ \A p \in Processes : process[p].step = "ready" => process[p].key = devTrustAnchor
  /\ \A n \in CertNodes : certificates[n].state # "none" => certificates[n].key = devTrustAnchor
  /\ crl.key \in {NoKey, devTrustAnchor}

\* A served revocation list has every node whose revocation was completed before
\* the list was read, though nodes are revoked while lists are built and served.
CrlKeepsRevoked == crl.condemned \subseteq crl.revoked
=============================================================================
