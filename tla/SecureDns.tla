------------------------------ MODULE SecureDns ------------------------------
(***************************************************************************)
(* The DNS server: BapcDnsServer.handle, SecureDnsResolver.resolve with    *)
(* its threat feeds, audit sink and encrypted upstreams, and the reply.    *)
(*                                                                         *)
(* Feeds are asked in order until one contains the name, upstreams in      *)
(* order until one answers.  Queries share nothing but the audit log.      *)
(***************************************************************************)
EXTENDS Integers

CONSTANTS
  Queries,         \* datagrams being handled
  DnsNames,        \* names a client may ask for
  Suspicious,      \* those evaluate sinks without a feed (malformed, or generated)
  Feeds,           \* [1..FeedCount -> the names the feed contains]
  FeedCount,
  UpstreamCount

ASSUME DnsAssumption ==
  /\ Suspicious \subseteq DnsNames
  /\ FeedCount \in Nat /\ UpstreamCount \in Nat \ {0}
  /\ Feeds \in [1..FeedCount -> SUBSET DnsNames]

VARIABLES
  query,     \* [query -> its name and type, the next step, the feed or upstream it is at]
  reply,     \* [query -> what was sent back]
  lost,      \* [query -> history: the kinds of call made for it that failed]
  logged     \* queries whose decision reached the audit sink

dnsVars == <<query, reply, lost, logged>>

-----------------------------------------------------------------------------
NoDatagram == [name |-> 0, type |-> "none", step |-> "waiting", at |-> 1]

DnsInit ==
  /\ query = [q \in Queries |-> NoDatagram]
  /\ reply = [q \in Queries |-> "none"]
  /\ lost = [q \in Queries |-> {}]
  /\ logged = {}

At(q, step) == query[q].step = step

Go(q, step) == query' = [query EXCEPT ![q].step = step, ![q].at = 1] /\ UNCHANGED reply

Reply(q, answer) ==
  /\ query' = [query EXCEPT ![q].step = "done"]
  /\ reply' = [reply EXCEPT ![q] = answer]

Lose(q, what) == lost' = [lost EXCEPT ![q] = @ \cup {what}]

\* BapcDnsServer.handle up to its first await; only four types are served.
handleQuery(q) ==
  /\ At(q, "waiting")
  /\ \E name \in DnsNames, type \in {"A", "AAAA", "TXT", "MX", "other"} :
       IF type = "other"
       THEN /\ query' = [query EXCEPT ![q] = [name |-> name, type |-> type, step |-> "done", at |-> 1]]
            /\ reply' = [reply EXCEPT ![q] = "NOTIMP"]
       ELSE /\ query' = [query EXCEPT ![q] =
                 [name |-> name, type |-> type, at |-> 1,
                  step |-> IF name \in Suspicious THEN "auditSinkhole" ELSE "evaluate"]]
            /\ UNCHANGED reply
  /\ UNCHANGED <<lost, logged>>

\* DnsProtectionService.evaluate, its loop over the feeds.
evaluate(q) ==
  /\ At(q, "evaluate")
  /\ \/ query[q].at > FeedCount /\ Go(q, "auditAllow")
     \/ query[q].at <= FeedCount /\ query[q].name \in Feeds[query[q].at] /\ Go(q, "auditSinkhole")
     \/ /\ query[q].at <= FeedCount /\ query[q].name \notin Feeds[query[q].at]
        /\ query' = [query EXCEPT ![q].at = @ + 1]
        /\ UNCHANGED reply
  /\ UNCHANGED <<lost, logged>>

\* A feed throws; nothing but handle catches it.
FeedFails(q) ==
  /\ At(q, "evaluate") /\ query[q].at <= FeedCount
  /\ Lose(q, "feed")
  /\ Reply(q, "SERVFAIL")
  /\ UNCHANGED logged

AfterAudit(q) == IF At(q, "auditSinkhole") THEN "sinkhole" ELSE "upstream"

\* DnsAudit.record appends a security event.
recordDecision(q) ==
  /\ At(q, "auditSinkhole") \/ At(q, "auditAllow")
  /\ logged' = logged \cup {q}
  /\ Go(q, AfterAudit(q))
  /\ UNCHANGED lost

\* Variant of RecordFails: the failure leaves resolve.
RecordFailsHard(q) ==
  /\ At(q, "auditSinkhole") \/ At(q, "auditAllow")
  /\ Lose(q, "audit")
  /\ Reply(q, "SERVFAIL")
  /\ UNCHANGED logged

\* The append fails (or, logged, its answer is lost) and resolve goes on.
RecordFails(q) ==
  /\ At(q, "auditSinkhole") \/ At(q, "auditAllow")
  /\ Lose(q, "audit")
  /\ Go(q, AfterAudit(q))
  /\ logged' \in {logged, logged \cup {q}}

\* An A or AAAA query is sent to the sinkhole, the others get no record.
sinkhole(q) ==
  /\ At(q, "sinkhole")
  /\ Reply(q, IF query[q].type \in {"A", "AAAA"} THEN "sinkhole" ELSE "empty")
  /\ UNCHANGED <<lost, logged>>

\* DohUpstream.resolve answers.  It turns a record's data into a string, and reply
\* cannot encode that string as an MX record: handle then answers SERVFAIL.
resolveUpstream(q) ==
  /\ At(q, "upstream") /\ query[q].at <= UpstreamCount
  /\ \/ Reply(q, IF query[q].type = "MX" THEN "SERVFAIL" ELSE "resolved")
     \/ Reply(q, "empty")
  /\ UNCHANGED <<lost, logged>>

\* The upstream fails or its five seconds pass: the next one is asked.
UpstreamFails(q) ==
  /\ At(q, "upstream") /\ query[q].at <= UpstreamCount
  /\ Lose(q, "upstream")
  /\ query' = [query EXCEPT ![q].at = @ + 1]
  /\ UNCHANGED <<reply, logged>>

\* Every upstream failed.
UpstreamsExhausted(q) ==
  /\ At(q, "upstream") /\ query[q].at > UpstreamCount
  /\ Reply(q, "SERVFAIL")
  /\ UNCHANGED <<lost, logged>>

DnsNext ==
  \E q \in Queries :
    \/ handleQuery(q) \/ evaluate(q) \/ FeedFails(q) \/ recordDecision(q) \/ RecordFails(q)
    \/ sinkhole(q) \/ resolveUpstream(q) \/ UpstreamFails(q) \/ UpstreamsExhausted(q)

DnsSpec == DnsInit /\ [][DnsNext]_dnsVars
-----------------------------------------------------------------------------
\* The variables have their types.
DnsTypeOK ==
  /\ \A q \in Queries : query[q].at \in 1..(FeedCount + UpstreamCount + 1)
  /\ reply \in [Queries -> {"none", "NOTIMP", "SERVFAIL", "sinkhole", "empty", "resolved"}]
  /\ lost \in [Queries -> SUBSET {"feed", "audit", "upstream"}]
  /\ logged \subseteq Queries

Listed(q) == query[q].name \in Suspicious \cup UNION {Feeds[f] : f \in 1..FeedCount}

\* "Audit logging must never be able to take down DNS resolution itself": a query
\* fails only because a feed failed, every upstream failed or its MX records cannot
\* be encoded, whatever happened to the audit; a listed name is never resolved, and
\* no query is answered unaudited unless its own audit failed.
AuditNeverFailsAQuery ==
  \A q \in Queries :
    /\ reply[q] = "SERVFAIL" =>
         "feed" \in lost[q] \/ ("upstream" \in lost[q] /\ query[q].at > UpstreamCount)
         \/ (query[q].type = "MX" /\ ~Listed(q))
    /\ Listed(q) => reply[q] # "resolved" /\ "upstream" \notin lost[q]
    /\ reply[q] \in {"sinkhole", "empty", "resolved"} => q \in logged \/ "audit" \in lost[q]
=============================================================================
