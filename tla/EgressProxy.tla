----------------------------- MODULE EgressProxy -----------------------------
(***************************************************************************)
(* The SOCKS5 proxy of an egress gateway: its clients' sockets, the        *)
(* upstream connections it opens for them, and the count of sessions that  *)
(* it reports with every heartbeat.                                        *)
(*                                                                         *)
(* A socket's events arrive one at a time; "error" is followed by "close", *)
(* and only "close" follows an orderly end.  The allowlist is consulted    *)
(* without waiting, so a request is handled in one step up to the attempt  *)
(* to connect upstream.                                                    *)
(***************************************************************************)
EXTENDS Integers, FiniteSets

CONSTANTS
  Clients,          \* connections a client may make while the process runs
  Destinations,     \* where clients want to go
  Allowlist         \* EGRESS_ALLOWLIST, or all destinations when it is not set

ASSUME EgressAssumption == IsFiniteSet(Clients) /\ Allowlist \subseteq Destinations

VARIABLES
  accepting,           \* the server listens
  sockets,             \* [client -> its socket, the upstream socket and "closed" of handleClient]
  activeConnections,
  reset                \* history: clients whose socket ended with an error

egressVars == <<accepting, sockets, activeConnections, reset>>

-----------------------------------------------------------------------------
NoSocket == [client |-> "none", upstream |-> "none", closed |-> FALSE]

EgressInit ==
  /\ accepting = FALSE
  /\ sockets = [c \in Clients |-> NoSocket]
  /\ activeConnections = 0
  /\ reset = {}

\* The client's socket is open: it may still send, end or fail.
Open(c) == sockets[c].client \in {"greeting", "request", "connecting", "piping", "ending"}

ClientIs(c, state) == sockets' = [sockets EXCEPT ![c].client = state]

\* Socks5EgressProxy.start
start ==
  /\ ~accepting
  /\ \A c \in Clients : ~Open(c)
  /\ accepting' = TRUE
  /\ sockets' = [c \in Clients |-> NoSocket]
  /\ activeConnections' = 0
  /\ reset' = {}

\* Socks5EgressProxy.stop: no more clients; the process exits when the last has gone.
stop ==
  /\ accepting
  /\ accepting' = FALSE
  /\ UNCHANGED <<sockets, activeConnections, reset>>

\* Socks5EgressProxy.handleClient
handleClient(c) ==
  /\ accepting
  /\ sockets[c].client = "none"
  /\ ClientIs(c, "greeting")
  /\ activeConnections' = activeConnections + 1
  /\ UNCHANGED <<accepting, reset>>

\* The first data: a greeting of version 5, or the socket is destroyed.
Greeting(c) ==
  /\ sockets[c].client = "greeting"
  /\ ClientIs(c, "request") \/ ClientIs(c, "destroyed")
  /\ UNCHANGED <<accepting, activeConnections, reset>>

\* EgressPolicy.isAllowed
isAllowed(destination) == destination \in Allowlist

\* handleRequest answers a request that is too short, of another command or of another
\* type of address with an error, and ends the client.
RefuseRequest(c) ==
  /\ sockets[c].client = "request"
  /\ ClientIs(c, "ending")
  /\ UNCHANGED <<accepting, activeConnections, reset>>

\* handleRequest opens the upstream connection, or ends the client if it may not.
handleRequest(c) ==
  /\ sockets[c].client = "request"
  /\ \E d \in Destinations :
       IF isAllowed(d)
       THEN sockets' = [sockets EXCEPT ![c].client = "connecting", ![c].upstream = "connecting"]
       ELSE ClientIs(c, "ending")
  /\ UNCHANGED <<accepting, activeConnections, reset>>

\* A request whose port has not arrived with its first bytes: readUInt16BE throws,
\* nothing handles the rejection, and the process ends with every connection.
SplitRequest(c) ==
  /\ sockets[c].client = "request"
  /\ accepting' = FALSE
  /\ sockets' = [d \in Clients |-> NoSocket]
  /\ activeConnections' = 0
  /\ reset' = {}

\* The callback of createConnection: the two sockets are piped.  A client that ended
\* in the meantime ends the upstream through its pipe, one that was reset does not.
Connected(c) ==
  /\ sockets[c].upstream = "connecting"
  /\ sockets' = [sockets EXCEPT
       ![c].client = IF @ = "connecting" THEN "piping" ELSE @,
       ![c].upstream = IF sockets[c].client = "connecting" \/ c \in reset THEN "open" ELSE "closed"]
  /\ UNCHANGED <<accepting, activeConnections, reset>>

\* upstream "error": the client gets a SOCKS answer, whatever it received before.
UpstreamError(c) ==
  /\ sockets[c].upstream \in {"connecting", "open"}
  /\ sockets' = [sockets EXCEPT
       ![c].client = IF Open(c) THEN "ending" ELSE @, ![c].upstream = "closed"]
  /\ UNCHANGED <<accepting, activeConnections, reset>>

\* The destination ends the connection, and the pipe ends the client.
UpstreamEnd(c) ==
  /\ sockets[c].upstream = "open"
  /\ sockets' = [sockets EXCEPT
       ![c].client = IF Open(c) THEN "ending" ELSE @, ![c].upstream = "closed"]
  /\ UNCHANGED <<accepting, activeConnections, reset>>

\* The client ends its side; while piping that ends the upstream too.
ClientEnd(c) ==
  /\ Open(c)
  /\ sockets' = [sockets EXCEPT
       ![c].client = "destroyed", ![c].upstream = IF @ = "open" THEN "closed" ELSE @]
  /\ UNCHANGED <<accepting, activeConnections, reset>>

\* Variant of onClose: each event that reports the end takes a session off.
onCloseEach(c, state) ==
  /\ sockets' = [sockets EXCEPT ![c].client = state, ![c].closed = TRUE]
  /\ activeConnections' = activeConnections - 1

\* onClose of handleClient: the first of "error" and "close" takes the session off.
onClose(c, state) ==
  /\ sockets' = [sockets EXCEPT ![c].client = state, ![c].closed = TRUE]
  /\ activeConnections' = IF sockets[c].closed THEN activeConnections ELSE activeConnections - 1

\* client "error"
ClientError(c) ==
  /\ Open(c)
  /\ onClose(c, "destroyed")
  /\ reset' = reset \cup {c}
  /\ UNCHANGED accepting

\* client "close", after an end, an error or destroy().
ClientClose(c) ==
  /\ sockets[c].client \in {"ending", "destroyed"}
  /\ onClose(c, "gone")
  /\ UNCHANGED <<accepting, reset>>

EgressNext ==
  \/ start \/ stop
  \/ \E c \in Clients :
       \/ handleClient(c) \/ Greeting(c) \/ RefuseRequest(c) \/ handleRequest(c) \/ SplitRequest(c)
       \/ Connected(c) \/ UpstreamError(c) \/ UpstreamEnd(c)
       \/ ClientEnd(c) \/ ClientError(c) \/ ClientClose(c)

EgressSpec == EgressInit /\ [][EgressNext]_egressVars
-----------------------------------------------------------------------------
\* The variables have their types.
EgressTypeOK ==
  /\ accepting \in BOOLEAN
  /\ \A c \in Clients :
       /\ sockets[c].client \in {"none", "greeting", "request", "connecting", "piping", "ending", "destroyed", "gone"}
       /\ sockets[c].upstream \in {"none", "connecting", "open", "closed"}
       /\ sockets[c].closed \in BOOLEAN
  /\ activeConnections \in Int
  /\ reset \subseteq Clients

\* No event has reported the end of the client yet.
Unfinished(c) == Open(c) \/ (sockets[c].client = "destroyed" /\ c \notin reset)

\* The sessions a gateway reports are the clients it has not yet seen the end of,
\* however errors, ends and closes of clients and destinations interleave, so a
\* gateway never looks emptier or fuller to EgressSelector than it is; and a
\* connection to a destination outlives its client only after that client's socket
\* failed (handleRequest ends the upstream through the pipe, never on an error).
SessionsAreCounted ==
  /\ activeConnections = Cardinality({c \in Clients : Unfinished(c)})
  /\ \A c \in Clients : sockets[c].upstream = "open" /\ ~Open(c) => c \in reset
=============================================================================
