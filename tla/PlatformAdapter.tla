--------------------------- MODULE PlatformAdapter --------------------------
(***************************************************************************)
(* What the commands of NodeReconciliationService do to a host, through    *)
(* the adapter of its platform (native/linux/adapter.ts, and               *)
(* native/windows/adapter.ts with native/windows/apply.ps1).               *)
(*                                                                         *)
(* The state s of a host gives, for each command type, the value last put  *)
(* into effect: the number of a server list, of a peer topology, of a      *)
(* policy set, the revision the routes come from (0 when routes or rules   *)
(* are a mixture), and the kill switch; and whether the tunnel is up.  Of  *)
(* the firewall only the set loaded last is kept: that it adds to the      *)
(* rules of earlier sets is modelled in EndpointAgent.  A method is the    *)
(* pair of the sets of states in which it may return and may throw.        *)
(***************************************************************************)
EXTENDS Naturals

Off == 0        \* no kill switch rules
On == 1         \* only the tunnel may send
Blocked == 2    \* nothing may send: the drop rule is there, the accept rule is not

CommandTypes ==
  {"RECONCILE", "SET_DNS", "SET_KILL_SWITCH", "APPLY_PEERS", "APPLY_FIREWALL"}

HostFields == CommandTypes \cup {"TUNNEL"}

With(s, t, v) == [s EXCEPT ![t] = v]

-----------------------------------------------------------------------------
\* "resolvectl dns" and "Set-DnsClientServerAddress" (under ErrorActionPreference
\* Stop) set the list or throw; so does "wg syncconf", which replaces the whole
\* peer set at once.
LinuxSetDns(s, v) == [returns |-> {With(s, "SET_DNS", v)}, throws |-> {s}]
LinuxApplyPeers(s, v) == [returns |-> {With(s, "APPLY_PEERS", v)}, throws |-> {s}]
LinuxApplyFirewall(s, v) == [returns |-> {With(s, "APPLY_FIREWALL", v)}, throws |-> {s}]
WindowsSetDns(s, v) == [returns |-> {With(s, "SET_DNS", v)}, throws |-> {s}]
WindowsApplyPeers(s, v) == [returns |-> {With(s, "APPLY_PEERS", v)}, throws |-> {s}]

\* The failures of "add table" and "add chain" are swallowed, that of "add rule" is
\* not: it leaves a chain that drops everything, or no chain.  The failure of
\* "delete table" is swallowed.
LinuxSetKillSwitch(s, v) ==
  IF v = On
  THEN [returns |-> {With(s, "SET_KILL_SWITCH", On)},
        throws |-> {s} \cup (IF s["SET_KILL_SWITCH"] = Off
                             THEN {With(s, "SET_KILL_SWITCH", Blocked)} ELSE {})]
  ELSE [returns |-> {s, With(s, "SET_KILL_SWITCH", Off)}, throws |-> {s}]

\* "ip route replace", one route after the other: a failure leaves a mixture.
LinuxReplaceRoutes(s, v) ==
  [returns |-> {With(s, "RECONCILE", v)}, throws |-> {s, With(s, "RECONCILE", 0)}]

\* clearTransientCredentials takes the tunnel down; a failure is swallowed.
LinuxClearTransientCredentials(s) == {s, With(s, "TUNNEL", 0)}
WindowsClearTransientCredentials(s) == {s, With(s, "TUNNEL", 0)}

\* Each rule is created with -ErrorAction SilentlyContinue: none, some or all of them.
WindowsApplyFirewall(s, v) ==
  [returns |-> {s} \cup {With(s, "APPLY_FIREWALL", w) : w \in {0, v}}, throws |-> {s}]

\* Both rules are created with -ErrorAction SilentlyContinue; the block rule without
\* the allow rule stops everything.
WindowsSetKillSwitch(s, v) ==
  IF v = On
  THEN [returns |-> {s} \cup {With(s, "SET_KILL_SWITCH", k) : k \in {On, Blocked}},
        throws |-> {s}]
  ELSE [returns |-> {With(s, "SET_KILL_SWITCH", Off)}, throws |-> {s}]

\* Routes are removed and created with -ErrorAction SilentlyContinue.
WindowsReplaceRoutes(s, v) ==
  [returns |-> {With(s, "RECONCILE", v), With(s, "RECONCILE", 0)},
   throws |-> {s, With(s, "RECONCILE", 0)}]

-----------------------------------------------------------------------------
\* One method call of the adapter of platform p.
Call(p, s, t, v) ==
  CASE t = "SET_DNS" -> IF p = "linux" THEN LinuxSetDns(s, v) ELSE WindowsSetDns(s, v)
    [] t = "SET_KILL_SWITCH" ->
         IF p = "linux" THEN LinuxSetKillSwitch(s, v) ELSE WindowsSetKillSwitch(s, v)
    [] t = "APPLY_PEERS" ->
         IF p = "linux" THEN LinuxApplyPeers(s, v) ELSE WindowsApplyPeers(s, v)
    [] t = "APPLY_FIREWALL" ->
         IF p = "linux" THEN LinuxApplyFirewall(s, v) ELSE WindowsApplyFirewall(s, v)
    [] t = "RECONCILE" ->
         IF p = "linux" THEN LinuxReplaceRoutes(s, v) ELSE WindowsReplaceRoutes(s, v)

ClearTransientCredentials(p, s) ==
  IF p = "linux" THEN LinuxClearTransientCredentials(s) ELSE WindowsClearTransientCredentials(s)
=============================================================================
