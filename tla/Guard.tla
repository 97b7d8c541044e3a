--------------------------------- MODULE Guard ---------------------------------
(***************************************************************************)
(* The address guard of outbound HTTP (internal/webhook/ssrf.go), shared   *)
(* by webhook delivery and the http_request tool: a target is resolved and *)
(* vetted, the vetted addresses are pinned into the request, and the       *)
(* transport dials only those.  Between the steps the DNS may answer       *)
(* something else, the target may redirect and an administrator may swap   *)
(* the allowlist.                                                          *)
(***************************************************************************)
EXTENDS Naturals, FiniteSets

CONSTANTS
  Hosts,         \* host names
  Addrs,         \* addresses
  Public,        \* the addresses public4 and public6 accept, also through an embedded IPv4
  MaxHops        \* redirects CheckRedirect follows

VARIABLES
  dns,           \* per host: the addresses it resolves to now
  allowHosts,    \* allowlisted host names
  allowNets,     \* allowlisted addresses
  request        \* the request in flight: host, pin and hops

guardVars == <<dns, allowHosts, allowNets, request>>

NoRequest == [pc |-> "idle", host |-> CHOOSE h \in Hosts : TRUE, pinned |-> {}, hops |-> 0,
              trusted |-> FALSE, nets |-> {}, dialed |-> {}]

GuardTypeOK ==
  /\ dns \in [Hosts -> SUBSET Addrs]
  /\ allowHosts \subseteq Hosts /\ allowNets \subseteq Addrs
  /\ request.pc \in {"idle", "dial", "answer"}
  /\ request.pinned \subseteq Addrs /\ request.dialed \subseteq Addrs

GuardInit ==
  /\ dns \in [Hosts -> SUBSET Addrs]
  /\ allowHosts \in SUBSET Hosts
  /\ allowNets \in SUBSET (Addrs \ Public)
  /\ request = NoRequest

IsBlockedIP(a) == a \notin Public

AllowedIP(a) == ~IsBlockedIP(a) \/ a \in allowNets

\* ResolveURL: the addresses, none when any of them is refused.
Vetted(h) == IF \A a \in dns[h] : AllowedIP(a) THEN dns[h] ELSE {}

\* pinRequest: an allowlisted name is not vetted and not pinned; a name that cannot be
\* vetted ends the request.
PinRequest(h, hops) ==
  IF h \in allowHosts
  THEN request' = [NoRequest EXCEPT !.pc = "dial", !.host = h, !.hops = hops, !.trusted = TRUE]
  ELSE IF Vetted(h) = {}
  THEN request' = NoRequest
  ELSE request' = [NoRequest EXCEPT !.pc = "dial", !.host = h, !.hops = hops, !.pinned = Vetted(h),
                                    !.nets = allowNets]

Send(h) ==
  /\ request.pc = "idle"
  /\ PinRequest(h, 0)
  /\ UNCHANGED <<dns, allowHosts, allowNets>>

\* Mutant: the dialer resolves the name once more.
DialableAgain == dns[request.host]

\* DialContext: any of the pinned addresses; an unpinned request is dialed freely.
Dialable == IF request.trusted THEN dns[request.host] ELSE request.pinned

DialContext ==
  /\ request.pc = "dial"
  /\ \/ \E a \in Dialable : request' = [request EXCEPT !.pc = "answer", !.dialed = {a}]
     \/ request' = NoRequest
  /\ UNCHANGED <<dns, allowHosts, allowNets>>

\* The target answers, or redirects to another host.
Answer ==
  /\ request.pc = "answer"
  /\ request' = NoRequest
  /\ UNCHANGED <<dns, allowHosts, allowNets>>

CheckRedirect(h) ==
  /\ request.pc = "answer" /\ request.hops < MaxHops
  /\ PinRequest(h, request.hops + 1)
  /\ UNCHANGED <<dns, allowHosts, allowNets>>

Rebind(h, as) ==
  /\ dns' = [dns EXCEPT ![h] = as]
  /\ UNCHANGED <<allowHosts, allowNets, request>>

\* The administrator's allowlist: the next request is vetted by the new one.
SetGuard(hs, nets) ==
  /\ request.pc = "idle"
  /\ allowHosts' = hs /\ allowNets' = nets
  /\ UNCHANGED <<dns, request>>

GuardNext ==
  \/ DialContext \/ Answer
  \/ \E h \in Hosts : Send(h) \/ CheckRedirect(h) \/ \E as \in SUBSET Addrs : Rebind(h, as)
  \/ \E hs \in SUBSET Hosts, nets \in SUBSET (Addrs \ Public) : SetGuard(hs, nets)

GuardSpec == GuardInit /\ [][GuardNext]_guardVars

-----------------------------------------------------------------------------
(* Properties.                                                             *)

\* No connection leaves for an address that is neither public nor allowlisted, except to
\* a name the operator allowlisted, however the name is rebound between the check and the
\* dial and wherever the target redirects.
DialsOnlyVetted ==
  request.dialed # {} /\ ~request.trusted => request.dialed \subseteq Public \cup request.nets
=============================================================================
