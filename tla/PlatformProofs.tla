---------------------------- MODULE PlatformProofs ----------------------------
(***************************************************************************)
(* Proofs about the platform services: the edges, identity, and what is    *)
(* rationed (codes sent, tokens billed, requests let through and login     *)
(* attempts), for every number of requests, webhooks, accounts and keys,   *)
(* every window, limit and tuning and every bound.                         *)
(***************************************************************************)
EXTENDS MCPlatform, FiniteSetTheorems, SequenceTheorems, WellFoundedInduction, TLAPS

-----------------------------------------------------------------------------
(* The address guard.                                                      *)

\* A request under the guard.
GuardRequest ==
  [pc : {"idle", "dial", "answer"}, host : Hosts \cup {G!NoRequest.host}, pinned : SUBSET Addrs,
   hops : Nat, trusted : BOOLEAN, nets : SUBSET Addrs, dialed : SUBSET Addrs]

\* What is pinned was vetted by the allowlist of that moment, which the request carries.
PinsAreVetted == ~request.trusted => request.pinned \subseteq Public \cup request.nets

\* The inductive invariant of the guard.
GuardInv ==
  /\ dns \in [Hosts -> SUBSET Addrs] /\ allowHosts \subseteq Hosts /\ allowNets \subseteq Addrs
  /\ request \in GuardRequest /\ (request.pc # "idle" => request.host \in Hosts)
  /\ PinsAreVetted /\ G!DialsOnlyVetted

\* A request at rest, and one that is pinned, at once or after a redirect.
LEMMA RestingRequest ==
  /\ G!NoRequest \in GuardRequest
  /\ G!NoRequest.pc = "idle" /\ G!NoRequest.dialed = {} /\ G!NoRequest.pinned = {}
BY DEF G!NoRequest, GuardRequest

\* An allowlisted name goes on unpinned, another one with its vetted addresses.
LEMMA PinStep ==
  ASSUME GuardInv, NEW h \in Hosts, NEW n \in Nat, G!PinRequest(h, n),
         UNCHANGED <<dns, allowHosts, allowNets>>
  PROVE  GuardInv'
<1>1. CASE h \in allowHosts
  <2>1. request' = [G!NoRequest EXCEPT !.pc = "dial", !.host = h, !.hops = n, !.trusted = TRUE]
    BY <1>1 DEF G!PinRequest
  <2>2. /\ request' \in GuardRequest /\ request'.host \in Hosts
        /\ request'.trusted /\ request'.dialed = {}
    BY <2>1 DEF G!NoRequest, GuardRequest
  <2>3. QED
    BY <2>2 DEF GuardInv, PinsAreVetted, G!DialsOnlyVetted
<1>2. CASE h \notin allowHosts /\ G!Vetted(h) = {}
  <2>1. request' = G!NoRequest
    BY <1>2 DEF G!PinRequest
  <2>2. QED
    BY <2>1, RestingRequest DEF GuardInv, PinsAreVetted, G!DialsOnlyVetted
<1>3. CASE h \notin allowHosts /\ G!Vetted(h) # {}
  <2>1. /\ G!Vetted(h) \in SUBSET Addrs /\ G!Vetted(h) \subseteq Public \cup allowNets
        /\ allowNets \in SUBSET Addrs
    BY <1>3 DEF G!Vetted, G!AllowedIP, G!IsBlockedIP, GuardInv
  <2>2. request' = [G!NoRequest EXCEPT !.pc = "dial", !.host = h, !.hops = n,
                                       !.pinned = G!Vetted(h), !.nets = allowNets]
    BY <1>3 DEF G!PinRequest
  <2>3. /\ request' \in GuardRequest /\ request'.host = h /\ request'.pinned = G!Vetted(h)
        /\ request'.nets = allowNets /\ request'.dialed = {}
    BY <2>1, <2>2 DEF G!NoRequest, GuardRequest
  <2>4. QED
    BY <2>1, <2>3 DEF GuardInv, PinsAreVetted, G!DialsOnlyVetted
<1>4. QED
  BY <1>1, <1>2, <1>3

\* Every step of the guard: the DNS and the administrator leave a request in flight alone.
LEMMA GuardStep == GuardInv /\ [G!GuardNext]_guardVars => GuardInv'
<1> SUFFICES ASSUME GuardInv, [G!GuardNext]_guardVars
             PROVE  GuardInv'
  OBVIOUS
<1>1. CASE UNCHANGED guardVars
  BY <1>1 DEF guardVars, GuardInv, PinsAreVetted, G!DialsOnlyVetted
<1>2. CASE G!DialContext
  <2>1. CASE request' = G!NoRequest
    BY <1>2, <2>1, RestingRequest DEF G!DialContext, GuardInv, PinsAreVetted, G!DialsOnlyVetted
  <2>2. CASE \E a \in G!Dialable : request' = [request EXCEPT !.pc = "answer", !.dialed = {a}]
    <3>1. PICK a \in G!Dialable : request' = [request EXCEPT !.pc = "answer", !.dialed = {a}]
      BY <2>2
    <3>2. /\ a \in Addrs
          /\ ~request.trusted => a \in Public \cup request.nets
      BY <1>2 DEF G!Dialable, G!DialContext, GuardInv, PinsAreVetted, GuardRequest
    <3>3. /\ request' \in GuardRequest /\ request'.host = request.host
          /\ request'.dialed = {a} /\ request'.trusted = request.trusted
          /\ request'.nets = request.nets /\ request'.pinned = request.pinned
      BY <3>1, <3>2 DEF GuardInv, GuardRequest
    <3>4. request.host \in Hosts /\ UNCHANGED <<dns, allowHosts, allowNets>>
      BY <1>2 DEF G!DialContext, GuardInv
    <3>5. QED
      BY <3>2, <3>3, <3>4 DEF GuardInv, PinsAreVetted, G!DialsOnlyVetted
  <2>3. QED
    BY <1>2, <2>1, <2>2 DEF G!DialContext
<1>3. CASE G!Answer
  BY <1>3, RestingRequest DEF G!Answer, GuardInv, PinsAreVetted, G!DialsOnlyVetted
<1>4. ASSUME NEW h \in Hosts, G!Send(h) PROVE GuardInv'
  BY <1>4, PinStep DEF G!Send
<1>5. ASSUME NEW h \in Hosts, G!CheckRedirect(h) PROVE GuardInv'
  <2>1. request.hops + 1 \in Nat
    BY DEF GuardInv, GuardRequest
  <2>2. QED
    BY <1>5, <2>1, PinStep DEF G!CheckRedirect
<1>6. ASSUME NEW h \in Hosts, NEW as \in SUBSET Addrs, G!Rebind(h, as) PROVE GuardInv'
  BY <1>6 DEF G!Rebind, GuardInv, PinsAreVetted, G!DialsOnlyVetted
<1>7. ASSUME NEW hs \in SUBSET Hosts, NEW nets \in SUBSET (Addrs \ Public), G!SetGuard(hs, nets)
      PROVE GuardInv'
  BY <1>7 DEF G!SetGuard, GuardInv, PinsAreVetted, G!DialsOnlyVetted
<1>8. QED
  BY <1>1, <1>2, <1>3, <1>4, <1>5, <1>6, <1>7 DEF G!GuardNext

\* Before the first request.
LEMMA GuardStart == G!GuardInit => GuardInv
BY RestingRequest DEF G!GuardInit, GuardInv, PinsAreVetted, G!DialsOnlyVetted

-----------------------------------------------------------------------------
(* Inbound events.                                                         *)

\* One element more or less in a finite set.
LEMMA CountOne ==
  ASSUME NEW S, IsFiniteSet(S), NEW D \in SUBSET S, NEW f
  PROVE  /\ Cardinality(D) \in Nat /\ Cardinality(D \ {f}) \in Nat
         /\ Cardinality(D) = Cardinality(D \ {f}) + (IF f \in D THEN 1 ELSE 0)
<1>1. IsFiniteSet(D)
  BY FS_Subset
<1>2. IsFiniteSet(D \ {f}) /\ Cardinality(D) \in Nat
  BY <1>1, FS_RemoveElement, FS_CardinalityType
<1>3. Cardinality(D \ {f}) \in Nat
  BY <1>2, FS_CardinalityType
<1>4. CASE f \in D
  <2>1. Cardinality(D \ {f}) = Cardinality(D) - 1
    BY <1>1, <1>4, FS_RemoveElement
  <2>2. Cardinality(D) = Cardinality(D \ {f}) + 1
    BY <1>2, <1>3, <2>1
  <2>3. QED
    BY <1>2, <1>3, <1>4, <2>2
<1>5. CASE f \notin D
  <2>1. D \ {f} = D
    BY <1>5
  <2>2. Cardinality(D) = Cardinality(D \ {f}) + 0
    BY <1>2, <2>1
  <2>3. QED
    BY <1>2, <1>3, <1>5, <2>2
<1>6. QED
  BY <1>4, <1>5

\* What one request's step does to a count of requests.
LEMMA OneMoves ==
  ASSUME NEW r, NEW D \in SUBSET Reqs, NEW U \in SUBSET Reqs, U \ {r} = D \ {r}
  PROVE  /\ Cardinality(D) \in Nat /\ Cardinality(U) \in Nat
         /\ Cardinality(U) - (IF r \in U THEN 1 ELSE 0) = Cardinality(D) - (IF r \in D THEN 1 ELSE 0)
<1>1. PICK n \in Nat : n = Cardinality(D \ {r})
  BY ReqsAssumption, CountOne
<1>2. Cardinality(D) \in Nat /\ Cardinality(D) = n + (IF r \in D THEN 1 ELSE 0)
  BY <1>1, ReqsAssumption, CountOne
<1>3. Cardinality(U \ {r}) = n
  BY <1>1
<1>4. Cardinality(U) \in Nat /\ Cardinality(U) = n + (IF r \in U THEN 1 ELSE 0)
  BY <1>3, ReqsAssumption, CountOne
<1>5. QED
  BY <1>2, <1>4

\* A request and what it carries.
InboundPC == {"idle", "nonce", "session", "pending", "loop", "submit", "stamp"}
InboundReq ==
  [pc : InboundPC, w : Hooks \cup {I!Idle.w}, wh : I!Hook \cup {[target |-> FALSE]},
   lag : 0..(EventWindow + Grace + 1)]

\* The rows, the events and the requests.
InboundTypes ==
  /\ iedits \in 0..MaxHookEdits
  /\ hook \in [Hooks -> I!Hook] /\ \A w \in Hooks : hook[w].secret <= iedits
  /\ event \in [Hooks -> [delta : (-Ahead)..(EventWindow + 1), secret : (-1)..MaxHookEdits]]
  /\ \A w \in Hooks : event[w].secret = -1 => event[w] = I!NoEvent
  /\ nonces \in [Hooks -> (-1)..(EventWindow + Grace + 1)]
  /\ tag \in Hooks \cup {I!NoHook} /\ fired \subseteq Hooks /\ idled \subseteq Hooks
  /\ ireq \in [Reqs -> InboundReq]
  /\ \A r \in Reqs : ireq[r].pc # "idle" => ireq[r].w \in Hooks
  /\ started \in [Hooks -> Nat] /\ ileft \in Nat /\ lost \in Nat

\* The requests that hold a session without a run, and those an event let in.
Littering(r) == ireq[r].pc \in {"pending", "loop", "submit"} /\ ~ireq[r].wh.target
Admitted(r, w) == ireq[r].pc \in {"session", "pending", "loop", "submit"} /\ ireq[r].w = w
Litter == {r \in Reqs : Littering(r)}
Let(w) == {r \in Reqs : Admitted(r, w)}

\* An event is signed before its nonce is stored, and as old as its nonce is, and as the
\* request that is about to store one, but for the sender's clock.
NoncesAge ==
  /\ \A w \in Hooks : nonces[w] # I!Unseen =>
       /\ event[w] # I!NoEvent
       /\ event[w].delta > EventWindow \/ event[w].delta >= nonces[w] - Ahead
  /\ \A r \in Reqs : ireq[r].pc = "nonce" =>
       /\ event[ireq[r].w] # I!NoEvent
       /\ event[ireq[r].w].delta > EventWindow \/ event[ireq[r].w].delta >= ireq[r].lag - Ahead

\* A request that is about to stamp the target session has started a run in it.
StampersFired == \A r \in Reqs : ireq[r].pc = "stamp" /\ ireq[r].wh.target => ireq[r].w \in fired

\* The inductive invariant of the inbound events.
InboundInv ==
  InboundTypes /\ NoncesAge /\ StampersFired /\ ileft = Cardinality(Litter) + lost

\* An event that was let in is spent: its nonce is stored or it is too old.
EventsSpent ==
  \A w \in Hooks \ idled :
    /\ started[w] + Cardinality(Let(w)) <= 1
    /\ started[w] + Cardinality(Let(w)) # 0 =>
         nonces[w] # I!Unseen \/ event[w].delta > EventWindow

\* The sender's clock runs ahead by no more than the sweep's grace.
ClocksWithinGrace == Ahead <= Grace

\* What one request's step does to the two counts.
LEMMA RequestMoves ==
  ASSUME NEW r \in Reqs, \A x \in Reqs : x # r => ireq'[x] = ireq[x]
  PROVE  /\ Cardinality(Litter') - (IF Littering(r)' THEN 1 ELSE 0)
              = Cardinality(Litter) - (IF Littering(r) THEN 1 ELSE 0)
         /\ Cardinality(Litter) \in Nat /\ Cardinality(Litter') \in Nat
         /\ \A w \in Hooks :
              /\ Cardinality(Let(w)') - (IF Admitted(r, w)' THEN 1 ELSE 0)
                   = Cardinality(Let(w)) - (IF Admitted(r, w) THEN 1 ELSE 0)
              /\ Cardinality(Let(w)) \in Nat /\ Cardinality(Let(w)') \in Nat
<1>1. Litter' \ {r} = Litter \ {r} /\ \A w \in Hooks : Let(w)' \ {r} = Let(w) \ {r}
  BY DEF Litter, Let, Littering, Admitted
<1>2. /\ (r \in Litter <=> Littering(r)) /\ (r \in Litter' <=> Littering(r)')
      /\ \A w \in Hooks : (r \in Let(w) <=> Admitted(r, w)) /\ (r \in Let(w)' <=> Admitted(r, w)')
  BY DEF Litter, Let
<1>3. /\ Litter \in SUBSET Reqs /\ Litter' \in SUBSET Reqs
      /\ \A w \in Hooks : Let(w) \in SUBSET Reqs /\ Let(w)' \in SUBSET Reqs
  BY DEF Litter, Let
<1>4. \A D, U \in SUBSET Reqs : U \ {r} = D \ {r} =>
        /\ Cardinality(D) \in Nat /\ Cardinality(U) \in Nat
        /\ Cardinality(U) - (IF r \in U THEN 1 ELSE 0) = Cardinality(D) - (IF r \in D THEN 1 ELSE 0)
  BY OneMoves
<1>5. QED
  BY <1>1, <1>2, <1>3, <1>4

\* A request knows whether its webhook has a target session.
LEMMA TargetIsFlag ==
  ASSUME NEW q \in InboundReq
  PROVE  q.wh.target \in BOOLEAN
<1>1. q.wh \in I!Hook \/ q.wh = [target |-> FALSE]
  BY DEF InboundReq
<1>2. \A h \in I!Hook : h.target \in BOOLEAN
  BY DEF I!Hook
<1>3. CASE q.wh \in I!Hook
  BY <1>2, <1>3
<1>4. CASE q.wh = [target |-> FALSE]
  BY <1>4
<1>5. QED
  BY <1>1, <1>3, <1>4

\* A request goes to its next step or ends.
LEMMA GotoRequest ==
  ASSUME InboundTypes, NEW r \in Reqs, NEW pc \in InboundPC, I!Goto(r, pc)
  PROVE  /\ ireq' \in [Reqs -> InboundReq] /\ \A x \in Reqs : x # r => ireq'[x] = ireq[x]
         /\ ireq'[r].pc = pc /\ ireq'[r].w = ireq[r].w /\ ireq'[r].wh = ireq[r].wh
<1>1. ireq \in [Reqs -> InboundReq] /\ ireq' = [ireq EXCEPT ![r].pc = pc, ![r].lag = 0]
  BY DEF InboundTypes, I!Goto
<1>2. PICK q \in InboundReq : q = [ireq[r] EXCEPT !.pc = pc, !.lag = 0]
  <2>1. PICK p \in InboundReq : p = [ireq[r] EXCEPT !.pc = pc]
    <3>1. [ireq[r] EXCEPT !.pc = pc] \in InboundReq
      BY <1>1 DEF InboundReq
    <3>2. QED
      BY <3>1
  <2>2. [p EXCEPT !.lag = 0] \in InboundReq
    <3>1. 0 \in 0..(EventWindow + Grace + 1)
      BY InboundAssumption
    <3>2. QED
      BY <3>1 DEF InboundReq
  <2>3. QED
    BY <2>1, <2>2
<1>3. q.pc = pc /\ q.w = ireq[r].w /\ q.wh = ireq[r].wh
  BY <1>1, <1>2 DEF InboundReq
<1>4. ireq' = [ireq EXCEPT ![r] = q]
  BY <1>1, <1>2
<1>5. QED
  BY <1>1, <1>3, <1>4

\* A request that ends is as it was before it began.
LEMMA DoneRequest ==
  ASSUME InboundTypes, NEW r \in Reqs, I!Done(r)
  PROVE  /\ ireq' \in [Reqs -> InboundReq] /\ \A x \in Reqs : x # r => ireq'[x] = ireq[x]
         /\ ireq'[r].pc = "idle"
<1>1. I!Idle \in InboundReq /\ I!Idle.pc = "idle"
  BY InboundAssumption DEF I!Idle, InboundReq, InboundPC
<1>2. ireq \in [Reqs -> InboundReq] /\ ireq' = [ireq EXCEPT ![r] = I!Idle]
  BY DEF InboundTypes, I!Done
<1>3. QED
  BY <1>1, <1>2

\* A request that was let in moves on: its session is accounted for, and no other run
\* of its event begins.
LEMMA LetInStep ==
  ASSUME InboundInv, NEW r \in Reqs,
         ireq' \in [Reqs -> InboundReq], \A x \in Reqs : x # r => ireq'[x] = ireq[x],
         ireq'[r].pc # "idle" => ireq'[r].w \in Hooks, ireq'[r].pc # "nonce",
         UNCHANGED <<hook, event, nonces, iedits, idled>>,
         tag' \in Hooks \cup {I!NoHook}, fired \subseteq fired', fired' \subseteq Hooks,
         started' \in [Hooks -> Nat], ileft' \in Int, lost' \in Nat,
         ireq'[r].pc = "stamp" /\ ireq'[r].wh.target => ireq'[r].w \in fired',
         ileft' + lost + (IF Littering(r) THEN 1 ELSE 0)
           = ileft + lost' + (IF Littering(r)' THEN 1 ELSE 0),
         \A w \in Hooks : started'[w] + (IF Admitted(r, w)' THEN 1 ELSE 0)
                            <= started[w] + (IF Admitted(r, w) THEN 1 ELSE 0)
  PROVE  InboundInv' /\ (EventsSpent => EventsSpent')
<1>1. /\ Cardinality(Litter') - (IF Littering(r)' THEN 1 ELSE 0)
           = Cardinality(Litter) - (IF Littering(r) THEN 1 ELSE 0)
      /\ Cardinality(Litter) \in Nat /\ Cardinality(Litter') \in Nat
      /\ \A w \in Hooks :
           /\ Cardinality(Let(w)') - (IF Admitted(r, w)' THEN 1 ELSE 0)
                = Cardinality(Let(w)) - (IF Admitted(r, w) THEN 1 ELSE 0)
           /\ Cardinality(Let(w)) \in Nat /\ Cardinality(Let(w)') \in Nat
  BY RequestMoves
<1>2. ileft' = Cardinality(Litter') + lost'
  <2>1. ileft = Cardinality(Litter) + lost /\ ileft \in Nat /\ lost \in Nat
    BY DEF InboundInv, InboundTypes
  <2>2. QED
    BY <1>1, <2>1
<1>3. InboundTypes'
  BY <1>1, <1>2 DEF InboundInv, InboundTypes
<1>4. NoncesAge' /\ StampersFired'
  BY DEF InboundInv, NoncesAge, StampersFired
<1>5. ASSUME EventsSpent PROVE EventsSpent'
  <2>1. \A w \in Hooks : started[w] \in Nat /\ started'[w] \in Nat
    BY DEF InboundInv, InboundTypes
  <2>2. \A w \in Hooks :
          started'[w] + Cardinality(Let(w)') <= started[w] + Cardinality(Let(w))
    BY <1>1, <2>1
  <2>3. ASSUME NEW w \in Hooks \ idled
        PROVE  /\ started'[w] + Cardinality(Let(w)') <= 1
               /\ started'[w] + Cardinality(Let(w)') # 0 =>
                    nonces'[w] # I!Unseen \/ event'[w].delta > EventWindow
    <3>1. /\ started[w] + Cardinality(Let(w)) <= 1
          /\ started[w] + Cardinality(Let(w)) # 0 =>
               nonces[w] # I!Unseen \/ event[w].delta > EventWindow
      BY <1>5 DEF EventsSpent
    <3>2. Cardinality(Let(w)) \in Nat /\ Cardinality(Let(w)') \in Nat
      BY <1>1
    <3>3. QED
      BY <2>1, <2>2, <3>1, <3>2
  <2>4. QED
    BY <2>3 DEF EventsSpent, I!Unseen
<1>6. QED
  BY <1>2, <1>3, <1>4, <1>5 DEF InboundInv

USE DEF InboundPC

\* A request resolves its session and passes or fails the gates.
LEMMA GateSteps ==
  ASSUME InboundInv, NEW r \in Reqs,
         I!ResolveSession(r) \/ I!PendingGate(r) \/ I!BuildLoopAndBudget(r)
  PROVE  InboundInv' /\ (EventsSpent => EventsSpent')
<1>1. /\ InboundTypes /\ ireq[r] \in InboundReq /\ started \in [Hooks -> Nat] /\ ileft \in Nat
      /\ lost \in Nat
      /\ ireq[r].pc # "idle" => ireq[r].w \in Hooks
  BY DEF InboundInv, InboundTypes
<1>2. ireq[r].wh.target \in BOOLEAN
  BY <1>1, TargetIsFlag
<1>3. UNCHANGED <<hook, event, nonces, tag, iedits, started, idled, fired>>
  BY DEF I!ResolveSession, I!PendingGate, I!BuildLoopAndBudget
<1>4. ASSUME I!Done(r) \/ (\E pc \in {"pending", "loop", "submit"} : I!Goto(r, pc)),
             ireq[r].pc \in {"session", "pending", "loop"}, lost' \in Nat, ileft' \in Int,
             ileft' + lost + (IF Littering(r) THEN 1 ELSE 0)
               = ileft + lost' + (IF Littering(r)' THEN 1 ELSE 0)
      PROVE  InboundInv' /\ (EventsSpent => EventsSpent')
  <2>1. /\ ireq' \in [Reqs -> InboundReq] /\ \A x \in Reqs : x # r => ireq'[x] = ireq[x]
        /\ \/ ireq'[r].pc = "idle"
           \/ ireq'[r].pc \in {"pending", "loop", "submit"} /\ ireq'[r].w = ireq[r].w
    <3>1. CASE I!Done(r)
      BY <1>1, <3>1, DoneRequest
    <3>2. CASE \E pc \in {"pending", "loop", "submit"} : I!Goto(r, pc)
      <4>1. PICK pc \in {"pending", "loop", "submit"} : I!Goto(r, pc)
        BY <3>2
      <4>2. pc \in InboundPC
        OBVIOUS
      <4>3. QED
        BY <1>1, <4>1, <4>2, GotoRequest
    <3>3. QED
      BY <1>4, <3>1, <3>2
  <2>2. \A w \in Hooks : Admitted(r, w)' => Admitted(r, w)
    BY <1>4, <2>1 DEF Admitted
  <2>3. /\ tag' \in Hooks \cup {I!NoHook} /\ fired \subseteq fired' /\ fired' \subseteq Hooks
        /\ started' \in [Hooks -> Nat] /\ ireq'[r].pc # "stamp" /\ ireq'[r].pc # "nonce"
        /\ ireq'[r].pc # "idle" => ireq'[r].w \in Hooks
    BY <1>1, <1>3, <1>4, <2>1 DEF InboundTypes
  <2>4. ileft' + lost + (IF Littering(r) THEN 1 ELSE 0)
          = ileft + lost' + (IF Littering(r)' THEN 1 ELSE 0)
    BY <1>1, <1>4
  <2>5. \A w \in Hooks : started'[w] + (IF Admitted(r, w)' THEN 1 ELSE 0)
                            <= started[w] + (IF Admitted(r, w) THEN 1 ELSE 0)
    BY <1>1, <1>3, <2>2
  <2>6. QED
    BY <1>3, <1>4, <2>1, <2>3, <2>4, <2>5, LetInStep
<1>5. ASSUME NEW pc \in InboundPC, I!Goto(r, pc)
      PROVE  ireq'[r].pc = pc /\ ireq'[r].wh = ireq[r].wh
  BY <1>1, <1>5, GotoRequest
<1>6. ASSUME I!Abandon(r), ireq[r].pc \in {"pending", "loop", "submit"}
      PROVE  /\ lost' \in Nat /\ ileft' \in Int
             /\ ileft' + lost + (IF Littering(r) THEN 1 ELSE 0)
                  = ileft + lost' + (IF Littering(r)' THEN 1 ELSE 0)
  <2>1. ireq'[r].pc = "idle"
    BY <1>1, <1>6, DoneRequest DEF I!Abandon
  <2>2. ~Littering(r)' /\ (Littering(r) <=> ~ireq[r].wh.target)
    BY <1>6, <2>1 DEF Littering
  <2>3. CASE ireq[r].wh.target /\ UNCHANGED <<ileft, lost>>
    BY <1>1, <2>2, <2>3
  <2>4. CASE ~ireq[r].wh.target /\ ileft' = ileft - 1 /\ UNCHANGED lost
    BY <1>1, <2>2, <2>4
  <2>5. CASE ~ireq[r].wh.target /\ lost' = lost + 1 /\ UNCHANGED ileft
    BY <1>1, <2>2, <2>5
  <2>6. QED
    BY <1>6, <2>3, <2>4, <2>5 DEF I!Abandon, I!CleanupFreshSession
<1>7. CASE I!ResolveSession(r)
  <2>1. ireq[r].pc = "session" /\ ~Littering(r)
    BY <1>7 DEF I!ResolveSession, Littering
  <2>2. CASE /\ ileft' = IF ~ireq[r].wh.target THEN ileft + 1 ELSE ileft
             /\ UNCHANGED lost /\ I!Goto(r, "pending")
    <3>1. Littering(r)' <=> ~ireq[r].wh.target
      BY <1>5, <2>2 DEF Littering
    <3>2. /\ lost' \in Nat /\ ileft' \in Int
          /\ ileft' + lost + (IF Littering(r) THEN 1 ELSE 0)
               = ileft + lost' + (IF Littering(r)' THEN 1 ELSE 0)
      BY <1>1, <2>1, <2>2, <3>1
    <3>3. QED
      BY <1>4, <2>1, <2>2, <3>2
  <2>3. CASE /\ \/ ileft' = ileft + 1 /\ lost' = lost + 1
                \/ UNCHANGED <<ileft, lost>>
             /\ I!Done(r)
    <3>1. ~Littering(r)'
      BY <1>1, <2>3, DoneRequest DEF Littering
    <3>2. /\ lost' \in Nat /\ ileft' \in Int
          /\ ileft' + lost + (IF Littering(r) THEN 1 ELSE 0)
               = ileft + lost' + (IF Littering(r)' THEN 1 ELSE 0)
      BY <1>1, <2>1, <2>3, <3>1
    <3>3. QED
      BY <1>4, <2>1, <2>3, <3>2
  <2>4. QED
    BY <1>7, <2>2, <2>3 DEF I!ResolveSession
<1>8. CASE I!PendingGate(r)
  <2>1. CASE I!Goto(r, "loop") /\ UNCHANGED <<ileft, lost>>
    <3>1. ireq[r].pc = "pending"
      BY <1>8 DEF I!PendingGate
    <3>2. /\ lost' \in Nat /\ ileft' \in Int
          /\ ileft' + lost + (IF Littering(r) THEN 1 ELSE 0)
               = ileft + lost' + (IF Littering(r)' THEN 1 ELSE 0)
      BY <1>1, <1>2, <1>5, <2>1, <3>1 DEF Littering
    <3>3. QED
      BY <1>4, <2>1, <3>1, <3>2
  <2>2. CASE I!Abandon(r)
    BY <1>4, <1>6, <1>8, <2>2 DEF I!PendingGate, I!Abandon
  <2>3. QED
    BY <1>8, <2>1, <2>2 DEF I!PendingGate
<1>9. CASE I!BuildLoopAndBudget(r)
  <2>1. CASE I!Goto(r, "submit") /\ UNCHANGED <<ileft, lost>>
    <3>1. ireq[r].pc = "loop"
      BY <1>9 DEF I!BuildLoopAndBudget
    <3>2. /\ lost' \in Nat /\ ileft' \in Int
          /\ ileft' + lost + (IF Littering(r) THEN 1 ELSE 0)
               = ileft + lost' + (IF Littering(r)' THEN 1 ELSE 0)
      BY <1>1, <1>2, <1>5, <2>1, <3>1 DEF Littering
    <3>3. QED
      BY <1>4, <2>1, <3>1, <3>2
  <2>2. CASE I!Abandon(r)
    BY <1>4, <1>6, <1>9, <2>2 DEF I!BuildLoopAndBudget, I!Abandon
  <2>3. QED
    BY <1>9, <2>1, <2>2 DEF I!BuildLoopAndBudget
<1>10. QED
  BY <1>7, <1>8, <1>9

\* A submission starts the one run of its event or gives its session up.
LEMMA SubmitStep ==
  ASSUME InboundInv, NEW r \in Reqs, I!Submit(r)
  PROVE  InboundInv' /\ (EventsSpent => EventsSpent')
<1>1. /\ InboundTypes /\ ireq[r] \in InboundReq /\ started \in [Hooks -> Nat] /\ ileft \in Nat
      /\ ireq[r].pc = "submit" /\ ireq[r].w \in Hooks /\ fired \subseteq Hooks /\ lost \in Nat
      /\ tag \in Hooks \cup {I!NoHook} /\ ireq[r].wh.target \in BOOLEAN
      /\ UNCHANGED <<hook, event, nonces, tag, iedits, idled>>
  BY TargetIsFlag DEF InboundInv, InboundTypes, I!Submit
<1>2. CASE I!Abandon(r) /\ UNCHANGED <<started, fired>>
  <2>1. /\ ireq' \in [Reqs -> InboundReq] /\ \A x \in Reqs : x # r => ireq'[x] = ireq[x]
        /\ ireq'[r].pc = "idle"
    BY <1>1, <1>2, DoneRequest DEF I!Abandon
  <2>2. /\ ileft' + lost + (IF Littering(r) THEN 1 ELSE 0)
             = ileft + lost' + (IF Littering(r)' THEN 1 ELSE 0)
        /\ ileft' \in Int /\ lost' \in Nat
    <3>1. ~Littering(r)' /\ (Littering(r) <=> ~ireq[r].wh.target)
      BY <1>1, <2>1 DEF Littering
    <3>2. CASE ireq[r].wh.target /\ UNCHANGED <<ileft, lost>>
      BY <1>1, <3>1, <3>2
    <3>3. CASE ~ireq[r].wh.target /\ ileft' = ileft - 1 /\ UNCHANGED lost
      BY <1>1, <3>1, <3>3
    <3>4. CASE ~ireq[r].wh.target /\ lost' = lost + 1 /\ UNCHANGED ileft
      BY <1>1, <3>1, <3>4
    <3>5. QED
      BY <1>2, <3>2, <3>3, <3>4 DEF I!Abandon, I!CleanupFreshSession
  <2>3. \A w \in Hooks : started'[w] + (IF Admitted(r, w)' THEN 1 ELSE 0)
                            <= started[w] + (IF Admitted(r, w) THEN 1 ELSE 0)
    BY <1>1, <1>2, <2>1 DEF Admitted
  <2>4. /\ ireq'[r].pc # "idle" => ireq'[r].w \in Hooks
        /\ ireq'[r].pc # "nonce" /\ ireq'[r].pc # "stamp"
        /\ tag' \in Hooks \cup {I!NoHook} /\ fired \subseteq fired' /\ fired' \subseteq Hooks
        /\ started' \in [Hooks -> Nat]
    BY <1>1, <1>2, <2>1
  <2>5. QED
    BY <1>1, <2>1, <2>2, <2>3, <2>4, LetInStep
<1>3. CASE /\ started' = [started EXCEPT ![ireq[r].w] = @ + 1]
           /\ ileft' = IF ireq[r].wh.target THEN ileft ELSE ileft - 1
           /\ UNCHANGED lost
           /\ fired' = IF ireq[r].wh.target THEN fired \cup {ireq[r].w} ELSE fired
           /\ I!Goto(r, "stamp")
  <2>1. /\ ireq' \in [Reqs -> InboundReq] /\ \A x \in Reqs : x # r => ireq'[x] = ireq[x]
        /\ ireq'[r].pc = "stamp" /\ ireq'[r].w = ireq[r].w /\ ireq'[r].wh = ireq[r].wh
    BY <1>1, <1>3, GotoRequest
  <2>2. /\ ileft' + lost + (IF Littering(r) THEN 1 ELSE 0)
             = ileft + lost' + (IF Littering(r)' THEN 1 ELSE 0)
        /\ ileft' \in Int /\ lost' \in Nat
    BY <1>1, <1>3, <2>1 DEF Littering
  <2>3. \A w \in Hooks : started'[w] + (IF Admitted(r, w)' THEN 1 ELSE 0)
                            <= started[w] + (IF Admitted(r, w) THEN 1 ELSE 0)
    BY <1>1, <1>3, <2>1 DEF Admitted
  <2>4. /\ ireq'[r].w \in Hooks /\ ireq'[r].pc # "nonce"
        /\ ireq'[r].wh.target => ireq'[r].w \in fired'
        /\ tag' \in Hooks \cup {I!NoHook} /\ fired \subseteq fired' /\ fired' \subseteq Hooks
        /\ started' \in [Hooks -> Nat]
    BY <1>1, <1>3, <2>1
  <2>5. QED
    BY <1>1, <2>1, <2>2, <2>3, <2>4, LetInStep
<1>4. QED
  BY <1>2, <1>3 DEF I!Submit

\* A run's webhook stamps the target session, after it was started.
LEMMA StampStep ==
  ASSUME InboundInv, NEW r \in Reqs, I!StampReusedSession(r)
  PROVE  InboundInv' /\ (EventsSpent => EventsSpent')
<1>1. /\ InboundTypes /\ started \in [Hooks -> Nat] /\ ileft \in Nat
      /\ ireq[r].pc = "stamp" /\ ireq[r].w \in Hooks /\ fired \subseteq Hooks
      /\ tag \in Hooks \cup {I!NoHook} /\ I!Done(r)
      /\ UNCHANGED <<hook, event, nonces, iedits, started, ileft, lost, idled, fired>>
      /\ lost \in Nat /\ tag' \in {tag, ireq[r].w}
  BY DEF InboundInv, InboundTypes, I!StampReusedSession
<1>2. /\ ireq' \in [Reqs -> InboundReq] /\ \A x \in Reqs : x # r => ireq'[x] = ireq[x]
      /\ ireq'[r].pc = "idle"
  BY <1>1, DoneRequest
<1>3. /\ ~Littering(r) /\ ~Littering(r)' /\ ileft' \in Int /\ lost' \in Nat
      /\ \A w \in Hooks : ~Admitted(r, w) /\ ~Admitted(r, w)'
  BY <1>1, <1>2 DEF Littering, Admitted
<1>4. /\ ileft' + lost + (IF Littering(r) THEN 1 ELSE 0)
           = ileft + lost' + (IF Littering(r)' THEN 1 ELSE 0)
      /\ \A w \in Hooks : started'[w] + (IF Admitted(r, w)' THEN 1 ELSE 0)
                            <= started[w] + (IF Admitted(r, w) THEN 1 ELSE 0)
  BY <1>1, <1>3
<1>5. /\ ireq'[r].pc # "idle" => ireq'[r].w \in Hooks
      /\ ireq'[r].pc # "nonce" /\ ireq'[r].pc # "stamp"
      /\ tag' \in Hooks \cup {I!NoHook} /\ fired \subseteq fired' /\ fired' \subseteq Hooks
      /\ started' \in [Hooks -> Nat]
  BY <1>1, <1>2
<1>6. QED
  BY <1>1, <1>2, <1>3, <1>4, <1>5, LetInStep

\* The clock, the sweep and the owner leave the requests alone.
LEMMA QuietStep ==
  ASSUME InboundInv, InboundTypes', NoncesAge', UNCHANGED <<started, ileft, lost, idled, fired>>,
         \A r \in Reqs :
           ireq'[r].pc = ireq[r].pc /\ ireq'[r].w = ireq[r].w /\ ireq'[r].wh = ireq[r].wh
  PROVE  /\ InboundInv'
         /\ EventsSpent /\ (\A w \in Hooks : nonces[w] # I!Unseen \/ event[w].delta > EventWindow
                              => nonces'[w] # I!Unseen \/ event'[w].delta > EventWindow)
              => EventsSpent'
<1>1. Litter' = Litter /\ \A w \in Hooks : Let(w)' = Let(w)
  BY DEF Litter, Littering, Let, Admitted
<1>2. InboundInv'
  BY <1>1 DEF InboundInv, StampersFired
<1>3. ASSUME EventsSpent, \A w \in Hooks : nonces[w] # I!Unseen \/ event[w].delta > EventWindow
                              => nonces'[w] # I!Unseen \/ event'[w].delta > EventWindow
      PROVE  EventsSpent'
  BY <1>1, <1>3 DEF EventsSpent, I!Unseen
<1>4. QED
  BY <1>2, <1>3

\* The owner's requests touch the rows alone.
LEMMA OwnerStep ==
  ASSUME InboundInv, NEW w \in Hooks,
         I!RotateSecret(w) \/ I!Delete(w) \/ (\E on \in BOOLEAN : I!SetEnabled(w, on))
  PROVE  InboundInv' /\ (EventsSpent => EventsSpent')
<1>1. /\ I!Edit /\ InboundTypes
      /\ UNCHANGED <<event, nonces, tag, ireq, sent, started, ileft, lost, idled, fired>>
      /\ iedits < MaxHookEdits /\ iedits' = iedits + 1
  BY DEF I!RotateSecret, I!Delete, I!SetEnabled, I!Edit, InboundInv
<1>2. \E h \in I!Hook : hook' = [hook EXCEPT ![w] = h] /\ h.secret <= iedits'
  <2>1. hook[w] \in I!Hook /\ hook[w].secret <= iedits /\ iedits \in 0..MaxHookEdits
    BY <1>1 DEF InboundTypes
  <2>2. CASE I!RotateSecret(w)
    <3>1. [hook[w] EXCEPT !.secret = hook[w].secret + 1] \in I!Hook
      BY <1>1, <2>1, InboundAssumption DEF I!Hook
    <3>2. PICK h \in I!Hook : h = [hook[w] EXCEPT !.secret = hook[w].secret + 1]
      BY <3>1
    <3>3. h.secret = hook[w].secret + 1
      BY <2>1, <3>2 DEF I!Hook
    <3>4. hook' = [hook EXCEPT ![w] = h]
      BY <2>2, <3>2 DEF I!RotateSecret
    <3>5. h.secret <= iedits'
      BY <1>1, <2>1, <3>3 DEF I!Hook
    <3>6. QED
      BY <3>4, <3>5
  <2>3. CASE I!Delete(w)
    <3>1. [hook[w] EXCEPT !.exists = FALSE] \in I!Hook
      BY <2>1 DEF I!Hook
    <3>2. PICK h \in I!Hook : h = [hook[w] EXCEPT !.exists = FALSE]
      BY <3>1
    <3>3. h.secret = hook[w].secret
      BY <2>1, <3>2 DEF I!Hook
    <3>4. hook' = [hook EXCEPT ![w] = h]
      BY <2>3, <3>2 DEF I!Delete
    <3>5. h.secret <= iedits'
      BY <1>1, <2>1, <3>3 DEF I!Hook
    <3>6. QED
      BY <3>4, <3>5
  <2>4. ASSUME NEW on \in BOOLEAN, I!SetEnabled(w, on)
        PROVE  \E h \in I!Hook : hook' = [hook EXCEPT ![w] = h] /\ h.secret <= iedits'
    <3>1. [hook[w] EXCEPT !.enabled = on] \in I!Hook
      BY <2>1 DEF I!Hook
    <3>2. PICK h \in I!Hook : h = [hook[w] EXCEPT !.enabled = on]
      BY <3>1
    <3>3. h.secret = hook[w].secret
      BY <2>1, <3>2 DEF I!Hook
    <3>4. hook' = [hook EXCEPT ![w] = h]
      BY <2>4, <3>2 DEF I!SetEnabled
    <3>5. h.secret <= iedits'
      BY <1>1, <2>1, <3>3 DEF I!Hook
    <3>6. QED
      BY <3>4, <3>5
  <2>5. QED
    BY <2>2, <2>3, <2>4
<1>3. PICK h \in I!Hook : hook' = [hook EXCEPT ![w] = h] /\ h.secret <= iedits'
  BY <1>2
<1>4. hook' \in [Hooks -> I!Hook] /\ iedits' \in 0..MaxHookEdits
  BY <1>1, <1>3, InboundAssumption DEF InboundTypes
<1>5. \A v \in Hooks : hook'[v].secret <= iedits'
  <2>1. \A v \in Hooks : hook[v].secret \in Nat /\ hook[v].secret <= iedits
    BY <1>1 DEF InboundTypes, I!Hook
  <2>2. \A v \in Hooks : hook'[v] = IF v = w THEN h ELSE hook[v]
    BY <1>1, <1>3 DEF InboundTypes
  <2>3. iedits \in Nat
    BY <1>1 DEF InboundTypes
  <2>4. QED
    BY <1>1, <1>3, <2>1, <2>2, <2>3
<1>6. InboundTypes' /\ NoncesAge'
  BY <1>1, <1>4, <1>5 DEF InboundTypes, InboundInv, NoncesAge
<1>7. QED
  BY <1>1, <1>6, QuietStep

\* A minute passes: nonces and events age together.
LEMMA TickStep ==
  ASSUME InboundInv, I!Tick
  PROVE  InboundInv' /\ (EventsSpent => EventsSpent')
<1>1. /\ UNCHANGED <<hook, tag, sent, iedits, started, ileft, lost, idled, fired>>
      /\ InboundTypes /\ NoncesAge
  BY DEF I!Tick, InboundInv
<1> EventWindow \in Nat /\ Grace \in Nat /\ Ahead \in Nat /\ MaxHookEdits \in Nat
  BY InboundAssumption
<1>2. ASSUME NEW w \in Hooks
      PROVE  /\ event'[w] \in [delta : (-Ahead)..(EventWindow + 1), secret : (-1)..MaxHookEdits]
             /\ nonces'[w] \in (-1)..(EventWindow + Grace + 1)
             /\ (nonces'[w] = I!Unseen) <=> (nonces[w] = I!Unseen)
             /\ event[w].delta > EventWindow => event'[w].delta > EventWindow
             /\ nonces'[w] # I!Unseen => event'[w] # I!NoEvent
             /\ event'[w].secret = -1 => event'[w] = I!NoEvent
             /\ nonces'[w] # I!Unseen =>
                  event'[w].delta > EventWindow \/ event'[w].delta >= nonces'[w] - Ahead
             /\ event[w] # I!NoEvent =>
                  /\ event'[w] # I!NoEvent
                  /\ event'[w].delta > EventWindow \/ event'[w].delta = event[w].delta + 1
  <2>1. /\ event[w] \in [delta : (-Ahead)..(EventWindow + 1), secret : (-1)..MaxHookEdits]
        /\ nonces[w] \in (-1)..(EventWindow + Grace + 1)
        /\ nonces[w] # I!Unseen => event[w] # I!NoEvent
        /\ event[w].secret = -1 => event[w] = I!NoEvent
        /\ nonces[w] # I!Unseen =>
             event[w].delta > EventWindow \/ event[w].delta >= nonces[w] - Ahead
    BY <1>1 DEF InboundTypes, NoncesAge
  <2>2. event'[w] = IF event[w] = I!NoEvent \/ event[w].delta > EventWindow THEN event[w]
                    ELSE [event[w] EXCEPT !.delta = event[w].delta + 1]
    BY DEF I!Tick
  <2>3. nonces'[w] = IF nonces[w] = I!Unseen \/ nonces[w] > EventWindow + Grace THEN nonces[w]
                     ELSE nonces[w] + 1
    BY DEF I!Tick
  <2>4. nonces'[w] \in (-1)..(EventWindow + Grace + 1)
        /\ (nonces'[w] = I!Unseen <=> nonces[w] = I!Unseen)
        /\ nonces'[w] <= nonces[w] + 1
    BY <2>1, <2>3 DEF I!Unseen
  <2>5. CASE event[w] = I!NoEvent \/ event[w].delta > EventWindow
    BY <2>1, <2>2, <2>4, <2>5 DEF I!NoEvent
  <2>6. CASE event[w] # I!NoEvent /\ ~(event[w].delta > EventWindow)
    <3>1. PICK e \in [delta : Int, secret : Int] : e = event[w]
      BY <2>1
    <3>2. event'[w] = [e EXCEPT !.delta = e.delta + 1]
      BY <2>2, <2>6, <3>1
    <3>3. event'[w] = [delta |-> e.delta + 1, secret |-> e.secret]
      BY <3>2
    <3>4. e.delta \in (-Ahead)..EventWindow /\ e.secret \in (-1)..MaxHookEdits
      BY <2>1, <2>6, <3>1
    <3>5. e.delta >= nonces[w] - Ahead => e.delta + 1 >= nonces'[w] - Ahead
      BY <2>1, <2>4, <3>4
    <3>6. e.secret # -1
      BY <2>1, <2>6, <3>1
    <3>7. event'[w] # I!NoEvent /\ event'[w].secret # -1
      BY <3>3, <3>6 DEF I!NoEvent
    <3>8. QED
      BY <2>1, <2>4, <2>6, <3>1, <3>3, <3>4, <3>5, <3>7
  <2>7. QED
    BY <2>5, <2>6
<1>3. /\ ireq' \in [Reqs -> InboundReq]
      /\ \A r \in Reqs :
           /\ ireq'[r].pc = ireq[r].pc /\ ireq'[r].w = ireq[r].w /\ ireq'[r].wh = ireq[r].wh
           /\ ireq'[r].lag \in Int /\ ireq[r].lag \in Int /\ ireq'[r].lag <= ireq[r].lag + 1
  <2>1. /\ ireq \in [Reqs -> InboundReq]
        /\ ireq' = [r \in Reqs |-> IF ireq[r].pc # "nonce" \/ ireq[r].lag > EventWindow + Grace
                                   THEN ireq[r] ELSE [ireq[r] EXCEPT !.lag = ireq[r].lag + 1]]
    BY <1>1 DEF I!Tick, InboundTypes
  <2>2. ASSUME NEW r \in Reqs
        PROVE  /\ ireq'[r] \in InboundReq
               /\ ireq'[r].pc = ireq[r].pc /\ ireq'[r].w = ireq[r].w /\ ireq'[r].wh = ireq[r].wh
               /\ ireq'[r].lag \in Int /\ ireq[r].lag \in Int /\ ireq'[r].lag <= ireq[r].lag + 1
    <3>1. ireq[r] \in InboundReq
      BY <2>1
    <3>2. CASE ireq[r].pc # "nonce" \/ ireq[r].lag > EventWindow + Grace
      <4>1. ireq'[r] = ireq[r] /\ ireq[r].lag \in 0..(EventWindow + Grace + 1)
        BY <2>1, <3>1, <3>2 DEF InboundReq
      <4>2. QED
        BY <3>1, <4>1
    <3>3. CASE ~(ireq[r].pc # "nonce" \/ ireq[r].lag > EventWindow + Grace)
      <4>1. ireq'[r] = [ireq[r] EXCEPT !.lag = ireq[r].lag + 1]
        BY <2>1, <3>3
      <4>2. ireq[r].lag + 1 \in 0..(EventWindow + Grace + 1) /\ ireq[r].lag \in Int
        BY <3>1, <3>3 DEF InboundReq
      <4>3. [ireq[r] EXCEPT !.lag = ireq[r].lag + 1] \in InboundReq
        BY <3>1, <4>2 DEF InboundReq
      <4>4. /\ ireq'[r].pc = ireq[r].pc /\ ireq'[r].w = ireq[r].w /\ ireq'[r].wh = ireq[r].wh
            /\ ireq'[r].lag = ireq[r].lag + 1
        BY <3>1, <4>1 DEF InboundReq
      <4>5. QED
        BY <4>1, <4>2, <4>3, <4>4
    <3>4. QED
      BY <3>2, <3>3
  <2>3. QED
    BY <2>1, <2>2
<1>4. InboundTypes' /\ NoncesAge'
  <2>1. DOMAIN event' = Hooks /\ DOMAIN nonces' = Hooks
        /\ event' = [w \in Hooks |-> event'[w]] /\ nonces' = [w \in Hooks |-> nonces'[w]]
    BY DEF I!Tick
  <2>2. /\ event' \in [Hooks -> [delta : (-Ahead)..(EventWindow + 1), secret : (-1)..MaxHookEdits]]
        /\ nonces' \in [Hooks -> (-1)..(EventWindow + Grace + 1)]
    BY <1>2, <2>1
  <2>3. InboundTypes'
    BY <1>1, <1>2, <1>3, <2>2 DEF InboundTypes, I!NoEvent
  <2>4. ASSUME NEW r \in Reqs, ireq'[r].pc = "nonce"
        PROVE  /\ event'[ireq'[r].w] # I!NoEvent
               /\ \/ event'[ireq'[r].w].delta > EventWindow
                  \/ event'[ireq'[r].w].delta >= ireq'[r].lag - Ahead
    <3>1. PICK v \in Hooks : v = ireq[r].w /\ v = ireq'[r].w
      BY <1>1, <1>3, <2>4 DEF InboundTypes
    <3>2. /\ event[v] # I!NoEvent
          /\ event[v].delta > EventWindow \/ event[v].delta >= ireq[r].lag - Ahead
      BY <1>1, <1>3, <2>4, <3>1 DEF NoncesAge
    <3>3. event[v].delta \in Int
      BY <1>1 DEF InboundTypes
    <3>4. QED
      BY <1>2, <1>3, <3>1, <3>2, <3>3
  <2>5. QED
    BY <1>2, <2>3, <2>4 DEF NoncesAge, I!Unseen, I!NoEvent
<1>5. QED
  BY <1>1, <1>2, <1>3, <1>4, QuietStep DEF I!Unseen

\* The sweep drops a nonce whose event is too old to be accepted.
LEMMA SweepStep ==
  ASSUME InboundInv, I!SweepExpiredNonces
  PROVE  InboundInv' /\ (EventsSpent /\ ClocksWithinGrace => EventsSpent')
<1>1. /\ UNCHANGED <<hook, event, tag, ireq, sent, iedits, started, ileft, lost, idled, fired>>
      /\ InboundTypes /\ NoncesAge
      /\ nonces' = [w \in Hooks |-> IF nonces[w] <= EventWindow + Grace THEN nonces[w] ELSE I!Unseen]
  BY DEF I!SweepExpiredNonces, I!NonceKept, InboundInv
<1> EventWindow \in Nat /\ Grace \in Nat /\ Ahead \in Nat
  BY InboundAssumption
<1>2. \A w \in Hooks :
        /\ nonces'[w] \in {nonces[w], I!Unseen} /\ nonces[w] \in (-1)..(EventWindow + Grace + 1)
        /\ nonces'[w] \in (-1)..(EventWindow + Grace + 1)
  BY <1>1 DEF InboundTypes, I!Unseen
<1>3. nonces' \in [Hooks -> (-1)..(EventWindow + Grace + 1)]
  BY <1>1, <1>2
<1>4. InboundTypes' /\ NoncesAge'
  BY <1>1, <1>2, <1>3 DEF InboundTypes, NoncesAge, I!Unseen, I!NoEvent
<1>5. ASSUME ClocksWithinGrace, NEW w \in Hooks, nonces[w] # I!Unseen, nonces'[w] = I!Unseen
      PROVE  event[w].delta > EventWindow
  <2>1. nonces[w] > EventWindow + Grace /\ nonces[w] \in Int
    BY <1>1, <1>2, <1>5
  <2>2. event[w].delta > EventWindow \/ event[w].delta >= nonces[w] - Ahead
    BY <1>1, <1>5 DEF NoncesAge
  <2>3. event[w].delta \in Int
    BY <1>1 DEF InboundTypes
  <2>4. QED
    BY <1>5, <2>1, <2>2, <2>3 DEF ClocksWithinGrace
<1>6. ClocksWithinGrace =>
        \A w \in Hooks : nonces[w] # I!Unseen \/ event[w].delta > EventWindow
                           => nonces'[w] # I!Unseen \/ event'[w].delta > EventWindow
  BY <1>1, <1>5
<1>7. QED
  BY <1>1, <1>4, <1>6, QuietStep

\* A request that stores its nonce within the window is the first of its event; every other
\* one is refused or has idled.
LEMMA ClaimNonceStep ==
  ASSUME InboundInv, NEW r \in Reqs, I!ClaimNonce(r)
  PROVE  InboundInv' /\ (EventsSpent => EventsSpent')
<1>0. PICK v : v = ireq[r].w
  OBVIOUS
<1>1. /\ InboundTypes /\ NoncesAge /\ ireq[r].pc = "nonce" /\ v \in Hooks
      /\ UNCHANGED <<hook, event, tag, sent, iedits, started, ileft, lost, fired>>
      /\ event[v] # I!NoEvent
      /\ event[v].delta > EventWindow \/ event[v].delta >= ireq[r].lag - Ahead
      /\ ireq[r].lag \in 0..(EventWindow + Grace + 1) /\ lost \in Nat /\ ileft \in Nat
  BY <1>0 DEF InboundInv, InboundTypes, InboundReq, NoncesAge, I!ClaimNonce
<1> EventWindow \in Nat /\ Grace \in Nat /\ Ahead \in Nat
  BY InboundAssumption
<1>2. CASE UNCHANGED <<nonces, idled>> /\ I!Done(r)
  <2>1. /\ ireq' \in [Reqs -> InboundReq] /\ \A x \in Reqs : x # r => ireq'[x] = ireq[x]
        /\ ireq'[r].pc = "idle"
    BY <1>1, <1>2, DoneRequest
  <2>2. /\ ~Littering(r) /\ ~Littering(r)' /\ ileft' \in Int /\ lost' \in Nat
        /\ \A w \in Hooks : ~Admitted(r, w) /\ ~Admitted(r, w)'
    BY <1>1, <2>1 DEF Littering, Admitted
  <2>3. /\ ileft' + lost + (IF Littering(r) THEN 1 ELSE 0)
             = ileft + lost' + (IF Littering(r)' THEN 1 ELSE 0)
        /\ \A w \in Hooks : started'[w] + (IF Admitted(r, w)' THEN 1 ELSE 0)
                            <= started[w] + (IF Admitted(r, w) THEN 1 ELSE 0)
    BY <1>1, <2>2 DEF InboundTypes
  <2>4. QED
    BY <1>1, <1>2, <2>1, <2>2, <2>3, LetInStep DEF InboundTypes
<1>3. CASE /\ nonces[v] = I!Unseen /\ nonces' = [nonces EXCEPT ![v] = ireq[r].lag]
           /\ idled' = IF event[v].delta > EventWindow THEN idled \cup {v} ELSE idled
           /\ I!Goto(r, "session") \/ I!Done(r)
  <2>1. /\ ireq' \in [Reqs -> InboundReq] /\ \A x \in Reqs : x # r => ireq'[x] = ireq[x]
        /\ \/ ireq'[r].pc = "session" /\ ireq'[r].w = v
           \/ ireq'[r].pc = "idle"
    <3>1. CASE I!Goto(r, "session")
      BY <1>0, <1>1, <3>1, GotoRequest
    <3>2. CASE I!Done(r)
      BY <1>1, <3>2, DoneRequest
    <3>3. QED
      BY <1>3, <3>1, <3>2
  <2>2. /\ nonces' \in [Hooks -> (-1)..(EventWindow + Grace + 1)]
        /\ \A w \in Hooks : nonces'[w] = IF w = v THEN ireq[r].lag ELSE nonces[w]
    BY <1>1, <1>3 DEF InboundTypes
  <2>3. InboundTypes'
    BY <1>1, <1>3, <2>1, <2>2 DEF InboundTypes
  <2>4. NoncesAge'
    BY <1>1, <2>1, <2>2 DEF NoncesAge, I!Unseen, I!NoEvent
  <2>5. StampersFired'
    BY <1>1, <2>1 DEF InboundInv, StampersFired
  <2>6. /\ ~Littering(r) /\ ~Littering(r)'
        /\ \A w \in Hooks : ~Admitted(r, w) /\ (Admitted(r, w)' => w = v)
    BY <1>0, <1>1, <2>1 DEF Littering, Admitted
  <2>7. /\ Cardinality(Litter') = Cardinality(Litter)
        /\ \A w \in Hooks :
             /\ Cardinality(Let(w)') <= Cardinality(Let(w)) + (IF w = v THEN 1 ELSE 0)
             /\ Cardinality(Let(w)) \in Nat /\ Cardinality(Let(w)') \in Nat
    BY <2>1, <2>6, RequestMoves
  <2>8. ASSUME EventsSpent PROVE EventsSpent'
    <3>1. ASSUME NEW w \in Hooks \ idled'
          PROVE  /\ started'[w] + Cardinality(Let(w)') <= 1
                 /\ started'[w] + Cardinality(Let(w)') # 0 =>
                      nonces'[w] # I!Unseen \/ event'[w].delta > EventWindow
      <4>1. /\ w \in Hooks \ idled
            /\ started[w] \in Nat /\ started'[w] = started[w] /\ event'[w] = event[w]
            /\ started[w] + Cardinality(Let(w)) <= 1
            /\ started[w] + Cardinality(Let(w)) # 0 =>
                 nonces[w] # I!Unseen \/ event[w].delta > EventWindow
            /\ Cardinality(Let(w)) \in Nat /\ Cardinality(Let(w)') \in Nat
        BY <1>1, <1>3, <2>7, <2>8, <3>1 DEF EventsSpent, InboundTypes
      <4>2. CASE w = v
        <5>1. ~(event[v].delta > EventWindow)
          BY <1>3, <3>1, <4>2
        <5>2. nonces'[w] # I!Unseen
          BY <1>1, <2>2, <4>2 DEF I!Unseen
        <5>3. started[v] + Cardinality(Let(v)) = 0
          BY <1>3, <4>1, <4>2, <5>1
        <5>4. Cardinality(Let(w)') <= Cardinality(Let(w)) + 1
          BY <2>7, <4>2
        <5>5. QED
          BY <4>1, <4>2, <5>2, <5>3, <5>4
      <4>3. CASE w # v
        <5>1. nonces'[w] = nonces[w]
          BY <2>2, <4>3
        <5>2. Cardinality(Let(w)') <= Cardinality(Let(w)) + 0
          BY <2>7, <4>3
        <5>3. QED
          BY <4>1, <5>1, <5>2
      <4>4. QED
        BY <4>2, <4>3
    <3>2. QED
      BY <3>1 DEF EventsSpent, I!Unseen
  <2>9. InboundInv'
    BY <1>1, <2>3, <2>4, <2>5, <2>7 DEF InboundInv
  <2>10. QED
    BY <2>8, <2>9
<1>4. QED
  BY <1>0, <1>2, <1>3 DEF I!ClaimNonce, I!NonceFresh, I!Idled

\* The sender signs an event once, or repeats the one it signed.
LEMMA SignStep ==
  ASSUME InboundInv, NEW w \in Hooks, I!Sign(w)
  PROVE  \/ UNCHANGED event /\ event[w] # I!NoEvent
         \/ /\ event[w] = I!NoEvent /\ event'[w] # I!NoEvent
            /\ event' \in [Hooks -> [delta : (-Ahead)..(EventWindow + 1), secret : (-1)..MaxHookEdits]]
            /\ event'[w].secret # -1
            /\ \A v \in Hooks : v # w => event'[v] = event[v]
<1>1. CASE UNCHANGED event /\ event[w] # I!NoEvent
  BY <1>1
<1>2. ASSUME NEW delta \in (-Ahead)..0, event[w] = I!NoEvent,
             event' = [event EXCEPT ![w] = [delta |-> delta, secret |-> hook[w].secret]]
      PROVE  /\ event'[w] # I!NoEvent
             /\ event' \in [Hooks -> [delta : (-Ahead)..(EventWindow + 1), secret : (-1)..MaxHookEdits]]
             /\ event'[w].secret # -1
             /\ \A v \in Hooks : v # w => event'[v] = event[v]
  <2>1. hook[w].secret \in Nat /\ hook[w].secret <= iedits /\ iedits \in 0..MaxHookEdits
    BY DEF InboundInv, InboundTypes, I!Hook
  <2>2. PICK e : e = [delta |-> delta, secret |-> hook[w].secret]
    OBVIOUS
  <2>3. /\ e \in [delta : (-Ahead)..(EventWindow + 1), secret : (-1)..MaxHookEdits]
        /\ e.secret # -1
    BY <2>1, <2>2, InboundAssumption
  <2>4. e # I!NoEvent
    BY <2>3 DEF I!NoEvent
  <2>5. event' = [event EXCEPT ![w] = e]
    BY <1>2, <2>2
  <2>6. QED
    BY <2>3, <2>4, <2>5 DEF InboundInv, InboundTypes
<1>3. QED
  BY <1>1, <1>2 DEF I!Sign

\* A request comes in with a signed event.
LEMMA ServeTriggerStep ==
  ASSUME InboundInv, NEW r \in Reqs, NEW w \in Hooks, I!ServeTrigger(r, w)
  PROVE  InboundInv' /\ (EventsSpent => EventsSpent')
<1>1. /\ InboundTypes /\ NoncesAge /\ StampersFired /\ ireq[r].pc = "idle" /\ I!Sign(w)
      /\ UNCHANGED <<hook, nonces, tag, iedits, started, ileft, lost, idled, fired>>
      /\ event'[w].delta <= EventWindow
      /\ ireq' = [ireq EXCEPT ![r] = [pc |-> "nonce", w |-> w, wh |-> hook[w], lag |-> 0]]
  BY DEF InboundInv, I!ServeTrigger, I!VerifySignature
<1> EventWindow \in Nat /\ Grace \in Nat /\ Ahead \in Nat
  BY InboundAssumption
<1>2. PICK q \in InboundReq : q = [pc |-> "nonce", w |-> w, wh |-> hook[w], lag |-> 0]
  <2>1. hook[w] \in I!Hook
    BY <1>1 DEF InboundTypes
  <2>2. [pc |-> "nonce", w |-> w, wh |-> hook[w], lag |-> 0] \in InboundReq
    BY <2>1 DEF InboundReq
  <2>3. QED
    BY <2>2
<1>3. ireq' = [ireq EXCEPT ![r] = q] /\ q.pc = "nonce" /\ q.w = w /\ q.lag = 0
  BY <1>1, <1>2
<1>4. /\ ireq' \in [Reqs -> InboundReq] /\ \A x \in Reqs : x # r => ireq'[x] = ireq[x]
      /\ ireq'[r].pc = "nonce" /\ ireq'[r].w = w /\ ireq'[r].lag = 0
  BY <1>1, <1>3 DEF InboundTypes
<1>5. /\ \/ UNCHANGED event /\ event[w] # I!NoEvent
         \/ event[w] = I!NoEvent /\ event'[w] # I!NoEvent /\ event'[w].secret # -1
      /\ event' \in [Hooks -> [delta : (-Ahead)..(EventWindow + 1), secret : (-1)..MaxHookEdits]]
      /\ \A v \in Hooks : v # w => event'[v] = event[v]
  BY <1>1, SignStep DEF InboundTypes
<1>6. InboundTypes'
  <2>1. \A v \in Hooks : event'[v].secret = -1 => event'[v] = I!NoEvent
    BY <1>1, <1>5 DEF InboundTypes
  <2>2. \A x \in Reqs : ireq'[x].pc # "idle" => ireq'[x].w \in Hooks
    BY <1>1, <1>4 DEF InboundTypes
  <2>3. QED
    BY <1>1, <1>4, <1>5, <2>1, <2>2 DEF InboundTypes, I!NoEvent
<1>7. NoncesAge'
  <2>1. ASSUME NEW v \in Hooks, nonces'[v] # I!Unseen
        PROVE  /\ event'[v] # I!NoEvent
               /\ event'[v].delta > EventWindow \/ event'[v].delta >= nonces'[v] - Ahead
    <3>1. /\ nonces'[v] = nonces[v] /\ event[v] # I!NoEvent
          /\ event[v].delta > EventWindow \/ event[v].delta >= nonces[v] - Ahead
      BY <1>1, <2>1 DEF NoncesAge
    <3>2. event'[v] = event[v]
      BY <1>5, <3>1
    <3>3. QED
      BY <3>1, <3>2
  <2>2. ASSUME NEW x \in Reqs, ireq'[x].pc = "nonce"
        PROVE  /\ event'[ireq'[x].w] # I!NoEvent
               /\ \/ event'[ireq'[x].w].delta > EventWindow
                  \/ event'[ireq'[x].w].delta >= ireq'[x].lag - Ahead
    <3>1. event'[w] # I!NoEvent /\ event'[w].delta >= 0 - Ahead
      BY <1>5
    <3>2. CASE x = r
      BY <1>4, <3>1, <3>2
    <3>3. CASE x # r
      <4>1. PICK v \in Hooks : v = ireq[x].w
        BY <1>1, <1>4, <2>2, <3>3 DEF InboundTypes
      <4>2. /\ ireq'[x] = ireq[x] /\ event[v] # I!NoEvent
            /\ event[v].delta > EventWindow \/ event[v].delta >= ireq[x].lag - Ahead
        BY <1>1, <1>4, <2>2, <3>3, <4>1 DEF NoncesAge
      <4>3. event'[v] = event[v]
        BY <1>5, <4>2
      <4>4. QED
        BY <4>1, <4>2, <4>3
    <3>4. QED
      BY <3>2, <3>3
  <2>3. QED
    BY <2>1, <2>2 DEF NoncesAge, I!Unseen, I!NoEvent
<1>8. StampersFired'
  BY <1>1, <1>4 DEF StampersFired
<1>9. Litter' = Litter /\ \A v \in Hooks : Let(v)' = Let(v)
  BY <1>1, <1>4 DEF Litter, Littering, Let, Admitted
<1>10. ASSUME EventsSpent PROVE EventsSpent'
  <2>1. ASSUME NEW v \in Hooks \ idled
        PROVE  started[v] + Cardinality(Let(v)) # 0 =>
                 nonces[v] # I!Unseen \/ event'[v].delta > EventWindow
    <3>1. started[v] + Cardinality(Let(v)) # 0 =>
            nonces[v] # I!Unseen \/ event[v].delta > EventWindow
      BY <1>10 DEF EventsSpent
    <3>2. CASE event'[v] = event[v]
      BY <3>1, <3>2
    <3>3. CASE event'[v] # event[v]
      <4>1. event[v] = I!NoEvent
        BY <1>5, <3>3
      <4>2. ~(event[v].delta > EventWindow)
        BY <4>1 DEF I!NoEvent
      <4>3. QED
        BY <3>1, <4>2
    <3>4. QED
      BY <3>2, <3>3
  <2>2. QED
    BY <1>1, <1>9, <1>10, <2>1 DEF EventsSpent, I!Unseen
<1>11. QED
  BY <1>1, <1>6, <1>7, <1>8, <1>9, <1>10 DEF InboundInv

\* Every step of the inbound events.
LEMMA InboundStep ==
  InboundInv /\ [I!InboundNext]_inboundVars =>
    InboundInv' /\ (EventsSpent /\ ClocksWithinGrace => EventsSpent')
<1> SUFFICES ASSUME InboundInv, [I!InboundNext]_inboundVars
             PROVE  InboundInv' /\ (EventsSpent /\ ClocksWithinGrace => EventsSpent')
  OBVIOUS
<1>1. CASE UNCHANGED inboundVars
  BY <1>1, QuietStep DEF inboundVars, InboundInv, InboundTypes, NoncesAge
<1>2. CASE I!Tick
  BY <1>2, TickStep
<1>3. CASE I!SweepExpiredNonces
  BY <1>3, SweepStep
<1>4. ASSUME NEW w \in Hooks,
             I!RotateSecret(w) \/ I!Delete(w) \/ \E on \in BOOLEAN : I!SetEnabled(w, on)
      PROVE  InboundInv' /\ (EventsSpent => EventsSpent')
  BY <1>4, OwnerStep
<1>5. ASSUME NEW r \in Reqs, I!Step(r)
      PROVE  InboundInv' /\ (EventsSpent => EventsSpent')
  BY <1>5, ClaimNonceStep, GateSteps, SubmitStep, StampStep DEF I!Step
<1>6. ASSUME NEW r \in Reqs, NEW w \in Hooks, I!ServeTrigger(r, w)
      PROVE  InboundInv' /\ (EventsSpent => EventsSpent')
  BY <1>6, ServeTriggerStep
<1>7. QED
  BY <1>1, <1>2, <1>3, <1>4, <1>5, <1>6 DEF I!InboundNext

\* Before the first event.
LEMMA InboundStart == I!InboundInit => InboundInv /\ EventsSpent
<1> SUFFICES ASSUME I!InboundInit PROVE InboundInv /\ EventsSpent
  OBVIOUS
<1>1. /\ I!Idle \in InboundReq /\ I!Idle.pc = "idle"
      /\ ireq = [r \in Reqs |-> I!Idle]
  BY InboundAssumption DEF I!InboundInit, I!Idle, InboundReq
<1>2. ireq \in [Reqs -> InboundReq] /\ \A r \in Reqs : ireq[r].pc = "idle"
  BY <1>1
<1>3. Litter = {} /\ \A w \in Hooks : Let(w) = {}
  BY <1>2 DEF Litter, Littering, Let, Admitted
<1>4. Cardinality({}) = 0
  BY FS_EmptySet
<1>5. event \in [Hooks -> [delta : (-Ahead)..(EventWindow + 1), secret : (-1)..MaxHookEdits]]
      /\ \A w \in Hooks : event[w] = I!NoEvent
  BY InboundAssumption DEF I!InboundInit, I!NoEvent
<1>6. InboundTypes
  BY <1>2, <1>5, InboundAssumption DEF InboundTypes, I!InboundInit, I!Unseen, I!NoHook
<1>7. NoncesAge /\ StampersFired
  BY <1>2 DEF NoncesAge, StampersFired, I!InboundInit
<1>8. ileft = 0 /\ lost = 0 /\ \A w \in Hooks : started[w] = 0
  BY DEF I!InboundInit
<1>9. QED
  BY <1>3, <1>4, <1>6, <1>7, <1>8 DEF InboundInv, EventsSpent

-----------------------------------------------------------------------------
(* The edges.                                                              *)

\* A step of the platform moves one of its services and leaves the others alone.
LEMMA EdgeFrame ==
  [Next]_vars => [G!GuardNext]_guardVars /\ [I!InboundNext]_inboundVars
<1>1. UNCHANGED vars => UNCHANGED guardVars /\ UNCHANGED inboundVars
  BY DEF vars, edgeVars, guardVars, inboundVars
<1>2. Edges => [G!GuardNext]_guardVars /\ [I!InboundNext]_inboundVars
  BY DEF Edges, Only
<1>3. UNCHANGED edgeVars => UNCHANGED guardVars /\ UNCHANGED inboundVars
  BY DEF edgeVars, guardVars, inboundVars
<1>4. Identity \/ Limits \/ Registries => UNCHANGED edgeVars
  BY DEF Identity, Limits, Registries
<1>5. QED
  BY <1>1, <1>2, <1>3, <1>4 DEF Next

\* An empty count means an empty set, and what the invariants say of the observations.
LEMMA EdgesFollow ==
  ASSUME GuardInv, InboundInv, EventsSpent
  PROVE  EdgesHold
<1>1. G!GuardTypeOK /\ G!DialsOnlyVetted
  BY DEF GuardInv, GuardRequest, G!GuardTypeOK
<1>2. I!InboundTypeOK
  <2>1. /\ nonces \in [Hooks -> I!Unseen..(EventWindow + Grace + 1)]
        /\ \A w \in Hooks : event[w].delta \in (-Ahead)..(EventWindow + 1)
    BY DEF InboundInv, InboundTypes, I!Unseen
  <2>2. QED
    BY <2>1 DEF InboundInv, InboundTypes, InboundReq, I!InboundTypeOK
<1>3. I!EventRunsOnce
  <2>1. ASSUME NEW w \in Hooks \ idled PROVE started[w] <= 1
    <3>1. Let(w) \in SUBSET Reqs
      BY DEF Let
    <3>2. Cardinality(Let(w)) \in Nat
      BY <3>1, CountOne, ReqsAssumption
    <3>3. started[w] \in Nat /\ started[w] + Cardinality(Let(w)) <= 1
      BY DEF EventsSpent, InboundInv, InboundTypes
    <3>4. QED
      BY <3>2, <3>3
  <2>2. QED
    BY <2>1 DEF I!EventRunsOnce
<1>4. I!NoEmptySessionLeft
  <2>1. ASSUME \A r \in Reqs : ireq[r].pc \in {"idle", "nonce", "session", "stamp"}
        PROVE  ileft = lost
    <3>1. Litter = {}
      BY <2>1 DEF Litter, Littering
    <3>2. QED
      BY <3>1, FS_EmptySet DEF InboundInv, InboundTypes
  <2>2. QED
    BY <2>1 DEF I!NoEmptySessionLeft
<1>5. QED
  BY <1>1, <1>2, <1>3, <1>4 DEF EdgesHold

\* A signed event starts at most one run, unless one of its requests stored its nonce when
\* the window had closed; a refused one leaves a session only where the DELETE failed or the
\* INSERT's answer was lost; an outbound request dials only vetted addresses (serveTrigger,
\* Dispatch and the sweep of cmd/server; Send, DialContext and CheckRedirect of the guard).
\* ClocksWithinGrace is what the sweep's extra minute is for: an event whose sender's clock
\* runs further ahead is still accepted when its nonce is swept, and could be repeated.
THEOREM EdgesAreSound == ClocksWithinGrace /\ Spec => []EdgesHold
<1> SUFFICES ASSUME ClocksWithinGrace PROVE Spec => []EdgesHold
  BY DEF ClocksWithinGrace
<1> DEFINE EdgeInv == GuardInv /\ InboundInv /\ EventsSpent
<1>1. Init => EdgeInv
  BY GuardStart, InboundStart DEF Init
<1>2. EdgeInv /\ [Next]_vars => EdgeInv'
  BY EdgeFrame, GuardStep, InboundStep
<1>3. EdgeInv => EdgesHold
  BY EdgesFollow
<1>4. QED
  BY <1>1, <1>2, <1>3, PTL DEF Spec

\* The tag of a target session belongs to a webhook that did start a run there, and stays
\* with the first one (stampReusedSession, which runs after the submit); whatever the
\* clocks show.
THEOREM TagStaysWithTheFirst == Spec => TagIsFirstToFire
<1> DEFINE TagInv == InboundInv /\ (tag # I!NoHook => tag \in fired)
<1>1. Init => TagInv
  BY InboundStart DEF Init, I!InboundInit
<1>2. ASSUME InboundInv, tag # I!NoHook => tag \in fired, [I!InboundNext]_inboundVars
      PROVE  (tag # I!NoHook => tag' = tag) /\ (tag' # I!NoHook => tag' \in fired')
  <2>1. CASE tag' = tag
    <3>1. fired \subseteq fired'
      BY <1>2 DEF inboundVars, I!InboundNext, I!Tick, I!SweepExpiredNonces, I!RotateSecret, I!Delete,
                  I!SetEnabled, I!Edit, I!Step, I!ClaimNonce, I!ResolveSession, I!PendingGate,
                  I!BuildLoopAndBudget, I!Submit, I!StampReusedSession, I!ServeTrigger
    <3>2. QED
      BY <1>2, <2>1, <3>1
  <2>2. CASE tag' # tag
    <3>1. PICK r \in Reqs : I!StampReusedSession(r)
      BY <1>2, <2>2 DEF inboundVars, I!InboundNext, I!Tick, I!SweepExpiredNonces, I!RotateSecret,
                        I!Delete, I!SetEnabled, I!Edit, I!Step, I!ClaimNonce, I!ResolveSession,
                        I!PendingGate, I!BuildLoopAndBudget, I!Submit, I!ServeTrigger
    <3>2. /\ ireq[r].pc = "stamp" /\ ireq[r].wh.target /\ tag \in {I!NoHook, ireq[r].w}
          /\ tag' = ireq[r].w /\ fired' = fired
      BY <2>2, <3>1 DEF I!StampReusedSession, I!Stampable
    <3>3. ireq[r].w \in fired
      BY <1>2, <3>2 DEF InboundInv, StampersFired
    <3>4. QED
      BY <2>2, <3>2, <3>3
  <2>3. QED
    BY <2>1, <2>2
<1>3. TagInv /\ [Next]_vars => TagInv'
  BY <1>2, EdgeFrame, InboundStep DEF I!NoHook
<1>4. TagInv /\ [Next]_vars =>
        [/\ tag # I!NoHook => tag' = tag
         /\ tag' # I!NoHook => tag' \in fired']_(I!inboundVars)
  BY <1>2, EdgeFrame DEF I!NoHook
<1>5. QED
  BY <1>1, <1>3, <1>4, PTL DEF Spec, TagIsFirstToFire, I!TagIsFirstToFire

-----------------------------------------------------------------------------
(* Teams.                                                                  *)

\* A team that has members has an owner, and what a request is about to write still fits
\* the team it checked as long as nobody has written since.
TeamInv ==
  /\ role \in [Users -> T!Roles \cup {"none"}] /\ writes \in Nat
  /\ tedit \in [Edits -> [to : T!Roles \cup {"none", "idle"}, of : Users, at : Nat]]
  /\ \A e \in Edits :
       /\ tedit[e] # T!NoEdit => tedit[e].to # "idle"
       /\ tedit[e].at <= writes
       /\ tedit[e] # T!NoEdit /\ tedit[e].at = writes =>
            role[tedit[e].of] # "none" /\ T!OwnersRemain(tedit[e].of, tedit[e].to)
  /\ T!ChecksKeepAnOwner

\* Two owners are never the same account.
LEMMA SecondOwner ==
  ASSUME T!Cardinality(T!Owners) > 1, NEW u
  PROVE  \E o \in T!Owners : o # u
<1> SUFFICES ASSUME \A o \in T!Owners : o = u PROVE FALSE
  OBVIOUS
<1>1. T!Owners \subseteq {u}
  OBVIOUS
<1>2. IsFiniteSet({u}) /\ Cardinality({u}) = 1
  BY FS_Singleton
<1>3. Cardinality(T!Owners) <= 1 /\ Cardinality(T!Owners) \in Nat
  BY <1>1, <1>2, FS_Subset, FS_CardinalityType
<1>4. T!Cardinality(T!Owners) = Cardinality(T!Owners)
  BY Zenon DEF T!Cardinality, Cardinality
<1>5. QED
  BY <1>3, <1>4

\* A write keeps an owner where nobody demotes the last one.
LEMMA OwnerStays ==
  ASSUME TeamInv, T!TeamKeepsAnOwner, NEW u \in Users, NEW to \in T!Roles \cup {"none"},
         T!Members # {}, T!OwnersRemain(u, to), role' = [role EXCEPT ![u] = to]
  PROVE  T!TeamKeepsAnOwner'
<1>1. \A v \in Users : role'[v] = IF v = u THEN to ELSE role[v]
  BY DEF TeamInv
<1>2. CASE to = "owner"
  BY <1>1, <1>2 DEF T!TeamKeepsAnOwner, T!Owners
<1>3. CASE to # "owner" /\ role[u] = "owner"
  <2>1. PICK o \in T!Owners : o # u
    BY <1>3, SecondOwner DEF T!OwnersRemain
  <2>2. QED
    BY <1>1, <2>1 DEF T!TeamKeepsAnOwner, T!Owners
<1>4. CASE to # "owner" /\ role[u] # "owner"
  <2>1. PICK o \in T!Owners : TRUE
    BY DEF T!TeamKeepsAnOwner
  <2>2. o # u /\ role'[o] = "owner" /\ o \in Users
    BY <1>1, <1>4, <2>1 DEF T!Owners
  <2>3. QED
    BY <2>2 DEF T!TeamKeepsAnOwner, T!Owners
<1>5. QED
  BY <1>2, <1>3, <1>4

\* A write to the team makes every check under way an old one.
LEMMA TeamWritten ==
  ASSUME TeamInv, role' \in [Users -> T!Roles \cup {"none"}], writes' = writes + 1,
         tedit' \in [Edits -> [to : T!Roles \cup {"none", "idle"}, of : Users, at : Nat]],
         \A e \in Edits : tedit'[e] \in {tedit[e], T!NoEdit},
         T!ChecksKeepAnOwner'
  PROVE  TeamInv'
<1>1. writes \in Nat /\ writes' \in Nat /\ T!NoEdit.at = 0
  BY DEF TeamInv, T!NoEdit
<1>2. ASSUME NEW e \in Edits
      PROVE  /\ tedit'[e] # T!NoEdit => tedit'[e].to # "idle"
             /\ tedit'[e].at <= writes' /\ tedit'[e].at # writes'
  <2>1. tedit[e].at \in Nat /\ tedit[e].at <= writes
    BY DEF TeamInv
  <2>2. CASE tedit'[e] = tedit[e]
    BY <1>1, <2>1, <2>2 DEF TeamInv
  <2>3. CASE tedit'[e] = T!NoEdit
    BY <1>1, <2>3
  <2>4. QED
    BY <2>2, <2>3
<1>3. QED
  BY <1>1, <1>2 DEF TeamInv, T!NoEdit

\* A checked request is entered, with the team as it is.
LEMMA TeamChecked ==
  ASSUME TeamInv, NEW e \in Edits, NEW u \in Users, NEW to \in T!Roles \cup {"none"},
         role[u] # "none", T!OwnersRemain(u, to),
         tedit' = [tedit EXCEPT ![e] = [to |-> to, of |-> u, at |-> writes]],
         UNCHANGED <<role, writes, overlapped, upserted>>
  PROVE  TeamInv'
<1>1. PICK q \in [to : T!Roles \cup {"none", "idle"}, of : Users, at : Nat] :
        q = [to |-> to, of |-> u, at |-> writes]
  BY DEF TeamInv
<1>2. q.to = to /\ q.of = u /\ q.at = writes /\ to # "idle"
  BY <1>1 DEF T!Roles
<1>3. tedit' \in [Edits -> [to : T!Roles \cup {"none", "idle"}, of : Users, at : Nat]]
      /\ \A d \in Edits : tedit'[d] = IF d = e THEN q ELSE tedit[d]
  BY <1>1 DEF TeamInv
<1>4. T!ChecksKeepAnOwner'
  BY DEF TeamInv, T!ChecksKeepAnOwner, T!TeamKeepsAnOwner, T!Members, T!Owners
<1>5. ASSUME NEW d \in Edits
      PROVE  /\ tedit'[d] # T!NoEdit => tedit'[d].to # "idle"
             /\ tedit'[d].at <= writes'
             /\ tedit'[d] # T!NoEdit /\ tedit'[d].at = writes' =>
                  role'[tedit'[d].of] # "none"
                  /\ (role'[tedit'[d].of] = "owner" /\ tedit'[d].to # "owner" =>
                        T!Cardinality(T!Owners)' > 1)
  <2>1. role' = role /\ writes' = writes /\ T!Cardinality(T!Owners)' = T!Cardinality(T!Owners)
    BY DEF T!Owners, T!Cardinality
  <2>2. CASE d = e
    BY <1>2, <1>3, <2>1, <2>2 DEF T!OwnersRemain, TeamInv
  <2>3. CASE d # e
    BY <1>3, <2>1, <2>3 DEF T!OwnersRemain, TeamInv
  <2>4. QED
    BY <2>2, <2>3
<1>6. QED
  BY <1>3, <1>4, <1>5 DEF TeamInv, T!OwnersRemain, T!NoEdit

\* Every step of the team.
LEMMA TeamStep == TeamInv /\ [T!TeamsNext]_teamVars => TeamInv'
<1> SUFFICES ASSUME TeamInv, [T!TeamsNext]_teamVars PROVE TeamInv'
  OBVIOUS
<1>0. T!NoEdit \in [to : T!Roles \cup {"none", "idle"}, of : Users, at : Nat]
  BY TeamsAssumption DEF T!NoEdit
<1>1. CASE UNCHANGED teamVars
  <2>1. /\ UNCHANGED <<role, tedit, writes, overlapped, upserted>>
        /\ T!Cardinality(T!Owners)' = T!Cardinality(T!Owners) /\ T!ChecksKeepAnOwner'
    BY <1>1 DEF teamVars, TeamInv, T!ChecksKeepAnOwner, T!TeamKeepsAnOwner, T!Members, T!Owners,
                T!Cardinality
  <2>2. QED
    BY <2>1 DEF TeamInv, T!OwnersRemain, T!NoEdit
<1>2. CASE T!DeleteTeam
  <2>1. T!Members' = {} /\ T!ChecksKeepAnOwner'
    BY <1>2 DEF T!DeleteTeam, T!Members, T!ChecksKeepAnOwner, T!TeamKeepsAnOwner
  <2>2. role' \in [Users -> T!Roles \cup {"none"}] /\ writes' = writes + 1
        /\ tedit' = [e \in Edits |-> T!NoEdit]
    BY <1>2 DEF T!DeleteTeam, T!Wrote
  <2>3. QED
    BY <1>0, <2>1, <2>2, TeamWritten
<1>3. ASSUME NEW u \in Users, T!CreateTeam(u) PROVE TeamInv'
  <2>1. role' = [role EXCEPT ![u] = "owner"] /\ writes' = writes + 1 /\ tedit' = tedit
    BY <1>3 DEF T!CreateTeam, T!Founded, T!Wrote
  <2>2. role' \in [Users -> T!Roles \cup {"none"}] /\ role'[u] = "owner"
    BY <2>1 DEF TeamInv, T!Roles
  <2>3. T!ChecksKeepAnOwner'
    BY <2>2 DEF T!ChecksKeepAnOwner, T!TeamKeepsAnOwner, T!Owners
  <2>4. QED
    BY <2>1, <2>2, <2>3, TeamWritten DEF TeamInv
<1>4. ASSUME NEW u \in Users, NEW to \in T!Roles, T!AddMember(u, to) PROVE TeamInv'
  <2>1. /\ role' = [role EXCEPT ![u] = to] /\ writes' = writes + 1 /\ tedit' = tedit
        /\ T!Members # {} /\ overlapped' = overlapped
        /\ upserted' = (upserted \/ (role[u] = "owner" /\ to # "owner"))
    BY <1>4 DEF T!AddMember, T!Wrote
  <2>2. role' \in [Users -> T!Roles \cup {"none"}]
    BY <2>1 DEF TeamInv
  <2>3. T!ChecksKeepAnOwner'
    <3>1. CASE overlapped' \/ upserted'
      BY <3>1 DEF T!ChecksKeepAnOwner
    <3>2. CASE ~overlapped' /\ ~upserted'
      <4>1. T!TeamKeepsAnOwner /\ ~(role[u] = "owner" /\ to # "owner")
        BY <2>1, <3>2 DEF TeamInv, T!ChecksKeepAnOwner
      <4>2. T!TeamKeepsAnOwner'
        BY <2>1, <4>1, OwnerStays DEF T!OwnersRemain
      <4>3. QED
        BY <4>2 DEF T!ChecksKeepAnOwner
    <3>3. QED
      BY <3>1, <3>2
  <2>4. QED
    BY <2>1, <2>2, <2>3, TeamWritten DEF TeamInv
<1>5. ASSUME NEW e \in Edits, T!WriteMember(e) PROVE TeamInv'
  <2>1. PICK u, to : u = tedit[e].of /\ to = tedit[e].to
    OBVIOUS
  <2>2. /\ role' = [role EXCEPT ![u] = to] /\ writes' = writes + 1
        /\ tedit' = [tedit EXCEPT ![e] = T!NoEdit] /\ tedit[e] # T!NoEdit
        /\ overlapped' = (overlapped \/ tedit[e].at # writes) /\ upserted' = upserted
    BY <1>5, <2>1 DEF T!WriteMember, T!Wrote
  <2>3. u \in Users /\ to \in T!Roles \cup {"none"}
    BY <2>1, <2>2 DEF TeamInv
  <2>4. role' \in [Users -> T!Roles \cup {"none"}]
    BY <2>2, <2>3 DEF TeamInv
  <2>5. T!ChecksKeepAnOwner'
    <3>1. CASE overlapped' \/ upserted'
      BY <3>1 DEF T!ChecksKeepAnOwner
    <3>2. CASE ~overlapped' /\ ~upserted'
      <4>1. T!TeamKeepsAnOwner /\ role[u] # "none" /\ T!OwnersRemain(u, to)
        BY <2>1, <2>2, <3>2 DEF TeamInv, T!ChecksKeepAnOwner
      <4>2. T!Members # {}
        BY <2>3, <4>1 DEF T!Members
      <4>3. T!TeamKeepsAnOwner'
        BY <2>2, <2>3, <4>1, <4>2, OwnerStays
      <4>4. QED
        BY <4>3 DEF T!ChecksKeepAnOwner
    <3>3. QED
      BY <3>1, <3>2
  <2>6. /\ tedit' \in [Edits -> [to : T!Roles \cup {"none", "idle"}, of : Users, at : Nat]]
        /\ \A d \in Edits : tedit'[d] \in {tedit[d], T!NoEdit}
    BY <1>0, <2>2 DEF TeamInv
  <2>7. QED
    BY <2>2, <2>4, <2>5, <2>6, TeamWritten
<1>6. ASSUME NEW e \in Edits, NEW u \in Users, T!RemoveMember(e, u) PROVE TeamInv'
  BY <1>6, TeamChecked DEF T!RemoveMember
<1>7. ASSUME NEW e \in Edits, NEW u \in Users, NEW to \in T!Roles, T!ChangeMemberRole(e, u, to)
      PROVE  TeamInv'
  BY <1>7, TeamChecked DEF T!ChangeMemberRole
<1>8. QED
  BY <1>1, <1>2, <1>3, <1>4, <1>5, <1>6, <1>7 DEF T!TeamsNext

\* Before there is a team.
LEMMA TeamStart == T!TeamsInit => TeamInv
<1> SUFFICES ASSUME T!TeamsInit PROVE TeamInv
  OBVIOUS
<1>1. T!NoEdit \in [to : T!Roles \cup {"none", "idle"}, of : Users, at : Nat] /\ T!NoEdit.at = 0
  BY TeamsAssumption DEF T!NoEdit
<1>2. T!Members = {}
  BY DEF T!TeamsInit, T!Members
<1>3. QED
  BY <1>1, <1>2 DEF T!TeamsInit, TeamInv, T!ChecksKeepAnOwner, T!TeamKeepsAnOwner

-----------------------------------------------------------------------------
(* One-time codes.                                                         *)

OtpRow == [attempts : Nat, used : BOOLEAN, live : BOOLEAN, warm : BOOLEAN]
OtpReq == [pc : {"idle", "compare", "bump", "burn", "consume"}, row : Nat, code : Nat]

OtpTypes ==
  /\ codes \in Seq(OtpRow) /\ Len(codes) <= MaxCodes /\ sentToday \in Nat
  /\ sender \in [Senders -> {"idle", "sending", "storing", "recording"}]
  /\ verify \in [Reqs -> OtpReq]
  /\ \A r \in Reqs : verify[r].pc # "idle" => verify[r].row \in DOMAIN codes
  /\ wrongs \in [1..MaxCodes -> Nat] /\ granted \in [1..MaxCodes -> Nat]
  /\ unbumped \in [1..MaxCodes -> Nat]

\* The requests that will compare a code with row i, and those that will count one against it.
Comparing(r, i) == verify[r].pc = "compare" /\ verify[r].row = i
Bumping(r, i) == verify[r].pc = "bump" /\ verify[r].row = i
Compares(i) == {r \in Reqs : Comparing(r, i)}
Bumps(i) == {r \in Reqs : Bumping(r, i)}

\* What a row granted, and the wrong codes compared with it: a row grants when it is used
\* up, and until then its attempts, the ones still to be written and the ones whose count
\* failed are the wrong codes.
RowHolds(i) ==
  /\ granted[i] = 0 \/ (granted[i] = 1 /\ codes[i].used)
  /\ ~codes[i].used => wrongs[i] = codes[i].attempts + Cardinality(Bumps(i)) + unbumped[i]
  /\ wrongs[i] + Cardinality(Compares(i)) <= MaxAttempts - 1 + Cardinality(Reqs) + unbumped[i]

\* The inductive invariant of the codes.
OtpInv ==
  /\ OtpTypes
  /\ \A i \in DOMAIN codes : RowHolds(i)
  /\ \A i \in 1..MaxCodes : i \notin DOMAIN codes =>
       granted[i] = 0 /\ wrongs[i] = 0 /\ unbumped[i] = 0

\* What one request's step does to the counts of a row.
LEMMA VerifyMoves ==
  ASSUME NEW r \in Reqs, \A x \in Reqs : x # r => verify'[x] = verify[x], NEW i
  PROVE  /\ Cardinality(Compares(i)') - (IF Comparing(r, i)' THEN 1 ELSE 0)
              = Cardinality(Compares(i)) - (IF Comparing(r, i) THEN 1 ELSE 0)
         /\ Cardinality(Bumps(i)') - (IF Bumping(r, i)' THEN 1 ELSE 0)
              = Cardinality(Bumps(i)) - (IF Bumping(r, i) THEN 1 ELSE 0)
         /\ Cardinality(Compares(i)) \in Nat /\ Cardinality(Compares(i)') \in Nat
         /\ Cardinality(Bumps(i)) \in Nat /\ Cardinality(Bumps(i)') \in Nat
<1>1. /\ Compares(i)' \ {r} = Compares(i) \ {r} /\ Bumps(i)' \ {r} = Bumps(i) \ {r}
      /\ (r \in Compares(i) <=> Comparing(r, i)) /\ (r \in Compares(i)' <=> Comparing(r, i)')
      /\ (r \in Bumps(i) <=> Bumping(r, i)) /\ (r \in Bumps(i)' <=> Bumping(r, i)')
      /\ Compares(i) \in SUBSET Reqs /\ Compares(i)' \in SUBSET Reqs
      /\ Bumps(i) \in SUBSET Reqs /\ Bumps(i)' \in SUBSET Reqs
  BY DEF Compares, Comparing, Bumps, Bumping
<1>2. \A D, U \in SUBSET Reqs : U \ {r} = D \ {r} =>
        /\ Cardinality(D) \in Nat /\ Cardinality(U) \in Nat
        /\ Cardinality(U) - (IF r \in U THEN 1 ELSE 0) = Cardinality(D) - (IF r \in D THEN 1 ELSE 0)
  BY OneMoves
<1>3. QED
  BY <1>1, <1>2

\* One request's step on a row: a wrong code is a comparison less and a count more, a
\* written attempt, or one whose count fails, is a count less.
RowMoves(r, q, i) ==
  /\ \/ granted'[i] = granted[i] /\ (codes[i].used => codes'[i].used)
     \/ granted'[i] = 1 /\ codes'[i].used
  /\ ~codes'[i].used =>
       /\ ~codes[i].used
       /\ wrongs'[i] + codes[i].attempts + unbumped[i] + (IF Bumping(r, i) THEN 1 ELSE 0)
             = wrongs[i] + codes'[i].attempts + unbumped'[i]
                 + (IF q.pc = "bump" /\ q.row = i THEN 1 ELSE 0)
  /\ unbumped'[i] >= unbumped[i]
  /\ \/ wrongs'[i] + (IF q.pc = "compare" /\ q.row = i THEN 1 ELSE 0)
          <= wrongs[i] + (IF Comparing(r, i) THEN 1 ELSE 0)
     \/ ~codes'[i].used /\ codes'[i].attempts < MaxAttempts

\* One request's step, as far as it touches every row that way.
LEMMA VerifyStep ==
  ASSUME OtpInv, NEW r \in Reqs, NEW q \in OtpReq, verify' = [verify EXCEPT ![r] = q],
         q.pc # "idle" => q.row \in DOMAIN codes,
         codes' \in Seq(OtpRow), Len(codes') = Len(codes),
         wrongs' \in [1..MaxCodes -> Nat], granted' \in [1..MaxCodes -> Nat],
         unbumped' \in [1..MaxCodes -> Nat], UNCHANGED <<sentToday, sender>>,
         \A i \in 1..MaxCodes : i \notin DOMAIN codes =>
           granted'[i] = granted[i] /\ wrongs'[i] = wrongs[i] /\ unbumped'[i] = unbumped[i],
         \A i \in DOMAIN codes : RowMoves(r, q, i)
  PROVE  OtpInv'
<1>1. /\ \A x \in Reqs : x # r => verify'[x] = verify[x]
      /\ verify'[r] = q /\ verify' \in [Reqs -> OtpReq]
  BY DEF OtpInv, OtpTypes
<1>2. DOMAIN codes = 1..Len(codes) /\ DOMAIN codes' = DOMAIN codes /\ Len(codes) \in Nat
      /\ MaxCodes \in Nat /\ MaxAttempts \in Nat \ {0} /\ Len(codes) <= MaxCodes
  BY OtpAssumption, LenProperties DEF OtpInv, OtpTypes
<1>3. OtpTypes'
  BY <1>1, <1>2 DEF OtpInv, OtpTypes
<1>4. ASSUME NEW i \in DOMAIN codes PROVE RowHolds(i)'
  <2>1. /\ codes[i] \in OtpRow /\ codes'[i] \in OtpRow /\ i \in 1..MaxCodes
        /\ wrongs[i] \in Nat /\ wrongs'[i] \in Nat /\ granted[i] \in Nat /\ granted'[i] \in Nat
        /\ unbumped[i] \in Nat /\ unbumped'[i] \in Nat
    BY <1>2, ElementOfSeq DEF OtpInv, OtpTypes
  <2>2. codes[i].attempts \in Nat /\ codes'[i].attempts \in Nat
        /\ codes[i].used \in BOOLEAN /\ codes'[i].used \in BOOLEAN
    BY <2>1 DEF OtpRow
  <2>3. /\ Cardinality(Compares(i)') - (IF Comparing(r, i)' THEN 1 ELSE 0)
              = Cardinality(Compares(i)) - (IF Comparing(r, i) THEN 1 ELSE 0)
        /\ Cardinality(Bumps(i)') - (IF Bumping(r, i)' THEN 1 ELSE 0)
              = Cardinality(Bumps(i)) - (IF Bumping(r, i) THEN 1 ELSE 0)
        /\ Cardinality(Compares(i)) \in Nat /\ Cardinality(Compares(i)') \in Nat
        /\ Cardinality(Bumps(i)) \in Nat /\ Cardinality(Bumps(i)') \in Nat
    BY <1>1, VerifyMoves
  <2>4. /\ Comparing(r, i)' <=> q.pc = "compare" /\ q.row = i
        /\ Bumping(r, i)' <=> q.pc = "bump" /\ q.row = i
    BY <1>1 DEF Comparing, Bumping
  <2>5. RowHolds(i)
    BY DEF OtpInv
  <2>6. granted'[i] = 0 \/ (granted'[i] = 1 /\ codes'[i].used)
    BY <2>1, <2>5 DEF RowHolds, RowMoves
  <2>7. PICK c0, c1, b0, b1 \in Nat :
          /\ c0 = (IF Comparing(r, i) THEN 1 ELSE 0) /\ c1 = (IF q.pc = "compare" /\ q.row = i THEN 1 ELSE 0)
          /\ b0 = (IF Bumping(r, i) THEN 1 ELSE 0) /\ b1 = (IF q.pc = "bump" /\ q.row = i THEN 1 ELSE 0)
    OBVIOUS
  <2>8. PICK C0, C1, B0, B1 \in Nat :
          /\ C0 = Cardinality(Compares(i)) /\ C1 = Cardinality(Compares(i)')
          /\ B0 = Cardinality(Bumps(i)) /\ B1 = Cardinality(Bumps(i)')
          /\ C1 + c0 = C0 + c1 /\ B1 + b0 = B0 + b1
    BY <2>3, <2>4, <2>7
  <2>9. PICK n \in Nat : n = Cardinality(Reqs) /\ C1 + B1 <= n
    <3>1. /\ Compares(i)' \subseteq Reqs /\ Bumps(i)' \subseteq Reqs
          /\ Compares(i)' \cap Bumps(i)' = {}
      BY DEF Compares, Comparing, Bumps, Bumping
    <3>2. ~(Cardinality(Compares(i)') + Cardinality(Bumps(i)') > Cardinality(Reqs))
      BY <3>1, ReqsAssumption, FS_MajoritiesIntersect
    <3>3. PICK n \in Nat : n = Cardinality(Reqs)
      BY ReqsAssumption, FS_CardinalityType
    <3>4. ~(C1 + B1 > n)
      BY <2>8, <3>2, <3>3
    <3>5. QED
      BY <3>3, <3>4
  <2>10. PICK w0, w1, a0, a1, u0, u1 \in Nat :
           /\ w0 = wrongs[i] /\ w1 = wrongs'[i] /\ a0 = codes[i].attempts /\ a1 = codes'[i].attempts
           /\ u0 = unbumped[i] /\ u1 = unbumped'[i] /\ u1 >= u0
    BY <2>1, <2>2 DEF RowMoves
  <2>11. ASSUME ~codes'[i].used PROVE w1 = a1 + B1 + u1
    <3>1. w0 = a0 + B0 + u0
      BY <2>5, <2>8, <2>10, <2>11 DEF RowHolds, RowMoves
    <3>2. w1 + a0 + u0 + b0 = w0 + a1 + u1 + b1
      BY <2>7, <2>10, <2>11 DEF RowMoves
    <3>3. B1 + b0 = B0 + b1
      BY <2>8
    <3>4. QED
      BY <3>1, <3>2, <3>3
  <2>12. w1 + C1 <= MaxAttempts - 1 + n + u1
    <3>1. w1 + c1 <= w0 + c0 \/ (~codes'[i].used /\ a1 < MaxAttempts)
      BY <2>7, <2>10 DEF RowMoves
    <3>2. w0 + C0 <= MaxAttempts - 1 + n + u0 /\ u1 >= u0
      BY <2>5, <2>8, <2>9, <2>10 DEF RowHolds
    <3>3. C1 + c0 = C0 + c1 /\ C1 + B1 <= n
      BY <2>8, <2>9
    <3>4. CASE w1 + c1 <= w0 + c0
      BY <1>2, <3>2, <3>3, <3>4
    <3>5. CASE ~codes'[i].used /\ a1 < MaxAttempts
      <4>1. w1 = a1 + B1 + u1
        BY <2>11, <3>5
      <4>2. QED
        BY <1>2, <3>3, <3>5, <4>1
    <3>6. QED
      BY <3>1, <3>4, <3>5
  <2>13. QED
    BY <2>6, <2>8, <2>9, <2>10, <2>11, <2>12 DEF RowHolds
<1>5. QED
  BY <1>2, <1>3, <1>4 DEF OtpInv

\* A row of the codes, the rows there are and the rows there may be.
LEMMA RowsThere ==
  ASSUME OtpTypes
  PROVE  /\ DOMAIN codes = 1..Len(codes) /\ Len(codes) \in Nat /\ Len(codes) <= MaxCodes
         /\ MaxCodes \in Nat /\ MaxAttempts \in Nat /\ MaxAttempts > 0
         /\ \A i \in DOMAIN codes :
              /\ codes[i] \in OtpRow /\ i \in 1..MaxCodes /\ i \in Nat
              /\ codes[i].attempts \in Nat /\ codes[i].used \in BOOLEAN
              /\ wrongs[i] \in Nat /\ granted[i] \in Nat /\ unbumped[i] \in Nat
<1>1. /\ DOMAIN codes = 1..Len(codes) /\ Len(codes) \in Nat /\ Len(codes) <= MaxCodes
      /\ MaxCodes \in Nat /\ MaxAttempts \in Nat /\ MaxAttempts > 0
  BY OtpAssumption, LenProperties DEF OtpTypes
<1>2. ASSUME NEW i \in DOMAIN codes
      PROVE  /\ codes[i] \in OtpRow /\ i \in 1..MaxCodes /\ i \in Nat
             /\ codes[i].attempts \in Nat /\ codes[i].used \in BOOLEAN
             /\ wrongs[i] \in Nat /\ granted[i] \in Nat /\ unbumped[i] \in Nat
  <2>1. i \in 1..MaxCodes /\ i \in Nat
    BY <1>1
  <2>2. codes[i] \in OtpRow
    BY <1>1, ElementOfSeq DEF OtpTypes
  <2>3. codes[i].attempts \in Nat /\ codes[i].used \in BOOLEAN
    BY <2>2 DEF OtpRow
  <2>4. QED
    BY <2>1, <2>2, <2>3 DEF OtpTypes
<1>3. QED
  BY <1>1, <1>2

\* A row that is used up or unused as before, with the attempts it had, and nobody's step.
LEMMA RowsKept ==
  ASSUME OtpInv, codes' \in Seq(OtpRow), Len(codes') = Len(codes), sentToday' \in Nat,
         sender' \in [Senders -> {"idle", "sending", "storing", "recording"}],
         UNCHANGED <<verify, wrongs, unbumped, granted>>,
         \A i \in DOMAIN codes : codes'[i].used = codes[i].used /\ codes'[i].attempts = codes[i].attempts
  PROVE  OtpInv'
<1>1. DOMAIN codes' = DOMAIN codes
  BY LenProperties DEF OtpInv, OtpTypes
<1>2. OtpTypes'
  BY <1>1 DEF OtpInv, OtpTypes
<1>3. ASSUME NEW i \in DOMAIN codes PROVE RowHolds(i)'
  <2>1. Compares(i)' = Compares(i) /\ Bumps(i)' = Bumps(i)
    BY DEF Compares, Comparing, Bumps, Bumping
  <2>2. RowHolds(i)
    BY DEF OtpInv
  <2>3. QED
    BY <2>1, <2>2 DEF RowHolds
<1>4. QED
  BY <1>1, <1>2, <1>3 DEF OtpInv

\* A code that is stored is a row nobody has compared with.
LEMMA StoredStep ==
  ASSUME OtpInv, O!Stored, UNCHANGED <<sentToday, verify, wrongs, unbumped, granted>>,
         sender' \in [Senders -> {"idle", "sending", "storing", "recording"}]
  PROVE  OtpInv'
<1>1. PICK n \in Nat : n = Len(codes) + 1
  BY RowsThere DEF OtpInv
<1>2. PICK w \in OtpRow : w = O!Row /\ w.attempts = 0 /\ ~w.used
  <2>1. O!Row \in OtpRow /\ O!Row.attempts = 0 /\ ~O!Row.used
    BY DEF OtpRow, O!Row
  <2>2. QED
    BY <2>1
<1>3. /\ codes' = Append(codes, w) /\ n <= MaxCodes
      /\ UNCHANGED <<sentToday, verify, wrongs, unbumped, granted>>
  BY <1>1, <1>2, RowsThere DEF O!Stored, OtpInv
<1>4. /\ codes' \in Seq(OtpRow) /\ Len(codes') = n /\ DOMAIN codes' = DOMAIN codes \cup {n}
      /\ codes'[n] = w /\ (\A i \in DOMAIN codes : codes'[i] = codes[i]) /\ n \notin DOMAIN codes
      /\ n \in 1..MaxCodes
  <2>1. codes \in Seq(OtpRow) /\ DOMAIN codes = 1..Len(codes) /\ Len(codes) \in Nat /\ MaxCodes \in Nat
    BY RowsThere DEF OtpInv, OtpTypes
  <2>2. codes' \in Seq(OtpRow) /\ Len(codes') = n
    BY <1>1, <1>3, <2>1
  <2>3. DOMAIN codes' = 1..n
    BY <2>2, LenProperties
  <2>4. codes'[n] = w /\ \A i \in DOMAIN codes : codes'[i] = codes[i]
    BY <1>1, <1>3, <2>1
  <2>5. QED
    BY <1>1, <1>3, <2>1, <2>2, <2>3, <2>4
<1>5. OtpTypes'
  BY <1>3, <1>4 DEF OtpInv, OtpTypes
<1>6. ASSUME NEW i \in DOMAIN codes' PROVE RowHolds(i)'
  <2>1. Compares(i)' = Compares(i) /\ Bumps(i)' = Bumps(i)
    BY <1>3 DEF Compares, Comparing, Bumps, Bumping
  <2>2. CASE i \in DOMAIN codes
    BY <1>3, <1>4, <2>1, <2>2 DEF OtpInv, RowHolds
  <2>3. CASE i = n
    <3>1. Compares(i) = {} /\ Bumps(i) = {}
      BY <1>4, <2>3 DEF Compares, Comparing, Bumps, Bumping, OtpInv, OtpTypes
    <3>2. Cardinality({}) = 0 /\ Cardinality(Reqs) \in Nat
      BY FS_EmptySet, FS_CardinalityType, ReqsAssumption
    <3>3. granted'[i] = 0 /\ wrongs'[i] = 0 /\ unbumped'[i] = 0
      BY <1>3, <1>4, <2>3 DEF OtpInv
    <3>4. MaxAttempts \in Nat /\ MaxAttempts > 0
      BY OtpAssumption
    <3>5. QED
      BY <1>2, <1>4, <2>1, <2>3, <3>1, <3>2, <3>3, <3>4 DEF RowHolds
  <2>4. QED
    BY <1>4, <2>2, <2>3
<1>7. QED
  BY <1>3, <1>4, <1>5, <1>6 DEF OtpInv

\* The cooldown and the lifetime of a row pass.
LEMMA CoolStep ==
  ASSUME OtpInv, NEW i \in DOMAIN codes, O!Cool(i)
  PROVE  OtpInv'
<1>1. /\ codes[i] \in OtpRow /\ codes \in Seq(OtpRow) /\ i \in 1..Len(codes)
      /\ UNCHANGED <<sentToday, sender, verify, wrongs, unbumped, granted>>
  BY RowsThere DEF OtpInv, OtpTypes, O!Cool
<1>2. \E w \in OtpRow : /\ codes' = [codes EXCEPT ![i] = w]
                        /\ w.used = codes[i].used /\ w.attempts = codes[i].attempts
  <2>1. CASE codes[i].warm
    <3>1. [codes[i] EXCEPT !.warm = FALSE] \in OtpRow
      BY <1>1 DEF OtpRow
    <3>2. PICK w \in OtpRow : w = [codes[i] EXCEPT !.warm = FALSE]
      BY <3>1
    <3>3. w.used = codes[i].used /\ w.attempts = codes[i].attempts
      BY <1>1, <3>2 DEF OtpRow
    <3>4. codes' = [codes EXCEPT ![i] = w]
      BY <2>1, <3>2 DEF O!Cool
    <3>5. QED
      BY <3>3, <3>4
  <2>2. CASE ~codes[i].warm
    <3>1. [codes[i] EXCEPT !.live = FALSE] \in OtpRow
      BY <1>1 DEF OtpRow
    <3>2. PICK w \in OtpRow : w = [codes[i] EXCEPT !.live = FALSE]
      BY <3>1
    <3>3. w.used = codes[i].used /\ w.attempts = codes[i].attempts
      BY <1>1, <3>2 DEF OtpRow
    <3>4. codes' = [codes EXCEPT ![i] = w]
      BY <2>2, <3>2 DEF O!Cool
    <3>5. QED
      BY <3>3, <3>4
  <2>3. QED
    BY <2>1, <2>2
<1>3. PICK w \in OtpRow : /\ codes' = [codes EXCEPT ![i] = w]
                          /\ w.used = codes[i].used /\ w.attempts = codes[i].attempts
  BY <1>2
<1>4. /\ codes' \in Seq(OtpRow) /\ Len(codes') = Len(codes)
      /\ \A j \in 1..Len(codes) : codes'[j] = IF j = i THEN w ELSE codes[j]
  BY <1>1, <1>3, ExceptSeq
<1>5. \A j \in DOMAIN codes : codes'[j].used = codes[j].used /\ codes'[j].attempts = codes[j].attempts
  BY <1>3, <1>4, RowsThere DEF OtpInv
<1>6. QED
  BY <1>1, <1>4, <1>5, RowsKept DEF OtpInv, OtpTypes

\* The last of the rows a request may find.
LEMMA LastOf ==
  ASSUME NEW n \in Nat, NEW D \in SUBSET (1..n), D # {}
  PROVE  \E m \in D : \A k \in D : k <= m
<1> DEFINE Back == {n - k : k \in D}
<1>1. Back \subseteq Nat /\ Back # {}
  <2>1. \A k \in D : k \in Nat /\ n - k \in Nat
    OBVIOUS
  <2>2. PICK d \in D : TRUE
    OBVIOUS
  <2>3. n - d \in Back
    BY <2>2
  <2>4. QED
    BY <2>1, <2>3
<1>2. PICK b \in Back : \A c \in Back : ~(<<c, b>> \in OpToRel(<, Nat))
  BY <1>1, WFMin, NatLessThanWellFounded, Zenon
<1>3. \A c \in Back : ~(c < b)
  <2>1. OpToRel(<, Nat) = {ss \in Nat \X Nat : ss[1] < ss[2]}
    BY Zenon DEF OpToRel
  <2>2. \A c \in Back : c < b => <<c, b>> \in {ss \in Nat \X Nat : ss[1] < ss[2]}
    BY <1>1
  <2>3. QED
    BY <1>2, <2>1, <2>2, Zenon
<1>4. PICK m \in D : b = n - m
  OBVIOUS
<1>5. \A k \in D : k <= m
  BY <1>3, <1>4
<1>6. QED
  BY <1>5

\* The row a request reads is unused, if there is one.
LEMMA LatestIsPending ==
  ASSUME OtpInv, O!Pending # {}
  PROVE  O!Latest \in DOMAIN codes /\ ~codes[O!Latest].used
<1>1. O!Pending \in SUBSET (1..Len(codes)) /\ Len(codes) \in Nat
  BY RowsThere DEF O!Pending, OtpInv
<1>2. \E m \in O!Pending : \A k \in O!Pending : k <= m
  BY <1>1, LastOf
<1>3. O!Latest \in O!Pending
  BY <1>2 DEF O!Latest
<1>4. QED
  BY <1>3 DEF O!Pending

\* The read and the check of the attempts.
LEMMA LatestStep ==
  ASSUME OtpInv, NEW r \in Reqs, O!LatestOTP(r)
  PROVE  OtpInv'
<1>1. /\ OtpTypes /\ verify[r].pc = "idle"
      /\ UNCHANGED <<codes, sentToday, sender, wrongs, unbumped, granted>>
  BY DEF OtpInv, O!LatestOTP
<1>2. PICK q \in OtpReq :
        /\ verify' = [verify EXCEPT ![r] = q]
        /\ q.pc = "idle" \/ (/\ q.pc = "compare" /\ q.row \in DOMAIN codes
                             /\ ~codes[q.row].used /\ codes[q.row].attempts < MaxAttempts)
  <2>1. PICK p \in OtpReq : p = verify[r] /\ p.pc = "idle"
    BY <1>1 DEF OtpTypes
  <2>2. CASE O!Pending = {} \/ codes[O!Latest].attempts >= MaxAttempts
    <3>1. verify' = verify
      BY <2>2 DEF O!LatestOTP
    <3>2. verify' = [verify EXCEPT ![r] = p]
      BY <1>1, <2>1, <3>1 DEF OtpTypes
    <3>3. QED
      BY <2>1, <3>2
  <2>3. CASE O!Pending # {} /\ ~(codes[O!Latest].attempts >= MaxAttempts)
    <3>1. PICK l : l = O!Latest
      OBVIOUS
    <3>2. l \in DOMAIN codes /\ ~codes[l].used /\ codes[l].attempts < MaxAttempts /\ l \in Nat
      BY <1>1, <2>3, <3>1, LatestIsPending, RowsThere
    <3>3. PICK c \in {0, l} : verify' = [verify EXCEPT ![r] = [pc |-> "compare", row |-> l, code |-> c]]
      BY <2>3, <3>1 DEF O!LatestOTP
    <3>9. c \in Nat
      BY <3>2, <3>3
    <3>4. PICK q \in OtpReq : q = [pc |-> "compare", row |-> l, code |-> c]
      BY <3>2, <3>9 DEF OtpReq
    <3>5. q.pc = "compare" /\ q.row = l
      BY <3>4
    <3>6. verify' = [verify EXCEPT ![r] = q]
      BY <3>3, <3>4
    <3>7. QED
      BY <3>2, <3>5, <3>6
  <2>4. QED
    BY <2>2, <2>3
<1>3. ASSUME NEW i \in DOMAIN codes PROVE RowMoves(r, q, i)
  <2>1. /\ codes[i].attempts \in Nat /\ wrongs[i] \in Nat /\ unbumped[i] \in Nat
        /\ ~Bumping(r, i) /\ ~Comparing(r, i) /\ q.pc # "bump"
    BY <1>1, <1>2, RowsThere DEF Bumping, Comparing
  <2>2. QED
    BY <1>1, <1>2, <2>1 DEF RowMoves
<1>4. QED
  BY <1>1, <1>2, <1>3, VerifyStep DEF OtpTypes

\* A comparison leads to the row's use or to a wrong code that is still to be counted.
LEMMA CompareStep ==
  ASSUME OtpInv, NEW r \in Reqs, O!Compare(r)
  PROVE  OtpInv'
<1>1. PICK v \in OtpReq : v = verify[r]
  BY DEF OtpInv, OtpTypes
<1>2. /\ OtpTypes /\ v.pc = "compare" /\ v.row \in DOMAIN codes
      /\ UNCHANGED <<codes, sentToday, sender, unbumped, granted>>
      /\ verify' = [verify EXCEPT ![r].pc = IF v.code = v.row THEN "consume" ELSE "bump"]
      /\ wrongs' = IF v.code = v.row THEN wrongs ELSE [wrongs EXCEPT ![v.row] = @ + 1]
  BY <1>1 DEF OtpInv, OtpTypes, O!Compare
<1>3. PICK q \in OtpReq : q = [v EXCEPT !.pc = IF v.code = v.row THEN "consume" ELSE "bump"]
  BY DEF OtpReq
<1>4. /\ verify' = [verify EXCEPT ![r] = q] /\ q.row = v.row
      /\ q.pc = IF v.code = v.row THEN "consume" ELSE "bump"
  BY <1>1, <1>2, <1>3 DEF OtpReq
<1>5. /\ v.row \in 1..MaxCodes /\ wrongs \in [1..MaxCodes -> Nat] /\ wrongs' \in [1..MaxCodes -> Nat]
      /\ \A i \in 1..MaxCodes :
           wrongs'[i] = IF i = v.row /\ v.code # v.row THEN wrongs[i] + 1 ELSE wrongs[i]
  BY <1>2, RowsThere DEF OtpTypes
<1>6. ASSUME NEW i \in DOMAIN codes PROVE RowMoves(r, q, i)
  <2>1. /\ codes[i].attempts \in Nat /\ wrongs[i] \in Nat /\ unbumped[i] \in Nat /\ i \in 1..MaxCodes
        /\ ~Bumping(r, i) /\ (Comparing(r, i) <=> v.row = i)
    BY <1>1, <1>2, RowsThere DEF Bumping, Comparing
  <2>2. CASE v.code = v.row
    BY <1>2, <1>4, <1>5, <2>1, <2>2 DEF RowMoves
  <2>3. CASE v.code # v.row
    BY <1>2, <1>4, <1>5, <2>1, <2>3 DEF RowMoves
  <2>4. QED
    BY <2>2, <2>3
<1>7. QED
  BY <1>2, <1>4, <1>5, <1>6, VerifyStep DEF OtpTypes

\* A request that ends with its row's fields as v says.
LEMMA RowWritten ==
  ASSUME OtpInv, NEW i \in DOMAIN codes, NEW w \in OtpRow, codes' = [codes EXCEPT ![i] = w]
  PROVE  /\ codes' \in Seq(OtpRow) /\ Len(codes') = Len(codes)
         /\ \A j \in DOMAIN codes : codes'[j] = IF j = i THEN w ELSE codes[j]
<1>1. codes \in Seq(OtpRow) /\ DOMAIN codes = 1..Len(codes)
  BY RowsThere DEF OtpInv, OtpTypes
<1>2. QED
  BY <1>1, ExceptSeq

\* A row is used up, by the code itself or by its last attempt, or the statement fails.
LEMMA UseStep ==
  ASSUME OtpInv, NEW r \in Reqs, O!Burn(r) \/ O!ConsumeOTP(r) \/ O!ConsumeFails(r)
  PROVE  OtpInv'
<1>1. PICK v : v = verify[r].row
  OBVIOUS
<1>2. /\ OtpTypes /\ verify[r].pc \in {"burn", "consume"} /\ v \in DOMAIN codes
      /\ UNCHANGED <<sentToday, sender, wrongs, unbumped>>
      /\ verify' = [verify EXCEPT ![r] = O!Resting]
      /\ \/ /\ codes' = [codes EXCEPT ![v].used = TRUE]
            /\ \/ UNCHANGED granted
               \/ ~codes[v].used /\ granted' = [granted EXCEPT ![v] = @ + 1]
         \/ UNCHANGED codes /\ UNCHANGED granted
  BY <1>1 DEF OtpInv, OtpTypes, O!Burn, O!ConsumeOTP, O!ConsumeFails, O!Consumable
<1>3. codes[v] \in OtpRow
  BY <1>2, RowsThere
<1>4. PICK w \in OtpRow :
        /\ codes' = [codes EXCEPT ![v] = w]
        /\ w.used \/ (w = codes[v] /\ granted' = granted)
  <2>1. CASE codes' = [codes EXCEPT ![v].used = TRUE]
    <3>1. PICK w \in OtpRow : w = [codes[v] EXCEPT !.used = TRUE]
      BY <1>3 DEF OtpRow
    <3>2. w.used /\ codes' = [codes EXCEPT ![v] = w]
      BY <1>3, <2>1, <3>1 DEF OtpRow
    <3>3. QED
      BY <3>2
  <2>2. CASE UNCHANGED codes /\ UNCHANGED granted
    <3>1. codes \in [1..Len(codes) -> OtpRow]
      BY <1>2, LenProperties DEF OtpTypes
    <3>2. codes' = [codes EXCEPT ![v] = codes[v]]
      BY <2>2, <3>1
    <3>3. QED
      BY <1>3, <2>2, <3>2
  <2>3. QED
    BY <1>2, <2>1, <2>2
<1>5. codes' = [codes EXCEPT ![v] = w]
  BY <1>4
<1>6. /\ codes' \in Seq(OtpRow) /\ Len(codes') = Len(codes)
      /\ \A j \in DOMAIN codes : codes'[j] = IF j = v THEN w ELSE codes[j]
  BY <1>2, <1>5, RowWritten
<1>7. PICK q \in OtpReq : q = O!Resting /\ q.pc = "idle"
  <2>1. O!Resting \in OtpReq /\ O!Resting.pc = "idle"
    BY DEF O!Resting, OtpReq
  <2>2. QED
    BY <2>1
<1>8. /\ granted' \in [1..MaxCodes -> Nat]
      /\ \A j \in 1..MaxCodes :
           granted'[j] = granted[j] \/ (j = v /\ ~codes[v].used /\ granted'[j] = granted[j] + 1)
  <2>1. granted \in [1..MaxCodes -> Nat]
    BY <1>2 DEF OtpTypes
  <2>2. CASE UNCHANGED granted
    BY <2>1, <2>2
  <2>3. CASE ~codes[v].used /\ granted' = [granted EXCEPT ![v] = @ + 1]
    <3>1. granted' = [granted EXCEPT ![v] = granted[v] + 1] /\ v \in 1..MaxCodes
      BY <1>2, <2>3, RowsThere
    <3>2. granted' \in [1..MaxCodes -> Nat] /\ \A j \in 1..MaxCodes : granted'[j] = granted[j] \/ (j = v /\ granted'[j] = granted[j] + 1)
      BY <2>1, <3>1
    <3>3. QED
      BY <2>3, <3>2, Zenon
  <2>4. QED
    BY <1>2, <2>2, <2>3
<1>9. ASSUME NEW i \in DOMAIN codes PROVE RowMoves(r, q, i)
  <2>1. /\ codes[i].attempts \in Nat /\ wrongs[i] \in Nat /\ granted[i] \in Nat /\ i \in 1..MaxCodes
        /\ unbumped[i] \in Nat
        /\ ~Bumping(r, i) /\ ~Comparing(r, i) /\ wrongs' = wrongs /\ unbumped' = unbumped
    BY <1>2, RowsThere DEF Bumping, Comparing
  <2>2. CASE i = v
    <3>1. ~codes[v].used => granted[v] = 0
      BY <2>2 DEF OtpInv, RowHolds
    <3>2. codes'[i] = w
      BY <1>6, <2>2
    <3>3. granted'[i] = granted[i] \/ granted'[i] = 1
      BY <1>8, <2>1, <2>2, <3>1
    <3>4. CASE w.used
      BY <1>7, <2>1, <3>2, <3>3, <3>4 DEF RowMoves
    <3>5. CASE w = codes[v] /\ granted' = granted
      BY <1>7, <2>1, <2>2, <3>2, <3>5 DEF RowMoves
    <3>6. QED
      BY <1>4, <3>4, <3>5
  <2>3. CASE i # v
    <3>1. codes'[i] = codes[i] /\ granted'[i] = granted[i]
      BY <1>6, <1>8, <2>1, <2>3
    <3>2. QED
      BY <1>7, <2>1, <3>1 DEF RowMoves
  <2>4. QED
    BY <2>2, <2>3
<1>10. QED
  <2>1. \A i \in 1..MaxCodes : i \notin DOMAIN codes =>
          granted'[i] = granted[i] /\ wrongs'[i] = wrongs[i] /\ unbumped'[i] = unbumped[i]
    BY <1>2, <1>8
  <2>2. wrongs' \in [1..MaxCodes -> Nat] /\ unbumped' \in [1..MaxCodes -> Nat] /\ verify' = [verify EXCEPT ![r] = q]
    BY <1>2, <1>7 DEF OtpTypes
  <2>3. QED
    BY <1>2, <1>6, <1>7, <1>8, <1>9, <2>1, <2>2, VerifyStep

\* A wrong code is counted, unless its row was used up meanwhile or the statement fails.
LEMMA BumpStep ==
  ASSUME OtpInv, NEW r \in Reqs, O!BumpOTPAttempts(r) \/ O!BumpFails(r)
  PROVE  OtpInv'
<1>1. PICK v \in OtpReq : v = verify[r]
  BY DEF OtpInv, OtpTypes
<1>2. PICK i : i = v.row
  OBVIOUS
<1>3. /\ OtpTypes /\ v.pc = "bump" /\ i \in DOMAIN codes
      /\ UNCHANGED <<sentToday, sender, wrongs, granted>>
      /\ \/ codes[i].used /\ UNCHANGED <<codes, unbumped>>
         \/ /\ ~codes[i].used /\ UNCHANGED unbumped
            /\ codes' = [codes EXCEPT ![i].attempts = codes[i].attempts + 1]
         \/ UNCHANGED codes /\ unbumped' = [unbumped EXCEPT ![i] = unbumped[i] + 1]
      /\ \/ verify' = [verify EXCEPT ![r] = [@ EXCEPT !.pc = "burn"]]
         \/ verify' = [verify EXCEPT ![r] = O!Resting]
  <2>1. /\ OtpTypes /\ v.pc = "bump" /\ i \in DOMAIN codes
        /\ UNCHANGED <<sentToday, sender, wrongs, granted>>
    BY <1>1, <1>2 DEF OtpInv, OtpTypes, O!BumpOTPAttempts, O!BumpFails
  <2>2. CASE O!BumpOTPAttempts(r)
    BY <1>1, <1>2, <2>1, <2>2 DEF O!BumpOTPAttempts, O!Bumped
  <2>3. CASE O!BumpFails(r)
    BY <1>1, <1>2, <2>1, <2>3 DEF O!BumpFails, O!Bumped
  <2>4. QED
    BY <2>1, <2>2, <2>3
<1>4. PICK q \in OtpReq :
        /\ verify' = [verify EXCEPT ![r] = q]
        /\ q.pc = "idle" \/ (q.pc = "burn" /\ q.row = i)
  <2>1. O!Resting \in OtpReq /\ O!Resting.pc = "idle"
    BY DEF O!Resting, OtpReq
  <2>2. PICK b \in OtpReq : b = [v EXCEPT !.pc = "burn"]
    BY DEF OtpReq
  <2>3. b.pc = "burn" /\ b.row = i
    BY <1>2, <2>2 DEF OtpReq
  <2>4. CASE verify' = [verify EXCEPT ![r] = [@ EXCEPT !.pc = "burn"]]
    BY <1>1, <1>3, <2>2, <2>3, <2>4
  <2>5. CASE verify' = [verify EXCEPT ![r] = O!Resting]
    BY <1>3, <2>1, <2>5
  <2>6. QED
    BY <1>3, <2>4, <2>5
<1>5. codes[i] \in OtpRow /\ codes[i].attempts \in Nat /\ codes[i].used \in BOOLEAN
  BY <1>3, RowsThere
<1>6. PICK w \in OtpRow, u \in {0, 1} :
        /\ codes' = [codes EXCEPT ![i] = w] /\ w.used = codes[i].used
        /\ ~codes[i].used => w.attempts + u = codes[i].attempts + 1
        /\ unbumped' \in [1..MaxCodes -> Nat]
        /\ \A j \in 1..MaxCodes : unbumped'[j] = IF j = i THEN unbumped[j] + u ELSE unbumped[j]
  <2>0. unbumped \in [1..MaxCodes -> Nat] /\ i \in 1..MaxCodes
    BY <1>3, RowsThere DEF OtpTypes
  <2>1. CASE UNCHANGED codes
    <3>1. codes \in [1..Len(codes) -> OtpRow]
      BY <1>3, LenProperties DEF OtpTypes
    <3>2. codes = [codes EXCEPT ![i] = codes[i]]
      BY <3>1
    <3>3. codes' = [codes EXCEPT ![i] = codes[i]]
      BY <2>1, <3>2
    <3>4. PICK w \in OtpRow : w = codes[i]
      BY <1>5
    <3>5. codes' = [codes EXCEPT ![i] = w] /\ w.used = codes[i].used /\ w.attempts = codes[i].attempts
      BY <3>3, <3>4
    <3>6. CASE codes[i].used /\ UNCHANGED unbumped
      <4>1. \A j \in 1..MaxCodes : unbumped'[j] = IF j = i THEN unbumped[j] + 0 ELSE unbumped[j]
        BY <2>0, <3>6
      <4>2. QED
        BY <2>0, <3>5, <3>6, <4>1
    <3>7. CASE unbumped' = [unbumped EXCEPT ![i] = unbumped[i] + 1]
      <4>1. /\ unbumped' \in [1..MaxCodes -> Nat]
            /\ \A j \in 1..MaxCodes : unbumped'[j] = IF j = i THEN unbumped[j] + 1 ELSE unbumped[j]
        BY <2>0, <3>7
      <4>2. QED
        BY <1>5, <3>5, <4>1
    <3>8. ~codes[i].used /\ codes' = [codes EXCEPT ![i].attempts = codes[i].attempts + 1] => FALSE
      <4>1. codes[i].attempts # codes[i].attempts + 1
        BY <1>5
      <4>2. [codes EXCEPT ![i].attempts = codes[i].attempts + 1][i].attempts = codes[i].attempts + 1
        BY <1>3, <1>5, <3>1 DEF OtpRow
      <4>3. QED
        BY <2>1, <4>1, <4>2
    <3>9. QED
      BY <1>3, <3>6, <3>7, <3>8
  <2>2. CASE /\ ~codes[i].used /\ UNCHANGED unbumped
             /\ codes' = [codes EXCEPT ![i].attempts = codes[i].attempts + 1]
    <3>1. PICK c \in OtpRow : c = codes[i]
      BY <1>5
    <3>2. PICK n \in Nat : n = c.attempts + 1
      BY <1>5, <3>1
    <3>3. PICK w \in OtpRow : w = [c EXCEPT !.attempts = n]
      BY DEF OtpRow
    <3>4. w.used = codes[i].used /\ w.attempts = codes[i].attempts + 1
      BY <3>1, <3>2, <3>3 DEF OtpRow
    <3>5. codes' = [codes EXCEPT ![i] = w]
      BY <2>2, <3>1, <3>2, <3>3
    <3>6. \A j \in 1..MaxCodes : unbumped'[j] = IF j = i THEN unbumped[j] + 0 ELSE unbumped[j]
      BY <2>0, <2>2
    <3>7. w.attempts + 0 = codes[i].attempts + 1
      BY <1>5, <3>4
    <3>8. QED
      BY <2>0, <2>2, <3>4, <3>5, <3>6, <3>7
  <2>3. QED
    BY <1>3, <2>1, <2>2
<1>7. /\ codes' \in Seq(OtpRow) /\ Len(codes') = Len(codes)
      /\ \A j \in DOMAIN codes : codes'[j] = IF j = i THEN w ELSE codes[j]
  BY <1>3, <1>6, RowWritten
<1>8. ASSUME NEW j \in DOMAIN codes PROVE RowMoves(r, q, j)
  <2>1. /\ codes[j].attempts \in Nat /\ wrongs[j] \in Nat /\ granted' = granted /\ wrongs' = wrongs
        /\ (Bumping(r, j) <=> i = j) /\ ~Comparing(r, j) /\ unbumped[j] \in Nat
        /\ unbumped'[j] = IF j = i THEN unbumped[j] + u ELSE unbumped[j]
    BY <1>1, <1>2, <1>3, <1>6, RowsThere DEF Bumping, Comparing
  <2>2. CASE j = i
    <3>1. codes'[j] = w /\ w.attempts \in Nat
      BY <1>7, <2>2 DEF OtpRow
    <3>2. unbumped'[j] = unbumped[j] + u /\ unbumped'[j] >= unbumped[j]
      BY <1>6, <2>1, <2>2
    <3>3. ~w.used => /\ ~codes[j].used
                     /\ wrongs[j] + codes[j].attempts + unbumped[j] + 1
                          = wrongs[j] + w.attempts + unbumped'[j] + 0
      BY <1>6, <2>1, <2>2, <3>1, <3>2
    <3>4. QED
      BY <1>4, <1>6, <2>1, <2>2, <3>1, <3>2, <3>3 DEF RowMoves
  <2>3. CASE j # i
    <3>1. codes'[j] = codes[j]
      BY <1>7, <2>3
    <3>2. QED
      BY <1>4, <2>1, <2>3, <3>1 DEF RowMoves
  <2>4. QED
    BY <2>2, <2>3
<1>9. \A j \in 1..MaxCodes : j \notin DOMAIN codes => unbumped'[j] = unbumped[j]
  BY <1>3, <1>6
<1>10. QED
  BY <1>3, <1>4, <1>6, <1>7, <1>8, <1>9, VerifyStep DEF OtpTypes

\* Every step of the codes.
LEMMA OtpStep == OtpInv /\ [O!OtpNext]_otpVars => OtpInv'
<1> SUFFICES ASSUME OtpInv, [O!OtpNext]_otpVars PROVE OtpInv'
  OBVIOUS
<1>1. CASE UNCHANGED otpVars
  BY <1>1, RowsKept DEF otpVars, OtpInv, OtpTypes
<1>2. ASSUME NEW s \in Senders, O!Send(s) PROVE OtpInv'
  <2>1. /\ UNCHANGED <<verify, wrongs, unbumped, granted>> /\ sentToday' \in Nat
        /\ \E x \in {"idle", "sending", "storing", "recording"} : sender' = [sender EXCEPT ![s] = x]
        /\ UNCHANGED codes \/ (O!Stored /\ UNCHANGED sentToday)
    BY <1>2 DEF O!Send, O!RequestCode, O!SendFails, O!SendCode, O!CreateOTP, O!CreateFails,
                O!RecordSend, OtpInv, OtpTypes
  <2>2. sender' \in [Senders -> {"idle", "sending", "storing", "recording"}]
    BY <2>1 DEF OtpInv, OtpTypes
  <2>3. CASE UNCHANGED codes
    BY <2>1, <2>2, <2>3, RowsKept DEF OtpInv, OtpTypes
  <2>4. CASE O!Stored /\ UNCHANGED sentToday
    BY <2>1, <2>2, <2>4, StoredStep
  <2>5. QED
    BY <2>1, <2>3, <2>4
<1>3. ASSUME NEW i \in DOMAIN codes, O!Cool(i) PROVE OtpInv'
  BY <1>3, CoolStep
<1>4. ASSUME NEW r \in Reqs, O!Consume(r) PROVE OtpInv'
  BY <1>4, LatestStep, CompareStep, BumpStep, UseStep DEF O!Consume
<1>5. QED
  BY <1>1, <1>2, <1>3, <1>4 DEF O!OtpNext

\* Before the first code.
LEMMA OtpStart == O!OtpInit => OtpInv
<1> SUFFICES ASSUME O!OtpInit PROVE OtpInv
  OBVIOUS
<1>1. codes \in Seq(OtpRow) /\ Len(codes) = 0 /\ DOMAIN codes = {}
  <2>1. codes = <<>>
    BY DEF O!OtpInit
  <2>2. QED
    BY <2>1, EmptySeq
<1>2. O!Resting \in OtpReq /\ O!Resting.pc = "idle"
  BY DEF O!Resting, OtpReq
<1>3. QED
  BY <1>1, <1>2, OtpAssumption DEF O!OtpInit, OtpInv, OtpTypes

\* What the invariant says of the requests that race.
LEMMA CodesFollow == OtpInv => O!OtpTypeOK /\ O!CodeSpentOnce
<1> SUFFICES ASSUME OtpInv PROVE O!OtpTypeOK /\ O!CodeSpentOnce
  OBVIOUS
<1>1. O!OtpTypeOK
  BY RowsThere DEF OtpInv, OtpTypes, OtpRow, OtpReq, O!OtpTypeOK
<1>2. ASSUME NEW i \in DOMAIN codes
      PROVE  granted[i] <= 1 /\ wrongs[i] <= MaxAttempts + Cardinality(Reqs) - 1 + unbumped[i]
  <2>1. /\ granted[i] = 0 \/ granted[i] = 1
        /\ wrongs[i] + Cardinality(Compares(i)) <= MaxAttempts - 1 + Cardinality(Reqs) + unbumped[i]
    BY DEF OtpInv, RowHolds
  <2>2. Compares(i) \subseteq Reqs
    BY DEF Compares
  <2>3. Cardinality(Compares(i)) \in Nat /\ Cardinality(Reqs) \in Nat
    BY <2>2, ReqsAssumption, FS_Subset, FS_CardinalityType
  <2>4. wrongs[i] \in Nat /\ MaxAttempts \in Nat /\ unbumped[i] \in Nat
    BY RowsThere DEF OtpInv
  <2>5. QED
    BY <2>1, <2>3, <2>4
<1>3. O!Cardinality(Reqs) = Cardinality(Reqs)
  BY Zenon DEF O!Cardinality, Cardinality
<1>4. QED
  BY <1>1, <1>2, <1>3 DEF O!CodeSpentOnce

-----------------------------------------------------------------------------
(* Accounts.                                                               *)

AccountRow == [birth : Nat, off : BOOLEAN, pw : Nat, boot : {"no", "signup", "phone", "sso"}]
AccountReq ==
  [kind : {"none", "signup", "phone", "sso", "login", "auth", "password"},
   pc : {"idle", "insert", "link", "issue", "extend", "set"},
   id : A!Ids, birth : Nat, first : BOOLEAN, tok : Nat]
AccountToken == [id : 1..MaxTokens, owner : A!Ids, left : 0..Life]

AccountTypes ==
  /\ user \in [A!Ids -> AccountRow] /\ link \in Nat /\ births \in Nat /\ issued \in 0..MaxTokens
  /\ cut \in [A!Ids -> Nat] /\ req \in [Reqs -> AccountReq] /\ bootstrap \in BOOLEAN
  /\ {bootLock, ssoLock} \subseteq Reqs \cup {"free"}

\* Tokens were issued, after the last revocation of their account, which is there.
TokensStand ==
  /\ \A t \in tokens :
       /\ t \in AccountToken /\ t.id <= issued
       /\ t.id > cut[t.owner] /\ A!Here(t.owner)
  /\ \A i \in A!Ids : cut[i] <= issued

\* A request that will write a token or a link knows the account it read.
BirthsKnown == \A r \in Reqs : req[r].pc \in {"issue", "link"} => req[r].birth > 0

\* An account made administrator by the bootstrap, and a request that may make one.
Booted(i) == user[i].boot \in {"signup", "phone"}
Creating(r) == req[r].pc = "insert" /\ req[r].kind \in {"signup", "phone"}

\* With the bootstrap on, creating holds the lock, and who found the table empty still
\* finds no bootstrap administrator.
BootOrder ==
  /\ \A i \in A!Ids : ~A!Here(i) => user[i].boot = "no"
  /\ \A r \in Reqs : Creating(r) /\ bootstrap => bootLock = r
  /\ \A r \in Reqs : Creating(r) /\ req[r].first => bootstrap /\ \A i \in A!Ids : ~Booted(i)
  /\ ~(Booted(Mail) /\ Booted(Phone))

\* The inductive invariant of the accounts.
AccountInv == AccountTypes /\ TokensStand /\ BirthsKnown /\ BootOrder

\* A request takes its next step.
LEMMA RequestSet ==
  ASSUME AccountInv, NEW r \in Reqs, NEW q \in AccountReq, req' = [req EXCEPT ![r] = q],
         q.pc \in {"issue", "link"} => q.birth > 0
  PROVE  /\ req' \in [Reqs -> AccountReq] /\ req'[r] = q /\ BirthsKnown'
         /\ \A x \in Reqs : x # r => req'[x] = req[x]
<1>1. req' \in [Reqs -> AccountReq] /\ \A x \in Reqs : req'[x] = IF x = r THEN q ELSE req[x]
  BY DEF AccountInv, AccountTypes
<1>2. QED
  BY <1>1 DEF AccountInv, BirthsKnown

\* A request ends.
LEMMA RequestFreed ==
  ASSUME AccountInv, NEW r \in Reqs, A!Free(r)
  PROVE  /\ req' \in [Reqs -> AccountReq] /\ BirthsKnown' /\ ~Creating(r)'
         /\ \A x \in Reqs : x # r => req'[x] = req[x]
<1>1. A!Idle \in AccountReq /\ A!Idle.pc = "idle"
  BY DEF A!Idle, AccountReq, A!Ids
<1>2. PICK q \in AccountReq : q = A!Idle
  BY <1>1
<1>3. req' = [req EXCEPT ![r] = q] /\ q.pc = "idle"
  BY <1>1, <1>2 DEF A!Free
<1>4. /\ req' \in [Reqs -> AccountReq] /\ req'[r] = q /\ BirthsKnown'
      /\ \A x \in Reqs : x # r => req'[x] = req[x]
  BY <1>3, RequestSet
<1>5. QED
  BY <1>3, <1>4 DEF Creating

\* No new creation and no new bootstrap administrator.
LEMMA BootsKept ==
  ASSUME AccountInv, UNCHANGED <<bootLock, bootstrap>>,
         \A x \in Reqs : Creating(x)' => Creating(x) /\ req'[x] = req[x],
         \A i \in A!Ids : Booted(i)' => Booted(i),
         \A i \in A!Ids : ~A!Here(i)' => user'[i].boot = "no"
  PROVE  BootOrder'
<1>1. Mail \in A!Ids /\ Phone \in A!Ids
  BY DEF A!Ids
<1>2. ~(Booted(Mail)' /\ Booted(Phone)')
  BY <1>1 DEF AccountInv, BootOrder
<1>3. \A r \in Reqs : Creating(r)' /\ bootstrap' => bootLock' = r
  BY DEF AccountInv, BootOrder
<1>4. \A r \in Reqs : Creating(r)' /\ req'[r].first =>
        bootstrap' /\ \A i \in A!Ids : ~Booted(i)'
  BY DEF AccountInv, BootOrder
<1>5. QED
  BY <1>2, <1>3, <1>4 DEF BootOrder

\* Tokens are dropped or aged; those of a revoked account are gone.
LEMMA TokensKept ==
  ASSUME AccountInv, UNCHANGED issued,
         \A i \in A!Ids : cut'[i] \in {cut[i], issued},
         \A t \in tokens' : \E s \in tokens :
           /\ t \in AccountToken /\ t.id = s.id /\ t.owner = s.owner
           /\ cut'[s.owner] = cut[s.owner] /\ A!Here(s.owner)'
  PROVE  TokensStand'
<1>1. ASSUME NEW t \in tokens'
      PROVE  /\ t \in AccountToken /\ t.id <= issued'
             /\ t.id > cut'[t.owner] /\ A!Here(t.owner)'
  <2>1. PICK s \in tokens : /\ t \in AccountToken /\ t.id = s.id /\ t.owner = s.owner
                            /\ cut'[s.owner] = cut[s.owner] /\ A!Here(s.owner)'
    OBVIOUS
  <2>2. s.id <= issued /\ s.id > cut[s.owner]
    BY DEF AccountInv, TokensStand
  <2>3. QED
    BY <2>1, <2>2
<1>2. \A i \in A!Ids : cut'[i] <= issued'
  <2>1. issued \in Nat
    BY AccountsAssumption DEF AccountInv, AccountTypes
  <2>2. QED
    BY <2>1 DEF AccountInv, TokensStand
<1>3. QED
  BY <1>1, <1>2 DEF TokensStand

\* With nobody in the table there is no bootstrap administrator.
LEMMA EmptyTable ==
  ASSUME AccountInv, A!CountUsers = 0
  PROVE  \A i \in A!Ids : ~Booted(i)
<1>1. {i \in A!Ids : A!Here(i)} = {}
  <2>1. IsFiniteSet(A!Ids)
    <3>1. A!Ids = {Mail} \cup {Phone}
      BY DEF A!Ids
    <3>2. QED
      BY <3>1, FS_Singleton, FS_Union
  <2>2. IsFiniteSet({i \in A!Ids : A!Here(i)})
    BY <2>1, FS_Subset
  <2>3. \A D : A!Cardinality(D) = Cardinality(D)
    BY Zenon DEF A!Cardinality, Cardinality
  <2>4. Cardinality({i \in A!Ids : A!Here(i)}) = 0
    BY <2>3 DEF A!CountUsers
  <2>5. QED
    BY <2>2, <2>4, FS_EmptySet
<1>2. QED
  BY <1>1 DEF AccountInv, BootOrder, Booted

\* A step that leaves the accounts and the creations alone.
LEMMA QuietTable ==
  ASSUME AccountInv, UNCHANGED <<user, bootLock, bootstrap>>,
         \A x \in Reqs : Creating(x)' => Creating(x) /\ req'[x] = req[x]
  PROVE  BootOrder'
<1>1. \A i \in A!Ids : Booted(i)' => Booted(i)
  BY DEF Booted
<1>2. \A i \in A!Ids : ~A!Here(i)' => user'[i].boot = "no"
  BY DEF AccountInv, BootOrder, A!Here
<1>3. QED
  BY <1>1, <1>2, BootsKept

\* A request reads: the accounts and the tokens stay.
LEMMA ReadStep ==
  ASSUME AccountInv, NEW r \in Reqs, NEW q \in AccountReq, req' = [req EXCEPT ![r] = q],
         q.pc \in {"issue", "link"} => q.birth > 0, q.pc # "insert" \/ q.kind = "sso",
         UNCHANGED <<user, link, tokens, bootLock, bootstrap, issued, births, cut>>,
         ssoLock' \in Reqs \cup {"free"}
  PROVE  AccountInv'
<1>1. /\ req' \in [Reqs -> AccountReq] /\ req'[r] = q /\ BirthsKnown'
      /\ \A x \in Reqs : x # r => req'[x] = req[x]
  BY RequestSet
<1>2. \A x \in Reqs : Creating(x)' => Creating(x) /\ req'[x] = req[x]
  BY <1>1 DEF Creating
<1>3. BootOrder'
  BY <1>2, QuietTable
<1>4. TokensStand'
  BY DEF AccountInv, TokensStand, A!Here
<1>5. QED
  BY <1>1, <1>3, <1>4 DEF AccountInv, AccountTypes

\* Tokens are deleted, or grow old and are swept.
LEMMA TokenSteps ==
  ASSUME AccountInv, A!DeleteTokens \/ A!Age \/ A!SweepExpired
  PROVE  AccountInv'
<1>1. UNCHANGED <<user, link, req, bootLock, ssoLock, bootstrap, issued, births, changes, cut>>
  BY DEF A!DeleteTokens, A!Age, A!SweepExpired
<1>2. BootOrder'
  BY <1>1, QuietTable DEF Creating
<1>3. \A t \in tokens' : \E s \in tokens : t \in AccountToken /\ t.id = s.id /\ t.owner = s.owner
  <2>1. CASE tokens' \subseteq tokens
    BY <2>1 DEF AccountInv, TokensStand
  <2>2. CASE A!Age
    <3>1. tokens' = {[s EXCEPT !.left = IF s.left > 0 THEN s.left - 1 ELSE 0] : s \in tokens}
      BY <2>2 DEF A!Age
    <3>2. ASSUME NEW t \in tokens'
          PROVE  \E s \in tokens : t \in AccountToken /\ t.id = s.id /\ t.owner = s.owner
      <4>1. PICK s \in tokens : t = [s EXCEPT !.left = IF s.left > 0 THEN s.left - 1 ELSE 0]
        BY <3>1
      <4>2. PICK u \in AccountToken : u = s
        BY DEF AccountInv, TokensStand
      <4>3. PICK l \in 0..Life : l = IF u.left > 0 THEN u.left - 1 ELSE 0
        BY AccountsAssumption DEF AccountToken
      <4>4. t = [u EXCEPT !.left = l]
        BY <4>1, <4>2, <4>3
      <4>5. t \in AccountToken /\ t.id = u.id /\ t.owner = u.owner
        BY <4>4 DEF AccountToken
      <4>6. QED
        BY <4>2, <4>5
    <3>3. QED
      BY <3>2
  <2>3. QED
    BY <2>1, <2>2 DEF A!DeleteTokens, A!SweepExpired
<1>4. TokensStand'
  <2>1. ASSUME NEW t \in tokens'
        PROVE  \E s \in tokens : /\ t \in AccountToken /\ t.id = s.id /\ t.owner = s.owner
                                 /\ cut'[s.owner] = cut[s.owner] /\ A!Here(s.owner)'
    <3>1. PICK s \in tokens : t \in AccountToken /\ t.id = s.id /\ t.owner = s.owner
      BY <1>3
    <3>2. A!Here(s.owner)'
      BY <1>1 DEF AccountInv, TokensStand, A!Here
    <3>3. QED
      BY <1>1, <3>1, <3>2
  <2>2. QED
    BY <1>1, <2>1, TokensKept
<1>5. QED
  BY <1>1, <1>2, <1>4 DEF AccountInv, AccountTypes, BirthsKnown

\* A renewal slides a token that is there.
LEMMA ExtendStep ==
  ASSUME AccountInv, NEW r \in Reqs, A!ExtendToken(r)
  PROVE  AccountInv'
<1>1. /\ UNCHANGED <<user, link, bootLock, ssoLock, bootstrap, issued, births, changes, cut>>
      /\ A!Free(r) /\ tokens' = A!Extended(r)
  BY DEF A!ExtendToken
<1>2. /\ req' \in [Reqs -> AccountReq] /\ BirthsKnown' /\ ~Creating(r)'
      /\ \A x \in Reqs : x # r => req'[x] = req[x]
  BY <1>1, RequestFreed
<1>3. BootOrder'
  BY <1>1, <1>2, QuietTable DEF Creating
<1>4. ASSUME NEW t \in tokens'
      PROVE  \E s \in tokens : /\ t \in AccountToken /\ t.id = s.id /\ t.owner = s.owner
                               /\ cut'[s.owner] = cut[s.owner] /\ A!Here(s.owner)'
  <2>1. PICK s \in tokens : t = IF s.id = req[r].tok THEN [s EXCEPT !.left = Life] ELSE s
    BY <1>1 DEF A!Extended
  <2>2. PICK u \in AccountToken : u = s
    BY DEF AccountInv, TokensStand
  <2>3. Life \in 0..Life
    BY AccountsAssumption
  <2>4. [u EXCEPT !.left = Life] \in AccountToken
        /\ [u EXCEPT !.left = Life].id = u.id /\ [u EXCEPT !.left = Life].owner = u.owner
    BY <2>3 DEF AccountToken
  <2>5. t \in AccountToken /\ t.id = s.id /\ t.owner = s.owner
    BY <2>1, <2>2, <2>4
  <2>6. A!Here(s.owner)'
    BY <1>1 DEF AccountInv, TokensStand, A!Here
  <2>7. QED
    BY <1>1, <2>5, <2>6
<1>5. TokensStand'
  BY <1>1, <1>4, TokensKept
<1>6. QED
  BY <1>1, <1>2, <1>3, <1>5 DEF AccountInv, AccountTypes

\* A token is issued for an account that is still the one that signed in.
LEMMA IssueStep ==
  ASSUME AccountInv, NEW r \in Reqs, A!IssueToken(r)
  PROVE  AccountInv'
<1>1. PICK q \in AccountReq : q = req[r]
  BY DEF AccountInv, AccountTypes
<1>2. /\ UNCHANGED <<user, link, bootLock, ssoLock, bootstrap, births, changes, cut>>
      /\ A!Free(r) /\ q.pc = "issue" /\ issued < MaxTokens
      /\ IF user[q.id].birth = q.birth
         THEN /\ tokens' = tokens \cup {[id |-> issued + 1, owner |-> q.id, left |-> Life]}
              /\ issued' = issued + 1
         ELSE UNCHANGED <<tokens, issued>>
  BY <1>1 DEF A!IssueToken
<1>3. /\ req' \in [Reqs -> AccountReq] /\ BirthsKnown' /\ ~Creating(r)'
      /\ \A x \in Reqs : x # r => req'[x] = req[x]
  BY <1>2, RequestFreed
<1>4. BootOrder'
  BY <1>2, <1>3, QuietTable DEF Creating
<1>5. issued \in Nat /\ MaxTokens \in Nat /\ Life \in 0..Life /\ q.id \in A!Ids /\ q.birth \in Nat
  BY AccountsAssumption DEF AccountInv, AccountTypes, AccountReq
<1>6. \A t \in tokens : A!Here(t.owner)'
  BY <1>2 DEF AccountInv, TokensStand, A!Here
<1>7. CASE UNCHANGED <<tokens, issued>>
  <2>1. TokensStand'
    BY <1>2, <1>6, <1>7 DEF AccountInv, TokensStand
  <2>2. QED
    BY <1>2, <1>3, <1>4, <1>7, <2>1 DEF AccountInv, AccountTypes
<1>8. CASE user[q.id].birth = q.birth
  <2>1. PICK n \in 1..MaxTokens : n = issued + 1
    BY <1>2, <1>5
  <2>2. PICK k \in AccountToken : k = [id |-> n, owner |-> q.id, left |-> Life]
    BY <1>5 DEF AccountToken
  <2>3. k.id = n /\ k.owner = q.id /\ tokens' = tokens \cup {k} /\ issued' = n
    BY <1>2, <1>8, <2>1, <2>2
  <2>4. k.id > cut'[k.owner] /\ k.id <= issued' /\ A!Here(k.owner)'
    <3>1. cut[q.id] <= issued /\ cut[q.id] \in Nat
      BY <1>5 DEF AccountInv, TokensStand, AccountTypes
    <3>2. user'[q.id].birth > 0
      BY <1>1, <1>2, <1>8 DEF AccountInv, BirthsKnown
    <3>3. QED
      BY <1>2, <1>5, <2>1, <2>3, <3>1, <3>2 DEF A!Here
  <2>5. ASSUME NEW t \in tokens
        PROVE  t \in AccountToken /\ t.id <= issued' /\ t.id > cut'[t.owner]
    <3>1. t \in AccountToken /\ t.id <= issued /\ t.id > cut[t.owner]
      BY DEF AccountInv, TokensStand
    <3>2. t.id \in Nat
      BY <3>1 DEF AccountToken
    <3>3. QED
      BY <1>2, <1>5, <2>1, <2>3, <3>1, <3>2
  <2>6. \A i \in A!Ids : cut'[i] <= issued'
    <3>1. \A i \in A!Ids : cut[i] <= issued /\ cut[i] \in Nat
      BY DEF AccountInv, TokensStand, AccountTypes
    <3>2. QED
      BY <1>2, <1>5, <2>1, <2>3, <3>1
  <2>7. TokensStand'
    BY <1>6, <2>3, <2>4, <2>5, <2>6 DEF TokensStand
  <2>8. issued' \in 0..MaxTokens
    BY <1>5, <2>1, <2>3
  <2>9. QED
    BY <1>2, <1>3, <1>4, <2>7, <2>8 DEF AccountInv, AccountTypes
<1>9. QED
  BY <1>2, <1>7, <1>8

\* Sign-ins, authenticated requests and the reads of a password change.
LEMMA ReadSteps ==
  ASSUME AccountInv, NEW r \in Reqs,
         (\E i \in A!Ids : A!SignIn(r, i)) \/ A!Authenticate(r) \/ A!ReadForPassword(r)
  PROVE  AccountInv'
<1>1. /\ UNCHANGED <<user, link, tokens, bootLock, ssoLock, bootstrap, issued, births, cut>>
      /\ ssoLock' \in Reqs \cup {"free"}
  BY DEF A!SignIn, A!Authenticate, A!ReadForPassword, AccountInv, AccountTypes
<1>2. A!Idle \in AccountReq
  BY DEF A!Idle, AccountReq, A!Ids
<1>3. ASSUME NEW i \in A!Ids, A!SignIn(r, i) PROVE AccountInv'
  <2>1. PICK b \in Nat : b = user[i].birth /\ b > 0
    BY <1>3 DEF A!SignIn, A!Here, AccountInv, AccountTypes, AccountRow
  <2>2. PICK q : q = [A!Idle EXCEPT !.kind = "login", !.pc = "issue", !.id = i, !.birth = b]
    OBVIOUS
  <2>3. q \in AccountReq /\ q.birth = b /\ q.pc = "issue"
    BY <1>2, <2>2 DEF AccountReq
  <2>4. req' = [req EXCEPT ![r] = q]
    BY <1>3, <2>1, <2>2 DEF A!SignIn
  <2>5. QED
    BY <1>1, <2>1, <2>3, <2>4, ReadStep
<1>4. CASE A!Authenticate(r)
  <2>1. PICK t \in tokens :
          req' = [req EXCEPT ![r] = [A!Idle EXCEPT !.kind = "auth", !.pc = "extend",
                                                   !.id = t.owner, !.tok = t.id]]
    BY <1>4 DEF A!Authenticate
  <2>2. t.owner \in A!Ids /\ t.id \in Nat
    BY DEF AccountInv, TokensStand, AccountToken
  <2>3. PICK q : q = [A!Idle EXCEPT !.kind = "auth", !.pc = "extend", !.id = t.owner, !.tok = t.id]
    OBVIOUS
  <2>4. q \in AccountReq /\ q.pc = "extend"
    BY <1>2, <2>2, <2>3 DEF AccountReq
  <2>5. QED
    BY <1>1, <2>1, <2>3, <2>4, ReadStep
<1>5. CASE A!ReadForPassword(r)
  <2>1. PICK i \in A!Ids :
          req' = [req EXCEPT ![r] = [A!Idle EXCEPT !.kind = "password", !.pc = "set", !.id = i,
                                                   !.birth = user[i].birth]]
    BY <1>5 DEF A!ReadForPassword
  <2>2. user[i].birth \in Nat
    BY DEF AccountInv, AccountTypes, AccountRow
  <2>3. PICK q : q = [A!Idle EXCEPT !.kind = "password", !.pc = "set", !.id = i, !.birth = user[i].birth]
    OBVIOUS
  <2>4. q \in AccountReq /\ q.pc = "set"
    BY <1>2, <2>2, <2>3 DEF AccountReq
  <2>5. QED
    BY <1>1, <2>1, <2>3, <2>4, ReadStep
<1>6. QED
  BY <1>3, <1>4, <1>5

\* An account's row changes; unless it is the same account, still there, its tokens go.
LEMMA RowChanged ==
  ASSUME AccountInv, NEW i \in A!Ids, NEW w \in AccountRow, user' = [user EXCEPT ![i] = w],
         w.boot \in {user[i].boot, "no"}, w.birth = 0 => w.boot = "no",
         \/ tokens' = A!RevokeAll(i) /\ cut' = [cut EXCEPT ![i] = issued]
         \/ UNCHANGED <<tokens, cut>> /\ w.birth = user[i].birth,
         link' \in Nat, UNCHANGED <<bootLock, ssoLock, bootstrap, issued, births>>,
         req' \in [Reqs -> AccountReq], BirthsKnown',
         \A x \in Reqs : Creating(x)' => Creating(x) /\ req'[x] = req[x]
  PROVE  AccountInv'
<1>1. /\ user' \in [A!Ids -> AccountRow] /\ \A j \in A!Ids : user'[j] = IF j = i THEN w ELSE user[j]
  BY DEF AccountInv, AccountTypes
<1>2. issued \in Nat
  BY AccountsAssumption DEF AccountInv, AccountTypes
<1>3. BootOrder'
  <2>1. \A j \in A!Ids : Booted(j)' => Booted(j)
    BY <1>1 DEF Booted
  <2>2. ASSUME NEW j \in A!Ids, ~A!Here(j)' PROVE user'[j].boot = "no"
    <3>1. CASE j = i
      <4>1. w.birth = 0
        BY <1>1, <2>2, <3>1 DEF A!Here, AccountRow
      <4>2. QED
        BY <1>1, <3>1, <4>1
    <3>2. CASE j # i
      BY <1>1, <2>2, <3>2 DEF A!Here, AccountInv, BootOrder
    <3>3. QED
      BY <3>1, <3>2
  <2>3. QED
    BY <2>1, <2>2, BootsKept
<1>4. \A j \in A!Ids : cut'[j] \in {cut[j], issued}
  BY DEF AccountInv, AccountTypes
<1>5. cut' \in [A!Ids -> Nat]
  BY <1>2 DEF AccountInv, AccountTypes
<1>6. ASSUME NEW t \in tokens'
      PROVE  \E s \in tokens : /\ t \in AccountToken /\ t.id = s.id /\ t.owner = s.owner
                               /\ cut'[s.owner] = cut[s.owner] /\ A!Here(s.owner)'
  <2>1. t \in tokens
    BY <1>6 DEF A!RevokeAll
  <2>2. t \in AccountToken /\ t.owner \in A!Ids /\ A!Here(t.owner)
    BY <2>1 DEF AccountInv, TokensStand, AccountToken
  <2>3. CASE tokens' = A!RevokeAll(i) /\ cut' = [cut EXCEPT ![i] = issued]
    <3>1. t.owner # i
      BY <1>6, <2>3 DEF A!RevokeAll
    <3>2. cut'[t.owner] = cut[t.owner] /\ A!Here(t.owner)'
      BY <1>1, <2>2, <2>3, <3>1 DEF A!Here, AccountInv, AccountTypes
    <3>3. QED
      BY <2>1, <2>2, <3>2
  <2>4. CASE UNCHANGED <<tokens, cut>> /\ w.birth = user[i].birth
    <3>1. A!Here(t.owner)'
      BY <1>1, <2>2, <2>4 DEF A!Here
    <3>2. QED
      BY <2>1, <2>2, <2>4, <3>1
  <2>5. QED
    BY <2>3, <2>4
<1>7. TokensStand'
  BY <1>4, <1>6, TokensKept
<1>8. QED
  BY <1>1, <1>3, <1>5, <1>7 DEF AccountInv, AccountTypes

\* The password transaction.
LEMMA PasswordStored ==
  ASSUME AccountInv, NEW i \in A!Ids, A!StorePassword(i),
         UNCHANGED <<link, bootLock, ssoLock, bootstrap, issued, births>>,
         req' \in [Reqs -> AccountReq], BirthsKnown',
         \A x \in Reqs : Creating(x)' => Creating(x) /\ req'[x] = req[x]
  PROVE  AccountInv'
<1>1. PICK u \in AccountRow : u = user[i]
  BY DEF AccountInv, AccountTypes
<1>2. PICK w \in AccountRow : w = [u EXCEPT !.pw = 1]
  BY DEF AccountRow
<1>3. w.birth = u.birth /\ w.boot = u.boot
  BY <1>2 DEF AccountRow
<1>4. user' = [user EXCEPT ![i] = w]
  BY <1>1, <1>2 DEF A!StorePassword
<1>5. u.birth = 0 => u.boot = "no"
  BY <1>1 DEF AccountInv, BootOrder, A!Here
<1>6. tokens' = A!RevokeAll(i) /\ cut' = [cut EXCEPT ![i] = issued] /\ link' \in Nat
  BY DEF A!StorePassword, AccountInv, AccountTypes
<1>7. QED
  BY <1>1, <1>3, <1>4, <1>5, <1>6, RowChanged

\* What an administrator does to an account, and the password a request sets.
LEMMA AdminSteps ==
  ASSUME AccountInv,
         \/ \E i \in A!Ids : A!DeleteUser(i) \/ A!ResetPassword(i) \/ \E off \in BOOLEAN : A!SetUserDisabled(i, off)
         \/ \E r \in Reqs : A!SetPassword(r)
  PROVE  AccountInv'
<1>1. ASSUME NEW i \in A!Ids, UNCHANGED req
      PROVE  /\ req' \in [Reqs -> AccountReq] /\ BirthsKnown'
             /\ \A x \in Reqs : Creating(x)' => Creating(x) /\ req'[x] = req[x]
  BY <1>1 DEF AccountInv, AccountTypes, BirthsKnown, Creating
<1>2. ASSUME NEW i \in A!Ids, A!DeleteUser(i) PROVE AccountInv'
  <2>1. PICK w \in AccountRow : w = A!Absent /\ w.birth = 0 /\ w.boot = "no"
    <3>1. A!Absent \in AccountRow /\ A!Absent.birth = 0 /\ A!Absent.boot = "no"
      BY DEF A!Absent, AccountRow
    <3>2. QED
      BY <3>1
  <2>2. /\ user' = [user EXCEPT ![i] = w] /\ tokens' = A!RevokeAll(i)
        /\ cut' = [cut EXCEPT ![i] = issued] /\ link' \in Nat
        /\ UNCHANGED <<req, bootLock, ssoLock, bootstrap, issued, births>>
    BY <1>2, <2>1 DEF A!DeleteUser, AccountInv, AccountTypes
  <2>3. QED
    BY <1>1, <2>1, <2>2, RowChanged
<1>3. ASSUME NEW i \in A!Ids, A!ResetPassword(i) PROVE AccountInv'
  BY <1>1, <1>3, PasswordStored DEF A!ResetPassword
<1>4. ASSUME NEW i \in A!Ids, NEW off \in BOOLEAN, A!SetUserDisabled(i, off) PROVE AccountInv'
  <2>1. PICK u \in AccountRow : u = user[i]
    BY DEF AccountInv, AccountTypes
  <2>2. PICK w \in AccountRow : w = [u EXCEPT !.off = off]
    BY DEF AccountRow
  <2>3. w.birth = u.birth /\ w.boot = u.boot
    BY <2>2 DEF AccountRow
  <2>4. /\ user' = [user EXCEPT ![i] = w] /\ link' \in Nat
        /\ UNCHANGED <<req, bootLock, ssoLock, bootstrap, issued, births>>
        /\ \/ tokens' = A!RevokeAll(i) /\ cut' = [cut EXCEPT ![i] = issued]
           \/ UNCHANGED <<tokens, cut>>
    BY <1>4, <2>1, <2>2 DEF A!SetUserDisabled, AccountInv, AccountTypes
  <2>5. u.birth = 0 => u.boot = "no"
    BY <2>1 DEF AccountInv, BootOrder, A!Here
  <2>6. QED
    BY <1>1, <2>1, <2>3, <2>4, <2>5, RowChanged
<1>5. ASSUME NEW r \in Reqs, A!SetPassword(r) PROVE AccountInv'
  <2>1. PICK i \in A!Ids : i = req[r].id
    BY DEF AccountInv, AccountTypes, AccountReq
  <2>2. /\ UNCHANGED <<link, bootLock, ssoLock, bootstrap, issued, births>> /\ A!Free(r)
        /\ A!StorePassword(i) \/ UNCHANGED <<user, tokens, cut>>
    BY <1>5, <2>1 DEF A!SetPassword
  <2>3. /\ req' \in [Reqs -> AccountReq] /\ BirthsKnown'
        /\ \A x \in Reqs : Creating(x)' => Creating(x) /\ req'[x] = req[x]
    BY <2>2, RequestFreed DEF Creating
  <2>4. CASE A!StorePassword(i)
    BY <2>2, <2>3, <2>4, PasswordStored
  <2>5. CASE UNCHANGED <<user, tokens, cut>>
    <3>1. BootOrder'
      BY <2>2, <2>3, <2>5, QuietTable
    <3>2. TokensStand'
      BY <2>2, <2>5 DEF AccountInv, TokensStand, A!Here
    <3>3. QED
      BY <2>2, <2>3, <2>5, <3>1, <3>2 DEF AccountInv, AccountTypes
  <2>6. QED
    BY <2>2, <2>4, <2>5
<1>6. QED
  BY <1>2, <1>3, <1>4, <1>5

\* A row for an account that was not there.
LEMMA RowAdded ==
  ASSUME AccountInv, NEW i \in A!Ids, ~A!Here(i), NEW w \in AccountRow, w.birth > 0,
         user' = [user EXCEPT ![i] = w], UNCHANGED <<tokens, cut, issued>>
  PROVE  /\ user' \in [A!Ids -> AccountRow] /\ \A j \in A!Ids : user'[j] = IF j = i THEN w ELSE user[j]
         /\ TokensStand'
<1>1. user' \in [A!Ids -> AccountRow] /\ \A j \in A!Ids : user'[j] = IF j = i THEN w ELSE user[j]
  BY DEF AccountInv, AccountTypes
<1>2. ASSUME NEW t \in tokens
      PROVE  t \in AccountToken /\ t.id <= issued' /\ t.id > cut'[t.owner] /\ A!Here(t.owner)'
  <2>1. t \in AccountToken /\ t.id <= issued /\ t.id > cut[t.owner] /\ A!Here(t.owner)
    BY DEF AccountInv, TokensStand
  <2>2. t.owner \in A!Ids /\ t.owner # i
    BY <2>1 DEF AccountToken
  <2>3. QED
    BY <1>1, <2>1, <2>2 DEF A!Here
<1>3. QED
  BY <1>1, <1>2 DEF AccountInv, TokensStand

\* A sign-up begins: with the bootstrap on, nobody else is creating.
LEMMA BeginCreateStep ==
  ASSUME AccountInv, NEW r \in Reqs, NEW kind \in {"signup", "phone"}, A!BeginCreate(r, kind)
  PROVE  AccountInv'
<1>1. PICK f \in BOOLEAN : f = (bootstrap /\ A!CountUsers = 0)
  OBVIOUS
<1>2. PICK i \in A!Ids : i = IF kind = "phone" THEN Phone ELSE Mail
  BY DEF A!Ids
<1>3. PICK q : q = [A!Idle EXCEPT !.kind = kind, !.pc = "insert", !.id = i, !.first = f]
  OBVIOUS
<1>4. q \in AccountReq /\ q.pc = "insert" /\ q.first = f /\ q.kind = kind
  BY <1>3 DEF A!Idle, AccountReq, A!Ids
<1>5. /\ UNCHANGED <<user, link, tokens, ssoLock, bootstrap, issued, births, changes, cut>>
      /\ req' = [req EXCEPT ![r] = q]
      /\ bootstrap => bootLock = "free"
      /\ bootLock' = IF bootstrap THEN r ELSE bootLock
  BY <1>1, <1>2, <1>3 DEF A!BeginCreate, A!TakesBootLock
<1>6. /\ req' \in [Reqs -> AccountReq] /\ req'[r] = q /\ BirthsKnown'
      /\ \A x \in Reqs : x # r => req'[x] = req[x]
  BY <1>4, <1>5, RequestSet
<1>7. \A x \in Reqs : x # r /\ Creating(x) => ~bootstrap
  BY <1>5, ReqsAssumption DEF AccountInv, BootOrder
<1>8. BootOrder'
  <2>1. \A x \in Reqs : x # r => (Creating(x)' <=> Creating(x)) /\ req'[x].first = req[x].first
    BY <1>6 DEF Creating
  <2>2. \A j \in A!Ids : Booted(j)' <=> Booted(j)
    BY <1>5 DEF Booted
  <2>3. \A x \in Reqs : Creating(x)' /\ bootstrap' => bootLock' = x
    BY <1>5, <1>7, <2>1
  <2>4. ASSUME NEW x \in Reqs, Creating(x)', req'[x].first
        PROVE  bootstrap' /\ \A j \in A!Ids : ~Booted(j)'
    <3>1. CASE x = r
      <4>1. bootstrap /\ A!CountUsers = 0
        BY <1>1, <1>4, <1>6, <2>4, <3>1
      <4>2. \A j \in A!Ids : ~Booted(j)
        BY <4>1, EmptyTable
      <4>3. QED
        BY <1>5, <2>2, <4>1, <4>2
    <3>2. CASE x # r
      <4>1. Creating(x) /\ req[x].first
        BY <2>1, <2>4, <3>2
      <4>2. QED
        BY <1>7, <3>2, <4>1 DEF AccountInv, BootOrder
    <3>3. QED
      BY <3>1, <3>2
  <2>5. \A j \in A!Ids : ~A!Here(j)' => user'[j].boot = "no"
    BY <1>5 DEF A!Here, AccountInv, BootOrder
  <2>6. ~(Booted(Mail)' /\ Booted(Phone)')
    BY <1>5 DEF Booted, AccountInv, BootOrder
  <2>7. QED
    BY <2>3, <2>4, <2>5, <2>6 DEF BootOrder
<1>9. TokensStand'
  BY <1>5 DEF AccountInv, TokensStand, A!Here
<1>10. bootLock' \in Reqs \cup {"free"}
  BY <1>5 DEF AccountInv, AccountTypes
<1>11. QED
  BY <1>5, <1>6, <1>8, <1>9, <1>10 DEF AccountInv, AccountTypes

\* A sign-up inserts its account and gives the lock back: who found the table empty makes
\* the one bootstrap administrator.
LEMMA InsertStep ==
  ASSUME AccountInv, NEW r \in Reqs, A!InsertUser(r)
  PROVE  AccountInv'
<1>1. PICK q \in AccountReq : q = req[r]
  BY DEF AccountInv, AccountTypes
<1>2. /\ q.pc = "insert" /\ q.kind \in {"signup", "phone"} /\ Creating(r) /\ q.id \in A!Ids
      /\ bootLock' = IF bootLock = r THEN "free" ELSE bootLock
      /\ UNCHANGED <<link, tokens, ssoLock, bootstrap, issued, changes, cut>>
      /\ \/ A!Free(r) /\ UNCHANGED <<user, births>>
         \/ /\ ~A!Here(q.id) /\ user' = [user EXCEPT ![q.id] = A!NewUser(q.kind, q.first)]
            /\ births' = births + 1
            /\ \/ A!Free(r)
               \/ req' = [req EXCEPT ![r].pc = "issue", ![r].birth = births + 1]
  BY <1>1 DEF A!InsertUser, Creating, AccountReq
<1>3. PICK n \in Nat : n = births + 1 /\ n > 0
  BY DEF AccountInv, AccountTypes
<1>4. /\ req' \in [Reqs -> AccountReq] /\ BirthsKnown' /\ ~Creating(r)'
      /\ \A x \in Reqs : x # r => req'[x] = req[x]
  <2>1. CASE A!Free(r)
    BY <2>1, RequestFreed
  <2>2. CASE req' = [req EXCEPT ![r].pc = "issue", ![r].birth = births + 1]
    <3>1. PICK p \in AccountReq : p = [q EXCEPT !.pc = "issue", !.birth = n]
      BY DEF AccountReq
    <3>2. p.pc = "issue" /\ p.birth = n
      BY <3>1 DEF AccountReq
    <3>3. req' = [req EXCEPT ![r] = p]
      BY <1>1, <1>3, <2>2, <3>1
    <3>4. QED
      BY <1>3, <3>2, <3>3, RequestSet DEF Creating
  <2>3. QED
    BY <1>2, <2>1, <2>2
<1>5. bootLock' \in Reqs \cup {"free"}
  BY <1>2 DEF AccountInv, AccountTypes
<1>6. /\ \A x \in Reqs : Creating(x)' => x # r /\ Creating(x) /\ req'[x] = req[x]
      /\ \A x \in Reqs : Creating(x)' /\ bootstrap' => bootLock' = x
  <2>1. \A x \in Reqs : Creating(x)' => x # r /\ Creating(x) /\ req'[x] = req[x]
    BY <1>4 DEF Creating
  <2>2. \A x \in Reqs : Creating(x) /\ bootstrap => bootLock = x
    BY DEF AccountInv, BootOrder
  <2>3. QED
    BY <1>2, <2>1, <2>2
<1>7. CASE UNCHANGED <<user, births>>
  <2>1. /\ \A j \in A!Ids : (Booted(j)' <=> Booted(j)) /\ (A!Here(j)' <=> A!Here(j))
        /\ (Booted(Mail)' <=> Booted(Mail)) /\ (Booted(Phone)' <=> Booted(Phone))
    BY <1>7 DEF Booted, A!Here
  <2>2. BootOrder'
    BY <1>2, <1>6, <1>7, <2>1 DEF AccountInv, BootOrder
  <2>3. TokensStand'
    BY <1>2, <1>7 DEF AccountInv, TokensStand, A!Here
  <2>4. QED
    BY <1>2, <1>4, <1>5, <1>7, <2>2, <2>3 DEF AccountInv, AccountTypes
<1>8. CASE /\ ~A!Here(q.id) /\ user' = [user EXCEPT ![q.id] = A!NewUser(q.kind, q.first)]
           /\ births' = births + 1
  <2>1. PICK w \in AccountRow : w = A!NewUser(q.kind, q.first)
    <3>1. PICK pw \in Nat : pw = IF q.kind = "signup" THEN 1 ELSE 0
      OBVIOUS
    <3>2. PICK boot \in {"no", "signup", "phone", "sso"} : boot = IF q.first THEN q.kind ELSE "no"
      BY <1>2
    <3>3. A!NewUser(q.kind, q.first) = [birth |-> n, off |-> FALSE, pw |-> pw, boot |-> boot]
      BY <1>3, <3>1, <3>2 DEF A!NewUser
    <3>4. QED
      BY <3>3 DEF AccountRow
  <2>2. w.birth = n /\ w.boot = IF q.first THEN q.kind ELSE "no"
    BY <1>3, <2>1 DEF A!NewUser
  <2>3. user' = [user EXCEPT ![q.id] = w]
    BY <1>8, <2>1
  <2>4. /\ user' \in [A!Ids -> AccountRow] /\ \A j \in A!Ids : user'[j] = IF j = q.id THEN w ELSE user[j]
        /\ TokensStand'
    <3>1. q.id \in A!Ids /\ ~A!Here(q.id) /\ w.birth > 0
      BY <1>2, <1>3, <1>8, <2>2
    <3>2. UNCHANGED <<tokens, cut, issued>>
      BY <1>2
    <3>3. QED
      BY <2>3, <3>1, <3>2, RowAdded
  <2>5. \A j \in A!Ids : ~A!Here(j)' => user'[j].boot = "no"
    BY <1>3, <2>2, <2>4 DEF A!Here, AccountInv, BootOrder
  <2>6. Mail \in A!Ids /\ Phone \in A!Ids
    BY DEF A!Ids
  <2>7. BootOrder'
    <3>1. CASE q.first
      <4>1. bootstrap /\ \A j \in A!Ids : ~Booted(j)
        BY <1>1, <1>2, <3>1 DEF AccountInv, BootOrder
      <4>2. \A x \in Reqs : ~Creating(x)'
        BY <1>2, <1>6, <4>1 DEF AccountInv, BootOrder
      <4>3. \A j \in A!Ids : Booted(j)' => j = q.id
        BY <2>4, <4>1 DEF Booted
      <4>4. ~(Booted(Mail)' /\ Booted(Phone)')
        BY <2>6, <4>3, AccountsAssumption
      <4>5. QED
        BY <2>5, <4>2, <4>4 DEF BootOrder
    <3>2. CASE ~q.first
      <4>1. \A j \in A!Ids : Booted(j)' => Booted(j)
        BY <2>2, <2>4, <3>2 DEF Booted
      <4>2. \A x \in Reqs : Creating(x)' /\ req'[x].first =>
              bootstrap' /\ \A j \in A!Ids : ~Booted(j)'
        BY <1>2, <1>6, <4>1 DEF AccountInv, BootOrder
      <4>3. ~(Booted(Mail)' /\ Booted(Phone)')
        BY <2>6, <4>1 DEF AccountInv, BootOrder
      <4>4. QED
        BY <1>6, <2>5, <4>2, <4>3 DEF BootOrder
    <3>3. QED
      BY <3>1, <3>2
  <2>8. births' \in Nat
    BY <1>3, <1>8
  <2>9. QED
    BY <1>2, <1>4, <1>5, <2>4, <2>7, <2>8 DEF AccountInv, AccountTypes
<1>9. QED
  BY <1>2, <1>7, <1>8

\* Single sign-on reads the link or the account that holds the e-mail.
LEMMA BeginProvisionStep ==
  ASSUME AccountInv, NEW r \in Reqs, A!BeginProvision(r)
  PROVE  AccountInv'
<1>1. A!Idle \in AccountReq /\ Mail \in A!Ids
  BY DEF A!Idle, AccountReq, A!Ids
<1>2. /\ UNCHANGED <<user, link, tokens, bootLock, bootstrap, issued, births, changes, cut>>
      /\ ssoLock' \in Reqs \cup {"free"}
  BY DEF A!BeginProvision, AccountInv, AccountTypes
<1>3. CASE link > 0
  <2>1. PICK i \in A!Ids :
          req' = [req EXCEPT ![r] = [A!Idle EXCEPT !.kind = "sso", !.pc = "issue",
                                                   !.id = i, !.birth = link]]
    BY <1>3 DEF A!BeginProvision
  <2>2. PICK q : q = [A!Idle EXCEPT !.kind = "sso", !.pc = "issue", !.id = i, !.birth = link]
    OBVIOUS
  <2>3. q \in AccountReq /\ q.pc = "issue" /\ q.birth = link
    BY <1>1, <2>2 DEF AccountReq, AccountInv, AccountTypes
  <2>4. QED
    BY <1>2, <1>3, <2>1, <2>2, <2>3, ReadStep
<1>4. CASE ~(link > 0)
  <2>1. PICK f \in BOOLEAN : f = (bootstrap /\ A!CountUsers = 0)
    OBVIOUS
  <2>2. PICK pc \in {"link", "insert"} : pc = IF A!Here(Mail) THEN "link" ELSE "insert"
    OBVIOUS
  <2>3. PICK b \in Nat : b = user[Mail].birth
    BY <1>1 DEF AccountInv, AccountTypes, AccountRow
  <2>4. PICK q : q = [A!Idle EXCEPT !.kind = "sso", !.pc = pc, !.birth = b, !.first = f]
    OBVIOUS
  <2>5. q \in AccountReq /\ q.pc = pc /\ q.birth = b /\ q.kind = "sso"
    BY <1>1, <2>4 DEF AccountReq
  <2>6. req' = [req EXCEPT ![r] = q]
    BY <1>4, <2>1, <2>2, <2>3, <2>4 DEF A!BeginProvision
  <2>7. q.pc \in {"issue", "link"} => q.birth > 0
    BY <2>2, <2>3, <2>5 DEF A!Here
  <2>8. QED
    BY <1>2, <2>5, <2>6, <2>7, ReadStep
<1>5. QED
  BY <1>3, <1>4

\* Single sign-on inserts its account or ties the one it found.
LEMMA FinishProvisionStep ==
  ASSUME AccountInv, NEW r \in Reqs, A!FinishProvision(r)
  PROVE  AccountInv'
<1>1. PICK q \in AccountReq : q = req[r]
  BY DEF AccountInv, AccountTypes
<1>2. PICK n \in Nat : n = births + 1 /\ n > 0
  BY DEF AccountInv, AccountTypes
<1>3. PICK b \in Nat : b = (IF q.pc = "insert" THEN births + 1 ELSE q.birth)
  BY <1>2 DEF AccountReq
<1>4. /\ q.kind = "sso" /\ q.pc \in {"insert", "link"} /\ ssoLock' = "free"
      /\ UNCHANGED <<tokens, bootLock, bootstrap, issued, changes, cut>>
      /\ \/ A!Free(r) /\ UNCHANGED <<user, link, births>>
         \/ /\ q.pc = "insert" => ~A!Here(Mail)
            /\ user' = IF q.pc = "insert" THEN [user EXCEPT ![Mail] = A!NewUser("sso", q.first)] ELSE user
            /\ births' = IF q.pc = "insert" THEN births + 1 ELSE births
            /\ link' = b
            /\ \/ A!Free(r)
               \/ req' = [req EXCEPT ![r].pc = "issue", ![r].birth = b]
  BY <1>1, <1>3 DEF A!FinishProvision
<1>5. b > 0
  BY <1>1, <1>2, <1>3, <1>4 DEF AccountInv, BirthsKnown
<1>6. /\ req' \in [Reqs -> AccountReq] /\ BirthsKnown' /\ ~Creating(r)'
      /\ \A x \in Reqs : x # r => req'[x] = req[x]
  <2>1. CASE A!Free(r)
    BY <2>1, RequestFreed
  <2>2. CASE req' = [req EXCEPT ![r].pc = "issue", ![r].birth = b]
    <3>1. PICK p \in AccountReq : p = [q EXCEPT !.pc = "issue", !.birth = b]
      BY DEF AccountReq
    <3>2. p.pc = "issue" /\ p.birth = b
      BY <3>1 DEF AccountReq
    <3>3. req' = [req EXCEPT ![r] = p]
      BY <1>1, <2>2, <3>1
    <3>4. QED
      BY <1>5, <3>2, <3>3, RequestSet DEF Creating
  <2>3. QED
    BY <1>4, <2>1, <2>2
<1>7. \A x \in Reqs : Creating(x)' => Creating(x) /\ req'[x] = req[x]
  BY <1>6 DEF Creating
<1>8. births' \in Nat /\ link' \in Nat
  BY <1>2, <1>3, <1>4 DEF AccountInv, AccountTypes
<1>9. CASE UNCHANGED user
  <2>1. BootOrder'
    BY <1>4, <1>7, <1>9, QuietTable
  <2>2. TokensStand'
    BY <1>4, <1>9 DEF AccountInv, TokensStand, A!Here
  <2>3. QED
    BY <1>4, <1>6, <1>8, <1>9, <2>1, <2>2 DEF AccountInv, AccountTypes
<1>10. CASE ~A!Here(Mail) /\ user' = [user EXCEPT ![Mail] = A!NewUser("sso", q.first)]
  <2>1. PICK boot \in {"no", "sso"} : boot = IF q.first THEN "sso" ELSE "no"
    OBVIOUS
  <2>2. PICK w : w = [birth |-> n, off |-> FALSE, pw |-> 0, boot |-> boot]
    OBVIOUS
  <2>3. w \in AccountRow /\ w.birth = n /\ w.boot = boot
    BY <2>2 DEF AccountRow
  <2>4. user' = [user EXCEPT ![Mail] = w] /\ Mail \in A!Ids
    BY <1>2, <1>10, <2>1, <2>2 DEF A!NewUser, A!Ids
  <2>5. w.birth > 0 /\ UNCHANGED <<tokens, cut, issued>>
    BY <1>2, <1>4, <2>3
  <2>6. /\ user' \in [A!Ids -> AccountRow] /\ \A j \in A!Ids : user'[j] = IF j = Mail THEN w ELSE user[j]
        /\ TokensStand'
    BY <1>10, <2>3, <2>4, <2>5, RowAdded
  <2>7. \A j \in A!Ids : Booted(j)' => Booted(j)
    BY <2>1, <2>3, <2>6 DEF Booted
  <2>8. \A j \in A!Ids : ~A!Here(j)' => user'[j].boot = "no"
    BY <2>5, <2>6 DEF A!Here, AccountInv, BootOrder
  <2>9. BootOrder'
    BY <1>4, <1>7, <2>7, <2>8, BootsKept
  <2>10. QED
    BY <1>4, <1>6, <1>8, <2>6, <2>9 DEF AccountInv, AccountTypes
<1>11. QED
  BY <1>4, <1>9, <1>10

\* Every step of the accounts.
LEMMA AccountStep == AccountInv /\ [A!AccountsNext]_accountVars => AccountInv'
<1> SUFFICES ASSUME AccountInv, [A!AccountsNext]_accountVars PROVE AccountInv'
  OBVIOUS
<1>1. CASE UNCHANGED accountVars
  <2>1. /\ UNCHANGED <<user, link, tokens, req, bootLock, ssoLock, bootstrap>>
        /\ UNCHANGED <<issued, births, changes, cut>>
    BY <1>1 DEF accountVars
  <2>2. BootOrder'
    BY <2>1, QuietTable DEF Creating
  <2>3. TokensStand'
    BY <2>1 DEF AccountInv, TokensStand, A!Here
  <2>4. QED
    BY <2>1, <2>2, <2>3 DEF AccountInv, AccountTypes, BirthsKnown
<1>2. CASE A!DeleteTokens \/ A!Age \/ A!SweepExpired
  BY <1>2, TokenSteps
<1>3. CASE \E i \in A!Ids : A!DeleteUser(i) \/ A!ResetPassword(i) \/ \E off \in BOOLEAN : A!SetUserDisabled(i, off)
  BY <1>3, AdminSteps
<1>4. ASSUME NEW r \in Reqs, A!BeginCreate(r, "signup") \/ A!BeginCreate(r, "phone") PROVE AccountInv'
  BY <1>4, BeginCreateStep
<1>5. ASSUME NEW r \in Reqs, A!InsertUser(r) \/ A!BeginProvision(r) \/ A!FinishProvision(r)
      PROVE  AccountInv'
  BY <1>5, InsertStep, BeginProvisionStep, FinishProvisionStep
<1>6. ASSUME NEW r \in Reqs,
             (\E i \in A!Ids : A!SignIn(r, i)) \/ A!Authenticate(r) \/ A!ReadForPassword(r)
      PROVE  AccountInv'
  BY <1>6, ReadSteps
<1>7. ASSUME NEW r \in Reqs, A!IssueToken(r) \/ A!ExtendToken(r) \/ A!SetPassword(r)
      PROVE  AccountInv'
  BY <1>7, IssueStep, ExtendStep, AdminSteps
<1>8. Phone \in A!Ids
  BY DEF A!Ids
<1>9. QED
  BY <1>1, <1>2, <1>3, <1>4, <1>5, <1>6, <1>7, <1>8 DEF A!AccountsNext, A!Login, A!VerifyPhoneOTP

\* Before the first account.
LEMMA AccountStart == A!AccountsInit => AccountInv
<1> SUFFICES ASSUME A!AccountsInit PROVE AccountInv
  OBVIOUS
<1>1. A!Idle \in AccountReq /\ A!Idle.pc = "idle" /\ Mail \in A!Ids /\ Phone \in A!Ids
  BY DEF A!Idle, AccountReq, A!Ids
<1>2. A!Absent \in AccountRow /\ A!Absent.boot = "no" /\ A!Absent.birth = 0
  BY DEF A!Absent, AccountRow
<1>3. /\ \A i \in A!Ids : user[i] = A!Absent /\ cut[i] = 0
      /\ \A r \in Reqs : req[r] = A!Idle
      /\ tokens = {} /\ issued = 0
  BY DEF A!AccountsInit
<1>4. AccountTypes
  BY <1>1, <1>2, AccountsAssumption DEF A!AccountsInit, AccountTypes
<1>5. TokensStand /\ BirthsKnown
  BY <1>1, <1>3 DEF TokensStand, BirthsKnown
<1>6. BootOrder
  BY <1>1, <1>2, <1>3 DEF BootOrder, Booted, Creating
<1>7. QED
  BY <1>4, <1>5, <1>6 DEF AccountInv

\* What the invariant says of the administrators and the revoked logins.
LEMMA AccountsFollow ==
  AccountInv => A!AccountsTypeOK /\ A!OneBootstrapAdmin /\ A!RevokedStaysRevoked
<1> SUFFICES ASSUME AccountInv
             PROVE  A!AccountsTypeOK /\ A!OneBootstrapAdmin /\ A!RevokedStaysRevoked
  OBVIOUS
<1>1. A!AccountsTypeOK
  <2>1. \A i \in A!Ids : user[i].birth \in Nat /\ user[i].boot \in {"no", "signup", "phone", "sso"}
    BY DEF AccountInv, AccountTypes, AccountRow
  <2>2. \A t \in tokens : t.id \in 1..MaxTokens /\ t.owner \in A!Ids /\ t.left \in 0..Life
    BY DEF AccountInv, TokensStand, AccountToken
  <2>3. QED
    BY <2>1, <2>2 DEF AccountInv, AccountTypes, A!AccountsTypeOK
<1>2. A!OneBootstrapAdmin
  <2>1. PICK D : D = {i \in A!Ids : user[i].boot \in {"signup", "phone"}}
    OBVIOUS
  <2>2. D \subseteq {Mail} \/ D \subseteq {Phone}
    BY <2>1 DEF AccountInv, BootOrder, Booted, A!Ids
  <2>3. \A x : IsFiniteSet({x}) /\ Cardinality({x}) = 1
    BY FS_Singleton
  <2>4. ASSUME NEW x, D \subseteq {x} PROVE Cardinality(D) <= 1
    <3>1. IsFiniteSet({x}) /\ Cardinality({x}) = 1
      BY <2>3
    <3>2. Cardinality(D) <= Cardinality({x})
      BY <2>4, <3>1, FS_Subset
    <3>3. QED
      BY <3>1, <3>2
  <2>5. A!Cardinality(D) = Cardinality(D)
    BY Zenon DEF A!Cardinality, Cardinality
  <2>6. QED
    BY <2>1, <2>2, <2>4, <2>5 DEF A!OneBootstrapAdmin
<1>3. A!RevokedStaysRevoked
  BY DEF AccountInv, TokensStand, A!RevokedStaysRevoked
<1>4. QED
  BY <1>1, <1>2, <1>3

-----------------------------------------------------------------------------
(* Identity.                                                               *)

\* A step of the platform moves one of the identity services and leaves the others alone.
LEMMA IdentityFrame ==
  [Next]_vars => /\ [A!AccountsNext]_accountVars
                 /\ [O!OtpNext]_otpVars /\ [T!TeamsNext]_teamVars
<1>1. UNCHANGED vars => UNCHANGED identityVars
  BY DEF vars
<1>2. UNCHANGED identityVars => UNCHANGED accountVars /\ UNCHANGED otpVars /\ UNCHANGED teamVars
  BY DEF identityVars
<1>3. Identity => /\ [A!AccountsNext]_accountVars
                  /\ [O!OtpNext]_otpVars /\ [T!TeamsNext]_teamVars
  BY DEF Identity, Only
<1>4. Edges \/ Limits \/ Registries => UNCHANGED identityVars
  BY DEF Edges, Limits, Registries
<1>5. QED
  BY <1>1, <1>2, <1>3, <1>4 DEF Next

\* Concurrent sign-ups make one bootstrap administrator (CreateUser and CreatePhoneUser
\* under the advisory lock), no request brings a revoked login back (IssueToken,
\* ExtendToken and the transactions that revoke), a one-time code is spent once, and wrong
\* ones are compared with it beyond the cap only as often as the requests under way and the
\* failed counts allow (consumeOTP), and checked edits that do not overlap leave a team its owner.
THEOREM IdentityIsSound == Spec => []AccountsSound
<1> DEFINE Inv == AccountInv /\ OtpInv /\ TeamInv
<1>1. Init => Inv
  BY AccountStart, OtpStart, TeamStart DEF Init
<1>2. Inv /\ [Next]_vars => Inv'
  BY IdentityFrame, AccountStep, OtpStep, TeamStep
<1>3. Inv => AccountsSound
  <2>1. TeamInv => T!TeamsTypeOK /\ T!ChecksKeepAnOwner
    BY DEF TeamInv, T!TeamsTypeOK
  <2>2. QED
    BY <2>1, AccountsFollow, CodesFollow DEF AccountsSound
<1>4. QED
  BY <1>1, <1>2, <1>3, PTL DEF Spec


-----------------------------------------------------------------------------
(* The limits: codes sent, tokens billed, requests let through.            *)

\* The senders that passed AllowSend, and those whose code is delivered and not counted yet.
Due == {"storing", "recording"}
Busy == {s \in Senders : sender[s] # "idle"}
Delivered == {s \in Senders : sender[s] \in Due}

\* The inductive invariant of the sends: what was delivered is counted but for the senders
\* on their way to it and those that never will, and every sender passed the quota.
SendInv ==
  /\ unrecorded \in Nat /\ received = sentToday + unrecorded + Cardinality(Delivered)
  /\ sentToday + Cardinality(Busy) <= DailyCodes + Cardinality(Senders) - 1

\* What one sender's step does to the two counts.
LEMMA SenderMoves ==
  ASSUME NEW s \in Senders, \A x \in Senders : x # s => sender'[x] = sender[x]
  PROVE  \E n, k \in Nat :
           /\ n + 1 <= Cardinality(Senders) /\ Cardinality(Senders) \in Nat
           /\ Cardinality(Busy) = n + (IF sender[s] # "idle" THEN 1 ELSE 0)
           /\ Cardinality(Busy') = n + (IF sender'[s] # "idle" THEN 1 ELSE 0)
           /\ Cardinality(Delivered) = k + (IF sender[s] \in Due THEN 1 ELSE 0)
           /\ Cardinality(Delivered') = k + (IF sender'[s] \in Due THEN 1 ELSE 0)
<1>1. IsFiniteSet(Senders)
  BY OtpAssumption
<1>2. /\ Busy \in SUBSET Senders /\ Busy' \in SUBSET Senders
      /\ Delivered \in SUBSET Senders /\ Delivered' \in SUBSET Senders
      /\ Busy' \ {s} = Busy \ {s} /\ Delivered' \ {s} = Delivered \ {s}
      /\ (s \in Busy <=> sender[s] # "idle") /\ (s \in Busy' <=> sender'[s] # "idle")
      /\ (s \in Delivered <=> sender[s] \in Due) /\ (s \in Delivered' <=> sender'[s] \in Due)
  BY DEF Busy, Delivered
<1>3. PICK n \in Nat : n = Cardinality(Busy \ {s})
  BY <1>1, <1>2, CountOne
<1>4. PICK k \in Nat : k = Cardinality(Delivered \ {s})
  BY <1>1, <1>2, CountOne
<1>5. Cardinality(Senders) \in Nat /\ n + 1 <= Cardinality(Senders)
  <2>1. /\ IsFiniteSet(Senders \ {s}) /\ Cardinality(Senders) \in Nat
        /\ Cardinality(Senders \ {s}) = Cardinality(Senders) - 1
    BY <1>1, FS_RemoveElement, FS_CardinalityType
  <2>2. Busy \ {s} \subseteq Senders \ {s}
    BY <1>2
  <2>3. n <= Cardinality(Senders \ {s})
    BY <1>3, <2>1, <2>2, FS_Subset
  <2>4. QED
    BY <2>1, <2>3
<1>6. /\ Cardinality(Busy) = n + (IF s \in Busy THEN 1 ELSE 0)
      /\ Cardinality(Busy') = n + (IF s \in Busy' THEN 1 ELSE 0)
  <2>1. Cardinality(Busy) = Cardinality(Busy \ {s}) + (IF s \in Busy THEN 1 ELSE 0)
    BY <1>1, <1>2, CountOne
  <2>2. Cardinality(Busy') = Cardinality(Busy' \ {s}) + (IF s \in Busy' THEN 1 ELSE 0)
    BY <1>1, <1>2, CountOne
  <2>3. QED
    BY <1>2, <1>3, <2>1, <2>2
<1>7. /\ Cardinality(Delivered) = k + (IF s \in Delivered THEN 1 ELSE 0)
      /\ Cardinality(Delivered') = k + (IF s \in Delivered' THEN 1 ELSE 0)
  <2>1. Cardinality(Delivered) = Cardinality(Delivered \ {s}) + (IF s \in Delivered THEN 1 ELSE 0)
    BY <1>1, <1>2, CountOne
  <2>2. Cardinality(Delivered') = Cardinality(Delivered' \ {s}) + (IF s \in Delivered' THEN 1 ELSE 0)
    BY <1>1, <1>2, CountOne
  <2>3. QED
    BY <1>2, <1>4, <2>1, <2>2
<1>8. QED
  BY <1>2, <1>3, <1>4, <1>5, <1>6, <1>7

\* Only the sends count, and a send that starts passed the quota.
LEMMA SendStep == OtpInv /\ SendInv /\ [O!OtpNext]_otpVars => SendInv'
<1> SUFFICES ASSUME OtpInv, SendInv, [O!OtpNext]_otpVars PROVE SendInv'
  OBVIOUS
<1>1. CASE UNCHANGED <<sender, sentToday, received, unrecorded>>
  BY <1>1 DEF SendInv, Busy, Delivered
<1>2. ASSUME NEW s \in Senders, O!Send(s) PROVE SendInv'
  <2>1. /\ sender \in [Senders -> {"idle", "sending", "storing", "recording"}]
        /\ sentToday \in Nat /\ unrecorded \in Nat
    BY DEF OtpInv, OtpTypes, SendInv
  <2>2. \A x \in Senders : x # s => sender'[x] = sender[x]
    BY <1>2, <2>1 DEF O!Send, O!RequestCode, O!SendFails, O!SendCode, O!CreateOTP, O!CreateFails,
                      O!RecordSend
  <2>3. PICK n, k \in Nat :
           /\ n + 1 <= Cardinality(Senders) /\ Cardinality(Senders) \in Nat
           /\ Cardinality(Busy) = n + (IF sender[s] # "idle" THEN 1 ELSE 0)
           /\ Cardinality(Busy') = n + (IF sender'[s] # "idle" THEN 1 ELSE 0)
           /\ Cardinality(Delivered) = k + (IF sender[s] \in Due THEN 1 ELSE 0)
           /\ Cardinality(Delivered') = k + (IF sender'[s] \in Due THEN 1 ELSE 0)
    BY <2>2, SenderMoves
  <2>4. DailyCodes \in Nat
    BY OtpAssumption
  <2>5. CASE O!RequestCode(s)
    <3>1. /\ sender[s] = "idle" /\ sender'[s] = "sending" /\ sentToday < DailyCodes
          /\ sentToday' = sentToday /\ received' = received /\ unrecorded' = unrecorded
      BY <2>1, <2>5 DEF O!RequestCode, O!AllowSend
    <3>2. /\ Cardinality(Busy') = n + 1 /\ Cardinality(Busy) = n
          /\ Cardinality(Delivered') = k /\ Cardinality(Delivered) = k
      BY <2>3, <3>1 DEF Due
    <3>3. QED
      BY <2>1, <2>3, <2>4, <3>1, <3>2 DEF SendInv
  <2>6. CASE O!SendFails(s)
    <3>1. /\ sender[s] = "sending" /\ sender'[s] = "idle"
          /\ sentToday' = sentToday
          /\ \/ received' = received /\ unrecorded' = unrecorded
             \/ received' = received + 1 /\ unrecorded' = unrecorded + 1
      BY <2>1, <2>6 DEF O!SendFails
    <3>2. /\ Cardinality(Busy') = n /\ Cardinality(Busy) = n + 1
          /\ Cardinality(Delivered') = k /\ Cardinality(Delivered) = k
      BY <2>3, <3>1 DEF Due
    <3>3. QED
      BY <2>1, <2>3, <2>4, <3>1, <3>2 DEF SendInv
  <2>7. CASE O!SendCode(s)
    <3>1. /\ sender[s] = "sending" /\ sender'[s] = "storing"
          /\ sentToday' = sentToday /\ received' = received + 1 /\ unrecorded' = unrecorded
      BY <2>1, <2>7 DEF O!SendCode
    <3>2. /\ Cardinality(Busy') = n + 1 /\ Cardinality(Busy) = n + 1
          /\ Cardinality(Delivered') = k + 1 /\ Cardinality(Delivered) = k
      BY <2>3, <3>1 DEF Due
    <3>3. QED
      BY <2>1, <2>3, <2>4, <3>1, <3>2 DEF SendInv
  <2>8. CASE O!CreateOTP(s)
    <3>1. /\ sender[s] = "storing" /\ sender'[s] = "recording"
          /\ sentToday' = sentToday /\ received' = received /\ unrecorded' = unrecorded
      BY <2>1, <2>8 DEF O!CreateOTP
    <3>2. /\ Cardinality(Busy') = n + 1 /\ Cardinality(Busy) = n + 1
          /\ Cardinality(Delivered') = k + 1 /\ Cardinality(Delivered) = k + 1
      BY <2>3, <3>1 DEF Due
    <3>3. QED
      BY <2>1, <2>3, <2>4, <3>1, <3>2 DEF SendInv
  <2>9. CASE O!CreateFails(s)
    <3>1. /\ sender[s] = "storing" /\ sender'[s] = "idle"
          /\ sentToday' = sentToday /\ received' = received /\ unrecorded' = unrecorded + 1
      BY <2>1, <2>9 DEF O!CreateFails
    <3>2. /\ Cardinality(Busy') = n /\ Cardinality(Busy) = n + 1
          /\ Cardinality(Delivered') = k /\ Cardinality(Delivered) = k + 1
      BY <2>3, <3>1 DEF Due
    <3>3. QED
      BY <2>1, <2>3, <2>4, <3>1, <3>2 DEF SendInv
  <2>10. CASE O!RecordSend(s)
    <3>1. /\ sender[s] = "recording" /\ sender'[s] = "idle"
          /\ received' = received
          /\ \/ sentToday' = sentToday + 1 /\ unrecorded' = unrecorded
             \/ sentToday' = sentToday /\ unrecorded' = unrecorded + 1
      BY <2>1, <2>10 DEF O!RecordSend
    <3>2. /\ Cardinality(Busy') = n /\ Cardinality(Busy) = n + 1
          /\ Cardinality(Delivered') = k /\ Cardinality(Delivered) = k + 1
      BY <2>3, <3>1 DEF Due
    <3>3. QED
      BY <2>1, <2>3, <2>4, <3>1, <3>2 DEF SendInv
  <2>11. QED
    BY <1>2, <2>5, <2>6, <2>7, <2>8, <2>9, <2>10 DEF O!Send
<1>3. CASE UNCHANGED otpVars
  BY <1>1, <1>3 DEF otpVars
<1>4. ASSUME NEW i \in DOMAIN codes, O!Cool(i) PROVE SendInv'
  BY <1>1, <1>4 DEF O!Cool
<1>5. ASSUME NEW r \in Reqs, O!Consume(r) PROVE SendInv'
  BY <1>1, <1>5 DEF O!Consume, O!LatestOTP, O!Compare, O!BumpOTPAttempts, O!BumpFails, O!Burn,
                    O!ConsumeOTP, O!ConsumeFails
<1>6. QED
  BY <1>2, <1>3, <1>4, <1>5 DEF O!OtpNext

\* Before the first send.
LEMMA SendStart == O!OtpInit => SendInv
<1> SUFFICES ASSUME O!OtpInit PROVE SendInv
  OBVIOUS
<1>1. Busy = {} /\ Delivered = {} /\ sentToday = 0 /\ received = 0 /\ unrecorded = 0
  BY DEF O!OtpInit, Busy, Delivered, Due
<1>2. Cardinality({}) = 0 /\ Cardinality(Senders) \in Nat /\ DailyCodes \in Nat /\ DailyCodes >= 1
  BY FS_EmptySet, FS_CardinalityType, OtpAssumption
<1>3. QED
  BY <1>1, <1>2 DEF SendInv

\* What was delivered beyond the quota.
LEMMA SendsFollow == OtpInv /\ SendInv => O!SendsBounded
<1> SUFFICES ASSUME OtpInv, SendInv PROVE O!SendsBounded
  OBVIOUS
<1>1. sentToday \in Nat /\ DailyCodes \in Nat
  BY OtpAssumption DEF OtpInv, OtpTypes
<1>2. /\ Delivered \subseteq Busy /\ Busy \subseteq Senders
  BY DEF Busy, Delivered, Due
<1>3. IsFiniteSet(Busy)
  BY <1>2, OtpAssumption, FS_Subset
<1>4. /\ Cardinality(Delivered) \in Nat /\ Cardinality(Busy) \in Nat /\ Cardinality(Senders) \in Nat
      /\ Cardinality(Delivered) <= Cardinality(Busy)
  BY <1>2, <1>3, OtpAssumption, FS_Subset, FS_CardinalityType
<1>5. received <= DailyCodes + Cardinality(Senders) - 1 + unrecorded
  BY <1>1, <1>4 DEF SendInv
<1>6. O!Cardinality(Senders) = Cardinality(Senders)
  BY Zenon DEF O!Cardinality, Cardinality
<1>7. QED
  BY <1>5, <1>6 DEF O!SendsBounded

\* Facts of arithmetic for products that the provers take as unknowns.
LEMMA ProductStep ==
  /\ \A a, n \in Nat : a * n \in Nat /\ a * (n + 1) = a * n + a
  /\ \A a, n, k \in Nat : a * (n + k) = a * n + a * k
  /\ \A a \in Nat : a * 0 = 0
OBVIOUS

LEMMA ProductGrows ==
  ASSUME NEW a \in Nat, NEW n \in Nat, NEW k \in Nat, n <= k
  PROVE  a * n <= a * k
<1>1. PICK d \in Nat : k = n + d
  <2>1. k - n \in Nat /\ k = n + (k - n)
    OBVIOUS
  <2>2. QED
    BY <2>1
<1>2. a * k = a * n + a * d /\ a * n \in Nat /\ a * d \in Nat
  BY <1>1, ProductStep
<1>3. QED
  BY <1>2

\* A finite set of numbers that is not empty has a greatest element.
LEMMA GreatestOf ==
  ASSUME NEW S \in SUBSET Nat, IsFiniteSet(S), S # {}
  PROVE  \E m \in S : \A k \in S : m >= k
<1> DEFINE HasTop(D) == \E m \in D : \A k \in D : m >= k
<1> DEFINE Bad == {D \in SUBSET S : D # {} /\ ~HasTop(D)}
<1> DEFINE Sizes == {Cardinality(D) : D \in Bad}
<1> SUFFICES ASSUME ~HasTop(S) PROVE FALSE
  OBVIOUS
<1> HIDE DEF HasTop
<1>1. \A D \in SUBSET S : IsFiniteSet(D) /\ Cardinality(D) \in Nat
  BY FS_Subset, FS_CardinalityType
<1>2. Sizes \subseteq Nat /\ Sizes # {}
  <2>1. S \in Bad
    OBVIOUS
  <2>2. QED
    BY <1>1, <2>1
<1>3. PICK b \in Sizes : \A c \in Sizes : ~(<<c, b>> \in OpToRel(<, Nat))
  BY <1>2, WFMin, NatLessThanWellFounded, Zenon
<1>4. \A c \in Sizes : ~(c < b)
  <2>1. OpToRel(<, Nat) = {ss \in Nat \X Nat : ss[1] < ss[2]}
    BY Zenon DEF OpToRel
  <2>2. \A c \in Sizes : c < b => <<c, b>> \in {ss \in Nat \X Nat : ss[1] < ss[2]}
    BY <1>2
  <2>3. QED
    BY <1>3, <2>1, <2>2, Zenon
<1>5. PICK D \in Bad : b = Cardinality(D)
  OBVIOUS
<1>6. PICK x \in D : TRUE
  OBVIOUS
<1>7. D \in SUBSET S /\ x \in Nat /\ D # {} /\ ~HasTop(D)
  OBVIOUS
<1>8. /\ D \ {x} \in SUBSET S /\ Cardinality(D \ {x}) = Cardinality(D) - 1
      /\ Cardinality(D) \in Nat
  BY <1>1, <1>6, <1>7, FS_RemoveElement
<1>9. D \ {x} \notin Bad
  <2>1. SUFFICES ASSUME D \ {x} \in Bad PROVE FALSE
    OBVIOUS
  <2>2. Cardinality(D \ {x}) \in Sizes
    BY <2>1
  <2>3. QED
    BY <1>4, <1>5, <1>8, <2>2
<1>10. CASE D \ {x} = {}
  <2>1. D = {x}
    BY <1>6, <1>10
  <2>2. QED
    BY <1>7, <2>1 DEF HasTop
<1>11. CASE HasTop(D \ {x})
  <2>1. PICK m \in D \ {x} : \A k \in D \ {x} : m >= k
    BY <1>11 DEF HasTop
  <2>2. m \in Nat
    BY <1>7, <2>1
  <2>3. CASE m >= x
    BY <1>7, <2>1, <2>3 DEF HasTop
  <2>4. CASE ~(m >= x)
    <3>1. \A k \in D : x >= k
      BY <1>7, <2>1, <2>2, <2>4
    <3>2. QED
      BY <1>6, <1>7, <3>1 DEF HasTop
  <2>5. QED
    BY <2>3, <2>4
<1>12. QED
  BY <1>8, <1>9, <1>10, <1>11

\* Of two numbers.
LEMMA GreaterOf ==
  ASSUME NEW a \in Nat, NEW b \in Nat
  PROVE  Q!Max({a, b}) \in {a, b} /\ Q!Max({a, b}) >= a /\ Q!Max({a, b}) >= b
<1>1. \E x \in {a, b} : \A y \in {a, b} : x >= y
  OBVIOUS
<1>2. Q!Max({a, b}) \in {a, b} /\ \A y \in {a, b} : Q!Max({a, b}) >= y
  BY <1>1, Zenon DEF Q!Max
<1>3. QED
  BY <1>2

\* Of what a run may cost.
Most == Q!Max(Costs)

LEMMA MostIsMost == Most \in Nat /\ \A c \in Costs : c \in Nat /\ c <= Most
<1>1. \E m \in Costs : \A k \in Costs : m >= k
  BY BudgetAssumption, GreatestOf
<1>2. Most \in Costs /\ \A k \in Costs : Most >= k
  BY <1>1, Zenon DEF Q!Max, Most
<1>3. QED
  BY <1>2, BudgetAssumption

\* A submission's place in the gate.
GateState == [pc : {"away", "user", "team", "create", "running"}, team : BOOLEAN, window : Months \cup {0}]

QuotaTypes ==
  /\ month \in Months /\ budget \in [Q!Scopes -> Budgets \cup {0}] /\ cap \in [Q!Scopes -> Budgets \cup {0}]
  /\ billed \in [Q!Scopes -> [Months -> Nat]] /\ gate \in [Reqs -> GateState]
  /\ \A r \in Reqs : gate[r].pc # "away" => gate[r].window \in Months /\ gate[r].window <= month
  /\ \A r \in Reqs : gate[r].pc = "team" => gate[r].team
  /\ \A s \in Q!Scopes, m \in Months : m > month => billed[s][m] = 0

\* A submission may bill scope s in month m without another check of that month: it passed
\* the check, or it checks an earlier month and its run will be created in m.
Owes(g, s, m) ==
  /\ g.pc # "away" /\ (s = "user" \/ g.team)
  /\ \/ g.window < m /\ g.pc # "running"
     \/ g.window = m /\ (g.pc \in {"create", "running"} \/ (g.pc = "team" /\ s = "user"))
Owing(s, m) == {r \in Reqs : Owes(gate[r], s, m)}

\* The account of one scope in one month.
Balanced(s, m) ==
  billed[s][m] + Most * Cardinality(Owing(s, m)) <= cap[s] - 1 + Most * Cardinality(Reqs)

\* The inductive invariant of the budgets: a limit in force is at most the highest one,
\* and what is billed and owed exceeds that one by the submissions at most.
QuotaInv ==
  /\ QuotaTypes
  /\ \A s \in Q!Scopes : cap[s] > 0 =>
       /\ budget[s] > 0 /\ budget[s] <= cap[s]
       /\ \A m \in Months : m <= month => Balanced(s, m)

\* The numbers of the gate.
LEMMA QuotaNumbers ==
  ASSUME QuotaTypes
  PROVE  /\ month \in Months /\ month \in Nat /\ Months \subseteq Nat
         /\ \A s \in Q!Scopes : budget[s] \in Nat /\ cap[s] \in Nat
         /\ \A s \in Q!Scopes : \A m \in Months : billed[s][m] \in Nat
         /\ \A r \in Reqs : gate[r] \in GateState
         /\ \A r \in Reqs : gate[r].pc # "away" => gate[r].window \in Months /\ gate[r].window <= month
<1>1. Budgets \subseteq Nat /\ Months \subseteq Nat
  BY BudgetAssumption
<1>2. \A s \in Q!Scopes : budget[s] \in Budgets \cup {0} /\ cap[s] \in Budgets \cup {0}
  BY DEF QuotaTypes
<1>3. \A s \in Q!Scopes : budget[s] \in Nat /\ cap[s] \in Nat
  <2>1. Budgets \cup {0} \subseteq Nat
    BY <1>1
  <2>2. QED
    BY <1>2, <2>1, Zenon
<1>4. \A s \in Q!Scopes : \A m \in Months : billed[s][m] \in Nat
  BY DEF QuotaTypes
<1>5. \A r \in Reqs : gate[r] \in GateState
  BY DEF QuotaTypes
<1>6. /\ \A r \in Reqs : gate[r].pc # "away" => gate[r].window \in Months /\ gate[r].window <= month
      /\ month \in Months
  BY DEF QuotaTypes
<1>7. QED
  BY <1>1, <1>3, <1>4, <1>5, <1>6

\* The numbers in the account.
LEMMA AccountNumbers ==
  /\ Most \in Nat /\ Cardinality(Reqs) \in Nat
  /\ \A D \in SUBSET Reqs : /\ Cardinality(D) \in Nat /\ Cardinality(D) <= Cardinality(Reqs)
                           /\ Most * Cardinality(D) \in Nat
                           /\ Most * Cardinality(D) <= Most * Cardinality(Reqs)
  /\ Most * Cardinality(Reqs) \in Nat
<1>1. /\ Most \in Nat /\ Cardinality(Reqs) \in Nat
      /\ \A D \in SUBSET Reqs : Cardinality(D) \in Nat /\ Cardinality(D) <= Cardinality(Reqs)
  BY MostIsMost, ReqsAssumption, FS_Subset, FS_CardinalityType
<1>2. ASSUME NEW D \in SUBSET Reqs
      PROVE  Most * Cardinality(D) \in Nat /\ Most * Cardinality(D) <= Most * Cardinality(Reqs)
  <2>1. PICK n \in Nat, k \in Nat : n = Cardinality(D) /\ k = Cardinality(Reqs) /\ n <= k
    BY <1>1
  <2>2. Most * n \in Nat /\ Most * n <= Most * k
    BY <1>1, <2>1, ProductGrows, ProductStep
  <2>3. QED
    BY <2>1, <2>2
<1>3. Most * Cardinality(Reqs) \in Nat
  BY <1>1, ProductStep
<1>4. QED
  BY <1>1, <1>2, <1>3

\* One submission's step on one account: it owes no more than before, or the account was
\* below the limit, or it pays what it owed.
Settles(r, g, s, m) ==
  \/ billed'[s][m] = billed[s][m] /\ (Owes(g, s, m) => Owes(gate[r], s, m))
  \/ billed'[s][m] = billed[s][m] /\ billed[s][m] < cap[s]
  \/ billed'[s][m] <= billed[s][m] + Most /\ ~Owes(g, s, m) /\ Owes(gate[r], s, m)

\* Such a step keeps the account balanced.
LEMMA AccountKept ==
  ASSUME QuotaTypes, NEW r \in Reqs, NEW g \in GateState, gate' = [gate EXCEPT ![r] = g],
         NEW s \in Q!Scopes, NEW m \in Months, Balanced(s, m), Settles(r, g, s, m), cap'[s] = cap[s],
         billed'[s][m] \in Nat
  PROVE  Balanced(s, m)'
<1>1. /\ billed[s][m] \in Nat /\ cap[s] \in Nat /\ gate'[r] = g
      /\ \A x \in Reqs : x # r => gate'[x] = gate[x]
  BY QuotaNumbers DEF QuotaTypes
<1>2. /\ Owing(s, m) \in SUBSET Reqs /\ Owing(s, m)' \in SUBSET Reqs
      /\ Owing(s, m)' \ {r} = Owing(s, m) \ {r}
      /\ (r \in Owing(s, m) <=> Owes(gate[r], s, m)) /\ (r \in Owing(s, m)' <=> Owes(g, s, m))
  BY <1>1 DEF Owing
<1>3. /\ Cardinality(Owing(s, m)) \in Nat /\ Cardinality(Owing(s, m)') \in Nat
      /\ Cardinality(Owing(s, m)') - (IF r \in Owing(s, m)' THEN 1 ELSE 0)
            = Cardinality(Owing(s, m)) - (IF r \in Owing(s, m) THEN 1 ELSE 0)
  BY <1>2, OneMoves
<1>4. PICK n \in Nat, u \in Nat, a \in Nat :
        /\ n = Cardinality(Owing(s, m)) /\ u = Cardinality(Owing(s, m)')
        /\ a = Most * Cardinality(Reqs) /\ Most * u <= a
  BY <1>2, <1>3, AccountNumbers
<1>5. Most \in Nat /\ Most * n \in Nat /\ Most * u \in Nat
  BY <1>4, AccountNumbers, ProductStep
<1>6. billed[s][m] + Most * n <= cap[s] - 1 + a
  BY <1>4 DEF Balanced
<1>7. billed'[s][m] + Most * u <= cap[s] - 1 + a
  <2>1. CASE billed'[s][m] = billed[s][m] /\ (Owes(g, s, m) => Owes(gate[r], s, m))
    <3>1. u <= n
      BY <1>2, <1>3, <1>4, <2>1
    <3>2. Most * u <= Most * n
      BY <1>5, <3>1, ProductGrows
    <3>3. QED
      BY <1>1, <1>5, <1>6, <2>1, <3>2
  <2>2. CASE billed'[s][m] = billed[s][m] /\ billed[s][m] < cap[s]
    BY <1>1, <1>4, <1>5, <2>2
  <2>3. CASE billed'[s][m] <= billed[s][m] + Most /\ ~Owes(g, s, m) /\ Owes(gate[r], s, m)
    <3>1. n = u + 1
      BY <1>2, <1>3, <1>4, <2>3
    <3>2. Most * n = Most * u + Most
      BY <1>5, <3>1, ProductStep
    <3>3. QED
      BY <1>1, <1>5, <1>6, <2>3, <3>2
  <2>4. QED
    BY <2>1, <2>2, <2>3 DEF Settles
<1>8. QED
  BY <1>4, <1>7 DEF Balanced

\* A step of one submission that keeps every account.
LEMMA GateMove ==
  ASSUME QuotaInv, NEW r \in Reqs, NEW g \in GateState, gate' = [gate EXCEPT ![r] = g],
         month' = month, budget' = budget, cap' \in [Q!Scopes -> Budgets \cup {0}],
         billed' \in [Q!Scopes -> [Months -> Nat]],
         g.pc # "away" => g.window \in Months /\ g.window <= month, g.pc = "team" => g.team,
         \A s \in Q!Scopes, m \in Months : m > month => billed'[s][m] = 0,
         \A s \in Q!Scopes : cap'[s] = 0 \/ ( /\ cap'[s] = cap[s]
              /\ \A m \in Months : cap[s] > 0 /\ m <= month => Settles(r, g, s, m))
  PROVE  QuotaInv'
<1>1. gate' \in [Reqs -> GateState] /\ \A x \in Reqs : gate'[x] = IF x = r THEN g ELSE gate[x]
  BY DEF QuotaInv, QuotaTypes
<1>2. QuotaTypes'
  BY <1>1 DEF QuotaInv, QuotaTypes
<1>3. ASSUME NEW s \in Q!Scopes, cap'[s] > 0
      PROVE  budget'[s] > 0 /\ budget'[s] <= cap'[s] /\ \A m \in Months : m <= month' => Balanced(s, m)'
  <2>1. cap'[s] = cap[s] /\ \A m \in Months : m <= month => Settles(r, g, s, m)
    BY <1>3
  <2>2. budget[s] > 0 /\ budget[s] <= cap[s] /\ \A m \in Months : m <= month => Balanced(s, m)
    BY <1>3, <2>1 DEF QuotaInv
  <2>3. ASSUME NEW m \in Months, m <= month PROVE Balanced(s, m)'
    <3>1. billed'[s][m] \in Nat
      OBVIOUS
    <3>2. QED
      BY <2>1, <2>2, <2>3, <3>1, AccountKept DEF QuotaInv
  <2>4. QED
    BY <2>1, <2>2, <2>3
<1>4. QED
  BY <1>2, <1>3 DEF QuotaInv

\* A submission starts, is checked, refused or created.
LEMMA SubmissionStep ==
  ASSUME QuotaInv, NEW r \in Reqs, Q!Attribute(r) \/ Q!CreateRun(r) \/ Q!Refused(r)
  PROVE  QuotaInv'
<1>1. /\ gate[r] \in GateState /\ month \in Months /\ month \in Nat /\ Months \subseteq Nat
      /\ UNCHANGED <<budget, month, billed, cap>> /\ QuotaTypes
  BY QuotaNumbers DEF QuotaInv, Q!Attribute, Q!CreateRun, Q!Refused
<1>2. \E g \in GateState :
        /\ gate' = [gate EXCEPT ![r] = g]
        /\ g.pc # "away" => g.window = month
        /\ g.pc # "team"
        /\ \A s \in Q!Scopes, m \in Months : m <= month /\ Owes(g, s, m) => Owes(gate[r], s, m)
  <2>1. CASE Q!Attribute(r)
    <3>1. PICK pays \in BOOLEAN : gate' = [gate EXCEPT ![r] = [pc |-> "user", team |-> pays, window |-> month]]
      BY <2>1 DEF Q!Attribute
    <3>2. PICK g \in GateState : g = [pc |-> "user", team |-> pays, window |-> month]
      BY <1>1 DEF GateState
    <3>3. g.pc = "user" /\ g.window = month
      BY <3>2
    <3>4. ASSUME NEW s \in Q!Scopes, NEW m \in Months, m <= month PROVE ~Owes(g, s, m)
      <4>1. m \in Nat /\ ~(month < m)
        BY <1>1, <3>4
      <4>2. /\ g.pc = "user" => g.pc \notin {"create", "running"} /\ g.pc # "team"
            /\ g.window < m => month < m
        BY <3>3
      <4>3. QED
        BY <3>3, <4>1, <4>2, Zenon DEF Owes
    <3>5. gate' = [gate EXCEPT ![r] = g]
      BY <3>1, <3>2
    <3>6. QED
      BY <3>3, <3>4, <3>5
  <2>2. CASE Q!CreateRun(r)
    <3>1. PICK g \in GateState : g = [gate[r] EXCEPT !.pc = "running", !.window = month]
      BY <1>1 DEF GateState
    <3>2. gate' = [gate EXCEPT ![r] = g] /\ gate[r].pc = "create"
      BY <2>2, <3>1 DEF Q!CreateRun
    <3>3. g.pc = "running" /\ g.window = month /\ g.team = gate[r].team
      BY <1>1, <3>1 DEF GateState
    <3>4. gate[r].window \in Nat /\ gate[r].window <= month
      BY <1>1, <3>2, QuotaNumbers
    <3>5. ASSUME NEW s \in Q!Scopes, NEW m \in Months, m <= month, Owes(g, s, m)
          PROVE  Owes(gate[r], s, m)
      <4>1. m = month /\ (s = "user" \/ gate[r].team)
        BY <1>1, <3>3, <3>5 DEF Owes
      <4>2. gate[r].window < m \/ gate[r].window = m
        BY <1>1, <3>4, <4>1
      <4>3. QED
        BY <3>2, <4>1, <4>2 DEF Owes
    <3>6. QED
      BY <3>2, <3>3, <3>5
  <2>3. CASE Q!Refused(r)
    <3>1. PICK g \in GateState : g = Q!Away /\ g.pc = "away"
      <4>1. Q!Away \in GateState /\ Q!Away.pc = "away"
        BY DEF Q!Away, GateState
      <4>2. QED
        BY <4>1
    <3>2. gate' = [gate EXCEPT ![r] = g]
      BY <2>3, <3>1 DEF Q!Refused
    <3>3. QED
      BY <3>1, <3>2 DEF Owes
  <2>4. QED
    BY <2>1, <2>2, <2>3
<1>3. PICK g \in GateState :
        /\ gate' = [gate EXCEPT ![r] = g]
        /\ g.pc # "away" => g.window = month
        /\ g.pc # "team"
        /\ \A s \in Q!Scopes, m \in Months : m <= month /\ Owes(g, s, m) => Owes(gate[r], s, m)
  BY <1>2
<1>4. \A s \in Q!Scopes, m \in Months : m <= month => Settles(r, g, s, m)
  BY <1>1, <1>3 DEF Settles
<1>5. /\ g.pc # "away" => g.window \in Months /\ g.window <= month
      /\ cap' \in [Q!Scopes -> Budgets \cup {0}] /\ billed' \in [Q!Scopes -> [Months -> Nat]]
      /\ \A s \in Q!Scopes, m \in Months : m > month => billed'[s][m] = 0
  BY <1>1, <1>3 DEF QuotaTypes
<1>6. QED
  BY <1>1, <1>3, <1>4, <1>5, GateMove

\* The verdict on one scope.
LEMMA CheckStep ==
  ASSUME QuotaInv, NEW r \in Reqs, NEW s \in Q!Scopes, Q!CheckScope(r, s) \/ Q!CheckFails(r, s)
  PROVE  QuotaInv'
<1>1. /\ gate[r] \in GateState /\ month \in Months /\ Months \subseteq Nat
      /\ UNCHANGED <<budget, month, billed>> /\ QuotaTypes /\ gate[r].pc = s
  BY QuotaNumbers DEF QuotaInv, Q!CheckScope, Q!CheckFails
<1>2. Q!Scopes = {"user", "team"} /\ gate[r].window \in Months /\ gate[r].window <= month
  BY <1>1, QuotaNumbers DEF Q!Scopes
<1>3. PICK g \in GateState : g = [gate[r] EXCEPT !.pc = Q!Onward(r, s)]
  BY <1>1 DEF GateState, Q!Onward
<1>4. /\ g.pc \in {"team", "create"} /\ g.window = gate[r].window /\ g.team = gate[r].team
      /\ g.pc = "team" => s = "user" /\ g.team
      /\ g.pc = "create" => s = "team" \/ ~g.team
  BY <1>1, <1>2, <1>3 DEF Q!Onward, GateState
<1>5. /\ billed' \in [Q!Scopes -> [Months -> Nat]] /\ cap \in [Q!Scopes -> Budgets \cup {0}]
       /\ \A z \in Q!Scopes, m \in Months : m > month => billed'[z][m] = 0
  BY <1>1 DEF QuotaTypes
<1>6. ASSUME NEW z \in Q!Scopes, z # s, NEW m \in Months, Owes(g, z, m)
      PROVE  Owes(gate[r], z, m)
  BY <1>1, <1>2, <1>4, <1>6 DEF Owes, QuotaTypes
<1>7. ASSUME NEW m \in Months, m # gate[r].window, Owes(g, s, m)
      PROVE  Owes(gate[r], s, m)
  BY <1>1, <1>2, <1>4, <1>7 DEF Owes
<1>8. CASE Q!CheckFails(r, s)
  <2>1. gate' = [gate EXCEPT ![r] = g] /\ cap' = [cap EXCEPT ![s] = 0]
    BY <1>3, <1>8 DEF Q!CheckFails
  <2>2. cap' \in [Q!Scopes -> Budgets \cup {0}] /\ cap'[s] = 0 /\ \A z \in Q!Scopes : z # s => cap'[z] = cap[z]
    BY <1>1, <2>1 DEF QuotaTypes
  <2>3. \A z \in Q!Scopes : cap'[z] = 0 \/ (cap'[z] = cap[z] /\ \A m \in Months : Settles(r, g, z, m))
    BY <1>1, <1>6, <2>2 DEF Settles
  <2>4. QED
    BY <1>1, <1>2, <1>4, <1>5, <2>1, <2>2, <2>3, GateMove
<1>9. CASE Q!CheckScope(r, s) /\ Q!Met(s, gate[r].window)
  <2>1. PICK w \in GateState : w = Q!Away /\ w.pc = "away"
    <3>1. Q!Away \in GateState /\ Q!Away.pc = "away"
      BY DEF Q!Away, GateState
    <3>2. QED
      BY <3>1
  <2>2. gate' = [gate EXCEPT ![r] = w] /\ cap' = cap
    BY <1>9, <2>1 DEF Q!CheckScope
  <2>3. \A z \in Q!Scopes, m \in Months : Settles(r, w, z, m)
    BY <1>1, <2>1 DEF Settles, Owes
  <2>4. QED
    BY <1>1, <1>5, <2>1, <2>2, <2>3, GateMove
<1>10. CASE Q!CheckScope(r, s) /\ ~Q!Met(s, gate[r].window)
  <2>1. gate' = [gate EXCEPT ![r] = g] /\ cap' = cap
    BY <1>3, <1>10 DEF Q!CheckScope
  <2>2. ASSUME NEW z \in Q!Scopes, NEW m \in Months, cap[z] > 0 PROVE Settles(r, g, z, m)
    <3>1. CASE z # s
      BY <1>1, <1>6, <3>1 DEF Settles
    <3>2. CASE z = s /\ m # gate[r].window
      BY <1>1, <1>7, <3>2 DEF Settles
    <3>3. CASE z = s /\ m = gate[r].window
      <4>1. budget[s] > 0 /\ budget[s] <= cap[s] /\ budget[s] \in Nat /\ cap[s] \in Nat
        BY <1>1, <2>2, <3>3, QuotaNumbers DEF QuotaInv
      <4>2. billed[s][m] \in Nat /\ billed[s][m] < budget[s]
        BY <1>1, <1>10, <3>3, <4>1, QuotaNumbers DEF Q!Met
      <4>3. QED
        BY <1>1, <3>3, <4>1, <4>2 DEF Settles
    <3>4. QED
      BY <3>1, <3>2, <3>3
  <2>3. QED
    BY <1>1, <1>2, <1>4, <1>5, <2>1, <2>2, GateMove
<1>11. QED
  BY <1>8, <1>9, <1>10

\* The run settles and its tokens are billed.
LEMMA BillStep ==
  ASSUME QuotaInv, NEW r \in Reqs, Q!SettleCost(r)
  PROVE  QuotaInv'
<1>1. /\ gate[r] \in GateState /\ Months \subseteq Nat /\ month \in Nat /\ QuotaTypes
      /\ UNCHANGED <<budget, month, cap>> /\ gate[r].pc = "running"
      /\ gate[r].window \in Months /\ gate[r].window <= month
  BY QuotaNumbers DEF QuotaInv, Q!SettleCost
<1>2. PICK c \in Costs :
        billed' = [s \in Q!Scopes |->
          IF s \in Q!ScopesOf(r) THEN [billed[s] EXCEPT ![gate[r].window] = @ + c] ELSE billed[s]]
  BY DEF Q!SettleCost
<1>3. PICK g \in GateState : g = Q!Away /\ g.pc = "away"
  <2>1. Q!Away \in GateState /\ Q!Away.pc = "away"
    BY DEF Q!Away, GateState
  <2>2. QED
    BY <2>1
<1>4. gate' = [gate EXCEPT ![r] = g]
  BY <1>3 DEF Q!SettleCost
<1>5. c \in Nat /\ c <= Most /\ Most \in Nat
  BY MostIsMost
<1>6. ASSUME NEW s \in Q!Scopes, NEW m \in Months
      PROVE  /\ billed[s] \in [Months -> Nat] /\ billed[s][m] \in Nat
             /\ billed'[s][m] = IF s \in Q!ScopesOf(r) /\ m = gate[r].window
                                THEN billed[s][m] + c ELSE billed[s][m]
  <2>1. billed[s] \in [Months -> Nat] /\ billed[s][m] \in Nat
    BY <1>1 DEF QuotaTypes
  <2>2. QED
    BY <1>2, <2>1
<1>7. billed' \in [Q!Scopes -> [Months -> Nat]]
  <2>1. ASSUME NEW s \in Q!Scopes
        PROVE  (IF s \in Q!ScopesOf(r) THEN [billed[s] EXCEPT ![gate[r].window] = @ + c]
                                      ELSE billed[s]) \in [Months -> Nat]
    <3>1. billed[s] \in [Months -> Nat] /\ billed[s][gate[r].window] \in Nat
      BY <1>1, <1>6
    <3>4. billed[s][gate[r].window] + c \in Nat
      BY <1>5, <3>1
    <3>2. [billed[s] EXCEPT ![gate[r].window] = @ + c] \in [Months -> Nat]
      BY <3>1, <3>4
    <3>3. QED
      BY <3>1, <3>2
  <2>2. QED
    BY <1>2, <2>1
<1>8. \A s \in Q!Scopes, m \in Months : m > month => billed'[s][m] = 0
  BY <1>1, <1>6 DEF QuotaTypes
<1>9. ASSUME NEW s \in Q!Scopes, NEW m \in Months PROVE Settles(r, g, s, m)
  <2>1. CASE s \in Q!ScopesOf(r) /\ m = gate[r].window
    <3>1. Owes(gate[r], s, m)
      BY <1>1, <2>1 DEF Owes, Q!ScopesOf, Q!Scopes
    <3>2. ~Owes(g, s, m)
      BY <1>3 DEF Owes
    <3>3. QED
      BY <1>5, <1>6, <2>1, <3>1, <3>2 DEF Settles
  <2>2. CASE ~(s \in Q!ScopesOf(r) /\ m = gate[r].window)
    BY <1>3, <1>6, <2>2 DEF Settles, Owes
  <2>3. QED
    BY <2>1, <2>2
<1>10. cap' \in [Q!Scopes -> Budgets \cup {0}]
  BY <1>1 DEF QuotaTypes
<1>11. QED
  BY <1>1, <1>3, <1>4, <1>7, <1>8, <1>9, <1>10, GateMove

\* An edit of scope s: the row is b, the highest limit so far h.
Edited(s, b, h) ==
  /\ budget' = [budget EXCEPT ![s] = b] /\ cap' = [cap EXCEPT ![s] = h]
  /\ h > 0 => cap[s] > 0 /\ h >= cap[s] /\ b > 0 /\ b <= h

\* An administrator sets or clears a limit.
LEMMA BudgetEditStep ==
  ASSUME QuotaInv, NEW s \in Q!Scopes, Q!SetBudget(s) \/ Q!ClearBudget(s)
  PROVE  QuotaInv'
<1>1. UNCHANGED <<month, billed, gate>> /\ QuotaTypes
  BY DEF QuotaInv, Q!SetBudget, Q!ClearBudget
<1>2. \E b, h \in Budgets \cup {0} : Edited(s, b, h)
  <2>1. CASE Q!SetBudget(s)
    <3>1. PICK b \in Budgets : Q!SetRow(s, b) /\ cap' = [cap EXCEPT ![s] = Q!Highest(@, b)]
      BY <2>1 DEF Q!SetBudget
    <3>2. budget' = [budget EXCEPT ![s] = b]
      BY <3>1 DEF Q!SetRow
    <3>3. cap[s] \in Budgets \cup {0} /\ cap[s] \in Nat /\ b \in Nat /\ b > 0
      BY <1>1, BudgetAssumption, QuotaNumbers DEF QuotaTypes
    <3>4. CASE cap[s] = 0
      <4>1. Q!Highest(cap[s], b) = 0
        BY <3>4 DEF Q!Highest
      <4>2. cap' = [cap EXCEPT ![s] = 0]
        BY <3>1, <4>1
      <4>3. Edited(s, b, 0)
        BY <3>2, <4>2 DEF Edited
      <4>4. QED
        BY <4>3, Zenon
    <3>5. CASE cap[s] # 0
      <4>1. PICK h : h = Q!Max({cap[s], b})
        OBVIOUS
      <4>2. h \in {cap[s], b} /\ h >= cap[s] /\ h >= b
        BY <3>3, <4>1, GreaterOf
      <4>3. Q!Highest(cap[s], b) = h
        BY <3>3, <3>5, <4>1 DEF Q!Highest
      <4>4. h \in Budgets \cup {0} /\ h \in Nat
        BY <3>3, <4>2
      <4>5. cap' = [cap EXCEPT ![s] = h]
        BY <3>1, <4>3
      <4>6. cap[s] > 0 /\ b <= h
        BY <3>3, <3>5, <4>2, <4>4
      <4>7. Edited(s, b, h)
        BY <3>2, <3>3, <4>2, <4>5, <4>6 DEF Edited
      <4>8. QED
        BY <4>4, <4>7, Zenon
    <3>6. QED
      BY <3>4, <3>5
  <2>2. CASE Q!ClearBudget(s)
    <3>1. budget' = [budget EXCEPT ![s] = 0] /\ cap' = [cap EXCEPT ![s] = 0]
      BY <2>2 DEF Q!ClearBudget, Q!ClearRow
    <3>2. Edited(s, 0, 0)
      BY <3>1 DEF Edited
    <3>3. QED
      BY <3>2, Zenon
  <2>3. QED
    BY <2>1, <2>2
<1>3. PICK b \in Budgets \cup {0}, h \in Budgets \cup {0} :
        /\ budget' = [budget EXCEPT ![s] = b] /\ cap' = [cap EXCEPT ![s] = h]
        /\ h > 0 => cap[s] > 0 /\ h >= cap[s] /\ b > 0 /\ b <= h
  BY <1>2, Zenon DEF Edited
<1>4. /\ budget' \in [Q!Scopes -> Budgets \cup {0}] /\ cap' \in [Q!Scopes -> Budgets \cup {0}]
      /\ \A z \in Q!Scopes : /\ budget'[z] = IF z = s THEN b ELSE budget[z]
                           /\ cap'[z] = IF z = s THEN h ELSE cap[z]
  BY <1>1, <1>3 DEF QuotaTypes
<1>5. QuotaTypes'
  BY <1>1, <1>4 DEF QuotaTypes
<1>6. \A z \in Q!Scopes, m \in Months : Owing(z, m)' = Owing(z, m)
  BY <1>1 DEF Owing
<1>7. ASSUME NEW z \in Q!Scopes, cap'[z] > 0
      PROVE  budget'[z] > 0 /\ budget'[z] <= cap'[z] /\ \A m \in Months : m <= month' => Balanced(z, m)'
  <2>1. cap[z] \in Nat /\ cap'[z] \in Nat
    <3>1. Budgets \cup {0} \subseteq Nat
      BY BudgetAssumption
    <3>2. h \in Nat
      BY <1>3, <3>1
    <3>3. cap[z] \in Nat
      BY <1>1, QuotaNumbers
    <3>4. cap'[z] = h \/ cap'[z] = cap[z]
      BY <1>4
    <3>5. QED
      BY <3>2, <3>3, <3>4
  <2>2. cap[z] > 0 /\ cap'[z] >= cap[z]
    BY <1>3, <1>4, <1>7, <2>1
  <2>3. budget'[z] > 0 /\ budget'[z] <= cap'[z]
    BY <1>3, <1>4, <1>7, <2>2 DEF QuotaInv
  <2>4. ASSUME NEW m \in Months, m <= month PROVE Balanced(z, m)'
    <3>1. PICK x \in Nat, y \in Nat : x = Most * Cardinality(Owing(z, m)) /\ y = Most * Cardinality(Reqs)
      BY AccountNumbers DEF Owing
    <3>2. billed[z][m] \in Nat
      BY <1>1, QuotaNumbers
    <3>3. billed[z][m] + x <= cap[z] - 1 + y
      BY <2>2, <2>4, <3>1 DEF QuotaInv, Balanced
    <3>4. billed[z][m] + x <= cap'[z] - 1 + y
      BY <2>1, <2>2, <3>1, <3>2, <3>3
    <3>5. QED
      BY <1>1, <1>6, <3>1, <3>4 DEF Balanced
  <2>5. QED
    BY <1>1, <2>3, <2>4
<1>8. QED
  BY <1>5, <1>7 DEF QuotaInv

\* The month ends: nothing was billed in the next one yet.
LEMMA MonthStep ==
  ASSUME QuotaInv, Q!NextMonth
  PROVE  QuotaInv'
<1>1. /\ UNCHANGED <<budget, billed, gate, cap>> /\ QuotaTypes /\ month' = month + 1 /\ month' \in Months
      /\ month \in Nat /\ Months \subseteq Nat
  BY QuotaNumbers DEF QuotaInv, Q!NextMonth
<1>2. QuotaTypes'
  <2>1. ASSUME NEW r \in Reqs, gate[r].pc # "away" PROVE gate[r].window \in Months /\ gate[r].window <= month'
    <3>1. gate[r].window \in Months /\ gate[r].window <= month
      BY <1>1, <2>1, QuotaNumbers
    <3>2. PICK w \in Nat : w = gate[r].window
      BY <1>1, <3>1
    <3>3. w <= month'
      BY <1>1, <3>1, <3>2
    <3>4. QED
      BY <3>1, <3>2, <3>3
  <2>2. \A s \in Q!Scopes, m \in Months : m > month' => billed[s][m] = 0
    BY <1>1 DEF QuotaTypes
  <2>3. QED
    BY <1>1, <2>1, <2>2 DEF QuotaTypes
<1>3. ASSUME NEW s \in Q!Scopes, cap[s] > 0, NEW m \in Months, m <= month + 1
      PROVE  Balanced(s, m)'
  <2>1. Owing(s, m)' = Owing(s, m)
    BY <1>1 DEF Owing
  <2>2. CASE m <= month
    BY <1>1, <1>3, <2>1, <2>2 DEF QuotaInv, Balanced
  <2>3. CASE m > month
    <3>1. billed[s][m] = 0 /\ cap[s] \in Nat
      BY <1>1, <2>3, QuotaNumbers DEF QuotaTypes
    <3>2. PICK x \in Nat, y \in Nat :
            x = Most * Cardinality(Owing(s, m)) /\ y = Most * Cardinality(Reqs) /\ x <= y
      BY AccountNumbers DEF Owing
    <3>3. billed[s][m] + x <= cap[s] - 1 + y
      BY <1>3, <3>1, <3>2
    <3>4. QED
      BY <1>1, <2>1, <3>2, <3>3 DEF Balanced
  <2>4. QED
    BY <1>1, <2>2, <2>3
<1>4. QED
  BY <1>1, <1>2, <1>3 DEF QuotaInv

\* Every step of the budgets.
LEMMA QuotaStep == QuotaInv /\ [Q!QuotaNext]_quotaVars => QuotaInv'
<1> SUFFICES ASSUME QuotaInv, [Q!QuotaNext]_quotaVars PROVE QuotaInv'
  OBVIOUS
<1>1. CASE UNCHANGED quotaVars
  <2>1. UNCHANGED <<budget, month, billed, gate, cap>>
    BY <1>1 DEF quotaVars
  <2>2. QuotaTypes' /\ \A s \in Q!Scopes, m \in Months : Balanced(s, m)' <=> Balanced(s, m)
    BY <2>1 DEF QuotaInv, QuotaTypes, Balanced, Owing
  <2>3. QED
    BY <2>1, <2>2 DEF QuotaInv
<1>2. ASSUME NEW r \in Reqs, \/ Q!Attribute(r) \/ Q!CreateRun(r) \/ Q!Refused(r) \/ Q!SettleCost(r)
                            \/ \E s \in Q!Scopes : Q!CheckScope(r, s) \/ Q!CheckFails(r, s)
      PROVE  QuotaInv'
  BY <1>2, SubmissionStep, CheckStep, BillStep
<1>3. ASSUME NEW s \in Q!Scopes, Q!SetBudget(s) \/ Q!ClearBudget(s) PROVE QuotaInv'
  BY <1>3, BudgetEditStep
<1>4. CASE Q!NextMonth
  BY <1>4, MonthStep
<1>5. QED
  BY <1>1, <1>2, <1>3, <1>4 DEF Q!QuotaNext

\* Before the first submission.
LEMMA QuotaStart == Q!QuotaInit => QuotaInv
<1> SUFFICES ASSUME Q!QuotaInit PROVE QuotaInv
  OBVIOUS
<1>1. /\ month = 1 /\ billed = [s \in Q!Scopes |-> [m \in Months |-> 0]]
      /\ budget \in [Q!Scopes -> Budgets] /\ cap = budget /\ gate = [r \in Reqs |-> Q!Away]
  BY DEF Q!QuotaInit
<1>2. Budgets \subseteq Nat \ {0} /\ Months \subseteq Nat /\ 1 \in Months
  BY BudgetAssumption
<1>3. Q!Away \in GateState /\ Q!Away.pc = "away"
  BY DEF Q!Away, GateState
<1>4. QuotaTypes
  BY <1>1, <1>2, <1>3 DEF QuotaTypes
<1>5. \A s \in Q!Scopes : cap[s] = budget[s] /\ budget[s] \in Nat /\ budget[s] > 0
  <2>1. \A x \in Budgets : x \in Nat /\ x > 0
    BY <1>2
  <2>2. \A s \in Q!Scopes : cap[s] = budget[s] /\ budget[s] \in Budgets
    BY <1>1, Zenon
  <2>3. QED
    BY <2>1, <2>2, Zenon
<1>6. ASSUME NEW s \in Q!Scopes, NEW m \in Months PROVE Balanced(s, m)
  <2>1. billed[s][m] = 0 /\ cap[s] \in Nat /\ cap[s] > 0
    BY <1>1, <1>5
  <2>2. PICK x \in Nat, y \in Nat :
          x = Most * Cardinality(Owing(s, m)) /\ y = Most * Cardinality(Reqs) /\ x <= y
    BY AccountNumbers DEF Owing
  <2>3. QED
    BY <2>1, <2>2 DEF Balanced
<1>7. \A s \in Q!Scopes : budget[s] > 0 /\ budget[s] <= cap[s]
  BY <1>5
<1>8. QED
  BY <1>4, <1>6, <1>7 DEF QuotaInv

\* What was billed beyond the highest limit.
LEMMA BudgetsFollow == QuotaInv => Q!QuotaTypeOK /\ Q!OverspendBounded
<1> SUFFICES ASSUME QuotaInv PROVE Q!QuotaTypeOK /\ Q!OverspendBounded
  OBVIOUS
<1>1. Q!QuotaTypeOK
  BY DEF QuotaInv, QuotaTypes, GateState, Q!QuotaTypeOK
<1>2. ASSUME NEW s \in Q!Scopes, cap[s] > 0, NEW m \in Months
      PROVE  billed[s][m] <= cap[s] - 1 + Cardinality(Reqs) * Most
  <2>1. PICK x \in Nat, y \in Nat :
          x = Most * Cardinality(Owing(s, m)) /\ y = Most * Cardinality(Reqs)
    BY AccountNumbers DEF Owing
  <2>2. y = Cardinality(Reqs) * Most
    BY <2>1, AccountNumbers
  <2>3. /\ billed[s][m] \in Nat /\ cap[s] \in Nat /\ month \in Nat /\ m \in Nat
        /\ m > month => billed[s][m] = 0
    BY QuotaNumbers DEF QuotaInv, QuotaTypes
  <2>4. m <= month => billed[s][m] + x <= cap[s] - 1 + y
    BY <1>2, <2>1 DEF QuotaInv, Balanced
  <2>5. QED
    BY <1>2, <2>1, <2>2, <2>3, <2>4
<1>3. Q!Cardinality(Reqs) = Cardinality(Reqs)
  BY Zenon DEF Q!Cardinality, Cardinality
<1>4. Q!OverspendBounded
  BY <1>2, <1>3 DEF Q!OverspendBounded, Most
<1>5. QED
  BY <1>1, <1>4

-----------------------------------------------------------------------------
(* The request limiter.                                                    *)

\* The largest burst a bucket may have.
Largest == Q!Max(Q!Bursts)

\* While an idle bucket waits for the sweeper, the rate would have filled any bucket.
RatesRefill == \A t \in Tunings : t[1] > 0 /\ t[2] > 0 => IdleTTL * t[1] >= Largest

BucketRow == [tokens : Nat, burst : Nat, seen : Nat, there : BOOLEAN]

LimitTypes ==
  /\ tick \in Nat /\ tunedAt \in Nat /\ tunedAt <= tick
  /\ rate \in Nat /\ burst \in Nat /\ <<rate, burst>> \in Tunings
  /\ asked \subseteq Keys /\ served \in [Keys -> Nat] /\ bucket \in [Keys -> BucketRow]
  /\ \A k \in Keys : /\ bucket[k].tokens <= bucket[k].burst /\ bucket[k].burst \in Q!Bursts \cup {0}
                     /\ bucket[k].seen <= tick

\* With the limiter on: what a key was let through and what its bucket still holds came
\* from one burst and the rate, also if only the time the bucket was seen last counts; a
\* key without a bucket could have filled one.
Earned(k) ==
  /\ bucket[k].there =>
       /\ served[k] + bucket[k].tokens <= Largest + rate * (tick - tunedAt)
       /\ served[k] = 0 \/ ( /\ bucket[k].seen >= tunedAt
                             /\ served[k] <= Largest + rate * (bucket[k].seen - tunedAt))
  /\ ~bucket[k].there => served[k] <= rate * (tick - tunedAt)

\* With the limiter off: only a request that had passed the check before is let through.
Leftover(k) ==
  /\ served[k] = 0 \/ (served[k] = 1 /\ k \notin asked /\ Largest >= 1)

\* The inductive invariant of the request limiter.
RateInv ==
  /\ LimitTypes
  /\ \A k \in Keys : IF Q!Enabled THEN Earned(k) ELSE Leftover(k)

\* The bursts.
LEMMA LargestIsLargest ==
  /\ Q!Bursts \subseteq Nat /\ Largest \in Nat
  /\ \A b \in Q!Bursts \cup {0} : b \in Nat /\ b <= Largest
  /\ \A t \in Tunings : t[1] \in Nat /\ t[2] \in Nat /\ t[2] \in Q!Bursts
<1>1. \A t \in Tunings : t[1] \in Nat /\ t[2] \in Nat /\ t[2] \in Q!Bursts
  BY TuningAssumption DEF Q!Bursts
<1>2. Q!Bursts \in SUBSET Nat /\ Q!Bursts # {} /\ IsFiniteSet(Q!Bursts)
  <2>1. Q!Bursts \in SUBSET Nat /\ Q!Bursts # {}
    BY <1>1, TuningAssumption DEF Q!Bursts
  <2>2. PICK n \in Nat : ExistsSurjection(1..n, Tunings)
    BY TuningAssumption, FS_NatSurjection
  <2>3. PICK f \in Surjection(1..n, Tunings) : TRUE
    BY <2>2 DEF ExistsSurjection
  <2>4. f \in [1..n -> Tunings] /\ \A t \in Tunings : \E i \in 1..n : f[i] = t
    BY <2>3 DEF Surjection
  <2>5. PICK g : g = [i \in 1..n |-> f[i][2]]
    OBVIOUS
  <2>6. g \in [1..n -> Q!Bursts] /\ \A b \in Q!Bursts : \E i \in 1..n : g[i] = b
    BY <2>4, <2>5 DEF Q!Bursts
  <2>7. g \in Surjection(1..n, Q!Bursts)
    BY <2>6 DEF Surjection
  <2>8. IsFiniteSet(Q!Bursts)
    BY <2>7, FS_NatSurjection DEF ExistsSurjection
  <2>9. QED
    BY <2>1, <2>8
<1>3. \E m \in Q!Bursts : \A k \in Q!Bursts : m >= k
  BY <1>2, GreatestOf
<1>4. Largest \in Q!Bursts /\ \A k \in Q!Bursts : Largest >= k
  BY <1>3, Zenon DEF Q!Max, Largest
<1>5. \A b \in Q!Bursts : b \in Nat /\ b <= Largest
  BY <1>2, <1>4
<1>6. Largest \in Nat /\ 0 <= Largest
  BY <1>2, <1>4
<1>7. QED
  BY <1>1, <1>2, <1>5, <1>6

\* A tick: the bucket gains what the rate gives, and so does its account.
LEMMA TickRates ==
  ASSUME RateInv, Q!TickLimit
  PROVE  RateInv'
<1>1. /\ tick' = tick + 1 /\ UNCHANGED <<rate, burst, asked, served, tunedAt>> /\ LimitTypes
      /\ bucket' = [k \in Keys |-> Q!Refill(bucket[k], rate)]
  BY DEF Q!TickLimit, RateInv
<1>2. PICK d \in Nat : tick = tunedAt + d
  <2>1. tick - tunedAt \in Nat /\ tick = tunedAt + (tick - tunedAt)
    BY <1>1 DEF LimitTypes
  <2>2. QED
    BY <2>1
<1>3. /\ tick - tunedAt = d /\ tick' - tunedAt' = d + 1 /\ rate \in Nat /\ rate * d \in Nat
      /\ rate * (d + 1) = rate * d + rate
  BY <1>1, <1>2, ProductStep DEF LimitTypes
<1>4. ASSUME NEW k \in Keys
      PROVE  /\ bucket[k] \in BucketRow /\ bucket'[k] \in BucketRow
             /\ bucket'[k].tokens <= bucket'[k].burst /\ bucket'[k].tokens <= bucket[k].tokens + rate
             /\ bucket'[k].burst = bucket[k].burst /\ bucket'[k].seen = bucket[k].seen
             /\ bucket'[k].there = bucket[k].there
  <2>1. bucket[k] \in BucketRow /\ bucket[k].tokens <= bucket[k].burst
    BY <1>1 DEF LimitTypes
  <2>2. PICK b \in BucketRow : b = bucket[k]
    BY <2>1
  <2>3. b.tokens \in Nat /\ b.burst \in Nat /\ b.tokens <= b.burst
    BY <2>1, <2>2 DEF BucketRow
  <2>4. PICK n \in Nat : n = IF b.tokens + rate > b.burst THEN b.burst ELSE b.tokens + rate
    BY <1>3, <2>3
  <2>5. n <= b.burst /\ n <= b.tokens + rate
    BY <1>3, <2>3, <2>4
  <2>6. bucket'[k] = [b EXCEPT !.tokens = n]
    BY <1>1, <2>2, <2>4 DEF Q!Refill
  <2>7. PICK c \in BucketRow : c = [b EXCEPT !.tokens = n]
    BY DEF BucketRow
  <2>8. c.tokens = n /\ c.burst = b.burst /\ c.seen = b.seen /\ c.there = b.there
    BY <2>2, <2>7 DEF BucketRow
  <2>9. QED
    BY <2>2, <2>5, <2>6, <2>7, <2>8
<1>5. LimitTypes'
  <2>1. \A k \in Keys : /\ bucket'[k].tokens <= bucket'[k].burst /\ bucket'[k].burst \in Q!Bursts \cup {0}
                        /\ bucket'[k].seen <= tick'
    <3>1. \A k \in Keys : bucket[k].burst \in Q!Bursts \cup {0} /\ bucket[k].seen <= tick
      BY <1>1 DEF LimitTypes
    <3>2. \A k \in Keys : bucket'[k].seen \in Nat /\ tick \in Nat
      BY <1>1, <1>4 DEF LimitTypes, BucketRow
    <3>3. QED
      BY <1>1, <1>4, <3>1, <3>2
  <2>2. bucket' \in [Keys -> BucketRow]
    BY <1>1, <1>4
  <2>3. QED
    BY <1>1, <2>1, <2>2 DEF LimitTypes
<1>6. ASSUME NEW k \in Keys, Q!Enabled, Earned(k) PROVE Earned(k)'
  <2>1. /\ bucket[k].tokens \in Nat /\ bucket'[k].tokens \in Nat /\ served[k] \in Nat /\ Largest \in Nat
    BY <1>1, <1>4, LargestIsLargest DEF LimitTypes, BucketRow
  <2>2. rate * (tick' - tunedAt') = rate * (tick - tunedAt) + rate /\ rate * (tick - tunedAt) \in Nat
    BY <1>3
  <2>3. QED
    BY <1>1, <1>3, <1>4, <1>6, <2>1, <2>2 DEF Earned
<1>7. ASSUME NEW k \in Keys, Leftover(k) PROVE Leftover(k)'
  BY <1>1, <1>7 DEF Leftover
<1>8. Q!Enabled' <=> Q!Enabled
  BY <1>1 DEF Q!Enabled
<1>9. QED
  BY <1>5, <1>6, <1>7, <1>8 DEF RateInv

\* A request passes the check.
LEMMA AskRates ==
  ASSUME RateInv, NEW k \in Keys, Q!Ask(k)
  PROVE  RateInv'
<1>1. /\ UNCHANGED <<tick, rate, burst, bucket, served, tunedAt>> /\ asked' = asked \cup {k}
      /\ Q!Enabled /\ Q!Enabled' /\ LimitTypes
  BY DEF Q!Ask, RateInv, Q!Enabled
<1>2. LimitTypes'
  BY <1>1 DEF LimitTypes
<1>3. \A j \in Keys : Earned(j)'
  BY <1>1 DEF RateInv, Earned
<1>4. QED
  BY <1>1, <1>2, <1>3 DEF RateInv

\* A request takes i tokens out of its bucket c and leaves d.
Takes(k, c, d, i) ==
  /\ bucket' = [bucket EXCEPT ![k] = d] /\ served' = [served EXCEPT ![k] = @ + i]
  /\ d.there /\ d.seen = tick /\ d.burst = c.burst /\ d.tokens + i = c.tokens /\ i <= 1

\* A request uses the bucket of its key, which is created full.
LEMMA AllowRates ==
  ASSUME RateInv, NEW k \in Keys, Q!Allow(k)
  PROVE  RateInv'
<1>1. /\ UNCHANGED <<tick, rate, burst, tunedAt>> /\ asked' = asked \ {k} /\ k \in asked
      /\ LimitTypes /\ (Q!Enabled' <=> Q!Enabled)
  BY DEF Q!Allow, RateInv, Q!Enabled
<1>2. /\ tick \in Nat /\ tunedAt \in Nat /\ tunedAt <= tick /\ burst \in Nat
      /\ burst \in Q!Bursts /\ burst <= Largest /\ Largest \in Nat /\ rate * (tick - tunedAt) \in Nat
  <2>1. burst \in Q!Bursts
    BY <1>1 DEF LimitTypes, Q!Bursts
  <2>2. tick - tunedAt \in Nat /\ rate \in Nat
    BY <1>1 DEF LimitTypes
  <2>3. QED
    BY <1>1, <2>1, <2>2, LargestIsLargest, ProductStep DEF LimitTypes
<1>3. PICK b \in BucketRow : b = bucket[k]
  BY <1>1 DEF LimitTypes
<1>4. PICK c \in BucketRow :
        /\ c = Q!BucketFor(k) /\ c.there /\ c.seen = tick
        /\ b.there => c.tokens = b.tokens /\ c.burst = b.burst
        /\ ~b.there => c.tokens = burst /\ c.burst = burst
  <2>1. CASE b.there
    <3>1. PICK c \in BucketRow : c = [b EXCEPT !.seen = tick]
      BY <1>2 DEF BucketRow
    <3>2. c.tokens = b.tokens /\ c.burst = b.burst /\ c.seen = tick /\ c.there = b.there
      BY <3>1 DEF BucketRow
    <3>3. QED
      BY <1>3, <2>1, <3>1, <3>2 DEF Q!BucketFor
  <2>2. CASE ~b.there
    <3>1. PICK c \in BucketRow : c = [tokens |-> burst, burst |-> burst, seen |-> tick, there |-> TRUE]
      BY <1>2 DEF BucketRow
    <3>2. QED
      BY <1>3, <2>2, <3>1 DEF Q!BucketFor
  <2>3. QED
    BY <2>1, <2>2
<1>5. /\ c.tokens \in Nat /\ c.burst \in Nat /\ c.tokens <= c.burst /\ c.burst \in Q!Bursts \cup {0}
      /\ c.tokens <= Largest
  <2>1. b.tokens <= b.burst /\ b.burst \in Q!Bursts \cup {0}
    BY <1>1, <1>3 DEF LimitTypes
  <2>2. c.tokens \in Nat /\ c.burst \in Nat
    BY DEF BucketRow
  <2>3. c.tokens <= c.burst /\ c.burst \in Q!Bursts \cup {0}
    BY <1>2, <1>4, <2>1, <2>2
  <2>4. QED
    BY <2>2, <2>3, LargestIsLargest
<1>6. \E d \in BucketRow, i \in Nat : Takes(k, c, d, i)
  <2>1. CASE c.tokens > 0
    <3>1. PICK n \in Nat : n = c.tokens - 1 /\ n + 1 = c.tokens
      BY <1>5, <2>1
    <3>2. PICK d \in BucketRow : d = [c EXCEPT !.tokens = n]
      BY DEF BucketRow
    <3>3. d.there = c.there /\ d.seen = c.seen /\ d.burst = c.burst /\ d.tokens = n
      BY <3>2 DEF BucketRow
    <3>4. bucket' = [bucket EXCEPT ![k] = d] /\ served' = [served EXCEPT ![k] = @ + 1]
      BY <1>4, <2>1, <3>1, <3>2 DEF Q!Allow
    <3>5. Takes(k, c, d, 1)
      BY <1>4, <3>1, <3>3, <3>4 DEF Takes
    <3>6. QED
      BY <3>5
  <2>2. CASE ~(c.tokens > 0)
    <3>1. c.tokens = 0
      BY <1>5, <2>2
    <3>2. bucket' = [bucket EXCEPT ![k] = c] /\ served' = served
      BY <1>4, <2>2 DEF Q!Allow
    <3>3. served' = [served EXCEPT ![k] = @ + 0]
      BY <1>1, <3>2 DEF LimitTypes
    <3>4. c.tokens + 0 = c.tokens /\ 0 <= 1
      BY <1>5
    <3>5. Takes(k, c, c, 0)
      BY <1>4, <3>2, <3>3, <3>4, Zenon DEF Takes
    <3>6. QED
      BY <3>5
  <2>3. QED
    BY <2>1, <2>2
<1>7. PICK d \in BucketRow, i \in Nat :
        /\ bucket' = [bucket EXCEPT ![k] = d] /\ served' = [served EXCEPT ![k] = @ + i]
        /\ d.there /\ d.seen = tick /\ d.burst = c.burst /\ d.tokens + i = c.tokens /\ i <= 1
  BY <1>6, Zenon DEF Takes
<1>8. /\ \A j \in Keys : j # k => bucket'[j] = bucket[j] /\ served'[j] = served[j]
      /\ bucket'[k] = d /\ served'[k] = served[k] + i /\ served[k] \in Nat
      /\ bucket' \in [Keys -> BucketRow] /\ served' \in [Keys -> Nat]
  BY <1>1, <1>7 DEF LimitTypes
<1>9. d.tokens \in Nat /\ d.tokens <= d.burst /\ d.burst \in Q!Bursts \cup {0}
  <2>1. d.tokens \in Nat /\ d.burst \in Nat
    BY DEF BucketRow
  <2>2. QED
    BY <1>5, <1>7, <2>1
<1>10. LimitTypes'
  <2>1. \A j \in Keys : /\ bucket'[j].tokens <= bucket'[j].burst /\ bucket'[j].burst \in Q!Bursts \cup {0}
                        /\ bucket'[j].seen <= tick
    <3>1. tick <= tick
      BY <1>2
    <3>2. QED
      BY <1>1, <1>7, <1>8, <1>9, <3>1 DEF LimitTypes
  <2>2. QED
    BY <1>1, <1>8, <2>1 DEF LimitTypes
<1>11. ASSUME NEW j \in Keys, j # k
       PROVE  (Earned(j) => Earned(j)') /\ (Leftover(j) => Leftover(j)')
  BY <1>1, <1>8, <1>11 DEF Earned, Leftover
<1>12. ASSUME Earned(k) PROVE Earned(k)'
  <2>1. PICK p \in Nat : p = rate * (tick - tunedAt)
    BY <1>2
  <2>2. served[k] + c.tokens <= Largest + p
    <3>1. CASE b.there
      BY <1>3, <1>4, <1>12, <2>1, <3>1 DEF Earned
    <3>2. CASE ~b.there
      BY <1>2, <1>3, <1>4, <1>8, <1>12, <2>1, <3>2 DEF Earned
    <3>3. QED
      BY <3>1, <3>2
  <2>3. served'[k] + d.tokens <= Largest + p /\ served'[k] <= Largest + p
    BY <1>2, <1>5, <1>7, <1>8, <1>9, <2>2
  <2>4. QED
    BY <1>1, <1>2, <1>7, <1>8, <2>1, <2>3 DEF Earned
<1>13. ASSUME Leftover(k) PROVE Leftover(k)'
  <2>1. served[k] = 0 /\ k \notin asked'
    BY <1>1, <1>13 DEF Leftover
  <2>2. i = 0 \/ (i = 1 /\ Largest >= 1)
    BY <1>2, <1>5, <1>7, <1>9
  <2>3. QED
    BY <1>8, <2>1, <2>2 DEF Leftover
<1>14. QED
  BY <1>1, <1>10, <1>11, <1>12, <1>13 DEF RateInv

\* A retuning starts a new account; the buckets keep what they have.
LEMMA SetRateRates ==
  ASSUME RateInv, NEW t \in Tunings, Q!SetRate(t)
  PROVE  RateInv'
<1>1. /\ UNCHANGED <<tick, bucket, asked>> /\ rate' = t[1] /\ burst' = t[2] /\ tunedAt' = tick
      /\ served' = [k \in Keys |-> 0] /\ LimitTypes
  BY DEF Q!SetRate, RateInv
<1>2. t[1] \in Nat /\ t[2] \in Nat /\ t = <<t[1], t[2]>> /\ Largest \in Nat
  BY TuningAssumption, LargestIsLargest
<1>3. LimitTypes'
  BY <1>1, <1>2 DEF LimitTypes
<1>4. ASSUME NEW k \in Keys PROVE Earned(k)' /\ Leftover(k)'
  <2>1. served'[k] = 0 /\ tick' - tunedAt' = 0 /\ rate' * 0 = 0
    BY <1>1, <1>2, ProductStep DEF LimitTypes
  <2>2. bucket[k].tokens \in Nat /\ bucket[k].tokens <= bucket[k].burst /\ bucket[k].burst \in Q!Bursts \cup {0}
    BY <1>1 DEF LimitTypes, BucketRow
  <2>3. bucket[k].burst \in Nat /\ bucket[k].burst <= Largest
    BY <2>2, LargestIsLargest
  <2>4. bucket[k].tokens <= Largest
    BY <1>2, <2>2, <2>3
  <2>5. QED
    BY <1>1, <1>2, <2>1, <2>2, <2>4 DEF Earned, Leftover
<1>5. QED
  BY <1>3, <1>4 DEF RateInv

\* The sweeper evicts a bucket: since it was seen last the rate has given a burst.
LEMMA SweepRates ==
  ASSUME RateInv, RatesRefill, Q!Sweep
  PROVE  RateInv'
<1>1. /\ UNCHANGED <<tick, rate, burst, asked, served, tunedAt>> /\ LimitTypes
      /\ bucket' = [k \in Keys |-> IF Q!Idle(bucket[k]) THEN Q!NoBucket ELSE bucket[k]]
      /\ (Q!Enabled' <=> Q!Enabled)
  BY DEF Q!Sweep, RateInv, Q!Enabled
<1>2. PICK e \in BucketRow : e = Q!NoBucket /\ e.tokens = 0 /\ e.burst = 0 /\ e.seen = 0 /\ ~e.there
  <2>1. Q!NoBucket \in BucketRow /\ Q!NoBucket.tokens = 0 /\ Q!NoBucket.burst = 0
        /\ Q!NoBucket.seen = 0 /\ ~Q!NoBucket.there
    BY DEF Q!NoBucket, BucketRow
  <2>2. QED
    BY <2>1
<1>3. ASSUME NEW k \in Keys
      PROVE  bucket'[k] = bucket[k] \/ (bucket'[k] = e /\ Q!Idle(bucket[k]))
  BY <1>1, <1>2
<1>4. LimitTypes'
  <2>1. bucket' \in [Keys -> BucketRow]
    BY <1>1, <1>2 DEF LimitTypes
  <2>2. 0 <= 0 /\ 0 <= tick
    BY <1>1 DEF LimitTypes
  <2>3. \A k \in Keys : /\ bucket'[k].tokens <= bucket'[k].burst /\ bucket'[k].burst \in Q!Bursts \cup {0}
                        /\ bucket'[k].seen <= tick
    BY <1>1, <1>2, <1>3, <2>2 DEF LimitTypes
  <2>4. QED
    BY <1>1, <2>1, <2>3 DEF LimitTypes
<1>5. ASSUME NEW k \in Keys, Q!Enabled, Earned(k) PROVE Earned(k)'
  <2>1. CASE bucket'[k] = bucket[k]
    BY <1>1, <1>5, <2>1 DEF Earned
  <2>2. CASE bucket'[k] = e /\ Q!Idle(bucket[k])
    <3>1. PICK s \in Nat : s = bucket[k].seen
      BY <1>1 DEF LimitTypes, BucketRow
    <3>2. bucket[k].there /\ s + IdleTTL < tick
      BY <2>2, <3>1 DEF Q!Idle
    <3>3. /\ tick \in Nat /\ tunedAt \in Nat /\ rate \in Nat /\ IdleTTL \in Nat /\ served[k] \in Nat
          /\ Largest \in Nat /\ tunedAt <= tick
      BY <1>1, TuningAssumption, LargestIsLargest DEF LimitTypes
    <3>4. Largest <= rate * IdleTTL
      <4>1. rate > 0 /\ burst > 0 /\ <<rate, burst>> \in Tunings
        BY <1>1, <1>5 DEF Q!Enabled, LimitTypes
      <4>2. IdleTTL * rate >= Largest
        BY <4>1 DEF RatesRefill
      <4>3. QED
        BY <3>3, <4>2
    <3>5. served[k] <= rate * (tick - tunedAt)
      <4>1. CASE served[k] = 0
        <5>1. tick - tunedAt \in Nat
          BY <3>3
        <5>2. rate * (tick - tunedAt) \in Nat
          BY <3>3, <5>1, ProductStep
        <5>3. QED
          BY <4>1, <5>2
      <4>2. CASE s >= tunedAt /\ served[k] <= Largest + rate * (s - tunedAt)
        <5>1. PICK d \in Nat : d = s - tunedAt
          BY <3>1, <3>3, <4>2
        <5>2. PICK x \in Nat : tick - tunedAt = (d + IdleTTL) + x
          <6>1. tick - (s + IdleTTL) \in Nat /\ tick - tunedAt = (d + IdleTTL) + (tick - (s + IdleTTL))
            BY <3>1, <3>2, <3>3, <5>1
          <6>2. QED
            BY <6>1
        <5>3. /\ rate * ((d + IdleTTL) + x) = (rate * d + rate * IdleTTL) + rate * x
              /\ rate * d \in Nat /\ rate * IdleTTL \in Nat /\ rate * x \in Nat
          BY <3>3, ProductStep
        <5>4. QED
          BY <3>3, <3>4, <4>2, <5>1, <5>2, <5>3
      <4>3. QED
        BY <1>5, <3>1, <3>2, <4>1, <4>2 DEF Earned
    <3>6. QED
      BY <1>1, <1>2, <2>2, <3>5 DEF Earned
  <2>3. QED
    BY <1>3, <2>1, <2>2
<1>6. ASSUME NEW k \in Keys, Leftover(k) PROVE Leftover(k)'
  BY <1>1, <1>6 DEF Leftover
<1>7. QED
  BY <1>1, <1>4, <1>5, <1>6 DEF RateInv

\* Every step of the limiter.
LEMMA RateStep == RatesRefill /\ RateInv /\ [Q!LimitNext]_limitVars => RateInv'
<1> SUFFICES ASSUME RatesRefill, RateInv, [Q!LimitNext]_limitVars PROVE RateInv'
  OBVIOUS
<1>1. CASE UNCHANGED limitVars
  <2>1. UNCHANGED <<tick, rate, burst, bucket, asked, served, tunedAt>>
    BY <1>1 DEF limitVars
  <2>2. LimitTypes' /\ (Q!Enabled' <=> Q!Enabled)
    BY <2>1 DEF RateInv, LimitTypes, Q!Enabled
  <2>3. \A k \in Keys : (Earned(k)' <=> Earned(k)) /\ (Leftover(k)' <=> Leftover(k))
    BY <2>1 DEF Earned, Leftover
  <2>4. QED
    BY <2>2, <2>3 DEF RateInv
<1>2. ASSUME NEW k \in Keys, Q!Ask(k) \/ Q!Allow(k) PROVE RateInv'
  BY <1>2, AskRates, AllowRates
<1>3. ASSUME NEW t \in Tunings, Q!SetRate(t) PROVE RateInv'
  BY <1>3, SetRateRates
<1>4. QED
  BY <1>1, <1>2, <1>3, TickRates, SweepRates DEF Q!LimitNext

\* Before the first request.
LEMMA RateStart == Q!LimitInit => RateInv
<1> SUFFICES ASSUME Q!LimitInit PROVE RateInv
  OBVIOUS
<1>1. /\ tick = 0 /\ tunedAt = 0 /\ asked = {} /\ served = [k \in Keys |-> 0]
      /\ bucket = [k \in Keys |-> Q!NoBucket]
  BY DEF Q!LimitInit
<1>2. PICK t \in Tunings : rate = t[1] /\ burst = t[2]
  BY DEF Q!LimitInit
<1>3. PICK e \in BucketRow : e = Q!NoBucket /\ e.tokens = 0 /\ e.burst = 0 /\ e.seen = 0 /\ ~e.there
  <2>1. Q!NoBucket \in BucketRow /\ Q!NoBucket.tokens = 0 /\ Q!NoBucket.burst = 0
        /\ Q!NoBucket.seen = 0 /\ ~Q!NoBucket.there
    BY DEF Q!NoBucket, BucketRow
  <2>2. QED
    BY <2>1
<1>4. rate \in Nat /\ burst \in Nat /\ <<rate, burst>> \in Tunings
  BY <1>2, TuningAssumption
<1>5. LimitTypes
  BY <1>1, <1>3, <1>4 DEF LimitTypes
<1>6. \A k \in Keys : Earned(k) /\ Leftover(k)
  <2>1. rate * (tick - tunedAt) = 0
    BY <1>1, <1>4
  <2>2. QED
    BY <1>1, <1>3, <2>1 DEF Earned, Leftover
<1>7. QED
  BY <1>5, <1>6 DEF RateInv

\* What a key was let through.
LEMMA RatesFollow == RateInv => Q!LimitTypeOK /\ Q!RateHolds
<1> SUFFICES ASSUME RateInv PROVE Q!LimitTypeOK /\ Q!RateHolds
  OBVIOUS
<1>1. LimitTypes
  BY DEF RateInv
<1>2. Q!LimitTypeOK
  BY <1>1 DEF LimitTypes, Q!LimitTypeOK
<1>3. ASSUME NEW k \in Keys PROVE served[k] <= Largest + rate * (tick - tunedAt)
  <2>1. tick - tunedAt \in Nat /\ rate \in Nat /\ served[k] \in Nat /\ bucket[k].tokens \in Nat
    BY <1>1 DEF LimitTypes, BucketRow
  <2>2. PICK p \in Nat : p = rate * (tick - tunedAt)
    BY <2>1, ProductStep
  <2>3. Largest \in Nat
    BY LargestIsLargest
  <2>4. CASE Earned(k)
    BY <2>1, <2>2, <2>3, <2>4 DEF Earned
  <2>5. CASE Leftover(k)
    BY <2>1, <2>2, <2>3, <2>5 DEF Leftover
  <2>6. QED
    BY <2>4, <2>5 DEF RateInv
<1>4. Q!RateHolds
  BY <1>3 DEF Q!RateHolds, Largest
<1>5. QED
  BY <1>2, <1>4

-----------------------------------------------------------------------------
(* The login throttler.                                                    *)

\* One key of a dimension: f its failures, u its lock, a the failures of its log, z the
\* late ones among them, r whether the full map refused it; N failures so far, now the clock.
Seen(N, now) == [n : 1..N, at : 1..now]

\* What the key holds comes from its log, and a lock stands for failures that are crowded.
KeyTyped(f, u, a, z, N, now) ==
  /\ IsFiniteSet(a) /\ a \subseteq Seen(N, now) /\ f \subseteq a /\ z \subseteq a
  /\ u \in Nat
LockEarned(f, u, a) ==
  /\ Cardinality(f) >= MaxFailures => u > 0
  /\ u > 0 => \E x \in a : x.at + Lockout = u /\ H!Crowded(x, a)

\* The key remembers every timely failure of the window, and its lock outlives those it
\* was set for, which is why the history may go with it.
WindowKept(f, a, z, r, now) == ~r => \A x \in a \ z : now < x.at + FailWindow => x \in f
LockOutlives(u, a, z) == u > 0 => \A x \in a \ z : x.at + Lockout <= u
CrowdLocks(u, a, z, r, now) ==
  ~r => \A x \in a \ z : H!Crowded(x, a \ z) /\ now < x.at + Lockout => x.at + Lockout <= u

KeyInv(f, u, a, z, r, N, now) ==
  /\ KeyTyped(f, u, a, z, N, now) /\ LockEarned(f, u, a)
  /\ WindowKept(f, a, z, r, now) /\ LockOutlives(u, a, z) /\ CrowdLocks(u, a, z, r, now)

\* What pruning, an expired lock and a sweep may take from a key.
Eased(f, u, g, v, now) ==
  \/ v = u /\ g \subseteq f /\ \A x \in f : now < x.at + FailWindow => x \in g
  \/ u > 0 /\ u <= now /\ g = {} /\ v = 0

LEMMA SizeIs == \A D : H!Cardinality(D) = Cardinality(D)
BY Zenon DEF H!Cardinality, Cardinality

\* More failures crowd no less.
LEMMA CrowdGrows ==
  ASSUME NEW a, IsFiniteSet(a), NEW b \in SUBSET a, NEW x, H!Crowded(x, b)
  PROVE  H!Crowded(x, a)
<1>1. PICK D, E : /\ D = {y \in b : y.n <= x.n /\ x.at < y.at + FailWindow}
                  /\ E = {y \in a : y.n <= x.n /\ x.at < y.at + FailWindow}
  OBVIOUS
<1>2. IsFiniteSet(E) /\ D \subseteq E
  BY <1>1, FS_Subset
<1>3. Cardinality(D) <= Cardinality(E) /\ Cardinality(D) \in Nat /\ Cardinality(E) \in Nat
  BY <1>2, FS_Subset, FS_CardinalityType
<1>4. H!Crowded(x, b) <=> Cardinality(D) >= MaxFailures
  BY <1>1, SizeIs, Zenon DEF H!Crowded
<1>5. H!Crowded(x, a) <=> Cardinality(E) >= MaxFailures
  BY <1>1, SizeIs, Zenon DEF H!Crowded
<1>6. QED
  BY <1>3, <1>4, <1>5, ThrottleAssumption

\* Easing a key, and easing it twice.
LEMMA EasedTwice ==
  ASSUME NEW f, NEW u \in Nat, NEW g, NEW v \in Nat, NEW h, NEW w \in Nat, NEW now \in Nat,
         Eased(f, u, g, v, now), Eased(g, v, h, w, now)
  PROVE  Eased(f, u, h, w, now)
BY DEF Eased

LEMMA KeyEased ==
  ASSUME NEW f, NEW u, NEW a, NEW z, NEW r, NEW N \in Nat, NEW now \in Nat, NEW g, NEW v,
         KeyInv(f, u, a, z, r, N, now), Eased(f, u, g, v, now)
  PROVE  KeyInv(g, v, a, z, r, N, now)
<1>1. /\ IsFiniteSet(f) /\ Cardinality(f) \in Nat /\ u \in Nat /\ v \in Nat
      /\ \A x \in a : x.at \in Nat
  BY FS_Subset, FS_CardinalityType DEF KeyInv, KeyTyped, Seen, Eased
<1>2. CASE v = u /\ g \subseteq f /\ \A x \in f : now < x.at + FailWindow => x \in g
  <2>1. Cardinality(g) \in Nat /\ Cardinality(g) <= Cardinality(f)
    BY <1>1, <1>2, FS_Subset, FS_CardinalityType
  <2>2. KeyTyped(g, v, a, z, N, now)
    BY <1>2 DEF KeyInv, KeyTyped
  <2>3. LockEarned(g, v, a)
    BY <1>1, <1>2, <2>1, ThrottleAssumption DEF KeyInv, LockEarned
  <2>4. WindowKept(g, a, z, r, now)
    BY <1>2 DEF KeyInv, WindowKept
  <2>5. QED
    BY <1>2, <2>2, <2>3, <2>4 DEF KeyInv
<1>3. CASE u > 0 /\ u <= now /\ g = {} /\ v = 0
  <2>1. KeyTyped(g, v, a, z, N, now)
    BY <1>3 DEF KeyInv, KeyTyped
  <2>2. LockEarned(g, v, a)
    BY <1>3, FS_EmptySet, ThrottleAssumption DEF LockEarned
  <2>3. \A x \in a \ z : x.at + Lockout <= u
    BY <1>3 DEF KeyInv, LockOutlives
  <2>4. WindowKept(g, a, z, r, now)
    BY <1>1, <1>3, <2>3, ThrottleAssumption DEF WindowKept
  <2>5. LockOutlives(v, a, z)
    BY <1>3 DEF LockOutlives
  <2>6. CrowdLocks(v, a, z, r, now)
    BY <1>1, <1>3, ThrottleAssumption DEF KeyInv, CrowdLocks
  <2>7. QED
    BY <2>1, <2>2, <2>4, <2>5, <2>6 DEF KeyInv
<1>4. QED
  BY <1>2, <1>3 DEF Eased

\* Another key's failure, and the clock.
LEMMA KeyLater ==
  ASSUME NEW f, NEW u, NEW a, NEW z, NEW r, NEW N \in Nat, NEW now \in Nat,
         NEW more \in Nat, NEW soon \in Nat, N <= more, now <= soon, KeyInv(f, u, a, z, r, N, now)
  PROVE  KeyInv(f, u, a, z, r, more, soon)
<1>1. \A x \in a : x.at \in Nat
  BY DEF KeyInv, KeyTyped, Seen
<1>2. KeyTyped(f, u, a, z, more, soon)
  <2>1. Seen(N, now) \subseteq Seen(more, soon)
    BY DEF Seen
  <2>2. QED
    BY <2>1 DEF KeyInv, KeyTyped
<1>3. WindowKept(f, a, z, r, soon)
  BY <1>1, ThrottleAssumption DEF KeyInv, WindowKept
<1>4. CrowdLocks(u, a, z, r, soon)
  BY <1>1, ThrottleAssumption DEF KeyInv, CrowdLocks
<1>5. QED
  BY <1>2, <1>3, <1>4 DEF KeyInv

\* A failure of the moment, recorded on a key that was pruned and is either free or locked.
LEMMA KeyRecord ==
  ASSUME NEW f, NEW u, NEW a, NEW z, NEW r, NEW N \in Nat, NEW now \in Nat, now > 0,
         KeyInv(f, u, a, z, r, N, now), u = 0 \/ u > now,
         \A x \in f : now < x.at + FailWindow,
         NEW F, F = [n |-> N + 1, at |-> now],
         NEW g, g = f \cup {F}, NEW b, b = a \cup {F},
         NEW y, y = (IF u > now THEN z \cup {F} ELSE z),
         NEW v, v = (IF Cardinality(g) >= MaxFailures THEN now + Lockout ELSE u)
  PROVE  KeyInv(g, v, b, y, r, N + 1, now)
<1>1. /\ IsFiniteSet(a) /\ a \subseteq Seen(N, now) /\ f \subseteq a /\ z \subseteq a /\ u \in Nat
      /\ F \in Seen(N + 1, now) /\ Seen(N, now) \subseteq Seen(N + 1, now) /\ F \notin Seen(N, now)
      /\ F.n = N + 1 /\ F.at = now
      /\ \A x \in Seen(N, now) : x.n \in Nat /\ x.n <= N /\ x.at \in Nat /\ x.at <= now
  BY DEF KeyInv, KeyTyped, Seen
<1>2. F \notin a /\ F \notin z /\ b \ y \subseteq (a \ z) \cup {F} /\ (u > now => b \ y = a \ z)
  BY <1>1
<1>3. IsFiniteSet(b) /\ IsFiniteSet(g) /\ Cardinality(g) \in Nat /\ v \in Nat
  <2>1. IsFiniteSet(b)
    BY <1>1, FS_AddElement
  <2>2. g \subseteq b
    BY <1>1
  <2>3. QED
    BY <1>1, <2>1, <2>2, FS_Subset, FS_CardinalityType, ThrottleAssumption
<1>4. KeyTyped(g, v, b, y, N + 1, now)
  BY <1>1, <1>3 DEF KeyTyped
<1>5. \A x \in b : x.at \in Nat /\ x.at + Lockout <= now + Lockout
  BY <1>1, ThrottleAssumption
<1>6. LockEarned(g, v, b)
  <2>1. CASE Cardinality(g) >= MaxFailures
    <3>1. g = {x \in g : x.n <= F.n /\ F.at < x.at + FailWindow}
      <4>1. ASSUME NEW x \in g PROVE x.n <= F.n /\ F.at < x.at + FailWindow
        BY <1>1, ThrottleAssumption
      <4>2. QED
        BY <4>1
    <3>2. H!Crowded(F, g)
      BY <2>1, <3>1, SizeIs, Zenon DEF H!Crowded
    <3>3. H!Crowded(F, b)
      BY <1>1, <1>3, <3>2, CrowdGrows
    <3>4. QED
      BY <1>1, <2>1, <3>3, ThrottleAssumption DEF LockEarned
  <2>2. CASE ~ (Cardinality(g) >= MaxFailures)
    <3>1. ASSUME u > 0 PROVE \E x \in b : x.at + Lockout = u /\ H!Crowded(x, b)
      <4>1. PICK x \in a : x.at + Lockout = u /\ H!Crowded(x, a)
        BY <3>1 DEF KeyInv, LockEarned
      <4>2. H!Crowded(x, b)
        BY <1>3, <4>1, CrowdGrows
      <4>3. QED
        BY <4>1, <4>2
    <3>2. QED
      BY <2>2, <3>1 DEF LockEarned
  <2>3. QED
    BY <2>1, <2>2
<1>7. WindowKept(g, b, y, r, now)
  BY <1>2 DEF KeyInv, WindowKept
<1>8. LockOutlives(v, b, y)
  BY <1>2, <1>5 DEF KeyInv, LockOutlives
<1>9. CrowdLocks(v, b, y, r, now)
  <2>1. CASE Cardinality(g) >= MaxFailures
    BY <1>5, <2>1 DEF CrowdLocks
  <2>2. CASE ~ (Cardinality(g) >= MaxFailures) /\ u > now
    BY <1>2, <2>2 DEF KeyInv, CrowdLocks
  <2>3. CASE ~ (Cardinality(g) >= MaxFailures) /\ u = 0
    <3> SUFFICES ASSUME ~r, NEW x \in b \ y, H!Crowded(x, b \ y), now < x.at + Lockout
                 PROVE  FALSE
      BY DEF CrowdLocks
    <3>1. PICK D : D = {w \in b \ y : w.n <= x.n /\ x.at < w.at + FailWindow}
      OBVIOUS
    <3>2. Cardinality(D) >= MaxFailures
      BY <3>1, SizeIs, Zenon DEF H!Crowded
    <3>3. x # F
      <4>1. SUFFICES ASSUME x = F PROVE FALSE
        OBVIOUS
      <4>2. D \subseteq g
        BY <1>1, <1>7, <3>1, <4>1 DEF WindowKept
      <4>3. Cardinality(D) \in Nat /\ Cardinality(D) <= Cardinality(g)
        BY <1>3, <4>2, FS_Subset, FS_CardinalityType
      <4>4. QED
        BY <1>3, <2>3, <3>2, <4>3, ThrottleAssumption
    <3>4. x \in a \ z /\ x.n \in Nat /\ x.n <= N
      BY <1>1, <1>2, <3>3
    <3>5. D = {w \in a \ z : w.n <= x.n /\ x.at < w.at + FailWindow}
      BY <1>1, <1>2, <2>3, <3>1, <3>4
    <3>6. H!Crowded(x, a \ z)
      BY <3>2, <3>5, SizeIs, Zenon DEF H!Crowded
    <3>7. x.at + Lockout <= u
      BY <3>4, <3>6 DEF KeyInv, CrowdLocks
    <3>8. QED
      BY <1>1, <2>3, <3>4, <3>7, ThrottleAssumption
  <2>4. QED
    BY <2>1, <2>2, <2>3
<1>10. QED
  BY <1>4, <1>6, <1>7, <1>8, <1>9 DEF KeyInv

\* A failure the full map refuses is in the log alone.
LEMMA KeyRefused ==
  ASSUME NEW f, NEW u, NEW a, NEW z, NEW r, NEW N \in Nat, NEW now \in Nat, now > 0,
         KeyInv(f, u, a, z, r, N, now), u = 0 \/ u > now,
         NEW F, F = [n |-> N + 1, at |-> now],
         NEW b, b = a \cup {F}, NEW y, y = (IF u > now THEN z \cup {F} ELSE z)
  PROVE  KeyInv(f, u, b, y, TRUE, N + 1, now)
<1>1. /\ IsFiniteSet(a) /\ a \subseteq Seen(N, now) /\ f \subseteq a /\ z \subseteq a /\ u \in Nat
      /\ F \in Seen(N + 1, now) /\ Seen(N, now) \subseteq Seen(N + 1, now) /\ F \notin Seen(N, now)
  BY DEF KeyInv, KeyTyped, Seen
<1>2. IsFiniteSet(b) /\ (u > now => b \ y = a \ z)
  BY <1>1, FS_AddElement
<1>3. KeyTyped(f, u, b, y, N + 1, now)
  BY <1>1, <1>2 DEF KeyTyped
<1>4. LockEarned(f, u, b)
  <2>1. ASSUME u > 0 PROVE \E x \in b : x.at + Lockout = u /\ H!Crowded(x, b)
    <3>1. PICK x \in a : x.at + Lockout = u /\ H!Crowded(x, a)
      BY <2>1 DEF KeyInv, LockEarned
    <3>2. H!Crowded(x, b)
      BY <1>2, <3>1, CrowdGrows
    <3>3. QED
      BY <3>1, <3>2
  <2>2. QED
    BY <2>1 DEF KeyInv, LockEarned
<1>5. LockOutlives(u, b, y)
  BY <1>1, <1>2 DEF KeyInv, LockOutlives
<1>6. QED
  BY <1>3, <1>4, <1>5 DEF KeyInv, WindowKept, CrowdLocks

\* A success leaves the key empty.
LEMMA KeyEmpty ==
  ASSUME NEW N \in Nat, NEW now \in Nat
  PROVE  KeyInv({}, 0, {}, {}, FALSE, N, now)
BY FS_EmptySet, ThrottleAssumption
   DEF KeyInv, KeyTyped, LockEarned, WindowKept, LockOutlives, CrowdLocks

\* What the invariant says of the gate: it is closed by a lock that was earned, and by one
\* that is due.
GateSays(f, u, a, z, r, now) ==
  /\ u > now => \E x \in a : H!Crowded(x, a) /\ now < x.at + Lockout
  /\ Cardinality(f) >= MaxFailures => u > 0
  /\ ~r /\ (\E x \in a \ z : H!Crowded(x, a \ z) /\ now < x.at + Lockout) => u > now

LEMMA KeyGate ==
  ASSUME NEW f, NEW u, NEW a, NEW z, NEW r, NEW N \in Nat, NEW now \in Nat,
         KeyInv(f, u, a, z, r, N, now)
  PROVE  GateSays(f, u, a, z, r, now)
<1>1. u \in Nat /\ \A x \in a : x.at \in Nat
  BY DEF KeyInv, KeyTyped, Seen
<1>2. ASSUME u > now PROVE \E x \in a : H!Crowded(x, a) /\ now < x.at + Lockout
  <2>1. u > 0
    BY <1>1, <1>2
  <2>2. PICK x \in a : x.at + Lockout = u /\ H!Crowded(x, a)
    BY <2>1 DEF KeyInv, LockEarned
  <2>3. QED
    BY <1>2, <2>2
<1>3. Cardinality(f) >= MaxFailures => u > 0
  BY DEF KeyInv, LockEarned
<1>4. ASSUME ~r, NEW x \in a \ z, H!Crowded(x, a \ z), now < x.at + Lockout PROVE u > now
  <2>1. x.at + Lockout <= u
    BY <1>4 DEF KeyInv, CrowdLocks
  <2>2. QED
    BY <1>1, <1>4, <2>1, ThrottleAssumption
<1>5. QED
  BY <1>2, <1>3, <1>4, Zenon DEF GateSays

\* One dimension with its log, what may be taken from it, and a key without failures that
\* left the window.
DimTyped(d, keys) == DOMAIN d.fails = keys /\ d.until \in [keys -> Nat]
LogTyped(log, keys) == DOMAIN log.all = keys /\ DOMAIN log.late = keys
KeyHolds(d, log, k, N, now) ==
  KeyInv(d.fails[k], d.until[k], log.all[k], log.late[k], k \in log.refused, N, now)
DimInv(d, log, keys, N, now) ==
  DimTyped(d, keys) /\ LogTyped(log, keys) /\ \A k \in keys : KeyHolds(d, log, k, N, now)

DimEased(d, e, keys) ==
  DimTyped(e, keys) /\ \A k \in keys : Eased(d.fails[k], d.until[k], e.fails[k], e.until[k], clock)
Pruned(d, k) == \A x \in d.fails[k] : clock < x.at + FailWindow

LEMMA PruneStep ==
  ASSUME NEW keys, NEW d, DimTyped(d, keys), NEW k \in keys
  PROVE  DimEased(d, H!Prune(d, k), keys) /\ Pruned(H!Prune(d, k), k)
<1>1. PICK e : e = H!Prune(d, k)
  OBVIOUS
<1>2. /\ e.until = d.until /\ DOMAIN e.fails = keys
      /\ e.fails[k] = {x \in d.fails[k] : x.at + FailWindow > clock}
      /\ \A j \in keys : j # k => e.fails[j] = d.fails[j]
  BY <1>1 DEF H!Prune, DimTyped
<1>3. Pruned(e, k)
  BY <1>2 DEF Pruned
<1>4. ASSUME NEW j \in keys PROVE Eased(d.fails[j], d.until[j], e.fails[j], e.until[j], clock)
  BY <1>2 DEF Eased
<1>5. QED
  BY <1>1, <1>2, <1>3, <1>4 DEF DimEased, DimTyped

\* What a check takes from its key: an expired lock goes with the history.
LEMMA RefreshStep ==
  ASSUME NEW keys, NEW d, DimTyped(d, keys), NEW k \in keys, clock \in Nat
  PROVE  /\ DimEased(d, H!Refresh(d, k), keys) /\ Pruned(H!Refresh(d, k), k)
         /\ H!LockExpired(d, k) => /\ DimEased(d, H!Forget(d, k), keys)
                                   /\ H!Forget(d, k).fails[k] = {} /\ H!Forget(d, k).until[k] = 0
         /\ H!Refresh(d, k).until[k] = 0 \/ H!Refresh(d, k).until[k] > clock
         /\ H!LockExpired(d, k) => H!Refresh(d, k).fails[k] = {}
         /\ H!Refresh(d, k).fails[k] \subseteq d.fails[k]
<1>1. PICK e : e = H!Forget(d, k)
  OBVIOUS
<1>2. /\ e.until = [d.until EXCEPT ![k] = 0] /\ DOMAIN e.fails = keys
      /\ e.fails[k] = {} /\ e.until[k] = 0 /\ e.until \in [keys -> Nat]
      /\ \A j \in keys : j # k => e.fails[j] = d.fails[j] /\ e.until[j] = d.until[j]
  BY <1>1 DEF H!Forget, DimTyped
<1>3. ASSUME H!LockExpired(d, k) PROVE DimEased(d, e, keys)
  <2>1. d.until[k] > 0 /\ d.until[k] <= clock
    BY <1>3 DEF H!LockExpired, DimTyped
  <2>2. ASSUME NEW j \in keys PROVE Eased(d.fails[j], d.until[j], e.fails[j], e.until[j], clock)
    BY <1>2, <2>1 DEF Eased
  <2>3. QED
    BY <1>2, <2>2 DEF DimEased, DimTyped
<1>4. PICK g : g = IF H!LockExpired(d, k) THEN e ELSE d
  OBVIOUS
<1>5. DimTyped(g, keys) /\ H!Refresh(d, k) = H!Prune(g, k)
  BY <1>1, <1>2, <1>4, Zenon DEF DimTyped, H!Refresh
<1>6. PICK h : h = H!Prune(g, k)
  OBVIOUS
<1>7. DimEased(g, h, keys) /\ Pruned(h, k)
  BY <1>5, <1>6, PruneStep
<1>8. h.until = g.until /\ h.fails[k] \subseteq g.fails[k]
  <2>1. DOMAIN g.fails = keys
    BY <1>5 DEF DimTyped
  <2>2. QED
    BY <1>6, <2>1 DEF H!Prune
<1>9. DimEased(d, h, keys)
  <2>1. CASE H!LockExpired(d, k)
    <3>1. DimEased(d, g, keys)
      BY <1>3, <1>4, <2>1
    <3>2. ASSUME NEW j \in keys PROVE Eased(d.fails[j], d.until[j], h.fails[j], h.until[j], clock)
      <4>1. /\ Eased(d.fails[j], d.until[j], g.fails[j], g.until[j], clock)
            /\ Eased(g.fails[j], g.until[j], h.fails[j], h.until[j], clock)
            /\ d.until[j] \in Nat /\ g.until[j] \in Nat /\ h.until[j] \in Nat
        BY <1>7, <3>1 DEF DimEased, DimTyped
      <4>2. QED
        BY <4>1, EasedTwice
    <3>3. QED
      BY <1>7, <3>2 DEF DimEased
  <2>2. CASE ~H!LockExpired(d, k)
    BY <1>4, <1>7, <2>2
  <2>3. QED
    BY <2>1, <2>2
<1>10. /\ h.until[k] = 0 \/ h.until[k] > clock
       /\ H!LockExpired(d, k) => h.fails[k] = {}
       /\ h.fails[k] \subseteq d.fails[k]
  BY <1>2, <1>4, <1>8 DEF DimTyped, H!LockExpired
<1>11. QED
  BY <1>1, <1>2, <1>3, <1>5, <1>6, <1>7, <1>9, <1>10

LEMMA SweepStepAll ==
  ASSUME NEW keys, NEW d, DimTyped(d, keys), clock \in Nat
  PROVE  /\ DimEased(d, H!SweepAll(d), keys)
         /\ \A k \in keys : Pruned(H!SweepAll(d), k)
<1>1. PICK e : e = H!SweepAll(d)
  OBVIOUS
<1>2. DOMAIN d.fails = keys /\ DOMAIN d.until = keys
  BY DEF DimTyped
<1>3. /\ DOMAIN e.fails = keys /\ DOMAIN e.until = keys /\ e.until = [k \in keys |-> H!Refresh(d, k).until[k]]
      /\ \A k \in keys : /\ e.fails[k] = H!Refresh(d, k).fails[k]
                         /\ e.until[k] = H!Refresh(d, k).until[k]
  BY <1>1, <1>2 DEF H!SweepAll
<1>4. ASSUME NEW k \in keys
      PROVE  /\ Eased(d.fails[k], d.until[k], e.fails[k], e.until[k], clock)
             /\ Pruned(e, k) /\ e.until[k] \in Nat
  <2>1. DimEased(d, H!Refresh(d, k), keys) /\ Pruned(H!Refresh(d, k), k)
    BY RefreshStep
  <2>2. H!Refresh(d, k).until[k] \in Nat
    BY <2>1 DEF DimEased, DimTyped
  <2>3. QED
    BY <1>3, <2>1, <2>2, Zenon DEF DimEased, Pruned
<1>5. e.until \in [keys -> Nat]
  BY <1>3, <1>4
<1>6. QED
  BY <1>1, <1>3, <1>4, <1>5, Zenon DEF DimEased, DimTyped

\* Easing keeps the dimension's invariant, and is done twice as once.
LEMMA DimKept ==
  ASSUME NEW keys, NEW d, NEW e, NEW log, NEW N \in Nat, clock \in Nat,
         DimInv(d, log, keys, N, clock), DimEased(d, e, keys)
  PROVE  DimInv(e, log, keys, N, clock)
<1>1. ASSUME NEW k \in keys PROVE KeyHolds(e, log, k, N, clock)
  <2>1. /\ KeyInv(d.fails[k], d.until[k], log.all[k], log.late[k], k \in log.refused, N, clock)
        /\ Eased(d.fails[k], d.until[k], e.fails[k], e.until[k], clock)
    BY DEF DimInv, DimEased, KeyHolds
  <2>2. QED
    BY <2>1, KeyEased DEF KeyHolds
<1>2. QED
  BY <1>1 DEF DimInv, DimEased

LEMMA DimTwice ==
  ASSUME NEW keys, NEW d, NEW e, NEW h, clock \in Nat, DimTyped(d, keys),
         DimEased(d, e, keys), DimEased(e, h, keys)
  PROVE  DimEased(d, h, keys)
<1>1. ASSUME NEW j \in keys PROVE Eased(d.fails[j], d.until[j], h.fails[j], h.until[j], clock)
  <2>1. /\ Eased(d.fails[j], d.until[j], e.fails[j], e.until[j], clock)
        /\ Eased(e.fails[j], e.until[j], h.fails[j], h.until[j], clock)
        /\ d.until[j] \in Nat /\ e.until[j] \in Nat /\ h.until[j] \in Nat
    BY DEF DimEased, DimTyped
  <2>2. QED
    BY <2>1, EasedTwice
<1>2. QED
  BY <1>1 DEF DimEased

LEMMA DimSame ==
  ASSUME NEW keys, NEW d, DimTyped(d, keys)
  PROVE  DimEased(d, d, keys)
BY DEF DimEased, Eased

\* Later the invariant holds as well.
LEMMA DimLater ==
  ASSUME NEW keys, NEW d, NEW log, NEW N \in Nat, NEW now \in Nat, NEW soon \in Nat, now <= soon,
         DimInv(d, log, keys, N, now)
  PROVE  DimInv(d, log, keys, N, soon)
BY KeyLater DEF DimInv, KeyHolds

\* A lock is what it was, gone, or set by a failure of the moment.
Held(d, e, keys) ==
  \A j \in keys : e.until[j] = 0 \/ e.until[j] = d.until[j] \/ e.until[j] = clock + Lockout

LEMMA HeldSteps ==
  ASSUME NEW keys, NEW d, NEW e, NEW h
  PROVE  /\ DimEased(d, e, keys) => Held(d, e, keys)
         /\ Held(d, e, keys) /\ Held(e, h, keys) => Held(d, h, keys)
BY DEF DimEased, Eased, Held

\* One failure: noted in the log, and recorded if the map admits its key.
LEMMA DimRecord ==
  ASSUME NEW keys, NEW d, NEW log, NEW k \in keys, NEW ok \in BOOLEAN, NEW e,
         failed \in Nat, clock \in Nat, clock > 0, DimInv(d, log, keys, failed, clock),
         d.until[k] = 0 \/ d.until[k] > clock, DimEased(d, e, keys), Pruned(e, k),
         NEW h, h = (IF ok THEN H!Record(e, k) ELSE e)
  PROVE  DimInv(h, H!Noted(log, d, k, ok), keys, failed + 1, clock) /\ Held(d, h, keys)
<1>1. DimInv(e, log, keys, failed, clock)
  BY DimKept
<1>2. /\ DOMAIN e.fails = keys /\ e.until \in [keys -> Nat] /\ d.until \in [keys -> Nat]
      /\ DOMAIN log.all = keys /\ DOMAIN log.late = keys
  BY <1>1 DEF DimInv, DimTyped, LogTyped
<1>3. /\ KeyInv(e.fails[k], e.until[k], log.all[k], log.late[k], k \in log.refused, failed, clock)
      /\ e.until[k] = 0 \/ e.until[k] > clock
      /\ d.until[k] > clock <=> e.until[k] > clock
      /\ \A x \in e.fails[k] : clock < x.at + FailWindow
  <2>1. Eased(d.fails[k], d.until[k], e.fails[k], e.until[k], clock)
    BY DEF DimEased
  <2>2. QED
    BY <1>1, <1>2, <2>1 DEF DimInv, KeyHolds, Pruned, Eased
<1>4. PICK F : F = [n |-> failed + 1, at |-> clock]
  OBVIOUS
<1>5. PICK m : m = H!Noted(log, d, k, ok)
  OBVIOUS
<1>6. /\ LogTyped(m, keys)
      /\ m.all[k] = log.all[k] \cup {F}
      /\ m.late[k] = (IF e.until[k] > clock THEN log.late[k] \cup {F} ELSE log.late[k])
      /\ k \in m.refused <=> k \in log.refused \/ ~ok
      /\ \A j \in keys : j # k => /\ m.all[j] = log.all[j] /\ m.late[j] = log.late[j]
                                  /\ (j \in m.refused <=> j \in log.refused)
  BY <1>2, <1>3, <1>4, <1>5 DEF H!Noted, H!Failure, LogTyped
<1>7. CASE ok
  <2>1. PICK g : g = e.fails[k] \cup {F}
    OBVIOUS
  <2>2. PICK v : v = IF Cardinality(g) >= MaxFailures THEN clock + Lockout ELSE e.until[k]
    OBVIOUS
  <2>3. /\ h.fails = [e.fails EXCEPT ![k] = g]
        /\ h.until = IF Cardinality(g) >= MaxFailures THEN [e.until EXCEPT ![k] = clock + Lockout] ELSE e.until
    <3>1. h = [fails |-> [e.fails EXCEPT ![k] = g],
               until |-> IF Cardinality(g) >= MaxFailures THEN [e.until EXCEPT ![k] = clock + Lockout] ELSE e.until]
      BY <1>4, <1>7, <2>1, SizeIs, Zenon DEF H!Record, H!Failure
    <3>2. QED
      BY <3>1
  <2>4. /\ DimTyped(h, keys) /\ h.fails[k] = g /\ h.until[k] = v
        /\ \A j \in keys : j # k => h.fails[j] = e.fails[j] /\ h.until[j] = e.until[j]
    BY <1>2, <2>2, <2>3, ThrottleAssumption DEF DimTyped
  <2>5. KeyHolds(h, m, k, failed + 1, clock)
    <3>1. KeyInv(g, v, m.all[k], m.late[k], k \in log.refused, failed + 1, clock)
      <4>1. PICK f, u, a, z, b, y :
              /\ f = e.fails[k] /\ u = e.until[k] /\ a = log.all[k] /\ z = log.late[k]
              /\ b = m.all[k] /\ y = m.late[k]
        OBVIOUS
      <4>2. /\ u = 0 \/ u > clock
            /\ \A x \in f : clock < x.at + FailWindow
            /\ g = f \cup {F} /\ b = a \cup {F} /\ y = (IF u > clock THEN z \cup {F} ELSE z)
            /\ v = (IF Cardinality(g) >= MaxFailures THEN clock + Lockout ELSE u)
        BY <1>3, <1>6, <2>1, <2>2, <4>1
      <4>3. ASSUME NEW r, KeyInv(f, u, a, z, r, failed, clock)
            PROVE  KeyInv(g, v, b, y, r, failed + 1, clock)
        BY <1>4, <4>2, <4>3, KeyRecord
      <4>4. KeyInv(f, u, a, z, k \in log.refused, failed, clock)
        BY <1>3, <4>1, Zenon
      <4>5. QED
        BY <4>1, <4>3, <4>4, Zenon
    <3>2. (k \in m.refused) = (k \in log.refused)
      BY <1>6, <1>7
    <3>3. QED
      BY <2>4, <3>1, <3>2, Zenon DEF KeyHolds
  <2>6. ASSUME NEW j \in keys, j # k PROVE KeyHolds(h, m, j, failed + 1, clock)
    <3>1. KeyInv(e.fails[j], e.until[j], log.all[j], log.late[j], j \in log.refused, failed, clock)
      BY <1>1 DEF DimInv, KeyHolds
    <3>2. KeyInv(e.fails[j], e.until[j], log.all[j], log.late[j], j \in log.refused, failed + 1, clock)
      BY <3>1, KeyLater
    <3>3. (j \in m.refused) = (j \in log.refused)
      BY <1>6, <2>6
    <3>4. QED
      BY <1>6, <2>4, <2>6, <3>2, <3>3, Zenon DEF KeyHolds
  <2>7. Held(e, h, keys)
    BY <2>2, <2>4 DEF Held
  <2>8. QED
    BY <1>5, <1>6, <2>4, <2>5, <2>6, <2>7, HeldSteps, Zenon DEF DimInv
<1>8. CASE ~ok
  <2>1. h = e
    BY <1>8
  <2>2. KeyHolds(h, m, k, failed + 1, clock)
    <3>1. KeyInv(e.fails[k], e.until[k], m.all[k], m.late[k], TRUE, failed + 1, clock)
      <4>1. PICK f, u, a, z, b, y :
              /\ f = e.fails[k] /\ u = e.until[k] /\ a = log.all[k] /\ z = log.late[k]
              /\ b = m.all[k] /\ y = m.late[k]
        OBVIOUS
      <4>2. /\ u = 0 \/ u > clock
            /\ b = a \cup {F} /\ y = (IF u > clock THEN z \cup {F} ELSE z)
        BY <1>3, <1>6, <4>1
      <4>3. ASSUME NEW r, KeyInv(f, u, a, z, r, failed, clock)
            PROVE  KeyInv(f, u, b, y, TRUE, failed + 1, clock)
        BY <1>4, <4>2, <4>3, KeyRefused
      <4>4. KeyInv(f, u, a, z, k \in log.refused, failed, clock)
        BY <1>3, <4>1, Zenon
      <4>5. QED
        BY <4>1, <4>3, <4>4, Zenon
    <3>2. (k \in m.refused) = TRUE
      BY <1>6, <1>8
    <3>3. QED
      BY <2>1, <3>1, <3>2, Zenon DEF KeyHolds
  <2>3. ASSUME NEW j \in keys, j # k PROVE KeyHolds(h, m, j, failed + 1, clock)
    <3>1. KeyInv(e.fails[j], e.until[j], log.all[j], log.late[j], j \in log.refused, failed, clock)
      BY <1>1 DEF DimInv, KeyHolds
    <3>2. KeyInv(e.fails[j], e.until[j], log.all[j], log.late[j], j \in log.refused, failed + 1, clock)
      BY <3>1, KeyLater
    <3>3. (j \in m.refused) = (j \in log.refused)
      BY <1>6, <2>3
    <3>4. QED
      BY <1>6, <2>1, <2>3, <3>2, <3>3, Zenon DEF KeyHolds
  <2>4. QED
    BY <1>1, <1>5, <1>6, <2>1, <2>2, <2>3, HeldSteps, Zenon DEF DimInv
<1>9. QED
  BY <1>7, <1>8

\* A success empties its key.
LEMMA DimCleared ==
  ASSUME NEW keys, NEW d, NEW log, NEW k \in keys, failed \in Nat, clock \in Nat,
         DimInv(d, log, keys, failed, clock)
  PROVE  /\ DimInv(H!Forget(d, k), H!Cleared(log, k), keys, failed, clock)
         /\ Held(d, H!Forget(d, k), keys)
<1>1. PICK h, m : h = H!Forget(d, k) /\ m = H!Cleared(log, k)
  OBVIOUS
<1>2. /\ DOMAIN d.fails = keys /\ d.until \in [keys -> Nat]
      /\ DOMAIN log.all = keys /\ DOMAIN log.late = keys
  BY DEF DimInv, DimTyped, LogTyped
<1>3. /\ DimTyped(h, keys) /\ h.fails[k] = {} /\ h.until[k] = 0
      /\ \A j \in keys : j # k => h.fails[j] = d.fails[j] /\ h.until[j] = d.until[j]
  BY <1>1, <1>2 DEF H!Forget, DimTyped
<1>4. /\ LogTyped(m, keys) /\ m.all[k] = {} /\ m.late[k] = {} /\ k \notin m.refused
      /\ \A j \in keys : j # k => /\ m.all[j] = log.all[j] /\ m.late[j] = log.late[j]
                                  /\ (j \in m.refused) = (j \in log.refused)
  BY <1>1, <1>2 DEF H!Cleared, LogTyped
<1>5. KeyHolds(h, m, k, failed, clock)
  <2>1. (k \in m.refused) = FALSE
    BY <1>4
  <2>2. KeyInv({}, 0, {}, {}, FALSE, failed, clock)
    BY KeyEmpty
  <2>3. QED
    BY <1>3, <1>4, <2>1, <2>2, Zenon DEF KeyHolds
<1>6. ASSUME NEW j \in keys, j # k PROVE KeyHolds(h, m, j, failed, clock)
  <2>1. KeyHolds(d, log, j, failed, clock)
    BY DEF DimInv
  <2>2. QED
    BY <1>3, <1>4, <1>6, <2>1, Zenon DEF KeyHolds
<1>7. Held(d, h, keys)
  BY <1>3 DEF Held
<1>8. QED
  BY <1>1, <1>3, <1>4, <1>5, <1>6, <1>7, Zenon DEF DimInv

\* The gate refuses exactly the keys whose lock holds: a full window has always locked.
LEMMA LockedKey ==
  ASSUME NEW keys, NEW d, NEW log, NEW k \in keys, failed \in Nat, clock \in Nat,
         DimInv(d, log, keys, failed, clock)
  PROVE  /\ H!Locked(d, k) <=> d.until[k] > clock
         /\ H!Locked(d, k) => H!Exhausted(log.all[k])
         /\ k \notin log.refused /\ H!Exhausted(H!Timely(log, k)) => H!Locked(d, k)
<1>1. PICK f, u, a, z : f = d.fails[k] /\ u = d.until[k] /\ a = log.all[k] /\ z = log.late[k]
  OBVIOUS
<1>2. KeyInv(f, u, a, z, k \in log.refused, failed, clock)
  BY <1>1, Zenon DEF DimInv, KeyHolds
<1>3. /\ u > clock => \E x \in a : H!Crowded(x, a) /\ clock < x.at + Lockout
      /\ Cardinality(f) >= MaxFailures => u > 0
      /\ k \notin log.refused /\ (\E x \in a \ z : H!Crowded(x, a \ z) /\ clock < x.at + Lockout) => u > clock
  <2>1. GateSays(f, u, a, z, k \in log.refused, clock)
    BY <1>2, KeyGate, Zenon
  <2>2. QED
    BY <2>1, Zenon DEF GateSays
<1>4. IsFiniteSet(f) /\ Cardinality(f) \in Nat /\ u \in Nat
  BY <1>2, FS_Subset, FS_CardinalityType DEF KeyInv, KeyTyped
<1>5. DimTyped(d, keys)
  BY DEF DimInv
<1>6. Cardinality(H!Refresh(d, k).fails[k]) >= MaxFailures => u > clock
  <2>1. PICK g : g = H!Refresh(d, k).fails[k]
    OBVIOUS
  <2>2. g \subseteq f /\ (H!LockExpired(d, k) => g = {})
    BY <1>1, <1>5, <2>1, RefreshStep
  <2>3. Cardinality(g) \in Nat /\ Cardinality(g) <= Cardinality(f)
    BY <1>4, <2>2, FS_Subset, FS_CardinalityType
  <2>4. H!LockExpired(d, k) => Cardinality(g) = 0
    BY <2>2, FS_EmptySet
  <2>5. QED
    BY <1>1, <1>3, <1>4, <2>1, <2>3, <2>4, ThrottleAssumption DEF H!LockExpired
<1>7. H!Locked(d, k) <=> u > clock
  BY <1>1, <1>6, SizeIs, Zenon DEF H!Locked
<1>8. H!Exhausted(a) <=> \E x \in a : H!Crowded(x, a) /\ clock < x.at + Lockout
  BY Zenon DEF H!Exhausted
<1>9. H!Exhausted(H!Timely(log, k)) <=> \E x \in a \ z : H!Crowded(x, a \ z) /\ clock < x.at + Lockout
  BY <1>1, Zenon DEF H!Exhausted, H!Timely
<1>10. QED
  BY <1>1, <1>3, <1>7, <1>8, <1>9, Zenon

\* An attempt under way passed the gate a tick ago at most, and no lock of its keys is
\* older than it: it cannot outlast the lock it will be noted under.
FreshAttempt(x, p, m) ==
  x # H!NoAttempt =>
    /\ x \in Emails \X IPs \X Nat
    /\ x[3] <= clock /\ clock <= x[3] + 1
    /\ p.until[<<x[1], x[2]>>] = 0 \/ p.until[<<x[1], x[2]>>] >= x[3] + Lockout
    /\ m.until[x[1]] = 0 \/ m.until[x[1]] >= x[3] + Lockout

\* The inductive invariant of the throttler.
ThrottleInv ==
  /\ clock \in Nat /\ clock > 0 /\ failed \in Nat /\ DOMAIN attempt = Logins
  /\ DimInv(byPair, pairLog, H!Pairs, failed, clock)
  /\ DimInv(byMail, mailLog, Emails, failed, clock)
  /\ \A c \in Logins : FreshAttempt(attempt[c], byPair, byMail)

LEMMA AttemptParts ==
  ASSUME NEW x \in Emails \X IPs \X Nat
  PROVE  x[1] \in Emails /\ x[2] \in IPs /\ x[3] \in Nat /\ <<x[1], x[2]>> \in H!Pairs
BY DEF H!Pairs

LEMMA FreshKept ==
  ASSUME ThrottleInv, NEW c \in Logins, NEW p, NEW m,
         Held(byPair, p, H!Pairs), Held(byMail, m, Emails)
  PROVE  FreshAttempt(attempt[c], p, m)
<1> SUFFICES ASSUME attempt[c] # H!NoAttempt PROVE FreshAttempt(attempt[c], p, m)
  BY DEF FreshAttempt
<1>1. PICK x : x = attempt[c]
  OBVIOUS
<1>2. FreshAttempt(x, byPair, byMail) /\ x # H!NoAttempt
  BY <1>1 DEF ThrottleInv
<1>3. x \in Emails \X IPs \X Nat
  BY <1>2 DEF FreshAttempt
<1>4. PICK e, k, t : e = x[1] /\ k = <<x[1], x[2]>> /\ t = x[3]
  OBVIOUS
<1>5. e \in Emails /\ k \in H!Pairs /\ t \in Nat
  BY <1>3, <1>4, AttemptParts
<1>6. /\ t <= clock /\ clock <= t + 1
      /\ byPair.until[k] = 0 \/ byPair.until[k] >= t + Lockout
      /\ byMail.until[e] = 0 \/ byMail.until[e] >= t + Lockout
  BY <1>2, <1>4 DEF FreshAttempt
<1>7. clock + Lockout >= t + Lockout
  BY <1>5, <1>6, ThrottleAssumption DEF ThrottleInv
<1>8. /\ p.until[k] = 0 \/ p.until[k] = byPair.until[k] \/ p.until[k] = clock + Lockout
      /\ m.until[e] = 0 \/ m.until[e] = byMail.until[e] \/ m.until[e] = clock + Lockout
  BY <1>5 DEF Held
<1>9. /\ p.until[k] = 0 \/ p.until[k] >= t + Lockout
      /\ m.until[e] = 0 \/ m.until[e] >= t + Lockout
  BY <1>6, <1>7, <1>8
<1>10. QED
  BY <1>1, <1>3, <1>4, <1>6, <1>9 DEF FreshAttempt

\* A failure of an attempt under way finds its keys free or locked beyond the moment.
LEMMA AttemptUnderWay ==
  ASSUME ThrottleInv, NEW c \in Logins, attempt[c] # H!NoAttempt
  PROVE  \E e \in Emails, ip \in IPs :
           /\ attempt[c][1] = e /\ attempt[c][2] = ip
           /\ byPair.until[<<e, ip>>] = 0 \/ byPair.until[<<e, ip>>] > clock
           /\ byMail.until[e] = 0 \/ byMail.until[e] > clock
<1>1. PICK x : x = attempt[c]
  OBVIOUS
<1>2. FreshAttempt(x, byPair, byMail) /\ x # H!NoAttempt
  BY <1>1 DEF ThrottleInv
<1>3. x \in Emails \X IPs \X Nat
  BY <1>2 DEF FreshAttempt
<1>4. PICK e \in Emails, ip \in IPs, t \in Nat : e = x[1] /\ ip = x[2] /\ t = x[3]
  BY <1>3, AttemptParts
<1>5. /\ t <= clock /\ clock <= t + 1
      /\ byPair.until[<<e, ip>>] = 0 \/ byPair.until[<<e, ip>>] >= t + Lockout
      /\ byMail.until[e] = 0 \/ byMail.until[e] >= t + Lockout
  BY <1>2, <1>4 DEF FreshAttempt
<1>6. byPair.until[<<e, ip>>] \in Nat /\ byMail.until[e] \in Nat
  BY DEF ThrottleInv, DimInv, DimTyped, H!Pairs
<1>7. t + Lockout > clock
  BY <1>5, ThrottleAssumption DEF ThrottleInv
<1>8. QED
  BY <1>1, <1>4, <1>5, <1>6, <1>7, ThrottleAssumption DEF ThrottleInv

\* A check eases both dimensions, and lets through only keys without a lock.
LEMMA LoginCheckStep ==
  ASSUME ThrottleInv, NEW e \in Emails, NEW ip \in IPs, H!Check(e, ip)
  PROVE  /\ DimEased(byPair, byPair', H!Pairs) /\ DimEased(byMail, byMail', Emails)
         /\ H!Allowed(e, ip) => byPair'.until[<<e, ip>>] = 0 /\ byMail'.until[e] = 0
<1>1. PICK k \in H!Pairs : k = <<e, ip>>
  BY DEF H!Pairs
<1>2. /\ clock \in Nat /\ failed \in Nat /\ DimTyped(byPair, H!Pairs) /\ DimTyped(byMail, Emails)
      /\ DimInv(byPair, pairLog, H!Pairs, failed, clock) /\ DimInv(byMail, mailLog, Emails, failed, clock)
  BY DEF ThrottleInv, DimInv
<1>3. /\ H!Locked(byPair, k) <=> byPair.until[k] > clock
      /\ H!Locked(byMail, e) <=> byMail.until[e] > clock
  BY <1>2, LockedKey
<1>4. H!Allowed(e, ip) => ~(byPair.until[k] > clock) /\ ~(byMail.until[e] > clock)
  BY <1>1, <1>3 DEF H!Allowed
<1>5. DimEased(byPair, byPair, H!Pairs) /\ DimEased(byMail, byMail, Emails)
  BY <1>2, DimSame
<1>6. CASE byPair.until[k] > clock
  <2>1. UNCHANGED <<byPair, byMail>>
    BY <1>1, <1>6 DEF H!Check
  <2>2. QED
    BY <1>4, <1>5, <1>6, <2>1
<1>7. CASE ~(byPair.until[k] > clock) /\ byMail.until[e] > clock
  <2>1. /\ byPair' = IF H!LockExpired(byPair, k) THEN H!Forget(byPair, k) ELSE byPair
        /\ byMail' = byMail
    BY <1>1, <1>7, Zenon DEF H!Check
  <2>2. H!LockExpired(byPair, k) => DimEased(byPair, H!Forget(byPair, k), H!Pairs)
    BY <1>2, RefreshStep
  <2>3. QED
    BY <1>4, <1>5, <1>7, <2>1, <2>2
<1>8. CASE ~(byPair.until[k] > clock) /\ ~(byMail.until[e] > clock)
  <2>1. byPair' = H!Refresh(byPair, k) /\ byMail' = H!Refresh(byMail, e)
    BY <1>1, <1>8, Zenon DEF H!Check
  <2>2. /\ DimEased(byPair, byPair', H!Pairs) /\ DimEased(byMail, byMail', Emails)
        /\ byPair'.until[k] = 0 \/ byPair'.until[k] > clock
        /\ byMail'.until[e] = 0 \/ byMail'.until[e] > clock
    BY <1>2, <2>1, RefreshStep
  <2>3. /\ byPair'.until[k] = 0 \/ byPair'.until[k] = byPair.until[k]
        /\ byMail'.until[e] = 0 \/ byMail'.until[e] = byMail.until[e]
    BY <2>2 DEF DimEased, Eased
  <2>4. QED
    BY <1>1, <1>8, <2>2, <2>3
<1>9. QED
  BY <1>6, <1>7, <1>8

\* What a dimension's sweep does, when the full map asks for it.
LEMMA MaybeSwept ==
  ASSUME NEW keys, NEW d, DimTyped(d, keys), clock \in Nat, NEW b, NEW k \in keys,
         NEW e, e = IF b THEN H!SweepAll(d) ELSE d
  PROVE  DimEased(d, e, keys) /\ (Pruned(d, k) => Pruned(e, k))
<1>1. CASE b
  BY <1>1, SweepStepAll
<1>2. CASE ~b
  BY <1>2, DimSame
<1>3. QED
  BY <1>1, <1>2

\* A failure counts in both dimensions, or is refused by a full map.
LEMMA FailStep ==
  ASSUME ThrottleInv, NEW e \in Emails, NEW ip \in IPs, H!Fail(e, ip),
         byPair.until[<<e, ip>>] = 0 \/ byPair.until[<<e, ip>>] > clock,
         byMail.until[e] = 0 \/ byMail.until[e] > clock
  PROVE  /\ DimInv(byPair', pairLog', H!Pairs, failed + 1, clock)
         /\ DimInv(byMail', mailLog', Emails, failed + 1, clock)
         /\ Held(byPair, byPair', H!Pairs) /\ Held(byMail, byMail', Emails)
<1>1. PICK k \in H!Pairs : k = <<e, ip>>
  BY DEF H!Pairs
<1>2. /\ clock \in Nat /\ clock > 0 /\ failed \in Nat
      /\ DimTyped(byPair, H!Pairs) /\ DimTyped(byMail, Emails)
      /\ DimInv(byPair, pairLog, H!Pairs, failed, clock) /\ DimInv(byMail, mailLog, Emails, failed, clock)
  BY DEF ThrottleInv, DimInv
<1>3. PICK p1 : p1 = H!Prune(byPair, k)
  OBVIOUS
<1>4. PICK p2 : p2 = IF H!Full(p1) THEN H!SweepAll(p1) ELSE p1
  OBVIOUS
<1>5. PICK ok \in BOOLEAN : ok = H!Admit(p2, k)
  BY DEF H!Admit
<1>6. PICK p3 : p3 = IF ok THEN H!Record(p2, k) ELSE p2
  OBVIOUS
<1>7. PICK m0 : m0 = IF H!Full(p1) THEN H!SweepAll(byMail) ELSE byMail
  OBVIOUS
<1>8. PICK m1 : m1 = H!Prune(m0, e)
  OBVIOUS
<1>9. PICK m2 : m2 = IF H!Full(m1) THEN H!SweepAll(m1) ELSE m1
  OBVIOUS
<1>10. PICK in \in BOOLEAN : in = H!Admit(m2, e)
  BY DEF H!Admit
<1>11. /\ byPair' = IF H!Full(m1) THEN H!SweepAll(p3) ELSE p3
       /\ byMail' = IF in THEN H!Record(m2, e) ELSE m2
       /\ pairLog' = H!Noted(pairLog, byPair, k, ok)
       /\ mailLog' = H!Noted(mailLog, byMail, e, in)
  BY <1>1, <1>3, <1>4, <1>5, <1>6, <1>7, <1>8, <1>9, <1>10, Zenon DEF H!Fail
<1>12. DimEased(byPair, p2, H!Pairs) /\ Pruned(p2, k)
  <2>1. DimEased(byPair, p1, H!Pairs) /\ Pruned(p1, k) /\ DimTyped(p1, H!Pairs)
    BY <1>2, <1>3, PruneStep DEF DimEased
  <2>2. DimEased(p1, p2, H!Pairs) /\ Pruned(p2, k)
    BY <1>2, <1>4, <2>1, MaybeSwept
  <2>3. QED
    BY <1>2, <2>1, <2>2, DimTwice
<1>13. DimEased(byMail, m2, Emails) /\ Pruned(m2, e)
  <2>1. DimEased(byMail, m0, Emails) /\ DimTyped(m0, Emails)
    BY <1>2, <1>7, MaybeSwept DEF DimEased
  <2>2. DimEased(m0, m1, Emails) /\ Pruned(m1, e) /\ DimTyped(m1, Emails)
    BY <1>8, <2>1, PruneStep DEF DimEased
  <2>3. DimEased(m1, m2, Emails) /\ Pruned(m2, e)
    BY <1>2, <1>9, <2>2, MaybeSwept
  <2>4. DimEased(byMail, m1, Emails)
    BY <1>2, <2>1, <2>2, DimTwice
  <2>5. QED
    BY <1>2, <2>3, <2>4, DimTwice
<1>14. DimInv(byMail', mailLog', Emails, failed + 1, clock) /\ Held(byMail, byMail', Emails)
  BY <1>2, <1>11, <1>13, DimRecord
<1>15. DimInv(p3, pairLog', H!Pairs, failed + 1, clock) /\ Held(byPair, p3, H!Pairs)
  BY <1>1, <1>2, <1>6, <1>11, <1>12, DimRecord
<1>16. DimEased(p3, byPair', H!Pairs)
  <2>1. DimTyped(p3, H!Pairs)
    BY <1>15 DEF DimInv
  <2>2. QED
    BY <1>2, <1>11, <2>1, MaybeSwept
<1>17. DimInv(byPair', pairLog', H!Pairs, failed + 1, clock)
  BY <1>2, <1>15, <1>16, DimKept
<1>18. Held(byPair, byPair', H!Pairs)
  BY <1>15, <1>16, HeldSteps
<1>19. QED
  BY <1>14, <1>17, <1>18

LEMMA ThrottleStep == ThrottleInv /\ [H!ThrottleNext]_throttleVars => ThrottleInv'
<1> SUFFICES ASSUME ThrottleInv, [H!ThrottleNext]_throttleVars PROVE ThrottleInv'
  OBVIOUS
<1>1. /\ clock \in Nat /\ clock > 0 /\ failed \in Nat /\ DOMAIN attempt = Logins
      /\ DimInv(byPair, pairLog, H!Pairs, failed, clock) /\ DimInv(byMail, mailLog, Emails, failed, clock)
  BY DEF ThrottleInv
<1>2. ASSUME NEW c \in Logins, H!Gate(c) PROVE ThrottleInv'
  <2>1. PICK e \in Emails, ip \in IPs :
          /\ H!Check(e, ip)
          /\ attempt' = [attempt EXCEPT ![c] = IF H!Allowed(e, ip) THEN <<e, ip, clock>> ELSE H!NoAttempt]
    BY <1>2, Zenon DEF H!Gate
  <2>2. UNCHANGED <<clock, failed, pairLog, mailLog>>
    BY <1>2 DEF H!Gate
  <2>3. /\ DimEased(byPair, byPair', H!Pairs) /\ DimEased(byMail, byMail', Emails)
        /\ H!Allowed(e, ip) => byPair'.until[<<e, ip>>] = 0 /\ byMail'.until[e] = 0
    BY <2>1, LoginCheckStep
  <2>4. /\ DimInv(byPair', pairLog, H!Pairs, failed, clock) /\ DimInv(byMail', mailLog, Emails, failed, clock)
        /\ Held(byPair, byPair', H!Pairs) /\ Held(byMail, byMail', Emails)
    BY <1>1, <2>3, DimKept, HeldSteps
  <2>5. ASSUME NEW d \in Logins PROVE FreshAttempt(attempt[d], byPair, byMail)'
    <3>1. CASE d # c
      <4>1. FreshAttempt(attempt[d], byPair', byMail')
        BY <2>4, FreshKept
      <4>2. attempt'[d] = attempt[d]
        BY <1>1, <2>1, <3>1
      <4>3. QED
        BY <2>2, <4>1, <4>2 DEF FreshAttempt
    <3>2. CASE d = c /\ H!Allowed(e, ip)
      <4>1. attempt'[d] = <<e, ip, clock>>
        BY <1>1, <2>1, <3>2
      <4>2. QED
        BY <1>1, <2>2, <2>3, <3>2, <4>1 DEF FreshAttempt
    <3>3. CASE d = c /\ ~H!Allowed(e, ip)
      <4>1. attempt'[d] = H!NoAttempt
        BY <1>1, <2>1, <3>3
      <4>2. QED
        BY <4>1 DEF FreshAttempt
    <3>4. QED
      BY <3>1, <3>2, <3>3
  <2>6. QED
    BY <1>1, <2>1, <2>2, <2>4, <2>5 DEF ThrottleInv
<1>3. ASSUME NEW c \in Logins, attempt' = [attempt EXCEPT ![c] = H!NoAttempt], clock' = clock, failed' \in Nat,
             DimInv(byPair', pairLog', H!Pairs, failed', clock), DimInv(byMail', mailLog', Emails, failed', clock),
             Held(byPair, byPair', H!Pairs), Held(byMail, byMail', Emails)
      PROVE  ThrottleInv'
  <2>1. ASSUME NEW d \in Logins PROVE FreshAttempt(attempt[d], byPair, byMail)'
    <3>1. FreshAttempt(attempt[d], byPair', byMail')
      BY <1>3, FreshKept
    <3>2. attempt'[d] = attempt[d] \/ attempt'[d] = H!NoAttempt
      BY <1>1, <1>3
    <3>3. QED
      BY <1>3, <3>1, <3>2 DEF FreshAttempt
  <2>2. QED
    BY <1>1, <1>3, <2>1 DEF ThrottleInv
<1>4. ASSUME NEW c \in Logins, H!LoginFails(c) PROVE ThrottleInv'
  <2>1. /\ attempt[c] # H!NoAttempt /\ failed' = failed + 1 /\ clock' = clock
        /\ H!Fail(attempt[c][1], attempt[c][2])
        /\ attempt' = [attempt EXCEPT ![c] = H!NoAttempt]
    BY <1>4 DEF H!LoginFails
  <2>2. PICK e \in Emails, ip \in IPs :
          /\ attempt[c][1] = e /\ attempt[c][2] = ip
          /\ byPair.until[<<e, ip>>] = 0 \/ byPair.until[<<e, ip>>] > clock
          /\ byMail.until[e] = 0 \/ byMail.until[e] > clock
    BY <2>1, AttemptUnderWay
  <2>3. H!Fail(e, ip)
    BY <2>1, <2>2
  <2>4. /\ DimInv(byPair', pairLog', H!Pairs, failed + 1, clock)
        /\ DimInv(byMail', mailLog', Emails, failed + 1, clock)
        /\ Held(byPair, byPair', H!Pairs) /\ Held(byMail, byMail', Emails)
    BY <2>2, <2>3, FailStep
  <2>5. /\ DimInv(byPair', pairLog', H!Pairs, failed', clock) /\ failed' \in Nat
        /\ DimInv(byMail', mailLog', Emails, failed', clock)
    BY <1>1, <2>1, <2>4
  <2>6. QED
    BY <1>3, <2>1, <2>4, <2>5
<1>5. ASSUME NEW c \in Logins, H!LoginSucceeds(c) PROVE ThrottleInv'
  <2>1. /\ attempt[c] # H!NoAttempt /\ failed' = failed /\ clock' = clock
        /\ H!Success(attempt[c][1], attempt[c][2])
        /\ attempt' = [attempt EXCEPT ![c] = H!NoAttempt]
    BY <1>5 DEF H!LoginSucceeds
  <2>2. PICK e \in Emails, ip \in IPs : attempt[c][1] = e /\ attempt[c][2] = ip
    BY <2>1, AttemptUnderWay
  <2>3. PICK k \in H!Pairs : k = <<e, ip>>
    BY DEF H!Pairs
  <2>4. /\ byPair' = H!Forget(byPair, k) /\ byMail' = H!Forget(byMail, e)
        /\ pairLog' = H!Cleared(pairLog, k) /\ mailLog' = H!Cleared(mailLog, e)
    BY <2>1, <2>2, <2>3 DEF H!Success
  <2>5. /\ DimInv(byPair', pairLog', H!Pairs, failed, clock) /\ DimInv(byMail', mailLog', Emails, failed, clock)
        /\ Held(byPair, byPair', H!Pairs) /\ Held(byMail, byMail', Emails)
    BY <1>1, <2>4, DimCleared
  <2>6. QED
    BY <1>1, <1>3, <2>1, <2>5
<1>6. ASSUME NEW c \in Logins, H!LoginOther(c) PROVE ThrottleInv'
  <2>1. /\ attempt' = [attempt EXCEPT ![c] = H!NoAttempt]
        /\ UNCHANGED <<clock, byPair, byMail, failed, pairLog, mailLog>>
    BY <1>6 DEF H!LoginOther
  <2>2. Held(byPair, byPair', H!Pairs) /\ Held(byMail, byMail', Emails)
    BY <2>1 DEF Held
  <2>3. QED
    BY <1>1, <1>3, <2>1, <2>2
<1>7. CASE H!Tick
  <2>1. /\ clock' = clock + 1 /\ UNCHANGED <<byPair, byMail, attempt, failed, pairLog, mailLog>>
        /\ \A c \in Logins : attempt[c] # H!NoAttempt => attempt[c][3] = clock
    BY <1>7 DEF H!Tick
  <2>2. /\ DimInv(byPair, pairLog, H!Pairs, failed, clock + 1)
        /\ DimInv(byMail, mailLog, Emails, failed, clock + 1)
    BY <1>1, DimLater
  <2>3. ASSUME NEW d \in Logins PROVE FreshAttempt(attempt[d], byPair, byMail)'
    <3>1. PICK x : x = attempt[d]
      OBVIOUS
    <3>2. FreshAttempt(x, byPair, byMail) /\ (x # H!NoAttempt => x[3] = clock)
      BY <2>1, <3>1 DEF ThrottleInv
    <3>3. QED
      BY <1>1, <2>1, <3>1, <3>2 DEF FreshAttempt
  <2>4. QED
    BY <1>1, <2>1, <2>2, <2>3 DEF ThrottleInv
<1>8. CASE UNCHANGED throttleVars
  BY <1>8 DEF throttleVars, ThrottleInv, DimInv, DimTyped, LogTyped, KeyHolds, FreshAttempt
<1>9. QED
  BY <1>2, <1>4, <1>5, <1>6, <1>7, <1>8 DEF H!ThrottleNext, H!Throttled

LEMMA ThrottleStart == H!ThrottleInit => ThrottleInv
<1> SUFFICES ASSUME H!ThrottleInit PROVE ThrottleInv
  OBVIOUS
<1>1. ASSUME NEW keys, NEW d, d = H!NewLoginThrottler(keys), NEW log, log = H!NewLog(keys)
      PROVE  DimInv(d, log, keys, 0, 1)
  <2>1. /\ DimTyped(d, keys) /\ LogTyped(log, keys)
        /\ \A k \in keys : /\ d.fails[k] = {} /\ d.until[k] = 0 /\ log.all[k] = {} /\ log.late[k] = {}
                           /\ k \notin log.refused
    BY <1>1 DEF H!NewLoginThrottler, H!NewLog, DimTyped, LogTyped
  <2>2. ASSUME NEW k \in keys PROVE KeyHolds(d, log, k, 0, 1)
    <3>1. (k \in log.refused) = FALSE
      BY <2>1
    <3>2. KeyInv({}, 0, {}, {}, FALSE, 0, 1)
      BY KeyEmpty
    <3>3. QED
      BY <2>1, <3>1, <3>2, Zenon DEF KeyHolds
  <2>3. QED
    BY <2>1, <2>2 DEF DimInv
<1>2. /\ DimInv(byPair, pairLog, H!Pairs, failed, clock) /\ DimInv(byMail, mailLog, Emails, failed, clock)
  BY <1>1 DEF H!ThrottleInit
<1>3. \A c \in Logins : FreshAttempt(attempt[c], byPair, byMail)
  BY DEF H!ThrottleInit, FreshAttempt
<1>4. QED
  BY <1>2, <1>3 DEF H!ThrottleInit, ThrottleInv

LEMMA BudgetIsGated == ThrottleInv => H!ThrottleTypeOK /\ H!GateMatchesBudget
<1> SUFFICES ASSUME ThrottleInv PROVE H!ThrottleTypeOK /\ H!GateMatchesBudget
  OBVIOUS
<1>1. /\ clock \in Nat /\ clock > 0 /\ failed \in Nat
      /\ DimInv(byPair, pairLog, H!Pairs, failed, clock) /\ DimInv(byMail, mailLog, Emails, failed, clock)
  BY DEF ThrottleInv
<1>2. ASSUME NEW keys, NEW d, NEW log, DimInv(d, log, keys, failed, clock) PROVE H!Times(d, keys)
  <2>1. ASSUME NEW k \in keys, NEW x \in d.fails[k] PROVE x.n \in 1..failed /\ x.at \in 1..clock
    <3>1. KeyTyped(d.fails[k], d.until[k], log.all[k], log.late[k], failed, clock)
      BY <1>2 DEF DimInv, KeyHolds, KeyInv
    <3>2. x \in Seen(failed, clock)
      BY <2>1, <3>1 DEF KeyTyped
    <3>3. QED
      BY <3>2 DEF Seen
  <2>2. QED
    BY <1>2, <2>1 DEF H!Times, DimInv, DimTyped
<1>3. H!ThrottleTypeOK
  <2>1. ASSUME NEW c \in Logins PROVE attempt[c] = H!NoAttempt \/ attempt[c] \in Emails \X IPs \X Nat
    <3>1. FreshAttempt(attempt[c], byPair, byMail)
      BY DEF ThrottleInv
    <3>2. QED
      BY <3>1 DEF FreshAttempt
  <2>2. QED
    BY <1>1, <1>2, <2>1 DEF H!ThrottleTypeOK
<1>4. H!GateMatchesBudget
  <2> SUFFICES ASSUME NEW e \in Emails, NEW ip \in IPs
               PROVE  /\ e \notin mailLog.refused /\ H!Exhausted(H!Timely(mailLog, e)) => ~H!Allowed(e, ip)
                      /\ <<e, ip>> \notin pairLog.refused /\ H!Exhausted(H!Timely(pairLog, <<e, ip>>)) => ~H!Allowed(e, ip)
                      /\ ~H!Allowed(e, ip) => H!Exhausted(mailLog.all[e]) \/ H!Exhausted(pairLog.all[<<e, ip>>])
    BY Zenon DEF H!GateMatchesBudget
  <2>1. PICK k \in H!Pairs : k = <<e, ip>>
    BY DEF H!Pairs
  <2>2. /\ H!Locked(byPair, k) => H!Exhausted(pairLog.all[k])
        /\ k \notin pairLog.refused /\ H!Exhausted(H!Timely(pairLog, k)) => H!Locked(byPair, k)
    BY <1>1, LockedKey
  <2>3. /\ H!Locked(byMail, e) => H!Exhausted(mailLog.all[e])
        /\ e \notin mailLog.refused /\ H!Exhausted(H!Timely(mailLog, e)) => H!Locked(byMail, e)
    BY <1>1, LockedKey
  <2>4. QED
    BY <2>1, <2>2, <2>3, Zenon DEF H!Allowed
<1>5. QED
  BY <1>3, <1>4

-----------------------------------------------------------------------------
(* The limits together.                                                    *)

\* A step of the platform moves one of the limits and leaves the others alone.
LEMMA LimitsFrame ==
  [Next]_vars => /\ [H!ThrottleNext]_throttleVars /\ [O!OtpNext]_otpVars
                 /\ [Q!QuotaNext]_quotaVars /\ [Q!LimitNext]_limitVars
<1>1. UNCHANGED vars => UNCHANGED identityVars /\ UNCHANGED limitsVars
  BY DEF vars
<1>2. UNCHANGED identityVars => UNCHANGED throttleVars /\ UNCHANGED otpVars
  BY DEF identityVars
<1>3. UNCHANGED limitsVars => UNCHANGED quotaVars /\ UNCHANGED limitVars
  BY DEF limitsVars
<1>4. Identity => /\ [H!ThrottleNext]_throttleVars /\ [O!OtpNext]_otpVars
                  /\ UNCHANGED limitsVars
  BY DEF Identity, Only
<1>5. Limits => /\ [Q!QuotaNext]_quotaVars /\ [Q!LimitNext]_limitVars
                /\ UNCHANGED identityVars
  BY DEF Limits, Only
<1>6. Edges \/ Registries => UNCHANGED identityVars /\ UNCHANGED limitsVars
  BY DEF Edges, Registries
<1>7. QED
  BY <1>1, <1>2, <1>3, <1>4, <1>5, <1>6 DEF Next

\* The login gate is closed for the keys whose failures used the budget up and for no other,
\* late and refused failures excepted (LoginThrottler), the codes delivered exceed the daily
\* quota by the senders that passed it together and by those whose request was not counted,
\* failed after the delivery or refused by the full map (OTPThrottler), the tokens billed
\* exceed a budget by the runs that were let in together (quota.Gate), and no caller is
\* served more than the rate and the burst pay for (the HTTP rate limiter).
THEOREM LimitsAreKept == RatesRefill /\ Spec => []LimitsHold
<1> SUFFICES ASSUME RatesRefill PROVE Spec => []LimitsHold
  BY DEF RatesRefill
<1> DEFINE Inv == ThrottleInv /\ OtpInv /\ SendInv /\ QuotaInv /\ RateInv
<1>1. Init => Inv
  BY ThrottleStart, OtpStart, SendStart, QuotaStart, RateStart DEF Init
<1>2. Inv /\ [Next]_vars => Inv'
  BY LimitsFrame, ThrottleStep, OtpStep, SendStep, QuotaStep, RateStep
<1>3. Inv => LimitsHold
  BY BudgetIsGated, SendsFollow, BudgetsFollow, RatesFollow DEF LimitsHold
<1>4. QED
  BY <1>1, <1>2, <1>3, PTL DEF Spec

-----------------------------------------------------------------------------
(* The registries: MCP servers.                                            *)

\* A tool call under way.
McpCall ==
  [pc : {"idle", "call", "wait", "close", "dial"}, client : 0..MaxClients, old : 0..MaxSessions, tried : BOOLEAN]

\* The types, and what the manager's client has: a session, or a loop that dials.
McpInv ==
  /\ built \in 0..MaxClients /\ current \in 0..built /\ cancels \in 0..built
  /\ held \in [M!Clients -> 0..MaxSessions]
  /\ loop \in [M!Clients -> {"none", "run", "stopping"}]
  /\ session \in [M!SessionIds -> {"none", "open", "dead", "closed"}]
  /\ caller \in [ToolCallers -> McpCall]
  /\ \A k \in ToolCallers : caller[k].pc # "idle" => caller[k].client \in 1..built
  /\ M!ServerIsServed

\* A set of numbers that is not empty has a least element.
LEMMA LeastOf ==
  ASSUME NEW D \in SUBSET Nat, D # {}
  PROVE  \E m \in D : \A k \in D : m <= k
<1>1. PICK m \in D : \A k \in D : ~(<<k, m>> \in OpToRel(<, Nat))
  BY WFMin, NatLessThanWellFounded, Zenon
<1>2. OpToRel(<, Nat) = {ss \in Nat \X Nat : ss[1] < ss[2]}
  BY Zenon DEF OpToRel
<1>3. \A k \in D : k < m => <<k, m>> \in {ss \in Nat \X Nat : ss[1] < ss[2]}
  OBVIOUS
<1>4. \A k \in D : ~(k < m)
  BY <1>1, <1>2, <1>3, Zenon
<1>5. QED
  BY <1>4

\* A handshake that succeeds opens the next session and gives it to its client.
LEMMA InstallStep ==
  ASSUME McpInv, NEW c \in M!Clients, M!Install(c)
  PROVE  /\ held' \in [M!Clients -> 0..MaxSessions]
         /\ session' \in [M!SessionIds -> {"none", "open", "dead", "closed"}]
         /\ held'[c] # 0 /\ \A d \in M!Clients : d # c => held'[d] = held[d]
<1> DEFINE Unused == {s \in M!SessionIds : session[s] = "none"}
<1>1. Unused \in SUBSET Nat /\ Unused # {}
  BY DEF M!Install, M!CanDial, M!SessionIds
<1>2. PICK s \in Unused : \A t \in Unused : s <= t
  BY <1>1, LeastOf
<1>3. s \in M!SessionIds /\ session[s] = "none" /\ \A t \in 1..(s - 1) : session[t] # "none"
  BY <1>2, McpAssumption DEF M!SessionIds
<1>4. M!Fresh \in M!SessionIds
  BY <1>3 DEF M!Fresh
<1>5. M!Fresh \in 0..MaxSessions /\ M!Fresh # 0
  BY <1>4, McpAssumption DEF M!SessionIds
<1>6. QED
  BY <1>4, <1>5 DEF M!Install, McpInv

\* The client that leaves the manager, and only it, loses its session.
LEMMA CloseStep ==
  ASSUME McpInv, NEW c \in 0..built, M!CloseClient(c)
  PROVE  /\ held' \in [M!Clients -> 0..MaxSessions]
         /\ session' \in [M!SessionIds -> {"none", "open", "dead", "closed"}]
<1>1. 0 \in 0..MaxSessions
  BY McpAssumption
<1>2. c # 0 => c \in M!Clients
  BY McpAssumption DEF McpInv, M!Clients
<1>3. QED
  BY <1>1, <1>2 DEF M!CloseClient, M!Closed, McpInv

\* The steps of the tool calls that leave the clients alone.
LEMMA CallerSteps ==
  ASSUME McpInv, NEW k \in ToolCallers, M!Begin(k) \/ M!ReadSession(k) \/ M!CallTool(k) \/ M!CloseOld(k)
  PROVE  McpInv'
<1>1. built \in Nat /\ 0 \in 0..MaxSessions /\ 0 \in 0..MaxClients /\ 1..built \subseteq 0..MaxClients
  BY McpAssumption DEF McpInv
<1>2. M!Idle \in McpCall /\ M!Idle.pc = "idle"
  BY <1>1 DEF M!Idle, McpCall
<1>3. CASE M!Begin(k)
  <2>1. PICK c \in 1..built : caller' = [caller EXCEPT ![k] = [pc |-> "call", client |-> c, old |-> 0, tried |-> FALSE]]
    BY <1>3 DEF M!Begin
  <2>2. [pc |-> "call", client |-> c, old |-> 0, tried |-> FALSE] \in McpCall
    BY <1>1 DEF McpCall
  <2>3. QED
    BY <1>3, <2>1, <2>2 DEF M!Begin, McpInv, M!ServerIsServed
<1>4. CASE M!ReadSession(k)
  <2> DEFINE s == held[caller[k].client]
             u == IF s = 0 THEN M!Idle ELSE [caller[k] EXCEPT !.pc = "wait", !.old = s]
  <2>1. caller[k] \in McpCall /\ caller[k].client \in 1..built /\ caller[k].client \in M!Clients
    BY <1>1, <1>4, McpAssumption DEF M!ReadSession, McpInv, M!Clients
  <2>2. s \in 0..MaxSessions
    BY <2>1 DEF McpInv
  <2>3. u \in McpCall /\ (u.pc # "idle" => u.client = caller[k].client)
    BY <1>2, <2>1, <2>2 DEF McpCall
  <2>4. caller' = [caller EXCEPT ![k] = u]
    BY <1>4 DEF M!ReadSession
  <2>5. QED
    BY <1>4, <2>1, <2>3, <2>4 DEF M!ReadSession, McpInv, M!ServerIsServed
<1>5. CASE M!CallTool(k)
  <2> DEFINE u == IF session[caller[k].old] # "open" /\ ~caller[k].tried
                  THEN [caller[k] EXCEPT !.pc = "close", !.tried = TRUE] ELSE M!Idle
  <2>1. caller[k] \in McpCall /\ caller[k].client \in 1..built
    BY <1>5 DEF M!CallTool, McpInv
  <2>2. u \in McpCall /\ (u.pc # "idle" => u.client = caller[k].client)
    BY <1>2, <2>1 DEF McpCall
  <2>3. caller' = [caller EXCEPT ![k] = u]
    BY <1>5 DEF M!CallTool
  <2>4. QED
    BY <1>5, <2>1, <2>2, <2>3 DEF M!CallTool, McpInv, M!ServerIsServed
<1>6. CASE M!CloseOld(k)
  <2>1. caller[k] \in McpCall /\ caller[k].client \in 1..built /\ caller[k].client \in M!Clients
    BY <1>1, <1>6, McpAssumption DEF M!CloseOld, McpInv, M!Clients
  <2>2. [caller[k] EXCEPT !.pc = "dial"] \in McpCall /\ [caller[k] EXCEPT !.pc = "dial"].client = caller[k].client
    BY <2>1 DEF McpCall
  <2>3. session' \in [M!SessionIds -> {"none", "open", "dead", "closed"}]
    BY <1>6 DEF M!CloseOld, M!Closed, McpInv
  <2>4. QED
    BY <1>6, <2>1, <2>2, <2>3 DEF M!CloseOld, M!CallTo, McpInv, M!ServerIsServed
<1>7. QED
  BY <1>3, <1>4, <1>5, <1>6

\* A call that dials again only ever adds a session.
LEMMA RedialStep ==
  ASSUME McpInv, NEW k \in ToolCallers, M!Redial(k)
  PROVE  McpInv'
<1>1. caller[k] \in McpCall /\ caller[k].client \in 1..built /\ caller[k].client \in M!Clients
  BY McpAssumption DEF M!Redial, McpInv, M!Clients
<1>2. M!Idle \in McpCall /\ M!Idle.pc = "idle"
  BY McpAssumption DEF M!Idle, McpCall
<1>3. CASE UNCHANGED <<held, session>> /\ caller' = [caller EXCEPT ![k] = M!Idle]
  BY <1>2, <1>3 DEF M!Redial, McpInv, M!ServerIsServed
<1>4. CASE M!Install(caller[k].client) /\ M!CallTo(k, "call")
  <2>1. [caller[k] EXCEPT !.pc = "call"] \in McpCall /\ [caller[k] EXCEPT !.pc = "call"].client = caller[k].client
    BY <1>1 DEF McpCall
  <2>2. /\ held' \in [M!Clients -> 0..MaxSessions]
        /\ session' \in [M!SessionIds -> {"none", "open", "dead", "closed"}]
        /\ \A d \in M!Clients : held'[d] # 0 \/ held'[d] = held[d]
    BY <1>1, <1>4, InstallStep
  <2>3. current # 0 => current \in M!Clients
    BY McpAssumption DEF McpInv, M!Clients
  <2>4. M!ServerIsServed'
    BY <2>2, <2>3 DEF M!Redial, McpInv, M!ServerIsServed
  <2>5. QED
    BY <1>1, <1>4, <2>1, <2>2, <2>4 DEF M!Redial, M!CallTo, McpInv
<1>5. QED
  BY <1>3, <1>4 DEF M!Redial

\* Every step: what takes the session of the manager's client away replaces the client, and
\* its loop ends with a session unless it was told to stop.
LEMMA McpStep == McpInv /\ [M!McpNext]_mcpVars => McpInv'
<1> SUFFICES ASSUME McpInv, [M!McpNext]_mcpVars PROVE McpInv'
  OBVIOUS
<1>0. built \in Nat /\ (current # 0 => current \in M!Clients) /\ (cancels # 0 => cancels \in M!Clients)
  BY McpAssumption DEF McpInv, M!Clients
<1>1. CASE UNCHANGED mcpVars
  BY <1>1 DEF mcpVars, McpInv, M!ServerIsServed
<1>2. CASE M!ApplyChanged
  <2>1. built + 1 \in M!Clients /\ current \in 0..built
    BY <1>0, <1>2, McpAssumption DEF M!ApplyChanged, M!Clients, McpInv
  <2>2. /\ held' \in [M!Clients -> 0..MaxSessions]
        /\ session' \in [M!SessionIds -> {"none", "open", "dead", "closed"}]
    BY <1>2, <2>1, CloseStep DEF M!ApplyChanged
  <2>3. loop' \in [M!Clients -> {"none", "run", "stopping"}] /\ loop'[built + 1] = "run"
    BY <1>2, <2>1 DEF M!ApplyChanged, M!Added, McpInv
  <2>4. built' = built + 1 /\ current' = built + 1 /\ cancels' = built + 1 /\ caller' = caller
    BY <1>2 DEF M!ApplyChanged
  <2>5. built' \in 0..MaxClients /\ current' \in 0..built' /\ cancels' \in 0..built'
    BY <1>0, <1>2, <2>4, McpAssumption DEF M!ApplyChanged
  <2>6. 1..built \subseteq 1..built'
    BY <1>0, <2>4
  <2>7. QED
    BY <2>2, <2>3, <2>4, <2>5, <2>6 DEF McpInv, M!ServerIsServed
<1>3. CASE M!ApplyRemoved
  <2>1. /\ held' \in [M!Clients -> 0..MaxSessions]
        /\ session' \in [M!SessionIds -> {"none", "open", "dead", "closed"}]
    BY <1>3, CloseStep DEF M!ApplyRemoved, McpInv
  <2>2. loop' \in [M!Clients -> {"none", "run", "stopping"}]
    BY <1>0, <1>3 DEF M!ApplyRemoved, McpInv
  <2>3. 0 \in 0..built
    BY <1>0
  <2>4. QED
    BY <1>3, <2>1, <2>2, <2>3 DEF M!ApplyRemoved, McpInv, M!ServerIsServed
<1>4. ASSUME NEW s \in M!SessionIds, M!Drop(s) PROVE McpInv'
  BY <1>4 DEF M!Drop, McpInv, M!ServerIsServed
<1>5. ASSUME NEW c \in M!Clients, M!LoopConnects(c) PROVE McpInv'
  <2>1. /\ held' \in [M!Clients -> 0..MaxSessions]
        /\ session' \in [M!SessionIds -> {"none", "open", "dead", "closed"}]
        /\ held'[c] # 0 /\ \A d \in M!Clients : d # c => held'[d] = held[d]
    BY <1>5, InstallStep DEF M!LoopConnects
  <2>2. loop' \in [M!Clients -> {"none", "run", "stopping"}] /\ \A d \in M!Clients : d # c => loop'[d] = loop[d]
    BY <1>5 DEF M!LoopConnects, McpInv
  <2>3. M!ServerIsServed'
    BY <1>0, <1>5, <2>1, <2>2 DEF M!LoopConnects, McpInv, M!ServerIsServed
  <2>4. QED
    BY <1>5, <2>1, <2>2, <2>3 DEF M!LoopConnects, McpInv
<1>6. ASSUME NEW c \in M!Clients, M!LoopStops(c) PROVE McpInv'
  <2>1. /\ held' \in [M!Clients -> 0..MaxSessions]
        /\ session' \in [M!SessionIds -> {"none", "open", "dead", "closed"}]
        /\ \A d \in M!Clients : held'[d] # 0 \/ held'[d] = held[d]
    <3>1. CASE UNCHANGED <<held, session>>
      BY <3>1 DEF McpInv
    <3>2. CASE M!Install(c)
      BY <3>2, InstallStep
    <3>3. QED
      BY <1>6, <3>1, <3>2 DEF M!LoopStops
  <2>2. /\ loop' \in [M!Clients -> {"none", "run", "stopping"}] /\ loop[c] # "run"
        /\ \A d \in M!Clients : d # c => loop'[d] = loop[d]
    BY <1>6 DEF M!LoopStops, McpInv
  <2>3. M!ServerIsServed'
    BY <1>0, <1>6, <2>1, <2>2 DEF M!LoopStops, McpInv, M!ServerIsServed
  <2>4. QED
    BY <1>6, <2>1, <2>2, <2>3 DEF M!LoopStops, McpInv
<1>7. QED
  BY <1>1, <1>2, <1>3, <1>4, <1>5, <1>6, CallerSteps, RedialStep DEF M!McpNext

\* At the boot.
LEMMA McpStart == M!McpInit => McpInv
<1> SUFFICES ASSUME M!McpInit PROVE McpInv
  OBVIOUS
<1>1. built \in 0..1 /\ current = built /\ cancels = 0
  BY DEF M!McpInit
<1>2. /\ held = [c \in M!Clients |-> 0] /\ 0 \in 0..MaxSessions
      /\ loop = [c \in M!Clients |-> IF c <= built THEN "run" ELSE "none"]
      /\ session = [s \in M!SessionIds |-> "none"] /\ caller = [k \in ToolCallers |-> M!Idle]
  BY McpAssumption DEF M!McpInit
<1>3. M!Idle \in McpCall /\ M!Idle.pc = "idle"
  BY McpAssumption DEF M!Idle, McpCall
<1>4. built \in 0..MaxClients /\ current \in 0..built /\ cancels \in 0..built
  BY <1>1, McpAssumption
<1>5. current # 0 => current \in M!Clients /\ current <= built
  BY <1>1, McpAssumption DEF M!Clients
<1>6. M!ServerIsServed
  BY <1>2, <1>5 DEF M!ServerIsServed
<1>7. QED
  BY <1>2, <1>3, <1>4, <1>6 DEF McpInv

-----------------------------------------------------------------------------
(* The registries: model providers.                                        *)

\* A provider, what was observed of it, and what the caches and a resolution hold.
ProviderRow == [here : BOOLEAN, on : BOOLEAN, def : BOOLEAN, models : SUBSET C!Models, main : {0, 1, 2}]
Sighting == [on : Nat, models : [C!Models -> Nat]]
TargetRow == [hit : {TRUE}, until : Nat, p : Providers \cup {0}, m : {0, 1, 2}]
ListRow == [hit : {TRUE}, until : Nat, models : SUBSET C!Models, main : {0, 1, 2}]
Resolution == [pc : {"models", "put"}, p : Providers \cup {0}, m : {0, 1, 2}, team : BOOLEAN, at : Nat]

CatalogTypes ==
  /\ time \in Nat
  /\ prov \in [Providers -> ProviderRow] /\ seenOn \in [Providers -> Sighting]
  /\ chosen \in Providers \cup {0}
  /\ edit \in [delete : Providers \cup {0}, assign : Providers \cup {0}]
  /\ target \in {C!Miss} \cup TargetRow /\ lists \in [Providers -> {C!Miss} \cup ListRow]
  /\ load \in [Loads -> {C!NoLoad} \cup Resolution]

\* The observer: what is enabled was seen this moment, and nothing was seen later.
EditsSeen ==
  \A p \in Providers :
    /\ seenOn[p].on <= time /\ (prov[p].on => seenOn[p].on = time)
    /\ \A m \in C!Models :
         seenOn[p].models[m] <= time /\ (m \in prov[p].models => seenOn[p].models[m] = time)

\* What a cached list, a resolution and the cached target hold was enabled so long ago.
ListSeen(p) ==
  lists[p].hit => \A m \in lists[p].models : lists[p].until <= seenOn[p].models[m] + TTL
LoadSeen(l) ==
  load[l].pc # "idle" =>
    /\ load[l].pc = "models" => load[l].p # 0
    /\ load[l].p # 0 => load[l].at <= seenOn[load[l].p].on
    /\ load[l].m # 0 => load[l].p # 0 /\ load[l].at <= seenOn[load[l].p].models[load[l].m] + TTL
LoadTimely(l) == load[l].pc # "idle" => load[l].at <= time /\ time <= load[l].at + 1
TargetSeen ==
  target.hit /\ target.p # 0 =>
    /\ target.m # 0
    /\ target.until <= seenOn[target.p].on + TTL + 1
    /\ target.until <= seenOn[target.p].models[target.m] + 2 * TTL + 1

\* The inductive invariant of the registry and its caches.
CatalogInv ==
  /\ CatalogTypes /\ EditsSeen /\ TargetSeen
  /\ \A p \in Providers : ListSeen(p)
  /\ \A l \in Loads : LoadSeen(l) /\ LoadTimely(l)
  /\ C!ReferencesStand

\* The first of some numbers.
LEMMA FirstIs ==
  ASSUME NEW D \in SUBSET Nat, D # {}
  PROVE  C!First(D) \in D
<1>1. \E p \in D : \A q \in D : p <= q
  BY LeastOf
<1>2. QED
  BY <1>1 DEF C!First

\* The platform's choice is enabled, and so is the model chosen from a list.
LEMMA DefaultIs ==
  ASSUME CatalogTypes, NEW p, p = C!PlatformDefault
  PROVE  p \in Providers \cup {0} /\ (p # 0 => prov[p].on)
<1> DEFINE on == {q \in Providers : prov[q].here /\ prov[q].on}
           def == {q \in on : prov[q].def}
<1>1. p = IF def # {} THEN C!First(def) ELSE IF on # {} THEN C!First(on) ELSE 0
  BY DEF C!PlatformDefault
<1>2. on \in SUBSET Nat /\ def \in SUBSET Nat
  BY CatalogAssumption
<1>3. (def # {} => C!First(def) \in def) /\ (on # {} => C!First(on) \in on)
  BY <1>2, FirstIs
<1>4. QED
  BY <1>1, <1>3

LEMMA ModelIs ==
  ASSUME NEW w, w.models \in SUBSET C!Models, w.main \in {0, 1, 2}, NEW m, m = C!ModelFor(w)
  PROVE  m \in {0, 1, 2} /\ (m # 0 => m \in w.models)
<1>1. w.models \in SUBSET Nat /\ w.models \in SUBSET {1, 2}
  BY DEF C!Models
<1>2. w.models # {} => C!First(w.models) \in w.models
  BY <1>1, FirstIs
<1>3. QED
  BY <1>1, <1>2 DEF C!ModelFor

\* What was observed never moves back, so what the caches hold stays accounted for while
\* entries only leave.
LEMMA SeenLater ==
  ASSUME CatalogInv, CatalogTypes',
         \A p \in Providers : seenOn[p].on <= seenOn'[p].on /\ \A m \in C!Models : seenOn[p].models[m] <= seenOn'[p].models[m],
         target' \in {target, C!Miss}, \A p \in Providers : lists'[p] \in {lists[p], C!Miss}, load' = load
  PROVE  TargetSeen' /\ (\A p \in Providers : ListSeen(p)') /\ (\A l \in Loads : LoadSeen(l)')
<1>0. TTL \in Nat /\ 0 \notin Providers /\ C!Models = {1, 2} /\ ~C!Miss.hit
  BY CatalogAssumption DEF C!Models, C!Miss
<1>1. \A p \in Providers : /\ seenOn[p].on \in Nat /\ seenOn'[p].on \in Nat
                           /\ \A m \in C!Models : seenOn[p].models[m] \in Nat /\ seenOn'[p].models[m] \in Nat
  BY DEF CatalogInv, CatalogTypes, Sighting
<1>2. TargetSeen'
  <2>1. CASE target' = C!Miss
    BY <1>0, <2>1 DEF TargetSeen
  <2>2. CASE target' = target /\ target # C!Miss
    <3>1. target \in TargetRow
      BY <2>2 DEF CatalogInv, CatalogTypes
    <3>2. target.until \in Nat /\ target.p \in Providers \cup {0} /\ target.m \in {0, 1, 2}
      BY <3>1 DEF TargetRow
    <3>3. SUFFICES ASSUME target.hit, target.p # 0
                   PROVE  /\ target.m # 0
                          /\ target.until <= seenOn'[target.p].on + TTL + 1
                          /\ target.until <= seenOn'[target.p].models[target.m] + 2 * TTL + 1
      BY <2>2 DEF TargetSeen
    <3>4. /\ target.m \in C!Models
          /\ target.until <= seenOn[target.p].on + TTL + 1
          /\ target.until <= seenOn[target.p].models[target.m] + 2 * TTL + 1
      BY <1>0, <3>2, <3>3 DEF CatalogInv, TargetSeen
    <3>5. QED
      BY <1>0, <1>1, <3>2, <3>3, <3>4
  <2>3. QED
    BY <2>1, <2>2
<1>3. ASSUME NEW p \in Providers PROVE ListSeen(p)'
  <2>1. CASE lists'[p] = C!Miss
    BY <1>0, <2>1 DEF ListSeen
  <2>2. CASE lists'[p] = lists[p] /\ lists[p] # C!Miss
    <3>1. lists[p] \in ListRow
      BY <2>2 DEF CatalogInv, CatalogTypes
    <3>2. lists[p].until \in Nat /\ lists[p].models \in SUBSET C!Models /\ lists[p].hit
      BY <3>1 DEF ListRow
    <3>3. \A m \in lists[p].models : lists[p].until <= seenOn[p].models[m] + TTL
      BY <3>2 DEF CatalogInv, ListSeen
    <3>4. \A m \in lists[p].models : lists[p].until <= seenOn'[p].models[m] + TTL
      BY <1>0, <1>1, <3>2, <3>3
    <3>5. QED
      BY <2>2, <3>4 DEF ListSeen
  <2>3. QED
    BY <2>1, <2>2
<1>4. ASSUME NEW l \in Loads PROVE LoadSeen(l)'
  <2>1. CASE load[l] = C!NoLoad
    BY <2>1 DEF LoadSeen, C!NoLoad
  <2>2. CASE load[l] # C!NoLoad
    <3>1. load[l] \in Resolution
      BY <2>2 DEF CatalogInv, CatalogTypes
    <3>2. load[l].pc # "idle" /\ load[l].at \in Nat /\ load[l].p \in Providers \cup {0} /\ load[l].m \in {0, 1, 2}
      BY <3>1 DEF Resolution
    <3>3. /\ load[l].pc = "models" => load[l].p # 0
          /\ load[l].p # 0 => load[l].at <= seenOn[load[l].p].on
          /\ load[l].m # 0 => load[l].p # 0 /\ load[l].at <= seenOn[load[l].p].models[load[l].m] + TTL
      BY <3>2 DEF CatalogInv, LoadSeen
    <3>4. /\ load[l].p # 0 => load[l].at <= seenOn'[load[l].p].on
          /\ load[l].m # 0 => load[l].p # 0 /\ load[l].at <= seenOn'[load[l].p].models[load[l].m] + TTL
      BY <1>0, <1>1, <3>2, <3>3
    <3>5. QED
      BY <3>3, <3>4 DEF LoadSeen
  <2>3. QED
    BY <2>1, <2>2
<1>5. QED
  BY <1>2, <1>3, <1>4

\* An edit of the rows, which the observer sees before and after.
LEMMA EditStep ==
  ASSUME CatalogInv, NEW rows \in [Providers -> ProviderRow], C!Edited(rows),
         UNCHANGED <<time, target, lists, load>>,
         chosen' \in Providers \cup {0}, edit' \in [delete : Providers \cup {0}, assign : Providers \cup {0}],
         C!ReferencesStand'
  PROVE  CatalogInv'
<1>0. time \in Nat /\ prov' = rows
  BY DEF CatalogInv, CatalogTypes, C!Edited
<1>1. \A p \in Providers :
        /\ seenOn[p] \in Sighting /\ prov[p] \in ProviderRow /\ rows[p] \in ProviderRow
        /\ seenOn[p].on \in Nat /\ seenOn[p].on <= time
        /\ \A m \in C!Models : seenOn[p].models[m] \in Nat /\ seenOn[p].models[m] <= time
  BY DEF CatalogInv, CatalogTypes, Sighting, EditsSeen
<1>2. ASSUME NEW p \in Providers
      PROVE  /\ seenOn'[p] \in Sighting
             /\ seenOn'[p].on = (IF prov[p].on \/ rows[p].on THEN time ELSE seenOn[p].on)
             /\ \A m \in C!Models :
                  seenOn'[p].models[m] = IF m \in prov[p].models \cup rows[p].models THEN time ELSE seenOn[p].models[m]
  <2> DEFINE n == IF prov[p].on \/ rows[p].on THEN time ELSE seenOn[p].on
             f == [m \in C!Models |-> IF m \in prov[p].models \cup rows[p].models THEN time ELSE seenOn[p].models[m]]
  <2>1. seenOn'[p] = [on |-> n, models |-> f]
    BY DEF C!Edited, C!Observe
  <2>2. n \in Nat /\ f \in [C!Models -> Nat]
    BY <1>0, <1>1
  <2>3. \A m \in C!Models : f[m] = IF m \in prov[p].models \cup rows[p].models THEN time ELSE seenOn[p].models[m]
    OBVIOUS
  <2> HIDE DEF n, f
  <2>4. [on |-> n, models |-> f] \in Sighting /\ [on |-> n, models |-> f].on = n /\ [on |-> n, models |-> f].models = f
    BY <2>2 DEF Sighting
  <2>5. seenOn'[p] \in Sighting /\ seenOn'[p].on = n /\ seenOn'[p].models = f
    BY <2>1, <2>4
  <2>6. n = IF prov[p].on \/ rows[p].on THEN time ELSE seenOn[p].on
    BY DEF n
  <2>7. QED
    BY <2>3, <2>5, <2>6
<1>3. seenOn' \in [Providers -> Sighting]
  <2>1. seenOn' = [p \in Providers |-> seenOn'[p]]
    BY DEF C!Edited, C!Observe
  <2>2. QED
    BY <1>2, <2>1
<1>4. CatalogTypes'
  BY <1>0, <1>3 DEF CatalogInv, CatalogTypes
<1>5. EditsSeen'
  <2>1. ASSUME NEW p \in Providers
        PROVE  seenOn'[p].on <= time /\ (rows[p].on => seenOn'[p].on = time)
    <3>1. prov[p].on => seenOn[p].on = time
      BY DEF CatalogInv, EditsSeen
    <3>2. QED
      BY <1>0, <1>1, <1>2, <3>1
  <2>2. ASSUME NEW p \in Providers, NEW m \in C!Models
        PROVE  seenOn'[p].models[m] <= time /\ (m \in rows[p].models => seenOn'[p].models[m] = time)
    BY <1>0, <1>1, <1>2
  <2>3. time' = time
    OBVIOUS
  <2>4. QED
    BY <1>0, <2>1, <2>2, <2>3 DEF EditsSeen
<1>6. \A p \in Providers : /\ seenOn[p].on <= seenOn'[p].on
                           /\ \A m \in C!Models : seenOn[p].models[m] <= seenOn'[p].models[m]
  <2>1. ASSUME NEW p \in Providers PROVE seenOn[p].on <= seenOn'[p].on
    BY <1>0, <1>1, <1>2
  <2>2. ASSUME NEW p \in Providers, NEW m \in C!Models PROVE seenOn[p].models[m] <= seenOn'[p].models[m]
    BY <1>0, <1>1, <1>2
  <2>3. QED
    BY <2>1, <2>2
<1>7. TargetSeen' /\ (\A p \in Providers : ListSeen(p)') /\ (\A l \in Loads : LoadSeen(l)')
  BY <1>4, <1>6, SeenLater
<1>8. \A l \in Loads : LoadTimely(l)'
  BY DEF CatalogInv, LoadTimely
<1>9. QED
  BY <1>4, <1>5, <1>7, <1>8 DEF CatalogInv

\* The edits: a row that the team chose stays, and one default at most.
LEMMA EditSteps ==
  ASSUME CatalogInv, NEW p \in Providers,
         \/ C!CreateProvider(p) \/ C!UpdateProvider(p) \/ C!SetDefaultProvider(p)
         \/ C!DeleteProvider \/ \E m \in C!Models : C!EditModel(p, m)
  PROVE  CatalogInv'
<1>0. /\ prov \in [Providers -> ProviderRow] /\ prov[p] \in ProviderRow
      /\ chosen \in Providers \cup {0} /\ edit \in [delete : Providers \cup {0}, assign : Providers \cup {0}]
      /\ 0 \notin Providers
  BY CatalogAssumption DEF CatalogInv, CatalogTypes
<1>1. C!ReferencesStand
  BY DEF CatalogInv
<1>2. CASE C!CreateProvider(p)
  <2>1. PICK rows : rows = [prov EXCEPT ![p] = C!NewProvider]
    OBVIOUS
  <2>2. C!NewProvider \in ProviderRow /\ ~C!NewProvider.def /\ C!NewProvider.here
    BY DEF C!NewProvider, C!NoRow, ProviderRow
  <2>3. rows \in [Providers -> ProviderRow] /\ C!Edited(rows) /\ prov' = rows
    BY <1>0, <1>2, <2>1, <2>2 DEF C!CreateProvider, C!Edited
  <2>4. C!ReferencesStand'
    BY <1>0, <1>1, <1>2, <2>1, <2>2, <2>3 DEF C!CreateProvider, C!ReferencesStand
  <2>5. QED
    BY <1>0, <1>2, <2>3, <2>4, EditStep DEF C!CreateProvider
<1>3. CASE C!UpdateProvider(p)
  <2>1. PICK rows : rows = [prov EXCEPT ![p].on = ~@]
    OBVIOUS
  <2>2. PICK u : u = [prov[p] EXCEPT !.on = ~prov[p].on]
    OBVIOUS
  <2>3. u \in ProviderRow /\ u.def = prov[p].def /\ u.here = prov[p].here
    BY <1>0, <2>2 DEF ProviderRow
  <2>4. rows = [prov EXCEPT ![p] = u]
    BY <2>1, <2>2
  <2>5. rows \in [Providers -> ProviderRow] /\ C!Edited(rows) /\ prov' = rows
    BY <1>0, <1>3, <2>1, <2>3, <2>4 DEF C!UpdateProvider, C!Edited
  <2>6. C!ReferencesStand'
    BY <1>0, <1>1, <1>3, <2>3, <2>4, <2>5 DEF C!UpdateProvider, C!ReferencesStand
  <2>7. QED
    BY <1>0, <1>3, <2>5, <2>6, EditStep DEF C!UpdateProvider
<1>4. CASE C!SetDefaultProvider(p)
  <2>1. PICK rows : rows = [q \in Providers |-> [prov[q] EXCEPT !.def = q = p]]
    OBVIOUS
  <2>2. \A q \in Providers : rows[q] \in ProviderRow /\ rows[q].here = prov[q].here /\ rows[q].def = (q = p)
    BY <1>0, <2>1 DEF ProviderRow
  <2>3. rows \in [Providers -> ProviderRow] /\ C!Edited(rows) /\ prov' = rows
    BY <1>4, <2>1, <2>2 DEF C!SetDefaultProvider, C!Edited
  <2>4. C!ReferencesStand'
    BY <1>0, <1>1, <1>4, <2>2, <2>3 DEF C!SetDefaultProvider, C!ReferencesStand
  <2>5. QED
    BY <1>0, <1>4, <2>3, <2>4, EditStep DEF C!SetDefaultProvider
<1>5. CASE C!DeleteProvider
  <2>1. edit.delete \in Providers
    BY <1>0, <1>5 DEF C!DeleteProvider
  <2>2. PICK rows : rows = IF C!Deletable(edit.delete) THEN [prov EXCEPT ![edit.delete] = C!NoRow] ELSE prov
    OBVIOUS
  <2>3. C!NoRow \in ProviderRow /\ ~C!NoRow.def
    BY DEF C!NoRow, ProviderRow
  <2>4. rows \in [Providers -> ProviderRow] /\ C!Edited(rows) /\ prov' = rows
    BY <1>0, <1>5, <2>1, <2>2, <2>3 DEF C!DeleteProvider, C!Edited
  <2>5. edit' \in [delete : Providers \cup {0}, assign : Providers \cup {0}]
    BY <1>0, <1>5 DEF C!DeleteProvider
  <2>6. C!ReferencesStand'
    BY <1>0, <1>1, <1>5, <2>1, <2>2, <2>3, <2>4 DEF C!DeleteProvider, C!ReferencesStand, C!Deletable
  <2>7. QED
    BY <1>0, <1>5, <2>4, <2>5, <2>6, EditStep DEF C!DeleteProvider
<1>6. ASSUME NEW m \in C!Models, C!EditModel(p, m) PROVE CatalogInv'
  <2>1. PICK u \in C!ModelEdits(p, m) : C!Edited([prov EXCEPT ![p] = u])
    BY <1>6 DEF C!EditModel
  <2>2. u \in ProviderRow /\ u.def = prov[p].def /\ u.here = prov[p].here
    <3>1. u = [prov[p] EXCEPT !.models = IF m \in @ THEN @ \ {m} ELSE @ \cup {m}] \/ u = [prov[p] EXCEPT !.main = m]
      BY <2>1 DEF C!ModelEdits
    <3>2. m \in {0, 1, 2} /\ prov[p].models \in SUBSET C!Models
      BY <1>0 DEF C!Models, ProviderRow
    <3>3. QED
      BY <1>0, <3>1, <3>2 DEF ProviderRow
  <2>3. PICK rows : rows = [prov EXCEPT ![p] = u]
    OBVIOUS
  <2>4. rows \in [Providers -> ProviderRow] /\ C!Edited(rows) /\ prov' = rows
    BY <1>0, <2>1, <2>2, <2>3 DEF C!Edited
  <2>5. C!ReferencesStand'
    BY <1>0, <1>1, <1>6, <2>2, <2>3, <2>4 DEF C!EditModel, C!ReferencesStand
  <2>6. QED
    BY <1>0, <1>6, <2>4, <2>5, EditStep DEF C!EditModel
<1>7. QED
  BY <1>2, <1>3, <1>4, <1>5, <1>6

\* The rows of the team: an assignment is to a provider that stands when it is written.
LEMMA TeamRowSteps ==
  ASSUME CatalogInv,
         (\E p \in Providers : C!CheckDelete(p) \/ C!CheckAssign(p)) \/ C!SetTeamAssignment \/ C!ClearTeamAssignment
  PROVE  CatalogInv'
<1>1. /\ chosen \in Providers \cup {0} /\ edit \in [delete : Providers \cup {0}, assign : Providers \cup {0}]
      /\ C!ReferencesStand
  BY DEF CatalogInv, CatalogTypes
<1>2. /\ UNCHANGED <<time, prov, target, lists, load, seenOn>>
      /\ edit' \in [delete : Providers \cup {0}, assign : Providers \cup {0}]
  BY <1>1 DEF C!CheckDelete, C!CheckAssign, C!SetTeamAssignment, C!ClearTeamAssignment
<1>3. chosen' \in Providers \cup {0} /\ (chosen' # 0 => prov[chosen'].here)
  BY <1>1 DEF C!CheckDelete, C!CheckAssign, C!SetTeamAssignment, C!ClearTeamAssignment, C!ReferencesStand
<1>4. C!ReferencesStand'
  BY <1>1, <1>2, <1>3 DEF C!ReferencesStand
<1>5. CatalogTypes'
  BY <1>2, <1>3 DEF CatalogInv, CatalogTypes
<1>6. /\ EditsSeen' /\ TargetSeen' /\ (\A p \in Providers : ListSeen(p)')
      /\ \A l \in Loads : LoadSeen(l)' /\ LoadTimely(l)'
  BY <1>2 DEF CatalogInv, EditsSeen, TargetSeen, ListSeen, LoadSeen, LoadTimely
<1>7. QED
  BY <1>4, <1>5, <1>6 DEF CatalogInv

\* A resolution that began at n turns to a provider, at a moment that is not over.
Turned(p, team, n) == [C!Loading(p, team) EXCEPT !.at = n]

LEMMA LoadingIs ==
  ASSUME CatalogInv, NEW p \in Providers \cup {0}, p # 0 => prov[p].on, NEW team \in BOOLEAN, NEW n \in Nat,
         n <= time, NEW w, w = Turned(p, team, n)
  PROVE  /\ w \in Resolution /\ w.at = n /\ w.m = 0 /\ w.p = p
         /\ w.pc = "models" => p # 0
         /\ p # 0 => n <= seenOn[p].on
<1>1. p # 0 => n <= seenOn[p].on
  BY DEF CatalogInv, EditsSeen
<1>2. PICK pc \in {"models", "put"} : pc = IF p = 0 THEN "put" ELSE "models"
  OBVIOUS
<1>3. Turned(p, team, n) = [pc |-> pc, p |-> p, m |-> 0, team |-> team, at |-> n]
  BY <1>2 DEF Turned, C!Loading
<1>4. [pc |-> pc, p |-> p, m |-> 0, team |-> team, at |-> n] \in Resolution
  BY DEF Resolution
<1>5. w = [pc |-> pc, p |-> p, m |-> 0, team |-> team, at |-> n]
  BY <1>3, Zenon
<1>6. w.at = n /\ w.m = 0 /\ w.p = p /\ w.pc = pc
  BY <1>5
<1>7. w \in Resolution
  BY <1>4, <1>5, Zenon
<1>8. QED
  BY <1>1, <1>2, <1>6, <1>7

\* A resolution moves: the caches' account of it.
LEMMA LoadMoves ==
  ASSUME CatalogInv, NEW l \in Loads, NEW w \in {C!NoLoad} \cup Resolution, load' = [load EXCEPT ![l] = w],
         UNCHANGED <<time, prov, chosen, edit, seenOn>>,
         w.pc # "idle" =>
           /\ w.pc = "models" => w.p # 0
           /\ w.p # 0 => w.at <= seenOn[w.p].on
           /\ w.m # 0 => w.p # 0 /\ w.at <= seenOn[w.p].models[w.m] + TTL
           /\ w.at <= time /\ time <= w.at + 1,
         target' \in {C!Miss} \cup TargetRow, lists' \in [Providers -> {C!Miss} \cup ListRow],
         TargetSeen', \A p \in Providers : ListSeen(p)'
  PROVE  CatalogInv'
<1>1. load' \in [Loads -> {C!NoLoad} \cup Resolution] /\ load'[l] = w /\ \A k \in Loads : k # l => load'[k] = load[k]
  BY DEF CatalogInv, CatalogTypes
<1>2. CatalogTypes'
  BY <1>1 DEF CatalogInv, CatalogTypes
<1>3. EditsSeen' /\ C!ReferencesStand'
  BY DEF CatalogInv, EditsSeen, C!ReferencesStand
<1>4. ASSUME NEW k \in Loads PROVE LoadSeen(k)' /\ LoadTimely(k)'
  <2>1. CASE k = l
    BY <1>1, <2>1 DEF LoadSeen, LoadTimely
  <2>2. CASE k # l
    BY <1>1, <2>2 DEF CatalogInv, LoadSeen, LoadTimely
  <2>3. QED
    BY <2>1, <2>2
<1>5. QED
  BY <1>2, <1>3, <1>4 DEF CatalogInv

\* A resolution starts: with the team's provider while it is enabled, or the platform's.
LEMMA ResolveStep ==
  ASSUME CatalogInv, NEW l \in Loads, C!Resolve(l)
  PROVE  CatalogInv'
<1>1. CASE load' = load
  <2>1. CatalogTypes' /\ EditsSeen' /\ C!ReferencesStand'
    BY <1>1 DEF C!Resolve, CatalogInv, CatalogTypes, EditsSeen, C!ReferencesStand
  <2>2. /\ TargetSeen' /\ (\A p \in Providers : ListSeen(p)')
        /\ \A k \in Loads : LoadSeen(k)' /\ LoadTimely(k)'
    BY <1>1 DEF C!Resolve, CatalogInv, TargetSeen, ListSeen, LoadSeen, LoadTimely
  <2>3. QED
    BY <2>1, <2>2 DEF CatalogInv
<1>2. CASE load' # load
  <2> DEFINE own == chosen # 0 /\ prov[chosen].on
             p == IF own THEN chosen ELSE C!PlatformDefault
             w == C!Loading(p, own)
  <2>1. CatalogTypes /\ time \in Nat /\ chosen \in Providers \cup {0}
    BY DEF CatalogInv, CatalogTypes
  <2>2. p \in Providers \cup {0} /\ (p # 0 => prov[p].on) /\ own \in BOOLEAN
    BY <2>1, DefaultIs
  <2>3. load' = [load EXCEPT ![l] = w]
    BY <1>2 DEF C!Resolve
  <2> HIDE DEF own, p
  <2>4. w = Turned(p, own, time)
    BY DEF C!Loading, Turned
  <2>5. /\ w \in Resolution /\ w.at = time /\ w.m = 0 /\ w.p = p
        /\ w.pc = "models" => p # 0
        /\ p # 0 => time <= seenOn[p].on
    BY <2>1, <2>2, <2>4, LoadingIs
  <2> HIDE DEF w
  <2>6. /\ UNCHANGED <<time, prov, chosen, edit, seenOn, target, lists>>
        /\ target' \in {C!Miss} \cup TargetRow /\ lists' \in [Providers -> {C!Miss} \cup ListRow]
    BY <2>1 DEF C!Resolve, CatalogTypes
  <2>7. TargetSeen' /\ \A q \in Providers : ListSeen(q)'
    BY <2>6 DEF CatalogInv, TargetSeen, ListSeen
  <2>8. w \in {C!NoLoad} \cup Resolution /\ w.at <= time /\ time <= w.at + 1
    BY <2>1, <2>5
  <2>9. QED
    BY <2>3, <2>5, <2>6, <2>7, <2>8, LoadMoves
<1>3. QED
  BY <1>1, <1>2

\* The list of a provider that is read now or was cached: its models were enabled so long ago.
LEMMA ListStep ==
  ASSUME CatalogInv, NEW l \in Loads, C!ListModels(l)
  PROVE  CatalogInv'
<1> DEFINE p == load[l].p
           now == [hit |-> TRUE, until |-> time + TTL, models |-> prov[p].models, main |-> prov[p].main]
           list == IF C!Fresh(lists[p]) THEN lists[p] ELSE now
           m == C!ModelFor(list)
           w == IF m = 0 /\ load[l].team THEN [C!Loading(C!PlatformDefault, FALSE) EXCEPT !.at = load[l].at]
                ELSE [load[l] EXCEPT !.pc = "put", !.m = m]
<1>1. CatalogTypes /\ time \in Nat /\ TTL \in Nat /\ 0 \notin Providers /\ load \in [Loads -> {C!NoLoad} \cup Resolution]
  BY CatalogAssumption DEF CatalogInv, CatalogTypes
<1>2. load[l] \in Resolution /\ load[l].pc = "models"
  BY <1>1 DEF C!ListModels, C!NoLoad
<1>3. /\ p \in Providers /\ load[l].at \in Nat /\ load[l].at <= time /\ time <= load[l].at + 1
      /\ load[l].at <= seenOn[p].on /\ load[l].team \in BOOLEAN
  BY <1>2 DEF CatalogInv, LoadSeen, LoadTimely, Resolution
<1>4. /\ load' = [load EXCEPT ![l] = w] /\ lists' = [lists EXCEPT ![p] = list]
      /\ UNCHANGED <<time, prov, chosen, edit, seenOn, target>>
  BY DEF C!ListModels
<1> HIDE DEF p, m, w
<1>5. prov[p] \in ProviderRow /\ lists[p] \in {C!Miss} \cup ListRow /\ seenOn[p] \in Sighting
  BY <1>1, <1>3 DEF CatalogTypes
<1>6. \A k \in C!Models : seenOn[p].models[k] \in Nat
  BY <1>5 DEF Sighting
<1>7. /\ list \in ListRow
      /\ \A k \in list.models : list.until <= seenOn[p].models[k] + TTL /\ time <= list.until
  <2>1. CASE C!Fresh(lists[p])
    <3>0. lists[p].hit /\ time <= lists[p].until
      BY <2>1 DEF C!Fresh, C!Alive
    <3>1. lists[p] \in ListRow /\ lists[p].hit /\ time <= lists[p].until
      BY <1>5, <3>0 DEF C!Miss
    <3>2. \A k \in lists[p].models : lists[p].until <= seenOn[p].models[k] + TTL
      BY <1>3, <3>1 DEF CatalogInv, ListSeen
    <3>3. list = lists[p]
      BY <2>1
    <3>4. QED
      BY <3>1, <3>2, <3>3, Zenon
  <2>2. CASE ~C!Fresh(lists[p])
    <3>1. list = now
      BY <2>2
    <3>2. prov[p].models \in SUBSET C!Models /\ prov[p].main \in {0, 1, 2} /\ time + TTL \in Nat
      BY <1>1, <1>5 DEF ProviderRow
    <3>3. now \in ListRow /\ now.until = time + TTL /\ now.models = prov[p].models
      BY <3>2 DEF ListRow
    <3>4. \A k \in prov[p].models : seenOn[p].models[k] = time
      BY <1>3, <3>2 DEF CatalogInv, EditsSeen
    <3>5. time <= time + TTL
      BY <1>1
    <3> HIDE DEF now
    <3>6. \A k \in now.models : now.until <= seenOn[p].models[k] + TTL /\ time <= now.until
      BY <1>1, <3>2, <3>3, <3>4, <3>5
    <3>7. QED
      BY <3>1, <3>3, <3>6, Zenon
  <2>3. QED
    BY <2>1, <2>2
<1> HIDE DEF list, now
<1>8. list.models \in SUBSET C!Models /\ list.main \in {0, 1, 2} /\ list.until \in Nat /\ list.hit
  BY <1>7 DEF ListRow
<1>9. m \in {0, 1, 2} /\ (m # 0 => m \in list.models)
  BY <1>8, ModelIs DEF m
<1>10. m # 0 => load[l].at <= seenOn[p].models[m] + TTL
  <2>1. SUFFICES ASSUME m # 0 PROVE load[l].at <= seenOn[p].models[m] + TTL
    OBVIOUS
  <2>2. /\ m \in list.models /\ m \in C!Models
        /\ list.until <= seenOn[p].models[m] + TTL /\ time <= list.until
    BY <1>7, <1>8, <1>9, <2>1
  <2>3. QED
    BY <1>1, <1>3, <1>6, <1>8, <2>2
<1>11. /\ w \in Resolution /\ w.at = load[l].at
       /\ w.pc = "models" => w.p # 0
       /\ w.p # 0 => w.at <= seenOn[w.p].on
       /\ w.m # 0 => w.p # 0 /\ w.at <= seenOn[w.p].models[w.m] + TTL
  <2>1. CASE m = 0 /\ load[l].team
    <3>0. PICK d : d = C!PlatformDefault
      OBVIOUS
    <3>1. PICK n \in Nat : n = load[l].at /\ n <= time /\ w = Turned(d, FALSE, n)
      BY <1>3, <2>1, <3>0 DEF w, Turned
    <3>2. d \in Providers \cup {0} /\ (d # 0 => prov[d].on) /\ FALSE \in BOOLEAN
      BY <1>1, <3>0, DefaultIs
    <3>3. PICK b \in BOOLEAN : b = FALSE
      OBVIOUS
    <3>4. PICK v : v = Turned(d, b, n)
      OBVIOUS
    <3>5. /\ v \in Resolution /\ v.at = n /\ v.m = 0 /\ v.p = d
          /\ v.pc = "models" => d # 0
          /\ d # 0 => n <= seenOn[d].on
      BY <3>1, <3>2, <3>4, LoadingIs
    <3>6. w = v
      BY <3>1, <3>3, <3>4
    <3>7. QED
      BY <3>1, <3>5, <3>6
  <2>2. CASE ~(m = 0 /\ load[l].team)
    <3>1. w = [load[l] EXCEPT !.pc = "put", !.m = m]
      BY <2>2 DEF w
    <3>2. /\ w \in Resolution /\ w.at = load[l].at /\ w.p = load[l].p /\ w.m = m /\ w.pc = "put"
      BY <1>2, <1>9, <3>1 DEF Resolution
    <3>3. QED
      BY <1>1, <1>3, <1>10, <3>2 DEF p
  <2>3. QED
    BY <2>1, <2>2
<1>12. target' \in {C!Miss} \cup TargetRow /\ lists' \in [Providers -> {C!Miss} \cup ListRow]
  BY <1>1, <1>3, <1>4, <1>7 DEF CatalogTypes
<1>13. TargetSeen'
  BY <1>4 DEF CatalogInv, TargetSeen
<1>14. ASSUME NEW q \in Providers PROVE ListSeen(q)'
  <2>1. CASE q = p
    <3>1. lists'[q] = list
      BY <1>1, <1>4, <2>1 DEF CatalogTypes
    <3>2. QED
      BY <1>4, <1>7, <2>1, <3>1 DEF ListSeen
  <2>2. CASE q # p
    <3>1. lists'[q] = lists[q]
      BY <1>1, <1>4, <2>2 DEF CatalogTypes
    <3>2. QED
      BY <1>4, <3>1 DEF ListSeen, CatalogInv
  <2>3. QED
    BY <2>1, <2>2
<1>15. w \in {C!NoLoad} \cup Resolution /\ w.at <= time /\ time <= w.at + 1
  BY <1>3, <1>11
<1>16. QED
  BY <1>4, <1>11, <1>12, <1>13, <1>14, <1>15, LoadMoves

\* The answer enters the cache, at most a tick after the resolution began.
LEMMA PutStep ==
  ASSUME CatalogInv, NEW l \in Loads, C!PutTarget(l)
  PROVE  CatalogInv'
<1> DEFINE answer == IF load[l].m = 0 THEN C!Refused ELSE [p |-> load[l].p, m |-> load[l].m]
<1>1. CatalogTypes /\ time \in Nat /\ TTL \in Nat /\ 0 \notin Providers
  BY CatalogAssumption DEF CatalogInv, CatalogTypes
<1>2. load[l] \in Resolution /\ load[l].pc # "idle"
  BY <1>1 DEF C!PutTarget, C!NoLoad, CatalogTypes, Resolution
<1>3. /\ load[l].at \in Nat /\ time <= load[l].at + 1 /\ load[l].p \in Providers \cup {0} /\ load[l].m \in {0, 1, 2}
      /\ load[l].p # 0 => load[l].at <= seenOn[load[l].p].on
      /\ load[l].m # 0 => load[l].p # 0 /\ load[l].at <= seenOn[load[l].p].models[load[l].m] + TTL
  BY <1>2 DEF CatalogInv, LoadSeen, LoadTimely, Resolution
<1>4. /\ load' = [load EXCEPT ![l] = C!NoLoad]
      /\ target' = [hit |-> TRUE, until |-> time + TTL, p |-> answer.p, m |-> answer.m]
      /\ UNCHANGED <<time, prov, chosen, edit, seenOn, lists>>
  BY DEF C!PutTarget
<1>5. /\ answer.p = (IF load[l].m = 0 THEN 0 ELSE load[l].p) /\ answer.m = load[l].m
  BY DEF C!Refused
<1> HIDE DEF answer
<1>6. answer.p \in Providers \cup {0} /\ answer.m \in {0, 1, 2} /\ time + TTL \in Nat
  BY <1>1, <1>3, <1>5
<1>7. target' \in TargetRow /\ target'.until = time + TTL /\ target'.p = answer.p /\ target'.m = answer.m
  BY <1>4, <1>6 DEF TargetRow
<1>8. TargetSeen'
  <2>1. SUFFICES ASSUME answer.p # 0
                 PROVE  /\ answer.m # 0
                        /\ time + TTL <= seenOn[answer.p].on + TTL + 1
                        /\ time + TTL <= seenOn[answer.p].models[answer.m] + 2 * TTL + 1
    BY <1>4, <1>7 DEF TargetSeen
  <2>2. load[l].m # 0 /\ answer.p = load[l].p /\ answer.m = load[l].m
    BY <1>5, <2>1
  <2>3. load[l].p \in Providers /\ load[l].m \in C!Models
    BY <1>3, <2>2 DEF C!Models
  <2>4. seenOn[load[l].p].on \in Nat /\ seenOn[load[l].p].models[load[l].m] \in Nat
    BY <1>1, <2>3 DEF CatalogTypes, Sighting
  <2>5. load[l].at <= seenOn[load[l].p].on /\ load[l].at <= seenOn[load[l].p].models[load[l].m] + TTL
    BY <1>1, <1>3, <2>2, <2>3
  <2>6. PICK a \in Nat, b \in Nat, n \in Nat :
          a = seenOn[load[l].p].on /\ b = seenOn[load[l].p].models[load[l].m] /\ n = load[l].at
    BY <1>3, <2>4
  <2>7. time + TTL <= a + TTL + 1 /\ time + TTL <= b + 2 * TTL + 1
    BY <1>1, <1>3, <2>5, <2>6
  <2>8. QED
    BY <2>2, <2>6, <2>7
<1>9. \A p \in Providers : ListSeen(p)'
  BY <1>4 DEF CatalogInv, ListSeen
<1>10. C!NoLoad.pc = "idle" /\ C!NoLoad \in {C!NoLoad} \cup Resolution
  BY DEF C!NoLoad
<1>11. lists' \in [Providers -> {C!Miss} \cup ListRow] /\ target' \in {C!Miss} \cup TargetRow
  BY <1>1, <1>4, <1>7 DEF CatalogTypes
<1>12. QED
  BY <1>4, <1>8, <1>9, <1>10, <1>11, LoadMoves

\* An entry leaves.
LEMMA EvictStep ==
  ASSUME CatalogInv, C!Evict
  PROVE  CatalogInv'
<1>1. UNCHANGED <<time, prov, chosen, edit, lists, load, seenOn>> /\ target' = C!Miss
  BY DEF C!Evict
<1>2. CatalogTypes'
  BY <1>1 DEF CatalogInv, CatalogTypes
<1>3. TargetSeen'
  BY <1>1 DEF TargetSeen, C!Miss
<1>4. /\ EditsSeen' /\ C!ReferencesStand' /\ (\A p \in Providers : ListSeen(p)')
      /\ \A l \in Loads : LoadSeen(l)' /\ LoadTimely(l)'
  BY <1>1 DEF CatalogInv, EditsSeen, C!ReferencesStand, ListSeen, LoadSeen, LoadTimely
<1>5. QED
  BY <1>2, <1>3, <1>4 DEF CatalogInv

\* Time passes, for the resolutions under way once.
LEMMA CatalogTick ==
  ASSUME CatalogInv, C!ClockTick
  PROVE  CatalogInv'
<1>1. CatalogTypes /\ time \in Nat /\ time' = time + 1 /\ time' \in Nat
  BY DEF C!ClockTick, CatalogInv, CatalogTypes
<1>2. /\ UNCHANGED <<prov, chosen, edit, load>>
      /\ target' = C!Kept(target) /\ lists' = [p \in Providers |-> C!Kept(lists[p])]
      /\ seenOn' = [p \in Providers |->
            [on |-> IF prov[p].on THEN time + 1 ELSE seenOn[p].on,
             models |-> [m \in C!Models |-> IF m \in prov[p].models THEN time + 1 ELSE seenOn[p].models[m]]]]
  BY DEF C!ClockTick
<1>3. \A p \in Providers : /\ seenOn[p].on \in Nat /\ seenOn[p].on <= time
                           /\ \A m \in C!Models : seenOn[p].models[m] \in Nat /\ seenOn[p].models[m] <= time
  BY <1>1 DEF CatalogInv, CatalogTypes, Sighting, EditsSeen
<1>4. ASSUME NEW p \in Providers
      PROVE  /\ seenOn'[p] \in Sighting
             /\ seenOn'[p].on = (IF prov[p].on THEN time + 1 ELSE seenOn[p].on)
             /\ \A m \in C!Models : seenOn'[p].models[m] = IF m \in prov[p].models THEN time + 1 ELSE seenOn[p].models[m]
  <2> DEFINE n == IF prov[p].on THEN time + 1 ELSE seenOn[p].on
             f == [m \in C!Models |-> IF m \in prov[p].models THEN time + 1 ELSE seenOn[p].models[m]]
  <2>1. seenOn'[p] = [on |-> n, models |-> f]
    BY <1>2
  <2>2. n \in Nat /\ f \in [C!Models -> Nat]
    BY <1>1, <1>3
  <2>3. \A m \in C!Models : f[m] = IF m \in prov[p].models THEN time + 1 ELSE seenOn[p].models[m]
    OBVIOUS
  <2> HIDE DEF n, f
  <2>4. [on |-> n, models |-> f] \in Sighting /\ [on |-> n, models |-> f].on = n /\ [on |-> n, models |-> f].models = f
    BY <2>2 DEF Sighting
  <2>5. seenOn'[p] \in Sighting /\ seenOn'[p].on = n /\ seenOn'[p].models = f
    BY <2>1, <2>4
  <2>6. n = IF prov[p].on THEN time + 1 ELSE seenOn[p].on
    BY DEF n
  <2>7. QED
    BY <2>3, <2>5, <2>6
<1>5. \A w : C!Kept(w) \in {w, C!Miss}
  BY DEF C!Kept
<1>6. CatalogTypes'
  <2>1. seenOn' \in [Providers -> Sighting]
    BY <1>2, <1>4
  <2>2. target' \in {C!Miss} \cup TargetRow /\ lists' \in [Providers -> {C!Miss} \cup ListRow]
    BY <1>1, <1>2, <1>5 DEF CatalogTypes
  <2>3. QED
    BY <1>1, <1>2, <2>1, <2>2 DEF CatalogTypes
<1>7. EditsSeen'
  <2>1. ASSUME NEW p \in Providers PROVE seenOn'[p].on <= time + 1 /\ (prov[p].on => seenOn'[p].on = time + 1)
    BY <1>1, <1>3, <1>4
  <2>2. ASSUME NEW p \in Providers, NEW m \in C!Models
        PROVE  seenOn'[p].models[m] <= time + 1 /\ (m \in prov[p].models => seenOn'[p].models[m] = time + 1)
    BY <1>1, <1>3, <1>4
  <2>3. QED
    BY <1>1, <1>2, <2>1, <2>2 DEF EditsSeen
<1>8. \A p \in Providers : /\ seenOn[p].on <= seenOn'[p].on
                           /\ \A m \in C!Models : seenOn[p].models[m] <= seenOn'[p].models[m]
  <2>1. ASSUME NEW p \in Providers PROVE seenOn[p].on <= seenOn'[p].on
    BY <1>1, <1>3, <1>4
  <2>2. ASSUME NEW p \in Providers, NEW m \in C!Models PROVE seenOn[p].models[m] <= seenOn'[p].models[m]
    BY <1>1, <1>3, <1>4
  <2>3. QED
    BY <2>1, <2>2
<1>9. target' \in {target, C!Miss} /\ \A p \in Providers : lists'[p] \in {lists[p], C!Miss}
  BY <1>2, <1>5
<1>10. TargetSeen' /\ (\A p \in Providers : ListSeen(p)') /\ (\A l \in Loads : LoadSeen(l)')
  BY <1>2, <1>6, <1>8, <1>9, SeenLater
<1>11. \A l \in Loads : LoadTimely(l)'
  <2>1. SUFFICES ASSUME NEW l \in Loads, load[l].pc # "idle" PROVE load[l].at <= time + 1 /\ time + 1 <= load[l].at + 1
    BY <1>1, <1>2 DEF LoadTimely
  <2>2. load[l].at = time
    BY <2>1 DEF C!ClockTick
  <2>3. QED
    BY <1>1, <2>2
<1>12. C!ReferencesStand'
  BY <1>2 DEF CatalogInv, C!ReferencesStand
<1>13. QED
  BY <1>6, <1>7, <1>10, <1>11, <1>12 DEF CatalogInv

\* Every step of the registry.
LEMMA CatalogStep == CatalogInv /\ [C!CatalogNext]_catalogVars => CatalogInv'
<1> SUFFICES ASSUME CatalogInv, [C!CatalogNext]_catalogVars PROVE CatalogInv'
  OBVIOUS
<1>1. CASE UNCHANGED catalogVars
  <2>1. UNCHANGED <<time, prov, chosen, edit, target, lists, load, seenOn>>
    BY <1>1 DEF catalogVars
  <2>2. CatalogTypes' /\ EditsSeen' /\ C!ReferencesStand'
    BY <2>1 DEF CatalogInv, CatalogTypes, EditsSeen, C!ReferencesStand
  <2>3. /\ TargetSeen' /\ (\A p \in Providers : ListSeen(p)')
        /\ \A k \in Loads : LoadSeen(k)' /\ LoadTimely(k)'
    BY <2>1 DEF CatalogInv, TargetSeen, ListSeen, LoadSeen, LoadTimely
  <2>4. QED
    BY <2>2, <2>3 DEF CatalogInv
<1>2. CASE C!DeleteProvider
  <2>1. edit.delete \in Providers
    BY <1>2 DEF C!DeleteProvider, CatalogInv, CatalogTypes
  <2>2. QED
    BY <1>2, <2>1, EditSteps
<1>3. QED
  BY <1>1, <1>2, EditSteps, TeamRowSteps, ResolveStep, ListStep, PutStep, EvictStep, CatalogTick DEF C!CatalogNext

\* Every provider is there and enabled, and the caches are empty.
LEMMA CatalogStart == C!CatalogInit => CatalogInv
<1> SUFFICES ASSUME C!CatalogInit PROVE CatalogInv
  OBVIOUS
<1>1. /\ time = 0 /\ chosen = 0 /\ edit = [delete |-> 0, assign |-> 0]
      /\ prov = [p \in Providers |-> [here |-> TRUE, on |-> TRUE, def |-> p = 1, models |-> C!Models, main |-> 1]]
      /\ seenOn = [p \in Providers |-> [on |-> 0, models |-> [m \in C!Models |-> 0]]]
      /\ target = C!Miss /\ lists = [p \in Providers |-> C!Miss] /\ load = [l \in Loads |-> C!NoLoad]
  BY DEF C!CatalogInit
<1>2. \A p \in Providers : prov[p] \in ProviderRow /\ prov[p].def = (p = 1)
  BY <1>1 DEF ProviderRow
<1>3. \A p \in Providers : /\ seenOn[p] \in Sighting /\ seenOn[p].on = 0
                           /\ \A m \in C!Models : seenOn[p].models[m] = 0
  <2>1. [m \in C!Models |-> 0] \in [C!Models -> Nat]
    OBVIOUS
  <2>2. QED
    BY <1>1, <2>1 DEF Sighting
<1>4. CatalogTypes
  BY <1>1, <1>2, <1>3 DEF CatalogTypes
<1>5. EditsSeen
  BY <1>1, <1>3 DEF EditsSeen
<1>6. TargetSeen /\ (\A p \in Providers : ListSeen(p)) /\ \A l \in Loads : LoadSeen(l) /\ LoadTimely(l)
  BY <1>1 DEF TargetSeen, ListSeen, LoadSeen, LoadTimely, C!Miss, C!NoLoad
<1>7. C!ReferencesStand
  BY <1>1, <1>2 DEF C!ReferencesStand
<1>8. QED
  BY <1>4, <1>5, <1>6, <1>7 DEF CatalogInv

\* What the account means for a reader of the cache.
LEMMA CatalogFollows == CatalogInv => C!CatalogTypeOK /\ C!StaleBounded /\ C!ReferencesStand
<1> SUFFICES ASSUME CatalogInv PROVE C!CatalogTypeOK /\ C!StaleBounded
  BY DEF CatalogInv
<1>0. CatalogTypes /\ time \in Nat /\ TTL \in Nat
  BY CatalogAssumption DEF CatalogInv, CatalogTypes
<1>1. C!CatalogTypeOK
  <2>1. \A p \in Providers : prov[p].models \subseteq C!Models /\ prov[p].main \in C!Models \cup {0}
    BY <1>0 DEF CatalogTypes, ProviderRow, C!Models
  <2>2. \A l \in Loads : load[l].pc \in {"idle", "models", "put"}
    BY <1>0 DEF CatalogTypes, Resolution, C!NoLoad
  <2>3. QED
    BY <1>0, <2>1, <2>2 DEF C!CatalogTypeOK, CatalogTypes
<1>2. C!StaleBounded
  <2>1. SUFFICES ASSUME C!Fresh(target), target.p # 0
                 PROVE  /\ time <= seenOn[target.p].on + TTL + 1
                        /\ time <= seenOn[target.p].models[target.m] + 2 * TTL + 1
    BY DEF C!StaleBounded
  <2>2. target.hit /\ time <= target.until
    BY <2>1 DEF C!Fresh, C!Alive
  <2>3. target \in TargetRow
    BY <1>0, <2>2 DEF CatalogTypes, C!Miss
  <2>4. target.until \in Nat /\ target.p \in Providers /\ target.m \in C!Models
    BY <2>1, <2>2, <2>3 DEF TargetRow, CatalogInv, TargetSeen, C!Models
  <2>5. seenOn[target.p].on \in Nat /\ seenOn[target.p].models[target.m] \in Nat
    BY <1>0, <2>4 DEF CatalogTypes, Sighting
  <2>6. /\ target.until <= seenOn[target.p].on + TTL + 1
        /\ target.until <= seenOn[target.p].models[target.m] + 2 * TTL + 1
    BY <2>1, <2>2 DEF CatalogInv, TargetSeen
  <2>7. QED
    BY <1>0, <2>2, <2>4, <2>5, <2>6
<1>3. QED
  BY <1>1, <1>2

-----------------------------------------------------------------------------
(* The registries: skills.                                                 *)

\* A pointer row and a request.
SkillRow ==
  [st : {"free", "live", "gone"}, scope : K!Scopes, ver : Nat, base : {0} \cup Bases, review : BOOLEAN, on : BOOLEAN]
Saving == {"put", "rollback", "insert", "inserted", "bump", "bumped"}
SaveRow ==
  [pc : Saving \cup {"idle", "delete", "switch", "move", "moving"}, of : SkillIds \cup {0}, scope : K!Scopes, id : SkillIds \cup {0},
   ver : Nat, base : {0} \cup Bases, content : Nat, flag : SUBSET SkillIds]

SkillTypes ==
  /\ skill \in [SkillIds -> SkillRow] /\ versions \in [SkillIds -> Seq(Nat)]
  /\ rowLock \in [SkillIds -> Saves \cup {"none"}] /\ save \in [Saves -> SaveRow]
  /\ written \in 0..MaxSaves /\ switched \in Nat
  /\ acked \in SUBSET [id : SkillIds, ver : Nat, content : Nat]
  /\ walk \in [at : 0..4, steady : SUBSET SkillIds]

\* What a request r stands on: the row it bumps is locked and one version behind, the one it
\* inserts is not there yet.
Holding(w, r, rows, locks) ==
  /\ w.pc \in {"bump", "bumped"} =>
       w.id \in SkillIds /\ rows[w.id].st = "live" /\ locks[w.id] = r /\ w.ver = rows[w.id].ver + 1
  /\ w.pc = "inserted" => w.id \in SkillIds /\ rows[w.id].st = "free" /\ w.ver = 1
  /\ w.pc \in {"rollback", "delete", "switch", "move", "moving"} => w.id \in SkillIds

InsertsApart ==
  \A q, r \in Saves : save[q].pc = "inserted" /\ save[r].pc = "inserted" /\ save[q].id = save[r].id => q = r

\* A row counts its versions, and what was acknowledged is among them.
VersionsKept ==
  /\ \A i \in SkillIds : skill[i].ver = Len(versions[i]) /\ (skill[i].st # "live" => skill[i].ver = 0)
  /\ \A a \in acked : a.ver \in DOMAIN versions[a.id] /\ versions[a.id][a.ver] = a.content

\* The saves that are under way pay for a version each.
Pending == {r \in Saves : save[r].pc \in Saving}
VersionsPaid == \A i \in SkillIds : Len(versions[i]) + Cardinality(Pending) <= written + 1

\* A resolution has not passed what it could see all the while.
Place(scope) == CASE scope = "user" -> 1 [] scope = "system" -> 2 [] scope = "team" -> 3
WalkAhead == \A i \in walk.steady : i \in K!Visible /\ walk.at <= Place(skill[i].scope)

SkillsInv ==
  /\ SkillTypes /\ ~collided /\ collided \in BOOLEAN
  /\ \A r \in Saves : Holding(save[r], r, skill, rowLock)
  /\ InsertsApart /\ VersionsKept /\ VersionsPaid /\ WalkAhead

\* A request at rest.
LEMMA RestingSave == K!Idle \in SaveRow /\ K!Idle.pc = "idle"
BY DEF K!Idle, K!None, SaveRow, K!Scopes

\* A request moves: how many versions are paid for.
LEMMA PaidMoves ==
  ASSUME SkillsInv, NEW r \in Saves, NEW w \in SaveRow, save' = [save EXCEPT ![r] = w],
         NEW n \in {0, 1},
         written' \in Nat, written' >= written,
         w.pc \in Saving => n = 0 /\ (save[r].pc \in Saving \/ written' = written + 1),
         n = 1 => save[r].pc \in Saving,
         \A i \in SkillIds : Len(versions'[i]) \in Nat /\ Len(versions'[i]) <= Len(versions[i]) + n
  PROVE  VersionsPaid'
<1> DEFINE D == Pending
           E == {q \in Saves : save'[q].pc \in Saving}
<1>1. save' \in [Saves -> SaveRow] /\ save'[r] = w /\ \A q \in Saves : q # r => save'[q] = save[q]
  BY DEF SkillsInv, SkillTypes
<1>2. D \in SUBSET Saves /\ E \in SUBSET Saves /\ E \ {r} = D \ {r} /\ (r \in D <=> save[r].pc \in Saving)
      /\ (r \in E <=> w.pc \in Saving)
  BY <1>1 DEF Pending
<1>3. Pending' = E
  BY DEF Pending
<1> HIDE DEF D, E
<1>4. /\ Cardinality(D) \in Nat /\ Cardinality(D \ {r}) \in Nat
      /\ Cardinality(D) = Cardinality(D \ {r}) + (IF r \in D THEN 1 ELSE 0)
  BY <1>2, CountOne, SkillsAssumption
<1>5. /\ Cardinality(E) \in Nat
      /\ Cardinality(E) = Cardinality(D \ {r}) + (IF r \in E THEN 1 ELSE 0)
  BY <1>2, CountOne, SkillsAssumption
<1>6. ASSUME NEW i \in SkillIds PROVE Len(versions'[i]) + Cardinality(E) <= written' + 1
  <2>1. Len(versions[i]) \in Nat /\ Len(versions[i]) + Cardinality(D) <= written + 1 /\ written \in Nat
    BY SkillsAssumption DEF SkillsInv, SkillTypes, VersionsPaid, D
  <2>2. PICK a \in Nat, b \in Nat, c \in Nat : a = Cardinality(D \ {r}) /\ b = Len(versions[i]) /\ c = Len(versions'[i])
    BY <1>4, <2>1
  <2>3. b + a + (IF r \in D THEN 1 ELSE 0) <= written + 1 /\ c <= b + n
    BY <1>4, <2>1, <2>2
  <2>4. CASE r \in E
    <3>1. n = 0 /\ (r \in D \/ written' = written + 1)
      BY <1>2, <2>4
    <3>2. c + (a + 1) <= written' + 1
      BY <2>1, <2>2, <2>3, <3>1
    <3>3. QED
      BY <1>5, <2>2, <2>4, <3>2
  <2>5. CASE r \notin E
    <3>1. n = 1 => r \in D
      BY <1>2
    <3>2. c + a <= written' + 1
      BY <2>1, <2>2, <2>3, <3>1
    <3>3. QED
      BY <1>5, <2>2, <2>5, <3>2
  <2>6. QED
    BY <2>4, <2>5
<1>7. QED
  BY <1>3, <1>6 DEF VersionsPaid

\* A step of a request keeps a resolution's account: a visible skill moves to the team only.
LEMMA WalkKept ==
  ASSUME SkillsInv, skill' \in [SkillIds -> SkillRow],
         \A i \in SkillIds : skill[i].st = "live" /\ skill'[i].st = "live" => skill'[i].scope \in {skill[i].scope, "team"},
         walk' = [walk EXCEPT !.steady = @ \cap K!Visible']
  PROVE  walk' \in [at : 0..4, steady : SUBSET SkillIds] /\ WalkAhead'
<1>1. /\ walk' \in [at : 0..4, steady : SUBSET SkillIds]
      /\ walk'.at = walk.at /\ walk'.steady = walk.steady \cap K!Visible'
      /\ walk.at \in 0..4
  BY DEF SkillsInv, SkillTypes
<1>2. ASSUME NEW i \in walk'.steady PROVE i \in K!Visible' /\ walk.at <= Place(skill'[i].scope)
  <2>1. i \in walk.steady /\ i \in K!Visible' /\ i \in K!Visible /\ walk.at <= Place(skill[i].scope)
    BY <1>1, <1>2 DEF SkillsInv, WalkAhead
  <2>2. i \in SkillIds /\ skill[i].st = "live" /\ skill'[i].st = "live"
    BY <2>1 DEF K!Visible, K!Live
  <2>3. skill[i].scope \in {"user", "system", "team"}
    BY <2>2 DEF SkillsInv, SkillTypes, SkillRow, K!Scopes
  <2>4. CASE skill'[i].scope = skill[i].scope
    BY <2>1, <2>4
  <2>5. CASE skill'[i].scope = "team" /\ ~(skill'[i].scope = skill[i].scope)
    <3>1. Place(skill[i].scope) \in {1, 2, 3} /\ Place(skill'[i].scope) = 3
      BY <2>3, <2>5 DEF Place
    <3>2. QED
      BY <1>1, <2>1, <3>1
  <2>6. QED
    BY <2>1, <2>2, <2>4, <2>5
<1>3. QED
  BY <1>1, <1>2 DEF WalkAhead

\* A request moves and the tables stay: it stands on what it now holds, and the others keep their locks.
LEMMA SaveMoves ==
  ASSUME SkillsInv, NEW r \in Saves, NEW w \in SaveRow, save' = [save EXCEPT ![r] = w],
         UNCHANGED <<skill, versions, acked, collided>>,
         rowLock' \in [SkillIds -> Saves \cup {"none"}],
         \A i \in SkillIds : rowLock[i] \in Saves \ {r} => rowLock'[i] = rowLock[i],
         Holding(w, r, skill, rowLock'),
         w.pc = "inserted" => \A q \in Saves : save[q].pc = "inserted" => save[q].id # w.id,
         written' \in 0..MaxSaves, written' >= written, switched' \in Nat,
         w.pc \in Saving => save[r].pc \in Saving \/ written' = written + 1,
         walk' = [walk EXCEPT !.steady = @ \cap K!Visible']
  PROVE  SkillsInv'
<1>1. save' \in [Saves -> SaveRow] /\ save'[r] = w /\ \A q \in Saves : q # r => save'[q] = save[q]
  BY DEF SkillsInv, SkillTypes
<1>2. walk' \in [at : 0..4, steady : SUBSET SkillIds] /\ WalkAhead'
  BY WalkKept DEF SkillsInv, SkillTypes
<1>3. SkillTypes'
  BY <1>1, <1>2 DEF SkillsInv, SkillTypes
<1>4. ASSUME NEW q \in Saves PROVE Holding(save'[q], q, skill', rowLock')
  <2>1. CASE q = r
    BY <1>1, <2>1
  <2>2. CASE q # r
    <3>1. Holding(save[q], q, skill, rowLock) /\ save'[q] = save[q]
      BY <1>1, <2>2 DEF SkillsInv
    <3>2. QED
      BY <2>2, <3>1 DEF Holding
  <2>3. QED
    BY <2>1, <2>2
<1>5. InsertsApart'
  <2>1. SUFFICES ASSUME NEW q \in Saves, NEW s \in Saves, save'[q].pc = "inserted", save'[s].pc = "inserted",
                        save'[q].id = save'[s].id
                 PROVE  q = s
    BY DEF InsertsApart
  <2>2. QED
    BY <1>1, <2>1 DEF SkillsInv, InsertsApart
<1>6. VersionsKept'
  BY DEF SkillsInv, VersionsKept
<1>7. VersionsPaid'
  <2>1. \A i \in SkillIds : Len(versions[i]) \in Nat
    BY DEF SkillsInv, SkillTypes
  <2>2. written' \in Nat
    BY SkillsAssumption
  <2>3. PICK n \in {0, 1} : n = 0
    OBVIOUS
  <2>4. \A i \in SkillIds : Len(versions'[i]) \in Nat /\ Len(versions'[i]) <= Len(versions[i]) + n
    BY <2>1, <2>3
  <2>5. n = 1 => save[r].pc \in Saving
    BY <2>3
  <2>6. w.pc \in Saving => n = 0 /\ (save[r].pc \in Saving \/ written' = written + 1)
    BY <2>3
  <2>7. QED
    BY <2>2, <2>4, <2>5, <2>6, PaidMoves
<1>8. QED
  BY <1>2, <1>3, <1>4, <1>5, <1>6, <1>7 DEF SkillsInv

\* A request that leaves.
LEMMA LeaveIs ==
  ASSUME SkillsInv, NEW r \in Saves, K!Leave(r)
  PROVE  /\ save' = [save EXCEPT ![r] = K!Idle]
         /\ rowLock' \in [SkillIds -> Saves \cup {"none"}]
         /\ \A i \in SkillIds : rowLock[i] \in Saves \ {r} => rowLock'[i] = rowLock[i]
BY DEF K!Leave, K!Unlocked, SkillsInv, SkillTypes

LEMMA LeaveStep ==
  ASSUME SkillsInv, NEW r \in Saves, K!Leave(r), UNCHANGED <<skill, versions, acked, collided, written, switched>>,
         walk' = [walk EXCEPT !.steady = @ \cap K!Visible']
  PROVE  SkillsInv'
<1>1. Holding(K!Idle, r, skill, rowLock')
  BY RestingSave DEF Holding
<1>2. written \in 0..MaxSaves /\ switched \in Nat /\ written \in Nat
  BY SkillsAssumption DEF SkillsInv, SkillTypes
<1>3. /\ save' = [save EXCEPT ![r] = K!Idle] /\ K!Idle \in SaveRow /\ K!Idle.pc # "inserted" /\ K!Idle.pc \notin Saving
      /\ rowLock' \in [SkillIds -> Saves \cup {"none"}]
      /\ \A i \in SkillIds : rowLock[i] \in Saves \ {r} => rowLock'[i] = rowLock[i]
  BY LeaveIs, RestingSave DEF Saving
<1>4. written' >= written /\ written' \in 0..MaxSaves /\ switched' \in Nat
  BY <1>2
<1>5. QED
  BY <1>1, <1>3, <1>4, SaveMoves

\* A request comes in.
LEMMA BeginStep ==
  ASSUME SkillsInv, NEW r \in Saves, K!Begin(r), walk' = [walk EXCEPT !.steady = @ \cap K!Visible']
  PROVE  SkillsInv'
<1>0. /\ written \in Nat /\ MaxSaves \in Nat /\ switched \in Nat /\ written \in 0..MaxSaves
      /\ rowLock \in [SkillIds -> Saves \cup {"none"}]
  BY SkillsAssumption DEF SkillsInv, SkillTypes
<1>1. ASSUME NEW of \in SkillIds \cup {0}, NEW scope \in K!Scopes, NEW base \in {0} \cup Bases, K!ToSkill(r, of, scope, base)
      PROVE  SkillsInv'
  <2>1. PICK w : w = [K!Idle EXCEPT !.pc = "put", !.of = of, !.scope = scope, !.base = base, !.content = written + 1]
    OBVIOUS
  <2>2. w \in SaveRow /\ w.pc = "put"
    <3>1. PICK n \in Nat : n = written + 1
      BY <1>0
    <3>2. w = [K!Idle EXCEPT !.pc = "put", !.of = of, !.scope = scope, !.base = base, !.content = n]
      BY <2>1, <3>1
    <3>3. QED
      BY <3>2, RestingSave DEF SaveRow, Saving
  <2>3. Holding(w, r, skill, rowLock')
    BY <2>2 DEF Holding
  <2>4. /\ save' = [save EXCEPT ![r] = w] /\ written' = written + 1 /\ written < MaxSaves
        /\ UNCHANGED <<skill, versions, acked, collided, rowLock, switched>>
    BY <1>1, <2>1 DEF K!ToSkill, K!Tables
  <2>5. written' \in 0..MaxSaves /\ written' >= written /\ switched' \in Nat
    BY <1>0, <2>4
  <2>6. QED
    BY <1>0, <2>2, <2>3, <2>4, <2>5, SaveMoves
<1>2. ASSUME NEW scope \in K!Scopes, NEW i \in SkillIds, NEW op \in {"rollback", "delete", "switch", "move"},
             K!ScopedSkill(r, scope, i, op)
      PROVE  SkillsInv'
  <2>1. PICK w : w = [K!Idle EXCEPT !.pc = op, !.of = i, !.id = i]
    OBVIOUS
  <2>2. w \in SaveRow /\ w.pc = op /\ w.id = i
    BY <2>1 DEF K!Idle, K!None, SaveRow, K!Scopes, Saving
  <2>3. Holding(w, r, skill, rowLock')
    BY <2>2 DEF Holding
  <2>4. /\ save' = [save EXCEPT ![r] = w] /\ written' = (IF op = "rollback" THEN written + 1 ELSE written)
        /\ op = "rollback" => written < MaxSaves
        /\ switched' = (IF op = "switch" THEN switched + 1 ELSE switched)
        /\ UNCHANGED <<skill, versions, acked, collided, rowLock>>
    BY <1>2, <2>1 DEF K!ScopedSkill, K!Tables
  <2>5. written' \in 0..MaxSaves /\ written' >= written /\ switched' \in Nat
    BY <1>0, <2>4
  <2>6. w.pc # "inserted" /\ (w.pc \in Saving => written' = written + 1)
    BY <2>2, <2>4 DEF Saving
  <2>7. QED
    BY <1>0, <2>2, <2>3, <2>4, <2>5, <2>6, SaveMoves
<1>3. 0 \in SkillIds \cup {0} /\ 0 \in {0} \cup Bases /\ "system" \in K!Scopes /\ K!None = 0
  BY DEF K!Scopes, K!None
<1>4. K!LoadDir(r) => SkillsInv'
  BY <1>1, <1>3 DEF K!LoadDir
<1>5. ASSUME NEW scope \in K!Scopes, NEW base \in Bases,
             K!CreateSkill(r, scope, base) \/ \E i \in SkillIds : K!UpdateScopedSkill(r, scope, i, base)
      PROVE  SkillsInv'
  BY <1>1, <1>3, <1>5 DEF K!CreateSkill, K!UpdateScopedSkill
<1>6. QED
  BY <1>2, <1>4, <1>5 DEF K!Begin

\* The lookups of a save, which lock the row they find, and its insert, which takes an id of its own.
LEMMA LookupSteps ==
  ASSUME SkillsInv, NEW r \in Saves, walk' = [walk EXCEPT !.steady = @ \cap K!Visible'],
         K!PutLookup(r) \/ K!PutInsert(r) \/ K!PutBump(r) \/ K!MoveCheck(r) \/ \E v \in 1..(MaxSaves + 1) : K!Rollback(r, v)
  PROVE  SkillsInv'
<1>0. /\ written \in Nat /\ switched \in Nat /\ written \in 0..MaxSaves /\ "none" \notin Saves
      /\ rowLock \in [SkillIds -> Saves \cup {"none"}] /\ skill \in [SkillIds -> SkillRow] /\ versions \in [SkillIds -> Seq(Nat)]
      /\ save[r] \in SaveRow /\ Holding(save[r], r, skill, rowLock)
  BY SkillsAssumption DEF SkillsInv, SkillTypes
<1>1. /\ UNCHANGED <<skill, versions, acked, collided, written, switched>>
      /\ written' \in 0..MaxSaves /\ written' >= written /\ switched' \in Nat
  <2>1. UNCHANGED <<K!Tables, K!Records>>
    BY Zenon DEF K!PutLookup, K!PutInsert, K!PutBump, K!MoveCheck, K!Rollback
  <2>2. UNCHANGED <<skill, versions, acked, collided, written, switched>>
    BY <2>1 DEF K!Tables, K!Records
  <2>3. QED
    BY <1>0, <2>2
<1> DEFINE Moves(w) ==
      /\ w \in SaveRow /\ save' = [save EXCEPT ![r] = w] /\ rowLock' \in [SkillIds -> Saves \cup {"none"}]
      /\ \A i \in SkillIds : rowLock[i] \in Saves \ {r} => rowLock'[i] = rowLock[i]
      /\ Holding(w, r, skill, rowLock')
      /\ w.pc = "inserted" => \A q \in Saves : save[q].pc = "inserted" => save[q].id # w.id
      /\ w.pc \in Saving => save[r].pc \in Saving
<1>2. ASSUME NEW w, Moves(w) PROVE SkillsInv'
  BY <1>1, <1>2, SaveMoves
<1> HIDE DEF Moves
<1>3. CASE K!PutLookup(r)
  <2>1. save[r].pc = "put"
    BY <1>3 DEF K!PutLookup
  <2>2. ASSUME NEW i \in K!At(save[r].scope), K!Mine(r, i), rowLock' = [rowLock EXCEPT ![i] = r],
               save' = [save EXCEPT ![r].pc = "bump", ![r].id = i, ![r].ver = skill[i].ver + 1]
        PROVE  SkillsInv'
    <3>1. PICK w : w = [save[r] EXCEPT !.pc = "bump", !.id = i, !.ver = skill[i].ver + 1]
      OBVIOUS
    <3>2. i \in SkillIds /\ skill[i].st = "live" /\ skill[i].ver \in Nat
      BY <1>0, <2>2 DEF K!At, K!Live, SkillRow
    <3>3. w \in SaveRow /\ w.pc = "bump" /\ w.id = i /\ w.ver = skill[i].ver + 1
      <4>1. PICK n \in Nat : n = skill[i].ver + 1
        BY <3>2
      <4>2. w = [save[r] EXCEPT !.pc = "bump", !.id = i, !.ver = n]
        BY <3>1, <4>1
      <4>3. QED
        BY <1>0, <3>2, <4>1, <4>2 DEF SaveRow, Saving
    <3>4. /\ rowLock' \in [SkillIds -> Saves \cup {"none"}] /\ rowLock'[i] = r
          /\ \A j \in SkillIds : rowLock[j] \in Saves \ {r} => rowLock'[j] = rowLock[j]
      BY <1>0, <2>2, <3>2 DEF K!Mine
    <3>5. Holding(w, r, skill, rowLock')
      BY <3>2, <3>3, <3>4 DEF Holding
    <3>6. save' = [save EXCEPT ![r] = w]
      BY <2>2, <3>1
    <3>7. Moves(w)
      BY <2>1, <3>3, <3>4, <3>5, <3>6 DEF Moves, Saving
    <3>8. QED
      BY <1>2, <3>7
  <2>3. ASSUME K!Go(r, "insert"), UNCHANGED rowLock PROVE SkillsInv'
    <3>1. PICK w : w = [save[r] EXCEPT !.pc = "insert"]
      OBVIOUS
    <3>2. w \in SaveRow /\ w.pc = "insert"
      BY <1>0, <3>1 DEF SaveRow, Saving
    <3>3. save' = [save EXCEPT ![r] = w]
      BY <2>3, <3>1 DEF K!Go
    <3>4. Moves(w)
      BY <1>0, <2>1, <2>3, <3>2, <3>3 DEF Moves, Holding, Saving
    <3>5. QED
      BY <1>2, <3>4
  <2>4. QED
    BY <1>3, <2>2, <2>3 DEF K!PutLookup
<1>4. CASE K!PutInsert(r)
  <2>1. save[r].pc = "insert"
    BY <1>4 DEF K!PutInsert
  <2>2. ASSUME NEW i \in SkillIds \ K!Claimed, skill[i].st = "free", UNCHANGED rowLock,
               save' = [save EXCEPT ![r].pc = "inserted", ![r].id = i, ![r].ver = 1]
        PROVE  SkillsInv'
    <3>1. PICK w : w = [save[r] EXCEPT !.pc = "inserted", !.id = i, !.ver = 1]
      OBVIOUS
    <3>2. w \in SaveRow /\ w.pc = "inserted" /\ w.id = i /\ w.ver = 1
      BY <1>0, <3>1 DEF SaveRow, Saving
    <3>3. \A q \in Saves : save[q].pc = "inserted" => save[q].id # i
      BY <2>2 DEF K!Claimed
    <3>4. Holding(w, r, skill, rowLock')
      BY <2>2, <3>2 DEF Holding
    <3>5. save' = [save EXCEPT ![r] = w]
      BY <2>2, <3>1
    <3>6. Moves(w)
      BY <1>0, <2>1, <2>2, <3>2, <3>3, <3>4, <3>5 DEF Moves, Saving
    <3>7. QED
      BY <1>2, <3>6
  <2>3. K!Leave(r) => SkillsInv'
    BY <1>1, LeaveStep
  <2>4. QED
    BY <1>4, <2>2, <2>3 DEF K!PutInsert
<1>5. CASE K!PutBump(r)
  <2> DEFINE i == save[r].id
             flag == {j \in K!Live : skill[j].scope \in K!HigherScopes(skill[i].scope) /\ skill[j].base < save[r].ver}
             w == [save[r] EXCEPT !.pc = "bumped", !.flag = flag]
  <2>1. save[r].pc = "bump" /\ (\A j \in flag \cup {i} : K!Mine(r, j)) /\ flag \in SUBSET SkillIds
        /\ rowLock' = [j \in SkillIds |-> IF j \in flag \cup {i} THEN r ELSE rowLock[j]]
        /\ save' = [save EXCEPT ![r].pc = "bumped", ![r].flag = flag]
    BY <1>5 DEF K!PutBump, K!Live
  <2>2. i \in SkillIds /\ skill[i].st = "live" /\ save[r].ver = skill[i].ver + 1
    BY <1>0, <2>1 DEF Holding
  <2> HIDE DEF flag
  <2>3. w \in SaveRow /\ w.pc = "bumped" /\ w.id = i /\ w.ver = save[r].ver
    BY <1>0, <2>1 DEF SaveRow, Saving
  <2>4. /\ rowLock' \in [SkillIds -> Saves \cup {"none"}] /\ rowLock'[i] = r
        /\ \A j \in SkillIds : rowLock[j] \in Saves \ {r} => rowLock'[j] = rowLock[j]
    BY <1>0, <2>1, <2>2 DEF K!Mine
  <2>5. Holding(w, r, skill, rowLock')
    BY <2>2, <2>3, <2>4 DEF Holding
  <2>6. Moves(w)
    BY <2>1, <2>3, <2>4, <2>5 DEF Moves, Saving
  <2>7. QED
    BY <1>2, <2>6
<1>6. CASE K!MoveCheck(r)
  <2>1. save[r].pc = "move"
    BY <1>6 DEF K!MoveCheck
  <2>2. ASSUME K!Go(r, "moving"), UNCHANGED rowLock PROVE SkillsInv'
    <3>1. PICK w : w = [save[r] EXCEPT !.pc = "moving"]
      OBVIOUS
    <3>2. w \in SaveRow /\ w.pc = "moving" /\ w.id = save[r].id
      BY <1>0, <3>1 DEF SaveRow, Saving
    <3>3. save' = [save EXCEPT ![r] = w]
      BY <2>2, <3>1 DEF K!Go
    <3>4. Holding(w, r, skill, rowLock')
      BY <1>0, <2>1, <3>2 DEF Holding
    <3>5. Moves(w)
      BY <1>0, <2>2, <3>2, <3>3, <3>4 DEF Moves, Saving
    <3>6. QED
      BY <1>2, <3>5
  <2>3. K!Leave(r) => SkillsInv'
    BY <1>1, LeaveStep
  <2>4. QED
    BY <1>6, <2>2, <2>3 DEF K!MoveCheck
<1>7. ASSUME NEW v \in 1..(MaxSaves + 1), K!Rollback(r, v) PROVE SkillsInv'
  <2>1. save[r].pc = "rollback"
    BY <1>7 DEF K!Rollback
  <2>2. ASSUME save[r].id \in K!Live, v \in DOMAIN versions[save[r].id], UNCHANGED rowLock,
               save' = [save EXCEPT ![r] = [K!Idle EXCEPT !.pc = "put", !.of = save[r].id, !.scope = skill[save[r].id].scope,
                                                           !.content = versions[save[r].id][v]]]
        PROVE  SkillsInv'
    <3>1. PICK w : w = [K!Idle EXCEPT !.pc = "put", !.of = save[r].id, !.scope = skill[save[r].id].scope,
                                      !.content = versions[save[r].id][v]]
      OBVIOUS
    <3>2. save[r].id \in SkillIds /\ skill[save[r].id].scope \in K!Scopes /\ versions[save[r].id][v] \in Nat
      BY <1>0, <2>2 DEF K!Live, SkillRow
    <3>3. w \in SaveRow /\ w.pc = "put"
      BY <3>1, <3>2 DEF K!Idle, K!None, SaveRow, K!Scopes, Saving
    <3>4. save' = [save EXCEPT ![r] = w]
      BY <2>2, <3>1
    <3>5. Moves(w)
      BY <1>0, <2>1, <2>2, <3>3, <3>4 DEF Moves, Holding, Saving
    <3>6. QED
      BY <1>2, <3>5
  <2>3. K!Leave(r) => SkillsInv'
    BY <1>1, LeaveStep
  <2>4. QED
    BY <1>7, <2>2, <2>3 DEF K!Rollback
<1>8. QED
  BY <1>3, <1>4, <1>5, <1>6, <1>7

\* A request ends with a write: the others still hold what they stand on.
LEMMA WriteStep ==
  ASSUME SkillsInv, NEW r \in Saves, K!Leave(r), walk' = [walk EXCEPT !.steady = @ \cap K!Visible'],
         skill' \in [SkillIds -> SkillRow], versions' \in [SkillIds -> Seq(Nat)],
         acked' \in SUBSET [id : SkillIds, ver : Nat, content : Nat],
         ~collided', collided' \in BOOLEAN, VersionsKept', UNCHANGED <<written, switched>>,
         \A q \in Saves \ {r} : Holding(save[q], q, skill', rowLock),
         NEW n \in {0, 1}, n = 1 => save[r].pc \in Saving,
         \A i \in SkillIds : Len(versions'[i]) <= Len(versions[i]) + n,
         \A i \in SkillIds : skill[i].st = "live" /\ skill'[i].st = "live" => skill'[i].scope \in {skill[i].scope, "team"}
  PROVE  SkillsInv'
<1>1. /\ save' = [save EXCEPT ![r] = K!Idle] /\ K!Idle \in SaveRow /\ K!Idle.pc = "idle"
      /\ rowLock' \in [SkillIds -> Saves \cup {"none"}]
      /\ \A i \in SkillIds : rowLock[i] \in Saves \ {r} => rowLock'[i] = rowLock[i]
  BY LeaveIs, RestingSave
<1>2. save' \in [Saves -> SaveRow] /\ save'[r] = K!Idle /\ \A q \in Saves : q # r => save'[q] = save[q]
  BY <1>1 DEF SkillsInv, SkillTypes
<1>3. walk' \in [at : 0..4, steady : SUBSET SkillIds] /\ WalkAhead'
  BY WalkKept
<1>4. SkillTypes'
  BY <1>1, <1>2, <1>3 DEF SkillsInv, SkillTypes
<1>5. ASSUME NEW q \in Saves PROVE Holding(save'[q], q, skill', rowLock')
  <2>1. CASE q = r
    BY <1>1, <1>2, <2>1 DEF Holding
  <2>2. CASE q # r
    <3>1. Holding(save[q], q, skill', rowLock) /\ save'[q] = save[q]
      BY <1>2, <2>2
    <3>2. save[q].id \in SkillIds /\ rowLock[save[q].id] = q => rowLock'[save[q].id] = q
      BY <1>1, <2>2
    <3>3. QED
      BY <3>1, <3>2 DEF Holding
  <2>3. QED
    BY <2>1, <2>2
<1>6. InsertsApart'
  <2>1. SUFFICES ASSUME NEW q \in Saves, NEW s \in Saves, save'[q].pc = "inserted", save'[s].pc = "inserted",
                        save'[q].id = save'[s].id
                 PROVE  q = s
    BY DEF InsertsApart
  <2>2. QED
    BY <1>1, <1>2, <2>1 DEF SkillsInv, InsertsApart
<1>7. VersionsPaid'
  <2>1. \A i \in SkillIds : Len(versions'[i]) \in Nat
    OBVIOUS
  <2>2. written' \in Nat /\ written' >= written
    BY SkillsAssumption DEF SkillsInv, SkillTypes
  <2>3. K!Idle.pc \notin Saving
    BY <1>1 DEF Saving
  <2>4. QED
    BY <1>1, <2>1, <2>2, <2>3, PaidMoves
<1>8. QED
  BY <1>3, <1>4, <1>5, <1>6, <1>7 DEF SkillsInv

\* A row that others hold is not r's to write.
LEMMA OthersRow ==
  ASSUME SkillsInv, NEW r \in Saves, NEW i \in SkillIds, K!Mine(r, i), NEW q \in Saves \ {r}
  PROVE  save[q].pc \in {"bump", "bumped"} => save[q].id # i
<1>1. Holding(save[q], q, skill, rowLock) /\ "none" \notin Saves
  BY SkillsAssumption DEF SkillsInv
<1>2. QED
  BY <1>1 DEF Holding, K!Mine

\* The commit of a save: the version is the next one, whoever saved meanwhile.
LEMMA CommitStep ==
  ASSUME SkillsInv, NEW r \in Saves, K!PutCommit(r), walk' = [walk EXCEPT !.steady = @ \cap K!Visible']
  PROVE  SkillsInv'
<1> DEFINE s == save[r]
           i == save[r].id
<1>1. /\ s.pc \in {"inserted", "bumped"} /\ K!Leave(r) /\ UNCHANGED <<written, switched>>
      /\ s \in SaveRow /\ Holding(s, r, skill, rowLock) /\ ~collided
      /\ skill \in [SkillIds -> SkillRow] /\ versions \in [SkillIds -> Seq(Nat)]
      /\ acked \in SUBSET [id : SkillIds, ver : Nat, content : Nat]
  BY DEF K!PutCommit, SkillsInv, SkillTypes
<1>2. i \in SkillIds /\ s.ver = Len(versions[i]) + 1 /\ skill[i] \in SkillRow /\ s.content \in Nat /\ s.flag \in SUBSET SkillIds
      /\ versions[i] \in Seq(Nat) /\ s.base \in {0} \cup Bases /\ s.scope \in K!Scopes
  <2>1. s.content \in Nat /\ s.flag \in SUBSET SkillIds /\ s.base \in {0} \cup Bases /\ s.scope \in K!Scopes
    BY <1>1 DEF SaveRow
  <2>2. i \in SkillIds
    BY <1>1 DEF Holding
  <2>3. skill[i].ver = Len(versions[i]) /\ (skill[i].st # "live" => skill[i].ver = 0)
    BY <2>2 DEF SkillsInv, VersionsKept
  <2>4. s.ver = Len(versions[i]) + 1
    BY <1>1, <2>3 DEF Holding
  <2>5. QED
    BY <1>1, <2>1, <2>2, <2>4
<1>3. K!Insertable(r)
  BY <1>2 DEF K!Insertable
<1>4. /\ versions' = [versions EXCEPT ![i] = Append(versions[i], s.content)]
      /\ skill' = IF s.pc = "inserted" THEN [skill EXCEPT ![i] = K!Fresh(s.scope, s.base)]
                   ELSE [j \in SkillIds |-> [skill[j] EXCEPT !.ver = IF j = i THEN s.ver ELSE @, !.review = @ \/ j \in s.flag]]
      /\ acked' = acked \cup {[id |-> i, ver |-> s.ver, content |-> s.content]}
      /\ ~collided' /\ collided' \in BOOLEAN
  BY <1>1, <1>3 DEF K!PutCommit
<1> HIDE DEF i, s
<1>5. PICK v \in Seq(Nat) : v = Append(versions[i], s.content)
  <2>1. PICK c \in Nat : c = s.content
    BY <1>2
  <2>2. Append(versions[i], c) \in Seq(Nat)
    BY <1>2
  <2>3. QED
    BY <2>1, <2>2
<1>6. /\ Len(versions[i]) \in Nat /\ Len(v) = Len(versions[i]) + 1 /\ v[s.ver] = s.content
      /\ s.ver \in DOMAIN v /\ s.ver \in Nat
      /\ \A k \in DOMAIN versions[i] : k \in DOMAIN v /\ v[k] = versions[i][k]
  BY <1>2, <1>5
<1>7. /\ versions' \in [SkillIds -> Seq(Nat)] /\ versions'[i] = v /\ \A j \in SkillIds : j # i => versions'[j] = versions[j]
  BY <1>1, <1>2, <1>4, <1>5
<1>8. /\ skill' \in [SkillIds -> SkillRow]
      /\ skill'[i].st = "live" /\ skill'[i].ver = s.ver
      /\ \A j \in SkillIds : j # i => /\ skill'[j].st = skill[j].st /\ skill'[j].ver = skill[j].ver
      /\ \A j \in SkillIds : skill[j].st = "live" => skill'[j].scope = skill[j].scope
  <2>1. CASE s.pc = "inserted"
    <3>1. K!Fresh(s.scope, s.base) \in SkillRow /\ K!Fresh(s.scope, s.base).st = "live" /\ K!Fresh(s.scope, s.base).ver = 1
      BY <1>2 DEF K!Fresh, K!Free, SkillRow
    <3>2. s.ver = 1 /\ skill[i].st = "free"
      BY <1>1, <2>1 DEF Holding, s, i
    <3>3. skill' = [skill EXCEPT ![i] = K!Fresh(s.scope, s.base)]
      BY <1>4, <2>1
    <3>4. QED
      BY <1>1, <1>2, <3>1, <3>2, <3>3
  <2>2. CASE s.pc # "inserted"
    <3>1. skill[i].st = "live"
      BY <1>1, <2>2 DEF Holding, s, i
    <3>2. ASSUME NEW j \in SkillIds
          PROVE  /\ skill'[j] \in SkillRow /\ skill'[j].st = skill[j].st /\ skill'[j].scope = skill[j].scope
                 /\ skill'[j].ver = IF j = i THEN s.ver ELSE skill[j].ver
      <4>1. PICK n \in Nat, b \in BOOLEAN : n = (IF j = i THEN s.ver ELSE skill[j].ver) /\ b = (skill[j].review \/ j \in s.flag)
        <5>1. skill[j].ver \in Nat /\ (skill[j].review \/ j \in s.flag) \in BOOLEAN
          BY <1>1 DEF SkillRow
        <5>2. QED
          BY <1>6, <5>1
      <4>2. skill'[j] = [skill[j] EXCEPT !.ver = n, !.review = b]
        BY <1>4, <2>2, <4>1
      <4>3. PICK w \in SkillRow : w = skill[j]
        BY <1>1
      <4>4. [w EXCEPT !.ver = n, !.review = b] \in SkillRow
        BY DEF SkillRow
      <4>5. /\ [w EXCEPT !.ver = n, !.review = b].st = w.st /\ [w EXCEPT !.ver = n, !.review = b].scope = w.scope
            /\ [w EXCEPT !.ver = n, !.review = b].ver = n
        BY DEF SkillRow
      <4>6. QED
        BY <4>1, <4>2, <4>3, <4>4, <4>5
    <3>3. skill' = [j \in SkillIds |-> skill'[j]]
      BY <1>4, <2>2
    <3>4. QED
      BY <1>2, <3>1, <3>2, <3>3
  <2>3. QED
    BY <2>1, <2>2
<1>9. VersionsKept'
  <2>1. ASSUME NEW j \in SkillIds PROVE skill'[j].ver = Len(versions'[j]) /\ (skill'[j].st # "live" => skill'[j].ver = 0)
    <3>1. skill[j].ver = Len(versions[j]) /\ (skill[j].st # "live" => skill[j].ver = 0)
      BY DEF SkillsInv, VersionsKept
    <3>2. QED
      BY <1>2, <1>6, <1>7, <1>8, <3>1
  <2>2. ASSUME NEW a \in acked' PROVE a.ver \in DOMAIN versions'[a.id] /\ versions'[a.id][a.ver] = a.content
    <3>1. CASE a = [id |-> i, ver |-> s.ver, content |-> s.content]
      <4>1. a.id = i /\ a.ver = s.ver /\ a.content = s.content
        BY <3>1
      <4>2. QED
        BY <1>6, <1>7, <4>1
    <3>2. CASE a \in acked
      <4>1. a.id \in SkillIds /\ a.ver \in DOMAIN versions[a.id] /\ versions[a.id][a.ver] = a.content
        BY <1>1, <3>2 DEF SkillsInv, VersionsKept
      <4>2. CASE a.id = i
        BY <1>6, <1>7, <4>1, <4>2
      <4>3. CASE a.id # i
        BY <1>7, <4>1, <4>3
      <4>4. QED
        BY <4>2, <4>3
    <3>3. QED
      BY <1>4, <2>2, <3>1, <3>2
  <2>3. QED
    BY <2>1, <2>2 DEF VersionsKept
<1>10. ASSUME NEW q \in Saves \ {r} PROVE Holding(save[q], q, skill', rowLock)
  <2>1. Holding(save[q], q, skill, rowLock) /\ q \in Saves /\ q # r
    BY DEF SkillsInv
  <2>2. CASE save[q].id # i
    BY <1>8, <2>1, <2>2 DEF Holding
  <2>3. CASE save[q].id = i
    <3>1. save[q].pc # "inserted"
      <4>1. SUFFICES ASSUME save[q].pc = "inserted" PROVE FALSE
        OBVIOUS
      <4>2. skill[i].st = "free" /\ s.pc = "inserted"
        BY <1>1, <2>1, <2>3, <4>1 DEF Holding, s, i
      <4>3. QED
        BY <2>1, <2>3, <4>1, <4>2 DEF SkillsInv, InsertsApart, s, i
    <3>2. save[q].pc \notin {"bump", "bumped"}
      BY <1>1, <2>1, <2>3 DEF Holding, s, i
    <3>3. QED
      BY <2>1, <3>1, <3>2 DEF Holding
  <2>4. QED
    BY <2>2, <2>3
<1>11. acked' \in SUBSET [id : SkillIds, ver : Nat, content : Nat]
  <2>1. [id |-> i, ver |-> s.ver, content |-> s.content] \in [id : SkillIds, ver : Nat, content : Nat]
    BY <1>2, <1>6
  <2>2. QED
    BY <1>1, <1>4, <2>1
<1>12. PICK n \in {0, 1} : n = 1
  OBVIOUS
<1>13. s.pc \in Saving /\ \A j \in SkillIds : Len(versions'[j]) <= Len(versions[j]) + n
  <2>1. \A j \in SkillIds : Len(versions[j]) \in Nat
    BY <1>1
  <2>2. ASSUME NEW j \in SkillIds PROVE Len(versions'[j]) <= Len(versions[j]) + n
    <3>1. CASE j = i
      BY <1>6, <1>7, <1>12, <3>1
    <3>2. CASE j # i
      <4>1. versions'[j] = versions[j]
        BY <1>7, <3>2
      <4>2. QED
        BY <1>12, <2>1, <4>1
    <3>3. QED
      BY <3>1, <3>2
  <2>3. s.pc \in Saving
    BY <1>1 DEF Saving
  <2>4. QED
    BY <2>2, <2>3
<1>14. QED
  BY <1>1, <1>4, <1>7, <1>8, <1>9, <1>10, <1>11, <1>13, WriteStep DEF s

\* The writes that make no version.
LEMMA OtherWrites ==
  ASSUME SkillsInv, NEW r \in Saves, K!Delete(r) \/ K!SetEnabled(r) \/ K!MoveToTeam(r),
         walk' = [walk EXCEPT !.steady = @ \cap K!Visible']
  PROVE  SkillsInv'
<1> DEFINE i == save[r].id
<1>1. /\ save[r].pc \in {"delete", "switch", "moving"} /\ K!Mine(r, i) /\ K!Leave(r)
      /\ UNCHANGED <<written, collided>> /\ switched' = switched
      /\ Holding(save[r], r, skill, rowLock) /\ ~collided /\ collided \in BOOLEAN
      /\ skill \in [SkillIds -> SkillRow] /\ versions \in [SkillIds -> Seq(Nat)]
      /\ acked \in SUBSET [id : SkillIds, ver : Nat, content : Nat]
  BY DEF K!Delete, K!SetEnabled, K!MoveToTeam, K!Records, SkillsInv, SkillTypes
<1>2. i \in SkillIds /\ skill[i] \in SkillRow
  BY <1>1 DEF Holding
<1> HIDE DEF i
<1>3. /\ \A j \in SkillIds : skill[j].ver = Len(versions[j]) /\ (skill[j].st # "live" => skill[j].ver = 0)
      /\ \A a \in acked : a.ver \in DOMAIN versions[a.id] /\ versions[a.id][a.ver] = a.content
  BY DEF SkillsInv, VersionsKept
<1>4. CASE i \notin K!Live
  <2>1. UNCHANGED <<skill, versions>>
    BY <1>1, <1>4 DEF K!Delete, K!SetEnabled, K!MoveToTeam, K!At, i
  <2>2. acked' \in SUBSET acked
    BY <1>1 DEF K!Delete, K!SetEnabled, K!MoveToTeam, K!Records
  <2>3. VersionsKept'
    BY <1>3, <2>1, <2>2 DEF VersionsKept
  <2>4. PICK n \in {0, 1} : n = 0
    OBVIOUS
  <2>5. /\ \A j \in SkillIds : Len(versions'[j]) <= Len(versions[j]) + n
        /\ \A q \in Saves \ {r} : Holding(save[q], q, skill', rowLock)
    BY <1>1, <2>1, <2>4 DEF SkillsInv
  <2>6. skill' \in [SkillIds -> SkillRow] /\ versions' \in [SkillIds -> Seq(Nat)]
        /\ acked' \in SUBSET [id : SkillIds, ver : Nat, content : Nat] /\ ~collided' /\ collided' \in BOOLEAN
        /\ \A j \in SkillIds : skill[j].st = "live" => skill'[j].scope \in {skill[j].scope, "team"}
    BY <1>1, <2>1, <2>2
  <2>7. n = 1 => save[r].pc \in Saving
    BY <2>4
  <2>8. UNCHANGED <<written, switched>> /\ K!Leave(r)
    BY <1>1
  <2>9. \A j \in SkillIds : skill[j].st = "live" /\ skill'[j].st = "live" => skill'[j].scope \in {skill[j].scope, "team"}
    BY <2>6
  <2>10. QED
    BY <2>3, <2>5, <2>6, <2>7, <2>8, <2>9, WriteStep
<1>5. CASE i \in K!Live
  <2>0. skill[i].st = "live"
    BY <1>5 DEF K!Live
  <2>1. PICK w \in SkillRow : /\ skill' = [skill EXCEPT ![i] = w]
                              /\ \/ w.st = "gone" /\ w.ver = 0
                                 \/ w.st = "live" /\ w.ver = skill[i].ver
                              /\ w.st = "live" => /\ w.scope \in {skill[i].scope, "team"}
                                                  /\ UNCHANGED <<versions, acked>>
                              /\ w.st = "gone" => /\ versions' = [versions EXCEPT ![i] = <<>>]
                                                  /\ acked' = {a \in acked : a.id # i}
    <3>1. CASE K!Delete(r)
      <4>1. PICK w : w = [K!Free EXCEPT !.st = "gone"]
        OBVIOUS
      <4>2. w \in SkillRow /\ w.st = "gone" /\ w.ver = 0
        BY <4>1 DEF K!Free, SkillRow, K!Scopes
      <4>3. QED
        BY <1>5, <3>1, <4>1, <4>2 DEF K!Delete, i
    <3>2. CASE K!SetEnabled(r)
      <4>1. PICK w : w = [skill[i] EXCEPT !.on = ~skill[i].on]
        OBVIOUS
      <4>2. w \in SkillRow /\ w.st = "live" /\ w.ver = skill[i].ver /\ w.scope = skill[i].scope
        BY <1>2, <2>0, <4>1 DEF SkillRow
      <4>3. skill' = [skill EXCEPT ![i] = w] /\ UNCHANGED <<versions, acked>>
        BY <1>5, <3>2, <4>1 DEF K!SetEnabled, K!Records, i
      <4>4. QED
        BY <4>2, <4>3
    <3>3. CASE K!MoveToTeam(r)
      <4>1. PICK w : w = IF i \in K!At("user") /\ K!At("team") = {}
                         THEN [skill[i] EXCEPT !.scope = "team", !.base = 0, !.review = FALSE] ELSE skill[i]
        OBVIOUS
      <4>2. w \in SkillRow /\ w.st = "live" /\ w.ver = skill[i].ver /\ w.scope \in {skill[i].scope, "team"}
        BY <1>2, <2>0, <4>1 DEF SkillRow, K!Scopes
      <4>3. skill' = (IF i \in K!At("user") /\ K!At("team") = {}
                      THEN [skill EXCEPT ![i].scope = "team", ![i].base = 0, ![i].review = FALSE] ELSE skill)
            /\ UNCHANGED <<versions, acked>>
        BY <3>3 DEF K!MoveToTeam, K!Records, i
      <4>4. skill' = [skill EXCEPT ![i] = w]
        BY <1>1, <1>2, <4>1, <4>3
      <4>5. QED
        BY <4>2, <4>3, <4>4
    <3>4. QED
      BY <3>1, <3>2, <3>3
  <2>2. /\ skill' \in [SkillIds -> SkillRow] /\ skill'[i] = w /\ \A j \in SkillIds : j # i => skill'[j] = skill[j]
    BY <1>1, <1>2, <2>1
  <2>3. /\ versions' \in [SkillIds -> Seq(Nat)] /\ acked' \in SUBSET acked
        /\ \A j \in SkillIds : j # i => versions'[j] = versions[j]
        /\ w.st = "gone" => versions'[i] = <<>> /\ \A a \in acked' : a.id # i
        /\ w.st = "live" => versions'[i] = versions[i]
    <3>1. CASE w.st = "gone"
      <4>1. <<>> \in Seq(Nat)
        OBVIOUS
      <4>2. versions' = [versions EXCEPT ![i] = <<>>] /\ acked' = {a \in acked : a.id # i}
        BY <2>1, <3>1
      <4>3. versions' \in [SkillIds -> Seq(Nat)]
        BY <1>1, <1>2, <4>1, <4>2
      <4>4. versions'[i] = <<>> /\ \A j \in SkillIds : j # i => versions'[j] = versions[j]
        BY <1>1, <1>2, <4>2
      <4>5. QED
        BY <3>1, <4>2, <4>3, <4>4
    <3>2. CASE w.st = "live"
      BY <1>1, <2>1, <3>2
    <3>3. QED
      BY <2>1, <3>1, <3>2
  <2>4. VersionsKept'
    <3>1. ASSUME NEW j \in SkillIds PROVE skill'[j].ver = Len(versions'[j]) /\ (skill'[j].st # "live" => skill'[j].ver = 0)
      <4>1. Len(<<>>) = 0
        OBVIOUS
      <4>2. QED
        BY <1>3, <2>1, <2>2, <2>3, <4>1
    <3>2. ASSUME NEW a \in acked' PROVE a.ver \in DOMAIN versions'[a.id] /\ versions'[a.id][a.ver] = a.content
      <4>1. a \in acked /\ a.id \in SkillIds
        BY <1>1, <2>3
      <4>2. versions'[a.id] = versions[a.id]
        BY <2>1, <2>3, <4>1
      <4>3. QED
        BY <1>3, <4>1, <4>2
    <3>3. QED
      BY <3>1, <3>2 DEF VersionsKept
  <2>5. ASSUME NEW q \in Saves \ {r} PROVE Holding(save[q], q, skill', rowLock)
    <3>1. Holding(save[q], q, skill, rowLock)
      BY DEF SkillsInv
    <3>2. save[q].pc \in {"bump", "bumped"} => save[q].id # i
      BY <1>1, <1>2, OthersRow DEF i
    <3>3. save[q].pc = "inserted" => save[q].id # i
      BY <2>0, <3>1 DEF Holding
    <3>4. QED
      BY <2>2, <3>1, <3>2, <3>3 DEF Holding
  <2>6. PICK n \in {0, 1} : n = 0
    OBVIOUS
  <2>7. \A j \in SkillIds : Len(versions'[j]) <= Len(versions[j]) + n
    <3>1. ASSUME NEW j \in SkillIds PROVE Len(versions'[j]) <= Len(versions[j])
      <4>1. Len(versions[j]) \in Nat /\ Len(<<>>) = 0
        BY <1>1
      <4>2. QED
        BY <2>1, <2>3, <4>1
    <3>2. QED
      BY <1>1, <2>6, <3>1
  <2>8. acked' \in SUBSET [id : SkillIds, ver : Nat, content : Nat] /\ ~collided' /\ collided' \in BOOLEAN
    BY <1>1, <2>3
  <2>9. \A j \in SkillIds : skill[j].st = "live" /\ skill'[j].st = "live" => skill'[j].scope \in {skill[j].scope, "team"}
    BY <2>1, <2>2
  <2>10. n = 1 => save[r].pc \in Saving
    BY <2>6
  <2>11. UNCHANGED <<written, switched>> /\ K!Leave(r)
    BY <1>1
  <2>12. QED
    BY <2>2, <2>3, <2>4, <2>5, <2>7, <2>8, <2>9, <2>10, <2>11, WriteStep
<1>6. QED
  BY <1>4, <1>5

\* A step of a request.
LEMMA RequestStep ==
  ASSUME SkillsInv, NEW r \in Saves, K!Begin(r) \/ K!Step(r), walk' = [walk EXCEPT !.steady = @ \cap K!Visible']
  PROVE  SkillsInv'
<1>1. CASE K!Abort(r)
  <2>1. K!Leave(r) /\ UNCHANGED <<skill, versions, written, switched, acked, collided>>
    BY <1>1 DEF K!Abort, K!Tables, K!Records
  <2>2. QED
    BY <2>1, LeaveStep
<1>2. QED
  BY <1>1, BeginStep, LookupSteps, CommitStep, OtherWrites DEF K!Step

\* A resolution starts with what it can see and passes a scope only when it finds nothing there.
LEMMA WalkStep ==
  ASSUME SkillsInv, K!Get \/ K!GetScope \/ K!GetNothing
  PROVE  SkillsInv'
<1>1. /\ UNCHANGED <<skill, versions, rowLock, save, written, switched, acked, collided>>
      /\ walk \in [at : 0..4, steady : SUBSET SkillIds] /\ WalkAhead /\ skill \in [SkillIds -> SkillRow]
  BY DEF K!Get, K!GetScope, K!GetNothing, K!Tables, K!Records, SkillsInv, SkillTypes
<1>2. ASSUME NEW i \in SkillIds
      PROVE  /\ skill[i].scope \in {"user", "system", "team"} /\ Place(skill[i].scope) \in 1..3
             /\ K!Priority[Place(skill[i].scope)] = skill[i].scope
  <2>1. skill[i].scope \in {"user", "system", "team"}
    BY <1>1 DEF SkillRow, K!Scopes
  <2>2. Place("user") = 1 /\ Place("system") = 2 /\ Place("team") = 3
    BY DEF Place
  <2>3. K!Priority[1] = "user" /\ K!Priority[2] = "system" /\ K!Priority[3] = "team"
    BY DEF K!Priority
  <2>4. QED
    BY <2>1, <2>2, <2>3
<1>3. K!NoWalk \in [at : 0..4, steady : SUBSET SkillIds] /\ K!NoWalk.steady = {}
  BY DEF K!NoWalk
<1>4. walk' \in [at : 0..4, steady : SUBSET SkillIds] /\ WalkAhead'
  <2>1. CASE K!Get
    <3>1. walk' = [at |-> 1, steady |-> K!Visible] /\ K!Visible \subseteq SkillIds /\ K!Visible' = K!Visible
      BY <1>1, <2>1 DEF K!Get, K!Visible, K!Live
    <3>2. walk'.at = 1 /\ walk'.steady = K!Visible /\ walk' \in [at : 0..4, steady : SUBSET SkillIds]
      BY <3>1
    <3>3. ASSUME NEW i \in walk'.steady PROVE i \in K!Visible' /\ walk'.at <= Place(skill'[i].scope)
      BY <1>1, <1>2, <3>1, <3>2
    <3>4. QED
      BY <3>2, <3>3 DEF WalkAhead
  <2>2. CASE K!GetScope /\ K!At(K!Priority[walk.at]) \cap K!Visible = {}
    <3>1. walk.at \in 1..3 /\ walk' = [walk EXCEPT !.at = walk.at + 1]
      BY <2>2 DEF K!GetScope
    <3>2. /\ walk'.at = walk.at + 1 /\ walk'.steady = walk.steady
          /\ walk' \in [at : 0..4, steady : SUBSET SkillIds]
      <4>1. PICK n \in 0..4 : n = walk.at + 1
        BY <3>1
      <4>2. walk' = [walk EXCEPT !.at = n]
        BY <3>1, <4>1
      <4>3. QED
        BY <1>1, <4>1, <4>2
    <3>3. ASSUME NEW i \in walk'.steady PROVE i \in K!Visible' /\ walk'.at <= Place(skill'[i].scope)
      <4>1. i \in walk.steady /\ i \in K!Visible /\ walk.at <= Place(skill[i].scope)
        BY <1>1, <3>2 DEF WalkAhead
      <4>2. i \in SkillIds /\ i \in K!Live
        BY <4>1 DEF K!Visible, K!Live
      <4>3. walk.at # Place(skill[i].scope)
        <5>1. i \notin K!At(K!Priority[walk.at])
          BY <2>2, <4>1
        <5>2. K!Priority[walk.at] # skill[i].scope
          BY <4>2, <5>1 DEF K!At
        <5>3. QED
          BY <1>2, <4>2, <5>2
      <4>4. i \in K!Visible'
        BY <1>1, <4>1 DEF K!Visible, K!Live
      <4>5. QED
        BY <1>1, <1>2, <3>1, <3>2, <4>1, <4>2, <4>3, <4>4
    <3>4. QED
      BY <3>2, <3>3 DEF WalkAhead
  <2>3. CASE walk' = K!NoWalk
    BY <1>3, <2>3 DEF WalkAhead
  <2>4. QED
    BY <2>1, <2>2, <2>3 DEF K!GetScope, K!GetNothing
<1>5. SkillTypes'
  BY <1>1, <1>4 DEF SkillsInv, SkillTypes
<1>6. /\ ~collided' /\ collided' \in BOOLEAN /\ (\A r \in Saves : Holding(save'[r], r, skill', rowLock'))
      /\ InsertsApart' /\ VersionsKept' /\ VersionsPaid'
  BY <1>1 DEF SkillsInv, InsertsApart, VersionsKept, VersionsPaid, Pending
<1>7. QED
  BY <1>4, <1>5, <1>6 DEF SkillsInv

LEMMA SkillsStep == SkillsInv /\ [K!SkillsNext]_skillVars => SkillsInv'
<1> SUFFICES ASSUME SkillsInv, [K!SkillsNext]_skillVars PROVE SkillsInv'
  OBVIOUS
<1>1. CASE UNCHANGED skillVars
  <2>1. UNCHANGED <<skill, versions, rowLock, save, written, switched, walk, acked, collided>>
    BY <1>1 DEF skillVars
  <2>2. SkillTypes' /\ ~collided' /\ collided' \in BOOLEAN /\ \A r \in Saves : Holding(save'[r], r, skill', rowLock')
    BY <2>1 DEF SkillsInv, SkillTypes
  <2>3. InsertsApart' /\ VersionsKept' /\ VersionsPaid'
    BY <2>1 DEF SkillsInv, InsertsApart, VersionsKept, VersionsPaid, Pending
  <2>4. WalkAhead'
    BY <2>1 DEF SkillsInv, WalkAhead, K!Visible, K!Live
  <2>5. QED
    BY <2>2, <2>3, <2>4 DEF SkillsInv
<1>2. QED
  BY <1>1, RequestStep, WalkStep DEF K!SkillsNext

LEMMA SkillsStart == K!SkillsInit => SkillsInv
<1> SUFFICES ASSUME K!SkillsInit PROVE SkillsInv
  OBVIOUS
<1>1. PICK scope \in K!Scopes : skill = [i \in SkillIds |-> IF i = 1 THEN K!Fresh(scope, 0) ELSE K!Free]
  BY DEF K!SkillsInit
<1>2. /\ versions = [i \in SkillIds |-> IF i = 1 THEN <<0>> ELSE <<>>]
      /\ rowLock = [i \in SkillIds |-> "none"] /\ save = [r \in Saves |-> K!Idle] /\ written = 0 /\ switched = 0
      /\ walk = K!NoWalk /\ acked = {} /\ ~collided /\ collided \in BOOLEAN
  BY DEF K!SkillsInit
<1>3. /\ K!Fresh(scope, 0) \in SkillRow /\ K!Fresh(scope, 0).st = "live" /\ K!Fresh(scope, 0).ver = 1
      /\ K!Free \in SkillRow /\ K!Free.st = "free" /\ K!Free.ver = 0
  BY DEF K!Fresh, K!Free, SkillRow, K!Scopes
<1>4. skill \in [SkillIds -> SkillRow]
  BY <1>1, <1>3
<1>5. /\ <<0>> \in Seq(Nat) /\ Len(<<0>>) = 1 /\ <<>> \in Seq(Nat) /\ Len(<<>>) = 0
  OBVIOUS
<1>6. versions \in [SkillIds -> Seq(Nat)] /\ \A i \in SkillIds : Len(versions[i]) = IF i = 1 THEN 1 ELSE 0
  BY <1>2, <1>5
<1>7. K!NoWalk \in [at : 0..4, steady : SUBSET SkillIds] /\ K!NoWalk.steady = {}
  BY DEF K!NoWalk
<1>8. K!Idle \in SaveRow /\ \A r \in Saves : save[r].pc = "idle"
  BY <1>2, RestingSave
<1>9. SkillTypes
  <2>1. written \in 0..MaxSaves /\ switched \in Nat
    BY <1>2, SkillsAssumption
  <2>2. save \in [Saves -> SaveRow] /\ rowLock \in [SkillIds -> Saves \cup {"none"}]
    BY <1>2, <1>8
  <2>3. QED
    BY <1>2, <1>4, <1>6, <1>7, <2>1, <2>2 DEF SkillTypes
<1>10. (\A r \in Saves : Holding(save[r], r, skill, rowLock)) /\ InsertsApart
  BY <1>8 DEF Holding, InsertsApart
<1>11. VersionsKept
  <2>1. \A i \in SkillIds : skill[i].ver = Len(versions[i]) /\ (skill[i].st # "live" => skill[i].ver = 0)
    BY <1>1, <1>3, <1>6
  <2>2. QED
    BY <1>2, <2>1 DEF VersionsKept
<1>12. VersionsPaid
  <2>1. Pending = {}
    BY <1>8 DEF Pending, Saving
  <2>2. Cardinality(Pending) = 0
    BY <2>1, FS_EmptySet
  <2>3. QED
    BY <1>2, <1>6, <2>2 DEF VersionsPaid
<1>13. WalkAhead
  BY <1>2, <1>7 DEF WalkAhead
<1>14. QED
  BY <1>2, <1>9, <1>10, <1>11, <1>12, <1>13 DEF SkillsInv

LEMMA SkillsFollow == SkillsInv => K!SkillsTypeOK /\ K!SavesSerialize /\ K!WalkFindsWhatStays
<1> SUFFICES ASSUME SkillsInv PROVE K!SkillsTypeOK /\ K!SavesSerialize /\ K!WalkFindsWhatStays
  OBVIOUS
<1>1. SkillTypes /\ VersionsKept /\ ~collided /\ WalkAhead
  BY DEF SkillsInv
<1>2. ASSUME NEW i \in SkillIds PROVE skill[i].ver \in 0..(MaxSaves + 1) /\ skill[i].ver = Len(versions[i])
  <2>1. Pending \in SUBSET Saves
    BY DEF Pending
  <2>2. Cardinality(Pending) \in Nat
    BY <2>1, FS_Subset, FS_CardinalityType, SkillsAssumption
  <2>3. Len(versions[i]) \in Nat /\ written \in Nat /\ written <= MaxSaves /\ MaxSaves \in Nat
    BY <1>1, SkillsAssumption DEF SkillTypes
  <2>4. Len(versions[i]) + Cardinality(Pending) <= written + 1
    BY DEF SkillsInv, VersionsPaid
  <2>5. skill[i].ver = Len(versions[i])
    BY <1>1 DEF VersionsKept
  <2>6. QED
    BY <2>2, <2>3, <2>4, <2>5
<1>3. K!SkillsTypeOK
  <2>1. ASSUME NEW i \in SkillIds
        PROVE  skill[i] \in [st : {"free", "live", "gone"}, scope : K!Scopes, ver : 0..(MaxSaves + 1),
                              base : {0} \cup Bases, review : BOOLEAN, on : BOOLEAN]
    <3>1. skill[i] \in SkillRow
      BY <1>1 DEF SkillTypes
    <3>2. QED
      BY <1>2, <3>1 DEF SkillRow
  <2>2. skill = [i \in SkillIds |-> skill[i]]
    BY <1>1 DEF SkillTypes
  <2>3. skill \in [SkillIds -> [st : {"free", "live", "gone"}, scope : K!Scopes, ver : 0..(MaxSaves + 1),
                            base : {0} \cup Bases, review : BOOLEAN, on : BOOLEAN]]
    BY <2>1, <2>2
  <2>4. /\ \A i \in SkillIds : rowLock[i] \in Saves \cup {"none"}
        /\ walk.at \in 0..4 /\ walk.steady \subseteq SkillIds
    BY <1>1 DEF SkillTypes
  <2>5. collided \in BOOLEAN
    BY DEF SkillsInv
  <2>6. QED
    BY <2>3, <2>4, <2>5 DEF K!SkillsTypeOK
<1>4. K!SavesSerialize
  BY <1>1, <1>2 DEF K!SavesSerialize, VersionsKept, K!Live
<1>5. K!WalkFindsWhatStays
  <2>1. ASSUME NEW i \in walk.steady PROVE walk.at <= 3
    <3>1. i \in SkillIds /\ walk.at <= Place(skill[i].scope)
      BY <1>1 DEF WalkAhead, SkillTypes
    <3>2. skill[i].scope \in {"user", "system", "team"}
      BY <1>1, <3>1 DEF SkillTypes, SkillRow, K!Scopes
    <3>3. Place(skill[i].scope) \in 1..3
      BY <3>2 DEF Place
    <3>4. walk.at \in Nat
      BY <1>1 DEF SkillTypes
    <3>5. QED
      BY <3>1, <3>3, <3>4
  <2>2. QED
    BY <2>1 DEF K!WalkFindsWhatStays
<1>6. QED
  BY <1>3, <1>4, <1>5

-----------------------------------------------------------------------------
(* The registries together.                                                *)

LEMMA McpFollows == McpInv => M!McpTypeOK /\ M!ServerIsServed
BY McpAssumption DEF McpInv, M!McpTypeOK, McpCall

\* A step of the platform moves one of the registries and leaves the others alone.
LEMMA RegistryFrame ==
  [Next]_vars => /\ [C!CatalogNext]_catalogVars /\ [M!McpNext]_mcpVars /\ [K!SkillsNext]_skillVars
<1>1. UNCHANGED vars => UNCHANGED registryVars
  BY DEF vars
<1>2. UNCHANGED registryVars => UNCHANGED catalogVars /\ UNCHANGED mcpVars /\ UNCHANGED skillVars
  BY DEF registryVars
<1>3. Registries => [C!CatalogNext]_catalogVars /\ [M!McpNext]_mcpVars /\ [K!SkillsNext]_skillVars
  BY DEF Registries, Only
<1>4. Edges \/ Identity \/ Limits => UNCHANGED registryVars
  BY DEF Edges, Identity, Limits
<1>5. QED
  BY <1>1, <1>2, <1>3, <1>4 DEF Next

\* A model that is resolved was current at most a cache lifetime ago, whatever the loads and the
\* writes that overlapped put into the cache, and a team's choice outlives no provider
\* (Resolver, PGStore); the configured MCP server is connected or a loop dials it, across edits,
\* drops and reconnects (mcp.Manager); saves of one skill that overlap take versions of
\* their own and what was acknowledged stays, and a skill that is visible all the while is
\* found while others move (skill.PGStore).
THEOREM RegistriesAreSound == Spec => []RegistriesSound
<1> DEFINE Inv == CatalogInv /\ McpInv /\ SkillsInv
<1>1. Init => Inv
  BY CatalogStart, McpStart, SkillsStart DEF Init
<1>2. Inv /\ [Next]_vars => Inv'
  BY RegistryFrame, CatalogStep, McpStep, SkillsStep
<1>3. Inv => RegistriesSound
  BY CatalogFollows, McpFollows, SkillsFollow DEF RegistriesSound
<1>4. QED
  BY <1>1, <1>2, <1>3, PTL DEF Spec

=============================================================================
