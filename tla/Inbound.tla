-------------------------------- MODULE Inbound --------------------------------
(***************************************************************************)
(* Inbound webhooks (internal/inbound): an external system POSTs a signed  *)
(* event, which starts a run; a sender that gets no answer sends the same  *)
(* event again.  The owner meanwhile disables, rotates or deletes the      *)
(* webhook, and the hourly sweep of cmd/server prunes the nonces.  One     *)
(* webhook or both reuse one target session.                               *)
(***************************************************************************)
EXTENDS Integers, FiniteSets

CONSTANTS
  Reqs,          \* request goroutines
  Hooks,         \* webhooks, each with one event its sender signs and repeats
  Window,        \* SignatureWindow in ticks
  Grace,         \* what the sweep adds to the window
  Ahead,         \* how far a sender's clock may run ahead
  MaxSends,      \* bound: requests
  MaxEdits       \* bound: requests of the owner

NoHook == "none"
NoEvent == [delta |-> 0, secret |-> -1]
Unseen == -1

VARIABLES
  hook,          \* rows of inbound_webhooks
  event,         \* per webhook: what its sender signed, and the ticks since the timestamp
  nonces,        \* rows of inbound_webhook_nonces: the ticks since seen_at
  tag,           \* the webhook whose tag the target session carries
  req,           \* per request: control point and locals
  sent,          \* requests so far
  iedits,        \* requests of the owner so far
  started,       \* observed: per event, the runs it started
  left,          \* observed: fresh sessions without a run
  lost,          \* observed: those among them whose DELETE failed or was never sent
  idled,         \* observed: webhooks whose nonce was stored after its event left the window
  fired          \* observed: webhooks that started a run in the target session

inboundVars == <<hook, event, nonces, tag, req, sent, iedits, started, left, lost, idled, fired>>

Hook == [exists : BOOLEAN, enabled : BOOLEAN, secret : 0..MaxEdits, target : BOOLEAN]
Idle == [pc |-> "idle", w |-> CHOOSE w \in Hooks : TRUE, wh |-> [target |-> FALSE], lag |-> 0]

InboundTypeOK ==
  /\ nonces \in [Hooks -> Unseen..(Window + Grace + 1)]
  /\ \A w \in Hooks : event[w].delta \in (-Ahead)..(Window + 1)
  /\ hook \in [Hooks -> Hook]
  /\ tag \in Hooks \cup {NoHook}
  /\ \A r \in Reqs : req[r].pc \in {"idle", "nonce", "session", "pending", "loop", "submit", "stamp"}
  /\ started \in [Hooks -> Nat]
  /\ left \in Nat /\ lost \in Nat /\ idled \subseteq Hooks

InboundInit ==
  /\ hook \in {h \in [Hooks -> Hook] : \A w \in Hooks : h[w].exists /\ h[w].enabled /\ h[w].secret = 0}
  /\ event = [w \in Hooks |-> NoEvent]
  /\ nonces = [w \in Hooks |-> Unseen]
  /\ tag = NoHook
  /\ req = [r \in Reqs |-> Idle]
  /\ sent = 0 /\ iedits = 0
  /\ started = [w \in Hooks |-> 0]
  /\ left = 0 /\ lost = 0
  /\ idled = {} /\ fired = {}

Goto(r, pc) == req' = [req EXCEPT ![r].pc = pc, ![r].lag = 0]
Done(r) == req' = [req EXCEPT ![r] = Idle]

-----------------------------------------------------------------------------
(* The owner, the sender and the clock.                                    *)

\* A request reads the row once, as it comes in: an edit after the last one meets nobody.
Edit ==
  /\ iedits < MaxEdits /\ sent < MaxSends
  /\ iedits' = iedits + 1
  /\ UNCHANGED <<event, nonces, tag, req, sent, started, left, lost, idled, fired>>

SetEnabled(w, on) ==
  /\ Edit
  /\ hook[w].exists /\ hook[w].enabled # on
  /\ hook' = [hook EXCEPT ![w].enabled = on]

RotateSecret(w) ==
  /\ Edit
  /\ hook[w].exists
  /\ hook' = [hook EXCEPT ![w].secret = @ + 1]

Delete(w) ==
  /\ Edit
  /\ hook[w].exists
  /\ hook' = [hook EXCEPT ![w].exists = FALSE]

\* A request minds the clock until it has stored its nonce: after the last one time stops.
ClockMatters == sent < MaxSends \/ \E r \in Reqs : req[r].pc = "nonce"

\* A minute passes, for a request between its signature and its nonce too; ages past the
\* limits are alike.
Tick ==
  /\ ClockMatters
  /\ event' = [w \in Hooks |-> IF event[w] = NoEvent \/ event[w].delta > Window THEN event[w]
                                ELSE [event[w] EXCEPT !.delta = @ + 1]]
  /\ nonces' = [w \in Hooks |-> IF nonces[w] = Unseen \/ nonces[w] > Window + Grace THEN nonces[w]
                                 ELSE nonces[w] + 1]
  /\ req' = [r \in Reqs |-> IF req[r].pc # "nonce" \/ req[r].lag > Window + Grace THEN req[r]
                             ELSE [req[r] EXCEPT !.lag = @ + 1]]
  /\ UNCHANGED <<hook, tag, sent, iedits, started, left, lost, idled, fired>>

NonceKept(w) == nonces[w] <= Window + Grace

SweepExpiredNonces ==
  /\ ClockMatters
  /\ nonces' = [w \in Hooks |-> IF NonceKept(w) THEN nonces[w] ELSE Unseen]
  /\ nonces' # nonces
  /\ UNCHANGED <<hook, event, tag, req, sent, iedits, started, left, lost, idled, fired>>

-----------------------------------------------------------------------------
(* serveTrigger and Dispatch.                                              *)

\* A timestamp within the window on either side, and the current secret.
VerifySignature(ev, wh) ==
  /\ ev.delta <= Window /\ -ev.delta <= Window
  /\ ev.secret = wh.secret

\* The sender signs with the secret it knows and its own clock, or repeats the event.
Sign(w) ==
  \/ event[w] # NoEvent /\ UNCHANGED event
  \/ /\ event[w] = NoEvent
     /\ \E delta \in (-Ahead)..0 :
          event' = [event EXCEPT ![w] = [delta |-> delta, secret |-> hook[w].secret]]

\* The request reads the webhook's row, checks it and the signature.
ServeTrigger(r, w) ==
  /\ req[r].pc = "idle"
  /\ sent < MaxSends /\ sent' = sent + 1
  /\ Sign(w)
  /\ hook[w].exists /\ hook[w].enabled
  /\ VerifySignature(event'[w], hook[w])
  /\ req' = [req EXCEPT ![r] = [pc |-> "nonce", w |-> w, wh |-> hook[w], lag |-> 0]]
  /\ UNCHANGED <<hook, nonces, tag, iedits, started, left, lost, idled, fired>>

NonceFresh(w) == nonces[w] = Unseen

\* The event's window may have closed since the signature was checked.
Idled(w) == IF event[w].delta > Window THEN idled \cup {w} ELSE idled

\* INSERT ... ON CONFLICT DO NOTHING.  The request read the clock for seen_at before it, right
\* after the signature check (no I/O between: one reading here).  A replay ends with 409, an
\* error with 500, whether or not the row is stored.
ClaimNonce(r) ==
  LET w == req[r].w IN
  /\ req[r].pc = "nonce"
  /\ \/ /\ NonceFresh(w)
        /\ nonces' = [nonces EXCEPT ![w] = req[r].lag]
        /\ idled' = Idled(w)
        /\ Goto(r, "session") \/ Done(r)
     \/ UNCHANGED <<nonces, idled>> /\ Done(r)
  /\ UNCHANGED <<hook, event, tag, sent, iedits, started, left, lost, fired>>

\* A fresh session is tagged when it is created; the target session must be the owner's.
\* The INSERT may fail, or its answer be lost with the sender's connection.
ResolveSession(r) ==
  LET fresh == ~req[r].wh.target IN
  /\ req[r].pc = "session"
  /\ \/ /\ left' = IF fresh THEN left + 1 ELSE left
        /\ UNCHANGED lost
        /\ Goto(r, "pending")
     \/ fresh /\ left' = left + 1 /\ lost' = lost + 1 /\ Done(r)
     \/ UNCHANGED <<left, lost>> /\ Done(r)
  /\ UNCHANGED <<hook, event, nonces, tag, sent, iedits, started, idled, fired>>

\* cleanupFreshSession: never the target session.  The DELETE runs on the request's
\* context, which ends with the sender's connection; a failure is only logged.
CleanupFreshSession(r) ==
  IF req[r].wh.target THEN UNCHANGED <<left, lost>>
  ELSE \/ left' = left - 1 /\ UNCHANGED lost
       \/ lost' = lost + 1 /\ UNCHANGED left

Abandon(r) ==
  /\ CleanupFreshSession(r)
  /\ Done(r)

\* The pending-interaction gate, which only a reused session can fail.
PendingGate(r) ==
  /\ req[r].pc = "pending"
  /\ \/ Goto(r, "loop") /\ UNCHANGED <<left, lost>>
     \/ req[r].wh.target /\ Abandon(r)
  /\ UNCHANGED <<hook, event, nonces, tag, sent, iedits, started, idled, fired>>

\* buildLoop, the attribution and the budget gate: any of them may refuse.
BuildLoopAndBudget(r) ==
  /\ req[r].pc = "loop"
  /\ \/ Goto(r, "submit") /\ UNCHANGED <<left, lost>>
     \/ Abandon(r)
  /\ UNCHANGED <<hook, event, nonces, tag, sent, iedits, started, idled, fired>>

\* registry.Submit, which an active run of the target session or the store refuses.
Submit(r) ==
  LET target == req[r].wh.target IN
  /\ req[r].pc = "submit"
  /\ \/ /\ started' = [started EXCEPT ![req[r].w] = @ + 1]
        /\ left' = IF target THEN left ELSE left - 1
        /\ UNCHANGED lost
        /\ fired' = IF target THEN fired \cup {req[r].w} ELSE fired
        /\ Goto(r, "stamp")
     \/ Abandon(r) /\ UNCHANGED <<started, fired>>
  /\ UNCHANGED <<hook, event, nonces, tag, sent, iedits, idled>>

\* Mutant: the newest webhook takes the tag.
StampableAlways(w) == TRUE

Stampable(w) == tag \in {NoHook, w}

\* stampReusedSession, after the submit; a failure is only logged.
StampReusedSession(r) ==
  LET w == req[r].w IN
  /\ req[r].pc = "stamp"
  /\ \/ /\ req[r].wh.target /\ Stampable(w)
        /\ tag' = w
     \/ UNCHANGED tag
  /\ Done(r)
  /\ UNCHANGED <<hook, event, nonces, sent, iedits, started, left, lost, idled, fired>>

Step(r) ==
  \/ ClaimNonce(r) \/ ResolveSession(r) \/ PendingGate(r) \/ BuildLoopAndBudget(r)
  \/ Submit(r) \/ StampReusedSession(r)

InboundNext ==
  \/ Tick \/ SweepExpiredNonces
  \/ \E w \in Hooks : RotateSecret(w) \/ Delete(w) \/ \E on \in BOOLEAN : SetEnabled(w, on)
  \/ \E r \in Reqs : Step(r) \/ \E w \in Hooks : ServeTrigger(r, w)

InboundSpec == InboundInit /\ [][InboundNext]_inboundVars

-----------------------------------------------------------------------------
(* Properties.                                                             *)

\* "The same signed event can only start one run within the window", however often its
\* sender repeats it and whenever the nonces are swept, unless a request stored its nonce
\* when its event had left the window: the nonce of an earlier request may be swept by then.
EventRunsOnce == \A w \in Hooks \ idled : started[w] <= 1

\* A rejected trigger leaves an empty session only where the DELETE failed or the INSERT's
\* answer was lost.
NoEmptySessionLeft ==
  (\A r \in Reqs : req[r].pc \in {"idle", "nonce", "session", "stamp"}) => left = lost

\* "A rejected trigger does not litter an empty session": violated.
NoSessionLittered == lost = 0

\* The target session's tag, which decides whose notify_url learns of its runs, belongs to
\* a webhook that did start a run there and stays with the first one.
TagIsFirstToFire ==
  [][/\ tag # NoHook => tag' = tag
     /\ tag' # NoHook => tag' \in fired']_inboundVars
=============================================================================
