------------------------------- MODULE Webhooks -------------------------------
(***************************************************************************)
(* Run-completion notifications: the outbox (internal/webhook/delivery.go, *)
(* sweep.go), the delivery of one row with its retries (webhook.go, im.go) *)
(* and the run-done hook of cmd/server/wire_chat.go that enqueues it.      *)
(* Several workers, the hook's goroutine and the sweepers of the server    *)
(* instances, share ONE row.                                               *)
(***************************************************************************)
EXTENDS Naturals, Sequences, FiniteSets

CONSTANTS
  Workers,       \* goroutines that deliver: the first takes the hook's part too
  Hook,          \* the worker that runs the run-done hook
  Lease,         \* claimLease in ticks
  Backoffs,      \* outboxBackoffs in ticks
  Retries,       \* Options.Retries: attempts of one Deliver after the first
  MaxFaults      \* bound: crashes and failed statements

VARIABLES
  row,           \* the row of webhook_deliveries
  worker,        \* per worker: control point, its claim and the attempts of its Deliver
  wfaults,       \* faults so far
  sends,         \* observed: workers with a POST in flight
  refused,       \* observed: the consumer answered 4xx to a sweeper
  overran        \* observed: an attempt outlasted its lease

whVars == <<row, worker, wfaults, sends, refused, overran>>

Statuses == {"absent", "pending", "delivered", "failed"}
AtRest == [pc |-> "idle", attempts |-> 0, tries |-> 0, age |-> 0, result |-> "none"]

WebhooksTypeOK ==
  /\ row.status \in Statuses /\ row.attempts \in Nat /\ row.wait \in Nat
  /\ row.readable \in BOOLEAN /\ overran \in BOOLEAN
  /\ \A w \in Workers : worker[w].pc \in {"idle", "claim", "sending", "settle"}
  /\ sends \subseteq Workers
  /\ refused \in BOOLEAN

\* A row as the table has it before the run ends; whether a sweeper will be able to
\* decode the payload is the row's own.
Fresh(status, readable) == [status |-> status, attempts |-> 0, wait |-> 0, readable |-> readable]

WebhooksInit ==
  /\ row \in {Fresh("absent", readable) : readable \in BOOLEAN}
  /\ worker = [w \in Workers |-> AtRest]
  /\ wfaults = 0
  /\ sends = {}
  /\ refused = FALSE
  /\ overran = FALSE

-----------------------------------------------------------------------------
(* The outbox.                                                             *)

\* Enqueue: committed before the first send.
Enqueue ==
  /\ row.status = "absent" /\ worker[Hook].pc = "idle"
  /\ row' = [row EXCEPT !.status = "pending"]
  /\ worker' = [worker EXCEPT ![Hook].pc = "claim"]
  /\ UNCHANGED <<wfaults, sends, refused, overran>>

\* A worker starts its Deliver; without a claim its attempts are 0.
Sends(w, attempts) ==
  /\ worker' = [worker EXCEPT ![w] = [pc |-> "sending", attempts |-> attempts,
                                      tries |-> 0, age |-> 0, result |-> "none"]]
  /\ sends' = sends \cup {w}

\* The INSERT fails, or its answer is lost: the hook delivers without a claim.
EnqueueFails ==
  /\ row.status = "absent" /\ worker[Hook].pc = "idle"
  /\ wfaults < MaxFaults /\ wfaults' = wfaults + 1
  /\ row' = row \/ row' = [row EXCEPT !.status = "pending"]
  /\ Sends(Hook, 0)
  /\ UNCHANGED <<refused, overran>>

\* Mutant: the claim leaves the row visible to the other sweepers.
NoLease == 0

\* Ticks until the row is due again.
ClaimLease == Lease

Claim(w) ==
  /\ row' = [row EXCEPT !.attempts = @ + 1, !.wait = ClaimLease]
  /\ IF w = Hook \/ row.readable
     THEN Sends(w, row.attempts + 1)
     ELSE /\ worker' = [worker EXCEPT ![w] = [pc |-> "settle", attempts |-> row.attempts + 1,
                                             tries |-> 0, age |-> 0, result |-> "unreadable"]]
          /\ UNCHANGED sends
  /\ UNCHANGED <<wfaults, refused, overran>>

\* Mutant: only a row nobody claimed is due.
ClaimableOnce == row.status = "pending" /\ row.attempts = 0

Claimable == row.status = "pending" /\ row.wait = 0

\* The hook claims the row it enqueued; a sweeper that was faster keeps it, and so does
\* the outbox when the statement fails.
ClaimByID ==
  /\ worker[Hook].pc = "claim"
  /\ \/ Claimable /\ Claim(Hook)
     \/ /\ worker' = [worker EXCEPT ![Hook] = AtRest]
        /\ UNCHANGED <<row, wfaults, sends, refused, overran>>

ClaimNext(w) ==
  /\ w # Hook /\ worker[w].pc = "idle"
  /\ Claimable
  /\ Claim(w)

MarkDelivered == row' = [row EXCEPT !.status = "delivered"]

\* The timestamp decides: a past one dead-letters.
MarkFailed(wait) ==
  row' = [row EXCEPT !.status = IF wait > 0 THEN "pending" ELSE "failed", !.wait = wait]

\* An administrator's retry of a dead letter.
Requeue ==
  /\ row.status = "failed"
  /\ wfaults < MaxFaults /\ wfaults' = wfaults + 1
  /\ row' = Fresh("pending", row.readable)
  /\ refused' = FALSE
  /\ UNCHANGED <<worker, sends, overran>>

\* PurgeExpired: settled rows past their retention of at least 30 days.
PurgeExpired ==
  /\ row.status \in {"failed", "delivered"}
  /\ \A w \in Workers : worker[w].pc = "idle"
  /\ row' = Fresh("absent", row.readable)
  /\ refused' = FALSE /\ overran' = FALSE
  /\ UNCHANGED <<worker, wfaults, sends>>

-----------------------------------------------------------------------------
(* One Deliver: up to Retries + 1 attempts within one timeout.             *)

Ends(w, result) ==
  /\ worker' = [worker EXCEPT ![w] = [pc |-> "settle", attempts |-> @.attempts, tries |-> @.tries,
                                      age |-> @.age, result |-> result]]
  /\ sends' = sends \ {w}

\* The consumer's answer to one attempt: 2xx, 4xx, or 5xx and network errors, which
\* Deliver retries until its attempts or its timeout are used up.
Attempt(w) ==
  /\ worker[w].pc = "sending"
  /\ \/ Ends(w, "delivered") /\ UNCHANGED refused
     \/ Ends(w, "rejected") /\ refused' = (refused \/ w # Hook)
     \/ /\ worker[w].tries < Retries
        /\ worker' = [worker EXCEPT ![w].tries = @ + 1]
        /\ UNCHANGED <<sends, refused>>
     \/ Ends(w, "failed") /\ UNCHANGED refused
  /\ UNCHANGED <<row, wfaults, overran>>

Dead(w) ==
  worker[w].result \in {"rejected", "unreadable"} \/ worker[w].attempts > Len(Backoffs)

RetryAfter(w) == IF Dead(w) THEN 0 ELSE Backoffs[worker[w].attempts]

\* The sweeper settles the row, whoever holds it by now; the hook leaves a failure to
\* the sweepers, and has no row when it sends without a claim.  The statement may fail,
\* which is logged or ignored.
Settle(w) ==
  /\ worker[w].pc = "settle"
  /\ worker' = [worker EXCEPT ![w] = AtRest]
  /\ \/ /\ IF worker[w].result = "delivered" /\ worker[w].attempts > 0 THEN MarkDelivered
           ELSE IF worker[w].result # "delivered" /\ w # Hook THEN MarkFailed(RetryAfter(w))
           ELSE UNCHANGED row
        /\ UNCHANGED wfaults
     \/ wfaults < MaxFaults /\ wfaults' = wfaults + 1 /\ UNCHANGED row
  /\ UNCHANGED <<sends, refused, overran>>

Crash(w) ==
  /\ worker[w].pc # "idle"
  /\ wfaults < MaxFaults /\ wfaults' = wfaults + 1
  /\ worker' = [worker EXCEPT ![w] = AtRest]
  /\ sends' = sends \ {w}
  /\ UNCHANGED <<row, refused, overran>>

\* Time passes over leases and attempts.  Nothing bounds webhook_timeout by the lease.
Tick ==
  /\ row' = [row EXCEPT !.wait = IF @ = 0 THEN 0 ELSE @ - 1]
  /\ worker' = [w \in Workers |-> IF worker[w].pc \in {"sending", "settle"} /\ worker[w].age < Lease
                                  THEN [worker[w] EXCEPT !.age = @ + 1] ELSE worker[w]]
  /\ overran' = (overran \/ \E w \in Workers : worker[w].attempts > 0 /\ worker[w].age + 1 >= Lease)
  /\ UNCHANGED <<wfaults, sends, refused>>

Work(w) == ClaimNext(w) \/ Attempt(w) \/ Settle(w)

WebhooksNext ==
  \/ Enqueue \/ EnqueueFails \/ ClaimByID \/ Requeue \/ PurgeExpired \/ Tick
  \/ \E w \in Workers : Work(w) \/ Crash(w)

WebhooksSpec == WebhooksInit /\ [][WebhooksNext]_whVars

-----------------------------------------------------------------------------
(* Properties.                                                             *)

\* A worker that sends under a claim of the row.
Claims(w) == w \in sends /\ worker[w].attempts > 0

\* While every attempt ended within its lease, at most one worker has a POST in flight
\* under a claim, the hook included, through crashes, lost statements and an
\* administrator's retry.
NoDoubleSend == ~overran => \A v, w \in Workers : Claims(v) /\ Claims(w) => v = w

\* As long, a notification is dead-lettered only when the consumer refused it, nobody
\* can read it, or the whole backoff schedule was used up.
DeadLetterDeserved ==
  ~overran /\ row.status = "failed"
    => refused \/ ~row.readable \/ row.attempts > Len(Backoffs)

\* "claims are atomic and carry a lease, so concurrent sweepers never double-send".
\* Violated: an attempt that outlasts its lease is sent again, the INSERT whose answer
\* was lost leaves a row beside the hook's own send, and a late settlement makes the
\* row of a delivered notification pending again.
NeverSentTwice == Cardinality(sends) <= 1

\* A committed notification is delivered or dead-lettered, whatever crashes.
NotificationSettles ==
  row.status = "pending" ~> row.status # "pending"
=============================================================================
