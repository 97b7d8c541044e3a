--------------------------- MODULE BackgroundProofs ---------------------------
(***************************************************************************)
(* Proofs about the background services, for every number of workers,      *)
(* instances, jobs, sessions and messages, every lease, interval and       *)
(* backoff schedule and every bound.                                       *)
(***************************************************************************)
EXTENDS MCBackground, FiniteSetTheorems, SequenceTheorems, TLAPS

-----------------------------------------------------------------------------
(* Webhook delivery.                                                       *)

\* The records of the outbox row and of a worker.
OutboxRow == [status : W!Statuses, attempts : Nat, wait : Nat, readable : BOOLEAN]
Delivery == [pc : {"idle", "claim", "sending", "settle"}, attempts : Nat, tries : Nat, age : Nat,
             result : {"none", "delivered", "rejected", "failed", "unreadable"}]

\* A worker between the start of its Deliver and the statement that settles it.
Busy(w) == worker[w].pc \in {"sending", "settle"}

\* The row and the workers, and who has a POST in flight: without a claim, the hook alone.
DeliveryTypes ==
  /\ row \in OutboxRow
  /\ worker \in [Workers -> Delivery]
  /\ refused \in BOOLEAN /\ overran \in BOOLEAN
  /\ sends = {w \in Workers : worker[w].pc = "sending"}
  /\ \A w \in Workers :
       /\ worker[w].pc = "claim" => w = Hook
       /\ Busy(w) /\ w # Hook => worker[w].attempts > 0
       /\ worker[w].result = "unreadable" => ~row.readable

\* A worker that delivers under a claim of the row.
Delivering(w) == Busy(w) /\ worker[w].attempts > 0

\* The claim of a delivering worker is the row's last one, and its lease outlasts
\* the delivery, so that nobody else may claim.
LeaseCovers ==
  \A w \in Workers : Delivering(w) =>
    /\ row.status = "pending"
    /\ worker[w].attempts = row.attempts
    /\ worker[w].age < Lease /\ row.wait + worker[w].age = Lease

OneClaim == \A v, w \in Workers : Delivering(v) /\ Delivering(w) => v = w

\* A refusal that a sweeper will store was answered to it.
RefusalKnown ==
  \A w \in Workers : Delivering(w) /\ worker[w].result = "rejected" /\ w # Hook => refused

DeadDeserved ==
  row.status = "failed" => refused \/ ~row.readable \/ row.attempts > Len(Backoffs)

\* What holds as long as no attempt has outlasted its lease.
Orderly == LeaseCovers /\ OneClaim /\ RefusalKnown /\ DeadDeserved

\* The inductive invariant of the delivery.
DeliveryInv == DeliveryTypes /\ (~overran => Orderly)

USE DEF W!Statuses

\* The record of a worker at rest.
LEMMA RestTypes ==
  /\ W!AtRest \in Delivery /\ W!AtRest.pc = "idle"
  /\ W!AtRest.attempts = 0 /\ W!AtRest.result = "none"
BY DEF Delivery, W!AtRest

\* One worker moves, to a record of the right shape.
LEMMA WorkerMoves ==
  ASSUME DeliveryTypes, NEW w \in Workers, NEW d \in Delivery,
         worker' = [worker EXCEPT ![w] = d],
         sends' = IF d.pc = "sending" THEN sends \cup {w} ELSE sends \ {w},
         d.pc = "claim" => w = Hook,
         d.pc \in {"sending", "settle"} /\ w # Hook => d.attempts > 0,
         d.result = "unreadable" => ~row.readable,
         row' \in OutboxRow, row'.readable = row.readable,
         refused' \in BOOLEAN, overran' \in BOOLEAN
  PROVE  DeliveryTypes'
<1>1. worker' \in [Workers -> Delivery] /\ worker'[w] = d
      /\ \A v \in Workers : v # w => worker'[v] = worker[v]
  BY DEF DeliveryTypes
<1>2. sends' = {v \in Workers : worker'[v].pc = "sending"}
  BY <1>1 DEF DeliveryTypes
<1>3. ASSUME NEW v \in Workers
      PROVE  /\ worker'[v].pc = "claim" => v = Hook
             /\ Busy(v)' /\ v # Hook => worker'[v].attempts > 0
             /\ worker'[v].result = "unreadable" => ~row'.readable
  <2>1. CASE v = w
    BY <1>1, <2>1 DEF Busy
  <2>2. CASE v # w
    BY <1>1, <2>2 DEF Busy, DeliveryTypes
  <2>3. QED
    BY <2>1, <2>2
<1>4. QED
  BY <1>1, <1>2, <1>3 DEF DeliveryTypes

\* The record of a worker that starts its Deliver or gives the row up as unreadable.
LEMMA StartTypes ==
  ASSUME NEW pc \in {"sending", "settle"}, NEW attempts \in Nat,
         NEW result \in {"none", "unreadable"}
  PROVE  [pc |-> pc, attempts |-> attempts, tries |-> 0, age |-> 0, result |-> result] \in Delivery
BY DEF Delivery

\* What each step does to the row and to one worker.
LEMMA ClaimTypes ==
  ASSUME DeliveryTypes, NEW w \in Workers, worker[w].pc \in {"idle", "claim"}, W!Claim(w)
  PROVE  /\ DeliveryTypes'
         /\ row' \in OutboxRow /\ row'.status = row.status /\ row'.readable = row.readable
         /\ row'.attempts = row.attempts + 1 /\ row'.wait = Lease
         /\ worker'[w].attempts = row.attempts + 1 /\ worker'[w].age = 0
         /\ worker'[w].result \in {"none", "unreadable"}
         /\ \A v \in Workers : v # w => worker'[v] = worker[v]
         /\ refused' = refused /\ overran' = overran
<1> Lease \in Nat
  BY WorkersAssumption
<1>1. row \in OutboxRow /\ row' = [row EXCEPT !.attempts = row.attempts + 1, !.wait = Lease]
  BY DEF DeliveryTypes, W!Claim, W!ClaimLease
<1>2. /\ row' \in OutboxRow /\ row'.status = row.status /\ row'.readable = row.readable
      /\ row'.attempts = row.attempts + 1 /\ row'.wait = Lease
      /\ row.attempts + 1 \in Nat /\ row.attempts + 1 > 0
  <2>1. row.attempts + 1 \in Nat /\ row.attempts + 1 > 0
    BY <1>1 DEF OutboxRow
  <2> DEFINE r == [row EXCEPT !.attempts = row.attempts + 1]
  <2>2. /\ r \in OutboxRow /\ r.status = row.status /\ r.readable = row.readable
        /\ r.attempts = row.attempts + 1
    BY <1>1, <2>1 DEF OutboxRow
  <2>3. row' = [r EXCEPT !.wait = Lease]
    BY <1>1, <2>2
  <2>4. QED
    BY <2>1, <2>2, <2>3 DEF OutboxRow
<1>3. refused' = refused /\ overran' = overran
  BY DEF W!Claim
<1>4. CASE w = Hook \/ row.readable
  <2> DEFINE d == [pc |-> "sending", attempts |-> row.attempts + 1, tries |-> 0, age |-> 0,
                   result |-> "none"]
  <2>1. d \in Delivery
    BY <1>2, StartTypes
  <2>2. worker' = [worker EXCEPT ![w] = d] /\ sends' = sends \cup {w}
    BY <1>4 DEF W!Claim, W!Sends
  <2>3. /\ d.pc = "sending" /\ d.attempts = row.attempts + 1 /\ d.age = 0 /\ d.result = "none"
    OBVIOUS
  <2> HIDE DEF d
  <2>4. DeliveryTypes'
    BY <1>2, <1>3, <2>1, <2>2, <2>3, WorkerMoves DEF DeliveryTypes
  <2>5. QED
    BY <1>2, <1>3, <2>2, <2>3, <2>4 DEF DeliveryTypes
<1>5. CASE ~(w = Hook \/ row.readable)
  <2> DEFINE d == [pc |-> "settle", attempts |-> row.attempts + 1, tries |-> 0, age |-> 0,
                   result |-> "unreadable"]
  <2>1. d \in Delivery
    BY <1>2, StartTypes
  <2>2. worker' = [worker EXCEPT ![w] = d] /\ sends' = sends
    BY <1>5 DEF W!Claim
  <2>3. /\ d.pc = "settle" /\ d.attempts = row.attempts + 1 /\ d.age = 0
        /\ d.result = "unreadable"
    OBVIOUS
  <2> HIDE DEF d
  <2>4. sends' = sends \ {w}
    BY <2>2 DEF DeliveryTypes
  <2>5. DeliveryTypes'
    BY <1>2, <1>3, <1>5, <2>1, <2>2, <2>3, <2>4, WorkerMoves DEF DeliveryTypes
  <2>6. QED
    BY <1>2, <1>3, <2>2, <2>3, <2>5 DEF DeliveryTypes
<1>6. QED
  BY <1>4, <1>5

\* A worker takes a row that nobody delivers.
LEMMA ClaimDelivery ==
  ASSUME DeliveryInv, NEW w \in Workers, worker[w].pc \in {"idle", "claim"}, W!Claimable, W!Claim(w)
  PROVE  DeliveryInv'
<1> Lease \in Nat /\ Lease > 0
  BY WorkersAssumption
<1>1. DeliveryTypes
  BY DEF DeliveryInv
<1>2. /\ DeliveryTypes'
      /\ row' \in OutboxRow /\ row'.status = row.status /\ row'.readable = row.readable
      /\ row'.attempts = row.attempts + 1 /\ row'.wait = Lease
      /\ worker'[w].attempts = row.attempts + 1 /\ worker'[w].age = 0
      /\ worker'[w].result \in {"none", "unreadable"}
      /\ \A v \in Workers : v # w => worker'[v] = worker[v]
      /\ refused' = refused /\ overran' = overran
  BY <1>1, ClaimTypes
<1>3. ASSUME Orderly
      PROVE  Orderly'
  <2>1. \A v \in Workers : ~Delivering(v)
    BY <1>1, <1>3 DEF Orderly, DeliveryTypes, LeaseCovers, OutboxRow, Delivery, W!Claimable
  <2>2. \A v \in Workers : Delivering(v)' => v = w
    BY <1>2, <2>1 DEF Delivering, Busy
  <2>3. row'.status = "pending"
    BY <1>2 DEF W!Claimable
  <2>4. QED
    BY <1>2, <2>2, <2>3 DEF Orderly, LeaseCovers, OneClaim, RefusalKnown, DeadDeserved
<1>4. QED
  BY <1>2, <1>3 DEF DeliveryInv

\* A step of one worker that neither takes nor settles the row.
LEMMA OtherDelivery ==
  ASSUME DeliveryInv, NEW w \in Workers, DeliveryTypes',
         UNCHANGED <<row, overran>>, refused => refused', refused' \in BOOLEAN,
         \A v \in Workers : v # w => worker'[v] = worker[v],
         Delivering(w)' => /\ Delivering(w)
                           /\ worker'[w].attempts = worker[w].attempts
                           /\ worker'[w].age = worker[w].age
                           /\ worker'[w].result = "rejected" /\ w # Hook => refused'
  PROVE  DeliveryInv'
<1>1. ASSUME Orderly
      PROVE  Orderly'
  <2>1. \A v \in Workers : Delivering(v)' =>
          /\ Delivering(v) /\ worker'[v].attempts = worker[v].attempts
          /\ worker'[v].age = worker[v].age
          /\ worker'[v].result = "rejected" /\ v # Hook => refused'
    BY <1>1 DEF Delivering, Busy, Orderly, RefusalKnown
  <2>2. QED
    BY <1>1, <2>1 DEF Orderly, LeaseCovers, OneClaim, RefusalKnown, DeadDeserved
<1>2. QED
  BY <1>1 DEF DeliveryInv

\* One attempt ends, or is made again.
LEMMA AttemptDelivery ==
  ASSUME DeliveryInv, NEW w \in Workers, W!Attempt(w)
  PROVE  DeliveryInv'
<1>1. DeliveryTypes /\ worker[w] \in Delivery /\ worker[w].pc = "sending" /\ Busy(w)
  BY DEF DeliveryInv, DeliveryTypes, W!Attempt, Busy
<1>2. row' = row /\ overran' = overran /\ row \in OutboxRow
  BY <1>1 DEF W!Attempt, DeliveryTypes
<1>3. ASSUME NEW r \in {"delivered", "rejected", "failed"}, W!Ends(w, r),
             refused' = (refused \/ (r = "rejected" /\ w # Hook))
      PROVE  DeliveryInv'
  <2> DEFINE d == [pc |-> "settle", attempts |-> worker[w].attempts, tries |-> worker[w].tries,
                   age |-> worker[w].age, result |-> r]
  <2>1. d \in Delivery
    BY <1>1 DEF Delivery
  <2>2. worker' = [worker EXCEPT ![w] = d] /\ sends' = sends \ {w}
    BY <1>3 DEF W!Ends
  <2>3. /\ d.pc = "settle" /\ d.attempts = worker[w].attempts /\ d.age = worker[w].age
        /\ d.result = r
    OBVIOUS
  <2> HIDE DEF d
  <2>4. refused' \in BOOLEAN
    BY <1>1, <1>3 DEF DeliveryTypes
  <2>5. DeliveryTypes'
    BY <1>1, <1>2, <2>1, <2>2, <2>3, <2>4, WorkerMoves DEF DeliveryTypes
  <2>6. worker'[w] = d /\ \A v \in Workers : v # w => worker'[v] = worker[v]
    BY <1>1, <2>2 DEF DeliveryTypes
  <2>7. QED
    BY <1>1, <1>2, <1>3, <2>3, <2>4, <2>5, <2>6, OtherDelivery DEF Delivering, Busy
<1>4. CASE worker' = [worker EXCEPT ![w].tries = @ + 1] /\ UNCHANGED <<sends, refused>>
  <2> DEFINE d == [worker[w] EXCEPT !.tries = worker[w].tries + 1]
  <2>1. /\ d \in Delivery /\ d.pc = worker[w].pc /\ d.attempts = worker[w].attempts
        /\ d.age = worker[w].age /\ d.result = worker[w].result
    BY <1>1 DEF Delivery
  <2>2. worker' = [worker EXCEPT ![w] = d]
    BY <1>4
  <2> HIDE DEF d
  <2>3. sends' = sends \cup {w} /\ refused' \in BOOLEAN
    BY <1>1, <1>4 DEF DeliveryTypes
  <2>4. DeliveryTypes'
    BY <1>1, <1>2, <2>1, <2>2, <2>3, WorkerMoves DEF DeliveryTypes
  <2>5. worker'[w] = d /\ \A v \in Workers : v # w => worker'[v] = worker[v]
    BY <1>1, <2>2 DEF DeliveryTypes
  <2>6. ASSUME Orderly
        PROVE  Orderly'
    <3>1. \A v \in Workers :
            /\ Delivering(v)' <=> Delivering(v)
            /\ worker'[v].attempts = worker[v].attempts /\ worker'[v].age = worker[v].age
            /\ worker'[v].result = worker[v].result
      BY <2>1, <2>5 DEF Delivering, Busy
    <3>2. QED
      BY <1>2, <1>4, <2>6, <3>1 DEF Orderly, LeaseCovers, OneClaim, RefusalKnown, DeadDeserved
  <2>7. QED
    BY <1>2, <2>4, <2>6 DEF DeliveryInv
<1>5. refused \in BOOLEAN
  BY <1>1 DEF DeliveryTypes
<1>6. QED
  BY <1>3, <1>4, <1>5 DEF W!Attempt

\* A worker that dies, or gives the row up, delivers nothing any more.
LEMMA RestDelivery ==
  ASSUME DeliveryInv, NEW w \in Workers, worker' = [worker EXCEPT ![w] = W!AtRest],
         sends' = sends \ {w}, UNCHANGED <<row, refused, overran>>
  PROVE  DeliveryInv'
<1>1. DeliveryTypes /\ row' \in OutboxRow /\ refused' \in BOOLEAN /\ overran' \in BOOLEAN
  BY DEF DeliveryInv, DeliveryTypes
<1>2. PICK d \in Delivery : d = W!AtRest /\ d.pc = "idle" /\ d.attempts = 0 /\ d.result = "none"
  BY RestTypes
<1>3. DeliveryTypes'
  BY <1>1, <1>2, WorkerMoves
<1>4. worker'[w] = d /\ \A v \in Workers : v # w => worker'[v] = worker[v]
  BY <1>1, <1>2 DEF DeliveryTypes
<1>5. QED
  BY <1>1, <1>2, <1>3, <1>4, OtherDelivery DEF Delivering, Busy

\* The outcome is stored, by the only worker that delivers.
LEMMA SettleDelivery ==
  ASSUME DeliveryInv, NEW w \in Workers, W!Settle(w)
  PROVE  DeliveryInv'
<1>1. /\ DeliveryTypes /\ worker[w] \in Delivery /\ worker[w].pc = "settle" /\ Busy(w)
      /\ row \in OutboxRow
  BY DEF DeliveryInv, DeliveryTypes, W!Settle, Busy
<1>2. /\ worker' = [worker EXCEPT ![w] = W!AtRest] /\ UNCHANGED <<sends, refused, overran>>
  BY DEF W!Settle
<1>3. sends' = sends \ {w}
  BY <1>1, <1>2 DEF DeliveryTypes
<1>4. CASE UNCHANGED row
  BY <1>2, <1>3, <1>4, RestDelivery
<1>5. ASSUME row' \in OutboxRow, row'.readable = row.readable, Delivering(w),
             Orderly => DeadDeserved'
      PROVE  DeliveryInv'
  <2>1. PICK d \in Delivery : d = W!AtRest /\ d.pc = "idle" /\ d.attempts = 0 /\ d.result = "none"
    BY RestTypes
  <2>2. DeliveryTypes'
    BY <1>1, <1>2, <1>3, <1>5, <2>1, WorkerMoves DEF DeliveryTypes
  <2>3. worker'[w] = d /\ \A v \in Workers : v # w => worker'[v] = worker[v]
    BY <1>1, <1>2, <2>1 DEF DeliveryTypes
  <2>4. ASSUME Orderly
        PROVE  Orderly'
    <3>1. \A v \in Workers : ~Delivering(v)'
      BY <1>5, <2>1, <2>3, <2>4 DEF Delivering, Busy, Orderly, OneClaim
    <3>2. QED
      BY <1>5, <2>4, <3>1 DEF Orderly, LeaseCovers, OneClaim, RefusalKnown
  <2>5. QED
    BY <1>2, <2>2, <2>4 DEF DeliveryInv
<1>6. CASE worker[w].result = "delivered" /\ worker[w].attempts > 0 /\ W!MarkDelivered
  <2>1. row' \in OutboxRow /\ row'.status = "delivered" /\ row'.readable = row.readable
    BY <1>1, <1>6 DEF OutboxRow, W!MarkDelivered
  <2>2. QED
    BY <1>1, <1>5, <1>6, <2>1 DEF Delivering, DeadDeserved
<1>7. CASE worker[w].result # "delivered" /\ w # Hook /\ W!MarkFailed(W!RetryAfter(w))
  <2>1. worker[w].attempts > 0 /\ worker[w].attempts \in Nat /\ Delivering(w)
    BY <1>1, <1>7 DEF DeliveryTypes, Delivery, Delivering
  <2>2. CASE W!Dead(w)
    <3>1. row' = [row EXCEPT !.status = "failed", !.wait = 0]
      BY <1>7, <2>2 DEF W!MarkFailed, W!RetryAfter
    <3>2. /\ row' \in OutboxRow /\ row'.readable = row.readable
          /\ row'.attempts = row.attempts
      BY <1>1, <3>1 DEF OutboxRow
    <3>3. ASSUME Orderly
          PROVE  refused \/ ~row.readable \/ row.attempts > Len(Backoffs)
      BY <1>1, <1>7, <2>1, <2>2, <3>3 DEF W!Dead, Orderly, RefusalKnown, LeaseCovers, DeliveryTypes
    <3>4. QED
      BY <1>2, <1>5, <2>1, <3>2, <3>3 DEF DeadDeserved
  <2>3. CASE ~W!Dead(w)
    <3>1. worker[w].attempts \in 1..Len(Backoffs)
      BY <2>1, <2>3, WorkersAssumption DEF W!Dead
    <3>2. Backoffs[worker[w].attempts] \in Nat \ {0}
      BY <3>1, WorkersAssumption
    <3>3. row' = [row EXCEPT !.status = "pending", !.wait = Backoffs[worker[w].attempts]]
      <4>1. W!RetryAfter(w) = Backoffs[worker[w].attempts] /\ W!RetryAfter(w) > 0
        BY <2>3, <3>2 DEF W!RetryAfter
      <4>2. QED
        BY <1>7, <4>1 DEF W!MarkFailed
    <3>4. row' \in OutboxRow /\ row'.readable = row.readable /\ row'.status = "pending"
      BY <1>1, <3>2, <3>3 DEF OutboxRow
    <3>5. QED
      BY <1>5, <2>1, <3>4 DEF DeadDeserved
  <2>4. QED
    BY <2>2, <2>3
<1>8. QED
  BY <1>4, <1>6, <1>7 DEF W!Settle

\* Time passes over all claims at once.
LEMMA TickDelivery ==
  ASSUME DeliveryInv, W!Tick
  PROVE  DeliveryInv'
<1> Lease \in Nat /\ Lease > 0
  BY WorkersAssumption
<1>1. row \in OutboxRow /\ worker \in [Workers -> Delivery] /\ DeliveryTypes
  BY DEF DeliveryInv, DeliveryTypes
<1>2. /\ row' \in OutboxRow /\ row'.status = row.status /\ row'.attempts = row.attempts
      /\ row'.readable = row.readable
      /\ row'.wait = IF row.wait = 0 THEN 0 ELSE row.wait - 1
  BY <1>1 DEF OutboxRow, W!Tick
<1>3. \A w \in Workers :
        /\ worker'[w] \in Delivery
        /\ worker'[w].pc = worker[w].pc /\ worker'[w].attempts = worker[w].attempts
        /\ worker'[w].result = worker[w].result
        /\ worker'[w].age = IF Busy(w) /\ worker[w].age < Lease THEN worker[w].age + 1
                                                                ELSE worker[w].age
  <2>1. TAKE w \in Workers
  <2>2. worker[w] \in Delivery
    BY <1>1
  <2>3. worker'[w] = IF Busy(w) /\ worker[w].age < Lease
                     THEN [worker[w] EXCEPT !.age = worker[w].age + 1] ELSE worker[w]
    BY DEF W!Tick, Busy
  <2>4. QED
    BY <2>2, <2>3 DEF Delivery
<1>4. worker' \in [Workers -> Delivery]
  <2>1. worker' = [w \in Workers |-> worker'[w]]
    BY DEF W!Tick
  <2>2. QED
    BY <1>3, <2>1
<1>5. /\ UNCHANGED <<sends, refused>>
      /\ overran' = (overran \/ \E w \in Workers : worker[w].attempts > 0 /\ worker[w].age + 1 >= Lease)
  BY DEF W!Tick
<1>6. DeliveryTypes'
  BY <1>1, <1>2, <1>3, <1>4, <1>5 DEF DeliveryTypes, Busy
<1>7. \A w \in Workers : Delivering(w)' <=> Delivering(w)
  BY <1>3 DEF Delivering, Busy
<1>8. ASSUME Orderly, ~overran'
      PROVE  Orderly'
  <2>1. LeaseCovers'
    <3>1. SUFFICES ASSUME NEW w \in Workers, Delivering(w)
                   PROVE  /\ row'.status = "pending"
                          /\ worker'[w].attempts = row'.attempts
                          /\ worker'[w].age < Lease /\ row'.wait + worker'[w].age = Lease
      BY <1>7 DEF LeaseCovers
    <3>2. worker[w].age \in Nat /\ row.wait \in Nat
      BY <1>1 DEF OutboxRow, Delivery
    <3>3. /\ row.status = "pending" /\ worker[w].attempts = row.attempts
          /\ worker[w].age < Lease /\ row.wait + worker[w].age = Lease
      BY <1>8, <3>1 DEF Orderly, LeaseCovers
    <3>4. worker[w].age + 1 < Lease /\ Busy(w)
      <4>1. Busy(w) /\ worker[w].attempts > 0
        BY <3>1 DEF Delivering
      <4>2. ~(worker[w].age + 1 >= Lease)
        BY <1>5, <1>8, <4>1 DEF Busy
      <4>3. QED
        BY <3>2, <4>1, <4>2
    <3>5. worker'[w].age = worker[w].age + 1
      BY <1>3, <3>3, <3>4
    <3>6. QED
      BY <1>2, <1>3, <3>2, <3>3, <3>4, <3>5
  <2>2. OneClaim' /\ RefusalKnown' /\ DeadDeserved'
    BY <1>2, <1>3, <1>5, <1>7, <1>8 DEF Orderly, OneClaim, RefusalKnown, DeadDeserved
  <2>3. QED
    BY <2>1, <2>2 DEF Orderly
<1>9. QED
  BY <1>5, <1>6, <1>8 DEF DeliveryInv

\* Nobody delivers under a claim before and after the step.
LEMMA QuietDelivery ==
  ASSUME DeliveryTypes', row'.status # "failed", \A v \in Workers : ~Delivering(v)'
  PROVE  DeliveryInv'
BY DEF DeliveryInv, Orderly, LeaseCovers, OneClaim, RefusalKnown, DeadDeserved

\* The run-done hook commits the row, or cannot and delivers without it.
LEMMA EnqueueDelivery ==
  ASSUME DeliveryInv, W!Enqueue \/ W!EnqueueFails
  PROVE  DeliveryInv'
<1> Hook \in Workers
  BY WorkersAssumption
<1>1. /\ DeliveryTypes /\ row \in OutboxRow /\ row.status = "absent"
      /\ worker[Hook] \in Delivery /\ worker[Hook].pc = "idle"
      /\ UNCHANGED <<refused, overran>>
  BY DEF DeliveryInv, DeliveryTypes, W!Enqueue, W!EnqueueFails
<1>2. [row EXCEPT !.status = "pending"] \in OutboxRow
  BY <1>1 DEF OutboxRow
<1>3. /\ row' \in OutboxRow /\ row'.status \in {"absent", "pending"}
      /\ row'.readable = row.readable
  BY <1>1, <1>2 DEF W!Enqueue, W!EnqueueFails, OutboxRow
<1>4. PICK d \in Delivery : /\ worker' = [worker EXCEPT ![Hook] = d]
                            /\ sends' = IF d.pc = "sending" THEN sends \cup {Hook} ELSE sends \ {Hook}
                            /\ ~(d.pc \in {"sending", "settle"} /\ d.attempts > 0)
                            /\ d.result = "unreadable" => ~row.readable
  <2>1. CASE W!Enqueue
    <3> DEFINE d == [worker[Hook] EXCEPT !.pc = "claim"]
    <3>1. d \in Delivery /\ d.pc = "claim" /\ d.result = worker[Hook].result
      BY <1>1 DEF Delivery
    <3>2. worker' = [worker EXCEPT ![Hook] = d] /\ sends' = sends
      BY <2>1 DEF W!Enqueue
    <3> HIDE DEF d
    <3>3. sends' = sends \ {Hook}
      BY <1>1, <3>2 DEF DeliveryTypes
    <3>4. d.result = "unreadable" => ~row.readable
      BY <1>1, <3>1 DEF DeliveryTypes
    <3>5. QED
      BY <3>1, <3>2, <3>3, <3>4
  <2>2. CASE W!EnqueueFails
    <3> DEFINE d == [pc |-> "sending", attempts |-> 0, tries |-> 0, age |-> 0, result |-> "none"]
    <3>1. d \in Delivery /\ d.pc = "sending" /\ d.attempts = 0 /\ d.result = "none"
      BY StartTypes
    <3>2. worker' = [worker EXCEPT ![Hook] = d] /\ sends' = sends \cup {Hook}
      BY <2>2 DEF W!EnqueueFails, W!Sends
    <3> HIDE DEF d
    <3>3. ~(d.pc \in {"sending", "settle"} /\ d.attempts > 0)
      BY <3>1
    <3>4. QED
      BY <3>1, <3>2, <3>3
  <2>3. QED
    BY <2>1, <2>2
<1>5. DeliveryTypes'
  BY <1>1, <1>3, <1>4, WorkerMoves DEF DeliveryTypes
<1>6. worker'[Hook] = d /\ \A v \in Workers : v # Hook => worker'[v] = worker[v]
  BY <1>1, <1>4 DEF DeliveryTypes
<1>7. ASSUME Orderly
      PROVE  \A v \in Workers : ~Delivering(v)'
  <2>1. \A v \in Workers : ~Delivering(v)
    BY <1>1, <1>7 DEF Orderly, LeaseCovers
  <2>2. QED
    BY <1>4, <1>6, <2>1 DEF Delivering, Busy
<1>8. CASE Orderly
  BY <1>3, <1>5, <1>7, <1>8, QuietDelivery
<1>9. CASE ~Orderly
  BY <1>1, <1>5, <1>9 DEF DeliveryInv
<1>10. QED
  BY <1>8, <1>9

\* An administrator's retry, and the purge of settled rows.
LEMMA AgainDelivery ==
  ASSUME DeliveryInv, W!Requeue \/ W!PurgeExpired
  PROVE  DeliveryInv'
<1>1. DeliveryTypes /\ row \in OutboxRow /\ row.status \in {"failed", "delivered"}
  BY DEF DeliveryInv, DeliveryTypes, W!Requeue, W!PurgeExpired
<1>2. /\ row' \in OutboxRow /\ row'.readable = row.readable
      /\ row'.status \in {"pending", "absent"}
      /\ UNCHANGED <<worker, sends>> /\ refused' = FALSE
      /\ overran' \in BOOLEAN
  <2>1. ASSUME NEW s \in {"pending", "absent"}, row' = W!Fresh(s, row.readable)
        PROVE  /\ row' \in OutboxRow /\ row'.readable = row.readable
               /\ row'.status \in {"pending", "absent"}
    BY <1>1, <2>1 DEF OutboxRow, W!Fresh
  <2>2. row' = W!Fresh("pending", row.readable) \/ row' = W!Fresh("absent", row.readable)
    BY DEF W!Requeue, W!PurgeExpired
  <2>3. /\ UNCHANGED <<worker, sends>> /\ refused' = FALSE
        /\ overran' \in BOOLEAN
    BY <1>1 DEF DeliveryTypes, W!Requeue, W!PurgeExpired
  <2>4. QED
    BY <2>1, <2>2, <2>3
<1>3. DeliveryTypes'
  BY <1>1, <1>2 DEF DeliveryTypes, Busy
<1>4. CASE W!Requeue
  <2>1. overran' = overran
    BY <1>4 DEF W!Requeue
  <2>2. CASE overran
    BY <1>3, <2>1, <2>2 DEF DeliveryInv
  <2>3. CASE ~overran
    <3>1. \A v \in Workers : ~Delivering(v)'
      BY <1>1, <1>2, <2>3 DEF DeliveryInv, Orderly, LeaseCovers, Delivering, Busy
    <3>2. QED
      BY <1>2, <1>3, <3>1, QuietDelivery
  <2>4. QED
    BY <2>2, <2>3
<1>5. CASE W!PurgeExpired
  <2>1. \A v \in Workers : ~Delivering(v)'
    BY <1>2, <1>5 DEF W!PurgeExpired, Delivering, Busy
  <2>2. QED
    BY <1>2, <1>3, <2>1, QuietDelivery
<1>6. QED
  BY <1>4, <1>5

\* The invariant of delivery is inductive.
LEMMA DeliveryStep == DeliveryInv /\ [W!WebhooksNext]_whVars => DeliveryInv'
<1> SUFFICES ASSUME DeliveryInv, [W!WebhooksNext]_whVars
             PROVE  DeliveryInv'
  OBVIOUS
<1> Hook \in Workers
  BY WorkersAssumption
<1>1. CASE UNCHANGED whVars
  BY <1>1 DEF whVars, DeliveryInv, DeliveryTypes, Orderly, LeaseCovers, OneClaim, RefusalKnown,
              DeadDeserved, Delivering, Busy
<1>2. CASE W!ClaimByID
  <2>1. CASE W!Claimable /\ W!Claim(Hook)
    BY <1>2, <2>1, ClaimDelivery DEF W!ClaimByID
  <2>2. CASE worker' = [worker EXCEPT ![Hook] = W!AtRest] /\ UNCHANGED <<row, sends, refused, overran>>
    <3>1. sends' = sends \ {Hook}
      BY <1>2, <2>2 DEF W!ClaimByID, DeliveryInv, DeliveryTypes
    <3>2. QED
      BY <2>2, <3>1, RestDelivery
  <2>3. QED
    BY <1>2, <2>1, <2>2 DEF W!ClaimByID
<1>3. CASE \E w \in Workers : W!Work(w) \/ W!Crash(w)
  <2>1. PICK w \in Workers : W!Work(w) \/ W!Crash(w)
    BY <1>3
  <2>2. CASE W!ClaimNext(w)
    BY <2>2, ClaimDelivery DEF W!ClaimNext
  <2>3. CASE W!Crash(w)
    BY <2>3, RestDelivery DEF W!Crash
  <2>4. QED
    BY <2>1, <2>2, <2>3, AttemptDelivery, SettleDelivery DEF W!Work
<1>4. QED
  BY <1>1, <1>2, <1>3, EnqueueDelivery, AgainDelivery, TickDelivery DEF W!WebhooksNext

\* A composite's step is one of the delivery's or leaves it alone.
LEMMA DeliveryFrame == [Next]_vars => [W!WebhooksNext]_whVars
BY DEF Next, vars, SchedStep, JobStep, DreamStep, WebhookStep, Only

\* As long as no attempt outlasts its lease, at most one worker delivers a row under a
\* claim and a dead letter is deserved: for any number of sweepers beside the hook,
\* through crashes between the attempts, failed statements, INSERTs whose answer is lost
\* and retries by an administrator.
THEOREM DeliveryIsSound == Spec => []DeliverySound
<1>1. Init => DeliveryInv
  <2>1. SUFFICES ASSUME W!WebhooksInit PROVE DeliveryInv
    BY DEF Init
  <2>2. row \in OutboxRow /\ row.status = "absent"
    BY <2>1 DEF W!WebhooksInit, W!Fresh, OutboxRow
  <2>3. W!AtRest \in Delivery /\ W!AtRest.pc = "idle" /\ W!AtRest.result = "none"
    BY RestTypes
  <2>4. worker \in [Workers -> Delivery]
        /\ \A w \in Workers : worker[w].pc = "idle" /\ worker[w].result = "none"
    BY <2>1, <2>3 DEF W!WebhooksInit
  <2>5. QED
    BY <2>1, <2>2, <2>4 DEF W!WebhooksInit, DeliveryInv, DeliveryTypes, Orderly, LeaseCovers,
                            OneClaim, RefusalKnown, DeadDeserved, Delivering, Busy
<1>2. DeliveryInv /\ [Next]_vars => DeliveryInv'
  BY DeliveryFrame, DeliveryStep
<1>3. DeliveryInv => DeliverySound
  <2>1. SUFFICES ASSUME DeliveryInv PROVE DeliverySound
    OBVIOUS
  <2>2. W!WebhooksTypeOK
    BY <2>1 DEF DeliveryInv, DeliveryTypes, OutboxRow, Delivery, W!WebhooksTypeOK
  <2>3. W!NoDoubleSend
    BY <2>1 DEF DeliveryInv, DeliveryTypes, Orderly, OneClaim, Delivering, Busy, W!NoDoubleSend,
                W!Claims
  <2>4. W!DeadLetterDeserved
    BY <2>1 DEF DeliveryInv, Orderly, DeadDeserved, W!DeadLetterDeserved
  <2>5. QED
    BY <2>2, <2>3, <2>4 DEF DeliverySound
<1>4. QED
  BY <1>1, <1>2, <1>3, PTL DEF Spec

-----------------------------------------------------------------------------
(* Interval jobs.                                                          *)

\* A job runs once exactly while it is marked.
JobsInv ==
  /\ J!JobsTypeOK
  /\ running \in [JobNames -> {0, 1}]
  /\ \A j \in JobNames : running[j] = 1 <=> j \in inflight
  /\ sphase = "new" => inflight = {}

\* Jobs that are free are started once.
LEMMA StartJobs ==
  ASSUME JobsInv, NEW due \in SUBSET (JobNames \ inflight), NEW aged \in [JobNames -> 0..MaxInterval],
         J!MarkDue(due, aged)
  PROVE  /\ age' \in [JobNames -> 0..MaxInterval] /\ running' \in [JobNames -> {0, 1}]
         /\ inflight' \subseteq JobNames
         /\ \A j \in JobNames : running'[j] = 1 <=> j \in inflight'
<1>1. \A j \in due : running[j] = 0
  BY DEF JobsInv
<1>2. MaxInterval \in Nat
  BY JobsAssumption
<1>3. QED
  BY <1>1, <1>2 DEF JobsInv, J!JobsTypeOK, J!MarkDue

\* The catch-up of a start, the marks, the runs and the restarts of the jobs.
LEMMA JobsStep == JobsInv /\ [J!JobsNext]_jobVars => JobsInv'
<1> SUFFICES ASSUME JobsInv, [J!JobsNext]_jobVars
             PROVE  JobsInv'
  OBVIOUS
<1>1. MaxInterval \in Nat /\ J!JobsTypeOK
  BY JobsAssumption DEF JobsInv
<1>2. CASE UNCHANGED jobVars
  BY <1>2 DEF jobVars, JobsInv, J!JobsTypeOK
<1>3. CASE J!CatchUp
  <2>1. JobNames \in SUBSET (JobNames \ inflight) /\ age \in [JobNames -> 0..MaxInterval]
    BY <1>1, <1>3 DEF JobsInv, J!CatchUp, J!JobsTypeOK
  <2>2. J!MarkDue(JobNames, age) /\ sphase' = "started" /\ UNCHANGED interval
    BY <1>3 DEF J!CatchUp
  <2>3. /\ age' \in [JobNames -> 0..MaxInterval] /\ running' \in [JobNames -> {0, 1}]
        /\ inflight' \subseteq JobNames
        /\ \A j \in JobNames : running'[j] = 1 <=> j \in inflight'
    BY <2>1, <2>2, StartJobs
  <2>4. QED
    BY <1>1, <2>2, <2>3 DEF JobsInv, J!JobsTypeOK
<1>4. CASE J!RunDue
  <2> DEFINE aged == [j \in JobNames |-> IF age[j] < MaxInterval THEN age[j] + 1 ELSE age[j]]
             due == {j \in JobNames : aged[j] >= interval[j] /\ J!Free(j)}
  <2>1. due \in SUBSET (JobNames \ inflight)
    BY DEF J!Free
  <2>2. aged \in [JobNames -> 0..MaxInterval]
    BY <1>1 DEF J!JobsTypeOK
  <2>3. J!MarkDue(due, aged) /\ sphase = "started" /\ UNCHANGED <<sphase, interval>>
    BY <1>4 DEF J!RunDue
  <2>4. QED
    BY <1>1, <2>1, <2>2, <2>3, StartJobs DEF JobsInv, J!JobsTypeOK
<1>5. CASE J!Shutdown \/ J!StartReturns
  BY <1>5 DEF J!Shutdown, J!StartReturns, JobsInv, J!JobsTypeOK
<1>6. CASE \E j \in JobNames : \E d \in 1..MaxInterval : J!SetInterval(j, d)
  BY <1>1, <1>6 DEF J!SetInterval, JobsInv, J!JobsTypeOK
<1>7. CASE \E j \in JobNames : J!Run(j)
  BY <1>1, <1>7 DEF J!Run, JobsInv, J!JobsTypeOK
<1>8. QED
  BY <1>2, <1>3, <1>4, <1>5, <1>6, <1>7 DEF J!JobsNext

-----------------------------------------------------------------------------
(* The scheduled task: types, and what a fire knows.                       *)

\* The schedule row, its clock and the fires.
FireRec == [pc : S!FirePC, at : S!Times, row : S!Row \cup {[next |-> 0]},
            claimed : BOOLEAN, interrupted : BOOLEAN]

TaskTypes ==
  /\ now \in 0..MaxTime
  /\ task \in S!Row
  /\ exists \in BOOLEAN /\ busy \in BOOLEAN /\ pending \in BOOLEAN /\ early \in BOOLEAN
  /\ fire \in [Fires -> FireRec]
  /\ fresh \in [Fires -> S!FreshStates]
  /\ watched \subseteq Fires
  /\ ran \in Nat /\ edits \in Nat

\* A claimed fire that may still start a run or give its occurrence back.
InFlight(f) == S!Claimed(f) \/ (fire[f].claimed /\ fire[f].pc = "requeue")

\* A fire carries the row as it was read, acts at an instant that is past, and
\* holds the one or two instants up to the next occurrence it has set.
FireKnows(f) ==
  /\ fire[f].pc = "claim" => fire[f].row \in S!Row /\ fire[f].claimed
  /\ fire[f].pc \notin {"idle", "requeue"} => fire[f].at <= now
  /\ InFlight(f) => fire[f].row.next <= fire[f].at + 2
  /\ S!Claimed(f) => fire[f].at < fire[f].row.next
  /\ fresh[f] = "created" =>
       fire[f].pc \in {"multitask", "pending", "submit"} /\ ~fire[f].row.target

\* The inductive invariant of the schedule.
TaskInv == TaskTypes /\ \A f \in Fires : FireKnows(f)

USE DEF S!FirePC, S!FreshStates, S!Rested, S!Times

\* The next occurrence is one or two instants away.
LEMMA NextAfterType ==
  ASSUME NEW c \in S!Crons, NEW t \in Nat
  PROVE  S!NextAfter(c, t) \in {t + 1, t + 2}
<1>1. \E n \in {t + 1, t + 2} : n % 2 = c
  <2>1. (t + 1) % 2 = c \/ (t + 2) % 2 = c
    BY DEF S!Crons
  <2>2. QED
    BY <2>1
<1>2. QED
  BY <1>1 DEF S!NextAfter

\* What the three moves of a fire do to it.
Moved(f) ==
  /\ fire' \in [Fires -> FireRec]
  /\ \A g \in Fires : g # f => fire'[g] = fire[g]

\* A fire goes to its next step, comes to rest, or is sent back to the schedule.
LEMMA GotoMoves ==
  ASSUME TaskTypes, NEW f \in Fires, NEW pc \in S!FirePC, S!Goto(f, pc)
  PROVE  /\ Moved(f)
         /\ fire'[f].pc = pc /\ fire'[f].at = fire[f].at /\ fire'[f].row = fire[f].row
         /\ fire'[f].claimed = fire[f].claimed
<1>1. fire[f] \in FireRec /\ fire \in [Fires -> FireRec]
  BY DEF TaskTypes
<1>2. PICK r \in FireRec : r = [fire[f] EXCEPT !.pc = pc]
  <2>1. [fire[f] EXCEPT !.pc = pc] \in FireRec
    BY <1>1 DEF FireRec
  <2>2. QED
    BY <2>1
<1>3. r.pc = pc /\ r.at = fire[f].at /\ r.row = fire[f].row /\ r.claimed = fire[f].claimed
  BY <1>1, <1>2 DEF FireRec
<1>4. fire' = [fire EXCEPT ![f] = r]
  BY <1>2 DEF S!Goto
<1>5. QED
  BY <1>1, <1>3, <1>4 DEF Moved

\* A fire that stops is as it was before its first step.
LEMMA StopMoves ==
  ASSUME TaskTypes, NEW f \in Fires, S!Stop(f)
  PROVE  Moved(f) /\ fire'[f].pc = "idle"
<1>1. S!AtRest \in FireRec /\ S!AtRest.pc = "idle"
  BY FiresAssumption DEF S!AtRest, FireRec
<1>2. fire' = [fire EXCEPT ![f] = S!AtRest] /\ fire \in [Fires -> FireRec]
  BY DEF S!Stop, TaskTypes
<1>3. QED
  BY <1>1, <1>2 DEF Moved

\* A fire that gives its occurrence back keeps the row it read and its claim.
LEMMA RequeueMoves ==
  ASSUME TaskTypes, NEW f \in Fires, NEW t \in S!Times, S!RequeueAt(f, t)
  PROVE  /\ Moved(f)
         /\ fire'[f].pc = "requeue" /\ fire'[f].at = t /\ fire'[f].row = fire[f].row
         /\ fire'[f].claimed = fire[f].claimed
<1>1. fire[f] \in FireRec /\ fire \in [Fires -> FireRec]
  BY DEF TaskTypes
<1>2. PICK q \in FireRec : q = [fire[f] EXCEPT !.pc = "requeue"]
  <2>1. [fire[f] EXCEPT !.pc = "requeue"] \in FireRec
    BY <1>1 DEF FireRec
  <2>2. QED
    BY <2>1
<1>3. PICK r \in FireRec : r = [q EXCEPT !.at = t]
  <2>1. [q EXCEPT !.at = t] \in FireRec
    BY <1>2 DEF FireRec
  <2>2. QED
    BY <2>1
<1>4. q.pc = "requeue" /\ q.row = fire[f].row /\ q.claimed = fire[f].claimed
  BY <1>1, <1>2 DEF FireRec
<1>5. r.pc = "requeue" /\ r.at = t /\ r.row = fire[f].row /\ r.claimed = fire[f].claimed
  BY <1>3, <1>4 DEF FireRec
<1>6. fire' = [fire EXCEPT ![f] = r]
  BY <1>1, <1>2, <1>3 DEF S!RequeueAt
<1>7. QED
  BY <1>1, <1>5, <1>6 DEF Moved

-----------------------------------------------------------------------------
(* The scheduled task: what the claims may start.                          *)

\* The fires that hold an occurrence, and the instants before the next one: a claim
\* pays for the run it may start, a requeue gets back what its claim paid.
Holding == {f \in Fires : S!Claimed(f)}
First == {f \in Fires : InFlight(f) /\ fire[f].at < fire[f].row.next}
Second == {f \in Fires : InFlight(f) /\ fire[f].at + 1 < fire[f].row.next}

\* The schedule had an instant for every run and every fire that may start one.
Paid ==
  early \/ /\ ran + Cardinality(First) + Cardinality(Second) + 1 <= task.next
           /\ ran + Cardinality(Holding) <= now

\* One fire more or less in a set of them.
LEMMA CountOne ==
  ASSUME NEW T \in SUBSET Fires, NEW f
  PROVE  /\ Cardinality(T) \in Nat /\ Cardinality(T \ {f}) \in Nat
         /\ Cardinality(T) = Cardinality(T \ {f}) + (IF f \in T THEN 1 ELSE 0)
<1>1. IsFiniteSet(T)
  BY FiresAssumption, FS_Subset
<1>2. IsFiniteSet(T \ {f}) /\ Cardinality(T) \in Nat
  BY <1>1, FS_RemoveElement, FS_CardinalityType
<1>3. Cardinality(T \ {f}) \in Nat
  BY <1>2, FS_CardinalityType
<1>4. Cardinality(T \ {f}) = IF f \in T THEN Cardinality(T) - 1 ELSE Cardinality(T)
  BY <1>1, FS_RemoveElement
<1>5. QED
  BY <1>2, <1>3, <1>4

\* A fire that moves leaves the others in the three sets they were in.
LEMMA CountMoved ==
  ASSUME NEW f \in Fires, Moved(f)
  PROVE  /\ First' \ {f} = First \ {f} /\ Second' \ {f} = Second \ {f}
         /\ Holding' \ {f} = Holding \ {f}
         /\ First \in SUBSET Fires /\ Second \in SUBSET Fires /\ Holding \in SUBSET Fires
         /\ First' \in SUBSET Fires /\ Second' \in SUBSET Fires /\ Holding' \in SUBSET Fires
BY DEF First, Second, Holding, InFlight, S!Claimed, Moved

\* What one fire's step does to the other fires' sessions and the rest of the row.
Alone(f) ==
  /\ Moved(f)
  /\ fresh' \in [Fires -> S!FreshStates]
  /\ \A g \in Fires : g # f => fresh'[g] = fresh[g]
  /\ now' = now
  /\ task' \in S!Row
  /\ exists' \in BOOLEAN /\ busy' \in BOOLEAN /\ pending' \in BOOLEAN /\ early' \in BOOLEAN
  /\ watched' \subseteq Fires
  /\ ran' \in Nat /\ edits' \in Nat

\* What it keeps of its claim.
Yields(f) ==
  /\ InFlight(f)' => /\ InFlight(f)
                     /\ fire'[f].row = fire[f].row /\ fire'[f].at >= fire[f].at
  /\ S!Claimed(f)' => S!Claimed(f)

\* The other fires know what they knew.
LEMMA AloneKnows ==
  ASSUME TaskInv, NEW f \in Fires, Alone(f), FireKnows(f)'
  PROVE  TaskInv'
<1>1. TaskTypes'
  BY DEF TaskInv, TaskTypes, Alone, Moved
<1>2. \A g \in Fires : g # f => FireKnows(g)'
  BY DEF TaskInv, FireKnows, InFlight, S!Claimed, Alone, Moved
<1>3. QED
  BY <1>1, <1>2 DEF TaskInv

\* A fire that yields costs the schedule nothing: it may start the run it paid for.
LEMMA YieldPaid ==
  ASSUME TaskInv, Paid, NEW f \in Fires, Alone(f), Yields(f), UNCHANGED early,
         task'.next = task.next,
         ran' = ran \/ (ran' = ran + 1 /\ S!Claimed(f) /\ ~InFlight(f)')
  PROVE  Paid'
<1>1. CASE early
  BY <1>1 DEF Paid
<1>2. CASE ~early
  <2> DEFINE One(T) == IF f \in T THEN 1 ELSE 0
  <2>1. /\ ran + Cardinality(First) + Cardinality(Second) + 1 <= task.next
        /\ ran + Cardinality(Holding) <= now
    BY <1>2 DEF Paid
  <2>2. /\ First' \ {f} = First \ {f} /\ Second' \ {f} = Second \ {f}
        /\ Holding' \ {f} = Holding \ {f}
        /\ First \in SUBSET Fires /\ Second \in SUBSET Fires /\ Holding \in SUBSET Fires
        /\ First' \in SUBSET Fires /\ Second' \in SUBSET Fires /\ Holding' \in SUBSET Fires
    BY CountMoved DEF Alone
  <2>3. /\ Cardinality(First') = Cardinality(First \ {f}) + One(First')
        /\ Cardinality(First) = Cardinality(First \ {f}) + One(First)
        /\ Cardinality(First \ {f}) \in Nat
    BY <2>2, CountOne
  <2>4. /\ Cardinality(Second') = Cardinality(Second \ {f}) + One(Second')
        /\ Cardinality(Second) = Cardinality(Second \ {f}) + One(Second)
        /\ Cardinality(Second \ {f}) \in Nat
    BY <2>2, CountOne
  <2>5. /\ Cardinality(Holding') = Cardinality(Holding \ {f}) + One(Holding')
        /\ Cardinality(Holding) = Cardinality(Holding \ {f}) + One(Holding)
        /\ Cardinality(Holding \ {f}) \in Nat
    BY <2>2, CountOne
  <2>6. /\ fire[f].at \in Nat /\ fire'[f].at \in Nat
        /\ InFlight(f) => fire[f].row.next <= fire[f].at + 2
        /\ S!Claimed(f) => InFlight(f) /\ fire[f].at < fire[f].row.next
        /\ S!Claimed(f)' => InFlight(f)'
    BY FiresAssumption
       DEF TaskInv, TaskTypes, FireKnows, InFlight, Alone, Moved, FireRec
  <2>7. /\ f \in First' => f \in First
        /\ f \in Second' => f \in Second
        /\ f \in Holding' => f \in Holding
        /\ S!Claimed(f) => f \in First /\ f \in Holding
        /\ ~InFlight(f)' => f \notin First' /\ f \notin Holding'
    <3>1. InFlight(f)' => /\ InFlight(f) /\ fire'[f].row = fire[f].row
                          /\ fire'[f].at >= fire[f].at
      BY DEF Yields
    <3>2. InFlight(f) => fire[f].row.next \in Nat
      BY FiresAssumption
         DEF TaskInv, TaskTypes, FireKnows, InFlight, S!Claimed, FireRec, S!Row
    <3>3. QED
      BY <2>6, <3>1, <3>2 DEF First, Second, Holding, Yields
  <2>8. /\ One(First') <= One(First) /\ One(Second') <= One(Second)
        /\ One(Holding') <= One(Holding)
        /\ ran' = ran + 1 =>
             One(First') + 1 = One(First) /\ One(Holding') + 1 = One(Holding)
    BY <2>7 DEF TaskInv, TaskTypes
  <2>9. ran \in Nat /\ ran' \in Nat /\ task.next \in Nat /\ now \in Nat /\ UNCHANGED now
    BY FiresAssumption DEF TaskInv, TaskTypes, Alone, S!Row
  <2>10. /\ ran' + Cardinality(First') + Cardinality(Second') + 1 <= task'.next
         /\ ran' + Cardinality(Holding') <= now'
    <3>1. One(First) \in {0,1} /\ One(First') \in {0,1} /\ One(Second) \in {0,1} /\ One(Second') \in {0,1}
          /\ One(Holding) \in {0,1} /\ One(Holding') \in {0,1}
      OBVIOUS
    <3> HIDE DEF One
    <3>2. ran' + One(First') <= ran + One(First) /\ ran' + One(Holding') <= ran + One(Holding)
      BY <2>8, <2>9, <3>1
    <3>3. QED
      BY <2>1, <2>3, <2>4, <2>5, <2>8, <2>9, <3>1, <3>2
  <2>11. QED
    BY <2>10 DEF Paid
<1>3. QED
  BY <1>1, <1>2

\* What every step but the owner's edit of the schedule keeps.
KeepsSchedule == TaskInv' /\ (Paid => Paid')

\* How a fire under way goes on: it ends, or keeps its row and its claim.
Goes(f) ==
  /\ Moved(f)
  /\ fire'[f].pc # "claim"
  /\ fire'[f].pc = "idle" \/
       /\ fire'[f].row = fire[f].row /\ fire'[f].claimed = fire[f].claimed
       /\ fire'[f].at >= fire[f].at
       /\ fire'[f].pc # "requeue" => fire'[f].at = fire[f].at

\* A step of a fire after its claim: it goes on in its own session, gives the
\* occurrence back or ends; and at any point it may end.
LEMMA MidwaySound ==
  ASSUME TaskInv, NEW f \in Fires, Alone(f), Goes(f), UNCHANGED early,
         task'.next = task.next,
         fire[f].pc \in {"idle", "claim", "requeue", "watch"} => fire'[f].pc = "idle",
         fresh'[f] = "created" =>
           fire'[f].pc \in {"multitask", "pending", "submit"} /\ ~fire'[f].row.target,
         \/ ran' = ran
         \/ ran' = ran + 1 /\ S!Claimed(f) /\ fire'[f].pc \in {"idle", "watch"}
  PROVE  KeepsSchedule
<1>1. /\ fire[f].at \in Nat /\ fire'[f].at \in Nat
      /\ InFlight(f) => fire[f].row.next <= fire[f].at + 2
      /\ S!Claimed(f) => fire[f].at < fire[f].row.next
      /\ fire[f].pc \notin {"idle", "requeue"} => fire[f].at <= now
      /\ fire[f].pc \in S!FirePC /\ fire'[f].pc \in S!FirePC
  BY FiresAssumption DEF TaskInv, TaskTypes, FireKnows, Alone, Moved, FireRec
<1>2. Yields(f)
  BY <1>1 DEF Yields, InFlight, S!Claimed, Goes
<1>3. FireKnows(f)'
  <2>1. now' = now /\ now \in Nat
    BY FiresAssumption DEF Alone, TaskInv, TaskTypes
  <2>2. InFlight(f)' => fire'[f].row.next <= fire'[f].at + 2
    <3>1. SUFFICES ASSUME InFlight(f)' PROVE fire'[f].row.next <= fire'[f].at + 2
      OBVIOUS
    <3>2. InFlight(f) /\ fire'[f].row = fire[f].row /\ fire'[f].at >= fire[f].at
      BY <1>2, <3>1 DEF Yields
    <3>3. fire[f].row.next \in Nat
      BY <3>2, FiresAssumption
         DEF TaskInv, TaskTypes, FireKnows, InFlight, S!Claimed, FireRec, S!Row
    <3>4. QED
      BY <1>1, <3>2, <3>3
  <2>3. S!Claimed(f)' => fire'[f].at < fire'[f].row.next
    BY <1>1, <1>2 DEF S!Claimed, Yields, Goes
  <2>4. fire'[f].pc \notin {"idle", "requeue"} => fire'[f].at <= now'
    BY <1>1, <2>1 DEF Goes
  <2>5. QED
    BY <2>2, <2>3, <2>4 DEF FireKnows, Goes
<1>4. ran' = ran + 1 => ~InFlight(f)'
  BY DEF TaskInv, TaskTypes, InFlight, S!Claimed
<1>5. TaskInv'
  BY <1>3, AloneKnows
<1>6. Paid => Paid'
  BY <1>2, <1>4, YieldPaid
<1>7. QED
  BY <1>5, <1>6 DEF KeepsSchedule

\* The moves of a fire under way.
LEMMA FireMoves ==
  ASSUME TaskInv, NEW f \in Fires, fire[f].pc \notin {"idle", "claim", "requeue"}
  PROVE  /\ \A pc \in S!FirePC \ {"claim", "requeue"} :
              S!Goto(f, pc) => Goes(f) /\ fire'[f].pc = pc /\ fire'[f].row = fire[f].row
         /\ S!Stop(f) => Goes(f) /\ fire'[f].pc = "idle"
         /\ \A t \in {now, now + Backoff} :
              S!RequeueAt(f, t) => Goes(f) /\ fire'[f].pc = "requeue"
<1>1. TaskTypes
  BY DEF TaskInv
<1>2. \A pc \in S!FirePC : S!Goto(f, pc) =>
        /\ Moved(f) /\ fire'[f].pc = pc /\ fire'[f].row = fire[f].row
        /\ fire'[f].claimed = fire[f].claimed /\ fire'[f].at = fire[f].at
  BY <1>1, GotoMoves
<1>3. \A t \in S!Times : S!RequeueAt(f, t) =>
        /\ Moved(f) /\ fire'[f].pc = "requeue" /\ fire'[f].row = fire[f].row
        /\ fire'[f].claimed = fire[f].claimed /\ fire'[f].at = t
  BY <1>1, RequeueMoves
<1>4. S!Stop(f) => Moved(f) /\ fire'[f].pc = "idle"
  BY <1>1, StopMoves
<1>5. \A t \in {now, now + Backoff} : t \in S!Times /\ t >= fire[f].at
  BY FiresAssumption DEF TaskInv, TaskTypes, FireKnows, FireRec
<1>6. fire[f].at >= fire[f].at
  BY FiresAssumption DEF TaskInv, TaskTypes, FireRec
<1>7. QED
  BY <1>2, <1>3, <1>4, <1>5, <1>6 DEF Goes

\* The prompt and budget gate.
LEMMA GateSound ==
  ASSUME TaskInv, NEW f \in Fires, S!ResolveAndBudget(f)
  PROVE  KeepsSchedule
<1>1. /\ fire[f].pc = "gate"
      /\ UNCHANGED <<now, task, exists, busy, pending, fresh, watched, edits, ran, early>>
  BY DEF S!ResolveAndBudget
<1>2. S!Goto(f, "session") \/ S!Stop(f) \/ S!RequeueAt(f, now)
  BY DEF S!ResolveAndBudget, S!RequeueClaimed
<1>3. Goes(f)
  BY <1>1, <1>2, FireMoves
<1>4. fresh[f] # "created"
  BY <1>1 DEF TaskInv, FireKnows
<1>5. Alone(f)
  BY <1>1, <1>3 DEF Alone, Goes, TaskInv, TaskTypes
<1>6. QED
  BY <1>1, <1>3, <1>4, <1>5, MidwaySound

\* The session of the run: the target, or a fresh one of this fire's own.
LEMMA SessionSound ==
  ASSUME TaskInv, NEW f \in Fires, S!ResolveSession(f)
  PROVE  KeepsSchedule
<1>1. /\ fire[f].pc = "session"
      /\ UNCHANGED <<now, task, exists, busy, pending, watched, edits, ran, early>>
  BY DEF S!ResolveSession
<1>2. S!Goto(f, "multitask") \/ S!Stop(f)
  BY DEF S!ResolveSession
<1>3. /\ Goes(f)
      /\ S!Goto(f, "multitask") => fire'[f].pc = "multitask" /\ fire'[f].row = fire[f].row
  BY <1>1, <1>2, FireMoves
<1>4. fresh[f] # "created" /\ fresh \in [Fires -> S!FreshStates]
  BY <1>1 DEF TaskInv, TaskTypes, FireKnows
<1>5. /\ fresh' \in [Fires -> S!FreshStates]
      /\ \A g \in Fires : g # f => fresh'[g] = fresh[g]
      /\ fresh'[f] = "created" => S!Goto(f, "multitask") /\ ~fire[f].row.target
  BY <1>4 DEF S!ResolveSession
<1>6. Alone(f)
  BY <1>1, <1>3, <1>5 DEF Alone, Goes, TaskInv, TaskTypes
<1>7. QED
  BY <1>1, <1>3, <1>5, <1>6, MidwaySound

\* cleanupFreshSession touches this fire's session and leaves it no empty one.
LEMMA CleanupMoves ==
  ASSUME TaskTypes, NEW f \in Fires, S!CleanupFreshSession(f)
  PROVE  /\ fresh' \in [Fires -> S!FreshStates] /\ fresh'[f] # "created"
         /\ \A g \in Fires : g # f => fresh'[g] = fresh[g]
BY DEF TaskTypes, S!CleanupFreshSession

\* The multitask gate, when the fire keeps its session or has none.
LEMMA MultitaskGoesOn ==
  ASSUME TaskInv, NEW f \in Fires, S!GateMultitask(f), UNCHANGED fresh,
         ~(S!CleanupFreshSession(f) /\ S!Stop(f))
  PROVE  KeepsSchedule
<1>1. /\ fire[f].pc = "multitask"
      /\ UNCHANGED <<now, task, exists, busy, pending, fresh, watched, edits, ran, early>>
  BY DEF S!GateMultitask
<1>2. /\ Goes(f)
      /\ fresh[f] = "created" => fire'[f].pc = "pending" /\ fire'[f].row = fire[f].row
  <2>1. CASE S!Goto(f, "pending")
    BY <1>1, <2>1, FireMoves
  <2>2. CASE S!InTarget(f) /\ (S!RequeueClaimed(f, now + Backoff) \/ S!Stop(f))
    <3>1. S!RequeueAt(f, now + Backoff) \/ S!Stop(f)
      BY <2>2 DEF S!RequeueClaimed
    <3>2. fresh[f] # "created"
      BY <2>2 DEF S!InTarget, TaskInv, FireKnows
    <3>3. QED
      BY <1>1, <3>1, <3>2, FireMoves
  <2>3. CASE fire' = [fire EXCEPT ![f].pc = "pending", ![f].interrupted = TRUE]
    <3>1. fire \in [Fires -> FireRec] /\ fire[f] \in FireRec
      BY DEF TaskInv, TaskTypes
    <3>2. PICK q \in FireRec : q = [fire[f] EXCEPT !.pc = "pending"]
      <4>1. [fire[f] EXCEPT !.pc = "pending"] \in FireRec
        BY <3>1 DEF FireRec
      <4>2. QED
        BY <4>1
    <3>3. PICK r \in FireRec : r = [q EXCEPT !.interrupted = TRUE]
      <4>1. [q EXCEPT !.interrupted = TRUE] \in FireRec
        BY <3>2 DEF FireRec
      <4>2. QED
        BY <4>1
    <3>4. /\ q.pc = "pending" /\ q.row = fire[f].row /\ q.claimed = fire[f].claimed
          /\ q.at = fire[f].at
      BY <3>1, <3>2 DEF FireRec
    <3>5. /\ r.pc = "pending" /\ r.row = fire[f].row /\ r.claimed = fire[f].claimed
          /\ r.at = fire[f].at
      BY <3>3, <3>4 DEF FireRec
    <3>6. fire' = [fire EXCEPT ![f] = r]
      BY <2>3, <3>1, <3>2, <3>3
    <3>7. fire[f].at \in Nat
      BY <3>1, FiresAssumption DEF FireRec
    <3>8. QED
      BY <3>1, <3>5, <3>6, <3>7 DEF Goes, Moved
  <2>4. QED
    BY <2>1, <2>2, <2>3 DEF S!GateMultitask
<1>3. Alone(f)
  BY <1>1, <1>2 DEF Alone, Goes, TaskInv, TaskTypes
<1>4. fresh[f] = "created" => ~fire[f].row.target
  BY DEF TaskInv, FireKnows
<1>5. QED
  BY <1>1, <1>2, <1>3, <1>4, MidwaySound

\* The multitask gate gives up: no empty session stays as this fire's.
LEMMA MultitaskGivesUp ==
  ASSUME TaskInv, NEW f \in Fires, S!GateMultitask(f), S!CleanupFreshSession(f), S!Stop(f)
  PROVE  KeepsSchedule
<1>1. /\ fire[f].pc = "multitask"
      /\ UNCHANGED <<now, task, exists, busy, pending, watched, edits, ran, early>>
  BY DEF S!GateMultitask
<1>2. Goes(f) /\ fire'[f].pc = "idle"
  BY <1>1, FireMoves
<1>3. /\ fresh' \in [Fires -> S!FreshStates] /\ fresh'[f] # "created"
      /\ \A g \in Fires : g # f => fresh'[g] = fresh[g]
  BY CleanupMoves DEF TaskInv
<1>4. Alone(f)
  BY <1>1, <1>2, <1>3 DEF Alone, Goes, TaskInv, TaskTypes
<1>5. QED
  BY <1>1, <1>2, <1>3, <1>4, MidwaySound

\* The multitask gate.
LEMMA MultitaskSound ==
  ASSUME TaskInv, NEW f \in Fires, S!GateMultitask(f)
  PROVE  KeepsSchedule
<1>1. CASE S!CleanupFreshSession(f) /\ S!Stop(f)
  BY <1>1, MultitaskGivesUp
<1>2. CASE ~(S!CleanupFreshSession(f) /\ S!Stop(f))
  BY <1>2, MultitaskGoesOn DEF S!GateMultitask
<1>3. QED
  BY <1>1, <1>2

\* The gate on undecided interactions.
LEMMA PendingSound ==
  ASSUME TaskInv, NEW f \in Fires, S!PendingGate(f)
  PROVE  KeepsSchedule
<1>1. /\ fire[f].pc = "pending"
      /\ UNCHANGED <<now, task, exists, busy, pending, watched, edits, ran, early>>
  BY DEF S!PendingGate
<1>2. TaskTypes
  BY DEF TaskInv
<1>3. /\ Goes(f)
      /\ S!Goto(f, "submit") => fire'[f].pc = "submit" /\ fire'[f].row = fire[f].row
  BY <1>1, FireMoves DEF S!PendingGate
<1>4. \/ S!Goto(f, "submit") /\ UNCHANGED fresh
      \/ S!CleanupFreshSession(f)
  BY DEF S!PendingGate
<1>5. /\ fresh' \in [Fires -> S!FreshStates]
      /\ \A g \in Fires : g # f => fresh'[g] = fresh[g]
      /\ fresh'[f] = "created" => S!Goto(f, "submit") /\ fresh[f] = "created"
  BY <1>2, <1>4, CleanupMoves DEF TaskTypes
<1>6. fresh[f] = "created" => ~fire[f].row.target
  BY DEF TaskInv, FireKnows
<1>7. Alone(f)
  BY <1>1, <1>2, <1>3, <1>5 DEF Alone, Goes, TaskTypes
<1>8. QED
  BY <1>1, <1>3, <1>5, <1>6, <1>7, MidwaySound

\* The submission, and the run it starts.
LEMMA SubmitSound ==
  ASSUME TaskInv, NEW f \in Fires, S!Submit(f)
  PROVE  KeepsSchedule
<1>1. /\ fire[f].pc = "submit"
      /\ UNCHANGED <<now, task, exists, pending, watched, edits, early>>
  BY DEF S!Submit
<1>2. TaskTypes
  BY DEF TaskInv
<1>3. S!Goto(f, "watch") \/ S!Stop(f) \/ S!RequeueAt(f, now)
  BY DEF S!Submit, S!RequeueClaimed
<1>4. /\ Goes(f)
      /\ S!Goto(f, "watch") \/ S!Stop(f) => fire'[f].pc \in {"idle", "watch"}
  BY <1>1, <1>3, FireMoves
<1>5. /\ fresh' \in [Fires -> S!FreshStates] /\ fresh'[f] # "created"
      /\ \A g \in Fires : g # f => fresh'[g] = fresh[g]
  <2>1. CASE S!CleanupFreshSession(f)
    BY <1>2, <2>1, CleanupMoves
  <2>2. CASE fresh' = [fresh EXCEPT ![f] = IF S!InTarget(f) THEN @ ELSE "running"]
    <3>1. fresh[f] = "created" => ~S!InTarget(f)
      BY DEF TaskInv, FireKnows, S!InTarget
    <3>2. QED
      BY <1>2, <2>2, <3>1 DEF TaskTypes
  <2>3. QED
    BY <2>1, <2>2 DEF S!Submit
<1>6. /\ ran' \in Nat /\ busy' \in BOOLEAN
      /\ \/ ran' = ran
         \/ ran' = ran + 1 /\ S!Claimed(f) /\ fire'[f].pc \in {"idle", "watch"}
  <2>1. CASE UNCHANGED <<busy, ran>>
    BY <1>2, <2>1 DEF TaskTypes
  <2>2. CASE /\ busy' = (busy \/ S!InTarget(f))
             /\ ran' = IF fire[f].claimed /\ ~early THEN ran + 1 ELSE ran
             /\ S!Goto(f, "watch") \/ S!Stop(f)
    <3>1. busy' \in BOOLEAN
      BY <2>2
    <3>2. QED
      BY <1>1, <1>2, <1>4, <2>2, <3>1 DEF TaskTypes, S!Claimed
  <2>3. QED
    BY <2>1, <2>2 DEF S!Submit
<1>7. Alone(f)
  BY <1>1, <1>2, <1>4, <1>5, <1>6 DEF Alone, Goes, TaskTypes
<1>8. QED
  BY <1>1, <1>4, <1>5, <1>6, <1>7, MidwaySound

\* A fire ends where it is: it watches its run, lost its claim, or its instance stops.
LEMMA EndSound ==
  ASSUME TaskInv, NEW f \in Fires, S!Stop(f), fresh'[f] # "created",
         fresh' \in [Fires -> S!FreshStates],
         \A g \in Fires : g # f => fresh'[g] = fresh[g],
         watched' \subseteq Fires, edits' \in Nat,
         UNCHANGED <<now, task, exists, busy, pending, ran, early>>
  PROVE  KeepsSchedule
<1>1. TaskTypes
  BY DEF TaskInv
<1>2. Moved(f) /\ fire'[f].pc = "idle"
  BY <1>1, StopMoves
<1>3. Goes(f)
  BY <1>2 DEF Goes
<1>4. Alone(f)
  BY <1>1, <1>2 DEF Alone, TaskTypes
<1>5. QED
  BY <1>2, <1>3, <1>4, MidwaySound

\* A fire begins: a sweep that has not claimed yet, or a manual run.
LEMMA BeginSound ==
  ASSUME TaskInv, NEW f \in Fires, S!ClaimRead(f) \/ S!FireNow(f)
  PROVE  KeepsSchedule
<1>1. TaskTypes
  BY DEF TaskInv
<1>2. PICK r : /\ r = [pc |-> r.pc, at |-> now, row |-> task, claimed |-> r.claimed,
                       interrupted |-> FALSE]
               /\ \/ r.pc = "claim" /\ r.claimed = TRUE
                  \/ r.pc = "gate" /\ r.claimed = FALSE
               /\ fire' = [fire EXCEPT ![f] = r]
               /\ fresh' = [fresh EXCEPT ![f] = "none"] /\ edits' \in {edits, edits + 1}
               /\ UNCHANGED <<now, task, exists, busy, pending, watched, ran, early>>
  BY DEF S!ClaimRead, S!FireNow
<1>3. r \in FireRec
  <2>1. now \in S!Times /\ task \in S!Row
    BY <1>1, FiresAssumption DEF TaskTypes
  <2>2. [pc |-> r.pc, at |-> now, row |-> task, claimed |-> r.claimed, interrupted |-> FALSE]
          \in FireRec
    BY <1>2, <2>1 DEF FireRec
  <2>3. QED
    BY <1>2, <2>2
<1>4. r.at = now /\ r.row = task
  BY <1>2
<1>5. Moved(f) /\ fire'[f] = r
  BY <1>1, <1>2, <1>3 DEF Moved, TaskTypes
<1>6. /\ fresh' \in [Fires -> S!FreshStates] /\ fresh'[f] = "none"
      /\ \A g \in Fires : g # f => fresh'[g] = fresh[g]
  BY <1>1, <1>2 DEF TaskTypes
<1>7. Alone(f)
  BY <1>1, <1>2, <1>5, <1>6 DEF Alone, TaskTypes
<1>8. ~InFlight(f)' /\ ~S!Claimed(f)'
  BY <1>2, <1>5 DEF InFlight, S!Claimed
<1>9. FireKnows(f)'
  <2>1. now \in Nat /\ now' = now /\ task \in S!Row
    BY <1>1, <1>2, FiresAssumption DEF TaskTypes
  <2>2. QED
    BY <1>2, <1>4, <1>5, <1>6, <1>8, <2>1 DEF FireKnows
<1>10. TaskInv'
  BY <1>7, <1>9, AloneKnows
<1>11. Paid => Paid'
  <2>1. task'.next = task.next /\ ran' = ran /\ UNCHANGED early /\ Yields(f)
    BY <1>2, <1>8 DEF Yields
  <2>2. QED
    BY <1>7, <2>1, YieldPaid
<1>12. QED
  BY <1>10, <1>11 DEF KeepsSchedule

\* A claim pays: the occurrences up to the new one are at most the instants it skips.
LEMMA ClaimSound ==
  ASSUME TaskInv, NEW f \in Fires, S!ClaimUpdate(f)
  PROVE  KeepsSchedule
<1>1. TaskTypes
  BY DEF TaskInv
<1>2. /\ fire[f].pc = "claim" /\ fire[f].row \in S!Row /\ fire[f].claimed /\ fire[f].at <= now
      /\ fresh[f] # "created" /\ fire[f] \in FireRec /\ fire[f].at \in Nat /\ now \in Nat
      /\ UNCHANGED <<now, exists, busy, pending, fresh, watched, edits, ran, early>>
      /\ fresh \in [Fires -> S!FreshStates] /\ watched \subseteq Fires /\ edits' = edits
      /\ edits \in Nat
  BY FiresAssumption
     DEF S!ClaimUpdate, TaskInv, TaskTypes, FireKnows, FireRec
<1>3. CASE S!Stop(f) /\ UNCHANGED task
  BY <1>2, <1>3, EndSound
<1>4. CASE /\ S!Claimable(f)
           /\ LET next == S!NextAfter(fire[f].row.cron, fire[f].at) IN
              /\ task' = [task EXCEPT !.next = next]
              /\ fire' = [fire EXCEPT ![f].pc = "gate", ![f].row = [task EXCEPT !.next = next]]
  <2> DEFINE next == S!NextAfter(fire[f].row.cron, fire[f].at)
  <2>1. next \in {fire[f].at + 1, fire[f].at + 2}
    BY <1>2, NextAfterType DEF S!Row
  <2>2. next \in S!Times
    BY <1>1, <1>2, <2>1, FiresAssumption DEF TaskTypes
  <2> HIDE DEF next
  <2>3. PICK t \in S!Row : t = [task EXCEPT !.next = next]
    <3>1. [task EXCEPT !.next = next] \in S!Row
      BY <1>1, <2>2 DEF TaskTypes, S!Row
    <3>2. QED
      BY <3>1
  <2>4. t.next = next
    BY <1>1, <2>3 DEF TaskTypes, S!Row
  <2>5. PICK q \in FireRec : q = [fire[f] EXCEPT !.pc = "gate"]
    <3>1. [fire[f] EXCEPT !.pc = "gate"] \in FireRec
      BY <1>2 DEF FireRec
    <3>2. QED
      BY <3>1
  <2>6. PICK r \in FireRec : r = [q EXCEPT !.row = t]
    <3>1. [q EXCEPT !.row = t] \in FireRec
      BY <2>3, <2>5 DEF FireRec
    <3>2. QED
      BY <3>1
  <2>7. q.pc = "gate" /\ q.claimed /\ q.at = fire[f].at
    BY <1>2, <2>5 DEF FireRec
  <2>8. r.pc = "gate" /\ r.claimed /\ r.at = fire[f].at /\ r.row = t
    BY <2>6, <2>7 DEF FireRec
  <2>9. fire' = [fire EXCEPT ![f] = r] /\ task' = t
    <3>1. /\ task' = [task EXCEPT !.next = next]
          /\ fire' = [fire EXCEPT ![f].pc = "gate", ![f].row = [task EXCEPT !.next = next]]
      BY <1>4 DEF next
    <3>2. fire' = [fire EXCEPT ![f].pc = "gate", ![f].row = t] /\ task' = t
      BY <2>3, <3>1
    <3>3. QED
      BY <1>1, <2>5, <2>6, <3>2 DEF TaskTypes
  <2>10. Moved(f) /\ fire'[f] = r
    BY <1>1, <2>9 DEF Moved, TaskTypes
  <2>11. Alone(f)
    BY <1>1, <1>2, <2>9, <2>10 DEF Alone, TaskTypes
  <2>12. /\ S!Claimed(f)' /\ InFlight(f)' /\ ~S!Claimed(f) /\ ~InFlight(f)
         /\ f \in Holding' /\ f \in First' /\ f \notin Holding /\ f \notin First /\ f \notin Second
         /\ f \in Second' <=> next = fire[f].at + 2
    BY <1>2, <2>1, <2>4, <2>8, <2>10
       DEF InFlight, S!Claimed, Holding, First, Second
  <2>13. FireKnows(f)'
    BY <1>2, <2>1, <2>4, <2>8, <2>10, <2>12 DEF FireKnows
  <2>14. TaskInv'
    BY <2>11, <2>13, AloneKnows
  <2>15. ASSUME Paid PROVE Paid'
    <3>1. CASE early
      BY <1>2, <3>1 DEF Paid
    <3>2. CASE ~early
      <4>1. /\ ran + Cardinality(First) + Cardinality(Second) + 1 <= task.next
            /\ ran + Cardinality(Holding) <= now
        BY <2>15, <3>2 DEF Paid
      <4>2. /\ First' \ {f} = First \ {f} /\ Second' \ {f} = Second \ {f}
            /\ Holding' \ {f} = Holding \ {f}
            /\ First \in SUBSET Fires /\ Second \in SUBSET Fires /\ Holding \in SUBSET Fires
            /\ First' \in SUBSET Fires /\ Second' \in SUBSET Fires
            /\ Holding' \in SUBSET Fires
        BY <2>10, CountMoved
      <4>3. /\ Cardinality(First') = Cardinality(First) + 1
            /\ Cardinality(Second') = Cardinality(Second) + next - fire[f].at - 1
            /\ Cardinality(Holding') = Cardinality(Holding) + 1
            /\ Cardinality(First) \in Nat /\ Cardinality(Second) \in Nat
            /\ Cardinality(Holding) \in Nat
        <5>1. /\ Cardinality(First') = Cardinality(First' \ {f}) + 1
              /\ Cardinality(First) = Cardinality(First \ {f})
              /\ Cardinality(First) \in Nat
          BY <2>12, <4>2, CountOne
        <5>2. /\ Cardinality(Second') = Cardinality(Second' \ {f}) + IF f \in Second' THEN 1 ELSE 0
              /\ Cardinality(Second) = Cardinality(Second \ {f})
              /\ Cardinality(Second) \in Nat
          BY <2>12, <4>2, CountOne
        <5>3. /\ Cardinality(Holding') = Cardinality(Holding' \ {f}) + 1
              /\ Cardinality(Holding) = Cardinality(Holding \ {f})
              /\ Cardinality(Holding) \in Nat
          BY <2>12, <4>2, CountOne
        <5>4. (IF f \in Second' THEN 1 ELSE 0) = next - fire[f].at - 1
          BY <1>2, <2>1, <2>12
        <5>5. fire[f].at \in Nat /\ next \in Nat
          BY <1>2, <2>1
        <5>6. QED
          BY <4>2, <5>1, <5>2, <5>3, <5>4, <5>5
      <4>4. Cardinality(Holding) <= Cardinality(First)
        <5>1. Holding \subseteq First
          BY DEF Holding, First, InFlight, TaskInv, FireKnows
        <5>2. IsFiniteSet(First)
          BY <4>2, FiresAssumption, FS_Subset
        <5>3. QED
          BY <5>1, <5>2, FS_Subset
      <4>5. task.next <= fire[f].at /\ task.next \in Nat /\ ran \in Nat /\ task'.next = next
        BY <1>1, <1>4, <2>4, <2>9, FiresAssumption
           DEF S!Claimable, S!Due, TaskTypes, S!Row
      <4>6. /\ ran + Cardinality(First') + Cardinality(Second') + 1 <= next
            /\ ran + Cardinality(Holding') <= now
        BY <1>2, <2>1, <4>1, <4>3, <4>4, <4>5
      <4>7. QED
        BY <1>2, <4>5, <4>6 DEF Paid
    <3>3. QED
      BY <3>1, <3>2
  <2>16. QED
    BY <2>14, <2>15 DEF KeepsSchedule
<1>5. QED
  BY <1>3, <1>4 DEF S!ClaimUpdate

\* A requeue gets back what its claim paid: the instants before the occurrence it
\* moves to the past are its own.  An unclaimed one makes the task due: early.
LEMMA RequeueHappens ==
  ASSUME TaskInv, NEW f \in Fires, S!RequeueDueAt(f),
         task' = IF S!Requeueable(f) THEN [task EXCEPT !.next = fire[f].at] ELSE task,
         early' = (early \/ (S!Requeueable(f) /\ ~fire[f].claimed))
  PROVE  KeepsSchedule
<1>1. TaskTypes /\ fire[f] \in FireRec /\ fire[f].at \in S!Times
  BY DEF TaskInv, TaskTypes, FireRec
<1>2. /\ fire[f].pc = "requeue" /\ S!Stop(f)
      /\ task' = IF S!Requeueable(f) THEN [task EXCEPT !.next = fire[f].at] ELSE task
      /\ early' = (early \/ (S!Requeueable(f) /\ ~fire[f].claimed))
      /\ UNCHANGED <<now, exists, busy, pending, fresh, watched, edits, ran>>
  BY DEF S!RequeueDueAt
<1>3. fresh[f] # "created"
  BY <1>2 DEF TaskInv, FireKnows
<1>4. Moved(f) /\ fire'[f].pc = "idle"
  BY <1>1, <1>2, StopMoves
<1>5. task' \in S!Row /\ task'.next = IF S!Requeueable(f) THEN fire[f].at ELSE task.next
  BY <1>1, <1>2 DEF TaskTypes, S!Row
<1>6. Alone(f)
  BY <1>1, <1>2, <1>4, <1>5 DEF Alone, TaskTypes
<1>7. ~InFlight(f)' /\ ~S!Claimed(f)'
  BY <1>4 DEF InFlight, S!Claimed
<1>8. TaskInv'
  <2>1. FireKnows(f)'
    BY <1>2, <1>3, <1>4, <1>7 DEF FireKnows
  <2>2. QED
    BY <1>6, <2>1, AloneKnows
<1>9. ASSUME Paid PROVE Paid'
  <2>1. CASE early' = TRUE
    BY <2>1 DEF Paid
  <2>2. CASE early' = early /\ ~S!Requeueable(f)
    BY <1>2, <1>5, <1>6, <1>7, <1>9, <2>2, YieldPaid DEF Yields
  <2>3. CASE ~early /\ S!Requeueable(f) /\ fire[f].claimed
    <3>1. /\ ran + Cardinality(First) + Cardinality(Second) + 1 <= task.next
          /\ ran + Cardinality(Holding) <= now
      BY <1>9, <2>3 DEF Paid
    <3>2. /\ First' \ {f} = First \ {f} /\ Second' \ {f} = Second \ {f}
          /\ Holding' \ {f} = Holding \ {f}
          /\ First \in SUBSET Fires /\ Second \in SUBSET Fires /\ Holding \in SUBSET Fires
          /\ First' \in SUBSET Fires /\ Second' \in SUBSET Fires
          /\ Holding' \in SUBSET Fires
      BY <1>4, CountMoved
    <3>3. /\ Cardinality(First') = Cardinality(First \ {f})
          /\ Cardinality(First) = Cardinality(First \ {f}) + IF f \in First THEN 1 ELSE 0
          /\ Cardinality(First) \in Nat /\ Cardinality(First') \in Nat
      <4>1. f \notin First'
        BY <1>7 DEF First
      <4>2. QED
        BY <3>2, <4>1, CountOne
    <3>4. /\ Cardinality(Second') = Cardinality(Second \ {f})
          /\ Cardinality(Second) = Cardinality(Second \ {f}) + IF f \in Second THEN 1 ELSE 0
          /\ Cardinality(Second) \in Nat /\ Cardinality(Second') \in Nat
      <4>1. f \notin Second'
        BY <1>7 DEF Second
      <4>2. QED
        BY <3>2, <4>1, CountOne
    <3>5. /\ Cardinality(Holding') = Cardinality(Holding)
          /\ Cardinality(Holding) \in Nat
      <4>1. f \notin Holding' /\ f \notin Holding
        BY <1>2, <1>7 DEF Holding, S!Claimed
      <4>2. QED
        BY <3>2, <4>1, CountOne
    <3>6. /\ task.next = fire[f].row.next /\ task.next <= fire[f].at + 2
          /\ f \in First <=> fire[f].at < task.next
          /\ f \in Second <=> fire[f].at + 1 < task.next
      <4>1. InFlight(f) /\ task.next = fire[f].row.next
        BY <1>2, <2>3 DEF InFlight, S!Requeueable
      <4>2. QED
        BY <4>1 DEF First, Second, TaskInv, FireKnows
    <3>7. fire[f].at \in Nat /\ task.next \in Nat /\ ran \in Nat
      BY <1>1, FiresAssumption DEF TaskTypes, S!Row
    <3>8. ran + Cardinality(First') + Cardinality(Second') + 1 <= fire[f].at
      BY <3>1, <3>3, <3>4, <3>6, <3>7
    <3>9. QED
      BY <1>2, <1>5, <2>3, <3>1, <3>5, <3>8 DEF Paid
  <2>4. QED
    BY <1>1, <1>2, <2>1, <2>2, <2>3 DEF TaskTypes
<1>10. QED
  BY <1>8, <1>9 DEF KeepsSchedule

\* A requeue whose statement fails: the occurrence is given up.
LEMMA RequeueLost ==
  ASSUME TaskInv, NEW f \in Fires, S!RequeueDueAt(f), UNCHANGED <<task, early>>
  PROVE  KeepsSchedule
<1>1. /\ fire[f].pc = "requeue" /\ S!Stop(f)
      /\ UNCHANGED <<now, exists, busy, pending, fresh, watched, edits, ran>>
  BY DEF S!RequeueDueAt
<1>2. Moved(f) /\ fire'[f].pc = "idle"
  BY <1>1, StopMoves DEF TaskInv
<1>3. Alone(f) /\ Goes(f) /\ task'.next = task.next /\ ran' = ran
  BY <1>1, <1>2 DEF Alone, Goes, TaskInv, TaskTypes
<1>4. fresh'[f] # "created"
  BY <1>1 DEF TaskInv, FireKnows
<1>5. QED
  BY <1>2, <1>3, <1>4, MidwaySound

LEMMA RequeueSound ==
  ASSUME TaskInv, NEW f \in Fires, S!RequeueDueAt(f)
  PROVE  KeepsSchedule
BY RequeueHappens, RequeueLost DEF S!RequeueDueAt

\* A step that moves no fire: of the owner, a run, a person or the clock.
LEMMA RestSound ==
  ASSUME TaskInv, UNCHANGED <<fire, ran, early>>, now' \in 0..MaxTime, now' >= now,
         task' \in S!Row, exists' \in BOOLEAN, busy' \in BOOLEAN, pending' \in BOOLEAN,
         fresh' \in [Fires -> S!FreshStates], watched' \subseteq Fires, edits' \in Nat,
         \A f \in Fires : fresh'[f] = "created" => fresh[f] = "created"
  PROVE  TaskInv' /\ (Paid /\ task'.next = task.next => Paid')
<1>1. TaskTypes'
  BY DEF TaskInv, TaskTypes
<1>2. \A f \in Fires : FireKnows(f)'
  <2>1. TAKE f \in Fires
  <2>2. FireKnows(f) /\ fire[f].at \in Nat /\ now \in Nat /\ now' \in Nat
    BY FiresAssumption DEF TaskInv, TaskTypes, FireRec
  <2>3. fire'[f] = fire[f] /\ (InFlight(f)' <=> InFlight(f)) /\ (S!Claimed(f)' <=> S!Claimed(f))
    BY DEF InFlight, S!Claimed
  <2>4. fire[f].at <= now => fire[f].at <= now'
    BY <2>2
  <2>5. QED
    BY <2>2, <2>3, <2>4 DEF FireKnows
<1>3. ASSUME Paid, task'.next = task.next PROVE Paid'
  <2>1. First' = First /\ Second' = Second /\ Holding' = Holding
    BY DEF First, Second, Holding, InFlight, S!Claimed
  <2>2. Cardinality(Holding) \in Nat
    BY CountMoved, CountOne DEF Holding
  <2>3. now \in Nat /\ now' \in Nat /\ ran \in Nat
    BY FiresAssumption DEF TaskInv, TaskTypes
  <2>4. ran + Cardinality(Holding) <= now => ran + Cardinality(Holding) <= now'
    BY <2>2, <2>3
  <2>5. QED
    BY <1>3, <2>1, <2>4 DEF Paid
<1>4. QED
  BY <1>1, <1>2, <1>3 DEF TaskInv

\* The owner edits the schedule (PUT).
Reschedules == \E c \in S!Crons, e \in {1, S!Never} : S!Update(c, e)

\* ... while a fire holds an occurrence of the old one.
EditMeetsFire == Reschedules /\ \E f \in Fires : InFlight(f)

\* What the owner does to the row leaves a row.
LEMMA OwnerSound ==
  ASSUME TaskInv, Reschedules \/ (\E on \in BOOLEAN : S!SetEnabled(on)) \/ S!Delete
  PROVE  TaskInv' /\ (Paid /\ ~EditMeetsFire => Paid')
<1>1. TaskTypes /\ task \in S!Row /\ now \in 0..MaxTime
  BY DEF TaskInv, TaskTypes
<1>2. UNCHANGED <<now, busy, pending, fire, fresh, watched, ran, early>> /\ edits' = edits + 1
  BY DEF Reschedules, S!Update, S!SetEnabled, S!Delete, S!Edit
<1>3. exists' \in BOOLEAN
  BY <1>1 DEF Reschedules, S!Update, S!SetEnabled, S!Delete, TaskTypes
<1>4. task' \in S!Row
  <2>1. CASE Reschedules
    <3>1. PICK c \in S!Crons, e \in {1, S!Never} :
            task' = [task EXCEPT !.cron = c, !.end = e, !.next = S!NextAfter(c, now)]
      BY <2>1 DEF Reschedules, S!Update
    <3>2. S!NextAfter(c, now) \in S!Times
      <4>1. now \in Nat
        BY <1>1, FiresAssumption
      <4>2. S!NextAfter(c, now) \in {now + 1, now + 2}
        BY <4>1, NextAfterType
      <4>3. QED
        BY <1>1, <4>2, FiresAssumption
    <3>3. e \in S!Times \cup {S!Never}
      BY FiresAssumption DEF S!Never
    <3>4. PICK p \in S!Row : p = [task EXCEPT !.cron = c]
      <4>1. [task EXCEPT !.cron = c] \in S!Row
        BY <1>1 DEF S!Row
      <4>2. QED
        BY <4>1
    <3>5. PICK q \in S!Row : q = [p EXCEPT !.end = e]
      <4>1. [p EXCEPT !.end = e] \in S!Row
        BY <3>3 DEF S!Row
      <4>2. QED
        BY <4>1
    <3>6. [q EXCEPT !.next = S!NextAfter(c, now)] \in S!Row
      BY <3>2 DEF S!Row
    <3>7. task' = [q EXCEPT !.next = S!NextAfter(c, now)]
      BY <3>1, <3>4, <3>5
    <3>8. QED
      BY <3>6, <3>7
  <2>2. CASE (\E on \in BOOLEAN : S!SetEnabled(on)) \/ S!Delete
    BY <1>1, <2>2 DEF S!SetEnabled, S!Delete, S!Row
  <2>3. QED
    BY <2>1, <2>2
<1>5. ~Reschedules => task'.next = task.next
  BY <1>1 DEF S!SetEnabled, S!Delete, S!Row
<1>6. TaskInv' /\ (Paid /\ task'.next = task.next => Paid')
  <2>1. /\ UNCHANGED <<fire, ran, early>> /\ now' \in 0..MaxTime /\ now' >= now
        /\ busy' \in BOOLEAN /\ pending' \in BOOLEAN
        /\ fresh' \in [Fires -> S!FreshStates] /\ watched' \subseteq Fires /\ edits' \in Nat
        /\ \A f \in Fires : fresh'[f] = "created" => fresh[f] = "created"
    BY <1>1, <1>2, FiresAssumption DEF TaskTypes
  <2>2. QED
    BY <1>3, <1>4, <2>1, RestSound
<1>7. ASSUME Paid, Reschedules, ~EditMeetsFire PROVE Paid'
  <2>1. First' = {} /\ Second' = {} /\ Holding' = {} /\ Holding = {}
    BY <1>2, <1>7 DEF EditMeetsFire, First, Second, Holding, InFlight, S!Claimed
  <2>2. Cardinality({}) = 0
    BY FS_EmptySet
  <2>3. task'.next \in {now + 1, now + 2} /\ now \in Nat /\ ran \in Nat
    <3>1. PICK c \in S!Crons, e \in {1, S!Never} :
            task' = [task EXCEPT !.cron = c, !.end = e, !.next = S!NextAfter(c, now)]
      BY <1>7 DEF Reschedules, S!Update
    <3>2. task'.next = S!NextAfter(c, now)
      BY <1>1, <3>1 DEF S!Row
    <3>3. now \in Nat /\ ran \in Nat
      BY <1>1, FiresAssumption DEF TaskTypes
    <3>4. QED
      BY <3>2, <3>3, NextAfterType
  <2>4. ran + 0 <= now \/ early
    BY <1>7, <2>1, <2>2 DEF Paid
  <2>5. early' \/ (ran' + 0 + 0 + 1 <= task'.next /\ ran' + 0 <= now')
    BY <1>2, <2>3, <2>4
  <2>6. QED
    BY <2>1, <2>2, <2>5 DEF Paid
<1>8. QED
  BY <1>5, <1>6, <1>7

\* Runs settle, people chat, time passes.
LEMMA WorldSound ==
  ASSUME TaskInv,
         S!TargetRun \/ S!Tick \/ \E f \in Fires : S!RunSettles(f) \/ S!OnRunDone(f)
  PROVE  KeepsSchedule
<1>1. TaskTypes /\ now \in 0..MaxTime
  BY DEF TaskInv, TaskTypes
<1>2. UNCHANGED <<task, exists, fire, ran, early, edits>>
  BY DEF S!TargetRun, S!Tick, S!RunSettles, S!OnRunDone
<1>3. now' \in 0..MaxTime /\ now' >= now
  BY <1>1, FiresAssumption DEF S!TargetRun, S!Tick, S!RunSettles, S!OnRunDone
<1>4. busy' \in BOOLEAN /\ pending' \in BOOLEAN
  BY <1>1 DEF TaskTypes, S!TargetRun, S!Tick, S!RunSettles, S!OnRunDone
<1>5. /\ fresh' \in [Fires -> S!FreshStates] /\ watched' \subseteq Fires
      /\ \A f \in Fires : fresh'[f] = "created" => fresh[f] = "created"
  <2>1. CASE UNCHANGED <<fresh, watched>>
    BY <1>1, <2>1 DEF TaskTypes
  <2>2. CASE \E f \in Fires : S!RunSettles(f) \/ S!OnRunDone(f)
    BY <1>1, <2>2 DEF TaskTypes, S!RunSettles, S!OnRunDone
  <2>3. QED
    BY <2>1, <2>2 DEF S!TargetRun, S!Tick
<1>6. task' \in S!Row /\ exists' \in BOOLEAN /\ edits' \in Nat /\ task'.next = task.next
  BY <1>1, <1>2 DEF TaskTypes
<1>7. QED
  BY <1>2, <1>3, <1>4, <1>5, <1>6, RestSound DEF KeepsSchedule

\* An instance stops.
LEMMA TriggerCrashSound ==
  ASSUME TaskInv, NEW f \in Fires, S!TriggerCrash(f)
  PROVE  KeepsSchedule
<1>1. TaskTypes
  BY DEF TaskInv
<1>2. /\ fresh' \in [Fires -> S!FreshStates] /\ fresh'[f] # "created"
      /\ \A g \in Fires : g # f => fresh'[g] = fresh[g]
      /\ watched' \subseteq Fires /\ edits' \in Nat
  BY <1>1 DEF TaskTypes, S!TriggerCrash
<1>3. S!Stop(f) /\ UNCHANGED <<now, task, exists, busy, pending, ran, early>>
  BY DEF S!TriggerCrash
<1>4. QED
  BY <1>2, <1>3, EndSound

\* A fire that watches its run to delete its session is over.
LEMMA WatchSound ==
  ASSUME TaskInv, NEW f \in Fires, S!WatchRunDelete(f)
  PROVE  KeepsSchedule
<1>1. TaskTypes
  BY DEF TaskInv
<1>2. /\ S!Stop(f) /\ fire[f].pc = "watch" /\ watched' = watched \cup {f}
      /\ UNCHANGED <<now, task, exists, busy, pending, fresh, edits, ran, early>>
  BY DEF S!WatchRunDelete
<1>3. fresh[f] # "created"
  BY <1>2 DEF TaskInv, FireKnows
<1>4. QED
  BY <1>1, <1>2, <1>3, EndSound DEF TaskTypes

\* The whole service: types and knowledge are inductive, and so is the account as long as
\* no edit of the schedule meets a fire in flight.
LEMMA ScheduleStep ==
  ASSUME TaskInv, [S!SchedNext]_schedVars
  PROVE  TaskInv' /\ (Paid /\ ~EditMeetsFire => Paid')
<1>1. CASE UNCHANGED schedVars
  <2>1. TaskTypes
    BY DEF TaskInv
  <2>2. /\ UNCHANGED <<fire, ran, early, task>> /\ now' \in 0..MaxTime /\ now' >= now
        /\ exists' \in BOOLEAN /\ busy' \in BOOLEAN /\ pending' \in BOOLEAN /\ task' \in S!Row
        /\ fresh' \in [Fires -> S!FreshStates] /\ watched' \subseteq Fires /\ edits' \in Nat
        /\ \A f \in Fires : fresh'[f] = "created" => fresh[f] = "created"
    BY <1>1, <2>1, FiresAssumption DEF schedVars, TaskTypes
  <2>3. QED
    BY <2>2, RestSound
<1>2. CASE Reschedules \/ (\E on \in BOOLEAN : S!SetEnabled(on)) \/ S!Delete
  BY <1>2, OwnerSound
<1>3. CASE S!TargetRun \/ S!Tick \/ \E f \in Fires : S!RunSettles(f) \/ S!OnRunDone(f)
  BY <1>3, WorldSound DEF KeepsSchedule
<1>4. CASE \E f \in Fires : S!ClaimRead(f) \/ S!FireNow(f)
  BY <1>4, BeginSound DEF KeepsSchedule
<1>5. CASE \E f \in Fires : S!FireStep(f)
  <2>1. PICK f \in Fires : S!FireStep(f)
    BY <1>5
  <2>2. KeepsSchedule
    BY <2>1, ClaimSound, GateSound, SessionSound, MultitaskSound, PendingSound, SubmitSound,
       WatchSound, RequeueSound DEF S!FireStep
  <2>3. QED
    BY <2>2 DEF KeepsSchedule
<1>6. CASE \E f \in Fires : S!TriggerCrash(f)
  BY <1>6, TriggerCrashSound DEF KeepsSchedule
<1>7. QED
  BY <1>1, <1>2, <1>3, <1>4, <1>5, <1>6 DEF S!SchedNext, Reschedules

\* A composite's step is one of the triggers' or leaves them alone; so for the jobs.
LEMMA TriggerFrame == [Next]_vars => [S!SchedNext]_schedVars /\ [J!JobsNext]_jobVars
<1>1. [Next]_vars => [S!SchedNext]_schedVars
  BY DEF Next, vars, SchedStep, JobStep, DreamStep, WebhookStep, Only
<1>2. [Next]_vars => [J!JobsNext]_jobVars
  BY DEF Next, vars, SchedStep, JobStep, DreamStep, WebhookStep, Only
<1>3. QED
  BY <1>1, <1>2

\* A new task: nothing fires and nothing has run.
LEMMA TriggersStart == Init => TaskInv /\ Paid /\ JobsInv
<1> SUFFICES ASSUME Init PROVE TaskInv /\ Paid /\ JobsInv
  OBVIOUS
<1>1. S!SchedInit /\ J!JobsInit
  BY DEF Init
<1>2. S!AtRest \in FireRec /\ S!AtRest.pc = "idle"
  BY FiresAssumption DEF S!AtRest, FireRec
<1>3. fire \in [Fires -> FireRec] /\ \A f \in Fires : fire[f].pc = "idle"
  BY <1>1, <1>2 DEF S!SchedInit
<1>4. S!NextAfter(1, 0) \in {1, 2}
  BY NextAfterType DEF S!Crons
<1>5. /\ \A s \in S!Strategies : \A g, d \in BOOLEAN :
           S!Create(1, s, g, d) \in S!Row /\ S!Create(1, s, g, d).next \in {1, 2}
      /\ "reject" \in S!Strategies
  BY <1>4, FiresAssumption DEF S!Create, S!Row, S!Crons, S!Strategies
<1>6. task \in S!Row /\ task.next \in {1, 2}
  BY <1>1, <1>5 DEF S!SchedInit
<1>7. /\ now = 0 /\ ran = 0 /\ edits = 0 /\ watched = {} /\ early = FALSE
      /\ exists \in BOOLEAN /\ busy \in BOOLEAN /\ pending \in BOOLEAN
      /\ fresh \in [Fires -> S!FreshStates] /\ \A f \in Fires : fresh[f] = "none"
  BY <1>1 DEF S!SchedInit
<1>8. TaskInv
  <2>1. TaskTypes
    <3>1. now \in 0..MaxTime /\ ran \in Nat /\ edits \in Nat
      BY <1>7, FiresAssumption
    <3>2. early \in BOOLEAN /\ watched \subseteq Fires
      BY <1>7
    <3>3. QED
      BY <1>3, <1>6, <1>7, <3>1, <3>2 DEF TaskTypes
  <2>2. \A f \in Fires : FireKnows(f)
    BY <1>3, <1>7 DEF FireKnows, InFlight, S!Claimed
  <2>3. QED
    BY <2>1, <2>2 DEF TaskInv
<1>9. Paid
  <2>1. First = {} /\ Second = {} /\ Holding = {}
    BY <1>3 DEF First, Second, Holding, InFlight, S!Claimed
  <2>2. QED
    BY <1>6, <1>7, <2>1, FS_EmptySet DEF Paid
<1>10. JobsInv
  BY <1>1, JobsAssumption DEF J!JobsInit, JobsInv, J!JobsTypeOK
<1>11. QED
  BY <1>8, <1>9, <1>10

\* What the invariants say of the triggers' property.
LEMMA TriggersFollow ==
  /\ TaskInv => S!SchedTypeOK /\ S!NoEmptySession
  /\ TaskInv /\ Paid => S!OccurrenceFiresOnce
  /\ JobsInv => J!JobsTypeOK /\ J!NoOverlap
<1>1. TaskInv => S!SchedTypeOK /\ S!NoEmptySession
  BY DEF TaskInv, TaskTypes, FireKnows, FireRec, S!SchedTypeOK, S!NoEmptySession
<1>2. ASSUME Paid PROVE S!OccurrenceFiresOnce
  <2>1. S!Cardinality(Holding) = Cardinality(Holding)
    BY Zenon DEF S!Cardinality, Cardinality
  <2>2. QED
    BY <1>2, <2>1 DEF Paid, S!OccurrenceFiresOnce, Holding
<1>3. JobsInv => J!JobsTypeOK /\ J!NoOverlap
  BY DEF JobsInv, J!NoOverlap
<1>4. QED
  BY <1>1, <1>2, <1>3

\* A fire that gives up leaves an empty session only where the DELETE of it failed or was
\* never reached (CleanupFreshSession), and a job never overlaps itself: whatever is edited,
\* fails, crashes or comes at once.
THEOREM TriggersEndClean == Spec => [](S!NoEmptySession /\ J!NoOverlap)
<1>1. TaskInv /\ JobsInv /\ [Next]_vars => TaskInv' /\ JobsInv'
  BY TriggerFrame, ScheduleStep, JobsStep
<1>2. TaskInv /\ JobsInv => S!NoEmptySession /\ J!NoOverlap
  BY TriggersFollow
<1>3. QED
  BY <1>1, <1>2, TriggersStart, PTL DEF Spec

\* One due occurrence starts at most one run, for any number of instances and manual
\* runs, through races, crashes, requeues and edits, unless an edit of the schedule
\* meets a fire that holds an occurrence of the old one.
THEOREM OccurrencesAreRunOnce == Spec /\ [][~EditMeetsFire]_vars => []TriggersOnce
<1> DEFINE I == TaskInv /\ Paid /\ JobsInv
<1>1. Init => I
  BY TriggersStart
<1>2. I /\ [Next]_vars /\ [~EditMeetsFire]_vars => I'
  <2> SUFFICES ASSUME I, [Next]_vars, [~EditMeetsFire]_vars PROVE I'
    OBVIOUS
  <2>1. [S!SchedNext]_schedVars /\ [J!JobsNext]_jobVars
    BY TriggerFrame
  <2>2. TaskInv' /\ (Paid /\ ~EditMeetsFire => Paid') /\ JobsInv'
    BY <2>1, ScheduleStep, JobsStep
  <2>3. CASE UNCHANGED vars
    <3>1. ~EditMeetsFire
      <4>1. edits \in Nat /\ edits' = edits
        BY <2>3 DEF vars, schedVars, TaskInv, TaskTypes
      <4>2. Reschedules => edits' = edits + 1
        BY DEF Reschedules, S!Update, S!Edit
      <4>3. QED
        BY <4>1, <4>2 DEF EditMeetsFire
    <3>2. QED
      BY <2>2, <3>1
  <2>4. QED
    BY <2>2, <2>3
<1>3. I => TriggersOnce
  BY TriggersFollow DEF TriggersOnce
<1>4. QED
  BY <1>1, <1>2, <1>3, PTL DEF Spec

\* What a step that is not the owner's may do to the next occurrence.
EditKept ==
  task'.next # task.next /\ edits' = edits =>
    /\ \E f \in Fires : fire[f].row.next = task.next
    /\ task.enabled /\ exists
    /\ task'.next > task.next \/ ~S!Expired(task'.next)

\* What the owner edited stands: only a fire that saw this very row changes the next
\* occurrence, and it makes nothing due that is disabled, deleted or over.
THEOREM EditsStand == Spec => FiresRespectEdits
<1>1. TaskInv /\ [Next]_vars => TaskInv'
  BY TriggerFrame, ScheduleStep
<1>2. TaskInv /\ [Next]_vars => [EditKept]_(S!schedVars)
  <2> SUFFICES ASSUME TaskInv, [S!SchedNext]_schedVars, task'.next # task.next, edits' = edits
               PROVE  /\ \E f \in Fires : fire[f].row.next = task.next
                      /\ task.enabled /\ exists
                      /\ task'.next > task.next \/ ~S!Expired(task'.next)
    BY TriggerFrame DEF EditKept, schedVars, S!schedVars
  <2>1. task \in S!Row /\ edits + 1 # edits
    BY DEF TaskInv, TaskTypes
  <2>2. PICK f \in Fires : \/ S!ClaimUpdate(f) /\ S!Claimable(f)
                           \/ S!RequeueDueAt(f) /\ S!Requeueable(f)
    BY <2>1 DEF S!SchedNext, schedVars, S!Update, S!SetEnabled, S!Delete, S!Edit, S!TargetRun,
                S!Tick, S!ClaimRead, S!FireNow, S!FireStep, S!ResolveAndBudget, S!ResolveSession,
                S!GateMultitask, S!PendingGate, S!Submit, S!WatchRunDelete, S!RequeueDueAt,
                S!ClaimUpdate, S!RunSettles, S!OnRunDone, S!TriggerCrash
  <2>3. CASE S!ClaimUpdate(f) /\ S!Claimable(f)
    <3>1. /\ task' = [task EXCEPT !.next = S!NextAfter(fire[f].row.cron, fire[f].at)]
          /\ fire[f].pc = "claim"
      BY <2>3 DEF S!ClaimUpdate
    <3>2. /\ fire[f].row \in S!Row /\ fire[f].at \in Nat /\ task.next \in Nat
      BY <2>1, <3>1, FiresAssumption DEF TaskInv, TaskTypes, FireKnows, FireRec, S!Row
    <3>3. task'.next \in {fire[f].at + 1, fire[f].at + 2}
      BY <2>1, <3>1, <3>2, NextAfterType DEF S!Row
    <3>4. QED
      BY <2>3, <3>2, <3>3 DEF S!Claimable, S!Due
  <2>4. CASE S!RequeueDueAt(f) /\ S!Requeueable(f)
    <3>1. task'.next = fire[f].at /\ task'.end = task.end
      BY <2>1, <2>4 DEF S!RequeueDueAt, S!Row
    <3>2. QED
      BY <2>4, <3>1 DEF S!Requeueable, S!Expired
  <2>5. QED
    BY <2>2, <2>3, <2>4
<1>3. [][EditKept]_(S!schedVars) => FiresRespectEdits
  BY DEF FiresRespectEdits, S!FiresRespectEdits, EditKept
<1>4. QED
  BY <1>1, <1>2, <1>3, TriggersStart, PTL DEF Spec

-----------------------------------------------------------------------------
(* Dreaming: types, and what a pass knows.                                 *)

Texts == SUBSET (D!Facts \cup {D!Said})
\* The records of a memory, of an answer of the model and of a pass.
Memory == [content : Texts, state : {"live", "deprecated", "deleted"}]
Answer == [upd : Nat, into : Texts, add : SUBSET D!Facts, rem : Nat]
PassPC == D!Working \cup {"idle", "claim", "release", "unlock", "vanished"}
PassRec == [pc : PassPC, kind : D!Kinds, todo : SUBSET (Sess \X (0..MaxMsgs)), sess : Sess,
            upto : 0..MaxMsgs, new : SUBSET D!Facts, live : SUBSET Texts, ans : Answer,
            done : {0, 1}, spent : BOOLEAN]

\* The tables, the locks and the passes; a pass beyond its claim holds the lock.
DreamTypes ==
  /\ head \in [Sess -> 0..MaxMsgs] /\ dreamed \in [Sess -> 0..MaxMsgs]
  /\ mems \in Seq(Memory) /\ Len(mems) <= MaxMems
  /\ dlock \in Servers \cup {D!NoServer} /\ single \subseteq Servers
  /\ pass \in [Servers -> PassRec]
  /\ known \subseteq D!Facts
  /\ \A i \in Servers : pass[i].pc \notin {"idle", "claim", "unlock"} => dlock = i

\* Beyond the watermark a memory holds of each session the messages up to some point.
Segment(c) ==
  \A s \in Sess, n \in 1..MaxMsgs : <<s, n>> \in c =>
    \A m \in (dreamed[s] + 1)..n : <<s, m>> \in c

\* What a memory states of the conversations has been learned.
Stored ==
  \A k \in DOMAIN mems : mems[k].content \cap D!Facts \subseteq known /\ Segment(mems[k].content)

\* The messages a pass learns from.
Batch(i) == {pass[i].sess} \X ((dreamed[pass[i].sess] + 1)..pass[i].upto)

\* The watermarks of the sessions a pass has still to read are the stored ones.
TodoKnown(i) ==
  pass[i].pc \in D!Working \ {"scan"} =>
    \A t \in pass[i].todo :
      /\ t[2] = dreamed[t[1]]
      /\ pass[i].pc \notin {"next", "purge"} /\ pass[i].done = 1 => t[1] # pass[i].sess

\* A batch is all that lies beyond the watermark, and it is learned before that moves.
BatchKnown(i) ==
  /\ pass[i].pc \in {"extract", "consolidate", "update", "add", "remove", "caps"} =>
       pass[i].new = IF pass[i].done = 1 THEN Batch(i) ELSE {}
  /\ pass[i].pc \in {"remove", "caps"} => pass[i].new \subseteq known
  /\ pass[i].pc = "mark" => pass[i].done = 1 /\ Batch(i) \subseteq known

\* The model's answer covers the batch, and the store is what it was asked about.
AnswerWhole(i) ==
  LET a == pass[i].ans IN
  pass[i].pc \in {"update", "add"} =>
    /\ pass[i].new \subseteq a.into \cup a.add
    /\ a.add \in {{}, pass[i].new} /\ Segment(a.into)
    /\ \A c \in pass[i].live : c \cap D!Facts \subseteq known
    /\ a.add # {} /\ a.into = a.add => a.add \in pass[i].live
    /\ \A k \in D!Live : mems[k].content \in pass[i].live \cup {{D!Said}, a.into}
    /\ a.upd = 0 => a.into = {}

\* What a fact of the answer needs to be safe: the survivor states it, or a user took it.
Covered(a) ==
  \A x \in a.into \cap D!Facts :
    x \in lost \/ (mems[a.upd].state = "live" /\ x \in mems[a.upd].content)

\* A merge holds what the absorbed memory states before that one is removed.
MergeSafe(i) ==
  LET a == pass[i].ans IN
  pass[i].pc \in {"update", "add", "remove"} =>
    /\ a.upd = 0 => a.rem = 0
    /\ a.upd # 0 => a.upd \in DOMAIN mems /\ mems[a.upd].state # "deprecated"
    /\ a.rem # 0 => /\ a.rem \in DOMAIN mems /\ a.rem # a.upd
                    /\ mems[a.rem].content \cap D!Facts \subseteq a.into
    /\ pass[i].pc = "update" /\ a.upd # 0 => mems[a.upd].content \cap D!Facts \subseteq a.into
    /\ pass[i].pc # "update" /\ a.upd # 0 => a.into \cap D!Facts \subseteq known /\ Covered(a)

\* The whole of what a pass knows.
PassKnows(i) == TodoKnown(i) /\ BatchKnown(i) /\ AnswerWhole(i) /\ MergeSafe(i)

\* The inductive invariant of the memory.
MemoryInv ==
  /\ DreamTypes /\ Stored
  /\ D!WatermarkMeansLearned /\ D!LearnedStaysKnown /\ D!AddsOnce
  /\ \A i \in Servers : PassKnows(i)

USE DEF D!NoServer, D!Kinds

\* What the user writes is no message.
LEMMA SaidIsNoFact == D!Said \notin D!Facts
BY DreamAssumption DEF D!Said, D!Facts

\* A pass at rest, and one that ends.
LEMMA IdleTypes ==
  /\ D!Idle \in PassRec /\ D!Idle.pc = "idle"
  /\ D!Ending \in PassRec /\ D!Ending.pc = "release"
<1>1. (CHOOSE s \in Sess : TRUE) \in Sess
  BY DreamAssumption
<1>2. D!NoAnswer \in Answer
  BY DEF D!NoAnswer, Answer, Texts
<1>3. D!Idle \in PassRec /\ D!Idle.pc = "idle"
  BY <1>1, <1>2, DreamAssumption DEF D!Idle, PassRec, PassPC, D!Kinds
<1>4. [D!Idle EXCEPT !.pc = "release"] \in PassRec /\ [D!Idle EXCEPT !.pc = "release"].pc = "release"
  BY <1>3 DEF PassRec, PassPC
<1>5. QED
  BY <1>3, <1>4 DEF D!Ending

\* The instance that works is alone.
LEMMA WorkerAlone ==
  ASSUME DreamTypes, NEW i \in Servers, pass[i].pc \notin {"idle", "claim", "unlock"},
         NEW j \in Servers, j # i
  PROVE  pass[j].pc \in {"idle", "claim", "unlock"}
BY DEF DreamTypes

\* A pass that does not work needs to know nothing.
LEMMA RestKnows ==
  ASSUME NEW i \in Servers, pass[i].pc \notin D!Working \ {"scan"}
  PROVE  PassKnows(i)
BY DEF PassKnows, TodoKnown, BatchKnown, AnswerWhole, MergeSafe, D!Working

\* A step of one pass that leaves the store and the watermarks alone.
LEMMA QuietStep ==
  ASSUME MemoryInv, NEW i \in Servers, NEW q \in PassRec, pass' = [pass EXCEPT ![i] = q],
         UNCHANGED <<dreamed, mems, known, lost, doubled>>,
         head' \in [Sess -> 0..MaxMsgs], single' \subseteq Servers,
         dlock' \in Servers \cup {D!NoServer},
         dlock' # dlock => dlock \in {i, D!NoServer},
         q.pc \notin {"idle", "claim", "unlock"} => dlock' = i,
         PassKnows(i)'
  PROVE  MemoryInv'
<1>1. pass \in [Servers -> PassRec] /\ pass' \in [Servers -> PassRec] /\ pass'[i] = q
      /\ \A j \in Servers : j # i => pass'[j] = pass[j]
  BY DEF MemoryInv, DreamTypes
<1>2. DreamTypes'
  <2>1. \A j \in Servers : pass'[j].pc \notin {"idle", "claim", "unlock"} => dlock' = j
    BY <1>1, DreamAssumption DEF MemoryInv, DreamTypes
  <2>2. QED
    BY <1>1, <2>1 DEF MemoryInv, DreamTypes
<1>3. Stored' /\ D!WatermarkMeansLearned' /\ D!LearnedStaysKnown' /\ D!AddsOnce'
  BY DEF MemoryInv, Stored, Segment, D!WatermarkMeansLearned, D!LearnedStaysKnown, D!AddsOnce,
         D!LiveFacts, D!Live, D!LiveOf, D!ListByScope
<1>4. \A j \in Servers : j # i => PassKnows(j)'
  <2>1. TAKE j \in Servers
  <2>2. HAVE j # i
  <2>3. PassKnows(j) /\ pass'[j] = pass[j]
    BY <1>1, <2>2 DEF MemoryInv
  <2>4. TodoKnown(j)' /\ BatchKnown(j)'
    BY <2>3 DEF PassKnows, TodoKnown, BatchKnown, Batch
  <2>5. AnswerWhole(j)' /\ MergeSafe(j)'
    BY <2>3 DEF PassKnows, AnswerWhole, MergeSafe, Covered, Segment, D!Live, D!LiveOf, D!ListByScope
  <2>6. QED
    BY <2>4, <2>5 DEF PassKnows
<1>5. QED
  BY <1>2, <1>3, <1>4 DEF MemoryInv

\* A step of one pass after which it has nothing to know.
LEMMA RestStep ==
  ASSUME MemoryInv, NEW i \in Servers, NEW q \in PassRec, pass' = [pass EXCEPT ![i] = q],
         UNCHANGED <<dreamed, mems, known, lost, doubled, head>>, single' \subseteq Servers,
         dlock' \in Servers \cup {D!NoServer},
         dlock' # dlock => dlock \in {i, D!NoServer},
         q.pc \notin {"idle", "claim", "unlock"} => dlock' = i,
         q.pc \notin D!Working \ {"scan"}
  PROVE  MemoryInv'
<1>1. pass'[i] = q
  BY DEF MemoryInv, DreamTypes
<1>2. PassKnows(i)'
  BY <1>1 DEF PassKnows, TodoKnown, BatchKnown, AnswerWhole, MergeSafe, D!Working
<1>3. head' \in [Sess -> 0..MaxMsgs]
  BY DEF MemoryInv, DreamTypes
<1>4. QED
  BY <1>2, <1>3, QuietStep

\* A pass begins, takes the lock or not, and ends.
LEMMA BoundsStep ==
  ASSUME MemoryInv, NEW i \in Servers,
         \/ D!ClaimCrossInstance(i) \/ D!Release(i) \/ D!Finish(i)
         \/ \E kind \in D!Kinds : D!Begin(i, kind)
  PROVE  MemoryInv'
<1>1. /\ pass \in [Servers -> PassRec] /\ pass[i] \in PassRec
      /\ dlock \in Servers \cup {D!NoServer} /\ single \subseteq Servers
      /\ pass[i].pc \notin {"idle", "claim", "unlock"} => dlock = i
  BY DEF MemoryInv, DreamTypes
<1>2. UNCHANGED <<dreamed, mems, known, lost, doubled, head>>
  BY DEF D!ClaimCrossInstance, D!Release, D!Finish, D!Begin, D!StoreSame
<1>3. \A pc \in PassPC : [pass[i] EXCEPT !.pc = pc] \in PassRec /\ [pass[i] EXCEPT !.pc = pc].pc = pc
  BY <1>1 DEF PassRec
<1>4. single' \subseteq Servers
  BY <1>1 DEF D!ClaimCrossInstance, D!Release, D!Finish, D!Begin, D!Abort
<1>5. CASE D!Abort(i) /\ UNCHANGED dlock
  <2>1. pass' = [pass EXCEPT ![i] = D!Idle]
    BY <1>5 DEF D!Abort
  <2>2. "idle" \notin D!Working
    BY DEF D!Working
  <2>3. QED
    BY <1>1, <1>2, <1>4, <1>5, <2>1, <2>2, IdleTypes, RestStep
<1>6. CASE D!Finish(i)
  <2>1. pass' = [pass EXCEPT ![i] = D!Idle] /\ UNCHANGED dlock
    BY <1>6 DEF D!Finish
  <2>2. "idle" \notin D!Working
    BY DEF D!Working
  <2>3. QED
    BY <1>1, <1>2, <1>4, <2>1, <2>2, IdleTypes, RestStep
<1>7. CASE D!TryAcquire(i) /\ dlock' = i /\ pass' = [pass EXCEPT ![i].pc = "scan"]
  <2>1. pass' = [pass EXCEPT ![i] = [pass[i] EXCEPT !.pc = "scan"]] /\ "scan" \in PassPC
    BY <1>7 DEF PassPC, D!Working
  <2>2. QED
    BY <1>1, <1>2, <1>3, <1>4, <1>7, <2>1, RestStep DEF D!TryAcquire
<1>8. CASE D!Release(i)
  <2>1. /\ pass' = [pass EXCEPT ![i] = [pass[i] EXCEPT !.pc = "unlock"]] /\ "unlock" \in PassPC
        /\ pass[i].pc = "release" /\ dlock' = D!NoServer
    BY <1>8 DEF PassPC, D!Release
  <2>2. "unlock" \notin D!Working
    BY DEF D!Working
  <2>3. QED
    BY <1>1, <1>2, <1>3, <1>4, <2>1, <2>2, RestStep
<1>9. CASE \E kind \in D!Kinds : D!Begin(i, kind)
  <2>1. PICK kind \in D!Kinds :
          pass' = [pass EXCEPT ![i] = [D!Idle EXCEPT !.pc = "claim", !.kind = kind]]
    BY <1>9 DEF D!Begin
  <2>2. /\ [D!Idle EXCEPT !.pc = "claim", !.kind = kind] \in PassRec
        /\ [D!Idle EXCEPT !.pc = "claim", !.kind = kind].pc = "claim"
    BY IdleTypes DEF PassRec, PassPC
  <2>3. UNCHANGED dlock /\ "claim" \notin D!Working
    BY <1>9 DEF D!Begin, D!Working
  <2>4. QED
    BY <1>1, <1>2, <1>4, <2>1, <2>2, <2>3, RestStep
<1>10. QED
  BY <1>5, <1>6, <1>7, <1>8, <1>9 DEF D!ClaimCrossInstance

\* A pass fails, panics or dies.
LEMMA FaultStep ==
  ASSUME MemoryInv, NEW i \in Servers, D!PassFails(i) \/ D!Panic(i) \/ D!Crash(i)
  PROVE  MemoryInv'
<1>1. /\ dlock \in Servers \cup {D!NoServer} /\ single \subseteq Servers
      /\ pass[i].pc \notin {"idle", "claim", "unlock"} => dlock = i
  BY DEF MemoryInv, DreamTypes
<1>2. UNCHANGED <<dreamed, mems, known, lost, doubled, head>>
  BY DEF D!PassFails, D!Panic, D!Crash, D!Fault, D!StoreSame
<1>3. CASE D!PassFails(i) \/ D!Panic(i)
  <2>1. pass[i].pc \in D!Working /\ UNCHANGED <<dlock, single>>
    BY <1>3 DEF D!PassFails, D!Panic
  <2>2. PICK q \in PassRec : q.pc \in {"release", "vanished"} /\ pass' = [pass EXCEPT ![i] = q]
    <3>1. \A pc \in {"release", "vanished"} :
            [D!Idle EXCEPT !.pc = pc] \in PassRec /\ [D!Idle EXCEPT !.pc = pc].pc = pc
      BY IdleTypes DEF PassRec, PassPC
    <3>2. \E pc \in {"release", "vanished"} : pass' = [pass EXCEPT ![i] = [D!Idle EXCEPT !.pc = pc]]
      BY <1>3 DEF D!PassFails, D!Panic, D!Ending
    <3>3. QED
      BY <3>1, <3>2
  <2>3. dlock = i /\ "release" \notin D!Working /\ "vanished" \notin D!Working
    BY <1>1, <2>1 DEF D!Working
  <2>4. QED
    BY <1>1, <1>2, <2>1, <2>2, <2>3, RestStep
<1>4. CASE D!Crash(i)
  <2>1. /\ pass' = [pass EXCEPT ![i] = D!Idle] /\ single' = single \ {i}
        /\ dlock' = IF dlock = i THEN D!NoServer ELSE dlock
    BY <1>4 DEF D!Crash
  <2>2. "idle" \notin D!Working
    BY DEF D!Working
  <2>3. QED
    BY <1>1, <1>2, <2>1, <2>2, IdleTypes, RestStep
<1>5. QED
  BY <1>3, <1>4

\* A step of a working pass that touches nothing but its locals.
LEMMA ThinkStep ==
  ASSUME MemoryInv, NEW i \in Servers, NEW q \in PassRec, pass' = [pass EXCEPT ![i] = q],
         UNCHANGED <<head, dreamed, dlock, single, mems, known, lost, doubled>>,
         pass[i].pc \in D!Working, PassKnows(i)'
  PROVE  MemoryInv'
<1>1. /\ head' \in [Sess -> 0..MaxMsgs] /\ single' \subseteq Servers
      /\ dlock' \in Servers \cup {D!NoServer}
      /\ pass[i].pc \notin {"idle", "claim", "unlock"} => dlock' = i
  BY DEF MemoryInv, DreamTypes
<1>2. pass[i].pc \notin {"idle", "claim", "unlock"}
  BY DEF D!Working
<1>3. QED
  BY <1>1, <1>2, QuietStep

\* PendingSessions reads each watermark as it is.
LEMMA ScanStep ==
  ASSUME MemoryInv, NEW i \in Servers, D!PendingSessions(i)
  PROVE  MemoryInv'
<1> DEFINE todo == {<<s, dreamed[s]>> : s \in D!Undreamed}
           q == [pass[i] EXCEPT !.pc = "next", !.todo = todo]
<1>1. /\ pass[i] \in PassRec /\ pass \in [Servers -> PassRec]
      /\ dreamed \in [Sess -> 0..MaxMsgs]
  BY DEF MemoryInv, DreamTypes
<1>2. /\ pass[i].pc = "scan" /\ pass' = [pass EXCEPT ![i] = q]
      /\ UNCHANGED <<head, dreamed, dlock, single, mems, known, lost, doubled>>
  BY DEF D!PendingSessions, D!StoreSame
<1>3. todo \subseteq Sess \X (0..MaxMsgs) /\ \A t \in todo : t[2] = dreamed[t[1]]
  BY <1>1 DEF D!Undreamed
<1> HIDE DEF todo
<1>4. q \in PassRec /\ q.pc = "next" /\ q.todo = todo
  BY <1>1, <1>3 DEF PassRec, PassPC, D!Working
<1> HIDE DEF q
<1>5. pass'[i] = q
  BY <1>1, <1>2
<1>6. PassKnows(i)'
  BY <1>2, <1>3, <1>4, <1>5 DEF PassKnows, TodoKnown, BatchKnown, AnswerWhole, MergeSafe
<1>7. "scan" \in D!Working
  BY DEF D!Working
<1>8. QED
  BY <1>2, <1>4, <1>6, <1>7, ThinkStep

\* The next batch of messages, or the end of the loop.
LEMMA NextStep ==
  ASSUME MemoryInv, NEW i \in Servers, D!NextSession(i)
  PROVE  MemoryInv'
<1>1. /\ pass[i] \in PassRec /\ pass \in [Servers -> PassRec]
      /\ dreamed \in [Sess -> 0..MaxMsgs] /\ head \in [Sess -> 0..MaxMsgs]
  BY DEF MemoryInv, DreamTypes
<1>2. /\ pass[i].pc = "next" /\ "next" \in D!Working
      /\ UNCHANGED <<head, dreamed, dlock, single, mems, known, lost, doubled>>
  BY DEF D!NextSession, D!StoreSame, D!Working
<1>3. \A t \in pass[i].todo : t \in Sess \X (0..MaxMsgs) /\ t[2] = dreamed[t[1]]
  BY <1>1, <1>2 DEF MemoryInv, PassKnows, TodoKnown, PassRec
<1>4. CASE \E t \in pass[i].todo :
             pass' = [pass EXCEPT ![i].pc = "extract", ![i].todo = @ \ {t}, ![i].sess = t[1],
                                  ![i].new = D!Episodes(t[1], t[2]), ![i].upto = head[t[1]],
                                  ![i].done = 1]
  <2>1. PICK t \in pass[i].todo :
             pass' = [pass EXCEPT ![i].pc = "extract", ![i].todo = @ \ {t}, ![i].sess = t[1],
                                  ![i].new = D!Episodes(t[1], t[2]), ![i].upto = head[t[1]],
                                  ![i].done = 1]
    BY <1>4
  <2> DEFINE new == D!Episodes(t[1], t[2])
             q == [pass[i] EXCEPT !.pc = "extract", !.todo = pass[i].todo \ {t}, !.sess = t[1],
                                  !.new = new, !.upto = head[t[1]], !.done = 1]
  <2>2. pass' = [pass EXCEPT ![i] = q]
    BY <1>1, <2>1
  <2>3. t[1] \in Sess /\ t[2] = dreamed[t[1]] /\ head[t[1]] \in 0..MaxMsgs
    BY <1>1, <1>3
  <2>4. new = {t[1]} \X ((dreamed[t[1]] + 1)..head[t[1]]) /\ new \subseteq D!Facts
    <3>1. new = {t[1]} \X ((dreamed[t[1]] + 1)..head[t[1]])
      BY <2>3 DEF D!Episodes
    <3>2. dreamed[t[1]] \in 0..MaxMsgs
      BY <1>1, <2>3
    <3>3. ((dreamed[t[1]] + 1)..head[t[1]]) \subseteq 1..MaxMsgs
      BY <2>3, <3>2, DreamAssumption
    <3>4. QED
      BY <2>3, <3>1, <3>3 DEF D!Facts
  <2> HIDE DEF new
  <2>5. /\ q \in PassRec /\ q.pc = "extract" /\ q.todo = pass[i].todo \ {t} /\ q.sess = t[1]
        /\ q.new = new /\ q.upto = head[t[1]] /\ q.done = 1
    BY <1>1, <2>3, <2>4 DEF PassRec, PassPC, D!Working
  <2> HIDE DEF q
  <2>6. pass'[i] = q
    BY <1>1, <2>2
  <2>7. TodoKnown(i)'
    <3>1. \A u \in pass[i].todo \ {t} : u[2] = dreamed[u[1]] /\ u[1] # t[1]
      BY <1>3
    <3>2. QED
      BY <1>2, <2>5, <2>6, <3>1 DEF TodoKnown
  <2>8. BatchKnown(i)'
    BY <1>2, <2>4, <2>5, <2>6 DEF BatchKnown, Batch
  <2>9. PassKnows(i)'
    BY <2>5, <2>6, <2>7, <2>8 DEF PassKnows, AnswerWhole, MergeSafe
  <2>10. QED
    BY <1>2, <2>2, <2>5, <2>9, ThinkStep
<1>5. CASE pass' = [pass EXCEPT ![i].pc = IF pass[i].kind = "manual" /\ pass[i].done = 0
                                             /\ ~pass[i].spent
                                          THEN "consolidate" ELSE "purge",
                                ![i].new = {}]
  <2> DEFINE pc == IF pass[i].kind = "manual" /\ pass[i].done = 0 /\ ~pass[i].spent
                   THEN "consolidate" ELSE "purge"
             q == [pass[i] EXCEPT !.pc = pc, !.new = {}]
  <2>1. pass' = [pass EXCEPT ![i] = q]
    BY <1>1, <1>5
  <2>2. pc \in {"consolidate", "purge"} /\ (pc = "consolidate" => pass[i].done = 0)
    OBVIOUS
  <2> HIDE DEF pc
  <2>3. /\ q \in PassRec /\ q.pc = pc /\ q.todo = pass[i].todo /\ q.new = {}
        /\ q.done = pass[i].done
    BY <1>1, <2>2 DEF PassRec, PassPC, D!Working
  <2> HIDE DEF q
  <2>4. pass'[i] = q
    BY <1>1, <2>1
  <2>5. TodoKnown(i)'
    BY <1>2, <1>3, <2>2, <2>3, <2>4 DEF TodoKnown
  <2>6. BatchKnown(i)'
    BY <2>2, <2>3, <2>4 DEF BatchKnown
  <2>7. PassKnows(i)'
    BY <2>2, <2>3, <2>4, <2>5, <2>6 DEF PassKnows, AnswerWhole, MergeSafe
  <2>8. QED
    BY <1>2, <2>1, <2>3, <2>7, ThinkStep
<1>6. QED
  BY <1>4, <1>5 DEF D!NextSession

\* Extraction and compression, with or without an allowance for the consolidation.
LEMMA ExtractStep ==
  ASSUME MemoryInv, NEW i \in Servers, D!ExtractAndCompress(i)
  PROVE  MemoryInv'
<1>1. pass[i] \in PassRec /\ pass \in [Servers -> PassRec]
  BY DEF MemoryInv, DreamTypes
<1>2. /\ pass[i].pc = "extract" /\ "extract" \in D!Working
      /\ UNCHANGED <<head, dreamed, dlock, single, mems, known, lost, doubled>>
  BY DEF D!ExtractAndCompress, D!StoreSame, D!Working
<1>3. PICK pc \in {"consolidate", "next"}, spent \in BOOLEAN :
        pass' = [pass EXCEPT ![i] = [pass[i] EXCEPT !.pc = pc, !.spent = spent]]
  <2>1. CASE pass' = [pass EXCEPT ![i].pc = "consolidate"]
    <3>1. [pass[i] EXCEPT !.pc = "consolidate"]
            = [pass[i] EXCEPT !.pc = "consolidate", !.spent = pass[i].spent]
      BY <1>1 DEF PassRec
    <3>2. pass[i].spent \in BOOLEAN
      BY <1>1 DEF PassRec
    <3>3. QED
      BY <2>1, <3>1, <3>2
  <2>2. CASE pass' = [pass EXCEPT ![i].pc = "next", ![i].spent = TRUE]
    BY <1>1, <2>2
  <2>3. QED
    BY <2>1, <2>2 DEF D!ExtractAndCompress, D!DeferredAt
<1> DEFINE q == [pass[i] EXCEPT !.pc = pc, !.spent = spent]
<1>4. /\ q \in PassRec /\ q.pc = pc /\ q.todo = pass[i].todo /\ q.new = pass[i].new
      /\ q.sess = pass[i].sess /\ q.upto = pass[i].upto /\ q.done = pass[i].done
  BY <1>1 DEF PassRec, PassPC, D!Working
<1>5. pass' = [pass EXCEPT ![i] = q]
  BY <1>3
<1> HIDE DEF q
<1>6. pass'[i] = q
  BY <1>1, <1>5
<1>7. PassKnows(i)
  BY DEF MemoryInv
<1>8. TodoKnown(i)'
  BY <1>2, <1>4, <1>6, <1>7 DEF PassKnows, TodoKnown, D!Working
<1>9. BatchKnown(i)'
  BY <1>2, <1>4, <1>6, <1>7 DEF PassKnows, BatchKnown, Batch
<1>10. PassKnows(i)'
  BY <1>4, <1>6, <1>8, <1>9 DEF PassKnows, AnswerWhole, MergeSafe
<1>11. QED
  BY <1>2, <1>4, <1>5, <1>10, ThinkStep

\* The store as functions: what every memory is, and which are live.
LEMMA MemoryTypes ==
  ASSUME DreamTypes
  PROVE  /\ DOMAIN mems = 1..Len(mems) /\ Len(mems) \in Nat
         /\ \A k \in DOMAIN mems :
              /\ mems[k] \in Memory /\ mems[k].content \in Texts
              /\ mems[k].state \in {"live", "deprecated", "deleted"} /\ k \in Nat /\ k > 0
         /\ D!Live = {k \in DOMAIN mems : mems[k].state = "live"}
<1>1. mems \in Seq(Memory)
  BY DEF DreamTypes
<1>2. DOMAIN mems = 1..Len(mems) /\ Len(mems) \in Nat /\ \A k \in DOMAIN mems : mems[k] \in Memory
  BY <1>1
<1>3. \A k \in DOMAIN mems : mems[k].content \in Texts
                           /\ mems[k].state \in {"live", "deprecated", "deleted"}
  BY <1>2 DEF Memory
<1>4. D!Live = {k \in DOMAIN mems : mems[k].state = "live"}
  BY DEF D!Live, D!LiveOf, D!ListByScope
<1>5. QED
  BY <1>2, <1>3, <1>4

\* The three answers: add the batch, fold it into a live memory, or merge two.
LEMMA AnswerKinds ==
  ASSUME DreamTypes, NEW new \in SUBSET D!Facts, NEW a \in D!Answers(D!Live, new)
  PROVE  /\ a \in Answer
         /\ \/ a.upd = 0 /\ a.into = {} /\ a.add = new /\ a.rem = 0
            \/ \E k \in D!Live : /\ a.upd = k /\ a.into = mems[k].content \cup new
                                 /\ a.add = {} /\ a.rem = 0
            \/ \E k, l \in D!Live : /\ l # k /\ a.upd = k /\ a.add = new /\ a.rem = l
                                    /\ a.into = mems[k].content \cup mems[l].content
<1>1. \A k \in D!Live : k \in Nat /\ mems[k].content \in Texts
  BY MemoryTypes
<1>2. D!NoAnswer \in Answer
  BY DEF D!NoAnswer, Answer, Texts
<1>3. CASE a = [D!NoAnswer EXCEPT !.add = new]
  <2>1. a = [upd |-> 0, into |-> {}, add |-> new, rem |-> 0]
    BY <1>3 DEF D!NoAnswer
  <2>2. QED
    BY <2>1 DEF Answer, Texts
<1>4. CASE \E k \in D!Live : a = [D!NoAnswer EXCEPT !.upd = k, !.into = mems[k].content \cup new]
  <2>1. PICK k \in D!Live : a = [D!NoAnswer EXCEPT !.upd = k, !.into = mems[k].content \cup new]
    BY <1>4
  <2>2. a = [upd |-> k, into |-> mems[k].content \cup new, add |-> {}, rem |-> 0]
    BY <2>1 DEF D!NoAnswer
  <2>3. mems[k].content \cup new \in Texts /\ k \in Nat
    BY <1>1 DEF Texts
  <2>4. QED
    BY <2>2, <2>3 DEF Answer
<1>5. CASE \E k \in D!Live : \E l \in D!Live \ {k} :
             a = [upd |-> k, into |-> mems[k].content \cup mems[l].content, add |-> new, rem |-> l]
  <2>1. PICK k \in D!Live, l \in D!Live :
          /\ l # k
          /\ a = [upd |-> k, into |-> mems[k].content \cup mems[l].content, add |-> new,
                  rem |-> l]
    BY <1>5
  <2>2. mems[k].content \cup mems[l].content \in Texts /\ k \in Nat /\ l \in Nat
    BY <1>1 DEF Texts
  <2>3. QED
    BY <2>1, <2>2 DEF Answer
<1>6. QED
  BY <1>3, <1>4, <1>5 DEF D!Answers

\* Two initial segments beyond the watermark: one holds the other.
LEMMA SegmentsNest ==
  ASSUME dreamed \in [Sess -> 0..MaxMsgs], NEW a, NEW b, Segment(a), Segment(b), NEW s \in Sess,
         a \cup b \subseteq {s} \X ((dreamed[s] + 1)..MaxMsgs)
  PROVE  a \subseteq b \/ b \subseteq a
<1>1. SUFFICES ASSUME NEW x \in a, x \notin b, NEW y \in b, y \notin a
               PROVE  FALSE
  OBVIOUS
<1>2. dreamed[s] \in Nat /\ MaxMsgs \in Nat
  BY DreamAssumption
<1>3. PICK m \in (dreamed[s] + 1)..MaxMsgs : x = <<s, m>>
  OBVIOUS
<1>4. PICK n \in (dreamed[s] + 1)..MaxMsgs : y = <<s, n>>
  OBVIOUS
<1>5. m \in 1..MaxMsgs /\ n \in 1..MaxMsgs
  BY <1>2, <1>3, <1>4
<1>6. CASE m <= n
  <2>1. m \in (dreamed[s] + 1)..n
    BY <1>2, <1>6
  <2>2. QED
    BY <1>1, <1>3, <1>4, <1>5, <2>1 DEF Segment
<1>7. CASE n <= m
  <2>1. n \in (dreamed[s] + 1)..m
    BY <1>2, <1>7
  <2>2. QED
    BY <1>1, <1>3, <1>4, <1>5, <2>1 DEF Segment
<1>8. QED
  BY <1>2, <1>6, <1>7

\* The batch and the unions of segments are segments.
LEMMA BatchSegment ==
  ASSUME dreamed \in [Sess -> 0..MaxMsgs], NEW s \in Sess, NEW n \in 0..MaxMsgs
  PROVE  Segment({s} \X ((dreamed[s] + 1)..n))
<1>1. SUFFICES ASSUME NEW t \in Sess, NEW m \in 1..MaxMsgs,
                      <<t, m>> \in {s} \X ((dreamed[s] + 1)..n), NEW l \in (dreamed[t] + 1)..m
               PROVE  <<t, l>> \in {s} \X ((dreamed[s] + 1)..n)
  BY DEF Segment
<1>2. t = s /\ m \in (dreamed[s] + 1)..n /\ dreamed[s] \in Nat
  BY <1>1, DreamAssumption
<1>3. l \in (dreamed[s] + 1)..n
  BY <1>1, <1>2, DreamAssumption
<1>4. QED
  BY <1>2, <1>3

\* What two memories hold without gaps, their merge holds without gaps.
LEMMA SegmentUnion ==
  ASSUME NEW a, NEW b, Segment(a), Segment(b)
  PROVE  Segment(a \cup b)
BY DEF Segment

\* The question to the model and its answer.
LEMMA ConsolidateStep ==
  ASSUME MemoryInv, NEW i \in Servers, D!Consolidate(i)
  PROVE  MemoryInv'
<1> DEFINE new == pass[i].new
           live == {mems[k].content : k \in D!Live}
<1>1. pass[i] \in PassRec /\ pass \in [Servers -> PassRec] /\ DreamTypes /\ Stored
  BY DEF MemoryInv, DreamTypes
<1>2. /\ pass[i].pc = "consolidate" /\ "consolidate" \in D!Working
      /\ UNCHANGED <<head, dreamed, dlock, single, mems, known, lost, doubled>>
  BY DEF D!Consolidate, D!StoreSame, D!Working
<1>3. PICK a \in D!Answers(D!Live, new), sp \in BOOLEAN :
        pass' = [pass EXCEPT ![i].pc = D!EditOrder["first"], ![i].live = live,
                             ![i].ans = a, ![i].spent = @ \/ sp]
  BY DEF D!Consolidate
<1> DEFINE q == [pass[i] EXCEPT !.pc = "update", !.live = live, !.ans = a,
                                !.spent = pass[i].spent \/ sp]
<1>4. pass' = [pass EXCEPT ![i] = q]
  BY <1>1, <1>3 DEF D!EditOrder
<1>5. new \subseteq D!Facts
  BY <1>1 DEF PassRec
<1>6. /\ a \in Answer
      /\ \/ a.upd = 0 /\ a.into = {} /\ a.add = new /\ a.rem = 0
         \/ \E k \in D!Live : /\ a.upd = k /\ a.into = mems[k].content \cup new
                              /\ a.add = {} /\ a.rem = 0
         \/ \E k, l \in D!Live : /\ l # k /\ a.upd = k /\ a.add = new /\ a.rem = l
                                 /\ a.into = mems[k].content \cup mems[l].content
  BY <1>1, <1>5, AnswerKinds
<1>7. /\ \A k \in D!Live : /\ k \in DOMAIN mems /\ mems[k].state = "live" /\ k > 0
                           /\ mems[k].content \in Texts
      /\ D!Live = {k \in DOMAIN mems : mems[k].state = "live"}
  BY <1>1, MemoryTypes
<1>8. live \subseteq Texts
  BY <1>7
<1>9. /\ \A k \in D!Live : mems[k].content \in live
      /\ \A c \in live : \E k \in D!Live : c = mems[k].content
  OBVIOUS
<1> HIDE DEF live
<1>10. /\ q \in PassRec /\ q.pc = "update" /\ q.todo = pass[i].todo /\ q.new = new
       /\ q.sess = pass[i].sess /\ q.upto = pass[i].upto /\ q.done = pass[i].done
       /\ q.live = live /\ q.ans = a
  BY <1>1, <1>6, <1>8 DEF PassRec, PassPC, D!Working
<1> HIDE DEF q
<1>11. pass'[i] = q
  BY <1>1, <1>4
<1>12. PassKnows(i)
  BY DEF MemoryInv
<1>13. TodoKnown(i)'
  BY <1>2, <1>10, <1>11, <1>12 DEF PassKnows, TodoKnown
<1>14. BatchKnown(i)' /\ new = IF pass[i].done = 1 THEN Batch(i) ELSE {}
  BY <1>2, <1>10, <1>11, <1>12 DEF PassKnows, BatchKnown, Batch
<1>15. \A k \in D!Live : Segment(mems[k].content) /\ mems[k].content \cap D!Facts \subseteq known
  BY <1>1, <1>7 DEF Stored
<1>16. Segment(new) /\ (new # {} => new = Batch(i))
  <2>1. Segment({})
    BY DEF Segment
  <2>2. Segment(Batch(i))
    <3>1. dreamed \in [Sess -> 0..MaxMsgs] /\ pass[i].sess \in Sess /\ pass[i].upto \in 0..MaxMsgs
      BY <1>1 DEF DreamTypes, PassRec
    <3>2. QED
      BY <3>1, BatchSegment DEF Batch
  <2>3. QED
    BY <1>14, <2>1, <2>2
<1>17. Segment(a.into)
  <2>1. \A k \in D!Live : Segment(mems[k].content \cup new)
    BY <1>15, <1>16, SegmentUnion
  <2>2. \A k, l \in D!Live : Segment(mems[k].content \cup mems[l].content)
    BY <1>15, SegmentUnion
  <2>3. Segment({})
    BY DEF Segment
  <2>4. QED
    BY <1>6, <2>1, <2>2, <2>3
<1>18. a.add # {} /\ a.into = a.add => a.add \in live
  <2>1. SUFFICES ASSUME NEW k \in D!Live, NEW l \in D!Live, new # {}, a.add = new,
                        mems[k].content \cup mems[l].content = new
                 PROVE  new \in live
    BY <1>6
  <2>2. /\ dreamed \in [Sess -> 0..MaxMsgs] /\ pass[i].sess \in Sess /\ pass[i].upto \in 0..MaxMsgs
        /\ Segment(mems[k].content) /\ Segment(mems[l].content)
    BY <1>1, <1>15 DEF DreamTypes, PassRec
  <2>3. mems[k].content \cup mems[l].content
          \subseteq {pass[i].sess} \X ((dreamed[pass[i].sess] + 1)..MaxMsgs)
    <3>1. ((dreamed[pass[i].sess] + 1)..pass[i].upto) \subseteq ((dreamed[pass[i].sess] + 1)..MaxMsgs)
      BY <2>2, DreamAssumption
    <3>2. QED
      BY <1>16, <2>1, <3>1 DEF Batch
  <2>4. mems[k].content \subseteq mems[l].content \/ mems[l].content \subseteq mems[k].content
    BY <2>2, <2>3, SegmentsNest
  <2>5. new = mems[k].content \/ new = mems[l].content
    BY <2>1, <2>4
  <2>6. QED
    BY <1>9, <2>5
<1>19. AnswerWhole(i)'
  <2>1. new \subseteq a.into \cup a.add /\ a.add \in {{}, new} /\ (a.upd = 0 => a.into = {})
    BY <1>6, <1>7
  <2>2. \A c \in live : c \cap D!Facts \subseteq known
    BY <1>9, <1>15
  <2>3. Segment(a.into)' /\ D!Live' = D!Live /\ UNCHANGED <<mems, known>>
    BY <1>2, <1>17 DEF Segment, D!Live, D!LiveOf, D!ListByScope
  <2>4. \A k \in D!Live : mems[k].content \in live \cup {{D!Said}, a.into}
    BY <1>9
  <2>5. QED
    BY <1>10, <1>11, <1>18, <2>1, <2>2, <2>3, <2>4 DEF AnswerWhole
<1>20. MergeSafe(i)'
  <2>1. /\ a.upd = 0 => a.rem = 0
        /\ a.upd # 0 => /\ a.upd \in DOMAIN mems /\ mems[a.upd].state # "deprecated"
                        /\ mems[a.upd].content \subseteq a.into
        /\ a.rem # 0 => /\ a.rem \in DOMAIN mems /\ a.rem # a.upd
                        /\ mems[a.rem].content \subseteq a.into
    BY <1>6, <1>7
  <2>2. QED
    BY <1>2, <1>10, <1>11, <2>1 DEF MergeSafe
<1>21. PassKnows(i)'
  BY <1>13, <1>14, <1>19, <1>20 DEF PassKnows
<1>22. QED
  BY <1>2, <1>4, <1>10, <1>21, ThinkStep

\* The four statements on the table of memories.
LEMMA UpdateMem ==
  ASSUME DreamTypes, NEW k \in DOMAIN mems, NEW c \in Texts, mems' = [mems EXCEPT ![k].content = c]
  PROVE  /\ mems' \in Seq(Memory) /\ Len(mems') = Len(mems) /\ DOMAIN mems' = DOMAIN mems
         /\ \A l \in DOMAIN mems :
              /\ mems'[l].state = mems[l].state
              /\ mems'[l].content = IF l = k THEN c ELSE mems[l].content
<1>1. /\ DOMAIN mems = 1..Len(mems) /\ Len(mems) \in Nat /\ mems \in Seq(Memory)
      /\ mems[k] \in Memory
  BY MemoryTypes DEF DreamTypes
<1>2. PICK m \in Memory : m = [mems[k] EXCEPT !.content = c]
  <2>1. [mems[k] EXCEPT !.content = c] \in Memory
    BY <1>1 DEF Memory
  <2>2. QED
    BY <2>1
<1>3. m.content = c /\ m.state = mems[k].state
  BY <1>1, <1>2 DEF Memory
<1>4. mems' = [mems EXCEPT ![k] = m]
  BY <1>2
<1>5. mems' \in Seq(Memory) /\ Len(mems') = Len(mems) /\ DOMAIN mems' = DOMAIN mems
  BY <1>1, <1>4
<1>6. \A l \in DOMAIN mems : mems'[l] = IF l = k THEN m ELSE mems[l]
  BY <1>1, <1>4
<1>7. QED
  BY <1>3, <1>5, <1>6

\* A stored memory is a new last row, and live.
LEMMA StoreMem ==
  ASSUME DreamTypes, NEW c \in Texts, mems' = Append(mems, [content |-> c, state |-> "live"])
  PROVE  /\ mems' \in Seq(Memory) /\ Len(mems') = Len(mems) + 1
         /\ DOMAIN mems' = DOMAIN mems \cup {Len(mems) + 1} /\ Len(mems) + 1 \notin DOMAIN mems
         /\ \A l \in DOMAIN mems : mems'[l] = mems[l]
         /\ mems'[Len(mems) + 1].content = c /\ mems'[Len(mems) + 1].state = "live"
<1>1. DOMAIN mems = 1..Len(mems) /\ Len(mems) \in Nat /\ mems \in Seq(Memory)
  BY MemoryTypes DEF DreamTypes
<1>2. PICK m \in Memory : m = [content |-> c, state |-> "live"]
  BY DEF Memory
<1>3. mems' = Append(mems, m) /\ m.content = c /\ m.state = "live"
  BY <1>2
<1>4. mems' \in Seq(Memory) /\ Len(mems') = Len(mems) + 1
  BY <1>1, <1>3
<1>5. DOMAIN mems' = 1..(Len(mems) + 1)
  BY <1>4
<1>6. DOMAIN mems' = DOMAIN mems \cup {Len(mems) + 1} /\ Len(mems) + 1 \notin DOMAIN mems
  BY <1>1, <1>5
<1>7. /\ \A l \in DOMAIN mems : mems'[l] = mems[l]
      /\ mems'[Len(mems) + 1] = m
  BY <1>1, <1>3
<1>8. QED
  BY <1>3, <1>4, <1>6, <1>7

\* Deprecating keeps every content, and touches live rows only.
LEMMA DeprecateMem ==
  ASSUME DreamTypes, NEW ks, D!Deprecate(ks)
  PROVE  /\ mems' \in Seq(Memory) /\ Len(mems') = Len(mems) /\ DOMAIN mems' = DOMAIN mems
         /\ \A l \in DOMAIN mems :
              /\ mems'[l].content = mems[l].content
              /\ mems'[l].state = IF l \in ks /\ mems[l].state = "live" THEN "deprecated"
                                  ELSE mems[l].state
<1>1. /\ DOMAIN mems = 1..Len(mems) /\ Len(mems) \in Nat
      /\ \A l \in DOMAIN mems : mems[l] \in Memory
  BY MemoryTypes
<1>2. mems' = [l \in 1..Len(mems) |-> IF l \in ks /\ mems[l].state = "live"
                                 THEN [mems[l] EXCEPT !.state = "deprecated"] ELSE mems[l]]
  BY <1>1 DEF D!Deprecate
<1>3. \A l \in DOMAIN mems :
        /\ [mems[l] EXCEPT !.state = "deprecated"] \in Memory
        /\ [mems[l] EXCEPT !.state = "deprecated"].content = mems[l].content
        /\ [mems[l] EXCEPT !.state = "deprecated"].state = "deprecated"
  BY <1>1 DEF Memory
<1>4. \A l \in 1..Len(mems) :
        /\ mems'[l] \in Memory
        /\ mems'[l].content = mems[l].content
        /\ mems'[l].state = IF l \in ks /\ mems[l].state = "live" THEN "deprecated"
                            ELSE mems[l].state
  BY <1>1, <1>2, <1>3
<1>5. mems' \in [1..Len(mems) -> Memory]
  BY <1>2, <1>4
<1>6. mems' \in Seq(Memory) /\ Len(mems') = Len(mems) /\ DOMAIN mems' = 1..Len(mems)
  BY <1>1, <1>5, SeqDef
<1>7. QED
  BY <1>1, <1>4, <1>6

\* Erasing empties the rows it names and leaves the others alone.
LEMMA EraseMem ==
  ASSUME DreamTypes, NEW ks, D!Erase(ks)
  PROVE  /\ mems' \in Seq(Memory) /\ Len(mems') = Len(mems) /\ DOMAIN mems' = DOMAIN mems
         /\ \A l \in DOMAIN mems : l \notin ks => mems'[l] = mems[l]
         /\ \A l \in DOMAIN mems \cap ks : mems'[l].content = {} /\ mems'[l].state = "deleted"
<1>1. /\ DOMAIN mems = 1..Len(mems) /\ Len(mems) \in Nat
      /\ \A l \in DOMAIN mems : mems[l] \in Memory
  BY MemoryTypes
<1>2. PICK m \in Memory : m = [content |-> {}, state |-> "deleted"]
  BY DEF Memory, Texts
<1>3. mems' = [l \in 1..Len(mems) |-> IF l \in ks THEN m ELSE mems[l]]
  BY <1>1, <1>2 DEF D!Erase
<1>4. mems' \in [1..Len(mems) -> Memory]
  BY <1>1, <1>3
<1>5. mems' \in Seq(Memory) /\ Len(mems') = Len(mems) /\ DOMAIN mems' = 1..Len(mems)
  BY <1>1, <1>4, SeqDef
<1>6. m.content = {} /\ m.state = "deleted"
  BY <1>2
<1>7. QED
  BY <1>1, <1>3, <1>5, <1>6

\* A step of the working pass: nobody else knows anything of the store.
LEMMA StoreStep ==
  ASSUME MemoryInv, NEW i \in Servers, NEW q \in PassRec, pass' = [pass EXCEPT ![i] = q],
         pass[i].pc \in D!Working, q.pc \in D!Working \cup {"release"},
         UNCHANGED <<head, dlock, single>>,
         dreamed' \in [Sess -> 0..MaxMsgs], mems' \in Seq(Memory), Len(mems') <= MaxMems,
         known' \subseteq D!Facts, Stored',
         D!WatermarkMeansLearned', D!LearnedStaysKnown', D!AddsOnce',
         PassKnows(i)'
  PROVE  MemoryInv'
<1>1. pass \in [Servers -> PassRec] /\ pass' \in [Servers -> PassRec] /\ pass'[i] = q
      /\ \A j \in Servers : j # i => pass'[j] = pass[j]
  BY DEF MemoryInv, DreamTypes
<1>2. pass[i].pc \notin {"idle", "claim", "unlock"}
  BY DEF D!Working
<1>3. dlock = i /\ \A j \in Servers : j # i => pass'[j].pc \in {"idle", "claim", "unlock"}
  BY <1>1, <1>2, WorkerAlone DEF MemoryInv, DreamTypes
<1>4. DreamTypes'
  BY <1>1, <1>3 DEF MemoryInv, DreamTypes
<1>5. \A j \in Servers : j # i => PassKnows(j)'
  <2>1. TAKE j \in Servers
  <2>2. HAVE j # i
  <2>3. pass'[j].pc \in {"idle", "claim", "unlock"}
    BY <1>3, <2>2
  <2>4. QED
    BY <2>3 DEF PassKnows, TodoKnown, BatchKnown, AnswerWhole, MergeSafe, D!Working
<1>6. QED
  BY <1>4, <1>5 DEF MemoryInv

\* The facts of the store, memory by memory.
LEMMA KeptMeans ==
  D!LearnedStaysKnown <=>
    \A x \in known : x \in lost \/ \E k \in DOMAIN mems : mems[k].state = "live" /\ x \in mems[k].content
BY DEF D!LearnedStaysKnown, D!LiveFacts, D!Live, D!LiveOf, D!ListByScope

\* The answer's update, the survivor of a merge among them.
LEMMA ApplyUpdateStep ==
  ASSUME MemoryInv, NEW i \in Servers, D!ApplyUpdate(i)
  PROVE  MemoryInv'
<1>0. PICK a : a = pass[i].ans
  OBVIOUS
<1>1. /\ pass[i] \in PassRec /\ pass \in [Servers -> PassRec] /\ DreamTypes /\ Stored
      /\ PassKnows(i) /\ a \in Answer /\ dreamed \in [Sess -> 0..MaxMsgs]
  BY <1>0 DEF MemoryInv, DreamTypes, PassRec
<1>2. /\ pass[i].pc = "update" /\ "update" \in D!Working
      /\ UNCHANGED <<head, dreamed, dlock, single, lost, doubled>>
  BY DEF D!ApplyUpdate, D!Working
<1>3. /\ a.upd = 0 => a.rem = 0
      /\ a.upd # 0 => a.upd \in DOMAIN mems /\ mems[a.upd].state # "deprecated"
      /\ a.rem # 0 => /\ a.rem \in DOMAIN mems /\ a.rem # a.upd
                      /\ mems[a.rem].content \cap D!Facts \subseteq a.into
      /\ a.upd # 0 => mems[a.upd].content \cap D!Facts \subseteq a.into
  BY <1>0, <1>1, <1>2 DEF PassKnows, MergeSafe
<1>4. /\ pass[i].new \subseteq a.into \cup a.add
      /\ a.add \in {{}, pass[i].new} /\ Segment(a.into)
      /\ \A c \in pass[i].live : c \cap D!Facts \subseteq known
      /\ a.add # {} /\ a.into = a.add => a.add \in pass[i].live
      /\ \A k \in D!Live : mems[k].content \in pass[i].live \cup {{D!Said}, a.into}
      /\ a.upd = 0 => a.into = {}
  BY <1>0, <1>1, <1>2 DEF PassKnows, AnswerWhole
<1> DEFINE q == [pass[i] EXCEPT !.pc = "add"]
<1>5. /\ q \in PassRec /\ q.pc = "add" /\ q.todo = pass[i].todo /\ q.new = pass[i].new
      /\ q.sess = pass[i].sess /\ q.upto = pass[i].upto /\ q.done = pass[i].done
      /\ q.live = pass[i].live /\ q.ans = a
  BY <1>0, <1>1 DEF PassRec, PassPC, D!Working
<1> HIDE DEF q
<1>6. ASSUME pass' = [pass EXCEPT ![i] = q]
      PROVE  pass'[i] = q /\ TodoKnown(i)' /\ BatchKnown(i)'
  <2>1. pass'[i] = q
    BY <1>1, <1>6
  <2>2. TodoKnown(i)'
    BY <1>1, <1>2, <1>5, <2>1 DEF PassKnows, TodoKnown, D!Working
  <2>3. BatchKnown(i)'
    BY <1>1, <1>2, <1>5, <2>1 DEF PassKnows, BatchKnown, Batch
  <2>4. QED
    BY <2>1, <2>2, <2>3
<1>7. CASE a.upd = 0 /\ UNCHANGED <<mems, known>> /\ pass' = [pass EXCEPT ![i].pc = "add"]
  <2>1. pass' = [pass EXCEPT ![i] = q]
    BY <1>7 DEF q
  <2>2. AnswerWhole(i)'
    <3>1. Segment(a.into)' /\ D!Live' = D!Live
      BY <1>2, <1>4, <1>7 DEF Segment, D!Live, D!LiveOf, D!ListByScope
    <3>2. QED
      BY <1>4, <1>5, <1>6, <1>7, <2>1, <3>1 DEF AnswerWhole
  <2>3. MergeSafe(i)'
    BY <1>3, <1>5, <1>6, <1>7, <2>1 DEF MergeSafe
  <2>4. PassKnows(i)'
    BY <1>6, <2>1, <2>2, <2>3 DEF PassKnows
  <2>5. QED
    BY <1>2, <1>5, <1>7, <2>1, <2>4, ThinkStep
<1>8. CASE /\ a.upd # 0 /\ mems[a.upd].state # "deleted" /\ D!Update(a.upd, a.into)
           /\ pass' = [pass EXCEPT ![i].pc = "add"]
  <2>1. pass' = [pass EXCEPT ![i] = q]
    BY <1>8 DEF q
  <2>2. /\ a.upd \in DOMAIN mems /\ mems[a.upd].state = "live" /\ a.into \in Texts
        /\ mems' = [mems EXCEPT ![a.upd].content = a.into]
        /\ known' = known \cup (a.into \cap D!Facts)
    <3>1. a.into \in Texts
      BY <1>1 DEF Answer
    <3>2. a.upd \in DOMAIN mems /\ mems[a.upd].state = "live"
      BY <1>1, <1>3, <1>8, MemoryTypes
    <3>3. QED
      BY <1>8, <3>1, <3>2 DEF D!Update
  <2>3. /\ mems' \in Seq(Memory) /\ Len(mems') = Len(mems) /\ DOMAIN mems' = DOMAIN mems
        /\ \A l \in DOMAIN mems :
              /\ mems'[l].state = mems[l].state
              /\ mems'[l].content = IF l = a.upd THEN a.into ELSE mems[l].content
    BY <1>1, <2>2, UpdateMem
  <2>4. Stored'
    <3>1. \A c : Segment(c)' <=> Segment(c)
      BY <1>2 DEF Segment
    <3>2. QED
      BY <1>1, <1>4, <2>2, <2>3, <3>1 DEF Stored
  <2>5. D!LearnedStaysKnown'
    <3>1. \A x \in known' : x \in lost \/ \E k \in DOMAIN mems : mems[k].state = "live" /\ x \in mems'[k].content
      <4>1. TAKE x \in known'
      <4>2. CASE x \in a.into
        BY <2>2, <2>3, <4>2
      <4>3. CASE x \in known /\ x \notin a.into
        <5>1. x \in D!Facts
          BY <1>1, <4>3 DEF DreamTypes
        <5>2. x \in lost \/ \E k \in DOMAIN mems : mems[k].state = "live" /\ x \in mems[k].content
          BY <4>3, KeptMeans DEF MemoryInv
        <5>3. QED
          BY <1>3, <2>2, <2>3, <4>3, <5>1, <5>2
      <4>4. QED
        BY <2>2, <4>2, <4>3
    <3>2. QED
      BY <1>2, <2>3, <3>1
         DEF D!LearnedStaysKnown, D!LiveFacts, D!Live, D!LiveOf, D!ListByScope
  <2>6. AnswerWhole(i)'
    <3>1. Segment(a.into)'
      BY <1>2, <1>4 DEF Segment
    <3>2. \A c \in pass[i].live : c \cap D!Facts \subseteq known'
      BY <1>4, <2>2
    <3>3. \A k \in D!Live' : mems'[k].content \in pass[i].live \cup {{D!Said}, a.into}
      <4>1. \A k \in DOMAIN mems : mems[k].state = "live" =>
              mems[k].content \in pass[i].live \cup {{D!Said}, a.into}
        BY <1>4 DEF D!Live, D!LiveOf, D!ListByScope
      <4>2. \A k \in D!Live' : k \in DOMAIN mems /\ mems[k].state = "live"
        BY <2>3 DEF D!Live, D!LiveOf, D!ListByScope
      <4>3. QED
        BY <2>3, <4>1, <4>2
    <3>4. QED
      BY <1>4, <1>5, <1>6, <2>1, <3>1, <3>2, <3>3 DEF AnswerWhole
  <2>7. MergeSafe(i)'
    <3>1. Covered(a)'
      BY <2>2, <2>3 DEF Covered
    <3>2. QED
      BY <1>3, <1>5, <1>6, <1>8, <2>1, <2>2, <2>3, <3>1 DEF MergeSafe
  <2>8. PassKnows(i)'
    BY <1>6, <2>1, <2>6, <2>7 DEF PassKnows
  <2>9. D!WatermarkMeansLearned' /\ D!AddsOnce' /\ known' \subseteq D!Facts
    BY <1>1, <1>2, <2>2 DEF MemoryInv, D!WatermarkMeansLearned, D!AddsOnce, DreamTypes
  <2>10. "add" \in D!Working /\ dreamed' \in [Sess -> 0..MaxMsgs] /\ Len(mems') <= MaxMems
    BY <1>1, <1>2, <2>3 DEF D!Working, DreamTypes
  <2>11. QED
    BY <1>2, <1>5, <2>1, <2>3, <2>4, <2>5, <2>8, <2>9, <2>10, StoreStep
<1>9. CASE UNCHANGED <<mems, known>> /\ pass' = [pass EXCEPT ![i] = D!Ending]
  <2>1. dlock = i /\ dlock \in Servers \cup {D!NoServer} /\ single \subseteq Servers
    BY <1>1, <1>2 DEF DreamTypes
  <2>2. "release" \notin D!Working
    BY DEF D!Working
  <2>3. QED
    BY <1>2, <1>9, <2>1, <2>2, IdleTypes, RestStep
<1>10. QED
  BY <1>0, <1>7, <1>8, <1>9 DEF D!ApplyUpdate, D!EditOrder

\* The answer's addition, unless it is there.
LEMMA ApplyAddStep ==
  ASSUME MemoryInv, NEW i \in Servers, D!ApplyAdd(i)
  PROVE  MemoryInv'
<1>0. PICK a : a = pass[i].ans
  OBVIOUS
<1>1. /\ pass[i] \in PassRec /\ pass \in [Servers -> PassRec] /\ DreamTypes /\ Stored
      /\ PassKnows(i) /\ a \in Answer /\ dreamed \in [Sess -> 0..MaxMsgs] /\ known \subseteq D!Facts
      /\ pass[i].new \subseteq D!Facts /\ a.into \in Texts /\ a.add \subseteq D!Facts
  BY <1>0 DEF MemoryInv, DreamTypes, PassRec, Answer
<1>2. /\ pass[i].pc = "add" /\ "add" \in D!Working /\ "remove" \in D!Working
      /\ UNCHANGED <<head, dreamed, dlock, single, lost>>
      /\ pass' = [pass EXCEPT ![i].pc = "remove"]
  BY DEF D!ApplyAdd, D!Working, D!EditOrder
<1>3. /\ a.upd = 0 => a.rem = 0
      /\ a.upd # 0 => a.upd \in DOMAIN mems /\ mems[a.upd].state # "deprecated"
      /\ a.rem # 0 => /\ a.rem \in DOMAIN mems /\ a.rem # a.upd
                      /\ mems[a.rem].content \cap D!Facts \subseteq a.into
      /\ a.upd # 0 => a.into \cap D!Facts \subseteq known /\ Covered(a)
  BY <1>0, <1>1, <1>2 DEF PassKnows, MergeSafe
<1>4. /\ pass[i].new \subseteq a.into \cup a.add
      /\ a.add \in {{}, pass[i].new}
      /\ \A c \in pass[i].live : c \cap D!Facts \subseteq known
      /\ a.add # {} /\ a.into = a.add => a.add \in pass[i].live
      /\ \A k \in D!Live : mems[k].content \in pass[i].live \cup {{D!Said}, a.into}
      /\ a.upd = 0 => a.into = {}
  BY <1>0, <1>1, <1>2 DEF PassKnows, AnswerWhole
<1> DEFINE q == [pass[i] EXCEPT !.pc = "remove"]
<1>5. /\ q \in PassRec /\ q.pc = "remove" /\ q.todo = pass[i].todo /\ q.new = pass[i].new
      /\ q.sess = pass[i].sess /\ q.upto = pass[i].upto /\ q.done = pass[i].done
      /\ q.ans = a /\ pass' = [pass EXCEPT ![i] = q]
  BY <1>0, <1>1, <1>2 DEF PassRec, PassPC, D!Working
<1> HIDE DEF q
<1>6. pass'[i] = q
  BY <1>1, <1>5
<1>7. TodoKnown(i)'
  BY <1>1, <1>2, <1>5, <1>6 DEF PassKnows, TodoKnown
<1>8. ASSUME known \subseteq known', a.add \subseteq known' PROVE BatchKnown(i)'
  <2>1. pass[i].new \subseteq known'
    BY <1>1, <1>3, <1>4, <1>8
  <2>2. pass[i].new = IF pass[i].done = 1 THEN Batch(i) ELSE {}
    BY <1>1, <1>2 DEF PassKnows, BatchKnown
  <2>3. Batch(i)' = Batch(i)
    BY <1>2, <1>5, <1>6 DEF Batch
  <2>4. QED
    BY <1>5, <1>6, <2>1, <2>2, <2>3 DEF BatchKnown
<1>9. AnswerWhole(i)'
  BY <1>5, <1>6 DEF AnswerWhole
<1>10. CASE /\ a.add = {} \/ a.add \in pass[i].live
            /\ UNCHANGED <<mems, known, doubled>>
  <2>1. a.add \subseteq known
    BY <1>1, <1>4, <1>10
  <2>2. MergeSafe(i)'
    <3>1. Covered(a)' <=> Covered(a)
      BY <1>2, <1>10 DEF Covered
    <3>2. QED
      BY <1>3, <1>5, <1>6, <1>10, <3>1 DEF MergeSafe
  <2>3. PassKnows(i)'
    BY <1>7, <1>8, <1>9, <1>10, <2>1, <2>2 DEF PassKnows
  <2>4. QED
    BY <1>2, <1>5, <1>10, <2>3, ThinkStep
<1>11. CASE /\ a.add # {} /\ a.add \notin pass[i].live
            /\ Len(mems) < MaxMems
            /\ mems' = Append(mems, [content |-> a.add, state |-> "live"])
            /\ known' = known \cup (a.add \cap D!Facts)
            /\ doubled' = (doubled \/ \E k \in D!Live : mems[k].content = a.add)
  <2>1. a.add \in Texts
    BY <1>1 DEF Texts
  <2>2. PICK n : n = Len(mems) + 1
    OBVIOUS
  <2>3. /\ mems' \in Seq(Memory) /\ Len(mems') = n
        /\ DOMAIN mems' = DOMAIN mems \cup {n} /\ n \notin DOMAIN mems
        /\ \A l \in DOMAIN mems : mems'[l] = mems[l]
        /\ mems'[n].content = a.add /\ mems'[n].state = "live"
    BY <1>1, <1>11, <2>1, <2>2, StoreMem
  <2>4. D!AddsOnce'
    <3>1. \A k \in D!Live : mems[k].content # a.add
      <4>1. a.add # {D!Said}
        BY <1>1, <1>11, SaidIsNoFact
      <4>2. QED
        BY <1>4, <1>11, <4>1
    <3>2. QED
      BY <1>11, <3>1 DEF MemoryInv, D!AddsOnce
  <2>5. known \subseteq known' /\ a.add \subseteq known' /\ known' \subseteq D!Facts
    BY <1>1, <1>11
  <2>6. Stored'
    <3>1. \A c : Segment(c)' <=> Segment(c)
      BY <1>2 DEF Segment
    <3>2. Segment(a.add)
      <4>1. pass[i].new = IF pass[i].done = 1 THEN Batch(i) ELSE {}
        BY <1>1, <1>2 DEF PassKnows, BatchKnown
      <4>2. pass[i].sess \in Sess /\ pass[i].upto \in 0..MaxMsgs
        BY <1>1 DEF PassRec
      <4>3. Segment(Batch(i))
        BY <1>1, <4>2, BatchSegment DEF Batch
      <4>4. QED
        BY <1>4, <1>11, <4>1, <4>3
    <3>3. QED
      BY <1>1, <2>3, <2>5, <3>1, <3>2 DEF Stored
  <2>7. D!LearnedStaysKnown'
    <3>1. \A x \in known' : x \in lost \/ \E k \in DOMAIN mems' : mems'[k].state = "live" /\ x \in mems'[k].content
      <4>1. \A x \in known :
              x \in lost \/ \E k \in DOMAIN mems : mems[k].state = "live" /\ x \in mems[k].content
        BY KeptMeans DEF MemoryInv
      <4>2. QED
        BY <1>11, <2>3, <4>1
    <3>2. QED
      BY <1>2, <3>1 DEF D!LearnedStaysKnown, D!LiveFacts, D!Live, D!LiveOf, D!ListByScope
  <2>8. MergeSafe(i)'
    <3>1. Covered(a)' \/ a.upd = 0
      BY <1>2, <1>3, <2>3 DEF Covered
    <3>2. QED
      BY <1>3, <1>5, <1>6, <2>3, <2>5, <3>1 DEF MergeSafe
  <2>9. PassKnows(i)'
    BY <1>7, <1>8, <1>9, <2>5, <2>8 DEF PassKnows
  <2>10. D!WatermarkMeansLearned'
    BY <1>2, <2>5 DEF MemoryInv, D!WatermarkMeansLearned
  <2>11. Len(mems') <= MaxMems
    BY <1>1, <1>11, <2>2, <2>3, DreamAssumption, MemoryTypes
  <2>12. QED
    BY <1>1, <1>2, <1>5, <2>3, <2>4, <2>5, <2>6, <2>7, <2>9, <2>10, <2>11, StoreStep
<1>12. QED
  BY <1>0, <1>10, <1>11 DEF D!ApplyAdd, D!HasLiveContent, D!Store

\* A statement that deprecates or erases leaves what is stored learned.
LEMMA StoredStays ==
  ASSUME Stored, UNCHANGED <<known, dreamed>>, DOMAIN mems' = DOMAIN mems,
         \A l \in DOMAIN mems : mems'[l].content \in {mems[l].content, {}}
  PROVE  Stored'
<1>1. \A c : Segment(c)' <=> Segment(c)
  BY DEF Segment
<1>2. Segment({})
  BY DEF Segment
<1>3. QED
  BY <1>1, <1>2 DEF Stored

\* The absorbed memory of a merge goes; the survivor states its facts.
LEMMA ApplyRemoveStep ==
  ASSUME MemoryInv, NEW i \in Servers, D!ApplyRemove(i)
  PROVE  MemoryInv'
<1>0. PICK a : a = pass[i].ans
  OBVIOUS
<1>1. /\ pass[i] \in PassRec /\ pass \in [Servers -> PassRec] /\ DreamTypes /\ Stored
      /\ PassKnows(i) /\ dreamed \in [Sess -> 0..MaxMsgs] /\ known \subseteq D!Facts
  BY DEF MemoryInv, DreamTypes
<1>2. /\ pass[i].pc = "remove" /\ "remove" \in D!Working /\ "caps" \in D!Working
      /\ UNCHANGED <<head, dreamed, dlock, single, lost, known, doubled>>
      /\ D!Deprecate({a.rem}) /\ pass' = [pass EXCEPT ![i].pc = "caps"]
  BY <1>0 DEF D!ApplyRemove, D!Working, D!EditOrder
<1>3. /\ a.upd = 0 => a.rem = 0
      /\ a.upd # 0 => a.upd \in DOMAIN mems
      /\ a.rem # 0 => /\ a.rem \in DOMAIN mems /\ a.rem # a.upd
                      /\ mems[a.rem].content \cap D!Facts \subseteq a.into
      /\ a.upd # 0 => a.into \cap D!Facts \subseteq known /\ Covered(a)
  BY <1>0, <1>1, <1>2 DEF PassKnows, MergeSafe
<1> DEFINE q == [pass[i] EXCEPT !.pc = "caps"]
<1>4. /\ q \in PassRec /\ q.pc = "caps" /\ q.todo = pass[i].todo /\ q.new = pass[i].new
      /\ q.sess = pass[i].sess /\ q.upto = pass[i].upto /\ q.done = pass[i].done
      /\ pass' = [pass EXCEPT ![i] = q]
  BY <1>1, <1>2 DEF PassRec, PassPC, D!Working
<1> HIDE DEF q
<1>5. pass'[i] = q
  BY <1>1, <1>4
<1>6. PassKnows(i)'
  <2>1. TodoKnown(i)'
    BY <1>1, <1>2, <1>4, <1>5 DEF PassKnows, TodoKnown
  <2>2. BatchKnown(i)'
    BY <1>1, <1>2, <1>4, <1>5 DEF PassKnows, BatchKnown, Batch
  <2>3. QED
    BY <1>4, <1>5, <2>1, <2>2 DEF PassKnows, AnswerWhole, MergeSafe
<1>7. /\ mems' \in Seq(Memory) /\ Len(mems') = Len(mems) /\ DOMAIN mems' = DOMAIN mems
      /\ \A l \in DOMAIN mems :
           /\ mems'[l].content = mems[l].content
           /\ mems'[l].state = IF l \in {a.rem} /\ mems[l].state = "live" THEN "deprecated"
                               ELSE mems[l].state
  BY <1>1, <1>2, DeprecateMem
<1>8. D!LearnedStaysKnown'
  <2>1. \A x \in known : x \in lost \/ \E k \in DOMAIN mems' : mems'[k].state = "live" /\ x \in mems'[k].content
    <3>1. TAKE x \in known
    <3>2. SUFFICES ASSUME x \notin lost
                   PROVE  \E k \in DOMAIN mems' : mems'[k].state = "live" /\ x \in mems'[k].content
      OBVIOUS
    <3>3. PICK k \in DOMAIN mems : mems[k].state = "live" /\ x \in mems[k].content
      BY <3>2, KeptMeans DEF MemoryInv
    <3>4. CASE k # a.rem
      BY <1>7, <3>3, <3>4
    <3>5. CASE k = a.rem
      <4>1. a.rem # 0 /\ a.upd # 0
        BY <1>1, <1>3, <3>3, <3>5, MemoryTypes
      <4>2. x \in a.into \cap D!Facts
        BY <1>1, <1>3, <3>3, <3>5, <4>1
      <4>3. mems[a.upd].state = "live" /\ x \in mems[a.upd].content
        BY <1>3, <3>2, <4>1, <4>2 DEF Covered
      <4>4. QED
        BY <1>3, <1>7, <4>1, <4>3
    <3>6. QED
      BY <3>4, <3>5
  <2>2. QED
    BY <1>2, <2>1 DEF D!LearnedStaysKnown, D!LiveFacts, D!Live, D!LiveOf, D!ListByScope
<1>9. Stored'
  BY <1>1, <1>2, <1>7, StoredStays
<1>10. D!WatermarkMeansLearned' /\ D!AddsOnce' /\ Len(mems') <= MaxMems
  BY <1>1, <1>2, <1>7 DEF MemoryInv, D!WatermarkMeansLearned, D!AddsOnce, DreamTypes
<1>11. QED
  BY <1>1, <1>2, <1>4, <1>6, <1>7, <1>8, <1>9, <1>10, StoreStep

\* The cap evicts what it evicts.
LEMMA EnforceCapsStep ==
  ASSUME MemoryInv, NEW i \in Servers, D!EnforceCaps(i)
  PROVE  MemoryInv'
<1>1. /\ pass[i] \in PassRec /\ pass \in [Servers -> PassRec] /\ DreamTypes /\ Stored
      /\ PassKnows(i) /\ dreamed \in [Sess -> 0..MaxMsgs] /\ known \subseteq D!Facts
  BY DEF MemoryInv, DreamTypes
<1> DEFINE over == D!OverCap(D!Live)
           pc == IF pass[i].done = 0 THEN "purge" ELSE "mark"
           q == [pass[i] EXCEPT !.pc = pc, !.live = {}, !.ans = D!NoAnswer, !.new = {}]
<1>2. /\ pass[i].pc = "caps" /\ "caps" \in D!Working
      /\ UNCHANGED <<head, dreamed, dlock, single, known, doubled>>
      /\ D!Deprecate(over) /\ lost' = lost \cup UNION {mems[k].content : k \in over}
      /\ pass' = [pass EXCEPT ![i] = q]
  BY <1>1 DEF D!EnforceCaps, D!Working
<1>3. D!NoAnswer \in Answer
  BY DEF D!NoAnswer, Answer, Texts
<1>4. pc \in {"purge", "mark"} /\ (pc = "mark" => pass[i].done = 1)
  BY <1>1 DEF PassRec
<1> HIDE DEF over, pc
<1>5. /\ q \in PassRec /\ q.pc = pc /\ q.todo = pass[i].todo /\ pc \in D!Working
      /\ q.sess = pass[i].sess /\ q.upto = pass[i].upto /\ q.done = pass[i].done
  BY <1>1, <1>3, <1>4 DEF PassRec, PassPC, D!Working
<1> HIDE DEF q
<1>6. pass'[i] = q
  BY <1>1, <1>2
<1>7. PassKnows(i)'
  <2>1. TodoKnown(i)'
    BY <1>1, <1>2, <1>4, <1>5, <1>6 DEF PassKnows, TodoKnown
  <2>2. BatchKnown(i)'
    BY <1>1, <1>2, <1>4, <1>5, <1>6 DEF PassKnows, BatchKnown, Batch
  <2>3. QED
    BY <1>4, <1>5, <1>6, <2>1, <2>2 DEF PassKnows, AnswerWhole, MergeSafe
<1>8. /\ mems' \in Seq(Memory) /\ Len(mems') = Len(mems) /\ DOMAIN mems' = DOMAIN mems
      /\ \A l \in DOMAIN mems :
           /\ mems'[l].content = mems[l].content
           /\ mems'[l].state = IF l \in over /\ mems[l].state = "live" THEN "deprecated"
                               ELSE mems[l].state
  BY <1>1, <1>2, DeprecateMem
<1>9. D!LearnedStaysKnown'
  <2>1. \A x \in known : x \in lost' \/ \E k \in DOMAIN mems' : mems'[k].state = "live" /\ x \in mems'[k].content
    <3>1. TAKE x \in known
    <3>2. SUFFICES ASSUME x \notin lost'
                   PROVE  \E k \in DOMAIN mems' : mems'[k].state = "live" /\ x \in mems'[k].content
      OBVIOUS
    <3>3. PICK k \in DOMAIN mems : mems[k].state = "live" /\ x \in mems[k].content
      BY <1>2, <3>2, KeptMeans DEF MemoryInv
    <3>4. k \notin over
      BY <1>2, <3>2, <3>3
    <3>5. QED
      BY <1>8, <3>3, <3>4
  <2>2. QED
    BY <1>2, <2>1 DEF D!LearnedStaysKnown, D!LiveFacts, D!Live, D!LiveOf, D!ListByScope
<1>10. Stored'
  BY <1>1, <1>2, <1>8, StoredStays
<1>11. D!WatermarkMeansLearned' /\ D!AddsOnce' /\ Len(mems') <= MaxMems
  BY <1>1, <1>2, <1>8 DEF MemoryInv, D!WatermarkMeansLearned, D!AddsOnce, DreamTypes
<1>12. QED
  BY <1>1, <1>2, <1>5, <1>7, <1>8, <1>9, <1>10, <1>11, StoreStep

\* What was deprecated is purged: nothing live.
LEMMA PurgeStep ==
  ASSUME MemoryInv, NEW i \in Servers, D!PurgeDeprecated(i)
  PROVE  MemoryInv'
<1>1. /\ pass \in [Servers -> PassRec] /\ DreamTypes /\ Stored
      /\ dreamed \in [Sess -> 0..MaxMsgs] /\ known \subseteq D!Facts
  BY DEF MemoryInv, DreamTypes
<1>2. /\ pass[i].pc = "purge" /\ "purge" \in D!Working
      /\ UNCHANGED <<head, dreamed, dlock, single, known, lost, doubled>>
      /\ pass' = [pass EXCEPT ![i] = D!Ending]
  BY DEF D!PurgeDeprecated, D!Working
<1>3. PICK ks \in SUBSET {k \in DOMAIN mems : mems[k].state = "deprecated"} : D!Erase(ks)
  BY DEF D!PurgeDeprecated
<1>4. /\ mems' \in Seq(Memory) /\ Len(mems') = Len(mems) /\ DOMAIN mems' = DOMAIN mems
      /\ \A l \in DOMAIN mems : l \notin ks => mems'[l] = mems[l]
      /\ \A l \in DOMAIN mems \cap ks : mems'[l].content = {} /\ mems'[l].state = "deleted"
  BY <1>1, <1>3, EraseMem
<1>5. \A l \in DOMAIN mems : mems[l].state = "live" => mems'[l] = mems[l]
  BY <1>3, <1>4
<1>6. D!LearnedStaysKnown'
  <2>1. \A x \in known : x \in lost \/ \E k \in DOMAIN mems' : mems'[k].state = "live" /\ x \in mems'[k].content
    BY <1>4, <1>5, KeptMeans DEF MemoryInv
  <2>2. QED
    BY <1>2, <2>1 DEF D!LearnedStaysKnown, D!LiveFacts, D!Live, D!LiveOf, D!ListByScope
<1>7. Stored'
  <2>1. \A l \in DOMAIN mems : mems'[l].content \in {mems[l].content, {}}
    BY <1>4
  <2>2. QED
    BY <1>1, <1>2, <1>4, <2>1, StoredStays
<1>8. D!WatermarkMeansLearned' /\ D!AddsOnce' /\ Len(mems') <= MaxMems
  BY <1>1, <1>2, <1>4 DEF MemoryInv, D!WatermarkMeansLearned, D!AddsOnce, DreamTypes
<1>9. pass'[i] = D!Ending /\ D!Ending \in PassRec /\ D!Ending.pc = "release"
  BY <1>1, <1>2, IdleTypes
<1>10. PassKnows(i)'
  BY <1>9 DEF PassKnows, TodoKnown, BatchKnown, AnswerWhole, MergeSafe, D!Working
<1>11. QED
  BY <1>1, <1>2, <1>4, <1>6, <1>7, <1>8, <1>9, <1>10, StoreStep

\* The later of two positions.
LEMMA MaxOfTwo ==
  ASSUME NEW a \in Nat, NEW b \in Nat
  PROVE  D!Max({a, b}) = IF a >= b THEN a ELSE b
BY DEF D!Max

\* The watermark moves over a batch that is learned, and never back.
LEMMA MarkStep ==
  ASSUME MemoryInv, NEW i \in Servers, D!MarkProcessed(i)
  PROVE  MemoryInv'
<1>0. PICK s : s = pass[i].sess
  OBVIOUS
<1>1. /\ pass[i] \in PassRec /\ pass \in [Servers -> PassRec] /\ DreamTypes /\ Stored
      /\ PassKnows(i) /\ dreamed \in [Sess -> 0..MaxMsgs] /\ known \subseteq D!Facts
      /\ s \in Sess /\ pass[i].upto \in 0..MaxMsgs
  BY <1>0 DEF MemoryInv, DreamTypes, PassRec
<1>3. PICK r \in Sess : r = D!Idle.sess
  BY IdleTypes DEF PassRec
<1> DEFINE q == [pass[i] EXCEPT !.pc = "next", !.sess = r, !.upto = 0]
<1>2. /\ pass[i].pc = "mark" /\ "mark" \in D!Working /\ "next" \in D!Working
      /\ UNCHANGED <<head, dlock, single, mems, known, lost, doubled>>
      /\ dreamed' = [dreamed EXCEPT ![s] = D!Max({dreamed[s], pass[i].upto})]
      /\ pass' = [pass EXCEPT ![i] = q]
  BY <1>0, <1>1, <1>3 DEF D!MarkProcessed, D!Working, D!StoreSame
<1>4. q \in PassRec /\ q.pc = "next" /\ q.todo = pass[i].todo
  <2>1. 0 \in 0..MaxMsgs
    BY DreamAssumption
  <2>2. QED
    BY <1>1, <2>1 DEF PassRec, PassPC, D!Working
<1> HIDE DEF q
<1>5. pass'[i] = q
  BY <1>1, <1>2
<1>6. /\ dreamed' \in [Sess -> 0..MaxMsgs]
      /\ \A t \in Sess : t # s => dreamed'[t] = dreamed[t]
      /\ \A t \in Sess : dreamed'[t] >= dreamed[t]
      /\ dreamed'[s] \in {dreamed[s], pass[i].upto}
  <2>1. dreamed[s] \in 0..MaxMsgs /\ \A t \in Sess : dreamed[t] \in Nat
    BY <1>1, DreamAssumption
  <2>2. D!Max({dreamed[s], pass[i].upto})
          = IF dreamed[s] >= pass[i].upto THEN dreamed[s] ELSE pass[i].upto
    BY <1>1, <2>1, MaxOfTwo, DreamAssumption
  <2>3. QED
    BY <1>1, <1>2, <2>1, <2>2, DreamAssumption
<1>7. Stored'
  <2>1. \A c : Segment(c) => Segment(c)'
    <3>1. \A t \in Sess, n \in 1..MaxMsgs :
            ((dreamed'[t] + 1)..n) \subseteq ((dreamed[t] + 1)..n)
      BY <1>1, <1>6, DreamAssumption
    <3>2. QED
      BY <3>1 DEF Segment
  <2>2. QED
    BY <1>1, <1>2, <2>1 DEF Stored
<1>8. D!WatermarkMeansLearned'
  <2>1. SUFFICES ASSUME NEW t \in Sess, NEW n \in 1..dreamed'[t]
                 PROVE  <<t, n>> \in known
    BY <1>2 DEF D!WatermarkMeansLearned
  <2>2. n \in 1..dreamed[t] => <<t, n>> \in known
    BY DEF MemoryInv, D!WatermarkMeansLearned
  <2>3. CASE n \notin 1..dreamed[t]
    <3>1. t = s /\ n \in (dreamed[s] + 1)..pass[i].upto
      BY <1>1, <1>6, <2>1, <2>3, DreamAssumption
    <3>2. Batch(i) \subseteq known
      BY <1>1, <1>2 DEF PassKnows, BatchKnown
    <3>3. QED
      BY <1>0, <3>1, <3>2 DEF Batch
  <2>4. QED
    BY <2>2, <2>3
<1>9. TodoKnown(i)'
  <2>1. \A t \in pass[i].todo : t[2] = dreamed[t[1]] /\ t[1] \in Sess
    BY <1>1, <1>2 DEF PassKnows, TodoKnown, PassRec
  <2>2. pass[i].done = 1 => \A t \in pass[i].todo : t[1] # s
    BY <1>0, <1>1, <1>2 DEF PassKnows, TodoKnown
  <2>3. pass[i].done = 1
    BY <1>1, <1>2 DEF PassKnows, BatchKnown
  <2>4. \A t \in pass[i].todo : t[2] = dreamed'[t[1]]
    BY <1>6, <2>1, <2>2, <2>3
  <2>5. QED
    BY <1>4, <1>5, <2>4 DEF TodoKnown
<1>10. PassKnows(i)'
  BY <1>4, <1>5, <1>9 DEF PassKnows, BatchKnown, AnswerWhole, MergeSafe
<1>11. D!LearnedStaysKnown' /\ D!AddsOnce' /\ mems' \in Seq(Memory) /\ Len(mems') <= MaxMems
  BY <1>1, <1>2 DEF MemoryInv, D!LearnedStaysKnown, D!AddsOnce, D!LiveFacts, D!Live, D!LiveOf,
                    D!ListByScope, DreamTypes
<1>12. QED
  BY <1>1, <1>2, <1>4, <1>6, <1>7, <1>8, <1>10, <1>11, StoreStep

\* The user's memory tools beside a pass: a memory stays, or becomes what the user
\* wrote, or is forgotten, and what it stated is then taken by the user.
LEMMA ToolStep ==
  ASSUME MemoryInv, UNCHANGED <<head, dreamed, dlock, single, pass, doubled, known>>,
         mems' \in Seq(Memory), Len(mems') <= MaxMems, lost \subseteq lost',
         DOMAIN mems \subseteq DOMAIN mems',
         \A l \in DOMAIN mems :
           \/ mems'[l] = mems[l]
           \/ /\ mems[l].content \subseteq lost'
              /\ \/ mems'[l].state = mems[l].state /\ mems'[l].content = {D!Said}
                 \/ mems'[l].state = "deleted" /\ mems'[l].content = {},
         \A l \in DOMAIN mems' \ DOMAIN mems : mems'[l].content = {D!Said}
  PROVE  MemoryInv'
<1>1. DreamTypes' /\ known \subseteq D!Facts
  BY DEF MemoryInv, DreamTypes
<1>2. /\ \A c : Segment(c)' <=> Segment(c)
      /\ Segment({}) /\ Segment({D!Said})
  <2>1. \A s \in Sess, n \in 1..MaxMsgs : <<s, n>> # D!Said
    BY DreamAssumption DEF D!Said
  <2>2. QED
    BY <2>1 DEF Segment
<1>3. Stored'
  <2>1. {D!Said} \cap D!Facts = {}
    BY SaidIsNoFact
  <2>2. \A l \in DOMAIN mems' :
          \/ l \in DOMAIN mems /\ mems'[l] = mems[l]
          \/ mems'[l].content \in {{D!Said}, {}}
    OBVIOUS
  <2>3. QED
    BY <1>2, <2>1, <2>2 DEF MemoryInv, Stored
<1>4. D!LearnedStaysKnown'
  <2>1. \A x \in known : x \in lost' \/ \E k \in DOMAIN mems' : mems'[k].state = "live" /\ x \in mems'[k].content
    <3>1. TAKE x \in known
    <3>2. x \in lost \/ \E k \in DOMAIN mems : mems[k].state = "live" /\ x \in mems[k].content
      BY KeptMeans DEF MemoryInv
    <3>3. QED
      BY <3>2
  <2>2. QED
    BY <2>1 DEF D!LearnedStaysKnown, D!LiveFacts, D!Live, D!LiveOf, D!ListByScope
<1>5. D!WatermarkMeansLearned' /\ D!AddsOnce'
  BY DEF MemoryInv, D!WatermarkMeansLearned, D!AddsOnce
<1>6. \A i \in Servers : PassKnows(i)'
  <2>1. TAKE i \in Servers
  <2>2. PassKnows(i)
    BY DEF MemoryInv
  <2>3. TodoKnown(i)' /\ BatchKnown(i)'
    BY <2>2 DEF PassKnows, TodoKnown, BatchKnown, Batch
  <2>4. AnswerWhole(i)'
    <3>1. SUFFICES ASSUME pass[i].pc \in {"update", "add"}
                   PROVE  AnswerWhole(i)'
      BY DEF AnswerWhole
    <3>2. \A k \in D!Live' : mems'[k].content \in pass[i].live \cup {{D!Said}, pass[i].ans.into}
      <4>1. \A k \in DOMAIN mems : mems[k].state = "live" =>
              mems[k].content \in pass[i].live \cup {{D!Said}, pass[i].ans.into}
        BY <2>2, <3>1 DEF PassKnows, AnswerWhole, D!Live, D!LiveOf, D!ListByScope
      <4>2. \A k \in D!Live' : k \in DOMAIN mems' /\ mems'[k].state = "live"
        BY DEF D!Live, D!LiveOf, D!ListByScope
      <4>3. QED
        BY <4>1, <4>2
    <3>3. QED
      BY <1>2, <2>2, <3>1, <3>2 DEF PassKnows, AnswerWhole
  <2>5. MergeSafe(i)'
    <3>1. SUFFICES ASSUME pass[i].pc \in {"update", "add", "remove"}
                   PROVE  MergeSafe(i)'
      BY DEF MergeSafe
    <3>2. PICK a : a = pass[i].ans
      OBVIOUS
    <3>3. /\ a.upd = 0 => a.rem = 0
          /\ a.upd # 0 => a.upd \in DOMAIN mems /\ mems[a.upd].state # "deprecated"
          /\ a.rem # 0 => /\ a.rem \in DOMAIN mems /\ a.rem # a.upd
                          /\ mems[a.rem].content \cap D!Facts \subseteq a.into
          /\ pass[i].pc = "update" /\ a.upd # 0 => mems[a.upd].content \cap D!Facts \subseteq a.into
          /\ pass[i].pc # "update" /\ a.upd # 0 => a.into \cap D!Facts \subseteq known /\ Covered(a)
      BY <2>2, <3>1, <3>2 DEF PassKnows, MergeSafe
    <3>4. \A l \in DOMAIN mems :
            /\ mems'[l].content \cap D!Facts \subseteq mems[l].content
            /\ mems[l].state # "deprecated" => mems'[l].state # "deprecated"
      BY SaidIsNoFact
    <3>5. a.upd \in DOMAIN mems /\ Covered(a) => Covered(a)'
      BY DEF Covered
    <3>6. QED
      BY <3>1, <3>2, <3>3, <3>4, <3>5 DEF MergeSafe
  <2>6. QED
    BY <2>3, <2>4, <2>5 DEF PassKnows
<1>7. QED
  BY <1>1, <1>3, <1>4, <1>5, <1>6 DEF MemoryInv

\* What the user writes, edits and forgets.
LEMMA UserStep ==
  ASSUME MemoryInv,
         D!WriteMemory \/ \E k \in DOMAIN mems : D!EditMemory(k) \/ D!ForgetMemory(k)
  PROVE  MemoryInv'
<1>1. /\ DreamTypes /\ {D!Said} \in Texts /\ {D!Said} \cap D!Facts = {}
      /\ Len(mems) \in Nat /\ Len(mems) <= MaxMems
      /\ UNCHANGED <<head, dreamed, dlock, single, pass, doubled>>
  BY MemoryTypes, SaidIsNoFact
     DEF MemoryInv, DreamTypes, Texts, D!WriteMemory, D!EditMemory, D!ForgetMemory, D!ToolCall
<1>2. CASE D!WriteMemory
  <2>1. /\ mems' = Append(mems, [content |-> {D!Said}, state |-> "live"])
        /\ known' = known /\ lost' = lost /\ Len(mems) < MaxMems
    BY <1>1, <1>2 DEF D!WriteMemory, D!Store
  <2>2. PICK n : n = Len(mems) + 1
    OBVIOUS
  <2>3. /\ mems' \in Seq(Memory) /\ Len(mems') = n
        /\ DOMAIN mems' = DOMAIN mems \cup {n} /\ n \notin DOMAIN mems
        /\ \A l \in DOMAIN mems : mems'[l] = mems[l]
        /\ mems'[n].content = {D!Said} /\ mems'[n].state = "live"
    BY <1>1, <2>1, <2>2, StoreMem
  <2>4. Len(mems') <= MaxMems
    BY <1>1, <2>1, <2>2, <2>3, DreamAssumption
  <2>5. QED
    BY <1>1, <2>1, <2>3, <2>4, ToolStep
<1>3. CASE \E k \in DOMAIN mems : D!EditMemory(k)
  <2>1. PICK k \in DOMAIN mems :
          /\ mems' = [mems EXCEPT ![k].content = {D!Said}]
          /\ known' = known /\ lost' = lost \cup mems[k].content
    BY <1>1, <1>3 DEF D!EditMemory, D!Update
  <2>2. /\ mems' \in Seq(Memory) /\ Len(mems') = Len(mems) /\ DOMAIN mems' = DOMAIN mems
        /\ \A l \in DOMAIN mems :
              /\ mems'[l].state = mems[l].state
              /\ mems'[l].content = IF l = k THEN {D!Said} ELSE mems[l].content
    BY <1>1, <2>1, UpdateMem
  <2>3. \A l \in DOMAIN mems : l # k => mems'[l] = mems[l]
    BY <1>1, <2>1, MemoryTypes
  <2>4. QED
    BY <1>1, <2>1, <2>2, <2>3, ToolStep
<1>4. CASE \E k \in DOMAIN mems : D!ForgetMemory(k)
  <2>1. PICK k \in DOMAIN mems :
          D!Erase({k}) /\ known' = known /\ lost' = lost \cup mems[k].content
    BY <1>4 DEF D!ForgetMemory
  <2>2. /\ mems' \in Seq(Memory) /\ Len(mems') = Len(mems) /\ DOMAIN mems' = DOMAIN mems
        /\ \A l \in DOMAIN mems : l \notin {k} => mems'[l] = mems[l]
        /\ \A l \in DOMAIN mems \cap {k} : mems'[l].content = {} /\ mems'[l].state = "deleted"
    BY <1>1, <2>1, EraseMem
  <2>3. QED
    BY <1>1, <2>1, <2>2, ToolStep
<1>5. QED
  BY <1>2, <1>3, <1>4

\* A message is stored beside a pass, which reads on from what it knows.
LEMMA MessageStep ==
  ASSUME MemoryInv, NEW s \in Sess, D!NewMessage(s)
  PROVE  MemoryInv'
<1>1. /\ UNCHANGED <<dreamed, dlock, single, pass, mems, known, lost, doubled>>
      /\ head' = [head EXCEPT ![s] = head[s] + 1] /\ head[s] < MaxMsgs
  BY DEF D!NewMessage, D!StoreSame
<1>2. head' \in [Sess -> 0..MaxMsgs]
  BY <1>1, DreamAssumption DEF MemoryInv, DreamTypes
<1>3. DreamTypes'
  BY <1>1, <1>2 DEF MemoryInv, DreamTypes
<1>4. Stored' /\ D!WatermarkMeansLearned' /\ D!LearnedStaysKnown' /\ D!AddsOnce'
  BY <1>1 DEF MemoryInv, Stored, Segment, D!WatermarkMeansLearned, D!LearnedStaysKnown,
              D!AddsOnce, D!LiveFacts, D!Live, D!LiveOf, D!ListByScope
<1>5. \A i \in Servers : PassKnows(i)'
  <2>1. TAKE i \in Servers
  <2>2. PassKnows(i)
    BY DEF MemoryInv
  <2>3. TodoKnown(i)' /\ BatchKnown(i)'
    BY <1>1, <2>2 DEF PassKnows, TodoKnown, BatchKnown, Batch
  <2>4. AnswerWhole(i)' /\ MergeSafe(i)'
    BY <1>1, <2>2 DEF PassKnows, AnswerWhole, MergeSafe, Covered, Segment, D!Live, D!LiveOf,
                      D!ListByScope
  <2>5. QED
    BY <2>3, <2>4 DEF PassKnows
<1>6. QED
  BY <1>3, <1>4, <1>5 DEF MemoryInv

\* The invariant of the memory is inductive.
LEMMA MemoryStep == MemoryInv /\ [D!DreamNext]_dreamVars => MemoryInv'
<1> SUFFICES ASSUME MemoryInv, [D!DreamNext]_dreamVars
             PROVE  MemoryInv'
  OBVIOUS
<1>1. CASE UNCHANGED dreamVars
  <2>1. UNCHANGED <<head, dreamed, dlock, single, pass, mems, known, lost, doubled>>
    BY <1>1 DEF dreamVars
  <2>2. mems \in Seq(Memory) /\ Len(mems) <= MaxMems
    BY DEF MemoryInv, DreamTypes
  <2>3. QED
    BY <2>1, <2>2, ToolStep
<1>2. CASE \E i \in Servers : D!Step(i)
  <2>1. PICK i \in Servers : D!Step(i)
    BY <1>2
  <2>2. CASE D!ClaimCrossInstance(i) \/ D!Release(i) \/ D!Finish(i)
    BY <2>2, BoundsStep
  <2>3. CASE \/ D!PendingSessions(i) \/ D!NextSession(i) \/ D!ExtractAndCompress(i)
             \/ D!Consolidate(i)
    BY <2>3, ScanStep, NextStep, ExtractStep, ConsolidateStep
  <2>4. CASE \/ D!ApplyUpdate(i) \/ D!ApplyAdd(i) \/ D!ApplyRemove(i) \/ D!EnforceCaps(i)
             \/ D!MarkProcessed(i) \/ D!PurgeDeprecated(i)
    BY <2>4, ApplyUpdateStep, ApplyAddStep, ApplyRemoveStep, EnforceCapsStep, MarkStep, PurgeStep
  <2>5. QED
    BY <2>1, <2>2, <2>3, <2>4 DEF D!Step
<1>3. CASE \E i \in Servers : D!PassFails(i) \/ D!Panic(i) \/ D!Crash(i)
  BY <1>3, FaultStep
<1>4. CASE \E i \in Servers : \E kind \in D!Kinds : D!Begin(i, kind)
  BY <1>4, BoundsStep
<1>5. CASE \E s \in Sess : D!NewMessage(s)
  BY <1>5, MessageStep
<1>6. CASE D!WriteMemory \/ \E k \in DOMAIN mems : D!EditMemory(k) \/ D!ForgetMemory(k)
  BY <1>6, UserStep
<1>7. QED
  BY <1>1, <1>2, <1>3, <1>4, <1>5, <1>6 DEF D!DreamNext

\* An empty store, no message and no pass.
LEMMA MemoryStart == Init => MemoryInv
<1> SUFFICES ASSUME D!DreamInit PROVE MemoryInv
  BY DEF Init
<1>1. /\ head = [s \in Sess |-> 0] /\ dreamed = [s \in Sess |-> 0] /\ mems = <<>>
      /\ dlock = D!NoServer /\ single = {} /\ pass = [i \in Servers |-> D!Idle]
      /\ known = {} /\ lost = {} /\ doubled = FALSE
  BY DEF D!DreamInit
<1>2. \A i \in Servers : pass[i].pc = "idle" /\ pass[i] \in PassRec
  BY <1>1, IdleTypes
<1>3. mems \in Seq(Memory) /\ Len(mems) <= MaxMems /\ DOMAIN mems = {}
  BY <1>1, DreamAssumption
<1>4. DreamTypes
  <2>1. pass \in [Servers -> PassRec]
    BY <1>1, IdleTypes
  <2>2. head \in [Sess -> 0..MaxMsgs] /\ dreamed \in [Sess -> 0..MaxMsgs]
    BY <1>1, DreamAssumption
  <2>3. QED
    BY <1>1, <1>2, <1>3, <2>1, <2>2 DEF DreamTypes
<1>5. Stored /\ D!LearnedStaysKnown /\ D!AddsOnce
  BY <1>1, <1>3 DEF Stored, D!LearnedStaysKnown, D!AddsOnce
<1>6. D!WatermarkMeansLearned
  BY <1>1 DEF D!WatermarkMeansLearned
<1>7. \A i \in Servers : PassKnows(i)
  <2>1. "idle" \notin D!Working
    BY DEF D!Working
  <2>2. QED
    BY <1>2, <2>1, RestKnows
<1>8. QED
  BY <1>4, <1>5, <1>6, <1>7 DEF MemoryInv

\* The watermark moves only over learned messages, no fact is lost half-way through a
\* merge and none is added twice: for any number of instances, sessions, messages and
\* memories, through failed statements, panics, crashes and the user's own edits.
THEOREM MemoryIsKept == Spec => []MemoryKept
<1>1. MemoryInv /\ [Next]_vars => MemoryInv'
  <2>1. [Next]_vars => [D!DreamNext]_dreamVars
    BY DEF Next, vars, SchedStep, JobStep, DreamStep, WebhookStep, Only
  <2>2. QED
    BY <2>1, MemoryStep
<1>2. MemoryInv => MemoryKept
  <2>1. SUFFICES ASSUME MemoryInv PROVE D!DreamTypeOK
    BY DEF MemoryInv, MemoryKept
  <2>2. /\ DreamTypes
        /\ \A k \in DOMAIN mems : /\ mems[k].content \in Texts
                                  /\ mems[k].state \in {"live", "deprecated", "deleted"}
    BY <2>1, MemoryTypes DEF MemoryInv
  <2>3. \A i \in Servers : pass[i].pc \in PassPC
    BY <2>2 DEF DreamTypes, PassRec
  <2>4. QED
    BY <2>2, <2>3 DEF DreamTypes, D!DreamTypeOK, Texts, PassPC
<1>3. QED
  BY <1>1, <1>2, MemoryStart, PTL DEF Spec

=============================================================================
