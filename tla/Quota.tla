-------------------------------- MODULE Quota --------------------------------
(***************************************************************************)
(* The limits of internal/quota.  The monthly token budgets (quota.go),    *)
(* their admin routes and the gate a submission passes (wire_usage.go):    *)
(* attribution, the user's check, the billing team's check, the run row;   *)
(* usage is visible to a check only once its run has settled.  And the     *)
(* per-key request limiter (ratelimit.go): the token buckets, live         *)
(* retuning, the sweeper that evicts idle buckets; the check that limiting *)
(* is on and the use of the bucket are two steps.  The bucket itself       *)
(* (x/time/rate) is external.                                              *)
(***************************************************************************)
EXTENDS Naturals, FiniteSets, FiniteSetsExt

CONSTANTS
  Reqs,        \* submissions of one user, one at a time each
  Costs,       \* billable tokens a run may turn out to cost
  Budgets,     \* limits an administrator may set
  Months,      \* bound: the calendar
  MaxRuns,     \* bound: runs that are created
  MaxBudgetEdits,  \* bound: edits of budgets
  Keys,
  Tunings,     \* <<rate, burst>> pairs the console may set; <<0, 0>> disables
  IdleTTL,     \* sweepTTL in ticks
  MaxTicks,    \* bound: the clock
  MaxTunings   \* bound: live retunings

VARIABLES
  budget,      \* usage_budgets, 0 where there is no row
  month,       \* the current month
  billed,      \* settled tokens per scope and month
  gate,        \* per submission: where it is, who pays, its windows
  runs, bedits,
  cap,         \* observed: the highest limit in force so far, 0 for none
  tick,
  rate, burst, sweeping,
  bucket,      \* per key: a bucket or none
  asked,       \* keys with a request past the enabled check
  tunings,
  served,      \* observed: per key, requests the bucket let through since the retuning
  tunedAt      \* observed: when the limiter was retuned last

quotaVars == <<budget, month, billed, gate, runs, bedits, cap>>

Scopes == {"user", "team"}
Away == [pc |-> "away", team |-> FALSE, window |-> 0]
ScopesOf(r) == IF gate[r].team THEN Scopes ELSE {"user"}

QuotaTypeOK ==
  /\ month \in Months /\ budget \in [Scopes -> Budgets \cup {0}]
  /\ billed \in [Scopes -> [Months -> Nat]]
  /\ gate \in [Reqs -> [pc : {"away", "user", "team", "create", "running"}, team : BOOLEAN,
                        window : Months \cup {0}]]

QuotaInit ==
  /\ month = 1 /\ billed = [s \in Scopes |-> [m \in Months |-> 0]]
  /\ budget \in [Scopes -> Budgets] /\ cap = budget
  /\ gate = [r \in Reqs |-> Away] /\ runs = 0 /\ bedits = 0

-----------------------------------------------------------------------------
(* A submission.                                                           *)

\* teamAttributor: the team pays only when its own assignment serves the run;
\* Check fixes the window before it looks at either scope.
Attribute(r) ==
  /\ gate[r].pc = "away" /\ runs < MaxRuns
  /\ \E pays \in BOOLEAN : gate' = [gate EXCEPT ![r] = [pc |-> "user", team |-> pays, window |-> month]]
  /\ UNCHANGED <<budget, month, billed, runs, bedits, cap>>

\* checkScope's verdict when both reads succeed.
Met(s, w) == budget[s] > 0 /\ billed[s][w] >= budget[s]

Onward(r, s) == IF s = "user" /\ gate[r].team THEN "team" ELSE "create"

CheckScope(r, s) ==
  /\ gate[r].pc = s
  /\ gate' = [gate EXCEPT ![r] =
       IF Met(s, @.window) THEN Away ELSE [@ EXCEPT !.pc = Onward(r, s)]]
  /\ UNCHANGED <<budget, month, billed, runs, bedits, cap>>

\* A read of the budget or of the spend fails: the scope counts as within budget.
CheckFails(r, s) ==
  /\ gate[r].pc = s /\ bedits < MaxBudgetEdits /\ bedits' = bedits + 1
  /\ gate' = [gate EXCEPT ![r].pc = Onward(r, s)]
  /\ cap' = [cap EXCEPT ![s] = 0]
  /\ UNCHANGED <<budget, month, billed, runs>>

\* The run row is created, in whatever month that now is.
CreateRun(r) ==
  /\ gate[r].pc = "create" /\ runs < MaxRuns /\ runs' = runs + 1
  /\ gate' = [gate EXCEPT ![r].pc = "running", ![r].window = month]
  /\ UNCHANGED <<budget, month, billed, bedits, cap>>

\* Submit refused by another guard (a run is active, the lock is held).
Refused(r) ==
  /\ gate[r].pc = "create" /\ gate' = [gate EXCEPT ![r] = Away]
  /\ UNCHANGED <<budget, month, billed, runs, bedits, cap>>

\* The run settles: its tokens count in the month its row was created in.
SettleCost(r) ==
  /\ gate[r].pc = "running"
  /\ \E c \in Costs :
       billed' = [s \in Scopes |->
         IF s \in ScopesOf(r) THEN [billed[s] EXCEPT ![gate[r].window] = @ + c] ELSE billed[s]]
  /\ gate' = [gate EXCEPT ![r] = Away]
  /\ UNCHANGED <<budget, month, runs, bedits, cap>>

-----------------------------------------------------------------------------
(* Administration and the calendar.                                        *)

\* Store.Set and Store.Clear.
SetRow(s, b) == budget' = [budget EXCEPT ![s] = b]
ClearRow(s) == budget' = [budget EXCEPT ![s] = 0]

Highest(a, b) == IF a = 0 \/ b = 0 THEN 0 ELSE Max({a, b})

SetBudget(s) ==
  /\ bedits < MaxBudgetEdits /\ bedits' = bedits + 1
  /\ \E b \in Budgets :
       SetRow(s, b) /\ cap' = [cap EXCEPT ![s] = Highest(@, b)]
  /\ UNCHANGED <<month, billed, gate, runs>>

ClearBudget(s) ==
  /\ budget[s] > 0 /\ bedits < MaxBudgetEdits /\ bedits' = bedits + 1
  /\ ClearRow(s) /\ cap' = [cap EXCEPT ![s] = 0]
  /\ UNCHANGED <<month, billed, gate, runs>>

NextMonth ==
  /\ month + 1 \in Months /\ month' = month + 1
  /\ UNCHANGED <<budget, billed, gate, runs, bedits, cap>>

QuotaNext ==
  \/ \E r \in Reqs : \/ Attribute(r) \/ CreateRun(r) \/ Refused(r) \/ SettleCost(r)
                     \/ \E s \in Scopes : CheckScope(r, s) \/ CheckFails(r, s)
  \/ \E s \in Scopes : SetBudget(s) \/ ClearBudget(s)
  \/ NextMonth

-----------------------------------------------------------------------------
(* The request limiter.                                                    *)

limitVars == <<tick, rate, burst, sweeping, bucket, asked, tunings, served, tunedAt>>

NoBucket == [tokens |-> 0, burst |-> 0, seen |-> 0, there |-> FALSE]
Bursts == {t[2] : t \in Tunings}
Enabled == rate > 0 /\ burst > 0

LimitTypeOK ==
  /\ tick \in Nat /\ <<rate, burst>> \in Tunings /\ asked \subseteq Keys
  /\ \A k \in Keys : bucket[k].tokens <= bucket[k].burst /\ bucket[k].burst \in Bursts \cup {0}

LimitInit ==
  /\ tick = 0 /\ \E t \in Tunings : rate = t[1] /\ burst = t[2]
  /\ sweeping = Enabled
  /\ bucket = [k \in Keys |-> NoBucket] /\ asked = {}
  /\ tunings = 0 /\ served = [k \in Keys |-> 0] /\ tunedAt = 0

-----------------------------------------------------------------------------
(* x/time/rate, external: tokens accrue up to the burst.                   *)

Refill(b, r) == [b EXCEPT !.tokens = IF @ + r > b.burst THEN b.burst ELSE @ + r]

TickLimit ==
  /\ tick < MaxTicks /\ tick' = tick + 1
  /\ bucket' = [k \in Keys |-> Refill(bucket[k], rate)]
  /\ UNCHANGED <<rate, burst, sweeping, asked, tunings, served, tunedAt>>

-----------------------------------------------------------------------------
(* Requests.                                                               *)

\* Middleware: a request whose key is limited passes the enabled check, which
\* takes no lock.
Ask(k) ==
  /\ Enabled /\ k \notin asked /\ asked' = asked \cup {k}
  /\ UNCHANGED <<tick, rate, burst, sweeping, bucket, tunings, served, tunedAt>>

\* bucketFor: the bucket, created full on first use, is seen now.
BucketFor(k) ==
  IF bucket[k].there THEN [bucket[k] EXCEPT !.seen = tick]
  ELSE [tokens |-> burst, burst |-> burst, seen |-> tick, there |-> TRUE]

\* Allow: a token lets the request through, none refuses it with 429.
Allow(k) ==
  /\ k \in asked /\ asked' = asked \ {k}
  /\ LET b == BucketFor(k)  ok == b.tokens > 0
     IN  /\ bucket' = [bucket EXCEPT ![k] = IF ok THEN [b EXCEPT !.tokens = @ - 1] ELSE b]
         /\ served' = IF ok THEN [served EXCEPT ![k] = @ + 1] ELSE served
  /\ UNCHANGED <<tick, rate, burst, sweeping, tunings, tunedAt>>

-----------------------------------------------------------------------------
(* Retuning and the sweeper.                                               *)

\* SetRate: existing buckets keep their burst.
SetRate(t) ==
  /\ tunings < MaxTunings /\ tunings' = tunings + 1
  /\ rate' = t[1] /\ burst' = t[2]
  /\ sweeping' = (sweeping \/ (t[1] > 0 /\ t[2] > 0))
  /\ tunedAt' = tick /\ served' = [k \in Keys |-> 0]
  /\ UNCHANGED <<tick, bucket, asked>>

Idle(b) == b.there /\ b.seen + IdleTTL < tick

Sweep ==
  /\ sweeping /\ \E k \in Keys : Idle(bucket[k])
  /\ bucket' = [k \in Keys |-> IF Idle(bucket[k]) THEN NoBucket ELSE bucket[k]]
  /\ UNCHANGED <<tick, rate, burst, sweeping, asked, tunings, served, tunedAt>>

LimitNext ==
  \/ TickLimit \/ Sweep \/ \E t \in Tunings : SetRate(t)
  \/ \E k \in Keys : Ask(k) \/ Allow(k)

-----------------------------------------------------------------------------
(* Properties.                                                             *)

\* The gate bounds the overspend although it reads settled usage only: as long
\* as no limit was lifted and no read failed open, a month ends at most one
\* run per concurrent submission past the highest limit, and never a run more,
\* also across a month's end.
OverspendBounded ==
  \A s \in Scopes : cap[s] > 0 =>
    \A m \in Months : billed[s][m] <= cap[s] - 1 + Cardinality(Reqs) * Max(Costs)

\* Between two retunings a key gets its burst and what accrued since, whatever
\* the sweeper evicts and re-creates in between: an eviction never refills a
\* bucket faster than the rate would have (with IdleTTL times the rate at
\* least the burst, as with the defaults).
RateHolds ==
  \A k \in Keys : served[k] <= Max(Bursts) + rate * (tick - tunedAt)

\* ratelimit.go, SetRate: "existing buckets keep their burst until the sweeper
\* evicts them (<=10 minutes), which is the documented convergence window".
\* Violated: each request renews lastSeen, so the bucket of a key in use is
\* never idle and keeps its old burst.
RetuneConverges ==
  tick > tunedAt + IdleTTL + 1 /\ Enabled =>
    \A k \in Keys : bucket[k].there /\ ~Idle(bucket[k]) => bucket[k].burst = burst
=============================================================================
