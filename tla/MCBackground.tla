----------------------------- MODULE MCBackground -----------------------------
(***************************************************************************)
(* The background services.  They share no state, so one of them moves     *)
(* (focus) while the others rest in an initial state.                      *)
(***************************************************************************)
EXTENDS Integers, Sequences, FiniteSets

CONSTANTS
  Fires, Backoff, MaxTime, MaxEdits, MaxTrouble,           \* Schedules
  JobNames, MaxInterval,                                   \* Jobs
  Servers, Sess, Cap, MaxMsgs, MaxMems, MaxPassFaults,          \* Dreaming
  Workers, Hook, Lease, Backoffs, Retries, MaxSendFaults   \* Webhooks

ASSUME FiresAssumption == IsFiniteSet(Fires) /\ Backoff \in Nat /\ MaxTime \in Nat
ASSUME JobsAssumption == MaxInterval \in Nat \ {0}
ASSUME DreamAssumption == MaxMsgs \in Nat /\ MaxMems \in Nat /\ Sess # {} /\ "none" \notin Servers
ASSUME WorkersAssumption == Hook \in Workers /\ Lease \in Nat \ {0} /\ Backoffs \in Seq(Nat \ {0})

VARIABLES
  focus,
  now, task, exists, busy, pending, fire, fresh, watched, edits, trouble, ran, early,
  sphase, age, interval, inflight, running,
  head, dreamed, mems, dlock, single, pass, faults, known, lost, doubled,
  row, worker, wfaults, sends, refused, overran

schedVars == <<now, task, exists, busy, pending, fire, fresh, watched, edits, trouble, ran, early>>
jobVars == <<sphase, age, interval, inflight, running>>
dreamVars == <<head, dreamed, mems, dlock, single, pass, faults, known, lost, doubled>>
whVars == <<row, worker, wfaults, sends, refused, overran>>
vars == <<focus, schedVars, jobVars, dreamVars, whVars>>

\* The backoff schedule of the small instance.
TwoBackoffs == <<1, 2>>

S == INSTANCE Schedules
J == INSTANCE Jobs
D == INSTANCE Dreaming WITH MaxFaults <- MaxPassFaults
W == INSTANCE Webhooks WITH MaxFaults <- MaxSendFaults

Init ==
  /\ focus \in {"schedules", "jobs", "dreaming", "webhooks"}
  /\ S!SchedInit /\ (focus # "schedules" => task = S!Create(1, "reject", TRUE, FALSE))
  /\ J!JobsInit /\ (focus # "jobs" => \A j \in JobNames : interval[j] = 1)
  /\ D!DreamInit /\ W!WebhooksInit /\ (focus # "webhooks" => row.readable)

Only(f, A) == focus = f /\ A /\ UNCHANGED focus

SchedStep == Only("schedules", S!SchedNext) /\ UNCHANGED <<jobVars, dreamVars, whVars>>
JobStep(A) == Only("jobs", A) /\ UNCHANGED <<schedVars, dreamVars, whVars>>
DreamStep(A) == Only("dreaming", A) /\ UNCHANGED <<schedVars, jobVars, whVars>>
WebhookStep(A) == Only("webhooks", A) /\ UNCHANGED <<schedVars, jobVars, dreamVars>>

Next ==
  \/ SchedStep \/ JobStep(J!JobsNext) \/ DreamStep(D!DreamNext) \/ WebhookStep(W!WebhooksNext)

\* A started goroutine goes on and the tickers tick; new work arrives or not.
Fairness ==
  /\ WF_vars(JobStep(J!RunDue)) /\ \A j \in JobNames : WF_vars(JobStep(J!Run(j)))
  /\ \A i \in Servers : WF_vars(DreamStep(D!Step(i)))
  /\ WF_vars(WebhookStep(W!Tick)) /\ WF_vars(WebhookStep(W!ClaimByID))
  /\ \A w \in Workers : WF_vars(WebhookStep(W!Work(w)))

Spec == Init /\ [][Next]_vars /\ Fairness

\* Schedules and interval jobs: one due occurrence starts at most one run,
\* whichever instances and fires race for it; a fire that gives up after it made
\* a session leaves no empty one behind, unless the DELETE failed; and a job never
\* overlaps itself.
TriggersOnce ==
  /\ S!SchedTypeOK /\ S!OccurrenceFiresOnce /\ S!NoEmptySession
  /\ J!JobsTypeOK /\ J!NoOverlap

\* What a user edited while a fire was under way stands: giving up does not
\* reschedule, enable or revive the task.
FiresRespectEdits == S!FiresRespectEdits

\* Dreaming: a session's watermark moves only over messages that were learned
\* from, a consolidation that fails half-way loses no fact it had, and a
\* retried pass adds nothing twice.
MemoryKept == D!DreamTypeOK /\ D!WatermarkMeansLearned /\ D!LearnedStaysKnown /\ D!AddsOnce

\* Webhooks: while attempts end within their leases, one claimed attempt at a time per
\* notification, and a dead letter only after every retry, a refusal or as unreadable.
DeliverySound == W!WebhooksTypeOK /\ W!NoDoubleSend /\ W!DeadLetterDeserved

\* Whatever fails or crashes: a due job runs again, a dreaming pass that is not lost to
\* a scheduled panic ends and frees its locks, and a committed notification is delivered
\* or dead, also when an attempt outlasts its lease.
BackgroundSettles == J!JobRunsAgain /\ D!PassEnds /\ W!NotificationSettles
=============================================================================
