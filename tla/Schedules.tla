------------------------------ MODULE Schedules ------------------------------
(***************************************************************************)
(* ONE scheduled task: its row (internal/schedule/store.go), the triggers  *)
(* of several instances and the manual runs that fire it                   *)
(* (internal/schedule/trigger.go), and the owner who edits it meanwhile    *)
(* (internal/scheduleapi).  A sweep fires one task once at a time, so an   *)
(* instance is one process, which carries a scheduled or a manual fire.    *)
(***************************************************************************)
EXTENDS Naturals, FiniteSets

CONSTANTS
  Fires,       \* the instances' goroutines that fire the task
  Backoff,     \* enqueueBackoff, in ticks
  MaxTime,     \* bound: ticks of the clock
  MaxEdits,    \* bound: requests of the owner and crashes
  MaxTrouble   \* bound: failed statements

Strategies == {"reject", "interrupt", "enqueue"}
Crons == {0, 1}                    \* fires at even or at odd instants
Times == 0..(MaxTime + Backoff + 2)
Never == MaxTime + Backoff + 3     \* no end time

VARIABLES
  now,        \* the clock
  task,       \* the row of scheduled_task
  exists,     \* ... which may have been deleted
  busy,       \* the target session has an active run
  pending,    \* ... and undecided interactions
  fire,       \* per process: control point and locals of fireOnce and submit
  fresh,      \* per process: the session it created
  watched,    \* deleteOnDone has an entry for that session's run
  edits,      \* requests of the owner and crashes so far
  trouble,    \* failed statements so far
  ran,        \* observed: runs started by claims, until a manual run made the task due
  early       \* observed: a manual run rewrote the schedule

schedVars == <<now, task, exists, busy, pending, fire, fresh, watched, edits, trouble, ran, early>>

Row == [enabled : BOOLEAN, next : Times, end : Times \cup {Never}, cron : Crons,
        strategy : Strategies, target : BOOLEAN, delete : BOOLEAN]
FirePC == {"idle", "claim", "gate", "session", "multitask", "pending", "submit", "requeue", "watch"}
FreshStates == {"none", "created", "running", "settled", "kept", "deleted", "left"}
Rested == {"none", "kept", "deleted", "left"}

\* cron.Schedule.Next, strictly after t.
NextAfter(cron, t) == CHOOSE n \in {t + 1, t + 2} : n % 2 = cron

AtRest == [pc |-> "idle", at |-> 0, row |-> [next |-> 0], claimed |-> FALSE, interrupted |-> FALSE]

SchedTypeOK ==
  /\ now \in 0..MaxTime
  /\ task \in Row
  /\ exists \in BOOLEAN /\ busy \in BOOLEAN /\ pending \in BOOLEAN /\ early \in BOOLEAN
  /\ \A f \in Fires : fire[f].pc \in FirePC /\ fresh[f] \in FreshStates
  /\ watched \subseteq Fires
  /\ ran \in Nat

\* validateCreate and the first NextRunAt.
Create(cron, strategy, target, delete) ==
  [enabled |-> TRUE, next |-> NextAfter(cron, 0), end |-> Never, cron |-> cron,
   strategy |-> strategy, target |-> target, delete |-> delete]

SchedInit ==
  /\ now = 0
  /\ \/ \E s \in Strategies : task = Create(1, s, TRUE, FALSE)
     \/ \E delete \in BOOLEAN : task = Create(1, "reject", FALSE, delete)
  /\ exists = TRUE
  /\ busy = FALSE /\ pending = FALSE
  /\ fire = [f \in Fires |-> AtRest]
  /\ fresh = [f \in Fires |-> "none"]
  /\ watched = {}
  /\ edits = 0
  /\ trouble = 0
  /\ ran = 0
  /\ early = FALSE

Goto(f, pc) == fire' = [fire EXCEPT ![f].pc = pc]
Stop(f) == fire' = [fire EXCEPT ![f] = AtRest]

\* A fire's statements run under its 30 s context; several fail when it ends.
StatementOK == UNCHANGED trouble
StatementFails == trouble < MaxTrouble /\ trouble' = trouble + 1

-----------------------------------------------------------------------------
(* The owner.                                                              *)

Edit ==
  /\ exists /\ edits < MaxEdits
  /\ edits' = edits + 1
  /\ UNCHANGED <<now, busy, pending, fire, fresh, watched, trouble, ran, early>>

\* PUT: new schedule fields, next_run_at from now.
Update(cron, end) ==
  /\ Edit
  /\ task' = [task EXCEPT !.cron = cron, !.end = end, !.next = NextAfter(cron, now)]
  /\ UNCHANGED exists

SetEnabled(on) ==
  /\ Edit
  /\ task.enabled # on
  /\ task' = [task EXCEPT !.enabled = on]
  /\ UNCHANGED exists

Delete ==
  /\ Edit
  /\ exists' = FALSE
  /\ UNCHANGED task

-----------------------------------------------------------------------------
(* Claiming.                                                               *)

Expired(t) == task.end <= t

\* The WHERE of ListDue.
Due(t) == exists /\ task.enabled /\ task.next <= t /\ ~Expired(t)

\* A sweep finds the task due and reads the row to compute the next occurrence.
ClaimRead(f) ==
  /\ fire[f].pc = "idle" /\ fresh[f] \in Rested
  /\ Due(now)
  /\ fire' = [fire EXCEPT ![f] = [pc |-> "claim", at |-> now, row |-> task,
                                  claimed |-> TRUE, interrupted |-> FALSE]]
  /\ fresh' = [fresh EXCEPT ![f] = "none"]
  /\ UNCHANGED <<now, task, exists, busy, pending, watched, edits, trouble, ran, early>>

\* The WHERE of Claim: still due, and the row as it was read.
Claimable(f) == Due(fire[f].at) /\ task.next = fire[f].row.next

ClaimUpdate(f) ==
  /\ fire[f].pc = "claim"
  /\ \/ /\ Claimable(f)
        /\ LET next == NextAfter(fire[f].row.cron, fire[f].at) IN
           /\ task' = [task EXCEPT !.next = next]
           /\ fire' = [fire EXCEPT ![f].pc = "gate", ![f].row = [task EXCEPT !.next = next]]
        /\ StatementOK
     \/ Stop(f) /\ UNCHANGED task /\ IF Claimable(f) THEN StatementFails ELSE StatementOK
  /\ UNCHANGED <<now, exists, busy, pending, fresh, watched, edits, ran, early>>

\* POST /run: the same path without a claim.
FireNow(f) ==
  /\ fire[f].pc = "idle" /\ fresh[f] \in Rested
  /\ exists /\ edits < MaxEdits
  /\ edits' = edits + 1
  /\ fire' = [fire EXCEPT ![f] = [pc |-> "gate", at |-> now, row |-> task,
                                  claimed |-> FALSE, interrupted |-> FALSE]]
  /\ fresh' = [fresh EXCEPT ![f] = "none"]
  /\ UNCHANGED <<now, task, exists, busy, pending, watched, trouble, ran, early>>

-----------------------------------------------------------------------------
(* submit.                                                                 *)

RequeueAt(f, t) == fire' = [fire EXCEPT ![f].pc = "requeue", ![f].at = t]

\* requeue only what was claimed.
RequeueClaimed(f, t) == IF fire[f].claimed THEN RequeueAt(f, t) ELSE Stop(f)

\* resolvePrompt and the budget gate: pass, a persistent failure (the claimed slot
\* stays advanced), or over budget.
ResolveAndBudget(f) ==
  /\ fire[f].pc = "gate"
  /\ Goto(f, "session") \/ Stop(f) \/ RequeueClaimed(f, now)
  /\ UNCHANGED <<now, task, exists, busy, pending, fresh, watched, edits, trouble, ran, early>>

\* The target session, or a fresh one, whose task_id needs the task's row; or a failure.
ResolveSession(f) ==
  /\ fire[f].pc = "session"
  /\ \/ fire[f].row.target /\ Goto(f, "multitask") /\ UNCHANGED fresh
     \/ /\ ~fire[f].row.target /\ exists
        /\ fresh' = [fresh EXCEPT ![f] = "created"]
        /\ Goto(f, "multitask")
     \/ Stop(f) /\ UNCHANGED fresh
  /\ UNCHANGED <<now, task, exists, busy, pending, watched, edits, trouble, ran, early>>

InTarget(f) == fire[f].row.target

\* cleanupFreshSession: a failed DELETE is logged and the session stays.
CleanupFreshSession(f) ==
  IF fresh[f] = "created"
  THEN \/ StatementOK /\ fresh' = [fresh EXCEPT ![f] = "deleted"]
       \/ StatementFails /\ fresh' = [fresh EXCEPT ![f] = "left"]
  ELSE StatementOK /\ UNCHANGED fresh

\* gateMultitask.  An interrupt cancels the active run and waits a bounded time: the
\* run may or may not be gone when the fire goes on.  When the active run cannot be
\* read the fire gives up.
GateMultitask(f) ==
  /\ fire[f].pc = "multitask"
  /\ \/ ~(InTarget(f) /\ busy) /\ Goto(f, "pending") /\ UNCHANGED <<fresh, trouble>>
     \/ CleanupFreshSession(f) /\ Stop(f)
     \/ /\ InTarget(f) /\ busy
        /\ UNCHANGED <<fresh, trouble>>
        /\ \/ /\ fire[f].row.strategy = "interrupt"
              /\ fire' = [fire EXCEPT ![f].pc = "pending", ![f].interrupted = TRUE]
           \/ fire[f].row.strategy = "enqueue" /\ RequeueClaimed(f, now + Backoff)
           \/ fire[f].row.strategy = "reject" /\ Stop(f)
  /\ UNCHANGED <<now, task, exists, busy, pending, watched, edits, ran, early>>

\* Undecided interactions: skip and requeue, claimed or not; a failed query goes on.
PendingGate(f) ==
  /\ fire[f].pc = "pending"
  /\ \/ /\ Goto(f, "submit") /\ UNCHANGED fresh
        /\ IF InTarget(f) /\ pending THEN StatementFails ELSE StatementOK
     \/ InTarget(f) /\ pending /\ CleanupFreshSession(f) /\ RequeueAt(f, now)
  /\ UNCHANGED <<now, task, exists, busy, pending, watched, edits, ran, early>>

\* Build the loop and submit; a failed build, a lost race or a started run.
Submit(f) ==
  /\ fire[f].pc = "submit"
  /\ \/ CleanupFreshSession(f) /\ Stop(f) /\ UNCHANGED <<busy, ran>>
     \/ /\ InTarget(f) /\ busy
        /\ CleanupFreshSession(f)
        /\ IF fire[f].interrupted THEN RequeueClaimed(f, now) ELSE Stop(f)
        /\ UNCHANGED <<busy, ran>>
     \/ /\ ~(InTarget(f) /\ busy)
        /\ StatementOK
        /\ busy' = (busy \/ InTarget(f))
        /\ fresh' = [fresh EXCEPT ![f] = IF InTarget(f) THEN @ ELSE "running"]
        /\ ran' = IF fire[f].claimed /\ ~early THEN ran + 1 ELSE ran
        /\ IF ~InTarget(f) /\ fire[f].row.delete THEN Goto(f, "watch") ELSE Stop(f)
  /\ UNCHANGED <<now, task, exists, pending, watched, edits, early>>

\* watchRunDelete, after Submit has returned.
WatchRunDelete(f) ==
  /\ fire[f].pc = "watch"
  /\ watched' = watched \cup {f}
  /\ Stop(f)
  /\ UNCHANGED <<now, task, exists, busy, pending, fresh, edits, trouble, ran, early>>

\* Mutant: the requeue does not look at the row.
RequeueableAlways(f) == exists

\* The WHERE of RequeueDueAt: the row as the claim left it, enabled and unexpired.
Requeueable(f) ==
  exists /\ task.enabled /\ task.next = fire[f].row.next /\ ~Expired(fire[f].at)

\* requeueAt: best effort.
RequeueDueAt(f) ==
  /\ fire[f].pc = "requeue"
  /\ \/ /\ StatementOK
        /\ task' = IF Requeueable(f) THEN [task EXCEPT !.next = fire[f].at] ELSE task
        /\ early' = (early \/ (Requeueable(f) /\ ~fire[f].claimed))
     \/ StatementFails /\ UNCHANGED <<task, early>>
  /\ Stop(f)
  /\ UNCHANGED <<now, exists, busy, pending, fresh, watched, edits, ran>>

-----------------------------------------------------------------------------
(* Runs, people and the clock.                                             *)

\* The run of a fresh session settles; its done hooks are started.
RunSettles(f) ==
  /\ fresh[f] = "running"
  /\ fresh' = [fresh EXCEPT ![f] = "settled"]
  /\ UNCHANGED <<now, task, exists, busy, pending, fire, watched, edits, trouble, ran, early>>

\* onRunDone: a failed DELETE keeps the session.
OnRunDone(f) ==
  /\ fresh[f] = "settled"
  /\ \/ StatementOK /\ fresh' = [fresh EXCEPT ![f] = IF f \in watched THEN "deleted" ELSE "kept"]
     \/ f \in watched /\ StatementFails /\ fresh' = [fresh EXCEPT ![f] = "kept"]
  /\ watched' = watched \ {f}
  /\ UNCHANGED <<now, task, exists, busy, pending, fire, edits, ran, early>>

\* Somebody chats in the target session; a run there may end suspended.
TargetRun ==
  /\ task.target
  /\ \/ ~busy /\ ~pending /\ busy' = TRUE /\ UNCHANGED pending
     \/ busy /\ busy' = FALSE /\ pending' \in BOOLEAN
     \/ ~busy /\ pending /\ pending' = FALSE /\ UNCHANGED busy
  /\ UNCHANGED <<now, task, exists, fire, fresh, watched, edits, trouble, ran, early>>

Tick ==
  /\ now < MaxTime
  /\ now' = now + 1
  /\ UNCHANGED <<task, exists, busy, pending, fire, fresh, watched, edits, trouble, ran, early>>

\* An instance stops: its fire and its deleteOnDone entries are gone.
TriggerCrash(f) ==
  /\ edits < MaxEdits
  /\ fire[f].pc # "idle" \/ f \in watched
  /\ edits' = edits + 1
  /\ Stop(f)
  /\ watched' = watched \ {f}
  /\ fresh' = [fresh EXCEPT ![f] = IF @ \in Rested THEN @ ELSE "kept"]
  /\ UNCHANGED <<now, task, exists, busy, pending, trouble, ran, early>>

FireStep(f) ==
  \/ ClaimUpdate(f) \/ ResolveAndBudget(f) \/ ResolveSession(f) \/ GateMultitask(f)
  \/ PendingGate(f) \/ Submit(f) \/ WatchRunDelete(f) \/ RequeueDueAt(f)

SchedNext ==
  \/ \E c \in Crons, e \in {1, Never} : Update(c, e)
  \/ \E on \in BOOLEAN : SetEnabled(on)
  \/ Delete \/ TargetRun \/ Tick
  \/ \E f \in Fires :
       \/ ClaimRead(f) \/ FireNow(f) \/ FireStep(f)
       \/ RunSettles(f) \/ OnRunDone(f) \/ TriggerCrash(f)

SchedSpec == SchedInit /\ [][SchedNext]_schedVars

-----------------------------------------------------------------------------
(* Properties.                                                             *)

\* A fire that has claimed the task and may still start a run.
Claimed(f) ==
  fire[f].claimed /\ fire[f].pc \in {"gate", "session", "multitask", "pending", "submit"}

\* A due occurrence is run once over all instances: claims that race, that go stale
\* while the owner edits the task, and that are given back by a requeue never start
\* more runs than the schedule had instants (unless a manual run made the task due).
\* This needs few edits: a requeue compares next_run_at with the value its fire read, and
\* a PUT of the schedule can bring that very value back for another occurrence, so with
\* enough fires and edits in flight an instant is run twice (see BackgroundProofs).
OccurrenceFiresOnce ==
  early \/ ran + Cardinality({f \in Fires : Claimed(f)}) <= now

\* A fire that gives up, at whichever gate, leaves no empty session behind: without a
\* crash, a session whose fire is over has had its run, is deleted, or is left because
\* its DELETE failed.
NoEmptySession ==
  \A f \in Fires : fresh[f] = "created" => fire[f].pc \in {"multitask", "pending", "submit"}

\* An edit wins over the fires in flight: a fire changes next_run_at only while the
\* row is what it claimed, and makes a task due only if it may fire then.
FiresRespectEdits ==
  [][task'.next # task.next /\ edits' = edits =>
       /\ \E f \in Fires : fire[f].row.next = task.next
       /\ task.enabled /\ exists
       /\ task'.next > task.next \/ ~Expired(task'.next)]_schedVars

\* "so a rejected fire does not litter an empty session".  Violated: the DELETE fails,
\* for one because the fire's context has ended, and nothing tries it again.
NoSessionLeft == \A f \in Fires : fresh[f] # "left"

\* "an unclaimed FireNow must never touch next_run_at".  Violated: a manual fire that
\* waits on an interaction requeues its task.
ManualLeavesSchedule == ~early
=============================================================================
