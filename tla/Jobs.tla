--------------------------------- MODULE Jobs ---------------------------------
(***************************************************************************)
(* The periodic jobs of a server (internal/scheduler/scheduler.go): dream  *)
(* passes, sandbox reaping, retention, quota rollover.  A due job runs in  *)
(* a goroutine of its own, may outlast its interval, fail or panic.        *)
(***************************************************************************)
EXTENDS Naturals

CONSTANTS JobNames, MaxInterval

VARIABLES
  sphase,      \* "new", "started", "stopping" or "stopped"
  age,         \* ticks since lastRun, up to the longest interval
  interval,    \* Job.Interval, retuned live
  inflight,    \* the in-flight marks
  running      \* goroutines that execute the job

jobVars == <<sphase, age, interval, inflight, running>>

JobsTypeOK ==
  /\ sphase \in {"new", "started", "stopping", "stopped"}
  /\ age \in [JobNames -> 0..MaxInterval]
  /\ interval \in [JobNames -> 1..MaxInterval]
  /\ inflight \subseteq JobNames
  /\ running \in [JobNames -> Nat]

\* New refuses a job without a positive interval.
JobsInit ==
  /\ sphase = "new"
  /\ age = [j \in JobNames |-> 0]
  /\ interval \in [JobNames -> 1..MaxInterval]
  /\ inflight = {}
  /\ running = [j \in JobNames |-> 0]

\* Mutant: a job that still runs is due like any other.
FreeAlways(j) == TRUE

Free(j) == j \notin inflight

\* markDueLocked and dispatch: stamp, mark and start.
MarkDue(due, aged) ==
  /\ age' = [j \in JobNames |-> IF j \in due THEN 0 ELSE aged[j]]
  /\ inflight' = inflight \cup due
  /\ running' = [j \in JobNames |-> IF j \in due THEN running[j] + 1 ELSE running[j]]

\* catchUp: every job that never ran.
CatchUp ==
  /\ sphase = "new"
  /\ sphase' = "started"
  /\ MarkDue(JobNames, age)
  /\ UNCHANGED interval

\* One tick of the loop.
RunDue ==
  LET aged == [j \in JobNames |-> IF age[j] < MaxInterval THEN age[j] + 1 ELSE age[j]] IN
  /\ sphase = "started"
  /\ MarkDue({j \in JobNames : aged[j] >= interval[j] /\ Free(j)}, aged)
  /\ UNCHANGED <<sphase, interval>>

SetInterval(j, d) ==
  /\ sphase = "started"
  /\ interval' = [interval EXCEPT ![j] = d]
  /\ UNCHANGED <<sphase, age, inflight, running>>

\* run returns: the job succeeded, failed or panicked.
Run(j) ==
  /\ running[j] > 0
  /\ running' = [running EXCEPT ![j] = @ - 1]
  /\ inflight' = inflight \ {j}
  /\ UNCHANGED <<sphase, age, interval>>

Shutdown ==
  /\ sphase = "started"
  /\ sphase' = "stopping"
  /\ UNCHANGED <<age, interval, inflight, running>>

\* Start returns when the jobs are done or after stopTimeout.
StartReturns ==
  /\ sphase = "stopping"
  /\ sphase' = "stopped"
  /\ UNCHANGED <<age, interval, inflight, running>>

JobsNext ==
  \/ CatchUp \/ RunDue \/ Shutdown \/ StartReturns
  \/ \E j \in JobNames : Run(j) \/ \E d \in 1..MaxInterval : SetInterval(j, d)

JobsSpec == JobsInit /\ [][JobsNext]_jobVars

-----------------------------------------------------------------------------
(* Properties.                                                             *)

\* "Runs never overlap for the same job", however long it takes and however its
\* interval is retuned.
NoOverlap == \A j \in JobNames : running[j] <= 1

\* A job that ended, also by a panic, is started again while the server is up.
JobRunsAgain ==
  \A j \in JobNames : sphase = "started" ~> (running[j] = 1 \/ sphase # "started")
=============================================================================
