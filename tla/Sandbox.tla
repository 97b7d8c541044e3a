-------------------------------- MODULE Sandbox --------------------------------
(***************************************************************************)
(* The sandbox of one session (sandbox/manager.go over the docker or the   *)
(* local port).  A request ensures it while its tools are bound, before it *)
(* takes the session's run lock; the run-done hook starts the grace period *)
(* and the hourly sweep destroys what is past it (docker only).  Every use *)
(* of the manager's lock is one step; Create and Destroy run outside it.   *)
(***************************************************************************)
EXTENDS Integers, FiniteSets

CONSTANTS
  Reqs,           \* requests that may start a run
  MaxContainers,  \* bound on containers created
  MaxFailedStarts \* bound on ContainerStart failures

Backends == {"docker", "local"}
Containers == 1..MaxContainers
None == 0

VARIABLES
  backend,
  entry,      \* active[session]: [st, h, due]
  alive,      \* containers that exist (docker), {} or one name holder
  files,      \* the session's workspace is intact
  made,       \* containers created so far
  sreq,       \* request -> [at, h, old]
  sweep,      \* [at, h]
  failedStarts

sandVars == <<backend, entry, alive, files, made, sreq, sweep, failedStarts>>

NoEntry == [st |-> "none", h |-> None, due |-> FALSE]

SandTypeOK ==
  /\ backend \in Backends /\ files \in BOOLEAN
  /\ entry \in [st : {"none", "running", "stopped"}, h : Containers \cup {None}, due : BOOLEAN]
  /\ alive \subseteq Containers /\ made \in 0..MaxContainers /\ failedStarts \in 0..MaxFailedStarts
  /\ sreq \in [Reqs -> [at : {"idle", "destroy", "create", "store", "bound", "running", "ended", "done"},
                        h : Containers \cup {None}, old : Containers \cup {None}]]
  /\ sweep \in [at : {"idle", "doomed", "destroy", "delete"}, h : Containers \cup {None}]

SandInit ==
  /\ backend \in Backends
  /\ entry = NoEntry /\ alive = {} /\ files = TRUE /\ made = 0 /\ failedStarts = 0
  /\ sreq = [r \in Reqs |-> [at |-> "idle", h |-> None, old |-> None]]
  /\ sweep = [at |-> "idle", h |-> None]

RecreateNeedsDestroy == backend = "docker"

(* Manager.Ensure *)
EnsureLook(r) ==
  /\ sreq[r].at = "idle"
  /\ sreq' = [sreq EXCEPT ![r] =
       IF entry.st = "running" THEN [at |-> "bound", h |-> entry.h, old |-> None]
       ELSE [at |-> IF entry.st # "none" /\ RecreateNeedsDestroy THEN "destroy" ELSE "create",
             h |-> None, old |-> entry.h]]
  /\ UNCHANGED <<backend, entry, alive, files, made, sweep, failedStarts>>

\* Port.Destroy: the local one removes the workspace directory.
Destroy(h) ==
  /\ alive' = alive \ {h}
  /\ files' = (files /\ backend # "local")

EnsureDestroy(r) ==
  /\ sreq[r].at = "destroy" /\ Destroy(sreq[r].old)
  /\ sreq' = [sreq EXCEPT ![r].at = "create"]
  /\ UNCHANGED <<backend, entry, made, sweep, failedStarts>>

\* Port.Create: a docker container is named after the session, so it conflicts
\* with one that exists, and a container that fails to start keeps the name.
\* Without a sandbox the run goes on without file tools.
EnsureCreate(r) ==
  /\ sreq[r].at = "create" /\ made < MaxContainers
  /\ IF backend = "docker" /\ alive # {}
     THEN sreq' = [sreq EXCEPT ![r].at = "bound"] /\ UNCHANGED <<alive, made>>
     ELSE /\ made' = made + 1
          /\ alive' = IF backend = "docker" THEN alive \cup {made'} ELSE alive
          /\ sreq' = [sreq EXCEPT ![r].at = "store", ![r].h = made']
  /\ UNCHANGED <<backend, entry, files, sweep, failedStarts>>

EnsureStartFails(r) ==
  /\ sreq[r].at = "create" /\ backend = "docker" /\ alive = {} /\ made < MaxContainers
  /\ failedStarts < MaxFailedStarts /\ failedStarts' = failedStarts + 1
  /\ made' = made + 1 /\ alive' = {made'}
  /\ sreq' = [sreq EXCEPT ![r].at = "bound"]
  /\ UNCHANGED <<backend, entry, files, sweep>>

EnsureStore(r) ==
  /\ sreq[r].at = "store"
  /\ entry' = [st |-> "running", h |-> sreq[r].h, due |-> FALSE]
  /\ sreq' = [sreq EXCEPT ![r].at = "bound"]
  /\ UNCHANGED <<backend, alive, files, made, sweep, failedStarts>>

\* Runtime.Submit: one run per session, another one is refused.
SubmitRun(r) ==
  /\ sreq[r].at = "bound"
  /\ sreq' = [sreq EXCEPT ![r].at = IF \E q \in Reqs : sreq[q].at = "running" THEN "done" ELSE "running"]
  /\ UNCHANGED <<backend, entry, alive, files, made, sweep, failedStarts>>

RunEnds(r) ==
  /\ sreq[r].at = "running" /\ sreq' = [sreq EXCEPT ![r].at = "ended"]
  /\ UNCHANGED <<backend, entry, alive, files, made, sweep, failedStarts>>

\* The run-done hook: Manager.MarkSessionEnded.
MarkSessionEnded(r) ==
  /\ sreq[r].at = "ended" /\ sreq' = [sreq EXCEPT ![r].at = "done"]
  /\ entry' = IF entry.st = "running" THEN [entry EXCEPT !.st = "stopped"] ELSE entry
  /\ UNCHANGED <<backend, alive, files, made, sweep, failedStarts>>

GraceEnds ==
  /\ entry.st = "stopped" /\ ~entry.due /\ entry' = [entry EXCEPT !.due = TRUE]
  /\ UNCHANGED <<backend, alive, files, made, sreq, sweep, failedStarts>>

(* Manager.Sweep *)
SweepCollect ==
  /\ sweep.at = "idle" /\ backend = "docker" /\ entry.st = "stopped" /\ entry.due
  /\ sweep' = [at |-> "doomed", h |-> None]
  /\ UNCHANGED <<backend, entry, alive, files, made, sreq, failedStarts>>

SweepReread ==
  /\ sweep.at = "doomed"
  /\ sweep' = IF entry.st = "none" THEN [at |-> "idle", h |-> None] ELSE [at |-> "destroy", h |-> entry.h]
  /\ UNCHANGED <<backend, entry, alive, files, made, sreq, failedStarts>>

\* Removing a container that is gone is an error and keeps the entry.
SweepDestroy ==
  /\ sweep.at = "destroy" /\ Destroy(sweep.h)
  /\ sweep' = IF sweep.h \in alive THEN [sweep EXCEPT !.at = "delete"] ELSE [at |-> "idle", h |-> None]
  /\ UNCHANGED <<backend, entry, made, sreq, failedStarts>>

SweepDelete ==
  /\ sweep.at = "delete" /\ sweep' = [at |-> "idle", h |-> None] /\ entry' = NoEntry
  /\ UNCHANGED <<backend, alive, files, made, sreq, failedStarts>>

Sweep == SweepCollect \/ SweepReread \/ SweepDestroy \/ SweepDelete
ReqStep(r) ==
  \/ EnsureLook(r) \/ EnsureDestroy(r) \/ EnsureCreate(r) \/ EnsureStartFails(r) \/ EnsureStore(r)
  \/ SubmitRun(r) \/ RunEnds(r) \/ MarkSessionEnded(r)

SandNext == (\E r \in Reqs : ReqStep(r)) \/ GraceEnds \/ Sweep

SandSpec == SandInit /\ [][SandNext]_sandVars /\ WF_sandVars(GraceEnds) /\ WF_sandVars(Sweep)

\* The local backend never removes the session's files: resuming inside the
\* grace period replaces the handle and keeps the directory.
ResumeKeepsFiles == files

Quiet == sweep.at = "idle" /\ \A r \in Reqs : sreq[r].at = "done"

\* Once the session is quiet, its stopped container does not outlive the grace
\* period.
EndedIsReaped ==
  \A c \in Containers : Quiet /\ entry.st = "stopped" /\ entry.h = c /\ c \in alive ~> c \notin alive

\* A run that was given a sandbox keeps it until it ends: the sweep only takes
\* those "whose deferred-stop deadline has passed".  Violated: the run-done hook of
\* an earlier run stops the entry that a later request has just been given.
RunKeepsItsSandbox ==
  \A r \in Reqs : backend = "docker" /\ sreq[r].at = "running" /\ sreq[r].h # None => sreq[r].h \in alive
=============================================================================
