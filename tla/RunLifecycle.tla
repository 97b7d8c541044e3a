---------------------------- MODULE RunLifecycle ----------------------------
(***************************************************************************)
(* The life of the runs of ONE session: internal/session/runtime.go        *)
(* (StartRun, AppendEvent, CompleteRunForRun, CancelRun,                   *)
(* RecoverStrandedRuns), internal/session/registry.go (Submit, execute,    *)
(* Cancel) and the run rows of internal/session/pgstore.go.  Everything    *)
(* in that code is keyed by the session, so one session is the whole       *)
(* interaction.                                                            *)
(*                                                                         *)
(* Processes: submitters (HTTP or schedule callers of Submit), one worker  *)
(* goroutine per launched run, cancellers (callers of Runtime.CancelRun),  *)
(* the Stop button (RunRegistry.Cancel), a deletion of the session, and    *)
(* crashes and restarts of a server instance.  A step between two          *)
(* acquisitions of a mutex or two database statements is one action.       *)
(***************************************************************************)
EXTENDS Naturals, FiniteSets

CONSTANTS
  Instances,         \* server processes sharing the database
  Submitters,        \* concurrent callers of RunRegistry.Submit
  Cancellers,        \* concurrent callers of Runtime.CancelRun
  Deleters,          \* callers of DELETE on the session (soft delete)
  Home,              \* the instance each of these callers talks to
  MaxRuns,           \* bound: run rows a behaviour may create
  MaxFaults,         \* bound: failed database statements (a dead connection,
                     \* or the request context of a client that went away)
  MaxCrashes,        \* bound: crashes of instances
  AllowPanic,        \* the loop or a tool may panic
  CancelWaitExpires  \* CancelRun's 100 ms registration wait may run out

Runs == 1..MaxRuns
NoRun == 0
Clients == Submitters \cup Cancellers \cup Deleters

\* Home on the checked instances: a load balancer that leaves no server idle.
Balanced == CHOOSE h \in [Clients -> Instances] : \A i \in Instances : \E c \in Clients : h[c] = i

ASSUME RunsAssumption == MaxRuns \in Nat \ {0}
ASSUME BoundsAssumption == MaxFaults \in Nat /\ MaxCrashes \in Nat
ASSUME HomeAssumption == Instances # {} /\ Home \in [Clients -> Instances]
ASSUME SwitchAssumption ==
  /\ AllowPanic \in BOOLEAN
  /\ CancelWaitExpires \in BOOLEAN

Active == {"queued", "running"}
Terminal == {"done", "failed", "cancelled"}

\* Lifecycle event kinds (the rows of run_events) that end a run.
TerminalKinds == {"done", "error", "cancelled"}
Kinds == {"running", "user"} \cup TerminalKinds

VARIABLES
  \* ------------------------------------------------- durable (PostgreSQL)
  row,        \* runs.status by run; a run is named by its per-session seq
  log,        \* run_events of a run: a set of [off, kind]
  ended,      \* sessions.status = 'ended'
  \* ------------------------------------------------- memory of an instance
  up,         \* the instance is running
  mem,        \* Runtime.runs[session].run, or NoRun
  memOff,     \* Runtime.runs[session].offset
  memCancel,  \* the run whose cancel func Runtime.runs[session].cancel is
  workers,    \* RunRegistry.workers[session], the registered worker's run
  \* ------------------------------------------------- goroutines
  spc, srun,          \* a submitter's control point and the run it creates
  wpc, whome,         \* a worker's control point and its instance
  ctxDone,            \* the run's context is cancelled
  outcome,            \* how Loop.Run returned: "nil", "error" or "panic"
  landed,             \* registryEmitter.cancelledPersisted
  status,             \* the terminal status execute computed
  hook,               \* the status the run-done hooks were called with
  cpc, crun, cfn,     \* a canceller: control point, captured run and cancel func
  dpc,                \* a deleter: between its Cancel and its UPDATE
  \* ------------------------------------------------- bounds
  faults, crashes

durable == <<row, log, ended>>
runtime == <<up, mem, memOff, memCancel, workers>>
submitter == <<spc, srun>>
worker == <<wpc, whome, outcome, landed, status, hook>>
canceller == <<cpc, crun, cfn>>
bounds == <<faults, crashes>>
vars == <<durable, runtime, submitter, worker, ctxDone, canceller, dpc, bounds>>

SubmitPC == {"idle", "checkMem", "checkStore", "nextSeq", "create", "markRunning",
             "register", "install", "registerCancel", "appendRunning",
             "appendUser", "launch"}
WorkerPC == {"none", "loop", "succeeding", "failing", "cancelling", "returned",
             "panicking", "compensate", "retry", "complete", "store", "hooks",
             "cleanup", "gone"}
CancelPC == {"idle", "wait", "interrupt", "complete", "store"}

TypeOK ==
  /\ row \in [Runs -> {"none"} \cup Active \cup Terminal]
  /\ log \in [Runs -> SUBSET [off : Nat, kind : Kinds]]
  /\ ended \in BOOLEAN
  /\ up \in [Instances -> BOOLEAN]
  /\ mem \in [Instances -> Runs \cup {NoRun}]
  /\ memOff \in [Instances -> Nat]
  /\ memCancel \in [Instances -> Runs \cup {NoRun}]
  /\ workers \in [Instances -> Runs \cup {NoRun}]
  /\ spc \in [Submitters -> SubmitPC]
  /\ srun \in [Submitters -> Runs \cup {NoRun}]
  /\ wpc \in [Runs -> WorkerPC]
  /\ whome \in [Runs -> Instances]
  /\ ctxDone \in [Runs -> BOOLEAN]
  /\ outcome \in [Runs -> {"none", "nil", "error", "panic"}]
  /\ landed \in [Runs -> BOOLEAN]
  /\ status \in [Runs -> {"none"} \cup Terminal]
  /\ hook \in [Runs -> {"none"} \cup Terminal]
  /\ cpc \in [Cancellers -> CancelPC]
  /\ crun \in [Cancellers -> Runs \cup {NoRun}]
  /\ cfn \in [Cancellers -> Runs \cup {NoRun}]
  /\ dpc \in [Deleters -> {"idle", "delete"}]
  /\ faults \in 0..MaxFaults
  /\ crashes \in 0..MaxCrashes

Init ==
  /\ row = [r \in Runs |-> "none"]
  /\ log = [r \in Runs |-> {}]
  /\ ended = FALSE
  /\ up = [i \in Instances |-> TRUE]
  /\ mem = [i \in Instances |-> NoRun]
  /\ memOff = [i \in Instances |-> 0]
  /\ memCancel = [i \in Instances |-> NoRun]
  /\ workers = [i \in Instances |-> NoRun]
  /\ spc = [p \in Submitters |-> "idle"]
  /\ srun = [p \in Submitters |-> NoRun]
  /\ wpc = [r \in Runs |-> "none"]
  /\ whome = [r \in Runs |-> CHOOSE i \in Instances : TRUE]
  /\ ctxDone = [r \in Runs |-> FALSE]
  /\ outcome = [r \in Runs |-> "none"]
  /\ landed = [r \in Runs |-> FALSE]
  /\ status = [r \in Runs |-> "none"]
  /\ hook = [r \in Runs |-> "none"]
  /\ cpc = [c \in Cancellers |-> "idle"]
  /\ crun = [c \in Cancellers |-> NoRun]
  /\ cfn = [c \in Cancellers |-> NoRun]
  /\ dpc = [d \in Deleters |-> "idle"]
  /\ faults = 0
  /\ crashes = 0

-----------------------------------------------------------------------------
(* Database statements.  A statement that fails does so because the        *)
(* connection or the statement's context died.                             *)

StatementOK == UNCHANGED faults
StatementFails == faults < MaxFaults /\ faults' = faults + 1

\* PGStore.ActiveRun, and the rows of the partial unique index.
ActiveRows == {r \in Runs : row[r] \in Active}

-----------------------------------------------------------------------------
(* AppendEvent for a lifecycle kind.  The offset comes from the counter of *)
(* the session's in-memory run, WHICHEVER run that is, else from the       *)
(* durable log (EventsAfter(run, 0) sees only offsets above 0).  The       *)
(* INSERT is rejected by UNIQUE(run_id, seq_offset); PGStore.AppendEvent   *)
(* can also fail after the INSERT, on the UPDATE that touches the session. *)

Offsets(r) == {e.off : e \in log[r]}
LoggedOffsets(r) == Offsets(r) \ {0}

Last(offs) == {o \in offs : \A q \in offs : q <= o}

\* The offset the event gets, as a set of one element.
NextOffset(i, r) ==
  IF mem[i] # NoRun THEN {memOff[i] + 1}
  ELSE IF LoggedOffsets(r) = {} THEN {0}
  ELSE {o + 1 : o \in Last(LoggedOffsets(r))}

Inserted(r, o, kind) == [log EXCEPT ![r] = @ \cup {[off |-> o, kind |-> kind]}]

AppendEvent(i, r, kind, ok) ==
  \E o \in NextOffset(i, r) :
    /\ memOff' = IF mem[i] # NoRun THEN [memOff EXCEPT ![i] = o] ELSE memOff
    /\ \/ /\ ok
          /\ o \notin Offsets(r)
          /\ log' = Inserted(r, o, kind)
          /\ StatementOK
       \/ /\ ~ok
          /\ o \in Offsets(r)
          /\ log' = log
          /\ StatementOK
       \/ /\ ~ok
          /\ StatementFails
          /\ \/ log' = log
             \/ o \notin Offsets(r) /\ log' = Inserted(r, o, kind)

-----------------------------------------------------------------------------
(* StartRun, on the caller's request context.                              *)

SubmitterAt(p, pc) == spc[p] = pc /\ up[Home[p]]
Goto(p, pc) == spc' = [spc EXCEPT ![p] = pc]

\* Every return of Submit; an error return of StartRun undoes nothing.
Return(p) == Goto(p, "idle") /\ srun' = [srun EXCEPT ![p] = NoRun]

GetSession(p) ==
  /\ SubmitterAt(p, "idle")
  /\ \/ StatementOK /\ Goto(p, IF ended THEN "idle" ELSE "checkMem") /\ UNCHANGED srun
     \/ StatementFails /\ Return(p)
  /\ UNCHANGED <<durable, runtime, worker, ctxDone, canceller, dpc, crashes>>

CheckMemory(p) ==
  /\ SubmitterAt(p, "checkMem")
  /\ Goto(p, IF mem[Home[p]] = NoRun THEN "checkStore" ELSE "idle")
  /\ UNCHANGED <<durable, runtime, srun, worker, ctxDone, canceller, dpc, bounds>>

CheckStore(p) ==
  /\ SubmitterAt(p, "checkStore")
  /\ \/ StatementOK /\ Goto(p, IF ActiveRows = {} THEN "nextSeq" ELSE "idle") /\ UNCHANGED srun
     \/ StatementFails /\ Return(p)
  /\ UNCHANGED <<durable, runtime, worker, ctxDone, canceller, dpc, crashes>>

\* Mutant: a number above every row, like a database sequence that skips.
NextSeqAbove(n) == \A r \in Runs : row[r] # "none" => r < n

\* MAX(seq) + 1, as two statements: another submitter may insert in between.
NextSeq(n) ==
  /\ \A r \in Runs : row[r] # "none" => r < n
  /\ n > 1 => row[n - 1] # "none"

NextRunSeq(p) ==
  /\ SubmitterAt(p, "nextSeq")
  /\ \/ \E n \in Runs : /\ NextSeq(n)
                        /\ srun' = [srun EXCEPT ![p] = n]
                        /\ Goto(p, "create")
                        /\ StatementOK
     \/ row[MaxRuns] # "none" /\ Return(p) /\ StatementOK    \* the bound on rows
     \/ StatementFails /\ Return(p)
  /\ UNCHANGED <<durable, runtime, worker, ctxDone, canceller, dpc, crashes>>

\* Mutant: without the partial unique index on active rows.
CreateConflictOnSeqOnly(n) == row[n] # "none"

\* The INSERT meets UNIQUE(session_id, seq) and the partial unique index on
\* active rows; either conflict is answered with ErrRunActive.
CreateConflict(n) == row[n] # "none" \/ ActiveRows # {}

CreateRun(p) ==
  LET n == srun[p] IN
  /\ SubmitterAt(p, "create")
  /\ \/ /\ CreateConflict(n)
        /\ Return(p)
        /\ StatementOK
        /\ UNCHANGED row
     \/ /\ ~CreateConflict(n)
        /\ row' = [row EXCEPT ![n] = "queued"]
        /\ \/ StatementOK /\ Goto(p, "markRunning") /\ UNCHANGED srun
           \/ StatementFails /\ Return(p)       \* inserted, answer lost
  /\ UNCHANGED <<log, ended, runtime, worker, ctxDone, canceller, dpc, crashes>>

\* UpdateRunStatus(run, running): a failure returns with the row queued.  The
\* partial unique index guards this UPDATE too: it fails when the row is no
\* longer active (failed by another instance's start) and another one is.
MarkRunning(p) ==
  /\ SubmitterAt(p, "markRunning")
  /\ \/ /\ ActiveRows \subseteq {srun[p]}
        /\ StatementOK
        /\ row' = [row EXCEPT ![srun[p]] = "running"]
        /\ Goto(p, "register")
        /\ UNCHANGED srun
     \/ /\ ~(ActiveRows \subseteq {srun[p]})
        /\ StatementOK
        /\ Return(p)
        /\ UNCHANGED row
     \/ /\ StatementFails
        /\ Return(p)
        /\ UNCHANGED row
  /\ UNCHANGED <<log, ended, runtime, worker, ctxDone, canceller, dpc, crashes>>

RegisterRun(p) ==
  LET i == Home[p] IN
  /\ SubmitterAt(p, "register")
  /\ mem' = [mem EXCEPT ![i] = srun[p]]
  /\ memOff' = [memOff EXCEPT ![i] = 0]
  /\ memCancel' = [memCancel EXCEPT ![i] = NoRun]
  /\ Goto(p, "install")
  /\ UNCHANGED <<durable, up, workers, srun, worker, ctxDone, canceller, dpc, bounds>>

-----------------------------------------------------------------------------
(* The rest of Submit, on the run's own context.                           *)

InstallWorker(p) ==
  /\ SubmitterAt(p, "install")
  /\ workers' = [workers EXCEPT ![Home[p]] = srun[p]]
  /\ Goto(p, "registerCancel")
  /\ UNCHANGED <<durable, up, mem, memOff, memCancel, srun, worker, ctxDone,
                 canceller, dpc, bounds>>

\* RegisterCancel looks the run state up by session, not by run.
RegisterCancel(p) ==
  LET i == Home[p] IN
  /\ SubmitterAt(p, "registerCancel")
  /\ memCancel' = IF mem[i] # NoRun THEN [memCancel EXCEPT ![i] = srun[p]] ELSE memCancel
  /\ Goto(p, "appendRunning")
  /\ UNCHANGED <<durable, up, mem, memOff, workers, srun, worker, ctxDone,
                 canceller, dpc, bounds>>

\* On a cancelled run context the offset is taken and the INSERT fails.
AppendOnRunContext(i, r, kind) ==
  IF ctxDone[r]
  THEN /\ memOff' = IF mem[i] # NoRun THEN [memOff EXCEPT ![i] = @ + 1] ELSE memOff
       /\ UNCHANGED <<log, faults>>
  ELSE \E ok \in BOOLEAN : AppendEvent(i, r, kind, ok)

AppendRunning(p) ==
  /\ SubmitterAt(p, "appendRunning")
  /\ AppendOnRunContext(Home[p], srun[p], "running")
  /\ \/ Goto(p, "appendUser")
     \/ Goto(p, "launch")                       \* the message has no text
  /\ UNCHANGED <<row, ended, up, mem, memCancel, workers, srun, worker, ctxDone,
                 canceller, dpc, crashes>>

AppendUser(p) ==
  /\ SubmitterAt(p, "appendUser")
  /\ AppendOnRunContext(Home[p], srun[p], "user")
  /\ Goto(p, "launch")
  /\ UNCHANGED <<row, ended, up, mem, memCancel, workers, srun, worker, ctxDone,
                 canceller, dpc, crashes>>

LaunchWorker(p) ==
  LET r == srun[p] IN
  /\ SubmitterAt(p, "launch")
  /\ wpc' = [wpc EXCEPT ![r] = "loop"]
  /\ whome' = [whome EXCEPT ![r] = Home[p]]
  /\ Return(p)
  /\ UNCHANGED <<durable, runtime, outcome, landed, status, hook, ctxDone,
                 canceller, dpc, bounds>>

-----------------------------------------------------------------------------
(* execute: the worker goroutine.  Loop.Run is abstracted to how it ends:  *)
(* succeedRun, failRun, cancelRun or a panic; each path first decides and  *)
(* then emits its terminal event through registryEmitter.Emit, which drops *)
(* an event whose context is cancelled (KindCancelled is emitted on a      *)
(* detached context).                                                      *)

WorkerAt(r, pc) == wpc[r] = pc /\ up[whome[r]]
WGoto(r, pc) == wpc' = [wpc EXCEPT ![r] = pc]

LoopEnds(r) ==
  /\ WorkerAt(r, "loop")
  /\ \/ WGoto(r, "succeeding")
     \/ WGoto(r, "failing")
     \/ ctxDone[r] /\ WGoto(r, "cancelling")
  /\ UNCHANGED <<durable, runtime, submitter, whome, outcome, landed, status, hook,
                 ctxDone, canceller, dpc, bounds>>

LoopPanics(r) ==
  /\ AllowPanic
  /\ WorkerAt(r, "loop")
  /\ WGoto(r, "panicking")
  /\ outcome' = [outcome EXCEPT ![r] = "panic"]
  /\ UNCHANGED <<durable, runtime, submitter, whome, landed, status, hook, ctxDone,
                 canceller, dpc, bounds>>

\* registryEmitter.Emit of KindDone or KindError: guarded by the run context.
EmitGuarded(r, kind) ==
  IF ctxDone[r] THEN UNCHANGED <<log, memOff, faults>>
  ELSE \E ok \in BOOLEAN : AppendEvent(whome[r], r, kind, ok)

EmitDone(r) ==
  /\ WorkerAt(r, "succeeding")
  /\ EmitGuarded(r, "done")
  /\ WGoto(r, "returned")
  /\ outcome' = [outcome EXCEPT ![r] = "nil"]
  /\ UNCHANGED <<row, ended, up, mem, memCancel, workers, submitter, whome, landed,
                 status, hook, ctxDone, canceller, dpc, crashes>>

EmitError(r) ==
  /\ WorkerAt(r, "failing")
  /\ EmitGuarded(r, "error")
  /\ WGoto(r, "returned")
  /\ outcome' = [outcome EXCEPT ![r] = "error"]
  /\ UNCHANGED <<row, ended, up, mem, memCancel, workers, submitter, whome, landed,
                 status, hook, ctxDone, canceller, dpc, crashes>>

EmitCancelled(r) ==
  /\ WorkerAt(r, "cancelling")
  /\ \E ok \in BOOLEAN : /\ AppendEvent(whome[r], r, "cancelled", ok)
                         /\ landed' = [landed EXCEPT ![r] = ok]
  /\ WGoto(r, "returned")
  /\ outcome' = [outcome EXCEPT ![r] = "error"]
  /\ UNCHANGED <<row, ended, up, mem, memCancel, workers, submitter, whome,
                 status, hook, ctxDone, canceller, dpc, crashes>>

\* The recover handler: KindError on a fresh context, then settle failed.
PanicAppend(r) ==
  /\ WorkerAt(r, "panicking")
  /\ \E ok \in BOOLEAN : AppendEvent(whome[r], r, "error", ok)
  /\ status' = [status EXCEPT ![r] = "failed"]
  /\ WGoto(r, "complete")
  /\ UNCHANGED <<row, ended, up, mem, memCancel, workers, submitter, whome, outcome,
                 landed, hook, ctxDone, canceller, dpc, crashes>>

\* Mutant: what the loop returned is stored as it is.
FinalStatusRaw(r) == outcome[r]

\* Cancelled beats failed when the context was cancelled.
FinalStatus(r) ==
  IF outcome[r] = "nil" THEN "done"
  ELSE IF ctxDone[r] THEN "cancelled" ELSE "failed"

\* Mutant: the worker never writes the compensating event.
DetermineStatusOnly(r) ==
  /\ WorkerAt(r, "returned")
  /\ status' = [status EXCEPT ![r] = FinalStatus(r)]
  /\ WGoto(r, "complete")
  /\ UNCHANGED <<durable, runtime, submitter, whome, outcome, landed, hook, ctxDone,
                 canceller, dpc, bounds>>

DetermineStatus(r) ==
  /\ WorkerAt(r, "returned")
  /\ status' = [status EXCEPT ![r] = FinalStatus(r)]
  /\ WGoto(r, IF FinalStatus(r) = "cancelled" /\ ~landed[r] THEN "compensate" ELSE "complete")
  /\ UNCHANGED <<durable, runtime, submitter, whome, outcome, landed, hook, ctxDone,
                 canceller, dpc, bounds>>

\* The compensating KindCancelled, retried once.
Compensate(r) ==
  /\ WorkerAt(r, "compensate")
  /\ \E ok \in BOOLEAN : /\ AppendEvent(whome[r], r, "cancelled", ok)
                         /\ WGoto(r, IF ok THEN "complete" ELSE "retry")
  /\ UNCHANGED <<row, ended, up, mem, memCancel, workers, submitter, whome, outcome,
                 landed, status, hook, ctxDone, canceller, dpc, crashes>>

CompensateRetry(r) ==
  /\ WorkerAt(r, "retry")
  /\ \E ok \in BOOLEAN : AppendEvent(whome[r], r, "cancelled", ok)
  /\ WGoto(r, "complete")
  /\ UNCHANGED <<row, ended, up, mem, memCancel, workers, submitter, whome, outcome,
                 landed, status, hook, ctxDone, canceller, dpc, crashes>>

\* CompleteRunForRun, first half: only the session's current run releases the
\* in-memory lock; for a stale completion the call is a no-op.
ReleasesLock(i, r) == mem[i] = r

\* Mutant: the run state stays in the map.
KeepLock(i) == UNCHANGED mem

ReleaseLock(i) == mem' = [mem EXCEPT ![i] = NoRun]

\* A panic skips the hooks: the recover handler is a deferred func.
AfterSettle(r) == IF outcome[r] = "panic" THEN "cleanup" ELSE "hooks"

\* Mutant: the lock is released and the row is forgotten.
CompleteReleaseOnly(r) ==
  LET i == whome[r] IN
  /\ WorkerAt(r, "complete")
  /\ IF ReleasesLock(i, r) THEN ReleaseLock(i) ELSE UNCHANGED mem
  /\ WGoto(r, AfterSettle(r))
  /\ UNCHANGED <<durable, up, memOff, memCancel, workers, submitter, whome, outcome,
                 landed, status, hook, ctxDone, canceller, dpc, bounds>>

Complete(r) ==
  LET i == whome[r] IN
  /\ WorkerAt(r, "complete")
  /\ IF ReleasesLock(i, r) THEN ReleaseLock(i) /\ WGoto(r, "store")
                           ELSE UNCHANGED mem /\ WGoto(r, AfterSettle(r))
  /\ UNCHANGED <<durable, up, memOff, memCancel, workers, submitter, whome, outcome,
                 landed, status, hook, ctxDone, canceller, dpc, bounds>>

\* Second half: UpdateRunStatus; its error is ignored by execute.
StoreStatus(r) ==
  /\ WorkerAt(r, "store")
  /\ \/ StatementOK /\ row' = [row EXCEPT ![r] = status[r]]
     \/ StatementFails /\ UNCHANGED row
  /\ WGoto(r, AfterSettle(r))
  /\ UNCHANGED <<log, ended, runtime, submitter, whome, outcome, landed, status, hook,
                 ctxDone, canceller, dpc, crashes>>

FireHooks(r) ==
  /\ WorkerAt(r, "hooks")
  /\ hook' = [hook EXCEPT ![r] = status[r]]
  /\ WGoto(r, "cleanup")
  /\ UNCHANGED <<durable, runtime, submitter, whome, outcome, landed, status, ctxDone,
                 canceller, dpc, bounds>>

\* Mutant: the deferred removal without the identity guard.
CleanupAnyWorker(r) ==
  /\ WorkerAt(r, "cleanup")
  /\ workers' = [workers EXCEPT ![whome[r]] = NoRun]
  /\ WGoto(r, "gone")
  /\ UNCHANGED <<durable, up, mem, memOff, memCancel, submitter, whome, outcome, landed,
                 status, hook, ctxDone, canceller, dpc, bounds>>

\* The deferred removal from RunRegistry.workers, guarded by identity.
Cleanup(r) ==
  LET i == whome[r] IN
  /\ WorkerAt(r, "cleanup")
  /\ workers' = IF workers[i] = r THEN [workers EXCEPT ![i] = NoRun] ELSE workers
  /\ WGoto(r, "gone")
  /\ UNCHANGED <<durable, up, mem, memOff, memCancel, submitter, whome, outcome, landed,
                 status, hook, ctxDone, canceller, dpc, bounds>>

-----------------------------------------------------------------------------
(* Stopping a run.                                                         *)

CancelWorker(i) ==
  ctxDone' = IF workers[i] = NoRun THEN ctxDone ELSE [ctxDone EXCEPT ![workers[i]] = TRUE]

\* RunRegistry.Cancel: the Stop button on instance i.
RegistryCancel(i) ==
  /\ up[i]
  /\ workers[i] # NoRun
  /\ ~ctxDone[workers[i]]
  /\ CancelWorker(i)
  /\ UNCHANGED <<durable, runtime, submitter, worker, canceller, dpc, bounds>>

CancellerAt(c, pc) == cpc[c] = pc /\ up[Home[c]]
CGoto(c, pc) == cpc' = [cpc EXCEPT ![c] = pc]
CReturn(c) ==
  /\ CGoto(c, "idle")
  /\ crun' = [crun EXCEPT ![c] = NoRun]
  /\ cfn' = [cfn EXCEPT ![c] = NoRun]

\* Runtime.CancelRun captures the run and its cancel func under the lock.
CancelRunCapture(c) ==
  LET i == Home[c] IN
  /\ CancellerAt(c, "idle")
  /\ mem[i] # NoRun
  /\ crun' = [crun EXCEPT ![c] = mem[i]]
  /\ cfn' = [cfn EXCEPT ![c] = memCancel[i]]
  /\ CGoto(c, IF memCancel[i] = NoRun THEN "wait" ELSE "interrupt")
  /\ UNCHANGED <<durable, runtime, submitter, worker, ctxDone, dpc, bounds>>

\* The identity-guarded wait for the cancel func; the last disjunct is the
\* 100 ms bound, after which the run is settled without being interrupted.
CancelRunWait(c) ==
  LET i == Home[c] IN
  /\ CancellerAt(c, "wait")
  /\ \/ /\ mem[i] = crun[c]
        /\ memCancel[i] # NoRun
        /\ cfn' = [cfn EXCEPT ![c] = memCancel[i]]
     \/ /\ mem[i] # crun[c] \/ CancelWaitExpires
        /\ UNCHANGED cfn
  /\ CGoto(c, "interrupt")
  /\ UNCHANGED <<durable, runtime, submitter, worker, ctxDone, crun, dpc, bounds>>

CancelRunInterrupt(c) ==
  /\ CancellerAt(c, "interrupt")
  /\ ctxDone' = IF cfn[c] = NoRun THEN ctxDone ELSE [ctxDone EXCEPT ![cfn[c]] = TRUE]
  /\ CGoto(c, "complete")
  /\ UNCHANGED <<durable, runtime, submitter, worker, crun, cfn, dpc, bounds>>

\* Mutant: CancelRun releases the lock and leaves the row to the worker.
CancelRunReleaseOnly(c) ==
  LET i == Home[c] IN
  /\ CancellerAt(c, "complete")
  /\ IF ReleasesLock(i, crun[c]) THEN ReleaseLock(i) ELSE UNCHANGED mem
  /\ CReturn(c)
  /\ UNCHANGED <<durable, up, memOff, memCancel, workers, submitter, worker, ctxDone,
                 dpc, bounds>>

CancelRunComplete(c) ==
  LET i == Home[c] IN
  /\ CancellerAt(c, "complete")
  /\ IF ReleasesLock(i, crun[c])
     THEN ReleaseLock(i) /\ CGoto(c, "store") /\ UNCHANGED <<crun, cfn>>
     ELSE UNCHANGED mem /\ CReturn(c)
  /\ UNCHANGED <<durable, up, memOff, memCancel, workers, submitter, worker, ctxDone,
                 dpc, bounds>>

CancelRunStore(c) ==
  /\ CancellerAt(c, "store")
  /\ \/ StatementOK /\ row' = [row EXCEPT ![crun[c]] = "cancelled"]
     \/ StatementFails /\ UNCHANGED row
  /\ CReturn(c)
  /\ UNCHANGED <<log, ended, runtime, submitter, worker, ctxDone, dpc, crashes>>

-----------------------------------------------------------------------------
(* Soft delete (serveDeleteSession): cancel the run in flight, then end    *)
(* the session.                                                            *)

DeleteCancel(d) ==
  /\ dpc[d] = "idle" /\ up[Home[d]]
  /\ ~ended
  /\ CancelWorker(Home[d])
  /\ dpc' = [dpc EXCEPT ![d] = "delete"]
  /\ UNCHANGED <<durable, runtime, submitter, worker, canceller, bounds>>

DeleteSessionForUser(d) ==
  /\ dpc[d] = "delete" /\ up[Home[d]]
  /\ dpc' = [dpc EXCEPT ![d] = "idle"]
  /\ \/ StatementOK /\ ended' = TRUE
     \/ StatementFails /\ UNCHANGED ended
  /\ UNCHANGED <<row, log, runtime, submitter, worker, ctxDone, canceller, crashes>>

-----------------------------------------------------------------------------
(* A crash takes an instance's memory and goroutines with it.  At the next *)
(* start RecoverStrandedRuns fails every non-terminal row before the       *)
(* instance serves; when it fails the server logs and serves anyway.       *)

Crash(i) ==
  /\ up[i]
  /\ crashes < MaxCrashes
  /\ crashes' = crashes + 1
  /\ up' = [up EXCEPT ![i] = FALSE]
  /\ mem' = [mem EXCEPT ![i] = NoRun]
  /\ memOff' = [memOff EXCEPT ![i] = 0]
  /\ memCancel' = [memCancel EXCEPT ![i] = NoRun]
  /\ workers' = [workers EXCEPT ![i] = NoRun]
  /\ spc' = [p \in Submitters |-> IF Home[p] = i THEN "idle" ELSE spc[p]]
  /\ srun' = [p \in Submitters |-> IF Home[p] = i THEN NoRun ELSE srun[p]]
  /\ wpc' = [r \in Runs |-> IF wpc[r] # "none" /\ whome[r] = i THEN "gone" ELSE wpc[r]]
  /\ cpc' = [c \in Cancellers |-> IF Home[c] = i THEN "idle" ELSE cpc[c]]
  /\ dpc' = [d \in Deleters |-> IF Home[d] = i THEN "idle" ELSE dpc[d]]
  /\ UNCHANGED <<durable, whome, outcome, landed, status, hook, ctxDone, crun, cfn, faults>>

\* Mutant: only running rows.
FailRunningRuns ==
  row' = [r \in Runs |-> IF row[r] = "running" THEN "failed" ELSE row[r]]

\* Mutant: every row of the table.
FailEveryRow ==
  row' = [r \in Runs |-> IF row[r] # "none" THEN "failed" ELSE row[r]]

FailStrandedRuns ==
  row' = [r \in Runs |-> IF row[r] \in Active THEN "failed" ELSE row[r]]

Restart(i) ==
  /\ ~up[i]
  /\ up' = [up EXCEPT ![i] = TRUE]
  /\ \/ StatementOK /\ FailStrandedRuns
     \/ StatementFails /\ UNCHANGED row
  /\ UNCHANGED <<log, ended, mem, memOff, memCancel, workers, submitter, worker, ctxDone,
                 canceller, dpc, crashes>>

-----------------------------------------------------------------------------
SubmitStep(p) ==
  \/ GetSession(p) \/ CheckMemory(p) \/ CheckStore(p) \/ NextRunSeq(p)
  \/ CreateRun(p) \/ MarkRunning(p) \/ RegisterRun(p)
  \/ InstallWorker(p) \/ RegisterCancel(p) \/ AppendRunning(p) \/ AppendUser(p)
  \/ LaunchWorker(p)

WorkerStep(r) ==
  \/ LoopEnds(r) \/ LoopPanics(r)
  \/ EmitDone(r) \/ EmitError(r) \/ EmitCancelled(r) \/ PanicAppend(r)
  \/ DetermineStatus(r) \/ Compensate(r) \/ CompensateRetry(r)
  \/ Complete(r) \/ StoreStatus(r) \/ FireHooks(r) \/ Cleanup(r)

CancelRunStep(c) ==
  \/ CancelRunCapture(c) \/ CancelRunWait(c) \/ CancelRunInterrupt(c)
  \/ CancelRunComplete(c) \/ CancelRunStore(c)

Next ==
  \/ \E p \in Submitters : SubmitStep(p)
  \/ \E r \in Runs : WorkerStep(r)
  \/ \E c \in Cancellers : CancelRunStep(c)
  \/ \E d \in Deleters : DeleteCancel(d) \/ DeleteSessionForUser(d)
  \/ \E i \in Instances : RegistryCancel(i) \/ Crash(i) \/ Restart(i)

Spec == Init /\ [][Next]_vars

\* Goroutines are scheduled; the loop's provider and tool calls are bounded by
\* timeouts and MaxIterations, so Loop.Run returns; a crashed server is restarted.
Fairness ==
  /\ \A r \in Runs : WF_vars(WorkerStep(r))
  /\ \A p \in Submitters : WF_vars(SubmitStep(p) /\ spc[p] # "idle")
  /\ \A c \in Cancellers : WF_vars(CancelRunStep(c) /\ cpc[c] # "idle")
  /\ \A i \in Instances : WF_vars(Restart(i))

FairSpec == Spec /\ Fairness

-----------------------------------------------------------------------------
(* Properties.                                                             *)

\* At most one run of the session is active, whatever the interleaving of
\* submitters on any number of instances between StartRun's check of the store
\* and its INSERT, with failed statements, crashes and restarts.
SingleActiveRun ==
  \A r1, r2 \in ActiveRows : r1 = r2

\* RunStatus.Terminal: a run that reached done, failed or cancelled never
\* changes state again, although UpdateRunStatus is an unconditional UPDATE and
\* a stale worker, a canceller and the startup reconciliation all issue it.
TerminalIsFinal ==
  [][\A r \in Runs : row[r] \in Terminal => row'[r] = row[r]]_vars

\* The worker is still driving the run: it has not reached CompleteRunForRun.
Executing(r) ==
  wpc[r] \in {"loop", "succeeding", "failing", "cancelling", "returned", "panicking",
              "compensate", "retry", "complete"}

\* Two loops of one session never run side by side unless one of them has been
\* told to stop (single writer of the conversation).
OneUncancelledLoop ==
  \A r1, r2 \in Runs :
    Executing(r1) /\ Executing(r2) /\ r1 # r2 => ctxDone[r1] \/ ctxDone[r2]

\* The Stop button always reaches the loop in flight: a run that executes and
\* was not told to stop is the one the registry's map names (a finished
\* worker's deferred cleanup never removes its successor), holds the in-memory
\* lock and is the active row.
StopReachesTheLoop ==
  \A r \in Runs :
    Executing(r) /\ ~ctxDone[r] =>
      /\ workers[whome[r]] = r
      /\ mem[whome[r]] = r
      /\ row[r] = "running"

\* Who will still settle run r.
Settler(r) ==
  \/ \E p \in Submitters : srun[p] = r /\ spc[p] \notin {"idle", "create"}
  \/ Executing(r)
  \/ wpc[r] = "store"
  \/ \E c \in Cancellers : crun[c] = r /\ cpc[c] = "store"

\* An active row always has somebody who will settle it, so a rejected
\* submission (ErrRunActive) is only ever rejected "until the active run
\* completes".
ActiveRowHasSettler ==
  (\A i \in Instances : up[i]) => \A r \in ActiveRows : Settler(r)

\* The worker of r is through CompleteRunForRun.
Settled(r) == wpc[r] \in {"hooks", "cleanup", "gone"}

KindOf(st) == CASE st = "done" -> "done" [] st = "failed" -> "error" [] OTHER -> "cancelled"

\* The terminal event is in the durable log by the time the worker has settled
\* the run with the status it computed: "the terminal event must land".  The
\* exception is a Stop that lands between the loop's last check and its
\* KindDone emit: see TerminalEventPrecedesSettle.
TerminalEventRecorded ==
  \A r \in Runs :
    faults = 0 /\ Settled(r) /\ row[r] = status[r] =>
      \/ \E e \in log[r] : e.kind = KindOf(status[r])
      \/ status[r] = "done" /\ ctxDone[r]

\* "the terminal lifecycle event is persisted to the durable log and published
\* before the run is marked settled", for every settled run.  Violated by a Stop
\* that arrives between the loop's last step and its done event.
TerminalEventPrecedesSettle ==
  \A r \in Runs : row[r] \in Terminal => \E e \in log[r] : e.kind \in TerminalKinds

\* A replay of the durable log shows the start of the run before its end, and
\* the cancelled frame once: the emitter and the worker's compensation never
\* both write it.
ReplayInOrder ==
  faults = 0 => \A r \in Runs : \A e, f \in log[r] :
    /\ e.kind \in TerminalKinds /\ f.kind \notin TerminalKinds => f.off < e.off
    /\ e.kind = "cancelled" /\ f.kind = "cancelled" => e = f

\* The run-done hooks (webhooks) report the status the run row ends with, and
\* fire for every run whose worker finished without a panic or a crash.
HooksReportTheStoredStatus ==
  \A r \in Runs :
    /\ faults = 0 /\ hook[r] # "none" => row[r] = hook[r]
    /\ crashes = 0 /\ wpc[r] = "gone" /\ outcome[r] # "panic" => hook[r] # "none"

\* The cancel func in the runtime's run state belongs to that run.
RegisteredCancelIsOwn ==
  \A i \in Instances : mem[i] # NoRun /\ memCancel[i] # NoRun => memCancel[i] = mem[i]

\* What a settled run leaves behind agrees: the row, the durable log in replay
\* order and what the hooks were told.
OutcomeRecorded == TerminalEventRecorded /\ ReplayInOrder /\ HooksReportTheStoredStatus

\* Stop and CancelRun find the run they mean: the loop in flight is the one the
\* registry and the run state name, and no late registration, cleanup or
\* completion of an older run takes its cancel func, its lock or its entry; so
\* two loops run side by side only once one of them was told to stop.
CancelFindsItsRun == OneUncancelledLoop /\ StopReachesTheLoop /\ RegisteredCancelIsOwn

\* Every run that got a row settles, across panics, stops, a crash and a
\* restart, unless a database statement failed on its way.
EveryRunSettles ==
  \A r \in Runs : row[r] \in Active ~> row[r] \in Terminal \/ faults > 0

Table == INSTANCE RunTable WITH table <- row

\* The run lifecycle implements the run table: through every interleaving of
\* submitters, workers, cancellers, failures, crashes and restarts the stored
\* rows are created one at a time under the next number, start once and settle
\* once.
ImplementsRunTable == Table!TableSpec

-----------------------------------------------------------------------------
(* Why TerminalIsFinal holds.  The right to write run r's status is a token *)
(* that passes from the submitter that inserted the row to the in-memory    *)
(* lock, and from the lock to the one caller of CompleteRunForRun that      *)
(* removed it.  LockInv says that a token's run is active and that no run   *)
(* has two tokens.                                                          *)

Starting(p) == spc[p] \in {"markRunning", "register"}

TokenHoldersAreActive ==
  /\ \A p \in Submitters : spc[p] = "markRunning" => row[srun[p]] = "queued"
  /\ \A p \in Submitters : spc[p] = "register" => row[srun[p]] = "running"
  /\ \A i \in Instances : mem[i] # NoRun => row[mem[i]] = "running"
  /\ \A r \in Runs : wpc[r] = "store" => row[r] = "running"
  /\ \A c \in Cancellers : cpc[c] = "store" => row[crun[c]] = "running"

OneTokenPerRun ==
  /\ \A p, q \in Submitters : Starting(p) /\ Starting(q) /\ srun[p] = srun[q] => p = q
  /\ \A p \in Submitters, i \in Instances : Starting(p) => mem[i] # srun[p]
  /\ \A p \in Submitters : Starting(p) => wpc[srun[p]] # "store"
  /\ \A p \in Submitters, c \in Cancellers :
       Starting(p) /\ cpc[c] = "store" => crun[c] # srun[p]
  /\ \A i, j \in Instances : mem[i] = mem[j] /\ mem[i] # NoRun => i = j
  /\ \A i \in Instances, r \in Runs : mem[i] = r => wpc[r] # "store"
  /\ \A i \in Instances, c \in Cancellers : cpc[c] = "store" => mem[i] # crun[c]
  /\ \A r \in Runs, c \in Cancellers : wpc[r] = "store" /\ cpc[c] = "store" => crun[c] # r
  /\ \A c, d \in Cancellers :
       cpc[c] = "store" /\ cpc[d] = "store" /\ crun[c] = crun[d] => c = d

\* A process that has a run in hand has a real one.
RunsInHand ==
  /\ \A p \in Submitters :
       spc[p] \notin {"idle", "checkMem", "checkStore", "nextSeq"} => srun[p] \in Runs
  /\ \A c \in Cancellers : cpc[c] # "idle" => crun[c] \in Runs

\* Nothing of an instance that is down is left, and only a crash takes one down.
DownIsEmpty ==
  \A i \in Instances : ~up[i] =>
    /\ crashes > 0
    /\ mem[i] = NoRun
    /\ \A p \in Submitters : Home[p] = i => spc[p] = "idle"
    /\ \A c \in Cancellers : Home[c] = i => cpc[c] = "idle"
    /\ \A r \in Runs : whome[r] = i => wpc[r] \in {"none", "gone"}

\* RecoverStrandedRuns' "single-instance assumption": an instance that starts
\* never finds rows of another instance's live runs.
NoForeignRestart == MaxCrashes = 0 \/ \A i, j \in Instances : i = j

\* The status of a run can only be written by the holder of its token.
LockInv == TokenHoldersAreActive /\ OneTokenPerRun /\ RunsInHand /\ DownIsEmpty

\* Rows are numbered without gaps, also for a submitter that read its number
\* before another one inserted: no row is ever removed.
SeqInv ==
  /\ \A r, q \in Runs : q < r /\ row[r] # "none" => row[q] # "none"
  /\ \A p \in Submitters, q \in Runs : spc[p] = "create" /\ q < srun[p] => row[q] # "none"

\* A worker that is about to settle its run has computed a terminal status.
StatusKnown ==
  \A r \in Runs : wpc[r] \in {"compensate", "retry", "complete", "store"} => status[r] \in Terminal

\* What the refinement rests on.
TableInv == LockInv /\ SeqInv /\ StatusKnown
=============================================================================
