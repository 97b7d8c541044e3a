------------------------- MODULE RunLifecycleProofs -------------------------
(***************************************************************************)
(* Proofs about RunLifecycle, for every number of instances, submitters,   *)
(* cancellers, runs, statement failures and crashes: types, tokens and     *)
(* the refinement; then who drives a run, that a Stop or a CancelRun       *)
(* reaches the loop it means, and what a settled run leaves behind.        *)
(***************************************************************************)
EXTENDS RunLifecycle, TLAPS

USE RunsAssumption, BoundsAssumption, HomeAssumption, SwitchAssumption

-----------------------------------------------------------------------------
(* AppendEvent changes only the log, an offset counter and the faults.     *)

\* What an append may do to the typed state.
LEMMA AppendType ==
  ASSUME TypeOK, NEW i \in Instances, NEW r \in Runs, NEW kind \in Kinds,
         NEW ok \in BOOLEAN, AppendEvent(i, r, kind, ok)
  PROVE  /\ log' \in [Runs -> SUBSET [off : Nat, kind : Kinds]]
         /\ memOff' \in [Instances -> Nat]
         /\ faults' \in 0..MaxFaults
<1>1. \A e \in log[r] : e.off \in Nat
  BY DEF TypeOK
<1>2. LoggedOffsets(r) \subseteq Nat
  BY <1>1 DEF LoggedOffsets, Offsets
<1>3. NextOffset(i, r) \subseteq Nat
  BY <1>2 DEF NextOffset, Last, TypeOK
<1>4. PICK o \in NextOffset(i, r) :
        /\ memOff' = IF mem[i] # NoRun THEN [memOff EXCEPT ![i] = o] ELSE memOff
        /\ \/ StatementOK \/ StatementFails
        /\ \/ log' = log \/ log' = Inserted(r, o, kind)
  BY DEF AppendEvent
<1>5. o \in Nat
  BY <1>3
<1>6. Inserted(r, o, kind) \in [Runs -> SUBSET [off : Nat, kind : Kinds]]
  BY <1>5 DEF Inserted, TypeOK
<1>7. QED
  BY <1>4, <1>5, <1>6 DEF TypeOK, StatementOK, StatementFails

-----------------------------------------------------------------------------
(* Type correctness.                                                       *)

USE DEF durable, runtime, submitter, worker, canceller, bounds, vars

\* The appends of a submitter and of a worker, on a live or a dead context.
LEMMA AppendOnRunContextType ==
  ASSUME TypeOK, NEW i \in Instances, NEW r \in Runs, NEW kind \in Kinds,
         AppendOnRunContext(i, r, kind)
  PROVE  /\ log' \in [Runs -> SUBSET [off : Nat, kind : Kinds]]
         /\ memOff' \in [Instances -> Nat]
         /\ faults' \in 0..MaxFaults
<1>1. CASE ctxDone[r]
  BY <1>1 DEF AppendOnRunContext, TypeOK
<1>2. CASE ~ctxDone[r]
  BY <1>2, AppendType DEF AppendOnRunContext
<1>3. QED
  BY <1>1, <1>2

\* The appends of the loop's emitter, behind its context guard.
LEMMA EmitGuardedType ==
  ASSUME TypeOK, NEW r \in Runs, NEW kind \in Kinds, EmitGuarded(r, kind)
  PROVE  /\ log' \in [Runs -> SUBSET [off : Nat, kind : Kinds]]
         /\ memOff' \in [Instances -> Nat]
         /\ faults' \in 0..MaxFaults
<1>1. CASE ctxDone[r]
  BY <1>1 DEF EmitGuarded, TypeOK
<1>2. CASE ~ctxDone[r]
  <2>1. whome[r] \in Instances
    BY DEF TypeOK
  <2>2. QED
    BY <1>2, <2>1, AppendType DEF EmitGuarded
<1>3. QED
  BY <1>1, <1>2

\* Every step of a submitter keeps the types.
LEMMA SubmitStepType ==
  ASSUME TypeOK, RunsInHand, NEW p \in Submitters, SubmitStep(p)
  PROVE  TypeOK'
<1>a. /\ \A pc \in SubmitPC : Goto(p, pc) => spc' \in [Submitters -> SubmitPC]
      /\ Return(p) => /\ spc' \in [Submitters -> SubmitPC]
                      /\ srun' \in [Submitters -> Runs \cup {NoRun}]
      /\ StatementOK \/ StatementFails => faults' \in 0..MaxFaults
  <2>1. \A pc \in SubmitPC : Goto(p, pc) => spc' \in [Submitters -> SubmitPC]
    BY DEF TypeOK, Goto
  <2>2. Return(p) => srun' \in [Submitters -> Runs \cup {NoRun}]
    BY DEF TypeOK, Return
  <2>3. Return(p) => Goto(p, "idle") /\ "idle" \in SubmitPC
    BY DEF Return, SubmitPC
  <2>4. StatementOK \/ StatementFails => faults' \in 0..MaxFaults
    BY DEF TypeOK, StatementOK, StatementFails
  <2>5. QED
    BY <2>1, <2>2, <2>3, <2>4
<1>b. {"idle", "checkMem", "checkStore", "nextSeq", "create"} \subseteq SubmitPC
  BY DEF SubmitPC
<1>1. CASE GetSession(p)
  <2>1. /\ spc' \in [Submitters -> SubmitPC] /\ srun' \in [Submitters -> Runs \cup {NoRun}]
        /\ faults' \in 0..MaxFaults
    BY <1>1, <1>a, <1>b DEF GetSession, TypeOK
  <2>2. QED
    BY <1>1, <2>1 DEF GetSession, TypeOK, durable, runtime, worker, canceller
<1>2. CASE CheckMemory(p)
  BY <1>2, <1>a, <1>b DEF CheckMemory, TypeOK, durable, runtime, worker, canceller, bounds
<1>3. CASE CheckStore(p)
  <2>1. /\ spc' \in [Submitters -> SubmitPC] /\ srun' \in [Submitters -> Runs \cup {NoRun}]
        /\ faults' \in 0..MaxFaults
    BY <1>3, <1>a, <1>b DEF CheckStore, TypeOK
  <2>2. QED
    BY <1>3, <2>1 DEF CheckStore, TypeOK, durable, runtime, worker, canceller
<1>4. CASE NextRunSeq(p)
  <2>1. /\ spc' \in [Submitters -> SubmitPC] /\ srun' \in [Submitters -> Runs \cup {NoRun}]
        /\ faults' \in 0..MaxFaults
    BY <1>4, <1>a, <1>b DEF NextRunSeq, TypeOK
  <2>2. QED
    BY <1>4, <2>1 DEF NextRunSeq, TypeOK, durable, runtime, worker, canceller
<1>5. CASE CreateRun(p)
  <2>1. row' \in [Runs -> {"none"} \cup Active \cup Terminal]
    BY <1>5 DEF CreateRun, TypeOK, Active
  <2>2. spc' \in [Submitters -> SubmitPC] /\ srun' \in [Submitters -> Runs \cup {NoRun}]
    BY <1>5 DEF CreateRun, TypeOK, Goto, Return, SubmitPC
  <2>3. faults' \in 0..MaxFaults
    BY <1>5 DEF CreateRun, TypeOK, StatementOK, StatementFails
  <2>4. QED
    BY <1>5, <2>1, <2>2, <2>3 DEF CreateRun, TypeOK
<1>6. CASE MarkRunning(p)
  <2>1. row' \in [Runs -> {"none"} \cup Active \cup Terminal]
    BY <1>6 DEF MarkRunning, TypeOK, Active
  <2>2. spc' \in [Submitters -> SubmitPC] /\ srun' \in [Submitters -> Runs \cup {NoRun}]
    BY <1>6 DEF MarkRunning, TypeOK, Goto, Return, SubmitPC
  <2>3. faults' \in 0..MaxFaults
    BY <1>6 DEF MarkRunning, TypeOK, StatementOK, StatementFails
  <2>4. QED
    BY <1>6, <2>1, <2>2, <2>3 DEF MarkRunning, TypeOK
<1>7. CASE RegisterRun(p)
  BY <1>7 DEF RegisterRun, TypeOK, Goto, SubmitPC, Clients
<1>8. CASE InstallWorker(p)
  BY <1>8 DEF InstallWorker, TypeOK, Goto, SubmitPC, Clients
<1>9. CASE RegisterCancel(p)
  BY <1>9 DEF RegisterCancel, TypeOK, Goto, SubmitPC, Clients
<1>10. CASE AppendRunning(p)
  <2>1. srun[p] \in Runs /\ Home[p] \in Instances /\ "running" \in Kinds
    BY <1>10 DEF RunsInHand, AppendRunning, SubmitterAt, Clients, Kinds
  <2>2. AppendOnRunContext(Home[p], srun[p], "running")
    BY <1>10 DEF AppendRunning
  <2>3. /\ log' \in [Runs -> SUBSET [off : Nat, kind : Kinds]]
        /\ memOff' \in [Instances -> Nat]
        /\ faults' \in 0..MaxFaults
    BY <2>1, <2>2, AppendOnRunContextType
  <2>4. QED
    BY <1>10, <2>3 DEF AppendRunning, TypeOK, Goto, SubmitPC
<1>11. CASE AppendUser(p)
  <2>1. srun[p] \in Runs /\ Home[p] \in Instances /\ "user" \in Kinds
    BY <1>11 DEF RunsInHand, AppendUser, SubmitterAt, Clients, Kinds
  <2>2. AppendOnRunContext(Home[p], srun[p], "user")
    BY <1>11 DEF AppendUser
  <2>3. /\ log' \in [Runs -> SUBSET [off : Nat, kind : Kinds]]
        /\ memOff' \in [Instances -> Nat]
        /\ faults' \in 0..MaxFaults
    BY <2>1, <2>2, AppendOnRunContextType
  <2>4. QED
    BY <1>11, <2>3 DEF AppendUser, TypeOK, Goto, SubmitPC
<1>12. CASE LaunchWorker(p)
  BY <1>12 DEF LaunchWorker, TypeOK, Goto, Return, SubmitPC, WorkerPC, Clients
<1>13. QED
  BY <1>1, <1>2, <1>3, <1>4, <1>5, <1>6, <1>7, <1>8, <1>9, <1>10, <1>11, <1>12 DEF SubmitStep

\* Every step of a worker keeps the types.
LEMMA WorkerStepType ==
  ASSUME TypeOK, RunsInHand, NEW r \in Runs, WorkerStep(r)
  PROVE  TypeOK'
<1>1. CASE LoopEnds(r)
  BY <1>1 DEF LoopEnds, TypeOK, WGoto, WorkerPC
<1>2. CASE LoopPanics(r)
  BY <1>2 DEF LoopPanics, TypeOK, WGoto, WorkerPC
<1>3. CASE EmitDone(r)
  <2>1. /\ log' \in [Runs -> SUBSET [off : Nat, kind : Kinds]]
        /\ memOff' \in [Instances -> Nat]
        /\ faults' \in 0..MaxFaults
    BY <1>3, EmitGuardedType DEF EmitDone, Kinds, TerminalKinds
  <2>2. QED
    BY <1>3, <2>1 DEF EmitDone, TypeOK, WGoto, WorkerPC
<1>4. CASE EmitError(r)
  <2>1. /\ log' \in [Runs -> SUBSET [off : Nat, kind : Kinds]]
        /\ memOff' \in [Instances -> Nat]
        /\ faults' \in 0..MaxFaults
    BY <1>4, EmitGuardedType DEF EmitError, Kinds, TerminalKinds
  <2>2. QED
    BY <1>4, <2>1 DEF EmitError, TypeOK, WGoto, WorkerPC
<1>5. CASE EmitCancelled(r)
  <2>1. whome[r] \in Instances /\ "cancelled" \in Kinds
    BY DEF TypeOK, Kinds, TerminalKinds
  <2>2. PICK ok \in BOOLEAN : AppendEvent(whome[r], r, "cancelled", ok)
    BY <1>5 DEF EmitCancelled
  <2>3. /\ log' \in [Runs -> SUBSET [off : Nat, kind : Kinds]]
        /\ memOff' \in [Instances -> Nat]
        /\ faults' \in 0..MaxFaults
    BY <2>1, <2>2, AppendType
  <2>4. QED
    BY <1>5, <2>3 DEF EmitCancelled, TypeOK, WGoto, WorkerPC, Terminal
<1>6. CASE PanicAppend(r)
  <2>1. whome[r] \in Instances /\ "error" \in Kinds
    BY DEF TypeOK, Kinds, TerminalKinds
  <2>2. PICK ok \in BOOLEAN : AppendEvent(whome[r], r, "error", ok)
    BY <1>6 DEF PanicAppend
  <2>3. /\ log' \in [Runs -> SUBSET [off : Nat, kind : Kinds]]
        /\ memOff' \in [Instances -> Nat]
        /\ faults' \in 0..MaxFaults
    BY <2>1, <2>2, AppendType
  <2>4. QED
    BY <1>6, <2>3 DEF PanicAppend, TypeOK, WGoto, WorkerPC, Terminal
<1>7. CASE DetermineStatus(r)
  BY <1>7 DEF DetermineStatus, TypeOK, WGoto, WorkerPC, FinalStatus, Terminal
<1>8. CASE Compensate(r)
  <2>1. whome[r] \in Instances /\ "cancelled" \in Kinds
    BY DEF TypeOK, Kinds, TerminalKinds
  <2>2. PICK ok \in BOOLEAN : AppendEvent(whome[r], r, "cancelled", ok)
    BY <1>8 DEF Compensate
  <2>3. /\ log' \in [Runs -> SUBSET [off : Nat, kind : Kinds]]
        /\ memOff' \in [Instances -> Nat]
        /\ faults' \in 0..MaxFaults
    BY <2>1, <2>2, AppendType
  <2>4. QED
    BY <1>8, <2>3 DEF Compensate, TypeOK, WGoto, WorkerPC, Terminal
<1>9. CASE CompensateRetry(r)
  <2>1. whome[r] \in Instances /\ "cancelled" \in Kinds
    BY DEF TypeOK, Kinds, TerminalKinds
  <2>2. PICK ok \in BOOLEAN : AppendEvent(whome[r], r, "cancelled", ok)
    BY <1>9 DEF CompensateRetry
  <2>3. /\ log' \in [Runs -> SUBSET [off : Nat, kind : Kinds]]
        /\ memOff' \in [Instances -> Nat]
        /\ faults' \in 0..MaxFaults
    BY <2>1, <2>2, AppendType
  <2>4. QED
    BY <1>9, <2>3 DEF CompensateRetry, TypeOK, WGoto, WorkerPC, Terminal
<1>10. CASE Complete(r)
  BY <1>10 DEF Complete, TypeOK, WGoto, WorkerPC, ReleaseLock, AfterSettle
<1>11. CASE StoreStatus(r)
  BY <1>11 DEF StoreStatus, TypeOK, WGoto, WorkerPC, StatementOK, StatementFails, AfterSettle
<1>12. CASE FireHooks(r)
  BY <1>12 DEF FireHooks, TypeOK, WGoto, WorkerPC
<1>13. CASE Cleanup(r)
  BY <1>13 DEF Cleanup, TypeOK, WGoto, WorkerPC
<1>14. QED
  BY <1>1, <1>2, <1>3, <1>4, <1>5, <1>6, <1>7, <1>8, <1>9, <1>10, <1>11, <1>12, <1>13 DEF WorkerStep

\* Every step of a canceller keeps the types.
LEMMA CancelRunStepType ==
  ASSUME TypeOK, RunsInHand, NEW c \in Cancellers, CancelRunStep(c)
  PROVE  TypeOK'
<1>1. CASE CancelRunCapture(c)
  <2>1. Home[c] \in Instances
    BY DEF Clients
  <2>2. mem[Home[c]] \in Runs \cup {NoRun} /\ memCancel[Home[c]] \in Runs \cup {NoRun}
    BY <2>1 DEF TypeOK
  <2>3. QED
    BY <1>1, <2>2 DEF CancelRunCapture, TypeOK, CGoto, CancelPC
<1>2. CASE CancelRunWait(c)
  <2>1. memCancel[Home[c]] \in Runs \cup {NoRun}
    BY DEF TypeOK, Clients
  <2>2. cfn' \in [Cancellers -> Runs \cup {NoRun}]
    BY <1>2, <2>1 DEF CancelRunWait, TypeOK
  <2>3. cpc' \in [Cancellers -> CancelPC]
    BY <1>2 DEF CancelRunWait, CGoto, CancelPC, TypeOK
  <2>4. UNCHANGED <<durable, runtime, submitter, worker, ctxDone, crun, dpc, bounds>>
    BY <1>2 DEF CancelRunWait
  <2>5. QED
    BY <2>2, <2>3, <2>4 DEF TypeOK, durable, runtime, submitter, worker, bounds
<1>3. CASE CancelRunInterrupt(c)
  <2>1. ctxDone' \in [Runs -> BOOLEAN]
    BY <1>3 DEF CancelRunInterrupt, TypeOK
  <2>2. cpc' \in [Cancellers -> CancelPC]
    BY <1>3 DEF CancelRunInterrupt, CGoto, CancelPC, TypeOK
  <2>3. UNCHANGED <<durable, runtime, submitter, worker, crun, cfn, dpc, bounds>>
    BY <1>3 DEF CancelRunInterrupt
  <2>4. QED
    BY <2>1, <2>2, <2>3 DEF TypeOK, durable, runtime, submitter, worker, bounds
<1>4. CASE CancelRunComplete(c)
  BY <1>4 DEF CancelRunComplete, TypeOK, CGoto, CReturn, CancelPC, ReleaseLock, Clients
<1>5. CASE CancelRunStore(c)
  BY <1>5 DEF CancelRunStore, TypeOK, CGoto, CReturn, CancelPC, StatementOK, StatementFails,
       Terminal
<1>6. QED
  BY <1>1, <1>2, <1>3, <1>4, <1>5 DEF CancelRunStep

-----------------------------------------------------------------------------
(* The token invariant.  A step that creates no token and moves none keeps *)
(* the first two parts; the steps that create, move or consume a token are *)
(* proved one by one.                                                      *)

SubmitterTokensKept ==
  \A p \in Submitters : Starting(p)' => Starting(p) /\ spc'[p] = spc[p] /\ srun'[p] = srun[p]

WorkerTokensKept ==
  \A r \in Runs : wpc'[r] = "store" => wpc[r] = "store"

CancellerTokensKept ==
  \A c \in Cancellers : cpc'[c] = "store" => cpc[c] = "store" /\ crun'[c] = crun[c]

\* No new token: the holders after the step are holders before it.
LEMMA NoNewToken ==
  ASSUME LockInv, mem' = mem,
         SubmitterTokensKept, WorkerTokensKept, CancellerTokensKept
  PROVE  OneTokenPerRun'
BY DEF LockInv, OneTokenPerRun, RunsInHand, Starting, SubmitterTokensKept,
       WorkerTokensKept, CancellerTokensKept

\* And the rows of the runs they hold are as active as they were.
LEMMA NoNewTokenActive ==
  ASSUME LockInv, mem' = mem, row' = row,
         SubmitterTokensKept, WorkerTokensKept, CancellerTokensKept
  PROVE  TokenHoldersAreActive'
BY DEF LockInv, TokenHoldersAreActive, Starting, SubmitterTokensKept,
       WorkerTokensKept, CancellerTokensKept

\* Every step of a submitter keeps the token invariant.
LEMMA SubmitStepLock ==
  ASSUME TypeOK, LockInv, NEW p \in Submitters, SubmitStep(p)
  PROVE  LockInv'
<1>1. CASE GetSession(p)
  <2>1. mem' = mem /\ row' = row /\ SubmitterTokensKept /\ WorkerTokensKept /\ CancellerTokensKept
    BY <1>1 DEF GetSession, SubmitterTokensKept, WorkerTokensKept, CancellerTokensKept,
                  Starting, TypeOK, SubmitterAt, Goto, Return, NoRun, Runs, Clients
  <2>2. RunsInHand'
    BY <1>1 DEF GetSession, LockInv, RunsInHand, TypeOK, SubmitterAt, Goto, Return, NoRun, Runs,
         Clients
  <2>3. DownIsEmpty'
    BY <1>1 DEF GetSession, LockInv, DownIsEmpty, TypeOK, SubmitterAt, Goto, Return, NoRun, Runs,
         Clients
  <2>4. QED
    BY <2>1, <2>2, <2>3, NoNewToken, NoNewTokenActive DEF LockInv
<1>2. CASE CheckMemory(p)
  <2>1. mem' = mem /\ row' = row /\ SubmitterTokensKept /\ WorkerTokensKept /\ CancellerTokensKept
    BY <1>2 DEF CheckMemory, SubmitterTokensKept, WorkerTokensKept, CancellerTokensKept,
                  Starting, TypeOK, SubmitterAt, Goto, Return, NoRun, Runs, Clients
  <2>2. RunsInHand'
    BY <1>2 DEF CheckMemory, LockInv, RunsInHand, TypeOK, SubmitterAt, Goto, Return, NoRun, Runs,
         Clients
  <2>3. DownIsEmpty'
    BY <1>2 DEF CheckMemory, LockInv, DownIsEmpty, TypeOK, SubmitterAt, Goto, Return, NoRun, Runs,
         Clients
  <2>4. QED
    BY <2>1, <2>2, <2>3, NoNewToken, NoNewTokenActive DEF LockInv
<1>3. CASE CheckStore(p)
  <2>1. mem' = mem /\ row' = row /\ SubmitterTokensKept /\ WorkerTokensKept /\ CancellerTokensKept
    BY <1>3 DEF CheckStore, SubmitterTokensKept, WorkerTokensKept, CancellerTokensKept,
                  Starting, TypeOK, SubmitterAt, Goto, Return, NoRun, Runs, Clients
  <2>2. RunsInHand'
    BY <1>3 DEF CheckStore, LockInv, RunsInHand, TypeOK, SubmitterAt, Goto, Return, NoRun, Runs,
         Clients
  <2>3. DownIsEmpty'
    BY <1>3 DEF CheckStore, LockInv, DownIsEmpty, TypeOK, SubmitterAt, Goto, Return, NoRun, Runs,
         Clients
  <2>4. QED
    BY <2>1, <2>2, <2>3, NoNewToken, NoNewTokenActive DEF LockInv
<1>4. CASE NextRunSeq(p)
  <2>1. mem' = mem /\ row' = row /\ SubmitterTokensKept /\ WorkerTokensKept /\ CancellerTokensKept
    BY <1>4 DEF NextRunSeq, SubmitterTokensKept, WorkerTokensKept, CancellerTokensKept,
                  Starting, TypeOK, SubmitterAt, Goto, Return, NoRun, Runs, Clients
  <2>2. RunsInHand'
    BY <1>4 DEF NextRunSeq, LockInv, RunsInHand, TypeOK, SubmitterAt, Goto, Return, NoRun, Runs,
         Clients
  <2>3. DownIsEmpty'
    BY <1>4 DEF NextRunSeq, LockInv, DownIsEmpty, TypeOK, SubmitterAt, Goto, Return, NoRun, Runs,
         Clients
  <2>4. QED
    BY <2>1, <2>2, <2>3, NoNewToken, NoNewTokenActive DEF LockInv
<1>5. CASE CreateRun(p)
  <2>1. CASE CreateConflict(srun[p])
    <3>1. mem' = mem /\ row' = row /\ SubmitterTokensKept /\ WorkerTokensKept /\ CancellerTokensKept
      BY <1>5, <2>1 DEF CreateRun, Return, Goto, TypeOK, Starting, SubmitterTokensKept,
                        WorkerTokensKept, CancellerTokensKept
    <3>2. RunsInHand' /\ DownIsEmpty'
      BY <1>5, <2>1 DEF CreateRun, Return, Goto, SubmitterAt, TypeOK, LockInv, RunsInHand,
           DownIsEmpty
    <3>3. QED
      BY <3>1, <3>2, NoNewToken, NoNewTokenActive DEF LockInv
  <2>2. CASE ~CreateConflict(srun[p])
    <3>1. srun[p] \in Runs /\ row[srun[p]] = "none" /\ row' = [row EXCEPT ![srun[p]] = "queued"]
      BY <1>5, <2>2 DEF CreateRun, CreateConflict, SubmitterAt, LockInv, RunsInHand
    <3>2. /\ \A q \in Submitters : q # p => spc'[q] = spc[q] /\ srun'[q] = srun[q]
          /\ (spc'[p] = "markRunning" /\ srun'[p] = srun[p]) \/ spc'[p] = "idle"
          /\ UNCHANGED <<mem, wpc, whome, cpc, crun, up, crashes>>
      BY <1>5, <2>2 DEF CreateRun, Return, Goto, TypeOK
    <3>3. /\ \A q \in Submitters : Starting(q) => row[srun[q]] # "none"
          /\ \A i \in Instances : mem[i] # NoRun => row[mem[i]] # "none"
          /\ \A r \in Runs : wpc[r] = "store" => row[r] # "none"
          /\ \A c \in Cancellers : cpc[c] = "store" => row[crun[c]] # "none"
      BY DEF LockInv, TokenHoldersAreActive, Starting
    <3>4. TokenHoldersAreActive'
      BY <3>1, <3>2, <3>3 DEF LockInv, TokenHoldersAreActive, Starting, TypeOK
    <3>5. OneTokenPerRun'
      <4>1. /\ \A q \in Submitters : Starting(q) => srun[q] # srun[p]
            /\ \A i \in Instances : mem[i] # srun[p]
            /\ wpc[srun[p]] # "store"
            /\ \A c \in Cancellers : cpc[c] = "store" => crun[c] # srun[p]
        BY <3>1, <3>3 DEF NoRun, Runs
      <4>2. \A q \in Submitters : Starting(q)' =>
              srun'[q] = srun[q] /\ (q = p \/ Starting(q))
        BY <3>2 DEF Starting
      <4>3. \A q, t \in Submitters : Starting(q)' /\ Starting(t)' /\ srun'[q] = srun'[t] => q = t
        BY <4>1, <4>2 DEF LockInv, OneTokenPerRun
      <4>4. /\ \A q \in Submitters, i \in Instances : Starting(q)' => mem[i] # srun'[q]
            /\ \A q \in Submitters : Starting(q)' => wpc[srun'[q]] # "store"
            /\ \A q \in Submitters, c \in Cancellers :
                 Starting(q)' /\ cpc[c] = "store" => crun[c] # srun'[q]
        BY <4>1, <4>2 DEF LockInv, OneTokenPerRun
      <4>5. QED
        BY <3>2, <4>3, <4>4 DEF LockInv, OneTokenPerRun
    <3>6. RunsInHand' /\ DownIsEmpty'
      BY <1>5, <3>1, <3>2 DEF CreateRun, SubmitterAt, LockInv, RunsInHand, DownIsEmpty, TypeOK
    <3>7. QED
      BY <3>4, <3>5, <3>6 DEF LockInv
  <2>3. QED
    BY <2>1, <2>2
<1>6. CASE MarkRunning(p)
  <2>1. CASE Return(p)
    <3>1. row' = row
      BY <1>6, <2>1 DEF MarkRunning, Return, Goto, TypeOK
    <3>2. mem' = mem /\ SubmitterTokensKept /\ WorkerTokensKept /\ CancellerTokensKept
      BY <1>6, <2>1 DEF MarkRunning, Return, Goto, TypeOK, Starting, SubmitterTokensKept,
                        WorkerTokensKept, CancellerTokensKept
    <3>3. RunsInHand' /\ DownIsEmpty'
      BY <1>6, <2>1 DEF MarkRunning, Return, Goto, SubmitterAt, TypeOK, LockInv, RunsInHand,
           DownIsEmpty
    <3>4. QED
      BY <3>1, <3>2, <3>3, NoNewToken, NoNewTokenActive DEF LockInv
  <2>2. CASE ~Return(p)
    <3>1. /\ spc[p] = "markRunning" /\ spc' = [spc EXCEPT ![p] = "register"] /\ srun' = srun
          /\ row' = [row EXCEPT ![srun[p]] = "running"]
          /\ up[Home[p]]
          /\ UNCHANGED <<mem, wpc, whome, cpc, crun, up, crashes>>
      BY <1>6, <2>2 DEF MarkRunning, SubmitterAt, Goto
    <3>2. srun[p] \in Runs
      BY <3>1 DEF LockInv, RunsInHand
    <3>3. \A q \in Submitters : q # p /\ Starting(q) => srun[q] # srun[p]
      BY <3>1 DEF LockInv, OneTokenPerRun, Starting
    <3>4. TokenHoldersAreActive'
      BY <3>1, <3>2, <3>3 DEF LockInv, TokenHoldersAreActive, Starting, TypeOK
    <3>5. OneTokenPerRun'
      BY <3>1 DEF LockInv, OneTokenPerRun, Starting, TypeOK
    <3>6. RunsInHand' /\ DownIsEmpty'
      BY <3>1, <3>2 DEF LockInv, RunsInHand, DownIsEmpty, TypeOK
    <3>7. QED
      BY <3>4, <3>5, <3>6 DEF LockInv
  <2>3. QED
    BY <2>1, <2>2
<1>7. CASE RegisterRun(p)
  <2>1. /\ spc[p] = "register" /\ spc' = [spc EXCEPT ![p] = "install"] /\ srun' = srun
        /\ mem' = [mem EXCEPT ![Home[p]] = srun[p]]
        /\ up[Home[p]]
        /\ UNCHANGED <<row, wpc, whome, cpc, crun, up, crashes>>
    BY <1>7 DEF RegisterRun, SubmitterAt, Goto
  <2>2. srun[p] \in Runs /\ Home[p] \in Instances
    BY <2>1 DEF LockInv, RunsInHand, Clients
  <2>3. \A q \in Submitters : Starting(q)' => q # p /\ Starting(q) /\ srun[q] # srun[p]
    BY <2>1 DEF LockInv, OneTokenPerRun, Starting, TypeOK
  <2>4. \A i \in Instances : mem'[i] = (IF i = Home[p] THEN srun[p] ELSE mem[i])
    BY <2>1, <2>2 DEF TypeOK
  <2>5. TokenHoldersAreActive'
    BY <2>1, <2>2, <2>3, <2>4 DEF LockInv, TokenHoldersAreActive, Starting, TypeOK
  <2>6. OneTokenPerRun'
    <3>1. /\ \A i \in Instances : mem[i] # srun[p]
          /\ wpc[srun[p]] # "store"
          /\ \A c \in Cancellers : cpc[c] = "store" => crun[c] # srun[p]
      BY <2>1 DEF LockInv, OneTokenPerRun, Starting
    <3>2. /\ \A q, t \in Submitters : Starting(q)' /\ Starting(t)' /\ srun[q] = srun[t] => q = t
          /\ \A q \in Submitters : Starting(q)' => wpc[srun[q]] # "store"
          /\ \A q \in Submitters, c \in Cancellers :
               Starting(q)' /\ cpc[c] = "store" => crun[c] # srun[q]
      BY <2>3 DEF LockInv, OneTokenPerRun
    <3>3. \A q \in Submitters, i \in Instances : Starting(q)' => mem'[i] # srun[q]
      BY <2>3, <2>4 DEF LockInv, OneTokenPerRun
    <3>4. \A i, j \in Instances : mem'[i] = mem'[j] /\ mem'[i] # NoRun => i = j
      BY <2>4, <3>1 DEF LockInv, OneTokenPerRun
    <3>5. \A i \in Instances, r \in Runs : mem'[i] = r => wpc[r] # "store"
      BY <2>4, <3>1 DEF LockInv, OneTokenPerRun
    <3>6. \A i \in Instances, c \in Cancellers : cpc[c] = "store" => mem'[i] # crun[c]
      BY <2>4, <3>1 DEF LockInv, OneTokenPerRun
    <3>7. QED
      BY <2>1, <3>2, <3>3, <3>4, <3>5, <3>6 DEF LockInv, OneTokenPerRun
  <2>7. RunsInHand' /\ DownIsEmpty'
    BY <2>1, <2>2, <2>4 DEF LockInv, RunsInHand, DownIsEmpty, TypeOK
  <2>8. QED
    BY <2>5, <2>6, <2>7 DEF LockInv
<1>8. CASE InstallWorker(p)
  <2>1. mem' = mem /\ row' = row /\ SubmitterTokensKept /\ WorkerTokensKept /\ CancellerTokensKept
    BY <1>8 DEF InstallWorker, SubmitterTokensKept, WorkerTokensKept, CancellerTokensKept,
                  Starting, TypeOK, SubmitterAt, Goto, Return, NoRun, Runs, Clients
  <2>2. RunsInHand'
    BY <1>8 DEF InstallWorker, LockInv, RunsInHand, TypeOK, SubmitterAt, Goto, Return, NoRun,
         Runs, Clients
  <2>3. DownIsEmpty'
    BY <1>8 DEF InstallWorker, LockInv, DownIsEmpty, TypeOK, SubmitterAt, Goto, Return, NoRun,
         Runs, Clients
  <2>4. QED
    BY <2>1, <2>2, <2>3, NoNewToken, NoNewTokenActive DEF LockInv
<1>9. CASE RegisterCancel(p)
  <2>1. mem' = mem /\ row' = row /\ SubmitterTokensKept /\ WorkerTokensKept /\ CancellerTokensKept
    BY <1>9 DEF RegisterCancel, SubmitterTokensKept, WorkerTokensKept, CancellerTokensKept,
                  Starting, TypeOK, SubmitterAt, Goto, Return, NoRun, Runs, Clients
  <2>2. RunsInHand'
    BY <1>9 DEF RegisterCancel, LockInv, RunsInHand, TypeOK, SubmitterAt, Goto, Return, NoRun,
         Runs, Clients
  <2>3. DownIsEmpty'
    BY <1>9 DEF RegisterCancel, LockInv, DownIsEmpty, TypeOK, SubmitterAt, Goto, Return, NoRun,
         Runs, Clients
  <2>4. QED
    BY <2>1, <2>2, <2>3, NoNewToken, NoNewTokenActive DEF LockInv
<1>10. CASE AppendRunning(p)
  <2>1. mem' = mem /\ row' = row /\ SubmitterTokensKept /\ WorkerTokensKept /\ CancellerTokensKept
    BY <1>10 DEF AppendRunning, SubmitterTokensKept, WorkerTokensKept, CancellerTokensKept,
                  Starting, TypeOK, SubmitterAt, Goto, Return, NoRun, Runs, Clients
  <2>2. RunsInHand'
    BY <1>10 DEF AppendRunning, LockInv, RunsInHand, TypeOK, SubmitterAt, Goto, Return, NoRun,
         Runs, Clients
  <2>3. DownIsEmpty'
    BY <1>10 DEF AppendRunning, LockInv, DownIsEmpty, TypeOK, SubmitterAt, Goto, Return, NoRun,
         Runs, Clients
  <2>4. QED
    BY <2>1, <2>2, <2>3, NoNewToken, NoNewTokenActive DEF LockInv
<1>11. CASE AppendUser(p)
  <2>1. mem' = mem /\ row' = row /\ SubmitterTokensKept /\ WorkerTokensKept /\ CancellerTokensKept
    BY <1>11 DEF AppendUser, SubmitterTokensKept, WorkerTokensKept, CancellerTokensKept,
                  Starting, TypeOK, SubmitterAt, Goto, Return, NoRun, Runs, Clients
  <2>2. RunsInHand'
    BY <1>11 DEF AppendUser, LockInv, RunsInHand, TypeOK, SubmitterAt, Goto, Return, NoRun, Runs,
         Clients
  <2>3. DownIsEmpty'
    BY <1>11 DEF AppendUser, LockInv, DownIsEmpty, TypeOK, SubmitterAt, Goto, Return, NoRun, Runs,
         Clients
  <2>4. QED
    BY <2>1, <2>2, <2>3, NoNewToken, NoNewTokenActive DEF LockInv
<1>12. CASE LaunchWorker(p)
  <2>1. mem' = mem /\ row' = row /\ SubmitterTokensKept /\ WorkerTokensKept /\ CancellerTokensKept
    BY <1>12 DEF LaunchWorker, SubmitterTokensKept, WorkerTokensKept, CancellerTokensKept,
                  Starting, TypeOK, SubmitterAt, Goto, Return, NoRun, Runs, Clients
  <2>2. RunsInHand'
    BY <1>12 DEF LaunchWorker, LockInv, RunsInHand, TypeOK, SubmitterAt, Goto, Return, NoRun,
         Runs, Clients
  <2>3. DownIsEmpty'
    BY <1>12 DEF LaunchWorker, LockInv, DownIsEmpty, TypeOK, SubmitterAt, Goto, Return, NoRun,
         Runs, Clients
  <2>4. QED
    BY <2>1, <2>2, <2>3, NoNewToken, NoNewTokenActive DEF LockInv
<1>13. QED
  BY <1>1, <1>2, <1>3, <1>4, <1>5, <1>6, <1>7, <1>8, <1>9, <1>10, <1>11, <1>12 DEF SubmitStep

\* Every step of a worker keeps the token invariant.
LEMMA WorkerStepLock ==
  ASSUME TypeOK, LockInv, NEW r \in Runs, WorkerStep(r)
  PROVE  LockInv'
<1>1. CASE LoopEnds(r)
  <2>1. mem' = mem /\ row' = row /\ SubmitterTokensKept /\ WorkerTokensKept /\ CancellerTokensKept
    BY <1>1 DEF LoopEnds, SubmitterTokensKept, WorkerTokensKept, CancellerTokensKept,
                  Starting, TypeOK, WorkerAt, WGoto, AfterSettle, NoRun, Runs
  <2>2. RunsInHand'
    BY <1>1 DEF LoopEnds, LockInv, RunsInHand, TypeOK, WorkerAt, WGoto, AfterSettle, NoRun, Runs
  <2>3. DownIsEmpty'
    BY <1>1 DEF LoopEnds, LockInv, DownIsEmpty, TypeOK, WorkerAt, WGoto, AfterSettle, NoRun, Runs
  <2>4. QED
    BY <2>1, <2>2, <2>3, NoNewToken, NoNewTokenActive DEF LockInv
<1>2. CASE LoopPanics(r)
  <2>1. mem' = mem /\ row' = row /\ SubmitterTokensKept /\ WorkerTokensKept /\ CancellerTokensKept
    BY <1>2 DEF LoopPanics, SubmitterTokensKept, WorkerTokensKept, CancellerTokensKept,
                  Starting, TypeOK, WorkerAt, WGoto, AfterSettle, NoRun, Runs
  <2>2. RunsInHand'
    BY <1>2 DEF LoopPanics, LockInv, RunsInHand, TypeOK, WorkerAt, WGoto, AfterSettle, NoRun, Runs
  <2>3. DownIsEmpty'
    BY <1>2 DEF LoopPanics, LockInv, DownIsEmpty, TypeOK, WorkerAt, WGoto, AfterSettle, NoRun, Runs
  <2>4. QED
    BY <2>1, <2>2, <2>3, NoNewToken, NoNewTokenActive DEF LockInv
<1>3. CASE EmitDone(r)
  <2>1. mem' = mem /\ row' = row /\ SubmitterTokensKept /\ WorkerTokensKept /\ CancellerTokensKept
    BY <1>3 DEF EmitDone, SubmitterTokensKept, WorkerTokensKept, CancellerTokensKept,
                  Starting, TypeOK, WorkerAt, WGoto, AfterSettle, NoRun, Runs
  <2>2. RunsInHand'
    BY <1>3 DEF EmitDone, LockInv, RunsInHand, TypeOK, WorkerAt, WGoto, AfterSettle, NoRun, Runs
  <2>3. DownIsEmpty'
    BY <1>3 DEF EmitDone, LockInv, DownIsEmpty, TypeOK, WorkerAt, WGoto, AfterSettle, NoRun, Runs
  <2>4. QED
    BY <2>1, <2>2, <2>3, NoNewToken, NoNewTokenActive DEF LockInv
<1>4. CASE EmitError(r)
  <2>1. mem' = mem /\ row' = row /\ SubmitterTokensKept /\ WorkerTokensKept /\ CancellerTokensKept
    BY <1>4 DEF EmitError, SubmitterTokensKept, WorkerTokensKept, CancellerTokensKept,
                  Starting, TypeOK, WorkerAt, WGoto, AfterSettle, NoRun, Runs
  <2>2. RunsInHand'
    BY <1>4 DEF EmitError, LockInv, RunsInHand, TypeOK, WorkerAt, WGoto, AfterSettle, NoRun, Runs
  <2>3. DownIsEmpty'
    BY <1>4 DEF EmitError, LockInv, DownIsEmpty, TypeOK, WorkerAt, WGoto, AfterSettle, NoRun, Runs
  <2>4. QED
    BY <2>1, <2>2, <2>3, NoNewToken, NoNewTokenActive DEF LockInv
<1>5. CASE EmitCancelled(r)
  <2>1. mem' = mem /\ row' = row /\ SubmitterTokensKept /\ WorkerTokensKept /\ CancellerTokensKept
    BY <1>5 DEF EmitCancelled, SubmitterTokensKept, WorkerTokensKept, CancellerTokensKept,
                  Starting, TypeOK, WorkerAt, WGoto, AfterSettle, NoRun, Runs
  <2>2. RunsInHand'
    BY <1>5 DEF EmitCancelled, LockInv, RunsInHand, TypeOK, WorkerAt, WGoto, AfterSettle, NoRun,
         Runs
  <2>3. DownIsEmpty'
    BY <1>5 DEF EmitCancelled, LockInv, DownIsEmpty, TypeOK, WorkerAt, WGoto, AfterSettle, NoRun,
         Runs
  <2>4. QED
    BY <2>1, <2>2, <2>3, NoNewToken, NoNewTokenActive DEF LockInv
<1>6. CASE PanicAppend(r)
  <2>1. mem' = mem /\ row' = row /\ SubmitterTokensKept /\ WorkerTokensKept /\ CancellerTokensKept
    BY <1>6 DEF PanicAppend, SubmitterTokensKept, WorkerTokensKept, CancellerTokensKept,
                  Starting, TypeOK, WorkerAt, WGoto, AfterSettle, NoRun, Runs
  <2>2. RunsInHand'
    BY <1>6 DEF PanicAppend, LockInv, RunsInHand, TypeOK, WorkerAt, WGoto, AfterSettle, NoRun, Runs
  <2>3. DownIsEmpty'
    BY <1>6 DEF PanicAppend, LockInv, DownIsEmpty, TypeOK, WorkerAt, WGoto, AfterSettle, NoRun, Runs
  <2>4. QED
    BY <2>1, <2>2, <2>3, NoNewToken, NoNewTokenActive DEF LockInv
<1>7. CASE DetermineStatus(r)
  <2>1. mem' = mem /\ row' = row /\ SubmitterTokensKept /\ WorkerTokensKept /\ CancellerTokensKept
    BY <1>7 DEF DetermineStatus, SubmitterTokensKept, WorkerTokensKept, CancellerTokensKept,
                  Starting, TypeOK, WorkerAt, WGoto, AfterSettle, NoRun, Runs
  <2>2. RunsInHand'
    BY <1>7 DEF DetermineStatus, LockInv, RunsInHand, TypeOK, WorkerAt, WGoto, AfterSettle, NoRun,
         Runs
  <2>3. DownIsEmpty'
    BY <1>7 DEF DetermineStatus, LockInv, DownIsEmpty, TypeOK, WorkerAt, WGoto, AfterSettle,
         NoRun, Runs
  <2>4. QED
    BY <2>1, <2>2, <2>3, NoNewToken, NoNewTokenActive DEF LockInv
<1>8. CASE Compensate(r)
  <2>1. mem' = mem /\ row' = row /\ SubmitterTokensKept /\ WorkerTokensKept /\ CancellerTokensKept
    BY <1>8 DEF Compensate, SubmitterTokensKept, WorkerTokensKept, CancellerTokensKept,
                  Starting, TypeOK, WorkerAt, WGoto, AfterSettle, NoRun, Runs
  <2>2. RunsInHand'
    BY <1>8 DEF Compensate, LockInv, RunsInHand, TypeOK, WorkerAt, WGoto, AfterSettle, NoRun, Runs
  <2>3. DownIsEmpty'
    BY <1>8 DEF Compensate, LockInv, DownIsEmpty, TypeOK, WorkerAt, WGoto, AfterSettle, NoRun, Runs
  <2>4. QED
    BY <2>1, <2>2, <2>3, NoNewToken, NoNewTokenActive DEF LockInv
<1>9. CASE CompensateRetry(r)
  <2>1. mem' = mem /\ row' = row /\ SubmitterTokensKept /\ WorkerTokensKept /\ CancellerTokensKept
    BY <1>9 DEF CompensateRetry, SubmitterTokensKept, WorkerTokensKept, CancellerTokensKept,
                  Starting, TypeOK, WorkerAt, WGoto, AfterSettle, NoRun, Runs
  <2>2. RunsInHand'
    BY <1>9 DEF CompensateRetry, LockInv, RunsInHand, TypeOK, WorkerAt, WGoto, AfterSettle, NoRun,
         Runs
  <2>3. DownIsEmpty'
    BY <1>9 DEF CompensateRetry, LockInv, DownIsEmpty, TypeOK, WorkerAt, WGoto, AfterSettle,
         NoRun, Runs
  <2>4. QED
    BY <2>1, <2>2, <2>3, NoNewToken, NoNewTokenActive DEF LockInv
<1>10. CASE Complete(r)
  <2>1. whome[r] \in Instances /\ wpc[r] = "complete" /\ up[whome[r]]
    BY <1>10 DEF Complete, WorkerAt, TypeOK
  <2>2. UNCHANGED <<row, spc, srun, whome, cpc, crun, up, crashes>>
    BY <1>10 DEF Complete
  <2>3. CASE mem[whome[r]] = r
    <3>1. mem' = [mem EXCEPT ![whome[r]] = NoRun] /\ wpc' = [wpc EXCEPT ![r] = "store"]
      BY <1>10, <2>3 DEF Complete, ReleasesLock, ReleaseLock, WGoto
    <3>2. /\ \A i \in Instances : mem'[i] = (IF i = whome[r] THEN NoRun ELSE mem[i])
          /\ \A i \in Instances : mem'[i] # r
          /\ \A x \in Runs : wpc'[x] = (IF x = r THEN "store" ELSE wpc[x])
      BY <2>1, <2>3, <3>1 DEF TypeOK, LockInv, OneTokenPerRun, NoRun, Runs
    <3>3. /\ \A p \in Submitters : Starting(p) => srun[p] # r
          /\ \A c \in Cancellers : cpc[c] = "store" => crun[c] # r
          /\ r # NoRun /\ row[r] = "running"
      BY <2>1, <2>3 DEF LockInv, OneTokenPerRun, TokenHoldersAreActive, NoRun, Runs
    <3>4. TokenHoldersAreActive'
      BY <2>2, <3>2, <3>3 DEF LockInv, TokenHoldersAreActive
    <3>5. OneTokenPerRun'
      <4>1. \A p \in Submitters : Starting(p)' <=> Starting(p)
        BY <2>2 DEF Starting
      <4>2. \A p \in Submitters, i \in Instances : Starting(p) => mem'[i] # srun[p]
        BY <3>2 DEF LockInv, OneTokenPerRun, RunsInHand, Starting, NoRun, Runs
      <4>3. \A p \in Submitters : Starting(p) => srun[p] \in Runs /\ wpc'[srun[p]] # "store"
        BY <3>2, <3>3 DEF LockInv, OneTokenPerRun, RunsInHand, Starting
      <4>4. \A i, j \in Instances : mem'[i] = mem'[j] /\ mem'[i] # NoRun => i = j
        BY <3>2 DEF LockInv, OneTokenPerRun
      <4>5. \A i \in Instances, x \in Runs : mem'[i] = x => wpc'[x] # "store"
        BY <3>2 DEF LockInv, OneTokenPerRun, NoRun, Runs
      <4>6. \A i \in Instances, c \in Cancellers : cpc[c] = "store" => mem'[i] # crun[c]
        BY <3>2 DEF LockInv, OneTokenPerRun, RunsInHand, NoRun, Runs
      <4>7. \A x \in Runs, c \in Cancellers : wpc'[x] = "store" /\ cpc[c] = "store" => crun[c] # x
        BY <3>2, <3>3 DEF LockInv, OneTokenPerRun
      <4>8. QED
        BY <2>2, <4>1, <4>2, <4>3, <4>4, <4>5, <4>6, <4>7 DEF LockInv, OneTokenPerRun
    <3>6. RunsInHand' /\ DownIsEmpty'
      BY <2>1, <2>2, <3>2 DEF LockInv, RunsInHand, DownIsEmpty, TypeOK
    <3>7. QED
      BY <3>4, <3>5, <3>6 DEF LockInv
  <2>4. CASE mem[whome[r]] # r
    <3>1. mem' = mem /\ wpc' = [wpc EXCEPT ![r] = AfterSettle(r)]
      BY <1>10, <2>4 DEF Complete, ReleasesLock, WGoto
    <3>2. SubmitterTokensKept /\ WorkerTokensKept /\ CancellerTokensKept
      BY <2>2, <3>1 DEF SubmitterTokensKept, WorkerTokensKept, CancellerTokensKept, Starting,
                        AfterSettle, TypeOK
    <3>3. RunsInHand' /\ DownIsEmpty'
      BY <2>1, <2>2, <3>1 DEF LockInv, RunsInHand, DownIsEmpty, TypeOK
    <3>4. QED
      BY <2>2, <3>1, <3>2, <3>3, NoNewToken, NoNewTokenActive DEF LockInv
  <2>5. QED
    BY <2>3, <2>4
<1>11. CASE StoreStatus(r)
  <2>1. wpc[r] = "store" /\ up[whome[r]] /\ wpc' = [wpc EXCEPT ![r] = AfterSettle(r)]
    BY <1>11 DEF StoreStatus, WorkerAt, WGoto
  <2>2. UNCHANGED <<mem, spc, srun, whome, cpc, crun, up, crashes>>
    BY <1>11 DEF StoreStatus
  <2>3. \A x \in Runs : x # r => row'[x] = row[x]
    BY <1>11 DEF StoreStatus, TypeOK
  <2>4. SubmitterTokensKept /\ WorkerTokensKept /\ CancellerTokensKept
    BY <2>1, <2>2 DEF SubmitterTokensKept, WorkerTokensKept, CancellerTokensKept, Starting,
                      AfterSettle, TypeOK
  <2>5. /\ \A p \in Submitters : Starting(p) => srun[p] \in Runs /\ srun[p] # r
        /\ \A i \in Instances : mem[i] # NoRun => mem[i] \in Runs /\ mem[i] # r
        /\ \A c \in Cancellers : cpc[c] = "store" => crun[c] \in Runs /\ crun[c] # r
        /\ \A x \in Runs : wpc'[x] = "store" => wpc[x] = "store" /\ x # r
    <3>1. \A p \in Submitters : Starting(p) => srun[p] \in Runs /\ srun[p] # r
      BY <2>1 DEF LockInv, OneTokenPerRun, RunsInHand, Starting
    <3>2. \A i \in Instances : mem[i] # NoRun => mem[i] \in Runs /\ mem[i] # r
      BY <2>1 DEF LockInv, OneTokenPerRun, TypeOK
    <3>3. \A c \in Cancellers : cpc[c] = "store" => crun[c] \in Runs /\ crun[c] # r
      BY <2>1 DEF LockInv, OneTokenPerRun, RunsInHand
    <3>4. \A x \in Runs : wpc'[x] = "store" => wpc[x] = "store" /\ x # r
      BY <2>1 DEF AfterSettle, TypeOK
    <3>5. QED
      BY <3>1, <3>2, <3>3, <3>4
  <2>6. TokenHoldersAreActive'
    BY <2>2, <2>3, <2>5 DEF LockInv, TokenHoldersAreActive, Starting
  <2>7. RunsInHand' /\ DownIsEmpty'
    BY <2>1, <2>2 DEF LockInv, RunsInHand, DownIsEmpty, AfterSettle, TypeOK
  <2>8. QED
    BY <2>2, <2>4, <2>6, <2>7, NoNewToken DEF LockInv
<1>12. CASE FireHooks(r)
  <2>1. mem' = mem /\ row' = row /\ SubmitterTokensKept /\ WorkerTokensKept /\ CancellerTokensKept
    BY <1>12 DEF FireHooks, SubmitterTokensKept, WorkerTokensKept, CancellerTokensKept,
                  Starting, TypeOK, WorkerAt, WGoto, AfterSettle, NoRun, Runs
  <2>2. RunsInHand'
    BY <1>12 DEF FireHooks, LockInv, RunsInHand, TypeOK, WorkerAt, WGoto, AfterSettle, NoRun, Runs
  <2>3. DownIsEmpty'
    BY <1>12 DEF FireHooks, LockInv, DownIsEmpty, TypeOK, WorkerAt, WGoto, AfterSettle, NoRun, Runs
  <2>4. QED
    BY <2>1, <2>2, <2>3, NoNewToken, NoNewTokenActive DEF LockInv
<1>13. CASE Cleanup(r)
  <2>1. mem' = mem /\ row' = row /\ SubmitterTokensKept /\ WorkerTokensKept /\ CancellerTokensKept
    BY <1>13 DEF Cleanup, SubmitterTokensKept, WorkerTokensKept, CancellerTokensKept,
                  Starting, TypeOK, WorkerAt, WGoto, AfterSettle, NoRun, Runs
  <2>2. RunsInHand'
    BY <1>13 DEF Cleanup, LockInv, RunsInHand, TypeOK, WorkerAt, WGoto, AfterSettle, NoRun, Runs
  <2>3. DownIsEmpty'
    BY <1>13 DEF Cleanup, LockInv, DownIsEmpty, TypeOK, WorkerAt, WGoto, AfterSettle, NoRun, Runs
  <2>4. QED
    BY <2>1, <2>2, <2>3, NoNewToken, NoNewTokenActive DEF LockInv
<1>14. QED
  BY <1>1, <1>2, <1>3, <1>4, <1>5, <1>6, <1>7, <1>8, <1>9, <1>10, <1>11, <1>12, <1>13 DEF WorkerStep

\* Every step of a canceller keeps the token invariant.
LEMMA CancelRunStepLock ==
  ASSUME TypeOK, LockInv, NEW c \in Cancellers, CancelRunStep(c)
  PROVE  LockInv'
<1>1. CASE CancelRunCapture(c)
  <2>1. mem' = mem /\ row' = row /\ SubmitterTokensKept /\ WorkerTokensKept /\ CancellerTokensKept
    BY <1>1 DEF CancelRunCapture, SubmitterTokensKept, WorkerTokensKept, CancellerTokensKept,
                  Starting, TypeOK, CancellerAt, CGoto, CReturn, NoRun, Runs, Clients
  <2>2. RunsInHand'
    BY <1>1 DEF CancelRunCapture, LockInv, RunsInHand, TypeOK, CancellerAt, CGoto, CReturn, NoRun,
         Runs, Clients
  <2>3. DownIsEmpty'
    BY <1>1 DEF CancelRunCapture, LockInv, DownIsEmpty, TypeOK, CancellerAt, CGoto, CReturn,
         NoRun, Runs, Clients
  <2>4. QED
    BY <2>1, <2>2, <2>3, NoNewToken, NoNewTokenActive DEF LockInv
<1>2. CASE CancelRunWait(c)
  <2>1. mem' = mem /\ row' = row /\ SubmitterTokensKept /\ WorkerTokensKept /\ CancellerTokensKept
    BY <1>2 DEF CancelRunWait, SubmitterTokensKept, WorkerTokensKept, CancellerTokensKept,
                  Starting, TypeOK, CancellerAt, CGoto, CReturn, NoRun, Runs, Clients
  <2>2. RunsInHand'
    BY <1>2 DEF CancelRunWait, LockInv, RunsInHand, TypeOK, CancellerAt, CGoto, CReturn, NoRun,
         Runs, Clients
  <2>3. DownIsEmpty'
    BY <1>2 DEF CancelRunWait, LockInv, DownIsEmpty, TypeOK, CancellerAt, CGoto, CReturn, NoRun,
         Runs, Clients
  <2>4. QED
    BY <2>1, <2>2, <2>3, NoNewToken, NoNewTokenActive DEF LockInv
<1>3. CASE CancelRunInterrupt(c)
  <2>1. mem' = mem /\ row' = row /\ SubmitterTokensKept /\ WorkerTokensKept /\ CancellerTokensKept
    BY <1>3 DEF CancelRunInterrupt, SubmitterTokensKept, WorkerTokensKept, CancellerTokensKept,
                  Starting, TypeOK, CancellerAt, CGoto, CReturn, NoRun, Runs, Clients
  <2>2. RunsInHand'
    BY <1>3 DEF CancelRunInterrupt, LockInv, RunsInHand, TypeOK, CancellerAt, CGoto, CReturn,
         NoRun, Runs, Clients
  <2>3. DownIsEmpty'
    BY <1>3 DEF CancelRunInterrupt, LockInv, DownIsEmpty, TypeOK, CancellerAt, CGoto, CReturn,
         NoRun, Runs, Clients
  <2>4. QED
    BY <2>1, <2>2, <2>3, NoNewToken, NoNewTokenActive DEF LockInv
<1>4. CASE CancelRunComplete(c)
  <2>1. Home[c] \in Instances /\ cpc[c] = "complete" /\ up[Home[c]] /\ crun[c] \in Runs
    BY <1>4 DEF CancelRunComplete, CancellerAt, LockInv, RunsInHand, Clients
  <2>2. UNCHANGED <<row, spc, srun, wpc, whome, up, crashes>>
    BY <1>4 DEF CancelRunComplete
  <2>3. CASE mem[Home[c]] = crun[c]
    <3>1. /\ mem' = [mem EXCEPT ![Home[c]] = NoRun]
          /\ cpc' = [cpc EXCEPT ![c] = "store"] /\ crun' = crun
      BY <1>4, <2>3 DEF CancelRunComplete, ReleasesLock, ReleaseLock, CGoto
    <3>2. /\ \A i \in Instances : mem'[i] = (IF i = Home[c] THEN NoRun ELSE mem[i])
          /\ \A i \in Instances : mem'[i] # crun[c]
          /\ \A d \in Cancellers : cpc'[d] = (IF d = c THEN "store" ELSE cpc[d])
      BY <2>1, <2>3, <3>1 DEF TypeOK, LockInv, OneTokenPerRun, NoRun, Runs
    <3>3. /\ \A p \in Submitters : Starting(p) => srun[p] # crun[c]
          /\ \A d \in Cancellers : cpc[d] = "store" => crun[d] # crun[c]
          /\ wpc[crun[c]] # "store"
          /\ row[crun[c]] = "running"
      BY <2>1, <2>3 DEF LockInv, OneTokenPerRun, TokenHoldersAreActive, NoRun, Runs
    <3>4. TokenHoldersAreActive'
      BY <2>2, <3>1, <3>2, <3>3 DEF LockInv, TokenHoldersAreActive
    <3>5. OneTokenPerRun'
      <4>1. \A p \in Submitters : Starting(p)' <=> Starting(p)
        BY <2>2 DEF Starting
      <4>2. \A p \in Submitters, i \in Instances : Starting(p) => mem'[i] # srun[p]
        BY <3>2 DEF LockInv, OneTokenPerRun, RunsInHand, Starting, NoRun, Runs
      <4>3. \A p \in Submitters, d \in Cancellers : Starting(p) /\ cpc'[d] = "store" =>
                 crun[d] # srun[p]
        BY <3>2, <3>3 DEF LockInv, OneTokenPerRun
      <4>4. \A i, j \in Instances : mem'[i] = mem'[j] /\ mem'[i] # NoRun => i = j
        BY <3>2 DEF LockInv, OneTokenPerRun
      <4>5. \A i \in Instances, x \in Runs : mem'[i] = x => wpc[x] # "store"
        BY <3>2 DEF LockInv, OneTokenPerRun, NoRun, Runs
      <4>6. \A i \in Instances, d \in Cancellers : cpc'[d] = "store" => mem'[i] # crun[d]
        BY <2>1, <3>2 DEF LockInv, OneTokenPerRun, RunsInHand, NoRun, Runs
      <4>7. \A x \in Runs, d \in Cancellers : wpc[x] = "store" /\ cpc'[d] = "store" => crun[d] # x
        BY <3>2, <3>3 DEF LockInv, OneTokenPerRun
      <4>8. \A d, e \in Cancellers :
              cpc'[d] = "store" /\ cpc'[e] = "store" /\ crun[d] = crun[e] => d = e
        BY <3>2, <3>3 DEF LockInv, OneTokenPerRun
      <4>9. QED
        BY <2>2, <3>1, <4>1, <4>2, <4>3, <4>4, <4>5, <4>6, <4>7, <4>8 DEF LockInv, OneTokenPerRun
    <3>6. RunsInHand' /\ DownIsEmpty'
      BY <2>1, <2>2, <3>1, <3>2 DEF LockInv, RunsInHand, DownIsEmpty, TypeOK
    <3>7. QED
      BY <3>4, <3>5, <3>6 DEF LockInv
  <2>4. CASE mem[Home[c]] # crun[c]
    <3>1. /\ mem' = mem /\ cpc' = [cpc EXCEPT ![c] = "idle"]
          /\ crun' = [crun EXCEPT ![c] = NoRun]
      BY <1>4, <2>4 DEF CancelRunComplete, ReleasesLock, CReturn, CGoto
    <3>2. SubmitterTokensKept /\ WorkerTokensKept /\ CancellerTokensKept
      BY <2>2, <3>1 DEF SubmitterTokensKept, WorkerTokensKept, CancellerTokensKept, Starting, TypeOK
    <3>3. RunsInHand' /\ DownIsEmpty'
      BY <2>1, <2>2, <3>1 DEF LockInv, RunsInHand, DownIsEmpty, TypeOK
    <3>4. QED
      BY <2>2, <3>1, <3>2, <3>3, NoNewToken, NoNewTokenActive DEF LockInv
  <2>5. QED
    BY <2>3, <2>4
<1>5. CASE CancelRunStore(c)
  <2>1. /\ cpc[c] = "store" /\ up[Home[c]] /\ crun[c] \in Runs
        /\ cpc' = [cpc EXCEPT ![c] = "idle"] /\ crun' = [crun EXCEPT ![c] = NoRun]
    BY <1>5 DEF CancelRunStore, CancellerAt, CReturn, CGoto, LockInv, RunsInHand
  <2>2. UNCHANGED <<mem, spc, srun, wpc, whome, up, crashes>>
    BY <1>5 DEF CancelRunStore
  <2>3. \A x \in Runs : x # crun[c] => row'[x] = row[x]
    BY <1>5 DEF CancelRunStore, TypeOK
  <2>4. SubmitterTokensKept /\ WorkerTokensKept /\ CancellerTokensKept
    BY <2>1, <2>2 DEF SubmitterTokensKept, WorkerTokensKept, CancellerTokensKept, Starting, TypeOK
  <2>5. /\ \A p \in Submitters : Starting(p) => srun[p] \in Runs /\ srun[p] # crun[c]
        /\ \A i \in Instances : mem[i] # NoRun => mem[i] \in Runs /\ mem[i] # crun[c]
        /\ \A x \in Runs : wpc[x] = "store" => x # crun[c]
        /\ \A d \in Cancellers : cpc'[d] = "store" =>
             cpc[d] = "store" /\ crun'[d] = crun[d] /\ crun[d] \in Runs /\ crun[d] # crun[c]
    <3>1. \A p \in Submitters : Starting(p) => srun[p] \in Runs /\ srun[p] # crun[c]
      BY <2>1 DEF LockInv, OneTokenPerRun, RunsInHand, Starting
    <3>2. \A i \in Instances : mem[i] # NoRun => mem[i] \in Runs /\ mem[i] # crun[c]
      BY <2>1 DEF LockInv, OneTokenPerRun, TypeOK
    <3>3. \A x \in Runs : wpc[x] = "store" => x # crun[c]
      BY <2>1 DEF LockInv, OneTokenPerRun
    <3>4. \A d \in Cancellers : cpc'[d] = "store" =>
            d # c /\ cpc[d] = "store" /\ crun'[d] = crun[d]
      BY <2>1 DEF TypeOK
    <3>5. \A d \in Cancellers : cpc[d] = "store" /\ d # c =>
            crun[d] \in Runs /\ crun[d] # crun[c]
      BY <2>1 DEF LockInv, OneTokenPerRun, RunsInHand
    <3>6. QED
      BY <3>1, <3>2, <3>3, <3>4, <3>5
  <2>6. TokenHoldersAreActive'
    BY <2>2, <2>3, <2>5 DEF LockInv, TokenHoldersAreActive, Starting
  <2>7. RunsInHand' /\ DownIsEmpty'
    BY <2>1, <2>2 DEF LockInv, RunsInHand, DownIsEmpty, TypeOK
  <2>8. QED
    BY <2>2, <2>4, <2>6, <2>7, NoNewToken DEF LockInv
<1>6. QED
  BY <1>1, <1>2, <1>3, <1>4, <1>5 DEF CancelRunStep

-----------------------------------------------------------------------------
(* The theorems.                                                           *)

\* A process that has a run in hand has a real one, step by step.
LEMMA SubmitStepHand ==
  ASSUME TypeOK, RunsInHand, NEW p \in Submitters, SubmitStep(p)
  PROVE  RunsInHand'
<1>1. CASE GetSession(p)
  BY <1>1 DEF GetSession, SubmitterAt, Goto, Return, RunsInHand, TypeOK
<1>2. CASE CheckMemory(p)
  BY <1>2 DEF CheckMemory, SubmitterAt, Goto, Return, RunsInHand, TypeOK
<1>3. CASE CheckStore(p)
  BY <1>3 DEF CheckStore, SubmitterAt, Goto, Return, RunsInHand, TypeOK
<1>4. CASE NextRunSeq(p)
  BY <1>4 DEF NextRunSeq, SubmitterAt, Goto, Return, RunsInHand, TypeOK
<1>5. CASE CreateRun(p)
  BY <1>5 DEF CreateRun, SubmitterAt, Goto, Return, RunsInHand, TypeOK
<1>6. CASE MarkRunning(p)
  BY <1>6 DEF MarkRunning, SubmitterAt, Goto, Return, RunsInHand, TypeOK
<1>7. CASE RegisterRun(p)
  BY <1>7 DEF RegisterRun, SubmitterAt, Goto, Return, RunsInHand, TypeOK
<1>8. CASE InstallWorker(p)
  BY <1>8 DEF InstallWorker, SubmitterAt, Goto, Return, RunsInHand, TypeOK
<1>9. CASE RegisterCancel(p)
  BY <1>9 DEF RegisterCancel, SubmitterAt, Goto, Return, RunsInHand, TypeOK
<1>10. CASE AppendRunning(p)
  BY <1>10 DEF AppendRunning, SubmitterAt, Goto, Return, RunsInHand, TypeOK
<1>11. CASE AppendUser(p)
  BY <1>11 DEF AppendUser, SubmitterAt, Goto, Return, RunsInHand, TypeOK
<1>12. CASE LaunchWorker(p)
  BY <1>12 DEF LaunchWorker, SubmitterAt, Goto, Return, RunsInHand, TypeOK
<1>13. QED
  BY <1>1, <1>2, <1>3, <1>4, <1>5, <1>6, <1>7, <1>8, <1>9, <1>10, <1>11, <1>12 DEF SubmitStep

\* A worker touches neither a submitter nor a canceller.
LEMMA WorkerStepFrame ==
  ASSUME NEW r \in Runs, WorkerStep(r)
  PROVE  UNCHANGED <<spc, srun, cpc, crun>>
<1>1. CASE LoopEnds(r)
  BY <1>1 DEF LoopEnds
<1>2. CASE LoopPanics(r)
  BY <1>2 DEF LoopPanics
<1>3. CASE EmitDone(r)
  BY <1>3 DEF EmitDone
<1>4. CASE EmitError(r)
  BY <1>4 DEF EmitError
<1>5. CASE EmitCancelled(r)
  BY <1>5 DEF EmitCancelled
<1>6. CASE PanicAppend(r)
  BY <1>6 DEF PanicAppend
<1>7. CASE DetermineStatus(r)
  BY <1>7 DEF DetermineStatus
<1>8. CASE Compensate(r)
  BY <1>8 DEF Compensate
<1>9. CASE CompensateRetry(r)
  BY <1>9 DEF CompensateRetry
<1>10. CASE Complete(r)
  BY <1>10 DEF Complete
<1>11. CASE StoreStatus(r)
  BY <1>11 DEF StoreStatus
<1>12. CASE FireHooks(r)
  BY <1>12 DEF FireHooks
<1>13. CASE Cleanup(r)
  BY <1>13 DEF Cleanup
<1>14. QED
  BY <1>1, <1>2, <1>3, <1>4, <1>5, <1>6, <1>7, <1>8, <1>9, <1>10, <1>11, <1>12, <1>13 DEF WorkerStep

\* The steps of a canceller keep a real run in hand.
LEMMA CancelRunStepHand ==
  ASSUME TypeOK, RunsInHand, NEW c \in Cancellers, CancelRunStep(c)
  PROVE  RunsInHand'
<1>1. CASE CancelRunCapture(c)
  BY <1>1 DEF CancelRunCapture, CancellerAt, CGoto, CReturn, RunsInHand, TypeOK, NoRun, Clients
<1>2. CASE CancelRunWait(c)
  BY <1>2 DEF CancelRunWait, CancellerAt, CGoto, CReturn, RunsInHand, TypeOK, NoRun, Clients
<1>3. CASE CancelRunInterrupt(c)
  BY <1>3 DEF CancelRunInterrupt, CancellerAt, CGoto, CReturn, RunsInHand, TypeOK, NoRun, Clients
<1>4. CASE CancelRunComplete(c)
  BY <1>4 DEF CancelRunComplete, CancellerAt, CGoto, CReturn, RunsInHand, TypeOK, NoRun, Clients
<1>5. CASE CancelRunStore(c)
  BY <1>5 DEF CancelRunStore, CancellerAt, CGoto, CReturn, RunsInHand, TypeOK, NoRun, Clients
<1>6. QED
  BY <1>1, <1>2, <1>3, <1>4, <1>5 DEF CancelRunStep

\* The types and the runs in hand are kept by every step.
LEMMA TypeStep ==
  ASSUME TypeOK, RunsInHand, [Next]_vars
  PROVE  TypeOK' /\ RunsInHand'
<1>1. CASE \E p \in Submitters : SubmitStep(p)
  BY <1>1, SubmitStepType, SubmitStepHand
<1>2. CASE \E r \in Runs : WorkerStep(r)
  <2>1. TypeOK'
    BY <1>2, WorkerStepType
  <2>2. UNCHANGED <<spc, srun, cpc, crun>>
    BY <1>2, WorkerStepFrame
  <2>3. QED
    BY <2>1, <2>2 DEF RunsInHand
<1>3. CASE \E c \in Cancellers : CancelRunStep(c)
  BY <1>3, CancelRunStepType, CancelRunStepHand
<1>4. ASSUME NEW d \in Deleters, DeleteCancel(d)
      PROVE  TypeOK' /\ RunsInHand'
  <2>1. Home[d] \in Instances /\ workers[Home[d]] \in Runs \cup {NoRun}
    BY DEF TypeOK, Clients
  <2>2. ctxDone' \in [Runs -> BOOLEAN]
    BY <1>4, <2>1 DEF DeleteCancel, CancelWorker, TypeOK
  <2>3. dpc' \in [Deleters -> {"idle", "delete"}]
    BY <1>4 DEF DeleteCancel, TypeOK
  <2>4. QED
    BY <1>4, <2>2, <2>3 DEF DeleteCancel, TypeOK, RunsInHand
<1>5. ASSUME NEW d \in Deleters, DeleteSessionForUser(d)
      PROVE  TypeOK' /\ RunsInHand'
  <2>1. dpc' \in [Deleters -> {"idle", "delete"}] /\ ended' \in BOOLEAN
    BY <1>5 DEF DeleteSessionForUser, TypeOK
  <2>2. faults' \in 0..MaxFaults
    BY <1>5 DEF DeleteSessionForUser, StatementOK, StatementFails, TypeOK
  <2>3. QED
    BY <1>5, <2>1, <2>2 DEF DeleteSessionForUser, TypeOK, RunsInHand
<1>6. ASSUME NEW i \in Instances, RegistryCancel(i)
      PROVE  TypeOK' /\ RunsInHand'
  BY <1>6 DEF RegistryCancel, CancelWorker, TypeOK, RunsInHand
<1>7. ASSUME NEW i \in Instances, Crash(i)
      PROVE  TypeOK' /\ RunsInHand'
  <2>1. /\ spc' \in [Submitters -> SubmitPC] /\ srun' \in [Submitters -> Runs \cup {NoRun}]
        /\ wpc' \in [Runs -> WorkerPC] /\ cpc' \in [Cancellers -> CancelPC]
        /\ dpc' \in [Deleters -> {"idle", "delete"}]
    BY <1>7 DEF Crash, TypeOK, SubmitPC, WorkerPC, CancelPC
  <2>2. /\ up' \in [Instances -> BOOLEAN] /\ mem' \in [Instances -> Runs \cup {NoRun}]
        /\ memOff' \in [Instances -> Nat] /\ memCancel' \in [Instances -> Runs \cup {NoRun}]
        /\ workers' \in [Instances -> Runs \cup {NoRun}] /\ crashes' \in 0..MaxCrashes
    BY <1>7 DEF Crash, TypeOK
  <2>3. TypeOK'
    BY <1>7, <2>1, <2>2 DEF Crash, TypeOK
  <2>4. RunsInHand'
    BY <1>7 DEF Crash, RunsInHand, TypeOK
  <2>5. QED
    BY <2>3, <2>4
<1>8. ASSUME NEW i \in Instances, Restart(i)
      PROVE  TypeOK' /\ RunsInHand'
  <2>1. row' \in [Runs -> {"none"} \cup Active \cup Terminal]
    BY <1>8 DEF Restart, FailStrandedRuns, TypeOK, Terminal
  <2>2. QED
    BY <1>8, <2>1 DEF Restart, StatementOK, StatementFails, TypeOK, RunsInHand
<1>9. CASE UNCHANGED vars
  BY <1>9 DEF TypeOK, RunsInHand
<1>10. CASE \E d \in Deleters : DeleteCancel(d) \/ DeleteSessionForUser(d)
  BY <1>4, <1>5, <1>10
<1>11. CASE \E i \in Instances : RegistryCancel(i) \/ Crash(i) \/ Restart(i)
  BY <1>6, <1>7, <1>8, <1>11
<1>12. CASE Next
  BY <1>1, <1>2, <1>3, <1>10, <1>11, <1>12 DEF Next
<1>13. QED
  BY <1>9, <1>12

\* The initial state is well typed.
LEMMA TypeInit ==
  ASSUME Init
  PROVE  TypeOK /\ RunsInHand
<1>1. (CHOOSE i \in Instances : TRUE) \in Instances
  OBVIOUS
<1>2. whome \in [Runs -> Instances]
  BY <1>1 DEF Init
<1>3. /\ row \in [Runs -> {"none"} \cup Active \cup Terminal]
      /\ log \in [Runs -> SUBSET [off : Nat, kind : Kinds]]
  BY DEF Init
<1>4. TypeOK
  <2>1. /\ ended \in BOOLEAN
        /\ up \in [Instances -> BOOLEAN]
        /\ mem \in [Instances -> Runs \cup {NoRun}]
        /\ memOff \in [Instances -> Nat]
        /\ memCancel \in [Instances -> Runs \cup {NoRun}]
        /\ workers \in [Instances -> Runs \cup {NoRun}]
    BY DEF Init
  <2>2. /\ spc \in [Submitters -> SubmitPC]
        /\ srun \in [Submitters -> Runs \cup {NoRun}]
        /\ cpc \in [Cancellers -> CancelPC]
        /\ crun \in [Cancellers -> Runs \cup {NoRun}]
        /\ cfn \in [Cancellers -> Runs \cup {NoRun}]
        /\ dpc \in [Deleters -> {"idle", "delete"}]
    BY DEF Init, SubmitPC, CancelPC
  <2>3. /\ wpc \in [Runs -> WorkerPC]
        /\ ctxDone \in [Runs -> BOOLEAN]
        /\ outcome \in [Runs -> {"none", "nil", "error", "panic"}]
        /\ landed \in [Runs -> BOOLEAN]
        /\ status \in [Runs -> {"none"} \cup Terminal]
        /\ hook \in [Runs -> {"none"} \cup Terminal]
    BY DEF Init, WorkerPC
  <2>4. faults \in 0..MaxFaults /\ crashes \in 0..MaxCrashes
    BY DEF Init
  <2>5. QED
    BY <1>2, <1>3, <2>1, <2>2, <2>3, <2>4 DEF TypeOK
<1>5. RunsInHand
  BY DEF Init, RunsInHand
<1>6. QED
  BY <1>4, <1>5

\* Type correctness: every behaviour of the run lifecycle is well typed.
THEOREM TypeCorrect == Spec => [](TypeOK /\ RunsInHand)
<1>1. Init => TypeOK /\ RunsInHand
  BY TypeInit
<1>2. TypeOK /\ RunsInHand /\ [Next]_vars => (TypeOK /\ RunsInHand)'
  BY TypeStep
<1>3. QED
  BY <1>1, <1>2, PTL DEF Spec

-----------------------------------------------------------------------------
(* At most one active run.  Only CreateRun and MarkRunning make a row       *)
(* active, both under the partial unique index.                             *)

\* A step that makes no further row active keeps the invariant.
LEMMA NoNewActive ==
  ASSUME SingleActiveRun, \A r \in Runs : row'[r] \in Active => row[r] \in Active
  PROVE  SingleActiveRun'
BY DEF SingleActiveRun, ActiveRows

\* A worker makes no row active: StoreStatus writes a terminal status.
LEMMA WorkerStepRows ==
  ASSUME TypeOK, NEW w \in Runs, WorkerStep(w)
  PROVE  \A r \in Runs : row'[r] \in Active => row[r] \in Active
<1>1. CASE StoreStatus(w)
  <2>1. status[w] \notin Active
    BY DEF TypeOK, Active, Terminal
  <2>2. row' = row \/ row' = [row EXCEPT ![w] = status[w]]
    BY <1>1 DEF StoreStatus
  <2>3. QED
    BY <2>1, <2>2 DEF TypeOK
<1>2. CASE ~StoreStatus(w)
  <2>1. row' = row
    BY <1>2 DEF WorkerStep, LoopEnds, LoopPanics, EmitDone, EmitError, EmitCancelled,
                PanicAppend, DetermineStatus, Compensate, CompensateRetry, Complete,
                FireHooks, Cleanup
  <2>2. QED
    BY <2>1
<1>3. QED
  BY <1>1, <1>2

\* A submitter makes a row active only when it is the only one.
LEMMA SubmitStepSingle ==
  ASSUME TypeOK, RunsInHand, SingleActiveRun, NEW p \in Submitters, SubmitStep(p)
  PROVE  SingleActiveRun'
<1>1. CASE CreateRun(p)
  <2>1. CASE CreateConflict(srun[p])
    BY <1>1, <2>1, NoNewActive DEF CreateRun
  <2>2. CASE ~CreateConflict(srun[p])
    <3>1. row' = [row EXCEPT ![srun[p]] = "queued"] /\ ActiveRows = {}
      BY <1>1, <2>2 DEF CreateRun, CreateConflict
    <3>2. \A r \in Runs : row'[r] \in Active => r = srun[p]
      BY <3>1 DEF ActiveRows, TypeOK
    <3>3. QED
      BY <3>2 DEF SingleActiveRun, ActiveRows
  <2>3. QED
    BY <2>1, <2>2
<1>2. CASE MarkRunning(p)
  <2>1. CASE row' = row
    BY <2>1, NoNewActive
  <2>2. CASE row' # row
    <3>1. row' = [row EXCEPT ![srun[p]] = "running"] /\ ActiveRows \subseteq {srun[p]}
      BY <1>2, <2>2 DEF MarkRunning
    <3>2. \A r \in Runs : row'[r] \in Active => r = srun[p]
      BY <3>1 DEF ActiveRows, TypeOK
    <3>3. QED
      BY <3>2 DEF SingleActiveRun, ActiveRows
  <2>3. QED
    BY <2>1, <2>2
<1>3. CASE ~CreateRun(p) /\ ~MarkRunning(p)
  <2>1. row' = row
    BY <1>3 DEF SubmitStep, GetSession, CheckMemory, CheckStore, NextRunSeq, RegisterRun,
                InstallWorker, RegisterCancel, AppendRunning, AppendUser, LaunchWorker
  <2>2. QED
    BY <2>1, NoNewActive
<1>4. QED
  BY <1>1, <1>2, <1>3

\* Every step keeps at most one active row.
LEMMA SingleActiveStep ==
  ASSUME TypeOK, RunsInHand, SingleActiveRun, [Next]_vars
  PROVE  SingleActiveRun'
<1>1. CASE \E p \in Submitters : SubmitStep(p)
  BY <1>1, SubmitStepSingle
<1>2. CASE \E r \in Runs : WorkerStep(r)
  BY <1>2, WorkerStepRows, NoNewActive
<1>3. ASSUME NEW c \in Cancellers, CancelRunStep(c)
      PROVE  SingleActiveRun'
  <2>1. CASE CancelRunStore(c)
    <3>1. \A r \in Runs : row'[r] \in Active => row[r] \in Active
      BY <2>1 DEF CancelRunStore, TypeOK, Active
    <3>2. QED
      BY <3>1, NoNewActive
  <2>2. CASE ~CancelRunStore(c)
    <3>1. row' = row
      BY <1>3, <2>2 DEF CancelRunStep, CancelRunCapture, CancelRunWait, CancelRunInterrupt,
                        CancelRunComplete
    <3>2. QED
      BY <3>1, NoNewActive
  <2>3. QED
    BY <2>1, <2>2
<1>4. CASE \E d \in Deleters : DeleteCancel(d) \/ DeleteSessionForUser(d)
  BY <1>4, NoNewActive DEF DeleteCancel, DeleteSessionForUser
<1>5. ASSUME NEW i \in Instances, RegistryCancel(i) \/ Crash(i)
      PROVE  SingleActiveRun'
  BY <1>5, NoNewActive DEF RegistryCancel, Crash
<1>6. ASSUME NEW i \in Instances, Restart(i)
      PROVE  SingleActiveRun'
  <2>1. \A r \in Runs : row'[r] \in Active => row[r] \in Active
    BY <1>6 DEF Restart, FailStrandedRuns, TypeOK, Active
  <2>2. QED
    BY <2>1, NoNewActive
<1>7. CASE UNCHANGED vars
  BY <1>7, NoNewActive
<1>8. QED
  BY <1>1, <1>2, <1>3, <1>4, <1>5, <1>6, <1>7 DEF Next

\* The session's single-run rule: whatever the interleaving of submitters on any
\* number of instances, with failed statements, crashes and restarts, at most one
\* run of the session is queued or running.
THEOREM SingleActive == Spec => []SingleActiveRun
<1>1. Init => SingleActiveRun
  BY DEF Init, SingleActiveRun, ActiveRows, Active
<1>2. TypeOK /\ RunsInHand /\ SingleActiveRun /\ [Next]_vars => SingleActiveRun'
  BY SingleActiveStep
<1>3. QED
  BY <1>1, <1>2, TypeCorrect, PTL DEF Spec

-----------------------------------------------------------------------------
(* The token invariant over all steps.                                      *)

\* Deletions and the Stop button touch no token.
LEMMA StopLock ==
  ASSUME TypeOK, LockInv,
         UNCHANGED <<row, mem, spc, srun, wpc, whome, cpc, crun, up, crashes>>
  PROVE  LockInv'
<1>1. SubmitterTokensKept /\ WorkerTokensKept /\ CancellerTokensKept
  BY DEF SubmitterTokensKept, WorkerTokensKept, CancellerTokensKept, Starting
<1>2. RunsInHand' /\ DownIsEmpty'
  BY DEF LockInv, RunsInHand, DownIsEmpty
<1>3. QED
  BY <1>1, <1>2, NoNewToken, NoNewTokenActive DEF LockInv

\* A crash drops the tokens of its instance and leaves the others alone.
LEMMA CrashLock ==
  ASSUME TypeOK, LockInv, NEW i \in Instances, Crash(i)
  PROVE  LockInv'
<1>1. /\ \A j \in Instances : mem'[j] # NoRun => mem'[j] = mem[j]
      /\ row' = row /\ crun' = crun /\ whome' = whome
      /\ SubmitterTokensKept /\ WorkerTokensKept /\ CancellerTokensKept
  BY DEF Crash, TypeOK, SubmitterTokensKept, WorkerTokensKept, CancellerTokensKept, Starting
<1>2. TokenHoldersAreActive'
  BY <1>1 DEF LockInv, TokenHoldersAreActive, Starting, SubmitterTokensKept,
              WorkerTokensKept, CancellerTokensKept
<1>3. RunsInHand'
  BY DEF Crash, LockInv, RunsInHand, TypeOK
<1>4. OneTokenPerRun'
  <2>1. \A p \in Submitters : Starting(p)' => srun'[p] # NoRun
    BY <1>3 DEF RunsInHand, Starting, NoRun, Runs
  <2>2. \A c \in Cancellers : cpc'[c] = "store" => crun'[c] # NoRun
    BY <1>3 DEF RunsInHand, NoRun, Runs
  <2>3. \A r \in Runs : r # NoRun
    BY DEF NoRun, Runs
  <2>4. /\ \A p, q \in Submitters : Starting(p)' /\ Starting(q)' /\ srun'[p] = srun'[q] => p = q
        /\ \A p \in Submitters, j \in Instances : Starting(p)' => mem'[j] # srun'[p]
        /\ \A p \in Submitters : Starting(p)' => wpc'[srun'[p]] # "store"
        /\ \A p \in Submitters, c \in Cancellers :
             Starting(p)' /\ cpc'[c] = "store" => crun'[c] # srun'[p]
    <3>1. \A p \in Submitters : Starting(p)' => srun'[p] \in Runs
      BY <1>3 DEF RunsInHand, Starting
    <3>2. QED
      BY <1>1, <2>1, <3>1 DEF LockInv, OneTokenPerRun, SubmitterTokensKept, WorkerTokensKept,
                         CancellerTokensKept
  <2>5. /\ \A j, k \in Instances : mem'[j] = mem'[k] /\ mem'[j] # NoRun => j = k
        /\ \A j \in Instances, r \in Runs : mem'[j] = r => wpc'[r] # "store"
        /\ \A j \in Instances, c \in Cancellers : cpc'[c] = "store" => mem'[j] # crun'[c]
    BY <1>1, <2>2, <2>3 DEF LockInv, OneTokenPerRun, WorkerTokensKept, CancellerTokensKept
  <2>6. /\ \A r \in Runs, c \in Cancellers : wpc'[r] = "store" /\ cpc'[c] = "store" => crun'[c] # r
        /\ \A c, d \in Cancellers :
             cpc'[c] = "store" /\ cpc'[d] = "store" /\ crun'[c] = crun'[d] => c = d
    BY <1>1 DEF LockInv, OneTokenPerRun, WorkerTokensKept, CancellerTokensKept
  <2>7. QED
    BY <2>4, <2>5, <2>6 DEF OneTokenPerRun
<1>5. DownIsEmpty'
  <2>1. crashes \in Nat /\ crashes' = crashes + 1
    BY DEF Crash, TypeOK
  <2>2. ASSUME NEW j \in Instances, ~up'[j]
        PROVE  /\ mem'[j] = NoRun
               /\ \A p \in Submitters : Home[p] = j => spc'[p] = "idle"
               /\ \A c \in Cancellers : Home[c] = j => cpc'[c] = "idle"
               /\ \A r \in Runs : whome'[r] = j => wpc'[r] \in {"none", "gone"}
    <3>1. CASE j = i
      BY <2>2, <3>1 DEF Crash, TypeOK
    <3>2. CASE j # i
      <4>1. ~up[j]
        BY <2>2, <3>2 DEF Crash, TypeOK
      <4>2. QED
        BY <3>2, <4>1 DEF Crash, TypeOK, LockInv, DownIsEmpty
    <3>3. QED
      BY <3>1, <3>2
  <2>3. QED
    BY <2>1, <2>2 DEF DownIsEmpty
<1>6. QED
  BY <1>2, <1>3, <1>4, <1>5 DEF LockInv

\* A restart finds no token at all: the only instance was down.
LEMMA RestartLock ==
  ASSUME NoForeignRestart, TypeOK, LockInv, NEW i \in Instances, Restart(i)
  PROVE  LockInv'
<1>1. ~up[i] /\ crashes > 0
  BY DEF Restart, LockInv, DownIsEmpty
<1>2. \A j \in Instances : j = i
  BY <1>1 DEF NoForeignRestart, TypeOK
<1>3. /\ \A p \in Submitters : spc[p] = "idle"
      /\ \A c \in Cancellers : cpc[c] = "idle"
      /\ \A j \in Instances : mem[j] = NoRun
      /\ \A r \in Runs : wpc[r] # "store"
  <2>1. \A p \in Submitters : Home[p] = i
    BY <1>2 DEF Clients
  <2>2. \A c \in Cancellers : Home[c] = i
    BY <1>2 DEF Clients
  <2>3. \A r \in Runs : whome[r] = i
    BY <1>2 DEF TypeOK
  <2>4. QED
    BY <1>1, <1>2, <2>1, <2>2, <2>3 DEF LockInv, DownIsEmpty
<1>4. UNCHANGED <<mem, spc, srun, wpc, cpc, crun>>
  BY DEF Restart
<1>5. \A j \in Instances : up'[j]
  BY <1>2 DEF Restart, TypeOK
<1>6. QED
  BY <1>3, <1>4, <1>5 DEF LockInv, TokenHoldersAreActive, OneTokenPerRun, RunsInHand,
                          DownIsEmpty, Starting

\* Every step keeps the token invariant, unless it restarts an instance beside
\* another one that is serving.
LEMMA LockStep ==
  ASSUME NoForeignRestart, TypeOK, LockInv, [Next]_vars
  PROVE  LockInv'
<1>1. CASE \E p \in Submitters : SubmitStep(p)
  BY <1>1, SubmitStepLock
<1>2. CASE \E r \in Runs : WorkerStep(r)
  BY <1>2, WorkerStepLock
<1>3. CASE \E c \in Cancellers : CancelRunStep(c)
  BY <1>3, CancelRunStepLock
<1>4. CASE \E d \in Deleters : DeleteCancel(d) \/ DeleteSessionForUser(d)
  BY <1>4, StopLock DEF DeleteCancel, DeleteSessionForUser
<1>5. CASE \E i \in Instances : RegistryCancel(i)
  BY <1>5, StopLock DEF RegistryCancel
<1>6. CASE \E i \in Instances : Crash(i)
  BY <1>6, CrashLock
<1>7. CASE \E i \in Instances : Restart(i)
  BY <1>7, RestartLock
<1>8. CASE UNCHANGED vars
  BY <1>8, StopLock
<1>9. QED
  BY <1>1, <1>2, <1>3, <1>4, <1>5, <1>6, <1>7, <1>8 DEF Next

\* Nobody holds a token at first.
LEMMA LockInit ==
  ASSUME Init
  PROVE  LockInv
BY DEF Init, LockInv, TokenHoldersAreActive, OneTokenPerRun, RunsInHand, DownIsEmpty,
       Starting, NoRun, Runs

\* The in-memory lock, the submitters and the callers of CompleteRunForRun never
\* hold the right to write the status of the same run, and the run is active.
THEOREM LockHolds ==
  ASSUME NoForeignRestart
  PROVE  Spec => []LockInv
<1>1. Init => LockInv
  BY LockInit
<1>2. TypeOK /\ LockInv /\ [Next]_vars => LockInv'
  BY LockStep
<1>3. QED
  BY <1>1, <1>2, TypeCorrect, PTL DEF Spec

-----------------------------------------------------------------------------
(* A terminal status is final: whoever writes a status holds its token.     *)

\* One step never moves a terminal row.
LEMMA TerminalStep ==
  ASSUME TypeOK, LockInv, [Next]_vars, NEW r \in Runs, row[r] \in Terminal
  PROVE  row'[r] = row[r]
<1>0. row[r] \notin Active /\ row[r] # "none"
  BY DEF Active, Terminal
<1>1. ASSUME NEW p \in Submitters, SubmitStep(p)
      PROVE  row'[r] = row[r]
  <2>1. CASE CreateRun(p)
    BY <1>0, <2>1 DEF CreateRun, CreateConflict, TypeOK
  <2>2. CASE MarkRunning(p)
    <3>1. row[srun[p]] = "queued"
      BY <2>2 DEF MarkRunning, SubmitterAt, LockInv, TokenHoldersAreActive
    <3>2. srun[p] # r
      BY <1>0, <3>1 DEF Active
    <3>3. QED
      BY <2>2, <3>2 DEF MarkRunning, TypeOK
  <2>3. CASE ~CreateRun(p) /\ ~MarkRunning(p)
    BY <1>1, <2>3 DEF SubmitStep, GetSession, CheckMemory, CheckStore, NextRunSeq, RegisterRun,
                InstallWorker, RegisterCancel, AppendRunning, AppendUser, LaunchWorker
  <2>4. QED
    BY <2>1, <2>2, <2>3
<1>2. ASSUME NEW w \in Runs, WorkerStep(w)
      PROVE  row'[r] = row[r]
  <2>1. CASE StoreStatus(w)
    <3>1. row[w] = "running"
      BY <2>1 DEF StoreStatus, WorkerAt, LockInv, TokenHoldersAreActive
    <3>2. w # r
      BY <1>0, <3>1 DEF Active
    <3>3. QED
      BY <2>1, <3>2 DEF StoreStatus, TypeOK
  <2>2. CASE ~StoreStatus(w)
    BY <1>2, <2>2 DEF WorkerStep, LoopEnds, LoopPanics, EmitDone, EmitError, EmitCancelled,
                PanicAppend, DetermineStatus, Compensate, CompensateRetry, Complete,
                FireHooks, Cleanup
  <2>3. QED
    BY <2>1, <2>2
<1>3. ASSUME NEW c \in Cancellers, CancelRunStep(c)
      PROVE  row'[r] = row[r]
  <2>1. CASE CancelRunStore(c)
    <3>1. row[crun[c]] = "running"
      BY <2>1 DEF CancelRunStore, CancellerAt, LockInv, TokenHoldersAreActive
    <3>2. crun[c] # r
      BY <1>0, <3>1 DEF Active
    <3>3. QED
      BY <2>1, <3>2 DEF CancelRunStore, TypeOK
  <2>2. CASE ~CancelRunStore(c)
    BY <1>3, <2>2 DEF CancelRunStep, CancelRunCapture, CancelRunWait, CancelRunInterrupt,
                      CancelRunComplete
  <2>3. QED
    BY <2>1, <2>2
<1>4. CASE \E d \in Deleters : DeleteCancel(d) \/ DeleteSessionForUser(d)
  BY <1>4 DEF DeleteCancel, DeleteSessionForUser
<1>5. CASE \E i \in Instances : RegistryCancel(i) \/ Crash(i)
  BY <1>5 DEF RegistryCancel, Crash
<1>6. CASE \E i \in Instances : Restart(i)
  BY <1>0, <1>6 DEF Restart, FailStrandedRuns, TypeOK
<1>7. CASE UNCHANGED vars
  BY <1>7
<1>8. QED
  BY <1>1, <1>2, <1>3, <1>4, <1>5, <1>6, <1>7 DEF Next

\* A run that is done, failed or cancelled never changes state again, although
\* UpdateRunStatus is an unconditional UPDATE: whoever issues it holds the run's
\* token.  The assumption is the code's own: no instance starts beside a live one.
THEOREM StatusIsFinal ==
  ASSUME NoForeignRestart
  PROVE  Spec => TerminalIsFinal
<1>1. TypeOK /\ LockInv /\ [Next]_vars
        => [\A r \in Runs : row[r] \in Terminal => row'[r] = row[r]]_vars
  BY TerminalStep
<1>2. QED
  BY <1>1, TypeCorrect, LockHolds, PTL DEF Spec, TerminalIsFinal

-----------------------------------------------------------------------------
(* The run lifecycle implements the run table: every step of a submitter,  *)
(* a worker, a canceller, a crash or a restart is one step of the table or *)
(* leaves the rows alone.                                                  *)

-----------------------------------------------------------------------------
(* A worker that is about to settle its run knows how.                     *)

\* The worker's own steps: the status is computed on the way from "returned" or
\* "panicking" and not touched afterwards.
LEMMA WorkerStepStatus ==
  ASSUME TypeOK, StatusKnown, NEW w \in Runs, WorkerStep(w)
  PROVE  StatusKnown'
<1>1. CASE LoopEnds(w) \/ LoopPanics(w) \/ EmitDone(w) \/ EmitError(w) \/ EmitCancelled(w)
  BY <1>1 DEF LoopEnds, LoopPanics, EmitDone, EmitError, EmitCancelled, WGoto, StatusKnown, TypeOK
<1>2. CASE PanicAppend(w)
  BY <1>2 DEF PanicAppend, WGoto, StatusKnown, TypeOK, Terminal
<1>3. CASE DetermineStatus(w)
  <2>1. FinalStatus(w) \in Terminal
    BY DEF FinalStatus, Terminal
  <2>2. QED
    BY <1>3, <2>1 DEF DetermineStatus, WGoto, StatusKnown, TypeOK
<1>4. CASE Compensate(w) \/ CompensateRetry(w)
  BY <1>4 DEF Compensate, CompensateRetry, WorkerAt, WGoto, StatusKnown, TypeOK
<1>5. CASE Complete(w)
  BY <1>5 DEF Complete, WorkerAt, WGoto, AfterSettle, StatusKnown, TypeOK
<1>6. CASE StoreStatus(w)
  BY <1>6 DEF StoreStatus, WGoto, AfterSettle, StatusKnown, TypeOK
<1>7. CASE FireHooks(w) \/ Cleanup(w)
  BY <1>7 DEF FireHooks, Cleanup, WGoto, StatusKnown, TypeOK
<1>8. QED
  BY <1>1, <1>2, <1>3, <1>4, <1>5, <1>6, <1>7 DEF WorkerStep

\* Nobody else brings a worker to the point of settling or writes its status.
LEMMA StatusStep ==
  ASSUME TypeOK, StatusKnown, [Next]_vars
  PROVE  StatusKnown'
<1>1. ASSUME NEW p \in Submitters, SubmitStep(p)
      PROVE  StatusKnown'
  <2>1. CASE LaunchWorker(p)
    BY <1>1, <2>1 DEF LaunchWorker, StatusKnown, TypeOK
  <2>2. CASE ~LaunchWorker(p)
    <3>1. UNCHANGED <<wpc, status>>
      BY <1>1, <2>2 DEF SubmitStep, GetSession, CheckMemory, CheckStore, NextRunSeq, CreateRun,
                  MarkRunning, RegisterRun, InstallWorker, RegisterCancel, AppendRunning,
                  AppendUser,
                  worker
    <3>2. QED
      BY <3>1 DEF StatusKnown
  <2>3. QED
    BY <2>1, <2>2
<1>2. CASE \E r \in Runs : WorkerStep(r)
  BY <1>2, WorkerStepStatus
<1>3. ASSUME NEW c \in Cancellers, CancelRunStep(c)
      PROVE  StatusKnown'
  BY <1>3 DEF CancelRunStep, CancelRunCapture, CancelRunWait, CancelRunInterrupt, CancelRunComplete,
              CancelRunStore, worker, StatusKnown
<1>4. CASE \E d \in Deleters : DeleteCancel(d) \/ DeleteSessionForUser(d)
  BY <1>4 DEF DeleteCancel, DeleteSessionForUser, worker, StatusKnown
<1>5. CASE \E i \in Instances : RegistryCancel(i) \/ Restart(i)
  BY <1>5 DEF RegistryCancel, Restart, worker, StatusKnown
<1>6. CASE \E i \in Instances : Crash(i)
  BY <1>6 DEF Crash, StatusKnown, TypeOK
<1>7. CASE UNCHANGED vars
  BY <1>7 DEF vars, worker, StatusKnown
<1>8. QED
  BY <1>1, <1>2, <1>3, <1>4, <1>5, <1>6, <1>7 DEF Next

-----------------------------------------------------------------------------
(* Every step is a step of the table.                                      *)

\* The INSERT is Create, the first UPDATE is Start.
LEMMA SubmitStepTable ==
  ASSUME TypeOK, TableInv, NEW p \in Submitters, SubmitStep(p)
  PROVE  Table!TableNext \/ row' = row
<1>1. CASE CreateRun(p)
  <2>1. CASE CreateConflict(srun[p])
    BY <1>1, <2>1 DEF CreateRun
  <2>2. CASE ~CreateConflict(srun[p])
    <3>1. srun[p] \in 1..MaxRuns
      BY <1>1 DEF CreateRun, SubmitterAt, TableInv, LockInv, RunsInHand, Runs
    <3>2. row' = [row EXCEPT ![srun[p]] = "queued"] /\ ActiveRows = {} /\ row[srun[p]] = "none"
      BY <1>1, <2>2 DEF CreateRun, CreateConflict
    <3>3. \A q \in 1..MaxRuns : row[q] \notin Table!InProgress
      BY <3>2 DEF ActiveRows, Active, Runs, Table!InProgress
    <3>4. \A q \in 1..(srun[p] - 1) : row[q] # "none"
      <4>1. \A q \in 1..(srun[p] - 1) : q \in Runs /\ q < srun[p]
        BY <3>1, RunsAssumption DEF Runs
      <4>2. spc[p] = "create"
        BY <1>1 DEF CreateRun, SubmitterAt
      <4>3. QED
        BY <4>1, <4>2 DEF TableInv, SeqInv
    <3>5. Table!Create(srun[p])
      BY <3>2, <3>3, <3>4 DEF Table!Create
    <3>6. QED
      BY <3>1, <3>5 DEF Table!TableNext
  <2>3. QED
    BY <2>1, <2>2
<1>2. CASE MarkRunning(p)
  <2>1. srun[p] \in 1..MaxRuns /\ row[srun[p]] = "queued"
    BY <1>2 DEF MarkRunning, SubmitterAt, TableInv, LockInv, RunsInHand, TokenHoldersAreActive, Runs
  <2>2. row' = row \/ Table!Start(srun[p])
    BY <1>2, <2>1 DEF MarkRunning, Table!Start
  <2>3. QED
    BY <2>1, <2>2 DEF Table!TableNext
<1>3. CASE ~CreateRun(p) /\ ~MarkRunning(p)
  BY <1>3 DEF SubmitStep, GetSession, CheckMemory, CheckStore, NextRunSeq, RegisterRun,
              InstallWorker, RegisterCancel, AppendRunning, AppendUser, LaunchWorker, durable
<1>4. QED
  BY <1>1, <1>2, <1>3

\* The worker's UPDATE is Settle: it holds the token, so the row is running.
LEMMA WorkerStepTable ==
  ASSUME TypeOK, TableInv, NEW w \in Runs, WorkerStep(w)
  PROVE  Table!TableNext \/ row' = row
<1>1. CASE StoreStatus(w)
  <2>1. w \in 1..MaxRuns /\ row[w] = "running" /\ status[w] \in Table!Over
    BY <1>1 DEF StoreStatus, WorkerAt, TableInv, LockInv, TokenHoldersAreActive, StatusKnown, Runs,
                Terminal, Table!Over
  <2>2. row' = row \/ Table!Settle(w, status[w])
    BY <1>1, <2>1 DEF StoreStatus, Table!Settle
  <2>3. QED
    BY <2>1, <2>2 DEF Table!TableNext
<1>2. CASE ~StoreStatus(w)
  BY <1>2 DEF WorkerStep, LoopEnds, LoopPanics, EmitDone, EmitError, EmitCancelled,
              PanicAppend, DetermineStatus, Compensate, CompensateRetry, Complete,
              FireHooks, Cleanup, durable
<1>3. QED
  BY <1>1, <1>2

\* So is the canceller's.
LEMMA CancelRunStepTable ==
  ASSUME TypeOK, TableInv, NEW c \in Cancellers, CancelRunStep(c)
  PROVE  Table!TableNext \/ row' = row
<1>1. CASE CancelRunStore(c)
  <2>1. crun[c] \in 1..MaxRuns /\ row[crun[c]] = "running" /\ "cancelled" \in Table!Over
    BY <1>1 DEF CancelRunStore, CancellerAt, TableInv, LockInv, RunsInHand, TokenHoldersAreActive,
         Runs,
                Table!Over
  <2>2. row' = row \/ Table!Settle(crun[c], "cancelled")
    BY <1>1, <2>1 DEF CancelRunStore, Table!Settle
  <2>3. QED
    BY <2>1, <2>2 DEF Table!TableNext
<1>2. CASE ~CancelRunStore(c)
  BY <1>2 DEF CancelRunStep, CancelRunCapture, CancelRunWait, CancelRunInterrupt,
              CancelRunComplete, durable
<1>3. QED
  BY <1>1, <1>2

\* Reconciliation fails every active row, which is one row at most.
LEMMA RestartTable ==
  ASSUME TypeOK, SingleActiveRun, NEW i \in Instances, Restart(i)
  PROVE  Table!TableNext \/ row' = row
<1>1. CASE row' # row
  <2>1. row' = [r \in Runs |-> IF row[r] \in Active THEN "failed" ELSE row[r]]
    BY <1>1 DEF Restart, FailStrandedRuns
  <2>2. PICK r \in Runs : row[r] \in Active
    BY <1>1, <2>1 DEF TypeOK
  <2>3. \A q \in Runs : row[q] \in Active => q = r
    BY <2>2 DEF SingleActiveRun, ActiveRows
  <2>4. row' = [row EXCEPT ![r] = "failed"]
    BY <2>1, <2>2, <2>3 DEF TypeOK
  <2>5. Table!Fail(r)
    BY <2>2, <2>4 DEF Table!Fail, Table!InProgress, Active
  <2>6. QED
    BY <2>5 DEF Table!TableNext, Runs
<1>2. QED
  BY <1>1

\* All steps.
LEMMA TableStep ==
  ASSUME TypeOK, SingleActiveRun, TableInv, [Next]_vars
  PROVE  Table!TableNext \/ row' = row
<1>1. CASE \E p \in Submitters : SubmitStep(p)
  BY <1>1, SubmitStepTable
<1>2. CASE \E r \in Runs : WorkerStep(r)
  BY <1>2, WorkerStepTable
<1>3. CASE \E c \in Cancellers : CancelRunStep(c)
  BY <1>3, CancelRunStepTable
<1>4. CASE \E d \in Deleters : DeleteCancel(d) \/ DeleteSessionForUser(d)
  BY <1>4 DEF DeleteCancel, DeleteSessionForUser, durable
<1>5. CASE \E i \in Instances : RegistryCancel(i) \/ Crash(i)
  BY <1>5 DEF RegistryCancel, Crash, durable
<1>6. CASE \E i \in Instances : Restart(i)
  BY <1>6, RestartTable
<1>7. CASE UNCHANGED vars
  BY <1>7 DEF vars, durable
<1>8. QED
  BY <1>1, <1>2, <1>3, <1>4, <1>5, <1>6, <1>7 DEF Next

-----------------------------------------------------------------------------
(* Rows are numbered without gaps.                                         *)

\* A step of the table removes no row and leaves no gap.
LEMMA TableStepSeq ==
  ASSUME TypeOK, SeqInv, Table!TableNext \/ row' = row
  PROVE  /\ \A r \in Runs : row[r] # "none" => row'[r] # "none"
         /\ \A r, q \in Runs : q < r /\ row'[r] # "none" => row'[q] # "none"
<1>1. ASSUME NEW n \in Runs, Table!Create(n)
      PROVE  /\ \A r \in Runs : row[r] # "none" => row'[r] # "none"
             /\ \A r, q \in Runs : q < r /\ row'[r] # "none" => row'[q] # "none"
  <2>1. \A r \in Runs : row'[r] = IF r = n THEN "queued" ELSE row[r]
    BY <1>1 DEF Table!Create, TypeOK
  <2>2. \A q \in Runs : q < n => row[q] # "none"
    BY <1>1 DEF Table!Create, Runs
  <2>3. QED
    BY <2>1, <2>2 DEF SeqInv
<1>2. ASSUME NEW n \in Runs, Table!Start(n) \/ Table!Fail(n) \/ \E s \in Table!Over :
             Table!Settle(n, s)
      PROVE  \A r \in Runs : row'[r] # "none" <=> row[r] # "none"
  BY <1>2 DEF Table!Start, Table!Fail, Table!Settle, Table!InProgress, Table!Over, TypeOK
<1>3. CASE row' = row
  BY <1>3 DEF SeqInv
<1>4. CASE Table!TableNext
  BY <1>1, <1>2, <1>4 DEF Table!TableNext, SeqInv, Runs
<1>5. QED
  BY <1>3, <1>4

\* A submitter gets the next number, and every other step keeps what it has.
LEMMA SeqStep ==
  ASSUME TypeOK, SeqInv, Table!TableNext \/ row' = row, [Next]_vars
  PROVE  SeqInv'
<1>1. /\ \A r \in Runs : row[r] # "none" => row'[r] # "none"
      /\ \A r, q \in Runs : q < r /\ row'[r] # "none" => row'[q] # "none"
  BY TableStepSeq
<1>2. ASSUME NEW p \in Submitters, NextRunSeq(p)
      PROVE  SeqInv'
  <2>1. row' = row
    BY <1>2 DEF NextRunSeq, durable
  <2>2. ASSUME NEW n \in Runs, NextSeq(n), NEW q \in Runs, q < n
        PROVE  row[q] # "none"
    <3>1. n > 1 /\ n - 1 \in Runs /\ row[n - 1] # "none"
      BY <2>2, RunsAssumption DEF NextSeq, Runs
    <3>2. q = n - 1 \/ q < n - 1
      BY <2>2, RunsAssumption DEF Runs
    <3>3. QED
      BY <3>1, <3>2 DEF SeqInv
  <2>3. \A s \in Submitters, q \in Runs : spc'[s] = "create" /\ q < srun'[s] => row[q] # "none"
    <3>1. ASSUME NEW n \in Runs, NextSeq(n), srun' = [srun EXCEPT ![p] = n], Goto(p, "create"),
                 NEW s \in Submitters, NEW q \in Runs, spc'[s] = "create", q < srun'[s]
          PROVE  row[q] # "none"
      <4>1. CASE s = p
        BY <2>2, <3>1, <4>1 DEF TypeOK
      <4>2. CASE s # p
        BY <3>1, <4>2 DEF Goto, SeqInv, TypeOK
      <4>3. QED
        BY <4>1, <4>2
    <3>2. ASSUME Return(p), NEW s \in Submitters, NEW q \in Runs, spc'[s] = "create", q < srun'[s]
          PROVE  row[q] # "none"
      <4>1. s # p
        BY <3>2 DEF Return, Goto, TypeOK
      <4>2. spc[s] = "create" /\ srun'[s] = srun[s]
        BY <3>2, <4>1 DEF Return, Goto, TypeOK
      <4>3. QED
        BY <3>2, <4>2 DEF SeqInv
    <3>3. QED
      BY <1>2, <3>1, <3>2 DEF NextRunSeq
  <2>4. QED
    BY <1>1, <2>1, <2>3 DEF SeqInv
<1>3. ASSUME \A s \in Submitters : spc'[s] = "create" => spc[s] = "create" /\ srun'[s] = srun[s]
      PROVE  SeqInv'
  BY <1>1, <1>3 DEF SeqInv
<1>4. ASSUME NEW p \in Submitters, SubmitStep(p), ~NextRunSeq(p)
      PROVE  \A s \in Submitters : spc'[s] = "create" => spc[s] = "create" /\ srun'[s] = srun[s]
  <2>1. CASE GetSession(p) \/ CheckMemory(p) \/ CheckStore(p)
    BY <2>1 DEF GetSession, CheckMemory, CheckStore, Goto, Return, TypeOK
  <2>2. CASE CreateRun(p) \/ MarkRunning(p) \/ RegisterRun(p) \/ InstallWorker(p)
    BY <2>2 DEF CreateRun, MarkRunning, RegisterRun, InstallWorker, Goto, Return, TypeOK
  <2>3. CASE RegisterCancel(p) \/ AppendRunning(p) \/ AppendUser(p) \/ LaunchWorker(p)
    BY <2>3 DEF RegisterCancel, AppendRunning, AppendUser, LaunchWorker, Goto, Return, TypeOK
  <2>4. QED
    BY <1>4, <2>1, <2>2, <2>3 DEF SubmitStep
<1>5. ASSUME NEW w \in Runs, WorkerStep(w)
      PROVE  SeqInv'
  BY <1>3, <1>5, WorkerStepFrame
<1>6. ASSUME NEW c \in Cancellers, CancelRunStep(c)
      PROVE  SeqInv'
  BY <1>3, <1>6 DEF CancelRunStep, CancelRunCapture, CancelRunWait, CancelRunInterrupt,
                    CancelRunComplete, CancelRunStore, submitter
<1>7. CASE \E d \in Deleters : DeleteCancel(d) \/ DeleteSessionForUser(d)
  BY <1>3, <1>7 DEF DeleteCancel, DeleteSessionForUser, submitter
<1>8. CASE \E i \in Instances : RegistryCancel(i) \/ Restart(i)
  BY <1>3, <1>8 DEF RegistryCancel, Restart, submitter
<1>9. CASE \E i \in Instances : Crash(i)
  BY <1>3, <1>9 DEF Crash, TypeOK
<1>10. CASE UNCHANGED vars
  BY <1>3, <1>10 DEF vars, submitter
<1>11. QED
  BY <1>2, <1>3, <1>4, <1>5, <1>6, <1>7, <1>8, <1>9, <1>10 DEF Next

-----------------------------------------------------------------------------
(* The theorems.                                                           *)

\* The token invariant, the gapless numbering and the computed status hold
\* together in every reachable state.
THEOREM TableInvHolds ==
  ASSUME NoForeignRestart
  PROVE  Spec => []TableInv
<1>1. Init => SeqInv /\ StatusKnown
  BY DEF Init, SeqInv, StatusKnown
<1>2. TypeOK /\ SingleActiveRun /\ LockInv /\ SeqInv /\ StatusKnown /\ [Next]_vars
        => (SeqInv /\ StatusKnown)'
  <2>1. SUFFICES ASSUME TypeOK, SingleActiveRun, LockInv, SeqInv, StatusKnown, [Next]_vars
                 PROVE  SeqInv' /\ StatusKnown'
    OBVIOUS
  <2>2. Table!TableNext \/ row' = row
    BY <2>1, TableStep DEF TableInv
  <2>3. QED
    BY <2>1, <2>2, SeqStep, StatusStep
<1>3. QED
  BY <1>1, <1>2, TypeCorrect, SingleActive, LockHolds, PTL DEF Spec, TableInv

\* The run lifecycle implements the run table, for any number of runs,
\* submitters, cancellers, failures and crashes.
THEOREM Implements ==
  ASSUME NoForeignRestart
  PROVE  Spec => ImplementsRunTable
<1>1. Init => Table!TableInit
  BY DEF Init, Table!TableInit, Runs
<1>2. TypeOK /\ SingleActiveRun /\ TableInv /\ [Next]_vars => [Table!TableNext]_row
  BY TableStep
<1>3. QED
  BY <1>1, <1>2, TypeCorrect, SingleActive, TableInvHolds, PTL
     DEF Spec, ImplementsRunTable, Table!TableSpec

-----------------------------------------------------------------------------
(* Who settles a run.                                                      *)

\* What the run lifecycle is known to keep.
Base == TypeOK /\ SingleActiveRun /\ TableInv

\* Base holds in every reachable state.
LEMMA BaseHolds ==
  ASSUME NoForeignRestart
  PROVE  Spec => []Base
BY TypeCorrect, SingleActive, TableInvHolds, PTL DEF Base

\* NoRun names no run.
LEMMA RunIsReal == \A r \in Runs : r # NoRun
BY DEF Runs, NoRun

\* A row that was inserted stays.
LEMMA RowsStay ==
  ASSUME Base, [Next]_vars
  PROVE  \A r \in Runs : row[r] # "none" => row'[r] # "none"
BY TableStep, TableStepSeq DEF Base, TableInv

-----------------------------------------------------------------------------
(* One process drives a run from its INSERT on: the submitter that inserted *)
(* it and, from the go statement on, its worker.                            *)

Submitting == {"install", "registerCancel", "appendRunning", "appendUser", "launch"}
Owns(p) == Starting(p) \/ spc[p] \in Submitting

OneOwner ==
  /\ \A r \in Runs : row[r] = "none" => wpc[r] = "none"
  /\ \A p \in Submitters : Owns(p) => row[srun[p]] # "none" /\ wpc[srun[p]] = "none"
  /\ \A p, q \in Submitters : Owns(p) /\ Owns(q) /\ srun[p] = srun[q] => p = q
  /\ \A c \in Cancellers : cpc[c] # "idle" => row[crun[c]] # "none"

\* Nobody takes over a run.
SameOwners ==
  /\ \A r \in Runs : wpc[r] = "none" => wpc'[r] = "none"
  /\ \A p \in Submitters : Owns(p)' => Owns(p) /\ srun'[p] = srun[p]
  /\ \A c \in Cancellers : cpc'[c] # "idle" => cpc[c] # "idle" /\ crun'[c] = crun[c]

\* Then nothing changes about who owns what.
LEMMA OwnersStay ==
  ASSUME Base, OneOwner, SameOwners, \A r \in Runs : row[r] # "none" => row'[r] # "none"
  PROVE  OneOwner'
<1>1. \A p \in Submitters : Owns(p) => srun[p] \in Runs
  BY DEF Owns, Starting, Submitting, Base, TableInv, LockInv, RunsInHand
<1>2. \A c \in Cancellers : cpc[c] # "idle" => crun[c] \in Runs
  BY DEF Base, TableInv, LockInv, RunsInHand
<1>3. \A p \in Submitters : Owns(p)' => row'[srun'[p]] # "none" /\ wpc'[srun'[p]] = "none"
  BY <1>1 DEF OneOwner, SameOwners
<1>4. \A p, q \in Submitters : Owns(p)' /\ Owns(q)' /\ srun'[p] = srun'[q] => p = q
  BY DEF OneOwner, SameOwners
<1>5. \A c \in Cancellers : cpc'[c] # "idle" => row'[crun'[c]] # "none"
  BY <1>2 DEF OneOwner, SameOwners
<1>6. \A r \in Runs : row'[r] = "none" => wpc'[r] = "none"
  BY DEF OneOwner, SameOwners
<1>7. QED
  BY <1>3, <1>4, <1>5, <1>6 DEF OneOwner

\* A submitter that neither inserts nor launches keeps the run it has.
LEMMA SubmitSameOwners ==
  ASSUME Base, NEW p \in Submitters, SubmitStep(p), ~CreateRun(p), ~LaunchWorker(p)
  PROVE  SameOwners
<1> USE DEF SameOwners, Owns, Starting, Submitting, Goto, Return, SubmitterAt, worker, canceller
<1>1. TypeOK
  BY DEF Base
<1>2. CASE GetSession(p) \/ CheckMemory(p) \/ CheckStore(p)
  BY <1>1, <1>2 DEF GetSession, CheckMemory, CheckStore, TypeOK
<1>3. CASE NextRunSeq(p)
  BY <1>1, <1>3 DEF NextRunSeq, TypeOK
<1>4. CASE MarkRunning(p)
  BY <1>1, <1>4 DEF MarkRunning, TypeOK
<1>5. CASE RegisterRun(p) \/ InstallWorker(p) \/ RegisterCancel(p)
  BY <1>1, <1>5 DEF RegisterRun, InstallWorker, RegisterCancel, TypeOK
<1>6. CASE AppendRunning(p) \/ AppendUser(p)
  BY <1>1, <1>6 DEF AppendRunning, AppendUser, TypeOK
<1>7. QED
  BY <1>2, <1>3, <1>4, <1>5, <1>6 DEF SubmitStep

\* A worker never becomes "none" again and never touches a submitter.
LEMMA WorkerSameOwners ==
  ASSUME Base, NEW w \in Runs, WorkerStep(w)
  PROVE  SameOwners
<1>1. TypeOK /\ UNCHANGED <<spc, srun, cpc, crun>>
  BY WorkerStepFrame DEF Base
<1>2. wpc[w] # "none" /\ \A r \in Runs : r # w => wpc'[r] = wpc[r]
  BY <1>1 DEF WorkerStep, LoopEnds, LoopPanics, EmitDone, EmitError, EmitCancelled, PanicAppend,
              DetermineStatus, Compensate, CompensateRetry, Complete, StoreStatus, FireHooks,
              Cleanup, WorkerAt, WGoto, TypeOK
<1>3. QED
  BY <1>1, <1>2 DEF SameOwners, Owns, Starting

\* CancelRun names a run that is in memory, hence inserted.
LEMMA CancellerOwner ==
  ASSUME Base, OneOwner, NEW c \in Cancellers, CancelRunStep(c)
  PROVE  OneOwner'
<1>1. TypeOK /\ LockInv
  BY DEF Base, TableInv
<1>2. CASE CancelRunCapture(c)
  <2>1. /\ row' = row /\ wpc' = wpc /\ spc' = spc /\ srun' = srun
        /\ crun'[c] = mem[Home[c]] /\ mem[Home[c]] # NoRun
        /\ \A d \in Cancellers : d # c => cpc'[d] = cpc[d] /\ crun'[d] = crun[d]
    BY <1>1, <1>2 DEF CancelRunCapture, CGoto, TypeOK, durable, worker, submitter
  <2>2. Home[c] \in Instances
    BY HomeAssumption DEF Clients
  <2>3. row[crun'[c]] # "none"
    BY <1>1, <2>1, <2>2 DEF LockInv, TokenHoldersAreActive
  <2>4. \A d \in Cancellers : cpc'[d] # "idle" => row[crun'[d]] # "none"
    BY <2>1, <2>3 DEF OneOwner
  <2>5. QED
    BY <2>1, <2>4 DEF OneOwner, Owns, Starting
<1>3. CASE ~CancelRunCapture(c)
  <2>1. /\ wpc' = wpc /\ spc' = spc /\ srun' = srun
        /\ \A d \in Cancellers : cpc'[d] # "idle" => cpc[d] # "idle" /\ crun'[d] = crun[d]
    BY <1>1, <1>3 DEF CancelRunStep, CancelRunWait, CancelRunInterrupt, CancelRunComplete,
                      CancelRunStore, CGoto, CReturn, CancellerAt, TypeOK, worker, submitter
  <2>2. SameOwners
    BY <2>1 DEF SameOwners, Owns, Starting
  <2>3. [Next]_vars
    BY DEF Next
  <2>4. QED
    BY <2>2, <2>3, RowsStay, OwnersStay
<1>4. QED
  BY <1>2, <1>3

\* The INSERT gives a fresh run to its submitter.
LEMMA CreateOwner ==
  ASSUME Base, OneOwner, NEW p \in Submitters, CreateRun(p)
  PROVE  OneOwner'
<1>1. TypeOK /\ LockInv
  BY DEF Base, TableInv
<1>2. CASE CreateConflict(srun[p])
  <2>1. SameOwners /\ row' = row
    BY <1>1, <1>2 DEF CreateRun, SubmitterAt, Return, Goto, SameOwners, Owns, Starting, Submitting,
                      TypeOK, worker, canceller
  <2>2. QED
    BY <2>1, OwnersStay
<1>3. CASE ~CreateConflict(srun[p])
  <2>1. /\ srun[p] \in Runs /\ row[srun[p]] = "none" /\ row' = [row EXCEPT ![srun[p]] = "queued"]
        /\ UNCHANGED <<wpc, cpc, crun>>
        /\ \A q \in Submitters : q # p => spc'[q] = spc[q] /\ srun'[q] = srun[q]
        /\ spc'[p] = "idle" \/ (spc'[p] = "markRunning" /\ srun'[p] = srun[p])
    BY <1>1, <1>3 DEF CreateRun, CreateConflict, SubmitterAt, LockInv, RunsInHand, Return, Goto,
                      TypeOK, worker, canceller
  <2>2. \A r \in Runs : row'[r] = IF r = srun[p] THEN "queued" ELSE row[r]
    BY <1>1, <2>1 DEF TypeOK
  <2>3. \A q \in Submitters : Owns(q)' => srun'[q] = srun[q] /\ (q = p \/ Owns(q))
    BY <2>1 DEF Owns, Starting, Submitting
  <2>4. \A q \in Submitters : Owns(q) => srun[q] # srun[p] /\ srun[q] \in Runs
    BY <1>1, <2>1 DEF OneOwner, Owns, Starting, Submitting, LockInv, RunsInHand
  <2>5. \A q \in Submitters : Owns(q)' => row'[srun'[q]] # "none" /\ wpc[srun'[q]] = "none"
    BY <2>1, <2>2, <2>3, <2>4 DEF OneOwner
  <2>6. \A q, t \in Submitters : Owns(q)' /\ Owns(t)' /\ srun'[q] = srun'[t] => q = t
    BY <2>3, <2>4 DEF OneOwner
  <2>7. \A c \in Cancellers : cpc[c] # "idle" => row'[crun[c]] # "none"
    BY <1>1, <2>1, <2>2 DEF OneOwner, LockInv, RunsInHand
  <2>8. \A r \in Runs : row'[r] = "none" => wpc[r] = "none"
    BY <2>2 DEF OneOwner
  <2>9. QED
    BY <2>1, <2>5, <2>6, <2>7, <2>8 DEF OneOwner
<1>4. QED
  BY <1>2, <1>3

\* The go statement hands the run over.
LEMMA LaunchOwner ==
  ASSUME Base, OneOwner, NEW p \in Submitters, LaunchWorker(p)
  PROVE  OneOwner'
<1>1. TypeOK /\ LockInv
  BY DEF Base, TableInv
<1>2. /\ srun[p] \in Runs /\ Owns(p) /\ wpc' = [wpc EXCEPT ![srun[p]] = "loop"]
      /\ UNCHANGED <<row, cpc, crun>>
      /\ \A q \in Submitters : q # p => spc'[q] = spc[q] /\ srun'[q] = srun[q]
      /\ spc'[p] = "idle"
  BY <1>1 DEF LaunchWorker, SubmitterAt, LockInv, RunsInHand, Return, Goto, Owns, Submitting,
              TypeOK, durable, canceller
<1>3. \A q \in Submitters : Owns(q)' => q # p /\ Owns(q) /\ srun'[q] = srun[q]
  BY <1>2 DEF Owns, Starting, Submitting
<1>4. \A r \in Runs : r # srun[p] => wpc'[r] = wpc[r]
  BY <1>1, <1>2 DEF TypeOK
<1>5. \A q \in Submitters : Owns(q)' => srun[q] # srun[p] /\ srun[q] \in Runs
  BY <1>1, <1>2, <1>3 DEF OneOwner, LockInv, RunsInHand, Owns, Starting, Submitting
<1>6. \A q \in Submitters : Owns(q)' => row[srun'[q]] # "none" /\ wpc'[srun'[q]] = "none"
  BY <1>3, <1>4, <1>5 DEF OneOwner
<1>7. \A q, t \in Submitters : Owns(q)' /\ Owns(t)' /\ srun'[q] = srun'[t] => q = t
  BY <1>3 DEF OneOwner
<1>8. \A r \in Runs : row[r] = "none" => wpc'[r] = "none"
  BY <1>2, <1>4 DEF OneOwner
<1>9. QED
  BY <1>2, <1>6, <1>7, <1>8 DEF OneOwner

\* Every step.
LEMMA OwnerStep ==
  ASSUME Base, OneOwner, [Next]_vars
  PROVE  OneOwner'
<1>1. TypeOK /\ \A r \in Runs : row[r] # "none" => row'[r] # "none"
  BY RowsStay DEF Base
<1>2. CASE \E p \in Submitters : SubmitStep(p)
  BY <1>1, <1>2, SubmitSameOwners, OwnersStay, CreateOwner, LaunchOwner
<1>3. CASE \E r \in Runs : WorkerStep(r)
  BY <1>1, <1>3, WorkerSameOwners, OwnersStay
<1>4. CASE \E c \in Cancellers : CancelRunStep(c)
  BY <1>4, CancellerOwner
<1>5. CASE \E d \in Deleters : DeleteCancel(d) \/ DeleteSessionForUser(d)
  <2>1. UNCHANGED <<spc, srun, wpc, cpc, crun>>
    BY <1>5 DEF DeleteCancel, DeleteSessionForUser, submitter, worker, canceller
  <2>2. QED
    BY <1>1, <2>1, OwnersStay DEF SameOwners, Owns, Starting
<1>6. CASE \E i \in Instances : RegistryCancel(i) \/ Restart(i)
  <2>1. UNCHANGED <<spc, srun, wpc, cpc, crun>>
    BY <1>6 DEF RegistryCancel, Restart, submitter, worker, canceller
  <2>2. QED
    BY <1>1, <2>1, OwnersStay DEF SameOwners, Owns, Starting
<1>7. CASE \E i \in Instances : Crash(i)
  <2>1. SameOwners
    BY <1>1, <1>7 DEF Crash, SameOwners, Owns, Starting, Submitting, TypeOK
  <2>2. QED
    BY <1>1, <2>1, OwnersStay
<1>8. CASE UNCHANGED vars
  <2>1. UNCHANGED <<spc, srun, wpc, cpc, crun>>
    BY <1>8 DEF vars, submitter, worker, canceller
  <2>2. QED
    BY <1>1, <2>1, OwnersStay DEF SameOwners, Owns, Starting
<1>9. QED
  BY <1>2, <1>3, <1>4, <1>5, <1>6, <1>7, <1>8 DEF Next

-----------------------------------------------------------------------------
(* An active row has somebody who will settle it.                          *)

\* The in-memory lock of an instance is held for a run that is being submitted
\* or executed there.
Driven(i) ==
  \/ \E p \in Submitters : spc[p] \in Submitting /\ srun[p] = mem[i] /\ Home[p] = i
  \/ Executing(mem[i]) /\ whome[mem[i]] = i

LockIsDriven == \A i \in Instances : mem[i] # NoRun => Driven(i)

\* The right to settle the run is somewhere.
Token(r) ==
  \/ \E p \in Submitters : Starting(p) /\ srun[p] = r
  \/ \E i \in Instances : mem[i] = r
  \/ wpc[r] = "store"
  \/ \E c \in Cancellers : cpc[c] = "store" /\ crun[c] = r

AllUp == \A i \in Instances : up[i]
ActiveHasToken == faults = 0 /\ AllUp => \A r \in ActiveRows : Token(r)

SettlerInv == OneOwner /\ LockIsDriven /\ ActiveHasToken

\* A step that takes no lock and leaves its driver at work.
LEMMA DrivenStays ==
  ASSUME LockIsDriven,
         \A i \in Instances : mem'[i] # NoRun =>
           /\ mem'[i] = mem[i]
           /\ \A p \in Submitters :
                spc[p] \in Submitting /\ srun[p] = mem[i] /\ Home[p] = i
                  => spc'[p] \in Submitting /\ srun'[p] = srun[p]
           /\ Executing(mem[i]) /\ whome[mem[i]] = i
                => Executing(mem[i])' /\ whome'[mem[i]] = i
  PROVE  LockIsDriven'
<1>1. ASSUME NEW i \in Instances, mem'[i] # NoRun
      PROVE  Driven(i)'
  <2>1. mem'[i] = mem[i] /\ Driven(i)
    BY <1>1 DEF LockIsDriven
  <2>2. CASE \E p \in Submitters : spc[p] \in Submitting /\ srun[p] = mem[i] /\ Home[p] = i
    BY <1>1, <2>1, <2>2 DEF Driven
  <2>3. CASE Executing(mem[i]) /\ whome[mem[i]] = i
    BY <1>1, <2>1, <2>3 DEF Driven, Executing
  <2>4. QED
    BY <2>1, <2>2, <2>3 DEF Driven
<1>2. QED
  BY <1>1 DEF LockIsDriven

\* Submit takes the lock for itself and hands the run to the worker.
LEMMA SubmitDriven ==
  ASSUME Base, OneOwner, LockIsDriven, NEW p \in Submitters, SubmitStep(p)
  PROVE  LockIsDriven'
<1>1. TypeOK /\ LockInv /\ Home[p] \in Instances
  BY HomeAssumption DEF Base, TableInv, Clients
<1> USE DEF Submitting, Goto, Return, SubmitterAt
<1>2. CASE RegisterRun(p)
  <2>1. /\ mem' = [mem EXCEPT ![Home[p]] = srun[p]] /\ spc' = [spc EXCEPT ![p] = "install"]
        /\ UNCHANGED <<srun, wpc, whome>> /\ spc[p] = "register"
    BY <1>2 DEF RegisterRun, worker
  <2>2. Driven(Home[p])'
    BY <1>1, <2>1 DEF Driven, TypeOK
  <2>3. ASSUME NEW i \in Instances, i # Home[p], mem'[i] # NoRun
        PROVE  Driven(i)'
    <3>1. mem'[i] = mem[i] /\ Driven(i)
      BY <1>1, <2>1, <2>3 DEF LockIsDriven, TypeOK
    <3>2. CASE \E q \in Submitters : spc[q] \in Submitting /\ srun[q] = mem[i] /\ Home[q] = i
      BY <1>1, <2>1, <3>1, <3>2 DEF Driven, TypeOK
    <3>3. CASE Executing(mem[i]) /\ whome[mem[i]] = i
      BY <2>1, <3>1, <3>3 DEF Driven, Executing
    <3>4. QED
      BY <3>1, <3>2, <3>3 DEF Driven
  <2>4. QED
    BY <2>2, <2>3 DEF LockIsDriven
<1>3. CASE LaunchWorker(p)
  <2>1. /\ spc[p] = "launch" /\ srun[p] \in Runs /\ mem' = mem
        /\ wpc' = [wpc EXCEPT ![srun[p]] = "loop"] /\ whome' = [whome EXCEPT ![srun[p]] = Home[p]]
        /\ \A q \in Submitters : q # p => spc'[q] = spc[q] /\ srun'[q] = srun[q]
    BY <1>1, <1>3 DEF LaunchWorker, runtime, TypeOK, LockInv, RunsInHand
  <2>2. wpc[srun[p]] = "none"
    BY <2>1 DEF OneOwner, Owns
  <2>3. ASSUME NEW i \in Instances, mem[i] # NoRun
        PROVE  Driven(i)'
    <3>1. Driven(i) /\ mem[i] \in Runs
      BY <1>1, <2>3 DEF LockIsDriven, TypeOK
    <3>2. CASE mem[i] = srun[p]
      <4>1. ~Executing(mem[i])
        BY <2>2, <3>2 DEF Executing
      <4>2. PICK q \in Submitters : spc[q] \in Submitting /\ srun[q] = mem[i] /\ Home[q] = i
        BY <3>1, <4>1 DEF Driven
      <4>3. q = p
        BY <2>1, <3>2, <4>2 DEF OneOwner, Owns
      <4>4. wpc'[mem[i]] = "loop" /\ whome'[mem[i]] = i
        BY <1>1, <2>1, <3>2, <4>2, <4>3 DEF TypeOK
      <4>5. QED
        BY <2>1, <4>4 DEF Driven, Executing
    <3>3. CASE mem[i] # srun[p]
      <4>1. wpc'[mem[i]] = wpc[mem[i]] /\ whome'[mem[i]] = whome[mem[i]]
        BY <1>1, <2>1, <3>1, <3>3 DEF TypeOK
      <4>2. \A q \in Submitters : srun[q] = mem[i] => q # p
        BY <3>3
      <4>3. QED
        BY <2>1, <3>1, <4>1, <4>2 DEF Driven, Executing
    <3>4. QED
      BY <3>2, <3>3
  <2>4. QED
    BY <2>1, <2>3 DEF LockIsDriven
<1>4. CASE ~RegisterRun(p) /\ ~LaunchWorker(p)
  <2>1. /\ UNCHANGED <<mem, wpc, whome>>
        /\ \A q \in Submitters : spc[q] \in Submitting => spc'[q] \in Submitting
                   /\ srun'[q] = srun[q]
    <3>1. CASE GetSession(p) \/ CheckMemory(p) \/ CheckStore(p) \/ NextRunSeq(p)
      BY <1>1, <3>1 DEF GetSession, CheckMemory, CheckStore, NextRunSeq, runtime, worker, TypeOK
    <3>2. CASE CreateRun(p) \/ MarkRunning(p)
      BY <1>1, <3>2 DEF CreateRun, MarkRunning, runtime, worker, TypeOK
    <3>3. CASE InstallWorker(p) \/ RegisterCancel(p) \/ AppendRunning(p) \/ AppendUser(p)
      BY <1>1, <3>3 DEF InstallWorker, RegisterCancel, AppendRunning, AppendUser, worker, TypeOK
    <3>4. QED
      BY <1>4, <3>1, <3>2, <3>3 DEF SubmitStep
  <2>2. QED
    BY <2>1, DrivenStays DEF Executing
<1>5. QED
  BY <1>2, <1>3, <1>4

\* A worker executes until CompleteRunForRun takes the lock from the map.
LEMMA WorkerDriven ==
  ASSUME Base, LockIsDriven, NEW w \in Runs, WorkerStep(w)
  PROVE  LockIsDriven'
<1>1. TypeOK /\ UNCHANGED <<spc, srun, whome>> /\ \A r \in Runs : r # w => wpc'[r] = wpc[r]
  <2>1. TypeOK /\ UNCHANGED <<spc, srun, cpc, crun>>
    BY WorkerStepFrame DEF Base
  <2>2. QED
    BY <2>1 DEF WorkerStep, LoopEnds, LoopPanics, EmitDone, EmitError, EmitCancelled, PanicAppend,
              DetermineStatus, Compensate, CompensateRetry, Complete, StoreStatus, FireHooks,
              Cleanup, WGoto, TypeOK
<1>2. CASE Complete(w)
  <2>1. \A i \in Instances : mem'[i] # NoRun => mem'[i] = mem[i] /\ ~(mem[i] = w /\ whome[w] = i)
    BY <1>1, <1>2 DEF Complete, ReleasesLock, ReleaseLock, TypeOK
  <2>2. \A i \in Instances : mem'[i] # NoRun /\ Executing(mem[i]) /\ whome[mem[i]] = i
             => Executing(mem[i])'
    BY <1>1, <2>1 DEF Executing, NoRun, TypeOK
  <2>3. QED
    BY <1>1, <2>1, <2>2, DrivenStays
<1>3. CASE ~Complete(w)
  <2>1. mem' = mem /\ (Executing(w) => Executing(w)')
    BY <1>1, <1>3 DEF WorkerStep, LoopEnds, LoopPanics, EmitDone, EmitError, EmitCancelled,
              PanicAppend, DetermineStatus, Compensate, CompensateRetry, StoreStatus, FireHooks,
              Cleanup, WorkerAt, WGoto, TypeOK, Executing, runtime
  <2>2. \A r \in Runs : Executing(r) => Executing(r)'
    BY <1>1, <2>1 DEF Executing
  <2>3. \A i \in Instances : mem[i] # NoRun => mem[i] \in Runs
    BY <1>1 DEF TypeOK
  <2>4. QED
    BY <1>1, <2>1, <2>2, <2>3, DrivenStays
<1>4. QED
  BY <1>2, <1>3

\* Every step.
LEMMA DrivenStep ==
  ASSUME Base, OneOwner, LockIsDriven, [Next]_vars
  PROVE  LockIsDriven'
<1>1. CASE \E p \in Submitters : SubmitStep(p)
  BY <1>1, SubmitDriven
<1>2. CASE \E r \in Runs : WorkerStep(r)
  BY <1>2, WorkerDriven
<1>3. CASE \E c \in Cancellers : CancelRunStep(c)
  <2>1. TypeOK
    BY DEF Base
  <2>2. /\ UNCHANGED <<spc, srun, wpc, whome>>
        /\ \A i \in Instances : mem'[i] # NoRun => mem'[i] = mem[i]
    BY <1>3, <2>1 DEF CancelRunStep, CancelRunCapture, CancelRunWait, CancelRunInterrupt,
              CancelRunComplete, CancelRunStore, ReleaseLock, TypeOK, worker, submitter, runtime
  <2>3. QED
    BY <2>2, DrivenStays DEF Executing
<1>4. CASE \E d \in Deleters : DeleteCancel(d) \/ DeleteSessionForUser(d)
  BY <1>4, DrivenStays DEF DeleteCancel, DeleteSessionForUser, submitter, worker, runtime, Executing
<1>5. CASE \E i \in Instances : RegistryCancel(i) \/ Restart(i)
  BY <1>5, DrivenStays DEF RegistryCancel, Restart, submitter, worker, runtime, Executing
<1>6. ASSUME NEW i \in Instances, Crash(i)
      PROVE  LockIsDriven'
  <2>1. TypeOK
    BY DEF Base
  <2>2. \A j \in Instances : mem'[j] # NoRun => j # i /\ mem'[j] = mem[j] /\ mem[j] \in Runs
    BY <1>6, <2>1 DEF Crash, TypeOK
  <2>3. \A p \in Submitters : Home[p] # i => spc'[p] = spc[p] /\ srun'[p] = srun[p]
    BY <1>6, <2>1 DEF Crash, TypeOK
  <2>4. whome' = whome /\ \A r \in Runs : whome[r] # i => wpc'[r] = wpc[r]
    BY <1>6, <2>1 DEF Crash, TypeOK
  <2>5. QED
    BY <2>2, <2>3, <2>4, DrivenStays DEF Executing
<1>7. CASE UNCHANGED vars
  BY <1>7, DrivenStays DEF vars, submitter, worker, runtime, Executing
<1>8. QED
  BY <1>1, <1>2, <1>3, <1>4, <1>5, <1>6, <1>7 DEF Next

\* A step that activates no row and drops no token.
LEMMA TokensStay ==
  ASSUME ActiveHasToken,
         faults' = 0 => faults = 0, AllUp' => AllUp,
         faults' = 0 => \A r \in Runs : row'[r] \in Active =>
                          row[r] \in Active /\ (Token(r) => Token(r)')
  PROVE  ActiveHasToken'
BY DEF ActiveHasToken, ActiveRows

\* Failed statements are only counted up.
LEMMA FaultsGrow ==
  ASSUME TypeOK, StatementOK \/ StatementFails
  PROVE  faults' = 0 => StatementOK /\ faults' = faults
BY BoundsAssumption DEF TypeOK, StatementOK, StatementFails

\* The INSERT, the UPDATE to running and the lock pass the token on; the row of a
\* submitter between the INSERT and the UPDATE is the active one.
LEMMA SubmitTokens ==
  ASSUME Base, OneOwner, ActiveHasToken, NEW p \in Submitters, SubmitStep(p)
  PROVE  ActiveHasToken'
<1>1. TypeOK /\ LockInv /\ Home[p] \in Instances
  BY HomeAssumption DEF Base, TableInv, Clients
<1> USE DEF Goto, Return, SubmitterAt, Starting
<1>2. CASE CreateRun(p)
  <2>1. UNCHANGED <<up, mem, wpc, cpc, crun>> /\ (faults' = 0 => StatementOK /\ faults' = faults)
    BY <1>1, <1>2, FaultsGrow DEF CreateRun, runtime, worker, canceller
  <2>2. \A q \in Submitters : q # p => spc'[q] = spc[q] /\ srun'[q] = srun[q]
    BY <1>1, <1>2 DEF CreateRun, TypeOK
  <2>3. spc[p] = "create"
    BY <1>2 DEF CreateRun
  <2>4. \A r \in Runs : Token(r) => Token(r)'
    BY <2>1, <2>2, <2>3 DEF Token
  <2>5. ASSUME faults' = 0, NEW r \in Runs, row'[r] \in Active, row[r] \notin Active
        PROVE  Token(r)'
    <3>1. r = srun[p] /\ ~CreateConflict(r)
      BY <1>1, <1>2, <2>5 DEF CreateRun, TypeOK
    <3>2. StatementOK /\ ~StatementFails
      BY <1>1, <2>1, <2>5, BoundsAssumption DEF StatementOK, StatementFails, TypeOK
    <3>3. spc'[p] = "markRunning" /\ srun'[p] = r
      BY <1>1, <1>2, <3>1, <3>2 DEF CreateRun, TypeOK
    <3>4. QED
      BY <3>3 DEF Token
  <2>6. QED
    BY <2>1, <2>4, <2>5 DEF ActiveHasToken, ActiveRows, AllUp
<1>3. CASE MarkRunning(p)
  <2>1. UNCHANGED <<up, mem, wpc, cpc, crun>> /\ (faults' = 0 => StatementOK /\ faults' = faults)
    BY <1>1, <1>3, FaultsGrow DEF MarkRunning, runtime, worker, canceller
  <2>2. \A q \in Submitters : q # p => spc'[q] = spc[q] /\ srun'[q] = srun[q]
    BY <1>1, <1>3 DEF MarkRunning, TypeOK
  <2>3. spc[p] = "markRunning" /\ srun[p] \in Runs /\ row[srun[p]] = "queued"
    BY <1>1, <1>3 DEF MarkRunning, LockInv, TokenHoldersAreActive, RunsInHand
  <2>4. ActiveRows \subseteq {srun[p]}
    BY <2>3 DEF Base, SingleActiveRun, ActiveRows, Active
  <2>5. ASSUME faults' = 0
        PROVE  spc'[p] = "register" /\ srun'[p] = srun[p]
                   /\ row' = [row EXCEPT ![srun[p]] = "running"]
    <3>1. StatementOK /\ ~StatementFails
      BY <1>1, <2>1, <2>5, BoundsAssumption DEF StatementOK, StatementFails, TypeOK
    <3>2. QED
      BY <1>1, <1>3, <2>4, <3>1 DEF MarkRunning, TypeOK
  <2>6. ASSUME faults' = 0, NEW r \in Runs
        PROVE  (row'[r] \in Active => row[r] \in Active) /\ (Token(r) => Token(r)')
    <3>1. row'[r] = IF r = srun[p] THEN "running" ELSE row[r]
      BY <1>1, <2>5, <2>6 DEF TypeOK
    <3>2. Token(r) => Token(r)'
      BY <2>1, <2>2, <2>3, <2>5, <2>6 DEF Token
    <3>3. QED
      BY <2>3, <3>1, <3>2 DEF Active
  <2>7. QED
    BY <2>1, <2>6, TokensStay DEF AllUp
<1>4. CASE RegisterRun(p)
  <2>1. /\ mem' = [mem EXCEPT ![Home[p]] = srun[p]] /\ spc' = [spc EXCEPT ![p] = "install"]
        /\ UNCHANGED <<row, up, srun, wpc, cpc, crun, faults>> /\ spc[p] = "register"
    BY <1>4 DEF RegisterRun, worker, durable, canceller, bounds
  <2>2. srun[p] \in Runs /\ row[srun[p]] = "running"
    BY <1>1, <2>1 DEF LockInv, TokenHoldersAreActive, RunsInHand
  <2>3. mem[Home[p]] = NoRun
    <3>1. ASSUME mem[Home[p]] # NoRun
          PROVE  FALSE
      <4>1. mem[Home[p]] \in Runs /\ row[mem[Home[p]]] = "running"
        BY <1>1, <3>1 DEF TypeOK, LockInv, TokenHoldersAreActive
      <4>2. mem[Home[p]] = srun[p]
        BY <2>2, <4>1 DEF Base, SingleActiveRun, ActiveRows, Active
      <4>3. QED
        BY <1>1, <2>1, <4>2 DEF LockInv, OneTokenPerRun
    <3>2. QED
      BY <3>1
  <2>4. ASSUME NEW r \in Runs, Token(r)
        PROVE  Token(r)'
    <3>1. mem'[Home[p]] = srun[p] /\ \A i \in Instances : i # Home[p] => mem'[i] = mem[i]
      BY <1>1, <2>1 DEF TypeOK
    <3>2. r # NoRun
      BY DEF Runs, NoRun
    <3>3. CASE \E q \in Submitters : Starting(q) /\ srun[q] = r
      BY <1>1, <2>1, <3>1, <3>3 DEF Token, TypeOK
    <3>4. CASE \E i \in Instances : mem[i] = r
      BY <2>3, <3>1, <3>2, <3>4 DEF Token
    <3>5. QED
      BY <2>1, <2>4, <3>3, <3>4 DEF Token
  <2>5. QED
    BY <2>1, <2>4, TokensStay DEF AllUp
<1>5. CASE ~CreateRun(p) /\ ~MarkRunning(p) /\ ~RegisterRun(p)
  <2>1. /\ UNCHANGED <<row, up, mem, cpc, crun>>
        /\ \A q \in Submitters : Starting(q) => Starting(q)' /\ srun'[q] = srun[q]
        /\ \A r \in Runs : wpc[r] = "store" => wpc'[r] = "store"
        /\ faults' = 0 => faults = 0
    <3>1. CASE GetSession(p) \/ CheckMemory(p) \/ CheckStore(p) \/ NextRunSeq(p)
      BY <1>1, <3>1, FaultsGrow DEF GetSession, CheckMemory, CheckStore, NextRunSeq, runtime,
           worker,
         durable, canceller, bounds, TypeOK
    <3>2. CASE InstallWorker(p) \/ RegisterCancel(p)
      BY <1>1, <3>2 DEF InstallWorker, RegisterCancel, worker, durable, canceller, bounds, TypeOK
    <3>3. CASE AppendRunning(p) \/ AppendUser(p)
      <4>1. StatementOK \/ StatementFails
        BY <3>3 DEF AppendRunning, AppendUser, AppendOnRunContext, AppendEvent, StatementOK
      <4>2. QED
        BY <1>1, <3>3, <4>1, FaultsGrow DEF AppendRunning, AppendUser, worker, canceller, TypeOK
    <3>4. CASE LaunchWorker(p)
      <4>1. srun[p] \in Runs /\ wpc[srun[p]] = "none"
        BY <1>1, <3>4 DEF LaunchWorker, LockInv, RunsInHand, OneOwner, Owns, Submitting
      <4>2. QED
        BY <1>1, <3>4, <4>1 DEF LaunchWorker, durable, runtime, canceller, bounds, TypeOK
    <3>5. QED
      BY <1>5, <3>1, <3>2, <3>3, <3>4 DEF SubmitStep
  <2>2. \A r \in Runs : Token(r) => Token(r)'
    BY <2>1 DEF Token
  <2>3. QED
    BY <2>1, <2>2, TokensStay DEF AllUp
<1>6. QED
  BY <1>2, <1>3, <1>4, <1>5


\* CompleteRunForRun takes the token out of the map and spends it on the UPDATE.
LEMMA WorkerTokens ==
  ASSUME Base, ActiveHasToken, NEW w \in Runs, WorkerStep(w)
  PROVE  ActiveHasToken'
<1>1. TypeOK /\ UNCHANGED <<spc, srun, cpc, crun, up>> /\ \A r \in Runs : r # w => wpc'[r] = wpc[r]
  <2>1. TypeOK /\ UNCHANGED <<spc, srun, cpc, crun>>
    BY WorkerStepFrame DEF Base
  <2>2. QED
    BY <2>1 DEF WorkerStep, LoopEnds, LoopPanics, EmitDone, EmitError, EmitCancelled, PanicAppend,
              DetermineStatus, Compensate, CompensateRetry, Complete, StoreStatus, FireHooks,
              Cleanup, WGoto, TypeOK, runtime
<1>2. CASE Complete(w)
  <2>1. UNCHANGED <<row, faults>> /\ wpc[w] = "complete"
    BY <1>2 DEF Complete, WorkerAt, durable, bounds
  <2>2. ASSUME NEW r \in Runs, Token(r)
        PROVE  Token(r)'
    <3>1. r # NoRun
      BY DEF Runs, NoRun
    <3>2. CASE \E i \in Instances : mem[i] = r
      <4>1. PICK i \in Instances : mem[i] = r
        BY <3>2
      <4>2. CASE mem'[i] = r
        BY <4>2 DEF Token
      <4>3. CASE mem'[i] # r
        <5>1. r = w /\ wpc'[w] = "store"
          BY <1>1, <1>2, <4>1, <4>3 DEF Complete, ReleasesLock, ReleaseLock, WGoto, TypeOK
        <5>2. QED
          BY <5>1 DEF Token
      <4>4. QED
        BY <4>2, <4>3
    <3>3. CASE \E q \in Submitters : Starting(q) /\ srun[q] = r
      BY <1>1, <3>3 DEF Token, Starting
    <3>4. CASE wpc[r] = "store" \/ \E c \in Cancellers : cpc[c] = "store" /\ crun[c] = r
      BY <1>1, <2>1, <3>4 DEF Token
    <3>5. QED
      BY <2>2, <3>2, <3>3, <3>4 DEF Token
  <2>3. QED
    BY <1>1, <2>1, <2>2, TokensStay DEF AllUp
<1>3. CASE StoreStatus(w)
  <2>1. UNCHANGED mem /\ wpc[w] = "store" /\ (faults' = 0 => StatementOK /\ faults' = faults)
    BY <1>1, <1>3, FaultsGrow DEF StoreStatus, WorkerAt, runtime
  <2>2. status[w] \notin Active
    BY <2>1 DEF Base, TableInv, StatusKnown, Active, Terminal
  <2>3. ASSUME faults' = 0, NEW r \in Runs, row'[r] \in Active
        PROVE  row[r] \in Active /\ (Token(r) => Token(r)')
    <3>1. StatementOK /\ ~StatementFails
      BY <1>1, <2>1, <2>3, BoundsAssumption DEF StatementOK, StatementFails, TypeOK
    <3>2. row' = [row EXCEPT ![w] = status[w]]
      BY <1>3, <3>1 DEF StoreStatus
    <3>3. r # w /\ row[r] \in Active
      BY <1>1, <2>2, <2>3, <3>2 DEF TypeOK
    <3>4. QED
      BY <1>1, <2>1, <3>3 DEF Token, Starting
  <2>4. QED
    BY <1>1, <2>1, <2>3, TokensStay DEF AllUp
<1>4. CASE ~Complete(w) /\ ~StoreStatus(w)
  <2>1. UNCHANGED <<row, mem>> /\ (wpc[w] # "store")
    BY <1>4 DEF WorkerStep, LoopEnds, LoopPanics, EmitDone, EmitError, EmitCancelled, PanicAppend,
              DetermineStatus, Compensate, CompensateRetry, FireHooks, Cleanup, WorkerAt,
              durable, runtime
  <2>2. StatementOK \/ StatementFails
    <3>1. CASE EmitDone(w) \/ EmitError(w)
      BY <3>1 DEF EmitDone, EmitError, EmitGuarded, AppendEvent, StatementOK
    <3>2. CASE EmitCancelled(w) \/ PanicAppend(w) \/ Compensate(w) \/ CompensateRetry(w)
      BY <3>2 DEF EmitCancelled, PanicAppend, Compensate, CompensateRetry, AppendEvent
    <3>3. CASE LoopEnds(w) \/ LoopPanics(w) \/ DetermineStatus(w) \/ FireHooks(w) \/ Cleanup(w)
      BY <3>3 DEF LoopEnds, LoopPanics, DetermineStatus, FireHooks, Cleanup, StatementOK, bounds
    <3>4. QED
      BY <1>4, <3>1, <3>2, <3>3 DEF WorkerStep
  <2>3. faults' = 0 => faults = 0
    BY <1>1, <2>2, FaultsGrow
  <2>4. \A r \in Runs : Token(r) => Token(r)'
    BY <1>1, <2>1 DEF Token, Starting
  <2>5. QED
    BY <1>1, <2>1, <2>3, <2>4, TokensStay DEF AllUp
<1>5. QED
  BY <1>2, <1>3, <1>4

\* So does a canceller.
LEMMA CancellerTokens ==
  ASSUME Base, ActiveHasToken, NEW c \in Cancellers, CancelRunStep(c)
  PROVE  ActiveHasToken'
<1>1. TypeOK /\ LockInv /\ UNCHANGED <<spc, srun, wpc, up>>
  BY DEF Base, TableInv, CancelRunStep, CancelRunCapture, CancelRunWait, CancelRunInterrupt,
         CancelRunComplete, CancelRunStore, submitter, worker, runtime
<1>2. \A d \in Cancellers : d # c => cpc'[d] = cpc[d] /\ crun'[d] = crun[d]
  BY <1>1 DEF CancelRunStep, CancelRunCapture, CancelRunWait, CancelRunInterrupt,
              CancelRunComplete, CancelRunStore, CGoto, CReturn, TypeOK
<1>3. CASE CancelRunComplete(c)
  <2>1. UNCHANGED <<row, faults>> /\ cpc[c] = "complete"
    BY <1>3 DEF CancelRunComplete, CancellerAt, durable, bounds
  <2>2. ASSUME NEW r \in Runs, Token(r)
        PROVE  Token(r)'
    <3>1. CASE \E i \in Instances : mem[i] = r
      <4>1. PICK i \in Instances : mem[i] = r
        BY <3>1
      <4>2. CASE mem'[i] = r
        BY <4>2 DEF Token
      <4>3. CASE mem'[i] # r
        <5>1. crun'[c] = r /\ cpc'[c] = "store"
          BY <1>1, <1>3, <4>1, <4>3 DEF CancelRunComplete, ReleasesLock, ReleaseLock, CGoto, TypeOK
        <5>2. QED
          BY <5>1 DEF Token
      <4>4. QED
        BY <4>2, <4>3
    <3>2. CASE \E q \in Submitters : Starting(q) /\ srun[q] = r
      BY <1>1, <3>2 DEF Token, Starting
    <3>3. CASE wpc[r] = "store" \/ \E d \in Cancellers : cpc[d] = "store" /\ crun[d] = r
      BY <1>1, <1>2, <2>1, <3>3 DEF Token
    <3>4. QED
      BY <2>2, <3>1, <3>2, <3>3 DEF Token
  <2>3. QED
    BY <1>1, <2>1, <2>2, TokensStay DEF AllUp
<1>4. CASE CancelRunStore(c)
  <2>1. UNCHANGED mem /\ (faults' = 0 => StatementOK /\ faults' = faults)
    BY <1>1, <1>4, FaultsGrow DEF CancelRunStore, runtime
  <2>2. ASSUME faults' = 0, NEW r \in Runs, row'[r] \in Active
        PROVE  row[r] \in Active /\ (Token(r) => Token(r)')
    <3>1. StatementOK /\ ~StatementFails
      BY <1>1, <2>1, <2>2, BoundsAssumption DEF StatementOK, StatementFails, TypeOK
    <3>2. row' = [row EXCEPT ![crun[c]] = "cancelled"]
      BY <1>4, <3>1 DEF CancelRunStore
    <3>3. r # crun[c] /\ row[r] \in Active
      BY <1>1, <2>2, <3>2 DEF TypeOK, Active
    <3>4. QED
      BY <1>1, <1>2, <2>1, <3>3 DEF Token, Starting
  <2>3. QED
    BY <1>1, <2>1, <2>2, TokensStay DEF AllUp
<1>5. CASE CancelRunCapture(c) \/ CancelRunWait(c) \/ CancelRunInterrupt(c)
  <2>1. UNCHANGED <<row, mem, faults>> /\ cpc[c] # "store"
    BY <1>5 DEF CancelRunCapture, CancelRunWait, CancelRunInterrupt, CancellerAt, durable, runtime,
                bounds
  <2>2. \A r \in Runs : Token(r) => Token(r)'
    BY <1>1, <1>2, <2>1 DEF Token, Starting
  <2>3. QED
    BY <1>1, <2>1, <2>2, TokensStay DEF AllUp
<1>6. QED
  BY <1>3, <1>4, <1>5 DEF CancelRunStep

\* Every step.  A restart fails what the crash left without a token.
LEMMA TokenStep ==
  ASSUME Base, OneOwner, ActiveHasToken, [Next]_vars
  PROVE  ActiveHasToken'
<1>1. TypeOK
  BY DEF Base
<1>2. CASE \E p \in Submitters : SubmitStep(p)
  BY <1>2, SubmitTokens
<1>3. CASE \E r \in Runs : WorkerStep(r)
  BY <1>3, WorkerTokens
<1>4. CASE \E c \in Cancellers : CancelRunStep(c)
  BY <1>4, CancellerTokens
<1>5. CASE \E d \in Deleters : DeleteCancel(d) \/ DeleteSessionForUser(d)
  <2>1. UNCHANGED <<row, mem, up, spc, srun, wpc, cpc, crun>>
    BY <1>5 DEF DeleteCancel, DeleteSessionForUser, submitter, worker, canceller, durable, runtime
  <2>2. StatementOK \/ StatementFails
    BY <1>5 DEF DeleteCancel, DeleteSessionForUser, bounds, StatementOK
  <2>3. QED
    BY <1>1, <2>1, <2>2, FaultsGrow, TokensStay DEF AllUp, Token, Starting
<1>6. CASE (\E i \in Instances : RegistryCancel(i)) \/ UNCHANGED vars
  <2>1. UNCHANGED <<row, mem, up, spc, srun, wpc, cpc, crun, faults>>
    BY <1>6 DEF RegistryCancel, vars, submitter, worker, canceller, durable, runtime, bounds
  <2>2. QED
    BY <2>1, TokensStay DEF AllUp, Token, Starting
<1>7. ASSUME NEW i \in Instances, Crash(i)
      PROVE  ActiveHasToken'
  <2>1. ~up'[i]
    BY <1>1, <1>7 DEF Crash, TypeOK
  <2>2. QED
    BY <2>1 DEF ActiveHasToken, AllUp
<1>8. ASSUME NEW i \in Instances, Restart(i)
      PROVE  ActiveHasToken'
  <2>1. ASSUME faults' = 0
        PROVE  \A r \in Runs : row'[r] \notin Active
    <3>1. ~StatementFails
      BY <1>1, <2>1, BoundsAssumption DEF StatementFails, TypeOK
    <3>2. FailStrandedRuns
      BY <1>8, <3>1 DEF Restart
    <3>3. QED
      BY <3>2 DEF FailStrandedRuns, Active
  <2>2. QED
    BY <2>1 DEF ActiveHasToken, ActiveRows
<1>9. QED
  BY <1>2, <1>3, <1>4, <1>5, <1>6, <1>7, <1>8 DEF Next

\* The invariant holds in every reachable state.
LEMMA SettlerInvHolds ==
  ASSUME NoForeignRestart
  PROVE  Spec => []SettlerInv
<1>1. Init => SettlerInv
  BY DEF Init, SettlerInv, OneOwner, LockIsDriven, ActiveHasToken, ActiveRows, Active, Owns,
         Starting, Submitting
<1>2. Base /\ SettlerInv /\ [Next]_vars => SettlerInv'
  BY OwnerStep, DrivenStep, TokenStep DEF SettlerInv
<1>3. QED
  BY <1>1, <1>2, BaseHolds, PTL DEF Spec

\* Until a statement fails, an active row has somebody who will settle it, through
\* panics, stops, cancellations, crashes and restarts: the submitter that inserted
\* it, its worker, or the canceller that took its lock.  (A failed UpdateRunStatus
\* leaves the row to the next start's reconciliation.)
THEOREM ActiveRowsAreSettled ==
  ASSUME NoForeignRestart
  PROVE  Spec => [](faults = 0 => ActiveRowHasSettler)
<1>1. Base /\ SettlerInv => (faults = 0 => ActiveRowHasSettler)
  <2>1. SUFFICES ASSUME SettlerInv, faults = 0, AllUp, NEW r \in ActiveRows
                 PROVE  Settler(r)
    BY DEF ActiveRowHasSettler, AllUp
  <2>2. r \in Runs /\ Token(r) /\ r # NoRun
    BY <2>1 DEF SettlerInv, ActiveHasToken, ActiveRows, Runs, NoRun
  <2>3. CASE \E i \in Instances : mem[i] = r
    <3>1. PICK i \in Instances : mem[i] = r
      BY <2>3
    <3>2. Driven(i)
      BY <2>1, <2>2, <3>1 DEF SettlerInv, LockIsDriven
    <3>3. QED
      BY <3>1, <3>2 DEF Driven, Settler, Submitting
  <2>4. CASE \E p \in Submitters : Starting(p) /\ srun[p] = r
    BY <2>4 DEF Settler, Starting
  <2>5. QED
    BY <2>2, <2>3, <2>4 DEF Token, Settler
<1>2. QED
  BY <1>1, BaseHolds, SettlerInvHolds, PTL

-----------------------------------------------------------------------------
(* A Stop or a CancelRun reaches the loop it means.                        *)

\* CancelRun's wait ends before its 100 ms bound: the submitter that registered
\* the run registers its cancel func within microseconds.
WaitIsLongEnough == CancelWaitExpires => Cancellers = {}

Registering == {"install", "registerCancel"}
Appending == {"appendRunning", "appendUser", "launch"}

\* Until its cancel func is registered a run keeps its lock: a canceller that
\* captured it waits.
RegisteringHoldsLock ==
  \A p \in Submitters : spc[p] \in Registering =>
    /\ mem[Home[p]] = srun[p] /\ memCancel[Home[p]] = NoRun
    /\ \A c \in Cancellers :
         cpc[c] # "idle" /\ crun[c] = srun[p] => cpc[c] = "wait" /\ Home[c] = Home[p]

\* From then on it keeps its lock and its entry until it is told to stop.
StopReachesTheSubmission ==
  /\ \A p \in Submitters : spc[p] = "registerCancel" => workers[Home[p]] = srun[p]
  /\ \A p \in Submitters : spc[p] \in Appending /\ ~ctxDone[srun[p]] =>
       mem[Home[p]] = srun[p] /\ workers[Home[p]] = srun[p]

LoopIsNamed ==
  \A r \in Runs : Executing(r) /\ ~ctxDone[r] => workers[whome[r]] = r /\ mem[whome[r]] = r

\* A canceller that is about to take the lock has told the run to stop.
CancellerInterruptsFirst ==
  \A c \in Cancellers :
    /\ cpc[c] # "idle" => \A p \in Submitters : Starting(p) => srun[p] # crun[c]
    /\ cpc[c] = "wait" => cfn[c] = NoRun
    /\ cpc[c] = "interrupt" =>
         cfn[c] = crun[c] \/ (cfn[c] = NoRun /\ mem[Home[c]] # crun[c])
    /\ cpc[c] = "complete" => ctxDone[crun[c]] \/ mem[Home[c]] # crun[c]

CancelInv ==
  /\ RegisteringHoldsLock /\ StopReachesTheSubmission /\ LoopIsNamed
  /\ CancellerInterruptsFirst /\ RegisteredCancelIsOwn

\* A step that leaves locks, entries and cancel funcs alone and brings nobody to a
\* new point.
Quiet ==
  /\ UNCHANGED <<mem, memCancel, workers>>
  /\ \A r \in Runs : ctxDone[r] => ctxDone'[r]
  /\ \A p \in Submitters : Starting(p)' => Starting(p) /\ srun'[p] = srun[p]
  /\ \A p \in Submitters : spc'[p] \in Registering => spc'[p] = spc[p] /\ srun'[p] = srun[p]
  /\ \A p \in Submitters : spc'[p] \in Appending => spc[p] \in Appending /\ srun'[p] = srun[p]
  /\ \A r \in Runs : Executing(r)' => Executing(r) /\ whome'[r] = whome[r]
  /\ \A c \in Cancellers :
       cpc'[c] # "idle" => cpc'[c] = cpc[c] /\ crun'[c] = crun[c] /\ cfn'[c] = cfn[c]

\* A step that moves nobody between these points keeps the invariant.
LEMMA QuietKeeps ==
  ASSUME Base, CancelInv, Quiet
  PROVE  CancelInv'
<1>1. /\ \A p \in Submitters : spc[p] \in Appending => srun[p] \in Runs
      /\ \A c \in Cancellers : cpc[c] # "idle" => crun[c] \in Runs
  BY DEF Base, TableInv, LockInv, RunsInHand, Appending
<1>2. RegisteringHoldsLock'
  BY DEF Quiet, CancelInv, RegisteringHoldsLock, Registering
<1>3. StopReachesTheSubmission'
  BY <1>1 DEF Quiet, CancelInv, StopReachesTheSubmission, Registering
<1>4. LoopIsNamed'
  BY DEF Quiet, CancelInv, LoopIsNamed
<1>5. CancellerInterruptsFirst'
  BY <1>1 DEF Quiet, CancelInv, CancellerInterruptsFirst
<1>6. RegisteredCancelIsOwn'
  BY DEF Quiet, CancelInv, RegisteredCancelIsOwn
<1>7. QED
  BY <1>2, <1>3, <1>4, <1>5, <1>6 DEF CancelInv

\* The run of a submitter whose INSERT succeeded is nobody else's.
LEMMA CreateCancel ==
  ASSUME Base, OneOwner, CancelInv, NEW p \in Submitters, CreateRun(p)
  PROVE  CancelInv'
<1>1. TypeOK /\ LockInv
  BY DEF Base, TableInv
<1>2. /\ UNCHANGED <<mem, memCancel, workers, ctxDone, wpc, whome, cpc, crun, cfn>>
      /\ \A q \in Submitters : q # p => spc'[q] = spc[q] /\ srun'[q] = srun[q]
      /\ spc[p] = "create" /\ srun[p] \in Runs
      /\ spc'[p] \in {"idle", "markRunning"}
      /\ spc'[p] = "markRunning" => srun'[p] = srun[p] /\ row[srun[p]] = "none"
  BY <1>1 DEF CreateRun, CreateConflict, SubmitterAt, Goto, Return, TypeOK, LockInv, RunsInHand,
              runtime, worker, canceller
<1>3. \A q \in Submitters : Starting(q)' => srun'[q] = srun[q] /\ (Starting(q)
           \/ row[srun[q]] = "none")
  BY <1>2 DEF Starting
<1>4. \A q \in Submitters : spc'[q] \in Registering \cup Appending => q # p
  BY <1>2 DEF Registering, Appending
<1>5. RegisteringHoldsLock' /\ StopReachesTheSubmission'
  BY <1>2, <1>4 DEF CancelInv, RegisteringHoldsLock, StopReachesTheSubmission, Registering
<1>6. LoopIsNamed' /\ RegisteredCancelIsOwn'
  BY <1>2 DEF CancelInv, LoopIsNamed, RegisteredCancelIsOwn, Executing
<1>7. \A c \in Cancellers, q \in Submitters :
        cpc'[c] # "idle" /\ Starting(q)' => srun'[q] # crun'[c]
  BY <1>2, <1>3 DEF CancelInv, CancellerInterruptsFirst, OneOwner
<1>8. CancellerInterruptsFirst'
  BY <1>2, <1>7 DEF CancelInv, CancellerInterruptsFirst
<1>9. QED
  BY <1>5, <1>6, <1>8 DEF CancelInv

\* RegisterRun finds the lock free: the row of its run is the active one.
LEMMA LockFree ==
  ASSUME Base, NEW p \in Submitters, spc[p] = "register"
  PROVE  mem[Home[p]] = NoRun
<1>1. TypeOK /\ LockInv /\ Home[p] \in Instances
  BY HomeAssumption DEF Base, TableInv, Clients
<1>2. srun[p] \in Runs /\ row[srun[p]] = "running"
  BY <1>1 DEF LockInv, TokenHoldersAreActive, RunsInHand
<1>3. ASSUME mem[Home[p]] # NoRun
      PROVE  FALSE
  <2>1. mem[Home[p]] \in Runs /\ row[mem[Home[p]]] = "running"
    BY <1>1, <1>3 DEF TypeOK, LockInv, TokenHoldersAreActive
  <2>2. mem[Home[p]] = srun[p]
    BY <1>2, <2>1 DEF Base, SingleActiveRun, ActiveRows, Active
  <2>3. QED
    BY <1>1, <2>2 DEF LockInv, OneTokenPerRun, Starting
<1>4. QED
  BY <1>3

\* RegisterRun takes the lock with no cancel func, before the submitter registers its own.
LEMMA RegisterRunCancel ==
  ASSUME Base, OneOwner, CancelInv, NEW p \in Submitters, RegisterRun(p)
  PROVE  CancelInv'
<1>1. TypeOK /\ LockInv /\ Home[p] \in Instances /\ \A q \in Submitters : Home[q] \in Instances
  BY HomeAssumption DEF Base, TableInv, Clients
<1>2. /\ UNCHANGED <<workers, srun, ctxDone, wpc, whome, cpc, crun, cfn>>
      /\ \A q \in Submitters : q # p => spc'[q] = spc[q]
      /\ spc[p] = "register" /\ spc'[p] = "install" /\ Starting(p) /\ srun[p] \in Runs
      /\ \A i \in Instances : mem'[i] = IF i = Home[p] THEN srun[p] ELSE mem[i]
      /\ \A i \in Instances : memCancel'[i] = IF i = Home[p] THEN NoRun ELSE memCancel[i]
  BY <1>1 DEF RegisterRun, SubmitterAt, Goto, TypeOK, LockInv, RunsInHand, Starting, worker,
       canceller
<1>3. mem[Home[p]] = NoRun
  BY <1>2, LockFree
<1>4. \A q \in Submitters : spc'[q] \in Registering /\ q # p => Home[q] # Home[p]
  <2>1. \A q \in Submitters : spc[q] \in Registering => srun[q] \in Runs /\ mem[Home[q]] = srun[q]
    BY <1>1 DEF LockInv, RunsInHand, CancelInv, RegisteringHoldsLock, Registering
  <2>2. QED
    BY <1>2, <1>3, <2>1 DEF Runs, NoRun
<1>5. \A c \in Cancellers : cpc[c] # "idle" => crun[c] # srun[p]
  BY <1>2 DEF CancelInv, CancellerInterruptsFirst
<1>6. RegisteringHoldsLock'
  BY <1>1, <1>2, <1>4, <1>5 DEF CancelInv, RegisteringHoldsLock, Registering
<1>7. \A q \in Submitters : spc[q] \in Appending /\ ~ctxDone[srun[q]] => q # p /\ Home[q] # Home[p]
  <2>1. \A q \in Submitters : spc[q] \in Appending => srun[q] \in Runs
    BY <1>1 DEF LockInv, RunsInHand, Appending
  <2>2. QED
    BY <1>2, <1>3, <2>1 DEF CancelInv, StopReachesTheSubmission, Appending, Runs, NoRun
<1>8. StopReachesTheSubmission'
  <2>1. \A q \in Submitters : spc'[q] = "registerCancel" => workers'[Home[q]] = srun'[q]
    BY <1>2 DEF CancelInv, StopReachesTheSubmission
  <2>2. \A q \in Submitters : spc'[q] \in Appending => spc[q] \in Appending
    BY <1>2 DEF Appending
  <2>3. QED
    BY <1>1, <1>2, <1>7, <2>1, <2>2 DEF CancelInv, StopReachesTheSubmission
<1>9. LoopIsNamed'
  <2>1. \A r \in Runs : Executing(r) /\ ~ctxDone[r] => whome[r] \in Instances /\ whome[r] # Home[p]
    <3>1. \A r \in Runs : r # NoRun /\ whome[r] \in Instances
      BY <1>1, RunIsReal DEF TypeOK
    <3>2. QED
      BY <1>3, <3>1 DEF CancelInv, LoopIsNamed
  <2>2. QED
    BY <1>2, <2>1 DEF CancelInv, LoopIsNamed, Executing
<1>10. CancellerInterruptsFirst'
  <2>1. \A q \in Submitters : Starting(q)' => Starting(q)
    BY <1>2 DEF Starting
  <2>2. \A c \in Cancellers : cpc[c] # "idle" /\ mem[Home[c]] # crun[c] => mem'[Home[c]] # crun[c]
    BY <1>2, <1>5, HomeAssumption DEF Clients
  <2>3. QED
    BY <1>2, <2>1, <2>2 DEF CancelInv, CancellerInterruptsFirst
<1>11. RegisteredCancelIsOwn'
  BY <1>2 DEF CancelInv, RegisteredCancelIsOwn
<1>12. QED
  BY <1>6, <1>8, <1>9, <1>10, <1>11 DEF CancelInv

\* The entry of an older worker may be overwritten: its run was told to stop or is over.
LEMMA InstallCancel ==
  ASSUME Base, OneOwner, CancelInv, NEW p \in Submitters, InstallWorker(p)
  PROVE  CancelInv'
<1>1. TypeOK /\ LockInv /\ Home[p] \in Instances /\ \A q \in Submitters : Home[q] \in Instances
  BY HomeAssumption DEF Base, TableInv, Clients
<1>2. /\ UNCHANGED <<mem, memCancel, srun, ctxDone, wpc, whome, cpc, crun, cfn>>
      /\ \A q \in Submitters : q # p => spc'[q] = spc[q]
      /\ spc[p] = "install" /\ spc'[p] = "registerCancel" /\ srun[p] \in Runs
      /\ \A i \in Instances : workers'[i] = IF i = Home[p] THEN srun[p] ELSE workers[i]
  BY <1>1 DEF InstallWorker, SubmitterAt, Goto, TypeOK, LockInv, RunsInHand, worker, canceller
<1>3. mem[Home[p]] = srun[p]
  BY <1>2 DEF CancelInv, RegisteringHoldsLock, Registering
<1>4. RegisteringHoldsLock'
  BY <1>2 DEF CancelInv, RegisteringHoldsLock, Registering
<1>5. StopReachesTheSubmission'
  <2>1. ASSUME NEW q \in Submitters, spc[q] = "registerCancel" \/ (spc[q] \in Appending
             /\ ~ctxDone[srun[q]])
        PROVE  q # p /\ Home[q] # Home[p]
    <3>1. mem[Home[q]] = srun[q] /\ Owns(q) /\ Owns(p) /\ q # p
      BY <1>2, <2>1 DEF CancelInv, RegisteringHoldsLock, StopReachesTheSubmission, Registering,
           Appending,
                        Owns, Submitting
    <3>2. QED
      BY <1>3, <3>1 DEF OneOwner
  <2>2. \A q \in Submitters : spc'[q] \in Appending => spc[q] \in Appending /\ q # p
    BY <1>2 DEF Appending
  <2>3. QED
    BY <1>1, <1>2, <2>1, <2>2 DEF CancelInv, StopReachesTheSubmission
<1>6. LoopIsNamed'
  <2>1. wpc[srun[p]] = "none"
    BY <1>2 DEF OneOwner, Owns, Submitting
  <2>2. \A r \in Runs : Executing(r) => r # srun[p]
    BY <2>1 DEF Executing
  <2>3. \A r \in Runs : Executing(r) /\ ~ctxDone[r] => whome[r] \in Instances /\ whome[r] # Home[p]
    BY <1>1, <1>3, <2>2 DEF CancelInv, LoopIsNamed, TypeOK
  <2>4. QED
    BY <1>2, <2>3 DEF CancelInv, LoopIsNamed, Executing
<1>7. CancellerInterruptsFirst' /\ RegisteredCancelIsOwn'
  BY <1>2 DEF CancelInv, CancellerInterruptsFirst, RegisteredCancelIsOwn, Starting
<1>8. QED
  BY <1>4, <1>5, <1>6, <1>7 DEF CancelInv

\* RegisterCancel finds its own run state.
LEMMA RegisterCancelCancel ==
  ASSUME Base, OneOwner, CancelInv, NEW p \in Submitters, RegisterCancel(p)
  PROVE  CancelInv'
<1>1. TypeOK /\ LockInv /\ Home[p] \in Instances /\ \A q \in Submitters : Home[q] \in Instances
  BY HomeAssumption DEF Base, TableInv, Clients
<1>2. /\ UNCHANGED <<mem, workers, srun, ctxDone, wpc, whome, cpc, crun, cfn>>
      /\ \A q \in Submitters : q # p => spc'[q] = spc[q]
      /\ spc[p] = "registerCancel" /\ spc'[p] = "appendRunning" /\ srun[p] \in Runs
      /\ \A i \in Instances : i # Home[p] => memCancel'[i] = memCancel[i]
      /\ memCancel'[Home[p]] \in {srun[p], memCancel[Home[p]]}
  BY <1>1 DEF RegisterCancel, SubmitterAt, Goto, TypeOK, LockInv, RunsInHand, worker, canceller
<1>3. mem[Home[p]] = srun[p] /\ workers[Home[p]] = srun[p]
  BY <1>2 DEF CancelInv, RegisteringHoldsLock, StopReachesTheSubmission, Registering
<1>4. RegisteringHoldsLock'
  <2>1. ASSUME NEW q \in Submitters, spc'[q] \in Registering
        PROVE  spc[q] \in Registering /\ Home[q] # Home[p]
    <3>1. spc[q] \in Registering /\ q # p /\ Owns(q) /\ Owns(p) /\ mem[Home[q]] = srun[q]
      BY <1>2, <2>1 DEF CancelInv, RegisteringHoldsLock, Registering, Owns, Submitting
    <3>2. QED
      BY <1>3, <3>1 DEF OneOwner
  <2>2. QED
    BY <1>1, <1>2, <2>1 DEF CancelInv, RegisteringHoldsLock
<1>5. StopReachesTheSubmission'
  <2>1. \A q \in Submitters : q # p /\ spc'[q] \in Appending => spc[q] \in Appending
    BY <1>2
  <2>2. QED
    BY <1>2, <1>3, <2>1 DEF CancelInv, StopReachesTheSubmission
<1>6. LoopIsNamed' /\ CancellerInterruptsFirst'
  BY <1>2 DEF CancelInv, LoopIsNamed, Executing, CancellerInterruptsFirst, Starting
<1>7. RegisteredCancelIsOwn'
  BY <1>2, <1>3 DEF CancelInv, RegisteredCancelIsOwn
<1>8. QED
  BY <1>4, <1>5, <1>6, <1>7 DEF CancelInv

\* The worker starts under the lock, the entry and the cancel func of its submitter.
LEMMA LaunchCancel ==
  ASSUME Base, CancelInv, NEW p \in Submitters, LaunchWorker(p)
  PROVE  CancelInv'
<1>1. TypeOK /\ LockInv
  BY DEF Base, TableInv
<1>2. /\ UNCHANGED <<mem, memCancel, workers, ctxDone, cpc, crun, cfn>>
      /\ \A q \in Submitters : q # p => spc'[q] = spc[q] /\ srun'[q] = srun[q]
      /\ spc[p] = "launch" /\ spc'[p] = "idle" /\ srun[p] \in Runs
      /\ \A r \in Runs : r # srun[p] => wpc'[r] = wpc[r] /\ whome'[r] = whome[r]
      /\ whome'[srun[p]] = Home[p]
  BY <1>1 DEF LaunchWorker, SubmitterAt, Goto, Return, TypeOK, LockInv, RunsInHand, runtime,
       canceller
<1>3. \A q \in Submitters : q = p => spc'[q] \notin Registering \cup Appending /\ ~Starting(q)'
  BY <1>2 DEF Registering, Appending, Starting
<1>4. RegisteringHoldsLock'
  BY <1>2, <1>3 DEF CancelInv, RegisteringHoldsLock
<1>5. StopReachesTheSubmission'
  BY <1>2, <1>3 DEF CancelInv, StopReachesTheSubmission
<1>6. LoopIsNamed'
  <2>1. ~ctxDone[srun[p]] => workers[Home[p]] = srun[p] /\ mem[Home[p]] = srun[p]
    BY <1>2 DEF CancelInv, StopReachesTheSubmission, Appending
  <2>2. \A r \in Runs : r # srun[p] /\ Executing(r)' => Executing(r)
    BY <1>2 DEF Executing
  <2>3. QED
    BY <1>2, <2>1, <2>2 DEF CancelInv, LoopIsNamed
<1>7. CancellerInterruptsFirst' /\ RegisteredCancelIsOwn'
  BY <1>2, <1>3 DEF CancelInv, CancellerInterruptsFirst, RegisteredCancelIsOwn, Starting
<1>8. QED
  BY <1>4, <1>5, <1>6, <1>7 DEF CancelInv

\* Every step of a submission.
LEMMA SubmitCancel ==
  ASSUME Base, OneOwner, CancelInv, NEW p \in Submitters, SubmitStep(p)
  PROVE  CancelInv'
<1>1. TypeOK
  BY DEF Base
<1>2. CASE CreateRun(p) \/ RegisterRun(p) \/ InstallWorker(p) \/ RegisterCancel(p)
           \/ LaunchWorker(p)
  BY <1>2, CreateCancel, RegisterRunCancel, InstallCancel, RegisterCancelCancel, LaunchCancel
<1> USE DEF Quiet, Starting, Registering, Appending, Goto, Return, SubmitterAt
<1>3. CASE GetSession(p) \/ CheckMemory(p) \/ CheckStore(p) \/ NextRunSeq(p)
  <2>1. Quiet
    BY <1>1, <1>3 DEF GetSession, CheckMemory, CheckStore, NextRunSeq, TypeOK, Executing, runtime,
                      worker, canceller
  <2>2. QED
    BY <2>1, QuietKeeps
<1>4. CASE MarkRunning(p)
  <2>1. Quiet
    BY <1>1, <1>4 DEF MarkRunning, TypeOK, Executing, runtime, worker, canceller
  <2>2. QED
    BY <2>1, QuietKeeps
<1>5. CASE AppendRunning(p) \/ AppendUser(p)
  <2>1. Quiet
    BY <1>1, <1>5 DEF AppendRunning, AppendUser, TypeOK, Executing, worker, canceller
  <2>2. QED
    BY <2>1, QuietKeeps
<1>6. QED
  BY <1>2, <1>3, <1>4, <1>5 DEF SubmitStep

\* A worker leaves the loop, and only then its lock and its entry.
LEMMA WorkerCancel ==
  ASSUME Base, OneOwner, CancelInv, NEW w \in Runs, WorkerStep(w)
  PROVE  CancelInv'
<1>1. /\ TypeOK /\ LockInv
      /\ UNCHANGED <<spc, srun, cpc, crun, cfn, ctxDone, whome, memCancel>>
      /\ \A r \in Runs : r # w => wpc'[r] = wpc[r]
  <2>1. TypeOK /\ LockInv /\ UNCHANGED <<spc, srun, cpc, crun>>
    BY WorkerStepFrame DEF Base, TableInv
  <2>2. QED
    BY <2>1 DEF WorkerStep, LoopEnds, LoopPanics, EmitDone, EmitError, EmitCancelled, PanicAppend,
              DetermineStatus, Compensate, CompensateRetry, Complete, StoreStatus, FireHooks,
              Cleanup, WGoto, TypeOK, runtime, canceller
<1>2. CASE Complete(w)
  <2>1. /\ workers' = workers /\ wpc[w] = "complete" /\ ~Executing(w)'
        /\ \A i \in Instances : mem'[i] = mem[i] \/ (mem[i] = w /\ mem'[i] = NoRun)
    BY <1>1, <1>2 DEF Complete, WorkerAt, WGoto, AfterSettle, ReleasesLock, ReleaseLock, TypeOK,
         Executing
  <2>2. \A p \in Submitters : spc[p] \in Registering \cup Appending => srun[p] # w
    BY <2>1 DEF OneOwner, Owns, Submitting, Registering, Appending
  <2>3. \A x \in Clients : Home[x] \in Instances
    BY HomeAssumption
  <2>4. RegisteringHoldsLock' /\ StopReachesTheSubmission'
    BY <1>1, <2>1, <2>2, <2>3 DEF CancelInv, RegisteringHoldsLock, StopReachesTheSubmission, Clients
  <2>5. LoopIsNamed'
    <3>1. \A r \in Runs : Executing(r)' => r # w /\ Executing(r) /\ whome[r] \in Instances
      BY <1>1, <2>1 DEF Executing, TypeOK
    <3>2. QED
      BY <1>1, <2>1, <3>1 DEF CancelInv, LoopIsNamed
  <2>6. CancellerInterruptsFirst'
    <3>1. \A c \in Cancellers : cpc[c] # "idle" => crun[c] # NoRun
      BY <1>1 DEF LockInv, RunsInHand, Runs, NoRun
    <3>2. \A c \in Cancellers : cpc[c] # "idle" /\ mem[Home[c]] # crun[c] => mem'[Home[c]] # crun[c]
      BY <2>1, <2>3, <3>1 DEF Clients
    <3>3. QED
      BY <1>1, <3>2 DEF CancelInv, CancellerInterruptsFirst, Starting
  <2>7. RegisteredCancelIsOwn'
    BY <1>1, <2>1 DEF CancelInv, RegisteredCancelIsOwn
  <2>8. QED
    BY <2>4, <2>5, <2>6, <2>7 DEF CancelInv
<1>3. CASE Cleanup(w)
  <2>1. /\ mem' = mem /\ wpc[w] = "cleanup" /\ wpc'[w] = "gone"
        /\ \A i \in Instances : workers'[i] = workers[i] \/ workers[i] = w
    BY <1>1, <1>3 DEF Cleanup, WorkerAt, WGoto, TypeOK
  <2>2. \A p \in Submitters : spc[p] \in Registering \cup Appending => srun[p] # w
    BY <2>1 DEF OneOwner, Owns, Submitting, Registering, Appending
  <2>3. \A x \in Clients : Home[x] \in Instances
    BY HomeAssumption
  <2>4. RegisteringHoldsLock'
    BY <1>1, <2>1 DEF CancelInv, RegisteringHoldsLock
  <2>5. StopReachesTheSubmission'
    BY <1>1, <2>1, <2>2, <2>3 DEF CancelInv, StopReachesTheSubmission, Clients, Registering
  <2>6. LoopIsNamed'
    <3>1. \A r \in Runs : Executing(r)' => r # w /\ Executing(r) /\ whome[r] \in Instances
      BY <1>1, <2>1 DEF Executing, TypeOK
    <3>2. QED
      BY <1>1, <2>1, <3>1 DEF CancelInv, LoopIsNamed
  <2>7. CancellerInterruptsFirst' /\ RegisteredCancelIsOwn'
    BY <1>1, <2>1 DEF CancelInv, CancellerInterruptsFirst, Starting, RegisteredCancelIsOwn
  <2>8. QED
    BY <2>4, <2>5, <2>6, <2>7 DEF CancelInv
<1>4. CASE ~Complete(w) /\ ~Cleanup(w)
  <2>1. UNCHANGED <<mem, workers>> /\ (Executing(w)' => Executing(w))
    BY <1>1, <1>4 DEF WorkerStep, LoopEnds, LoopPanics, EmitDone, EmitError, EmitCancelled,
         PanicAppend,
              DetermineStatus, Compensate, CompensateRetry, StoreStatus, FireHooks, AfterSettle,
              WorkerAt, WGoto, TypeOK, runtime, Executing
  <2>2. Quiet
    BY <1>1, <2>1 DEF Quiet, Starting, Executing
  <2>3. QED
    BY <2>2, QuietKeeps
<1>5. QED
  BY <1>2, <1>3, <1>4

\* CancelRun captures the lock's run and its cancel func together, waits for the
\* func while the run holds the lock, and interrupts before it takes the lock.
LEMMA CancellerCancel ==
  ASSUME WaitIsLongEnough, Base, CancelInv, NEW c \in Cancellers, CancelRunStep(c)
  PROVE  CancelInv'
<1>1. /\ TypeOK /\ LockInv /\ Home[c] \in Instances
      /\ UNCHANGED <<spc, srun, wpc, whome, workers, memCancel>>
      /\ \A d \in Cancellers : d # c => cpc'[d] = cpc[d] /\ crun'[d] = crun[d] /\ cfn'[d] = cfn[d]
  <2>1. TypeOK /\ LockInv /\ Home[c] \in Instances
    BY HomeAssumption DEF Base, TableInv, Clients
  <2>2. QED
    BY <2>1 DEF CancelRunStep, CancelRunCapture, CancelRunWait, CancelRunInterrupt,
         CancelRunComplete, CancelRunStore, CGoto, CReturn, TypeOK, submitter, worker, runtime
<1>2. CASE CancelRunCapture(c)
  <2>1. /\ UNCHANGED <<mem, ctxDone>> /\ mem[Home[c]] # NoRun /\ cpc[c] = "idle"
        /\ crun'[c] = mem[Home[c]] /\ cfn'[c] = memCancel[Home[c]]
        /\ cpc'[c] = IF memCancel[Home[c]] = NoRun THEN "wait" ELSE "interrupt"
    BY <1>1, <1>2 DEF CancelRunCapture, CancellerAt, CGoto, TypeOK, runtime
  <2>2. RegisteringHoldsLock'
    <3>1. ASSUME NEW p \in Submitters, spc[p] \in Registering, crun'[c] = srun[p]
          PROVE  cpc'[c] = "wait" /\ Home[c] = Home[p]
      <4>1. mem[Home[p]] = srun[p] /\ memCancel[Home[p]] = NoRun /\ Home[p] \in Instances
        BY <3>1, HomeAssumption DEF CancelInv, RegisteringHoldsLock, Clients
      <4>2. Home[c] = Home[p]
        <5>1. mem[Home[c]] = mem[Home[p]] /\ mem[Home[c]] # NoRun
          BY <2>1, <3>1, <4>1
        <5>2. QED
          BY <1>1, <4>1, <5>1 DEF LockInv, OneTokenPerRun
      <4>3. QED
        BY <2>1, <4>1, <4>2
    <3>2. QED
      BY <1>1, <2>1, <3>1 DEF CancelInv, RegisteringHoldsLock
  <2>3. StopReachesTheSubmission' /\ LoopIsNamed' /\ RegisteredCancelIsOwn'
    BY <1>1, <2>1 DEF CancelInv, StopReachesTheSubmission, LoopIsNamed, RegisteredCancelIsOwn,
         Executing
  <2>4. CancellerInterruptsFirst'
    <3>1. \A p \in Submitters : Starting(p) => srun[p] # crun'[c]
      BY <1>1, <2>1 DEF LockInv, OneTokenPerRun
    <3>2. cpc'[c] = "interrupt" => cfn'[c] = crun'[c]
      BY <1>1, <2>1 DEF CancelInv, RegisteredCancelIsOwn
    <3>3. cpc'[c] # "complete"
      BY <2>1
    <3>4. QED
      BY <1>1, <2>1, <3>1, <3>2, <3>3 DEF CancelInv, CancellerInterruptsFirst, Starting
  <2>5. QED
    BY <2>2, <2>3, <2>4 DEF CancelInv
<1>3. CASE CancelRunWait(c)
  <2>1. /\ UNCHANGED <<mem, ctxDone, crun>> /\ cpc[c] = "wait" /\ cpc'[c] = "interrupt"
        /\ \/ /\ mem[Home[c]] = crun[c] /\ memCancel[Home[c]] # NoRun
              /\ cfn'[c] = memCancel[Home[c]]
           \/ mem[Home[c]] # crun[c] /\ cfn' = cfn
    BY <1>1, <1>3 DEF CancelRunWait, CancellerAt, CGoto, TypeOK, runtime, WaitIsLongEnough
  <2>2. RegisteringHoldsLock'
    <3>1. ASSUME NEW p \in Submitters, spc[p] \in Registering
          PROVE  crun[c] # srun[p]
      BY <2>1, <3>1 DEF CancelInv, RegisteringHoldsLock
    <3>2. QED
      BY <1>1, <2>1, <3>1 DEF CancelInv, RegisteringHoldsLock
  <2>3. StopReachesTheSubmission' /\ LoopIsNamed' /\ RegisteredCancelIsOwn'
    BY <1>1, <2>1 DEF CancelInv, StopReachesTheSubmission, LoopIsNamed, RegisteredCancelIsOwn,
         Executing
  <2>4. CancellerInterruptsFirst'
    <3>1. cfn'[c] = crun[c] \/ (cfn'[c] = NoRun /\ mem[Home[c]] # crun[c])
      <4>1. crun[c] # NoRun
        BY <1>1, <2>1, RunIsReal DEF LockInv, RunsInHand
      <4>2. QED
        BY <1>1, <2>1, <4>1 DEF CancelInv, RegisteredCancelIsOwn, CancellerInterruptsFirst
    <3>2. QED
      BY <1>1, <2>1, <3>1 DEF CancelInv, CancellerInterruptsFirst, Starting
  <2>5. QED
    BY <2>2, <2>3, <2>4 DEF CancelInv
<1>4. CASE CancelRunInterrupt(c)
  <2>1. /\ UNCHANGED <<mem, crun, cfn>> /\ cpc[c] = "interrupt" /\ cpc'[c] = "complete"
        /\ \A r \in Runs : ctxDone[r] => ctxDone'[r]
        /\ cfn[c] \in Runs => ctxDone'[cfn[c]]
    BY <1>1, <1>4 DEF CancelRunInterrupt, CancellerAt, CGoto, TypeOK, runtime, Runs, NoRun
  <2>2. crun[c] \in Runs /\ \A d \in Cancellers : cpc[d] # "idle" => crun[d] \in Runs
    BY <1>1, <2>1 DEF LockInv, RunsInHand
  <2>3. RegisteringHoldsLock'
    <3>1. \A p \in Submitters : spc[p] \in Registering => crun[c] # srun[p]
      BY <2>1 DEF CancelInv, RegisteringHoldsLock
    <3>2. QED
      BY <1>1, <2>1, <3>1 DEF CancelInv, RegisteringHoldsLock
  <2>4. StopReachesTheSubmission' /\ LoopIsNamed' /\ RegisteredCancelIsOwn'
    <3>1. \A p \in Submitters : spc[p] \in Appending => srun[p] \in Runs
      BY <1>1 DEF LockInv, RunsInHand, Appending
    <3>2. QED
      BY <1>1, <2>1, <3>1 DEF CancelInv, StopReachesTheSubmission, LoopIsNamed,
           RegisteredCancelIsOwn,
                              Executing
  <2>5. CancellerInterruptsFirst'
    <3>1. ctxDone'[crun[c]] \/ mem[Home[c]] # crun[c]
      BY <2>1, <2>2 DEF CancelInv, CancellerInterruptsFirst
    <3>2. QED
      BY <1>1, <2>1, <2>2, <3>1 DEF CancelInv, CancellerInterruptsFirst, Starting
  <2>6. QED
    BY <2>3, <2>4, <2>5 DEF CancelInv
<1>5. CASE CancelRunComplete(c)
  <2>1. /\ ctxDone' = ctxDone /\ cpc[c] = "complete" /\ cpc'[c] \in {"idle", "store"}
        /\ cpc'[c] = "store" => crun'[c] = crun[c]
        /\ \A i \in Instances : mem'[i] = mem[i] \/
             (i = Home[c] /\ mem[i] = crun[c] /\ mem'[i] = NoRun /\ ctxDone[crun[c]])
    <3>1. mem[Home[c]] = crun[c] /\ cpc[c] = "complete" => ctxDone[crun[c]]
      BY DEF CancelInv, CancellerInterruptsFirst
    <3>2. QED
      BY <1>1, <1>5, <3>1 DEF CancelRunComplete, CancellerAt, CGoto, CReturn, ReleasesLock,
           ReleaseLock,
                              TypeOK
  <2>2. \A x \in Clients : Home[x] \in Instances
    BY HomeAssumption
  <2>3. RegisteringHoldsLock'
    <3>1. \A p \in Submitters : spc[p] \in Registering => crun[c] # srun[p]
      BY <2>1 DEF CancelInv, RegisteringHoldsLock
    <3>2. \A d \in Cancellers : cpc'[d] # "idle" => cpc[d] # "idle" /\ crun'[d] = crun[d]
      BY <1>1, <2>1
    <3>3. QED
      BY <1>1, <2>1, <2>2, <3>1, <3>2 DEF CancelInv, RegisteringHoldsLock, Clients
  <2>4. StopReachesTheSubmission'
    BY <1>1, <2>1, <2>2 DEF CancelInv, StopReachesTheSubmission, Clients
  <2>5. LoopIsNamed'
    <3>1. \A r \in Runs : whome[r] \in Instances
      BY <1>1 DEF TypeOK
    <3>2. QED
      BY <1>1, <2>1, <3>1 DEF CancelInv, LoopIsNamed, Executing
  <2>6. CancellerInterruptsFirst'
    <3>1. \A d \in Cancellers : cpc[d] # "idle" => crun[d] # NoRun
      BY <1>1 DEF LockInv, RunsInHand, Runs, NoRun
    <3>2. \A d \in Cancellers : cpc[d] # "idle" /\ mem[Home[d]] # crun[d] => mem'[Home[d]] # crun[d]
      BY <2>1, <2>2, <3>1 DEF Clients
    <3>3. QED
      BY <1>1, <2>1, <3>2 DEF CancelInv, CancellerInterruptsFirst, Starting
  <2>7. RegisteredCancelIsOwn'
    BY <1>1, <2>1 DEF CancelInv, RegisteredCancelIsOwn
  <2>8. QED
    BY <2>3, <2>4, <2>5, <2>6, <2>7 DEF CancelInv
<1>6. CASE CancelRunStore(c)
  <2>1. UNCHANGED <<mem, ctxDone>> /\ cpc'[c] = "idle"
    BY <1>1, <1>6 DEF CancelRunStore, CReturn, CGoto, TypeOK, runtime
  <2>2. Quiet
    BY <1>1, <2>1 DEF Quiet, Starting, Executing
  <2>3. QED
    BY <2>2, QuietKeeps
<1>7. QED
  BY <1>2, <1>3, <1>4, <1>5, <1>6 DEF CancelRunStep

\* A crash takes the submitters, workers and cancellers of the instance along.
LEMMA CrashCancel ==
  ASSUME Base, CancelInv, NEW i \in Instances, Crash(i)
  PROVE  CancelInv'
<1>1. TypeOK /\ LockInv
  BY DEF Base, TableInv
<1>2. /\ UNCHANGED <<whome, ctxDone, crun, cfn>>
      /\ \A j \in Instances : j # i => mem'[j] = mem[j] /\ memCancel'[j] = memCancel[j]
                 /\ workers'[j] = workers[j]
      /\ mem'[i] = NoRun
  BY <1>1 DEF Crash, TypeOK
<1>3. \A p \in Submitters : spc'[p] # "idle" => Home[p] # i /\ spc'[p] = spc[p]
           /\ srun'[p] = srun[p]
  BY <1>1 DEF Crash, TypeOK
<1>4. \A c \in Cancellers : cpc'[c] # "idle" => Home[c] # i /\ cpc'[c] = cpc[c]
  BY <1>1 DEF Crash, TypeOK
<1>5. \A r \in Runs : Executing(r)' => whome[r] # i /\ Executing(r) /\ whome[r] \in Instances
  BY <1>1 DEF Crash, TypeOK, Executing
<1>6. \A x \in Clients : Home[x] \in Instances
  BY HomeAssumption
<1>7. RegisteringHoldsLock'
  <2>1. \A p \in Submitters : spc'[p] \in Registering => spc'[p] # "idle"
    BY DEF Registering
  <2>2. QED
    BY <1>2, <1>3, <1>4, <1>6, <2>1 DEF CancelInv, RegisteringHoldsLock, Clients
<1>8. StopReachesTheSubmission'
  <2>1. \A p \in Submitters : spc'[p] \in Appending => spc'[p] # "idle"
    BY DEF Appending
  <2>2. QED
    BY <1>2, <1>3, <1>6, <2>1 DEF CancelInv, StopReachesTheSubmission, Clients
<1>9. LoopIsNamed'
  BY <1>2, <1>5 DEF CancelInv, LoopIsNamed
<1>10. CancellerInterruptsFirst'
  BY <1>2, <1>3, <1>4, <1>6 DEF CancelInv, CancellerInterruptsFirst, Starting, Clients
<1>11. RegisteredCancelIsOwn'
  BY <1>2 DEF CancelInv, RegisteredCancelIsOwn
<1>12. QED
  BY <1>7, <1>8, <1>9, <1>10, <1>11 DEF CancelInv

\* Every step.
LEMMA CancelStep ==
  ASSUME WaitIsLongEnough, Base, OneOwner, CancelInv, [Next]_vars
  PROVE  CancelInv'
<1>1. CASE \E p \in Submitters : SubmitStep(p)
  BY <1>1, SubmitCancel
<1>2. CASE \E r \in Runs : WorkerStep(r)
  BY <1>2, WorkerCancel
<1>3. CASE \E c \in Cancellers : CancelRunStep(c)
  BY <1>3, CancellerCancel
<1>4. CASE \E i \in Instances : Crash(i)
  BY <1>4, CrashCancel
<1>5. CASE \/ \E d \in Deleters : DeleteCancel(d) \/ DeleteSessionForUser(d)
           \/ \E i \in Instances : RegistryCancel(i) \/ Restart(i)
           \/ UNCHANGED vars
  <2>1. UNCHANGED <<mem, memCancel, workers, spc, srun, wpc, whome, cpc, crun, cfn>>
    BY <1>5 DEF DeleteCancel, DeleteSessionForUser, RegistryCancel, Restart, vars, runtime,
         submitter,
                worker, canceller
  <2>2. \A r \in Runs : ctxDone[r] => ctxDone'[r]
    <3>1. UNCHANGED ctxDone \/ \E i \in Instances : CancelWorker(i)
      BY <1>5, HomeAssumption DEF DeleteCancel, DeleteSessionForUser, RegistryCancel, Restart,
                                  vars, Clients
    <3>2. \A i \in Instances, r \in Runs : CancelWorker(i) => (ctxDone[r] => ctxDone'[r])
      BY DEF CancelWorker, Base, TypeOK
    <3>3. QED
      BY <3>1, <3>2
  <2>3. Quiet
    BY <2>1, <2>2 DEF Quiet, Starting, Executing
  <2>4. QED
    BY <2>3, QuietKeeps
<1>6. QED
  BY <1>1, <1>2, <1>3, <1>4, <1>5 DEF Next

\* Stop and CancelRun find the run they mean, and two loops of the session run side
\* by side only once one of them was told to stop: for any number of submitters,
\* cancellers and stops, through failed statements, panics, crashes and restarts.
THEOREM StopFindsItsRun ==
  ASSUME NoForeignRestart, WaitIsLongEnough
  PROVE  Spec => []CancelFindsItsRun
<1>1. Init => CancelInv
  BY DEF Init, CancelInv, RegisteringHoldsLock, StopReachesTheSubmission, LoopIsNamed, Registering,
         Appending, CancellerInterruptsFirst, RegisteredCancelIsOwn, Executing
<1>2. Base /\ SettlerInv /\ CancelInv /\ [Next]_vars => CancelInv'
  BY CancelStep DEF SettlerInv
<1>3. Base /\ CancelInv => CancelFindsItsRun
  <2>1. SUFFICES ASSUME Base, CancelInv
                 PROVE  CancelFindsItsRun
    OBVIOUS
  <2>2. StopReachesTheLoop
    <3>1. \A i \in Instances : mem[i] # NoRun => row[mem[i]] = "running"
      BY <2>1 DEF Base, TableInv, LockInv, TokenHoldersAreActive
    <3>2. \A r \in Runs : whome[r] \in Instances /\ r # NoRun
      BY <2>1, RunIsReal DEF Base, TypeOK
    <3>3. QED
      BY <2>1, <3>1, <3>2 DEF CancelInv, LoopIsNamed, StopReachesTheLoop
  <2>3. OneUncancelledLoop
    BY <2>1, <2>2 DEF StopReachesTheLoop, OneUncancelledLoop, Base, SingleActiveRun, ActiveRows,
         Active
  <2>4. QED
    BY <2>1, <2>2, <2>3 DEF CancelInv, CancelFindsItsRun
<1>4. QED
  BY <1>1, <1>2, <1>3, BaseHolds, SettlerInvHolds, PTL DEF Spec

-----------------------------------------------------------------------------
(* What a settled run leaves behind agrees.                                *)

\* Nobody but the worker takes a run's lock.
LockStays ==
  /\ \A p \in Submitters : spc[p] \in Submitting => mem[Home[p]] = srun[p]
  /\ \A r \in Runs : Executing(r) => mem[whome[r]] = r

\* The run state's counter is past the offsets of its run's events.
OffsetsBehind ==
  /\ \A r \in Runs : row[r] = "none" => log[r] = {}
  /\ \A p \in Submitters : Starting(p) => log[srun[p]] = {}
  /\ \A i \in Instances : mem[i] # NoRun => \A e \in log[mem[i]] : e.off <= memOff[i]

\* Points of a worker before its terminal event.
Before == {"none", "loop", "succeeding", "failing", "cancelling", "panicking"}

\* The terminal event is the worker's last.
LogOrdered ==
  /\ \A r \in Runs : wpc[r] \in Before => \A e \in log[r] : e.kind \notin TerminalKinds
  /\ \A r \in Runs : \A e, f \in log[r] :
       e.kind \in TerminalKinds /\ f.kind \notin TerminalKinds => f.off < e.off

Logged(r, kind) == \E e \in log[r] : e.kind = kind

\* The log shows the status the worker computed.
Recorded(r) == Logged(r, KindOf(status[r])) \/ (status[r] = "done" /\ ctxDone[r])

\* How far the worker of r is in recording how the run ended.
EndRecorded(r) ==
  /\ wpc[r] = "cancelling" => ctxDone[r]
  /\ wpc[r] = "returned" =>
       /\ outcome[r] \in {"nil", "error"}
       /\ outcome[r] = "nil" => Logged(r, "done") \/ ctxDone[r]
       /\ outcome[r] = "error" => Logged(r, "error") \/ ctxDone[r]
       /\ landed[r] <=> Logged(r, "cancelled")
  /\ wpc[r] = "compensate" => status[r] = "cancelled" /\ ~Logged(r, "cancelled")
  /\ wpc[r] # "retry"
  /\ wpc[r] \in Before \cup {"returned"} => status[r] = "none"
  /\ wpc[r] \in Before => ~landed[r]
  /\ wpc[r] \in {"complete", "store", "hooks", "cleanup"} => Recorded(r)
  /\ wpc[r] = "gone" =>
       Recorded(r) \/ (status[r] \in {"none", "cancelled"} /\ row[r] \in {"running", "failed"})
  /\ \A e, f \in log[r] : e.kind = "cancelled" /\ f.kind = "cancelled" => e = f

\* The hooks are told what is stored.
HooksTold(r) ==
  /\ wpc[r] = "hooks" => status[r] \in Terminal
  /\ wpc[r] = "hooks" /\ faults = 0 => row[r] = status[r]
  /\ hook[r] # "none" /\ faults = 0 => row[r] = hook[r]
  /\ wpc[r] = "cleanup" /\ outcome[r] # "panic" => hook[r] # "none"
  /\ crashes = 0 /\ wpc[r] = "gone" /\ outcome[r] # "panic" => hook[r] # "none"

OutcomeInv ==
  /\ LockStays /\ OffsetsBehind /\ LogOrdered
  /\ faults = 0 => \A r \in Runs : EndRecorded(r)
  /\ \A r \in Runs : HooksTold(r)

\* A step that takes or releases no lock and keeps everybody where he holds one.
LEMMA LockHolders ==
  ASSUME LockStays, TypeOK,
         \A p \in Submitters : spc'[p] \in Submitting =>
           spc[p] \in Submitting /\ srun'[p] = srun[p] /\ mem'[Home[p]] = mem[Home[p]],
         \A r \in Runs : Executing(r)' =>
           Executing(r) /\ whome'[r] = whome[r] /\ mem'[whome[r]] = mem[whome[r]]
  PROVE  LockStays'
BY DEF LockStays

\* A submitter takes the free lock and hands it to its worker.
LEMMA SubmitLock ==
  ASSUME Base, OneOwner, LockStays, NEW p \in Submitters, SubmitStep(p)
  PROVE  LockStays'
<1>1. TypeOK /\ LockInv /\ \A q \in Submitters : Home[q] \in Instances
  BY HomeAssumption DEF Base, TableInv, Clients
<1> USE DEF Submitting, Goto, Return, SubmitterAt
<1>2. CASE RegisterRun(p)
  <2>1. /\ \A i \in Instances : mem'[i] = IF i = Home[p] THEN srun[p] ELSE mem[i]
        /\ \A q \in Submitters : q # p => spc'[q] = spc[q]
        /\ UNCHANGED <<srun, wpc, whome>> /\ spc[p] = "register"
    BY <1>1, <1>2 DEF RegisterRun, TypeOK, worker
  <2>2. mem[Home[p]] = NoRun
    BY <2>1, LockFree
  <2>3. \A q \in Submitters : spc[q] \in Submitting => srun[q] \in Runs
    BY <1>1 DEF LockInv, RunsInHand
  <2>4. \A q \in Submitters : spc[q] \in Submitting => Home[q] # Home[p]
    BY <2>2, <2>3, RunIsReal DEF LockStays
  <2>5. \A r \in Runs : Executing(r) => whome[r] # Home[p] /\ whome[r] \in Instances
    BY <1>1, <2>2, RunIsReal DEF LockStays, TypeOK
  <2>6. QED
    BY <1>1, <2>1, <2>4, <2>5 DEF LockStays, Executing
<1>3. CASE LaunchWorker(p)
  <2>1. /\ mem' = mem /\ spc[p] = "launch" /\ srun[p] \in Runs /\ whome'[srun[p]] = Home[p]
        /\ \A r \in Runs : r # srun[p] => wpc'[r] = wpc[r] /\ whome'[r] = whome[r]
        /\ \A q \in Submitters : spc'[q] \in Submitting => spc[q] \in Submitting
                   /\ srun'[q] = srun[q]
    BY <1>1, <1>3 DEF LaunchWorker, TypeOK, runtime, LockInv, RunsInHand
  <2>2. mem[Home[p]] = srun[p]
    BY <2>1 DEF LockStays
  <2>3. \A r \in Runs : r # srun[p] /\ Executing(r)' => Executing(r)
    BY <2>1 DEF Executing
  <2>4. QED
    BY <2>1, <2>2, <2>3 DEF LockStays
<1>4. CASE ~RegisterRun(p) /\ ~LaunchWorker(p)
  <2>1. /\ UNCHANGED <<mem, wpc, whome>>
        /\ \A q \in Submitters : spc'[q] \in Submitting => spc[q] \in Submitting
                   /\ srun'[q] = srun[q]
    <3>1. CASE GetSession(p) \/ CheckMemory(p) \/ CheckStore(p) \/ NextRunSeq(p)
      BY <1>1, <3>1 DEF GetSession, CheckMemory, CheckStore, NextRunSeq, runtime, worker, TypeOK
    <3>2. CASE CreateRun(p) \/ MarkRunning(p)
      BY <1>1, <3>2 DEF CreateRun, MarkRunning, runtime, worker, TypeOK
    <3>3. CASE InstallWorker(p) \/ RegisterCancel(p) \/ AppendRunning(p) \/ AppendUser(p)
      BY <1>1, <3>3 DEF InstallWorker, RegisterCancel, AppendRunning, AppendUser, worker, TypeOK
    <3>4. QED
      BY <1>4, <3>1, <3>2, <3>3 DEF SubmitStep
  <2>2. QED
    BY <1>1, <2>1, LockHolders DEF Executing
<1>5. QED
  BY <1>2, <1>3, <1>4

\* A worker releases no lock but its own, when it completes.
LEMMA WorkerLock ==
  ASSUME Base, OneOwner, LockStays, NEW w \in Runs, WorkerStep(w)
  PROVE  LockStays'
<1>1. TypeOK /\ UNCHANGED <<spc, srun, whome>> /\ \A r \in Runs : r # w => wpc'[r] = wpc[r]
  <2>1. TypeOK /\ UNCHANGED <<spc, srun, cpc, crun>>
    BY WorkerStepFrame DEF Base
  <2>2. QED
    BY <2>1 DEF WorkerStep, LoopEnds, LoopPanics, EmitDone, EmitError, EmitCancelled, PanicAppend,
              DetermineStatus, Compensate, CompensateRetry, Complete, StoreStatus, FireHooks,
              Cleanup, WGoto, TypeOK
<1>2. CASE Complete(w)
  <2>1. /\ wpc[w] = "complete" /\ ~Executing(w)'
        /\ \A i \in Instances : mem'[i] = mem[i] \/ mem[i] = w
    BY <1>1, <1>2 DEF Complete, WorkerAt, WGoto, AfterSettle, ReleaseLock, ReleasesLock, TypeOK,
         Executing
  <2>2. \A p \in Submitters : spc[p] \in Submitting => srun[p] # w /\ Home[p] \in Instances
    BY <2>1, HomeAssumption DEF OneOwner, Owns, Clients
  <2>3. \A r \in Runs : Executing(r)' => r # w /\ Executing(r) /\ whome[r] \in Instances
    BY <1>1, <2>1 DEF Executing, TypeOK
  <2>4. QED
    BY <1>1, <2>1, <2>2, <2>3, LockHolders DEF LockStays
<1>3. CASE ~Complete(w)
  <2>1. mem' = mem /\ (Executing(w)' => Executing(w))
    BY <1>1, <1>3 DEF WorkerStep, LoopEnds, LoopPanics, EmitDone, EmitError, EmitCancelled,
              PanicAppend, DetermineStatus, Compensate, CompensateRetry, StoreStatus, FireHooks,
              Cleanup, AfterSettle, WorkerAt, WGoto, TypeOK, Executing, runtime
  <2>2. \A r \in Runs : Executing(r)' => Executing(r)
    BY <1>1, <2>1 DEF Executing
  <2>3. QED
    BY <1>1, <2>1, <2>2, LockHolders
<1>4. QED
  BY <1>2, <1>3

\* Every step.
LEMMA LockStaysStep ==
  ASSUME Cancellers = {}, Base, OneOwner, LockStays, [Next]_vars
  PROVE  LockStays'
<1>1. TypeOK
  BY DEF Base
<1>2. CASE \E p \in Submitters : SubmitStep(p)
  BY <1>2, SubmitLock
<1>3. CASE \E r \in Runs : WorkerStep(r)
  BY <1>3, WorkerLock
<1>4. ASSUME NEW i \in Instances, Crash(i)
      PROVE  LockStays'
  <2>1. \A p \in Submitters : spc'[p] \in Submitting =>
          spc[p] \in Submitting /\ srun'[p] = srun[p] /\ Home[p] \in Instances /\ Home[p] # i
    BY <1>1, <1>4, HomeAssumption DEF Crash, TypeOK, Submitting, Clients
  <2>2. \A r \in Runs : Executing(r)' =>
          Executing(r) /\ whome'[r] = whome[r] /\ whome[r] \in Instances /\ whome[r] # i
    BY <1>1, <1>4 DEF Crash, TypeOK, Executing
  <2>3. \A j \in Instances : j # i => mem'[j] = mem[j]
    BY <1>1, <1>4 DEF Crash, TypeOK
  <2>4. QED
    BY <1>1, <2>1, <2>2, <2>3, LockHolders
<1>5. CASE \/ \E d \in Deleters : DeleteCancel(d) \/ DeleteSessionForUser(d)
           \/ \E i \in Instances : RegistryCancel(i) \/ Restart(i)
           \/ UNCHANGED vars
  <2>1. UNCHANGED <<mem, spc, srun, wpc, whome>>
    BY <1>5 DEF DeleteCancel, DeleteSessionForUser, RegistryCancel, Restart, vars, runtime,
         submitter,
                worker
  <2>2. QED
    BY <1>1, <2>1, LockHolders DEF Executing
<1>6. QED
  BY <1>2, <1>3, <1>4, <1>5 DEF Next

\* One more event at the end of r's log, or none.
NewEvent(i, kind) == [off |-> memOff[i] + 1, kind |-> kind]

Extends(i, r, kind) ==
  /\ \A q \in Runs : q # r => log'[q] = log[q]
  /\ \A j \in Instances : j # i => memOff'[j] = memOff[j]
  /\ memOff'[i] \in {memOff[i], memOff[i] + 1}
  /\ \A e \in log[r] : e \in log'[r]
  /\ \A e \in log'[r] :
       e \in log[r] \/ (e = NewEvent(i, kind) /\ memOff'[i] = memOff[i] + 1)

\* AppendEvent by the holder of the lock: the offset is fresh, so only a failed
\* statement keeps the event out of the log.
LEMMA AppendExtends ==
  ASSUME TypeOK, OffsetsBehind, NEW i \in Instances, NEW r \in Runs, mem[i] = r,
         NEW kind \in Kinds, NEW ok \in BOOLEAN, AppendEvent(i, r, kind, ok)
  PROVE  /\ Extends(i, r, kind)
         /\ ok => NewEvent(i, kind) \in log'[r]
         /\ faults' = 0 => ok /\ faults = 0
<1>1. mem[i] # NoRun /\ memOff[i] \in Nat /\ log \in [Runs -> SUBSET [off : Nat, kind : Kinds]]
  BY RunIsReal DEF TypeOK
<1>2. NextOffset(i, r) = {memOff[i] + 1}
  BY <1>1 DEF NextOffset
<1>3. memOff[i] + 1 \notin Offsets(r)
  <2>1. \A e \in log[r] : e.off <= memOff[i] /\ e.off \in Nat
    BY <1>1 DEF OffsetsBehind
  <2>2. \A e \in log[r] : e.off # memOff[i] + 1
    BY <1>1, <2>1
  <2>3. QED
    BY <2>2 DEF Offsets
<1>4. /\ memOff' = [memOff EXCEPT ![i] = memOff[i] + 1]
      /\ \/ ok /\ log' = Inserted(r, memOff[i] + 1, kind) /\ StatementOK
         \/ ~ok /\ StatementFails /\ (log' = log \/ log' = Inserted(r, memOff[i] + 1, kind))
  BY <1>1, <1>2, <1>3 DEF AppendEvent
<1>5. memOff'[i] = memOff[i] + 1 /\ \A j \in Instances : j # i => memOff'[j] = memOff[j]
  BY <1>4 DEF TypeOK
<1>6. ASSUME log' = Inserted(r, memOff[i] + 1, kind)
      PROVE  /\ \A q \in Runs : q # r => log'[q] = log[q]
             /\ log'[r] = log[r] \cup {NewEvent(i, kind)}
  BY <1>1, <1>6 DEF Inserted, NewEvent
<1>7. Extends(i, r, kind)
  BY <1>4, <1>5, <1>6 DEF Extends
<1>8. faults' = 0 => ~StatementFails /\ (StatementOK => faults = 0)
  BY BoundsAssumption DEF TypeOK, StatementFails, StatementOK
<1>9. QED
  BY <1>4, <1>6, <1>7, <1>8

\* A submitter's append on the run's own context.
LEMMA SubmitExtends ==
  ASSUME TypeOK, OffsetsBehind, NEW i \in Instances, NEW r \in Runs, mem[i] = r,
         NEW kind \in Kinds, AppendOnRunContext(i, r, kind)
  PROVE  Extends(i, r, kind) /\ (faults' = 0 => faults = 0)
<1>1. CASE ctxDone[r]
  <2>1. memOff' = [memOff EXCEPT ![i] = memOff[i] + 1] /\ UNCHANGED <<log, faults>>
    BY <1>1, RunIsReal DEF AppendOnRunContext
  <2>2. QED
    BY <2>1 DEF Extends, TypeOK
<1>2. CASE ~ctxDone[r]
  <2>1. PICK ok \in BOOLEAN : AppendEvent(i, r, kind, ok)
    BY <1>2 DEF AppendOnRunContext
  <2>2. QED
    BY <2>1, AppendExtends
<1>3. QED
  BY <1>1, <1>2

\* The emitter drops the event of a cancelled context; otherwise it lands.
LEMMA EmitLogged ==
  ASSUME TypeOK, OffsetsBehind, NEW r \in Runs, mem[whome[r]] = r,
         NEW kind \in Kinds, EmitGuarded(r, kind)
  PROVE  /\ Extends(whome[r], r, kind)
         /\ faults' = 0 => faults = 0 /\ (ctxDone[r] \/ NewEvent(whome[r], kind) \in log'[r])
<1>1. CASE ctxDone[r]
  BY <1>1 DEF EmitGuarded, Extends
<1>2. CASE ~ctxDone[r]
  <2>1. whome[r] \in Instances
    BY DEF TypeOK
  <2>2. PICK ok \in BOOLEAN : AppendEvent(whome[r], r, kind, ok)
    BY <1>2 DEF EmitGuarded
  <2>3. QED
    BY <2>1, <2>2, AppendExtends
<1>3. QED
  BY <1>1, <1>2

\* The counter stays past the offsets.
LEMMA ExtendsBehind ==
  ASSUME Base, OffsetsBehind, NEW i \in Instances, NEW r \in Runs, mem[i] = r,
         NEW kind \in Kinds, Extends(i, r, kind), UNCHANGED <<row, mem>>,
         \A p \in Submitters : Starting(p)' => Starting(p) /\ srun'[p] = srun[p]
  PROVE  OffsetsBehind'
<1>1. TypeOK /\ LockInv
  BY DEF Base, TableInv
<1>2. row[r] # "none"
  BY <1>1, RunIsReal DEF LockInv, TokenHoldersAreActive
<1>3. \A q \in Runs : row'[q] = "none" => log'[q] = {}
  BY <1>2 DEF OffsetsBehind, Extends
<1>4. \A p \in Submitters : Starting(p)' => log'[srun'[p]] = {}
  <2>1. \A p \in Submitters : Starting(p) => srun[p] \in Runs /\ srun[p] # r
    BY <1>1 DEF LockInv, RunsInHand, OneTokenPerRun, Starting
  <2>2. QED
    BY <2>1 DEF OffsetsBehind, Extends
<1>5. ASSUME NEW j \in Instances, mem[j] # NoRun, NEW e \in log'[mem[j]]
      PROVE  e.off <= memOff'[j]
  <2>1. CASE j = i
    <3>1. memOff[i] \in Nat /\ \A f \in log[r] : f.off \in Nat /\ f.off <= memOff[i]
      BY <1>1, RunIsReal DEF TypeOK, OffsetsBehind
    <3>2. CASE e \in log[r]
      <4>1. e.off <= memOff[i] /\ e.off \in Nat /\ memOff'[i] \in {memOff[i], memOff[i] + 1}
        BY <3>1, <3>2 DEF Extends
      <4>2. QED
        BY <2>1, <3>1, <4>1
    <3>3. CASE e = NewEvent(i, kind) /\ memOff'[i] = memOff[i] + 1
      <4>1. e.off = memOff[i] + 1
        BY <3>3 DEF NewEvent
      <4>2. QED
        BY <2>1, <3>1, <3>3, <4>1
    <3>4. QED
      BY <1>5, <2>1, <3>2, <3>3 DEF Extends
  <2>2. CASE j # i
    <3>1. mem[j] # r /\ mem[j] \in Runs
      BY <1>1, <1>5, <2>2, RunIsReal DEF LockInv, OneTokenPerRun, TypeOK
    <3>2. QED
      BY <1>5, <2>2, <3>1 DEF Extends, OffsetsBehind
  <2>3. QED
    BY <2>1, <2>2
<1>6. QED
  BY <1>3, <1>4, <1>5 DEF OffsetsBehind

\* A step that leaves the logs and the counters of the held locks alone.
LEMMA QuietBehind ==
  ASSUME Base, OffsetsBehind, log' = log,
         \A r \in Runs : row[r] # "none" => row'[r] # "none",
         \A i \in Instances : mem'[i] # NoRun => mem'[i] = mem[i] /\ memOff'[i] = memOff[i],
         \A p \in Submitters : Starting(p)' =>
           srun'[p] = srun[p] /\ (Starting(p) \/ (srun[p] \in Runs /\ row[srun[p]] = "none"))
  PROVE  OffsetsBehind'
BY DEF OffsetsBehind

\* Submit: the log of a new run is empty, and RegisterRun starts its counter.
LEMMA SubmitBehind ==
  ASSUME Base, LockStays, OffsetsBehind, NEW p \in Submitters, SubmitStep(p)
  PROVE  OffsetsBehind'
<1>1. TypeOK /\ LockInv /\ Home[p] \in Instances
           /\ \A r \in Runs : row[r] # "none" => row'[r] # "none"
  <2>1. [Next]_vars
    BY DEF Next
  <2>2. QED
    BY <2>1, RowsStay, HomeAssumption DEF Base, TableInv, Clients
<1> USE DEF Goto, Return, SubmitterAt, Starting
<1>2. CASE CreateRun(p)
  <2>1. UNCHANGED <<log, mem, memOff>>
    BY <1>2 DEF CreateRun, runtime
  <2>2. \A q \in Submitters : Starting(q)' =>
          srun'[q] = srun[q] /\ (Starting(q) \/ (srun[q] \in Runs /\ row[srun[q]] = "none"))
    BY <1>1, <1>2 DEF CreateRun, CreateConflict, TypeOK, LockInv, RunsInHand
  <2>3. QED
    BY <1>1, <2>1, <2>2, QuietBehind
<1>3. CASE RegisterRun(p)
  <2>1. /\ UNCHANGED <<row, log, srun>> /\ spc[p] = "register"
        /\ \A i \in Instances : mem'[i] = IF i = Home[p] THEN srun[p] ELSE mem[i]
        /\ \A i \in Instances : memOff'[i] = IF i = Home[p] THEN 0 ELSE memOff[i]
        /\ \A q \in Submitters : q # p => spc'[q] = spc[q]
        /\ spc'[p] = "install"
    BY <1>1, <1>3 DEF RegisterRun, durable, TypeOK
  <2>2. log[srun[p]] = {}
    BY <2>1 DEF OffsetsBehind
  <2>3. \A q \in Submitters : Starting(q)' => Starting(q)
    BY <2>1
  <2>4. QED
    BY <2>1, <2>2, <2>3 DEF OffsetsBehind
<1>4. CASE AppendRunning(p) \/ AppendUser(p)
  <2>1. /\ UNCHANGED <<row, mem, srun>> /\ srun[p] \in Runs /\ spc[p] \in Submitting
        /\ \A q \in Submitters : Starting(q)' => Starting(q)
    <3>1. CASE AppendRunning(p)
      BY <1>1, <3>1 DEF AppendRunning, TypeOK, LockInv, RunsInHand, Submitting
    <3>2. CASE AppendUser(p)
      BY <1>1, <3>2 DEF AppendUser, TypeOK, LockInv, RunsInHand, Submitting
    <3>3. QED
      BY <1>4, <3>1, <3>2
  <2>2. mem[Home[p]] = srun[p]
    BY <2>1 DEF LockStays
  <2>3. PICK kind \in {"running", "user"} : AppendOnRunContext(Home[p], srun[p], kind)
    BY <1>4 DEF AppendRunning, AppendUser
  <2>4. kind \in Kinds
    BY <2>3 DEF Kinds
  <2>5. QED
    BY <1>1, <2>1, <2>2, <2>3, <2>4, SubmitExtends, ExtendsBehind
<1>5. CASE MarkRunning(p)
  <2>1. UNCHANGED <<log, mem, memOff>>
    BY <1>5 DEF MarkRunning, runtime
  <2>2. \A q \in Submitters : Starting(q)' => srun'[q] = srun[q] /\ Starting(q)
    BY <1>1, <1>5 DEF MarkRunning, TypeOK
  <2>3. QED
    BY <1>1, <2>1, <2>2, QuietBehind
<1>6. CASE GetSession(p) \/ CheckMemory(p) \/ CheckStore(p) \/ NextRunSeq(p)
  <2>1. UNCHANGED <<log, mem, memOff>>
    BY <1>6 DEF GetSession, CheckMemory, CheckStore, NextRunSeq, runtime, durable
  <2>2. \A q \in Submitters : Starting(q)' => srun'[q] = srun[q] /\ Starting(q)
    BY <1>1, <1>6 DEF GetSession, CheckMemory, CheckStore, NextRunSeq, TypeOK
  <2>3. QED
    BY <1>1, <2>1, <2>2, QuietBehind
<1>7. CASE InstallWorker(p) \/ RegisterCancel(p) \/ LaunchWorker(p)
  <2>1. UNCHANGED <<log, mem, memOff>>
    BY <1>7 DEF InstallWorker, RegisterCancel, LaunchWorker, runtime, durable
  <2>2. \A q \in Submitters : Starting(q)' => srun'[q] = srun[q] /\ Starting(q)
    BY <1>1, <1>7 DEF InstallWorker, RegisterCancel, LaunchWorker, TypeOK
  <2>3. QED
    BY <1>1, <2>1, <2>2, QuietBehind
<1>8. QED
  BY <1>2, <1>3, <1>4, <1>5, <1>6, <1>7 DEF SubmitStep

\* The kind a worker's step appends.
EmitsKind(w, kind) ==
  \/ EmitDone(w) /\ kind = "done"
  \/ EmitError(w) /\ kind = "error"
  \/ PanicAppend(w) /\ kind = "error"
  \/ (EmitCancelled(w) \/ Compensate(w) \/ CompensateRetry(w)) /\ kind = "cancelled"

\* A worker's event goes to the end of its own log.
LEMMA WorkerExtends ==
  ASSUME Base, LockStays, OffsetsBehind, NEW w \in Runs, NEW kind \in TerminalKinds,
         EmitsKind(w, kind)
  PROVE  /\ mem[whome[w]] = w /\ UNCHANGED <<row, mem>> /\ kind \in Kinds
         /\ Extends(whome[w], w, kind)
<1>1. TypeOK /\ kind \in Kinds
  BY DEF Base, Kinds
<1>2. Executing(w) /\ UNCHANGED <<row, mem>>
  BY DEF EmitsKind, EmitDone, EmitError, PanicAppend, EmitCancelled, Compensate, CompensateRetry,
         WorkerAt, Executing
<1>3. mem[whome[w]] = w /\ whome[w] \in Instances
  BY <1>1, <1>2 DEF LockStays, TypeOK
<1>4. CASE EmitDone(w) \/ EmitError(w)
  <2>1. EmitGuarded(w, kind)
    BY <1>4 DEF EmitsKind, EmitDone, EmitError, PanicAppend, EmitCancelled, Compensate,
                CompensateRetry, WorkerAt
  <2>2. QED
    BY <1>1, <1>2, <1>3, <2>1, EmitLogged
<1>5. CASE PanicAppend(w) \/ EmitCancelled(w) \/ Compensate(w) \/ CompensateRetry(w)
  <2>1. \E ok \in BOOLEAN : AppendEvent(whome[w], w, kind, ok)
    BY <1>5 DEF EmitsKind, EmitDone, EmitError, PanicAppend, EmitCancelled, Compensate,
                CompensateRetry, WorkerAt
  <2>2. QED
    BY <1>1, <1>2, <1>3, <2>1, AppendExtends
<1>6. QED
  BY <1>4, <1>5 DEF EmitsKind

\* The other steps of a worker append nothing.
LEMMA WorkerSilent ==
  ASSUME NEW w \in Runs, WorkerStep(w), \A kind \in TerminalKinds : ~EmitsKind(w, kind)
  PROVE  UNCHANGED <<log, memOff>>
BY DEF EmitsKind, TerminalKinds, WorkerStep, LoopEnds, LoopPanics, DetermineStatus, Complete,
       StoreStatus, FireHooks, Cleanup, durable, runtime

\* A worker appends at the end of its own log.
LEMMA WorkerBehind ==
  ASSUME Base, LockStays, OffsetsBehind, NEW w \in Runs, WorkerStep(w)
  PROVE  OffsetsBehind'
<1>1. TypeOK /\ UNCHANGED <<spc, srun>> /\ \A r \in Runs : row[r] # "none" => row'[r] # "none"
  <2>1. [Next]_vars
    BY DEF Next
  <2>2. UNCHANGED <<spc, srun, cpc, crun>>
    BY WorkerStepFrame
  <2>3. QED
    BY <2>1, <2>2, RowsStay DEF Base
<1>2. ASSUME NEW kind \in TerminalKinds, EmitsKind(w, kind)
      PROVE  OffsetsBehind'
  <2>1. whome[w] \in Instances
    BY <1>1 DEF TypeOK
  <2>2. QED
    BY <1>1, <1>2, <2>1, WorkerExtends, ExtendsBehind DEF Starting
<1>3. ASSUME \A kind \in TerminalKinds : ~EmitsKind(w, kind)
      PROVE  OffsetsBehind'
  <2>1. UNCHANGED <<log, memOff>>
    BY <1>3, WorkerSilent
  <2>2. \A i \in Instances : mem'[i] # NoRun => mem'[i] = mem[i]
    BY <1>1 DEF WorkerStep, LoopEnds, LoopPanics, EmitDone, EmitError, EmitCancelled, PanicAppend,
                DetermineStatus, Compensate, CompensateRetry, Complete, ReleaseLock, StoreStatus,
                FireHooks, Cleanup, TypeOK, runtime
  <2>3. QED
    BY <1>1, <2>1, <2>2, QuietBehind DEF Starting
<1>4. QED
  BY <1>2, <1>3

\* Every step.
LEMMA BehindStep ==
  ASSUME Cancellers = {}, Base, LockStays, OffsetsBehind, [Next]_vars
  PROVE  OffsetsBehind'
<1>1. TypeOK /\ \A r \in Runs : row[r] # "none" => row'[r] # "none"
  BY RowsStay DEF Base
<1>2. CASE \E p \in Submitters : SubmitStep(p)
  BY <1>2, SubmitBehind
<1>3. CASE \E r \in Runs : WorkerStep(r)
  BY <1>3, WorkerBehind
<1>4. ASSUME NEW i \in Instances, Crash(i)
      PROVE  OffsetsBehind'
  <2>1. log' = log /\ \A j \in Instances : mem'[j] # NoRun => mem'[j] = mem[j]
             /\ memOff'[j] = memOff[j]
    BY <1>1, <1>4 DEF Crash, TypeOK, durable
  <2>2. \A p \in Submitters : Starting(p)' => Starting(p) /\ srun'[p] = srun[p]
    BY <1>1, <1>4 DEF Crash, TypeOK, Starting
  <2>3. QED
    BY <1>1, <2>1, <2>2, QuietBehind
<1>5. CASE \/ \E d \in Deleters : DeleteCancel(d) \/ DeleteSessionForUser(d)
           \/ \E i \in Instances : RegistryCancel(i) \/ Restart(i)
           \/ UNCHANGED vars
  <2>1. UNCHANGED <<log, mem, memOff, spc, srun>>
    BY <1>5 DEF DeleteCancel, DeleteSessionForUser, RegistryCancel, Restart, vars, runtime,
         submitter,
                durable
  <2>2. QED
    BY <1>1, <2>1, QuietBehind DEF Starting
<1>6. QED
  BY <1>2, <1>3, <1>4, <1>5 DEF Next

\* A step that appends nothing and brings no worker back before its terminal event.
LEMMA QuietOrdered ==
  ASSUME LogOrdered, log' = log, \A r \in Runs : wpc'[r] \in Before => wpc[r] \in Before
  PROVE  LogOrdered'
BY DEF LogOrdered, Before

\* Running and user events precede the worker.
LEMMA SubmitOrdered ==
  ASSUME Base, OneOwner, LockStays, OffsetsBehind, LogOrdered, NEW p \in Submitters, SubmitStep(p)
  PROVE  LogOrdered'
<1>1. TypeOK /\ LockInv
  BY DEF Base, TableInv
<1>2. CASE AppendRunning(p) \/ AppendUser(p)
  <2>1. wpc' = wpc /\ srun[p] \in Runs /\ spc[p] \in Submitting
    BY <1>1, <1>2 DEF AppendRunning, AppendUser, SubmitterAt, LockInv, RunsInHand, Submitting,
         worker
  <2>2. mem[Home[p]] = srun[p] /\ Home[p] \in Instances
    BY <2>1, HomeAssumption DEF LockStays, Clients
  <2>3. PICK kind \in {"running", "user"} : AppendOnRunContext(Home[p], srun[p], kind)
    BY <1>2 DEF AppendRunning, AppendUser
  <2>4. kind \in Kinds /\ kind \notin TerminalKinds
    BY <2>3 DEF Kinds, TerminalKinds
  <2>5. Extends(Home[p], srun[p], kind)
    BY <1>1, <2>1, <2>2, <2>3, <2>4, SubmitExtends
  <2>6. \A e \in log[srun[p]] : e.kind \notin TerminalKinds
    BY <2>1 DEF OneOwner, Owns, LogOrdered, Before
  <2>7. \A e \in log'[srun[p]] : e.kind \notin TerminalKinds
    BY <2>4, <2>5, <2>6 DEF Extends, NewEvent
  <2>8. \A r \in Runs : r # srun[p] => log'[r] = log[r]
    BY <2>5 DEF Extends
  <2>9. \A r \in Runs : wpc'[r] \in Before => \A e \in log'[r] : e.kind \notin TerminalKinds
    BY <2>1, <2>7, <2>8 DEF LogOrdered, Before
  <2>10. \A r \in Runs : \A e, f \in log'[r] :
           e.kind \in TerminalKinds /\ f.kind \notin TerminalKinds => f.off < e.off
    BY <2>7, <2>8 DEF LogOrdered
  <2>11. QED
    BY <2>9, <2>10 DEF LogOrdered, Before
<1>3. CASE LaunchWorker(p)
  <2>1. log' = log /\ spc[p] = "launch" /\ srun[p] \in Runs
        /\ \A r \in Runs : r # srun[p] => wpc'[r] = wpc[r]
    BY <1>1, <1>3 DEF LaunchWorker, SubmitterAt, durable, TypeOK, LockInv, RunsInHand
  <2>2. wpc[srun[p]] = "none"
    BY <2>1 DEF OneOwner, Owns, Submitting
  <2>3. QED
    BY <2>1, <2>2, QuietOrdered DEF Before
<1>4. CASE ~AppendRunning(p) /\ ~AppendUser(p) /\ ~LaunchWorker(p)
  <2>1. UNCHANGED <<log, wpc>>
    BY <1>4 DEF SubmitStep, GetSession, CheckMemory, CheckStore, NextRunSeq, CreateRun, MarkRunning,
                RegisterRun, InstallWorker, RegisterCancel, durable, worker
  <2>2. QED
    BY <2>1, QuietOrdered
<1>5. QED
  BY <1>2, <1>3, <1>4

\* The worker's event is behind the counter, hence after all others.
LEMMA WorkerOrdered ==
  ASSUME Base, LockStays, OffsetsBehind, LogOrdered, NEW w \in Runs, WorkerStep(w)
  PROVE  LogOrdered'
<1>1. TypeOK /\ \A r \in Runs : r # w => wpc'[r] = wpc[r]
  BY DEF Base, WorkerStep, LoopEnds, LoopPanics, EmitDone, EmitError, EmitCancelled, PanicAppend,
         DetermineStatus, Compensate, CompensateRetry, Complete, StoreStatus, FireHooks,
         Cleanup, WGoto, TypeOK
<1>2. ASSUME NEW kind \in TerminalKinds, EmitsKind(w, kind)
      PROVE  LogOrdered'
  <2>1. /\ mem[whome[w]] = w /\ whome[w] \in Instances /\ Extends(whome[w], w, kind)
        /\ w # NoRun
    BY <1>1, <1>2, WorkerExtends, RunIsReal DEF TypeOK
  <2>2. \A f \in log[w] : f.off \in Nat /\ f.off <= memOff[whome[w]] /\ memOff[whome[w]] \in Nat
    BY <1>1, <2>1 DEF OffsetsBehind, TypeOK
  <2>3. wpc'[w] \notin Before
    BY <1>1, <1>2 DEF EmitsKind, EmitDone, EmitError, PanicAppend, EmitCancelled, Compensate,
                      CompensateRetry, WGoto, TypeOK, Before
  <2>4. ASSUME NEW e \in log'[w], NEW f \in log'[w], e.kind \in TerminalKinds,
               f.kind \notin TerminalKinds
        PROVE  f.off < e.off
    <3>1. f \in log[w]
      BY <2>1, <2>4 DEF Extends, NewEvent
    <3>2. CASE e \in log[w]
      BY <2>4, <3>1, <3>2 DEF LogOrdered
    <3>3. CASE e = NewEvent(whome[w], kind)
      <4>1. e.off = memOff[whome[w]] + 1
        BY <3>3 DEF NewEvent
      <4>2. QED
        BY <2>2, <3>1, <4>1
    <3>4. QED
      BY <2>1, <3>2, <3>3 DEF Extends
  <2>5. \A r \in Runs : r # w => log'[r] = log[r]
    BY <2>1 DEF Extends
  <2>6. \A r \in Runs : wpc'[r] \in Before => \A e \in log'[r] : e.kind \notin TerminalKinds
    BY <1>1, <2>3, <2>5 DEF LogOrdered, Before
  <2>7. \A r \in Runs : \A e, f \in log'[r] :
          e.kind \in TerminalKinds /\ f.kind \notin TerminalKinds => f.off < e.off
    BY <2>4, <2>5 DEF LogOrdered
  <2>8. QED
    BY <2>6, <2>7 DEF LogOrdered, Before
<1>3. ASSUME \A kind \in TerminalKinds : ~EmitsKind(w, kind)
      PROVE  LogOrdered'
  <2>1. log' = log
    BY <1>3, WorkerSilent
  <2>2. wpc'[w] \in Before => wpc[w] \in Before
    BY <1>1 DEF WorkerStep, LoopEnds, LoopPanics, EmitDone, EmitError, EmitCancelled, PanicAppend,
         DetermineStatus, Compensate, CompensateRetry, Complete, StoreStatus, FireHooks,
         AfterSettle,
         Cleanup, WorkerAt, WGoto, TypeOK, Before
  <2>3. QED
    BY <1>1, <2>1, <2>2, QuietOrdered
<1>4. QED
  BY <1>2, <1>3

\* Every step.
LEMMA OrderedStep ==
  ASSUME Cancellers = {}, Base, OneOwner, LockStays, OffsetsBehind, LogOrdered, [Next]_vars
  PROVE  LogOrdered'
<1>1. CASE \E p \in Submitters : SubmitStep(p)
  BY <1>1, SubmitOrdered
<1>2. CASE \E r \in Runs : WorkerStep(r)
  BY <1>2, WorkerOrdered
<1>3. ASSUME NEW i \in Instances, Crash(i)
      PROVE  LogOrdered'
  BY <1>3, QuietOrdered DEF Crash, Base, TypeOK, durable, Before
<1>4. CASE \/ \E d \in Deleters : DeleteCancel(d) \/ DeleteSessionForUser(d)
           \/ \E i \in Instances : RegistryCancel(i) \/ Restart(i)
           \/ UNCHANGED vars
  <2>1. UNCHANGED <<log, wpc>>
    BY <1>4 DEF DeleteCancel, DeleteSessionForUser, RegistryCancel, Restart, vars, durable, worker
  <2>2. QED
    BY <2>1, QuietOrdered
<1>5. QED
  BY <1>1, <1>2, <1>3, <1>4 DEF Next

-----------------------------------------------------------------------------
(* How a worker records the end of its run.                                *)

\* A step of somebody else, seen from run r.
Bystander(r) ==
  /\ wpc'[r] = wpc[r] /\ outcome'[r] = outcome[r] /\ landed'[r] = landed[r]
  /\ status'[r] = status[r] /\ hook'[r] = hook[r]
  /\ ctxDone[r] => ctxDone'[r]
  /\ row[r] \in {"running", "failed"} => row'[r] \in {"running", "failed"}

\* Its log gains no terminal event.
NoNewEnd(r) ==
  /\ \A e \in log[r] : e \in log'[r]
  /\ \A e \in log'[r] : e \in log[r] \/ e.kind \notin TerminalKinds

\* It takes nothing back.
LEMMA BystanderEnd ==
  ASSUME NEW r \in Runs, EndRecorded(r), Bystander(r), NoNewEnd(r)
  PROVE  EndRecorded(r)'
<1>1. \A kind \in TerminalKinds : Logged(r, kind) <=> Logged(r, kind)'
  BY DEF Logged, NoNewEnd
<1>2. KindOf(status[r]) \in TerminalKinds /\ status'[r] = status[r]
  BY DEF KindOf, TerminalKinds, Bystander
<1>3. Recorded(r) => Recorded(r)'
  BY <1>1, <1>2 DEF Recorded, Bystander
<1>4. \A e, f \in log'[r] : e.kind = "cancelled" /\ f.kind = "cancelled" => e = f
  BY DEF EndRecorded, NoNewEnd, TerminalKinds
<1>5. {"done", "error", "cancelled"} \subseteq TerminalKinds
  BY DEF TerminalKinds
<1>6. QED
  BY <1>1, <1>2, <1>3, <1>4, <1>5 DEF EndRecorded, Bystander

\* The status a worker computes is in the log, or the compensation is due.
LEMMA WorkerEnd ==
  ASSUME Base, LockStays, OffsetsBehind, LogOrdered, NEW w \in Runs, EndRecorded(w),
         WorkerStep(w), faults' = 0
  PROVE  EndRecorded(w)'
<1>1. TypeOK /\ whome[w] \in Instances
  BY DEF Base, TypeOK
<1>2. Executing(w) => mem[whome[w]] = w
  BY DEF LockStays
<1> USE DEF WorkerAt, WGoto, Before
<1>3. CASE LoopEnds(w) \/ LoopPanics(w)
  BY <1>1, <1>3 DEF LoopEnds, LoopPanics, EndRecorded, Logged, TypeOK, durable
<1>4. CASE EmitDone(w) \/ EmitError(w) \/ EmitCancelled(w)
  <2>1. Executing(w) /\ \A e \in log[w] : e.kind \notin TerminalKinds
    BY <1>4 DEF EmitDone, EmitError, EmitCancelled, Executing, LogOrdered
  <2>2. wpc'[w] = "returned" /\ UNCHANGED <<status, ctxDone>> /\ status[w] = "none"
    BY <1>1, <1>4 DEF EmitDone, EmitError, EmitCancelled, TypeOK, EndRecorded
  <2>3. PICK kind \in TerminalKinds : EmitsKind(w, kind)
    BY <1>4 DEF EmitsKind, TerminalKinds
  <2>4. Extends(whome[w], w, kind) /\ kind \in Kinds
    BY <2>3, WorkerExtends
  <2>5. \A e, f \in log'[w] : e.kind = "cancelled" /\ f.kind = "cancelled" => e = f
    BY <2>1, <2>4 DEF Extends, TerminalKinds
  <2>6. /\ outcome'[w] \in {"nil", "error"}
        /\ outcome'[w] = "nil" => Logged(w, "done")' \/ ctxDone[w]
        /\ outcome'[w] = "error" => Logged(w, "error")' \/ ctxDone[w]
        /\ landed'[w] <=> Logged(w, "cancelled")'
    <3>1. CASE EmitDone(w)
      <4>1. outcome'[w] = "nil" /\ landed' = landed /\ EmitGuarded(w, "done") /\ "done" \in Kinds
        BY <1>1, <3>1 DEF EmitDone, TypeOK, Kinds, TerminalKinds
      <4>2. Extends(whome[w], w, "done") /\ (ctxDone[w] \/ NewEvent(whome[w], "done") \in log'[w])
        BY <1>1, <1>2, <2>1, <4>1, EmitLogged
      <4>3. NewEvent(whome[w], "done").kind = "done"
        BY DEF NewEvent
      <4>4. ~Logged(w, "cancelled")'
        BY <2>1, <4>2, <4>3 DEF Extends, Logged, TerminalKinds
      <4>5. ~landed[w]
        BY <3>1 DEF EmitDone, EndRecorded
      <4>6. QED
        BY <4>1, <4>2, <4>3, <4>4, <4>5 DEF Logged
    <3>2. CASE EmitError(w)
      <4>1. outcome'[w] = "error" /\ landed' = landed /\ EmitGuarded(w, "error")
                 /\ "error" \in Kinds
        BY <1>1, <3>2 DEF EmitError, TypeOK, Kinds, TerminalKinds
      <4>2. Extends(whome[w], w, "error") /\ (ctxDone[w] \/ NewEvent(whome[w], "error") \in log'[w])
        BY <1>1, <1>2, <2>1, <4>1, EmitLogged
      <4>3. NewEvent(whome[w], "error").kind = "error"
        BY DEF NewEvent
      <4>4. ~Logged(w, "cancelled")'
        BY <2>1, <4>2, <4>3 DEF Extends, Logged, TerminalKinds
      <4>5. ~landed[w]
        BY <3>2 DEF EmitError, EndRecorded
      <4>6. QED
        BY <4>1, <4>2, <4>3, <4>4, <4>5 DEF Logged
    <3>3. CASE EmitCancelled(w)
      <4>1. outcome'[w] = "error" /\ ctxDone[w] /\ "cancelled" \in Kinds
        BY <1>1, <3>3 DEF EmitCancelled, EndRecorded, TypeOK, Kinds, TerminalKinds
      <4>2. PICK ok \in BOOLEAN : AppendEvent(whome[w], w, "cancelled", ok) /\ landed'[w] = ok
        BY <1>1, <3>3 DEF EmitCancelled, TypeOK
      <4>3. ok /\ NewEvent(whome[w], "cancelled") \in log'[w]
        BY <1>1, <1>2, <2>1, <4>1, <4>2, AppendExtends
      <4>4. NewEvent(whome[w], "cancelled").kind = "cancelled"
        BY DEF NewEvent
      <4>5. QED
        BY <4>1, <4>2, <4>3, <4>4 DEF Logged
    <3>4. QED
      BY <1>4, <3>1, <3>2, <3>3
  <2>7. QED
    BY <2>2, <2>5, <2>6 DEF EndRecorded
<1>5. CASE PanicAppend(w)
  <2>1. Executing(w) /\ \A e \in log[w] : e.kind \notin TerminalKinds
    BY <1>5 DEF PanicAppend, Executing, LogOrdered
  <2>2. wpc'[w] = "complete" /\ status'[w] = "failed"
    BY <1>1, <1>5 DEF PanicAppend, TypeOK
  <2>3. PICK ok \in BOOLEAN : AppendEvent(whome[w], w, "error", ok)
    BY <1>5 DEF PanicAppend
  <2>4. Extends(whome[w], w, "error") /\ NewEvent(whome[w], "error") \in log'[w]
    BY <1>1, <1>2, <2>1, <2>3, AppendExtends DEF Kinds, TerminalKinds
  <2>5. NewEvent(whome[w], "error").kind = "error"
    BY DEF NewEvent
  <2>6. Recorded(w)'
    BY <2>2, <2>4, <2>5 DEF Recorded, Logged, KindOf
  <2>7. \A e, f \in log'[w] : e.kind = "cancelled" /\ f.kind = "cancelled" => e = f
    BY <2>1, <2>4, <2>5 DEF Extends, TerminalKinds
  <2>8. QED
    BY <2>2, <2>6, <2>7 DEF EndRecorded
<1>6. CASE DetermineStatus(w)
  <2>1. /\ UNCHANGED <<log, ctxDone, outcome, landed>> /\ wpc[w] = "returned"
        /\ status'[w] = FinalStatus(w)
        /\ wpc'[w] = IF FinalStatus(w) = "cancelled" /\ ~landed[w] THEN "compensate" ELSE "complete"
    BY <1>1, <1>6 DEF DetermineStatus, TypeOK, durable
  <2>2. /\ outcome[w] \in {"nil", "error"}
        /\ outcome[w] = "nil" => Logged(w, "done") \/ ctxDone[w]
        /\ outcome[w] = "error" => Logged(w, "error") \/ ctxDone[w]
        /\ landed[w] <=> Logged(w, "cancelled")
        /\ \A e, f \in log[w] : e.kind = "cancelled" /\ f.kind = "cancelled" => e = f
    BY <2>1 DEF EndRecorded
  <2>3. CASE outcome[w] = "nil"
    BY <2>1, <2>2, <2>3 DEF FinalStatus, EndRecorded, Recorded, Logged, KindOf
  <2>4. CASE outcome[w] = "error" /\ ctxDone[w]
    BY <2>1, <2>2, <2>4 DEF FinalStatus, EndRecorded, Recorded, Logged, KindOf
  <2>5. CASE outcome[w] = "error" /\ ~ctxDone[w]
    BY <2>1, <2>2, <2>5 DEF FinalStatus, EndRecorded, Recorded, Logged, KindOf
  <2>6. QED
    BY <2>2, <2>3, <2>4, <2>5
<1>7. CASE Compensate(w)
  <2>1. /\ wpc[w] = "compensate" /\ status' = status /\ Executing(w)
        /\ status[w] = "cancelled" /\ ~Logged(w, "cancelled")
    BY <1>7 DEF Compensate, EndRecorded, Executing
  <2>2. PICK ok \in BOOLEAN : AppendEvent(whome[w], w, "cancelled", ok)
                              /\ wpc'[w] = IF ok THEN "complete" ELSE "retry"
    BY <1>1, <1>7 DEF Compensate, TypeOK
  <2>3. /\ Extends(whome[w], w, "cancelled") /\ ok
        /\ NewEvent(whome[w], "cancelled") \in log'[w]
    BY <1>1, <1>2, <2>1, <2>2, AppendExtends DEF Kinds, TerminalKinds
  <2>4. NewEvent(whome[w], "cancelled").kind = "cancelled"
    BY DEF NewEvent
  <2>5. \A e, f \in log'[w] : e.kind = "cancelled" /\ f.kind = "cancelled" => e = f
    BY <2>1, <2>3 DEF Extends, Logged
  <2>6. Recorded(w)'
    BY <2>1, <2>3, <2>4 DEF Recorded, Logged, KindOf
  <2>7. QED
    BY <2>1, <2>2, <2>3, <2>5, <2>6 DEF EndRecorded
<1>8. CASE CompensateRetry(w)
  BY <1>8 DEF CompensateRetry, EndRecorded
<1>9. CASE Complete(w) \/ StoreStatus(w) \/ FireHooks(w) \/ Cleanup(w)
  <2>1. /\ UNCHANGED <<log, ctxDone, status>>
        /\ wpc[w] \in {"complete", "store", "hooks", "cleanup"}
        /\ wpc'[w] \in {"store", "hooks", "cleanup", "gone"}
    BY <1>1, <1>9 DEF Complete, StoreStatus, FireHooks, Cleanup, AfterSettle, TypeOK, durable
  <2>2. Recorded(w)' /\ \A e, f \in log[w] : e.kind = "cancelled" /\ f.kind = "cancelled" => e = f
    BY <2>1 DEF EndRecorded, Recorded, Logged
  <2>3. QED
    BY <2>1, <2>2 DEF EndRecorded
<1>10. QED
  BY <1>3, <1>4, <1>5, <1>6, <1>7, <1>8, <1>9 DEF WorkerStep


\* A submitter creates and starts rows that have no worker, and hands its run over
\* with nothing settled.
LEMMA SubmitEnd ==
  ASSUME Base, OneOwner, LockStays, OffsetsBehind, NEW p \in Submitters, SubmitStep(p),
         NEW r \in Runs, EndRecorded(r)
  PROVE  EndRecorded(r)'
<1>1. TypeOK /\ LockInv
  BY DEF Base, TableInv
<1>2. CASE LaunchWorker(p) /\ r = srun[p]
  <2>1. /\ spc[p] = "launch" /\ wpc'[r] = "loop"
        /\ UNCHANGED <<log, outcome, landed, status>>
    BY <1>1, <1>2 DEF LaunchWorker, SubmitterAt, TypeOK, durable
  <2>2. wpc[r] = "none"
    BY <1>2, <2>1 DEF OneOwner, Owns, Submitting
  <2>3. QED
    BY <2>1, <2>2 DEF EndRecorded, Before
<1>3. CASE ~(LaunchWorker(p) /\ r = srun[p])
  <2>1. UNCHANGED <<outcome, landed, status, hook, ctxDone>> /\ wpc'[r] = wpc[r]
    BY <1>1, <1>3 DEF SubmitStep, GetSession, CheckMemory, CheckStore, NextRunSeq, CreateRun,
         MarkRunning, RegisterRun, InstallWorker, RegisterCancel, AppendRunning, AppendUser,
         LaunchWorker, worker, TypeOK
  <2>2. row[r] \in {"running", "failed"} => row'[r] \in {"running", "failed"}
    <3>1. CASE CreateRun(p) \/ MarkRunning(p)
      BY <1>1, <3>1 DEF CreateRun, CreateConflict, MarkRunning, TypeOK
    <3>2. CASE ~CreateRun(p) /\ ~MarkRunning(p)
      BY <3>2 DEF SubmitStep, GetSession, CheckMemory, CheckStore, NextRunSeq, RegisterRun,
                  InstallWorker, RegisterCancel, AppendRunning, AppendUser, LaunchWorker, durable
    <3>3. QED
      BY <3>1, <3>2
  <2>3. NoNewEnd(r)
    <3>1. CASE AppendRunning(p) \/ AppendUser(p)
      <4>1. srun[p] \in Runs /\ spc[p] \in Submitting
        BY <1>1, <3>1 DEF AppendRunning, AppendUser, SubmitterAt, LockInv, RunsInHand, Submitting
      <4>2. mem[Home[p]] = srun[p] /\ Home[p] \in Instances
        BY <4>1, HomeAssumption DEF LockStays, Clients
      <4>3. PICK kind \in {"running", "user"} : AppendOnRunContext(Home[p], srun[p], kind)
        BY <3>1 DEF AppendRunning, AppendUser
      <4>4. kind \in Kinds /\ kind \notin TerminalKinds
        BY <4>3 DEF Kinds, TerminalKinds
      <4>5. Extends(Home[p], srun[p], kind)
        BY <1>1, <4>1, <4>2, <4>3, <4>4, SubmitExtends
      <4>6. QED
        BY <4>4, <4>5 DEF Extends, NewEvent, NoNewEnd
    <3>2. CASE ~AppendRunning(p) /\ ~AppendUser(p)
      <4>1. log' = log
        BY <3>2 DEF SubmitStep, GetSession, CheckMemory, CheckStore, NextRunSeq, CreateRun,
             MarkRunning, RegisterRun, InstallWorker, RegisterCancel, LaunchWorker, durable
      <4>2. QED
        BY <4>1 DEF NoNewEnd
    <3>3. QED
      BY <3>1, <3>2
  <2>4. QED
    BY <2>1, <2>2, <2>3, BystanderEnd DEF Bystander
<1>4. QED
  BY <1>2, <1>3

\* What a worker's step leaves of another run.
LEMMA WorkerBystander ==
  ASSUME Base, LockStays, OffsetsBehind, NEW w \in Runs, WorkerStep(w), NEW r \in Runs, r # w
  PROVE  Bystander(r) /\ NoNewEnd(r) /\ row'[r] = row[r]
<1>1. TypeOK
  BY DEF Base
<1>2. /\ wpc'[r] = wpc[r] /\ outcome'[r] = outcome[r] /\ landed'[r] = landed[r]
      /\ status'[r] = status[r] /\ hook'[r] = hook[r] /\ ctxDone' = ctxDone /\ row'[r] = row[r]
  BY <1>1 DEF WorkerStep, LoopEnds, LoopPanics, EmitDone, EmitError, EmitCancelled, PanicAppend,
       DetermineStatus, Compensate, CompensateRetry, Complete, StoreStatus, FireHooks, Cleanup,
       WGoto, durable, TypeOK
<1>3. NoNewEnd(r)
  <2>1. CASE \E kind \in TerminalKinds : EmitsKind(w, kind)
    BY <2>1, WorkerExtends DEF Extends, NoNewEnd
  <2>2. CASE \A kind \in TerminalKinds : ~EmitsKind(w, kind)
    BY <2>2, WorkerSilent DEF NoNewEnd
  <2>3. QED
    BY <2>1, <2>2
<1>4. QED
  BY <1>2, <1>3 DEF Bystander

\* A crash leaves the row of an unsettled worker running: the next start fails it.
LEMMA CrashEnd ==
  ASSUME Base, LockStays, NEW i \in Instances, Crash(i), NEW r \in Runs, EndRecorded(r)
  PROVE  EndRecorded(r)'
<1>1. TypeOK /\ LockInv
  BY DEF Base, TableInv
<1>2. /\ UNCHANGED <<row, log, outcome, landed, status, hook, ctxDone>>
      /\ wpc'[r] = IF wpc[r] # "none" /\ whome[r] = i THEN "gone" ELSE wpc[r]
  BY <1>1 DEF Crash, durable
<1>3. CASE wpc'[r] = wpc[r]
  BY <1>2, <1>3, BystanderEnd DEF Bystander, NoNewEnd
<1>4. CASE wpc'[r] = "gone" /\ wpc[r] # "none"
  <2>1. Executing(r) => row[r] = "running"
    BY <1>1, RunIsReal DEF LockStays, LockInv, TokenHoldersAreActive, TypeOK
  <2>2. wpc[r] \in WorkerPC
    BY <1>1 DEF TypeOK
  <2>3. Recorded(r) \/ (status[r] \in {"none", "cancelled"} /\ row[r] \in {"running", "failed"})
    BY <1>4, <2>1, <2>2 DEF EndRecorded, Executing, WorkerPC, Before
  <2>4. Recorded(r)' <=> Recorded(r)
    BY <1>2 DEF Recorded, Logged
  <2>5. QED
    BY <1>2, <1>4, <2>3, <2>4 DEF EndRecorded, Before
<1>5. QED
  BY <1>2, <1>3, <1>4

\* A failed statement is counted.
LEMMA FaultsStay ==
  ASSUME TypeOK, [Next]_vars, faults' = 0
  PROVE  faults = 0
<1>1. \/ UNCHANGED faults \/ StatementOK \/ StatementFails
  <2>1. \A i \in Instances, r \in Runs, kind \in Kinds, ok \in BOOLEAN :
          AppendEvent(i, r, kind, ok) => StatementOK \/ StatementFails
    BY DEF AppendEvent
  <2>2. {"running", "user", "done", "error", "cancelled"} \subseteq Kinds
    BY DEF Kinds, TerminalKinds
  <2>3. ASSUME NEW p \in Submitters, SubmitStep(p)
        PROVE  UNCHANGED faults \/ StatementOK \/ StatementFails
    <3>1. CASE AppendRunning(p) \/ AppendUser(p)
      <4>1. \E kind \in Kinds : AppendOnRunContext(Home[p], srun[p], kind)
        BY <2>2, <3>1 DEF AppendRunning, AppendUser
      <4>2. QED
        BY <4>1 DEF AppendOnRunContext, AppendEvent
    <3>2. CASE ~AppendRunning(p) /\ ~AppendUser(p)
      BY <2>3, <3>2 DEF SubmitStep, GetSession, CheckMemory, CheckStore, NextRunSeq, CreateRun,
           MarkRunning, RegisterRun, InstallWorker, RegisterCancel, LaunchWorker, bounds
    <3>3. QED
      BY <3>1, <3>2
  <2>4. ASSUME NEW w \in Runs, WorkerStep(w)
        PROVE  UNCHANGED faults \/ StatementOK \/ StatementFails
    <3>1. CASE EmitDone(w) \/ EmitError(w)
      <4>1. \E kind \in Kinds : EmitGuarded(w, kind)
        BY <2>2, <3>1 DEF EmitDone, EmitError
      <4>2. QED
        BY <4>1 DEF EmitGuarded, AppendEvent
    <3>2. CASE EmitCancelled(w) \/ PanicAppend(w) \/ Compensate(w) \/ CompensateRetry(w)
      <4>1. \E kind \in Kinds, ok \in BOOLEAN : AppendEvent(whome[w], w, kind, ok)
        BY <2>2, <3>2 DEF EmitCancelled, PanicAppend, Compensate, CompensateRetry
      <4>2. QED
        BY <4>1 DEF AppendEvent
    <3>3. CASE LoopEnds(w) \/ LoopPanics(w) \/ DetermineStatus(w) \/ Complete(w) \/ StoreStatus(w)
               \/ FireHooks(w) \/ Cleanup(w)
      BY <3>3 DEF LoopEnds, LoopPanics, DetermineStatus, Complete, StoreStatus, FireHooks, Cleanup,
                  bounds
    <3>4. QED
      BY <2>4, <3>1, <3>2, <3>3 DEF WorkerStep
  <2>5. CASE \/ \E c \in Cancellers : CancelRunStep(c)
             \/ \E d \in Deleters : DeleteCancel(d) \/ DeleteSessionForUser(d)
             \/ \E i \in Instances : RegistryCancel(i) \/ Crash(i) \/ Restart(i)
             \/ UNCHANGED vars
    BY <2>5 DEF CancelRunStep, CancelRunCapture, CancelRunWait, CancelRunInterrupt,
         CancelRunComplete, CancelRunStore, DeleteCancel, DeleteSessionForUser, RegistryCancel,
         Crash, Restart, vars, bounds
  <2>6. QED
    BY <2>3, <2>4, <2>5 DEF Next
<1>2. QED
  BY <1>1, BoundsAssumption DEF TypeOK, StatementOK, StatementFails

\* Every step.
LEMMA EndStep ==
  ASSUME Cancellers = {}, Base, OneOwner, LockStays, OffsetsBehind, LogOrdered, [Next]_vars,
         faults' = 0, \A r \in Runs : EndRecorded(r)
  PROVE  \A r \in Runs : EndRecorded(r)'
<1> SUFFICES ASSUME NEW r \in Runs
             PROVE  EndRecorded(r)'
  OBVIOUS
<1>1. TypeOK
  BY DEF Base
<1>2. CASE \E p \in Submitters : SubmitStep(p)
  BY <1>2, SubmitEnd
<1>3. ASSUME NEW w \in Runs, WorkerStep(w)
      PROVE  EndRecorded(r)'
  <2>1. CASE r = w
    BY <1>3, <2>1, WorkerEnd
  <2>2. CASE r # w
    BY <1>3, <2>2, WorkerBystander, BystanderEnd
  <2>3. QED
    BY <2>1, <2>2
<1>4. CASE \E i \in Instances : Crash(i)
  BY <1>4, CrashEnd
<1>5. CASE \/ \E d \in Deleters : DeleteCancel(d) \/ DeleteSessionForUser(d)
           \/ \E i \in Instances : RegistryCancel(i) \/ Restart(i)
           \/ UNCHANGED vars
  <2>1. UNCHANGED <<log, wpc, outcome, landed, status, hook>>
    BY <1>5 DEF DeleteCancel, DeleteSessionForUser, RegistryCancel, Restart, vars, durable, worker
  <2>2. ctxDone[r] => ctxDone'[r]
    <3>1. UNCHANGED ctxDone \/ \E i \in Instances : CancelWorker(i)
      BY <1>5, HomeAssumption DEF DeleteCancel, DeleteSessionForUser, RegistryCancel, Restart, vars,
                                  Clients
    <3>2. \A i \in Instances : CancelWorker(i) => (ctxDone[r] => ctxDone'[r])
      BY <1>1 DEF CancelWorker, TypeOK
    <3>3. QED
      BY <3>1, <3>2
  <2>3. row[r] \in {"running", "failed"} => row'[r] \in {"running", "failed"}
    BY <1>5 DEF DeleteCancel, DeleteSessionForUser, RegistryCancel, Restart, FailStrandedRuns,
         vars, durable, Active
  <2>4. QED
    BY <2>1, <2>2, <2>3, BystanderEnd DEF Bystander, NoNewEnd
<1>6. QED
  BY <1>2, <1>3, <1>4, <1>5 DEF Next

-----------------------------------------------------------------------------
(* What the hooks are told.                                                *)

\* A step that moves neither the worker of r nor what was stored and told.
LEMMA QuietHooks ==
  ASSUME NEW r \in Runs, HooksTold(r), hook[r] \in {"none"} \cup Terminal,
         UNCHANGED crashes, faults' = 0 => faults = 0,
         wpc'[r] = wpc[r] \/ wpc'[r] \notin {"hooks", "cleanup", "gone"},
         outcome'[r] = outcome[r] \/ wpc'[r] \notin {"hooks", "cleanup", "gone"},
         status'[r] = status[r] \/ wpc'[r] # "hooks", hook'[r] = hook[r],
         row[r] \in Terminal => row'[r] = row[r]
  PROVE  HooksTold(r)'
<1>1. "none" \notin Terminal
  BY DEF Terminal
<1>2. QED
  BY <1>1 DEF HooksTold

\* The worker settles under the lock it took, then tells the hooks what it stored.
LEMMA WorkerHooks ==
  ASSUME Base, LockStays, NEW w \in Runs, WorkerStep(w), HooksTold(w)
  PROVE  HooksTold(w)'
<1>1. TypeOK /\ LockInv /\ StatusKnown
  BY DEF Base, TableInv
<1>2. [Next]_vars
  BY DEF Next
<1>3. faults' = 0 => faults = 0
  BY <1>1, <1>2, FaultsStay
<1>4. row[w] \in Terminal => row'[w] = row[w]
  BY <1>1, <1>2, TerminalStep
<1>5. hook[w] \in {"none"} \cup Terminal /\ "none" \notin Terminal
  BY <1>1 DEF TypeOK, Terminal
<1> USE DEF WorkerAt, WGoto
<1>6. CASE Complete(w)
  <2>1. mem[whome[w]] = w
    BY <1>6 DEF Complete, LockStays, Executing
  <2>2. wpc'[w] = "store" /\ UNCHANGED <<hook, crashes>>
    BY <1>1, <1>6, <2>1 DEF Complete, ReleasesLock, TypeOK, bounds
  <2>3. QED
    BY <1>3, <1>4, <1>5, <2>2, QuietHooks
<1>7. CASE StoreStatus(w)
  <2>1. /\ wpc[w] = "store" /\ wpc'[w] = (IF outcome[w] = "panic" THEN "cleanup" ELSE "hooks")
        /\ UNCHANGED <<outcome, status, hook, crashes>> /\ (StatementOK \/ StatementFails)
    BY <1>1, <1>7 DEF StoreStatus, AfterSettle, TypeOK
  <2>2. status[w] \in Terminal
    BY <1>1, <2>1 DEF StatusKnown
  <2>3. faults' = 0 => row'[w] = status[w]
    <3>1. faults' = 0 => ~StatementFails
      BY <1>1, BoundsAssumption DEF StatementFails, TypeOK
    <3>2. QED
      BY <1>1, <1>7, <3>1 DEF StoreStatus, TypeOK
  <2>4. hook[w] = "none" \/ faults' # 0
    <3>1. row[w] = "running"
      BY <1>1, <2>1 DEF LockInv, TokenHoldersAreActive
    <3>2. hook[w] # "none" => hook[w] # row[w]
      BY <1>5, <3>1 DEF Terminal
    <3>3. QED
      BY <1>3, <3>2 DEF HooksTold
  <2>5. QED
    BY <2>1, <2>2, <2>3, <2>4 DEF HooksTold
<1>8. CASE FireHooks(w)
  <2>1. /\ wpc[w] = "hooks" /\ wpc'[w] = "cleanup" /\ hook'[w] = status[w]
        /\ UNCHANGED <<row, outcome, faults, crashes>>
    BY <1>1, <1>8 DEF FireHooks, TypeOK, durable, bounds
  <2>2. QED
    BY <1>5, <2>1 DEF HooksTold
<1>9. CASE Cleanup(w)
  <2>1. /\ wpc[w] = "cleanup" /\ wpc'[w] = "gone"
        /\ UNCHANGED <<row, outcome, hook, faults, crashes>>
    BY <1>1, <1>9 DEF Cleanup, TypeOK, durable, bounds
  <2>2. QED
    BY <2>1 DEF HooksTold
<1>10. CASE ~Complete(w) /\ ~StoreStatus(w) /\ ~FireHooks(w) /\ ~Cleanup(w)
  <2>1. wpc'[w] \notin {"hooks", "cleanup", "gone"} /\ UNCHANGED <<hook, crashes>>
    BY <1>1, <1>10 DEF WorkerStep, LoopEnds, LoopPanics, EmitDone, EmitError, EmitCancelled,
         PanicAppend, DetermineStatus, Compensate, CompensateRetry, TypeOK, bounds
  <2>2. QED
    BY <1>3, <1>4, <1>5, <2>1, QuietHooks
<1>11. QED
  BY <1>6, <1>7, <1>8, <1>9, <1>10

\* Every step.
LEMMA HooksStep ==
  ASSUME Cancellers = {}, Base, LockStays, OffsetsBehind, [Next]_vars, NEW r \in Runs, HooksTold(r)
  PROVE  HooksTold(r)'
<1>1. TypeOK /\ (faults' = 0 => faults = 0) /\ (row[r] \in Terminal => row'[r] = row[r])
  BY FaultsStay, TerminalStep DEF Base, TableInv
<1>2. hook[r] \in {"none"} \cup Terminal
  BY <1>1 DEF TypeOK
<1>3. ASSUME NEW p \in Submitters, SubmitStep(p)
      PROVE  HooksTold(r)'
  <2>1. UNCHANGED <<outcome, status, hook, crashes>> /\ (wpc'[r] = wpc[r] \/ wpc'[r] = "loop")
    BY <1>1, <1>3 DEF SubmitStep, GetSession, CheckMemory, CheckStore, NextRunSeq, CreateRun,
         MarkRunning, RegisterRun, InstallWorker, RegisterCancel, AppendRunning, AppendUser,
         LaunchWorker, worker, bounds, TypeOK
  <2>2. QED
    BY <1>1, <1>2, <2>1, QuietHooks
<1>4. ASSUME NEW w \in Runs, WorkerStep(w)
      PROVE  HooksTold(r)'
  <2>1. CASE r = w
    BY <1>4, <2>1, WorkerHooks
  <2>2. CASE r # w
    <3>1. Bystander(r)
      BY <1>4, <2>2, WorkerBystander
    <3>2. UNCHANGED crashes
      BY <1>4 DEF WorkerStep, LoopEnds, LoopPanics, EmitDone, EmitError, EmitCancelled,
           PanicAppend, DetermineStatus, Compensate, CompensateRetry, Complete, StoreStatus,
           FireHooks, Cleanup, bounds
    <3>3. QED
      BY <1>1, <1>2, <3>1, <3>2, QuietHooks DEF Bystander
  <2>3. QED
    BY <2>1, <2>2
<1>5. ASSUME NEW i \in Instances, Crash(i)
      PROVE  HooksTold(r)'
  <2>1. /\ UNCHANGED <<row, outcome, status, hook, faults>> /\ crashes' # 0
        /\ wpc'[r] = wpc[r] \/ wpc'[r] = "gone"
    BY <1>1, <1>5, BoundsAssumption DEF Crash, TypeOK, durable
  <2>2. QED
    BY <2>1 DEF HooksTold
<1>6. CASE \/ \E d \in Deleters : DeleteCancel(d) \/ DeleteSessionForUser(d)
           \/ \E i \in Instances : RegistryCancel(i) \/ Restart(i)
           \/ UNCHANGED vars
  <2>1. UNCHANGED <<wpc, outcome, status, hook, crashes>>
    BY <1>6 DEF DeleteCancel, DeleteSessionForUser, RegistryCancel, Restart, vars, worker, bounds
  <2>2. QED
    BY <1>1, <1>2, <2>1, QuietHooks
<1>7. QED
  BY <1>3, <1>4, <1>5, <1>6 DEF Next

\* What a settled run leaves behind agrees, for any number of submitters, stops and
\* deletions, on any number of instances, through panics, crashes and restarts:
\* the terminal event that matches the status is in the log and is the last of its
\* replay, the cancelled frame is written once whoever writes it, and the hooks
\* report the row.  The hypothesis on cancellers is the code's: Runtime.CancelRun,
\* the only one besides a worker to take a run's lock, has no caller in production.
THEOREM OutcomeIsRecorded ==
  ASSUME NoForeignRestart, Cancellers = {}
  PROVE  Spec => []OutcomeRecorded
<1>1. Init => OutcomeInv
  BY DEF Init, OutcomeInv, LockStays, Submitting, Executing, OffsetsBehind, Starting, LogOrdered,
         Before, EndRecorded, HooksTold
<1>2. Base /\ SettlerInv /\ OutcomeInv /\ [Next]_vars => OutcomeInv'
  <2> SUFFICES ASSUME Base, SettlerInv, OutcomeInv, [Next]_vars
               PROVE  OutcomeInv'
    OBVIOUS
  <2>1. TypeOK /\ OneOwner /\ LockStays /\ OffsetsBehind /\ LogOrdered
    BY DEF Base, SettlerInv, OutcomeInv
  <2>2. LockStays' /\ OffsetsBehind' /\ LogOrdered'
    BY <2>1, LockStaysStep, BehindStep, OrderedStep
  <2>3. faults' = 0 => \A r \in Runs : EndRecorded(r)'
    BY <2>1, FaultsStay, EndStep DEF OutcomeInv
  <2>4. \A r \in Runs : HooksTold(r)'
    BY <2>1, HooksStep DEF OutcomeInv
  <2>5. QED
    BY <2>2, <2>3, <2>4 DEF OutcomeInv
<1>3. Base /\ OutcomeInv => OutcomeRecorded
  <2> SUFFICES ASSUME Base, OutcomeInv
               PROVE  OutcomeRecorded
    OBVIOUS
  <2>1. TerminalEventRecorded
    <3> SUFFICES ASSUME NEW r \in Runs, faults = 0, Settled(r), row[r] = status[r]
                 PROVE  Recorded(r)
      BY DEF TerminalEventRecorded, Recorded, Logged
    <3>1. EndRecorded(r)
      BY DEF OutcomeInv
    <3>2. CASE wpc[r] \in {"hooks", "cleanup"}
      BY <3>1, <3>2 DEF EndRecorded
    <3>3. CASE wpc[r] = "gone"
      BY <3>1, <3>3 DEF EndRecorded
    <3>4. QED
      BY <3>2, <3>3 DEF Settled
  <2>2. ReplayInOrder
    BY DEF OutcomeInv, LogOrdered, EndRecorded, ReplayInOrder
  <2>3. HooksReportTheStoredStatus
    BY DEF OutcomeInv, HooksTold, HooksReportTheStoredStatus
  <2>4. QED
    BY <2>1, <2>2, <2>3 DEF OutcomeRecorded
<1>4. QED
  BY <1>1, <1>2, <1>3, BaseHolds, SettlerInvHolds, PTL DEF Spec
=============================================================================
