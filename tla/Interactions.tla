---------------------------- MODULE Interactions ----------------------------
(***************************************************************************)
(* Client interactions of ONE session: a run that needs the client parks   *)
(* one interaction per gated tool call and ends; verdicts are recorded one *)
(* by one; when the batch is fully decided its calls are executed and      *)
(* folded into one tool_result message, and a fresh run continues.         *)
(* internal/session/{emitter,approval,batch,fold,registry}.go and          *)
(* internal/chatapi/handler.go (serveChat, serveChatResume).               *)
(*                                                                         *)
(* Runs are started and settled atomically here: RunLifecycle shows that   *)
(* at most one is active.                                                  *)
(***************************************************************************)
EXTENDS Naturals, TLC

CONSTANTS
  Requests,    \* concurrent HTTP requests (submissions and verdicts)
  Gated,       \* the calls of a suspended batch that need the user's approval
  Plain,       \* their siblings in the same assistant message that do not
  MaxRuns,     \* bound: runs of the session
  MaxExec,     \* bound: executions counted per call
  MaxFaults,   \* bound: failed database statements
  MaxCrashes   \* bound: crashes of the server

ASSUME BatchAssumption == Gated # {} /\ Gated \cap Plain = {}
ASSUME BoundsAssumption ==
  /\ MaxRuns \in Nat \ {0}
  /\ MaxExec \in Nat \ {0}
  /\ MaxFaults \in Nat /\ MaxCrashes \in Nat

Runs == 1..MaxRuns
NoRun == 0
NoCall == "no call"
Calls == Gated \cup Plain

\* Requests, and the gated calls of a batch, are interchangeable.
Symmetry == Permutations(Requests) \cup Permutations(Gated)

Decided == {"resolved", "rejected", "expired"}

VARIABLES
  \* ------------------------------------------------- durable
  inter,    \* approvals.status of each gated call of each run
  batch,    \* suspended_batches of each run: "none", "open" or "folded"
  answers,  \* tool_result messages stored for the batch of each run
  kept,     \* the assistant message that carries each run's batch is stored
  active,   \* the session's active run, or NoRun
  phase,    \* of each run: see Phases
  \* ------------------------------------------------- in flight
  req,      \* a request: its control point pc; via "chat" or "verdict"; the run,
            \* call and verdict it is about; and whether its client is connected
  toVoid,   \* the rows an abnormal end has listed and not visited yet
  \* ------------------------------------------------- observed
  ran,      \* how often each call of each run's batch was executed at a fold
  buried,   \* a newer run was started before the batch was folded
  missed,   \* the rows of each run whose void failed
  faults, crashes

store == <<inter, batch, answers, kept>>
run == <<active, phase, toVoid, missed>>
observed == <<ran, buried>>
vars == <<store, run, req, observed, faults, crashes>>

Phases == {"none", "running", "emitting", "failing", "voiding", "ended"}

RequestPC == {"idle", "reconcile", "submit", "waitIdle", "decide", "checkComplete",
              "foldState", "foldRead", "execute", "commit"}

Request == [pc : RequestPC, via : {"chat", "verdict"}, target : Runs \cup {NoRun},
            call : Gated \cup {NoCall}, verdict : BOOLEAN, client : BOOLEAN]

NoRequest == [pc |-> "idle", via |-> "chat", target |-> NoRun, call |-> NoCall,
              verdict |-> FALSE, client |-> TRUE]

TypeOK ==
  /\ inter \in [Runs -> [Gated -> {"none", "pending"} \cup Decided]]
  /\ batch \in [Runs -> {"none", "open", "folded"}]
  /\ answers \in [Runs -> 0..2]
  /\ kept \in [Runs -> BOOLEAN]
  /\ active \in Runs \cup {NoRun}
  /\ phase \in [Runs -> Phases]
  /\ toVoid \subseteq Gated
  /\ missed \in [Runs -> SUBSET Gated]
  /\ req \in [Requests -> Request]
  /\ ran \in [Runs -> [Calls -> 0..MaxExec]]
  /\ buried \in [Runs -> BOOLEAN]
  /\ faults \in 0..MaxFaults
  /\ crashes \in 0..MaxCrashes

Init ==
  /\ inter = [r \in Runs |-> [c \in Gated |-> "none"]]
  /\ batch = [r \in Runs |-> "none"]
  /\ answers = [r \in Runs |-> 0]
  /\ kept = [r \in Runs |-> FALSE]
  /\ active = NoRun
  /\ phase = [r \in Runs |-> "none"]
  /\ toVoid = {}
  /\ missed = [r \in Runs |-> {}]
  /\ req = [q \in Requests |-> NoRequest]
  /\ ran = [r \in Runs |-> [c \in Calls |-> 0]]
  /\ buried = [r \in Runs |-> FALSE]
  /\ faults = 0
  /\ crashes = 0

StatementOK == UNCHANGED faults
StatementFails == faults < MaxFaults /\ faults' = faults + 1

\* PendingApprovalsForRun, PendingApprovalsForSession.
Pending(r) == {c \in Gated : inter[r][c] = "pending"}
AnyPending == \E r \in Runs : Pending(r) # {}

-----------------------------------------------------------------------------
(* The active run: Loop.Run at its unified suspend point, and execute.     *)

RunEnds(r) ==
  /\ active = r /\ phase[r] = "running"
  /\ active' = NoRun
  /\ phase' = [phase EXCEPT ![r] = "ended"]
  /\ UNCHANGED <<store, toVoid, missed, req, observed, faults, crashes>>

\* The gate found gated calls.  persistMessage has stored the assistant message
\* that carries them, or logged that it could not: the run suspends either way.
Suspend(r) ==
  /\ active = r /\ phase[r] = "running"
  /\ phase' = [phase EXCEPT ![r] = "emitting"]
  /\ \/ StatementOK /\ kept' = [kept EXCEPT ![r] = TRUE]
     \/ StatementFails /\ UNCHANGED kept
  /\ UNCHANGED <<inter, batch, answers, active, toVoid, missed, req, observed, crashes>>

\* The snapshot (ON CONFLICT DO NOTHING) and the row, in one transaction.
CreateInteractionBatch(r, c) ==
  /\ inter' = [inter EXCEPT ![r][c] = "pending"]
  /\ batch' = [batch EXCEPT ![r] = "open"]

\* One KindInterrupt: persistInteraction stores it before the client can see
\* the frame.
EmitInterrupt(r, c) ==
  /\ active = r /\ phase[r] = "emitting"
  /\ inter[r][c] = "none"
  /\ CreateInteractionBatch(r, c)
  /\ UNCHANGED <<answers, kept, run, req, observed, faults, crashes>>

\* Every interrupt is out: succeedRun, CompleteRunForRun.
SuspendEnds(r) ==
  /\ active = r /\ phase[r] = "emitting"
  /\ \A c \in Gated : inter[r][c] # "none"
  /\ active' = NoRun
  /\ phase' = [phase EXCEPT ![r] = "ended"]
  /\ UNCHANGED <<store, toVoid, missed, req, observed, faults, crashes>>

\* An interrupt cannot be emitted (the user pressed Stop, or the INSERT failed):
\* the loop answers the whole batch with "not executed" results, which are
\* stored unless that fails too, and fails.
InterruptFails(r) ==
  /\ active = r /\ phase[r] = "emitting"
  /\ \E c \in Gated : inter[r][c] = "none"
  /\ \/ StatementOK /\ answers' = [answers EXCEPT ![r] = 1]
     \/ StatementFails /\ UNCHANGED answers
  /\ phase' = [phase EXCEPT ![r] = "failing"]
  /\ UNCHANGED <<inter, batch, kept, active, toVoid, missed, req, observed, crashes>>

\* voidPendingInteractions: the rows of the earlier interrupts are listed ...
VoidPendingInteractions(r) ==
  /\ active = r /\ phase[r] = "failing"
  /\ \/ StatementOK /\ toVoid' = Pending(r) /\ UNCHANGED missed
     \/ StatementFails /\ missed' = [missed EXCEPT ![r] = Pending(r)] /\ UNCHANGED toVoid
  /\ phase' = [phase EXCEPT ![r] = "voiding"]
  /\ UNCHANGED <<store, active, req, observed, crashes>>

\* ... and rejected one by one; a failure is logged and the next row visited.
VoidRow(r, c) ==
  /\ active = r /\ phase[r] = "voiding" /\ c \in toVoid
  /\ toVoid' = toVoid \ {c}
  /\ \/ /\ StatementOK /\ UNCHANGED missed
        /\ inter' = [inter EXCEPT ![r][c] = IF @ = "pending" THEN "rejected" ELSE @]
     \/ StatementFails /\ missed' = [missed EXCEPT ![r] = @ \cup {c}] /\ UNCHANGED inter
  /\ UNCHANGED <<batch, answers, kept, active, phase, req, observed, crashes>>

\* Then the run is settled.  No verdict can race the void: it waits for that.
VoidEnds(r) ==
  /\ active = r /\ phase[r] = "voiding" /\ toVoid = {}
  /\ active' = NoRun
  /\ phase' = [phase EXCEPT ![r] = "ended"]
  /\ UNCHANGED <<store, toVoid, missed, req, observed, faults, crashes>>

-----------------------------------------------------------------------------
(* Requests.  A fold is detached from its client: when the client goes     *)
(* away the fold still commits, and only the Submit after it fails.        *)

Goto(q, l) ==
  req' = [req EXCEPT ![q] = IF l = "idle" THEN NoRequest ELSE [@ EXCEPT !.pc = l]]

\* serveChat: 409 pending_interaction, or go on (also when the check failed).
ChatStart(q) ==
  /\ req[q].pc = "idle"
  /\ \/ ~AnyPending /\ StatementOK
     \/ AnyPending /\ StatementFails
  /\ Goto(q, "reconcile")
  /\ UNCHANGED <<store, run, observed, crashes>>

\* Mutant: only the newest run that has a batch is considered.
DecidedButUnfoldedNewestOnly ==
  {r \in Runs : /\ batch[r] = "open" /\ Pending(r) = {}
                /\ \A s \in Runs : s > r => batch[s] = "none"}

\* DecidedButUnfoldedRun's candidates; the newest is taken.
DecidedButUnfolded == {r \in Runs : batch[r] = "open" /\ Pending(r) = {}}

\* Fail-open: an error goes on without folding.
Reconcile(q) ==
  /\ req[q].pc = "reconcile"
  /\ \/ /\ \E r \in DecidedButUnfolded :
             /\ \A s \in DecidedButUnfolded : s <= r
             /\ req' = [req EXCEPT ![q].pc = "foldRead", ![q].target = r]
        /\ StatementOK
     \/ /\ DecidedButUnfolded = {}
        /\ Goto(q, "submit")
        /\ StatementOK
     \/ /\ Goto(q, "submit")
        /\ StatementFails
  /\ UNCHANGED <<store, run, observed, crashes>>

\* serveChatResume: a client that saw the interaction posts its verdict.
ResumeStart(q, r, c, v) ==
  /\ req[q].pc = "idle"
  /\ inter[r][c] # "none"
  /\ req' = [req EXCEPT ![q] = [pc |-> "waitIdle", via |-> "verdict", target |-> r,
                                call |-> c, verdict |-> v, client |-> TRUE]]
  /\ UNCHANGED <<store, run, observed, faults, crashes>>

\* waitForIdle, at most 5 s.
WaitForIdle(q) ==
  /\ req[q].pc = "waitIdle"
  /\ \/ active = NoRun /\ Goto(q, "decide")
     \/ active # NoRun /\ Goto(q, "idle")
  /\ UNCHANGED <<store, run, observed, faults, crashes>>

Verdict(v) == IF v THEN "resolved" ELSE "rejected"

\* Mutant: the UPDATE without AND status = 'pending'.
DecideApprovalAnyStatus(q) ==
  LET r == req[q].target  c == req[q].call IN
  /\ req[q].pc = "decide"
  /\ \/ /\ inter' = [inter EXCEPT ![r][c] = Verdict(req[q].verdict)]
        /\ Goto(q, "checkComplete")
        /\ StatementOK
     \/ StatementFails /\ Goto(q, "idle") /\ UNCHANGED inter
  /\ UNCHANGED <<batch, answers, kept, run, observed, crashes>>

\* DecideApproval: UPDATE ... WHERE status = 'pending'.
DecideApproval(q) ==
  LET r == req[q].target  c == req[q].call IN
  /\ req[q].pc = "decide"
  /\ \/ /\ inter[r][c] = "pending"
        /\ inter' = [inter EXCEPT ![r][c] = Verdict(req[q].verdict)]
        /\ Goto(q, "checkComplete")
        /\ StatementOK
     \/ /\ inter[r][c] # "pending"
        /\ Goto(q, "foldState")
        /\ StatementOK /\ UNCHANGED inter
     \/ StatementFails /\ Goto(q, "idle") /\ UNCHANGED inter
  /\ UNCHANGED <<batch, answers, kept, run, observed, crashes>>

\* A complete batch is folded; otherwise the response ends without a run.
AfterVerdict(q, complete) == Goto(q, IF complete THEN "foldRead" ELSE "idle")

\* The rest of RecordDecision: is the batch complete?
CheckComplete(q) ==
  /\ req[q].pc = "checkComplete"
  /\ \/ StatementOK /\ AfterVerdict(q, Pending(req[q].target) = {})
     \/ StatementFails /\ Goto(q, "idle")
  /\ UNCHANGED <<store, run, observed, crashes>>

\* BatchFoldState, for a verdict on a row that is already decided: a retry of a
\* decision whose fold did not commit goes on to the fold.
FoldState(q) ==
  LET r == req[q].target IN
  /\ req[q].pc = "foldState"
  /\ \/ /\ StatementOK
        /\ AfterVerdict(q, batch[r] # "folded" /\ Pending(r) = {})
     \/ StatementFails /\ Goto(q, "idle")
  /\ UNCHANGED <<store, run, observed, crashes>>

-----------------------------------------------------------------------------
(* FoldBatch of run req[q].target, on behalf of the request.                *)

\* An error ends a verdict request; a submission goes on without the fold.
FoldError(q) == Goto(q, IF req[q].via = "chat" THEN "submit" ELSE "idle")

\* The snapshot and the message with its calls: a folded batch re-executes
\* nothing, and one whose message was never stored cannot be folded.
FoldRead(q) ==
  LET r == req[q].target IN
  /\ req[q].pc = "foldRead"
  /\ \/ batch[r] = "folded" /\ StatementOK /\ Goto(q, "submit")
     \/ batch[r] # "folded" /\ kept[r] /\ StatementOK /\ Goto(q, "execute")
     \/ batch[r] # "folded" /\ ~kept[r] /\ StatementOK /\ FoldError(q)
     \/ StatementFails /\ FoldError(q)
  /\ UNCHANGED <<store, run, observed, crashes>>

\* Mutant: a call whose row is missing or undecided runs like a plain sibling.
ToExecuteUnlessRejected(r) ==
  Plain \cup {c \in Gated : inter[r][c] \notin {"rejected", "expired"}}

\* The calls a fold executes: approved ones, and the siblings that needed no
\* verdict.  A gated call without a row meets the execution gate, which denies
\* it with the same policy that gated it.
ToExecute(r) == Plain \cup {c \in Gated : inter[r][c] = "resolved"}

FoldExecute(q) ==
  LET r == req[q].target IN
  /\ req[q].pc = "execute"
  /\ ran' = [ran EXCEPT ![r] = [c \in Calls |->
               IF c \in ToExecute(r) /\ @[c] < MaxExec THEN @[c] + 1 ELSE @[c]]]
  /\ Goto(q, "commit")
  /\ UNCHANGED <<store, run, buried, faults, crashes>>

\* Mutant: the commit does not look at folded_seq.
CommitFoldBlindly(q) ==
  LET r == req[q].target IN
  /\ req[q].pc = "commit"
  /\ answers' = [answers EXCEPT ![r] = @ + 1]
  /\ batch' = [batch EXCEPT ![r] = "folded"]
  /\ Goto(q, "submit")
  /\ StatementOK
  /\ UNCHANGED <<inter, kept, run, observed, crashes>>

\* CommitFold: the tool_result message and folded_seq in one transaction, under
\* a row lock; a batch folded meanwhile counts as success.
CommitFold(q) ==
  LET r == req[q].target IN
  /\ req[q].pc = "commit"
  /\ \/ /\ batch[r] = "folded"
        /\ Goto(q, "submit")
        /\ StatementOK /\ UNCHANGED <<answers, batch>>
     \/ /\ batch[r] = "open"
        /\ answers' = [answers EXCEPT ![r] = @ + 1]
        /\ batch' = [batch EXCEPT ![r] = "folded"]
        /\ Goto(q, "submit")
        /\ StatementOK
     \/ /\ FoldError(q)
        /\ StatementFails /\ UNCHANGED <<answers, batch>>
  /\ UNCHANGED <<inter, kept, run, observed, crashes>>

\* The client goes away during the fold (foldWithHeartbeat stops waiting).
Disconnect(q) ==
  /\ req[q].pc \in {"foldRead", "execute", "commit"}
  /\ req[q].client
  /\ req' = [req EXCEPT ![q].client = FALSE]
  /\ UNCHANGED <<store, run, observed, faults, crashes>>

\* RunRegistry.Submit on the request's context: refused while a run is active.
Submit(q) ==
  /\ req[q].pc = "submit"
  /\ Goto(q, "idle")
  /\ IF active = NoRun /\ req[q].client /\ phase[MaxRuns] = "none"
     THEN \E n \in Runs :
            /\ phase[n] = "none" /\ \A r \in Runs : r < n => phase[r] # "none"
            /\ active' = n
            /\ phase' = [phase EXCEPT ![n] = "running"]
            /\ buried' = [r \in Runs |-> buried[r] \/ batch[r] = "open"]
     ELSE UNCHANGED <<active, phase, buried>>
  /\ UNCHANGED <<store, toVoid, missed, ran, faults, crashes>>

-----------------------------------------------------------------------------
\* The hourly sweep: rows pending for a day are expired, oldest first.
SweepExpiredInteractions ==
  /\ \E cutoff \in Runs :
       inter' = [r \in Runs |-> [c \in Gated |->
                   IF inter[r][c] = "pending" /\ r <= cutoff /\ r # active
                   THEN "expired" ELSE inter[r][c]]]
  /\ inter' # inter
  /\ UNCHANGED <<batch, answers, kept, run, req, observed, faults, crashes>>

\* A crash, and the restart that fails the run it interrupted; the pending rows
\* of that run are left alone.
CrashRestart ==
  /\ crashes < MaxCrashes
  /\ crashes' = crashes + 1
  /\ active' = NoRun
  /\ phase' = [r \in Runs |-> IF r = active THEN "ended" ELSE phase[r]]
  /\ req' = [q \in Requests |-> NoRequest]
  /\ toVoid' = {}
  /\ UNCHANGED <<store, missed, observed, faults>>

RunStep(r) ==
  \/ RunEnds(r) \/ Suspend(r) \/ SuspendEnds(r)
  \/ \E c \in Gated : EmitInterrupt(r, c) \/ VoidRow(r, c)
  \/ InterruptFails(r) \/ VoidPendingInteractions(r) \/ VoidEnds(r)

RequestStep(q) ==
  \/ Reconcile(q) \/ WaitForIdle(q) \/ DecideApproval(q) \/ CheckComplete(q)
  \/ FoldState(q) \/ FoldRead(q) \/ FoldExecute(q) \/ CommitFold(q) \/ Submit(q)

Next ==
  \/ \E r \in Runs : RunStep(r)
  \/ \E q \in Requests :
       \/ ChatStart(q)
       \/ \E r \in Runs, c \in Gated, v \in BOOLEAN : ResumeStart(q, r, c, v)
       \/ RequestStep(q)
       \/ Disconnect(q)
  \/ SweepExpiredInteractions
  \/ CrashRestart

Spec == Init /\ [][Next]_vars

\* Handlers, folds and runs proceed; the sweep runs every hour; the user comes
\* back with another message.
Fairness ==
  /\ \A r \in Runs : WF_vars(RunStep(r))
  /\ \A q \in Requests : WF_vars(RequestStep(q)) /\ SF_vars(ChatStart(q))
  /\ WF_vars(SweepExpiredInteractions)

FairSpec == Spec /\ Fairness

-----------------------------------------------------------------------------
(* Properties.                                                             *)

\* A gated call is executed only with the user's approval: not when the verdict
\* was a rejection, when the row expired, was voided, or was never written
\* because a crash or a failed interrupt cut the batch short.
OnlyApprovedCallsRun ==
  \A r \in Runs, c \in Gated : ran[r][c] > 0 => inter[r][c] = "resolved"

\* Nothing of a batch is executed, and no tool_result stored by a fold, while one
\* of its calls still waits for a verdict: the model never sees a partial batch.
NoPartialFold ==
  \A r \in Runs :
    Pending(r) # {} => batch[r] # "folded" /\ \A c \in Calls : ran[r][c] = 0

\* A verdict is final: the sweep, a second tab, a retry and the void of an
\* abnormal end never overwrite what was decided.
VerdictIsFinal ==
  [][\A r \in Runs, c \in Gated : inter[r][c] \in Decided => inter'[r][c] = inter[r][c]]_vars

\* Concurrent folds of one batch, retries and the reconciliation by a later
\* submission store one tool_result message between them; a folded batch has one.
FoldStoredOnce ==
  \A r \in Runs :
    /\ batch[r] = "folded" => answers[r] > 0
    /\ (\A c \in Gated : inter[r][c] # "none") => answers[r] <= 1

\* A run that ended abnormally leaves a row pending only where the statement that
\* should have voided it failed, or the server itself crashed: one failure does
\* not keep the other rows, nor the session's submission gate, waiting.
GateClears ==
  crashes = 0 => \A r \in Runs :
    phase[r] = "ended" /\ (\E c \in Gated : inter[r][c] = "none") => Pending(r) \subseteq missed[r]

\* A batch is answered as a whole: never while a verdict is missing, once, and an
\* abnormal end visits every row.
BatchAnsweredWhole == TypeOK /\ NoPartialFold /\ FoldStoredOnce /\ GateClears

\* A batch that cannot be folded: its assistant message was never stored.
Unfoldable(r) == batch[r] = "open" /\ ~kept[r]

\* A decided batch is folded in the end, whoever decided it and whatever crashed
\* or failed in between: the next submission picks it up, unless the batch, or
\* a newer one that is tried first, cannot be folded at all.
DecidedBatchFolds ==
  \A r \in Runs :
    batch[r] = "open" /\ Pending(r) = {} /\ phase[r] = "ended"
      ~> batch[r] = "folded" \/ \E s \in Runs : s >= r /\ Unfoldable(s)

\* The scan goes on to older batches so that none is orphaned.  Violated: it
\* returns the newest decided batch whether that one can be folded or not.
OlderBatchFolds ==
  \A r \in Runs :
    batch[r] = "open" /\ Pending(r) = {} /\ phase[r] = "ended" ~> batch[r] = "folded" \/ Unfoldable(r)

\* "the suspended calls will never be dispatched or verdict-folded now": a batch
\* that was answered when its interrupt failed gets no second answer.  Violated:
\* the void clears the pending rows, and a later submission folds the batch.
BatchAnsweredOnce == \A r \in Runs : answers[r] <= 1

\* "a suspended batch can never be buried under newer turns".  Violated when the
\* gate's query fails open, or the fold fails and the submission goes on.
NeverBuried == \A r \in Runs : ~buried[r]
=============================================================================
