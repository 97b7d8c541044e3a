------------------------- MODULE InteractionsProofs -------------------------
(***************************************************************************)
(* Proofs about Interactions, for every number of requests, runs, calls,   *)
(* failed statements and crashes.                                          *)
(***************************************************************************)
EXTENDS Interactions, TLAPS

\* The run is the active one exactly while its loop is at work.
ActiveIsLive ==
  \A r \in Runs : active = r <=> phase[r] \in {"running", "emitting", "failing", "voiding"}

\* The loop of the run has returned: it is settled, or about to be.
Over(r) == phase[r] \in {"voiding", "ended"}

\* The rows of a live run are not decided before its own void: a verdict waits
\* until the run is over, and the sweep leaves the active run alone.
LiveRowsUndecided ==
  \A r \in Runs : ~Over(r) => \A c \in Gated : inter[r][c] \in {"none", "pending"}

\* A void in progress still has to visit, or has failed on, what is pending.
VoidCovers ==
  \A r \in Runs : phase[r] = "voiding" => Pending(r) \subseteq toVoid \cup missed[r]

\* A run that has not begun to emit interrupts has no row, and the batch has a
\* snapshot exactly when one of its calls has a row.
RowsNeedABatch ==
  \A r \in Runs :
    /\ phase[r] \in {"none", "running"} => \A c \in Gated : inter[r][c] = "none"
    /\ batch[r] = "none" <=> \A c \in Gated : inter[r][c] = "none"

\* Where a request stands says what it knows of the run it is about.  At a fold
\* the run is over and every row of the batch is decided.
Knows(q) ==
  /\ req[q].pc \in {"waitIdle", "decide", "checkComplete", "foldState"} =>
       /\ req[q].target \in Runs /\ req[q].call \in Gated
       /\ inter[req[q].target][req[q].call] # "none"
  /\ req[q].pc \in {"decide", "checkComplete", "foldState"} => phase[req[q].target] = "ended"
  /\ req[q].pc \in {"foldRead", "execute", "commit"} =>
       /\ req[q].target \in Runs
       /\ Over(req[q].target)
       /\ batch[req[q].target] # "none"
       /\ Pending(req[q].target) = {}

RequestKnows == \A q \in Requests : Knows(q)

\* What was folded or executed belongs to a run that is over and fully decided.
FoldsAreComplete ==
  \A r \in Runs :
    batch[r] = "folded" \/ (\E c \in Calls : ran[r][c] > 0)
      => Over(r) /\ Pending(r) = {}

\* Who has answered the batch: the fold, and the loop whose interrupt failed,
\* which leaves a call without a row.
AnswersCounted ==
  \A r \in Runs :
    LET cut == \E c \in Gated : inter[r][c] = "none" IN
    /\ phase[r] \in {"none", "running", "emitting"} => answers[r] = 0
    /\ phase[r] \in {"failing", "voiding"} => cut
    /\ batch[r] # "folded" => answers[r] <= 1 /\ (answers[r] = 1 => cut)
    /\ batch[r] = "folded" => answers[r] > 0 /\ (answers[r] = 2 => cut)

InterInv ==
  /\ TypeOK
  /\ ActiveIsLive
  /\ LiveRowsUndecided
  /\ RowsNeedABatch
  /\ RequestKnows
  /\ FoldsAreComplete
  /\ AnswersCounted
  /\ VoidCovers
  /\ GateClears
  /\ OnlyApprovedCallsRun

-----------------------------------------------------------------------------
(* What one step may do to a request, a row and a run.                     *)

USE BatchAssumption, BoundsAssumption
USE DEF store, run, observed, vars

\* An idle request.
LEMMA NoRequestType == NoRequest \in Request /\ NoRequest.pc = "idle"
  BY DEF NoRequest, Request, RequestPC

\* Goto moves one request; a request that is not over keeps what it is about.
LEMMA GotoMoves ==
  ASSUME TypeOK, NEW q \in Requests, NEW l \in RequestPC, Goto(q, l)
  PROVE  /\ req' \in [Requests -> Request]
         /\ \A p \in Requests : p # q => req'[p] = req[p]
         /\ req'[q].pc = l
         /\ l # "idle" => /\ req'[q].target = req[q].target
                          /\ req'[q].call = req[q].call
<1>1. NoRequest \in Request /\ NoRequest.pc = "idle"
  BY NoRequestType
<1>2. req \in [Requests -> Request]
  BY DEF TypeOK
<1>3. CASE l = "idle"
  BY <1>1, <1>2, <1>3 DEF Goto
<1>4. CASE l # "idle"
  <2>1. req' = [req EXCEPT ![q] = [@ EXCEPT !.pc = l]]
    BY <1>4 DEF Goto
  <2>2. [req[q] EXCEPT !.pc = l] \in Request
    BY <1>2 DEF Request
  <2>3. QED
    BY <1>2, <2>1, <2>2 DEF Request
<1>5. QED
  BY <1>3, <1>4

\* Every step keeps the types.
LEMMA TypeStep ==
  ASSUME InterInv, [Next]_vars
  PROVE  TypeOK'
<1> USE DEF InterInv
<1>1. ASSUME NEW r \in Runs, RunEnds(r)
     PROVE  TypeOK'
  BY <1>1 DEF RunEnds, TypeOK, RequestPC, Phases
<1>2. ASSUME NEW r \in Runs, Suspend(r)
     PROVE  TypeOK'
  <2>1. phase' \in [Runs -> Phases]
    BY <1>2 DEF Suspend, TypeOK, Phases
  <2>2. kept' \in [Runs -> BOOLEAN]
    BY <1>2 DEF Suspend, TypeOK
  <2>3. faults' \in 0..MaxFaults
    BY <1>2 DEF Suspend, StatementOK, StatementFails, TypeOK
  <2>4. QED
    BY <1>2, <2>1, <2>2, <2>3 DEF Suspend, TypeOK
<1>3. ASSUME NEW r \in Runs, SuspendEnds(r)
     PROVE  TypeOK'
  BY <1>3 DEF SuspendEnds, TypeOK, RequestPC, Phases
<1>4. ASSUME NEW r \in Runs, InterruptFails(r)
     PROVE  TypeOK'
  BY <1>4 DEF InterruptFails, StatementOK, StatementFails, TypeOK, RequestPC, Phases
<1>5. ASSUME NEW r \in Runs, VoidPendingInteractions(r)
     PROVE  TypeOK'
  <2>1. phase' \in [Runs -> Phases]
    BY <1>5 DEF VoidPendingInteractions, TypeOK, Phases
  <2>2. Pending(r) \in SUBSET Gated
    BY DEF Pending
  <2>3. toVoid' \subseteq Gated /\ missed' \in [Runs -> SUBSET Gated]
    BY <1>5, <2>2 DEF VoidPendingInteractions, TypeOK
  <2>4. faults' \in 0..MaxFaults
    BY <1>5 DEF VoidPendingInteractions, StatementOK, StatementFails, TypeOK
  <2>5. QED
    BY <1>5, <2>1, <2>3, <2>4 DEF VoidPendingInteractions, TypeOK
<1>23. ASSUME NEW r \in Runs, NEW c \in Gated, VoidRow(r, c)
      PROVE  TypeOK'
  <2>1. toVoid' \subseteq Gated
    BY <1>23 DEF VoidRow, TypeOK
  <2>2. missed' \in [Runs -> SUBSET Gated]
    <3>1. missed[r] \cup {c} \in SUBSET Gated
      BY DEF TypeOK
    <3>2. QED
      BY <1>23, <3>1 DEF VoidRow, TypeOK
  <2>3. PICK e \in {"none", "pending"} \cup Decided :
          e = IF inter[r][c] = "pending" THEN "rejected" ELSE inter[r][c]
    BY DEF Decided, TypeOK
  <2>4. inter' = inter \/ inter' = [inter EXCEPT ![r][c] = e]
    BY <1>23, <2>3 DEF VoidRow
  <2>5. inter' \in [Runs -> [Gated -> {"none", "pending"} \cup Decided]]
    <3>1. CASE inter' = [inter EXCEPT ![r][c] = e]
      BY <3>1 DEF TypeOK
    <3>2. QED
      BY <2>4, <3>1 DEF TypeOK
  <2>6. faults' \in 0..MaxFaults
    BY <1>23 DEF VoidRow, StatementOK, StatementFails, TypeOK
  <2>7. QED
    BY <1>23, <2>1, <2>2, <2>5, <2>6 DEF VoidRow, TypeOK
<1>24. ASSUME NEW r \in Runs, VoidEnds(r)
      PROVE  TypeOK'
  BY <1>24 DEF VoidEnds, TypeOK, RequestPC, Phases
<1>6. ASSUME NEW r \in Runs, NEW c \in Gated, EmitInterrupt(r, c)
     PROVE  TypeOK'
  BY <1>6 DEF EmitInterrupt, CreateInteractionBatch, TypeOK, RequestPC
<1>7. ASSUME NEW q \in Requests, ChatStart(q)
     PROVE  TypeOK'
  BY <1>7, GotoMoves DEF ChatStart, StatementOK, StatementFails, TypeOK, RequestPC
<1>8. ASSUME NEW q \in Requests, Reconcile(q)
     PROVE  TypeOK'
  <2>1. ASSUME NEW r \in Runs,
               req' = [req EXCEPT ![q].pc = "foldRead", ![q].target = r]
        PROVE  req' \in [Requests -> Request]
    <3> DEFINE t == [req[q] EXCEPT !.pc = "foldRead", !.target = r]
    <3>1. t \in Request
      <4>1. req[q] \in Request
        BY DEF TypeOK
      <4>2. "foldRead" \in RequestPC
        BY DEF RequestPC
      <4>3. QED
        BY <4>1, <4>2 DEF Request
    <3>2. req' = [req EXCEPT ![q] = t]
      BY <2>1
    <3>3. QED
      BY <3>1, <3>2 DEF TypeOK
  <2>2. req' \in [Requests -> Request]
    <3>1. CASE Goto(q, "submit")
      BY <3>1, GotoMoves DEF RequestPC
    <3>2. QED
      BY <1>8, <2>1, <3>1 DEF Reconcile, DecidedButUnfolded
  <2>3. QED
    BY <1>8, <2>2 DEF Reconcile, StatementOK, StatementFails, TypeOK
<1>9. ASSUME NEW q \in Requests, WaitForIdle(q)
     PROVE  TypeOK'
  BY <1>9, GotoMoves DEF WaitForIdle, TypeOK, RequestPC
<1>10. ASSUME NEW q \in Requests, DecideApproval(q)
     PROVE  TypeOK'
  <2>1. PICK r \in Runs, c \in Gated : r = req[q].target /\ c = req[q].call
    BY <1>10 DEF DecideApproval, RequestKnows, Knows
  <2>2. PICK d \in Decided : d = Verdict(req[q].verdict)
    BY DEF Verdict, Decided
  <2>3. \/ inter' = inter
        \/ inter' = [inter EXCEPT ![r][c] = d]
    BY <1>10, <2>1, <2>2 DEF DecideApproval
  <2>4. inter' \in [Runs -> [Gated -> {"none", "pending"} \cup Decided]]
    <3>1. CASE inter' = inter
      BY <3>1 DEF TypeOK
    <3>2. CASE inter' = [inter EXCEPT ![r][c] = d]
      BY <3>2 DEF TypeOK
    <3>3. QED
      BY <2>3, <3>1, <3>2
  <2>5. QED
    BY <1>10, <2>4, GotoMoves DEF DecideApproval, StatementOK, StatementFails, TypeOK, RequestPC
<1>11. ASSUME NEW q \in Requests, CheckComplete(q)
     PROVE  TypeOK'
  BY <1>11, GotoMoves DEF CheckComplete, AfterVerdict, StatementOK, StatementFails, TypeOK,
       RequestPC
<1>12. ASSUME NEW q \in Requests, FoldState(q)
     PROVE  TypeOK'
  BY <1>12, GotoMoves DEF FoldState, AfterVerdict, StatementOK, StatementFails, TypeOK,
       RequestPC
<1>13. ASSUME NEW q \in Requests, FoldRead(q)
     PROVE  TypeOK'
  BY <1>13, GotoMoves DEF FoldRead, FoldError, StatementOK, StatementFails, TypeOK,
       RequestPC
<1>14. ASSUME NEW q \in Requests, FoldExecute(q)
     PROVE  TypeOK'
  <2>1. req[q].target \in Runs
    BY <1>14 DEF FoldExecute, RequestKnows, Knows
  <2>2. \A k \in Calls : ran[req[q].target][k] \in 0..MaxExec
    BY <2>1 DEF TypeOK
  <2>3. ran' \in [Runs -> [Calls -> 0..MaxExec]]
    BY <1>14, <2>1, <2>2 DEF FoldExecute, TypeOK
  <2>4. QED
    BY <1>14, <2>3, GotoMoves DEF FoldExecute, TypeOK, RequestPC
<1>15. ASSUME NEW q \in Requests, CommitFold(q)
     PROVE  TypeOK'
  <2>1. PICK r \in Runs : r = req[q].target
    BY <1>15 DEF CommitFold, RequestKnows, Knows
  <2>2. \/ answers' = answers /\ batch' = batch
        \/ /\ batch[r] = "open"
           /\ answers' = [answers EXCEPT ![r] = @ + 1]
           /\ batch' = [batch EXCEPT ![r] = "folded"]
    BY <1>15, <2>1 DEF CommitFold
  <2>3. answers' \in [Runs -> 0..2] /\ batch' \in [Runs -> {"none", "open", "folded"}]
    <3>1. CASE answers' = answers /\ batch' = batch
      BY <3>1 DEF TypeOK
    <3>2. CASE /\ batch[r] = "open"
               /\ answers' = [answers EXCEPT ![r] = @ + 1]
               /\ batch' = [batch EXCEPT ![r] = "folded"]
      <4>1. answers \in [Runs -> 0..2] /\ answers[r] <= 1
        BY <3>2 DEF TypeOK, AnswersCounted
      <4>2. answers' \in [Runs -> 0..2]
        BY <3>2, <4>1
      <4>3. QED
        BY <3>2, <4>2 DEF TypeOK
    <3>3. QED
      BY <2>2, <3>1, <3>2
  <2>4. QED
    BY <1>15, <2>3, GotoMoves DEF CommitFold, FoldError, StatementOK, StatementFails, TypeOK,
       RequestPC
<1>16. ASSUME NEW q \in Requests, Submit(q)
     PROVE  TypeOK'
  <2>1. active' \in Runs \cup {NoRun}
    BY <1>16 DEF Submit, TypeOK
  <2>2. phase' \in [Runs -> Phases]
    BY <1>16 DEF Submit, TypeOK, Phases
  <2>3. buried' \in [Runs -> BOOLEAN]
    BY <1>16 DEF Submit, TypeOK
  <2>4. QED
    BY <1>16, <2>1, <2>2, <2>3, GotoMoves DEF Submit, TypeOK, RequestPC
<1>17. ASSUME NEW q \in Requests, Disconnect(q)
     PROVE  TypeOK'
  <2>1. [req[q] EXCEPT !.client = FALSE] \in Request
    BY DEF TypeOK, Request
  <2>2. QED
    BY <1>17, <2>1 DEF Disconnect, TypeOK
<1>18. ASSUME NEW q \in Requests, NEW r \in Runs, NEW c \in Gated, NEW v \in BOOLEAN,
            ResumeStart(q, r, c, v)
     PROVE  TypeOK'
  BY <1>18 DEF ResumeStart, Request, TypeOK, RequestPC
<1>19. CASE SweepExpiredInteractions
  BY <1>19 DEF SweepExpiredInteractions, Decided, TypeOK, RequestPC
<1>20. CASE CrashRestart
  BY <1>20, NoRequestType DEF CrashRestart, TypeOK, RequestPC, Phases
<1>21. CASE UNCHANGED vars
  BY <1>21 DEF TypeOK, RequestPC
<1>22. QED
  BY <1>1, <1>2, <1>3, <1>4, <1>5, <1>6, <1>7, <1>8, <1>9, <1>10, <1>11, <1>12, <1>13,
       <1>14, <1>15, <1>16, <1>17, <1>18, <1>19, <1>20, <1>21, <1>23, <1>24
       DEF Next, RunStep, RequestStep

\* The life of a run: it starts when none is active, suspends or fails while it
\* is the active one, and ends for good.
LifeMoves(r) ==
  \/ phase'[r] = phase[r] /\ (active' = r <=> active = r)
  \/ phase[r] = "none" /\ phase'[r] = "running" /\ active' = r
  \/ phase[r] = "running" /\ phase'[r] = "emitting" /\ active = r /\ active' = r
  \/ /\ phase[r] = "emitting" /\ phase'[r] = "failing" /\ active = r /\ active' = r
     /\ \E c \in Gated : inter[r][c] = "none"
  \/ phase[r] = "failing" /\ phase'[r] = "voiding" /\ active = r /\ active' = r
  \/ /\ phase[r] \in {"running", "emitting", "failing", "voiding"} /\ phase'[r] = "ended"
     /\ active = r /\ active' = NoRun

\* No step moves a run otherwise.
LEMMA LifeStep ==
  ASSUME InterInv, [Next]_vars, NEW s \in Runs
  PROVE  LifeMoves(s)
<1> USE DEF InterInv, TypeOK, LifeMoves
<1>1. CASE UNCHANGED run
  BY <1>1
<1>2. NoRun \notin Runs
  BY DEF Runs, NoRun
<1>3. ASSUME NEW r \in Runs,
             RunEnds(r) \/ Suspend(r) \/ SuspendEnds(r) \/ InterruptFails(r)
             \/ VoidPendingInteractions(r) \/ VoidEnds(r)
      PROVE  LifeMoves(s)
  BY <1>2, <1>3 DEF RunEnds, Suspend, SuspendEnds, InterruptFails, VoidPendingInteractions,
       VoidEnds
<1>7. ASSUME NEW r \in Runs, NEW c \in Gated, VoidRow(r, c)
      PROVE  LifeMoves(s)
  BY <1>7 DEF VoidRow
<1>4. ASSUME NEW q \in Requests, Submit(q)
      PROVE  LifeMoves(s)
  BY <1>2, <1>4 DEF Submit
<1>5. CASE CrashRestart
  BY <1>2, <1>5 DEF CrashRestart, ActiveIsLive
<1>6. QED
  BY <1>1, <1>3, <1>4, <1>5, <1>7 DEF Next, RunStep, RequestStep, EmitInterrupt, ChatStart,
       Reconcile, WaitForIdle, DecideApproval, CheckComplete, FoldState, FoldRead,
       FoldExecute, CommitFold, Disconnect, ResumeStart, SweepExpiredInteractions

\* A row is written by its run's interrupt and decided by the run's void or once
\* the run is over.
RowMoves(r, c) ==
  \/ inter'[r][c] = inter[r][c]
  \/ /\ inter[r][c] = "none" /\ inter'[r][c] = "pending"
     /\ phase[r] = "emitting" /\ phase'[r] = "emitting" /\ batch'[r] = "open"
  \/ /\ inter[r][c] = "pending" /\ inter'[r][c] \in Decided
     /\ Over(r) /\ phase'[r] = phase[r]

\* No step writes a row otherwise.
LEMMA RowStep ==
  ASSUME InterInv, [Next]_vars, NEW s \in Runs, NEW d \in Gated
  PROVE  RowMoves(s, d)
<1> USE DEF InterInv, TypeOK, RowMoves
<1>1. CASE UNCHANGED inter
  BY <1>1
<1>2. ASSUME NEW r \in Runs, NEW c \in Gated, VoidRow(r, c)
      PROVE  RowMoves(s, d)
  <2>1. phase[r] = "voiding" /\ phase' = phase
    BY <1>2 DEF VoidRow
  <2>2. CASE inter'[s][d] = inter[s][d]
    BY <2>2
  <2>3. CASE inter'[s][d] # inter[s][d]
    <3>1. inter' = [inter EXCEPT ![r][c] = IF @ = "pending" THEN "rejected" ELSE @]
      BY <1>2, <2>3 DEF VoidRow
    <3>2. s = r /\ d = c
      BY <2>3, <3>1
    <3>3. inter[s][d] = "pending" /\ inter'[s][d] = "rejected"
      BY <2>3, <3>1, <3>2
    <3>4. QED
      BY <2>1, <3>2, <3>3 DEF Over, Decided
  <2>4. QED
    BY <2>2, <2>3
<1>3. ASSUME NEW r \in Runs, NEW c \in Gated, EmitInterrupt(r, c)
      PROVE  RowMoves(s, d)
  BY <1>3 DEF EmitInterrupt, CreateInteractionBatch
<1>4. ASSUME NEW q \in Requests, DecideApproval(q)
      PROVE  RowMoves(s, d)
  <2>1. PICK r \in Runs, c \in Gated : r = req[q].target /\ c = req[q].call
    BY <1>4 DEF DecideApproval, RequestKnows, Knows
  <2>2. phase[r] = "ended" /\ phase' = phase
    BY <1>4, <2>1 DEF DecideApproval, RequestKnows, Knows
  <2>3. PICK e \in Decided : e = Verdict(req[q].verdict)
    BY DEF Verdict, Decided
  <2>4. CASE inter[r][c] = "pending" /\ inter' = [inter EXCEPT ![r][c] = e]
    BY <2>2, <2>4 DEF Over
  <2>5. QED
    BY <1>1, <1>4, <2>1, <2>3, <2>4 DEF DecideApproval
<1>5. CASE SweepExpiredInteractions
  <2>1. CASE inter'[s][d] # inter[s][d]
    <3>1. /\ inter[s][d] = "pending" /\ inter'[s][d] = "expired"
          /\ s # active /\ phase' = phase
      BY <1>5, <2>1 DEF SweepExpiredInteractions
    <3>2. phase[s] = "ended"
      BY <3>1 DEF ActiveIsLive, RowsNeedABatch, Phases
    <3>3. QED
      BY <3>1, <3>2 DEF Decided, Over
  <2>2. QED
    BY <2>1
<1>6. QED
  BY <1>1, <1>2, <1>3, <1>4, <1>5 DEF Next, RunStep, RequestStep, RunEnds, Suspend,
       SuspendEnds, InterruptFails, VoidPendingInteractions, VoidEnds, ChatStart, Reconcile,
       WaitForIdle, CheckComplete, FoldState, FoldRead, FoldExecute, CommitFold, Submit,
       Disconnect, ResumeStart, CrashRestart

\* A batch is opened by an interrupt, folded by a commit when its run is over and
\* no verdict is missing, and answered by that commit or by a loop whose interrupt
\* failed.
BatchMoves(r) ==
  \/ batch'[r] = batch[r] /\ answers'[r] = answers[r]
  \/ /\ phase[r] = "emitting" /\ batch'[r] = "open" /\ answers'[r] = answers[r]
     /\ inter' # inter /\ \E c \in Gated : inter'[r][c] # "none"
  \/ /\ batch'[r] = batch[r] /\ answers'[r] = 1
     /\ phase[r] = "emitting" /\ phase'[r] = "failing"
  \/ /\ batch[r] = "open" /\ batch'[r] = "folded" /\ answers'[r] = answers[r] + 1
     /\ Over(r) /\ Pending(r) = {} /\ inter' = inter

\* No step touches a batch otherwise.
LEMMA BatchStep ==
  ASSUME InterInv, [Next]_vars, NEW s \in Runs
  PROVE  BatchMoves(s)
<1> USE DEF InterInv, TypeOK, BatchMoves
<1>1. CASE UNCHANGED <<batch, answers>>
  BY <1>1
<1>2. ASSUME NEW r \in Runs, InterruptFails(r)
      PROVE  BatchMoves(s)
  BY <1>2 DEF InterruptFails
<1>3. ASSUME NEW r \in Runs, NEW c \in Gated, EmitInterrupt(r, c)
      PROVE  BatchMoves(s)
  BY <1>3 DEF EmitInterrupt, CreateInteractionBatch
<1>4. ASSUME NEW q \in Requests, CommitFold(q)
      PROVE  BatchMoves(s)
  <2>1. PICK r \in Runs : r = req[q].target
    BY <1>4 DEF CommitFold, RequestKnows, Knows
  <2>2. Over(r) /\ Pending(r) = {} /\ inter' = inter
    BY <1>4, <2>1 DEF CommitFold, RequestKnows, Knows
  <2>3. CASE /\ batch[r] = "open"
             /\ answers' = [answers EXCEPT ![r] = @ + 1]
             /\ batch' = [batch EXCEPT ![r] = "folded"]
    BY <2>2, <2>3
  <2>4. QED
    BY <1>1, <1>4, <2>1, <2>3 DEF CommitFold
<1>5. QED
  BY <1>1, <1>2, <1>3, <1>4 DEF Next, RunStep, RequestStep, RunEnds, Suspend, SuspendEnds,
       VoidPendingInteractions, VoidRow, VoidEnds, ChatStart, Reconcile, WaitForIdle,
       DecideApproval, CheckComplete, FoldState, FoldRead, FoldExecute, Submit, Disconnect,
       ResumeStart, SweepExpiredInteractions, CrashRestart

\* A call is executed at a fold, of a run that is over and fully decided, when it
\* needs no approval or has it.
CallMoves(r, c) ==
  \/ ran'[r][c] = ran[r][c]
  \/ /\ c \in ToExecute(r)
     /\ Over(r) /\ Pending(r) = {} /\ inter' = inter /\ phase' = phase

\* No step executes a call otherwise.
LEMMA CallStep ==
  ASSUME InterInv, [Next]_vars, NEW s \in Runs, NEW k \in Calls
  PROVE  CallMoves(s, k)
<1> USE DEF InterInv, TypeOK, CallMoves
<1>1. CASE UNCHANGED ran
  BY <1>1
<1>2. ASSUME NEW q \in Requests, FoldExecute(q)
      PROVE  CallMoves(s, k)
  <2>1. PICK r \in Runs : r = req[q].target
    BY <1>2 DEF FoldExecute, RequestKnows, Knows
  <2>2. Over(r) /\ Pending(r) = {} /\ inter' = inter /\ phase' = phase
    BY <1>2, <2>1 DEF FoldExecute, RequestKnows, Knows
  <2>3. ran' = [ran EXCEPT ![r] = [c \in Calls |->
                  IF c \in ToExecute(r) /\ @[c] < MaxExec THEN @[c] + 1 ELSE @[c]]]
    BY <1>2, <2>1 DEF FoldExecute
  <2>4. QED
    BY <2>2, <2>3
<1>3. QED
  BY <1>1, <1>2 DEF Next, RunStep, RequestStep, RunEnds, Suspend, SuspendEnds,
       InterruptFails, VoidPendingInteractions, VoidRow, VoidEnds, EmitInterrupt, ChatStart,
       Reconcile, WaitForIdle, DecideApproval, CheckComplete, FoldState, FoldRead, CommitFold,
       Submit,
       Disconnect, ResumeStart, SweepExpiredInteractions, CrashRestart

-----------------------------------------------------------------------------
(* The invariant is inductive.                                             *)

\* Every step moves every run, row, batch and call as above.
Moves ==
  \A r \in Runs :
    /\ LifeMoves(r) /\ BatchMoves(r)
    /\ \A c \in Gated : RowMoves(r, c)
    /\ \A c \in Calls : CallMoves(r, c)

\* The four lemmas together, with the types of both states.
LEMMA MovesStep ==
  ASSUME InterInv, [Next]_vars
  PROVE  Moves /\ TypeOK /\ TypeOK'
  BY LifeStep, RowStep, BatchStep, CallStep, TypeStep DEF Moves, InterInv

\* A run that is over stays over, its rows are never taken back, and with no
\* verdict missing none will be missing again.
LEMMA EndedStays ==
  ASSUME InterInv, [Next]_vars, NEW r \in Runs, Over(r)
  PROVE  /\ Over(r)' /\ (phase[r] = "ended" => phase'[r] = "ended")
         /\ \A c \in Gated : (inter'[r][c] = "none") <=> (inter[r][c] = "none")
         /\ Pending(r) = {} => Pending(r)' = {} /\ inter'[r] = inter[r]
         /\ (batch[r] # "none") => (batch'[r] # "none")
<1>1. Over(r)' /\ (phase[r] = "ended" => phase'[r] = "ended")
  BY MovesStep DEF Moves, LifeMoves, Over
<1>2. \A c \in Gated :
        \/ inter'[r][c] = inter[r][c]
        \/ inter[r][c] = "pending" /\ inter'[r][c] \in Decided
  BY <1>1, MovesStep DEF Moves, RowMoves, Over
<1>3. \A c \in Gated : (inter'[r][c] = "none") <=> (inter[r][c] = "none")
  BY <1>2 DEF Decided
<1>4. ASSUME Pending(r) = {}
      PROVE  Pending(r)' = {} /\ inter'[r] = inter[r]
  <2>1. \A c \in Gated : inter'[r][c] = inter[r][c] /\ inter[r][c] # "pending"
    BY <1>2, <1>4 DEF Pending
  <2>2. inter[r] \in [Gated -> {"none", "pending"} \cup Decided]
        /\ inter'[r] \in [Gated -> {"none", "pending"} \cup Decided]
    BY MovesStep DEF TypeOK
  <2>3. inter'[r] = inter[r]
    BY <2>1, <2>2
  <2>4. QED
    BY <2>1, <2>3 DEF Pending
<1>5. (batch[r] # "none") => (batch'[r] # "none")
  BY MovesStep DEF Moves, BatchMoves
<1>6. QED
  BY <1>1, <1>3, <1>4, <1>5

\* A run that has a row keeps it.
LEMMA RowStays ==
  ASSUME InterInv, [Next]_vars, NEW r \in Runs, NEW c \in Gated, inter[r][c] # "none"
  PROVE  inter'[r][c] # "none"
  BY MovesStep DEF Moves, RowMoves, Decided

\* Every step keeps what is known of live runs and of rows without a batch.
LEMMA LiveStep ==
  ASSUME InterInv, [Next]_vars
  PROVE  ActiveIsLive' /\ LiveRowsUndecided' /\ RowsNeedABatch'
<1> USE MovesStep DEF Moves
<1>1. ActiveIsLive'
  <2>1. NoRun \notin Runs
    BY DEF Runs, NoRun
  <2>2. QED
    BY <2>1 DEF LifeMoves, ActiveIsLive, InterInv
<1>2. LiveRowsUndecided'
  BY DEF LifeMoves, RowMoves, LiveRowsUndecided, InterInv, Over
<1>3. ASSUME NEW r \in Runs, phase'[r] \in {"none", "running"}, NEW c \in Gated
      PROVE  inter'[r][c] = "none"
  <2>1. phase[r] \in {"none", "running"}
    BY <1>3 DEF LifeMoves, TypeOK
  <2>2. QED
    BY <1>3, <2>1 DEF RowMoves, RowsNeedABatch, InterInv
<1>4. ASSUME NEW r \in Runs
      PROVE  batch'[r] = "none" <=> \A c \in Gated : inter'[r][c] = "none"
  <2>1. CASE batch'[r] = "none"
    <3>1. batch[r] = "none"
      BY <2>1 DEF BatchMoves
    <3>2. QED
      BY <2>1, <3>1 DEF RowMoves, RowsNeedABatch, InterInv
  <2>2. CASE \A c \in Gated : inter'[r][c] = "none"
    <3>1. \A c \in Gated : inter[r][c] = "none"
      BY <2>2, RowStays
    <3>2. QED
      BY <2>2, <3>1 DEF BatchMoves, RowsNeedABatch, InterInv
  <2>3. QED
    BY <2>1, <2>2
<1>5. QED
  BY <1>1, <1>2, <1>3, <1>4 DEF RowsNeedABatch

\* Every step keeps what is known of folds and of executed calls.
LEMMA FoldStep ==
  ASSUME InterInv, [Next]_vars
  PROVE  FoldsAreComplete' /\ OnlyApprovedCallsRun'
<1> USE MovesStep DEF Moves
<1>1. ASSUME NEW r \in Runs, Over(r), Pending(r) = {}
      PROVE  Over(r)' /\ Pending(r)' = {}
  BY <1>1, EndedStays
<1>2. ASSUME NEW r \in Runs, batch'[r] = "folded"
      PROVE  Over(r) /\ Pending(r) = {}
  BY <1>2 DEF BatchMoves, FoldsAreComplete, InterInv
<1>3. ASSUME NEW r \in Runs, NEW c \in Calls, ran'[r][c] > 0
      PROVE  Over(r) /\ Pending(r) = {}
  BY <1>3 DEF CallMoves, FoldsAreComplete, InterInv
<1>4. FoldsAreComplete'
  BY <1>1, <1>2, <1>3 DEF FoldsAreComplete
<1>5. ASSUME NEW r \in Runs, NEW c \in Gated, ran'[r][c] > 0
      PROVE  inter'[r][c] = "resolved"
  <2>1. c \in Calls /\ c \notin Plain
    BY DEF Calls
  <2>2. inter[r][c] = "resolved"
    BY <1>5, <2>1 DEF CallMoves, ToExecute, OnlyApprovedCallsRun, InterInv
  <2>3. QED
    BY <2>2 DEF RowMoves
<1>6. QED
  BY <1>4, <1>5 DEF OnlyApprovedCallsRun

\* Every step keeps the count of a batch's answers.
LEMMA AnswersStep ==
  ASSUME InterInv, [Next]_vars
  PROVE  AnswersCounted'
<1> USE MovesStep DEF Moves
<1> DEFINE Cut(r) == \E c \in Gated : inter[r][c] = "none"
           CutNext(r) == \E c \in Gated : inter'[r][c] = "none"
<1>1. ASSUME NEW r \in Runs
      PROVE  /\ phase'[r] \in {"none", "running", "emitting"} => answers'[r] = 0
             /\ phase'[r] \in {"failing", "voiding"} => CutNext(r)
             /\ batch'[r] # "folded" => answers'[r] <= 1 /\ (answers'[r] = 1 => CutNext(r))
             /\ batch'[r] = "folded" => answers'[r] > 0 /\ (answers'[r] = 2 => CutNext(r))
  <2>1. /\ answers[r] \in 0..2 /\ answers'[r] \in 0..2
        /\ phase[r] \in {"none", "running", "emitting"} => answers[r] = 0
        /\ phase[r] \in {"failing", "voiding"} => Cut(r)
        /\ batch[r] # "folded" => answers[r] <= 1 /\ (answers[r] = 1 => Cut(r))
        /\ batch[r] = "folded" => answers[r] > 0 /\ (answers[r] = 2 => Cut(r))
    BY DEF AnswersCounted, InterInv, TypeOK
  <2>2. phase[r] # "emitting" /\ Cut(r) => CutNext(r)
    BY DEF RowMoves
  <2>3. phase[r] = "emitting" /\ phase'[r] = "failing" => CutNext(r)
    BY DEF LifeMoves, RowMoves, Decided
  <2>4. phase'[r] \in {"none", "running", "emitting"} => answers'[r] = 0
    <3>1. phase'[r] \in {"none", "running", "emitting"}
            => phase[r] \in {"none", "running", "emitting"}
      BY DEF LifeMoves
    <3>2. QED
      BY <2>1, <3>1 DEF BatchMoves, Over
  <2>5. phase'[r] \in {"failing", "voiding"} => CutNext(r)
    BY <2>1, <2>2, <2>3 DEF LifeMoves
  <2>6. CASE phase[r] = "emitting"
    BY <2>1, <2>3, <2>4, <2>5, <2>6 DEF BatchMoves
  <2>7. CASE phase[r] # "emitting"
    BY <2>1, <2>2, <2>4, <2>5, <2>7 DEF BatchMoves
  <2>8. QED
    BY <2>6, <2>7
<1>2. AnswersCounted'
  BY <1>1 DEF AnswersCounted
<1>3. QED
  BY <1>2

\* The steps other than a void's own and a crash leave the void alone.
LEMMA VoidAlone ==
  ASSUME InterInv, [Next]_vars
  PROVE  \/ \E r \in Runs : VoidPendingInteractions(r)
         \/ \E r \in Runs, c \in Gated : VoidRow(r, c)
         \/ CrashRestart
         \/ /\ UNCHANGED <<toVoid, missed, crashes>>
            /\ \A s \in Runs : phase'[s] = "voiding" => phase[s] = "voiding"
<1> DEFINE Alone == /\ UNCHANGED <<toVoid, missed, crashes>>
                    /\ \A s \in Runs : phase'[s] = "voiding" => phase[s] = "voiding"
<1>1. ASSUME NEW r \in Runs,
             RunEnds(r) \/ Suspend(r) \/ SuspendEnds(r) \/ InterruptFails(r) \/ VoidEnds(r)
      PROVE  Alone
  BY <1>1 DEF RunEnds, Suspend, SuspendEnds, InterruptFails, VoidEnds, InterInv, TypeOK
<1>2. ASSUME NEW q \in Requests, Submit(q)
      PROVE  Alone
  BY <1>2 DEF Submit, InterInv, TypeOK
<1>3. UNCHANGED <<phase, toVoid, missed, crashes>> => Alone
  OBVIOUS
<1>4. QED
  BY <1>1, <1>2, <1>3 DEF Next, RunStep, RequestStep, EmitInterrupt, ChatStart, Reconcile,
       WaitForIdle, DecideApproval, CheckComplete, FoldState, FoldRead, FoldExecute,
       CommitFold, Disconnect, ResumeStart, SweepExpiredInteractions

\* A run that is over gets no new pending row.
LEMMA PendingShrinks ==
  ASSUME InterInv, [Next]_vars, NEW r \in Runs, Over(r)
  PROVE  Pending(r)' \subseteq Pending(r)
<1>1. \A c \in Gated : inter'[r][c] = "pending" => inter[r][c] = "pending"
  BY MovesStep DEF Moves, RowMoves, Decided, Over
<1>2. QED
  BY <1>1 DEF Pending

\* Every step keeps what a void still has to visit.
LEMMA VoidCoversStep ==
  ASSUME InterInv, [Next]_vars
  PROVE  VoidCovers'
<1> USE DEF InterInv, TypeOK
<1>1. ASSUME NEW s \in Runs, phase'[s] = "voiding"
      PROVE  Pending(s)' \subseteq toVoid' \cup missed'[s]
  <2>1. ASSUME NEW r \in Runs, VoidPendingInteractions(r)
        PROVE  Pending(s)' \subseteq toVoid' \cup missed'[s]
    <3>1. s = r
      <4>1. CASE phase[s] = "voiding"
        BY <2>1, <4>1 DEF VoidPendingInteractions, ActiveIsLive
      <4>2. CASE phase[s] # "voiding"
        BY <1>1, <2>1, <4>2 DEF VoidPendingInteractions
      <4>3. QED
        BY <4>1, <4>2
    <3>2. Pending(s)' = Pending(s)
      BY <2>1 DEF VoidPendingInteractions, Pending
    <3>3. QED
      BY <2>1, <3>1, <3>2 DEF VoidPendingInteractions
  <2>2. ASSUME NEW r \in Runs, NEW c \in Gated, VoidRow(r, c)
        PROVE  Pending(s)' \subseteq toVoid' \cup missed'[s]
    <3>1. s = r /\ phase[s] = "voiding"
      BY <1>1, <2>2 DEF VoidRow, ActiveIsLive
    <3>2. Pending(s)' \subseteq Pending(s) /\ Pending(s) \subseteq toVoid \cup missed[s]
      BY <3>1, PendingShrinks DEF VoidCovers, Over
    <3>3. \/ c \notin Pending(s)' /\ missed'[s] = missed[s]
          \/ missed'[s] = missed[s] \cup {c}
      BY <2>2, <3>1 DEF VoidRow, Pending
    <3>4. toVoid' = toVoid \ {c}
      BY <2>2 DEF VoidRow
    <3>5. QED
      BY <3>2, <3>3, <3>4
  <2>3. CASE CrashRestart
    BY <1>1, <2>3 DEF CrashRestart, ActiveIsLive
  <2>4. CASE UNCHANGED <<toVoid, missed>> /\ phase[s] = "voiding"
    BY <2>4, PendingShrinks DEF VoidCovers, Over
  <2>5. QED
    BY <1>1, <2>1, <2>2, <2>3, <2>4, VoidAlone
<1>2. QED
  BY <1>1 DEF VoidCovers

\* A run comes to its end by one of three steps, or by a crash.
LEMMA EndsBy ==
  ASSUME InterInv, [Next]_vars, NEW r \in Runs, phase[r] # "ended", phase'[r] = "ended"
  PROVE  RunEnds(r) \/ SuspendEnds(r) \/ VoidEnds(r) \/ CrashRestart
<1>1. ASSUME NEW u \in Runs,
             \/ RunEnds(u) \/ Suspend(u) \/ SuspendEnds(u) \/ InterruptFails(u)
             \/ VoidPendingInteractions(u) \/ VoidEnds(u)
      PROVE  RunEnds(r) \/ SuspendEnds(r) \/ VoidEnds(r)
  <2>1. u = r
    BY <1>1 DEF RunEnds, Suspend, SuspendEnds, InterruptFails, VoidPendingInteractions,
         VoidEnds, InterInv, TypeOK
  <2>2. QED
    BY <1>1, <2>1 DEF Suspend, InterruptFails, VoidPendingInteractions, InterInv, TypeOK
<1>2. ASSUME NEW q \in Requests, Submit(q)
      PROVE  FALSE
  BY <1>2 DEF Submit, InterInv, TypeOK
<1>3. UNCHANGED phase => FALSE
  OBVIOUS
<1>4. QED
  BY <1>1, <1>2, <1>3 DEF Next, RunStep, RequestStep, EmitInterrupt, VoidRow, ChatStart,
       Reconcile, WaitForIdle, DecideApproval, CheckComplete, FoldState, FoldRead,
       FoldExecute, CommitFold, Disconnect, ResumeStart, SweepExpiredInteractions

\* Every step keeps the gate clear.
LEMMA GateStep ==
  ASSUME InterInv, [Next]_vars
  PROVE  GateClears'
<1> USE DEF InterInv, TypeOK
<1>1. ASSUME crashes' = 0, NEW r \in Runs, phase'[r] = "ended",
             \E c \in Gated : inter'[r][c] = "none"
      PROVE  Pending(r)' \subseteq missed'[r]
  <2>1. crashes = 0 /\ ~CrashRestart
    BY <1>1, VoidAlone DEF CrashRestart, VoidPendingInteractions, VoidRow
  <2>2. CASE phase[r] = "ended"
    <3>1. Pending(r)' \subseteq Pending(r) /\ Pending(r) \subseteq missed[r]
      BY <1>1, <2>1, <2>2, EndedStays, PendingShrinks DEF GateClears, Over
    <3>2. missed[r] \subseteq missed'[r]
      BY <2>1, <2>2, VoidAlone DEF VoidPendingInteractions, VoidRow
    <3>3. QED
      BY <3>1, <3>2
  <2>3. CASE phase[r] # "ended"
    <3>1. ASSUME RunEnds(r)
          PROVE  Pending(r)' = {}
      BY <3>1 DEF RunEnds, RowsNeedABatch, Pending
    <3>2. ASSUME SuspendEnds(r)
          PROVE  FALSE
      BY <1>1, <3>2 DEF SuspendEnds
    <3>3. ASSUME VoidEnds(r)
          PROVE  Pending(r)' \subseteq missed'[r]
      BY <3>3 DEF VoidEnds, VoidCovers, Pending
    <3>4. QED
      BY <1>1, <2>1, <2>3, <3>1, <3>2, <3>3, EndsBy
  <2>4. QED
    BY <2>2, <2>3
<1>2. QED
  BY <1>1 DEF GateClears

\* What a request knows stays true while it stays where it is.
LEMMA KnowsStays ==
  ASSUME InterInv, [Next]_vars, NEW p \in Requests,
         req'[p].pc = req[p].pc, req'[p].target = req[p].target, req'[p].call = req[p].call
  PROVE  Knows(p)'
<1>1. Knows(p)
  BY DEF InterInv, RequestKnows
<1>2. CASE req[p].pc \in {"waitIdle", "decide", "checkComplete", "foldState"}
  <2>1. PICK r \in Runs, c \in Gated : r = req[p].target /\ c = req[p].call
    BY <1>1, <1>2 DEF Knows
  <2>2. inter'[r][c] # "none"
    BY <1>1, <1>2, <2>1, RowStays DEF Knows
  <2>3. phase[r] = "ended" => phase'[r] = "ended"
    BY EndedStays DEF Over
  <2>4. QED
    BY <1>1, <1>2, <2>1, <2>2, <2>3 DEF Knows
<1>3. CASE req[p].pc \in {"foldRead", "execute", "commit"}
  <2>1. PICK r \in Runs : r = req[p].target
    BY <1>1, <1>3 DEF Knows
  <2>2. Over(r) /\ batch[r] # "none" /\ Pending(r) = {}
    BY <1>1, <1>3, <2>1 DEF Knows
  <2>3. Over(r)' /\ batch'[r] # "none" /\ Pending(r)' = {}
    BY <2>2, EndedStays
  <2>4. Pending(r)' = Pending(req[p].target)'
    BY <2>1 DEF Pending
  <2>5. QED
    BY <1>3, <2>1, <2>3, <2>4 DEF Knows, Over
<1>4. QED
  BY <1>2, <1>3 DEF Knows

\* A request that moves knows what its new place asks for.
LEMMA KnowsMoves ==
  ASSUME InterInv, [Next]_vars, NEW q \in Requests, NEW l \in RequestPC, Goto(q, l),
         \/ l \in {"idle", "reconcile", "submit"}
         \/ /\ l \in {"decide", "checkComplete", "foldState"}
            /\ req[q].target \in Runs /\ req[q].call \in Gated
            /\ inter[req[q].target][req[q].call] # "none"
            /\ phase[req[q].target] = "ended"
         \/ /\ l \in {"foldRead", "execute", "commit"}
            /\ req[q].target \in Runs
            /\ Over(req[q].target)
            /\ batch[req[q].target] # "none"
            /\ Pending(req[q].target) = {}
  PROVE  RequestKnows'
<1>1. /\ \A p \in Requests : p # q => req'[p] = req[p]
      /\ req'[q].pc = l
      /\ l # "idle" => req'[q].target = req[q].target /\ req'[q].call = req[q].call
  BY GotoMoves DEF InterInv
<1>2. ASSUME NEW p \in Requests, p # q
      PROVE  Knows(p)'
  BY <1>1, <1>2, KnowsStays
<1>3. CASE l \in {"idle", "reconcile", "submit"}
  BY <1>1, <1>2, <1>3 DEF RequestKnows, Knows
<1>4. CASE /\ l \in {"decide", "checkComplete", "foldState"}
           /\ req[q].target \in Runs /\ req[q].call \in Gated
           /\ inter[req[q].target][req[q].call] # "none"
           /\ phase[req[q].target] = "ended"
  <2>1. PICK r \in Runs, c \in Gated : r = req[q].target /\ c = req[q].call
    BY <1>4
  <2>2. inter'[r][c] # "none" /\ phase'[r] = "ended"
    BY <1>4, <2>1, RowStays, EndedStays DEF Over
  <2>3. req'[q].target = r /\ req'[q].call = c
    BY <1>1, <1>4, <2>1
  <2>4. Knows(q)'
    BY <1>1, <1>4, <2>2, <2>3 DEF Knows
  <2>5. QED
    BY <1>2, <2>4 DEF RequestKnows
<1>5. CASE /\ l \in {"foldRead", "execute", "commit"}
           /\ req[q].target \in Runs
           /\ Over(req[q].target)
           /\ batch[req[q].target] # "none"
           /\ Pending(req[q].target) = {}
  <2>1. PICK r \in Runs : r = req[q].target
    BY <1>5
  <2>2. Over(r)' /\ batch'[r] # "none" /\ Pending(r)' = {}
    BY <1>5, <2>1, EndedStays
  <2>3. req'[q].target = r
    BY <1>1, <1>5, <2>1
  <2>4. Knows(q)'
    BY <1>1, <1>5, <2>2, <2>3 DEF Knows, Pending, Over
  <2>5. QED
    BY <1>2, <2>4 DEF RequestKnows
<1>6. QED
  BY <1>3, <1>4, <1>5

\* The steps of a run, the sweep, and a client that goes away leave every request
\* where it is.
LEMMA KnowsStep ==
  ASSUME InterInv, [Next]_vars
  PROVE  RequestKnows'
<1> USE DEF InterInv
<1>1. CASE UNCHANGED req
  BY <1>1, KnowsStays DEF RequestKnows
<1>2. ASSUME NEW q \in Requests, ChatStart(q)
      PROVE  RequestKnows'
  BY <1>2, KnowsMoves DEF ChatStart, RequestPC
<1>3. ASSUME NEW q \in Requests, Reconcile(q)
      PROVE  RequestKnows'
  <2>1. CASE Goto(q, "submit")
    BY <2>1, KnowsMoves DEF RequestPC
  <2>2. ASSUME NEW r \in DecidedButUnfolded,
               req' = [req EXCEPT ![q].pc = "foldRead", ![q].target = r]
        PROVE  RequestKnows'
    <3>1. r \in Runs /\ batch[r] = "open" /\ Pending(r) = {}
      BY DEF DecidedButUnfolded
    <3>2. Over(r)
      BY <3>1 DEF LiveRowsUndecided, RowsNeedABatch, Pending
    <3>3. Over(r)' /\ batch'[r] # "none" /\ Pending(r)' = {}
      BY <3>1, <3>2, EndedStays
    <3>4. /\ \A p \in Requests : p # q => req'[p] = req[p]
          /\ req'[q].pc = "foldRead" /\ req'[q].target = r
      BY <2>2 DEF TypeOK, Request
    <3>5. Knows(q)'
      BY <3>1, <3>3, <3>4 DEF Knows, Pending, Over
    <3>6. QED
      BY <3>4, <3>5, KnowsStays DEF RequestKnows
  <2>3. QED
    BY <1>3, <2>1, <2>2 DEF Reconcile
<1>4. ASSUME NEW q \in Requests, NEW r \in Runs, NEW c \in Gated, NEW v \in BOOLEAN,
             ResumeStart(q, r, c, v)
      PROVE  RequestKnows'
  <2>1. inter'[r][c] # "none"
    BY <1>4 DEF ResumeStart
  <2>2. /\ \A p \in Requests : p # q => req'[p] = req[p]
        /\ req'[q].pc = "waitIdle" /\ req'[q].target = r /\ req'[q].call = c
    BY <1>4 DEF ResumeStart, TypeOK, Request
  <2>3. Knows(q)'
    BY <2>1, <2>2 DEF Knows
  <2>4. QED
    BY <2>2, <2>3, KnowsStays DEF RequestKnows
<1>5. ASSUME NEW q \in Requests, WaitForIdle(q)
      PROVE  RequestKnows'
  <2>1. CASE Goto(q, "idle")
    BY <2>1, KnowsMoves DEF RequestPC
  <2>2. CASE active = NoRun /\ Goto(q, "decide")
    <3>1. /\ req[q].target \in Runs /\ req[q].call \in Gated
          /\ inter[req[q].target][req[q].call] # "none"
      BY <1>5 DEF WaitForIdle, RequestKnows, Knows
    <3>2. NoRun \notin Runs
      BY DEF Runs, NoRun
    <3>3. phase[req[q].target] = "ended"
      <4>1. PICK r \in Runs, c \in Gated : r = req[q].target /\ inter[r][c] # "none"
        BY <3>1
      <4>2. phase[r] \notin {"none", "running", "emitting", "failing", "voiding"}
        BY <2>2, <3>2, <4>1 DEF ActiveIsLive, RowsNeedABatch
      <4>3. QED
        BY <4>1, <4>2 DEF TypeOK, Phases
    <3>4. QED
      BY <2>2, <3>1, <3>3, KnowsMoves DEF RequestPC
  <2>3. QED
    BY <1>5, <2>1, <2>2 DEF WaitForIdle
<1>6. ASSUME NEW q \in Requests, DecideApproval(q)
      PROVE  RequestKnows'
  <2>1. /\ req[q].target \in Runs /\ req[q].call \in Gated
        /\ inter[req[q].target][req[q].call] # "none"
        /\ phase[req[q].target] = "ended"
    BY <1>6 DEF DecideApproval, RequestKnows, Knows
  <2>2. Goto(q, "checkComplete") \/ Goto(q, "foldState") \/ Goto(q, "idle")
    BY <1>6 DEF DecideApproval
  <2>3. QED
    BY <2>1, <2>2, KnowsMoves DEF RequestPC
<1>7. ASSUME NEW q \in Requests, CheckComplete(q) \/ FoldState(q)
      PROVE  RequestKnows'
  <2>1. CASE Goto(q, "idle")
    BY <2>1, KnowsMoves DEF RequestPC
  <2>2. CASE Pending(req[q].target) = {} /\ Goto(q, "foldRead")
    <3>1. /\ req[q].target \in Runs /\ req[q].call \in Gated
          /\ inter[req[q].target][req[q].call] # "none"
          /\ phase[req[q].target] = "ended"
      BY <1>7 DEF CheckComplete, FoldState, RequestKnows, Knows
    <3>2. batch[req[q].target] # "none"
      BY <3>1 DEF RowsNeedABatch
    <3>3. QED
      BY <2>2, <3>1, <3>2, KnowsMoves DEF RequestPC, Over
  <2>3. QED
    BY <1>7, <2>1, <2>2 DEF CheckComplete, FoldState, AfterVerdict
<1>8. ASSUME NEW q \in Requests, FoldRead(q) \/ FoldExecute(q) \/ CommitFold(q)
      PROVE  RequestKnows'
  <2>1. /\ req[q].target \in Runs
        /\ Over(req[q].target)
        /\ batch[req[q].target] # "none"
        /\ Pending(req[q].target) = {}
    BY <1>8 DEF FoldRead, FoldExecute, CommitFold, RequestKnows, Knows
  <2>2. \/ Goto(q, "submit") \/ Goto(q, "execute") \/ Goto(q, "commit") \/ Goto(q, "idle")
    BY <1>8 DEF FoldRead, FoldExecute, CommitFold, FoldError
  <2>3. QED
    BY <2>1, <2>2, KnowsMoves DEF RequestPC
<1>9. ASSUME NEW q \in Requests, Submit(q)
      PROVE  RequestKnows'
  BY <1>9, KnowsMoves DEF Submit, RequestPC
<1>10. ASSUME NEW q \in Requests, Disconnect(q)
       PROVE  RequestKnows'
  <2>1. \A p \in Requests : /\ req'[p].pc = req[p].pc
                            /\ req'[p].target = req[p].target
                            /\ req'[p].call = req[p].call
    BY <1>10 DEF Disconnect, TypeOK, Request
  <2>2. QED
    BY <2>1, KnowsStays DEF RequestKnows
<1>11. CASE CrashRestart
  <2>1. \A p \in Requests : req'[p].pc = "idle"
    BY <1>11, NoRequestType DEF CrashRestart
  <2>2. QED
    BY <2>1 DEF RequestKnows, Knows
<1>12. QED
  BY <1>1, <1>2, <1>3, <1>4, <1>5, <1>6, <1>7, <1>8, <1>9, <1>10, <1>11 DEF Next, RunStep,
       RequestStep, RunEnds, Suspend, SuspendEnds, InterruptFails, VoidPendingInteractions,
       VoidRow, VoidEnds, EmitInterrupt, SweepExpiredInteractions

\* Init establishes the invariant.
LEMMA InterInit == Init => InterInv
<1>1. Init => TypeOK
  BY NoRequestType DEF Init, TypeOK, Phases
<1>2. Init => ActiveIsLive
  BY DEF Init, ActiveIsLive, Runs, NoRun
<1>3. Init => LiveRowsUndecided /\ RowsNeedABatch /\ FoldsAreComplete /\ OnlyApprovedCallsRun
  BY DEF Init, LiveRowsUndecided, RowsNeedABatch, FoldsAreComplete, OnlyApprovedCallsRun, Calls
<1>4. Init => RequestKnows
  BY NoRequestType DEF Init, RequestKnows, Knows
<1>5. Init => AnswersCounted /\ VoidCovers /\ GateClears
  BY DEF Init, AnswersCounted, VoidCovers, GateClears
<1>6. QED
  BY <1>1, <1>2, <1>3, <1>4, <1>5 DEF InterInv

\* Every step keeps it.
LEMMA InterStep == InterInv /\ [Next]_vars => InterInv'
  BY TypeStep, LiveStep, KnowsStep, FoldStep, AnswersStep, VoidCoversStep, GateStep DEF InterInv

-----------------------------------------------------------------------------
(* The theorems.                                                           *)

\* The inductive invariant holds in every state of every behaviour.
THEOREM InterInvariant == Spec => []InterInv
  BY InterInit, InterStep, PTL DEF Spec

\* A gated call is executed at a fold only when the user approved it, however
\* verdicts, retries, the sweep, Stop, failed statements and crashes interleave.
THEOREM ApprovedOnly == Spec => []OnlyApprovedCallsRun
<1>1. InterInv => OnlyApprovedCallsRun
  BY DEF InterInv
<1>2. QED
  BY <1>1, InterInvariant, PTL

\* A batch is answered as a whole: FoldBatch runs nothing and stores nothing while
\* a verdict is missing, the folds of a fully interrupted batch store one answer
\* between them, and an abnormal end leaves pending only the rows whose void
\* failed.
THEOREM AnsweredWhole == Spec => []BatchAnsweredWhole
<1>1. InterInv => NoPartialFold
  <2>1. ASSUME InterInv, NEW r \in Runs, Pending(r) # {}
        PROVE  batch[r] # "folded" /\ \A c \in Calls : ran[r][c] = 0
    <3>1. batch[r] # "folded" /\ \A c \in Calls : ~(ran[r][c] > 0)
      BY <2>1 DEF InterInv, FoldsAreComplete
    <3>2. \A c \in Calls : ran[r][c] \in Nat
      BY <2>1 DEF InterInv, TypeOK
    <3>3. QED
      BY <3>1, <3>2
  <2>2. QED
    BY <2>1 DEF NoPartialFold
<1>2. InterInv => FoldStoredOnce
  <2>1. ASSUME InterInv, NEW r \in Runs
        PROVE  /\ batch[r] = "folded" => answers[r] > 0
               /\ (\A c \in Gated : inter[r][c] # "none") => answers[r] <= 1
    <3>1. answers[r] \in 0..2
      BY <2>1 DEF InterInv, TypeOK
    <3>2. /\ batch[r] # "folded" => answers[r] <= 1
          /\ batch[r] = "folded" =>
               answers[r] > 0 /\ (answers[r] = 2 => \E c \in Gated : inter[r][c] = "none")
      BY <2>1 DEF InterInv, AnswersCounted
    <3>3. QED
      BY <3>1, <3>2
  <2>2. QED
    BY <2>1 DEF FoldStoredOnce
<1>3. InterInv => BatchAnsweredWhole
  BY <1>1, <1>2 DEF BatchAnsweredWhole, InterInv
<1>4. QED
  BY <1>3, InterInvariant, PTL

\* A row that is resolved, rejected or expired is never written again: each
\* UPDATE of DecideApproval, the sweep and the void asks for a pending row.
THEOREM DecisionIsFinal == Spec => VerdictIsFinal
<1>1. InterInv /\ [Next]_vars
        => \A r \in Runs, c \in Gated : inter[r][c] \in Decided => inter'[r][c] = inter[r][c]
  BY MovesStep DEF Moves, RowMoves, Decided
<1>2. QED
  BY <1>1, InterInvariant, PTL DEF VerdictIsFinal, Spec
=============================================================================
