------------------------------- MODULE Ledger -------------------------------
(***************************************************************************)
(* The durable record of a session's runs: step intents and the usage      *)
(* ledger (internal/session/accounting_mw.go, emitter.go, pgstore.go), the *)
(* messages with their provisioned ids (pgmessagestore.go), the start-up   *)
(* reconciliation that reads them (runtime.go) and the paged reads of      *)
(* chatapi/history.go.  A cancelled run's row settles at once, while its   *)
(* loop may still be recording what it had begun, beside the next run's.   *)
(***************************************************************************)
EXTENDS Naturals, Sequences, FiniteSets, SequencesExt

CONSTANTS
  Runs,          \* runs of the session in the order of submission, 1..n
  Calls,         \* the calls of a parallel tool batch
  MaxRequests,   \* bound: provider requests
  MaxFaults,     \* bound: failed intent writes
  MaxCrashes     \* bound: restarts of the process

VARIABLES
  nextId,        \* messages_id_seq
  steps,         \* run_steps, in the order written
  msgs,          \* messages, in the order of seq
  usage,         \* usage_records
  total,         \* runs.usage: ledger rows summed
  row,           \* runs.status: "none", "active", "settled"
  loop,          \* per run: the worker's control point and memory
  call,          \* per run and call: where its middleware is
  verdict,       \* what reconciliation read of a stranded run
  faults, crashes,
  responses,     \* observed: provider responses that reported usage, per run
  bare,          \* observed: a provider request without an intent
  flight,        \* observed: an effect between its intent and its stored result, per run
  dropped        \* observed: provisioned ids whose message was discarded or lost

ledgerVars == <<nextId, steps, msgs, usage, total, row, loop, call, verdict, faults, crashes,
                responses, bare, flight, dropped>>

None == 0
Fresh == [pc |-> "idle", queue |-> <<>>, batch |-> None, stop |-> FALSE, recovered |-> FALSE]
NoCalls == [c \in Calls |-> "todo"]

LedgerTypeOK ==
  /\ nextId \in Nat
  /\ row \in [Runs -> {"none", "active", "settled"}]
  /\ \A r \in Runs : loop[r].pc \in {"idle", "model", "request", "settle", "store", "batch", "end"}
  /\ call \in [Runs -> [Calls -> {"todo", "push", "run", "done"}]]
  /\ verdict \in [Runs -> {"none", "bare", "completed", "interrupted"}]

LedgerInit ==
  /\ nextId = 0 /\ steps = <<>> /\ msgs = <<>> /\ usage = <<>>
  /\ total = [r \in Runs |-> 0] /\ row = [r \in Runs |-> "none"]
  /\ loop = [r \in Runs |-> Fresh] /\ call = [r \in Runs |-> NoCalls]
  /\ verdict = [r \in Runs |-> "none"] /\ faults = 0 /\ crashes = 0
  /\ responses = [r \in Runs |-> 0] /\ bare = FALSE
  /\ flight = [r \in Runs |-> FALSE] /\ dropped = {}

-----------------------------------------------------------------------------
(* The stores.                                                             *)

Attempts(r, kind) == {i \in DOMAIN steps : steps[i].run = r /\ steps[i].kind = kind}

\* The durable counter of AppendRunStep: attempts of this run and kind.
Attempt(r, kind) == 1 + Cardinality(Attempts(r, kind))

\* AppendRunStep, under the session's step lock.
AppendRunStep(r, kind, id) ==
  steps' = Append(steps, [run |-> r, kind |-> kind, attempt |-> Attempt(r, kind), id |-> id])

AppendUsageRecord(r, cause, in) ==
  usage' = Append(usage, [run |-> r, cause |-> cause, id |-> in.id, attempt |-> in.attempt])

SumUsage(r) == Cardinality({i \in DOMAIN usage : usage[i].run = r})

Appending == {"store", "batch"}

\* AppendMessage takes MAX(seq) + 1: of two inserts at the same time one hits
\* UNIQUE (session_id, seq).  A taken id hits the primary key.  The caller
\* logs the failure and goes on.
Inserts(r, id) ==
  IF \E i \in DOMAIN msgs : msgs[i].id = id THEN {FALSE}
  ELSE IF \E q \in Runs \ {r} : loop[q].pc \in Appending THEN BOOLEAN
  ELSE {TRUE}

AppendMessage(r, role, id) ==
  LET given == IF id = None THEN nextId + 1 ELSE id IN
  /\ nextId' = IF id = None THEN nextId + 1 ELSE nextId
  /\ \E ok \in Inserts(r, given) :
       /\ msgs' = IF ok THEN Append(msgs, [id |-> given, run |-> r, role |-> role]) ELSE msgs
       /\ dropped' = IF ok \/ \E i \in DOMAIN msgs : msgs[i].id = given THEN dropped ELSE dropped \cup {given}

-----------------------------------------------------------------------------
(* The queue of provisioned ids.                                           *)

NoIntent == [kind |-> "none", id |-> None, attempt |-> 0]

\* popAssistant: the newest assistant intent.
PopAssistant(q) ==
  LET at == {i \in DOMAIN q : q[i].kind = "assistant"} IN
  IF at = {} THEN [intent |-> NoIntent, rest |-> q]
  ELSE LET i == CHOOSE i \in at : \A j \in at : j <= i IN [intent |-> q[i], rest |-> RemoveAt(q, i)]

\* The entries of q at the positions at, in their order.
Kept(q, at) == [k \in 1..Cardinality(at) |-> q[CHOOSE i \in at : Cardinality({j \in at : j <= i}) = k]]

\* popTools: every tool intent, and the id of the first.
PopTools(q) ==
  LET tools == {i \in DOMAIN q : q[i].kind = "tool"} IN
  [id |-> IF tools = {} THEN None ELSE q[CHOOSE i \in tools : \A j \in tools : i <= j].id,
   rest |-> Kept(q, DOMAIN q \ tools)]

\* resetBatch
ResetBatch(r) == None

-----------------------------------------------------------------------------
(* A run.                                                                  *)

\* Bounded: an intent that failed to be written counts as a request.
Requests == faults + Cardinality({i \in DOMAIN steps : steps[i].kind = "assistant"})

To(r, pc) == loop' = [loop EXCEPT ![r].pc = pc]

\* Submit, and execute up to the loop: the user's turn is the first message.
Submit(r) ==
  /\ row[r] = "none" /\ \A q \in Runs : (q < r => row[q] = "settled") /\ row[q] # "active"
  /\ row' = [row EXCEPT ![r] = "active"]
  /\ AppendMessage(r, "user", None)
  /\ To(r, "model")
  /\ UNCHANGED <<steps, usage, total, call, verdict, faults, crashes, responses, bare, flight>>

\* stepIntentMW.BeforeModel: the intent, its id and the queue.
BeforeModel(r) ==
  /\ loop[r].pc = "model" /\ ~loop[r].stop /\ Requests < MaxRequests
  /\ nextId' = nextId + 1
  /\ AppendRunStep(r, "assistant", nextId + 1)
  /\ loop' = [loop EXCEPT ![r].pc = "request", ![r].queue = Append(@, [kind |-> "assistant", id |-> nextId + 1, attempt |-> Attempt(r, "assistant")])]
  /\ flight' = [flight EXCEPT ![r] = TRUE]
  /\ UNCHANGED <<msgs, usage, total, row, call, verdict, faults, crashes, responses, bare, dropped>>

\* The write fails: the error does not wrap ErrAbortRun, so the loop logs it
\* and makes the request.
IntentFails(r) ==
  /\ loop[r].pc = "model" /\ ~loop[r].stop /\ Requests < MaxRequests
  /\ faults < MaxFaults /\ faults' = faults + 1
  /\ loop' = [loop EXCEPT ![r].pc = "request"]
  /\ bare' = TRUE
  /\ UNCHANGED <<nextId, steps, msgs, usage, total, row, call, verdict, crashes, responses, flight, dropped>>

\* The provider answers with content; persistMessage begins with the ledger.
Respond(r) ==
  /\ loop[r].pc = "request" /\ To(r, "settle")
  /\ responses' = [responses EXCEPT ![r] = @ + 1]
  /\ UNCHANGED <<nextId, steps, msgs, usage, total, row, call, verdict, faults, crashes, bare, flight, dropped>>

SettleUsage(r) ==
  LET pop == PopAssistant(loop[r].queue) IN
  /\ loop[r].pc = "settle"
  /\ AppendUsageRecord(r, "assistant", pop.intent)
  /\ loop' = [loop EXCEPT ![r].pc = "store", ![r].queue = <<pop.intent>> \o pop.rest]
  /\ UNCHANGED <<nextId, steps, msgs, total, row, call, verdict, faults, crashes, responses, bare, flight, dropped>>

\* The message, with exactly the provisioned id; then the calls or the end.
StoreAssistant(r) ==
  LET in == Head(loop[r].queue) IN
  /\ loop[r].pc = "store"
  /\ AppendMessage(r, "assistant", in.id)
  /\ \E pc \in {"batch", "end"} : loop' = [loop EXCEPT ![r].pc = pc, ![r].queue = Tail(@)]
  /\ flight' = [flight EXCEPT ![r] = FALSE]
  /\ UNCHANGED <<steps, usage, total, row, call, verdict, faults, crashes, responses, bare>>

\* KindOverflowRecovery: the discarded response's usage, and the guard's row.
Overflow(r) ==
  LET pop == PopAssistant(loop[r].queue) IN
  /\ loop[r].pc = "request" /\ ~loop[r].recovered /\ ~loop[r].stop
  /\ AppendUsageRecord(r, "overflow", [pop.intent EXCEPT !.id = None])
  /\ AppendRunStep(r, "overflow_compact", None)
  /\ loop' = [loop EXCEPT ![r].pc = "model", ![r].queue = pop.rest, ![r].recovered = TRUE]
  /\ responses' = [responses EXCEPT ![r] = @ + 1]
  /\ flight' = [flight EXCEPT ![r] = FALSE]
  /\ dropped' = dropped \cup {pop.intent.id}
  /\ UNCHANGED <<nextId, msgs, total, row, call, verdict, faults, crashes, bare>>

\* The request fails, or its answer is empty or truncated once more: the run
\* ends.  An answer that was billed leaves no ledger row.
RequestEnds(r) ==
  /\ loop[r].pc = "request" /\ To(r, "end")
  /\ \E billed \in {0, 1} : responses' = [responses EXCEPT ![r] = @ + billed]
  /\ dropped' = dropped \cup {loop[r].queue[i].id : i \in DOMAIN loop[r].queue}
  /\ UNCHANGED <<nextId, steps, msgs, usage, total, row, call, verdict, faults, crashes, bare, flight>>

\* Mutant: each call of a batch provisions an id of its own.
AlwaysProvision(r) == None

\* The batch's shared id, read under the middleware's lock.
BatchId(r) == loop[r].batch

\* toolIntentMW.WrapToolCall up to the unlock.
WrapToolCall(r, c) ==
  LET shared == BatchId(r)
      id == IF shared = None THEN nextId + 1 ELSE shared
  IN
  /\ loop[r].pc = "batch" /\ call[r][c] = "todo" /\ ~loop[r].stop
  /\ nextId' = IF shared = None THEN nextId + 1 ELSE nextId
  /\ AppendRunStep(r, "tool", id)
  /\ loop' = [loop EXCEPT ![r].batch = id]
  /\ call' = [call EXCEPT ![r][c] = "push"]
  /\ flight' = [flight EXCEPT ![r] = TRUE]
  /\ UNCHANGED <<msgs, usage, total, row, verdict, faults, crashes, responses, bare, dropped>>

\* A failed write, or a cancelled context, skips the call with an error result.
ToolIntentFails(r, c) ==
  /\ loop[r].pc = "batch" /\ call[r][c] = "todo"
  /\ loop[r].stop \/ faults < MaxFaults
  /\ faults' = IF loop[r].stop THEN faults ELSE faults + 1
  /\ call' = [call EXCEPT ![r][c] = "done"]
  /\ UNCHANGED <<nextId, steps, msgs, usage, total, row, loop, verdict, crashes, responses, bare, flight, dropped>>

\* The push that follows the unlock, and the call itself.
PushIntent(r, c) ==
  /\ call[r][c] = "push"
  /\ loop' = [loop EXCEPT ![r].queue = Append(@, [kind |-> "tool", id |-> loop[r].batch, attempt |-> 0])]
  /\ call' = [call EXCEPT ![r][c] = "run"]
  /\ UNCHANGED <<nextId, steps, msgs, usage, total, row, verdict, faults, crashes, responses, bare, flight, dropped>>

CallReturns(r, c) ==
  /\ call[r][c] = "run"
  /\ call' = [call EXCEPT ![r][c] = "done"]
  /\ UNCHANGED <<nextId, steps, msgs, usage, total, row, loop, verdict, faults, crashes, responses, bare, flight, dropped>>

\* recordToolResults, of a batch that ran or of one answered without being
\* dispatched: one message for the batch, on a context no cancel reaches.
RecordToolResults(r) ==
  LET pop == PopTools(loop[r].queue) IN
  /\ loop[r].pc = "batch"
  /\ (\A c \in Calls : call[r][c] = "done") \/ call[r] = NoCalls
  /\ AppendMessage(r, "tool", pop.id)
  /\ loop' = [loop EXCEPT ![r].pc = IF loop[r].stop THEN "end" ELSE "model",
                          ![r].queue = pop.rest, ![r].batch = ResetBatch(r)]
  /\ call' = [call EXCEPT ![r] = NoCalls]
  /\ flight' = [flight EXCEPT ![r] = FALSE]
  /\ UNCHANGED <<steps, usage, total, row, verdict, faults, crashes, responses, bare>>

\* The batch waits for the client: the run ends, its calls unanswered.
Suspend(r) ==
  /\ loop[r].pc = "batch" /\ call[r] = NoCalls /\ ~loop[r].stop
  /\ To(r, "end")
  /\ UNCHANGED <<nextId, steps, msgs, usage, total, row, call, verdict, faults, crashes, responses, bare, flight, dropped>>

\* The cancelled or exhausted loop leaves at the top of an iteration.
LoopLeaves(r) ==
  /\ loop[r].pc = "model" /\ (loop[r].stop \/ Requests >= MaxRequests)
  /\ To(r, "end")
  /\ UNCHANGED <<nextId, steps, msgs, usage, total, row, call, verdict, faults, crashes, responses, bare, flight, dropped>>

\* persistRunUsage, then the settlement (none for a row a cancel settled).
Settle(r) ==
  /\ loop[r].pc = "end"
  /\ total' = [total EXCEPT ![r] = SumUsage(r)]
  /\ row' = [row EXCEPT ![r] = "settled"]
  /\ loop' = [loop EXCEPT ![r] = Fresh]
  /\ flight' = [flight EXCEPT ![r] = FALSE]
  /\ UNCHANGED <<nextId, steps, msgs, usage, call, verdict, faults, crashes, responses, bare, dropped>>

\* CancelRun settles the row and leaves the loop to unwind.
Cancel(r) ==
  /\ row[r] = "active" /\ loop[r].pc # "idle" /\ ~loop[r].stop
  /\ row' = [row EXCEPT ![r] = "settled"]
  /\ loop' = [loop EXCEPT ![r].stop = TRUE]
  /\ UNCHANGED <<nextId, steps, msgs, usage, total, call, verdict, faults, crashes, responses, bare, flight, dropped>>

-----------------------------------------------------------------------------
(* A crash and RecoverStrandedRuns.                                        *)

\* LatestRunSteps(run, 1): the overflow rows are no pending effects.
NewestStep(r) ==
  LET of == {i \in DOMAIN steps : steps[i].run = r /\ steps[i].kind # "overflow_compact"}
  IN IF of = {} THEN [id |-> None] ELSE steps[CHOOSE i \in of : \A j \in of : j <= i]

ResultExists(id) == \E i \in DOMAIN msgs : msgs[i].id = id

Inspect(r) ==
  LET id == NewestStep(r).id IN
  IF id = None THEN "bare" ELSE IF ResultExists(id) THEN "completed" ELSE "interrupted"

\* The process dies and starts again: every row that was active is read and
\* marked failed.  The observer keeps what was under way.
Crash ==
  /\ crashes < MaxCrashes /\ crashes' = crashes + 1
  /\ \E r \in Runs : loop[r].pc # "idle"
  /\ verdict' = [r \in Runs |-> IF row[r] = "active" THEN Inspect(r) ELSE verdict[r]]
  /\ row' = [r \in Runs |-> IF row[r] = "active" THEN "settled" ELSE row[r]]
  /\ loop' = [r \in Runs |-> Fresh] /\ call' = [r \in Runs |-> NoCalls]
  /\ UNCHANGED <<nextId, steps, msgs, usage, total, faults, responses, bare, flight, dropped>>

LedgerNext ==
  \/ Crash
  \/ \E r \in Runs :
       \/ Submit(r) \/ BeforeModel(r) \/ IntentFails(r) \/ Respond(r) \/ SettleUsage(r) \/ StoreAssistant(r)
       \/ Overflow(r) \/ RequestEnds(r) \/ RecordToolResults(r) \/ Suspend(r) \/ LoopLeaves(r) \/ Settle(r)
       \/ Cancel(r)
       \/ \E c \in Calls : WrapToolCall(r, c) \/ ToolIntentFails(r, c) \/ PushIntent(r, c) \/ CallReturns(r, c)

-----------------------------------------------------------------------------
(* Paged reads.                                                            *)

Ascending == \A i, j \in DOMAIN msgs : i < j => msgs[i].id < msgs[j].id

LastOf(s, n) == IF Len(s) <= n THEN s ELSE SubSeq(s, Len(s) - n + 1, Len(s))

MessagesTail(before, n) == LastOf(SelectSeq(msgs, LAMBDA m : before = 0 \/ m.id < before), n)

\* The limit + 1 probe of historyPage.
HistoryPage(before, limit) ==
  LET page == MessagesTail(before, limit + 1)
  IN [rows |-> LastOf(page, limit), more |-> Len(page) > limit]

\* MessagesPage, which the export follows forwards.
MessagesPage(after, limit) ==
  LET newer == SelectSeq(msgs, LAMBDA m : m.id > after)
  IN IF Len(newer) <= limit THEN newer ELSE SubSeq(newer, 1, limit)

Backwards(limit) ==
  LET page[k \in Nat] ==
        IF k = 1 THEN HistoryPage(0, limit)
        ELSE IF page[k - 1].more THEN HistoryPage(page[k - 1].rows[1].id, limit)
        ELSE [rows |-> <<>>, more |-> FALSE]
      read[k \in Nat] == IF k = 0 THEN <<>> ELSE page[k].rows \o read[k - 1]
  IN read[Len(msgs) + 1]

Forwards(limit) ==
  LET page[k \in Nat] ==
        IF k = 1 THEN MessagesPage(0, limit)
        ELSE IF page[k - 1] = <<>> THEN <<>> ELSE MessagesPage(Last(page[k - 1]).id, limit)
      read[k \in Nat] == IF k = 0 THEN <<>> ELSE read[k - 1] \o page[k]
  IN read[Len(msgs) + 1]

-----------------------------------------------------------------------------
(* Properties.                                                             *)

Kinds == [user |-> "none", assistant |-> "assistant", tool |-> "tool"]

\* A message that has a provisioned id is the result of the step that
\* provisioned it, and every provisioned id but a run's newest has its message
\* or was given up: the calls of a batch that race share one id, and no batch
\* inherits another's.
ResultsBindToSteps ==
  /\ \A i \in DOMAIN steps, j \in DOMAIN msgs :
       steps[i].id # None /\ steps[i].id = msgs[j].id =>
         msgs[j].run = steps[i].run /\ Kinds[msgs[j].role] = steps[i].kind
  /\ \A i \in DOMAIN steps :
       LET s == steps[i] IN
       s.id = None \/ s.id = NewestStep(s.run).id \/ ResultExists(s.id) \/ s.id \in dropped

\* Reconciliation reads a stranded run's newest step as interrupted exactly
\* when an effect was under way or its message was given up.
RecoveryTellsTruth ==
  \A r \in Runs :
    /\ verdict[r] = "interrupted" => flight[r] \/ NewestStep(r).id \in dropped
    /\ verdict[r] = "completed" /\ ~bare => ~flight[r]

\* Every response the run recorded has one ledger row, with its own attempt
\* and message; the run's total is their sum.
SpendCountedOnce ==
  /\ \A i, j \in DOMAIN usage :
       i # j /\ usage[i].run = usage[j].run /\ usage[i].attempt > 0 => usage[i].attempt # usage[j].attempt
  /\ \A r \in Runs : SumUsage(r) <= responses[r]
  /\ \A r \in Runs : total[r] <= SumUsage(r)

\* Reading back page by page, and forwards, shows every message once and in
\* order, while ids ascend.
PagesCover ==
  Ascending => \A limit \in 1..2 : Backwards(limit) = msgs /\ Forwards(limit) = msgs

\* accounting_mw.go:18: "A failed intent write aborts the run (ErrAbortRun) rather than
\* letting an effect start with no durable intent."  Violated: BeforeModel does not
\* wrap ErrAbortRun, so the loop logs the error and sends the request.
IntentBeforeEffect == ~bare

\* Ids ascend with seq.  Violated: an id provisioned by an intent is older than the
\* id of a message that another run stored before it.
IdsAscendWithSeq == Ascending

\* A run that has settled recorded every response it was billed for.  Violated when
\* the intent or its usage row cannot be written: the loop goes on.
SpendNeverVanishes ==
  \A r \in Runs : row[r] = "settled" /\ loop[r].pc = "idle" /\ crashes = 0 => SumUsage(r) = responses[r]
=============================================================================
