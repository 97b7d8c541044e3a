# nowhere-agent: TLA+ verification

nowhere-agent is a Go server that runs LLM agents for web and chat clients. A user
posts a message to a *session*; the server starts a *run*, a detached goroutine that
drives the model and its tools, streams what happens to the attached clients and
records it in PostgreSQL. This directory models that server: the life of a run in
detail and with proofs, and around it the agent loop, its tools, the background services,
the platform services and the durable record.
Paths below are relative to the repository (`src/`).

## 1. Inventory

| Component | State | Operations | Interacts with |
|---|---|---|---|
| Run lifecycle: `internal/session/runtime.go`, `registry.go`, `emitter.go` | `runs` and `run_events` rows; per process `Runtime.runs` (the single-active-run lock with its event counter and cancel func) and `RunRegistry.workers` | `Submit`, `StartRun`, `AppendEvent`, `execute`, `CompleteRunForRun`, `Cancel`, `CancelRun`, `RecoverStrandedRuns` | chat API, schedules, inbound channels submit; agent loop executes; store persists; broker publishes |
| Client interactions: `approval.go`, `batch.go`, `fold.go`, `chatapi/handler.go` | `approvals`, `suspended_batches` | interrupt, decide, expire, void, fold, reconcile | agent loop (suspend point), run lifecycle (settle, submit), message store |
| Live stream: `streambroker.go`, `bus.go`, `chatapi/attach.go` | per-session ring of content events, subscriber channels | publish, settle, read, attach | run lifecycle publishes, HTTP clients attach |
| Redis stream: `redisbroker.go` | a Redis stream per session, a poll position per subscriber | the same, across instances | |
| Step accounting and messages: `accounting_mw.go`, `pgmessagestore.go`, `pgstore.go` | `run_steps` intents, usage rows, `messages` with a per-session `seq` | begin, settle, append, page, inspect after a crash | agent loop middleware, folding, dreaming |
| Agent loop: `internal/agent` | the conversation of one run | iterate, assemble, dispatch, suspend, end | provider, tools, emitter |
| Context: `internal/contextmgmt` | a run's view of its history, the summary cache | repair pairs, cut at rounds, compress, recover from overflow | agent loop |
| Providers: `internal/provider` | one HTTP exchange | send, retry, decode, watch for a stall | agent loop |
| Subagents: `internal/subagent` | the run tree, slots, total budget | spawn, run, report usage | agent loop, tool registry |
| Tools: `internal/toolruntime`, `builtin` | registry of a run, concurrency slots | build, filter, scope, call, screen arguments | sandbox, subagents |
| Sandbox: `internal/sandbox` | a container per session, the workspace tree | ensure, stop after grace, sweep, file operations | tools, run-done hook |
| Schedules, jobs: `internal/schedule`, `internal/scheduler` | tasks, `next_run_at`, in-flight marks | claim, fire, give up, edit, catch up | run lifecycle |
| Dreaming, memory: `internal/dreaming`, `internal/memory` | memories, a watermark per session, two locks | pass, consolidate, cap, purge | message store |
| Webhooks: `internal/webhook` | outbox rows with claims, the address guard | enqueue, claim, attempt, retry, bury; vet, pin, redirect | run-done hook |
| Inbound: `internal/inbound` | webhooks, nonces, session tags | receive, gate, submit, sweep | run lifecycle |
| Identity: `internal/identity` | accounts, tokens, one-time codes, throttles, team roles | sign up, log in, renew, revoke, verify, change roles | HTTP surface |
| Quota: `internal/quota` | monthly budgets, buckets | check, charge, retune, sweep | submissions |
| Provider registry, MCP: `internal/providerreg`, `mcp` | rows and two caches; clients, sessions, connect loops | edit, resolve; apply, connect, call, reconnect | agent loop, tools |
| Skills: `internal/skill`, `skillapi` | a pointer row per scope and name, its versions | save, roll back, move, switch, delete, resolve by scope | agent tools, editors |
| Conversation view: `chatapi/history.go`, `emitter.go` | bubbles, open stream blocks | fold a page, encode an event, finish | HTTP clients |
| Uploads, retention: `internal/upload`, `workspace/imagestore.go`, `session/sweep.go`, `adminapi` purges | blobs and rows, image directories | upload, delete, sweep, purge | messages |

The hard behaviours are: submissions of several tabs, schedules and instances racing
for one session; a Stop, a deletion or a client disconnect at any point of a run;
failed statements (the request context dies with the client) between two related
writes; a crash between the writes; verdicts, expiry and retries racing over one row;
frames, deltas and results delivered out of order, twice or not at all; checks whose
answer is stale when it is used (caches, quotas, last-owner checks); and leases, idle
windows and retries that race the work they watch. `PROJECT.json` lists the ones the
properties are aimed at, each at its line.

## 2. Modules

| Module | Models |
|---|---|
| `RunLifecycle` | The runs of one session on any number of instances |
| `RunTable` | What it promises: runs created in order, at most one in progress, each settled once; `RunLifecycle` implements it |
| `RunLifecycleProofs` | Theorems about the two: types, tokens, refinement; who settles a run, whom a Stop finds, what a settled run leaves behind |
| `Interactions`, `InteractionsProofs` | Suspended batches of one session: interrupts, verdicts, folds; theorems about them |
| `LiveStream`, `LiveStreamProofs` | Content frames of one session: ring, subscriber channels, attached clients; theorems about them |
| `Schedules`, `Jobs`, `Dreaming`, `Webhooks`, `BackgroundProofs` | One task and its fires; the leader's interval jobs; one user's memory; one outbox row. Composed by `MCBackground`; theorems about all four in `BackgroundProofs` |
| `Pairing`, `ContextView`, `AgentLoop`, `Subagents`, `ModelStream` | Repair and rounds as operators; a run's view; `Loop.Run`; the run tree; one model call, and the idle watchdog of its response. Composed by `MCAgent`; theorems about the loop and the run tree in `AgentProofs` |
| `ToolText`, `ToolRegistry`, `Sandbox`, `FileTools` | Text algorithms and the schema screen against reference definitions; registry and slots; one session's container; its files. Composed by `MCTools` |
| `Guard`, `Inbound`, `Throttle`, `Otp`, `Accounts`, `Teams`, `Catalog`, `Quota`, `Mcp`, `Skills`, `PlatformProofs` | Outbound address guard; inbound events; login throttle; one-time codes; accounts and tokens; team roles; model registry and caches; budgets and request buckets; one MCP entry; the skills of one name. Composed by `MCPlatform`; theorems about the edges, identity, what is rationed and the registries in `PlatformProofs` |
| `Ledger`, `History`, `Uploads`, `Retention`, `RedisStream`, `Frames`, `RecordProofs`, `WireProofs` | Step intents and messages; the history fold; uploads; removal of sessions and images; the Redis stream; the SSE encoder. Composed by `MCRecord`; theorems about the ledger and the images in `RecordProofs`, about the stream and the frames in `WireProofs` |

The five composites put components side by side that share no state: `focus` says which
one moves, the others rest in an initial state. One run then answers for several
components, each exhausted on its own, and what a component's invariants say is not
diluted by interleaving it with strangers. Components that do interact are modelled in one
module, with the other side abstracted to what crosses: a submission, for `Schedules` and
`Inbound`, is a run that starts or is refused; a run, for `Interactions`, is its start and
its end.

### RunLifecycle

All the code is keyed by the session, so one session is the whole interaction. Durable
state is `row` (`runs.status`, a run being named by its per-session `seq`), `log`
(`run_events`, a set of offset and kind) and `ended`. Each instance has `mem`, `memOff`
and `memCancel` (the `runState` of `Runtime.runs`) and `workers` (`RunRegistry.workers`).
A submitter walks through `StartRun` and `Submit` one mutex section or statement at a
time (`GetSession` ... `LaunchWorker`); a worker walks through `execute`, including its
recover handler and deferred cleanup; a canceller is a caller of `Runtime.CancelRun`;
`RegistryCancel` is the Stop button; a deleter is `serveDeleteSession`. `Crash` erases an
instance's memory and goroutines, `Restart` runs `RecoverStrandedRuns`.

`Loop.Run` is abstracted to how it ends: success, failure, cancellation or a panic. Event
payloads and content frames (which do not enter `run_events`) are left out. A statement
that fails does so with or without effect, as a lost answer does.

### Interactions

Runs start and settle atomically here, which `RunLifecycle` justifies: at most one is
active. `inter` is `approvals.status` of each gated call, `batch` the snapshot row in
`suspended_batches` and its `folded_seq`, `kept` whether the assistant message with the
batch's calls was stored (its failure is only logged and the run suspends all the same;
such a batch cannot be folded, `fold.go:342`), `answers` the number of tool-result
messages stored for the batch. The void of a run that ends abnormally is a walk of its
own: it lists the pending rows (`toVoid`), then rejects them one by one, and each of these
statements may fail, which is only logged (`missed` remembers it), or be cut off by a
crash. A request is a record with its control point: submissions pass the pending gate,
reconcile a decided batch, fold and submit; verdicts wait for the session to be idle,
decide, look whether the batch is complete, fold and submit. A fold is detached from its
client. What a tool call does is abstracted to whether it was executed.

The gated calls are permission approvals. `ask_user` and client tools use the same rows
and the same fold; what differs is that their fold executes nothing.

### LiveStream

`next`, `ring` and `subs` are memBroker's `liveStream` entry of the session, an absent
entry being an empty one. `Publish` is two kinds of step, because it sends after it
unlocked: `PublishAppend` takes the offset and a snapshot of the subscribers, then one
`PublishSend` per subscriber delivers or drops. A client walks through `attach`: subscribe
to both channels, catch up from the ring, look once whether the run has settled, follow
(filling holes from the ring), drain, unsubscribe. Of a run there is what the clients can
observe: its worker's terminal event, the removal of the lock, `Settle` clearing the ring,
the row's final status, and a `CancelRun` that settles a run whose worker still publishes.
A frame is its offset and run; `sent` and `gone` only observe. The lifecycle channel holds
16 events of which a run emits few, so it does not overflow in the model. The Redis broker
behind the same interface is `RedisStream`.

### The other modules

Each begins with a comment that says what it covers and what a step is: as a rule one
mutex section, one SQL statement or transaction, or one call that leaves the process. Go's
data structures appear where their behaviour matters: `History` models slices with their
backing arrays, because a pointer into one is kept; `ModelStream` the one-token wake
channel; `RedisStream` the folding of stream ids into one integer; `ToolText` bytes and
runes. What the provider, Redis, the container runtime, the MCP server or the DNS answers
is a nondeterministic choice.

## 3. Runs

| Run | States | Shows |
|---|---|---|
| `RunCore` | 1.25M | Two submitters on two instances, two runs, Stop and panics: one active row although the in-memory locks of two processes do not know each other, somebody left to settle it, and the outcome of every run logged in order and reported as stored. Every step is a step of `RunTable` |
| `RunCancelRun` | 1.49M | `CancelRun` settles a run whose worker still unwinds while a newer run takes the lock: a cancel or Stop reaches its own run and no other |
| `RunSettles` | 201k | `CancelRun` with an expiring wait, Stop, a deletion, a panic, one failed statement and one crash race one run: a row that was inserted settles in the end (without a failed statement), and once. `TableInv` is the invariant of the proof |
| `InterFold` | 1.18M | Three concurrent requests on one batch, with expiry, Stop between interrupts, disconnect, a failing statement and a crash: only approved calls run, a batch is answered as a whole, an abnormal end leaves open only what its void could not reject, a verdict is never changed |
| `InterFolds` | 635k | Liveness: a decided batch is folded in the end, unless it or a newer one cannot be folded |
| `StreamFollow` | 473k | Two concurrent publishers, two runs, a client that attaches, falls behind, disconnects and comes back: it shows every frame at most once, in order and only of its run, holes are filled while it follows, and its response ends |
| `Background` | 252k | Schedules, interval jobs, dreaming and webhook delivery |
| `Agent` | 162k | Context view, agent loop, subagents, model stream and stall watchdog |
| `Tools` | 173k | Text tools, argument screen, tool registry, sandbox and files |
| `Platform` | 1.48M | Guard, inbound events, identity, teams, registries, budgets, MCP and skills |
| `Record` | 2.37M | Ledger, history fold, uploads, retention, Redis stream and frames |
| `HistoryResults` (violation) | | A stored tool result is missing from the reloaded conversation, see section 5 |

A property of a composite is a conjunction of named properties of its components
(`AccountsSound`, for instance, of `OneBootstrapAdmin`, `RevokedStaysRevoked`,
`CodeSpentOnce` and `ChecksKeepAnOwner`), each stated and explained in its module. One
mutation per property is kept in `PROJECT.json`.

Bounds. Two submitters and two runs are what a race for the lock and a stale worker
beside its successor need; every hand-over of the lock involves one old and one new run.
One fault or one crash at any point covers each single failure; combinations are left to
the proofs, which have no bound. Three requests on one batch are two racing folds and a
third party (sweep, verdict or submission). Two runs in `InterFolds` let a later run
suspend above an older unfolded batch. `MaxExec` only stops a counter. In `StreamFollow`
the channel holds one frame and the ring two: a hole is one frame queued, one dropped and
a later one, so three frames make one and also overflow the ring. Two runs let offsets
restart and a cancelled run publish into its successor's stream. `AttachEnds` depends on
the bound on runs in one case: a client that missed its run's terminal event ends at the
next idle moment of the session, which back-to-back runs could postpone. Symmetry permutes
requests and the gated calls, none of which the specifications order, and is not used in
runs with liveness properties.

What the bounds leave to the proofs: `RunSettles` has one run, for which the sequence
conjunct of `TableInv` says nothing (the numbers of two runs are checked in `RunCore` by
`ImplementsRunTable`, those of any number in `TableInvHolds`). `RunCore` and
`RunCancelRun` have neither failed statements nor crashes, so `ActiveRowHasSettler` is
checked there over the interleavings of healthy processes; with crashes it is proved, and
with a failed statement it is false (section 5).

`RunLifecycle!Balanced` gives the callers to the instances so that none is idle; it is the
value of `Home` in the three runs.

The bounds of the composites are the constants `Background.cfg`, `Agent.cfg`,
`Platform.cfg` and `Record.cfg` give `MCBackground`, `MCAgent`, `MCPlatform` and
`MCRecord`, and the `INSTANCE ... WITH` values of the MC modules. Two requests that
overlap are what every check-then-write race needs; limits (attempts, slots, page sizes,
quotas, buffers) are set one below what the bounded actors can use up, so that each is met
and passed. Some have a reason of their own: the two workers on one outbox row are the
hook and one sweeper, and time passes while they send, so that an attempt outlasts its
lease of three ticks; one failed statement of a fire (`MaxTrouble`) may hit any of them;
three images let two uploads pass a quota check together and overshoot; three codes and
five guesses pass both caps of `Otp`, with a request in between that is not counted;
directories three deep over two names let a move go into its own parent; thirteen messages
let the summary model fail up to its circuit breaker and the view be cut and compressed
again; three spawns make a tree of depth two with a refused call; three iterations let a
cancellation land in the batch of a step that was opened, which two do not; three sandbox
requests are a run that ends, one that starts and one that waits; texts of seven bytes
hold runes across every page border of up to five; four stored messages reach every merge,
gate and page border of the fold. The byte sizes of `ContextView` are powers of two, so
that different histories differ in size.

Deadlock is checked in the five `Run*` and `Inter*` runs. `StreamFollow` and the
composites end when their bounds are used up and nobody sends anything more: a quiet
server.

Fairness. `RunLifecycle!FairSpec` has weak fairness of each worker, of a submitter and a
canceller that have begun, and of `Restart`: goroutines are scheduled, provider and tool
calls have timeouts and the loop an iteration limit, and the container's restart policy
restarts a crashed server. `Interactions!FairSpec` adds the hourly sweep and strong
fairness of a new submission: without another message from the user nothing reconciles
a decided batch, and the code promises no more. `LiveStream!FairSpec` assumes that runs end
and their settlement proceeds, that sends are made (they never block) and that the handler
of a connected client is scheduled; nobody has to publish, attach or start a run.
`MCBackground` has weak fairness of the job ticker and of a started job, of a dreaming pass
under way, of time and of the delivery workers; `MCAgent` of a spawned child, of the
watchdog, of time and of a reader whose body has ended or was closed (an open body may stay
silent for ever, which is what the watchdog is for); `MCTools` of a call that was
dispatched, of the grace period and of the sweep. In all three new work arrives or does
not. `Platform` and `Record` check safety only.

## 4. Proofs

All theorems hold for every value of the constants: every set of instances, submitters,
cancellers, deleters, requests, calls, publishers and clients, every ring and channel size,
every number of fires, jobs, servers, sessions, messages, memories, workers, webhooks and
codes, every lease, interval, backoff schedule and limit, and every bound. Each invariant
below was first checked by TLC on the instances of the runs.

`RunLifecycleProofs`:

* `TypeCorrect`: the type invariant, and that a process past the INSERT has a run in hand.
* `SingleActive`: at most one row is queued or running. The argument is the unique index:
  `CreateRun` inserts only without an active row, `MarkRunning` is guarded by the same
  index, and every other step leaves active rows alone or settles them.
* `LockHolds` and `StatusIsFinal`: a terminal status never changes. `UpdateRunStatus` is an
  unconditional UPDATE, so this needs the stronger `LockInv`: the right to write run r's
  status is a token that passes from the submitter that inserted the row to the in-memory
  lock and from the lock to the one caller of `CompleteRunForRun` that removed it
  (`OneTokenPerRun`); the run of every token is active (`TokenHoldersAreActive`); a process
  with a run in hand has a real one; and a dead instance holds nothing.
* `TableInvHolds`: `TableInv` is `LockInv` with two more facts the refinement needs.
  `SeqInv`: the numbers of the runs have no gap, so that the number `CreateRun` takes is
  the table's next one. `StatusKnown`: whoever is about to settle a run has decided on a
  terminal status.
* `Implements`: `RunLifecycle` implements `RunTable` with the rows as the table. Each
  action is one of create, start, settle and fail, or leaves the rows alone: one step
  per action, from the token for the settling ones.

Three more invariants are inductive beside `LockInv`:

* `ActiveRowsAreSettled`: until a statement fails, an active row has somebody who will
  settle it. `SettlerInv` adds to the token discipline that it is not lost: a run has one
  owner at a time among the submitter that starts it and its worker (`OneOwner`), an
  in-memory lock is held for a run whose owner is still on its way to removing it
  (`LockIsDriven`), and an active row has a token (`ActiveHasToken`). The condition
  `faults = 0` is what the code needs: a failed statement strands a row until the next
  start (section 5).
* `StopFindsItsRun`: a Stop and a `CancelRun` reach the run they mean, and two loops of one
  session overlap only once one was told to stop. `CancelInv` says what each stage of
  `Submit` has registered where: a submission that registers still holds the lock, and the
  loop in flight is the one that lock and registry name until a canceller that has taken
  the lock has interrupted it.
* `OutcomeIsRecorded`: the log of a settled run ends, in replay order, with the event that
  matches its status, and the hooks report that status. `OutcomeInv`: the lock stays with
  the worker until it settles (`LockStays`), so the next offset is above all stored ones
  (`OffsetsBehind`), so the log is in the order of its emission (`LogOrdered`), so what is
  written last is replayed last (`EndRecorded`); and a hook is told what was stored
  (`HooksTold`).

`InteractionsProofs`: `InterInvariant` is the inductive invariant (`InterInv`). Rows: a
run has rows only once it interrupts, none is decided before the run is over, and what was
folded has none pending. Readers: what a request read in an earlier statement (that its
run is over, that all of a batch is decided) is still true when it is used. From it follow

* `ApprovedOnly`: a suspended call runs only after its approval;
* `AnsweredWhole`: a batch is answered as a whole, and once, and a run that ended abnormally
  leaves pending only rows whose void failed or was cut off, or that the walk still has
  ahead of it (`VoidCovers`);
* `DecisionIsFinal`: a verdict never changes, as an action property.

None of the three has a hypothesis: any number of requests race through folds, expiry,
interrupts, failed statements and crashes.

`LiveStreamProofs`: `StreamInvariant` is the inductive invariant (`StreamInv`), and
`ViewIsFaithful` concludes that a client is sent frames of its run only, each once and in
order, and that while it follows, it lacks only what the ring itself has lost. An offset
and the position of its frame in the order of publication differ by one constant per stream
(restarts at 0 included), so that order, gaps and membership of the ring compare by
arithmetic. The ring is the gapless tail of what was published; what a subscriber's channel
holds is in order, with frames dropped in between; and every hole
in a following client's view is gone from the ring. `emit` fills
holes from the ring through a list that its definition picks by CHOOSE:
`EnumerationExists` proves that the list exists and `IncreasingLists` that it is the one
meant. Both need the least element of a set of numbers, which `LeastNatural` gets from the
well-foundedness of Nat, stated by the library for a set instead of an operator.

`BackgroundProofs`, about the composite `MCBackground`, whose parts move alone, so that an
invariant of one of them is inductive beside the others:

* `DeliveryIsSound`: as long as no attempt has outlasted its lease (`overran`), one worker at
  a time delivers a notification under a claim, and a dead letter is one that was refused,
  that nobody can read, or that used every retry. Both parts are false without that
  condition, and the code has nothing that enforces it: the timeout of a delivery is a
  setting. What the hook sends when the INSERT failed has no claim and is outside
  the first part (section 5). `DeliveryInv`: a claim writes a lease, the age of a delivery
  and what is left of the lease add up to it (`LeaseCovers`), so the row is not claimable
  while anyone delivers (`OneClaim`); the settling worker has the row's last attempt in hand.
* `TriggersEndClean`: of a fire that gives up, at any gate and with any of its statements
  failing or its context over, an empty session is left only where the DELETE of it failed
  or was never reached, and a job does not overlap itself. `TaskInv` says what a fire knows
  at each of its steps.
* `OccurrencesAreRunOnce`: no more runs than the schedule had instants. Each
  claim moves `next_run_at` by one or two instants, and a requeue moves it back only to
  where its own claim found it; `Paid` is the account of it: the runs, and for every
  fire in flight the instants its claim took, fit below `next_run_at`.
* `EditsStand`: what a user edited while a fire was under way stands, as an action property.
* `MemoryIsKept`: a watermark covers learned messages only, a learned fact stays in a live
  memory unless a user or a cap took it, and a retried pass adds none twice. `MemoryInv`:
  only the holder of the advisory lock is beyond its claim (`DreamTypes`); beyond the
  watermark of a session a memory holds its messages without a gap (`Segment`), which is
  what makes a retried batch either covered or new; and a pass knows that its list starts
  at the watermarks (`TodoKnown`), that its batch is the rest of the session (`BatchKnown`),
  that the answer it applies edits what was live when it was asked (`AnswerWhole`), and that
  the survivor of a merge states what the absorbed memory does before that one is removed
  (`MergeSafe`).

`PlatformProofs`, about all of `MCPlatform`:

* `EdgesAreSound`: an outbound request dials vetted addresses only, since what a request
  has pinned was vetted by the allowlist it carries (`GuardInv`); an inbound event starts
  at most one run, unless one of its requests idled between the signature check and the
  INSERT of its nonce until the window had closed (`idled`); and a trigger that is refused
  leaves a session only where the DELETE failed or the answer of its INSERT was lost
  (`Litter`: the sessions beside those are in the hands of a request). `EventsSpent`
  counts the requests an event let in and the runs it started: together at most one, and
  once there is one, its nonce is stored or it is too old to be accepted. `InboundInv` has
  what this needs of the clocks: an event is as old as its nonce, but for what the
  sender's clock runs ahead (`NoncesAge`).
* `TagStaysWithTheFirst`: a session's tag, written after the submit by a request that may
  by then be the second one there, is that of a webhook that fired, and never changes.
* `IdentityIsSound`. One-time codes (`OtpInv`): until a row is used up its attempts, the
  increments under way and those that were lost (`unbumped`: the request hung up, or the
  UPDATE failed) are its wrong codes, and those and the comparisons under way stay below
  the cap plus the requests and the lost counts (`RowHolds`); a used row has granted at
  most once. Accounts (`AccountInv`): a token in the table is newer than the last
  revocation of its account, which exists (`TokensStand`), and creating holds the advisory
  lock while the bootstrap is on, so that who found the table empty still finds no
  bootstrap administrator (`BootOrder`). Teams (`TeamInv`): what a request is about to
  write still fits the team it checked as long as nobody has written since.
* `LimitsAreKept`, about what is rationed. Login throttle (`ThrottleInv`): for each key, a
  lock stands for failures that are crowded (`LockEarned`), every failure noted while the
  gate was open and still in the window is in the history (`WindowKept`), and a lock
  outlives all of those (`LockOutlives`), which is why the history may be forgotten with
  it. That needs attempts shorter than a lockout (`FreshAttempt`): a key with an attempt
  under way is free, or locked beyond the moment. Pruning, an expired lock and a sweep are
  one relation (`Eased`), so the proof does not depend on the order in which `Fail` does
  them. Sends (`SendInv`): a delivered code is counted, or still to be counted by a sender
  that passed the quota, or one that will never be (`unrecorded`: its request failed after
  the delivery, or the full map refused it). Budgets (`QuotaInv`): billed tokens and the
  largest bill of every submission that may still bill stay within the limit and one such
  bill for each request (`Balanced`, `Owes`). Buckets (`RateInv`): while the limiter is
  on, what a caller was served and what is left in its bucket, or would be in a fresh one,
  is paid for by the time passed and one burst (`Earned`); while it is off, only a request
  that was past the check is let through (`Leftover`).
* `RegistriesAreSound`. Models (`CatalogInv`): what a cache holds is as old as the rows it
  was filled from, each entry and each resolution under way on an account of its own
  (`TargetSeen`, `ListSeen`, `LoadSeen`), because a resolution fills one cache from what
  another one held and writes it after the edit that made it stale; together they stay
  within the lifetime the property allows. MCP (`McpInv`): the configured client has a
  session or a loop that dials, for any number of edits, drops and reconnects that
  overwrite one another's sessions. Skills (`SkillsInv`): a save stands on a row it has
  locked and that is one version behind it, or on an id that is still free and that no
  other insert has taken (`Holding`, `InsertsApart`), so versions never collide and what was
  acknowledged is still there (`VersionsKept`); a resolution by name has not passed the
  scope of what stayed visible (`WalkAhead`), which holds because the only move there is
  leads to the scope that is asked last.

`AgentProofs`, about the turns and the model calls of `MCAgent`:

* `TurnsAreSound`, with an invariant for each of what the loop answers, what it announces,
  and the tree of its spawns. Batches (`BatchInv`): up to the call of the model the newest
  batch is answered; from its storage on it is the plan of the reply, unanswered, and
  `PlanShape` says for each control point what has been done with it (nothing, some of its
  gated calls asked, exactly its live calls entered), so that the one result message every
  path out of there writes is true of each call: each result is what the dispatcher put
  into the slot of its own live call (`got`), laid over the calls by `Merge`. Frames
  (`EmissionInv`): no terminal frame has left while the loop goes on, and after its end
  the frames still to leave are a rest of finish, usage and the frame of the outcome, with
  what has left recorded (`Closing`); a cancellation between two of them changes what the
  next one may claim, and the statement is that of all runs that were cancelled or are not
  dead. Tree (`TreeInv`): the parent of a spawn under way loops, one level above it
  (`Awaited`), a slot is held by exactly the spawns that are counted or loop, and the
  spawns that may still be counted, the ones let in and the counter keep their balance,
  through any batches, refusals and endings (`SpawnMoves`). That an ended root left no
  slot taken is an argument about the holder of least depth, whose parent would loop and
  hold one itself (`SlotsFreed`).
* `StallsAreDeserved`: for any idle window, a stall is declared only on a read that waited
  the whole window, no wake-up of the watchdog is lost, and the watchdog leaves only a stream
  that is over or that it closed. `StallInv` has two facts besides: an armed window counts
  the time its own read has waited (waited and what is left add up to the window), and only
  the step that verified the deadline under the lock declares a stall.

`RecordProofs`, about what `MCRecord` writes down:

* `LedgerIsSound`: a stored message is the result of the step that provisioned its id,
  reconciliation calls a run interrupted exactly when an effect was under way, and a
  response is billed once. `LedgerInv` starts from who owns an id (`IdsOwned`): steps that
  share one are of one run and kind, and its message is too. A loop's queue holds intents
  its own run recorded (`RunBacked`), in the shape its control point admits (`RunShape`),
  so that the id the batch takes from it, or the fresh one when it is empty, is no other
  step's; what the last step says of a run is what its loop was doing (`RunTold`). The
  billing account is per run: the responses are the usage rows and the one in flight
  (`AllBilled`). The lemmas under it say what `PushIntent`, `PopAssistant` and `PopTools`
  leave in a queue.
* `ImagesAreKept`. Uploads (`UploadsInv`): who is past its checks has no reference to look
  after, per image (`UploadHeld`), and the rows together with the uploads that were
  admitted and have no row yet stay below the quota and the number of requests. Retention
  (`RetentionInv`): an image that lost its session has a remover under way that will find
  it, or the one attempt at it failed or was cut off (`OrphansFound` and `missed`, and
  `Captured` for the list an account purge took before it deleted the rows); and, as long
  as no end time moves, no image comes late and no session goes, what an image pass still
  has to remove lies ahead of it on the end list (`PassAhead`): the cursor and the page
  are positions of that list, the page a stretch of it, and behind them nothing is due.
  This is the keyset paging over any page size.

`WireProofs`, about what the clients of `MCRecord` are sent:

* `LiveStreamIsSound`: what a subscriber of the Redis stream has got and is queued for it
  ascends, so nothing comes twice or late. `RedisInv`: the stream ascends to the clock, what
  the subscriber has ascends to the position of its poller, and the batch in hand ascends
  from there. Trimming and expiry drop from the front and keep the order.
* `FramesAreSound`: what a client decodes is well formed, and its finish says how the run
  ended, except that a status that could not be read, or was read while the run went on, is
  written as a stop. The terminal event of a run may come before its row settles or after
  (`RowSettles`), and the stream may finish at any moment. `FramesInv`: the encoder has seen
  no terminal event the run did not come to (`SawOnly`), and the flags of the encoder are an
  account of what it wrote (`Amounts`: starts and ends of each kind of block differ by the
  open one, a call has one start once it is in `started`, a length stop has its
  `finish-step`, and an error or cancelled frame has set the finish reason). `Leads` says of
  a list of frames that it takes one account to another and that every beginning of it
  leaves a well-formed stream, which is what a write that fails in the middle of an
  emission needs; an event kind is a chain of such lists (`BothLead`, `MaybeLeads`).

### Hypotheses

`LockHolds`, `StatusIsFinal`, `TableInvHolds`, `Implements`, `ActiveRowsAreSettled`,
`StopFindsItsRun` and `OutcomeIsRecorded` assume `NoForeignRestart`, the single-instance
assumption `RecoverStrandedRuns` documents: no instance restarts beside another. Without
it the statements are false, because the reconciliation fails the live runs of the others.

`StopFindsItsRun` assumes `WaitIsLongEnough`: the bounded wait of `CancelRun` for the
registration of a run's cancel func does not expire. When it does, the late registration
replaces the cancel func of a newer run. `OutcomeIsRecorded` assumes `Cancellers = {}`:
a worker that still unwinds after `CancelRun` released its lock takes its offset from the
newer run. Nothing in the server calls `Runtime.CancelRun` (`session/runtime.go:592`): the
Stop button and the deletion go through the registry, and those are in the theorem.

`OccurrencesAreRunOnce` assumes that no step is an `EditMeetsFire`: the owner's PUT of a
schedule while a fire holds, or gives back, an occurrence of the old one. Without it the
statement is false (section 5). Every other edit (enable, disable, delete) and a PUT at any
other time are in the theorem; the run `Background` also has a PUT that meets a fire, but
only one. `EditsStand`, `TriggersEndClean`, `DeliveryIsSound` and `MemoryIsKept` have no
hypothesis; what `DeliverySound` requires of the lease is in the property itself.

`EdgesAreSound` assumes `ClocksWithinGrace`: a sender's clock runs ahead of the server's by
no more than the extra minute for which the sweep keeps a nonce beyond the signature window
(`cmd/server/wire_chat.go:1218`). The signature check accepts clocks up to the whole window
ahead (`internal/inbound/handler.go:244`): an event from a sender that far ahead outlives
its nonce, and the statement is false. `Platform.cfg` gives both the same value.
`TagStaysWithTheFirst`, `IdentityIsSound`, `RegistriesAreSound` and the theorems about
`MCAgent` and `MCRecord` have no hypothesis.

`LimitsAreKept` assumes `RatesRefill`: while a bucket is idle for the sweeper's time the
rate would fill the largest burst. The code does not enforce it: the burst is a setting and
the idle time is ten minutes (`quota/ratelimit.go:61`), and a limiter that is slower than
that hands a caller a full bucket too early. `ThrottleAssumption` says of the constants that
a lockout is no shorter than the window and longer than a tick, which is what an attempt may
last; both are 15 minutes (`identity/throttle.go:42`), and credential work takes seconds.

The constants' assumptions (`RunsAssumption`, `BoundsAssumption`, `HomeAssumption`,
`SwitchAssumption` and those of `Interactions` and `LiveStream`) only give them their
types. Those of `MCBackground` say besides that the fires are finitely many, that a lease,
an interval and a backoff are not zero, and that no server has the name of the free lock.
Those of `MCRecord` say that a page, a read and the uploads under way are not zero and
that the images are finitely many. `CatalogAssumption`, `McpAssumption` and
`SkillsAssumption` of `MCPlatform` say that ids of providers are not zero, that there is
room for the client of a boot, and that the requests for skills are finitely many and none
is named like a free lock. Those of `MCAgent` say what a model may reply
(`LoopAssumption`: any calls, any way to stop), that the spawns are finitely many and the
root is none of them (`SpawnAssumption`), and that the idle window is a number
(`TimeoutAssumption`).

### Only model-checked

* Liveness (`EveryRunSettles`, `DecidedBatchFolds`, `AttachEnds`, `BackgroundSettles`,
  `AgentProgress`, `ToolsSettle`) is out of the prover's reach.
* What the recursive definitions over sequences compute in `Pairing`, `ToolText`
  and `History` (`ContextSound`, `TextToolsExact`, `HistoryFaithful`): an induction over
  data needs an operator parameter the provers cannot instantiate. (A least counterexample,
  as in `LeastNatural`, replaces the induction only where the property is a set of numbers.)
  `HistoryFaithful` has all of what is read back: the fold, and that paging
  (`Ledger!PagesCover`) and catching up (`RedisStream!ReadIsComplete`) lose nothing, both of
  which iterate over a list.
* `StreamSound` of `MCAgent`: decoding and assembly fold a sequence of events, which is the
  same induction; and `ToolsConfined` and `MoveLosesNothing` of `MCTools`, which reaches
  RECURSIVE operators through `ToolText`, so that no module that extends it can hold a
  theorem.

## 5. Where the code differs from what it says

`HistoryResults` is the one kept as a run. `buildHistoryFrom` keeps a pointer to a part of
the message it builds (`internal/chatapi/history.go:422`); a later append moves the parts
to a new array, and the result, written through the old pointer (`history.go:439`), is not
in the message that is returned. The comment at `history.go:286` says the result block
"fills in its result".

The definitions below are in the modules with a comment that quotes the code, and TLC
refutes each when it is added to the cfg of the run of its module (`EditsAddUp` with
two edits, `MoveOntoParentLosesNothing` with `Depth` 5 from a tree that holds `a/b/b/b/a`, `OccurrenceFiresOnce` with the bounds its row names, `WindowLocks` with
`MaxFailures` 3 and `MaxWrong` 6, `NeverBuried` with the constants of `InterFolds`,
`ActiveRowHasSettler` with those of `RunSettles`). They are kept out of the runs so that
the runs say what holds.

| Definition | What the code does |
|---|---|
| `RunLifecycle!ActiveRowHasSettler` with a failed statement | `StartRun` or `CompleteRunForRun` fails half-way and an active row has nobody left to settle it until the next restart (`session/runtime.go:279`) |
| `RunLifecycle!TerminalEventPrecedesSettle` | A Stop just before the terminal emit settles the run with no terminal event (`session/emitter.go:45`) |
| `Interactions!NeverBuried` | A submission that passed the pending gate early buries an undecided batch (`chatapi/handler.go:388`) |
| `Interactions!BatchAnsweredOnce` | A batch answered by a failed interrupt is folded again by the next submission (`session/registry.go:582`) |
| `Interactions!OlderBatchFolds` | The scan goes on past folded batches, which "would orphan the older decided batch's tool_use forever"; but it returns the newest decided batch whether it can be folded or not, and one whose assistant message was never stored hides the older ones for good (`session/registry.go:571`) |
| `LiveStream!DrainRecoversRetained` | The drain writes a queued frame past a dropped one the ring still holds (`chatapi/attach.go:354`) |
| `RedisStream!DroppedIsReread` | The poll position passes a dropped entry when a later one of its batch is delivered (`session/redisbroker.go:186`) |
| `Schedules!NoSessionLeft` | "so a rejected fire does not litter an empty session": the DELETE runs on the fire's own context, its failure is logged and nothing tries again (`schedule/trigger.go:549`) |
| `Webhooks!NeverSentTwice` | "concurrent sweepers never double-send": an attempt that outlasts its lease is sent again, the hook sends without a claim when the INSERT reported a failure and left a row, and `MarkFailed` and `MarkDelivered` do not check the claim, so that a late one makes a delivered row pending again (`webhook/sweep.go:17`) |
| `Dreaming!PanicReleases` | A panic "must still release the single-flight + cross-instance locks": in a scheduled pass nothing does, the scheduler's recover ends the tick and both locks stay held (`dreaming/runner.go:148`) |
| `Inbound!NoSessionLittered` | "A rejected trigger does not litter an empty session": the DELETE runs on the request's context, which ends with the sender, and is not retried (`inbound/dispatcher.go:300`) |
| `Otp!CapsHold` | The attempt cap and the daily quota of codes: a request that hangs up after its guess was compared, or after its code was sent, is not counted (`identity/phone.go:233`, `:217`) |
| `Frames!FollowsUntilSettled` | The stream "follows until the run settles" (`chatapi/attach.go:102`): the error of `ActiveRun` is dropped (`:115`, `:173`), and a run that goes on is finished with a stop |
| `Ledger!IntentBeforeEffect` | `BeforeModel` does not wrap `ErrAbortRun`, so a model call goes out with no intent (`session/accounting_mw.go:36`) |
| `Ledger!SpendNeverVanishes`, `IdsAscendWithSeq` | Usage whose rows cannot be written is not billed; a provisioned id may be older than its predecessor's |
| `History!OrphansAreDropped` | A result with generative UI whose call is on an earlier page is appended to a turn that does not exist |
| `Uploads!HistoryKeepsImages` | A message stored after the reference check loses its image (`upload/service.go:225`) |
| `Retention!ConversationPassComplete` | The cursor names a session the page has just deleted, and the pass stops (`session/sweep.go:65`) |
| `Quota!RetuneConverges` | A bucket in use is never idle and keeps its old burst |
| `Mcp!RemovedLoopsStop` | The connect loop of a boot-time or rebuilt server is not cancelled |
| `Skills!UpdateIsNoUpsert` | The scope check and the save are two statements: a skill deleted or moved in between is made anew (`skillapi/shared.go:28`) |
| `Skills!TeamShadowsSystem` | The stated priority is user, team, system (`skill/pgstore.go:135`); `AccessibleScopes` lists the system before the teams (`identity/service.go:252`) |
| `Subagents!UsageCountedOnce` | Every level of the tree takes itself for the root (`agent/middleware.go:557`) |
| `AgentLoop!CancelClosesStep` | "A step opened at iter>0 must not dangle" (`agent/loop.go:734`): a cancellation while a batch runs drops the step's finish, which is sent on the dead context (`loop.go:706`), and the loop head ends the run without another one (`loop.go:413`) |
| `AgentLoop!UsageAlwaysReported` | The usage is emitted on the run's own context and lost on a late cancellation (`agent/loop.go:770`) |
| `ContextView!DroppedStaysDropped`, `RepairAnswersNext` | A cut no summary covers is undone by the next rebuild; the result made up for a call comes after the user message that interrupted it |
| `Sandbox!RunKeepsItsSandbox` | The run-done hook of one run marks the sandbox that the next request was just given (`sandbox/manager.go:93`) |
| `FileTools!MoveOntoParentLosesNothing` | On docker a move of `a/b/b` into `a` lays it over `a/b`, puts its own files where it came from, and the final `rm -rf` takes them; the move is reported as done (`docker.go:293`) |
| `FileTools!FailedMoveChangesNoFile` | `cp -a` that fails midway has already overwritten files of the destination (`docker.go:293`) |
| `FileTools!DirectoryNeedsRecursive`, `EditsAddUp` | `delete_file` opens a directory like a file; two edits of one batch overwrite each other |
| `Teams!TeamKeepsAnOwner` | Two overlapping edits each count the other's owner, and `addMember` demotes without counting |
| `Throttle!WindowLocks` with three failures | "When either sliding window holds loginMaxFailures or more failures, that dimension is locked": a failure under way when the lock comes is appended to the history the expired lock clears, and the next failures of its window are counted without it (`identity/throttle.go:109`, `:140`) |
| `Schedules!OccurrenceFiresOnce` with many edits | `RequeueDueAt` recognises its own claim by the value of `next_run_at` alone, which a PUT of the schedule can bring back for another occurrence: TLC replays a behaviour of 8 fires and 6 PUTs in which five claims hold four instants (`schedule/store.go:280`) |
| `Schedules!ManualLeavesSchedule` | A manual fire that waits on an interaction requeues its task |

Smaller things seen while modelling, not stated as properties: a fire of an `enqueue` task
that loses the race for the run lock gives its occurrence up; `watchRunDelete` registers
after `Submit`; `update()` of a schedule writes back the enabled flag it read;
images whose one removal fails, or whose remover the process does not outlive, stay on disk
for ever (`Retention!NoOrphanImages` and `ImagePassComplete` except them by name, `missed`);
a nonce is pruned by the server's clock although an
event's age is the sender's; a login in flight while the password changes keeps its token;
an SSO sign-up does not take the bootstrap lock; a throttle attempt that outlasts the
lockout counts into the next window; two loops that insert at the same `MAX(seq)+1` lose
one message; a blob may be swept between its write and its row.

## 6. Not modelled, and the plan

* The Redis event bus relays lifecycle events between instances; `LiveStream` abstracts it
  to whether the terminal event was delivered.
* Workspace archives, usage and audit recording: reads and appends without
  concurrency of their own.
* OIDC, secrets, password hashing, TOTP: cryptography and library protocols.
* The HTTP surface, its API description and administration consoles, the wiring of the
  server, the command-line tools: parsing and construction. The handlers that change a
  modelled component are modelled with it.
* The web client: it is the nondeterministic client of the models.

Within modelled components, payload formats, prompts, wording, recall ranking, image
decoding and the API of the container runtime are left out; `PROJECT.json` says so per
component. Some omissions bear on how a property is to be read:

* Of the keywords of the argument screen, `maxItems`, `maxLength`, `pattern` and
  `exclusiveMaximum` are not in `ToolText` (`toolruntime/schema.go:88`, `:108`, `:111`,
  `:166`).
* A stream that sends arguments for a call it never started (`provider/openai/stream.go:231`)
  is not among the streams of `ModelStream`.
* `LiveInOrder` is about order and repetition. That nothing is skipped is `ReadIsComplete`
  for a catch-up and false for the live side (`DroppedIsReread`, section 5).
* A frame of the loop that cannot be appended durably is a failed statement of
  `RunLifecycle`, not a branch of `AgentLoop`; the usage row a root run writes for its
  descendants (`session/emitter.go:103`) is not modelled, `Subagents` stops at the total that
  goes into it; and a restart of the server
  empties the in-memory throttle of `Otp`, which would give every number its quota again.

Next: the tools beside their text algorithms (`ToolsConfined`), the machine left without a
proof.
