------------------------------- MODULE Subagents -------------------------------
(***************************************************************************)
(* The run tree that spawn_agent grows (internal/subagent/tool.go): child  *)
(* loops inside tool calls of their parent loop, one shared SpawnTool with *)
(* its depth cap, slots and total budget, and the usage scope that folds   *)
(* the children's usage into the root's report (internal/agent/            *)
(* usagescope.go, UsageMW in middleware.go).  A loop that is in a tool     *)
(* batch waits for every call of the batch.                                *)
(***************************************************************************)
EXTENDS Naturals, Sequences, FiniteSets

CONSTANTS
  Spawns,         \* spawn_agent calls
  Root,           \* the top-level run, not in Spawns
  Budgets         \* limits NewSpawnTool and WithBudget may set: depth, total, concurrent

VARIABLES
  budget,         \* the limits of this run
  node,           \* per run: phase, parent, depth, own usage
  slots,          \* spawns that hold a slot of sem
  spawned,        \* the atomic counter
  scope,          \* UsageScope.child
  reported,       \* the root's terminal usage report
  stopped         \* the run's context is cancelled

subVars == <<budget, node, slots, spawned, scope, reported, stopped>>

Runs == Spawns \cup {Root}
Idle == [phase |-> "idle", parent |-> Root, depth |-> 0, own |-> 0]

SubTypeOK ==
  /\ \A r \in Runs : /\ node[r].phase \in {"idle", "called", "queued", "counted", "looping", "done", "error"}
                     /\ node[r].depth \in Nat
                     /\ node[r].own \in Nat
  /\ slots \subseteq Spawns
  /\ spawned \in 0..Cardinality(Spawns)
  /\ scope \in Nat /\ reported \in Nat
  /\ stopped \in BOOLEAN

SubInit ==
  /\ budget \in Budgets
  /\ node = [r \in Runs |-> IF r = Root THEN [Idle EXCEPT !.phase = "looping"] ELSE Idle]
  /\ slots = {} /\ spawned = 0 /\ scope = 0 /\ reported = 0 /\ stopped = FALSE

Returned(r) == node[r].phase \in {"done", "error"}
Children(r) == {s \in Spawns : node[s].phase # "idle" /\ node[s].parent = r}
InBatch(r) == \E s \in Children(r) : ~Returned(s)

-----------------------------------------------------------------------------
(* The tool call.                                                          *)

\* The call's early returns: nothing was acquired, the parent model reads the error.
Refused(s) == node' = [node EXCEPT ![s].phase = "error"]

\* The model of a running loop emits a batch of spawn_agent calls; they start together.
Batch(p, batch) ==
  /\ node[p].phase = "looping" /\ ~InBatch(p) /\ ~stopped
  /\ batch # {} /\ \A s \in batch : node[s].phase = "idle"
  /\ node' = [r \in Runs |-> IF r \in batch
                             THEN [phase |-> "called", parent |-> p, depth |-> node[p].depth, own |-> 0]
                             ELSE node[r]]
  /\ UNCHANGED <<slots, spawned, scope, reported, stopped, budget>>

DepthLimit(s) == node[s].depth >= budget.depth

\* Depth guard, prompt, definition, scoped pool and the child loop's construction.
Resolve(s) ==
  /\ node[s].phase = "called"
  /\ \/ DepthLimit(s) /\ Refused(s)
     \/ ~DepthLimit(s) /\ Refused(s)
     \/ ~DepthLimit(s) /\ node' = [node EXCEPT ![s].phase = "queued", ![s].depth = @ + 1]
  /\ UNCHANGED <<slots, spawned, scope, reported, stopped, budget>>

Acquire(s) ==
  /\ slots' = slots \cup {s}
  /\ node' = [node EXCEPT ![s].phase = "counted"]

HasSlot == Cardinality(slots) < budget.concurrent

\* Mutant: every spawn waits for a slot.
QueueAlways(s) ==
  /\ node[s].phase = "queued"
  /\ \/ HasSlot /\ Acquire(s)
     \/ stopped /\ Refused(s) /\ UNCHANGED slots
  /\ UNCHANGED <<spawned, scope, reported, stopped, budget>>

\* A call of the root waits for a slot or the cancellation, a nested one bails out.
Queue(s) ==
  /\ node[s].phase = "queued"
  /\ \/ HasSlot /\ Acquire(s)
     \/ stopped /\ node[s].parent = Root /\ Refused(s) /\ UNCHANGED slots
     \/ ~HasSlot /\ node[s].parent # Root /\ Refused(s) /\ UNCHANGED slots
  /\ UNCHANGED <<spawned, scope, reported, stopped, budget>>

\* Counted after the slot is held; the deferred release runs on the refusal too.
CountSpawn(s) ==
  /\ node[s].phase = "counted"
  /\ spawned' = spawned + 1
  /\ \/ spawned' > budget.total /\ Refused(s) /\ slots' = slots \ {s}
     \/ spawned' <= budget.total /\ node' = [node EXCEPT ![s].phase = "looping"] /\ UNCHANGED slots
  /\ UNCHANGED <<scope, reported, stopped, budget>>

-----------------------------------------------------------------------------
(* The loops.                                                              *)

\* A model call of a running loop (once per loop: usage is counted in calls).
ModelCall(r) ==
  /\ node[r].phase = "looping" /\ ~InBatch(r) /\ node[r].own = 0
  /\ node' = [node EXCEPT ![r].own = 1]
  /\ UNCHANGED <<slots, spawned, scope, reported, stopped, budget>>

\* UsageMW.AfterRun: the scope is marked as the root's, and every descendant carries it.
TerminalUsage(r) == node[r].own + scope

\* A child ends: done, failed, or stopped at a gate it cannot wait at, which is an error
\* result; its usage is captured on the way and its slot released.
ChildEnds(s) ==
  /\ node[s].phase = "looping" /\ s # Root /\ ~InBatch(s)
  /\ node' = [node EXCEPT ![s].phase = IF stopped THEN "error" ELSE "done"]
  /\ scope' = scope + TerminalUsage(s)
  /\ slots' = slots \ {s}
  /\ UNCHANGED <<spawned, reported, stopped, budget>>

RootEnds ==
  /\ node[Root].phase = "looping" /\ ~InBatch(Root)
  /\ node' = [node EXCEPT ![Root].phase = IF stopped THEN "error" ELSE "done"]
  /\ reported' = TerminalUsage(Root)
  /\ UNCHANGED <<slots, spawned, scope, stopped, budget>>

CancelTree ==
  /\ ~stopped /\ ~Returned(Root) /\ stopped' = TRUE
  /\ UNCHANGED <<node, slots, spawned, scope, reported, budget>>

SubStep(s) == Resolve(s) \/ Queue(s) \/ CountSpawn(s) \/ ChildEnds(s)

SubNext ==
  \/ \E p \in Runs : \E b \in SUBSET Spawns : Batch(p, b)
  \/ \E s \in Spawns : SubStep(s)
  \/ \E r \in Runs : ModelCall(r)
  \/ RootEnds \/ CancelTree

SubSpec == SubInit /\ [][SubNext]_subVars

-----------------------------------------------------------------------------
(* Properties.                                                             *)

LoopingChildren == {s \in Spawns : node[s].phase = "looping"}

\* The fan-out stays bounded over the whole tree: children that run hold a slot of the
\* shared tool, never more than the budget ever run, none below the depth cap; and a run
\* that ended left no slot taken.
FanOutBounded ==
  /\ LoopingChildren \subseteq slots /\ Cardinality(slots) <= budget.concurrent
  /\ Cardinality({s \in Spawns : node[s].depth > 0 /\ node[s].phase \in {"looping", "done"}}) <= budget.total
  /\ \A s \in LoopingChildren : node[s].depth <= budget.depth /\ node[s].parent # s
  /\ Returned(Root) => slots = {}

\* "a child waiting here would stall the whole run tree": every spawn_agent call returns,
\* so the run that made it goes on, however the slots are held above it.
SpawnReturns == \A s \in Spawns : node[s].phase = "called" ~> Returned(s)

\* UsageScope: "a child's own emission stays its own (no double counting)", so the root
\* reports what the loops of its tree used.  Violated: a child that ends after a
\* child of its own reports the whole scope, which its parent adds again.
UsageCountedOnce ==
  Returned(Root) => reported = Cardinality({r \in Runs : node[r].own = 1})
=============================================================================
