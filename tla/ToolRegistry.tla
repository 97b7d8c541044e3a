----------------------------- MODULE ToolRegistry -----------------------------
(***************************************************************************)
(* The tools a run may call and how its calls are executed: the registry   *)
(* the server builds for a session (wire_chat.go), its whitelist filter    *)
(* for scheduled runs, the scoped registry a subagent gets, the permission *)
(* policy by risk, and Registry.Call with its concurrency slots.  A spawn  *)
(* call keeps its slot while the calls of its subagent run.                *)
(***************************************************************************)
EXTENDS Integers, FiniteSets

CONSTANTS
  Calls,       \* tool calls of the run and of its subagent
  Caps,        \* values of HTTP_TOOL_MAX_CONCURRENT, 0 = unlimited
  DefaultCap   \* slots of a registry nobody configured

Builtin == {"ask_user", "web_search"}             \* registered always
Sandboxed == {"write_file"}                       \* needs the session's sandbox
Spawn == "spawn_agent"
Tools == Builtin \cup Sandboxed \cup {Spawn}
NoWhitelist == {"*"}
Owners == {"run", "child"}

VARIABLES
  boot,      \* what the build saw: [sandbox, whitelist, scope, policy, cap]
  reg,       \* [run |-> the run's tools, parent |-> the tools spawn scopes from]
  tcall,     \* call -> [at, owner, tool, res]
  used,      \* registry -> slots taken
  tcancelled

toolVars == <<boot, reg, tcall, used, tcancelled>>

Risk(t) == CASE t = "ask_user" -> "read_only" [] t = "write_file" -> "sandbox_write"
             [] t = "web_search" -> "network" [] t = Spawn -> "read_only"

(* permission.Policy: a tier without a decision asks. *)
DecisionFor(t) ==
  IF Risk(t) \in DOMAIN boot.policy THEN boot.policy[Risk(t)] ELSE "ask"

(* buildToolRegistry *)
Full(b) == Builtin \cup {Spawn} \cup (IF b.sandbox THEN Sandboxed ELSE {})
Filtered(b) == IF b.whitelist = NoWhitelist THEN Full(b) ELSE Full(b) \cap b.whitelist

ParentUnbound(b) == Full(b)
SpawnParent(b) == Filtered(b)      \* the whitelisted spawn tool is rebound (WithParent)

BuildToolRegistry(b) == [run |-> Filtered(b), parent |-> SpawnParent(b)]

(* Registry.Scoped: allow empty or "*" is everything, deny and exclude win. *)
Scoped(parent, allow, deny, exclude) ==
  LET wildcard == allow = {} \/ "*" \in allow
  IN  {t \in parent : (wildcard \/ t \in allow) /\ t \notin deny \cup exclude}

RegistryOf(owner) ==
  IF owner = "run" THEN reg.run ELSE Scoped(reg.parent, boot.scope.allow, boot.scope.deny, {Spawn})

\* NewRegistry gives the scoped registry slots of its own.
SharedSemaphore(owner) == [name |-> "run", cap |-> boot.cap]
Semaphore(owner) ==
  IF owner = "run" THEN [name |-> "run", cap |-> boot.cap] ELSE [name |-> "child", cap |-> DefaultCap]

Unused == [at |-> "idle", owner |-> "run", tool |-> Spawn, res |-> "none"]

ToolsTypeOK ==
  /\ used \in [Owners -> 0..Cardinality(Calls)]
  /\ \A c \in Calls :
       /\ tcall[c].at \in {"idle", "queued", "exec", "done"}
       /\ tcall[c].res \in {"none", "ok", "error", "unknown", "denied", "cancelled"}
  /\ reg.run \subseteq Tools /\ reg.parent \subseteq Tools /\ tcancelled \in BOOLEAN

\* A session with or without a sandbox, a scheduled run's whitelist, a
\* subagent's scope, a tier policy and the configured slots.
Builds ==
  [sandbox : BOOLEAN, whitelist : {NoWhitelist, {Spawn}, {"write_file", Spawn}},
   scope : {[allow |-> {}, deny |-> {}], [allow |-> {"web_search", Spawn}, deny |-> {}],
            [allow |-> {"*"}, deny |-> {"web_search"}]},
   policy : {[r \in {"read_only", "sandbox_write", "network"} |-> "allow"],
             [r \in {"read_only", "network"} |-> IF r = "network" THEN "deny" ELSE "allow"]},
   cap : Caps]

ToolsInit ==
  /\ boot \in Builds
  /\ reg = BuildToolRegistry(boot)
  /\ tcall = [c \in Calls |-> Unused]
  /\ used = [o \in Owners |-> 0] /\ tcancelled = FALSE

Spawning == \E c \in Calls : tcall[c].at = "exec" /\ tcall[c].tool = Spawn
ChildBusy == \E c \in Calls : tcall[c].owner = "child" /\ tcall[c].at \in {"queued", "exec"}

\* dispatch resolves the tool and asks the execution gate; a refused call is
\* answered without running.  The subagent calls while its spawn call runs.
DispatchCall(c, owner, t) ==
  /\ tcall[c].at = "idle" /\ (owner = "child" => Spawning)
  /\ LET refused == CASE t \notin RegistryOf(owner) -> "unknown"
                      [] t \in RegistryOf(owner) /\ DecisionFor(t) = "deny" -> "denied"
                      [] OTHER -> "none"
     IN  tcall' = [tcall EXCEPT ![c] = [at |-> IF refused = "none" THEN "queued" ELSE "done",
                                        owner |-> owner, tool |-> t, res |-> refused]]
  /\ UNCHANGED <<boot, reg, used, tcancelled>>

(* Registry.Call *)
Acquire(c) ==
  LET sem == Semaphore(tcall[c].owner)
  IN  /\ tcall[c].at = "queued" /\ (sem.cap = 0 \/ used[sem.name] < sem.cap)
      /\ tcall' = [tcall EXCEPT ![c].at = "exec"]
      /\ used' = IF sem.cap = 0 THEN used ELSE [used EXCEPT ![sem.name] = @ + 1]
      /\ UNCHANGED <<boot, reg, tcancelled>>

CancelQueued(c) ==
  /\ tcall[c].at = "queued" /\ tcancelled
  /\ tcall' = [tcall EXCEPT ![c].at = "done", ![c].res = "cancelled"]
  /\ UNCHANGED <<boot, reg, used, tcancelled>>

Release(c) ==
  LET sem == Semaphore(tcall[c].owner)
  IN  IF sem.cap = 0 THEN used ELSE [used EXCEPT ![sem.name] = @ - 1]

\* The tool returns, fails, runs into its timeout or panics; the slot it took
\* is given back in every case.  A spawn call waits for its subagent's calls.
ToolReturns(c, res) ==
  /\ tcall[c].at = "exec" /\ (tcall[c].tool = Spawn => ~ChildBusy)
  /\ tcall' = [tcall EXCEPT ![c].at = "done", ![c].res = res]
  /\ used' = Release(c)
  /\ UNCHANGED <<boot, reg, tcancelled>>

CancelRunCtx ==
  /\ ~tcancelled /\ tcancelled' = TRUE /\ UNCHANGED <<boot, reg, tcall, used>>

CallStep(c) == Acquire(c) \/ CancelQueued(c) \/ \E res \in {"ok", "error"} : ToolReturns(c, res)

ToolsNext ==
  \/ \E c \in Calls, o \in Owners, t \in Tools : DispatchCall(c, o, t)
  \/ \E c \in Calls : CallStep(c)
  \/ CancelRunCtx

ToolsSpec == ToolsInit /\ [][ToolsNext]_toolVars /\ \A c \in Calls : WF_toolVars(CallStep(c))

Ran(c) == tcall[c].at = "exec" \/ tcall[c].res \in {"ok", "error"}

\* Neither a scheduled run nor a subagent it spawns executes a tool outside
\* the run's whitelist.
WhitelistConfines ==
  \A c \in Calls : Ran(c) /\ boot.whitelist # NoWhitelist => tcall[c].tool \in boot.whitelist

\* Every dispatched call is answered, without anybody's timeout: a spawn call
\* that holds the last slot does not starve the calls it waits for.
CallsReturn == \A c \in Calls : tcall[c].at = "queued" ~> tcall[c].at = "done"
=============================================================================
