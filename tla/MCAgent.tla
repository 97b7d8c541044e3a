-------------------------------- MODULE MCAgent --------------------------------
(***************************************************************************)
(* The agent loop and what it stands on, on small instances.  The parts    *)
(* share no state in these models, so one of them moves (focus) while the  *)
(* others rest in an initial state; "histories" only enumerates message    *)
(* histories, on which the pairing operators are checked.                  *)
(***************************************************************************)
EXTENDS Integers, Sequences, FiniteSets

CONSTANTS
  MaxIterations, Replies,                                       \* AgentLoop
  Spawns, Root, Budgets,                                        \* Subagents
  Protocols, CallIds, Slots, MaxAttempts, Resends, MaxChunks,   \* ModelStream
  Timeout                                                       \* ModelStream, the reader

\* What a model may answer: any calls, any way to stop.
CallKinds == {"run", "invalid", "deny", "ask"}
Stops == {"end_turn", "tool_use", "max_tokens", "unknown", "early"}
ASSUME LoopAssumption ==
  /\ MaxIterations \in Nat
  /\ Replies \subseteq [calls : Seq(CallKinds), stop : Stops, usage : {"none", "below", "cap"}, content : BOOLEAN]
ASSUME SpawnAssumption ==
  /\ IsFiniteSet(Spawns) /\ Root \notin Spawns
  /\ Budgets \subseteq [depth : Nat, total : Nat, concurrent : Nat]
ASSUME TimeoutAssumption == Timeout \in Nat

VARIABLES
  focus,
  input, durable, view, cache, viewDropped, recovered, failures, retries, vpc, dropped,
  iter, lpc, dead, reply, todo, batch, ran, live, got, asked, lrecovered, spent, told, step,
  terminals, outcome, dangling,
  budget, node, slots, spawned, scope, reported, stopped,
  proto, mpc, tries, drops, chunks, dec, asm, halted, owner, owed, shown,
  rd, deadline, sfired, sclosed, wake, wd, timer, body, waited, unfair

viewVars == <<input, durable, view, cache, viewDropped, recovered, failures, retries, vpc, dropped>>
loopVars == <<iter, lpc, dead, reply, todo, batch, ran, live, got, asked, lrecovered, spent, told, step,
              terminals, outcome, dangling>>
subVars == <<budget, node, slots, spawned, scope, reported, stopped>>
msVars == <<proto, mpc, tries, drops, chunks, dec, asm, halted, owner, owed, shown>>
stallVars == <<rd, deadline, sfired, sclosed, wake, wd, timer, body, waited, unfair>>
vars == <<focus, viewVars, loopVars, subVars, msVars, stallVars>>

\* Answers of the model: text that ends early or normally, with or without a
\* reported usage, and batches of two calls, and one with a gap between its live calls.
NoCalls ==
  [calls : {<<>>}, stop : {"end_turn", "max_tokens", "early"}, usage : {"none", "below", "cap"}, content : BOOLEAN]
Batches ==
  [calls : {<<"run">>, <<"ask">>, <<"invalid">>, <<"run", "deny", "run">>} \cup ({"run", "deny"} \X {"run", "invalid", "ask"}),
   stop : {"tool_use", "max_tokens", "early"}, usage : {"none", "cap"}, content : {TRUE}]

SomeReplies == NoCalls \cup Batches

SomeBudgets == {[depth |-> 2, total |-> 2, concurrent |-> 1], [depth |-> 1, total |-> 3, concurrent |-> 2]}

V == INSTANCE ContextView WITH Bytes <- [n \in 0..13 |-> 2^n], Window <- 6, Trigger <- 5, KeepRecent <- 2,
                               MaxFailures <- 2, MaxRetries <- 2, MaxMsgs <- 13
L == INSTANCE AgentLoop WITH recovered <- lrecovered
U == INSTANCE Subagents
M == INSTANCE ModelStream WITH Ids <- CallIds, MaxRetries <- Resends

Init ==
  /\ focus \in {"histories", "view", "loop", "subagents", "stream", "stall"}
  /\ V!ViewInit /\ (focus # "histories" => input = <<>>)
  /\ (focus # "view" => Len(durable) = 1 /\ cache = V!NoCache)
  /\ L!LoopInit
  /\ U!SubInit /\ (focus # "subagents" => budget = CHOOSE b \in Budgets : TRUE)
  /\ M!StreamInit /\ (focus # "stream" => proto = CHOOSE p \in Protocols : TRUE)
  /\ M!NewStallReader

Only(f, A) == focus = f /\ A /\ UNCHANGED focus

ViewStep == Only("view", V!ViewNext) /\ UNCHANGED <<loopVars, subVars, msVars, stallVars>>
LoopStep == Only("loop", L!LoopNext) /\ UNCHANGED <<viewVars, subVars, msVars, stallVars>>
SubagentStep(A) == Only("subagents", A) /\ UNCHANGED <<viewVars, loopVars, msVars, stallVars>>
StreamStep == Only("stream", M!StreamNext) /\ UNCHANGED <<viewVars, loopVars, subVars, stallVars>>
StallStep(A) == Only("stall", A) /\ UNCHANGED <<viewVars, loopVars, subVars, msVars>>

Next == ViewStep \/ LoopStep \/ SubagentStep(U!SubNext) \/ StreamStep \/ StallStep(M!StallNext)

\* Goroutines go on and time passes; the upstream answers or not, but a body
\* that ended or was closed does not block its reader.
Fairness ==
  /\ \A s \in Spawns : WF_vars(SubagentStep(U!SubStep(s)))
  /\ WF_vars(StallStep(M!Watchdog)) /\ WF_vars(StallStep(M!Elapse)) /\ WF_vars(StallStep(M!DisarmRead))
  /\ WF_vars(StallStep(body # "open" /\ \E r \in {"eof", "failed"} : M!BodyRead(r)))

Spec == Init /\ [][Next]_vars /\ Fairness

\* Context: the repair before a send adds and drops only what the provider's
\* contract demands, cuts fall between rounds, what is sent is paired, and
\* nothing leaves the view without a summary or a recorded cut to stand for it.
ContextSound ==
  V!ViewTypeOK /\ V!RepairIsMinimal /\ V!CutsBetweenRounds /\ V!SentIsPaired /\ V!NothingSilentlyLost

\* Turns: every durable tool call is answered, by its own result; a truncated
\* plan is not executed; the run announces its end exactly once; and the depth,
\* slots and total budget of subagents hold over the whole run tree.
TurnSound ==
  /\ L!LoopTypeOK /\ L!BatchAnswered /\ L!ResultsTellTheTruth /\ L!OnlyCompletePlansAct /\ L!EndIsAnnounced
  /\ U!SubTypeOK /\ U!FanOutBounded

\* Streams: no delta of the wire is lost or given to another block, and the
\* client is shown one send only.
StreamSound == M!StreamTypeOK /\ M!DeltasKept /\ M!DecoderKeepsContract /\ M!OneSendShown

\* The idle deadline: a stall is declared only on a read that waited the whole
\* window, whatever its timer, the wake-ups and the next read do meanwhile; no
\* wake-up is lost; and the watchdog leaves no open stream behind.
StallSound == M!StallTypeOK /\ M!StallIsDeserved /\ M!NoLostWakeup /\ M!WatchdogLeavesInOrder

\* Every spawn_agent call returns however the slots are held, a read on a
\* silent upstream is freed, and the watchdog ends with its stream.
AgentProgress == U!SpawnReturns /\ M!HungReadReturns /\ M!WatchdogExits

\* "a child's own emission stays its own (no double counting)", so the root
\* reports what the loops of its tree used.
UsageCountedOnce == U!UsageCountedOnce
=============================================================================
