------------------------------- MODULE AgentLoop -------------------------------
(***************************************************************************)
(* Loop.Run of internal/agent/loop.go: iterations of one model call and    *)
(* one tool batch, with the stop reasons, the gates, the concurrent        *)
(* dispatch and the three ways a run ends.  The emitter drops what is sent *)
(* on a cancelled context, so every emission says whether it is detached;  *)
(* emissions of one path are queued in todo and leave one by one, a        *)
(* cancellation may land between any two.  Only the newest assistant       *)
(* message is kept in detail.                                              *)
(***************************************************************************)
EXTENDS Naturals, Sequences, FiniteSets

CONSTANTS
  MaxIterations,  \* Config.MaxIterations
  Replies         \* what one model call may return, see Reply

VARIABLES
  iter, lpc,      \* iteration and control point
  dead,           \* ctx.Err() # nil
  reply,          \* the assembled ModelResult
  todo,           \* emissions of the current path that have not left yet
  batch,          \* the newest durable assistant message, its batch and the results
  ran,            \* calls of the batch whose tool was entered
  live,           \* dispatch's liveIdx: the calls that were started, by their place in the batch
  got,            \* and what each came back with: the call it is the outcome of, NoResult while it runs
  asked,          \* interrupts emitted for the batch
  recovered,      \* RunState.overflowRecovered
  spent, told,    \* usage accumulated, and usage reported by UsageMW
  step,           \* whether a step that was started is still open
  terminals,      \* terminal frames that left
  outcome,        \* what Run returned
  dangling        \* observed: an older batch was left without results

loopVars == <<iter, lpc, dead, reply, todo, batch, ran, live, got, asked, recovered,
              spent, told, step, terminals, outcome, dangling>>

\* A call is "run", or "invalid" (arguments, name, schema), or "deny" (the
\* execution gate), or "ask" (needs the client); a reply stops with "end_turn",
\* "tool_use", "max_tokens" or "unknown", or the stream ends "early".
Reply(calls, stop, usage, content) == [calls |-> calls, stop |-> stop, usage |-> usage, content |-> content]
NoReply == Reply(<<>>, "unknown", "none", FALSE)
\* A result is known by the call whose tool produced it; NoResult says that none did.
NoResult == 0
NoBatch == [calls |-> <<>>, stop |-> "end_turn", answers |-> <<>>]

LoopTypeOK ==
  /\ iter \in 0..MaxIterations
  /\ lpc \in {"iterate", "before", "attempt", "assess", "after", "decide", "gate", "tools", "end"}
  /\ dead \in BOOLEAN /\ recovered \in BOOLEAN /\ dangling \in BOOLEAN
  /\ ran \subseteq DOMAIN batch.calls
  /\ asked \subseteq DOMAIN batch.calls
  /\ Len(batch.answers) \in {0, Len(batch.calls)}
  /\ told \in 0..spent
  /\ step \in {"open", "closed"}
  /\ outcome \in {"none", "done", "failed", "cancelled"}

LoopInit ==
  /\ iter = 0 /\ lpc = "iterate" /\ dead = FALSE
  /\ reply = NoReply /\ todo = <<>>
  /\ batch = NoBatch /\ ran = {} /\ live = <<>> /\ got = <<>> /\ asked = {}
  /\ recovered = FALSE /\ spent = 0 /\ told = 0
  /\ step = "closed" /\ terminals = <<>> /\ outcome = "none" /\ dangling = FALSE

-----------------------------------------------------------------------------
(* Emissions.                                                              *)

Live(kinds) == [i \in DOMAIN kinds |-> [kind |-> kinds[i], detached |-> FALSE]]
Detached(kinds) == [i \in DOMAIN kinds |-> [kind |-> kinds[i], detached |-> TRUE]]

\* The emitter's context guard, and what one frame means to the transport.
EmitNext ==
  /\ todo # <<>>
  /\ todo' = Tail(todo)
  /\ LET e == Head(todo) IN
       IF dead /\ ~e.detached THEN UNCHANGED <<step, told, terminals>>
       ELSE /\ step' = CASE e.kind = "start" -> "open" [] e.kind = "finish" -> "closed" [] OTHER -> step
            /\ told' = IF e.kind = "usage" THEN spent ELSE told
            /\ terminals' = IF e.kind \in {"done", "error", "cancelled"}
                            THEN Append(terminals, e.kind) ELSE terminals
  /\ UNCHANGED <<iter, lpc, dead, reply, batch, ran, live, got, asked, recovered, spent, outcome, dangling>>

\* The three ways out; each closes the step, reports usage and ends with its frame.
FailRun ==
  /\ todo' = Live(<<"finish", "usage", "error">>)
  /\ outcome' = "failed" /\ lpc' = "end"

CancelRun ==
  /\ todo' = Detached(<<"finish", "usage", "cancelled">>)
  /\ outcome' = "cancelled" /\ lpc' = "end"

SucceedRun ==
  /\ todo' = Live(<<"finish", "usage", "done">>)
  /\ outcome' = "done" /\ lpc' = "end"

\* The stop button, a server shutdown, a deadline: at any moment.
Cancel ==
  /\ outcome = "none" \/ todo # <<>>
  /\ ~dead /\ dead' = TRUE
  /\ UNCHANGED <<iter, lpc, reply, todo, batch, ran, live, got, asked, recovered, spent, told,
                 step, terminals, outcome, dangling>>

-----------------------------------------------------------------------------
(* One iteration.                                                          *)

\* Everything a path leaves alone unless it says otherwise.
Keep == UNCHANGED <<dead, step, told, terminals>>

\* The loop head: the iteration guard, a cancellation between iterations, the next step.
IterStart ==
  /\ lpc = "iterate" /\ todo = <<>>
  /\ \/ iter = MaxIterations /\ FailRun
     \/ /\ iter < MaxIterations /\ dead
        /\ todo' = Detached(<<"usage", "cancelled">>)
        /\ outcome' = "cancelled" /\ lpc' = "end"
     \/ /\ iter < MaxIterations /\ ~dead
        /\ todo' = IF iter > 0 THEN Live(<<"start">>) ELSE <<>>
        /\ lpc' = "before" /\ UNCHANGED outcome
  /\ Keep /\ UNCHANGED <<iter, reply, batch, ran, live, got, asked, recovered, spent, dangling>>

\* The hooks before the model call; only ErrAbortRun counts.
BeforeModel ==
  /\ lpc = "before" /\ todo = <<>>
  /\ \/ FailRun
     \/ lpc' = "attempt" /\ UNCHANGED <<todo, outcome>>
  /\ Keep /\ UNCHANGED <<iter, reply, batch, ran, live, got, asked, recovered, spent, dangling>>

\* One provider call through the middleware.  A stream that closes on a cancelled
\* context is an error, so a reply is only ever taken on a live one.
Attempt ==
  /\ lpc = "attempt" /\ todo = <<>>
  /\ \/ /\ ~dead
        /\ reply' \in Replies
        /\ lpc' = "assess" /\ UNCHANGED <<todo, outcome>>
     \/ dead /\ CancelRun /\ UNCHANGED reply
     \/ ~dead /\ FailRun /\ UNCHANGED reply
  /\ Keep /\ UNCHANGED <<iter, batch, ran, live, got, asked, recovered, spent, dangling>>

IsRecoverableLength == reply.usage = "below"
GenuineLength == reply.stop = "max_tokens" /\ reply.usage = "cap"

Answered == Len(batch.answers) = Len(batch.calls)

\* The new assistant message becomes durable, whatever happens to the context.
PersistMessage ==
  /\ batch' = [calls |-> reply.calls, stop |-> reply.stop, answers |-> <<>>]
  /\ dangling' = (dangling \/ ~Answered)
  /\ ran' = {} /\ asked' = {} /\ live' = <<>> /\ got' = <<>>

\* Usage is added; an empty reply fails; a truncation below the cap is discarded and
\* retried once with the oldest round dropped, if one can be.
Assess ==
  /\ lpc = "assess"
  /\ spent' = IF reply.usage = "none" THEN spent ELSE spent + 1
  /\ \/ /\ reply.calls = <<>> /\ ~reply.content
        /\ FailRun /\ UNCHANGED <<iter, batch, ran, live, got, asked, recovered, dangling>>
     \/ /\ reply.calls = <<>> /\ reply.content /\ reply.stop = "max_tokens" /\ IsRecoverableLength
        /\ \/ FailRun /\ UNCHANGED <<iter, recovered>>
           \/ /\ ~recovered /\ recovered' = TRUE
              /\ todo' = Live(<<"recovery", "finish">>)
              /\ iter' = iter + 1 /\ lpc' = "iterate" /\ UNCHANGED outcome
        /\ UNCHANGED <<batch, ran, live, got, asked, dangling>>
     \/ /\ reply.calls # <<>> \/ (reply.content /\ ~(reply.stop = "max_tokens" /\ IsRecoverableLength))
        /\ PersistMessage
        /\ lpc' = "after" /\ UNCHANGED <<iter, todo, recovered, outcome>>
  /\ Keep /\ UNCHANGED reply

\* recordToolResults: streamed, appended and persisted on a detached context.
RecordToolResults(answers) == batch' = [batch EXCEPT !.answers = answers]

Refuse == RecordToolResults([i \in DOMAIN batch.calls |-> NoResult])

AfterModel ==
  /\ lpc = "after"
  /\ \/ Refuse /\ FailRun
     \/ lpc' = "decide" /\ UNCHANGED <<batch, todo, outcome>>
  /\ Keep /\ UNCHANGED <<iter, reply, ran, live, got, asked, recovered, spent, dangling>>

\* A reply without calls is final: only a natural end or a fully used cap completes.
Complete == reply.stop = "end_turn" \/ GenuineLength

FinalAnswer ==
  /\ lpc = "decide" /\ reply.calls = <<>>
  /\ \/ ~Complete /\ FailRun
     \/ Complete /\ dead /\ CancelRun
     \/ Complete /\ ~dead /\ SucceedRun
  /\ Keep /\ UNCHANGED <<iter, reply, batch, ran, live, got, asked, recovered, spent, dangling>>

\* A batch the caller cancelled, or whose message was cut short, is answered, not run.
Trustworthy == reply.stop \in {"end_turn", "tool_use"}

RefuseBatch ==
  /\ lpc = "decide" /\ reply.calls # <<>>
  /\ dead \/ ~Trustworthy
  /\ Refuse
  /\ \/ dead /\ CancelRun /\ UNCHANGED iter
     \/ /\ ~dead
        /\ todo' = Live(<<"finish">>)
        /\ iter' = iter + 1 /\ lpc' = "iterate" /\ UNCHANGED outcome
  /\ Keep /\ UNCHANGED <<reply, ran, live, got, asked, recovered, spent, dangling>>

-----------------------------------------------------------------------------
(* The suspend point.                                                      *)

Gated == {i \in DOMAIN reply.calls : reply.calls[i] = "ask"}

OpenGate ==
  /\ lpc = "decide" /\ reply.calls # <<>> /\ ~dead /\ Trustworthy /\ Gated # {}
  /\ lpc' = "gate"
  /\ Keep /\ UNCHANGED <<iter, reply, todo, batch, ran, live, got, asked, recovered, spent, outcome, dangling>>

\* The batch is answered before the run fails: no verdict will ever arrive.
InterruptFails == Refuse /\ FailRun /\ UNCHANGED asked

\* One interrupt per gated call, stored before it is published; the store may fail.
EmitInterrupt ==
  /\ lpc = "gate"
  /\ LET left == Gated \ asked IN
       \/ left = {} /\ SucceedRun /\ UNCHANGED <<batch, asked>>
       \/ /\ left # {} /\ ~dead
          /\ asked' = asked \cup {CHOOSE i \in left : \A j \in left : i <= j}
          /\ UNCHANGED <<batch, todo, outcome, lpc>>
       \/ left # {} /\ InterruptFails
  /\ Keep /\ UNCHANGED <<iter, reply, ran, live, got, recovered, spent, dangling>>

-----------------------------------------------------------------------------
(* Dispatch.                                                               *)

LiveCalls == {i \in DOMAIN reply.calls : reply.calls[i] = "run"}

Increasing(idx) == \A j, k \in DOMAIN idx : j < k => idx[j] < idx[k]
InOrder(calls, idx) == Increasing(idx) /\ \A i \in calls : \E j \in DOMAIN idx : idx[j] = i

\* Invalid and denied calls are answered inline; the others start together, listed in
\* the order of the batch without the screened ones between them.
Dispatch ==
  /\ lpc = "decide" /\ reply.calls # <<>> /\ ~dead /\ Trustworthy /\ Gated = {}
  /\ \E n \in 0..Len(reply.calls) :
       /\ live' \in {idx \in [1..n -> LiveCalls] : InOrder(LiveCalls, idx)}
       /\ got' = [j \in 1..n |-> NoResult]
  /\ ran' = LiveCalls
  /\ lpc' = "tools"
  /\ Keep /\ UNCHANGED <<iter, reply, todo, batch, asked, recovered, spent, outcome, dangling>>

\* A tool returns, in any order, into the slot of its goroutine.
ToolDone(j) ==
  /\ lpc = "tools" /\ got[j] = NoResult
  /\ got' = [got EXCEPT ![j] = live[j]]
  /\ Keep /\ UNCHANGED <<iter, lpc, reply, todo, batch, ran, live, asked, recovered, spent, outcome, dangling>>

\* Mutant: results are laid at their own position instead of the call's.
MergeInOrder(calls, idx, out) == [i \in calls |-> IF i \in DOMAIN out THEN out[i] ELSE NoResult]

\* results[liveIdx[j]] = r, over the answers of the screen.
Merge(calls, idx, out) ==
  [i \in calls |-> IF \E j \in DOMAIN idx : idx[j] = i THEN out[CHOOSE j \in DOMAIN idx : idx[j] = i] ELSE NoResult]

\* wg.Wait: all are back; the batch is recorded even if the run was cancelled meanwhile.
RecordBatch ==
  /\ lpc = "tools" /\ \A j \in DOMAIN got : got[j] # NoResult
  /\ RecordToolResults(Merge(DOMAIN batch.calls, live, got))
  /\ todo' = Live(<<"finish">>)
  /\ iter' = iter + 1 /\ lpc' = "iterate"
  /\ Keep /\ UNCHANGED <<reply, ran, live, got, asked, recovered, spent, outcome, dangling>>

LoopNext ==
  \/ EmitNext \/ Cancel \/ IterStart \/ BeforeModel \/ Attempt \/ Assess \/ AfterModel
  \/ FinalAnswer \/ RefuseBatch \/ OpenGate \/ EmitInterrupt \/ Dispatch \/ RecordBatch
  \/ \E j \in DOMAIN got : ToolDone(j)

LoopSpec == LoopInit /\ [][LoopNext]_loopVars

-----------------------------------------------------------------------------
(* Properties.                                                             *)

Ended == outcome # "none" /\ todo = <<>>

\* "its tool_use blocks WILL be answered": no batch is left behind without results when
\* the next message is stored, and none is open when the run ends, unless the run
\* suspended with a stored interaction for every gated call.
BatchAnswered ==
  /\ ~dangling
  /\ outcome # "none" /\ ~Answered => outcome = "done" /\ asked = Gated /\ asked # {}

\* A result tells the truth about its own call: a call that was executed is answered by
\* the outcome of its own tool, and calls that were screened, gated, truncated or cancelled
\* say so, so that a later turn never assumes effects that did not happen, repeats effects
\* that did, or reads one call's outcome as another's.
ResultsTellTheTruth ==
  \A i \in DOMAIN batch.answers : batch.answers[i] = IF i \in ran THEN i ELSE NoResult

\* Only a complete message is acted on: no call runs and no client is asked on a message
\* that was cut short, and no call of a batch runs while one of its calls waits.
OnlyCompletePlansAct ==
  ran # {} \/ asked # {} =>
    /\ batch.stop \in {"end_turn", "tool_use"}
    /\ ran = {} \/ asked = {}
    /\ \A i \in ran : batch.calls[i] = "run"
    /\ \A i \in asked : batch.calls[i] = "ask"

\* "a failure must carry a terminal frame": a run that was cancelled, or that ended on a
\* live context, sent exactly the frame of its outcome and reported all of its usage; on a
\* live context it closed its step too.
EndIsAnnounced ==
  Ended /\ (outcome = "cancelled" \/ ~dead) =>
    /\ terminals = <<CASE outcome = "failed" -> "error" [] OTHER -> outcome>>
    /\ told = spent
    /\ ~dead => step = "closed"

\* "a step opened at iter>0 must not dangle", said of cancelled runs.  Violated: a
\* cancellation while a batch runs drops the finish of its step, and the loop head then
\* ends the run without closing it.
CancelClosesStep == Ended /\ outcome = "cancelled" => step = "closed"

\* reportTerminal's reason to exist, asked of every way out: "a cancelled run still
\* consumed tokens", so an ended run has reported them.  Violated: succeedRun and
\* failRun report on the run's own context, which may be dead by then.
UsageAlwaysReported == Ended => told = spent
=============================================================================
