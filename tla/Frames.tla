------------------------------- MODULE Frames -------------------------------
(***************************************************************************)
(* The encoder of the ui-message-stream (internal/chatapi/emitter.go) and  *)
(* the way an attached stream is finished (settleFinish of attach.go).     *)
(* The events of a run arrive in any order the broker, the lifecycle bus   *)
(* and a late attach allow: blocks open and close, a tool call's arguments *)
(* stream or come whole, the terminal event may be missing or come twice,  *)
(* before or after the run's row settles, and a write may fail for good.   *)
(* The stream may also be finished under a run that goes on, for a read of *)
(* the active run that fails passes for a run that has ended.              *)
(***************************************************************************)
EXTENDS Naturals, Sequences, FiniteSets, SequencesExt

CONSTANTS
  ToolCalls,    \* tool call ids
  MaxFrameEvents   \* bound: events emitted into the stream

VARIABLES
  enc,          \* sseEmitter
  out,          \* the frames written
  ends,         \* the terminal events the run has come to: "done", "failed", "cancelled"
  outcome,      \* the run's row: "running", then its terminal status
  emitted       \* events so far

frameVars == <<enc, out, ends, outcome, emitted>>

\* over: the stream saw the run's done event.  closed: how the stream was finished,
\* "yes" by the run's end, "blind" without the run's status, "early" under a run whose
\* row says it is running and whose end the stream has not seen.
Encoder == [think |-> FALSE, text |-> FALSE, started |-> {}, streamed |-> {}, finish |-> "",
            step |-> "none", over |-> FALSE, err |-> FALSE, closed |-> "no"]

Endings == {"done", "failed", "cancelled"}

FramesTypeOK ==
  /\ enc.started \subseteq ToolCalls /\ enc.streamed \subseteq enc.started
  /\ enc.closed \in {"no", "yes", "blind", "early"} /\ enc.over \in BOOLEAN
  /\ enc.finish \in {"", "error", "other", "length"} /\ enc.step \in {"none", "stop", "length", "continued"}
  /\ ends \subseteq Endings /\ outcome \in {"running"} \cup Endings /\ emitted <= MaxFrameEvents

FramesInit == enc = Encoder /\ out = <<>> /\ ends = {} /\ outcome = "running" /\ emitted = 0

-----------------------------------------------------------------------------
(* Writing.                                                                *)

Frame(t, id) == <<[type |-> t, id |-> id]>>
If(c, s) == IF c THEN s ELSE <<>>

\* writeRaw: nothing is written after a write has failed, and a failing write
\* loses its frame and all that follow.
Written(frames) ==
  IF enc.err THEN {[out |-> out, err |-> TRUE]}
  ELSE {[out |-> out \o SubSeq(frames, 1, n), err |-> n < Len(frames)] : n \in 0..Len(frames)}

\* One event: refused once a write has failed.  The frames go out, or not.
Emit(frames, next) ==
  /\ ~enc.err /\ enc.closed = "no" /\ emitted < MaxFrameEvents /\ emitted' = emitted + 1
  /\ \E w \in Written(frames) : out' = w.out /\ enc' = [next EXCEPT !.err = w.err]
  /\ UNCHANGED <<ends, outcome>>

CloseThink(e) == If(e.think, Frame("reasoning-end", ""))
CloseText(e) == If(e.text, Frame("text-end", ""))

KindThinking ==
  Emit(If(~enc.think, Frame("reasoning-start", "")) \o Frame("reasoning-delta", ""), [enc EXCEPT !.think = TRUE])

KindText ==
  Emit(CloseThink(enc) \o If(~enc.text, Frame("text-start", "")) \o Frame("text-delta", ""),
       [enc EXCEPT !.think = FALSE, !.text = TRUE])

\* stepEvent: the last finish-step classifies a terminal error.
KindStepFinish(reason) == Emit(Frame("finish-step", reason), [enc EXCEPT !.step = reason])

\* writeToolCallStart: at most once for a call.
WriteToolCallStart(id) == If(id \notin enc.started, Frame("tool-call-start", id))

KindToolArgs(id) ==
  Emit(WriteToolCallStart(id) \o Frame("tool-call-delta", id),
       [enc EXCEPT !.started = @ \cup {id}, !.streamed = @ \cup {id}])

\* The whole input, unless its fragments came before.
KindToolUse(id) ==
  Emit(WriteToolCallStart(id) \o If(id \notin enc.streamed, Frame("tool-call-delta", id)) \o Frame("tool-call-end", id),
       [enc EXCEPT !.started = @ \cup {id}])

\* Data frames: usage, subagent progress, interactions, generated interface.
KindData == Emit(Frame("data", ""), enc)

-----------------------------------------------------------------------------
(* The end of the run.                                                     *)

\* The loop's terminal event, published before the row is settled.
RunEnds(end) ==
  /\ ends = {} /\ ends' = {end}
  /\ UNCHANGED <<enc, out, outcome, emitted>>

\* A cancel that overtakes a failing run: the registry adds the cancelled event.
CancelOvertakes ==
  /\ ends = {"failed"} /\ ends' = {"failed", "cancelled"}
  /\ UNCHANGED <<enc, out, outcome, emitted>>

\* The row settles once, as the run ended, or ahead of it: a cancel settles it while
\* the loop still unwinds, a sweep fails it without any event.
RowSettles(status) ==
  /\ outcome = "running" /\ outcome' = status
  /\ status = "done" => "done" \in ends
  /\ UNCHANGED <<enc, out, ends, emitted>>

KindDone == "done" \in ends /\ Emit(Frame("status", "done"), [enc EXCEPT !.over = TRUE])

\* A truncated last step makes the error a length stop.
KindError ==
  /\ "failed" \in ends
  /\ Emit(Frame("error", "") \o Frame("status", "failed"),
          [enc EXCEPT !.finish = IF enc.step = "length" THEN "length" ELSE "error"])

KindCancelled ==
  /\ "cancelled" \in ends
  /\ Emit(CloseThink(enc) \o CloseText(enc) \o Frame("status", "cancelled"),
          [enc EXCEPT !.think = FALSE, !.text = FALSE, !.finish = "other"])

\* Mutant: only the event the stream saw counts.
LatchedOnly(status) == "stop"

\* The reason for a status read from the store.
ReasonFor(status) == CASE status = "failed" -> "error" [] status = "cancelled" -> "other" [] OTHER -> "stop"

\* settleFinish: the latched reason, else the run's status; a failed read of
\* it leaves the status unknown.
Settlements ==
  IF enc.finish # "" THEN {[reason |-> enc.finish, read |-> "yes"]}
  ELSE {[reason |-> ReasonFor(outcome), read |-> IF outcome = "running" /\ ~enc.over THEN "early" ELSE "yes"],
        [reason |-> ReasonFor("unknown"), read |-> "blind"]}

\* finishWithReason, at any moment: after the terminal event, when the active run is
\* gone or could not be read (ActiveRun's error is dropped), when the channel closes.
Finish ==
  /\ enc.closed = "no"
  /\ \E f \in Settlements, w \in Written(CloseThink(enc) \o CloseText(enc)) :
       /\ out' = IF w.err THEN w.out ELSE w.out \o Frame("finish", f.reason)
       /\ enc' = [enc EXCEPT !.think = FALSE, !.err = w.err, !.closed = f.read]
  /\ UNCHANGED <<ends, outcome, emitted>>

FramesNext ==
  \/ KindThinking \/ KindText \/ KindData \/ KindDone \/ KindError \/ KindCancelled \/ Finish \/ CancelOvertakes
  \/ \E r \in {"stop", "length", "continued"} : KindStepFinish(r)
  \/ \E id \in ToolCalls : KindToolArgs(id) \/ KindToolUse(id)
  \/ \E s \in Endings : RunEnds(s) \/ RowSettles(s)

-----------------------------------------------------------------------------
(* Properties.                                                             *)

Number(o, t, id, n) == Cardinality({i \in 1..n : o[i].type = t /\ o[i].id = id})
Finished == out # <<>> /\ Last(out).type = "finish"

\* What a client decodes is well formed at every moment: a delta lies inside
\* its open block, a tool call opens once however its arguments come, every
\* text and reasoning block is closed at the finish, and nothing follows it.
StreamWellFormed ==
  /\ \A i \in DOMAIN out :
       LET f == out[i] IN
       /\ f.type = "text-delta" => Number(out, "text-start", "", i) = Number(out, "text-end", "", i) + 1
       /\ f.type = "reasoning-delta" => Number(out, "reasoning-start", "", i) = Number(out, "reasoning-end", "", i) + 1
       /\ f.type \in {"tool-call-delta", "tool-call-end"} => Number(out, "tool-call-start", f.id, i) = 1
       /\ f.type = "finish" => i = Len(out)
  /\ Finished =>
       /\ Number(out, "text-start", "", Len(out)) = Number(out, "text-end", "", Len(out))
       /\ Number(out, "reasoning-start", "", Len(out)) = Number(out, "reasoning-end", "", Len(out))

\* The finish says how the run ended, whether its terminal event reached the
\* stream or was lost, came before the row settled or after: a clean answer is
\* of a run that came to its done event, unless its status could not be read or
\* the row was read while the run went on, and never follows an error or a stop
\* that was shown; an error or a stop is one the run or its row came to; and a
\* length stop means a failed run with a step that was cut off.
CutOffIsShown ==
  Finished =>
    /\ Last(out).id = "stop" =>
         /\ enc.closed = "yes" => "done" \in ends
         /\ \A i \in DOMAIN out : out[i].type # "error" /\ out[i] # [type |-> "status", id |-> "cancelled"]
    /\ Last(out).id = "error" => "failed" \in ends \/ outcome = "failed"
    /\ Last(out).id = "other" => "cancelled" \in ends \/ outcome = "cancelled"
    /\ Last(out).id = "length" =>
         "failed" \in ends /\ \E i \in DOMAIN out : out[i] = [type |-> "finish-step", id |-> "length"]

\* Documented and violated: the stream follows until the run settles (attach.go:102),
\* so that one that finished has an ended run behind it.  ActiveRun's error is dropped
\* (attach.go:115 and 173): the finish comes under a run that goes on, and says stop.
FollowsUntilSettled == Finished => ends # {} \/ outcome # "running"
=============================================================================
