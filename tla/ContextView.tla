----------------------------- MODULE ContextView -----------------------------
(***************************************************************************)
(* The view of a conversation that one run sends to its model: rebuilt     *)
(* from the durable history before every call, compressed when it is over  *)
(* the budget (internal/contextmgmt/compress.go, CompressMW), and cut      *)
(* shorter when the provider says it is too large (OverflowMW and          *)
(* dropOldestRoundForOverflow).  A message counts one token.               *)
(***************************************************************************)
EXTENDS Pairing

CONSTANTS
  Bytes,         \* the size of message n, for contentBytes
  Window,        \* Policy.MaxTokens
  Trigger,       \* ... times Policy.Threshold
  KeepRecent,    \* Policy.KeepRecent
  MaxFailures,   \* of CircuitBreaker
  MaxRetries,    \* of OverflowMW
  MaxMsgs        \* bound: durable messages

VARIABLES
  input,         \* a history for the checks of Pairing's operators
  durable,       \* history and RunState.Produced
  view,          \* ModelCall.View
  cache,         \* RunState.compressCache; "none" without CompressMW
  viewDropped,   \* RunState.viewDropped
  recovered,     \* RunState.overflowRecovered
  failures,      \* of the CircuitBreaker
  retries,       \* attempts of OverflowMW
  vpc,           \* "turn", "compress", "send" or "over"
  dropped        \* observed: messages a cut removed

viewVars == <<input, durable, view, cache, viewDropped, recovered, failures, retries, vpc, dropped>>

NoCache == [on |-> FALSE, covered |-> 0, bytes |-> 0, sum |-> {}]
EmptyCache == [NoCache EXCEPT !.on = TRUE]

Names(msgs) == {m.n : m \in Range(msgs)} \ {Synthetic}
Covers(msgs) == UNION {m.sum : m \in Range(msgs)}
Named(msgs) == Names(msgs) \cup Covers(msgs)

Ids == {1, 2}
Blocks ==
  {Message(1, "assistant", us, {}, us = {}) : us \in SUBSET Ids}
  \cup {Message(1, "user", {}, rs, TRUE) : rs \in SUBSET Ids}
  \cup {Message(1, "user", {}, rs, FALSE) : rs \in (SUBSET Ids) \ {{}}}
Histories == UNION {[1..l -> Blocks] : l \in 1..4}

ViewTypeOK ==
  /\ vpc \in {"turn", "compress", "send", "over"}
  /\ \A m \in Range(view) : m.role \in {"user", "assistant"} /\ m.n \in 0..MaxMsgs
  /\ cache.covered \in 0..MaxMsgs /\ viewDropped \in 0..MaxMsgs
  /\ failures \in 0..MaxFailures /\ retries \in 0..MaxRetries
  /\ recovered \in BOOLEAN

Said(n) == Message(n, "user", {}, {}, TRUE)
Answer(n) == Message(n, "assistant", {}, {}, TRUE)

ViewInit ==
  /\ input \in Histories \cup {<<>>}
  /\ durable \in {<<Said(1)>>, <<Said(1), Answer(2), Said(3)>>}
  /\ view = <<>>
  /\ cache \in {NoCache, EmptyCache}
  /\ viewDropped = 0 /\ recovered = FALSE /\ failures = 0 /\ retries = 0
  /\ vpc = "turn"
  /\ dropped = {}

-----------------------------------------------------------------------------
(* Compression.                                                            *)

ContentBytes(msgs) == FoldLeft(LAMBDA s, m : s + (IF m.n = Synthetic THEN 0 ELSE Bytes[m.n]), 0, msgs)
EstimateTokens(msgs) == Len(msgs)
ShouldCompress(msgs) == EstimateTokens(msgs) > Trigger

\* shrinkToBudget: cut rounds, the last of them too, but never the summary.
ShrinkToBudget(out) ==
  LET cut[k \in 0..MaxMsgs] ==
        IF k = 0 THEN out
        ELSE LET o == cut[k - 1]
                 p == DropOldestRoundPreservingSummary(o)
             IN IF ~ShouldCompress(o) THEN o ELSE IF p # o THEN p ELSE DropOldestKeepingSummary(o)
  IN cut[MaxMsgs]

Covering(c, history, upto, sum) ==
  [c EXCEPT !.covered = upto, !.bytes = ContentBytes(SubSeq(history, 1, upto)), !.sum = sum]

\* The cache after a summary: the coverage is advanced past the rounds that were cut.
Coverage(c, history, split, cut, sum) ==
  Covering(c, history, IF split + cut <= Len(history) THEN split + cut ELSE split, sum)

CacheValid(c, history, split) ==
  /\ c.covered > 0 /\ c.covered <= split
  /\ c.bytes = ContentBytes(SubSeq(history, 1, c.covered))

\* The first message that is kept verbatim, less one.
SplitAt(history) == GroupRounds(history)[Len(GroupRounds(history)) - KeepRecent + 1] - 1

Candidate(c, history) == EnsurePairing(<<SummaryMessage(c.sum)>> \o From(history, c.covered + 1))

\* CompressWithCache when the summarizer answers: the view and the cache.
CompressWithCache(c, history) ==
  LET split == SplitAt(history)
      valid == CacheValid(c, history, split)
      sum == Named(SubSeq(history, IF valid THEN c.covered + 1 ELSE 1, split))
             \cup (IF valid THEN c.sum ELSE {})
      built == EnsurePairing(<<SummaryMessage(sum)>> \o From(history, split + 1))
      out == ShrinkToBudget(built)
  IN IF valid /\ EstimateTokens(Candidate(c, history)) <= Window
     THEN [out |-> Candidate(c, history), cache |-> c, cut |-> {}]
     ELSE [out |-> out, cache |-> Coverage(c, history, split, Len(built) - Len(out), sum),
           cut |-> Named(built) \ Named(out)]

\* A call of the summarizer is needed: neither reuse nor the cached prefix will do.
Summarizes(c, history) ==
  LET split == SplitAt(history) IN
  ~(CacheValid(c, history, split)
    /\ (EstimateTokens(Candidate(c, history)) <= Window \/ c.covered = split))

Compresses(history) == ShouldCompress(history) /\ KeepRecent < Len(GroupRounds(history))

-----------------------------------------------------------------------------
(* One model call.                                                         *)

\* The loop assembles the view: the dropped prefix stays dropped.
NewTurn ==
  /\ vpc = "turn"
  /\ view' = IF 0 < viewDropped /\ viewDropped < Len(durable) THEN From(durable, viewDropped + 1) ELSE durable
  /\ retries' = 0
  /\ vpc' = "compress"
  /\ UNCHANGED <<input, durable, cache, viewDropped, recovered, failures, dropped>>

\* CompressMW.WrapModelCall; the breaker stops calling a failing summarizer.
Compress ==
  /\ vpc = "compress"
  /\ LET compressing == cache.on /\ failures < MaxFailures /\ Compresses(view) IN
     \/ /\ ~compressing
        /\ failures' = IF cache.on /\ failures < MaxFailures THEN 0 ELSE failures
        /\ UNCHANGED <<view, cache, dropped>>
     \/ /\ compressing
        /\ LET r == CompressWithCache(cache, view) IN
           /\ view' = r.out /\ cache' = r.cache /\ dropped' = dropped \cup r.cut
        /\ failures' = 0
     \/ /\ compressing /\ Summarizes(cache, view)
        /\ failures' = failures + 1
        /\ UNCHANGED <<view, cache, dropped>>
  /\ vpc' = "send"
  /\ UNCHANGED <<input, durable, viewDropped, recovered, retries>>

\* The cut both overflow paths make.
Shrunk(msgs) ==
  LET p == DropOldestRoundPreservingSummary(msgs) IN IF p # msgs THEN p ELSE DropOldestRound(msgs)

\* CompressionCache.Advance and Invalidate.
Advance(c, msgs) == [c EXCEPT !.covered = @ + Len(msgs), !.bytes = @ + ContentBytes(msgs)]
Invalidate(c) == EmptyCache

\* The provider rejects the request as too large before any frame went out.
Overflow ==
  LET shrunk == Shrunk(view)
      n == Len(view) - Len(shrunk)
      summarized == cache.on /\ cache.covered > 0 /\ IsSummary(view[1])
  IN
  /\ vpc = "send"
  /\ retries < MaxRetries
  /\ shrunk # view
  /\ cache' = IF ~summarized THEN cache
              ELSE IF IsSummary(shrunk[1]) THEN Advance(cache, SubSeq(view, 2, n + 1)) ELSE Invalidate(cache)
  /\ viewDropped' = IF cache.on THEN viewDropped ELSE viewDropped + n
  /\ dropped' = dropped \cup (Named(view) \ Named(shrunk))
  /\ view' = shrunk
  /\ retries' = retries + 1
  /\ UNCHANGED <<input, durable, recovered, failures, vpc>>

\* Retries used up, nothing left to cut, an overflow in mid-stream, any other failure.
CallFails ==
  /\ vpc = "send"
  /\ vpc' = "over"
  /\ UNCHANGED <<input, durable, view, cache, viewDropped, recovered, failures, retries, dropped>>

\* The state's own view, without compression.
StateView == IF 0 < viewDropped /\ viewDropped < Len(durable) THEN From(durable, viewDropped + 1) ELSE durable

\* dropOldestRoundForOverflow: a recoverable truncation, once per run.
TruncatedBelowCap ==
  LET shrunk == Shrunk(StateView) IN
  /\ vpc = "send"
  /\ \/ /\ ~recovered /\ shrunk # StateView
        /\ recovered' = TRUE
        /\ viewDropped' = viewDropped + Len(StateView) - Len(shrunk)
        /\ dropped' = dropped \cup (Named(StateView) \ Named(shrunk))
        /\ vpc' = "turn"
     \/ /\ recovered \/ shrunk = StateView
        /\ vpc' = "over"
        /\ UNCHANGED <<recovered, viewDropped, dropped>>
  /\ UNCHANGED <<input, durable, view, cache, failures, retries>>

\* A tool batch and its results.
ToolBatch ==
  LET n == Len(durable) + 1 IN
  /\ vpc = "send"
  /\ n < MaxMsgs
  /\ durable' = durable \o <<Message(n, "assistant", {n}, {}, FALSE), Message(n + 1, "user", {}, {n}, FALSE)>>
  /\ vpc' = "turn"
  /\ UNCHANGED <<input, view, cache, viewDropped, recovered, failures, retries, dropped>>

ViewNext == NewTurn \/ Compress \/ Overflow \/ CallFails \/ TruncatedBelowCap \/ ToolBatch

ViewSpec == ViewInit /\ [][ViewNext]_viewVars

-----------------------------------------------------------------------------
(* Properties.                                                             *)

\* The messages that belong to the assistant message i: up to the next one.
AnswersTo(msgs, i) == {j \in (i + 1)..Len(msgs) : \A k \in (i + 1)..j : msgs[k].role = "user"}

\* Each call is answered once before the model speaks again, nothing else is answered and
\* no message is empty.
Paired(msgs) ==
  /\ \A i \in DOMAIN msgs :
       /\ msgs[i].text \/ msgs[i].uses # {} \/ msgs[i].results # {}
       /\ msgs[i].role = "assistant" =>
            /\ \A u \in msgs[i].uses : Cardinality({j \in AnswersTo(msgs, i) : u \in msgs[j].results}) = 1
            /\ \A j \in AnswersTo(msgs, i) : msgs[j].results \subseteq msgs[i].uses
            /\ \A k \in DOMAIN msgs \ {i} : msgs[i].uses \cap msgs[k].uses = {}
       /\ msgs[i].results # {} => \E k \in 1..(i - 1) : msgs[k].role = "assistant"

\* ... in the immediately following message.
AnsweredNext(msgs) ==
  \A i \in DOMAIN msgs : msgs[i].uses # {} => i < Len(msgs) /\ msgs[i].uses \subseteq msgs[i + 1].results

\* EnsurePairing makes every history a paired one, whatever a crash or a cut left of it, and
\* changes nothing in a history that the provider accepts.
RepairIsMinimal ==
  LET out == EnsurePairing(input) IN
  Paired(out) /\ (Paired(input) /\ AnsweredNext(input) => out = input)

\* Whatever is sent is paired: compression, cuts and reuse of a cached summary never
\* separate a call from its result.
SentIsPaired == vpc = "send" => Paired(view)

\* groupRounds cuts between exchanges: dropping the oldest round of a history that the
\* provider accepts leaves an untouched suffix of it, never one that needs repair.
CutsBetweenRounds ==
  input # <<>> /\ Paired(input) /\ AnsweredNext(input) =>
    LET out == DropOldestRound(input) IN
    \E k \in 0..(Len(input) - 1) : out = From(input, k + 1) /\ AnsweredNext(out)

\* What the model sees accounts for the whole history: a message is there verbatim, is one
\* the summary stands for, or was cut because of the budget.  A stale cached summary would
\* lose messages without a trace.
NothingSilentlyLost ==
  vpc = "send" => Named(durable) \subseteq Named(view) \cup dropped

\* "rounds dropped here must not re-enter the view next iteration".  Violated when
\* no cached summary covers the cut: the next view starts from the whole history.
DroppedStaysDropped == vpc = "send" => dropped \cap Names(view) = {}

\* "normalizes a message list so it satisfies the provider's tool_use/tool_result contract":
\* "every tool_use to be answered by a tool_result in the immediately following message".
\* Violated: the result made up for a call that a user message left unanswered comes after
\* that message.
RepairAnswersNext == AnsweredNext(EnsurePairing(input))
=============================================================================
