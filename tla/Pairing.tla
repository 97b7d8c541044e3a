------------------------------- MODULE Pairing -------------------------------
(***************************************************************************)
(* The repair of tool calls and results (internal/contextmgmt/pairing.go)  *)
(* and the rounds a history is cut at (internal/contextmgmt/rounds.go), as *)
(* operators on sequences of messages.  Of a message's blocks they tell    *)
(* apart: the tool calls (uses), the tool results, and any text.  "sum"    *)
(* names the messages a compression summary stands for.                    *)
(***************************************************************************)
EXTENDS Integers, Sequences, FiniteSets, FiniteSetsExt, SequencesExt

Message(n, role, uses, results, text) ==
  [n |-> n, role |-> role, uses |-> uses, results |-> results, text |-> text, sum |-> {}]
Synthetic == 0     \* n of a message the repair adds

\* SummaryMessage and IsSummary.
SummaryMessage(covers) == [Message(Synthetic, "user", {}, {}, TRUE) EXCEPT !.sum = covers]
IsSummary(m) == m.sum # {}

-----------------------------------------------------------------------------
(* EnsurePairing.                                                          *)

\* ensureNonEmpty: a stripped message keeps a placeholder text.
EnsureNonEmpty(m) == [m EXCEPT !.text = @ \/ (m.uses = {} /\ m.results = {})]

\* flushPending: the calls nobody answered get an error result.
FlushPending(a) ==
  IF a.pending = {} THEN a
  ELSE [a EXCEPT !.out = Append(@, Message(Synthetic, "user", {}, a.pending, FALSE)),
                 !.seenResult = @ \cup a.pending,
                 !.pending = {}]

\* Mutant: calls left open by an earlier assistant message are forgotten.
ForgetsOpenCalls(a, m) ==
  LET uses == m.uses \ a.seenUse IN
  [a EXCEPT !.out = Append(@, EnsureNonEmpty([m EXCEPT !.uses = uses])),
            !.seenUse = @ \cup uses, !.pending = uses]

\* An assistant message: close what is open, drop duplicate calls.
RepairAssistant(a, m) ==
  LET f == FlushPending(a)
      uses == m.uses \ f.seenUse
  IN [f EXCEPT !.out = Append(@, EnsureNonEmpty([m EXCEPT !.uses = uses])),
               !.seenUse = @ \cup uses, !.pending = uses]

\* A user message: keep the first result of an open call, drop the others.
RepairUser(a, m) ==
  LET results == (m.results \ a.seenResult) \cap a.pending IN
  FlushPending([a EXCEPT !.out = Append(@, EnsureNonEmpty([m EXCEPT !.results = results])),
                         !.seenResult = @ \cup results, !.pending = @ \ results])

EnsurePairing(msgs) ==
  FlushPending(FoldLeft(LAMBDA a, m : IF m.role = "assistant" THEN RepairAssistant(a, m) ELSE RepairUser(a, m),
                        [out |-> <<>>, seenUse |-> {}, seenResult |-> {}, pending |-> {}], msgs)).out

-----------------------------------------------------------------------------
(* Rounds.                                                                 *)

\* isToolResultMsg and countAnswered.
IsToolResultMsg(m) == m.results # {}
Answered(msgs, i, j, ids) == MapThenSumSet(LAMBDA k : Cardinality(msgs[k].results \cap ids), i..j)

\* The last message of the round that starts at i: the results that follow a call.
RoundEnd(msgs, i) ==
  LET ids == IF msgs[i].role = "assistant" THEN msgs[i].uses ELSE {} IN
  Max({i} \cup {j \in (i + 1)..Len(msgs) : \A k \in (i + 1)..j :
                  IsToolResultMsg(msgs[k]) /\ Answered(msgs, i + 1, k - 1, ids) < Cardinality(ids)})

\* groupRounds, as the sequence of the rounds' first messages.
GroupRounds(msgs) ==
  LET from[i \in 1..(Len(msgs) + 1)] ==
        IF i > Len(msgs) THEN <<>> ELSE <<i>> \o from[RoundEnd(msgs, i) + 1]
  IN from[1]

\* Where the rounds after the first k begin.
AfterRounds(msgs, k) == IF k < Len(GroupRounds(msgs)) THEN GroupRounds(msgs)[k + 1] ELSE Len(msgs) + 1
From(msgs, i) == SubSeq(msgs, i, Len(msgs))

\* DropOldestRound, DropOldestKeepingSummary, DropOldestRoundPreservingSummary: the
\* shortened view, or the view itself when they refuse.
DropOldestRound(msgs) ==
  IF Len(GroupRounds(msgs)) <= 1 THEN msgs ELSE EnsurePairing(From(msgs, AfterRounds(msgs, 1)))

DropOldestKeepingSummary(msgs) ==
  IF Len(GroupRounds(msgs)) <= 1 \/ ~IsSummary(msgs[1]) THEN msgs
  ELSE EnsurePairing(<<msgs[1]>> \o From(msgs, AfterRounds(msgs, 2)))

DropOldestRoundPreservingSummary(msgs) ==
  IF msgs # <<>> /\ IsSummary(msgs[1])
  THEN IF Len(GroupRounds(msgs)) <= 2 THEN msgs ELSE DropOldestKeepingSummary(msgs)
  ELSE DropOldestRound(msgs)
=============================================================================
