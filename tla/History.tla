------------------------------ MODULE History ------------------------------
(***************************************************************************)
(* The fold of stored messages into the bubbles a reloading client shows   *)
(* (internal/chatapi/history.go).  A conversation is written first: user   *)
(* texts, assistant rounds, tool results inline or from the verdict run of *)
(* a gated call.  The reader then folds it, or a tail page of it, message  *)
(* by message.  Part slices are Go slices: an append beyond the capacity   *)
(* moves to a new array, and a pointer into the old one stays behind.      *)
(***************************************************************************)
EXTENDS Naturals, Sequences, FiniteSets, SequencesExt

CONSTANTS MaxMessages   \* bound: stored messages

VARIABLES
  stored,    \* the messages of the session
  turn,      \* the writer: the current run and its unanswered calls
  reader,    \* "write", "fold", "done", "panic": a dereference of nil
  at,        \* the next message of the page to fold
  heap,      \* backing arrays of Content: capacity and parts
  calls,     \* tool call -> the part last indexed for it, <<array, position>>
  cur,       \* the open assistant turn
  msgs       \* the bubbles

historyVars == <<stored, turn, reader, at, heap, calls, cur, msgs>>

NoTurn == [open |-> FALSE, arr |-> 0, usage |-> 0, hasUsage |-> FALSE, err |-> FALSE]

Ids == 1..(2 * MaxMessages)

HistoryTypeOK ==
  /\ Len(stored) <= MaxMessages /\ turn.run \in Nat /\ turn.open \subseteq Ids
  /\ reader \in {"write", "fold", "done", "panic"} /\ at \in 1..(MaxMessages + 1)
  /\ DOMAIN calls \subseteq Ids /\ cur.arr \in 0..Len(heap)

HistoryInit ==
  /\ stored = <<>> /\ turn = [run |-> 0, open |-> {}, next |-> 1] /\ reader = "write" /\ at = 1
  /\ heap = <<>> /\ calls = <<>> /\ cur = NoTurn /\ msgs = <<>>

-----------------------------------------------------------------------------
(* The writer.                                                             *)

Write(m) == reader = "write" /\ Len(stored) < MaxMessages /\ stored' = Append(stored, m)
Reading == <<reader, at, heap, calls, cur, msgs>>

WriteUser ==
  /\ turn.open = {} /\ Write([role |-> "user", run |-> turn.run + 1])
  /\ turn' = [turn EXCEPT !.run = @ + 1]
  /\ UNCHANGED Reading

\* A round of text, calls or both; its usage was reported or not, and the
\* last of a failed run carries the error.
WriteRound(text, n, usage, err) ==
  LET new == turn.next..(turn.next + n - 1)
      blocks == (IF text THEN <<[type |-> "text"]>> ELSE <<>>)
                \o [i \in 1..n |-> [type |-> "call", id |-> turn.next + i - 1]]
  IN
  /\ turn.run > 0 /\ turn.open = {} /\ (text \/ n > 0) /\ (err => n = 0)
  /\ Write([role |-> "assistant", run |-> turn.run, blocks |-> blocks, usage |-> usage, err |-> err])
  /\ turn' = [turn EXCEPT !.open = new, !.next = @ + n]
  /\ UNCHANGED Reading

\* The answers of the open calls, by the same run or by the verdict run of a
\* gated batch; a tool may declare a user interface.
WriteResults(gated, ui) ==
  /\ turn.open # {}
  /\ LET run == IF gated THEN turn.run + 1 ELSE turn.run IN
     /\ Write([role |-> "results", run |-> run, of |-> turn.open, ui |-> ui])
     /\ turn' = [turn EXCEPT !.run = run, !.open = {}]
  /\ UNCHANGED Reading

-----------------------------------------------------------------------------
(* Slices.                                                                 *)

\* append(cur.Content, part): in place, or into an array of twice the size.
AppendPart(s, part) ==
  IF s.cur.arr = 0
  THEN [s EXCEPT !.heap = Append(@, [cap |-> 1, parts |-> <<part>>]), !.cur.arr = Len(s.heap) + 1]
  ELSE LET a == s.heap[s.cur.arr] IN
       IF Len(a.parts) < a.cap
       THEN [s EXCEPT !.heap[s.cur.arr].parts = Append(@, part)]
       ELSE [s EXCEPT !.heap = Append(@, [cap |-> 2 * a.cap, parts |-> Append(a.parts, part)]),
                      !.cur.arr = Len(s.heap) + 1]

Content(s, c) == IF c.arr = 0 THEN <<>> ELSE s[c.arr].parts

\* appendPartText: joins the trailing part when that is text.
AppendPartText(s) ==
  LET parts == Content(s.heap, s.cur) IN
  IF parts # <<>> /\ Last(parts).type = "text"
  THEN [s EXCEPT !.heap[s.cur.arr].parts[Len(parts)].n = @ + 1]
  ELSE AppendPart(s, [type |-> "text", n |-> 1, id |-> 0, result |-> 0])

\* A tool_use block: the part, and its address for the result to come.
AppendCall(s, id) ==
  LET t == AppendPart(s, [type |-> "call", n |-> 1, id |-> id, result |-> 0])
      p == <<t.cur.arr, Len(t.heap[t.cur.arr].parts)>>
  IN [t EXCEPT !.calls = [c \in DOMAIN @ \cup {id} |-> IF c = id THEN p ELSE @[c]]]

AppendBlock(s, b) == IF b.type = "text" THEN AppendPartText(s) ELSE AppendCall(s, b.id)

-----------------------------------------------------------------------------
(* buildHistoryFrom.                                                       *)

\* Mutant: the totals of a turn run on into the next.
FlushKeepsUsage(c) == [NoTurn EXCEPT !.usage = c.usage, !.hasUsage = c.hasUsage]

\* What flush leaves of the turn.
FlushReset(c) == NoTurn

\* flush: a turn without content leaves no bubble.
Flush(c, out) ==
  IF c.open /\ c.arr # 0
  THEN Append(out, [role |-> "assistant", arr |-> c.arr, usage |-> c.usage, err |-> c.err])
  ELSE out

\* historyPage and serveHistory: the whole conversation, or a tail page.
ServeHistory(from) ==
  /\ reader = "write" /\ stored # <<>> /\ from \in DOMAIN stored
  /\ reader' = "fold" /\ at' = 1 /\ stored' = SubSeq(stored, from, Len(stored))
  /\ UNCHANGED <<turn, heap, calls, cur, msgs>>

EndsOnGatedCall(m) == Last(m.blocks).type = "call"

IsLastAssistantOfRun(i) ==
  \A j \in (i + 1)..Len(stored) : ~(stored[j].role = "assistant" /\ stored[j].run = stored[i].run)

IsToolResultOnly(m) == m.role = "results"

\* storedMessageError: the error of a turn's last message stays with the turn.
StoredMessageError(m, c) == c.err \/ m.err

Folding(role) == reader = "fold" /\ at <= Len(stored) /\ stored[at].role = role /\ at' = at + 1

FoldAssistant ==
  LET m == stored[at]
      begun == [cur EXCEPT !.open = TRUE, !.err = StoredMessageError(m, cur),
                           !.usage = @ + m.usage, !.hasUsage = @ \/ m.usage > 0]
      s == FoldLeft(AppendBlock, [heap |-> heap, calls |-> calls, cur |-> begun], m.blocks)
      gate == EndsOnGatedCall(m) /\ IsLastAssistantOfRun(at)
  IN
  /\ Folding("assistant")
  /\ heap' = s.heap /\ calls' = s.calls
  /\ cur' = IF gate THEN FlushReset(s.cur) ELSE s.cur
  /\ msgs' = IF gate THEN Flush(s.cur, msgs) ELSE msgs
  /\ UNCHANGED <<stored, turn, reader>>

\* A result goes through the address its call was given.
Resolve(h, id) == [h EXCEPT ![calls[id][1]].parts[calls[id][2]].result = id]

\* The declared interface is appended to the open turn: there may be none.
FoldResults ==
  LET m == stored[at]
      known == SetToSeq(m.of \cap DOMAIN calls)
      resolved == FoldLeft(Resolve, heap, known)
      s == AppendPart([heap |-> resolved, calls |-> calls, cur |-> cur], [type |-> "ui", n |-> 1, id |-> 0, result |-> 0])
  IN
  /\ Folding("results") /\ IsToolResultOnly(m)
  /\ reader' = IF m.ui /\ ~cur.open THEN "panic" ELSE reader
  /\ heap' = IF m.ui /\ cur.open THEN s.heap ELSE resolved
  /\ cur' = IF m.ui /\ cur.open THEN s.cur ELSE cur
  /\ UNCHANGED <<stored, turn, calls, msgs>>

FoldUser ==
  /\ Folding("user")
  /\ msgs' = Append(Flush(cur, msgs), [role |-> "user", arr |-> 0, usage |-> 0, err |-> FALSE])
  /\ cur' = FlushReset(cur)
  /\ UNCHANGED <<stored, turn, reader, heap, calls>>

FoldEnds ==
  /\ reader = "fold" /\ at > Len(stored)
  /\ reader' = "done" /\ msgs' = Flush(cur, msgs) /\ cur' = NoTurn
  /\ UNCHANGED <<stored, turn, at, heap, calls>>

HistoryNext ==
  \/ WriteUser \/ \E gated, ui \in BOOLEAN : WriteResults(gated, ui)
  \/ \E text, err \in BOOLEAN, n \in 0..2, usage \in 0..1 : WriteRound(text, n, usage, err)
  \/ \E from \in DOMAIN stored : ServeHistory(from)
  \/ FoldAssistant \/ FoldResults \/ FoldUser \/ FoldEnds

-----------------------------------------------------------------------------
(* Properties.                                                             *)

Assistant == SelectSeq(stored, LAMBDA m : m.role = "assistant")
Shown == SelectSeq(FlattenSeq([i \in DOMAIN msgs |-> Content(heap, msgs[i])]), LAMBDA p : p.type = "call")
Sum(s) == FoldLeft(LAMBDA x, y : x + y, 0, s)

\* A finished fold shows every stored call once and in order, a call carries no
\* result but its own, and the usage and errors of the rounds are all on
\* bubbles, each once.
FoldFaithful ==
  reader = "done" =>
    /\ [i \in DOMAIN Shown |-> Shown[i].id]
         = FlattenSeq([i \in DOMAIN Assistant |->
             LET c == SelectSeq(Assistant[i].blocks, LAMBDA b : b.type = "call") IN [j \in DOMAIN c |-> c[j].id]])
    /\ \A i \in DOMAIN Shown : Shown[i].result \in {0, Shown[i].id}
    /\ Sum([i \in DOMAIN msgs |-> msgs[i].usage]) = Sum([i \in DOMAIN Assistant |-> Assistant[i].usage])
    /\ (\E i \in DOMAIN msgs : msgs[i].err) <=> (\E i \in DOMAIN Assistant : Assistant[i].err)

\* The call a stored tool result answers shows that result.  Violated: the pointer
\* to the call's part stays on the array that a later append abandoned.
AnsweredCallsShowResults ==
  reader = "done" =>
    \A i \in DOMAIN Shown :
      (\E j \in DOMAIN stored : stored[j].role = "results" /\ Shown[i].id \in stored[j].of) => Shown[i].result = Shown[i].id

\* A tool_result whose call is on an earlier page is dropped.  Violated when such a
\* result carries generative UI: it is appended to a turn that is nil.
OrphansAreDropped == reader # "panic"
=============================================================================
