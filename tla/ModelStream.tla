------------------------------ MODULE ModelStream ------------------------------
(***************************************************************************)
(* One model call: the request with its HTTP retries (internal/provider/   *)
(* retry.go), the adapters' decoding of the provider's stream into block   *)
(* events (provider/openai/stream.go, provider/anthropic/stream.go), the   *)
(* loop's assembly of the assistant message (consume in agent/loop.go) and *)
(* the overflow retry around it (OverflowMW).  A delta is the number of    *)
(* the chunk that carried it, so a block is the sequence of its deltas.    *)
(*                                                                         *)
(* Beneath it, the idle deadline of the response body (provider/stall.go): *)
(* one consumer calls Read and Close, one watchdog goroutine serves the    *)
(* whole life of the reader.  Each critical section of the mutex is one    *)
(* step; the wake channel holds at most one token.  The stream and its     *)
(* reader share no state here: a read that fails is a StreamError.         *)
(***************************************************************************)
EXTENDS Integers, Sequences, FiniteSets, SequencesExt, Functions

CONSTANTS
  Protocols,      \* subset of {"openai", "anthropic"}
  Ids,            \* tool call ids
  Slots,          \* the provider's block or tool_calls indexes
  MaxAttempts,    \* RetryPolicy.MaxAttempts
  MaxRetries,     \* OverflowMW.MaxRetries
  MaxChunks,      \* bound: chunks of one stream
  Timeout         \* the idle window of a read, in ticks

VARIABLES
  proto, mpc,     \* the adapter and the control point
  tries, drops,   \* HTTP attempts of this send, overflow retries of this call
  chunks,         \* chunks of this stream
  dec,            \* streamDecoder
  asm,            \* consume: open blocks, content, stop reason, error, frames emitted
  halted,         \* the run's context is cancelled
  owner, owed,    \* observed: whose index it is, and the deltas the provider sent
  shown,          \* observed: sends whose frames reached the client
  rd,             \* the consumer: "idle", "body" (inside body.Read), "data", "eof", "failed", "gone"
  deadline,       \* ticks left of the armed window, -1 while no read is pending
  sfired, sclosed,
  wake,           \* a token lies in the wake channel
  wd,             \* the watchdog: "check", "park", "timer", "verify", "close", "exit"
  timer,          \* ticks left on the watchdog's timer
  body,           \* the wrapped body: "open", "ended" (it reported EOF) or "closed"
  waited,         \* history: ticks since the present Read armed the window
  unfair          \* history: the stall fired on a read that had not waited Timeout

msVars == <<proto, mpc, tries, drops, chunks, dec, asm, halted, owner, owed, shown>>

NewDecoder == [thinking |-> FALSE, text |-> FALSE, ids |-> <<>>, canon |-> <<>>, next |-> 0, finished |-> FALSE]
NewAssembly == [open |-> <<>>, content |-> <<>>, stop |-> "unknown", err |-> "none", emitted |-> FALSE]
Empty == <<>>

StreamTypeOK ==
  /\ proto \in Protocols
  /\ mpc \in {"send", "backoff", "stream", "ok", "failed", "cancelled"}
  /\ tries \in 0..MaxAttempts /\ drops \in 0..MaxRetries /\ chunks \in 0..MaxChunks
  /\ asm.err \in {"none", "overflow", "provider", "contract"}
  /\ shown \subseteq 0..MaxRetries
  /\ halted \in BOOLEAN

StreamInit ==
  /\ proto \in Protocols
  /\ mpc = "send" /\ tries = 0 /\ drops = 0 /\ chunks = 0
  /\ dec = NewDecoder /\ asm = NewAssembly
  /\ halted = FALSE
  /\ owner = Empty /\ owed = {} /\ shown = {}

-----------------------------------------------------------------------------
(* Sending: DoWithRetry, and what Stream makes of the response.            *)

\* A network error or a retryable status before the last attempt waits; the last
\* retryable response is returned and classified like any other.
Send ==
  /\ mpc = "send"
  /\ tries' = tries + 1
  /\ \/ tries' < MaxAttempts /\ mpc' = "backoff"
     \/ ~halted /\ mpc' = "stream"
     \/ mpc' = IF halted THEN "cancelled" ELSE "failed"
  /\ UNCHANGED <<proto, drops, chunks, dec, asm, halted, owner, owed, shown>>

Backoff ==
  /\ mpc = "backoff"
  /\ mpc' = IF halted THEN "cancelled" ELSE "send"
  /\ UNCHANGED <<proto, tries, drops, chunks, dec, asm, halted, owner, owed, shown>>

-----------------------------------------------------------------------------
(* Decoding.  Block indexes: thinking 0, text 1, tools from 2.             *)

Start(i, kind, id) == [type |-> "start", index |-> i, kind |-> kind, id |-> id, n |-> 0]
Delta(i, n) == [type |-> "delta", index |-> i, kind |-> "", id |-> "", n |-> n]
Stop(i) == [type |-> "stop", index |-> i, kind |-> "", id |-> "", n |-> 0]
MessageStop(reason) == [type |-> "end", index |-> 0, kind |-> reason, id |-> "", n |-> 0]
Error(e) == [type |-> "error", index |-> 0, kind |-> e, id |-> "", n |-> 0]
If(c, s) == IF c THEN s ELSE <<>>
With(f, k, v) == [x \in DOMAIN f \cup {k} |-> IF x = k THEN v ELSE f[x]]

\* streamDecoder.finish closes what is open, tools in canonical order.
Finish(d) ==
  If(d.thinking, <<Stop(0)>>) \o If(d.text, <<Stop(1)>>)
    \o [k \in 1..Cardinality(DOMAIN d.ids) |->
          Stop(2 + SetToSortSeq(DOMAIN d.ids, <)[k])]

Closed(d) == [d EXCEPT !.thinking = FALSE, !.text = FALSE, !.ids = Empty]

\* Mutant: a tool call is known by the provider's index alone.
SameCallByIndex(d, c) == c.slot \in DOMAIN d.canon

\* An id at an index goes on with the call it opened there, unless a proxy put another
\* call on the same index.
SameCall(d, c) ==
  c.slot \in DOMAIN d.canon /\ d.canon[c.slot] \in DOMAIN d.ids /\ d.ids[d.canon[c.slot]] = c.id

ToolChunk(d, c, n) ==
  LET opens == c.id # "" /\ ~SameCall(d, c)
      d1 == IF opens THEN [d EXCEPT !.canon = With(@, c.slot, d.next),
                                    !.ids = With(@, d.next, c.id), !.next = @ + 1] ELSE d
      at == IF c.slot \in DOMAIN d1.canon THEN d1.canon[c.slot] ELSE c.slot
  IN  [dec |-> d1, events |-> If(opens, <<Start(2 + d.next, "tool", c.id)>>) \o If(c.args, <<Delta(2 + at, n)>>)]

Feed(d, c, n) ==
  CASE c.type = "reasoning" ->
         [dec |-> [d EXCEPT !.thinking = TRUE],
          events |-> If(~d.thinking, <<Start(0, "thinking", "thinking")>>) \o <<Delta(0, n)>>]
    [] c.type = "content" ->
         [dec |-> [d EXCEPT !.thinking = FALSE, !.text = TRUE],
          events |-> If(d.thinking, <<Stop(0)>>) \o If(~d.text, <<Start(1, "text", "text")>>) \o <<Delta(1, n)>>]
    [] c.type = "tool" -> ToolChunk(d, c, n)
    [] c.type = "finish" ->
         [dec |-> [Closed(d) EXCEPT !.finished = TRUE], events |-> Finish(d) \o <<MessageStop(c.id)>>]
    [] c.type = "done" ->
         [dec |-> Closed(d),
          events |-> Finish(d) \o If(~d.finished /\ (d.thinking \/ d.text \/ d.ids # Empty),
                                     <<MessageStop(IF d.ids # Empty THEN "tool_use" ELSE "end_turn")>>)]
    [] OTHER -> [dec |-> d, events |-> <<Error(c.id)>>]

\* The other protocol names its blocks itself: decodeEvent is stateless.
DecodeEvent(c, n) ==
  CASE c.type = "start" -> Start(c.slot, "tool", c.id)
    [] c.type = "delta" -> Delta(c.slot, n)
    [] c.type = "stop" -> Stop(c.slot)
    [] c.type = "finish" -> MessageStop(c.id)
    [] OTHER -> Error(c.id)

-----------------------------------------------------------------------------
(* Assembly: consume.                                                      *)

\* appendFinalized
Finalize(a, i) == [a EXCEPT !.content = Append(@, a.open[i]), !.open = Restrict(@, DOMAIN @ \ {i}),
                            !.emitted = @ \/ a.open[i].kind = "tool"]

DuplicateStart(a, e) == e.index \in DOMAIN a.open

Consume(a, e) ==
  IF a.err # "none" THEN a
  ELSE CASE e.type = "start" ->
              IF DuplicateStart(a, e) THEN [a EXCEPT !.err = "contract"]
              ELSE [a EXCEPT !.open = With(@, e.index, [kind |-> e.kind, id |-> e.id, data |-> <<>>]),
                             !.emitted = @ \/ e.kind = "tool"]
         [] e.type = "delta" ->
              IF e.index \notin DOMAIN a.open THEN [a EXCEPT !.err = "contract"]
              ELSE [a EXCEPT !.open[e.index].data = Append(@, e.n), !.emitted = TRUE]
         [] e.type = "stop" -> IF e.index \in DOMAIN a.open THEN Finalize(a, e.index) ELSE a
         [] e.type = "end" -> [a EXCEPT !.stop = IF e.kind = "unknown" THEN @ ELSE e.kind]
         [] OTHER -> [a EXCEPT !.err = e.kind]

\* The stream closed by itself: blocks still open are finalized in index order.
CloseOpen(a) == FoldLeft(Finalize, a, SetToSortSeq(DOMAIN a.open, <))

Chunks ==
  IF proto = "openai"
  THEN [type : {"reasoning", "content", "done"}, slot : {0}, id : {""}, args : {FALSE}]
       \cup [type : {"finish"}, slot : {0}, id : {"end_turn", "max_tokens"}, args : {FALSE}]
       \cup [type : {"error"}, slot : {0}, id : {"overflow", "provider"}, args : {FALSE}]
       \cup [type : {"tool"}, slot : Slots, id : Ids, args : BOOLEAN]
       \cup [type : {"tool"}, slot : Slots \cap DOMAIN owner, id : {""}, args : {TRUE}]
  ELSE [type : {"start"}, slot : Slots, id : Ids, args : {FALSE}]
       \cup [type : {"delta", "stop"}, slot : Slots, id : {""}, args : {FALSE}]
       \cup [type : {"finish"}, slot : {0}, id : {"end_turn", "unknown"}, args : {FALSE}]
       \cup [type : {"error"}, slot : {0}, id : {"overflow", "provider"}, args : {FALSE}]

\* Who a chunk's delta belongs to, by what the provider said; finishing ends the calls.
OwnerAfter(c) ==
  CASE c.type \in {"tool", "start"} /\ c.id # "" -> With(owner, c.slot, c.id)
    [] c.type \in {"finish", "done"} /\ proto = "openai" -> Empty
    [] OTHER -> owner
OwedBy(c, n) ==
  CASE c.type = "reasoning" -> {[n |-> n, id |-> "thinking"]}
    [] c.type = "content" -> {[n |-> n, id |-> "text"]}
    [] c.type = "tool" /\ c.args -> {[n |-> n, id |-> OwnerAfter(c)[c.slot]]}
    [] c.type = "delta" -> {[n |-> n, id |-> IF c.slot \in DOMAIN owner THEN owner[c.slot] ELSE ""]}
    [] OTHER -> {}

\* One chunk is decoded and consumed.
Receive(c) ==
  /\ mpc = "stream" /\ asm.err = "none" /\ chunks < MaxChunks
  /\ chunks' = chunks + 1
  /\ LET fed == IF proto = "openai" THEN Feed(dec, c, chunks')
                ELSE [dec |-> dec, events |-> <<DecodeEvent(c, chunks')>>]
     IN  /\ dec' = fed.dec
         /\ asm' = FoldLeft(Consume, asm, fed.events)
  /\ owner' = OwnerAfter(c)
  /\ owed' = owed \cup OwedBy(c, chunks')
  /\ shown' = IF asm'.emitted THEN shown \cup {drops} ELSE shown
  /\ UNCHANGED <<proto, mpc, tries, drops, halted>>

\* OverflowMW: only an overflow before the first frame is worth a smaller view.
MayRetry == asm.err = "overflow" /\ ~asm.emitted /\ drops < MaxRetries

\* consume returns an error: the middleware drops a round and calls again, or gives up.
StreamError ==
  /\ mpc = "stream" /\ asm.err # "none"
  /\ \/ /\ MayRetry
        /\ mpc' = "send" /\ tries' = 0 /\ drops' = drops + 1 /\ chunks' = 0
        /\ dec' = NewDecoder /\ asm' = NewAssembly /\ owner' = Empty /\ owed' = {}
     \/ /\ mpc' = IF halted THEN "cancelled" ELSE "failed"
        /\ UNCHANGED <<tries, drops, chunks, dec, asm, owner, owed>>
  /\ UNCHANGED <<proto, halted, shown>>

\* The channel closed: cleanly, or because the cancellation tore the request down.
StreamClosed ==
  /\ mpc = "stream" /\ asm.err = "none"
  /\ \/ halted /\ mpc' = "cancelled" /\ UNCHANGED asm
     \/ ~halted /\ mpc' = "ok" /\ asm' = CloseOpen(asm)
  /\ UNCHANGED <<proto, tries, drops, chunks, dec, halted, owner, owed, shown>>

Halt ==
  /\ ~halted /\ mpc \in {"send", "backoff", "stream"} /\ halted' = TRUE
  /\ UNCHANGED <<proto, mpc, tries, drops, chunks, dec, asm, owner, owed, shown>>

StreamNext ==
  \/ Send \/ Backoff \/ StreamError \/ StreamClosed \/ Halt
  \/ \E c \in Chunks : Receive(c)

StreamSpec == StreamInit /\ [][StreamNext]_msVars

-----------------------------------------------------------------------------
(* The reader beneath the stream.                                          *)

stallVars == <<rd, deadline, sfired, sclosed, wake, wd, timer, body, waited, unfair>>

Disarmed == 0 - 1

StallTypeOK ==
  /\ rd \in {"idle", "body", "data", "eof", "failed", "gone"}
  /\ deadline \in Disarmed..Timeout /\ timer \in 0..Timeout /\ waited \in 0..Timeout
  /\ body \in {"open", "ended", "closed"}
  /\ wd \in {"check", "park", "timer", "verify", "close", "exit"}
  /\ sfired \in BOOLEAN /\ sclosed \in BOOLEAN /\ wake \in BOOLEAN /\ unfair \in BOOLEAN

NewStallReader ==
  /\ rd = "idle" /\ deadline = Disarmed /\ sfired = FALSE /\ sclosed = FALSE /\ wake = FALSE
  /\ wd = "check" /\ timer = 0 /\ body = "open" /\ waited = 0 /\ unfair = FALSE

(* Read: arm the window, read without the lock, disarm. *)
ArmRead ==
  /\ rd = "idle" /\ ~sfired
  /\ rd' = "body" /\ deadline' = Timeout /\ waited' = 0 /\ wake' = TRUE
  /\ UNCHANGED <<sfired, sclosed, wd, timer, body, unfair>>

\* body.Read returns bytes, the end of the stream or an error whenever the
\* upstream pleases; at once, the end again after the end and an error once closed.
BodyRead(r) ==
  /\ rd = "body" /\ (body = "ended" => r = "eof") /\ (body = "closed" => r = "failed")
  /\ rd' = r /\ body' = IF r = "eof" THEN "ended" ELSE body
  /\ UNCHANGED <<deadline, sfired, sclosed, wake, wd, timer, waited, unfair>>

DisarmRead ==
  /\ rd \in {"data", "eof", "failed"}
  /\ sclosed' = (sclosed \/ (rd = "eof" /\ ~sfired))
  /\ deadline' = Disarmed /\ rd' = "idle" /\ wake' = TRUE
  /\ UNCHANGED <<sfired, wd, timer, body, waited, unfair>>

\* The adapter closes the body when it is done with it, or from another
\* goroutine while a read waits.
Close ==
  /\ rd \in {"idle", "body"}
  /\ sclosed' = TRUE /\ wake' = TRUE /\ body' = "closed"
  /\ rd' = IF rd = "idle" THEN "gone" ELSE rd
  /\ UNCHANGED <<deadline, sfired, wd, timer, waited, unfair>>

(* watchdog *)
Check ==
  /\ wd = "check"
  /\ wd' = IF sfired \/ sclosed THEN "exit"
           ELSE IF deadline = Disarmed THEN "park"
           ELSE IF deadline > 0 THEN "timer" ELSE "verify"
  /\ timer' = IF deadline > 0 THEN deadline ELSE timer
  /\ UNCHANGED <<rd, deadline, sfired, sclosed, wake, body, waited, unfair>>

Woken ==
  /\ wd \in {"park", "timer"} /\ wake /\ wake' = FALSE /\ wd' = "check"
  /\ UNCHANGED <<rd, deadline, sfired, sclosed, timer, body, waited, unfair>>

TimerFires ==
  /\ wd = "timer" /\ timer = 0 /\ wd' = "check"
  /\ UNCHANGED <<rd, deadline, sfired, sclosed, wake, timer, body, waited, unfair>>

\* Mutant: the deadline is not looked at again under the lock.
FiresUnverified == ~sfired /\ ~sclosed

Fires == ~sfired /\ ~sclosed /\ deadline = 0

Verify ==
  /\ wd = "verify"
  /\ wd' = IF Fires THEN "close" ELSE "check"
  /\ sfired' = (sfired \/ Fires)
  /\ unfair' = (unfair \/ (Fires /\ ~(rd # "idle" /\ waited = Timeout)))
  /\ UNCHANGED <<rd, deadline, sclosed, wake, timer, body, waited>>

CloseBody ==
  /\ wd = "close" /\ body' = "closed" /\ wd' = "exit"
  /\ UNCHANGED <<rd, deadline, sfired, sclosed, wake, timer, waited, unfair>>

Watchdog == Check \/ Woken \/ TimerFires \/ Verify \/ CloseBody

\* A tick of the clock moves every armed deadline.
Elapse ==
  /\ (deadline > 0 \/ (wd = "timer" /\ timer > 0))
  /\ deadline' = IF deadline > 0 THEN deadline - 1 ELSE deadline
  /\ timer' = IF timer > 0 THEN timer - 1 ELSE 0
  /\ waited' = IF rd # "idle" /\ waited < Timeout THEN waited + 1 ELSE waited
  /\ UNCHANGED <<rd, sfired, sclosed, wake, wd, body, unfair>>

StallNext ==
  \/ ArmRead \/ (\E r \in {"data", "eof", "failed"} : BodyRead(r)) \/ DisarmRead \/ Close
  \/ Watchdog \/ Elapse

-----------------------------------------------------------------------------
(* Properties.                                                             *)

\* Nothing is lost or misplaced silently: a call that succeeds has every delta the
\* provider sent exactly once, in order, in a block of the call it belongs to.
DeltasKept ==
  mpc = "ok" =>
    /\ \A o \in owed : \E b \in ToSet(asm.content) : b.id = o.id /\ o.n \in ToSet(b.data)
    /\ \A i, j \in DOMAIN asm.content :
         \A k \in DOMAIN asm.content[i].data : \A l \in DOMAIN asm.content[j].data :
           /\ i = j /\ k < l => asm.content[i].data[k] < asm.content[j].data[l]
           /\ i # j => asm.content[i].data[k] # asm.content[j].data[l]

\* The stateful decoder keeps the adapter's side of the contract, parallel calls that a
\* proxy put on one index included: the loop never refuses its events.
DecoderKeepsContract == proto = "openai" => asm.err # "contract"

\* "retrying the call would re-emit them": the client sees frames of one send only.
OneSendShown == Cardinality(shown) <= 1

\* The stall fires only on a read that waited the whole window, never on a
\* pause between two reads ("a stale timer fire after the read completed must
\* not trip the stall").
StallIsDeserved == ~unfair

\* A watchdog that sleeps without a token in the channel sleeps for the right reason:
\* it parks only while nothing is armed, and its timer is the armed deadline.
NoLostWakeup ==
  ~wake => /\ wd = "park" => deadline = Disarmed /\ ~sclosed
           /\ wd = "timer" => deadline = timer /\ ~sclosed

\* It leaves only a stream that is over, or one whose body it closed on a stall.
WatchdogLeavesInOrder == wd = "exit" => sclosed \/ (sfired /\ body = "closed")

\* A read on a silent upstream returns: nothing but the watchdog frees it.
HungReadReturns == rd = "body" ~> rd # "body"

\* The watchdog goroutine does not outlive a closed or ended stream.
WatchdogExits == sclosed ~> wd = "exit"
=============================================================================
