---------------------------- MODULE RedisStream ----------------------------
(***************************************************************************)
(* The Redis stream broker (internal/session/redisbroker.go): a session's  *)
(* live frames in one stream key, a poller that forwards new entries into  *)
(* a bounded channel and drops when it is full, and the expiry that        *)
(* settling a run arms.  Redis itself is external.                         *)
(***************************************************************************)
EXTENDS Naturals, Sequences, FiniteSets, SequencesExt

CONSTANTS
  Scale,       \* streamIDToOffset's factor, above every sequence number
  Buffer,      \* capacity of the subscriber's channel
  Count,       \* entries of one XREAD
  MaxLen,      \* XADD MAXLEN
  MaxEntries,  \* bound: published entries
  MaxErrors    \* bound: Redis errors the poller meets

VARIABLES
  stream,      \* retained entries: ids <<ms, seq>> in order
  clock,       \* the id of the newest entry ever
  sent,        \* entries ever published
  armed,       \* the key has a time to live
  poller,      \* position, batch in hand, errors met
  chan,        \* the channel
  got,         \* observed: entries the consumer received
  skipped      \* observed: entries the poller has passed over

redisVars == <<stream, clock, sent, armed, poller, chan, got, skipped>>

Before(a, b) == a[1] < b[1] \/ (a[1] = b[1] /\ a[2] < b[2])

RedisTypeOK ==
  /\ Len(chan) <= Buffer /\ Len(stream) <= MaxLen /\ sent \in 0..MaxEntries /\ armed \in BOOLEAN
  /\ poller.pc \in {"off", "read", "forward", "gone"} /\ Len(poller.batch) <= Count

RedisInit ==
  /\ stream = <<>> /\ clock = <<0, 0>> /\ sent = 0 /\ armed = FALSE
  /\ poller = [pc |-> "off", last |-> <<0, 0>>, batch |-> <<>>, errors |-> 0]
  /\ chan = <<>> /\ got = <<>> /\ skipped = {}

-----------------------------------------------------------------------------
(* Offsets.                                                                *)

StreamIDToOffset(id) == id[1] * Scale + id[2]
OffsetToStreamID(off) == IF off = 0 THEN <<0, 0>> ELSE <<off \div Scale, off % Scale>>

\* XREAD: the entries strictly after an id, which are the last of the ordered stream.
After(id) == SubSeq(stream, 1 + Cardinality({i \in DOMAIN stream : ~Before(id, stream[i])}), Len(stream))
XRead(id, n) == LET s == After(id) IN IF Len(s) <= n THEN s ELSE SubSeq(s, 1, n)

\* Read: batch after batch until one is short.
ReadAll(after) ==
  LET read[k \in Nat] ==
        IF k = 0 THEN <<>>
        ELSE LET had == read[k - 1]
                 pos == IF had = <<>> THEN after ELSE StreamIDToOffset(Last(had))
             IN IF k > 1 /\ Len(had) < (k - 1) * Count THEN had ELSE had \o XRead(OffsetToStreamID(pos), Count)
  IN read[Len(stream) + 1]

-----------------------------------------------------------------------------

\* XADD: the id is the clock's, or the next in the same millisecond.  A key
\* that was given a time to live keeps it.
Publish ==
  /\ sent < MaxEntries /\ sent' = sent + 1
  /\ \E id \in {<<clock[1] + 1, 0>>, <<clock[1], clock[2] + 1>>} :
       /\ clock' = id
       /\ stream' = LET s == Append(stream, id) IN IF Len(s) > MaxLen THEN Tail(s) ELSE s
  /\ UNCHANGED <<armed, poller, chan, got, skipped>>

Settle ==
  /\ stream # <<>> /\ ~armed /\ armed' = TRUE
  /\ UNCHANGED <<stream, clock, sent, poller, chan, got, skipped>>

Expire ==
  /\ armed /\ stream' = <<>> /\ armed' = FALSE
  /\ UNCHANGED <<clock, sent, poller, chan, got, skipped>>

\* tailID: the newest entry; an error and an empty stream both read as 0-0.
TailID == {<<0, 0>>} \cup (IF stream = <<>> THEN {} ELSE {Last(stream)})

\* Subscribe: pollLoop resolves the tail at once.
Subscribe ==
  /\ poller.pc = "off"
  /\ \E tail \in TailID :
       poller' = [poller EXCEPT !.pc = "read", !.last = tail]
  /\ UNCHANGED <<stream, clock, sent, armed, chan, got, skipped>>

\* One XREAD of pollLoop; an empty answer is a time-out.
PollRead ==
  /\ poller.pc = "read" /\ XRead(poller.last, Count) # <<>>
  /\ poller' = [poller EXCEPT !.pc = "forward", !.batch = XRead(poller.last, Count)]
  /\ UNCHANGED <<stream, clock, sent, armed, chan, got, skipped>>

\* A transient error: back off, and retry from the same position.
PollError ==
  /\ poller.pc = "read" /\ poller.errors < MaxErrors
  /\ poller' = [poller EXCEPT !.errors = @ + 1]
  /\ UNCHANGED <<stream, clock, sent, armed, chan, got, skipped>>

\* Mutant: the position stays when an entry is delivered.
KeepPosition(id) == poller.last

\* The position moves past a delivered entry only.
Delivered(id) == id

\* One entry of the batch: delivered, or dropped when the channel is full.
Forward ==
  LET e == Head(poller.batch)
      room == Len(chan) < Buffer
      last == IF room THEN Delivered(e) ELSE poller.last
  IN
  /\ poller.pc = "forward"
  /\ chan' = IF room THEN Append(chan, e) ELSE chan
  /\ poller' = [poller EXCEPT !.last = last, !.batch = Tail(@),
                              !.pc = IF Len(poller.batch) = 1 THEN "read" ELSE "forward"]
  /\ skipped' = IF room THEN {d \in skipped : d # e} ELSE skipped \cup {e}
  /\ UNCHANGED <<stream, clock, sent, armed, got>>

Consume ==
  /\ chan # <<>> /\ got' = Append(got, Head(chan)) /\ chan' = Tail(chan)
  /\ UNCHANGED <<stream, clock, sent, armed, poller, skipped>>

Unsubscribe ==
  /\ poller.pc = "read" /\ poller' = [poller EXCEPT !.pc = "gone"]
  /\ UNCHANGED <<stream, clock, sent, armed, chan, got, skipped>>

RedisNext ==
  \/ Publish \/ Settle \/ Expire \/ Subscribe \/ PollRead \/ PollError \/ Forward \/ Consume \/ Unsubscribe

-----------------------------------------------------------------------------
(* Properties.                                                             *)

Live == got \o chan

\* A subscriber sees entries in stream order and none twice, through drops,
\* re-reads, errors, trimming and expiry.
LiveInOrder == \A i, j \in DOMAIN Live : i < j => Before(Live[i], Live[j])

\* Catching up from any offset gives every retained entry after it, once and
\* in order, however many batches it takes.
ReadIsComplete ==
  \A off \in {0} \cup {StreamIDToOffset(stream[i]) : i \in DOMAIN stream} :
    ReadAll(off) = After(OffsetToStreamID(off))

\* An entry that a full channel dropped and the stream retains is read again: the
\* poller's position has not passed it.  Violated when a later entry of the same
\* batch is delivered.
DroppedIsReread ==
  \A i \in DOMAIN stream : stream[i] \in skipped => Before(poller.last, stream[i])
=============================================================================
