------------------------------ MODULE WireProofs ------------------------------
(***************************************************************************)
(* Proofs about what the clients are sent: the Redis stream and the SSE    *)
(* frames, for every buffer, trimming length and set of tool calls and any *)
(* number of entries, errors and events.                                   *)
(***************************************************************************)
EXTENDS RecordProofs

-----------------------------------------------------------------------------
(* The Redis stream.                                                       *)

Id == Nat \X Nat
NotAfter(a, b) == a = b \/ S!Before(a, b)
Sorted(s) == \A i, j \in DOMAIN s : i < j => S!Before(s[i], s[j])
UpTo(s, id) == \A i \in DOMAIN s : NotAfter(s[i], id)
Past(s, id) == \A i \in DOMAIN s : S!Before(id, s[i])

PollerState == [pc : {"off", "read", "forward", "gone"}, last : Id, batch : Seq(Id), errors : Nat]

\* The inductive invariant: the stream ascends to the clock, what the subscriber has ascends
\* to the poller's position, and the batch in hand ascends from it.
RedisInv ==
  /\ stream \in Seq(Id) /\ clock \in Id /\ poller \in PollerState /\ chan \in Seq(Id) /\ got \in Seq(Id)
  /\ sent \in 0..MaxEntries /\ armed \in BOOLEAN /\ Len(chan) <= Buffer /\ Len(stream) <= MaxLen
  /\ Len(poller.batch) <= Count
  /\ Sorted(stream) /\ UpTo(stream, clock)
  /\ Sorted(got \o chan) /\ UpTo(got \o chan, poller.last)
  /\ Sorted(poller.batch) /\ Past(poller.batch, poller.last)
  /\ poller.pc = "off" => got = <<>> /\ chan = <<>> /\ poller.batch = <<>>
  /\ poller.pc = "forward" => poller.batch # <<>>
  /\ poller.pc \in {"read", "gone"} => poller.batch = <<>>

LEMMA IdOrder ==
  /\ \A a, b, c \in Id : S!Before(a, b) /\ S!Before(b, c) => S!Before(a, c)
  /\ \A a, b \in Id : S!Before(a, b) => a # b /\ ~S!Before(b, a)
  /\ \A a, b \in Id : ~S!Before(a, b) => NotAfter(b, a)
<1>1. \A a \in Id : a[1] \in Nat /\ a[2] \in Nat /\ a = <<a[1], a[2]>>
  BY DEF Id
<1>2. ASSUME NEW a \in Id, NEW b \in Id, NEW c \in Id, S!Before(a, b), S!Before(b, c) PROVE S!Before(a, c)
  BY <1>1, <1>2 DEF S!Before
<1>3. ASSUME NEW a \in Id, NEW b \in Id, S!Before(a, b) PROVE a # b /\ ~S!Before(b, a)
  BY <1>1, <1>3 DEF S!Before
<1>4. ASSUME NEW a \in Id, NEW b \in Id, ~S!Before(a, b) PROVE NotAfter(b, a)
  <2>1. a[1] \in Nat /\ a[2] \in Nat /\ b[1] \in Nat /\ b[2] \in Nat /\ a = <<a[1], a[2]>> /\ b = <<b[1], b[2]>>
    BY <1>1
  <2>2. S!Before(b, a) \/ (a[1] = b[1] /\ a[2] = b[2])
    BY <1>4, <2>1 DEF S!Before
  <2>3. QED
    BY <2>1, <2>2 DEF NotAfter
<1>5. QED
  BY <1>2, <1>3, <1>4

\* Appending what comes after all of a sequence keeps it ascending.
LEMMA SortedAppend ==
  ASSUME NEW s \in Seq(Id), NEW id \in Id, NEW e \in Id, Sorted(s), UpTo(s, id), S!Before(id, e)
  PROVE  Append(s, e) \in Seq(Id) /\ Sorted(Append(s, e)) /\ UpTo(Append(s, e), e)
<1> DEFINE t == Append(s, e)
<1>1. /\ t \in Seq(Id) /\ Len(s) \in Nat /\ t[Len(s) + 1] = e
      /\ DOMAIN s = 1..Len(s) /\ DOMAIN t = 1..(Len(s) + 1)
      /\ \A i \in DOMAIN s : i \in DOMAIN t /\ t[i] = s[i] /\ t[i] \in Id
      /\ \A i \in DOMAIN t : i \in DOMAIN s \/ i = Len(s) + 1
  BY AppendAt
<1> HIDE DEF t
<1>2. \A i \in DOMAIN s : S!Before(s[i], e)
  BY <1>1, IdOrder DEF UpTo, NotAfter
<1>3. Sorted(t)
  <2>1. SUFFICES ASSUME NEW i \in DOMAIN t, NEW j \in DOMAIN t, i < j PROVE S!Before(t[i], t[j])
    BY DEF Sorted
  <2>2. i \in DOMAIN s
    BY <1>1, <2>1
  <2>3. CASE j \in DOMAIN s
    BY <1>1, <2>1, <2>2, <2>3 DEF Sorted
  <2>4. CASE j = Len(s) + 1
    BY <1>1, <1>2, <2>2, <2>4
  <2>5. QED
    BY <1>1, <2>3, <2>4
<1>4. UpTo(t, e)
  BY <1>1, <1>2 DEF UpTo, NotAfter
<1>5. QED
  BY <1>1, <1>3, <1>4 DEF t

LEMMA SortedTail ==
  ASSUME NEW s \in Seq(Id), s # <<>>
  PROVE  /\ Tail(s) \in Seq(Id) /\ Len(Tail(s)) = Len(s) - 1 /\ Head(s) = s[1] /\ s[1] \in Id
         /\ Sorted(s) => Sorted(Tail(s)) /\ Past(Tail(s), s[1])
         /\ \A id : UpTo(s, id) => UpTo(Tail(s), id)
         /\ \A id : Past(s, id) => Past(Tail(s), id) /\ S!Before(id, s[1])
<1>1. /\ Tail(s) \in Seq(Id) /\ Len(Tail(s)) = Len(s) - 1 /\ Head(s) = s[1] /\ s[1] \in Id /\ Len(s) \in Nat
      /\ DOMAIN s = 1..Len(s) /\ 1 \in DOMAIN s /\ Len(s) - 1 \in Nat
  BY HeadTailProperties
<1>2. DOMAIN Tail(s) = 1..(Len(s) - 1) /\ \A i \in DOMAIN Tail(s) : i + 1 \in DOMAIN s /\ Tail(s)[i] = s[i + 1] /\ i \in Nat /\ 1 < i + 1
  <2>1. DOMAIN Tail(s) = 1..(Len(s) - 1)
    BY <1>1
  <2>2. \A i \in 1..Len(Tail(s)) : Tail(s)[i] = s[i + 1]
    BY HeadTailProperties
  <2>3. QED
    BY <1>1, <2>1, <2>2
<1>3. ASSUME Sorted(s) PROVE Sorted(Tail(s)) /\ Past(Tail(s), s[1])
  BY <1>1, <1>2, <1>3 DEF Sorted, Past
<1>4. ASSUME NEW id, UpTo(s, id) PROVE UpTo(Tail(s), id)
  BY <1>2, <1>4 DEF UpTo
<1>5. ASSUME NEW id, Past(s, id) PROVE Past(Tail(s), id) /\ S!Before(id, s[1])
  BY <1>1, <1>2, <1>5 DEF Past
<1>6. QED
  BY <1>1, <1>3, <1>4, <1>5

\* A part of a sequence.
LEMMA SortedPart ==
  ASSUME NEW s \in Seq(Id), Sorted(s), NEW m \in 1..(Len(s) + 1), NEW n \in 0..Len(s)
  PROVE  /\ SubSeq(s, m, n) \in Seq(Id) /\ Sorted(SubSeq(s, m, n))
         /\ Len(SubSeq(s, m, n)) = IF m <= n THEN n - m + 1 ELSE 0
         /\ \A id : (\A i \in m..n : S!Before(id, s[i])) => Past(SubSeq(s, m, n), id)
<1> DEFINE t == SubSeq(s, m, n)
<1>1. Len(s) \in Nat /\ DOMAIN s = 1..Len(s) /\ m \in Nat /\ n \in Nat
  OBVIOUS
<1>2. t \in Seq(Id) /\ Len(t) = (IF m <= n THEN n - m + 1 ELSE 0) /\ \A i \in 1..(n - m + 1) : t[i] = s[m + i - 1]
  BY <1>1, SubSeqProperties
<1>3. DOMAIN t = 1..Len(t)
  BY <1>2
<1> HIDE DEF t
<1>4. \A i \in DOMAIN t : i \in Nat /\ m + i - 1 \in m..n /\ m + i - 1 \in DOMAIN s /\ t[i] = s[m + i - 1]
  BY <1>1, <1>2, <1>3
<1>5. Sorted(t)
  <2>1. SUFFICES ASSUME NEW i \in DOMAIN t, NEW j \in DOMAIN t, i < j PROVE S!Before(t[i], t[j])
    BY DEF Sorted
  <2>2. m + i - 1 < m + j - 1
    BY <1>1, <1>4, <2>1
  <2>3. QED
    BY <1>4, <2>2 DEF Sorted
<1>6. ASSUME NEW id, \A i \in m..n : S!Before(id, s[i]) PROVE Past(t, id)
  BY <1>4, <1>6 DEF Past
<1>7. QED
  BY <1>2, <1>5, <1>6 DEF t

\* A set of positions with every smaller one is the first of them.
LEMMA FirstOnes ==
  ASSUME NEW n \in Nat, NEW D \in SUBSET (1..n), \A i \in D : \A j \in 1..n : j <= i => j \in D
  PROVE  Cardinality(D) \in 0..n /\ D = 1..Cardinality(D)
<1>1. CASE D = {}
  BY <1>1, FS_EmptySet
<1>2. CASE D # {}
  <2>1. PICK m \in D : \A k \in D : k <= m
    BY <1>2, GreatestOf
  <2>2. D = 1..m
    <3>1. m \in 1..n /\ \A j \in 1..m : j \in 1..n /\ j <= m
      OBVIOUS
    <3>2. \A j \in 1..m : j \in D
      BY <3>1
    <3>3. \A k \in D : k \in 1..m
      BY <2>1
    <3>4. QED
      BY <3>2, <3>3
  <2>3. Cardinality(1..m) = m
    <3>1. m \in Nat /\ m >= 1
      BY <2>1
    <3>2. Cardinality(1..m) = IF 1 > m THEN 0 ELSE m - 1 + 1
      BY <3>1, FS_Interval
    <3>3. QED
      BY <3>1, <3>2
  <2>4. Cardinality(D) = m
    BY <2>2, <2>3
  <2>5. QED
    BY <2>1, <2>2, <2>4
<1>3. QED
  BY <1>1, <1>2

LEMMA StreamSizeIs == \A D : S!Cardinality(D) = Cardinality(D)
BY Zenon DEF S!Cardinality, Cardinality

\* XREAD gives entries that are strictly after the id, in order, and at most n.
LEMMA ReadIsPast ==
  ASSUME stream \in Seq(Id), Sorted(stream), NEW id \in Id, NEW n \in Nat
  PROVE  S!XRead(id, n) \in Seq(Id) /\ Sorted(S!XRead(id, n)) /\ Past(S!XRead(id, n), id) /\ Len(S!XRead(id, n)) <= n
<1> DEFINE D == {i \in DOMAIN stream : ~S!Before(id, stream[i])}
           k == Cardinality(D)
           s == SubSeq(stream, 1 + k, Len(stream))
<1>1. Len(stream) \in Nat /\ DOMAIN stream = 1..Len(stream) /\ \A i \in DOMAIN stream : stream[i] \in Id /\ i \in Nat
  OBVIOUS
<1>2. \A i \in D : \A j \in 1..Len(stream) : j <= i => j \in D
  <2>1. SUFFICES ASSUME NEW i \in D, NEW j \in 1..Len(stream), j <= i, S!Before(id, stream[j]) PROVE FALSE
    BY <1>1
  <2>2. CASE j = i
    BY <2>1, <2>2
  <2>3. CASE j < i
    <3>1. S!Before(stream[j], stream[i])
      BY <1>1, <2>1, <2>3 DEF Sorted
    <3>2. S!Before(id, stream[i])
      BY <1>1, <2>1, <3>1, IdOrder
    <3>3. QED
      BY <3>2
  <2>4. QED
    BY <1>1, <2>1, <2>2, <2>3
<1>3. k \in 0..Len(stream) /\ D = 1..k
  <2>1. D \in SUBSET (1..Len(stream))
    BY <1>1
  <2>2. QED
    BY <1>1, <1>2, <2>1, FirstOnes
<1>4. \A i \in (1 + k)..Len(stream) : S!Before(id, stream[i])
  <2>1. SUFFICES ASSUME NEW i \in (1 + k)..Len(stream), ~S!Before(id, stream[i]) PROVE FALSE
    OBVIOUS
  <2>2. i \in D /\ i \notin 1..k
    BY <1>1, <1>3, <2>1
  <2>3. QED
    BY <1>3, <2>2
<1>5. S!After(id) = s
  BY StreamSizeIs DEF S!After
<1> HIDE DEF D, k
<1>6. s \in Seq(Id) /\ Sorted(s) /\ Past(s, id)
  <2>1. 1 + k \in 1..(Len(stream) + 1) /\ Len(stream) \in 0..Len(stream)
    BY <1>1, <1>3
  <2>2. QED
    BY <1>4, <2>1, SortedPart
<1> HIDE DEF s
<1>7. CASE Len(s) <= n
  BY <1>5, <1>6, <1>7 DEF S!XRead
<1>8. CASE ~(Len(s) <= n)
  <2>1. S!XRead(id, n) = SubSeq(s, 1, n)
    BY <1>5, <1>8 DEF S!XRead
  <2>2. Len(s) \in Nat /\ n \in 0..Len(s) /\ 1 \in 1..(Len(s) + 1) /\ DOMAIN s = 1..Len(s)
    BY <1>6, <1>8
  <2>3. \A i \in 1..n : S!Before(id, s[i])
    BY <1>6, <2>2 DEF Past
  <2>4. QED
    BY <1>6, <2>1, <2>2, <2>3, SortedPart
<1>9. QED
  BY <1>7, <1>8

\* Moving the head of one sequence to the end of the other.
LEMMA Shift ==
  ASSUME NEW A, NEW s \in Seq(A), NEW t \in Seq(A), t # <<>>
  PROVE  Append(s, Head(t)) \o Tail(t) = s \o t
<1> DEFINE u == Append(s, Head(t))
           v == Tail(t)
<1>1. /\ Len(s) \in Nat /\ Len(t) \in Nat /\ Len(t) >= 1 /\ Head(t) = t[1] /\ t[1] \in A
      /\ u \in Seq(A) /\ Len(u) = Len(s) + 1 /\ \A i \in 1..Len(s) : u[i] = s[i]
      /\ u[Len(s) + 1] = t[1]
  OBVIOUS
<1>2. v \in Seq(A) /\ Len(v) = Len(t) - 1 /\ \A i \in 1..Len(v) : v[i] = t[i + 1]
  BY HeadTailProperties
<1> HIDE DEF u, v
<1>3. /\ s \o t \in Seq(A) /\ Len(s \o t) = Len(s) + Len(t)
      /\ \A i \in 1..(Len(s) + Len(t)) : (s \o t)[i] = IF i <= Len(s) THEN s[i] ELSE t[i - Len(s)]
  BY ConcatProperties
<1>4. /\ u \o v \in Seq(A) /\ Len(u \o v) = Len(u) + Len(v)
      /\ \A i \in 1..(Len(u) + Len(v)) : (u \o v)[i] = IF i <= Len(u) THEN u[i] ELSE v[i - Len(u)]
  BY <1>1, <1>2, ConcatProperties
<1>5. Len(u \o v) = Len(s \o t)
  BY <1>1, <1>2, <1>3, <1>4
<1>6. ASSUME NEW i \in 1..Len(s \o t) PROVE (u \o v)[i] = (s \o t)[i]
  <2>1. i \in 1..(Len(s) + Len(t)) /\ i \in 1..(Len(u) + Len(v))
    BY <1>3, <1>4, <1>5, <1>6
  <2>2. CASE i <= Len(s)
    <3>1. i \in 1..Len(s) /\ i <= Len(u)
      BY <1>1, <2>1, <2>2
    <3>2. QED
      BY <1>1, <1>3, <1>4, <2>1, <2>2, <3>1
  <2>3. CASE i = Len(s) + 1
    <3>1. i <= Len(u) /\ ~(i <= Len(s)) /\ i - Len(s) = 1
      BY <1>1, <2>3
    <3>2. QED
      BY <1>1, <1>3, <1>4, <2>1, <2>3, <3>1
  <2>4. CASE i > Len(s) + 1
    <3>1. ~(i <= Len(u)) /\ ~(i <= Len(s)) /\ i - Len(u) \in 1..Len(v) /\ i - Len(u) + 1 = i - Len(s)
      BY <1>1, <1>2, <2>1, <2>4
    <3>2. v[i - Len(u)] = t[i - Len(u) + 1]
      BY <1>2, <3>1
    <3>3. QED
      BY <1>3, <1>4, <2>1, <3>1, <3>2
  <2>5. QED
    BY <1>1, <2>1, <2>2, <2>3, <2>4
<1>7. QED
  BY <1>3, <1>4, <1>5, <1>6, SeqEqual DEF u, v

LEMMA AppendAfter ==
  ASSUME NEW A, NEW s \in Seq(A), NEW t \in Seq(A), NEW e \in A
  PROVE  s \o Append(t, e) = Append(s \o t, e)
OBVIOUS

LEMMA NothingAscends ==
  <<>> \in Seq(Id) /\ Len(<<>>) = 0 /\ Sorted(<<>>) /\ \A id : UpTo(<<>>, id) /\ Past(<<>>, id)
<1>1. DOMAIN <<>> = {}
  OBVIOUS
<1>2. QED
  BY <1>1 DEF Sorted, UpTo, Past

LEMMA TailLeft ==
  ASSUME NEW A, NEW s \in Seq(A), s # <<>>, Len(s) # 1
  PROVE  Tail(s) # <<>>
<1>1. PICK t : t = Tail(s)
  OBVIOUS
<1>2. t \in Seq(A) /\ Len(t) = Len(s) - 1
  BY <1>1, HeadTailProperties
<1>3. Len(s) \in Nat /\ Len(s) # 0
  BY EmptySeq
<1>4. Len(t) # 0
  BY <1>2, <1>3
<1>5. t # <<>>
  BY <1>4
<1>6. QED
  BY <1>1, <1>5

LEMMA RedisStart ==
  ASSUME S!RedisInit
  PROVE  RedisInv
<1>1. /\ stream = <<>> /\ clock = <<0, 0>> /\ sent = 0 /\ armed = FALSE /\ chan = <<>> /\ got = <<>>
      /\ poller = [pc |-> "off", last |-> <<0, 0>>, batch |-> <<>>, errors |-> 0]
  BY DEF S!RedisInit
<1>2. <<0, 0>> \in Id /\ <<>> \in Seq(Id) /\ Len(<<>>) = 0
  BY DEF Id
<1>3. poller \in PollerState /\ poller.pc = "off" /\ poller.batch = <<>>
  BY <1>1, <1>2 DEF PollerState
<1>4. got \o chan = <<>>
  BY <1>1
<1>5. Len(stream) <= MaxLen /\ Len(chan) <= Buffer /\ Len(poller.batch) <= Count /\ sent \in 0..MaxEntries
  BY <1>1, <1>2, <1>3, StreamAssumption
<1>6. QED
  BY <1>1, <1>2, <1>3, <1>4, <1>5, NothingAscends DEF RedisInv

LEMMA RedisFacts ==
  ASSUME RedisInv
  PROVE  /\ poller.last \in Id /\ poller.batch \in Seq(Id) /\ poller.errors \in Nat
         /\ poller.pc \in {"off", "read", "forward", "gone"}
         /\ got \o chan \in Seq(Id) /\ Buffer \in Nat /\ Count \in Nat /\ Count >= 1 /\ MaxLen \in Nat /\ MaxEntries \in Nat
         /\ Len(chan) \in Nat /\ Len(stream) \in Nat /\ Len(poller.batch) \in Nat
BY StreamAssumption DEF RedisInv, PollerState

LEMMA PublishStep ==
  ASSUME RedisInv, S!Publish
  PROVE  RedisInv'
<1>1. /\ sent < MaxEntries /\ sent' = sent + 1 /\ UNCHANGED <<armed, poller, chan, got>>
  BY DEF S!Publish
<1>2. PICK id \in {<<clock[1] + 1, 0>>, <<clock[1], clock[2] + 1>>} :
        /\ clock' = id
        /\ stream' = LET s == Append(stream, id) IN IF Len(s) > MaxLen THEN Tail(s) ELSE s
  BY DEF S!Publish
<1>3. id \in Id /\ S!Before(clock, id)
  <2>1. clock[1] \in Nat /\ clock[2] \in Nat
    BY DEF RedisInv, Id
  <2>2. QED
    BY <2>1 DEF Id, S!Before
<1> DEFINE s == Append(stream, id)
<1>4. s \in Seq(Id) /\ Sorted(s) /\ UpTo(s, id) /\ Len(s) = Len(stream) + 1 /\ s # <<>>
  BY <1>3, SortedAppend DEF RedisInv
<1>5. stream' = IF Len(s) > MaxLen THEN Tail(s) ELSE s
  BY <1>2
<1> HIDE DEF s
<1>6. stream' \in Seq(Id) /\ Sorted(stream') /\ UpTo(stream', id) /\ Len(stream') <= MaxLen
  <2>1. Len(stream) <= MaxLen /\ Len(stream) \in Nat /\ MaxLen \in Nat
    BY RedisFacts DEF RedisInv
  <2>2. CASE Len(s) > MaxLen
    BY <1>4, <1>5, <2>1, <2>2, SortedTail
  <2>3. CASE ~(Len(s) > MaxLen)
    BY <1>4, <1>5, <2>1, <2>3
  <2>4. QED
    BY <2>2, <2>3
<1>7. sent' \in 0..MaxEntries
  BY <1>1, RedisFacts DEF RedisInv
<1>8. QED
  BY <1>1, <1>2, <1>3, <1>6, <1>7 DEF RedisInv, Sorted, UpTo, Past

LEMMA PollReadStep ==
  ASSUME RedisInv, S!PollRead
  PROVE  RedisInv'
<1> DEFINE b == S!XRead(poller.last, Count)
<1>1. /\ poller.pc = "read" /\ b # <<>> /\ poller' = [poller EXCEPT !.pc = "forward", !.batch = b]
      /\ UNCHANGED <<stream, clock, sent, armed, chan, got>>
  BY DEF S!PollRead
<1>2. b \in Seq(Id) /\ Sorted(b) /\ Past(b, poller.last) /\ Len(b) <= Count
  BY RedisFacts, ReadIsPast DEF RedisInv
<1> HIDE DEF b
<1>3. poller' \in PollerState /\ poller'.pc = "forward" /\ poller'.last = poller.last /\ poller'.batch = b
  BY <1>1, <1>2 DEF RedisInv, PollerState
<1>4. QED
  BY <1>1, <1>2, <1>3 DEF RedisInv, Sorted, UpTo, Past

LEMMA ForwardStep ==
  ASSUME RedisInv, S!Forward
  PROVE  RedisInv'
<1> DEFINE b == poller.batch
           e == Head(b)
           room == Len(chan) < Buffer
           to == IF Len(b) = 1 THEN "read" ELSE "forward"
           last == IF room THEN e ELSE poller.last
<1>1. /\ poller.pc = "forward" /\ chan' = (IF room THEN Append(chan, e) ELSE chan)
      /\ poller' = [poller EXCEPT !.last = last, !.batch = Tail(b), !.pc = to]
      /\ UNCHANGED <<stream, clock, sent, armed, got>>
  BY DEF S!Forward, S!Delivered
<1>2. b \in Seq(Id) /\ b # <<>> /\ Sorted(b) /\ Past(b, poller.last) /\ poller.last \in Id /\ Len(b) <= Count /\ Count \in Nat
  BY <1>1, RedisFacts DEF RedisInv
<1>3. /\ Tail(b) \in Seq(Id) /\ Len(Tail(b)) = Len(b) - 1 /\ e = b[1] /\ e \in Id /\ Sorted(Tail(b)) /\ Past(Tail(b), e)
      /\ Past(Tail(b), poller.last) /\ S!Before(poller.last, e) /\ Len(b) \in Nat
  BY <1>2, SortedTail
<1>4. poller' \in PollerState /\ poller'.last = last /\ poller'.batch = Tail(b) /\ poller'.pc = to
  <2>1. poller \in PollerState
    BY DEF RedisInv
  <2>2. last \in Id /\ to \in {"read", "forward"}
    BY <1>2, <1>3
  <2>3. QED
    BY <1>1, <1>3, <2>1, <2>2 DEF PollerState
<1>5. chan' \in Seq(Id) /\ got' \o chan' \in Seq(Id) /\ Len(chan') <= Buffer /\ Sorted(got' \o chan') /\ UpTo(got' \o chan', last)
  <2>1. chan \in Seq(Id) /\ got \in Seq(Id) /\ Sorted(got \o chan) /\ UpTo(got \o chan, poller.last) /\ got \o chan \in Seq(Id)
        /\ Len(chan) <= Buffer /\ Len(chan) \in Nat /\ Buffer \in Nat
    BY RedisFacts DEF RedisInv
  <2>2. CASE room
    <3>1. chan' = Append(chan, e) /\ got' = got /\ last = e /\ Len(chan') = Len(chan) + 1
      BY <1>1, <2>1, <2>2
    <3>2. got' \o chan' = Append(got \o chan, e)
      BY <1>3, <2>1, <3>1, AppendAfter
    <3>3. Append(got \o chan, e) \in Seq(Id) /\ Sorted(Append(got \o chan, e)) /\ UpTo(Append(got \o chan, e), e)
      BY <1>2, <1>3, <2>1, SortedAppend
    <3>4. chan' \in Seq(Id) /\ Len(chan') <= Buffer
      BY <1>3, <2>1, <2>2, <3>1
    <3>5. QED
      BY <3>1, <3>2, <3>3, <3>4
  <2>3. CASE ~room
    BY <1>1, <2>1, <2>3
  <2>4. QED
    BY <2>2, <2>3
<1>6. Past(Tail(b), last)
  BY <1>3
<1>7. to = "forward" => Tail(b) # <<>>
  <2>1. to = "forward" => Len(b) # 1
    OBVIOUS
  <2>2. QED
    BY <1>2, <2>1, TailLeft
<1>8. to = "read" => Tail(b) = <<>>
  <2>1. ASSUME to = "read" PROVE Len(Tail(b)) = 0
    BY <1>3, <2>1
  <2>2. QED
    BY <1>3, <2>1, EmptySeq
<1>9. Len(Tail(b)) <= Count
  BY <1>2, <1>3
<1>10. to \in {"read", "forward"} /\ Sorted(Tail(b))
  BY <1>3
<1> HIDE DEF b, e, room, to, last
<1>11. /\ stream' \in Seq(Id) /\ clock' \in Id /\ got' \in Seq(Id)
       /\ sent' \in 0..MaxEntries /\ armed' \in BOOLEAN /\ Len(stream') <= MaxLen
       /\ Sorted(stream') /\ UpTo(stream', clock')
  BY <1>1 DEF RedisInv
<1>12. /\ poller'.pc = "off" => got' = <<>> /\ chan' = <<>> /\ poller'.batch = <<>>
       /\ poller'.pc = "forward" => poller'.batch # <<>>
       /\ poller'.pc \in {"read", "gone"} => poller'.batch = <<>>
  BY <1>4, <1>7, <1>8, <1>10
<1>13. /\ Len(poller'.batch) <= Count /\ Sorted(poller'.batch) /\ Past(poller'.batch, poller'.last)
       /\ Sorted(got' \o chan') /\ UpTo(got' \o chan', poller'.last)
  BY <1>4, <1>5, <1>6, <1>9, <1>10
<1>14. QED
  BY <1>4, <1>5, <1>11, <1>12, <1>13 DEF RedisInv, Sorted, UpTo, Past

LEMMA RedisStep ==
  ASSUME RedisInv, S!RedisNext \/ UNCHANGED redisVars
  PROVE  RedisInv'
<1>1. CASE S!Publish
  BY <1>1, PublishStep
<1>2. CASE S!Settle
  BY <1>2 DEF S!Settle, RedisInv, Sorted, UpTo, Past
<1>3. CASE S!Expire
  <2>1. stream' = <<>> /\ armed' = FALSE /\ UNCHANGED <<clock, sent, poller, chan, got>>
    BY <1>3 DEF S!Expire
  <2>2. stream' \in Seq(Id) /\ Sorted(stream') /\ UpTo(stream', clock') /\ Len(stream') <= MaxLen
    BY <2>1, NothingAscends, StreamAssumption
  <2>3. armed' \in BOOLEAN
    BY <2>1
  <2>4. QED
    BY <2>1, <2>2, <2>3 DEF RedisInv, Sorted, UpTo, Past
<1>4. CASE S!Subscribe
  <2>1. PICK tail \in S!TailID : poller' = [poller EXCEPT !.pc = "read", !.last = tail]
    BY <1>4 DEF S!Subscribe
  <2>2. poller.pc = "off" /\ UNCHANGED <<stream, clock, sent, armed, chan, got>>
    BY <1>4 DEF S!Subscribe
  <2>3. tail \in Id
    <3>1. stream # <<>> => S!Last(stream) \in Id
      <4>1. stream # <<>> => Len(stream) \in DOMAIN stream
        BY DEF RedisInv
      <4>2. QED
        BY <4>1 DEF S!Last, RedisInv
    <3>2. <<0, 0>> \in Id
      BY DEF Id
    <3>3. QED
      BY <3>1, <3>2 DEF S!TailID, S!Last
  <2>4. poller' \in PollerState /\ poller'.pc = "read" /\ poller'.last = tail /\ poller'.batch = poller.batch
    BY <2>1, <2>3 DEF RedisInv, PollerState
  <2>5. got = <<>> /\ chan = <<>> /\ poller.batch = <<>> /\ got \o chan = <<>>
    BY <2>2 DEF RedisInv
  <2>6. QED
    BY <2>2, <2>4, <2>5 DEF RedisInv, Sorted, UpTo, Past
<1>5. CASE S!PollRead
  BY <1>5, PollReadStep
<1>6. CASE S!PollError
  <2>1. poller.pc = "read" /\ poller' = [poller EXCEPT !.errors = @ + 1] /\ UNCHANGED <<stream, clock, sent, armed, chan, got>>
    BY <1>6 DEF S!PollError
  <2>2. poller.errors + 1 \in Nat /\ poller \in PollerState
    BY RedisFacts DEF RedisInv
  <2>3. poller' \in PollerState /\ poller'.pc = "read" /\ poller'.last = poller.last /\ poller'.batch = poller.batch
    BY <2>1, <2>2 DEF PollerState
  <2>4. QED
    BY <2>1, <2>3 DEF RedisInv, Sorted, UpTo, Past
<1>7. CASE S!Forward
  BY <1>7, ForwardStep
<1>8. CASE S!Consume
  <2>1. chan # <<>> /\ got' = Append(got, Head(chan)) /\ chan' = Tail(chan) /\ UNCHANGED <<stream, clock, sent, armed, poller>>
    BY <1>8 DEF S!Consume
  <2>2. got \in Seq(Id) /\ chan \in Seq(Id)
    BY DEF RedisInv
  <2>3. got' \o chan' = got \o chan
    BY <2>1, <2>2, Shift
  <2>4. got' \in Seq(Id) /\ chan' \in Seq(Id) /\ Len(chan') <= Buffer
    <3>1. Tail(chan) \in Seq(Id) /\ Len(Tail(chan)) = Len(chan) - 1 /\ Head(chan) \in Id
      BY <2>1, <2>2, HeadTailProperties
    <3>2. Len(chan) <= Buffer /\ Len(chan) \in Nat /\ Buffer \in Nat
      BY RedisFacts DEF RedisInv
    <3>3. QED
      BY <2>1, <2>2, <3>1, <3>2
  <2>5. poller.pc # "off"
    BY <2>1 DEF RedisInv
  <2>6. QED
    BY <2>1, <2>3, <2>4, <2>5 DEF RedisInv, Sorted, UpTo, Past
<1>9. CASE S!Unsubscribe
  <2>1. poller.pc = "read" /\ poller' = [poller EXCEPT !.pc = "gone"] /\ UNCHANGED <<stream, clock, sent, armed, chan, got>>
    BY <1>9 DEF S!Unsubscribe
  <2>2. poller' \in PollerState /\ poller'.pc = "gone" /\ poller'.last = poller.last /\ poller'.batch = poller.batch
    BY <2>1 DEF RedisInv, PollerState
  <2>3. QED
    BY <2>1, <2>2 DEF RedisInv, Sorted, UpTo, Past
<1>10. CASE UNCHANGED redisVars
  BY <1>10 DEF redisVars, RedisInv, Sorted, UpTo, Past
<1>11. QED
  BY <1>1, <1>2, <1>3, <1>4, <1>5, <1>6, <1>7, <1>8, <1>9, <1>10 DEF S!RedisNext

\* For any buffer, batch size, trim length and number of entries and errors: a
\* subscriber receives entries in the order of the stream and none twice.
THEOREM LiveStreamIsSound == Spec => []LiveStreamSound
<1>1. Init => RedisInv
  BY RedisStart DEF Init
<1>2. RedisInv /\ [Next]_vars => RedisInv'
  <2>1. ASSUME [Next]_vars PROVE S!RedisNext \/ UNCHANGED redisVars
    BY <2>1 DEF Next, Only, vars
  <2>2. QED
    BY <2>1, RedisStep
<1>3. RedisInv => LiveStreamSound
  <2>1. ASSUME RedisInv PROVE S!RedisTypeOK /\ S!LiveInOrder
    <3>1. S!RedisTypeOK
      BY <2>1, RedisFacts DEF RedisInv, S!RedisTypeOK
    <3>2. S!LiveInOrder
      BY <2>1 DEF RedisInv, Sorted, S!LiveInOrder, S!Live
    <3>3. QED
      BY <3>1, <3>2
  <2>2. QED
    BY <2>1 DEF LiveStreamSound
<1>4. QED
  BY <1>1, <1>2, <1>3, PTL DEF Spec

-----------------------------------------------------------------------------
(* The frames.                                                             *)

FrameTypes == {"reasoning-start", "reasoning-delta", "reasoning-end", "text-start", "text-delta", "text-end",
               "tool-call-start", "tool-call-delta", "tool-call-end", "data", "finish-step", "error", "status", "finish"}
FrameIds == {"", "done", "failed", "cancelled", "stop", "length", "continued", "error", "other"} \cup ToolCalls
FrameRow == [type : FrameTypes, id : FrameIds]
Coding == [think : BOOLEAN, text : BOOLEAN, started : SUBSET ToolCalls, cut : BOOLEAN, told : BOOLEAN]
EncoderState == [think : BOOLEAN, text : BOOLEAN, started : SUBSET ToolCalls, streamed : SUBSET ToolCalls,
                 finish : {"", "error", "other", "length"}, step : {"none", "stop", "length", "continued"},
                 over : BOOLEAN, err : BOOLEAN, closed : {"no", "yes", "blind", "early"}]

CutFrame == [type |-> "finish-step", id |-> "length"]
StopFrame == [type |-> "status", id |-> "cancelled"]

Tally(o, t, id) == F!Number(o, t, id, Len(o))
Proper(o, i) ==
  /\ o[i].type = "text-delta" => F!Number(o, "text-start", "", i) = F!Number(o, "text-end", "", i) + 1
  /\ o[i].type = "reasoning-delta" => F!Number(o, "reasoning-start", "", i) = F!Number(o, "reasoning-end", "", i) + 1
  /\ o[i].type \in {"tool-call-delta", "tool-call-end"} => F!Number(o, "tool-call-start", o[i].id, i) = 1
  /\ o[i].type # "finish"

\* What the frames o amount to: the blocks that are open, the calls that have started,
\* a step that was cut off, and no terminal event unless told.
Amounts(o, c) ==
  /\ o \in Seq(FrameRow) /\ c \in Coding
  /\ Tally(o, "text-start", "") = Tally(o, "text-end", "") + (IF c.text THEN 1 ELSE 0)
  /\ Tally(o, "reasoning-start", "") = Tally(o, "reasoning-end", "") + (IF c.think THEN 1 ELSE 0)
  /\ \A id \in ToolCalls : Tally(o, "tool-call-start", id) = IF id \in c.started THEN 1 ELSE 0
  /\ \A i \in DOMAIN o : Proper(o, i)
  /\ c.cut => \E i \in DOMAIN o : o[i] = CutFrame
  /\ \A i \in DOMAIN o : o[i].type = "error" \/ o[i] = StopFrame => c.told

CodedBy(e) == [think |-> e.think, text |-> e.text, started |-> e.started,
               cut |-> e.step = "length" \/ e.finish = "length", told |-> e.finish # ""]

\* The encoder e has seen no terminal event the run did not come to.
SawOnly(e) ==
  /\ e.finish \in {"error", "length"} => "failed" \in ends
  /\ e.finish = "other" => "cancelled" \in ends
  /\ e.over => "done" \in ends

\* Until the stream is finished the encoder's flags are what it wrote, unless a write failed.
FramesInv ==
  /\ enc \in EncoderState /\ enc.streamed \subseteq enc.started /\ out \in Seq(FrameRow)
  /\ ends \subseteq F!Endings /\ outcome \in {"running"} \cup F!Endings /\ emitted \in 0..MaxFrameEvents
  /\ SawOnly(enc)
  /\ outcome = "done" => "done" \in ends
  /\ F!StreamWellFormed /\ F!CutOffIsShown
  /\ enc.closed = "no" =>
       /\ \E c \in Coding : Amounts(out, c) /\ (c.told => enc.finish # "")
       /\ ~enc.err => Amounts(out, CodedBy(enc))

LEMMA FramesSizeIs == \A D : F!Cardinality(D) = Cardinality(D)
BY Zenon DEF F!Cardinality, Cardinality

\* Counting frames of a kind before and after one more frame.
OneMore(p, o, f, t, id) ==
  /\ \A n \in 0..Len(o) : F!Number(p, t, id, n) = F!Number(o, t, id, n)
  /\ Tally(o, t, id) \in Nat
  /\ f.type = t /\ f.id = id => Tally(p, t, id) = Tally(o, t, id) + 1
  /\ ~(f.type = t /\ f.id = id) => Tally(p, t, id) = Tally(o, t, id)

LEMMA NumberAppend ==
  ASSUME NEW o \in Seq(FrameRow), NEW f \in FrameRow, NEW p, p = Append(o, f), NEW t, NEW id
  PROVE  OneMore(p, o, f, t, id)
<1> DEFINE n == Len(o)
           D == {i \in 1..n : o[i].type = t /\ o[i].id = id}
           E == {i \in 1..(n + 1) : p[i].type = t /\ p[i].id = id}
<1>1. /\ n \in Nat /\ Len(p) = n + 1 /\ p[n + 1] = f /\ DOMAIN o = 1..n /\ DOMAIN p = 1..(n + 1)
      /\ \A i \in 1..n : p[i] = o[i]
  BY AppendAt
<1>2. ASSUME NEW m \in 0..n PROVE F!Number(p, t, id, m) = F!Number(o, t, id, m)
  <2>1. {i \in 1..m : p[i].type = t /\ p[i].id = id} = {i \in 1..m : o[i].type = t /\ o[i].id = id}
    BY <1>1
  <2>2. QED
    BY <2>1 DEF F!Number
<1>3. Tally(o, t, id) = Cardinality(D) /\ Tally(p, t, id) = Cardinality(E)
  BY <1>1, FramesSizeIs DEF Tally, F!Number
<1>4. E \ {n + 1} = D
  BY <1>1
<1>5. D \in SUBSET (1..n) /\ E \in SUBSET (1..(n + 1))
  OBVIOUS
<1>6. Cardinality(D) \in Nat /\ Cardinality(E) = Cardinality(D) + (IF n + 1 \in E THEN 1 ELSE 0)
  BY <1>1, <1>4, <1>5, CountAppend
<1>7. n + 1 \in E <=> f.type = t /\ f.id = id
  BY <1>1
<1> HIDE DEF D, E
<1>8. f.type = t /\ f.id = id => Cardinality(E) = Cardinality(D) + 1
  BY <1>6, <1>7
<1>9. ~(f.type = t /\ f.id = id) => Cardinality(E) = Cardinality(D)
  BY <1>6, <1>7
<1>10. QED
  BY <1>2, <1>3, <1>6, <1>8, <1>9, Zenon DEF OneMore

\* What one more frame makes of them, and when it may be written.
Legal(c, f) ==
  /\ f.type = "text-start" => ~c.text /\ f.id = ""
  /\ f.type = "text-end" => c.text /\ f.id = ""
  /\ f.type = "text-delta" => c.text
  /\ f.type = "reasoning-start" => ~c.think /\ f.id = ""
  /\ f.type = "reasoning-end" => c.think /\ f.id = ""
  /\ f.type = "reasoning-delta" => c.think
  /\ f.type = "tool-call-start" => f.id \in ToolCalls \ c.started
  /\ f.type \in {"tool-call-delta", "tool-call-end"} => f.id \in c.started
  /\ f.type # "finish"
Turns(c, f, d) ==
  /\ d.text = (IF f.type = "text-start" THEN TRUE ELSE IF f.type = "text-end" THEN FALSE ELSE c.text)
  /\ d.think = (IF f.type = "reasoning-start" THEN TRUE ELSE IF f.type = "reasoning-end" THEN FALSE ELSE c.think)
  /\ d.started = (IF f.type = "tool-call-start" THEN c.started \cup {f.id} ELSE c.started)
  /\ d.cut => c.cut \/ f = CutFrame
  /\ c.told \/ f.type = "error" \/ f = StopFrame => d.told

LEMMA CodingFacts ==
  ASSUME NEW c \in Coding
  PROVE  c.think \in BOOLEAN /\ c.text \in BOOLEAN /\ c.started \in SUBSET ToolCalls /\ c.cut \in BOOLEAN /\ c.told \in BOOLEAN
BY DEF Coding

\* Opening and closing keep the balance.
Balance(a, b, x) == a = b + (IF x THEN 1 ELSE 0)

LEMMA Balanced ==
  ASSUME NEW a \in Nat, NEW b \in Nat, NEW x \in BOOLEAN, Balance(a, b, x)
  PROVE  /\ ~x => Balance(a + 1, b, TRUE)
         /\ x => Balance(a, b + 1, FALSE)
BY DEF Balance

LEMMA OneFrame ==
  ASSUME NEW o, NEW c \in Coding, NEW d \in Coding, NEW f \in FrameRow, Amounts(o, c), Legal(c, f), Turns(c, f, d)
  PROVE  Amounts(Append(o, f), d)
<1>1. PICK p : p = Append(o, f)
  OBVIOUS
<1>2. /\ p \in Seq(FrameRow) /\ Len(o) \in Nat /\ Len(p) = Len(o) + 1 /\ p[Len(o) + 1] = f
      /\ DOMAIN o = 1..Len(o) /\ DOMAIN p = 1..(Len(o) + 1)
      /\ \A i \in DOMAIN o : i \in DOMAIN p /\ p[i] = o[i]
      /\ \A i \in DOMAIN p : i \in DOMAIN o \/ i = Len(o) + 1
      /\ o \in Seq(FrameRow)
  <2>1. o \in Seq(FrameRow)
    BY DEF Amounts
  <2>2. QED
    BY <1>1, <2>1, AppendAt
<1>3. \A t, id : OneMore(p, o, f, t, id)
  <2>1. o \in Seq(FrameRow)
    BY <1>2
  <2>2. QED
    BY <1>1, <2>1, NumberAppend
<1>4. Tally(p, "text-start", "") = Tally(p, "text-end", "") + (IF d.text THEN 1 ELSE 0)
  <2>1. Balance(Tally(o, "text-start", ""), Tally(o, "text-end", ""), c.text) /\ c.text \in BOOLEAN /\ d.text \in BOOLEAN
    BY CodingFacts DEF Amounts, Balance
  <2>2. /\ Tally(o, "text-start", "") \in Nat /\ Tally(o, "text-end", "") \in Nat
        /\ IF f.type = "text-start" /\ f.id = "" THEN Tally(p, "text-start", "") = Tally(o, "text-start", "") + 1
                                                 ELSE Tally(p, "text-start", "") = Tally(o, "text-start", "")
        /\ IF f.type = "text-end" /\ f.id = "" THEN Tally(p, "text-end", "") = Tally(o, "text-end", "") + 1
                                               ELSE Tally(p, "text-end", "") = Tally(o, "text-end", "")
    BY <1>3, Zenon DEF OneMore
  <2>3. Balance(Tally(p, "text-start", ""), Tally(p, "text-end", ""), d.text)
    <3>1. CASE f.type = "text-start"
      <4>1. ~c.text /\ f.id = "" /\ d.text = TRUE /\ f.type # "text-end"
        BY <2>1, <3>1 DEF Legal, Turns
      <4>2. Tally(p, "text-start", "") = Tally(o, "text-start", "") + 1 /\ Tally(p, "text-end", "") = Tally(o, "text-end", "")
        BY <2>2, <3>1, <4>1, Zenon
      <4>3. Balance(Tally(o, "text-start", "") + 1, Tally(o, "text-end", ""), TRUE)
        BY <2>1, <2>2, <4>1, Balanced, Zenon
      <4>4. QED
        BY <4>1, <4>2, <4>3, Zenon
    <3>2. CASE f.type = "text-end"
      <4>1. c.text /\ f.id = "" /\ d.text = FALSE /\ f.type # "text-start"
        BY <2>1, <3>2 DEF Legal, Turns
      <4>2. Tally(p, "text-start", "") = Tally(o, "text-start", "") /\ Tally(p, "text-end", "") = Tally(o, "text-end", "") + 1
        BY <2>2, <3>2, <4>1, Zenon
      <4>3. Balance(Tally(o, "text-start", ""), Tally(o, "text-end", "") + 1, FALSE)
        BY <2>1, <2>2, <4>1, Balanced, Zenon
      <4>4. QED
        BY <4>1, <4>2, <4>3, Zenon
    <3>3. CASE f.type # "text-start" /\ f.type # "text-end"
      <4>1. d.text = c.text
        BY <2>1, <3>3 DEF Turns
      <4>2. Tally(p, "text-start", "") = Tally(o, "text-start", "") /\ Tally(p, "text-end", "") = Tally(o, "text-end", "")
        BY <2>2, <3>3, Zenon
      <4>3. QED
        BY <2>1, <4>1, <4>2, Zenon
    <3>4. QED
      BY <3>1, <3>2, <3>3, Zenon
  <2>4. QED
    BY <2>3 DEF Balance
<1>5. Tally(p, "reasoning-start", "") = Tally(p, "reasoning-end", "") + (IF d.think THEN 1 ELSE 0)
  <2>1. Balance(Tally(o, "reasoning-start", ""), Tally(o, "reasoning-end", ""), c.think) /\ c.think \in BOOLEAN /\ d.think \in BOOLEAN
    BY CodingFacts DEF Amounts, Balance
  <2>2. /\ Tally(o, "reasoning-start", "") \in Nat /\ Tally(o, "reasoning-end", "") \in Nat
        /\ IF f.type = "reasoning-start" /\ f.id = "" THEN Tally(p, "reasoning-start", "") = Tally(o, "reasoning-start", "") + 1
                                                 ELSE Tally(p, "reasoning-start", "") = Tally(o, "reasoning-start", "")
        /\ IF f.type = "reasoning-end" /\ f.id = "" THEN Tally(p, "reasoning-end", "") = Tally(o, "reasoning-end", "") + 1
                                               ELSE Tally(p, "reasoning-end", "") = Tally(o, "reasoning-end", "")
    BY <1>3, Zenon DEF OneMore
  <2>3. Balance(Tally(p, "reasoning-start", ""), Tally(p, "reasoning-end", ""), d.think)
    <3>1. CASE f.type = "reasoning-start"
      <4>1. ~c.think /\ f.id = "" /\ d.think = TRUE /\ f.type # "reasoning-end"
        BY <2>1, <3>1 DEF Legal, Turns
      <4>2. Tally(p, "reasoning-start", "") = Tally(o, "reasoning-start", "") + 1 /\ Tally(p, "reasoning-end", "") = Tally(o, "reasoning-end", "")
        BY <2>2, <3>1, <4>1, Zenon
      <4>3. Balance(Tally(o, "reasoning-start", "") + 1, Tally(o, "reasoning-end", ""), TRUE)
        BY <2>1, <2>2, <4>1, Balanced, Zenon
      <4>4. QED
        BY <4>1, <4>2, <4>3, Zenon
    <3>2. CASE f.type = "reasoning-end"
      <4>1. c.think /\ f.id = "" /\ d.think = FALSE /\ f.type # "reasoning-start"
        BY <2>1, <3>2 DEF Legal, Turns
      <4>2. Tally(p, "reasoning-start", "") = Tally(o, "reasoning-start", "") /\ Tally(p, "reasoning-end", "") = Tally(o, "reasoning-end", "") + 1
        BY <2>2, <3>2, <4>1, Zenon
      <4>3. Balance(Tally(o, "reasoning-start", ""), Tally(o, "reasoning-end", "") + 1, FALSE)
        BY <2>1, <2>2, <4>1, Balanced, Zenon
      <4>4. QED
        BY <4>1, <4>2, <4>3, Zenon
    <3>3. CASE f.type # "reasoning-start" /\ f.type # "reasoning-end"
      <4>1. d.think = c.think
        BY <2>1, <3>3 DEF Turns
      <4>2. Tally(p, "reasoning-start", "") = Tally(o, "reasoning-start", "") /\ Tally(p, "reasoning-end", "") = Tally(o, "reasoning-end", "")
        BY <2>2, <3>3, Zenon
      <4>3. QED
        BY <2>1, <4>1, <4>2, Zenon
    <3>4. QED
      BY <3>1, <3>2, <3>3, Zenon
  <2>4. QED
    BY <2>3 DEF Balance
<1>6. ASSUME NEW id \in ToolCalls PROVE Tally(p, "tool-call-start", id) = IF id \in d.started THEN 1 ELSE 0
  <2>1. Tally(o, "tool-call-start", id) = IF id \in c.started THEN 1 ELSE 0
    BY DEF Amounts
  <2>2. IF f.type = "tool-call-start" /\ f.id = id THEN Tally(p, "tool-call-start", id) = Tally(o, "tool-call-start", id) + 1
                                                    ELSE Tally(p, "tool-call-start", id) = Tally(o, "tool-call-start", id)
    BY <1>3, Zenon DEF OneMore
  <2>3. id \in d.started <=> id \in c.started \/ (f.type = "tool-call-start" /\ f.id = id)
    BY DEF Turns
  <2>4. f.type = "tool-call-start" => f.id \notin c.started
    BY DEF Legal
  <2>5. QED
    BY <2>1, <2>2, <2>3, <2>4
<1>7. ASSUME NEW i \in DOMAIN p PROVE Proper(p, i)
  <2>1. CASE i \in DOMAIN o
    <3>1. Proper(o, i) /\ p[i] = o[i] /\ i \in 0..Len(o)
      <4>1. Proper(o, i)
        BY <2>1 DEF Amounts
      <4>2. QED
        BY <1>2, <2>1, <4>1
    <3>2. \A t, id : F!Number(p, t, id, i) = F!Number(o, t, id, i)
      BY <1>3, <3>1, Zenon DEF OneMore
    <3>3. QED
      BY <3>1, <3>2 DEF Proper
  <2>2. CASE i = Len(o) + 1
    <3>1. p[i] = f /\ i = Len(p)
      BY <1>2, <2>2
    <3>2. \A t, id : F!Number(p, t, id, i) = Tally(p, t, id)
      BY <3>1 DEF Tally
    <3>3. ASSUME f.type = "text-delta" PROVE Tally(p, "text-start", "") = Tally(p, "text-end", "") + 1
      <4>1. d.text
        BY <3>3 DEF Legal, Turns
      <4>2. QED
        BY <1>4, <4>1
    <3>4. ASSUME f.type = "reasoning-delta" PROVE Tally(p, "reasoning-start", "") = Tally(p, "reasoning-end", "") + 1
      <4>1. d.think
        BY <3>4 DEF Legal, Turns
      <4>2. QED
        BY <1>5, <4>1
    <3>5. ASSUME f.type \in {"tool-call-delta", "tool-call-end"} PROVE Tally(p, "tool-call-start", f.id) = 1
      <4>1. f.id \in d.started /\ f.id \in ToolCalls
        BY <3>5, CodingFacts DEF Legal, Turns
      <4>2. QED
        BY <1>6, <4>1
    <3>6. f.type # "finish"
      BY DEF Legal
    <3>7. QED
      BY <3>1, <3>2, <3>3, <3>4, <3>5, <3>6 DEF Proper
  <2>3. QED
    BY <1>2, <2>1, <2>2
<1>8. d.cut => \E i \in DOMAIN p : p[i] = CutFrame
  <2>1. Len(o) + 1 \in DOMAIN p
    BY <1>2
  <2>2. c.cut => \E i \in DOMAIN o : o[i] = CutFrame
    BY DEF Amounts
  <2>3. QED
    BY <1>2, <2>1, <2>2 DEF Turns
<1>9. \A i \in DOMAIN p : p[i].type = "error" \/ p[i] = StopFrame => d.told
  <2>1. \A i \in DOMAIN o : o[i].type = "error" \/ o[i] = StopFrame => c.told
    BY DEF Amounts
  <2>2. QED
    BY <1>2, <2>1 DEF Turns
<1>10. Amounts(p, d)
  BY <1>2, <1>4, <1>5, <1>6, <1>7, <1>8, <1>9 DEF Amounts
<1>11. QED
  BY <1>1, <1>10

\* A description that claims less of the same frames.
Weaker(c, d) ==
  /\ d \in Coding /\ d.think = c.think /\ d.text = c.text /\ d.started = c.started
  /\ d.cut => c.cut
  /\ c.told => d.told

LEMMA AmountsLess ==
  ASSUME NEW o, NEW c, NEW d, Amounts(o, c), Weaker(c, d)
  PROVE  Amounts(o, d)
<1>1. d \in Coding /\ d.think = c.think /\ d.text = c.text /\ d.started = c.started
  BY DEF Weaker
<1>2. d.cut => c.cut
  BY DEF Weaker
<1>3. c.told => d.told
  BY DEF Weaker
<1>4. d.cut => \E i \in DOMAIN o : o[i] = CutFrame
  BY <1>2 DEF Amounts
<1>5. \A i \in DOMAIN o : o[i].type = "error" \/ o[i] = StopFrame => d.told
  BY <1>3 DEF Amounts
<1>6. QED
  BY <1>1, <1>4, <1>5, Zenon DEF Amounts

\* The frames g lead from a to b, and wherever the writing of them stops, the
\* frames so far are in order.
Leads(g, a, b) ==
  /\ g \in Seq(FrameRow) /\ a \in Coding /\ b \in Coding /\ (a.told => b.told)
  /\ \A o : Amounts(o, a) =>
       /\ Amounts(o \o g, b)
       /\ \A n \in 0..Len(g) : \E c \in Coding : Amounts(o \o SubSeq(g, 1, n), c) /\ (c.told => b.told)

LEMMA NoPart ==
  ASSUME NEW g \in Seq(FrameRow)
  PROVE  SubSeq(g, 1, 0) = <<>> /\ SubSeq(g, 1, Len(g)) = g
<1>1. Len(SubSeq(g, 1, 0)) = 0 /\ SubSeq(g, 1, 0) \in Seq(FrameRow)
  BY SubSeqProperties
<1>2. Len(g) \in Nat
  OBVIOUS
<1>3. /\ SubSeq(g, 1, Len(g)) \in Seq(FrameRow) /\ Len(SubSeq(g, 1, Len(g))) = (IF 1 <= Len(g) THEN Len(g) - 1 + 1 ELSE 0)
      /\ \A i \in 1..(Len(g) - 1 + 1) : SubSeq(g, 1, Len(g))[i] = g[1 + i - 1]
  BY <1>2, SubSeqProperties
<1>4. PICK h : h = SubSeq(g, 1, Len(g))
  OBVIOUS
<1>5. h \in Seq(FrameRow) /\ Len(h) = Len(g) /\ \A i \in 1..Len(g) : h[i] = g[i]
  BY <1>2, <1>3, <1>4
<1>6. h = g
  BY <1>5, SeqEqual
<1>7. QED
  BY <1>1, <1>4, <1>6, EmptySeq

LEMMA NothingLeads ==
  ASSUME NEW a \in Coding
  PROVE  Leads(<<>>, a, a)
<1>1. \A o : Amounts(o, a) => o \o <<>> = o
  <2>1. \A o : Amounts(o, a) => o \in Seq(FrameRow)
    BY DEF Amounts
  <2>2. \A o \in Seq(FrameRow) : o \o <<>> = o
    OBVIOUS
  <2>3. QED
    BY <2>1, <2>2, Zenon
<1>2. <<>> \in Seq(FrameRow) /\ Len(<<>>) = 0 /\ SubSeq(<<>>, 1, 0) = <<>>
  OBVIOUS
<1>3. ASSUME NEW o, Amounts(o, a), NEW n \in 0..Len(<<>>)
      PROVE  \E c \in Coding : Amounts(o \o SubSeq(<<>>, 1, n), c) /\ (c.told => a.told)
  <2>1. n = 0
    BY <1>2
  <2>2. Amounts(o \o SubSeq(<<>>, 1, n), a)
    BY <1>1, <1>2, <1>3, <2>1, Zenon
  <2>3. QED
    BY <2>2
<1>4. QED
  BY <1>1, <1>2, <1>3, Zenon DEF Leads

LEMMA FrameLeads ==
  ASSUME NEW a \in Coding, NEW b \in Coding, NEW f \in FrameRow, Legal(a, f), Turns(a, f, b)
  PROVE  Leads(<<f>>, a, b)
<1>1. \A o \in Seq(FrameRow) : o \o <<f>> = Append(o, f) /\ o \o <<>> = o
  OBVIOUS
<1>2. \A o : Amounts(o, a) => o \in Seq(FrameRow)
  BY DEF Amounts
<1>3. \A o : Amounts(o, a) => Amounts(o \o <<f>>, b)
  BY <1>1, <1>2, OneFrame, Zenon
<1>4. <<f>> \in Seq(FrameRow) /\ Len(<<f>>) = 1
  OBVIOUS
<1>5. SubSeq(<<f>>, 1, 0) = <<>> /\ SubSeq(<<f>>, 1, 1) = <<f>>
  BY <1>4, NoPart
<1>6. a.told => b.told
  BY DEF Turns
<1>7. ASSUME NEW o, Amounts(o, a), NEW n \in 0..1
      PROVE  \E c \in Coding : Amounts(o \o SubSeq(<<f>>, 1, n), c) /\ (c.told => b.told)
  <2>1. CASE n = 0
    <3>1. Amounts(o \o SubSeq(<<f>>, 1, n), a)
      BY <1>1, <1>2, <1>5, <1>7, <2>1, Zenon
    <3>2. QED
      BY <1>6, <3>1
  <2>2. CASE n = 1
    <3>1. Amounts(o \o SubSeq(<<f>>, 1, n), b)
      BY <1>3, <1>5, <1>7, <2>2, Zenon
    <3>2. QED
      BY <3>1
  <2>3. QED
    BY <2>1, <2>2
<1>8. QED
  BY <1>3, <1>4, <1>6, <1>7, Zenon DEF Leads

\* A part of two joined sequences, and joining three.
LEMMA PartOfTwo ==
  ASSUME NEW g \in Seq(FrameRow), NEW h \in Seq(FrameRow), NEW n \in 0..(Len(g) + Len(h))
  PROVE  IF n <= Len(g) THEN SubSeq(g \o h, 1, n) = SubSeq(g, 1, n)
                        ELSE n - Len(g) \in 0..Len(h) /\ SubSeq(g \o h, 1, n) = g \o SubSeq(h, 1, n - Len(g))
<1>1. PICK j : j = g \o h
  OBVIOUS
<1>2. PICK p : p = SubSeq(j, 1, n)
  OBVIOUS
<1>3. Len(g) \in Nat /\ Len(h) \in Nat /\ n \in Nat
  OBVIOUS
<1>4. /\ j \in Seq(FrameRow) /\ Len(j) = Len(g) + Len(h)
      /\ \A i \in 1..(Len(g) + Len(h)) : j[i] = IF i <= Len(g) THEN g[i] ELSE h[i - Len(g)]
  <2>1. /\ g \o h \in Seq(FrameRow) /\ Len(g \o h) = Len(g) + Len(h)
        /\ \A i \in 1..(Len(g) + Len(h)) : (g \o h)[i] = IF i <= Len(g) THEN g[i] ELSE h[i - Len(g)]
    BY ConcatProperties
  <2>2. QED
    BY <1>1, <2>1, Zenon
<1>5. p \in Seq(FrameRow) /\ Len(p) = n /\ \A i \in 1..n : p[i] = j[i]
  <2>1. p \in Seq(FrameRow) /\ Len(p) = (IF 1 <= n THEN n - 1 + 1 ELSE 0) /\ \A i \in 1..(n - 1 + 1) : p[i] = j[1 + i - 1]
    BY <1>2, <1>3, <1>4, SubSeqProperties
  <2>2. QED
    BY <1>3, <2>1
<1>6. CASE n <= Len(g)
  <2>1. PICK q : q = SubSeq(g, 1, n)
    OBVIOUS
  <2>2. q \in Seq(FrameRow) /\ Len(q) = n /\ \A i \in 1..n : q[i] = g[i]
    <3>1. q \in Seq(FrameRow) /\ Len(q) = (IF 1 <= n THEN n - 1 + 1 ELSE 0) /\ \A i \in 1..(n - 1 + 1) : q[i] = g[1 + i - 1]
      BY <1>3, <1>6, <2>1, SubSeqProperties
    <3>2. QED
      BY <1>3, <3>1
  <2>3. \A i \in 1..n : p[i] = q[i]
    BY <1>3, <1>4, <1>5, <1>6, <2>2
  <2>4. p = q
    BY <1>5, <2>2, <2>3, SeqEqual
  <2>5. QED
    BY <1>1, <1>2, <1>6, <2>1, <2>4
<1>7. CASE ~(n <= Len(g))
  <2>1. PICK m : m = n - Len(g)
    OBVIOUS
  <2>2. m \in 0..Len(h) /\ n = Len(g) + m
    BY <1>3, <1>7, <2>1
  <2>3. PICK q : q = SubSeq(h, 1, m)
    OBVIOUS
  <2>4. q \in Seq(FrameRow) /\ Len(q) = m /\ \A i \in 1..m : q[i] = h[i]
    <3>1. q \in Seq(FrameRow) /\ Len(q) = (IF 1 <= m THEN m - 1 + 1 ELSE 0) /\ \A i \in 1..(m - 1 + 1) : q[i] = h[1 + i - 1]
      BY <1>3, <2>2, <2>3, SubSeqProperties
    <3>2. QED
      BY <1>3, <2>2, <3>1
  <2>5. PICK r : r = g \o q
    OBVIOUS
  <2>6. /\ r \in Seq(FrameRow) /\ Len(r) = Len(g) + m
        /\ \A i \in 1..(Len(g) + m) : r[i] = IF i <= Len(g) THEN g[i] ELSE q[i - Len(g)]
    <3>1. /\ g \o q \in Seq(FrameRow) /\ Len(g \o q) = Len(g) + Len(q)
          /\ \A i \in 1..(Len(g) + Len(q)) : (g \o q)[i] = IF i <= Len(g) THEN g[i] ELSE q[i - Len(g)]
      BY <2>4, ConcatProperties
    <3>2. QED
      BY <2>4, <2>5, <3>1, Zenon
  <2>7. ASSUME NEW i \in 1..n PROVE p[i] = r[i]
    <3>1. CASE i <= Len(g)
      BY <1>3, <1>4, <1>5, <2>2, <2>6, <3>1
    <3>2. CASE ~(i <= Len(g))
      <4>1. i - Len(g) \in 1..m /\ i \in 1..(Len(g) + Len(h)) /\ i \in 1..(Len(g) + m)
        BY <1>3, <2>2, <3>2
      <4>2. p[i] = h[i - Len(g)] /\ r[i] = q[i - Len(g)]
        BY <1>4, <1>5, <2>6, <3>2, <4>1
      <4>3. QED
        BY <2>4, <4>1, <4>2
    <3>3. QED
      BY <3>1, <3>2
  <2>8. p = r
    BY <1>5, <2>2, <2>6, <2>7, SeqEqual
  <2>9. QED
    BY <1>1, <1>2, <1>7, <2>1, <2>2, <2>3, <2>5, <2>8
<1>8. QED
  BY <1>6, <1>7

LEMMA JoinThree ==
  ASSUME NEW o \in Seq(FrameRow), NEW g \in Seq(FrameRow), NEW h \in Seq(FrameRow)
  PROVE  o \o (g \o h) = (o \o g) \o h
BY ConcatAssociative

\* One after the other.
LEMMA BothLead ==
  ASSUME NEW g, NEW h, NEW a, NEW b, NEW d, Leads(g, a, b), Leads(h, b, d)
  PROVE  Leads(g \o h, a, d)
<1>1. /\ g \in Seq(FrameRow) /\ h \in Seq(FrameRow) /\ a \in Coding /\ b \in Coding /\ d \in Coding
      /\ (a.told => b.told) /\ (b.told => d.told)
  BY DEF Leads
<1>2. g \o h \in Seq(FrameRow) /\ Len(g \o h) = Len(g) + Len(h) /\ Len(g) \in Nat /\ Len(h) \in Nat
  BY <1>1, ConcatProperties
<1>3. ASSUME NEW o, Amounts(o, a) PROVE Amounts(o \o (g \o h), d) /\ o \in Seq(FrameRow) /\ Amounts(o \o g, b)
  <2>1. o \in Seq(FrameRow)
    BY <1>3 DEF Amounts
  <2>2. Amounts(o \o g, b)
    BY <1>3, Zenon DEF Leads
  <2>3. Amounts((o \o g) \o h, d)
    BY <2>2, Zenon DEF Leads
  <2>4. o \o (g \o h) = (o \o g) \o h
    BY <1>1, <2>1, JoinThree
  <2>5. QED
    BY <2>1, <2>2, <2>3, <2>4, Zenon
<1>4. ASSUME NEW o, Amounts(o, a), NEW n \in 0..(Len(g) + Len(h))
      PROVE  \E c \in Coding : Amounts(o \o SubSeq(g \o h, 1, n), c) /\ (c.told => d.told)
  <2>1. CASE n <= Len(g)
    <3>1. n \in 0..Len(g) /\ SubSeq(g \o h, 1, n) = SubSeq(g, 1, n)
      BY <1>1, <1>2, <2>1, PartOfTwo
    <3>2. PICK c \in Coding : Amounts(o \o SubSeq(g, 1, n), c) /\ (c.told => b.told)
      BY <1>4, <3>1, Zenon DEF Leads
    <3>3. QED
      BY <1>1, <3>1, <3>2, Zenon
  <2>2. CASE ~(n <= Len(g))
    <3>1. PICK m : m = n - Len(g)
      OBVIOUS
    <3>2. m \in 0..Len(h) /\ SubSeq(g \o h, 1, n) = g \o SubSeq(h, 1, m)
      BY <1>1, <1>2, <2>2, <3>1, PartOfTwo
    <3>3. PICK c \in Coding : Amounts((o \o g) \o SubSeq(h, 1, m), c) /\ (c.told => d.told)
      BY <1>3, <1>4, <3>2, Zenon DEF Leads
    <3>4. SubSeq(h, 1, m) \in Seq(FrameRow)
      BY <1>1, <3>2, SubSeqProperties
    <3>5. o \o SubSeq(g \o h, 1, n) = (o \o g) \o SubSeq(h, 1, m)
      <4>1. PICK k : k = SubSeq(h, 1, m)
        OBVIOUS
      <4>2. o \in Seq(FrameRow) /\ g \in Seq(FrameRow) /\ k \in Seq(FrameRow)
        BY <1>1, <1>3, <1>4, <3>4, <4>1
      <4>3. o \o (g \o k) = (o \o g) \o k
        BY <4>2, JoinThree
      <4>4. QED
        BY <3>2, <4>1, <4>3, Zenon
    <3>6. QED
      BY <3>3, <3>5, Zenon
  <2>3. QED
    BY <2>1, <2>2
<1>5. QED
  BY <1>1, <1>2, <1>3, <1>4, Zenon DEF Leads

LEMMA MaybeLeads ==
  ASSUME NEW q \in BOOLEAN, NEW g, NEW a \in Coding, NEW b, q => Leads(g, a, b), ~q => a = b
  PROVE  Leads(F!If(q, g), a, b)
<1>1. CASE q
  BY <1>1, Zenon DEF F!If
<1>2. CASE ~q
  <2>1. F!If(q, g) = <<>>
    BY <1>2 DEF F!If
  <2>2. QED
    BY <1>2, <2>1, NothingLeads, Zenon
<1>3. QED
  BY <1>1, <1>2

LEMMA OneLeads ==
  ASSUME NEW a \in Coding, NEW b \in Coding, NEW t \in FrameTypes, NEW id \in FrameIds,
         NEW f, f = [type |-> t, id |-> id], Legal(a, f), Turns(a, f, b)
  PROVE  Leads(F!Frame(t, id), a, b)
<1>1. f \in FrameRow
  BY DEF FrameRow
<1>2. F!Frame(t, id) = <<f>>
  BY DEF F!Frame
<1>3. QED
  BY <1>1, <1>2, FrameLeads, Zenon

LEMMA MaybeOneLeads ==
  ASSUME NEW q \in BOOLEAN, NEW a \in Coding, NEW b \in Coding, NEW t \in FrameTypes, NEW id \in FrameIds,
         NEW f, f = [type |-> t, id |-> id], q => Legal(a, f) /\ Turns(a, f, b), ~q => a = b
  PROVE  Leads(F!If(q, F!Frame(t, id)), a, b)
<1>1. PICK g : g = F!Frame(t, id)
  OBVIOUS
<1>2. ASSUME q PROVE Leads(g, a, b)
  <2>1. Legal(a, f) /\ Turns(a, f, b)
    BY <1>2
  <2>2. QED
    BY <1>1, <2>1, OneLeads, Zenon
<1>3. Leads(F!If(q, g), a, b)
  BY <1>2, MaybeLeads, Zenon
<1>4. QED
  BY <1>1, <1>3, Zenon

LEMMA CloseThinkLeads ==
  ASSUME NEW a \in Coding, NEW e, e.think = a.think, NEW b, b = [a EXCEPT !.think = FALSE]
  PROVE  b \in Coding /\ Leads(F!CloseThink(e), a, b)
<1>1. b \in Coding /\ a.think \in BOOLEAN /\ (~a.think => a = b)
  BY DEF Coding
<1>2. PICK f : f = [type |-> "reasoning-end", id |-> ""]
  OBVIOUS
<1>3. a.think => Legal(a, f) /\ Turns(a, f, b)
  BY <1>2 DEF Legal, Turns, Coding, StopFrame
<1>4. "reasoning-end" \in FrameTypes /\ "" \in FrameIds
  BY DEF FrameTypes, FrameIds
<1>5. PICK q \in BOOLEAN : q = a.think
  BY <1>1
<1>6. q => Legal(a, f) /\ Turns(a, f, b)
  BY <1>3, <1>5, Zenon
<1>7. ~q => a = b
  BY <1>1, <1>5, Zenon
<1>8. Leads(F!If(q, F!Frame("reasoning-end", "")), a, b)
  BY <1>1, <1>2, <1>4, <1>6, <1>7, MaybeOneLeads, Zenon
<1>9. F!CloseThink(e) = F!If(q, F!Frame("reasoning-end", ""))
  BY <1>5, Zenon DEF F!CloseThink
<1>10. QED
  BY <1>1, <1>8, <1>9, Zenon

LEMMA CloseTextLeads ==
  ASSUME NEW a \in Coding, NEW e, e.text = a.text, NEW b, b = [a EXCEPT !.text = FALSE]
  PROVE  b \in Coding /\ Leads(F!CloseText(e), a, b)
<1>1. b \in Coding /\ a.text \in BOOLEAN /\ (~a.text => a = b)
  BY DEF Coding
<1>2. PICK f : f = [type |-> "text-end", id |-> ""]
  OBVIOUS
<1>3. a.text => Legal(a, f) /\ Turns(a, f, b)
  BY <1>2 DEF Legal, Turns, Coding, StopFrame
<1>4. "text-end" \in FrameTypes /\ "" \in FrameIds
  BY DEF FrameTypes, FrameIds
<1>5. PICK q \in BOOLEAN : q = a.text
  BY <1>1
<1>6. q => Legal(a, f) /\ Turns(a, f, b)
  BY <1>3, <1>5, Zenon
<1>7. ~q => a = b
  BY <1>1, <1>5, Zenon
<1>8. Leads(F!If(q, F!Frame("text-end", "")), a, b)
  BY <1>1, <1>2, <1>4, <1>6, <1>7, MaybeOneLeads, Zenon
<1>9. F!CloseText(e) = F!If(q, F!Frame("text-end", ""))
  BY <1>5, Zenon DEF F!CloseText
<1>10. QED
  BY <1>1, <1>8, <1>9, Zenon

LEMMA StartCallLeads ==
  ASSUME NEW a \in Coding, a.started = enc.started, NEW id \in ToolCalls, NEW b, b = [a EXCEPT !.started = @ \cup {id}]
  PROVE  b \in Coding /\ Leads(F!WriteToolCallStart(id), a, b)
<1>1. b \in Coding /\ (id \in a.started => a = b)
  BY DEF Coding
<1>2. PICK f : f = [type |-> "tool-call-start", id |-> id]
  OBVIOUS
<1>3. id \notin a.started => Legal(a, f) /\ Turns(a, f, b)
  BY <1>2 DEF Legal, Turns, Coding, StopFrame
<1>4. "tool-call-start" \in FrameTypes /\ id \in FrameIds
  BY DEF FrameTypes, FrameIds
<1>5. PICK q \in BOOLEAN : q = (id \notin a.started)
  OBVIOUS
<1>6. q => Legal(a, f) /\ Turns(a, f, b)
  BY <1>3, <1>5, Zenon
<1>7. ~q => a = b
  BY <1>1, <1>5, Zenon
<1>8. Leads(F!If(q, F!Frame("tool-call-start", id)), a, b)
  BY <1>1, <1>2, <1>4, <1>6, <1>7, MaybeOneLeads, Zenon
<1>9. F!WriteToolCallStart(id) = F!If(q, F!Frame("tool-call-start", id))
  BY <1>5, Zenon DEF F!WriteToolCallStart
<1>10. QED
  BY <1>1, <1>8, <1>9, Zenon

\* A frame that changes nothing a description tells.
LEMMA PlainLeads ==
  ASSUME NEW a \in Coding, NEW t \in FrameTypes, NEW id \in FrameIds,
         t \notin {"text-start", "text-end", "reasoning-start", "reasoning-end", "tool-call-start", "error", "status", "finish"},
         t = "text-delta" => a.text, t = "reasoning-delta" => a.think,
         t \in {"tool-call-delta", "tool-call-end"} => id \in a.started
  PROVE  Leads(F!Frame(t, id), a, a)
<1>1. PICK f : f = [type |-> t, id |-> id]
  OBVIOUS
<1>2. Legal(a, f)
  BY <1>1 DEF Legal
<1>3. Turns(a, f, a)
  BY <1>1 DEF Turns, StopFrame
<1>4. QED
  BY <1>1, <1>2, <1>3, OneLeads

\* Frames without a finish among them are well formed whatever the run's end.
LEMMA Unfinished ==
  ASSUME NEW c, Amounts(out', c)
  PROVE  (F!StreamWellFormed /\ F!CutOffIsShown)'
<1>1. PICK o : o = out'
  OBVIOUS
<1>2. o \in Seq(FrameRow) /\ \A i \in DOMAIN o : Proper(o, i)
  BY <1>1 DEF Amounts
<1>3. \A i \in DOMAIN o : o[i].type # "finish"
  BY <1>2 DEF Proper
<1>4. ~F!Finished'
  <2>1. o # <<>> => Len(o) \in DOMAIN o
    BY <1>2
  <2>2. o # <<>> => F!Last(o).type # "finish"
    BY <1>3, <2>1 DEF F!Last
  <2>3. QED
    BY <1>1, <2>2 DEF F!Finished
<1>5. F!StreamWellFormed'
  BY <1>1, <1>2, <1>3, <1>4 DEF F!StreamWellFormed, Proper
<1>6. F!CutOffIsShown'
  BY <1>4 DEF F!CutOffIsShown
<1>7. QED
  BY <1>5, <1>6

LEMMA EncoderFacts ==
  ASSUME NEW e \in EncoderState
  PROVE  /\ e.think \in BOOLEAN /\ e.text \in BOOLEAN /\ e.started \in SUBSET ToolCalls /\ e.streamed \in SUBSET ToolCalls
         /\ e.finish \in {"", "error", "other", "length"} /\ e.step \in {"none", "stop", "length", "continued"}
         /\ e.over \in BOOLEAN /\ e.err \in BOOLEAN /\ e.closed \in {"no", "yes", "blind", "early"}
         /\ CodedBy(e) \in Coding /\ CodedBy(e).think = e.think /\ CodedBy(e).text = e.text
         /\ CodedBy(e).started = e.started /\ (CodedBy(e).cut <=> e.step = "length" \/ e.finish = "length")
         /\ (CodedBy(e).told <=> e.finish # "")
BY DEF EncoderState, CodedBy, Coding

LEMMA FramesStart ==
  ASSUME F!FramesInit
  PROVE  FramesInv
<1>1. enc = F!Encoder /\ out = <<>> /\ ends = {} /\ outcome = "running" /\ emitted = 0
  BY DEF F!FramesInit
<1>2. enc \in EncoderState /\ enc.streamed = {} /\ enc.started = {} /\ enc.finish = "" /\ enc.closed = "no"
      /\ enc.think = FALSE /\ enc.text = FALSE /\ enc.step = "none" /\ enc.err = FALSE
      /\ SawOnly(enc)
  BY <1>1 DEF F!Encoder, EncoderState, SawOnly
<1>3. <<>> \in Seq(FrameRow) /\ DOMAIN <<>> = {} /\ Len(<<>>) = 0
  OBVIOUS
<1>4. \A t, id : Tally(<<>>, t, id) = 0
  <2>1. ASSUME NEW t, NEW id PROVE Tally(<<>>, t, id) = 0
    <3>1. {i \in 1..0 : <<>>[i].type = t /\ <<>>[i].id = id} = {}
      OBVIOUS
    <3>2. QED
      BY <1>3, <3>1, FS_EmptySet, FramesSizeIs DEF Tally, F!Number
  <2>2. QED
    BY <2>1
<1>5. Amounts(out, CodedBy(enc))
  <2>1. PICK c : c = CodedBy(enc)
    OBVIOUS
  <2>2. c \in Coding /\ c.think = FALSE /\ c.text = FALSE /\ c.started = {} /\ ~c.cut
    BY <1>2, <2>1, EncoderFacts
  <2>3. Amounts(<<>>, c)
    <3>1. 0 = 0 + (IF c.text THEN 1 ELSE 0) /\ 0 = 0 + (IF c.think THEN 1 ELSE 0)
      BY <2>2
    <3>2. /\ Tally(<<>>, "text-start", "") = Tally(<<>>, "text-end", "") + (IF c.text THEN 1 ELSE 0)
          /\ Tally(<<>>, "reasoning-start", "") = Tally(<<>>, "reasoning-end", "") + (IF c.think THEN 1 ELSE 0)
      BY <1>4, <3>1, Zenon
    <3>3. \A id \in ToolCalls : Tally(<<>>, "tool-call-start", id) = IF id \in c.started THEN 1 ELSE 0
      BY <1>4, <2>2, Zenon
    <3>4. \A i \in DOMAIN <<>> : Proper(<<>>, i) /\ FALSE
      BY <1>3, Zenon
    <3>5. QED
      BY <1>3, <2>2, <3>2, <3>3, <3>4, Zenon DEF Amounts
  <2>4. QED
    BY <1>1, <2>1, <2>3
<1>6. CodedBy(enc) \in Coding /\ ~CodedBy(enc).told
  BY <1>2, EncoderFacts
<1>7. F!StreamWellFormed /\ F!CutOffIsShown
  BY <1>1, <1>3 DEF F!StreamWellFormed, F!CutOffIsShown, F!Finished
<1>8. 0 \in 0..MaxFrameEvents
  BY FramesAssumption
<1>9. ends \subseteq F!Endings /\ outcome \in {"running"} \cup F!Endings /\ outcome # "done"
  BY <1>1
<1>10. QED
  BY <1>1, <1>2, <1>3, <1>5, <1>6, <1>7, <1>8, <1>9, Zenon DEF FramesInv

LEMMA WrittenFacts ==
  ASSUME NEW w, NEW x, NEW m \in Nat, NEW n \in Nat, w = [out |-> x, err |-> m < n]
  PROVE  w.out = x /\ w.err \in BOOLEAN /\ (w.err <=> m < n)
<1>1. w.out = x
  OBVIOUS
<1>2. CASE m < n
  <2>1. w.err = TRUE
    BY <1>2
  <2>2. QED
    BY <1>1, <1>2, <2>1, Zenon
<1>3. CASE ~(m < n)
  <2>1. (m < n) = FALSE
    BY <1>3
  <2>2. w = [out |-> x, err |-> FALSE]
    BY <2>1, Zenon
  <2>3. w.err = FALSE
    BY <2>2
  <2>4. QED
    BY <1>1, <1>3, <2>3, Zenon
<1>4. QED
  BY <1>2, <1>3

\* One emission: all of the frames are written, or a first part of them and never more.
LEMMA EmitStep ==
  ASSUME FramesInv, NEW g, NEW next \in EncoderState, F!Emit(g, next),
         next.streamed \subseteq next.started, next.closed = "no",
         SawOnly(next), NEW b, Leads(g, CodedBy(enc), b), Weaker(b, CodedBy(next))
  PROVE  FramesInv'
<1>1. /\ ~enc.err /\ enc.closed = "no" /\ emitted < MaxFrameEvents /\ emitted' = emitted + 1 /\ outcome' = outcome /\ ends' = ends
      /\ \E w \in F!Written(g) : out' = w.out /\ enc' = [next EXCEPT !.err = w.err]
  BY DEF F!Emit
<1>2. /\ enc \in EncoderState /\ emitted \in 0..MaxFrameEvents /\ outcome \in {"running"} \cup F!Endings
      /\ ends \subseteq F!Endings /\ (outcome = "done" => "done" \in ends)
      /\ Amounts(out, CodedBy(enc)) /\ MaxFrameEvents \in Nat
  BY <1>1, FramesAssumption DEF FramesInv
<1>3. PICK w \in F!Written(g) : out' = w.out /\ enc' = [next EXCEPT !.err = w.err]
  BY <1>1
<1>4. PICK n \in 0..Len(g) : w = [out |-> out \o SubSeq(g, 1, n), err |-> n < Len(g)]
  BY <1>1, <1>3, Zenon DEF F!Written
<1>5. PICK o : o = out'
  OBVIOUS
<1>6. o = out \o SubSeq(g, 1, n) /\ w.err \in BOOLEAN /\ (w.err <=> n < Len(g))
  <2>1. w.out = out \o SubSeq(g, 1, n) /\ w.err \in BOOLEAN /\ (w.err <=> n < Len(g))
    <3>1. n \in Nat /\ Len(g) \in Nat
      BY DEF Leads
    <3>2. QED
      BY <1>4, <3>1, WrittenFacts, Zenon
  <2>2. QED
    BY <1>3, <1>5, <2>1, Zenon
<1>7. PICK e : e = enc'
  OBVIOUS
<1>8. /\ e \in EncoderState /\ e.streamed \subseteq e.started /\ e.closed = "no" /\ e.finish = next.finish
      /\ e.over = next.over /\ (e.err <=> n < Len(g)) /\ CodedBy(e) = CodedBy(next)
  BY <1>3, <1>6, <1>7 DEF EncoderState, CodedBy
<1>9. b.told => e.finish # ""
  <2>1. b.told => CodedBy(next).told
    BY DEF Weaker
  <2>2. QED
    BY <1>8, <2>1, EncoderFacts
<1>10. PICK c \in Coding : Amounts(o, c) /\ (c.told => b.told)
  BY <1>2, <1>6, Zenon DEF Leads
<1>11. ~e.err => Amounts(o, CodedBy(e))
  <2>1. ASSUME ~e.err PROVE Amounts(o, CodedBy(e))
    <3>1. g \in Seq(FrameRow) /\ Amounts(out \o g, b)
      BY <1>2, Zenon DEF Leads
    <3>2. n = Len(g)
      BY <1>8, <2>1, <3>1
    <3>3. SubSeq(g, 1, n) = g
      BY <3>1, <3>2, NoPart, Zenon
    <3>4. Amounts(o, b)
      BY <1>6, <3>1, <3>3, Zenon
    <3>5. QED
      BY <1>8, <3>4, AmountsLess, Zenon
  <2>2. QED
    BY <2>1
<1>12. Amounts(out', c)
  BY <1>5, <1>10
<1>13. (F!StreamWellFormed /\ F!CutOffIsShown)'
  BY <1>12, Unfinished
<1>14. o \in Seq(FrameRow)
  BY <1>10 DEF Amounts
<1>15. emitted' \in 0..MaxFrameEvents
  BY <1>1, <1>2
<1>16. \E d \in Coding : Amounts(out', d) /\ (d.told => enc'.finish # "")
  BY <1>7, <1>9, <1>10, <1>12, Zenon
<1>17. ~enc'.err => Amounts(out', CodedBy(enc)')
  <2>1. CodedBy(enc)' = CodedBy(e)
    BY <1>7 DEF CodedBy
  <2>2. QED
    BY <1>5, <1>7, <1>11, <2>1, Zenon
<1>18. /\ enc' \in EncoderState /\ enc'.streamed \subseteq enc'.started /\ out' \in Seq(FrameRow) /\ enc'.closed = "no"
       /\ outcome' \in {"running"} \cup F!Endings /\ ends' \subseteq F!Endings /\ (outcome' = "done" => "done" \in ends')
  BY <1>1, <1>2, <1>5, <1>7, <1>8, <1>14
<1>19. SawOnly(enc)'
  BY <1>1, <1>7, <1>8 DEF SawOnly
<1>20. QED
  BY <1>13, <1>15, <1>16, <1>17, <1>18, <1>19 DEF FramesInv

\* What an emission starts from.
LEMMA EmitFacts ==
  ASSUME FramesInv, NEW g, NEW next, F!Emit(g, next)
  PROVE  /\ enc \in EncoderState /\ CodedBy(enc) \in Coding /\ enc.streamed \subseteq enc.started /\ enc.closed = "no"
         /\ SawOnly(enc)
<1>1. enc \in EncoderState /\ enc.streamed \subseteq enc.started /\ enc.closed = "no"
      /\ SawOnly(enc)
  BY DEF FramesInv, F!Emit
<1>2. QED
  BY <1>1, EncoderFacts

LEMMA KindThinkingStep ==
  ASSUME FramesInv, F!KindThinking
  PROVE  FramesInv'
<1> DEFINE start == F!If(~enc.think, F!Frame("reasoning-start", ""))
           delta == F!Frame("reasoning-delta", "")
           next == [enc EXCEPT !.think = TRUE]
<1>1. F!Emit(start \o delta, next)
  BY DEF F!KindThinking
<1>2. /\ enc \in EncoderState /\ CodedBy(enc) \in Coding /\ enc.streamed \subseteq enc.started /\ enc.closed = "no"
      /\ SawOnly(enc)
  BY <1>1, EmitFacts
<1>3. PICK a : a = CodedBy(enc)
  OBVIOUS
<1>4. PICK b : b = [a EXCEPT !.think = TRUE]
  OBVIOUS
<1>5. a \in Coding /\ b \in Coding /\ b.think /\ a.think = enc.think /\ enc.think \in BOOLEAN /\ (a.think => a = b)
  <2>1. a \in Coding /\ a.think = enc.think /\ enc.think \in BOOLEAN
    BY <1>2, <1>3, EncoderFacts
  <2>2. b \in Coding /\ b.think /\ (a.think => a = b)
    BY <1>4, <2>1 DEF Coding
  <2>3. QED
    BY <2>1, <2>2
<1>6. PICK f : f = [type |-> "reasoning-start", id |-> ""]
  OBVIOUS
<1>7. ~a.think => Legal(a, f) /\ Turns(a, f, b)
  BY <1>4, <1>5, <1>6 DEF Legal, Turns, Coding, StopFrame
<1>8. "reasoning-start" \in FrameTypes /\ "reasoning-delta" \in FrameTypes /\ "" \in FrameIds
  BY DEF FrameTypes, FrameIds
<1>9. Leads(start, a, b)
  <2>1. PICK q \in BOOLEAN : q = ~enc.think
    BY <1>5
  <2>2. (q => Legal(a, f) /\ Turns(a, f, b)) /\ (~q => a = b)
    BY <1>5, <1>7, <2>1
  <2>3. Leads(F!If(q, F!Frame("reasoning-start", "")), a, b)
    BY <1>5, <1>6, <1>8, <2>2, MaybeOneLeads, Zenon
  <2>4. QED
    BY <2>1, <2>3, Zenon
<1>10. Leads(delta, b, b)
  BY <1>5, <1>8, PlainLeads
<1>11. Leads(start \o delta, a, b)
  BY <1>9, <1>10, BothLead, Zenon
<1>12. /\ next \in EncoderState /\ next.streamed = enc.streamed /\ next.started = enc.started /\ next.closed = enc.closed
       /\ SawOnly(next) /\ Weaker(b, CodedBy(next))
  BY <1>2, <1>3, <1>4, <1>5 DEF EncoderState, SawOnly, Weaker, CodedBy, Coding
<1> HIDE DEF start, delta, next
<1>13. QED
  BY <1>1, <1>2, <1>3, <1>11, <1>12, EmitStep

LEMMA KindTextStep ==
  ASSUME FramesInv, F!KindText
  PROVE  FramesInv'
<1> DEFINE start == F!If(~enc.text, F!Frame("text-start", ""))
           delta == F!Frame("text-delta", "")
           next == [enc EXCEPT !.think = FALSE, !.text = TRUE]
<1>1. F!Emit((F!CloseThink(enc) \o start) \o delta, next)
  BY DEF F!KindText
<1>2. /\ enc \in EncoderState /\ CodedBy(enc) \in Coding /\ enc.streamed \subseteq enc.started /\ enc.closed = "no"
      /\ SawOnly(enc)
  BY <1>1, EmitFacts
<1>3. PICK a : a = CodedBy(enc)
  OBVIOUS
<1>4. PICK b : b = [a EXCEPT !.think = FALSE]
  OBVIOUS
<1>5. PICK c : c = [b EXCEPT !.text = TRUE]
  OBVIOUS
<1>6. a \in Coding /\ a.think = enc.think /\ a.text = enc.text /\ enc.text \in BOOLEAN
  BY <1>2, <1>3, EncoderFacts
<1>7. b \in Coding /\ Leads(F!CloseThink(enc), a, b)
  BY <1>4, <1>6, CloseThinkLeads, Zenon
<1>8. c \in Coding /\ c.text /\ b.text = enc.text /\ (b.text => b = c)
  BY <1>4, <1>5, <1>6 DEF Coding
<1>9. PICK f : f = [type |-> "text-start", id |-> ""]
  OBVIOUS
<1>10. ~b.text => Legal(b, f) /\ Turns(b, f, c)
  BY <1>5, <1>7, <1>8, <1>9 DEF Legal, Turns, Coding, StopFrame
<1>11. "text-start" \in FrameTypes /\ "text-delta" \in FrameTypes /\ "" \in FrameIds
  BY DEF FrameTypes, FrameIds
<1>12. Leads(start, b, c)
  <2>1. PICK q \in BOOLEAN : q = ~enc.text
    BY <1>6
  <2>2. (q => Legal(b, f) /\ Turns(b, f, c)) /\ (~q => b = c)
    BY <1>8, <1>10, <2>1
  <2>3. Leads(F!If(q, F!Frame("text-start", "")), b, c)
    BY <1>7, <1>8, <1>9, <1>11, <2>2, MaybeOneLeads, Zenon
  <2>4. QED
    BY <2>1, <2>3, Zenon
<1>13. Leads(delta, c, c)
  BY <1>8, <1>11, PlainLeads
<1>14. Leads((F!CloseThink(enc) \o start) \o delta, a, c)
  BY <1>7, <1>12, <1>13, BothLead, Zenon
<1>15. /\ next \in EncoderState /\ next.streamed = enc.streamed /\ next.started = enc.started /\ next.closed = enc.closed
       /\ SawOnly(next)
  BY <1>2 DEF EncoderState, SawOnly
<1>16. Weaker(c, CodedBy(next))
  BY <1>2, <1>3, <1>4, <1>5, <1>6 DEF EncoderState, Weaker, CodedBy, Coding
<1> HIDE DEF start, delta, next
<1>17. QED
  BY <1>1, <1>2, <1>3, <1>14, <1>15, <1>16, EmitStep

LEMMA KindStepFinishStep ==
  ASSUME FramesInv, NEW reason \in {"stop", "length", "continued"}, F!KindStepFinish(reason)
  PROVE  FramesInv'
<1> DEFINE next == [enc EXCEPT !.step = reason]
<1>1. F!Emit(F!Frame("finish-step", reason), next)
  BY DEF F!KindStepFinish
<1>2. /\ enc \in EncoderState /\ CodedBy(enc) \in Coding /\ enc.streamed \subseteq enc.started /\ enc.closed = "no"
      /\ SawOnly(enc)
  BY <1>1, EmitFacts
<1>3. PICK a : a = CodedBy(enc)
  OBVIOUS
<1>4. PICK b : b = [a EXCEPT !.cut = a.cut \/ reason = "length"]
  OBVIOUS
<1>5. PICK f : f = [type |-> "finish-step", id |-> reason]
  OBVIOUS
<1>6. a \in Coding /\ b \in Coding
  BY <1>2, <1>3, <1>4 DEF Coding
<1>7. Legal(a, f) /\ Turns(a, f, b)
  BY <1>4, <1>5, <1>6 DEF Legal, Turns, Coding, StopFrame, CutFrame
<1>8. "finish-step" \in FrameTypes /\ reason \in FrameIds
  BY DEF FrameTypes, FrameIds
<1>9. Leads(F!Frame("finish-step", reason), a, b)
  BY <1>5, <1>6, <1>7, <1>8, OneLeads, Zenon
<1>10. /\ next \in EncoderState /\ next.streamed = enc.streamed /\ next.started = enc.started /\ next.closed = enc.closed
       /\ SawOnly(next)
  BY <1>2 DEF EncoderState, SawOnly
<1>11. Weaker(b, CodedBy(next))
  BY <1>2, <1>3, <1>4 DEF EncoderState, Weaker, CodedBy, Coding
<1> HIDE DEF next
<1>12. QED
  BY <1>1, <1>2, <1>3, <1>9, <1>10, <1>11, EmitStep

LEMMA KindToolArgsStep ==
  ASSUME FramesInv, NEW id \in ToolCalls, F!KindToolArgs(id)
  PROVE  FramesInv'
<1> DEFINE next == [enc EXCEPT !.started = @ \cup {id}, !.streamed = @ \cup {id}]
<1>1. F!Emit(F!WriteToolCallStart(id) \o F!Frame("tool-call-delta", id), next)
  BY DEF F!KindToolArgs
<1>2. /\ enc \in EncoderState /\ CodedBy(enc) \in Coding /\ enc.streamed \subseteq enc.started /\ enc.closed = "no"
      /\ SawOnly(enc)
  BY <1>1, EmitFacts
<1>3. PICK a : a = CodedBy(enc)
  OBVIOUS
<1>4. PICK b : b = [a EXCEPT !.started = @ \cup {id}]
  OBVIOUS
<1>5. a \in Coding /\ a.started = enc.started
  BY <1>2, <1>3, EncoderFacts
<1>6. b \in Coding /\ Leads(F!WriteToolCallStart(id), a, b)
  BY <1>4, <1>5, StartCallLeads, Zenon
<1>7. id \in b.started
  BY <1>4, <1>5 DEF Coding
<1>8. "tool-call-delta" \in FrameTypes /\ id \in FrameIds
  BY DEF FrameTypes, FrameIds
<1>9. Leads(F!Frame("tool-call-delta", id), b, b)
  BY <1>6, <1>7, <1>8, PlainLeads
<1>10. Leads(F!WriteToolCallStart(id) \o F!Frame("tool-call-delta", id), a, b)
  BY <1>6, <1>9, BothLead, Zenon
<1>11. /\ next \in EncoderState /\ next.streamed \subseteq next.started /\ next.closed = enc.closed
       /\ SawOnly(next)
  BY <1>2 DEF EncoderState, SawOnly
<1>12. Weaker(b, CodedBy(next))
  BY <1>2, <1>3, <1>4 DEF EncoderState, Weaker, CodedBy, Coding
<1> HIDE DEF next
<1>13. QED
  BY <1>1, <1>2, <1>3, <1>10, <1>11, <1>12, EmitStep

LEMMA KindToolUseStep ==
  ASSUME FramesInv, NEW id \in ToolCalls, F!KindToolUse(id)
  PROVE  FramesInv'
<1> DEFINE input == F!If(id \notin enc.streamed, F!Frame("tool-call-delta", id))
           ending == F!Frame("tool-call-end", id)
           next == [enc EXCEPT !.started = @ \cup {id}]
<1>1. F!Emit((F!WriteToolCallStart(id) \o input) \o ending, next)
  BY DEF F!KindToolUse
<1>2. /\ enc \in EncoderState /\ CodedBy(enc) \in Coding /\ enc.streamed \subseteq enc.started /\ enc.closed = "no"
      /\ SawOnly(enc)
  BY <1>1, EmitFacts
<1>3. PICK a : a = CodedBy(enc)
  OBVIOUS
<1>4. PICK b : b = [a EXCEPT !.started = @ \cup {id}]
  OBVIOUS
<1>5. a \in Coding /\ a.started = enc.started
  BY <1>2, <1>3, EncoderFacts
<1>6. b \in Coding /\ Leads(F!WriteToolCallStart(id), a, b)
  BY <1>4, <1>5, StartCallLeads, Zenon
<1>7. id \in b.started
  BY <1>4, <1>5 DEF Coding
<1>8. "tool-call-delta" \in FrameTypes /\ "tool-call-end" \in FrameTypes /\ id \in FrameIds
  BY DEF FrameTypes, FrameIds
<1>9. Leads(F!Frame("tool-call-delta", id), b, b) /\ Leads(ending, b, b)
  BY <1>6, <1>7, <1>8, PlainLeads
<1>10. Leads(input, b, b)
  <2>1. PICK q \in BOOLEAN : q = (id \notin enc.streamed)
    OBVIOUS
  <2>2. Leads(F!If(q, F!Frame("tool-call-delta", id)), b, b)
    BY <1>6, <1>9, MaybeLeads, Zenon
  <2>3. QED
    BY <2>1, <2>2, Zenon
<1>11. Leads((F!WriteToolCallStart(id) \o input) \o ending, a, b)
  BY <1>6, <1>9, <1>10, BothLead, Zenon
<1>12. /\ next \in EncoderState /\ next.streamed \subseteq next.started /\ next.closed = enc.closed
       /\ SawOnly(next)
  BY <1>2 DEF EncoderState, SawOnly
<1>13. Weaker(b, CodedBy(next))
  BY <1>2, <1>3, <1>4 DEF EncoderState, Weaker, CodedBy, Coding
<1> HIDE DEF input, ending, next
<1>14. QED
  BY <1>1, <1>2, <1>3, <1>11, <1>12, <1>13, EmitStep

LEMMA KindDataStep ==
  ASSUME FramesInv, F!KindData
  PROVE  FramesInv'
<1>1. F!Emit(F!Frame("data", ""), enc)
  BY DEF F!KindData
<1>2. /\ enc \in EncoderState /\ CodedBy(enc) \in Coding /\ enc.streamed \subseteq enc.started /\ enc.closed = "no"
      /\ SawOnly(enc)
  BY <1>1, EmitFacts
<1>3. PICK a : a = CodedBy(enc)
  OBVIOUS
<1>4. "data" \in FrameTypes /\ "" \in FrameIds
  BY DEF FrameTypes, FrameIds
<1>5. Leads(F!Frame("data", ""), a, a)
  BY <1>2, <1>3, <1>4, PlainLeads
<1>6. Weaker(a, a)
  BY <1>2, <1>3 DEF Weaker
<1>7. QED
  BY <1>1, <1>2, <1>3, <1>5, <1>6, EmitStep

LEMMA KindDoneStep ==
  ASSUME FramesInv, F!KindDone
  PROVE  FramesInv'
<1> DEFINE next == [enc EXCEPT !.over = TRUE]
<1>1. F!Emit(F!Frame("status", "done"), next) /\ "done" \in ends
  BY DEF F!KindDone
<1>2. /\ enc \in EncoderState /\ CodedBy(enc) \in Coding /\ enc.streamed \subseteq enc.started /\ enc.closed = "no"
      /\ SawOnly(enc)
  BY <1>1, EmitFacts
<1>3. PICK a : a = CodedBy(enc)
  OBVIOUS
<1>4. PICK f : f = [type |-> "status", id |-> "done"]
  OBVIOUS
<1>5. a \in Coding /\ Legal(a, f) /\ Turns(a, f, a)
  BY <1>2, <1>3, <1>4 DEF Legal, Turns, Coding, StopFrame, CutFrame
<1>6. "status" \in FrameTypes /\ "done" \in FrameIds
  BY DEF FrameTypes, FrameIds
<1>7. Leads(F!Frame("status", "done"), a, a)
  BY <1>4, <1>5, <1>6, OneLeads, Zenon
<1>8. /\ next \in EncoderState /\ next.streamed \subseteq next.started /\ next.closed = "no"
      /\ SawOnly(next)
  BY <1>1, <1>2 DEF EncoderState, SawOnly
<1>9. Weaker(a, CodedBy(next))
  BY <1>2, <1>3 DEF EncoderState, Weaker, CodedBy, Coding
<1> HIDE DEF next
<1>10. QED
  BY <1>1, <1>3, <1>7, <1>8, <1>9, EmitStep

LEMMA KindErrorStep ==
  ASSUME FramesInv, F!KindError
  PROVE  FramesInv'
<1> DEFINE next == [enc EXCEPT !.finish = IF enc.step = "length" THEN "length" ELSE "error"]
<1>1. F!Emit(F!Frame("error", "") \o F!Frame("status", "failed"), next) /\ "failed" \in ends
  BY DEF F!KindError
<1>2. /\ enc \in EncoderState /\ CodedBy(enc) \in Coding /\ enc.streamed \subseteq enc.started /\ enc.closed = "no" /\ SawOnly(enc)
  BY <1>1, EmitFacts
<1>3. PICK a : a = CodedBy(enc)
  OBVIOUS
<1>4. PICK b : b = [a EXCEPT !.told = TRUE]
  OBVIOUS
<1>5. PICK f : f = [type |-> "error", id |-> ""]
  OBVIOUS
<1>6. PICK h : h = [type |-> "status", id |-> "failed"]
  OBVIOUS
<1>7. a \in Coding /\ b \in Coding
  BY <1>2, <1>3, <1>4 DEF Coding
<1>8. Legal(a, f) /\ Turns(a, f, b)
  BY <1>4, <1>5, <1>7 DEF Legal, Turns, Coding, StopFrame, CutFrame
<1>9. Legal(b, h) /\ Turns(b, h, b)
  BY <1>4, <1>6, <1>7 DEF Legal, Turns, Coding, StopFrame, CutFrame
<1>10. "error" \in FrameTypes /\ "status" \in FrameTypes /\ "" \in FrameIds /\ "failed" \in FrameIds
  BY DEF FrameTypes, FrameIds
<1>11. Leads(F!Frame("error", ""), a, b)
  BY <1>5, <1>7, <1>8, <1>10, OneLeads, Zenon
<1>12. Leads(F!Frame("status", "failed"), b, b)
  BY <1>6, <1>7, <1>9, <1>10, OneLeads, Zenon
<1>13. Leads(F!Frame("error", "") \o F!Frame("status", "failed"), a, b)
  BY <1>11, <1>12, BothLead, Zenon
<1>14. /\ next \in EncoderState /\ next.streamed \subseteq next.started /\ next.closed = "no"
       /\ SawOnly(next)
  BY <1>1, <1>2 DEF EncoderState, SawOnly
<1>15. Weaker(b, CodedBy(next))
  BY <1>2, <1>3, <1>4 DEF EncoderState, Weaker, CodedBy, Coding
<1> HIDE DEF next
<1>16. QED
  BY <1>1, <1>3, <1>13, <1>14, <1>15, EmitStep

LEMMA KindCancelledStep ==
  ASSUME FramesInv, F!KindCancelled
  PROVE  FramesInv'
<1> DEFINE next == [enc EXCEPT !.think = FALSE, !.text = FALSE, !.finish = "other"]
<1>1. F!Emit((F!CloseThink(enc) \o F!CloseText(enc)) \o F!Frame("status", "cancelled"), next) /\ "cancelled" \in ends
  BY DEF F!KindCancelled
<1>2. /\ enc \in EncoderState /\ CodedBy(enc) \in Coding /\ enc.streamed \subseteq enc.started /\ enc.closed = "no"
      /\ SawOnly(enc)
  BY <1>1, EmitFacts
<1>3. PICK a : a = CodedBy(enc)
  OBVIOUS
<1>4. PICK b : b = [a EXCEPT !.think = FALSE]
  OBVIOUS
<1>5. PICK c : c = [b EXCEPT !.text = FALSE]
  OBVIOUS
<1>6. PICK d : d = [c EXCEPT !.told = TRUE]
  OBVIOUS
<1>7. a \in Coding /\ a.think = enc.think /\ a.text = enc.text /\ b.text = enc.text
  <2>1. a \in Coding /\ a.think = enc.think /\ a.text = enc.text
    BY <1>2, <1>3, EncoderFacts
  <2>2. b.text = a.text
    BY <1>4, <2>1 DEF Coding
  <2>3. QED
    BY <2>1, <2>2
<1>8. b \in Coding /\ Leads(F!CloseThink(enc), a, b)
  BY <1>4, <1>7, CloseThinkLeads, Zenon
<1>9. c \in Coding /\ Leads(F!CloseText(enc), b, c)
  BY <1>5, <1>7, <1>8, CloseTextLeads, Zenon
<1>10. PICK f : f = StopFrame
  OBVIOUS
<1>11. d \in Coding /\ Legal(c, f) /\ Turns(c, f, d)
  BY <1>6, <1>9, <1>10 DEF Legal, Turns, Coding, StopFrame, CutFrame
<1>12. "status" \in FrameTypes /\ "cancelled" \in FrameIds
  BY DEF FrameTypes, FrameIds
<1>13. Leads(F!Frame("status", "cancelled"), c, d)
  BY <1>9, <1>10, <1>11, <1>12, OneLeads, Zenon DEF StopFrame
<1>14. Leads((F!CloseThink(enc) \o F!CloseText(enc)) \o F!Frame("status", "cancelled"), a, d)
  BY <1>8, <1>9, <1>13, BothLead, Zenon
<1>15. /\ next \in EncoderState /\ next.streamed \subseteq next.started /\ next.closed = "no"
       /\ SawOnly(next)
  BY <1>1, <1>2 DEF EncoderState, SawOnly
<1>16. Weaker(d, CodedBy(next))
  BY <1>2, <1>3, <1>4, <1>5, <1>6 DEF EncoderState, Weaker, CodedBy, Coding
<1> HIDE DEF next
<1>17. QED
  BY <1>1, <1>3, <1>14, <1>15, <1>16, EmitStep

\* What moves the run and not the stream: what a finished stream said stays true.
LEMMA RunMoves ==
  ASSUME FramesInv, enc' = enc, out' = out, emitted' = emitted, ends \subseteq ends', ends' \subseteq F!Endings,
         outcome' \in {"running"} \cup F!Endings, outcome # "running" => outcome' = outcome,
         outcome' = "done" => "done" \in ends'
  PROVE  FramesInv'
<1>1. /\ enc \in EncoderState /\ enc.streamed \subseteq enc.started /\ out \in Seq(FrameRow) /\ emitted \in 0..MaxFrameEvents
      /\ SawOnly(enc) /\ F!StreamWellFormed /\ F!CutOffIsShown
  BY DEF FramesInv
<1>2. SawOnly(enc)'
  BY <1>1 DEF SawOnly
<1>3. F!StreamWellFormed'
  BY <1>1 DEF F!StreamWellFormed, F!Finished
<1>4. F!CutOffIsShown'
  <2>1. (outcome = "failed" => outcome' = "failed") /\ (outcome = "cancelled" => outcome' = "cancelled")
    OBVIOUS
  <2>2. F!Finished' <=> F!Finished
    BY DEF F!Finished
  <2>3. F!Last(out)' = F!Last(out)
    OBVIOUS
  <2>4. QED
    BY <1>1, <2>1, <2>2, <2>3 DEF F!CutOffIsShown
<1>5. CodedBy(enc)' = CodedBy(enc)
  BY DEF CodedBy
<1>6. enc.closed = "no" =>
        /\ \E c \in Coding : Amounts(out, c) /\ (c.told => enc.finish # "")
        /\ ~enc.err => Amounts(out, CodedBy(enc))
  BY DEF FramesInv
<1>7. QED
  BY <1>1, <1>2, <1>3, <1>4, <1>5, <1>6 DEF FramesInv

LEMMA RunStep ==
  ASSUME FramesInv, (\E s \in F!Endings : F!RunEnds(s) \/ F!RowSettles(s)) \/ F!CancelOvertakes
  PROVE  FramesInv'
<1>1. ends \subseteq F!Endings /\ outcome \in {"running"} \cup F!Endings /\ (outcome = "done" => "done" \in ends)
  BY DEF FramesInv
<1>2. CASE \E s \in F!Endings : F!RunEnds(s)
  <2>1. PICK s \in F!Endings : F!RunEnds(s)
    BY <1>2
  <2>2. /\ enc' = enc /\ out' = out /\ emitted' = emitted /\ outcome' = outcome /\ ends = {} /\ ends' = {s}
    BY <2>1 DEF F!RunEnds
  <2>3. QED
    BY <1>1, <2>2, RunMoves
<1>3. CASE \E s \in F!Endings : F!RowSettles(s)
  <2>1. PICK s \in F!Endings : F!RowSettles(s)
    BY <1>3
  <2>2. /\ enc' = enc /\ out' = out /\ emitted' = emitted /\ ends' = ends /\ outcome = "running" /\ outcome' = s
        /\ (s = "done" => "done" \in ends)
    BY <2>1 DEF F!RowSettles
  <2>3. QED
    BY <1>1, <2>2, RunMoves
<1>4. CASE F!CancelOvertakes
  <2>1. /\ enc' = enc /\ out' = out /\ emitted' = emitted /\ outcome' = outcome
        /\ ends = {"failed"} /\ ends' = {"failed", "cancelled"}
    BY <1>4 DEF F!CancelOvertakes
  <2>2. ends' \subseteq F!Endings
    BY <2>1 DEF F!Endings
  <2>3. QED
    BY <1>1, <2>1, <2>2, RunMoves
<1>5. QED
  BY <1>2, <1>3, <1>4

FinishedBy(p, o, f) ==
  /\ F!Last(p) = f /\ p \in Seq(FrameRow)
  /\ \A i \in DOMAIN o : i \in DOMAIN p /\ p[i] = o[i]
  /\ \A i \in DOMAIN p : i \in DOMAIN o \/ p[i] = f

\* A finish behind frames whose blocks are all closed.
LEMMA FinishedWell ==
  ASSUME NEW o, NEW c, Amounts(o, c), ~c.text, ~c.think,
         NEW reason \in FrameIds, NEW f, f = [type |-> "finish", id |-> reason], out' = Append(o, f)
  PROVE  F!StreamWellFormed' /\ FinishedBy(out', o, f)
<1>1. PICK p : p = out'
  OBVIOUS
<1>2. o \in Seq(FrameRow) /\ f \in FrameRow /\ p = Append(o, f)
  BY <1>1 DEF Amounts, FrameRow, FrameTypes
<1>3. /\ p \in Seq(FrameRow) /\ Len(o) \in Nat /\ Len(p) = Len(o) + 1 /\ p[Len(p)] = f
      /\ DOMAIN o = 1..Len(o) /\ DOMAIN p = 1..(Len(o) + 1)
      /\ \A i \in DOMAIN o : i \in DOMAIN p /\ p[i] = o[i] /\ i \in 0..Len(o)
      /\ \A i \in DOMAIN p : i \in DOMAIN o \/ i = Len(p)
  BY <1>2, AppendAt
<1>4. ASSUME NEW t, NEW id, t # "finish"
      PROVE  (\A n \in 0..Len(o) : F!Number(p, t, id, n) = F!Number(o, t, id, n)) /\ Tally(p, t, id) = Tally(o, t, id)
  <2>1. OneMore(p, o, f, t, id)
    BY <1>2, NumberAppend, Zenon
  <2>2. ~(f.type = t /\ f.id = id)
    BY <1>4
  <2>3. QED
    BY <2>1, <2>2, Zenon DEF OneMore
<1>5. f.type = "finish" /\ f.id = reason
  OBVIOUS
<1>6. \A i \in DOMAIN o : Proper(o, i)
  BY DEF Amounts
<1>7. ASSUME NEW i \in DOMAIN p
      PROVE  /\ p[i].type = "text-delta" => F!Number(p, "text-start", "", i) = F!Number(p, "text-end", "", i) + 1
             /\ p[i].type = "reasoning-delta" => F!Number(p, "reasoning-start", "", i) = F!Number(p, "reasoning-end", "", i) + 1
             /\ p[i].type \in {"tool-call-delta", "tool-call-end"} => F!Number(p, "tool-call-start", p[i].id, i) = 1
             /\ p[i].type = "finish" => i = Len(p)
  <2>1. CASE i \in DOMAIN o
    <3>1. p[i] = o[i] /\ i \in 0..Len(o) /\ Proper(o, i)
      BY <1>3, <1>6, <2>1
    <3>2. /\ F!Number(p, "text-start", "", i) = F!Number(o, "text-start", "", i)
          /\ F!Number(p, "text-end", "", i) = F!Number(o, "text-end", "", i)
          /\ F!Number(p, "reasoning-start", "", i) = F!Number(o, "reasoning-start", "", i)
          /\ F!Number(p, "reasoning-end", "", i) = F!Number(o, "reasoning-end", "", i)
          /\ F!Number(p, "tool-call-start", p[i].id, i) = F!Number(o, "tool-call-start", p[i].id, i)
      BY <1>4, <3>1
    <3>3. QED
      BY <3>1, <3>2 DEF Proper
  <2>2. CASE i = Len(p)
    BY <1>3, <1>5, <2>2
  <2>3. QED
    BY <1>3, <2>1, <2>2
<1>8. /\ Tally(o, "text-start", "") = Tally(o, "text-end", "") + (IF c.text THEN 1 ELSE 0)
      /\ Tally(o, "reasoning-start", "") = Tally(o, "reasoning-end", "") + (IF c.think THEN 1 ELSE 0)
  BY DEF Amounts
<1>9. /\ Tally(p, "text-start", "") = Tally(p, "text-end", "") + 0
      /\ Tally(p, "reasoning-start", "") = Tally(p, "reasoning-end", "") + 0
  BY <1>4, <1>8
<1>10. Tally(p, "text-end", "") \in Nat /\ Tally(p, "reasoning-end", "") \in Nat
  <2>1. OneMore(p, o, f, "text-end", "") /\ OneMore(p, o, f, "reasoning-end", "")
    BY <1>2, NumberAppend, Zenon
  <2>2. Tally(o, "text-end", "") \in Nat /\ Tally(o, "reasoning-end", "") \in Nat
    BY <2>1, Zenon DEF OneMore
  <2>3. QED
    BY <1>4, <2>2
<1>11. /\ F!Number(p, "text-start", "", Len(p)) = F!Number(p, "text-end", "", Len(p))
       /\ F!Number(p, "reasoning-start", "", Len(p)) = F!Number(p, "reasoning-end", "", Len(p))
  <2>1. \A x, y : y \in Nat /\ x = y + 0 => x = y
    OBVIOUS
  <2>2. Tally(p, "text-start", "") = Tally(p, "text-end", "") /\ Tally(p, "reasoning-start", "") = Tally(p, "reasoning-end", "")
    BY <1>9, <1>10, <2>1, Zenon
  <2>3. QED
    BY <2>2, Zenon DEF Tally
<1>12. F!StreamWellFormed'
  BY <1>1, <1>7, <1>11, Zenon DEF F!StreamWellFormed
<1>13. F!Last(p) = f
  BY <1>3, Zenon DEF F!Last
<1>14. FinishedBy(p, o, f)
  BY <1>3, <1>13 DEF FinishedBy
<1>15. QED
  BY <1>1, <1>12, <1>14

\* What a stream is settled with.
LEMMA SettlementFacts ==
  ASSUME FramesInv, NEW f \in F!Settlements
  PROVE  /\ f.reason \in FrameIds /\ f.read \in {"yes", "blind", "early"}
         /\ f.reason = "stop" => (f.read = "yes" => "done" \in ends) /\ enc.finish = ""
         /\ f.reason = "error" => "failed" \in ends \/ outcome = "failed"
         /\ f.reason = "other" => "cancelled" \in ends \/ outcome = "cancelled"
         /\ f.reason = "length" => "failed" \in ends /\ enc.finish = "length"
<1>1. /\ enc.finish \in {"", "error", "other", "length"} /\ enc.over \in BOOLEAN
      /\ outcome \in {"running", "done", "failed", "cancelled"} /\ (outcome = "done" => "done" \in ends)
      /\ (enc.finish \in {"error", "length"} => "failed" \in ends) /\ (enc.finish = "other" => "cancelled" \in ends)
      /\ (enc.over => "done" \in ends)
  BY DEF FramesInv, EncoderState, SawOnly, F!Endings
<1>2. CASE enc.finish # ""
  <2>1. f = [reason |-> enc.finish, read |-> "yes"]
    BY <1>2 DEF F!Settlements
  <2>2. QED
    BY <1>1, <1>2, <2>1 DEF FrameIds
<1>3. CASE enc.finish = ""
  <2>1. PICK r : r = F!ReasonFor(outcome)
    OBVIOUS
  <2>2. /\ outcome = "failed" => r = "error"
        /\ outcome = "cancelled" => r = "other"
        /\ outcome \notin {"failed", "cancelled"} => r = "stop"
    BY <2>1 DEF F!ReasonFor
  <2>3. F!ReasonFor("unknown") = "stop"
    BY DEF F!ReasonFor
  <2>4. PICK d : d = IF outcome = "running" /\ ~enc.over THEN "early" ELSE "yes"
    OBVIOUS
  <2>5. f = [reason |-> r, read |-> d] \/ f = [reason |-> "stop", read |-> "blind"]
    BY <1>3, <2>1, <2>3, <2>4 DEF F!Settlements
  <2>6. d \in {"early", "yes"} /\ (d = "yes" => outcome # "running" \/ enc.over)
    BY <2>4
  <2>7. r = "stop" /\ d = "yes" => "done" \in ends
    BY <1>1, <2>2, <2>6
  <2>8. (f.reason = r /\ f.read = d) \/ (f.reason = "stop" /\ f.read = "blind")
    BY <2>5
  <2>9. "error" \in FrameIds /\ "other" \in FrameIds /\ "stop" \in FrameIds
    BY DEF FrameIds
  <2>10. r \in {"error", "other", "stop"} /\ (r = "error" => outcome = "failed") /\ (r = "other" => outcome = "cancelled")
    BY <1>1, <2>2
  <2>11. QED
    BY <1>3, <2>6, <2>7, <2>8, <2>9, <2>10
<1>4. QED
  BY <1>2, <1>3

\* The finish frame is the last one, behind closed blocks and with the run's own
\* reason, unless the writing failed first.
LEMMA FinishStep ==
  ASSUME FramesInv, F!Finish
  PROVE  FramesInv'
<1> DEFINE closing == F!CloseThink(enc) \o F!CloseText(enc)
<1>1. /\ enc.closed = "no" /\ outcome' = outcome /\ ends' = ends /\ emitted' = emitted
      /\ \E f \in F!Settlements, w \in F!Written(closing) :
           /\ out' = IF w.err THEN w.out ELSE w.out \o F!Frame("finish", f.reason)
           /\ enc' = [enc EXCEPT !.think = FALSE, !.err = w.err, !.closed = f.read]
  BY DEF F!Finish
<1>2. PICK f \in F!Settlements, w \in F!Written(closing) :
        /\ out' = IF w.err THEN w.out ELSE w.out \o F!Frame("finish", f.reason)
        /\ enc' = [enc EXCEPT !.think = FALSE, !.err = w.err, !.closed = f.read]
  BY <1>1
<1>3. /\ f.reason \in FrameIds /\ f.read \in {"yes", "blind", "early"}
      /\ f.reason = "stop" => (f.read = "yes" => "done" \in ends) /\ enc.finish = ""
      /\ f.reason = "error" => "failed" \in ends \/ outcome = "failed"
      /\ f.reason = "other" => "cancelled" \in ends \/ outcome = "cancelled"
      /\ f.reason = "length" => "failed" \in ends /\ enc.finish = "length"
  BY <1>1, SettlementFacts
<1>4. /\ enc \in EncoderState /\ enc.streamed \subseteq enc.started /\ out \in Seq(FrameRow)
      /\ ends \subseteq F!Endings /\ outcome \in {"running"} \cup F!Endings /\ emitted \in 0..MaxFrameEvents
      /\ (outcome = "done" => "done" \in ends) /\ SawOnly(enc)
      /\ \E c \in Coding : Amounts(out, c)
      /\ ~enc.err => Amounts(out, CodedBy(enc))
  BY <1>1 DEF FramesInv
<1>5. PICK a : a = CodedBy(enc)
  OBVIOUS
<1>6. PICK b : b = [a EXCEPT !.think = FALSE]
  OBVIOUS
<1>7. PICK c : c = [b EXCEPT !.text = FALSE]
  OBVIOUS
<1>8. a \in Coding /\ a.think = enc.think /\ a.text = enc.text
  BY <1>4, <1>5, EncoderFacts
<1>9. b.text = enc.text
  BY <1>6, <1>8 DEF Coding
<1>10. b \in Coding /\ Leads(F!CloseThink(enc), a, b)
  BY <1>6, <1>8, CloseThinkLeads, Zenon
<1>11. c \in Coding /\ Leads(F!CloseText(enc), b, c)
  BY <1>7, <1>9, <1>10, CloseTextLeads, Zenon
<1>12. Leads(closing, a, c)
  BY <1>10, <1>11, BothLead, Zenon
<1>13. ~c.think /\ ~c.text /\ c.cut = a.cut /\ c.told = a.told
  BY <1>6, <1>7, <1>8 DEF Coding
<1>14. closing \in Seq(FrameRow) /\ Len(closing) \in Nat
  BY <1>12 DEF Leads
<1>15. w.err \in BOOLEAN
  <2>1. CASE enc.err
    <3>1. w = [out |-> out, err |-> TRUE]
      BY <1>2, <2>1, Zenon DEF F!Written
    <3>2. w.err = TRUE
      BY <3>1
    <3>3. QED
      BY <3>2
  <2>2. CASE ~enc.err
    <3>1. PICK n \in 0..Len(closing) : w = [out |-> out \o SubSeq(closing, 1, n), err |-> n < Len(closing)]
      BY <1>2, <2>2, Zenon DEF F!Written
    <3>2. n \in Nat
      BY <1>14
    <3>3. QED
      BY <1>14, <3>1, <3>2, WrittenFacts, Zenon
  <2>3. QED
    BY <2>1, <2>2
<1> HIDE DEF closing
<1>16. /\ enc' \in EncoderState /\ enc'.streamed \subseteq enc'.started /\ enc'.finish = enc.finish /\ enc'.closed = f.read
       /\ enc'.closed # "no" /\ emitted' \in 0..MaxFrameEvents /\ SawOnly(enc)'
       /\ outcome' \in {"running"} \cup F!Endings /\ ends' \subseteq F!Endings /\ (outcome' = "done" => "done" \in ends')
  BY <1>1, <1>2, <1>3, <1>4, <1>15 DEF EncoderState, SawOnly
<1>17. CASE w.err
  <2>1. out' = w.out
    BY <1>2, <1>17
  <2>2. \E d \in Coding : Amounts(w.out, d)
    <3>1. CASE enc.err
      <4>1. w = [out |-> out, err |-> TRUE]
        BY <1>2, <3>1 DEF F!Written
      <4>2. w.out = out
        BY <4>1
      <4>3. QED
        BY <1>4, <4>2, Zenon
    <3>2. CASE ~enc.err
      <4>1. PICK n \in 0..Len(closing) : w = [out |-> out \o SubSeq(closing, 1, n), err |-> n < Len(closing)]
        BY <1>2, <3>2, Zenon DEF F!Written
      <4>2. w.out = out \o SubSeq(closing, 1, n)
        <5>1. n \in Nat
          BY <1>14
        <5>2. QED
          BY <1>14, <4>1, <5>1, WrittenFacts, Zenon
      <4>3. Amounts(out, a)
        BY <1>4, <1>5, <3>2
      <4>4. \E d \in Coding : Amounts(out \o SubSeq(closing, 1, n), d)
        BY <1>12, <4>3, Zenon DEF Leads
      <4>5. QED
        BY <4>2, <4>4, Zenon
    <3>3. QED
      BY <3>1, <3>2
  <2>3. PICK d \in Coding : Amounts(out', d)
    BY <2>1, <2>2, Zenon
  <2>4. (F!StreamWellFormed /\ F!CutOffIsShown)'
    BY <2>3, Unfinished
  <2>5. out' \in Seq(FrameRow)
    BY <2>3 DEF Amounts
  <2>6. QED
    BY <1>16, <2>4, <2>5 DEF FramesInv
<1>18. CASE ~w.err
  <2>1. out' = w.out \o F!Frame("finish", f.reason)
    BY <1>2, <1>18
  <2>2. ~enc.err
    BY <1>2, <1>18 DEF F!Written
  <2>3. Amounts(out, a)
    BY <1>4, <1>5, <2>2
  <2>4. w.out = out \o closing
    <3>1. PICK n \in 0..Len(closing) : w = [out |-> out \o SubSeq(closing, 1, n), err |-> n < Len(closing)]
      BY <1>2, <2>2, Zenon DEF F!Written
    <3>2. w.out = out \o SubSeq(closing, 1, n) /\ ~(n < Len(closing))
      <4>1. n \in Nat
        BY <1>14
      <4>2. QED
        BY <1>14, <1>18, <3>1, <4>1, WrittenFacts, Zenon
    <3>3. n = Len(closing)
      BY <1>14, <3>2
    <3>4. SubSeq(closing, 1, n) = closing
      BY <1>14, <3>3, NoPart, Zenon
    <3>5. QED
      BY <3>2, <3>4, Zenon
  <2>5. PICK o : o = w.out
    OBVIOUS
  <2>6. Amounts(o, c)
    BY <1>12, <2>3, <2>4, <2>5, Zenon DEF Leads
  <2>7. PICK last : last = [type |-> "finish", id |-> f.reason]
    OBVIOUS
  <2>8. o \o <<last>> = Append(o, last)
    <3>1. \A p \in Seq(FrameRow) : \A x \in FrameRow : p \o <<x>> = Append(p, x)
      OBVIOUS
    <3>2. o \in Seq(FrameRow)
      BY <2>6 DEF Amounts
    <3>3. last \in FrameRow
      BY <1>3, <2>7 DEF FrameRow, FrameTypes
    <3>4. QED
      BY <3>1, <3>2, <3>3, Zenon
  <2>9. out' = Append(o, last)
    BY <2>1, <2>5, <2>7, <2>8, Zenon DEF F!Frame
  <2>10. F!StreamWellFormed' /\ FinishedBy(out', o, last)
    <3>1. PICK reason \in FrameIds : reason = f.reason
      BY <1>3
    <3>2. last = [type |-> "finish", id |-> reason]
      BY <2>7, <3>1, Zenon
    <3>3. ~c.text /\ ~c.think
      BY <1>13
    <3>4. QED
      BY <2>6, <2>9, <3>2, <3>3, FinishedWell, Zenon
  <2>11. last.id = f.reason /\ last.type = "finish"
    BY <2>7
  <2>12. /\ c.cut => \E i \in DOMAIN o : o[i] = CutFrame
         /\ \A i \in DOMAIN o : o[i].type = "error" \/ o[i] = StopFrame => c.told
    BY <2>6 DEF Amounts
  <2>13. /\ f.reason = "stop" => (enc'.closed = "yes" => "done" \in ends')
         /\ f.reason = "error" => "failed" \in ends' \/ outcome' = "failed"
         /\ f.reason = "other" => "cancelled" \in ends' \/ outcome' = "cancelled"
    BY <1>1, <1>3, <1>16
  <2>14. f.reason = "length" => "failed" \in ends' /\ \E i \in DOMAIN out' : out'[i] = CutFrame
    <3>1. f.reason = "length" => c.cut
      BY <1>3, <1>4, <1>5, <1>13, EncoderFacts
    <3>2. QED
      BY <1>1, <1>3, <2>10, <2>12, <3>1 DEF FinishedBy
  <2>15. f.reason = "stop" => \A i \in DOMAIN out' : out'[i].type # "error" /\ out'[i] # StopFrame
    <3>1. f.reason = "stop" => ~c.told
      BY <1>3, <1>4, <1>5, <1>13, EncoderFacts
    <3>2. last.type # "error" /\ last # StopFrame
      BY <2>7 DEF StopFrame
    <3>3. QED
      BY <2>10, <2>12, <3>1, <3>2 DEF FinishedBy
  <2>16. F!CutOffIsShown'
    <3>1. F!Last(out)' = F!Last(out')
      OBVIOUS
    <3>2. QED
      BY <2>10, <2>11, <2>13, <2>14, <2>15, Zenon DEF FinishedBy, F!CutOffIsShown, CutFrame, StopFrame
  <2>17. QED
    BY <1>16, <2>10, <2>16 DEF FinishedBy, FramesInv
<1>19. QED
  BY <1>17, <1>18

LEMMA FramesStep ==
  ASSUME FramesInv, F!FramesNext \/ UNCHANGED frameVars
  PROVE  FramesInv'
<1>1. CASE UNCHANGED frameVars
  <2>1. enc' = enc /\ out' = out /\ ends' = ends /\ outcome' = outcome /\ emitted' = emitted
    BY <1>1 DEF frameVars
  <2>2. ends \subseteq F!Endings /\ outcome \in {"running"} \cup F!Endings /\ (outcome = "done" => "done" \in ends)
    BY DEF FramesInv
  <2>3. QED
    BY <2>1, <2>2, RunMoves
<1>2. CASE F!KindThinking
  BY <1>2, KindThinkingStep
<1>3. CASE F!KindText
  BY <1>3, KindTextStep
<1>4. CASE F!KindData
  BY <1>4, KindDataStep
<1>5. CASE F!KindError
  BY <1>5, KindErrorStep
<1>6. CASE F!KindCancelled
  BY <1>6, KindCancelledStep
<1>7. CASE F!Finish
  BY <1>7, FinishStep
<1>8. CASE \E r \in {"stop", "length", "continued"} : F!KindStepFinish(r)
  BY <1>8, KindStepFinishStep
<1>9. CASE \E id \in ToolCalls : F!KindToolArgs(id) \/ F!KindToolUse(id)
  BY <1>9, KindToolArgsStep, KindToolUseStep
<1>10. CASE (\E s \in F!Endings : F!RunEnds(s) \/ F!RowSettles(s)) \/ F!CancelOvertakes
  BY <1>10, RunStep
<1>11. CASE F!KindDone
  BY <1>11, KindDoneStep
<1>12. QED
  BY <1>1, <1>2, <1>3, <1>4, <1>5, <1>6, <1>7, <1>8, <1>9, <1>10, <1>11 DEF F!FramesNext

LEMMA FramesInvSound == FramesInv => FramesSound
<1>1. ASSUME FramesInv PROVE F!FramesTypeOK
  <2>1. /\ enc \in EncoderState /\ enc.streamed \subseteq enc.started
        /\ ends \subseteq F!Endings /\ outcome \in {"running"} \cup F!Endings /\ emitted \in 0..MaxFrameEvents
    BY <1>1 DEF FramesInv
  <2>2. emitted <= MaxFrameEvents
    BY <2>1, FramesAssumption
  <2>3. QED
    BY <2>1, <2>2 DEF F!FramesTypeOK, EncoderState
<1>2. QED
  BY <1>1 DEF FramesInv, FramesSound

(***************************************************************************)
(* FramesSound of MCRecord: what an attached client decodes is well formed *)
(* at every moment, and the finish says how the run ended, in whatever     *)
(* order the terminal event, the settling of the row and the finish come,  *)
(* but where the status could not be read or was read while the run went   *)
(* on: the encoder of emitter.go and settleFinish of attach.go, for every  *)
(* set of tool calls and any number of events.                             *)
(***************************************************************************)
THEOREM FramesAreSound == Spec => []FramesSound
<1>1. Init => FramesInv
  <2>1. Init => F!FramesInit
    BY DEF Init
  <2>2. QED
    BY <2>1, FramesStart
<1>2. FramesInv /\ [Next]_vars => FramesInv'
  <2>1. ASSUME [Next]_vars
        PROVE  F!FramesNext \/ UNCHANGED frameVars
    BY <2>1 DEF Next, Only, vars
  <2>2. QED
    BY <2>1, FramesStep
<1>3. FramesInv => FramesSound
  BY FramesInvSound
<1>4. QED
  BY <1>1, <1>2, <1>3, PTL DEF Spec
=============================================================================
