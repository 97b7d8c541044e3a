-------------------------- MODULE LiveStreamProofs --------------------------
(***************************************************************************)
(* Proofs about LiveStream, for every number of publishers, clients, runs  *)
(* and frames and every size of the ring and of the channels.              *)
(***************************************************************************)
EXTENDS LiveStream, FiniteSetTheorems, WellFoundedInduction, TLAPS

-----------------------------------------------------------------------------
(* The inductive invariant.                                                *)

\* A frame carries the run it was published for.
Known(f) == f \in Frame /\ f.id \in DOMAIN sent /\ sent[f.id] = f.run

\* A frame of the present numbering: offsets restart only when nobody follows
\* and nothing is retained, so they keep one distance from the ids.
Current(f) == Known(f) /\ f.id = f.off + (Len(sent) - next)

\* The ring ends with the newest frame and skips none.
RingIsTail ==
  /\ next <= Len(sent) /\ Len(sent) <= MaxFrames /\ Len(ring) <= next
  /\ \A i \in DOMAIN ring : Current(ring[i]) /\ ring[i].off = (next - Len(ring)) + i

\* A frame is in the ring until it is accounted as gone.
RetainedOrGone == DOMAIN sent \subseteq gone \cup IdsOf(ring)

\* The subscribers are the clients between subscribing and unsubscribing, and
\* frames are sent and queued for them only.
SubscribersFollow ==
  /\ \A c \in Clients : c \in subs <=> pc[c] \notin {"idle", "closed"}
  /\ \A c \in Clients : c \notin subs => chan[c] = <<>>
  /\ \A c \in Clients : \A i \in DOMAIN chan[c] : Current(chan[c][i])
  /\ \A p \in Publishers :
       \/ pub[p] = Idle
       \/ pub[p].todo # {} /\ pub[p].todo \subseteq subs /\ Current(pub[p].frame)

\* What a client was sent: frames of its run, in order.
ViewOrdered(c) ==
  /\ \A i \in DOMAIN view[c] : Known(view[c][i]) /\ view[c][i].run \in {crun[c], Session}
  /\ \A i, j \in DOMAIN view[c] : i < j => view[c][i].id < view[c][j].id

\* A subscriber's frames are of the present numbering and end at maxOffset.
ViewCurrent(c) ==
  /\ \A i \in DOMAIN view[c] : Current(view[c][i])
  /\ maxOff[c] = IF view[c] = <<>> THEN 0 ELSE view[c][Len(view[c])].off

Views ==
  \A c \in Clients :
    /\ ViewOrdered(c)
    /\ c \in subs => ViewCurrent(c)
    /\ pc[c] \in {"idle", "lifecycle", "catchUp"} => view[c] = <<>> /\ maxOff[c] = 0
    /\ pc[c] \in {"check", "follow"} => Holes(c) \subseteq gone

StreamInv == TypeOK /\ RingIsTail /\ RetainedOrGone /\ SubscribersFollow /\ Views

-----------------------------------------------------------------------------
(* Sets of indices in increasing order.                                    *)

\* Every inhabited set of naturals has a least element.
LEMMA LeastNatural ==
  ASSUME NEW T, T \subseteq Nat, T # {}
  PROVE  \E n \in T : \A m \in T : n <= m
<1>1. PICK n \in T : \A m \in T : ~ (<<m, n>> \in OpToRel(<, Nat))
  BY WFMin, NatLessThanWellFounded, Zenon
<1>2. ASSUME NEW a \in Nat, NEW b \in Nat, a < b
      PROVE <<a, b>> \in OpToRel(<, Nat)
  <2>1. <<a,b>> \in {ss \in Nat \X Nat : ss[1] < ss[2]}
    BY <1>2
  <2>2. OpToRel(<, Nat) = {ss \in Nat \X Nat : ss[1] < ss[2]}
    BY Zenon DEF OpToRel
  <2>3. QED BY <2>1, <2>2, Zenon
<1>3. \A m \in T : ~(m < n)
  BY <1>1, <1>2, Zenon
<1>4. QED
  BY <1>3

\* An increasing enumeration of I.
Enumerates(f, I) ==
  /\ f \in [1..Cardinality(I) -> I]
  /\ \A j, k \in 1..Cardinality(I) : j < k => f[j] < f[k]

\* Every set of indices has an increasing enumeration.
LEMMA EnumerationExists ==
  ASSUME NEW n \in Nat, NEW I \in SUBSET (1..n)
  PROVE  \E f : Enumerates(f, I)
<1> DEFINE Bad == {m \in Nat : \E J \in SUBSET (1..m) : ~ \E f : Enumerates(f, J)}
<1>1. SUFFICES ASSUME Bad # {} PROVE FALSE
  OBVIOUS
<1>2. PICK m \in Bad : \A k \in Bad : m <= k
  <2>1. Bad \subseteq Nat
    OBVIOUS
  <2>2. QED
    BY <1>1, <2>1, LeastNatural
<1>3. PICK J \in SUBSET (1..m) : ~ \E f : Enumerates(f, J)
  OBVIOUS
<1>4. m \in Nat /\ J \subseteq Nat
  BY <1>3
<1>5. J # {}
  <2>1. CASE J = {}
    <3>1. Cardinality(J) = 0
      BY <2>1, FS_EmptySet
    <3>2. [k \in 1..0 |-> k] \in [1..0 -> J]
      BY <2>1
    <3>3. Enumerates([k \in 1..0 |-> k], J)
      BY <3>1, <3>2 DEF Enumerates
    <3>4. QED
      BY <1>3, <3>3
  <2>2. QED
    BY <2>1
<1>6. m > 0 /\ m - 1 \in Nat /\ m - 1 \notin Bad
  <2>1. m # 0
    <3>1. PICK j \in J : TRUE
      BY <1>5
    <3>2. j \in 1..m
      BY <1>3
    <3>3. QED
      BY <1>4, <3>2
  <2>2. m > 0 /\ m - 1 \in Nat /\ ~(m <= m - 1)
    BY <1>4, <2>1
  <2> HIDE DEF Bad
  <2>3. QED
    BY <1>2, <2>2
<1>7. J \ {m} \in SUBSET (1..(m - 1))
  BY <1>3, <1>4, <1>6
<1>8. PICK f : Enumerates(f, J \ {m})
  BY <1>6, <1>7
<1>9. m \in J
  BY <1>3, <1>8
<1> DEFINE c == Cardinality(J \ {m})
           g == [k \in 1..(c + 1) |-> IF k <= c THEN f[k] ELSE m]
<1>10. c \in Nat /\ Cardinality(J) = c + 1
  <2>1. IsFiniteSet(1..m)
    BY <1>4, FS_Interval
  <2>2. IsFiniteSet(J)
    BY <2>1, <1>3, FS_Subset
  <2>3. QED
    <3>1. IsFiniteSet(J \ {m}) /\ c = Cardinality(J) - 1
      BY <1>9, <2>2, FS_RemoveElement
    <3>2. Cardinality(J) \in Nat /\ c \in Nat
      BY <2>2, <3>1, FS_CardinalityType
    <3>3. QED
      BY <3>1, <3>2
<1>11. f \in [1..c -> J \ {m}] /\ \A j, k \in 1..c : j < k => f[j] < f[k]
  BY <1>8 DEF Enumerates
<1> HIDE DEF c
<1>12. g \in [1..(c + 1) -> J]
  BY <1>9, <1>10, <1>11
<1>13. ASSUME NEW j \in 1..(c + 1), NEW k \in 1..(c + 1), j < k
       PROVE  g[j] < g[k]
  <2>1. j <= c /\ g[j] = f[j] /\ f[j] \in 1..(m - 1)
    <3>1. j <= c /\ j \in 1..c
      BY <1>10, <1>13
    <3>2. f[j] \in J \ {m}
      BY <1>11, <3>1
    <3>3. QED
      BY <1>7, <3>1, <3>2
  <2>2. CASE k <= c
    BY <1>10, <1>11, <1>13, <2>1, <2>2
  <2>3. CASE ~(k <= c)
    BY <1>4, <1>6, <1>10, <1>13, <2>1, <2>3
  <2>4. QED
    BY <2>2, <2>3
<1>14. Enumerates(g, J)
  BY <1>10, <1>12, <1>13 DEF Enumerates
<1>15. QED
  BY <1>3, <1>14

\* Increasing lists every index of I, in increasing order.
LEMMA IncreasingLists ==
  ASSUME NEW n \in Nat, NEW I \in SUBSET (1..n)
  PROVE  /\ Cardinality(I) \in Nat
         /\ Enumerates(Increasing(I), I)
         /\ \A i \in I : \E k \in 1..Cardinality(I) : Increasing(I)[k] = i
<1>1. IsFiniteSet(I) /\ Cardinality(I) \in Nat
  <2>1. IsFiniteSet(1..n)
    BY FS_Interval
  <2>2. IsFiniteSet(I)
    BY <2>1, FS_Subset
  <2>3. QED
    BY <2>2, FS_CardinalityType
<1>2. Enumerates(Increasing(I), I)
  <2>1. PICK f : Enumerates(f, I)
    BY EnumerationExists
  <2>2. \E h \in [1..Cardinality(I) -> I] : \A j, k \in DOMAIN h : j < k => h[j] < h[k]
    BY <2>1 DEF Enumerates
  <2>3. QED
    BY <2>2 DEF Increasing, Enumerates
<1>3. Increasing(I) \in Injection(1..Cardinality(I), I)
  <2>1. \A i \in I : i \in Nat
    OBVIOUS
  <2>2. \A j, k \in 1..Cardinality(I) : Increasing(I)[j] = Increasing(I)[k] => j = k
    <3>1. ASSUME NEW j \in 1..Cardinality(I), NEW k \in 1..Cardinality(I), j < k
          PROVE  Increasing(I)[j] # Increasing(I)[k]
      <4>1. /\ Increasing(I)[j] \in Nat /\ Increasing(I)[k] \in Nat
            /\ Increasing(I)[j] < Increasing(I)[k]
        BY <1>2, <2>1, <3>1 DEF Enumerates
      <4>2. QED
        BY <4>1
    <3>2. \A j, k \in 1..Cardinality(I) : j < k \/ k < j \/ j = k
      BY <1>1
    <3>3. QED
      BY <3>1, <3>2
  <2>3. QED
    BY <1>2, <2>2 DEF Enumerates, Injection, IsInjective
<1>4. IsFiniteSet(1..Cardinality(I)) /\ Cardinality(1..Cardinality(I)) = Cardinality(I)
  BY <1>1, FS_Interval
<1>5. Increasing(I) \in Surjection(1..Cardinality(I), I)
  BY <1>1, <1>3, <1>4, FS_Injection
<1>6. QED
  BY <1>1, <1>2, <1>5 DEF Surjection

-----------------------------------------------------------------------------
(* What the broker reads and a client is sent.                             *)

USE SizesAssumption, BoundsAssumption
USE DEF runVars, broker, client, vars

\* The frames a client may be sent next: of the present numbering, accepted and
\* newer than maxOffset, oldest first.
Sendable(c, fs) ==
  /\ fs \in Seq(Frame)
  /\ \A i \in DOMAIN fs : Current(fs[i]) /\ Fresh(fs[i], c)
  /\ \A i, j \in DOMAIN fs : i < j => fs[i].off < fs[j].off

\* Selected frames of the ring, in the order of the ring.
LEMMA RingAtLists ==
  ASSUME StreamInv, NEW I \in SUBSET DOMAIN ring
  PROVE  /\ RingAt(I) \in Seq(Frame)
         /\ \A k \in DOMAIN RingAt(I) : \E i \in I : RingAt(I)[k] = ring[i]
         /\ \A j, k \in DOMAIN RingAt(I) : j < k => RingAt(I)[j].off < RingAt(I)[k].off
         /\ \A i \in I : \E k \in DOMAIN RingAt(I) : RingAt(I)[k] = ring[i]
<1> DEFINE at == Increasing(I)
           n == Cardinality(I)
<1>1. ring \in Seq(Frame) /\ DOMAIN ring = 1..Len(ring) /\ Len(ring) \in Nat
  BY DEF StreamInv, TypeOK
<1>2. /\ n \in Nat
      /\ at \in [1..n -> I] /\ \A j, k \in 1..n : j < k => at[j] < at[k]
      /\ \A i \in I : \E k \in 1..n : at[k] = i
  BY <1>1, IncreasingLists DEF Enumerates
<1>3. RingAt(I) = [k \in 1..n |-> ring[at[k]]]
  BY DEF RingAt
<1> HIDE DEF at, n
<1>4. \A k \in 1..n : at[k] \in I /\ at[k] \in 1..Len(ring) /\ ring[at[k]] \in Frame
  BY <1>1, <1>2
<1>5. RingAt(I) \in Seq(Frame) /\ DOMAIN RingAt(I) = 1..n
  BY <1>2, <1>3, <1>4
<1>6. \A k \in 1..n : RingAt(I)[k] = ring[at[k]]
  BY <1>3
<1>7. ASSUME NEW j \in 1..n, NEW k \in 1..n, j < k
      PROVE  RingAt(I)[j].off < RingAt(I)[k].off
  <2>1. at[j] < at[k] /\ at[j] \in Nat /\ at[k] \in Nat
    BY <1>2, <1>4, <1>7
  <2>2. next \in Nat
    BY DEF StreamInv, TypeOK
  <2>3. /\ ring[at[j]].off = (next - Len(ring)) + at[j]
        /\ ring[at[k]].off = (next - Len(ring)) + at[k]
    BY <1>1, <1>4 DEF StreamInv, RingIsTail
  <2>4. QED
    BY <1>1, <1>6, <2>1, <2>2, <2>3
<1>8. \A k \in DOMAIN RingAt(I) : \E i \in I : RingAt(I)[k] = ring[i]
  BY <1>4, <1>5, <1>6
<1>9. \A i \in I : \E k \in DOMAIN RingAt(I) : RingAt(I)[k] = ring[i]
  BY <1>2, <1>5, <1>6
<1>10. QED
  BY <1>5, <1>7, <1>8, <1>9

\* Broker.Read: the retained frames a client has not been sent, all of them.
LEMMA RetainedSendable ==
  ASSUME StreamInv, NEW c \in Clients
  PROVE  /\ Sendable(c, Retained(c))
         /\ \A i \in DOMAIN ring : Fresh(ring[i], c) =>
              \E k \in DOMAIN Retained(c) : Retained(c)[k] = ring[i]
<1> DEFINE I == {i \in DOMAIN ring : Fresh(ring[i], c)}
<1>1. I \in SUBSET DOMAIN ring
  OBVIOUS
<1>2. Retained(c) = RingAt(I)
  BY DEF Retained
<1>3. \A i \in I : Current(ring[i]) /\ Fresh(ring[i], c)
  BY DEF StreamInv, RingIsTail
<1>4. \A i \in DOMAIN ring : Fresh(ring[i], c) => i \in I
  OBVIOUS
<1> HIDE DEF I
<1>5. QED
  BY <1>1, <1>2, <1>3, <1>4, RingAtLists DEF Sendable

\* fillGap: the frames between maxOffset and the one that arrived, then that one.
LEMMA GapSendable ==
  ASSUME StreamInv, NEW c \in Clients, NEW f, Current(f), Fresh(f, c)
  PROVE  /\ Sendable(c, Gap(c, f) \o <<f>>)
         /\ \A i \in DOMAIN ring : Fresh(ring[i], c) /\ ring[i].off < f.off =>
              \E k \in DOMAIN (Gap(c, f) \o <<f>>) : (Gap(c, f) \o <<f>>)[k] = ring[i]
<1> DEFINE I == {i \in DOMAIN ring : Fresh(ring[i], c) /\ ring[i].off < f.off}
           g == Gap(c, f)
<1>1. I \in SUBSET DOMAIN ring
  OBVIOUS
<1>2. f \in Frame /\ f.off \in Nat /\ maxOff[c] \in Nat /\ maxOff[c] < f.off
  BY DEF Current, Known, Frame, Ids, Fresh, StreamInv, TypeOK
<1>3. \A i \in I : Current(ring[i]) /\ Fresh(ring[i], c) /\ ring[i].off < f.off
  BY DEF StreamInv, RingIsTail
<1>4. \A i \in DOMAIN ring : Fresh(ring[i], c) /\ ring[i].off < f.off => i \in I
  OBVIOUS
<1>5. I = {} \/ f.off > maxOff[c] + 1
  <2>1. ASSUME NEW i \in I
        PROVE  f.off > maxOff[c] + 1
    <3>1. ring[i].off > maxOff[c] /\ ring[i].off < f.off /\ ring[i].off \in Nat
      BY <1>3 DEF Fresh, Current, Known, Frame, Ids
    <3>2. QED
      BY <1>2, <3>1
  <2>2. QED
    BY <2>1
<1> HIDE DEF I
<1>6. /\ g \in Seq(Frame)
      /\ \A k \in DOMAIN g : Current(g[k]) /\ Fresh(g[k], c) /\ g[k].off < f.off
      /\ \A j, k \in DOMAIN g : j < k => g[j].off < g[k].off
      /\ \A i \in I : \E k \in DOMAIN g : g[k] = ring[i]
  <2>1. CASE f.off > maxOff[c] + 1
    <3>1. g = RingAt(I)
      BY <2>1 DEF Gap, I
    <3>2. QED
      BY <1>1, <1>3, <3>1, RingAtLists
  <2>2. CASE ~(f.off > maxOff[c] + 1)
    <3>1. g = <<>> /\ I = {}
      BY <1>5, <2>2 DEF Gap
    <3>2. QED
      BY <3>1
  <2>3. QED
    BY <2>1, <2>2
<1> DEFINE h == g \o <<f>>
<1> HIDE DEF g
<1>7. /\ h \in Seq(Frame) /\ Len(g) \in Nat /\ DOMAIN h = 1..(Len(g) + 1) /\ DOMAIN g = 1..Len(g)
      /\ \A k \in 1..Len(g) : h[k] = g[k]
      /\ h[Len(g) + 1] = f
  BY <1>2, <1>6
<1> HIDE DEF h
<1>8. \A k \in DOMAIN h : k \in DOMAIN g \/ k = Len(g) + 1
  BY <1>7
<1>9. \A k \in DOMAIN h : Current(h[k]) /\ Fresh(h[k], c)
  BY <1>6, <1>7, <1>8
<1>10. ASSUME NEW j \in DOMAIN h, NEW k \in DOMAIN h, j < k
       PROVE  h[j].off < h[k].off
  <2>1. j \in DOMAIN g
    BY <1>7, <1>10
  <2>2. QED
    BY <1>6, <1>7, <1>8, <1>10, <2>1
<1>11. \A i \in I : \E k \in DOMAIN h : h[k] = ring[i]
  BY <1>6, <1>7
<1>12. QED
  BY <1>4, <1>7, <1>9, <1>10, <1>11 DEF Sendable, h, g

\* Types of what a client holds.
LEMMA ClientTypes ==
  ASSUME StreamInv, NEW c \in Clients
  PROVE  /\ view[c] \in Seq(Frame) /\ maxOff[c] \in 0..MaxFrames /\ maxOff[c] \in Nat
         /\ Len(view[c]) \in Nat /\ DOMAIN view[c] = 1..Len(view[c])
         /\ chan[c] \in Seq(Frame) /\ next \in Nat /\ Len(sent) \in Nat
         /\ DOMAIN sent = 1..Len(sent)
  BY DEF StreamInv, TypeOK

\* The fields of a frame of the present numbering.
LEMMA CurrentTypes ==
  ASSUME StreamInv, NEW f, Current(f)
  PROVE  /\ f.id \in Nat /\ f.off \in Nat /\ f.off >= 1 /\ f.off <= MaxFrames /\ f.off <= next
         /\ f.id = f.off + (Len(sent) - next) /\ f.id \in 1..Len(sent)
         /\ f \in Frame /\ sent[f.id] = f.run
<1>1. next \in Nat /\ Len(sent) \in Nat /\ next <= Len(sent) /\ DOMAIN sent = 1..Len(sent)
  BY DEF StreamInv, TypeOK, RingIsTail
<1>2. f \in Frame /\ f.id \in DOMAIN sent /\ sent[f.id] = f.run /\ f.id = f.off + (Len(sent) - next)
  BY DEF Current, Known
<1>3. f.id \in Nat /\ f.off \in Nat /\ f.off >= 1 /\ f.off <= MaxFrames
  BY <1>2 DEF Frame, Ids
<1>4. QED
  BY <1>1, <1>2, <1>3

\* Frames that may be sent extend a subscriber's view in order, and maxOffset
\* with it.
LEMMA EmitExtends ==
  ASSUME StreamInv, NEW c \in Clients, c \in subs, NEW fs, Sendable(c, fs), EmitStream(c, fs)
  PROVE  /\ view' \in [Clients -> Seq(Frame)] /\ maxOff' \in [Clients -> 0..MaxFrames]
         /\ \A d \in Clients : d # c => view'[d] = view[d] /\ maxOff'[d] = maxOff[d]
         /\ view'[c] = view[c] \o fs
         /\ \A i \in DOMAIN view'[c] :
              Current(view'[c][i]) /\ view'[c][i].run \in {crun[c], Session}
         /\ \A i, j \in DOMAIN view'[c] : i < j =>
              view'[c][i].id < view'[c][j].id /\ view'[c][i].off < view'[c][j].off
         /\ maxOff'[c] = IF view'[c] = <<>> THEN 0 ELSE view'[c][Len(view'[c])].off
<1> DEFINE v == view[c]
           w == view'[c]
<1>1. /\ v \in Seq(Frame) /\ Len(v) \in Nat /\ DOMAIN v = 1..Len(v)
      /\ fs \in Seq(Frame) /\ Len(fs) \in Nat /\ DOMAIN fs = 1..Len(fs)
      /\ maxOff[c] \in Nat
  BY ClientTypes DEF Sendable
<1>2. view \in [Clients -> Seq(Frame)] /\ maxOff \in [Clients -> 0..MaxFrames]
  BY DEF StreamInv, TypeOK
<1>3. /\ view' = [view EXCEPT ![c] = v \o fs] /\ w = v \o fs
      /\ maxOff' = [maxOff EXCEPT ![c] = IF fs = <<>> THEN maxOff[c] ELSE fs[Len(fs)].off]
  BY <1>2 DEF EmitStream
<1>4. /\ \A i \in DOMAIN v : Current(v[i]) /\ v[i].run \in {crun[c], Session}
      /\ \A i, j \in DOMAIN v : i < j => v[i].id < v[j].id
      /\ maxOff[c] = IF v = <<>> THEN 0 ELSE v[Len(v)].off
  BY DEF StreamInv, Views, ViewOrdered, ViewCurrent
<1>5. /\ \A i \in DOMAIN fs : Current(fs[i]) /\ fs[i].run \in {crun[c], Session}
                              /\ fs[i].off > maxOff[c]
      /\ \A i, j \in DOMAIN fs : i < j => fs[i].off < fs[j].off
  BY DEF Sendable, Fresh, RunScoped
<1>6. v \o fs \in Seq(Frame)
  BY <1>1
<1>7. view' \in [Clients -> Seq(Frame)]
  BY <1>2, <1>3, <1>6
<1>8. fs # <<>> => fs[Len(fs)].off \in 0..MaxFrames
  <2>1. ASSUME fs # <<>>
        PROVE  Len(fs) \in DOMAIN fs
    BY <1>1, <2>1
  <2>2. \A i \in DOMAIN fs : fs[i].off \in 0..MaxFrames
    BY <1>5, CurrentTypes
  <2>3. QED
    BY <2>1, <2>2
<1>9. maxOff' \in [Clients -> 0..MaxFrames]
  BY <1>2, <1>3, <1>8
<1>10. \A d \in Clients : d # c => view'[d] = view[d] /\ maxOff'[d] = maxOff[d]
  BY <1>2, <1>3
<1>11. maxOff'[c] = IF fs = <<>> THEN maxOff[c] ELSE fs[Len(fs)].off
  BY <1>2, <1>3
<1> HIDE DEF v, w
<1>12. /\ Len(w) = Len(v) + Len(fs) /\ DOMAIN w = 1..(Len(v) + Len(fs))
       /\ \A i \in 1..Len(v) : w[i] = v[i]
       /\ \A i \in DOMAIN w : i > Len(v) => (i - Len(v)) \in DOMAIN fs /\ w[i] = fs[i - Len(v)]
  BY <1>1, <1>3
<1>13. \A i \in DOMAIN w : i \in DOMAIN v \/ (i > Len(v) /\ (i - Len(v)) \in DOMAIN fs)
  BY <1>1, <1>12
<1>14. \A i \in DOMAIN w : Current(w[i]) /\ w[i].run \in {crun[c], Session}
  BY <1>1, <1>4, <1>5, <1>12, <1>13
<1>15. ASSUME NEW i \in DOMAIN w, NEW j \in DOMAIN w, i < j
       PROVE  w[i].off < w[j].off
  <2>1. next \in Nat /\ Len(sent) \in Nat
    BY ClientTypes
  <2>2. CASE j <= Len(v)
    <3>1. i \in DOMAIN v /\ j \in DOMAIN v /\ w[i] = v[i] /\ w[j] = v[j]
      BY <1>1, <1>12, <1>15, <2>2
    <3>2. v[i].id < v[j].id
      BY <1>4, <1>15, <3>1
    <3>3. /\ w[i].off \in Nat /\ w[j].off \in Nat
          /\ w[i].id = w[i].off + (Len(sent) - next) /\ w[j].id = w[j].off + (Len(sent) - next)
      BY <1>14, <1>15, CurrentTypes
    <3>4. QED
      BY <2>1, <3>1, <3>2, <3>3
  <2>3. CASE i <= Len(v) /\ j > Len(v)
    <3>1. i \in DOMAIN v /\ w[i] = v[i] /\ v # <<>> /\ Len(v) \in DOMAIN v
      BY <1>1, <1>12, <1>15, <2>3
    <3>2. w[j].off > maxOff[c] /\ maxOff[c] = v[Len(v)].off
      BY <1>4, <1>5, <1>12, <2>3, <3>1
    <3>3. v[i].id <= v[Len(v)].id
      <4>1. CASE i = Len(v)
        <5>1. v[i].id \in Nat
          BY <1>4, <3>1, CurrentTypes
        <5>2. QED
          BY <4>1, <5>1
      <4>2. CASE i # Len(v)
        <5>1. i < Len(v)
          BY <1>1, <3>1, <4>2
        <5>2. v[i].id < v[Len(v)].id /\ v[i].id \in Nat /\ v[Len(v)].id \in Nat
          BY <1>4, <3>1, <5>1, CurrentTypes
        <5>3. QED
          BY <5>2
      <4>3. QED
        BY <4>1, <4>2
    <3>4. /\ v[i].off \in Nat /\ v[Len(v)].off \in Nat /\ w[j].off \in Nat
          /\ v[i].id = v[i].off + (Len(sent) - next)
          /\ v[Len(v)].id = v[Len(v)].off + (Len(sent) - next)
      BY <1>4, <1>14, <1>15, <3>1, CurrentTypes
    <3>5. QED
      BY <2>1, <3>1, <3>2, <3>3, <3>4
  <2>4. CASE i > Len(v)
    <3>1. /\ i - Len(v) \in DOMAIN fs /\ w[i] = fs[i - Len(v)]
          /\ j - Len(v) \in DOMAIN fs /\ w[j] = fs[j - Len(v)]
          /\ i - Len(v) < j - Len(v)
      BY <1>1, <1>12, <1>15, <2>4
    <3>2. QED
      BY <1>5, <3>1
  <2>5. i \in Nat /\ j \in Nat
    BY <1>1, <1>12
  <2>6. QED
    BY <1>1, <1>15, <2>2, <2>3, <2>4, <2>5
<1>16. ASSUME NEW i \in DOMAIN w, NEW j \in DOMAIN w, i < j
       PROVE  w[i].id < w[j].id
  <2>1. w[i].off < w[j].off
    BY <1>15, <1>16
  <2>2. /\ w[i].off \in Nat /\ w[j].off \in Nat /\ next \in Nat /\ Len(sent) \in Nat
        /\ w[i].id = w[i].off + (Len(sent) - next) /\ w[j].id = w[j].off + (Len(sent) - next)
    BY <1>14, <1>16, CurrentTypes, ClientTypes
  <2>3. QED
    BY <2>1, <2>2
<1>17. maxOff'[c] = IF w = <<>> THEN 0 ELSE w[Len(w)].off
  <2>1. CASE fs = <<>>
    <3>1. w = v
      BY <1>1, <1>3, <2>1 DEF w, v
    <3>2. QED
      BY <1>4, <1>11, <2>1, <3>1
  <2>2. CASE fs # <<>>
    <3>1. Len(fs) > 0 /\ Len(w) \in DOMAIN w /\ Len(w) > Len(v) /\ Len(w) - Len(v) = Len(fs)
      BY <1>1, <1>12, <2>2
    <3>2. w[Len(w)] = fs[Len(fs)] /\ w # <<>>
      BY <1>12, <3>1
    <3>3. QED
      BY <1>11, <2>2, <3>2
  <2>3. QED
    BY <2>1, <2>2
<1>18. QED
  BY <1>3, <1>7, <1>9, <1>10, <1>14, <1>15, <1>16, <1>17 DEF v, w

\* When the frames sent leave out nothing that the ring holds up to the last of
\* them, a client without holes has none afterwards.
LEMMA EmitFillsHoles ==
  ASSUME StreamInv, NEW c \in Clients, c \in subs, NEW fs, Sendable(c, fs), EmitStream(c, fs),
         view[c] = <<>> \/ Holes(c) \subseteq gone,
         \A r \in DOMAIN ring :
           Fresh(ring[r], c) /\ (\E i \in DOMAIN fs : ring[r].off < fs[i].off)
             => \E k \in DOMAIN fs : fs[k] = ring[r]
  PROVE  \A id \in DOMAIN sent :
           /\ sent[id] = crun[c] /\ id \notin IdsOf(view'[c])
           /\ \E i \in DOMAIN view'[c] : id < view'[c][i].id
           => id \in gone
<1> DEFINE v == view[c]
           w == view'[c]
<1>1. /\ v \in Seq(Frame) /\ Len(v) \in Nat /\ DOMAIN v = 1..Len(v)
      /\ fs \in Seq(Frame) /\ Len(fs) \in Nat /\ DOMAIN fs = 1..Len(fs)
      /\ maxOff[c] \in Nat /\ next \in Nat /\ Len(sent) \in Nat /\ DOMAIN sent = 1..Len(sent)
  BY ClientTypes DEF Sendable
<1>2. w = v \o fs
  BY EmitExtends
<1>3. /\ \A i \in DOMAIN v : Current(v[i])
      /\ maxOff[c] = IF v = <<>> THEN 0 ELSE v[Len(v)].off
  BY DEF StreamInv, Views, ViewCurrent
<1>4. \A i \in DOMAIN w : Current(w[i])
  BY EmitExtends
<1>5. SUFFICES ASSUME NEW id \in DOMAIN sent, sent[id] = crun[c], id \notin IdsOf(w),
                      NEW i \in DOMAIN w, id < w[i].id, id \notin gone
               PROVE  FALSE
  OBVIOUS
<1>6. PICK r \in DOMAIN ring : ring[r].id = id
  BY <1>5 DEF StreamInv, RetainedOrGone, IdsOf
<1>7. Current(ring[r])
  BY DEF StreamInv, RingIsTail
<1>8. /\ ring[r].off \in Nat /\ ring[r].off >= 1 /\ id = ring[r].off + (Len(sent) - next)
      /\ ring[r].run = crun[c]
  BY <1>5, <1>6, <1>7, CurrentTypes
<1>9. w[i].off \in Nat /\ w[i].id = w[i].off + (Len(sent) - next) /\ ring[r].off < w[i].off
  <2>1. w[i].off \in Nat /\ w[i].id = w[i].off + (Len(sent) - next)
    BY <1>4, <1>5, CurrentTypes
  <2>2. QED
    BY <1>1, <1>5, <1>8, <2>1
<1> HIDE DEF v, w
<1>10. /\ DOMAIN w = 1..(Len(v) + Len(fs))
       /\ \A k \in DOMAIN v : k \in DOMAIN w /\ w[k] = v[k]
       /\ \A k \in DOMAIN fs : Len(v) + k \in DOMAIN w /\ w[Len(v) + k] = fs[k]
       /\ \A k \in DOMAIN w :
            k \in DOMAIN v \/ ((k - Len(v)) \in DOMAIN fs /\ w[k] = fs[k - Len(v)])
  <2>1. /\ DOMAIN w = 1..(Len(v) + Len(fs))
        /\ \A k \in 1..Len(v) : w[k] = v[k]
        /\ \A k \in DOMAIN w : k > Len(v) => (k - Len(v)) \in DOMAIN fs /\ w[k] = fs[k - Len(v)]
    BY <1>1, <1>2
  <2>2. \A k \in DOMAIN v : k \in DOMAIN w /\ w[k] = v[k]
    BY <1>1, <2>1
  <2>3. ASSUME NEW k \in DOMAIN fs
        PROVE  Len(v) + k \in DOMAIN w /\ w[Len(v) + k] = fs[k]
    <3>1. Len(v) + k \in DOMAIN w /\ Len(v) + k > Len(v) /\ (Len(v) + k) - Len(v) = k
      BY <1>1, <2>1
    <3>2. QED
      BY <2>1, <3>1
  <2>4. \A k \in DOMAIN w : k \in DOMAIN v \/ k > Len(v)
    BY <1>1, <2>1
  <2>5. QED
    BY <2>1, <2>2, <2>3, <2>4
<1>11. CASE ring[r].off > maxOff[c]
  <2>1. Fresh(ring[r], c)
    BY <1>8, <1>11 DEF Fresh, RunScoped
  <2>2. i \notin DOMAIN v
    <3>1. SUFFICES ASSUME i \in DOMAIN v PROVE FALSE
      OBVIOUS
    <3>2. w[i] = v[i] /\ v # <<>> /\ Len(v) \in DOMAIN v /\ i <= Len(v)
      BY <1>1, <1>10, <3>1
    <3>3. v[i].id <= v[Len(v)].id
      <4>1. v[i].id \in Nat /\ v[Len(v)].id \in Nat
        BY <1>3, <3>1, <3>2, CurrentTypes
      <4>2. CASE i = Len(v)
        BY <4>1, <4>2
      <4>3. CASE i # Len(v)
        <5>1. i < Len(v)
          BY <1>1, <3>1, <3>2, <4>3
        <5>2. v[i].id < v[Len(v)].id
          BY <3>1, <3>2, <5>1 DEF StreamInv, Views, ViewOrdered, v
        <5>3. QED
          BY <4>1, <5>2
      <4>4. QED
        BY <4>2, <4>3
    <3>4. /\ v[i].off \in Nat /\ v[Len(v)].off \in Nat
          /\ v[i].id = v[i].off + (Len(sent) - next)
          /\ v[Len(v)].id = v[Len(v)].off + (Len(sent) - next)
      BY <1>3, <3>1, <3>2, CurrentTypes
    <3>5. maxOff[c] = v[Len(v)].off
      BY <1>3, <3>2
    <3>6. QED
      BY <1>1, <1>8, <1>9, <1>11, <3>2, <3>3, <3>4, <3>5
  <2>3. i - Len(v) \in DOMAIN fs /\ w[i] = fs[i - Len(v)]
    BY <1>5, <1>10, <2>2 DEF w
  <2>4. PICK k \in DOMAIN fs : fs[k] = ring[r]
    BY <1>9, <2>1, <2>3
  <2>5. Len(v) + k \in DOMAIN w /\ w[Len(v) + k].id = id
    BY <1>6, <1>10, <2>4
  <2>6. QED
    BY <1>5, <2>5 DEF IdsOf, w
<1>12. CASE ~(ring[r].off > maxOff[c])
  <2>1. v # <<>> /\ maxOff[c] = v[Len(v)].off
    BY <1>3, <1>8, <1>12
  <2>2. Len(v) \in DOMAIN v
    BY <1>1, <2>1
  <2>3. /\ v[Len(v)].id \in Nat
        /\ v[Len(v)].id = v[Len(v)].off + (Len(sent) - next)
    BY <1>3, <2>2, CurrentTypes
  <2>4. id <= v[Len(v)].id
    BY <1>1, <1>8, <1>12, <2>1, <2>3
  <2>5. \A k \in DOMAIN v : v[k].id # id
    BY <1>5, <1>10 DEF IdsOf, w
  <2>6. id < v[Len(v)].id
    BY <1>1, <1>5, <2>2, <2>3, <2>4, <2>5
  <2>7. id \notin IdsOf(v)
    BY <2>5 DEF IdsOf
  <2>8. id \in Holes(c)
    BY <1>5, <2>2, <2>6, <2>7 DEF Holes, v
  <2>9. QED
    BY <1>5, <2>1, <2>8 DEF v
<1>13. QED
  BY <1>1, <1>8, <1>11, <1>12

-----------------------------------------------------------------------------
(* What stays true of the frames.                                          *)

\* Publishing more frames, and renumbering from zero, leave a published frame
\* what it was.
LEMMA KnownStays ==
  ASSUME StreamInv, sent' = sent \/ \E r \in Runs \cup {Session} : sent' = Append(sent, r),
         NEW f, Known(f)
  PROVE  f \in Frame /\ f.id \in DOMAIN sent' /\ sent'[f.id] = f.run
<1>1. f \in Frame /\ f.id \in DOMAIN sent /\ sent[f.id] = f.run
  BY DEF Known
<1>2. sent \in Seq(Runs \cup {Session})
  BY DEF StreamInv, TypeOK
<1>3. ASSUME NEW r \in Runs \cup {Session}, sent' = Append(sent, r)
      PROVE  f.id \in DOMAIN sent' /\ sent'[f.id] = sent[f.id]
  BY <1>1, <1>2, <1>3
<1>4. QED
  BY <1>1, <1>3

\* A client nothing is sent to keeps an ordered view.
LEMMA ViewStays ==
  ASSUME StreamInv, sent' = sent \/ \E r \in Runs \cup {Session} : sent' = Append(sent, r),
         NEW d \in Clients, view'[d] = view[d], crun'[d] = crun[d]
  PROVE  ViewOrdered(d)'
<1>1. \A i \in DOMAIN view[d] : /\ Known(view[d][i])
                                /\ view[d][i].run \in {crun[d], Session}
  BY DEF StreamInv, Views, ViewOrdered
<1>2. \A i, j \in DOMAIN view[d] : i < j => view[d][i].id < view[d][j].id
  BY DEF StreamInv, Views, ViewOrdered
<1>3. \A i \in DOMAIN view[d] : /\ view[d][i] \in Frame
                                /\ view[d][i].id \in DOMAIN sent'
                                /\ sent'[view[d][i].id] = view[d][i].run
  BY <1>1, KnownStays
<1>4. QED
  BY <1>1, <1>2, <1>3 DEF ViewOrdered, Known

\* ... of the present numbering while it lasts.
LEMMA ViewCurrentStays ==
  ASSUME StreamInv, sent' = sent \/ \E r \in Runs \cup {Session} : sent' = Append(sent, r),
         Len(sent') - next' = Len(sent) - next,
         NEW d \in Clients, d \in subs, view'[d] = view[d], maxOff'[d] = maxOff[d]
  PROVE  ViewCurrent(d)'
<1>1. /\ \A i \in DOMAIN view[d] : Current(view[d][i])
      /\ maxOff[d] = IF view[d] = <<>> THEN 0 ELSE view[d][Len(view[d])].off
  BY DEF StreamInv, Views, ViewCurrent
<1>2. \A i \in DOMAIN view[d] : /\ view[d][i] \in Frame
                                /\ view[d][i].id \in DOMAIN sent'
                                /\ sent'[view[d][i].id] = view[d][i].run
                                /\ view[d][i].id = view[d][i].off + (Len(sent') - next')
  BY <1>1, KnownStays DEF Current
<1>3. QED
  BY <1>1, <1>2 DEF ViewCurrent, Current, Known

\* A new frame is newer than everything a client was sent: it is no hole.
LEMMA HolesStay ==
  ASSUME StreamInv, sent' = sent \/ \E r \in Runs \cup {Session} : sent' = Append(sent, r),
         gone \subseteq gone',
         NEW d \in Clients, Holes(d) \subseteq gone, view'[d] = view[d], crun'[d] = crun[d]
  PROVE  Holes(d)' \subseteq gone'
<1>1. sent \in Seq(Runs \cup {Session}) /\ Len(sent) \in Nat /\ DOMAIN sent = 1..Len(sent)
  BY DEF StreamInv, TypeOK
<1>2. \A i \in DOMAIN view[d] : view[d][i].id \in 1..Len(sent)
  BY <1>1 DEF StreamInv, Views, ViewOrdered, Known
<1>3. ASSUME NEW id \in DOMAIN sent', sent'[id] = crun[d], id \notin IdsOf(view[d]),
             NEW i \in DOMAIN view[d], id < view[d][i].id
      PROVE  id \in gone
  <2>1. id \in DOMAIN sent /\ sent'[id] = sent[id]
    <3>1. CASE sent' = sent
      BY <1>3, <3>1
    <3>2. ASSUME NEW r \in Runs \cup {Session}, sent' = Append(sent, r)
          PROVE  id \in DOMAIN sent /\ sent'[id] = sent[id]
      <4>1. id \in 1..(Len(sent) + 1) /\ \A k \in 1..Len(sent) : sent'[k] = sent[k]
        <5>1. /\ DOMAIN Append(sent, r) = 1..(Len(sent) + 1)
              /\ \A k \in 1..Len(sent) : Append(sent, r)[k] = sent[k]
          BY <1>1
        <5>2. QED
          BY <1>3, <3>2, <5>1
      <4>2. view[d][i].id \in Nat /\ view[d][i].id <= Len(sent)
        BY <1>1, <1>2
      <4>3. id \in DOMAIN sent
        BY <1>1, <1>3, <4>1, <4>2
      <4>4. QED
        BY <1>1, <4>1, <4>3
    <3>3. QED
      BY <3>1, <3>2
  <2>2. id \in Holes(d)
    BY <1>3, <2>1 DEF Holes
  <2>3. QED
    BY <2>2
<1>4. QED
  BY <1>3 DEF Holes

-----------------------------------------------------------------------------
(* memBroker.Publish.                                                      *)

\* A frame of the numbering after the step.
CurrentNext(f) ==
  /\ f \in Frame /\ f.id \in DOMAIN sent' /\ sent'[f.id] = f.run
  /\ f.id = f.off + (Len(sent') - next')

\* The ring after an append ends with the new frame and keeps a tail of what it
\* held.
LEMMA RetainTail ==
  ASSUME StreamInv, NEW f \in Frame, NEW s, s = Retain(Append(ring, f))
  PROVE  /\ s \in Seq(Frame) /\ Len(s) \in Nat /\ DOMAIN s = 1..Len(s)
         /\ Len(s) >= 1 /\ Len(s) <= Capacity /\ Len(s) <= Len(ring) + 1
         /\ s[Len(s)] = f
         /\ \A i \in DOMAIN s : i < Len(s) =>
              /\ ((Len(ring) + 1) - Len(s)) + i \in DOMAIN ring
              /\ s[i] = ring[((Len(ring) + 1) - Len(s)) + i]
<1> DEFINE a == Append(ring, f)
<1>1. /\ ring \in Seq(Frame) /\ Len(ring) \in Nat
      /\ DOMAIN ring = 1..Len(ring) /\ Len(ring) <= Capacity
  BY DEF StreamInv, TypeOK
<1>2. /\ a \in Seq(Frame) /\ Len(a) = Len(ring) + 1 /\ DOMAIN a = 1..(Len(ring) + 1)
      /\ a[Len(ring) + 1] = f
      /\ \A i \in 1..Len(ring) : a[i] = ring[i]
  BY <1>1
<1> HIDE DEF a
<1>3. CASE Len(a) > Capacity
  <2>1. Len(ring) = Capacity
    <3>1. Capacity \in Nat /\ Len(ring) + 1 > Capacity
      BY <1>2, <1>3
    <3>2. \A x, y \in Nat : x <= y /\ x + 1 > y => x = y
      OBVIOUS
    <3>3. Len(ring) \in Nat /\ Len(ring) <= Capacity
      BY <1>1
    <3>4. QED
      BY <3>1, <3>2, <3>3
  <2>2. s = SubSeq(a, 2, Len(a))
    BY <1>2, <1>3, <2>1 DEF Retain, a
  <2>3. /\ s \in Seq(Frame) /\ Len(s) = Capacity /\ DOMAIN s = 1..Capacity
        /\ \A i \in 1..Capacity : s[i] = a[i + 1]
    BY <1>2, <2>1, <2>2
  <2>4. QED
    BY <1>1, <1>2, <2>1, <2>3
<1>4. CASE ~(Len(a) > Capacity)
  <2>1. s = a
    BY <1>4 DEF Retain, a
  <2>2. QED
    BY <1>1, <1>2, <1>4, <2>1
<1>5. QED
  BY <1>3, <1>4

\* The new frame is the newest, with the next id and the next offset.
LEMMA AppendStep ==
  ASSUME StreamInv, NEW p \in Publishers, NEW r \in Runs \cup {Session}, PublishAppend(p, r)
  PROVE  /\ TypeOK' /\ RingIsTail' /\ RetainedOrGone'
         /\ Len(sent') - next' = Len(sent) - next /\ gone \subseteq gone'
         /\ sent' = Append(sent, r)
         /\ pub'[p] = Idle \/ (pub'[p].todo = subs /\ subs # {} /\ CurrentNext(pub'[p].frame))
         /\ \A o \in Publishers : o # p => pub'[o] = pub[o]
<1> DEFINE f == [id |-> Len(sent) + 1, off |-> next + 1, run |-> r]
<1>1. /\ sent \in Seq(Runs \cup {Session}) /\ Len(sent) \in Nat /\ DOMAIN sent = 1..Len(sent)
      /\ Len(sent) < MaxFrames /\ next \in Nat /\ next <= Len(sent)
  BY DEF PublishAppend, StreamInv, TypeOK, RingIsTail
<1>2. /\ next' = next + 1 /\ ring' = Retain(Append(ring, f))
      /\ gone' = gone \cup (IdsOf(ring) \ IdsOf(ring'))
      /\ sent' = Append(sent, r)
      /\ pub' = [pub EXCEPT ![p] = IF subs = {} THEN Idle ELSE [todo |-> subs, frame |-> f]]
      /\ UNCHANGED <<runVars, subs, client>>
  BY DEF PublishAppend
<1>3. /\ sent' \in Seq(Runs \cup {Session}) /\ Len(sent') = Len(sent) + 1
      /\ DOMAIN sent' = 1..(Len(sent) + 1) /\ sent'[Len(sent) + 1] = r
  BY <1>1, <1>2
<1>4. f \in Frame /\ f.id = Len(sent) + 1 /\ f.off = next + 1 /\ f.run = r
  BY <1>1 DEF Frame, Ids
<1> HIDE DEF f
<1>5. CurrentNext(f)
  BY <1>1, <1>2, <1>3, <1>4 DEF CurrentNext
<1>6. /\ ring' \in Seq(Frame) /\ Len(ring') \in Nat /\ DOMAIN ring' = 1..Len(ring')
      /\ Len(ring') >= 1 /\ Len(ring') <= Capacity /\ Len(ring') <= Len(ring) + 1
      /\ ring'[Len(ring')] = f
      /\ \A i \in DOMAIN ring' : i < Len(ring') =>
           /\ ((Len(ring) + 1) - Len(ring')) + i \in DOMAIN ring
           /\ ring'[i] = ring[((Len(ring) + 1) - Len(ring')) + i]
  BY <1>2, <1>4, RetainTail
<1>7. ring \in Seq(Frame) /\ Len(ring) \in Nat /\ DOMAIN ring = 1..Len(ring) /\ Len(ring) <= next
  BY DEF StreamInv, TypeOK, RingIsTail
<1>8. ASSUME NEW i \in DOMAIN ring'
      PROVE  CurrentNext(ring'[i]) /\ ring'[i].off = (next' - Len(ring')) + i
  <2>1. CASE i = Len(ring')
    BY <1>1, <1>2, <1>4, <1>5, <1>6, <2>1
  <2>2. CASE i # Len(ring')
    <3>1. PICK k \in DOMAIN ring : k = ((Len(ring) + 1) - Len(ring')) + i /\ ring'[i] = ring[k]
      BY <1>6, <1>8, <2>2
    <3>2. Current(ring[k]) /\ ring[k].off = (next - Len(ring)) + k
      BY DEF StreamInv, RingIsTail
    <3>3. /\ ring[k] \in Frame /\ ring[k].id \in DOMAIN sent' /\ sent'[ring[k].id] = ring[k].run
          /\ ring[k].id = ring[k].off + (Len(sent) - next) /\ ring[k].off \in Nat
      BY <1>2, <3>2, KnownStays, CurrentTypes DEF Current
    <3>4. ring[k].id = ring[k].off + (Len(sent') - next')
      BY <1>1, <1>2, <1>3, <3>3
    <3>5. ring'[i].off = (next' - Len(ring')) + i
      BY <1>1, <1>2, <1>6, <1>7, <1>8, <3>1, <3>2
    <3>6. QED
      BY <3>1, <3>3, <3>4, <3>5 DEF CurrentNext
  <2>3. QED
    BY <2>1, <2>2
<1>9. RingIsTail'
  <2>1. next' <= Len(sent') /\ Len(sent') <= MaxFrames /\ Len(ring') <= next'
    BY <1>1, <1>2, <1>3, <1>6, <1>7
  <2>2. QED
    BY <1>8, <2>1 DEF RingIsTail, Current, Known, CurrentNext
<1>10. RetainedOrGone'
  <2>1. ASSUME NEW id \in DOMAIN sent'
        PROVE  id \in gone' \cup IdsOf(ring')
    <3>1. CASE id = Len(sent) + 1
      BY <1>4, <1>6, <3>1 DEF IdsOf
    <3>2. CASE id # Len(sent) + 1
      <4>1. id \in DOMAIN sent
        BY <1>1, <1>3, <3>2
      <4>2. QED
        BY <1>2, <4>1 DEF StreamInv, RetainedOrGone
    <3>3. QED
      BY <3>1, <3>2
  <2>2. QED
    BY <2>1 DEF RetainedOrGone, IdsOf
<1>11. gone' \in SUBSET Ids
  <2>1. IdsOf(ring) \subseteq Ids
    <3>1. \A i \in DOMAIN ring : ring[i] \in Frame
      BY <1>7
    <3>2. \A x \in Frame : x.id \in Ids
      BY DEF Frame
    <3>3. QED
      BY <3>1, <3>2 DEF IdsOf
  <2>2. QED
    BY <1>2, <2>1 DEF StreamInv, TypeOK
<1>12. pub' \in [Publishers -> [todo : SUBSET Clients, frame : Frame \cup {<<>>}]]
  <2>1. (IF subs = {} THEN Idle ELSE [todo |-> subs, frame |-> f])
          \in [todo : SUBSET Clients, frame : Frame \cup {<<>>}]
    BY <1>4 DEF Idle, StreamInv, TypeOK
  <2>2. QED
    BY <1>2, <2>1 DEF StreamInv, TypeOK
<1>13. next' \in 0..MaxFrames
  BY <1>1, <1>2
<1>14. TypeOK'
  BY <1>2, <1>3, <1>6, <1>11, <1>12, <1>13 DEF StreamInv, TypeOK
<1>15. pub'[p] = IF subs = {} THEN Idle ELSE [todo |-> subs, frame |-> f]
  BY <1>2 DEF StreamInv, TypeOK
<1>16. \A o \in Publishers : o # p => pub'[o] = pub[o]
  BY <1>2 DEF StreamInv, TypeOK
<1>17. pub'[p] = Idle \/ (pub'[p].todo = subs /\ subs # {} /\ CurrentNext(pub'[p].frame))
  <2>1. CASE subs = {}
    BY <1>15, <2>1
  <2>2. CASE subs # {}
    <3>1. pub'[p].todo = subs /\ pub'[p].frame = f
      BY <1>15, <2>2
    <3>2. QED
      BY <1>5, <2>2, <3>1
  <2>3. QED
    BY <2>1, <2>2
<1>18. Len(sent') - next' = Len(sent) - next
  BY <1>1, <1>2, <1>3
<1>19. QED
  BY <1>2, <1>9, <1>10, <1>14, <1>16, <1>17, <1>18

-----------------------------------------------------------------------------
(* The invariant is inductive.                                             *)

\* Steps of the run, and moves of a client's control point, touch no frame.
LEMMA QuietStep ==
  ASSUME StreamInv, TypeOK',
         UNCHANGED <<next, ring, subs, pub, chan, maxOff, view, crun, sent, gone>>,
         \A c \in Clients :
           \/ pc'[c] = pc[c]
           \/ pc[c] = "lifecycle" /\ pc'[c] = "catchUp"
           \/ pc[c] = "check" /\ pc'[c] \in {"follow", "drain"}
           \/ pc[c] = "follow" /\ pc'[c] = "drain"
  PROVE  StreamInv'
<1>1. RingIsTail' /\ RetainedOrGone'
  BY DEF StreamInv, RingIsTail, RetainedOrGone, Current, Known, IdsOf
<1>2. SubscribersFollow'
  <2>1. \A c \in Clients : c \in subs' <=> pc'[c] \notin {"idle", "closed"}
    BY DEF StreamInv, SubscribersFollow
  <2>2. QED
    BY <2>1 DEF StreamInv, SubscribersFollow, Current, Known
<1>3. ASSUME NEW c \in Clients
      PROVE  /\ ViewOrdered(c)'
             /\ c \in subs' => ViewCurrent(c)'
             /\ pc'[c] \in {"idle", "lifecycle", "catchUp"} => view'[c] = <<>> /\ maxOff'[c] = 0
             /\ pc'[c] \in {"check", "follow"} => Holes(c)' \subseteq gone'
  <2>1. ViewOrdered(c)' /\ (c \in subs' => ViewCurrent(c)')
    BY ViewStays, ViewCurrentStays
  <2>2. pc'[c] \in {"idle", "lifecycle", "catchUp"} => view'[c] = <<>> /\ maxOff'[c] = 0
    BY DEF StreamInv, Views
  <2>3. ASSUME pc'[c] \in {"check", "follow"}
        PROVE  Holes(c)' \subseteq gone'
    <3>1. Holes(c) \subseteq gone
      BY <2>3 DEF StreamInv, Views
    <3>2. QED
      BY <3>1, HolesStay
  <2>4. QED
    BY <2>1, <2>2, <2>3
<1>4. QED
  BY <1>1, <1>2, <1>3 DEF StreamInv, Views

\* The steps of the run's life and of settlement, but for Settle.
LEMMA RunQuiet ==
  ASSUME StreamInv,
         \/ StartRun \/ (\E r \in Runs : EmitTerminal(r)) \/ ReleaseLock \/ UpdateRunStatus
         \/ UNCHANGED vars
  PROVE  StreamInv'
<1> USE DEF StreamInv
<1>1. CASE StartRun
  <2>1. run' \in Runs /\ working' \in SUBSET Runs /\ phase' \in Phases
    BY <1>1 DEF StartRun, TypeOK, Runs, Session, Phases
  <2>2. TypeOK'
    BY <1>1, <2>1 DEF StartRun, TypeOK
  <2>3. QED
    BY <1>1, <2>2, QuietStep DEF StartRun
<1>2. ASSUME NEW r \in Runs, EmitTerminal(r)
      PROVE  StreamInv'
  <2>1. lifecycle' \in [Clients -> BOOLEAN]
    BY <1>2 DEF EmitTerminal
  <2>2. working' \in SUBSET Runs /\ phase' \in Phases
    BY <1>2 DEF EmitTerminal, TypeOK, Phases
  <2>3. TypeOK'
    BY <1>2, <2>1, <2>2 DEF EmitTerminal, TypeOK
  <2>4. QED
    BY <1>2, <2>3, QuietStep DEF EmitTerminal
<1>3. CASE ReleaseLock \/ UpdateRunStatus
  <2>1. TypeOK'
    BY <1>3 DEF ReleaseLock, UpdateRunStatus, TypeOK, Phases
  <2>2. QED
    BY <1>3, <2>1, QuietStep DEF ReleaseLock, UpdateRunStatus
<1>4. CASE UNCHANGED vars
  <2>1. TypeOK'
    BY <1>4 DEF TypeOK
  <2>2. QED
    BY <1>4, <2>1, QuietStep
<1>5. QED
  BY <1>1, <1>2, <1>3, <1>4

\* The steps of a client that write no frame.
LEMMA ClientQuiet ==
  ASSUME StreamInv, NEW c \in Clients,
         SubscribeLifecycle(c) \/ CheckSettled(c) \/ ReceiveLifecycle(c) \/ SettlePoll(c)
  PROVE  StreamInv'
<1> USE DEF StreamInv
<1>1. TypeOK'
  <2>1. CASE SubscribeLifecycle(c)
    BY <2>1 DEF SubscribeLifecycle, Goto, TypeOK, ClientPC
  <2>2. CASE CheckSettled(c)
    BY <2>2 DEF CheckSettled, Goto, TypeOK, ClientPC
  <2>3. CASE ReceiveLifecycle(c)
    BY <2>3 DEF ReceiveLifecycle, TypeOK
  <2>4. CASE SettlePoll(c)
    BY <2>4 DEF SettlePoll, Goto, TypeOK, ClientPC
  <2>5. QED
    BY <2>1, <2>2, <2>3, <2>4
<1>2. UNCHANGED <<next, ring, subs, pub, chan, maxOff, view, crun, sent, gone>>
  BY DEF SubscribeLifecycle, CheckSettled, ReceiveLifecycle, SettlePoll
<1>3. \A d \in Clients :
        \/ pc'[d] = pc[d]
        \/ pc[d] = "lifecycle" /\ pc'[d] = "catchUp"
        \/ pc[d] = "check" /\ pc'[d] \in {"follow", "drain"}
        \/ pc[d] = "follow" /\ pc'[d] = "drain"
  BY DEF SubscribeLifecycle, CheckSettled, ReceiveLifecycle, SettlePoll, Goto, TypeOK
<1>4. QED
  BY <1>1, <1>2, <1>3, QuietStep

\* Settlement drops the ring, and the numbering only when nobody follows.
LEMMA SettleStep ==
  ASSUME StreamInv, Settle
  PROVE  StreamInv'
<1> USE DEF StreamInv
<1>1. /\ ring' = <<>> /\ gone' = gone \cup IdsOf(ring) /\ next' = IF subs = {} THEN 0 ELSE next
      /\ phase' = "cleared" /\ UNCHANGED <<run, working, subs, pub, client, sent>>
  BY DEF Settle
<1>2. /\ next \in Nat /\ Len(sent) \in Nat /\ next <= Len(sent) /\ Len(sent) <= MaxFrames
      /\ next \in 0..MaxFrames /\ ring \in Seq(Frame) /\ gone \in SUBSET Ids
  BY DEF TypeOK, RingIsTail
<1>3. IdsOf(ring) \subseteq Ids
  <2>1. \A i \in DOMAIN ring : ring[i] \in Frame
    BY <1>2
  <2>2. \A x \in Frame : x.id \in Ids
    BY DEF Frame
  <2>3. QED
    BY <2>1, <2>2 DEF IdsOf
<1>4. TypeOK'
  <2>1. next' \in 0..MaxFrames
    BY <1>1, <1>2
  <2>2. ring' \in Seq(Frame) /\ Len(ring') <= Capacity
    BY <1>1
  <2>3. gone' \in SUBSET Ids
    BY <1>1, <1>2, <1>3
  <2>4. QED
    BY <1>1, <2>1, <2>2, <2>3 DEF TypeOK, Phases
<1>5. RingIsTail'
  BY <1>1, <1>2 DEF RingIsTail
<1>6. RetainedOrGone'
  BY <1>1 DEF RetainedOrGone
<1>7. subs # {} => next' = next
  BY <1>1
<1>8. SubscribersFollow'
  <2>1. ASSUME NEW c \in Clients, NEW i \in DOMAIN chan[c]
        PROVE  subs # {} /\ Current(chan[c][i])
    <3>1. chan[c] # <<>>
      BY <2>1 DEF TypeOK
    <3>2. QED
      BY <2>1, <3>1 DEF SubscribersFollow
  <2>2. ASSUME NEW p \in Publishers, pub[p] # Idle
        PROVE  subs # {} /\ pub[p].todo # {} /\ pub[p].todo \subseteq subs /\ Current(pub[p].frame)
    BY <2>2 DEF SubscribersFollow
  <2>3. QED
    BY <1>1, <1>7, <2>1, <2>2 DEF SubscribersFollow, Current, Known
<1>9. Views'
  <2>1. ASSUME NEW c \in Clients
        PROVE  /\ ViewOrdered(c)'
               /\ c \in subs' => ViewCurrent(c)'
               /\ pc'[c] \in {"idle", "lifecycle", "catchUp"} => view'[c] = <<>> /\ maxOff'[c] = 0
               /\ pc'[c] \in {"check", "follow"} => Holes(c)' \subseteq gone'
    <3>1. ViewOrdered(c)'
      BY <1>1, ViewStays
    <3>2. ASSUME c \in subs'
          PROVE  ViewCurrent(c)'
      BY <1>1, <1>7, <3>2, ViewCurrentStays
    <3>3. pc'[c] \in {"idle", "lifecycle", "catchUp"} => view'[c] = <<>> /\ maxOff'[c] = 0
      BY <1>1 DEF Views
    <3>4. ASSUME pc'[c] \in {"check", "follow"}
          PROVE  Holes(c)' \subseteq gone'
      <4>1. Holes(c) \subseteq gone
        BY <1>1, <3>4 DEF Views
      <4>2. QED
        BY <1>1, <4>1, HolesStay
    <3>5. QED
      BY <3>1, <3>2, <3>3, <3>4
  <2>2. QED
    BY <2>1 DEF Views
<1>10. QED
  BY <1>4, <1>5, <1>6, <1>8, <1>9

\* Publish under the lock.
LEMMA PublishAppendStep ==
  ASSUME StreamInv, NEW p \in Publishers, NEW r \in Runs \cup {Session}, PublishAppend(p, r)
  PROVE  StreamInv'
<1> USE DEF StreamInv
<1>1. /\ TypeOK' /\ RingIsTail' /\ RetainedOrGone'
      /\ Len(sent') - next' = Len(sent) - next /\ gone \subseteq gone'
      /\ sent' = Append(sent, r)
      /\ pub'[p] = Idle \/ (pub'[p].todo = subs /\ subs # {} /\ CurrentNext(pub'[p].frame))
      /\ \A o \in Publishers : o # p => pub'[o] = pub[o]
  BY AppendStep
<1>2. UNCHANGED <<subs, client>>
  BY DEF PublishAppend
<1>3. ASSUME NEW f, Current(f)
      PROVE  CurrentNext(f)
  BY <1>1, <1>3, KnownStays DEF Current, CurrentNext
<1>4. SubscribersFollow'
  <2>1. \A c \in Clients : \A i \in DOMAIN chan[c] : CurrentNext(chan[c][i])
    BY <1>3 DEF SubscribersFollow
  <2>2. ASSUME NEW o \in Publishers
        PROVE  \/ pub'[o] = Idle
               \/ pub'[o].todo # {} /\ pub'[o].todo \subseteq subs /\ CurrentNext(pub'[o].frame)
    <3>1. CASE o = p
      BY <1>1, <3>1
    <3>2. CASE o # p
      BY <1>1, <1>3, <3>2 DEF SubscribersFollow
    <3>3. QED
      BY <3>1, <3>2
  <2>3. QED
    BY <1>2, <2>1, <2>2 DEF SubscribersFollow, Current, Known, CurrentNext
<1>5. ASSUME NEW c \in Clients
      PROVE  /\ ViewOrdered(c)'
             /\ c \in subs' => ViewCurrent(c)'
             /\ pc'[c] \in {"idle", "lifecycle", "catchUp"} => view'[c] = <<>> /\ maxOff'[c] = 0
             /\ pc'[c] \in {"check", "follow"} => Holes(c)' \subseteq gone'
  <2>1. ViewOrdered(c)'
    BY <1>1, <1>2, ViewStays
  <2>2. ASSUME c \in subs'
        PROVE  ViewCurrent(c)'
    BY <1>1, <1>2, <2>2, ViewCurrentStays
  <2>3. pc'[c] \in {"idle", "lifecycle", "catchUp"} => view'[c] = <<>> /\ maxOff'[c] = 0
    BY <1>2 DEF Views
  <2>4. ASSUME pc'[c] \in {"check", "follow"}
        PROVE  Holes(c)' \subseteq gone'
    <3>1. Holes(c) \subseteq gone
      BY <1>2, <2>4 DEF Views
    <3>2. QED
      BY <1>1, <1>2, <3>1, HolesStay
  <2>5. QED
    BY <2>1, <2>2, <2>3, <2>4
<1>6. QED
  BY <1>1, <1>4, <1>5 DEF Views

\* When the numbering and what was published stay, so does a frame's place in it.
LEMMA SameNumbering ==
  ASSUME StreamInv, sent' = sent, next' = next, NEW f
  PROVE  Current(f) <=> CurrentNext(f)
  BY DEF Current, Known, CurrentNext

\* A client that a step leaves alone.
LEMMA ViewsStay ==
  ASSUME StreamInv, UNCHANGED <<sent, gone>>, NEW d \in Clients,
         view'[d] = view[d], maxOff'[d] = maxOff[d], crun'[d] = crun[d], pc'[d] = pc[d],
         d \in subs' => d \in subs /\ next' = next
  PROVE  /\ ViewOrdered(d)'
         /\ d \in subs' => ViewCurrent(d)'
         /\ pc'[d] \in {"idle", "lifecycle", "catchUp"} => view'[d] = <<>> /\ maxOff'[d] = 0
         /\ pc'[d] \in {"check", "follow"} => Holes(d)' \subseteq gone'
<1>1. ViewOrdered(d)'
  BY ViewStays
<1>2. ASSUME d \in subs'
      PROVE  ViewCurrent(d)'
  BY <1>2, ViewCurrentStays
<1>3. pc'[d] \in {"idle", "lifecycle", "catchUp"} => view'[d] = <<>> /\ maxOff'[d] = 0
  BY DEF StreamInv, Views
<1>4. ASSUME pc'[d] \in {"check", "follow"}
      PROVE  Holes(d)' \subseteq gone'
  <2>1. Holes(d) \subseteq gone
    BY <1>4 DEF StreamInv, Views
  <2>2. QED
    BY <2>1, HolesStay
<1>5. QED
  BY <1>1, <1>2, <1>3, <1>4

\* Publish after the unlock.
LEMMA PublishSendStep ==
  ASSUME StreamInv, NEW p \in Publishers, NEW c \in Clients, PublishSend(p, c)
  PROVE  StreamInv'
<1> USE DEF StreamInv
<1> DEFINE left == pub[p].todo \ {c}
           f == pub[p].frame
<1>1. /\ c \in pub[p].todo
      /\ chan' = [chan EXCEPT ![c] = IF Len(chan[c]) < Buffer THEN Append(chan[c], f) ELSE chan[c]]
      /\ pub' = [pub EXCEPT ![p] = IF left = {} THEN Idle ELSE [pub[p] EXCEPT !.todo = left]]
      /\ UNCHANGED <<runVars, next, ring, subs, pc, crun, lifecycle, terminal, maxOff, view,
                     sent, gone>>
  BY DEF PublishSend, TypeOK
<1>2. pub[p] # Idle /\ pub[p].todo \subseteq subs /\ Current(f) /\ c \in subs
  <2>1. pub[p] # Idle
    BY <1>1 DEF Idle
  <2>2. QED
    BY <1>1, <2>1 DEF SubscribersFollow
<1>3. f \in Frame
  BY <1>2 DEF Current, Known
<1>4. pub[p] \in [todo : SUBSET Clients, frame : Frame \cup {<<>>}]
  BY DEF TypeOK
<1>5. /\ pub' \in [Publishers -> [todo : SUBSET Clients, frame : Frame \cup {<<>>}]]
      /\ pub'[p] = Idle \/ (pub'[p].todo = left /\ left # {} /\ pub'[p].frame = f)
      /\ \A o \in Publishers : o # p => pub'[o] = pub[o]
  <2>1. Idle \in [todo : SUBSET Clients, frame : Frame \cup {<<>>}]
    BY DEF Idle
  <2>2. /\ [pub[p] EXCEPT !.todo = left] \in [todo : SUBSET Clients, frame : Frame \cup {<<>>}]
        /\ [pub[p] EXCEPT !.todo = left].todo = left
        /\ [pub[p] EXCEPT !.todo = left].frame = f
    BY <1>4
  <2>3. QED
    BY <1>1, <2>1, <2>2 DEF TypeOK
<1> DEFINE q == IF Len(chan[c]) < Buffer THEN Append(chan[c], f) ELSE chan[c]
<1>6. /\ q \in Seq(Frame) /\ Len(q) <= Buffer
      /\ \A i \in DOMAIN q : Current(q[i])
  <2>1. /\ chan[c] \in Seq(Frame) /\ Len(chan[c]) <= Buffer
        /\ \A i \in DOMAIN chan[c] : Current(chan[c][i])
    BY DEF TypeOK, SubscribersFollow
  <2>2. CASE Len(chan[c]) < Buffer
    <3>1. /\ Append(chan[c], f) \in Seq(Frame)
          /\ Len(Append(chan[c], f)) = Len(chan[c]) + 1
          /\ \A i \in DOMAIN Append(chan[c], f) :
               \/ i \in DOMAIN chan[c] /\ Append(chan[c], f)[i] = chan[c][i]
               \/ Append(chan[c], f)[i] = f
      BY <1>3, <2>1
    <3>2. Len(chan[c]) + 1 <= Buffer
      BY <2>1, <2>2
    <3>3. QED
      BY <1>2, <2>1, <2>2, <3>1, <3>2
  <2>3. CASE ~(Len(chan[c]) < Buffer)
    BY <2>1, <2>3
  <2>4. QED
    BY <2>2, <2>3
<1> HIDE DEF q, f, left
<1>7. chan' = [chan EXCEPT ![c] = q]
  BY <1>1 DEF q, f
<1>8. /\ chan' \in [Clients -> Seq(Frame)] /\ chan'[c] = q
      /\ \A d \in Clients : d # c => chan'[d] = chan[d]
  BY <1>6, <1>7 DEF TypeOK
<1>9. TypeOK'
  <2>1. \A d \in Clients : Len(chan'[d]) <= Buffer
    BY <1>6, <1>8 DEF TypeOK
  <2>2. QED
    BY <1>1, <1>5, <1>8, <2>1 DEF TypeOK
<1>10. RingIsTail' /\ RetainedOrGone'
  BY <1>1 DEF RingIsTail, RetainedOrGone, Current, Known, IdsOf
<1>11. SubscribersFollow'
  <2>1. \A d \in Clients : d \notin subs => chan'[d] = <<>>
    BY <1>2, <1>8 DEF SubscribersFollow
  <2>2. \A d \in Clients : \A i \in DOMAIN chan'[d] : Current(chan'[d][i])
    BY <1>6, <1>8 DEF SubscribersFollow
  <2>3. ASSUME NEW o \in Publishers
        PROVE  \/ pub'[o] = Idle
               \/ pub'[o].todo # {} /\ pub'[o].todo \subseteq subs /\ Current(pub'[o].frame)
    <3>1. CASE o = p
      BY <1>2, <1>5, <3>1 DEF left
    <3>2. CASE o # p
      BY <1>5, <3>2 DEF SubscribersFollow
    <3>3. QED
      BY <3>1, <3>2
  <2>4. QED
    BY <1>1, <2>1, <2>2, <2>3 DEF SubscribersFollow, Current, Known
<1>12. Views'
  BY <1>1, ViewsStay DEF Views
<1>13. QED
  BY <1>9, <1>10, <1>11, <1>12

\* A client subscribes before it has been sent anything.
LEMMA SubscribeStep ==
  ASSUME StreamInv, NEW c \in Clients, SubscribeContent(c)
  PROVE  StreamInv'
<1> USE DEF StreamInv
<1>1. /\ pc[c] = "idle" /\ crun' = [crun EXCEPT ![c] = run] /\ subs' = subs \cup {c}
      /\ pc' = [pc EXCEPT ![c] = "lifecycle"]
      /\ UNCHANGED <<runVars, next, ring, pub, chan, lifecycle, terminal, maxOff, view, sent, gone>>
  BY DEF SubscribeContent, Goto
<1>2. TypeOK'
  BY <1>1 DEF TypeOK, ClientPC
<1>3. RingIsTail' /\ RetainedOrGone'
  BY <1>1 DEF RingIsTail, RetainedOrGone, Current, Known, IdsOf
<1>4. /\ pc'[c] = "lifecycle"
      /\ \A d \in Clients : d # c => pc'[d] = pc[d] /\ crun'[d] = crun[d]
  BY <1>1 DEF TypeOK
<1>5. SubscribersFollow'
  <2>1. \A d \in Clients : d \in subs' <=> pc'[d] \notin {"idle", "closed"}
    BY <1>1, <1>4 DEF SubscribersFollow
  <2>2. QED
    BY <1>1, <2>1 DEF SubscribersFollow, Current, Known
<1>6. view[c] = <<>> /\ maxOff[c] = 0
  BY <1>1 DEF Views
<1>7. ASSUME NEW d \in Clients
      PROVE  /\ ViewOrdered(d)'
             /\ d \in subs' => ViewCurrent(d)'
             /\ pc'[d] \in {"idle", "lifecycle", "catchUp"} => view'[d] = <<>> /\ maxOff'[d] = 0
             /\ pc'[d] \in {"check", "follow"} => Holes(d)' \subseteq gone'
  <2>1. CASE d = c
    <3>1. view'[c] = <<>> /\ maxOff'[c] = 0 /\ pc'[c] = "lifecycle"
      BY <1>1, <1>4, <1>6
    <3>2. DOMAIN view'[c] = {}
      BY <3>1
    <3>3. QED
      BY <2>1, <3>1, <3>2 DEF ViewOrdered, ViewCurrent
  <2>2. CASE d # c
    BY <1>1, <1>4, <2>2, ViewsStay
  <2>3. QED
    BY <2>1, <2>2
<1>8. QED
  BY <1>2, <1>3, <1>5, <1>7 DEF Views

\* The frames a step sends to a subscriber keep its view in order; the other
\* clients are left alone.
LEMMA EmitViews ==
  ASSUME StreamInv, NEW c \in Clients, c \in subs, NEW fs, Sendable(c, fs), EmitStream(c, fs),
         UNCHANGED <<sent, gone, crun>>,
         \A d \in Clients : d # c => pc'[d] = pc[d],
         \A d \in subs' : d \in subs /\ next' = next,
         pc'[c] \notin {"idle", "lifecycle", "catchUp"},
         pc'[c] \in {"check", "follow"} =>
           /\ view[c] = <<>> \/ Holes(c) \subseteq gone
           /\ \A r \in DOMAIN ring :
                Fresh(ring[r], c) /\ (\E i \in DOMAIN fs : ring[r].off < fs[i].off)
                  => \E k \in DOMAIN fs : fs[k] = ring[r]
  PROVE  Views'
<1>1. /\ \A d \in Clients : d # c => view'[d] = view[d] /\ maxOff'[d] = maxOff[d]
      /\ \A i \in DOMAIN view'[c] :
           Current(view'[c][i]) /\ view'[c][i].run \in {crun[c], Session}
      /\ \A i, j \in DOMAIN view'[c] : i < j => view'[c][i].id < view'[c][j].id
      /\ maxOff'[c] = IF view'[c] = <<>> THEN 0 ELSE view'[c][Len(view'[c])].off
  BY EmitExtends
<1>2. \A d \in Clients : d # c =>
        /\ ViewOrdered(d)'
        /\ d \in subs' => ViewCurrent(d)'
        /\ pc'[d] \in {"idle", "lifecycle", "catchUp"} => view'[d] = <<>> /\ maxOff'[d] = 0
        /\ pc'[d] \in {"check", "follow"} => Holes(d)' \subseteq gone'
  BY <1>1, ViewsStay
<1>3. ViewOrdered(c)'
  <2>1. \A i \in DOMAIN view'[c] :
          /\ view'[c][i] \in Frame
          /\ view'[c][i].id \in DOMAIN sent' /\ sent'[view'[c][i].id] = view'[c][i].run
    BY <1>1 DEF Current, Known
  <2>2. QED
    BY <1>1, <2>1 DEF ViewOrdered, Known
<1>4. ASSUME c \in subs'
      PROVE  ViewCurrent(c)'
  <2>1. next' = next
    BY <1>4
  <2>2. \A i \in DOMAIN view'[c] : CurrentNext(view'[c][i])
    BY <1>1, <2>1, SameNumbering
  <2>3. QED
    BY <1>1, <2>2 DEF ViewCurrent, Current, Known, CurrentNext
<1>5. ASSUME pc'[c] \in {"check", "follow"}
      PROVE  Holes(c)' \subseteq gone'
  <2>1. \A id \in DOMAIN sent :
          /\ sent[id] = crun[c] /\ id \notin IdsOf(view'[c])
          /\ \E i \in DOMAIN view'[c] : id < view'[c][i].id
          => id \in gone
    BY <1>5, EmitFillsHoles
  <2>2. QED
    BY <2>1 DEF Holes, IdsOf
<1>6. ASSUME NEW d \in Clients
      PROVE  /\ ViewOrdered(d)'
             /\ d \in subs' => ViewCurrent(d)'
             /\ pc'[d] \in {"idle", "lifecycle", "catchUp"} => view'[d] = <<>> /\ maxOff'[d] = 0
             /\ pc'[d] \in {"check", "follow"} => Holes(d)' \subseteq gone'
  <2>1. CASE d = c
    BY <1>3, <1>4, <1>5, <2>1
  <2>2. CASE d # c
    BY <1>2, <2>2
  <2>3. QED
    BY <2>1, <2>2
<1>7. QED
  BY <1>6 DEF Views

\* The catch-up sends everything that the ring retains.
LEMMA CatchUpStep ==
  ASSUME StreamInv, NEW c \in Clients, CatchUp(c)
  PROVE  StreamInv'
<1> USE DEF StreamInv
<1>1. /\ pc[c] = "catchUp" /\ EmitStream(c, Retained(c)) /\ pc' = [pc EXCEPT ![c] = "check"]
      /\ UNCHANGED <<runVars, broker, crun, chan, lifecycle, terminal, sent, gone>>
  BY DEF CatchUp, Goto
<1>2. c \in subs /\ view[c] = <<>>
  BY <1>1 DEF SubscribersFollow, Views
<1>3. pc'[c] = "check" /\ \A d \in Clients : d # c => pc'[d] = pc[d]
  BY <1>1 DEF TypeOK
<1>4. Sendable(c, Retained(c))
  BY RetainedSendable
<1>5. TypeOK'
  <2>1. view' \in [Clients -> Seq(Frame)] /\ maxOff' \in [Clients -> 0..MaxFrames]
    BY <1>1, <1>2, <1>4, EmitExtends
  <2>2. QED
    BY <1>1, <2>1 DEF TypeOK, ClientPC
<1>6. RingIsTail' /\ RetainedOrGone'
  BY <1>1 DEF RingIsTail, RetainedOrGone, Current, Known, IdsOf
<1>7. SubscribersFollow'
  <2>1. \A d \in Clients : d \in subs' <=> pc'[d] \notin {"idle", "closed"}
    BY <1>1, <1>2, <1>3 DEF SubscribersFollow
  <2>2. QED
    BY <1>1, <2>1 DEF SubscribersFollow, Current, Known
<1>8. Views'
  <2>1. \A r \in DOMAIN ring : Fresh(ring[r], c) =>
          \E k \in DOMAIN Retained(c) : Retained(c)[k] = ring[r]
    BY RetainedSendable
  <2>2. QED
    BY <1>1, <1>2, <1>3, <1>4, <2>1, EmitViews
<1>9. QED
  BY <1>5, <1>6, <1>7, <1>8

\* A queued frame leaves the channel and, with what precedes it, is sent or not.
LEMMA TakeStep ==
  ASSUME StreamInv, NEW c \in Clients, pc[c] \in {"follow", "drain"}, chan[c] # <<>>,
         chan' = [chan EXCEPT ![c] = Tail(@)],
         NEW fs, Sendable(c, fs), EmitStream(c, fs),
         pc[c] = "follow" =>
           \A r \in DOMAIN ring :
             Fresh(ring[r], c) /\ (\E i \in DOMAIN fs : ring[r].off < fs[i].off)
               => \E k \in DOMAIN fs : fs[k] = ring[r],
         UNCHANGED <<runVars, broker, pc, crun, lifecycle, terminal, sent, gone>>
  PROVE  StreamInv'
<1> USE DEF StreamInv
<1>1. c \in subs
  BY DEF SubscribersFollow
<1>2. /\ chan[c] \in Seq(Frame) /\ Len(chan[c]) <= Buffer /\ Len(chan[c]) \in Nat
      /\ \A i \in DOMAIN chan[c] : Current(chan[c][i])
  BY DEF TypeOK, SubscribersFollow
<1>3. /\ Tail(chan[c]) \in Seq(Frame) /\ Len(Tail(chan[c])) = Len(chan[c]) - 1
      /\ \A i \in DOMAIN Tail(chan[c]) :
           i + 1 \in DOMAIN chan[c] /\ Tail(chan[c])[i] = chan[c][i + 1]
  BY <1>2
<1>4. /\ chan' \in [Clients -> Seq(Frame)] /\ chan'[c] = Tail(chan[c])
      /\ \A d \in Clients : d # c => chan'[d] = chan[d]
  BY <1>3 DEF TypeOK
<1>5. TypeOK'
  <2>1. view' \in [Clients -> Seq(Frame)] /\ maxOff' \in [Clients -> 0..MaxFrames]
    BY <1>1, EmitExtends
  <2>2. \A d \in Clients : Len(chan'[d]) <= Buffer
    BY <1>2, <1>3, <1>4 DEF TypeOK
  <2>3. QED
    BY <1>4, <2>1, <2>2 DEF TypeOK
<1>6. RingIsTail' /\ RetainedOrGone'
  BY DEF RingIsTail, RetainedOrGone, Current, Known, IdsOf
<1>7. SubscribersFollow'
  <2>1. \A d \in Clients : d \notin subs => chan'[d] = <<>>
    BY <1>1, <1>4 DEF SubscribersFollow
  <2>2. \A d \in Clients : \A i \in DOMAIN chan'[d] : Current(chan'[d][i])
    BY <1>2, <1>3, <1>4 DEF SubscribersFollow
  <2>3. QED
    BY <2>1, <2>2 DEF SubscribersFollow, Current, Known
<1>8. Views'
  <2>1. pc[c] = "follow" => Holes(c) \subseteq gone
    BY DEF Views
  <2>2. QED
    BY <1>1, <2>1, EmitViews
<1>9. QED
  BY <1>5, <1>6, <1>7, <1>8

\* The head of a channel is a frame of the present numbering.
LEMMA HeadCurrent ==
  ASSUME StreamInv, NEW c \in Clients, chan[c] # <<>>
  PROVE  Current(Head(chan[c]))
<1>1. chan[c] \in Seq(Frame) /\ \A i \in DOMAIN chan[c] : Current(chan[c][i])
  BY DEF StreamInv, TypeOK, SubscribersFollow
<1>2. 1 \in DOMAIN chan[c] /\ Head(chan[c]) = chan[c][1]
  BY <1>1
<1>3. QED
  BY <1>1, <1>2

\* Nothing may always be sent.
LEMMA NothingSendable ==
  ASSUME NEW c \in Clients
  PROVE  Sendable(c, <<>>)
  BY DEF Sendable

\* The live tail fills the hole before the frame that arrived.
LEMMA ReceiveStep ==
  ASSUME StreamInv, NEW c \in Clients, ReceiveContent(c)
  PROVE  StreamInv'
<1> DEFINE f == Head(chan[c])
<1>1. /\ pc[c] = "follow" /\ chan[c] # <<>>
      /\ chan' = [chan EXCEPT ![c] = Tail(@)]
      /\ EmitStream(c, IF Fresh(f, c) THEN Gap(c, f) \o <<f>> ELSE <<>>)
      /\ UNCHANGED <<runVars, broker, pc, crun, lifecycle, terminal, sent, gone>>
  BY DEF ReceiveContent
<1>2. Current(f)
  BY <1>1, HeadCurrent
<1> HIDE DEF f
<1>3. CASE Fresh(f, c)
  <2> DEFINE fs == Gap(c, f) \o <<f>>
  <2>1. /\ Sendable(c, fs)
        /\ \A r \in DOMAIN ring : Fresh(ring[r], c) /\ ring[r].off < f.off =>
             \E k \in DOMAIN fs : fs[k] = ring[r]
    BY <1>2, <1>3, GapSendable
  <2>2. EmitStream(c, fs)
    BY <1>1, <1>3
  <2>3. fs \in Seq(Frame) /\ Len(fs) \in Nat /\ Len(fs) \in DOMAIN fs /\ fs[Len(fs)] = f
    <3>1. fs \in Seq(Frame)
      BY <2>1 DEF Sendable
    <3>2. Gap(c, f) \in Seq(Frame)
      <4>1. CASE f.off > maxOff[c] + 1
        BY <4>1, RingAtLists DEF Gap
      <4>2. CASE ~(f.off > maxOff[c] + 1)
        BY <4>2 DEF Gap
      <4>3. QED
        BY <4>1, <4>2
    <3>3. f \in Frame
      BY <1>2 DEF Current, Known
    <3>4. QED
      BY <3>1, <3>2, <3>3
  <2> HIDE DEF fs
  <2>4. ASSUME NEW i \in DOMAIN fs
        PROVE  fs[i].off <= f.off
    <3>1. fs[i].off \in Nat /\ f.off \in Nat
      BY <1>2, <2>1, CurrentTypes DEF Sendable
    <3>2. CASE i = Len(fs)
      BY <2>3, <3>1, <3>2
    <3>3. CASE i # Len(fs)
      <4>1. i < Len(fs)
        BY <2>3, <3>3
      <4>2. fs[i].off < f.off
        BY <2>1, <2>3, <4>1 DEF Sendable
      <4>3. QED
        BY <3>1, <4>2
    <3>4. QED
      BY <3>2, <3>3
  <2>5. ASSUME NEW r \in DOMAIN ring, NEW i \in DOMAIN fs, ring[r].off < fs[i].off
        PROVE  ring[r].off < f.off
    <3>1. Current(ring[r]) /\ Current(fs[i])
      BY <2>1 DEF StreamInv, RingIsTail, Sendable
    <3>2. ring[r].off \in Nat /\ fs[i].off \in Nat /\ f.off \in Nat
      BY <1>2, <3>1, CurrentTypes
    <3>3. QED
      BY <2>4, <2>5, <3>2
  <2>6. \A r \in DOMAIN ring :
          Fresh(ring[r], c) /\ (\E i \in DOMAIN fs : ring[r].off < fs[i].off)
            => \E k \in DOMAIN fs : fs[k] = ring[r]
    BY <2>1, <2>5
  <2>7. QED
    BY <1>1, <2>1, <2>2, <2>6, TakeStep
<1>4. CASE ~Fresh(f, c)
  <2>1. PICK fs : fs = <<>>
    OBVIOUS
  <2>2. EmitStream(c, fs) /\ Sendable(c, fs) /\ DOMAIN fs = {}
    BY <1>1, <1>4, <2>1, NothingSendable
  <2>3. QED
    BY <1>1, <2>2, TakeStep
<1>5. QED
  BY <1>3, <1>4

\* The drain writes what is queued.
LEMMA DrainStep ==
  ASSUME StreamInv, NEW c \in Clients, DrainContent(c)
  PROVE  StreamInv'
<1> DEFINE f == Head(chan[c])
<1>1. /\ pc[c] = "drain" /\ chan[c] # <<>>
      /\ chan' = [chan EXCEPT ![c] = Tail(@)]
      /\ EmitStream(c, IF Fresh(f, c) THEN <<f>> ELSE <<>>)
      /\ UNCHANGED <<runVars, broker, pc, crun, lifecycle, terminal, sent, gone>>
  BY DEF DrainContent
<1>2. Current(f) /\ f \in Frame
  BY <1>1, HeadCurrent DEF Current, Known
<1> HIDE DEF f
<1>3. CASE Fresh(f, c)
  <2>1. Sendable(c, <<f>>)
    BY <1>2, <1>3 DEF Sendable
  <2>2. EmitStream(c, <<f>>)
    BY <1>1, <1>3
  <2>3. QED
    BY <1>1, <2>1, <2>2, TakeStep
<1>4. CASE ~Fresh(f, c)
  <2>1. EmitStream(c, <<>>)
    BY <1>1, <1>4
  <2>2. QED
    BY <1>1, <2>1, NothingSendable, TakeStep
<1>5. QED
  BY <1>3, <1>4

\* A client that leaves takes its sends and its channel with it, and the numbering
\* when nobody is left and nothing is retained.
LEMMA UnsubscribeStep ==
  ASSUME StreamInv, NEW c \in Clients, Unsubscribe(c), UNCHANGED <<ring, sent, gone>>,
         pc' \in [Clients -> ClientPC], pc'[c] \in {"idle", "closed"},
         \A d \in Clients : d # c => pc'[d] = pc[d]
  PROVE  /\ subs' \in SUBSET Clients /\ next' \in 0..MaxFrames
         /\ chan' \in [Clients -> Seq(Frame)] /\ \A d \in Clients : Len(chan'[d]) <= Buffer
         /\ pub' \in [Publishers -> [todo : SUBSET Clients, frame : Frame \cup {<<>>}]]
         /\ RingIsTail' /\ RetainedOrGone' /\ SubscribersFollow'
         /\ \A d \in subs' : d \in subs /\ d # c /\ next' = next
<1> USE DEF StreamInv
<1>1. /\ subs' = subs \ {c}
      /\ next' = IF subs' = {} /\ ring = <<>> THEN 0 ELSE next
      /\ chan' = [chan EXCEPT ![c] = <<>>]
      /\ pub' = [p \in Publishers |->
           IF pub[p].todo \subseteq {c} THEN Idle ELSE [pub[p] EXCEPT !.todo = @ \ {c}]]
  BY DEF Unsubscribe
<1>2. \A d \in subs' : d \in subs /\ d # c /\ next' = next
  BY <1>1
<1>3. subs' \in SUBSET Clients /\ next' \in 0..MaxFrames
  BY <1>1 DEF TypeOK
<1>4. /\ chan' \in [Clients -> Seq(Frame)] /\ chan'[c] = <<>>
      /\ \A d \in Clients : d # c => chan'[d] = chan[d]
      /\ \A d \in Clients : Len(chan'[d]) <= Buffer
  BY <1>1 DEF TypeOK
<1>5. ASSUME NEW p \in Publishers
      PROVE  /\ pub'[p] \in [todo : SUBSET Clients, frame : Frame \cup {<<>>}]
             /\ \/ pub'[p] = Idle
                \/ /\ pub'[p].todo # {} /\ pub'[p].todo \subseteq subs'
                   /\ pub'[p].frame = pub[p].frame /\ Current(pub[p].frame)
  <2>1. pub[p] \in [todo : SUBSET Clients, frame : Frame \cup {<<>>}]
    BY DEF TypeOK
  <2>2. CASE pub[p].todo \subseteq {c}
    <3>1. pub'[p] = Idle
      BY <1>1, <2>2
    <3>2. QED
      BY <3>1 DEF Idle
  <2>3. CASE ~(pub[p].todo \subseteq {c})
    <3>1. pub'[p] = [pub[p] EXCEPT !.todo = pub[p].todo \ {c}]
      BY <1>1, <2>3
    <3>2. /\ pub'[p] \in [todo : SUBSET Clients, frame : Frame \cup {<<>>}]
          /\ pub'[p].todo = pub[p].todo \ {c} /\ pub'[p].frame = pub[p].frame
      BY <2>1, <3>1
    <3>3. pub[p] # Idle
      BY <2>3 DEF Idle
    <3>4. QED
      BY <1>1, <2>3, <3>2, <3>3 DEF SubscribersFollow
  <2>4. QED
    BY <2>2, <2>3
<1>6. pub' \in [Publishers -> [todo : SUBSET Clients, frame : Frame \cup {<<>>}]]
  BY <1>1, <1>5
<1>7. RingIsTail' /\ RetainedOrGone'
  <2>1. CASE next' = next
    BY <2>1 DEF RingIsTail, RetainedOrGone, Current, Known, IdsOf
  <2>2. CASE next' # next
    <3>1. ring = <<>> /\ next' = 0
      BY <1>1, <2>2
    <3>2. QED
      BY <3>1 DEF RingIsTail, RetainedOrGone, IdsOf, TypeOK
  <2>3. QED
    BY <2>1, <2>2
<1>8. SubscribersFollow'
  <2>1. \A d \in Clients : d \in subs' <=> pc'[d] \notin {"idle", "closed"}
    BY <1>1 DEF SubscribersFollow
  <2>2. \A d \in Clients : d \notin subs' => chan'[d] = <<>>
    BY <1>1, <1>4 DEF SubscribersFollow
  <2>3. ASSUME NEW d \in Clients, NEW i \in DOMAIN chan'[d]
        PROVE  CurrentNext(chan'[d][i])
    <3>1. chan'[d] # <<>> /\ d # c
      BY <1>4, <2>3
    <3>2. d \in subs' /\ next' = next
      BY <1>2, <2>2, <3>1
    <3>3. Current(chan'[d][i])
      BY <1>4, <2>3, <3>1 DEF SubscribersFollow
    <3>4. QED
      BY <3>2, <3>3, SameNumbering
  <2>4. ASSUME NEW p \in Publishers
        PROVE  \/ pub'[p] = Idle
               \/ pub'[p].todo # {} /\ pub'[p].todo \subseteq subs' /\ CurrentNext(pub'[p].frame)
    <3>1. CASE pub'[p] = Idle
      BY <3>1
    <3>2. CASE pub'[p] # Idle
      <4>1. /\ pub'[p].todo # {} /\ pub'[p].todo \subseteq subs'
            /\ pub'[p].frame = pub[p].frame /\ Current(pub[p].frame)
        BY <1>5, <3>2
      <4>2. next' = next
        BY <1>2, <4>1
      <4>3. QED
        BY <4>1, <4>2, SameNumbering
    <3>3. QED
      BY <3>1, <3>2
  <2>5. QED
    BY <2>1, <2>2, <2>3, <2>4 DEF SubscribersFollow, Current, Known, CurrentNext
<1>9. QED
  BY <1>2, <1>3, <1>4, <1>6, <1>7, <1>8

\* The last read of the ring, and the end of the response.
LEMMA DrainRetainedStep ==
  ASSUME StreamInv, NEW c \in Clients, DrainRetained(c)
  PROVE  StreamInv'
<1> USE DEF StreamInv
<1>1. /\ pc[c] = "drain" /\ EmitStream(c, Retained(c)) /\ pc' = [pc EXCEPT ![c] = "closed"]
      /\ Unsubscribe(c) /\ UNCHANGED <<runVars, ring, crun, lifecycle, terminal, sent, gone>>
  BY DEF DrainRetained, Goto
<1>2. /\ pc' \in [Clients -> ClientPC] /\ pc'[c] = "closed"
      /\ \A d \in Clients : d # c => pc'[d] = pc[d]
  BY <1>1 DEF TypeOK, ClientPC
<1>3. /\ subs' \in SUBSET Clients /\ next' \in 0..MaxFrames
      /\ chan' \in [Clients -> Seq(Frame)] /\ \A d \in Clients : Len(chan'[d]) <= Buffer
      /\ pub' \in [Publishers -> [todo : SUBSET Clients, frame : Frame \cup {<<>>}]]
      /\ RingIsTail' /\ RetainedOrGone' /\ SubscribersFollow'
      /\ \A d \in subs' : d \in subs /\ d # c /\ next' = next
  BY <1>1, <1>2, UnsubscribeStep
<1>4. c \in subs /\ Sendable(c, Retained(c))
  BY <1>1, RetainedSendable DEF SubscribersFollow
<1>5. view' \in [Clients -> Seq(Frame)] /\ maxOff' \in [Clients -> 0..MaxFrames]
  BY <1>1, <1>4, EmitExtends
<1>6. TypeOK'
  BY <1>1, <1>2, <1>3, <1>5 DEF TypeOK
<1>7. Views'
  BY <1>1, <1>2, <1>3, <1>4, EmitViews
<1>8. QED
  BY <1>3, <1>6, <1>7

\* A client that forgets what it was sent is as good as new.
LEMMA ForgetViews ==
  ASSUME StreamInv, NEW c \in Clients, Forget(c), UNCHANGED <<sent, gone>>, c \notin subs',
         \A d \in subs' : d \in subs /\ next' = next
  PROVE  /\ Views'
         /\ pc' \in [Clients -> ClientPC] /\ pc'[c] = "idle"
         /\ \A d \in Clients : d # c => pc'[d] = pc[d]
         /\ crun' \in [Clients -> Runs \cup {Session}]
         /\ lifecycle' \in [Clients -> BOOLEAN] /\ terminal' \in [Clients -> BOOLEAN]
         /\ maxOff' \in [Clients -> 0..MaxFrames] /\ view' \in [Clients -> Seq(Frame)]
<1> USE DEF StreamInv
<1>1. /\ pc' \in [Clients -> ClientPC]
      /\ crun' \in [Clients -> Runs \cup {Session}]
      /\ lifecycle' \in [Clients -> BOOLEAN] /\ terminal' \in [Clients -> BOOLEAN]
  BY DEF Forget, Goto, TypeOK, ClientPC
<1>2. maxOff' \in [Clients -> 0..MaxFrames] /\ view' \in [Clients -> Seq(Frame)]
  BY DEF Forget, TypeOK
<1>3. /\ pc'[c] = "idle" /\ view'[c] = <<>> /\ maxOff'[c] = 0
      /\ \A d \in Clients : d # c =>
           /\ pc'[d] = pc[d] /\ crun'[d] = crun[d]
           /\ view'[d] = view[d] /\ maxOff'[d] = maxOff[d]
  BY DEF Forget, Goto, TypeOK
<1>4. ASSUME NEW d \in Clients
      PROVE  /\ ViewOrdered(d)'
             /\ d \in subs' => ViewCurrent(d)'
             /\ pc'[d] \in {"idle", "lifecycle", "catchUp"} => view'[d] = <<>> /\ maxOff'[d] = 0
             /\ pc'[d] \in {"check", "follow"} => Holes(d)' \subseteq gone'
  <2>1. CASE d = c
    <3>1. DOMAIN view'[c] = {}
      BY <1>3
    <3>2. QED
      BY <1>3, <2>1, <3>1 DEF ViewOrdered
  <2>2. CASE d # c
    BY <1>3, <2>2, ViewsStay
  <2>3. QED
    BY <2>1, <2>2
<1>5. QED
  BY <1>1, <1>2, <1>3, <1>4 DEF Views

\* The response is over.
LEMMA ReturnStep ==
  ASSUME StreamInv, NEW c \in Clients, Return(c)
  PROVE  StreamInv'
<1> USE DEF StreamInv
<1>1. pc[c] = "closed" /\ Forget(c) /\ UNCHANGED <<runVars, broker, chan, sent, gone>>
  BY DEF Return
<1>2. c \notin subs'
  BY <1>1 DEF SubscribersFollow
<1>3. /\ Views'
      /\ pc' \in [Clients -> ClientPC] /\ pc'[c] = "idle"
      /\ \A d \in Clients : d # c => pc'[d] = pc[d]
      /\ crun' \in [Clients -> Runs \cup {Session}]
      /\ lifecycle' \in [Clients -> BOOLEAN] /\ terminal' \in [Clients -> BOOLEAN]
      /\ maxOff' \in [Clients -> 0..MaxFrames] /\ view' \in [Clients -> Seq(Frame)]
  BY <1>1, <1>2, ForgetViews
<1>4. TypeOK'
  BY <1>1, <1>3 DEF TypeOK
<1>5. RingIsTail' /\ RetainedOrGone'
  BY <1>1 DEF RingIsTail, RetainedOrGone, Current, Known, IdsOf
<1>6. SubscribersFollow'
  <2>1. \A d \in Clients : d \in subs' <=> pc'[d] \notin {"idle", "closed"}
    BY <1>1, <1>2, <1>3 DEF SubscribersFollow
  <2>2. QED
    BY <1>1, <2>1 DEF SubscribersFollow, Current, Known
<1>7. QED
  BY <1>3, <1>4, <1>5, <1>6

\* The client goes away.
LEMMA DisconnectStep ==
  ASSUME StreamInv, NEW c \in Clients, Disconnect(c)
  PROVE  StreamInv'
<1> USE DEF StreamInv
<1>1. Forget(c) /\ Unsubscribe(c) /\ UNCHANGED <<runVars, ring, sent, gone>>
  BY DEF Disconnect
<1>2. c \notin subs' /\ \A d \in subs' : d \in subs /\ next' = next
  BY <1>1 DEF Unsubscribe
<1>3. /\ Views'
      /\ pc' \in [Clients -> ClientPC] /\ pc'[c] = "idle"
      /\ \A d \in Clients : d # c => pc'[d] = pc[d]
      /\ crun' \in [Clients -> Runs \cup {Session}]
      /\ lifecycle' \in [Clients -> BOOLEAN] /\ terminal' \in [Clients -> BOOLEAN]
      /\ maxOff' \in [Clients -> 0..MaxFrames] /\ view' \in [Clients -> Seq(Frame)]
  BY <1>1, <1>2, ForgetViews
<1>4. /\ subs' \in SUBSET Clients /\ next' \in 0..MaxFrames
      /\ chan' \in [Clients -> Seq(Frame)] /\ \A d \in Clients : Len(chan'[d]) <= Buffer
      /\ pub' \in [Publishers -> [todo : SUBSET Clients, frame : Frame \cup {<<>>}]]
      /\ RingIsTail' /\ RetainedOrGone' /\ SubscribersFollow'
  BY <1>1, <1>3, UnsubscribeStep
<1>5. TypeOK'
  BY <1>1, <1>3, <1>4 DEF TypeOK
<1>6. QED
  BY <1>3, <1>4, <1>5

-----------------------------------------------------------------------------
(* The theorems.                                                           *)

\* Init establishes the invariant.
LEMMA StreamInit == Init => StreamInv
<1> SUFFICES ASSUME Init PROVE StreamInv
  OBVIOUS
<1>1. TypeOK
  BY DEF Init, TypeOK, Runs, Session, Phases, ClientPC, Idle
<1>2. RingIsTail /\ RetainedOrGone
  BY DEF Init, RingIsTail, RetainedOrGone, IdsOf
<1>3. SubscribersFollow
  BY DEF Init, SubscribersFollow
<1>4. Views
  BY DEF Init, Views, ViewOrdered, ViewCurrent
<1>5. QED
  BY <1>1, <1>2, <1>3, <1>4 DEF StreamInv

\* Every step keeps it.
LEMMA StreamStep == StreamInv /\ [Next]_vars => StreamInv'
  BY RunQuiet, ClientQuiet, SettleStep, PublishAppendStep, PublishSendStep, SubscribeStep,
     CatchUpStep, ReceiveStep, DrainStep, DrainRetainedStep, ReturnStep, DisconnectStep
     DEF Next, RunStep, AttachStep

\* The inductive invariant holds in every state of every behaviour.
THEOREM StreamInvariant == Spec => []StreamInv
  BY StreamInit, StreamStep, PTL DEF Spec

\* Whatever the sizes of the ring and of the channels, and however publishers,
\* settlement and clients interleave, a client is sent frames of its run only,
\* each at most once and in order, and while it follows it misses only what the
\* ring itself lost.
THEOREM ViewIsFaithful == Spec => []ViewFaithful
<1>1. StreamInv => ViewFaithful
  BY DEF StreamInv, Views, ViewOrdered, ViewFaithful, ViewInOrder, OnlyItsRun, FollowHasNoHole
<1>2. QED
  BY <1>1, StreamInvariant, PTL
=============================================================================
