----------------------------- MODULE RecordProofs -----------------------------
(***************************************************************************)
(* Proofs about what the server writes down: the step ledger, images and   *)
(* their removers, for every number of runs, calls, images and sessions    *)
(* and every bound.                                                        *)
(***************************************************************************)
EXTENDS MCRecord, FiniteSetTheorems, SequenceTheorems, WellFoundedInduction, TLAPS

-----------------------------------------------------------------------------
(* Numbers, sets and sequences.                                            *)

\* A set of numbers that is not empty has a least element.
LEMMA LeastOf ==
  ASSUME NEW D \in SUBSET Nat, D # {}
  PROVE  \E m \in D : \A k \in D : m <= k
<1>1. PICK m \in D : \A k \in D : ~(<<k, m>> \in OpToRel(<, Nat))
  BY WFMin, NatLessThanWellFounded, Zenon
<1>2. OpToRel(<, Nat) = {ss \in Nat \X Nat : ss[1] < ss[2]}
  BY Zenon DEF OpToRel
<1>3. \A k \in D : k < m => <<k, m>> \in {ss \in Nat \X Nat : ss[1] < ss[2]}
  OBVIOUS
<1>4. \A k \in D : ~(k < m)
  BY <1>1, <1>2, <1>3, Zenon
<1>5. QED
  BY <1>4

\* One that is bounded has a greatest.
LEMMA GreatestOf ==
  ASSUME NEW n \in Nat, NEW D \in SUBSET (1..n), D # {}
  PROVE  \E m \in D : \A k \in D : k <= m
<1> DEFINE E == {n - k : k \in D}
<1>1. E \in SUBSET Nat /\ E # {}
  <2>1. \A k \in D : n - k \in Nat
    OBVIOUS
  <2>2. QED
    BY <2>1
<1>2. PICK e \in E : \A f \in E : e <= f
  BY <1>1, LeastOf
<1>3. PICK m \in D : e = n - m
  OBVIOUS
<1>4. ASSUME NEW k \in D PROVE k <= m
  BY <1>2, <1>3
<1>5. QED
  BY <1>4

\* What an append leaves and adds.
LEMMA AppendAt ==
  ASSUME NEW A, NEW s \in Seq(A), NEW e \in A, NEW t, t = Append(s, e)
  PROVE  /\ t \in Seq(A) /\ Len(s) \in Nat /\ Len(t) = Len(s) + 1 /\ t[Len(s) + 1] = e
         /\ DOMAIN s = 1..Len(s) /\ DOMAIN t = 1..(Len(s) + 1)
         /\ \A i \in DOMAIN s : i \in DOMAIN t /\ t[i] = s[i] /\ t[i] \in A
         /\ \A i \in DOMAIN t : i \in DOMAIN s \/ i = Len(s) + 1
OBVIOUS

\* A subset of a finite set, with and without one of its members.
LEMMA CountOne ==
  ASSUME NEW B, IsFiniteSet(B), NEW D \in SUBSET B, NEW f
  PROVE  /\ Cardinality(D) \in Nat /\ Cardinality(D \ {f}) \in Nat
         /\ Cardinality(D) = Cardinality(D \ {f}) + (IF f \in D THEN 1 ELSE 0)
<1>1. IsFiniteSet(D)
  BY FS_Subset
<1>2. IsFiniteSet(D \ {f}) /\ Cardinality(D) \in Nat
  BY <1>1, FS_RemoveElement, FS_CardinalityType
<1>3. Cardinality(D \ {f}) \in Nat
  BY <1>2, FS_CardinalityType
<1>4. CASE f \in D
  <2>1. Cardinality(D \ {f}) = Cardinality(D) - 1
    BY <1>1, <1>4, FS_RemoveElement
  <2>2. Cardinality(D) = Cardinality(D \ {f}) + 1
    BY <1>2, <1>3, <2>1
  <2>3. QED
    BY <1>2, <1>3, <1>4, <2>2
<1>5. CASE f \notin D
  <2>1. D \ {f} = D
    BY <1>5
  <2>2. Cardinality(D) = Cardinality(D \ {f}) + 0
    BY <1>2, <2>1
  <2>3. QED
    BY <1>2, <1>3, <1>5, <2>2
<1>6. QED
  BY <1>4, <1>5

\* How many entries of a sequence satisfy a condition, before and after an append.
LEMMA CountAppend ==
  ASSUME NEW n \in Nat, NEW D \in SUBSET (1..n), NEW E \in SUBSET (1..(n + 1)), E \ {n + 1} = D
  PROVE  /\ Cardinality(D) \in Nat /\ IsFiniteSet(D)
         /\ Cardinality(E) = Cardinality(D) + (IF n + 1 \in E THEN 1 ELSE 0)
<1>1. IsFiniteSet(1..(n + 1)) /\ D \in SUBSET (1..(n + 1))
  BY FS_Interval
<1>2. IsFiniteSet(D)
  BY <1>1, FS_Subset
<1>3. /\ Cardinality(D) \in Nat
      /\ Cardinality(E) = Cardinality(E \ {n + 1}) + (IF n + 1 \in E THEN 1 ELSE 0)
  <2>1. Cardinality(E) = Cardinality(E \ {n + 1}) + (IF n + 1 \in E THEN 1 ELSE 0)
    <3>1. PICK f : f = n + 1
      OBVIOUS
    <3>2. PICK B : B = 1..(n + 1)
      OBVIOUS
    <3>3. IsFiniteSet(B) /\ E \in SUBSET B
      BY <1>1, <3>2
    <3>4. Cardinality(E) = Cardinality(E \ {f}) + (IF f \in E THEN 1 ELSE 0)
      BY ONLY <3>3, CountOne
    <3>5. QED
      BY ONLY <3>1, <3>4
  <2>2. QED
    BY <1>2, <2>1, FS_CardinalityType
<1>4. QED
  BY <1>2, <1>3

LEMMA SizeIs == \A D : L!Cardinality(D) = Cardinality(D)
BY Zenon DEF L!Cardinality, Cardinality

-----------------------------------------------------------------------------
(* The ledger: rows, messages and their ids.                               *)

StepRow == [run : Runs, kind : {"assistant", "tool", "overflow_compact"}, attempt : Nat, id : Nat]
Message == [id : Nat, run : Runs, role : {"user", "assistant", "tool"}]
Spend == [run : Runs, cause : {"assistant", "overflow"}, id : Nat, attempt : Nat]
Intent == [kind : {"none", "assistant", "tool"}, id : Nat, attempt : Nat]
LoopPC == {"idle", "model", "request", "settle", "store", "batch", "end"}
LoopState == [pc : LoopPC, queue : Seq(Intent), batch : Nat, stop : BOOLEAN, recovered : BOOLEAN]
CallPC == {"todo", "push", "run", "done"}

LedgerTypes ==
  /\ nextId \in Nat /\ steps \in Seq(StepRow) /\ msgs \in Seq(Message) /\ usage \in Seq(Spend)
  /\ total \in [Runs -> Nat] /\ row \in [Runs -> {"none", "active", "settled"}]
  /\ loop \in [Runs -> LoopState] /\ call \in [Runs -> [Calls -> CallPC]]
  /\ verdict \in [Runs -> {"none", "bare", "completed", "interrupted"}]
  /\ responses \in [Runs -> Nat] /\ flight \in [Runs -> BOOLEAN]

\* A step of the run, of that kind, provisioned the id.
Backed(id, r, kind) ==
  \E i \in DOMAIN steps : steps[i].id = id /\ steps[i].run = r /\ steps[i].kind = kind

\* An id has one run and one kind of step, and its message is of that run and kind.
IdsOwned ==
  /\ \A i \in DOMAIN steps : steps[i].id <= nextId
  /\ \A j \in DOMAIN msgs : msgs[j].id > 0 /\ msgs[j].id <= nextId
  /\ \A i, j \in DOMAIN steps :
       steps[i].id # 0 /\ steps[i].id = steps[j].id =>
         steps[i].run = steps[j].run /\ steps[i].kind = steps[j].kind
  /\ \A i \in DOMAIN steps, j \in DOMAIN msgs :
       steps[i].id # 0 /\ steps[i].id = msgs[j].id =>
         msgs[j].run = steps[i].run /\ L!Kinds[msgs[j].role] = steps[i].kind

\* The steps of t that count as effects, and the id of the newest of them.
Effects(t, r) == {i \in DOMAIN t : t[i].run = r /\ t[i].kind # "overflow_compact"}
NewestOf(t, r) ==
  IF Effects(t, r) = {} THEN 0
  ELSE t[CHOOSE i \in Effects(t, r) : \A j \in Effects(t, r) : j <= i].id
Newest(r) == NewestOf(steps, r)

\* The effect a run's newest step announced is over.
Over(r) == Newest(r) = 0 \/ L!ResultExists(Newest(r)) \/ Newest(r) \in dropped

LEMMA NewestStepIs == \A r : L!NewestStep(r).id = Newest(r)
BY DEF L!NewestStep, Newest, NewestOf, Effects, L!None

LEMMA RowFacts ==
  ASSUME NEW t \in Seq(StepRow)
  PROVE  /\ Len(t) \in Nat /\ DOMAIN t = 1..Len(t)
         /\ \A i \in DOMAIN t : /\ i \in Nat /\ t[i] \in StepRow /\ t[i].id \in Nat /\ t[i].run \in Runs
                                /\ t[i].kind \in {"assistant", "tool", "overflow_compact"}
<1>1. Len(t) \in Nat /\ DOMAIN t = 1..Len(t) /\ \A i \in DOMAIN t : t[i] \in StepRow
  OBVIOUS
<1>2. QED
  BY <1>1 DEF StepRow

LEMMA MessageFacts ==
  ASSUME NEW t \in Seq(Message)
  PROVE  /\ Len(t) \in Nat /\ DOMAIN t = 1..Len(t)
         /\ \A i \in DOMAIN t : /\ i \in Nat /\ t[i] \in Message /\ t[i].id \in Nat /\ t[i].run \in Runs
                                /\ t[i].role \in {"user", "assistant", "tool"}
<1>1. Len(t) \in Nat /\ DOMAIN t = 1..Len(t) /\ \A i \in DOMAIN t : t[i] \in Message
  OBVIOUS
<1>2. QED
  BY <1>1 DEF Message

LEMMA NewestIs ==
  ASSUME NEW t \in Seq(StepRow), NEW r
  PROVE  /\ NewestOf(t, r) \in Nat
         /\ Effects(t, r) = {} => NewestOf(t, r) = 0
         /\ \A i \in Effects(t, r) : (\A j \in Effects(t, r) : j <= i) => NewestOf(t, r) = t[i].id
         /\ Effects(t, r) # {} =>
              \E i \in Effects(t, r) : (\A j \in Effects(t, r) : j <= i) /\ NewestOf(t, r) = t[i].id
<1> DEFINE Top == CHOOSE i \in Effects(t, r) : \A j \in Effects(t, r) : j <= i
<1>1. NewestOf(t, r) = IF Effects(t, r) = {} THEN 0 ELSE t[Top].id
  BY DEF NewestOf
<1>2. Effects(t, r) \in SUBSET (1..Len(t)) /\ Len(t) \in Nat
  BY RowFacts DEF Effects
<1>3. Effects(t, r) # {} => \E m \in Effects(t, r) : \A j \in Effects(t, r) : j <= m
  BY <1>2, GreatestOf
<1>4. Effects(t, r) # {} => Top \in Effects(t, r) /\ \A j \in Effects(t, r) : j <= Top
  BY <1>3
<1> HIDE DEF Top
<1>5. \A i \in Effects(t, r) : t[i].id \in Nat /\ i \in Nat
  BY RowFacts DEF Effects
<1>6. ASSUME NEW i \in Effects(t, r), \A j \in Effects(t, r) : j <= i PROVE NewestOf(t, r) = t[i].id
  <2>1. Top \in Effects(t, r) /\ i <= Top /\ Top <= i
    BY <1>4, <1>6
  <2>2. Top = i
    BY <1>5, <2>1
  <2>3. QED
    BY <1>1, <2>2
<1>7. QED
  BY <1>1, <1>4, <1>5, <1>6

\* The newest step of a run is its own and no compaction.
LEMMA NewestBacked ==
  ASSUME steps \in Seq(StepRow), NEW r, Newest(r) # 0
  PROVE  Backed(Newest(r), r, "assistant") \/ Backed(Newest(r), r, "tool")
<1>1. Effects(steps, r) # {}
  BY NewestIs DEF Newest
<1>2. PICK i \in Effects(steps, r) : Newest(r) = steps[i].id
  BY <1>1, NewestIs DEF Newest
<1>3. i \in DOMAIN steps /\ steps[i].run = r /\ steps[i].kind # "overflow_compact"
  BY DEF Effects
<1>4. steps[i].kind \in {"assistant", "tool"}
  BY <1>3, RowFacts
<1>5. QED
  BY <1>2, <1>3, <1>4 DEF Backed

\* A row more: the newest step of its run, unless it is a compaction.
LEMMA NewestGrows ==
  ASSUME NEW t \in Seq(StepRow), NEW e \in StepRow
  PROVE  /\ e.kind # "overflow_compact" => NewestOf(Append(t, e), e.run) = e.id
         /\ \A q : q # e.run \/ e.kind = "overflow_compact" => NewestOf(Append(t, e), q) = NewestOf(t, q)
<1> DEFINE u == Append(t, e)
<1> HIDE DEF u
<1>0. u = Append(t, e)
  BY DEF u
<1>1. /\ u \in Seq(StepRow) /\ Len(t) \in Nat /\ Len(u) = Len(t) + 1 /\ u[Len(t) + 1] = e
      /\ DOMAIN t = 1..Len(t) /\ DOMAIN u = 1..(Len(t) + 1)
      /\ \A i \in DOMAIN t : i \in DOMAIN u /\ u[i] = t[i]
      /\ \A i \in DOMAIN u : i \in DOMAIN t \/ i = Len(t) + 1
  BY <1>0, AppendAt
<1>2. ASSUME e.kind # "overflow_compact" PROVE NewestOf(u, e.run) = e.id
  <2>1. Len(t) + 1 \in Effects(u, e.run) /\ \A j \in Effects(u, e.run) : j <= Len(t) + 1
    BY <1>1, <1>2 DEF Effects
  <2>2. NewestOf(u, e.run) = u[Len(t) + 1].id
    BY <1>1, <2>1, NewestIs
  <2>3. QED
    BY <1>1, <2>2
<1>3. ASSUME NEW q, q # e.run \/ e.kind = "overflow_compact" PROVE NewestOf(u, q) = NewestOf(t, q)
  <2>1. Effects(u, q) = Effects(t, q)
    BY <1>1, <1>3 DEF Effects
  <2>2. CASE Effects(t, q) = {}
    BY <1>1, <2>1, <2>2, NewestIs
  <2>3. CASE Effects(t, q) # {}
    <3>1. PICK i \in Effects(t, q) : (\A j \in Effects(t, q) : j <= i) /\ NewestOf(t, q) = t[i].id
      BY <2>3, NewestIs
    <3>2. u[i] = t[i]
      BY <1>1 DEF Effects
    <3>3. i \in Effects(u, q) /\ \A j \in Effects(u, q) : j <= i
      BY <2>1, <3>1, Zenon
    <3>4. u \in Seq(StepRow)
      BY <1>1
    <3>5. NewestOf(u, q) = u[i].id
      BY <3>3, <3>4, NewestIs, Zenon
    <3>6. QED
      BY <3>1, <3>2, <3>5
  <2>4. QED
    BY <2>2, <2>3
<1>4. QED
  BY <1>0, <1>2, <1>3

-----------------------------------------------------------------------------
(* The ledger: where a run is.                                             *)

\* The memory l and the calls c of a run, with an effect in flight or not (f), whose newest
\* step has the id n, with its message stored or not (x) and given up or not (d).
Shape(l, c, f, n, x, d) ==
  /\ f => n # 0 /\ ~x
  /\ f \/ n = 0 \/ x \/ d
  /\ l.pc # "batch" => c = L!NoCalls /\ l.batch = 0
  /\ l.pc \in {"idle", "model"} => l.queue = <<>>
  /\ l.pc = "model" => ~f
  /\ l.pc \in {"request", "settle"} =>
       \/ l.queue = <<>> /\ ~f
       \/ Len(l.queue) = 1 /\ l.queue[1].kind = "assistant" /\ l.queue[1].id = n /\ f
  /\ l.pc = "store" =>
       /\ Len(l.queue) = 1
       /\ \/ l.queue[1].id = 0 /\ ~f
          \/ l.queue[1].kind = "assistant" /\ l.queue[1].id = n /\ f
  /\ l.pc = "batch" =>
       /\ \A k \in DOMAIN l.queue : l.queue[k].kind = "tool" /\ l.queue[k].id = l.batch
       /\ l.batch = 0 => l.queue = <<>> /\ ~f /\ \A k \in Calls : c[k] \in {"todo", "done"}
       /\ l.batch # 0 =>
            /\ l.batch = n /\ f
            /\ l.queue # <<>> \/ \E k \in Calls : c[k] = "push"
            /\ \E k \in Calls : c[k] # "todo"
  /\ l.pc = "end" => n = 0 \/ x \/ d

RunShape(r) == Shape(loop[r], call[r], flight[r], Newest(r), L!ResultExists(Newest(r)), Newest(r) \in dropped)

\* The steps behind what a run holds in memory.
RunBacked(r) ==
  /\ loop[r].pc \in {"request", "settle", "store"} /\ loop[r].queue # <<>> /\ loop[r].queue[1].id # 0 =>
       Backed(loop[r].queue[1].id, r, "assistant")
  /\ loop[r].batch # 0 => Backed(loop[r].batch, r, "tool")

\* What reconciliation has read of a run, which is over then.
RunTold(r) ==
  /\ verdict[r] # "none" => loop[r].pc = "idle" /\ row[r] = "settled"
  /\ loop[r].pc # "idle" => row[r] # "none"
  /\ row[r] = "none" => ~flight[r]
  /\ verdict[r] = "interrupted" => flight[r] \/ Newest(r) \in dropped
  /\ verdict[r] = "completed" => ~flight[r]

\* Every step but the newest of its run is over.
StepsAnswered ==
  \A i \in DOMAIN steps :
    steps[i].id \in {0, Newest(steps[i].run)} \/ L!ResultExists(steps[i].id) \/ steps[i].id \in dropped

\* The rows of the usage ledger, and the attempt that is still to be billed.
Billed(r) == {i \in DOMAIN usage : usage[i].run = r}
RunBilled(r) ==
  LET n == Cardinality(L!Attempts(r, "assistant")) IN
  /\ \A i \in Billed(r) : usage[i].attempt <= n
  /\ \A i, j \in Billed(r) : i # j /\ usage[i].attempt > 0 => usage[i].attempt # usage[j].attempt
  /\ loop[r].pc \in {"request", "settle"} /\ loop[r].queue # <<>> =>
       /\ loop[r].queue[1].attempt = n
       /\ \A i \in Billed(r) : usage[i].attempt < n
  /\ Cardinality(Billed(r)) + (IF loop[r].pc = "settle" THEN 1 ELSE 0) <= responses[r]
  /\ total[r] <= Cardinality(Billed(r))

-----------------------------------------------------------------------------
(* The ledger: what a write does to the ids and to the newest steps.       *)

Facts == LedgerTypes /\ IdsOwned /\ StepsAnswered

\* What a step of some run leaves of run q: the id and the state of its newest step.
Keeps(q) ==
  /\ Newest(q)' = Newest(q)
  /\ L!ResultExists(Newest(q))' <=> L!ResultExists(Newest(q))
  /\ Newest(q) \in dropped => (Newest(q) \in dropped)'
  /\ \A id, kind : Backed(id, q, kind) => Backed(id, q, kind)'

\* Neither a row nor a message is written.
LEMMA NothingWritten ==
  ASSUME Facts, UNCHANGED <<nextId, steps, msgs>>, dropped \subseteq dropped'
  PROVE  IdsOwned' /\ StepsAnswered' /\ \A q \in Runs : Keeps(q)
<1>1. \A q : Newest(q)' = Newest(q)
  BY DEF Newest
<1>2. \A id : L!ResultExists(id)' <=> L!ResultExists(id)
  BY DEF L!ResultExists
<1>3. \A id, q, kind : Backed(id, q, kind) => Backed(id, q, kind)'
  BY DEF Backed
<1>4. \A q \in Runs : Keeps(q)
  BY <1>1, <1>2, <1>3 DEF Keeps, L!ResultExists
<1>5. IdsOwned'
  BY DEF Facts, IdsOwned, L!Kinds
<1>6. StepsAnswered'
  BY <1>1, <1>2 DEF Facts, StepsAnswered, L!ResultExists
<1>7. QED
  BY <1>4, <1>5, <1>6

LEMMA AttemptIs ==
  ASSUME steps \in Seq(StepRow), NEW r, NEW kind
  PROVE  /\ Cardinality(L!Attempts(r, kind)) \in Nat /\ L!Attempt(r, kind) \in Nat
         /\ L!Attempt(r, kind) = 1 + Cardinality(L!Attempts(r, kind))
<1>1. L!Attempts(r, kind) \in SUBSET (1..Len(steps)) /\ Len(steps) \in Nat
  BY RowFacts DEF L!Attempts
<1>2. IsFiniteSet(1..Len(steps))
  BY <1>1, FS_Interval
<1>3. Cardinality(L!Attempts(r, kind)) \in Nat
  BY <1>1, <1>2, CountOne, Zenon
<1>4. QED
  BY <1>3, SizeIs DEF L!Attempt

\* A row is written: a compaction without an id, the first row of a new id, or one more of an
\* id that the run has provisioned for the kind; the run's newest step was over, or has that id.
LEMMA RowWritten ==
  ASSUME Facts, NEW r \in Runs, NEW kind \in {"assistant", "tool", "overflow_compact"}, NEW id \in Nat,
         L!AppendRunStep(r, kind, id), UNCHANGED msgs, dropped \subseteq dropped',
         nextId' \in Nat, nextId' >= nextId, id <= nextId',
         \/ id = 0 /\ kind = "overflow_compact"
         \/ id = nextId + 1 /\ kind # "overflow_compact" /\ Over(r)
         \/ id # 0 /\ kind # "overflow_compact" /\ Backed(id, r, kind) /\ Newest(r) = id
  PROVE  /\ IdsOwned' /\ StepsAnswered' /\ steps' \in Seq(StepRow)
         /\ \A q \in Runs : q # r \/ kind = "overflow_compact" => Keeps(q)
         /\ kind # "overflow_compact" => Newest(r)' = id /\ Backed(id, r, kind)'
         /\ \A i, q, k : Backed(i, q, k) => Backed(i, q, k)'
         /\ id = nextId + 1 => ~L!ResultExists(id)'
         /\ \A i : L!ResultExists(i)' <=> L!ResultExists(i)
<1> DEFINE e == [run |-> r, kind |-> kind, attempt |-> L!Attempt(r, kind), id |-> id]
<1>1. e \in StepRow
  BY AttemptIs DEF StepRow, Facts, LedgerTypes
<1>2. steps' = Append(steps, e) /\ e.run = r /\ e.kind = kind /\ e.id = id /\ steps \in Seq(StepRow)
  BY DEF L!AppendRunStep, Facts, LedgerTypes
<1> HIDE DEF e
<1>3. /\ steps' \in Seq(StepRow) /\ Len(steps) \in Nat
      /\ DOMAIN steps = 1..Len(steps) /\ DOMAIN steps' = 1..(Len(steps) + 1)
      /\ steps'[Len(steps) + 1] = e
      /\ \A i \in DOMAIN steps : i \in DOMAIN steps' /\ steps'[i] = steps[i]
      /\ \A i \in DOMAIN steps' : i \in DOMAIN steps \/ i = Len(steps) + 1
  BY <1>1, <1>2, AppendAt
<1>4. /\ kind # "overflow_compact" => Newest(r)' = id
      /\ \A q : q # r \/ kind = "overflow_compact" => Newest(q)' = Newest(q)
  <2>1. \A q : Newest(q)' = NewestOf(steps', q) /\ Newest(q) = NewestOf(steps, q)
    BY DEF Newest
  <2>2. /\ e.kind # "overflow_compact" => NewestOf(steps', e.run) = e.id
        /\ \A q : q # e.run \/ e.kind = "overflow_compact" => NewestOf(steps', q) = NewestOf(steps, q)
    BY <1>1, <1>2, NewestGrows
  <2>3. QED
    BY <1>2, <2>1, <2>2
<1>5. \A i : L!ResultExists(i)' <=> L!ResultExists(i)
  BY DEF L!ResultExists
<1>6. \A i, q, k : Backed(i, q, k) => Backed(i, q, k)'
  BY <1>3 DEF Backed
<1>7. Backed(id, r, kind)'
  BY <1>2, <1>3 DEF Backed
<1>8. \A i \in DOMAIN steps : /\ steps[i].id \in Nat /\ steps[i].id <= nextId /\ steps[i].run \in Runs
  BY RowFacts DEF Facts, LedgerTypes, IdsOwned
<1>9. \A j \in DOMAIN msgs : msgs[j].id \in Nat /\ msgs[j].id <= nextId /\ msgs[j].id > 0
  BY MessageFacts DEF Facts, LedgerTypes, IdsOwned
<1>10. nextId \in Nat
  BY DEF Facts, LedgerTypes
<1>11. \A i \in DOMAIN steps : steps[i].id # 0 /\ steps[i].id = id => steps[i].run = r /\ steps[i].kind = kind
  <2>1. CASE id = nextId + 1
    BY <1>8, <1>10, <2>1
  <2>2. CASE Backed(id, r, kind)
    BY <2>2 DEF Facts, IdsOwned, Backed
  <2>3. QED
    BY <2>1, <2>2
<1>12. \A j \in DOMAIN msgs : id # 0 /\ id = msgs[j].id => msgs[j].run = r /\ L!Kinds[msgs[j].role] = kind
  <2>1. CASE id = nextId + 1
    BY <1>9, <1>10, <2>1
  <2>2. CASE Backed(id, r, kind)
    BY <2>2 DEF Facts, IdsOwned, Backed
  <2>3. QED
    BY <2>1, <2>2
<1>13. IdsOwned'
  <2>1. \A i \in DOMAIN steps' : steps'[i].id <= nextId'
    BY <1>2, <1>3, <1>8, <1>10
  <2>2. \A j \in DOMAIN msgs' : msgs'[j].id > 0 /\ msgs'[j].id <= nextId'
    BY <1>9, <1>10
  <2>3. \A i, j \in DOMAIN steps' :
          steps'[i].id # 0 /\ steps'[i].id = steps'[j].id =>
            steps'[i].run = steps'[j].run /\ steps'[i].kind = steps'[j].kind
    BY <1>2, <1>3, <1>11 DEF Facts, IdsOwned
  <2>4. \A i \in DOMAIN steps', j \in DOMAIN msgs' :
          steps'[i].id # 0 /\ steps'[i].id = msgs'[j].id =>
            msgs'[j].run = steps'[i].run /\ L!Kinds[msgs'[j].role] = steps'[i].kind
    BY <1>2, <1>3, <1>12 DEF Facts, IdsOwned
  <2>5. QED
    BY <2>1, <2>2, <2>3, <2>4 DEF IdsOwned, L!Kinds
<1>14. StepsAnswered'
  <2>1. SUFFICES ASSUME NEW i \in DOMAIN steps'
                 PROVE  \/ steps'[i].id = 0 \/ steps'[i].id = NewestOf(steps', steps'[i].run)
                        \/ L!ResultExists(steps'[i].id) \/ steps'[i].id \in dropped
    BY <1>5 DEF StepsAnswered, L!ResultExists, Newest
  <2>2. CASE i = Len(steps) + 1
    BY <1>2, <1>3, <1>4, <2>2 DEF Newest
  <2>3. CASE i \in DOMAIN steps
    <3>1. \/ steps[i].id = 0 \/ steps[i].id = Newest(steps[i].run)
          \/ L!ResultExists(steps[i].id) \/ steps[i].id \in dropped
      BY <2>3 DEF Facts, StepsAnswered
    <3>2. steps'[i] = steps[i]
      BY <1>3, <2>3
    <3>3. CASE steps[i].run # r \/ kind = "overflow_compact"
      BY <1>4, <3>1, <3>2, <3>3 DEF Newest
    <3>4. CASE steps[i].run = r /\ kind # "overflow_compact"
      BY <1>4, <3>1, <3>2, <3>4 DEF Over, Newest
    <3>5. QED
      BY <3>3, <3>4
  <2>4. QED
    BY <1>3, <2>2, <2>3
<1>15. ASSUME NEW q \in Runs, q # r \/ kind = "overflow_compact" PROVE Keeps(q)
  BY <1>4, <1>5, <1>6, <1>15 DEF Keeps, L!ResultExists
<1>16. id = nextId + 1 => ~L!ResultExists(id)'
  BY <1>5, <1>9, <1>10 DEF L!ResultExists
<1>17. QED
  BY <1>3, <1>4, <1>5, <1>6, <1>7, <1>13, <1>14, <1>15, <1>16

\* A message is written, or refused by a taken sequence number or id: one with an id of
\* its own, or the result of the step that provisioned its id.
LEMMA MessageWritten ==
  ASSUME Facts, NEW r \in Runs, NEW role \in {"user", "assistant", "tool"}, NEW id \in Nat,
         L!AppendMessage(r, role, id), UNCHANGED steps, id # 0 => Backed(id, r, L!Kinds[role])
  PROVE  /\ IdsOwned' /\ StepsAnswered' /\ nextId' \in Nat /\ msgs' \in Seq(Message) /\ dropped \subseteq dropped'
         /\ \A q \in Runs : Newest(q)' = Newest(q) /\ (q # r \/ id = 0 => Keeps(q))
         /\ \A q, i, k : Backed(i, q, k) => Backed(i, q, k)'
         /\ \A i : L!ResultExists(i) => L!ResultExists(i)'
         /\ id # 0 => L!ResultExists(id)' \/ id \in dropped'
<1>1. nextId \in Nat
  BY DEF Facts, LedgerTypes
<1>2. PICK given \in Nat : given = IF id = 0 THEN nextId + 1 ELSE id
  BY <1>1
<1> DEFINE m == [id |-> given, run |-> r, role |-> role]
<1>3. nextId \in Nat /\ msgs \in Seq(Message) /\ steps \in Seq(StepRow) /\ given \in Nat /\ given > 0
  BY <1>2 DEF Facts, LedgerTypes
<1>4. m \in Message /\ m.id = given /\ m.run = r /\ m.role = role
  BY <1>3 DEF Message
<1>5. /\ nextId' = IF id = 0 THEN nextId + 1 ELSE nextId
      /\ \E ok \in L!Inserts(r, given) :
           /\ msgs' = IF ok THEN Append(msgs, m) ELSE msgs
           /\ dropped' = IF ok \/ \E i \in DOMAIN msgs : msgs[i].id = given THEN dropped ELSE dropped \cup {given}
  BY <1>2 DEF L!AppendMessage, L!None
<1>6. \A i \in DOMAIN steps : steps[i].id \in Nat /\ steps[i].id <= nextId /\ steps[i].run \in Runs
  BY <1>3, RowFacts DEF Facts, IdsOwned
<1>7. \A j \in DOMAIN msgs : msgs[j].id \in Nat /\ msgs[j].id <= nextId /\ msgs[j].id > 0
  BY <1>3, MessageFacts DEF Facts, IdsOwned
<1>8. id # 0 => id <= nextId
  BY <1>6 DEF Backed
<1>9. given <= nextId' /\ nextId' \in Nat /\ nextId' >= nextId
  BY <1>2, <1>3, <1>5, <1>8
<1>10. \A i \in DOMAIN steps : steps[i].id = given => steps[i].run = r /\ steps[i].kind = L!Kinds[role]
  <2>1. CASE id = 0
    BY <1>2, <1>3, <1>6, <2>1
  <2>2. CASE id # 0
    BY <1>2, <2>2 DEF Facts, IdsOwned, Backed
  <2>3. QED
    BY <2>1, <2>2
<1> HIDE DEF m
<1>11. \/ msgs' = Append(msgs, m) /\ dropped' = dropped
       \/ msgs' = msgs /\ ((L!ResultExists(given) /\ dropped' = dropped) \/ dropped' = dropped \cup {given})
  BY <1>5 DEF L!ResultExists
<1>12. /\ msgs' \in Seq(Message)
       /\ \A j \in DOMAIN msgs : j \in DOMAIN msgs' /\ msgs'[j] = msgs[j]
       /\ \A j \in DOMAIN msgs' : msgs'[j] = m \/ (j \in DOMAIN msgs /\ msgs'[j] = msgs[j])
       /\ msgs' # msgs => \E j \in DOMAIN msgs' : msgs'[j] = m
  <2>1. CASE msgs' = msgs
    BY <1>3, <2>1
  <2>2. CASE msgs' = Append(msgs, m)
    <3>1. /\ msgs' \in Seq(Message) /\ Len(msgs) \in Nat
          /\ DOMAIN msgs = 1..Len(msgs) /\ DOMAIN msgs' = 1..(Len(msgs) + 1)
          /\ msgs'[Len(msgs) + 1] = m
          /\ \A i \in DOMAIN msgs : i \in DOMAIN msgs' /\ msgs'[i] = msgs[i]
          /\ \A i \in DOMAIN msgs' : i \in DOMAIN msgs \/ i = Len(msgs) + 1
      BY <1>3, <1>4, <2>2, AppendAt
    <3>2. QED
      BY <3>1
  <2>3. QED
    BY <1>11, <2>1, <2>2
<1>13. dropped \subseteq dropped'
  BY <1>11
<1>14. \A i : /\ L!ResultExists(i) => L!ResultExists(i)'
              /\ L!ResultExists(i)' => L!ResultExists(i) \/ i = given
  BY <1>4, <1>12 DEF L!ResultExists
<1>15. L!ResultExists(given)' \/ given \in dropped'
  <2>1. CASE msgs' = Append(msgs, m)
    <3>1. msgs' # msgs
      BY <1>3, <2>1
    <3>2. QED
      BY <1>4, <1>12, <3>1 DEF L!ResultExists
  <2>2. CASE msgs' = msgs /\ L!ResultExists(given)
    BY <2>2, <1>14
  <2>3. CASE dropped' = dropped \cup {given}
    BY <2>3
  <2>4. QED
    BY <1>11, <2>1, <2>2, <2>3
<1>16. \A q : Newest(q)' = Newest(q)
  BY DEF Newest
<1>17. \A i, q, k : Backed(i, q, k) => Backed(i, q, k)'
  BY DEF Backed
<1>18. ASSUME NEW q \in Runs, q # r \/ id = 0 PROVE Keeps(q)
  <2>1. Newest(q) # given
    <3>1. Newest(q) # 0 => \E i \in DOMAIN steps : steps[i].id = Newest(q) /\ steps[i].run = q
      BY <1>3, NewestBacked DEF Backed
    <3>2. CASE id = 0
      BY <1>3, <1>6, <1>2, <3>1, <3>2
    <3>3. CASE q # r
      BY <1>3, <1>10, <3>1, <3>3
    <3>4. QED
      BY <1>18, <3>2, <3>3
  <2>2. L!ResultExists(Newest(q))' <=> L!ResultExists(Newest(q))
    BY <1>14, <1>16, <2>1 DEF L!ResultExists
  <2>3. QED
    BY <1>13, <1>16, <1>17, <2>2 DEF Keeps
<1>19. IdsOwned'
  <2>1. \A i \in DOMAIN steps' : steps'[i].id <= nextId'
    BY <1>3, <1>6, <1>9
  <2>2. \A j \in DOMAIN msgs' : msgs'[j].id > 0 /\ msgs'[j].id <= nextId'
    BY <1>3, <1>4, <1>7, <1>9, <1>12
  <2>3. \A i, j \in DOMAIN steps' :
          steps'[i].id # 0 /\ steps'[i].id = steps'[j].id =>
            steps'[i].run = steps'[j].run /\ steps'[i].kind = steps'[j].kind
    BY DEF Facts, IdsOwned
  <2>4. \A i \in DOMAIN steps', j \in DOMAIN msgs' :
          steps'[i].id # 0 /\ steps'[i].id = msgs'[j].id =>
            msgs'[j].run = steps'[i].run /\ L!Kinds[msgs'[j].role] = steps'[i].kind
    BY <1>4, <1>10, <1>12 DEF Facts, IdsOwned
  <2>5. QED
    BY <2>1, <2>2, <2>3, <2>4 DEF IdsOwned, L!Kinds
<1>20. StepsAnswered'
  <2>1. \A i \in DOMAIN steps :
          steps[i].id \in {0, NewestOf(steps, steps[i].run)} \/ L!ResultExists(steps[i].id)' \/ steps[i].id \in dropped'
    <3>1. ASSUME NEW i \in DOMAIN steps
          PROVE  steps[i].id \in {0, NewestOf(steps, steps[i].run)} \/ L!ResultExists(steps[i].id) \/ steps[i].id \in dropped
      BY DEF Facts, StepsAnswered, Newest
    <3>2. QED
      BY <1>13, <1>14, <3>1 DEF L!ResultExists
  <2>2. QED
    BY <2>1 DEF StepsAnswered, Newest, L!ResultExists
<1>21. id # 0 => given = id
  BY <1>2
<1>22. QED
  BY <1>9, <1>12, <1>13, <1>14, <1>15, <1>16, <1>17, <1>18, <1>19, <1>20, <1>21

-----------------------------------------------------------------------------
(* The ledger: the steps of a run.                                         *)

\* The part of the invariant that concerns effects.
Core == Facts /\ \A r \in Runs : RunShape(r) /\ RunBacked(r) /\ RunTold(r)

\* A step of run r leaves the other runs alone.
Rest(r) ==
  \A q \in Runs \ {r} : loop'[q] = loop[q] /\ call'[q] = call[q] /\ flight'[q] = flight[q] /\ row'[q] = row[q]

LEMMA RunKept ==
  ASSUME NEW q, RunShape(q), RunBacked(q), RunTold(q), Keeps(q), UNCHANGED verdict,
         loop'[q] = loop[q], call'[q] = call[q], flight'[q] = flight[q], row'[q] = row[q]
  PROVE  RunShape(q)' /\ RunBacked(q)' /\ RunTold(q)'
<1>1. /\ Newest(q)' = Newest(q)
      /\ L!ResultExists(Newest(q))' <=> L!ResultExists(Newest(q))
      /\ Newest(q) \in dropped => (Newest(q) \in dropped)'
      /\ \A id, kind : Backed(id, q, kind) => Backed(id, q, kind)'
  BY DEF Keeps
<1>2. RunShape(q)'
  BY <1>1 DEF RunShape, Shape, L!NoCalls
<1>3. RunBacked(q)'
  BY <1>1 DEF RunBacked
<1>4. RunTold(q)'
  BY <1>1 DEF RunTold
<1>5. QED
  BY <1>2, <1>3, <1>4

\* A step of run r, from what it does to that run.
LEMMA CoreFrom ==
  ASSUME Core, NEW r \in Runs, LedgerTypes', IdsOwned', StepsAnswered', UNCHANGED verdict, Rest(r),
         \A q \in Runs \ {r} : Keeps(q), RunShape(r)', RunBacked(r)',
         verdict[r] = "none", row'[r] # "none"
  PROVE  Core'
<1>1. ASSUME NEW q \in Runs PROVE RunShape(q)' /\ RunBacked(q)' /\ RunTold(q)'
  <2>1. CASE q = r
    BY <2>1 DEF RunTold
  <2>2. CASE q # r
    BY <2>2, RunKept DEF Core, Rest
  <2>3. QED
    BY <2>1, <2>2
<1>2. QED
  BY <1>1 DEF Core, Facts

\* What is known of a run before its step.
LEMMA RunFacts ==
  ASSUME Core, NEW r \in Runs
  PROVE  /\ loop[r] \in LoopState /\ loop[r].pc \in LoopPC /\ loop[r].queue \in Seq(Intent)
         /\ loop[r].batch \in Nat /\ loop[r].stop \in BOOLEAN /\ loop[r].recovered \in BOOLEAN
         /\ call[r] \in [Calls -> CallPC] /\ flight[r] \in BOOLEAN
         /\ row[r] \in {"none", "active", "settled"}
         /\ Newest(r) \in Nat
         /\ loop[r].pc # "idle" => verdict[r] = "none" /\ row[r] # "none"
         /\ row[r] = "none" => verdict[r] = "none" /\ loop[r].pc = "idle" /\ ~flight[r]
<1>1. loop[r] \in LoopState /\ call[r] \in [Calls -> CallPC] /\ flight[r] \in BOOLEAN
      /\ row[r] \in {"none", "active", "settled"} /\ steps \in Seq(StepRow)
  BY DEF Core, Facts, LedgerTypes
<1>2. /\ loop[r].pc \in LoopPC /\ loop[r].queue \in Seq(Intent)
      /\ loop[r].batch \in Nat /\ loop[r].stop \in BOOLEAN /\ loop[r].recovered \in BOOLEAN
  BY <1>1 DEF LoopState
<1>3. Newest(r) \in Nat
  BY <1>1, NewestIs DEF Newest
<1>4. RunTold(r)
  BY DEF Core
<1>5. QED
  BY <1>1, <1>2, <1>3, <1>4 DEF RunTold

\* What a step leaves of its run, when it writes no row and no message.
After(r) ==
  /\ Shape(loop'[r], call'[r], flight'[r], Newest(r), L!ResultExists(Newest(r)), Newest(r) \in dropped')
  /\ loop'[r].pc \in {"request", "settle", "store"} /\ loop'[r].queue # <<>> /\ loop'[r].queue[1].id # 0 =>
       Backed(loop'[r].queue[1].id, r, "assistant")
  /\ loop'[r].batch # 0 => Backed(loop'[r].batch, r, "tool")
  /\ row'[r] # "none"

LEMMA QuietStep ==
  ASSUME Core, NEW r \in Runs, UNCHANGED <<nextId, steps, msgs, verdict>>, dropped \subseteq dropped',
         LedgerTypes', Rest(r), After(r), verdict[r] = "none"
  PROVE  Core'
<1>1. IdsOwned' /\ StepsAnswered' /\ \A q \in Runs : Keeps(q)
  BY NothingWritten DEF Core
<1>2. Newest(r)' = Newest(r) /\ (L!ResultExists(Newest(r))' <=> L!ResultExists(Newest(r)))
  BY <1>1 DEF Keeps
<1>3. RunShape(r)'
  BY <1>2 DEF RunShape, Shape, After, L!NoCalls
<1>4. RunBacked(r)'
  <2>1. \A id, kind : Backed(id, r, kind) => Backed(id, r, kind)'
    BY <1>1 DEF Keeps
  <2>2. QED
    BY <2>1 DEF RunBacked, After
<1>5. row'[r] # "none"
  BY DEF After
<1>6. QED
  BY <1>1, <1>3, <1>4, <1>5, CoreFrom

\* What popAssistant and popTools take from the queues that occur.
LEMMA PopIs ==
  ASSUME NEW q \in Seq(Intent), q = <<>> \/ (Len(q) = 1 /\ q[1].kind = "assistant")
  PROVE  /\ L!PopAssistant(q).rest = <<>>
         /\ L!PopAssistant(q).intent = IF q = <<>> THEN L!NoIntent ELSE q[1]
         /\ L!PopAssistant(q).intent \in Intent
<1> DEFINE D == {i \in DOMAIN q : q[i].kind = "assistant"}
<1>1. CASE q = <<>>
  <2>1. D = {}
    BY <1>1
  <2>2. L!PopAssistant(q) = [intent |-> L!NoIntent, rest |-> q]
    BY <2>1 DEF L!PopAssistant
  <2>3. QED
    BY <1>1, <2>2 DEF L!NoIntent, Intent, L!None
<1>2. CASE q # <<>>
  <2>1. Len(q) = 1 /\ q[1].kind = "assistant" /\ q[1] \in Intent /\ DOMAIN q = {1}
    BY <1>2
  <2>2. D = {1}
    BY <2>1
  <2>3. (CHOOSE i \in D : \A j \in D : j <= i) = 1
    BY <2>2
  <2>4. L!PopAssistant(q) = [intent |-> q[1], rest |-> L!RemoveAt(q, 1)]
    BY <2>2, <2>3 DEF L!PopAssistant
  <2>5. L!RemoveAt(q, 1) = <<>>
    BY <2>1 DEF L!RemoveAt
  <2>6. QED
    BY <1>2, <2>1, <2>4, <2>5
<1>3. QED
  BY <1>1, <1>2

LEMMA PopToolsIs ==
  ASSUME NEW q \in Seq(Intent), NEW b, \A k \in DOMAIN q : q[k].kind = "tool" /\ q[k].id = b
  PROVE  L!PopTools(q).rest = <<>> /\ L!PopTools(q).id = IF q = <<>> THEN 0 ELSE b
<1> DEFINE D == {i \in DOMAIN q : q[i].kind = "tool"}
<1>1. D = DOMAIN q /\ DOMAIN q \ D = {} /\ DOMAIN q = 1..Len(q) /\ Len(q) \in Nat
  <2>1. DOMAIN q = 1..Len(q) /\ Len(q) \in Nat
    OBVIOUS
  <2>2. D = DOMAIN q
    OBVIOUS
  <2>3. QED
    BY <2>1, <2>2
<1> DEFINE low == CHOOSE i \in D : \A j \in D : i <= j
<1>2. L!PopTools(q) = [id |-> IF D = {} THEN 0 ELSE q[low].id,
                       rest |-> L!Kept(q, DOMAIN q \ D)]
  BY DEF L!PopTools, L!None
<1>3. L!Kept(q, {}) = <<>>
  <2>1. L!Cardinality({}) = 0
    BY SizeIs, FS_EmptySet
  <2>2. 1..L!Cardinality({}) = {}
    BY <2>1
  <2>3. QED
    BY <2>2 DEF L!Kept
<1>4. D # {} => low \in D
  <2>1. D # {} => \E i \in D : \A j \in D : i <= j
    BY <1>1, LeastOf
  <2>2. QED
    BY <2>1
<1>5. q = <<>> <=> D = {}
  BY <1>1
<1> HIDE DEF low, D
<1>6. L!PopTools(q).rest = <<>>
  <2>1. L!Kept(q, DOMAIN q \ D) = <<>>
    BY <1>1, <1>3, Zenon
  <2>2. QED
    BY <1>2, <2>1
<1>7. L!PopTools(q).id = IF q = <<>> THEN 0 ELSE b
  BY <1>1, <1>2, <1>4, <1>5
<1>8. QED
  BY <1>6, <1>7

LEMMA Writes ==
  ASSUME Core
  PROVE  /\ usage \in Seq(Spend) /\ total \in [Runs -> Nat] /\ responses \in [Runs -> Nat]
         /\ \A r \in Runs : L!SumUsage(r) \in Nat /\ responses[r] \in Nat
         /\ \A r \in Runs, k \in {0, 1} : [responses EXCEPT ![r] = @ + k] \in [Runs -> Nat]
<1>1. usage \in Seq(Spend) /\ total \in [Runs -> Nat] /\ responses \in [Runs -> Nat]
  BY DEF Core, Facts, LedgerTypes
<1>2. ASSUME NEW r \in Runs PROVE L!SumUsage(r) \in Nat
  <2>1. {i \in DOMAIN usage : usage[i].run = r} \in SUBSET (1..Len(usage)) /\ Len(usage) \in Nat
    BY <1>1
  <2>2. IsFiniteSet(1..Len(usage))
    BY <2>1, FS_Interval
  <2>3. Cardinality({i \in DOMAIN usage : usage[i].run = r}) \in Nat
    BY <2>1, <2>2, CountOne, Zenon
  <2>4. QED
    BY <2>3, SizeIs DEF L!SumUsage
<1>3. \A r \in Runs : responses[r] \in Nat
  BY <1>1
<1>4. \A r \in Runs, k \in {0, 1} : [responses EXCEPT ![r] = @ + k] \in [Runs -> Nat]
  BY <1>1, <1>3
<1>5. QED
  BY <1>1, <1>2, <1>3, <1>4

\* What a run's memory is before its step.
Before(r) ==
  /\ Shape(loop[r], call[r], flight[r], Newest(r), L!ResultExists(Newest(r)), Newest(r) \in dropped)
  /\ RunBacked(r)

LEMMA BeforeIs == ASSUME Core, NEW r \in Runs PROVE Before(r)
BY DEF Core, RunShape, Before

LEMMA IntentFailsStep ==
  ASSUME Core, NEW r \in Runs, L!IntentFails(r)
  PROVE  Core'
<1> DEFINE l == [loop[r] EXCEPT !.pc = "request"]
<1>1. loop[r].pc = "model" /\ loop' = [loop EXCEPT ![r] = l]
  BY DEF L!IntentFails
<1>2. l \in LoopState /\ l.pc = "request" /\ l.queue = loop[r].queue /\ l.batch = loop[r].batch
  BY RunFacts DEF LoopState, LoopPC
<1>3. Before(r) /\ verdict[r] = "none" /\ row[r] # "none"
  BY <1>1, BeforeIs, RunFacts
<1> HIDE DEF l
<1>4. UNCHANGED <<nextId, steps, msgs, verdict, usage, total, responses, call, flight, row, dropped>>
  BY DEF L!IntentFails
<1>5. LedgerTypes' /\ Rest(r) /\ loop'[r] = l
  BY <1>1, <1>2, <1>4 DEF Core, Facts, LedgerTypes, Rest
<1>6. After(r)
  BY <1>1, <1>2, <1>3, <1>4, <1>5 DEF Before, After, Shape, RunBacked
<1>7. QED
  BY <1>3, <1>4, <1>5, <1>6, QuietStep

LEMMA RespondStep ==
  ASSUME Core, NEW r \in Runs, L!Respond(r)
  PROVE  Core'
<1> DEFINE l == [loop[r] EXCEPT !.pc = "settle"]
<1>1. loop[r].pc = "request" /\ loop' = [loop EXCEPT ![r] = l]
  BY DEF L!Respond, L!To
<1>2. l \in LoopState /\ l.pc = "settle" /\ l.queue = loop[r].queue /\ l.batch = loop[r].batch
  BY RunFacts DEF LoopState, LoopPC
<1>3. Before(r) /\ verdict[r] = "none" /\ row[r] # "none"
  BY <1>1, BeforeIs, RunFacts
<1> HIDE DEF l
<1>4. UNCHANGED <<nextId, steps, msgs, verdict, usage, total, call, flight, row, dropped>>
  BY DEF L!Respond
<1>5. LedgerTypes' /\ Rest(r) /\ loop'[r] = l
  <2>1. responses' \in [Runs -> Nat]
    BY Writes DEF L!Respond
  <2>2. QED
    BY <1>1, <1>2, <1>4, <2>1 DEF Core, Facts, LedgerTypes, Rest
<1>6. After(r)
  BY <1>1, <1>2, <1>3, <1>4, <1>5 DEF Before, After, Shape, RunBacked
<1>7. QED
  BY <1>3, <1>4, <1>5, <1>6, QuietStep

LEMMA SettleUsageStep ==
  ASSUME Core, NEW r \in Runs, L!SettleUsage(r)
  PROVE  Core'
<1> DEFINE q == loop[r].queue
           in == L!PopAssistant(q).intent
           l == [loop[r] EXCEPT !.pc = "store", !.queue = <<in>> \o L!PopAssistant(q).rest]
<1>1. loop[r].pc = "settle" /\ loop' = [loop EXCEPT ![r] = l]
  BY DEF L!SettleUsage
<1>2. Before(r) /\ verdict[r] = "none" /\ row[r] # "none"
  BY <1>1, BeforeIs, RunFacts
<1>3. q \in Seq(Intent) /\ (q = <<>> \/ (Len(q) = 1 /\ q[1].kind = "assistant"))
  BY <1>1, <1>2, RunFacts DEF Before, Shape
<1>4. in \in Intent /\ L!PopAssistant(q).rest = <<>> /\ in = IF q = <<>> THEN L!NoIntent ELSE q[1]
  BY <1>3, PopIs
<1>5. UNCHANGED <<nextId, steps, msgs, verdict, responses, total, call, flight, row, dropped>>
  BY DEF L!SettleUsage
<1>6. usage' \in Seq(Spend)
  <2>1. [run |-> r, cause |-> "assistant", id |-> in.id, attempt |-> in.attempt] \in Spend
    BY <1>4 DEF Intent, Spend
  <2>2. usage' = Append(usage, [run |-> r, cause |-> "assistant", id |-> in.id, attempt |-> in.attempt])
    BY DEF L!SettleUsage, L!AppendUsageRecord
  <2>3. QED
    BY <2>1, <2>2, Writes
<1> HIDE DEF in
<1>7. l \in LoopState /\ l.pc = "store" /\ l.queue = <<in>> /\ l.batch = loop[r].batch
  <2>1. <<in>> \o L!PopAssistant(q).rest = <<in>> /\ <<in>> \in Seq(Intent)
    BY <1>4
  <2>2. QED
    BY <2>1, RunFacts DEF LoopState, LoopPC
<1> HIDE DEF l
<1>8. Len(l.queue) = 1 /\ l.queue[1] = in /\ l.queue # <<>>
  BY <1>7
<1>9. LedgerTypes' /\ Rest(r) /\ loop'[r] = l
  BY <1>1, <1>5, <1>6, <1>7 DEF Core, Facts, LedgerTypes, Rest
<1>10. After(r)
  <2>1. /\ loop'[r].pc = "store" /\ Len(loop'[r].queue) = 1 /\ loop'[r].queue[1] = in
        /\ loop'[r].batch = 0 /\ call'[r] = L!NoCalls /\ flight'[r] = flight[r] /\ dropped' = dropped /\ row'[r] # "none"
    BY <1>1, <1>2, <1>5, <1>7, <1>8, <1>9 DEF Before, Shape
  <2>2. /\ flight[r] => Newest(r) # 0 /\ ~L!ResultExists(Newest(r))
        /\ flight[r] \/ Newest(r) = 0 \/ L!ResultExists(Newest(r)) \/ Newest(r) \in dropped
    BY <1>2 DEF Before, Shape
  <2>3. \/ in.id = 0 /\ ~flight[r]
        \/ in.kind = "assistant" /\ in.id = Newest(r) /\ flight[r] /\ Backed(in.id, r, "assistant")
    <3>1. CASE q = <<>>
      BY <1>1, <1>2, <1>4, <3>1 DEF Before, Shape, L!NoIntent, L!None
    <3>2. CASE q # <<>>
      BY <1>1, <1>2, <1>4, <3>2 DEF Before, Shape, RunBacked
    <3>3. QED
      BY <3>1, <3>2
  <2>4. QED
    BY <2>1, <2>2, <2>3 DEF After, Shape
<1>11. QED
  BY <1>2, <1>5, <1>9, <1>10, QuietStep

LEMMA RequestEndsStep ==
  ASSUME Core, NEW r \in Runs, L!RequestEnds(r)
  PROVE  Core'
<1> DEFINE l == [loop[r] EXCEPT !.pc = "end"]
<1>1. loop[r].pc = "request" /\ loop' = [loop EXCEPT ![r] = l]
  BY DEF L!RequestEnds, L!To
<1>2. l \in LoopState /\ l.pc = "end" /\ l.queue = loop[r].queue /\ l.batch = loop[r].batch
  BY RunFacts DEF LoopState, LoopPC
<1>3. Before(r) /\ verdict[r] = "none" /\ row[r] # "none"
  BY <1>1, BeforeIs, RunFacts
<1> HIDE DEF l
<1>4. /\ UNCHANGED <<nextId, steps, msgs, verdict, usage, total, call, flight, row>>
      /\ dropped' = dropped \cup {loop[r].queue[i].id : i \in DOMAIN loop[r].queue}
  BY DEF L!RequestEnds
<1>5. LedgerTypes' /\ Rest(r) /\ loop'[r] = l
  <2>1. responses' \in [Runs -> Nat]
    BY Writes DEF L!RequestEnds
  <2>2. QED
    BY <1>1, <1>2, <1>4, <2>1 DEF Core, Facts, LedgerTypes, Rest
<1>6. \/ flight[r] /\ Newest(r) \in dropped'
      \/ ~flight[r] /\ (Newest(r) = 0 \/ L!ResultExists(Newest(r)) \/ Newest(r) \in dropped')
  <2>1. CASE loop[r].queue = <<>> /\ ~flight[r]
    BY <1>3, <1>4, <2>1 DEF Before, Shape
  <2>2. CASE Len(loop[r].queue) = 1 /\ loop[r].queue[1].id = Newest(r) /\ flight[r]
    <3>1. loop[r].queue \in Seq(Intent) /\ 1 \in DOMAIN loop[r].queue
      BY <2>2, RunFacts
    <3>2. QED
      BY <1>4, <2>2, <3>1
  <2>3. QED
    BY <1>1, <1>3, <2>1, <2>2 DEF Before, Shape
<1>7. After(r)
  BY <1>1, <1>2, <1>3, <1>4, <1>5, <1>6 DEF Before, After, Shape, RunBacked
<1>8. dropped \subseteq dropped'
  BY <1>4
<1>9. QED
  BY <1>3, <1>4, <1>5, <1>7, <1>8, QuietStep

LEMMA ToolIntentFailsStep ==
  ASSUME Core, NEW r \in Runs, NEW c \in Calls, L!ToolIntentFails(r, c)
  PROVE  Core'
<1>1. /\ loop[r].pc = "batch" /\ call[r][c] = "todo" /\ call' = [call EXCEPT ![r][c] = "done"]
      /\ UNCHANGED <<nextId, steps, msgs, verdict, usage, total, responses, loop, flight, row, dropped>>
  BY DEF L!ToolIntentFails
<1>2. Before(r) /\ verdict[r] = "none" /\ row[r] # "none" /\ call[r] \in [Calls -> CallPC]
  BY <1>1, BeforeIs, RunFacts
<1>3. /\ LedgerTypes' /\ Rest(r)
      /\ call'[r] = [call[r] EXCEPT ![c] = "done"]
  BY <1>1 DEF Core, Facts, LedgerTypes, Rest, CallPC
<1>4. /\ call'[r][c] = "done" /\ \A k \in Calls \ {c} : call'[r][k] = call[r][k]
  BY <1>2, <1>3
<1>5. After(r)
  BY <1>1, <1>2, <1>4 DEF Before, After, Shape, RunBacked
<1>6. QED
  BY <1>1, <1>2, <1>3, <1>5, QuietStep

LEMMA PushIntentStep ==
  ASSUME Core, NEW r \in Runs, NEW c \in Calls, L!PushIntent(r, c)
  PROVE  Core'
<1> DEFINE in == [kind |-> "tool", id |-> loop[r].batch, attempt |-> 0]
           l == [loop[r] EXCEPT !.queue = Append(loop[r].queue, in)]
<1>1. /\ call[r][c] = "push" /\ call' = [call EXCEPT ![r][c] = "run"] /\ loop' = [loop EXCEPT ![r] = l]
      /\ UNCHANGED <<nextId, steps, msgs, verdict, usage, total, responses, flight, row, dropped>>
  BY DEF L!PushIntent
<1>2. loop[r].pc = "batch" /\ loop[r].batch # 0
  BY <1>1, BeforeIs DEF Before, Shape, L!NoCalls
<1>3. Before(r) /\ verdict[r] = "none" /\ row[r] # "none" /\ call[r] \in [Calls -> CallPC]
  BY <1>2, BeforeIs, RunFacts
<1>4. in \in Intent /\ in.kind = "tool" /\ in.id = loop[r].batch
  BY RunFacts DEF Intent
<1> HIDE DEF in
<1>5. l \in LoopState /\ l.pc = "batch" /\ l.batch = loop[r].batch /\ l.queue = Append(loop[r].queue, in)
  <2>1. Append(loop[r].queue, in) \in Seq(Intent) /\ loop[r] \in LoopState
    BY <1>4, RunFacts
  <2>2. QED
    BY <1>2, <2>1 DEF LoopState
<1> HIDE DEF l
<1>6. LedgerTypes' /\ Rest(r) /\ loop'[r] = l /\ call'[r] = [call[r] EXCEPT ![c] = "run"]
  BY <1>1, <1>5 DEF Core, Facts, LedgerTypes, Rest, CallPC
<1>7. call'[r][c] = "run" /\ \A k \in Calls \ {c} : call'[r][k] = call[r][k]
  BY <1>3, <1>6
<1>8. l.queue # <<>> /\ \A k \in DOMAIN l.queue : l.queue[k].kind = "tool" /\ l.queue[k].id = l.batch
  <2>1. loop[r].queue \in Seq(Intent) /\ \A k \in DOMAIN loop[r].queue : loop[r].queue[k].kind = "tool" /\ loop[r].queue[k].id = loop[r].batch
    BY <1>2, <1>3, RunFacts DEF Before, Shape
  <2>2. QED
    BY <1>4, <1>5, <2>1
<1>9. After(r)
  <2>1. /\ loop[r].batch = Newest(r) /\ flight[r] /\ Newest(r) # 0 /\ ~L!ResultExists(Newest(r))
        /\ Backed(loop[r].batch, r, "tool")
    BY <1>2, <1>3 DEF Before, Shape, RunBacked
  <2>2. l.batch = Newest(r) /\ l.batch # 0 /\ \E k \in Calls : call'[r][k] # "todo"
    BY <1>2, <1>5, <1>7, <2>1
  <2>3. Shape(l, call'[r], flight[r], Newest(r), L!ResultExists(Newest(r)), Newest(r) \in dropped)
    BY <1>5, <1>8, <2>1, <2>2 DEF Shape
  <2>4. Backed(l.batch, r, "tool")
    BY <1>5, <2>1
  <2>5. QED
    BY <1>1, <1>3, <1>5, <1>6, <2>3, <2>4 DEF After
<1>10. QED
  BY <1>1, <1>3, <1>6, <1>9, QuietStep

LEMMA CallReturnsStep ==
  ASSUME Core, NEW r \in Runs, NEW c \in Calls, L!CallReturns(r, c)
  PROVE  Core'
<1>1. /\ call[r][c] = "run" /\ call' = [call EXCEPT ![r][c] = "done"]
      /\ UNCHANGED <<nextId, steps, msgs, verdict, usage, total, responses, loop, flight, row, dropped>>
  BY DEF L!CallReturns
<1>2. loop[r].pc = "batch" /\ loop[r].batch # 0
  BY <1>1, BeforeIs DEF Before, Shape, L!NoCalls
<1>3. Before(r) /\ verdict[r] = "none" /\ row[r] # "none" /\ call[r] \in [Calls -> CallPC]
  BY <1>2, BeforeIs, RunFacts
<1>4. /\ LedgerTypes' /\ Rest(r)
      /\ call'[r] = [call[r] EXCEPT ![c] = "done"]
  BY <1>1 DEF Core, Facts, LedgerTypes, Rest, CallPC
<1>5. /\ call'[r][c] = "done" /\ \A k \in Calls \ {c} : call'[r][k] = call[r][k]
  BY <1>3, <1>4
<1>6. After(r)
  BY <1>1, <1>2, <1>3, <1>5 DEF Before, After, Shape, RunBacked
<1>7. QED
  BY <1>1, <1>3, <1>4, <1>6, QuietStep

LEMMA SuspendStep ==
  ASSUME Core, NEW r \in Runs, L!Suspend(r)
  PROVE  Core'
<1> DEFINE l == [loop[r] EXCEPT !.pc = "end"]
<1>1. loop[r].pc = "batch" /\ call[r] = L!NoCalls /\ loop' = [loop EXCEPT ![r] = l]
  BY DEF L!Suspend, L!To
<1>2. l \in LoopState /\ l.pc = "end" /\ l.queue = loop[r].queue /\ l.batch = loop[r].batch
  BY RunFacts DEF LoopState, LoopPC
<1>3. Before(r) /\ verdict[r] = "none" /\ row[r] # "none"
  BY <1>1, BeforeIs, RunFacts
<1> HIDE DEF l
<1>4. UNCHANGED <<nextId, steps, msgs, verdict, usage, total, responses, call, flight, row, dropped>>
  BY DEF L!Suspend
<1>5. LedgerTypes' /\ Rest(r) /\ loop'[r] = l
  BY <1>1, <1>2, <1>4 DEF Core, Facts, LedgerTypes, Rest
<1>6. loop[r].batch = 0 /\ ~flight[r]
  BY <1>1, <1>3 DEF Before, Shape, L!NoCalls
<1>7. After(r)
  BY <1>1, <1>2, <1>3, <1>4, <1>5, <1>6 DEF Before, After, Shape, RunBacked
<1>8. QED
  BY <1>3, <1>4, <1>5, <1>7, QuietStep

LEMMA LoopLeavesStep ==
  ASSUME Core, NEW r \in Runs, L!LoopLeaves(r)
  PROVE  Core'
<1> DEFINE l == [loop[r] EXCEPT !.pc = "end"]
<1>1. loop[r].pc = "model" /\ loop' = [loop EXCEPT ![r] = l]
  BY DEF L!LoopLeaves, L!To
<1>2. l \in LoopState /\ l.pc = "end" /\ l.queue = loop[r].queue /\ l.batch = loop[r].batch
  BY RunFacts DEF LoopState, LoopPC
<1>3. Before(r) /\ verdict[r] = "none" /\ row[r] # "none"
  BY <1>1, BeforeIs, RunFacts
<1> HIDE DEF l
<1>4. UNCHANGED <<nextId, steps, msgs, verdict, usage, total, responses, call, flight, row, dropped>>
  BY DEF L!LoopLeaves
<1>5. LedgerTypes' /\ Rest(r) /\ loop'[r] = l
  BY <1>1, <1>2, <1>4 DEF Core, Facts, LedgerTypes, Rest
<1>6. After(r)
  BY <1>1, <1>2, <1>3, <1>4, <1>5 DEF Before, After, Shape, RunBacked
<1>7. QED
  BY <1>3, <1>4, <1>5, <1>6, QuietStep

LEMMA SettleStep ==
  ASSUME Core, NEW r \in Runs, L!Settle(r)
  PROVE  Core'
<1>1. /\ loop[r].pc = "end" /\ loop' = [loop EXCEPT ![r] = L!Fresh] /\ total' = [total EXCEPT ![r] = L!SumUsage(r)]
      /\ row' = [row EXCEPT ![r] = "settled"] /\ flight' = [flight EXCEPT ![r] = FALSE]
      /\ UNCHANGED <<nextId, steps, msgs, verdict, usage, responses, call, dropped>>
  BY DEF L!Settle
<1>2. Before(r) /\ verdict[r] = "none"
  BY <1>1, BeforeIs, RunFacts
<1>3. L!Fresh \in LoopState /\ L!Fresh.pc = "idle" /\ L!Fresh.queue = <<>> /\ L!Fresh.batch = 0
  BY DEF L!Fresh, LoopState, LoopPC, L!None
<1>4. LedgerTypes' /\ Rest(r) /\ loop'[r] = L!Fresh /\ flight'[r] = FALSE /\ row'[r] = "settled"
  BY <1>1, <1>3, Writes DEF Core, Facts, LedgerTypes, Rest
<1>5. After(r)
  BY <1>1, <1>2, <1>3, <1>4 DEF Before, After, Shape
<1>6. QED
  BY <1>1, <1>2, <1>4, <1>5, QuietStep

LEMMA CancelStep ==
  ASSUME Core, NEW r \in Runs, L!Cancel(r)
  PROVE  Core'
<1> DEFINE l == [loop[r] EXCEPT !.stop = TRUE]
<1>1. /\ loop[r].pc # "idle" /\ loop' = [loop EXCEPT ![r] = l] /\ row' = [row EXCEPT ![r] = "settled"]
      /\ UNCHANGED <<nextId, steps, msgs, verdict, usage, total, responses, call, flight, dropped>>
  BY DEF L!Cancel
<1>2. l \in LoopState /\ l.pc = loop[r].pc /\ l.queue = loop[r].queue /\ l.batch = loop[r].batch
  BY RunFacts DEF LoopState
<1>3. Before(r) /\ verdict[r] = "none"
  BY <1>1, BeforeIs, RunFacts
<1> HIDE DEF l
<1>4. LedgerTypes' /\ Rest(r) /\ loop'[r] = l /\ row'[r] = "settled"
  BY <1>1, <1>2 DEF Core, Facts, LedgerTypes, Rest
<1>5. After(r)
  BY <1>1, <1>2, <1>3, <1>4 DEF Before, After, Shape, RunBacked
<1>6. QED
  BY <1>1, <1>3, <1>4, <1>5, QuietStep

LEMMA BeforeModelStep ==
  ASSUME Core, NEW r \in Runs, L!BeforeModel(r)
  PROVE  Core'
<1>1. nextId \in Nat
  BY DEF Core, Facts, LedgerTypes
<1>2. PICK id \in Nat : id = nextId + 1
  BY <1>1
<1> DEFINE in == [kind |-> "assistant", id |-> id, attempt |-> L!Attempt(r, "assistant")]
           l == [loop[r] EXCEPT !.pc = "request", !.queue = Append(loop[r].queue, in)]
<1>3. /\ loop[r].pc = "model" /\ loop' = [loop EXCEPT ![r] = l] /\ nextId' = id
      /\ L!AppendRunStep(r, "assistant", id) /\ flight' = [flight EXCEPT ![r] = TRUE]
      /\ UNCHANGED <<msgs, usage, total, row, call, verdict, responses, dropped>>
  BY <1>2 DEF L!BeforeModel
<1>4. Before(r) /\ verdict[r] = "none" /\ row[r] # "none"
  BY <1>3, BeforeIs, RunFacts
<1>5. loop[r].queue = <<>> /\ Over(r) /\ loop[r].batch = 0 /\ call[r] = L!NoCalls
  BY <1>3, <1>4 DEF Before, Shape, Over
<1>6. /\ IdsOwned' /\ StepsAnswered' /\ steps' \in Seq(StepRow)
      /\ \A q \in Runs : q # r => Keeps(q)
      /\ Newest(r)' = id /\ Backed(id, r, "assistant")' /\ ~L!ResultExists(id)'
  BY <1>1, <1>2, <1>3, <1>5, RowWritten DEF Core
<1>7. in \in Intent /\ in.kind = "assistant" /\ in.id = id
  <2>1. L!Attempt(r, "assistant") \in Nat
    BY AttemptIs DEF Core, Facts, LedgerTypes
  <2>2. QED
    BY <2>1 DEF Intent
<1> HIDE DEF in
<1>8. l \in LoopState /\ l.pc = "request" /\ l.batch = 0 /\ l.queue = <<in>>
  <2>1. Append(loop[r].queue, in) = <<in>> /\ <<in>> \in Seq(Intent)
    BY <1>5, <1>7
  <2>2. QED
    BY <1>5, <2>1, RunFacts DEF LoopState, LoopPC
<1> HIDE DEF l
<1>9. Len(l.queue) = 1 /\ l.queue[1] = in
  BY <1>8
<1>10. LedgerTypes' /\ Rest(r) /\ loop'[r] = l /\ flight'[r] = TRUE
  BY <1>1, <1>2, <1>3, <1>6, <1>8 DEF Core, Facts, LedgerTypes, Rest
<1>11. RunShape(r)'
  <2>1. /\ loop'[r].pc = "request" /\ loop'[r].batch = 0 /\ call'[r] = L!NoCalls /\ flight'[r] = TRUE
        /\ Len(loop'[r].queue) = 1 /\ loop'[r].queue[1].kind = "assistant" /\ loop'[r].queue[1].id = id
    BY <1>3, <1>5, <1>7, <1>8, <1>9, <1>10
  <2>2. Newest(r)' = id /\ id # 0 /\ ~L!ResultExists(Newest(r))'
    BY <1>1, <1>2, <1>6 DEF L!ResultExists
  <2>3. QED
    BY <2>1, <2>2 DEF RunShape, Shape, L!NoCalls
<1>12. RunBacked(r)'
  BY <1>6, <1>7, <1>8, <1>9, <1>10 DEF RunBacked
<1>13. QED
  BY <1>3, <1>4, <1>6, <1>10, <1>11, <1>12, CoreFrom

LEMMA WrapToolCallStep ==
  ASSUME Core, NEW r \in Runs, NEW c \in Calls, L!WrapToolCall(r, c)
  PROVE  Core'
<1>1. nextId \in Nat /\ loop[r].batch \in Nat
  BY RunFacts DEF Core, Facts, LedgerTypes
<1>2. PICK id \in Nat : id = IF loop[r].batch = 0 THEN nextId + 1 ELSE loop[r].batch
  BY <1>1
<1> DEFINE l == [loop[r] EXCEPT !.batch = id]
<1>3. /\ loop[r].pc = "batch" /\ loop' = [loop EXCEPT ![r] = l] /\ call[r][c] = "todo"
      /\ nextId' = (IF loop[r].batch = 0 THEN nextId + 1 ELSE nextId)
      /\ L!AppendRunStep(r, "tool", id) /\ flight' = [flight EXCEPT ![r] = TRUE]
      /\ call' = [call EXCEPT ![r][c] = "push"]
      /\ UNCHANGED <<msgs, usage, total, row, verdict, responses, dropped>>
  BY <1>2 DEF L!WrapToolCall, L!BatchId, L!None
<1>4. Before(r) /\ verdict[r] = "none" /\ row[r] # "none" /\ call[r] \in [Calls -> CallPC] /\ loop[r] \in LoopState
  BY <1>3, BeforeIs, RunFacts
<1>5. /\ loop[r].batch = 0 => Over(r) /\ loop[r].queue = <<>>
      /\ loop[r].batch # 0 => /\ Backed(loop[r].batch, r, "tool") /\ Newest(r) = loop[r].batch
                              /\ ~L!ResultExists(Newest(r))
  BY <1>3, <1>4 DEF Before, Shape, Over, RunBacked
<1>6. /\ nextId' \in Nat /\ nextId' >= nextId /\ id <= nextId'
      /\ (id = nextId + 1 /\ Over(r)) \/ (id # 0 /\ Backed(id, r, "tool") /\ Newest(r) = id)
  <2>1. CASE loop[r].batch = 0
    BY <1>1, <1>2, <1>3, <1>5, <2>1
  <2>2. CASE loop[r].batch # 0
    <3>1. id <= nextId
      BY <1>2, <1>5, <2>2 DEF Core, Facts, IdsOwned, Backed
    <3>2. QED
      BY <1>1, <1>2, <1>3, <1>5, <2>2, <3>1
  <2>3. QED
    BY <2>1, <2>2
<1>7. /\ IdsOwned' /\ StepsAnswered' /\ steps' \in Seq(StepRow)
      /\ \A q \in Runs : q # r => Keeps(q)
      /\ Newest(r)' = id /\ Backed(id, r, "tool")'
      /\ id = nextId + 1 => ~L!ResultExists(id)'
      /\ \A i : L!ResultExists(i)' <=> L!ResultExists(i)
  BY <1>3, <1>6, RowWritten DEF Core
<1>8. ~L!ResultExists(id)'
  <2>1. CASE loop[r].batch = 0
    BY <1>2, <1>7, <2>1
  <2>2. CASE loop[r].batch # 0
    <3>1. ~L!ResultExists(id)
      BY <1>2, <1>5, <2>2 DEF L!ResultExists
    <3>2. QED
      BY <1>7, <3>1
  <2>3. QED
    BY <2>1, <2>2
<1>9. l \in LoopState /\ l.pc = "batch" /\ l.batch = id /\ l.queue = loop[r].queue /\ id # 0
  <2>1. id # 0
    BY <1>1, <1>2
  <2>2. QED
    BY <1>3, <1>4, <2>1 DEF LoopState
<1> HIDE DEF l
<1>10. /\ LedgerTypes' /\ Rest(r) /\ loop'[r] = l /\ flight'[r] = TRUE
       /\ call'[r] = [call[r] EXCEPT ![c] = "push"]
  BY <1>3, <1>6, <1>7, <1>9 DEF Core, Facts, LedgerTypes, Rest, CallPC
<1>11. call'[r][c] = "push"
  BY <1>4, <1>10
<1>12. \A k \in DOMAIN l.queue : l.queue[k].kind = "tool" /\ l.queue[k].id = id
  BY <1>2, <1>3, <1>4, <1>5, <1>9 DEF Before, Shape
<1>13. RunShape(r)'
  <2>1. /\ loop'[r].pc = "batch" /\ loop'[r].batch = id /\ id # 0 /\ flight'[r] = TRUE /\ Newest(r)' = id
        /\ ~L!ResultExists(Newest(r))' /\ call'[r][c] = "push"
        /\ \A k \in DOMAIN loop'[r].queue : loop'[r].queue[k].kind = "tool" /\ loop'[r].queue[k].id = id
    BY <1>7, <1>8, <1>9, <1>10, <1>11, <1>12 DEF L!ResultExists
  <2>2. QED
    BY <2>1 DEF RunShape, Shape
<1>14. RunBacked(r)'
  BY <1>7, <1>9, <1>10 DEF RunBacked
<1>15. QED
  BY <1>3, <1>4, <1>7, <1>10, <1>13, <1>14, CoreFrom

LEMMA OverflowStep ==
  ASSUME Core, NEW r \in Runs, L!Overflow(r)
  PROVE  Core'
<1> DEFINE q == loop[r].queue
           in == L!PopAssistant(q).intent
           l == [loop[r] EXCEPT !.pc = "model", !.queue = L!PopAssistant(q).rest, !.recovered = TRUE]
<1>1. /\ loop[r].pc = "request" /\ loop' = [loop EXCEPT ![r] = l]
      /\ L!AppendUsageRecord(r, "overflow", [in EXCEPT !.id = 0]) /\ L!AppendRunStep(r, "overflow_compact", 0)
      /\ responses' = [responses EXCEPT ![r] = @ + 1] /\ flight' = [flight EXCEPT ![r] = FALSE]
      /\ dropped' = dropped \cup {in.id}
      /\ UNCHANGED <<nextId, msgs, total, row, call, verdict>>
  BY DEF L!Overflow, L!None
<1>2. Before(r) /\ verdict[r] = "none" /\ row[r] # "none"
  BY <1>1, BeforeIs, RunFacts
<1>3. q \in Seq(Intent) /\ (q = <<>> \/ (Len(q) = 1 /\ q[1].kind = "assistant"))
  BY <1>1, <1>2, RunFacts DEF Before, Shape
<1>4. in \in Intent /\ L!PopAssistant(q).rest = <<>> /\ in = IF q = <<>> THEN L!NoIntent ELSE q[1]
  BY <1>3, PopIs
<1>5. usage' \in Seq(Spend)
  <2>1. [run |-> r, cause |-> "overflow", id |-> [in EXCEPT !.id = 0].id, attempt |-> [in EXCEPT !.id = 0].attempt] \in Spend
    BY <1>4 DEF Intent, Spend
  <2>2. usage' = Append(usage, [run |-> r, cause |-> "overflow", id |-> [in EXCEPT !.id = 0].id, attempt |-> [in EXCEPT !.id = 0].attempt])
    BY <1>1 DEF L!AppendUsageRecord
  <2>3. QED
    BY <2>1, <2>2, Writes
<1> HIDE DEF in
<1>6. l \in LoopState /\ l.pc = "model" /\ l.queue = <<>> /\ l.batch = loop[r].batch
  <2>1. <<>> \in Seq(Intent)
    OBVIOUS
  <2>2. QED
    BY <1>4, <2>1, RunFacts DEF LoopState, LoopPC
<1> HIDE DEF l
<1>7. nextId \in Nat /\ dropped \subseteq dropped'
  BY <1>1 DEF Core, Facts, LedgerTypes
<1>8. /\ IdsOwned' /\ StepsAnswered' /\ steps' \in Seq(StepRow) /\ \A p \in Runs : Keeps(p)
  BY <1>1, <1>7, RowWritten DEF Core
<1>9. LedgerTypes' /\ Rest(r) /\ loop'[r] = l /\ flight'[r] = FALSE
  BY <1>1, <1>5, <1>6, <1>7, <1>8, Writes DEF Core, Facts, LedgerTypes, Rest
<1>10. Newest(r) = 0 \/ L!ResultExists(Newest(r)) \/ Newest(r) \in dropped'
  BY <1>1, <1>2, <1>4 DEF Before, Shape
<1>11. RunShape(r)'
  <2>1. /\ Newest(r)' = Newest(r)
        /\ L!ResultExists(Newest(r))' <=> L!ResultExists(Newest(r))
    BY <1>8 DEF Keeps
  <2>2. call'[r] = L!NoCalls /\ loop'[r].batch = 0 /\ loop'[r].queue = <<>> /\ loop'[r].pc = "model"
    BY <1>1, <1>2, <1>6, <1>9 DEF Before, Shape
  <2>3. QED
    BY <1>9, <1>10, <2>1, <2>2 DEF RunShape, Shape, L!NoCalls
<1>12. RunBacked(r)'
  BY <1>1, <1>2, <1>6, <1>9 DEF RunBacked, Before, Shape
<1>13. QED
  BY <1>1, <1>2, <1>8, <1>9, <1>11, <1>12, CoreFrom

LEMMA SubmitStep ==
  ASSUME Core, NEW r \in Runs, L!Submit(r)
  PROVE  Core'
<1> DEFINE l == [loop[r] EXCEPT !.pc = "model"]
<1>1. /\ row[r] = "none" /\ loop' = [loop EXCEPT ![r] = l] /\ row' = [row EXCEPT ![r] = "active"]
      /\ L!AppendMessage(r, "user", 0)
      /\ UNCHANGED <<steps, usage, total, call, verdict, responses, flight>>
  BY DEF L!Submit, L!To, L!None
<1>2. Before(r) /\ verdict[r] = "none" /\ loop[r].pc = "idle" /\ ~flight[r]
  BY <1>1, BeforeIs, RunFacts
<1>3. l \in LoopState /\ l.pc = "model" /\ l.queue = <<>> /\ l.batch = 0
  BY <1>2, RunFacts DEF LoopState, LoopPC, Before, Shape
<1> HIDE DEF l
<1>4. /\ IdsOwned' /\ StepsAnswered' /\ nextId' \in Nat /\ msgs' \in Seq(Message) /\ dropped \subseteq dropped'
      /\ \A q \in Runs : Keeps(q)
  BY <1>1, MessageWritten DEF Core
<1>5. LedgerTypes' /\ Rest(r) /\ loop'[r] = l /\ row'[r] = "active"
  BY <1>1, <1>3, <1>4 DEF Core, Facts, LedgerTypes, Rest
<1>6. RunShape(r)'
  <2>1. /\ Newest(r)' = Newest(r)
        /\ L!ResultExists(Newest(r))' <=> L!ResultExists(Newest(r))
        /\ Newest(r) \in dropped => (Newest(r) \in dropped)'
    BY <1>4 DEF Keeps
  <2>2. /\ call'[r] = L!NoCalls /\ loop'[r].batch = 0 /\ loop'[r].queue = <<>> /\ loop'[r].pc = "model" /\ ~flight'[r]
        /\ Newest(r) = 0 \/ L!ResultExists(Newest(r)) \/ Newest(r) \in dropped
    BY <1>1, <1>2, <1>3, <1>5 DEF Before, Shape
  <2>3. QED
    BY <2>1, <2>2 DEF RunShape, Shape, L!NoCalls
<1>7. RunBacked(r)'
  BY <1>3, <1>5 DEF RunBacked
<1>8. QED
  BY <1>1, <1>2, <1>4, <1>5, <1>6, <1>7, CoreFrom

\* A step that stores the result of the run's newest step, or a message of no step.
LEMMA ResultStored ==
  ASSUME Core, NEW r \in Runs, NEW role \in {"assistant", "tool"}, NEW id \in Nat,
         L!AppendMessage(r, role, id), UNCHANGED <<steps, verdict, row, usage, total, responses>>,
         id = 0 => Newest(r) = 0 \/ L!ResultExists(Newest(r)) \/ Newest(r) \in dropped,
         id # 0 => Newest(r) = id /\ Backed(id, r, role),
         loop' \in [Runs -> LoopState], call' \in [Runs -> [Calls -> CallPC]], flight' \in [Runs -> BOOLEAN],
         Rest(r), ~flight'[r], call'[r] = L!NoCalls, loop'[r].queue = <<>>, loop'[r].batch = 0,
         loop'[r].pc \in {"model", "batch", "end"}, verdict[r] = "none", row[r] # "none"
  PROVE  Core'
<1>1. Backed(id, r, role) => Backed(id, r, L!Kinds[role])
  BY DEF L!Kinds
<1>2. /\ IdsOwned' /\ StepsAnswered' /\ nextId' \in Nat /\ msgs' \in Seq(Message) /\ dropped \subseteq dropped'
      /\ \A q \in Runs : Newest(q)' = Newest(q) /\ (q # r \/ id = 0 => Keeps(q))
      /\ \A i : L!ResultExists(i) => L!ResultExists(i)'
      /\ id # 0 => L!ResultExists(id)' \/ id \in dropped'
  BY <1>1, MessageWritten DEF Core
<1>3. LedgerTypes'
  BY <1>2 DEF Core, Facts, LedgerTypes
<1>4. Newest(r)' = 0 \/ L!ResultExists(Newest(r))' \/ (Newest(r) \in dropped)'
  <2>1. CASE id = 0
    BY <1>2, <2>1 DEF Keeps
  <2>2. CASE id # 0
    <3>1. Newest(r)' = id
      BY <1>2, <2>2
    <3>2. QED
      BY <1>2, <2>2, <3>1 DEF L!ResultExists
  <2>3. QED
    BY <2>1, <2>2
<1>5. RunShape(r)'
  BY <1>4 DEF RunShape, Shape, L!NoCalls
<1>6. RunBacked(r)'
  BY DEF RunBacked
<1>7. row'[r] # "none" /\ \A q \in Runs \ {r} : Keeps(q)
  BY <1>2
<1>8. QED
  BY <1>2, <1>3, <1>5, <1>6, <1>7, CoreFrom

LEMMA Single ==
  ASSUME NEW A, NEW q \in Seq(A), Len(q) = 1
  PROVE  Head(q) = q[1] /\ Tail(q) = <<>> /\ q[1] \in A /\ q # <<>>
<1>1. 1 \in DOMAIN q /\ Head(q) = q[1] /\ q # <<>>
  OBVIOUS
<1>2. Tail(q) = <<>>
  <2>1. Tail(q) \in Seq(A) /\ Len(Tail(q)) = 0
    BY <1>1, HeadTailProperties
  <2>2. QED
    BY <2>1, EmptySeq
<1>3. QED
  BY <1>1, <1>2

LEMMA StoreAssistantStep ==
  ASSUME Core, NEW r \in Runs, L!StoreAssistant(r)
  PROVE  Core'
<1>1. loop[r].pc = "store" /\ L!AppendMessage(r, "assistant", Head(loop[r].queue).id)
      /\ flight' = [flight EXCEPT ![r] = FALSE]
      /\ UNCHANGED <<steps, usage, total, row, call, verdict, responses>>
  BY DEF L!StoreAssistant
<1>2. PICK pc \in {"batch", "end"} : loop' = [loop EXCEPT ![r].pc = pc, ![r].queue = Tail(@)]
  BY DEF L!StoreAssistant
<1>3. Before(r) /\ verdict[r] = "none" /\ row[r] # "none" /\ loop[r].queue \in Seq(Intent)
  BY <1>1, BeforeIs, RunFacts
<1>4. Len(loop[r].queue) = 1 /\ loop[r].batch = 0 /\ call[r] = L!NoCalls
  BY <1>1, <1>3 DEF Before, Shape
<1>5. Head(loop[r].queue) = loop[r].queue[1] /\ Tail(loop[r].queue) = <<>> /\ loop[r].queue[1] \in Intent /\ loop[r].queue # <<>>
  BY <1>3, <1>4, Single
<1>6. PICK id \in Nat : id = loop[r].queue[1].id
  BY <1>5 DEF Intent
<1>7. /\ id = 0 => Newest(r) = 0 \/ L!ResultExists(Newest(r)) \/ Newest(r) \in dropped
      /\ id # 0 => Newest(r) = id /\ Backed(id, r, "assistant")
  BY <1>1, <1>3, <1>5, <1>6 DEF Before, Shape, RunBacked
<1> DEFINE l == [loop[r] EXCEPT !.pc = pc, !.queue = <<>>]
<1>8. loop' = [loop EXCEPT ![r] = l]
  BY <1>2, <1>5
<1>9. l \in LoopState /\ l.pc \in {"batch", "end"} /\ l.queue = <<>> /\ l.batch = 0
  <2>1. <<>> \in Seq(Intent)
    OBVIOUS
  <2>2. QED
    BY <1>4, <2>1, RunFacts DEF LoopState, LoopPC
<1> HIDE DEF l
<1>10. /\ loop' \in [Runs -> LoopState] /\ call' \in [Runs -> [Calls -> CallPC]] /\ flight' \in [Runs -> BOOLEAN]
       /\ Rest(r) /\ ~flight'[r] /\ call'[r] = L!NoCalls /\ loop'[r] = l
  BY <1>1, <1>4, <1>8, <1>9 DEF Core, Facts, LedgerTypes, Rest
<1>11. L!AppendMessage(r, "assistant", id)
  BY <1>1, <1>5, <1>6
<1>12. QED
  BY <1>1, <1>3, <1>7, <1>9, <1>10, <1>11, ResultStored

LEMMA RecordToolResultsStep ==
  ASSUME Core, NEW r \in Runs, L!RecordToolResults(r)
  PROVE  Core'
<1> DEFINE q == loop[r].queue
           pc == IF loop[r].stop THEN "end" ELSE "model"
           l == [loop[r] EXCEPT !.pc = pc, !.queue = <<>>, !.batch = 0]
<1>1. /\ loop[r].pc = "batch" /\ L!AppendMessage(r, "tool", L!PopTools(q).id)
      /\ (\A c \in Calls : call[r][c] = "done") \/ call[r] = L!NoCalls
      /\ loop' = [loop EXCEPT ![r].pc = pc, ![r].queue = L!PopTools(q).rest, ![r].batch = 0]
      /\ call' = [call EXCEPT ![r] = L!NoCalls] /\ flight' = [flight EXCEPT ![r] = FALSE]
      /\ UNCHANGED <<steps, usage, total, row, verdict, responses>>
  BY DEF L!RecordToolResults, L!ResetBatch, L!None
<1>2. Before(r) /\ verdict[r] = "none" /\ row[r] # "none" /\ q \in Seq(Intent) /\ loop[r].batch \in Nat
  BY <1>1, BeforeIs, RunFacts
<1>3. \A k \in DOMAIN q : q[k].kind = "tool" /\ q[k].id = loop[r].batch
  BY <1>1, <1>2 DEF Before, Shape
<1>4. L!PopTools(q).rest = <<>> /\ L!PopTools(q).id = IF q = <<>> THEN 0 ELSE loop[r].batch
  BY <1>2, <1>3, PopToolsIs
<1>5. L!PopTools(q).id = loop[r].batch
  <2>1. CASE loop[r].batch = 0
    BY <1>4, <2>1
  <2>2. CASE loop[r].batch # 0
    BY <1>1, <1>2, <1>4, <2>2 DEF Before, Shape, L!NoCalls
  <2>3. QED
    BY <2>1, <2>2
<1>6. PICK id \in Nat : id = loop[r].batch
  BY <1>2
<1>7. /\ id = 0 => Newest(r) = 0 \/ L!ResultExists(Newest(r)) \/ Newest(r) \in dropped
      /\ id # 0 => Newest(r) = id /\ Backed(id, r, "tool")
  BY <1>1, <1>2, <1>6 DEF Before, Shape, RunBacked
<1>8. loop' = [loop EXCEPT ![r] = l]
  BY <1>1, <1>4
<1>9. l \in LoopState /\ l.pc \in {"model", "end"} /\ l.queue = <<>> /\ l.batch = 0
  <2>1. <<>> \in Seq(Intent)
    OBVIOUS
  <2>2. QED
    BY <2>1, RunFacts DEF LoopState, LoopPC
<1> HIDE DEF l
<1>10. L!NoCalls \in [Calls -> CallPC]
  BY DEF L!NoCalls, CallPC
<1>11. /\ loop' \in [Runs -> LoopState] /\ call' \in [Runs -> [Calls -> CallPC]] /\ flight' \in [Runs -> BOOLEAN]
       /\ Rest(r) /\ ~flight'[r] /\ call'[r] = L!NoCalls /\ loop'[r] = l
  <2>1. call' = [call EXCEPT ![r] = L!NoCalls] /\ flight' = [flight EXCEPT ![r] = FALSE] /\ row' = row
    BY <1>1
  <2>2. loop \in [Runs -> LoopState] /\ call \in [Runs -> [Calls -> CallPC]] /\ flight \in [Runs -> BOOLEAN]
    BY DEF Core, Facts, LedgerTypes
  <2>3. QED
    BY <1>8, <1>9, <1>10, <2>1, <2>2 DEF Rest
<1>12. L!AppendMessage(r, "tool", id)
  BY <1>1, <1>5, <1>6
<1>13. QED
  BY <1>1, <1>2, <1>7, <1>9, <1>11, <1>12, ResultStored

LEMMA CrashStep ==
  ASSUME Core, L!Crash
  PROVE  Core'
<1>1. /\ loop' = [r \in Runs |-> L!Fresh] /\ call' = [r \in Runs |-> L!NoCalls]
      /\ verdict' = [r \in Runs |-> IF row[r] = "active" THEN L!Inspect(r) ELSE verdict[r]]
      /\ row' = [r \in Runs |-> IF row[r] = "active" THEN "settled" ELSE row[r]]
      /\ UNCHANGED <<nextId, steps, msgs, usage, total, responses, flight, dropped>>
  BY DEF L!Crash
<1>2. IdsOwned' /\ StepsAnswered' /\ \A q \in Runs : Keeps(q)
  BY <1>1, NothingWritten DEF Core
<1>3. L!Fresh \in LoopState /\ L!Fresh.pc = "idle" /\ L!Fresh.queue = <<>> /\ L!Fresh.batch = 0
  BY DEF L!Fresh, LoopState, LoopPC, L!None
<1>4. L!NoCalls \in [Calls -> CallPC]
  BY DEF L!NoCalls, CallPC
<1>5. \A r \in Runs : L!Inspect(r) = IF Newest(r) = 0 THEN "bare"
                                     ELSE IF L!ResultExists(Newest(r)) THEN "completed" ELSE "interrupted"
  BY NewestStepIs DEF L!Inspect, L!None
<1>6. LedgerTypes'
  <2>1. /\ loop' \in [Runs -> LoopState] /\ call' \in [Runs -> [Calls -> CallPC]]
        /\ row' \in [Runs -> {"none", "active", "settled"}]
    BY <1>1, <1>3, <1>4 DEF Core, Facts, LedgerTypes
  <2>2. verdict' \in [Runs -> {"none", "bare", "completed", "interrupted"}]
    BY <1>1, <1>5 DEF Core, Facts, LedgerTypes
  <2>3. QED
    BY <1>1, <2>1, <2>2 DEF Core, Facts, LedgerTypes
<1>7. ASSUME NEW r \in Runs PROVE RunShape(r)' /\ RunBacked(r)' /\ RunTold(r)'
  <2>1. /\ loop'[r] = L!Fresh /\ call'[r] = L!NoCalls /\ flight'[r] = flight[r] /\ dropped' = dropped
        /\ verdict'[r] = IF row[r] = "active" THEN L!Inspect(r) ELSE verdict[r]
        /\ row'[r] = IF row[r] = "active" THEN "settled" ELSE row[r]
        /\ Newest(r)' = Newest(r) /\ (L!ResultExists(Newest(r))' <=> L!ResultExists(Newest(r)))
    BY <1>1, <1>2 DEF Keeps
  <2>2. Before(r) /\ RunTold(r) /\ flight[r] \in BOOLEAN
    BY BeforeIs, RunFacts DEF Core
  <2>3. RunShape(r)'
    BY <1>3, <2>1, <2>2 DEF RunShape, Before, Shape, L!NoCalls
  <2>4. RunBacked(r)'
    BY <1>3, <2>1 DEF RunBacked
  <2>5. RunTold(r)'
    <3>1. CASE row[r] = "active"
      BY <1>3, <1>5, <2>1, <2>2, <3>1 DEF RunTold, Before, Shape
    <3>2. CASE row[r] # "active"
      BY <1>3, <2>1, <2>2, <3>2 DEF RunTold
    <3>3. QED
      BY <3>1, <3>2
  <2>6. QED
    BY <2>3, <2>4, <2>5
<1>8. QED
  BY <1>2, <1>6, <1>7 DEF Core, Facts

\* Every step of the ledger.
LEMMA CoreStep ==
  ASSUME Core, L!LedgerNext
  PROVE  Core'
<1>1. CASE L!Crash
  BY <1>1, CrashStep
<1>2. ASSUME NEW r \in Runs, NEW c \in Calls,
             L!WrapToolCall(r, c) \/ L!ToolIntentFails(r, c) \/ L!PushIntent(r, c) \/ L!CallReturns(r, c)
      PROVE  Core'
  BY <1>2, WrapToolCallStep, ToolIntentFailsStep, PushIntentStep, CallReturnsStep
<1>3. ASSUME NEW r \in Runs,
             \/ L!Submit(r) \/ L!BeforeModel(r) \/ L!IntentFails(r) \/ L!Respond(r) \/ L!SettleUsage(r)
             \/ L!StoreAssistant(r) \/ L!Overflow(r) \/ L!RequestEnds(r) \/ L!RecordToolResults(r) \/ L!Suspend(r)
             \/ L!LoopLeaves(r) \/ L!Settle(r) \/ L!Cancel(r)
      PROVE  Core'
  BY <1>3, SubmitStep, BeforeModelStep, IntentFailsStep, RespondStep, SettleUsageStep, StoreAssistantStep, OverflowStep,
     RequestEndsStep, RecordToolResultsStep, SuspendStep, LoopLeavesStep, SettleStep, CancelStep
<1>4. QED
  BY <1>1, <1>2, <1>3 DEF L!LedgerNext

-----------------------------------------------------------------------------
(* The ledger: what is billed.                                             *)

Asked(r) == Cardinality(L!Attempts(r, "assistant"))
AllBilled == \A r \in Runs : RunBilled(r)

LEMMA BilledCounts ==
  ASSUME usage \in Seq(Spend), NEW r
  PROVE  /\ Len(usage) \in Nat /\ Billed(r) \in SUBSET (1..Len(usage)) /\ Cardinality(Billed(r)) \in Nat
         /\ \A i \in Billed(r) : i \in Nat /\ usage[i].attempt \in Nat
         /\ L!SumUsage(r) = Cardinality(Billed(r))
<1>1. Billed(r) \in SUBSET (1..Len(usage)) /\ Len(usage) \in Nat
  BY DEF Billed
<1>2. IsFiniteSet(1..Len(usage))
  BY <1>1, FS_Interval
<1>3. Cardinality(Billed(r)) \in Nat
  BY <1>1, <1>2, CountOne, Zenon
<1>4. \A i \in DOMAIN usage : usage[i] \in Spend /\ i \in Nat
  OBVIOUS
<1>5. \A i \in Billed(r) : i \in Nat /\ usage[i].attempt \in Nat
  BY <1>4 DEF Billed, Spend
<1>6. L!SumUsage(r) = Cardinality(Billed(r))
  BY SizeIs DEF L!SumUsage, Billed
<1>7. QED
  BY <1>1, <1>3, <1>5, <1>6

LEMMA AskedGrows ==
  ASSUME steps \in Seq(StepRow), NEW r \in Runs, NEW kind \in {"assistant", "tool", "overflow_compact"}, NEW id \in Nat,
         L!AppendRunStep(r, kind, id), NEW q \in Runs
  PROVE  /\ Asked(q) \in Nat
         /\ Asked(q)' = Asked(q) + (IF q = r /\ kind = "assistant" THEN 1 ELSE 0)
<1> DEFINE e == [run |-> r, kind |-> kind, attempt |-> L!Attempt(r, kind), id |-> id]
           D == {i \in DOMAIN steps : steps[i].run = q /\ steps[i].kind = "assistant"}
           E == {i \in DOMAIN steps' : steps'[i].run = q /\ steps'[i].kind = "assistant"}
<1>1. e \in StepRow
  BY AttemptIs DEF StepRow
<1>2. steps' = Append(steps, e) /\ e.run = r /\ e.kind = kind
  BY DEF L!AppendRunStep
<1> HIDE DEF e
<1>3. /\ Len(steps) \in Nat
      /\ DOMAIN steps = 1..Len(steps) /\ DOMAIN steps' = 1..(Len(steps) + 1)
      /\ steps'[Len(steps) + 1] = e
      /\ \A i \in DOMAIN steps : i \in DOMAIN steps' /\ steps'[i] = steps[i]
      /\ \A i \in DOMAIN steps' : i \in DOMAIN steps \/ i = Len(steps) + 1
  BY <1>1, <1>2, AppendAt
<1>4. /\ D \in SUBSET (1..Len(steps)) /\ E \in SUBSET (1..(Len(steps) + 1)) /\ E \ {Len(steps) + 1} = D
      /\ Len(steps) + 1 \in E <=> q = r /\ kind = "assistant"
  BY <1>2, <1>3
<1>5. Asked(q) = Cardinality(D) /\ Asked(q)' = Cardinality(E)
  BY DEF Asked, L!Attempts
<1> HIDE DEF D, E
<1>6. /\ Cardinality(D) \in Nat
      /\ Cardinality(E) = Cardinality(D) + (IF Len(steps) + 1 \in E THEN 1 ELSE 0)
  BY <1>3, <1>4, CountAppend
<1>7. QED
  BY <1>4, <1>5, <1>6

\* A row of the ledger for run r.
LEMMA BilledGrows ==
  ASSUME usage \in Seq(Spend), NEW u \in Spend, usage' = Append(usage, u), NEW q \in Runs
  PROVE  /\ Cardinality(Billed(q))' = Cardinality(Billed(q)) + (IF q = u.run THEN 1 ELSE 0)
         /\ usage'[Len(usage) + 1] = u
         /\ \A i \in Billed(q) : i \in Billed(q)' /\ usage'[i] = usage[i]
         /\ \A i \in Billed(q)' : i \in Billed(q) \/ (i = Len(usage) + 1 /\ q = u.run)
<1>1. /\ Len(usage) \in Nat
      /\ DOMAIN usage = 1..Len(usage) /\ DOMAIN usage' = 1..(Len(usage) + 1)
      /\ usage'[Len(usage) + 1] = u
      /\ \A i \in DOMAIN usage : i \in DOMAIN usage' /\ usage'[i] = usage[i]
      /\ \A i \in DOMAIN usage' : i \in DOMAIN usage \/ i = Len(usage) + 1
  BY AppendAt
<1>2. /\ \A i \in Billed(q) : i \in Billed(q)' /\ usage'[i] = usage[i]
      /\ \A i \in Billed(q)' : i \in Billed(q) \/ (i = Len(usage) + 1 /\ q = u.run)
      /\ Billed(q) \in SUBSET (1..Len(usage)) /\ Billed(q)' \in SUBSET (1..(Len(usage) + 1))
      /\ Billed(q)' \ {Len(usage) + 1} = Billed(q)
      /\ Len(usage) + 1 \in Billed(q)' <=> q = u.run
  BY <1>1 DEF Billed
<1>3. Cardinality(Billed(q)') = Cardinality(Billed(q)) + (IF Len(usage) + 1 \in Billed(q)' THEN 1 ELSE 0)
  BY <1>1, <1>2, CountAppend
<1>4. Cardinality(Billed(q)') = Cardinality(Billed(q)) + (IF q = u.run THEN 1 ELSE 0)
  BY <1>2, <1>3
<1>5. QED
  BY <1>1, <1>2, <1>4

\* A step bills nothing of run q and begins no request of it.
Unbilled(q) ==
  /\ usage' = usage /\ Asked(q)' = Asked(q)
  /\ loop'[q].pc \in {"request", "settle"} =>
       loop'[q].queue = <<>> \/ (loop'[q].queue = loop[q].queue /\ loop[q].pc \in {"request", "settle"})
  /\ responses'[q] >= responses[q]
  /\ loop'[q].pc = "settle" => loop[q].pc = "settle" \/ responses'[q] = responses[q] + 1
  /\ total'[q] = total[q] \/ total'[q] = L!SumUsage(q)

LEMMA BilledKept ==
  ASSUME Core, NEW q \in Runs, RunBilled(q), Unbilled(q), responses' \in [Runs -> Nat]
  PROVE  RunBilled(q)'
<1>1. /\ Len(usage) \in Nat /\ Cardinality(Billed(q)) \in Nat /\ L!SumUsage(q) = Cardinality(Billed(q))
      /\ responses[q] \in Nat /\ responses'[q] \in Nat /\ total[q] \in Nat
  BY BilledCounts DEF Core, Facts, LedgerTypes
<1>2. Billed(q)' = Billed(q) /\ Asked(q)' = Asked(q) /\ usage' = usage
  BY DEF Billed, Unbilled
<1>3. /\ \A i \in Billed(q) : usage[i].attempt <= Asked(q)
      /\ \A i, j \in Billed(q) : i # j /\ usage[i].attempt > 0 => usage[i].attempt # usage[j].attempt
      /\ loop[q].pc \in {"request", "settle"} /\ loop[q].queue # <<>> =>
           /\ loop[q].queue[1].attempt = Asked(q)
           /\ \A i \in Billed(q) : usage[i].attempt < Asked(q)
      /\ Cardinality(Billed(q)) + (IF loop[q].pc = "settle" THEN 1 ELSE 0) <= responses[q]
      /\ total[q] <= Cardinality(Billed(q))
  BY DEF RunBilled, Asked
<1>4. /\ \A i \in Billed(q)' : usage'[i].attempt <= Asked(q)'
      /\ \A i, j \in Billed(q)' : i # j /\ usage'[i].attempt > 0 => usage'[i].attempt # usage'[j].attempt
  BY <1>2, <1>3
<1>5. loop'[q].pc \in {"request", "settle"} /\ loop'[q].queue # <<>> =>
        /\ loop'[q].queue[1].attempt = Asked(q)'
        /\ \A i \in Billed(q)' : usage'[i].attempt < Asked(q)'
  BY <1>2, <1>3 DEF Unbilled
<1>6. Cardinality(Billed(q)') + (IF loop'[q].pc = "settle" THEN 1 ELSE 0) <= responses'[q]
  BY <1>1, <1>2, <1>3 DEF Unbilled
<1>7. total'[q] <= Cardinality(Billed(q)')
  BY <1>1, <1>2, <1>3 DEF Unbilled
<1>8. QED
  BY <1>4, <1>5, <1>6, <1>7 DEF RunBilled, Asked

\* A ledger row of run r takes the attempt of the request it answers.
LEMMA BilledRow ==
  ASSUME Core, NEW r \in Runs, AllBilled, NEW u \in Spend, usage' = Append(usage, u), u.run = r,
         Asked(r)' = Asked(r), \A q \in Runs \ {r} : Asked(q)' = Asked(q) /\ loop'[q] = loop[q] /\ responses'[q] = responses[q],
         total' = total, loop[r].pc \in {"request", "settle"}, ~(loop'[r].pc \in {"request", "settle"}),
         u.attempt = IF loop[r].queue = <<>> THEN 0 ELSE loop[r].queue[1].attempt,
         responses'[r] = responses[r] + (IF loop[r].pc = "settle" THEN 0 ELSE 1)
  PROVE  AllBilled'
<1>1. usage \in Seq(Spend)
  BY DEF Core, Facts, LedgerTypes
<1>2. \A q \in Runs : /\ Len(usage) \in Nat /\ Cardinality(Billed(q)) \in Nat /\ Asked(q) \in Nat
                      /\ \A i \in Billed(q) : i \in Nat /\ usage[i].attempt \in Nat /\ i <= Len(usage)
                      /\ responses[q] \in Nat /\ total[q] \in Nat
  BY <1>1, BilledCounts, AttemptIs DEF Core, Facts, LedgerTypes, Asked
<1>3. u.attempt \in Nat
  BY DEF Spend
<1>4. ASSUME NEW q \in Runs PROVE RunBilled(q)'
  <2>1. /\ Cardinality(Billed(q))' = Cardinality(Billed(q)) + (IF q = u.run THEN 1 ELSE 0)
        /\ usage'[Len(usage) + 1] = u
        /\ \A i \in Billed(q) : i \in Billed(q)' /\ usage'[i] = usage[i]
        /\ \A i \in Billed(q)' : i \in Billed(q) \/ (i = Len(usage) + 1 /\ q = u.run)
    BY <1>1, BilledGrows
  <2>2. /\ \A i \in Billed(q) : usage[i].attempt <= Asked(q)
        /\ \A i, j \in Billed(q) : i # j /\ usage[i].attempt > 0 => usage[i].attempt # usage[j].attempt
        /\ loop[q].pc \in {"request", "settle"} /\ loop[q].queue # <<>> =>
             /\ loop[q].queue[1].attempt = Asked(q)
             /\ \A i \in Billed(q) : usage[i].attempt < Asked(q)
        /\ Cardinality(Billed(q)) + (IF loop[q].pc = "settle" THEN 1 ELSE 0) <= responses[q]
        /\ total[q] <= Cardinality(Billed(q))
    BY DEF RunBilled, Asked, AllBilled
  <2>3. CASE q # r
    <3>1. /\ Cardinality(Billed(q))' = Cardinality(Billed(q)) /\ Asked(q)' = Asked(q) /\ total'[q] = total[q]
          /\ \A i \in Billed(q)' : i \in Billed(q) /\ usage'[i] = usage[i]
          /\ loop'[q] = loop[q] /\ responses'[q] = responses[q]
      BY <1>2, <2>1, <2>3
    <3>2. /\ \A i \in Billed(q)' : usage'[i].attempt <= Asked(q)'
          /\ \A i, j \in Billed(q)' : i # j /\ usage'[i].attempt > 0 => usage'[i].attempt # usage'[j].attempt
      <4>1. ASSUME NEW i \in Billed(q)' PROVE usage'[i].attempt <= Asked(q)'
        BY <2>2, <3>1
      <4>2. ASSUME NEW i \in Billed(q)', NEW j \in Billed(q)', i # j, usage'[i].attempt > 0
            PROVE  usage'[i].attempt # usage'[j].attempt
        <5>1. i \in Billed(q) /\ j \in Billed(q) /\ usage'[i] = usage[i] /\ usage'[j] = usage[j]
          BY <3>1
        <5>2. usage[i].attempt > 0 => usage[i].attempt # usage[j].attempt
          BY <2>2, <4>2, <5>1
        <5>3. QED
          BY <4>2, <5>1, <5>2
      <4>3. QED
        BY <4>1, <4>2
    <3>3. loop'[q].pc \in {"request", "settle"} /\ loop'[q].queue # <<>> =>
            /\ loop'[q].queue[1].attempt = Asked(q)'
            /\ \A i \in Billed(q)' : usage'[i].attempt < Asked(q)'
      BY <2>2, <3>1
    <3>4. /\ Cardinality(Billed(q))' + (IF loop'[q].pc = "settle" THEN 1 ELSE 0) <= responses'[q]
          /\ total'[q] <= Cardinality(Billed(q))'
      BY <2>2, <3>1
    <3>5. QED
      BY <3>2, <3>3, <3>4 DEF RunBilled, Asked
  <2>4. CASE q = r
    <3>1. /\ u.attempt = 0 \/ (u.attempt = Asked(q) /\ \A i \in Billed(q) : usage[i].attempt < u.attempt)
          /\ u.attempt <= Asked(q)
      BY <1>2, <2>2, <2>4
    <3>2. \A i \in Billed(q)' : usage'[i].attempt <= Asked(q)'
      <4>1. Asked(q)' = Asked(q)
        BY <1>2
      <4>2. ASSUME NEW i \in Billed(q) PROVE usage'[i].attempt <= Asked(q)
        <5>1. usage'[i] = usage[i]
          BY <2>1
        <5>2. QED
          BY <2>2, <5>1
      <4>3. usage'[Len(usage) + 1].attempt <= Asked(q)
        BY <2>1, <3>1
      <4>4. QED
        BY <2>1, <4>1, <4>2, <4>3
    <3>3. \A i, j \in Billed(q)' : i # j /\ usage'[i].attempt > 0 => usage'[i].attempt # usage'[j].attempt
      <4>1. SUFFICES ASSUME NEW i \in Billed(q)', NEW j \in Billed(q)', i # j, usage'[i].attempt > 0
                     PROVE  usage'[i].attempt # usage'[j].attempt
        OBVIOUS
      <4>2. CASE i \in Billed(q) /\ j \in Billed(q)
        <5>1. usage'[i] = usage[i] /\ usage'[j] = usage[j]
          BY <2>1, <4>2
        <5>2. usage[i].attempt > 0 => usage[i].attempt # usage[j].attempt
          BY <2>2, <4>1, <4>2
        <5>3. QED
          BY <4>1, <5>1, <5>2
      <4>3. CASE i \in Billed(q) /\ j = Len(usage) + 1
        <5>1. usage'[i] = usage[i] /\ usage'[j] = u /\ usage[i].attempt \in Nat
          BY <1>2, <2>1, <4>3
        <5>2. u.attempt = 0 \/ usage[i].attempt < u.attempt
          BY <3>1, <4>3
        <5>3. QED
          BY <1>3, <4>1, <5>1, <5>2
      <4>4. CASE i = Len(usage) + 1 /\ j \in Billed(q)
        <5>1. usage'[j] = usage[j] /\ usage'[i] = u /\ usage[j].attempt \in Nat
          BY <1>2, <2>1, <4>4
        <5>2. u.attempt = 0 \/ usage[j].attempt < u.attempt
          BY <3>1, <4>4
        <5>3. QED
          BY <1>3, <4>1, <5>1, <5>2
      <4>5. QED
        BY <2>1, <4>1, <4>2, <4>3, <4>4
    <3>4. /\ Cardinality(Billed(q))' + (IF loop'[q].pc = "settle" THEN 1 ELSE 0) <= responses'[q]
          /\ total'[q] <= Cardinality(Billed(q))'
      BY <1>2, <2>1, <2>2, <2>4
    <3>5. QED
      BY <2>4, <3>2, <3>3, <3>4 DEF RunBilled, Asked
  <2>5. QED
    BY <2>3, <2>4
<1>5. QED
  BY <1>4 DEF AllBilled

LEMMA AskedSame == ASSUME steps' = steps PROVE \A q : Asked(q)' = Asked(q)
BY DEF Asked, L!Attempts

\* Steps that write no row at all.
LEMMA UnbilledQuiet ==
  ASSUME Core, NEW r \in Runs, NEW q \in Runs,
         \/ L!Submit(r) \/ L!IntentFails(r) \/ L!Respond(r) \/ L!StoreAssistant(r) \/ L!RequestEnds(r)
         \/ L!RecordToolResults(r) \/ L!Suspend(r) \/ L!LoopLeaves(r) \/ L!Settle(r) \/ L!Cancel(r)
  PROVE  Unbilled(q)
<1>1. loop \in [Runs -> LoopState] /\ responses \in [Runs -> Nat] /\ total \in [Runs -> Nat] /\ responses[q] \in Nat
  BY DEF Core, Facts, LedgerTypes
<1>2. loop[r] \in LoopState
  BY <1>1
<1>3. loop[r].pc \in {"idle", "model"} => loop[r].queue = <<>>
  BY BeforeIs DEF Before, Shape
<1>4. row[r] = "none" => loop[r].pc = "idle"
  BY RunFacts
<1>5. steps' = steps => Asked(q)' = Asked(q)
  BY AskedSame
<1>6. CASE L!Submit(r)
  BY <1>1, <1>2, <1>3, <1>4, <1>5, <1>6 DEF L!Submit, L!To, Unbilled, LoopState
<1>7. CASE L!IntentFails(r)
  BY <1>1, <1>2, <1>3, <1>5, <1>7 DEF L!IntentFails, Unbilled, LoopState
<1>8. CASE L!Respond(r)
  BY <1>1, <1>2, <1>5, <1>8 DEF L!Respond, L!To, Unbilled, LoopState
<1>9. CASE L!StoreAssistant(r)
  <2>1. PICK pc \in {"batch", "end"} : loop' = [loop EXCEPT ![r].pc = pc, ![r].queue = Tail(@)]
    BY <1>9 DEF L!StoreAssistant
  <2>2. /\ q = r => loop'[q].pc = pc
        /\ q # r => loop'[q] = loop[q]
    BY <1>1, <1>2, <2>1 DEF LoopState
  <2>3. UNCHANGED <<steps, usage, total, responses>>
    BY <1>9 DEF L!StoreAssistant
  <2>4. QED
    BY <1>1, <1>5, <2>2, <2>3 DEF Unbilled
<1>10. CASE L!RequestEnds(r)
  BY <1>1, <1>2, <1>5, <1>10 DEF L!RequestEnds, L!To, Unbilled, LoopState
<1>11. CASE L!RecordToolResults(r)
  <2>1. /\ q = r => loop'[q].pc \in {"model", "end"}
        /\ q # r => loop'[q] = loop[q]
    BY <1>1, <1>2, <1>11 DEF L!RecordToolResults, LoopState
  <2>2. UNCHANGED <<steps, usage, total, responses>>
    BY <1>11 DEF L!RecordToolResults
  <2>3. QED
    BY <1>1, <1>5, <2>1, <2>2 DEF Unbilled
<1>12. CASE L!Suspend(r)
  BY <1>1, <1>2, <1>5, <1>12 DEF L!Suspend, L!To, Unbilled, LoopState
<1>13. CASE L!LoopLeaves(r)
  BY <1>1, <1>2, <1>5, <1>13 DEF L!LoopLeaves, L!To, Unbilled, LoopState
<1>14. CASE L!Settle(r)
  BY <1>1, <1>2, <1>5, <1>14 DEF L!Settle, L!Fresh, Unbilled
<1>15. CASE L!Cancel(r)
  BY <1>1, <1>2, <1>5, <1>15 DEF L!Cancel, Unbilled, LoopState
<1>16. QED
  BY <1>6, <1>7, <1>8, <1>9, <1>10, <1>11, <1>12, <1>13, <1>14, <1>15

LEMMA UnbilledCalls ==
  ASSUME Core, NEW r \in Runs, NEW c \in Calls, NEW q \in Runs,
         L!WrapToolCall(r, c) \/ L!ToolIntentFails(r, c) \/ L!PushIntent(r, c) \/ L!CallReturns(r, c)
  PROVE  Unbilled(q)
<1>1. /\ loop \in [Runs -> LoopState] /\ responses \in [Runs -> Nat] /\ total \in [Runs -> Nat] /\ responses[q] \in Nat
      /\ steps \in Seq(StepRow) /\ nextId \in Nat
  BY DEF Core, Facts, LedgerTypes
<1>2. loop[r] \in LoopState
  BY <1>1
<1>3. steps' = steps => Asked(q)' = Asked(q)
  BY AskedSame
<1>4. CASE L!WrapToolCall(r, c)
  <2>1. PICK id \in Nat : id = IF loop[r].batch = 0 THEN nextId + 1 ELSE loop[r].batch
    <3>1. loop[r].batch \in Nat
      BY RunFacts
    <3>2. nextId \in Nat
      BY <1>1
    <3>3. QED
      BY <3>1, <3>2
  <2>2. L!AppendRunStep(r, "tool", id)
    BY <1>4, <2>1 DEF L!WrapToolCall, L!BatchId, L!None
  <2>3. Asked(q) \in Nat /\ Asked(q)' = Asked(q) + 0
    BY <1>1, <2>2, AskedGrows
  <2>4. /\ loop'[q].pc = loop[q].pc /\ loop'[q].queue = loop[q].queue
        /\ UNCHANGED <<usage, total, responses>>
    BY <1>1, <1>2, <1>4 DEF L!WrapToolCall, LoopState
  <2>5. QED
    BY <1>1, <2>3, <2>4 DEF Unbilled
<1>5. CASE L!ToolIntentFails(r, c)
  BY <1>1, <1>3, <1>5 DEF L!ToolIntentFails, Unbilled
<1>6. CASE L!PushIntent(r, c)
  <2>1. loop[r].pc = "batch"
    BY <1>6, BeforeIs DEF L!PushIntent, Before, Shape, L!NoCalls
  <2>2. /\ loop'[q].pc = loop[q].pc
        /\ q # r => loop'[q] = loop[q]
        /\ UNCHANGED <<steps, usage, total, responses>>
    BY <1>1, <1>2, <1>6 DEF L!PushIntent, LoopState
  <2>3. QED
    BY <1>1, <1>3, <2>1, <2>2 DEF Unbilled
<1>7. CASE L!CallReturns(r, c)
  BY <1>1, <1>3, <1>7 DEF L!CallReturns, Unbilled
<1>8. QED
  BY <1>4, <1>5, <1>6, <1>7

\* A request under way holds the newest attempt.
LEMMA BilledIntent ==
  ASSUME Core, AllBilled, NEW r \in Runs, L!BeforeModel(r), Core'
  PROVE  AllBilled'
<1>1. /\ loop \in [Runs -> LoopState] /\ responses \in [Runs -> Nat] /\ total \in [Runs -> Nat]
      /\ steps \in Seq(StepRow) /\ nextId \in Nat /\ usage \in Seq(Spend)
  BY DEF Core, Facts, LedgerTypes
<1>2. PICK id \in Nat : id = nextId + 1
  BY <1>1
<1> DEFINE in == [kind |-> "assistant", id |-> id, attempt |-> L!Attempt(r, "assistant")]
           l == [loop[r] EXCEPT !.pc = "request", !.queue = Append(loop[r].queue, in)]
<1>3. /\ loop[r].pc = "model" /\ loop' = [loop EXCEPT ![r] = l]
      /\ L!AppendRunStep(r, "assistant", id) /\ UNCHANGED <<usage, total, responses>>
  BY <1>2 DEF L!BeforeModel
<1>4. loop[r].queue = <<>> /\ loop[r] \in LoopState
  BY <1>1, <1>3, BeforeIs DEF Before, Shape
<1>5. in.attempt = Asked(r) + 1 /\ Asked(r) \in Nat
  BY <1>1, AttemptIs DEF Asked
<1> HIDE DEF in
<1>6. l.pc = "request" /\ l.queue[1] = in
  BY <1>4 DEF LoopState
<1>7. loop'[r] = l
  BY <1>1, <1>3
<1> HIDE DEF l
<1>8. ASSUME NEW q \in Runs PROVE RunBilled(q)'
  <2>1. Asked(q) \in Nat /\ Asked(q)' = Asked(q) + (IF q = r THEN 1 ELSE 0)
    BY <1>1, <1>3, AskedGrows
  <2>2. CASE q # r
    <3>1. Unbilled(q)
      BY <1>1, <1>3, <2>1, <2>2 DEF Unbilled
    <3>2. QED
      BY <1>1, <1>3, <3>1, BilledKept DEF AllBilled
  <2>3. CASE q = r
    <3>1. /\ \A i \in Billed(q) : usage[i].attempt <= Asked(q) /\ usage[i].attempt \in Nat
          /\ \A i, j \in Billed(q) : i # j /\ usage[i].attempt > 0 => usage[i].attempt # usage[j].attempt
          /\ Cardinality(Billed(q)) + (IF loop[q].pc = "settle" THEN 1 ELSE 0) <= responses[q]
          /\ total[q] <= Cardinality(Billed(q)) /\ Cardinality(Billed(q)) \in Nat
      BY <1>1, BilledCounts DEF AllBilled, RunBilled, Asked
    <3>2. Billed(q)' = Billed(q) /\ usage' = usage /\ total' = total /\ responses' = responses
      BY <1>3 DEF Billed
    <3>3. /\ \A i \in Billed(q)' : usage'[i].attempt <= Asked(q)' /\ usage'[i].attempt < Asked(q)'
          /\ \A i, j \in Billed(q)' : i # j /\ usage'[i].attempt > 0 => usage'[i].attempt # usage'[j].attempt
      <4>1. ASSUME NEW i \in Billed(q) PROVE usage[i].attempt <= Asked(q)' /\ usage[i].attempt < Asked(q)'
        BY <2>1, <2>3, <3>1
      <4>2. QED
        BY <3>1, <3>2, <4>1
    <3>4. loop'[q].queue[1].attempt = Asked(q)'
      BY <1>5, <1>6, <1>7, <2>1, <2>3
    <3>5. /\ Cardinality(Billed(q)') + (IF loop'[q].pc = "settle" THEN 1 ELSE 0) <= responses'[q]
          /\ total'[q] <= Cardinality(Billed(q)')
      BY <1>3, <1>6, <1>7, <2>3, <3>1, <3>2
    <3>6. QED
      BY <3>3, <3>4, <3>5 DEF RunBilled, Asked
  <2>4. QED
    BY <2>2, <2>3
<1>9. QED
  BY <1>8 DEF AllBilled

LEMMA BilledSettle ==
  ASSUME Core, AllBilled, NEW r \in Runs, L!SettleUsage(r)
  PROVE  AllBilled'
<1> DEFINE q == loop[r].queue
           in == L!PopAssistant(q).intent
           u == [run |-> r, cause |-> "assistant", id |-> in.id, attempt |-> in.attempt]
<1>1. loop \in [Runs -> LoopState] /\ responses \in [Runs -> Nat] /\ loop[r] \in LoopState
  BY DEF Core, Facts, LedgerTypes
<1>2. loop[r].pc = "settle" /\ usage' = Append(usage, u) /\ UNCHANGED <<steps, total, responses>>
  BY DEF L!SettleUsage, L!AppendUsageRecord
<1>3. q \in Seq(Intent) /\ (q = <<>> \/ (Len(q) = 1 /\ q[1].kind = "assistant"))
  BY <1>2, BeforeIs, RunFacts DEF Before, Shape
<1>4. in \in Intent /\ in = IF q = <<>> THEN L!NoIntent ELSE q[1]
  BY <1>3, PopIs
<1>5. loop'[r].pc = "store" /\ \A p \in Runs \ {r} : loop'[p] = loop[p]
  BY <1>1 DEF L!SettleUsage, LoopState
<1>6. u \in Spend /\ u.run = r /\ u.attempt = IF q = <<>> THEN 0 ELSE q[1].attempt
  BY <1>4 DEF Intent, Spend, L!NoIntent
<1>7. \A p : Asked(p)' = Asked(p)
  BY <1>2, AskedSame
<1> HIDE DEF u
<1>8. responses'[r] = responses[r] + (IF loop[r].pc = "settle" THEN 0 ELSE 1)
  BY <1>1, <1>2
<1>9. QED
  BY <1>2, <1>5, <1>6, <1>7, <1>8, BilledRow

LEMMA BilledOverflow ==
  ASSUME Core, AllBilled, NEW r \in Runs, L!Overflow(r)
  PROVE  AllBilled'
<1> DEFINE q == loop[r].queue
           in == L!PopAssistant(q).intent
           u == [run |-> r, cause |-> "overflow", id |-> [in EXCEPT !.id = 0].id, attempt |-> [in EXCEPT !.id = 0].attempt]
<1>1. loop \in [Runs -> LoopState] /\ responses \in [Runs -> Nat] /\ loop[r] \in LoopState /\ steps \in Seq(StepRow)
  BY DEF Core, Facts, LedgerTypes
<1>2. /\ loop[r].pc = "request" /\ usage' = Append(usage, u) /\ total' = total
      /\ L!AppendRunStep(r, "overflow_compact", 0) /\ responses' = [responses EXCEPT ![r] = @ + 1]
  BY DEF L!Overflow, L!AppendUsageRecord, L!None
<1>3. q \in Seq(Intent) /\ (q = <<>> \/ (Len(q) = 1 /\ q[1].kind = "assistant"))
  BY <1>2, BeforeIs, RunFacts DEF Before, Shape
<1>4. in \in Intent /\ in = IF q = <<>> THEN L!NoIntent ELSE q[1]
  BY <1>3, PopIs
<1>5. loop'[r].pc = "model" /\ \A p \in Runs \ {r} : loop'[p] = loop[p]
  BY <1>1 DEF L!Overflow, LoopState
<1>6. u \in Spend /\ u.run = r /\ u.attempt = IF q = <<>> THEN 0 ELSE q[1].attempt
  BY <1>4 DEF Intent, Spend, L!NoIntent
<1>7. \A p \in Runs : Asked(p)' = Asked(p)
  <2>1. ASSUME NEW p \in Runs PROVE Asked(p)' = Asked(p)
    <3>1. Asked(p) \in Nat /\ Asked(p)' = Asked(p) + 0
      BY <1>1, <1>2, AskedGrows
    <3>2. QED
      BY <3>1
  <2>2. QED
    BY <2>1
<1> HIDE DEF u
<1>8. /\ responses'[r] = responses[r] + (IF loop[r].pc = "settle" THEN 0 ELSE 1)
      /\ \A p \in Runs \ {r} : responses'[p] = responses[p]
  BY <1>1, <1>2
<1>9. QED
  BY <1>2, <1>5, <1>6, <1>7, <1>8, BilledRow

LEMMA BilledStep ==
  ASSUME Core, AllBilled, L!LedgerNext, Core'
  PROVE  AllBilled'
<1>1. responses' \in [Runs -> Nat]
  BY DEF Core, Facts, LedgerTypes
<1>2. CASE L!Crash
  <2>1. ASSUME NEW q \in Runs PROVE Unbilled(q)
    <3>1. loop'[q].queue = <<>> /\ loop'[q].pc = "idle" /\ UNCHANGED <<steps, usage, total, responses>>
      BY <1>2 DEF L!Crash, L!Fresh
    <3>2. responses[q] \in Nat
      BY DEF Core, Facts, LedgerTypes
    <3>3. QED
      BY <3>1, <3>2, AskedSame DEF Unbilled
  <2>2. QED
    BY <1>1, <2>1, BilledKept DEF AllBilled
<1>3. ASSUME NEW r \in Runs, NEW c \in Calls,
             L!WrapToolCall(r, c) \/ L!ToolIntentFails(r, c) \/ L!PushIntent(r, c) \/ L!CallReturns(r, c)
      PROVE  AllBilled'
  <2>1. \A q \in Runs : Unbilled(q)
    BY <1>3, UnbilledCalls
  <2>2. QED
    BY <1>1, <2>1, BilledKept DEF AllBilled
<1>4. ASSUME NEW r \in Runs,
             \/ L!Submit(r) \/ L!IntentFails(r) \/ L!Respond(r) \/ L!StoreAssistant(r) \/ L!RequestEnds(r)
             \/ L!RecordToolResults(r) \/ L!Suspend(r) \/ L!LoopLeaves(r) \/ L!Settle(r) \/ L!Cancel(r)
      PROVE  AllBilled'
  <2>1. \A q \in Runs : Unbilled(q)
    BY <1>4, UnbilledQuiet
  <2>2. QED
    BY <1>1, <2>1, BilledKept DEF AllBilled
<1>5. ASSUME NEW r \in Runs, L!BeforeModel(r) \/ L!SettleUsage(r) \/ L!Overflow(r)
      PROVE  AllBilled'
  BY <1>5, BilledIntent, BilledSettle, BilledOverflow
<1>6. QED
  BY <1>2, <1>3, <1>4, <1>5 DEF L!LedgerNext

-----------------------------------------------------------------------------
(* The ledger: the theorem.                                                *)

\* The inductive invariant of the ledger.
LedgerInv == Core /\ AllBilled

LEMMA LedgerStart ==
  ASSUME L!LedgerInit
  PROVE  LedgerInv
<1>1. /\ nextId = 0 /\ steps = <<>> /\ msgs = <<>> /\ usage = <<>>
      /\ total = [r \in Runs |-> 0] /\ row = [r \in Runs |-> "none"]
      /\ loop = [r \in Runs |-> L!Fresh] /\ call = [r \in Runs |-> L!NoCalls]
      /\ verdict = [r \in Runs |-> "none"] /\ responses = [r \in Runs |-> 0]
      /\ flight = [r \in Runs |-> FALSE]
  BY DEF L!LedgerInit
<1>2. L!Fresh \in LoopState /\ L!Fresh.pc = "idle" /\ L!Fresh.queue = <<>> /\ L!Fresh.batch = 0
  BY DEF L!Fresh, LoopState, LoopPC, L!None
<1>3. L!NoCalls \in [Calls -> CallPC]
  BY DEF L!NoCalls, CallPC
<1>4. LedgerTypes
  BY <1>1, <1>2, <1>3 DEF LedgerTypes
<1>5. IdsOwned /\ StepsAnswered
  BY <1>1 DEF IdsOwned, StepsAnswered
<1>6. \A r : Newest(r) = 0
  BY <1>1 DEF Effects, Newest, NewestOf
<1>7. ASSUME NEW r \in Runs PROVE RunShape(r) /\ RunBacked(r) /\ RunTold(r) /\ RunBilled(r)
  <2>1. loop[r] = L!Fresh /\ call[r] = L!NoCalls /\ flight[r] = FALSE /\ verdict[r] = "none" /\ row[r] = "none"
        /\ total[r] = 0 /\ responses[r] = 0
    BY <1>1
  <2>2. RunShape(r)
    BY <1>2, <1>6, <2>1 DEF RunShape, Shape
  <2>3. RunBacked(r) /\ RunTold(r)
    BY <1>2, <2>1 DEF RunBacked, RunTold
  <2>4. Billed(r) = {}
    BY <1>1 DEF Billed
  <2>5. RunBilled(r)
    BY <1>2, <2>1, <2>4, FS_EmptySet DEF RunBilled
  <2>6. QED
    BY <2>2, <2>3, <2>5
<1>8. QED
  BY <1>4, <1>5, <1>7 DEF LedgerInv, Core, Facts, AllBilled

LEMMA LedgerStep ==
  ASSUME LedgerInv, L!LedgerNext \/ UNCHANGED ledgerVars
  PROVE  LedgerInv'
<1>1. CASE L!LedgerNext
  BY <1>1, CoreStep, BilledStep DEF LedgerInv
<1>2. CASE UNCHANGED ledgerVars
  <2>1. UNCHANGED <<nextId, steps, msgs, usage, total, row, loop, call, verdict, responses, flight, dropped>>
    BY <1>2 DEF ledgerVars
  <2>2. IdsOwned' /\ StepsAnswered' /\ \A q \in Runs : Keeps(q)
    BY <2>1, NothingWritten DEF LedgerInv, Core
  <2>3. LedgerTypes'
    BY <2>1 DEF LedgerInv, Core, Facts, LedgerTypes
  <2>4. Core'
    BY <2>1, <2>2, <2>3, RunKept DEF LedgerInv, Core, Facts
  <2>5. ASSUME NEW q \in Runs PROVE Unbilled(q)
    <3>1. responses[q] \in Nat
      BY DEF LedgerInv, Core, Facts, LedgerTypes
    <3>2. QED
      BY <2>1, <3>1, AskedSame DEF Unbilled
  <2>6. responses' \in [Runs -> Nat]
    BY <2>3 DEF LedgerTypes
  <2>7. AllBilled'
    BY <2>5, <2>6, BilledKept DEF LedgerInv, AllBilled
  <2>8. QED
    BY <2>4, <2>7 DEF LedgerInv
<1>3. QED
  BY <1>1, <1>2

LEMMA LedgerInvSound ==
  ASSUME LedgerInv
  PROVE  LedgerSound
<1>1. LedgerTypes /\ IdsOwned /\ StepsAnswered
  BY DEF LedgerInv, Core, Facts
<1>2. L!LedgerTypeOK
  BY <1>1 DEF LedgerTypes, L!LedgerTypeOK, LoopState, LoopPC, CallPC
<1>3. L!ResultsBindToSteps
  <2>1. \A i \in DOMAIN steps : L!NewestStep(steps[i].run).id = Newest(steps[i].run)
    BY NewestStepIs
  <2>2. \A i \in DOMAIN steps :
          \/ steps[i].id = L!None \/ steps[i].id = L!NewestStep(steps[i].run).id
          \/ L!ResultExists(steps[i].id) \/ steps[i].id \in dropped
    BY <1>1, <2>1 DEF StepsAnswered, L!None
  <2>3. \A i \in DOMAIN steps, j \in DOMAIN msgs :
          steps[i].id # L!None /\ steps[i].id = msgs[j].id =>
            msgs[j].run = steps[i].run /\ L!Kinds[msgs[j].role] = steps[i].kind
    BY <1>1 DEF IdsOwned, L!None
  <2>4. QED
    BY <2>2, <2>3 DEF L!ResultsBindToSteps
<1>4. L!RecoveryTellsTruth
  BY NewestStepIs DEF LedgerInv, Core, RunTold, L!RecoveryTellsTruth
<1>5. L!SpendCountedOnce
  <2>1. usage \in Seq(Spend) /\ responses \in [Runs -> Nat] /\ total \in [Runs -> Nat]
    BY <1>1 DEF LedgerTypes
  <2>2. \A r \in Runs : RunBilled(r)
    BY DEF LedgerInv, AllBilled
  <2>3. ASSUME NEW i \in DOMAIN usage, NEW j \in DOMAIN usage, i # j, usage[i].run = usage[j].run, usage[i].attempt > 0
        PROVE  usage[i].attempt # usage[j].attempt
    <3>1. usage[i] \in Spend
      BY <2>1
    <3>2. i \in Billed(usage[i].run) /\ j \in Billed(usage[i].run) /\ usage[i].run \in Runs
      BY <2>3, <3>1 DEF Billed, Spend
    <3>3. QED
      BY <2>2, <2>3, <3>1, <3>2 DEF RunBilled
  <2>4. ASSUME NEW r \in Runs PROVE L!SumUsage(r) <= responses[r] /\ total[r] <= L!SumUsage(r)
    <3>1. /\ L!SumUsage(r) = Cardinality(Billed(r)) /\ Cardinality(Billed(r)) \in Nat
          /\ responses[r] \in Nat /\ total[r] \in Nat
      BY <2>1, BilledCounts
    <3>2. QED
      BY <2>2, <3>1 DEF RunBilled
  <2>5. QED
    BY <2>3, <2>4 DEF L!SpendCountedOnce
<1>6. QED
  BY <1>2, <1>3, <1>4, <1>5 DEF LedgerSound

\* For any number of runs whose loops overlap, calls that race for a batch's
\* id, failed writes and crashes: a stored message is the result of the step
\* that provisioned its id, reconciliation tells the truth about a stranded
\* run, and every response is billed once.
THEOREM LedgerIsSound == Spec => []LedgerSound
<1>1. Init => LedgerInv
  BY LedgerStart DEF Init
<1>2. LedgerInv /\ [Next]_vars => LedgerInv'
  <2>1. ASSUME [Next]_vars PROVE L!LedgerNext \/ UNCHANGED ledgerVars
    BY <2>1 DEF Next, Only, vars
  <2>2. QED
    BY <2>1, LedgerStep
<1>3. LedgerInv => LedgerSound
  BY LedgerInvSound
<1>4. QED
  BY <1>1, <1>2, <1>3, PTL DEF Spec

-----------------------------------------------------------------------------
(* Uploads.                                                                *)

Pending == {i \in Images : up[i] \in {"admitted", "stored"}}

\* A row is of an upload that finished, and its blob is there unless the row came late;
\* a remover that is past its checks has no row to look after, and no reference.
UploadHeld(i) ==
  /\ urow[i] # "none" \/ del[i] # "idle" \/ i \in ref => up[i] = "done"
  /\ del[i] = "rowgone" => urow[i] = "none"
  /\ sweep[i] \in {"norow", "remove"} => urow[i] = "none" \/ i \in late
  /\ urow[i] # "none" => i \in blob \/ i \in late
  /\ i \in ref => (i \in blob /\ del[i] = "idle" /\ sweep[i] # "remove") \/ i \in late

UploadsInv ==
  /\ U!UploadsTypeOK
  /\ \A i \in Images : UploadHeld(i)
  /\ Cardinality(U!ListByUser) + Cardinality(Pending) <= MaxFiles + MaxUploads - 1

LEMMA UploadsSizeIs == \A D : U!Cardinality(D) = Cardinality(D)
BY Zenon DEF U!Cardinality, Cardinality

LEMMA UploadTypes ==
  ASSUME UploadsInv, NEW i \in Images
  PROVE  /\ urow[i] \in {"none", "fresh", "stale"} /\ up[i] \in {"idle", "admitted", "stored", "done", "failed"}
         /\ del[i] \in {"idle", "checked", "rowgone"} /\ sweep[i] \in {"idle", "listed", "norow", "stale", "remove"}
         /\ UploadHeld(i)
BY DEF UploadsInv, U!UploadsTypeOK

LEMMA Room ==
  /\ IsFiniteSet(U!ListByUser) /\ IsFiniteSet(Pending)
  /\ Cardinality(U!ListByUser) \in Nat /\ Cardinality(Pending) \in Nat
  /\ MaxFiles \in Nat /\ MaxUploads \in Nat /\ MaxUploads >= 1
<1>1. U!ListByUser \in SUBSET Images /\ Pending \in SUBSET Images
  BY DEF U!ListByUser, Pending
<1>2. IsFiniteSet(U!ListByUser) /\ IsFiniteSet(Pending)
  BY <1>1, UploadsAssumption, FS_Subset
<1>3. QED
  BY <1>2, UploadsAssumption, FS_CardinalityType

\* Rows and uploads that were not there before are one at most, in exchange for another.
LEMMA RoomKept ==
  ASSUME UploadsInv, NEW A \in SUBSET U!ListByUser, NEW B \in SUBSET Pending,
         U!ListByUser' = A, Pending' = B
  PROVE  (Cardinality(U!ListByUser) + Cardinality(Pending) <= MaxFiles + MaxUploads - 1)'
<1>1. Cardinality(A) <= Cardinality(U!ListByUser) /\ Cardinality(B) <= Cardinality(Pending)
  BY Room, FS_Subset
<1>2. IsFiniteSet(A) /\ IsFiniteSet(B)
  BY Room, FS_Subset
<1>3. Cardinality(A) \in Nat /\ Cardinality(B) \in Nat
  BY <1>2, FS_CardinalityType
<1>4. Cardinality(A) + Cardinality(B) <= MaxFiles + MaxUploads - 1
  BY <1>1, <1>3, Room DEF UploadsInv
<1>5. QED
  BY <1>4

LEMMA UploadsStart ==
  ASSUME U!UploadsInit
  PROVE  UploadsInv
<1>1. /\ blob = {} /\ urow = [i \in Images |-> "none"] /\ ref = {} /\ up = [i \in Images |-> "idle"]
      /\ del = [i \in Images |-> "idle"] /\ sweep = [i \in Images |-> "idle"] /\ late = {}
  BY DEF U!UploadsInit
<1>2. U!ListByUser = {} /\ Pending = {}
  BY <1>1 DEF U!ListByUser, Pending
<1>3. Cardinality(U!ListByUser) = 0 /\ Cardinality(Pending) = 0
  BY <1>2, FS_EmptySet
<1>4. Cardinality(U!ListByUser) + Cardinality(Pending) <= MaxFiles + MaxUploads - 1
  BY <1>3, Room
<1>5. QED
  BY <1>1, <1>4 DEF UploadsInv, U!UploadsTypeOK, UploadHeld

LEMMA AdmitStep ==
  ASSUME UploadsInv, NEW i \in Images, U!Admit(i)
  PROVE  UploadsInv'
<1>1. /\ up[i] = "idle" /\ up' = [up EXCEPT ![i] = "admitted"]
      /\ UNCHANGED <<blob, urow, ref, del, sweep, late>>
      /\ Cardinality(U!ListByUser) < MaxFiles /\ Cardinality(Pending) < MaxUploads
  BY UploadsSizeIs DEF U!Admit, U!CheckQuota, Pending
<1>2. U!ListByUser' = U!ListByUser /\ Pending' = Pending \cup {i} /\ i \notin Pending
  BY <1>1 DEF U!ListByUser, Pending, UploadsInv, U!UploadsTypeOK
<1>3. Cardinality(Pending \cup {i}) = Cardinality(Pending) + 1
  BY <1>2, Room, FS_AddElement
<1>4. Cardinality(U!ListByUser) + Cardinality(Pending \cup {i}) <= MaxFiles + MaxUploads - 1
  BY <1>1, <1>3, Room
<1>5. (Cardinality(U!ListByUser) + Cardinality(Pending) <= MaxFiles + MaxUploads - 1)'
  BY <1>2, <1>4
<1>6. U!UploadsTypeOK' /\ \A j \in Images : UploadHeld(j)'
  BY <1>1 DEF UploadsInv, U!UploadsTypeOK, UploadHeld
<1>7. QED
  BY <1>5, <1>6 DEF UploadsInv

LEMMA CreateStep ==
  ASSUME UploadsInv, NEW i \in Images, U!Create(i)
  PROVE  UploadsInv'
<1>1. /\ up[i] = "stored" /\ up' = [up EXCEPT ![i] = "done"] /\ urow' = [urow EXCEPT ![i] = "fresh"]
      /\ late' = IF U!Checked(i) \/ sweep[i] = "norow" \/ i \notin blob THEN late \cup {i} ELSE late
      /\ UNCHANGED <<blob, ref, del, sweep>>
  BY DEF U!Create
<1>2. urow[i] = "none" /\ del[i] = "idle" /\ i \notin ref
  BY <1>1, UploadTypes DEF UploadHeld
<1>3. U!ListByUser' = U!ListByUser \cup {i} /\ i \notin U!ListByUser /\ Pending' = Pending \ {i} /\ i \in Pending
  BY <1>1, <1>2 DEF U!ListByUser, Pending, UploadsInv, U!UploadsTypeOK
<1>4. /\ Cardinality(U!ListByUser \cup {i}) = Cardinality(U!ListByUser) + 1
      /\ Cardinality(Pending \ {i}) = Cardinality(Pending) - 1
  BY <1>3, Room, FS_AddElement, FS_RemoveElement
<1>5. Cardinality(U!ListByUser \cup {i}) + Cardinality(Pending \ {i}) <= MaxFiles + MaxUploads - 1
  BY <1>4, Room DEF UploadsInv
<1>6. (Cardinality(U!ListByUser) + Cardinality(Pending) <= MaxFiles + MaxUploads - 1)'
  BY <1>3, <1>5
<1>7. U!UploadsTypeOK' /\ late \subseteq late'
  BY <1>1 DEF UploadsInv, U!UploadsTypeOK
<1>8. ASSUME NEW j \in Images PROVE UploadHeld(j)'
  <2>1. CASE j = i
    <3>1. up'[i] = "done" /\ urow'[i] = "fresh"
      BY <1>1 DEF UploadsInv, U!UploadsTypeOK
    <3>2. sweep[i] \in {"norow", "remove"} \/ i \notin blob => i \in late'
      BY <1>1 DEF U!Checked
    <3>3. QED
      BY <1>1, <1>2, <2>1, <3>1, <3>2 DEF UploadHeld
  <2>2. CASE j # i
    <3>1. up'[j] = up[j] /\ urow'[j] = urow[j]
      BY <1>1, <2>2 DEF UploadsInv, U!UploadsTypeOK
    <3>2. QED
      BY <1>1, <1>7, <3>1, UploadTypes DEF UploadHeld
  <2>3. QED
    BY <2>1, <2>2
<1>9. QED
  BY <1>6, <1>7, <1>8 DEF UploadsInv

\* Every other step adds no row and no upload.
LEMMA UploadsNarrow ==
  ASSUME UploadsInv, U!UploadsTypeOK', \A j \in Images : UploadHeld(j)',
         \A j \in Images : urow'[j] # "none" => urow[j] # "none",
         \A j \in Images : up'[j] \in {"admitted", "stored"} => up[j] \in {"admitted", "stored"}
  PROVE  UploadsInv'
<1>1. PICK A : A = U!ListByUser'
  OBVIOUS
<1>2. PICK B : B = Pending'
  OBVIOUS
<1>3. A \in SUBSET U!ListByUser /\ B \in SUBSET Pending
  BY <1>1, <1>2 DEF U!ListByUser, Pending
<1>4. (Cardinality(U!ListByUser) + Cardinality(Pending) <= MaxFiles + MaxUploads - 1)'
  BY <1>1, <1>2, <1>3, RoomKept
<1>5. QED
  BY <1>4 DEF UploadsInv

LEMMA UploadsStep ==
  ASSUME UploadsInv, U!UploadsNext \/ UNCHANGED uploadVars
  PROVE  UploadsInv'
<1> USE DEF UploadHeld, U!UploadsTypeOK
<1>1. U!UploadsTypeOK /\ \A j \in Images : UploadHeld(j)
  BY DEF UploadsInv
<1>2. CASE U!ListUserUploads
  BY <1>1, <1>2, UploadsNarrow DEF U!ListUserUploads
<1>3. CASE U!SweepAborts
  BY <1>1, <1>3, UploadsNarrow DEF U!SweepAborts
<1>4. CASE UNCHANGED uploadVars
  BY <1>1, <1>4, UploadsNarrow DEF uploadVars
<1>5. ASSUME NEW i \in Images, U!Admit(i) PROVE UploadsInv'
  BY <1>5, AdmitStep
<1>6. ASSUME NEW i \in Images, U!SaveUserUpload(i) PROVE UploadsInv'
  BY <1>1, <1>6, UploadsNarrow DEF U!SaveUserUpload, U!Put
<1>7. ASSUME NEW i \in Images, U!Create(i) PROVE UploadsInv'
  BY <1>7, CreateStep
<1>8. ASSUME NEW i \in Images, U!CreateFails(i) PROVE UploadsInv'
  BY <1>1, <1>8, UploadsNarrow DEF U!CreateFails, U!Remove
<1>9. ASSUME NEW i \in Images, U!Refer(i) PROVE UploadsInv'
  BY <1>1, <1>9, UploadsNarrow DEF U!Refer, U!Checked
<1>10. ASSUME NEW i \in Images, U!Age(i) PROVE UploadsInv'
  BY <1>1, <1>10, UploadsNarrow DEF U!Age
<1>11. ASSUME NEW i \in Images, U!CheckDelete(i) PROVE UploadsInv'
  BY <1>1, <1>11, UploadsNarrow DEF U!CheckDelete, U!ReferencedByMessage
<1>12. ASSUME NEW i \in Images, U!DeleteRow(i) PROVE UploadsInv'
  BY <1>1, <1>12, UploadsNarrow DEF U!DeleteRow
<1>13. ASSUME NEW i \in Images, U!DeleteBlob(i) PROVE UploadsInv'
  BY <1>1, <1>13, UploadsNarrow DEF U!DeleteBlob, U!Remove
<1>14. ASSUME NEW i \in Images, U!SweepGet(i) PROVE UploadsInv'
  BY <1>1, <1>14, UploadsNarrow DEF U!SweepGet, U!SweepTo
<1>15. ASSUME NEW i \in Images, U!SweepReferences(i) PROVE UploadsInv'
  BY <1>1, <1>15, UploadsNarrow DEF U!SweepReferences, U!SweepTo, U!ReferencedByMessage
<1>16. ASSUME NEW i \in Images, U!SweepRemove(i) PROVE UploadsInv'
  BY <1>1, <1>16, UploadsNarrow DEF U!SweepRemove, U!SweepTo, U!Remove
<1>17. QED
  BY <1>2, <1>3, <1>4, <1>5, <1>6, <1>7, <1>8, <1>9, <1>10, <1>11, <1>12, <1>13, <1>14, <1>15, <1>16
     DEF U!UploadsNext

LEMMA UploadsInvSound == UploadsInv => U!UploadsTypeOK /\ U!ReferencedImagesSurvive /\ U!OvershootBounded
<1>1. ASSUME UploadsInv PROVE U!ReferencedImagesSurvive
  <2>1. ref \subseteq Images /\ \A i \in Images : UploadHeld(i)
    BY <1>1 DEF UploadsInv, U!UploadsTypeOK
  <2>2. QED
    BY <2>1 DEF U!ReferencedImagesSurvive, UploadHeld
<1>2. ASSUME UploadsInv PROVE U!OvershootBounded
  BY <1>2, Room, UploadsSizeIs DEF UploadsInv, U!OvershootBounded
<1>3. QED
  BY <1>1, <1>2 DEF UploadsInv

-----------------------------------------------------------------------------
(* Retention.                                                              *)

SweepState == [pc : {"idle", "list", "delete", "clean"}, cursor : Sessions \cup {0}, page : Seq(Sessions),
               full : BOOLEAN, goal : SUBSET Sessions, passes : Nat]
AccountState == [pc : {"none", "captured", "rowgone", "gone"}, ids : SUBSET Sessions]
SweepOK(w) == w \in SweepState /\ Len(w.page) <= Page /\ (w.pc \in {"delete", "clean"} => w.page # <<>>)

RetentionTypes ==
  /\ sess \in [Sessions -> {"none", "active", "ended", "gone"}]
  /\ ended \in Seq(Sessions) /\ cut \in 0..Len(ended)
  /\ img \in SUBSET Sessions /\ moved \in SUBSET Sessions /\ missed \in SUBSET Sessions
  /\ purge \in [Sessions -> {"idle", "rowgone"}] /\ put \in [Sessions -> {"idle", "authorized"}]
  /\ SweepOK(isweep) /\ SweepOK(csweep) /\ isweep.pc # "clean" /\ acct \in AccountState

\* The end list names the ended sessions, each once.
Once(e) == \A i, j \in DOMAIN e : e[i] = e[j] => i = j
Names(e, s) == \E i \in DOMAIN e : e[i] = s
EndedListed == Once(ended) /\ \A s \in Sessions : sess[s] = "ended" <=> Names(ended, s)

\* Images of a session that is gone have a remover under way that will find them,
\* or that remover failed or was cut off.
Orphan(s) == s \in img /\ sess[s] = "gone" /\ s \notin moved \cup missed
Found(s) ==
  \/ purge[s] = "rowgone" \/ (acct.pc = "rowgone" /\ s \in acct.ids)
  \/ (csweep.pc = "clean" /\ Head(csweep.page) = s)
OrphansFound == \A s \in Sessions : Orphan(s) => Found(s)
Captured == \A s \in Sessions : acct.pc = "captured" /\ sess[s] \in {"active", "ended"} => s \in acct.ids \cup moved

\* What the image pass under way still has to remove lies ahead of it on the end list.
Undisturbed == moved = {} /\ \A s \in Sessions : sess[s] # "gone"
Due == isweep.goal \cap img
From(p) == \A i \in DOMAIN ended : ended[i] \in Due => p <= i
To(n) == \A i \in DOMAIN ended : ended[i] \in Due => i <= n
OnPage(p) ==
  /\ p + Len(isweep.page) - 1 <= Len(ended)
  /\ \A k \in 1..Len(isweep.page) : isweep.page[k] = ended[p + k - 1]
  /\ From(p) /\ (~isweep.full => To(p + Len(isweep.page) - 1))
PassAhead ==
  /\ \A s \in isweep.goal : \E i \in 1..cut : ended[i] = s
  /\ isweep.pc = "idle" => Due = {}
  /\ isweep.pc = "list" /\ isweep.cursor # 0 => \E p \in DOMAIN ended : ended[p] = isweep.cursor /\ From(p + 1)
  /\ isweep.pc = "delete" => \E p \in DOMAIN ended : OnPage(p)

RetentionInv ==
  /\ RetentionTypes /\ EndedListed /\ Captured /\ OrphansFound
  /\ Undisturbed => PassAhead

LEMMA RetentionSizes == Page \in Nat /\ Page >= 1 /\ 0 \notin Sessions
BY RetentionAssumption

LEMMA SweepFacts ==
  ASSUME NEW w \in SweepState
  PROVE  /\ w.pc \in {"idle", "list", "delete", "clean"} /\ w.cursor \in Sessions \cup {0}
         /\ w.page \in Seq(Sessions) /\ w.full \in BOOLEAN /\ w.goal \in SUBSET Sessions /\ w.passes \in Nat
BY DEF SweepState

LEMMA BeginIs ==
  ASSUME NEW w, SweepOK(w), NEW goal \in SUBSET Sessions, NEW v, v = R!Begin(w, goal)
  PROVE  SweepOK(v) /\ v.pc = "list" /\ v.cursor = 0 /\ v.goal = goal
<1>1. v = [w EXCEPT !.pc = "list", !.cursor = 0, !.goal = goal, !.passes = @ + 1]
  BY DEF R!Begin
<1>2. w \in SweepState /\ w.passes + 1 \in Nat
  BY SweepFacts DEF SweepOK
<1>3. v \in SweepState /\ v.pc = "list" /\ v.cursor = 0 /\ v.goal = goal /\ v.page = w.page
  BY <1>1, <1>2 DEF SweepState
<1>4. QED
  BY <1>3 DEF SweepOK

\* A page is the part of the end list from f on, right behind the cursor.
PageFrom(cursor, page, f) ==
  /\ cursor = 0 => f = 1
  /\ cursor # 0 => f - 1 \in DOMAIN ended /\ ended[f - 1] = cursor
  /\ page = <<>> \/ f + Len(page) - 1 <= cut
  /\ \A k \in 1..Len(page) : page[k] = ended[f + k - 1]
  /\ Len(page) # Page => cut <= f + Len(page) - 1

\* A page of a sweep: what follows the cursor on the end list, as far as the cutoff.
LEMMA PageIs ==
  ASSUME ended \in Seq(Sessions), cut \in 0..Len(ended), NEW cursor \in Sessions \cup {0},
         NEW page, page = R!ListEnded(cursor)
  PROVE  /\ page \in Seq(Sessions) /\ Len(page) <= Page
         /\ cursor = 0 \/ Names(ended, cursor) => \E f \in 1..(Len(ended) + 1) : PageFrom(cursor, page, f)
<1> DEFINE here == {i \in DOMAIN ended : ended[i] = cursor}
           f == IF cursor = 0 THEN 1 ELSE (CHOOSE i \in here : TRUE) + 1
           to == IF cut < f + Page - 1 THEN cut ELSE f + Page - 1
<1>1. page = IF cursor # 0 /\ here = {} THEN <<>> ELSE SubSeq(ended, f, to)
  BY DEF R!ListEnded, R!Resume
<1>2. Len(ended) \in Nat /\ DOMAIN ended = 1..Len(ended) /\ Page \in Nat /\ Page >= 1 /\ cut \in Nat /\ cut <= Len(ended)
  BY RetentionSizes
<1>3. CASE cursor # 0 /\ here = {}
  <2>1. page = <<>> /\ ~Names(ended, cursor)
    BY <1>1, <1>3 DEF Names
  <2>2. QED
    BY <1>2, <1>3, <2>1
<1>4. CASE ~(cursor # 0 /\ here = {})
  <2>1. page = SubSeq(ended, f, to)
    BY <1>1, <1>4
  <2>2. cursor # 0 => f - 1 \in DOMAIN ended /\ ended[f - 1] = cursor
    <3>1. SUFFICES ASSUME cursor # 0 PROVE f - 1 \in DOMAIN ended /\ ended[f - 1] = cursor
      OBVIOUS
    <3>2. (CHOOSE i \in here : TRUE) \in here
      BY <1>4, <3>1
    <3>3. QED
      BY <1>2, <3>1, <3>2
  <2>3. f \in 1..(Len(ended) + 1)
    BY <1>2, <2>2
  <2>4. cursor = 0 => f = 1
    OBVIOUS
  <2> HIDE DEF f
  <2>5. to \in 0..Len(ended) /\ to <= cut /\ to - f + 1 <= Page /\ (to - f + 1 # Page => to = cut)
    BY <1>2, <2>3
  <2> HIDE DEF to
  <2>6. /\ page \in Seq(Sessions) /\ Len(page) = (IF f <= to THEN to - f + 1 ELSE 0)
        /\ \A k \in 1..(to - f + 1) : page[k] = ended[f + k - 1]
    BY <1>2, <2>1, <2>3, <2>5, SubSeqProperties
  <2>7. Len(page) \in Nat /\ (page # <<>> => Len(page) # 0)
    BY <2>6, EmptySeq
  <2>8. Len(page) <= Page /\ (page = <<>> \/ f + Len(page) - 1 <= cut)
    BY <1>2, <2>3, <2>5, <2>6, <2>7
  <2>9. ASSUME NEW k \in 1..Len(page) PROVE page[k] = ended[f + k - 1]
    BY <1>2, <2>3, <2>5, <2>6, <2>7, <2>9
  <2>10. Len(page) # Page => cut <= f + Len(page) - 1
    BY <1>2, <2>3, <2>5, <2>6
  <2>11. QED
    BY <2>2, <2>3, <2>4, <2>6, <2>8, <2>9, <2>10 DEF PageFrom
<1>5. QED
  BY <1>3, <1>4

LEMMA ListedIs ==
  ASSUME ended \in Seq(Sessions), cut \in 0..Len(ended), NEW w, SweepOK(w),
         NEW page, page = R!ListEnded(w.cursor), NEW v, v = R!Listed(w)
  PROVE  /\ SweepOK(v) /\ v.goal = w.goal /\ v.cursor = w.cursor /\ v.pc # "clean"
         /\ page = <<>> => v.pc = "idle"
         /\ page # <<>> => v.pc = "delete" /\ v.page = page /\ v.full = (Len(page) = Page)
<1>1. w \in SweepState /\ w.cursor \in Sessions \cup {0} /\ Len(w.page) <= Page
  BY SweepFacts DEF SweepOK
<1>2. page \in Seq(Sessions) /\ Len(page) <= Page
  BY <1>1, PageIs
<1>3. CASE page = <<>>
  <2>1. v = [w EXCEPT !.pc = "idle"]
    BY <1>3 DEF R!Listed
  <2>2. v \in SweepState /\ v.pc = "idle" /\ v.page = w.page /\ v.goal = w.goal /\ v.cursor = w.cursor
    BY <1>1, <2>1 DEF SweepState
  <2>3. QED
    BY <1>1, <1>3, <2>2 DEF SweepOK
<1>4. CASE page # <<>>
  <2>1. v = [w EXCEPT !.pc = "delete", !.page = page, !.full = Len(page) = Page]
    BY <1>4 DEF R!Listed
  <2>2. /\ v \in SweepState /\ v.pc = "delete" /\ v.page = page /\ v.goal = w.goal /\ v.cursor = w.cursor
        /\ v.full = (Len(page) = Page)
    BY <1>1, <1>2, <2>1 DEF SweepState
  <2>3. QED
    BY <1>2, <1>4, <2>2 DEF SweepOK
<1>5. QED
  BY <1>3, <1>4

LEMMA AdvancedIs ==
  ASSUME NEW w, SweepOK(w), w.page # <<>>, NEW v, v = R!Advanced(w)
  PROVE  /\ SweepOK(v) /\ v.goal = w.goal /\ v.full = w.full /\ v.pc # "clean" /\ Head(w.page) \in Sessions
         /\ Len(w.page) > 1 =>
              /\ v.pc = "delete" /\ v.cursor = w.cursor
              /\ Len(v.page) = Len(w.page) - 1 /\ \A k \in 1..Len(v.page) : v.page[k] = w.page[k + 1]
         /\ ~(Len(w.page) > 1) => v.page = <<>> /\ v.cursor = Head(w.page) /\ v.pc = IF w.full THEN "list" ELSE "idle"
<1> DEFINE s == w.page
<1>1. w \in SweepState /\ s \in Seq(Sessions) /\ Len(s) <= Page /\ w.full \in BOOLEAN
  BY SweepFacts DEF SweepOK
<1>2. PICK t : t = Tail(s)
  OBVIOUS
<1>3. PICK h : h = Head(s)
  OBVIOUS
<1>4. t \in Seq(Sessions) /\ Len(t) = Len(s) - 1 /\ (\A k \in 1..Len(t) : t[k] = s[k + 1]) /\ h \in Sessions
  BY <1>1, <1>2, <1>3, HeadTailProperties
<1>5. CASE Len(s) > 1
  <2>1. v = [w EXCEPT !.pc = "delete", !.page = t]
    BY <1>2, <1>5 DEF R!Advanced
  <2>2. /\ v \in SweepState /\ v.pc = "delete" /\ v.page = t /\ v.goal = w.goal /\ v.cursor = w.cursor
        /\ v.full = w.full
    BY <1>1, <1>4, <2>1 DEF SweepState
  <2>3. Len(t) <= Page /\ Len(t) # 0
    BY <1>1, <1>4, <1>5, RetentionSizes
  <2>4. t # <<>>
    BY <2>3
  <2>5. SweepOK(v)
    BY <2>2, <2>3, <2>4 DEF SweepOK
  <2>6. QED
    BY <1>3, <1>4, <1>5, <2>2, <2>5
<1>6. CASE ~(Len(s) > 1)
  <2>1. v = [w EXCEPT !.page = <<>>, !.cursor = h, !.pc = IF w.full THEN "list" ELSE "idle"]
    BY <1>3, <1>6 DEF R!Advanced
  <2>2. <<>> \in Seq(Sessions) /\ Len(<<>>) = 0 /\ Page \in Nat
    BY RetentionSizes
  <2>3. /\ v \in SweepState /\ v.pc = (IF w.full THEN "list" ELSE "idle") /\ v.page = <<>> /\ v.goal = w.goal
        /\ v.cursor = h /\ v.full = w.full
    BY <1>1, <1>4, <2>1, <2>2 DEF SweepState
  <2>4. v.pc # "clean" /\ v.pc # "delete"
    BY <2>3
  <2>5. SweepOK(v)
    BY <2>2, <2>3, <2>4 DEF SweepOK
  <2>6. QED
    BY <1>3, <1>4, <1>6, <2>3, <2>4, <2>5
<1>7. QED
  BY <1>5, <1>6

LEMMA RemoveAtIs ==
  ASSUME NEW s \in Seq(Sessions), NEW k \in 1..Len(s), NEW t, t = R!RemoveAt(s, k)
  PROVE  /\ t \in Seq(Sessions) /\ Len(t) = Len(s) - 1 /\ Len(s) \in Nat
         /\ \A j \in 1..Len(t) : t[j] = IF j < k THEN s[j] ELSE s[j + 1]
<1> DEFINE u == SubSeq(s, 1, k - 1)
           v == SubSeq(s, k + 1, Len(s))
<1>1. t = u \o v
  BY DEF R!RemoveAt
<1>2. Len(s) \in Nat /\ k \in Nat /\ 1 <= k /\ k <= Len(s)
  OBVIOUS
<1>3. u \in Seq(Sessions) /\ Len(u) = k - 1 /\ \A j \in 1..(k - 1) : u[j] = s[j]
  <2>1. u \in Seq(Sessions) /\ Len(u) = (IF 1 <= k - 1 THEN k - 1 ELSE 0) /\ \A j \in 1..(k - 1 - 1 + 1) : u[j] = s[1 + j - 1]
    BY <1>2, SubSeqProperties
  <2>2. QED
    BY <1>2, <2>1
<1>4. v \in Seq(Sessions) /\ Len(v) = Len(s) - k /\ \A j \in 1..(Len(s) - k) : v[j] = s[k + j]
  <2>1. /\ v \in Seq(Sessions) /\ Len(v) = (IF k + 1 <= Len(s) THEN Len(s) - (k + 1) + 1 ELSE 0)
        /\ \A j \in 1..(Len(s) - (k + 1) + 1) : v[j] = s[k + 1 + j - 1]
    BY <1>2, SubSeqProperties
  <2>2. QED
    BY <1>2, <2>1
<1> HIDE DEF u, v
<1>5. /\ t \in Seq(Sessions) /\ Len(t) = Len(u) + Len(v)
      /\ \A j \in 1..(Len(u) + Len(v)) : t[j] = IF j <= Len(u) THEN u[j] ELSE v[j - Len(u)]
  <2>1. /\ u \o v \in Seq(Sessions) /\ Len(u \o v) = Len(u) + Len(v)
        /\ \A j \in 1..(Len(u) + Len(v)) : (u \o v)[j] = IF j <= Len(u) THEN u[j] ELSE v[j - Len(u)]
    BY <1>3, <1>4, ConcatProperties
  <2>2. QED
    BY <1>1, <2>1, Zenon
<1>6. ASSUME NEW j \in 1..Len(t) PROVE t[j] = IF j < k THEN s[j] ELSE s[j + 1]
  <2>1. CASE j < k
    BY <1>2, <1>3, <1>4, <1>5, <2>1
  <2>2. CASE ~(j < k)
    <3>1. ~(j <= Len(u)) /\ j - Len(u) \in 1..(Len(s) - k) /\ k + (j - Len(u)) = j + 1
      BY <1>2, <1>3, <1>4, <1>5, <2>2
    <3>2. t[j] = v[j - Len(u)]
      BY <1>5, <3>1
    <3>3. QED
      BY <1>4, <2>2, <3>1, <3>2
  <2>3. QED
    BY <2>1, <2>2
<1>7. QED
  BY <1>2, <1>3, <1>4, <1>5, <1>6

\* Without one session the end list names the others, each once, and its old part fits.
LEMMA WithoutIs ==
  ASSUME RetentionTypes, EndedListed, NEW s \in Sessions,
         NEW e, e = R!Without(s), NEW c, c = R!OldWithout(s)
  PROVE  /\ e \in Seq(Sessions) /\ Once(e) /\ c \in 0..Len(e)
         /\ \A x \in Sessions : Names(e, x) <=> x # s /\ Names(ended, x)
         /\ sess[s] # "ended" => e = ended /\ c = cut
<1>1. Len(ended) \in Nat /\ DOMAIN ended = 1..Len(ended) /\ cut \in Nat /\ cut <= Len(ended) /\ ended \in Seq(Sessions)
  BY DEF RetentionTypes
<1>2. CASE sess[s] # "ended"
  <2>1. e = ended /\ ~Names(ended, s)
    BY <1>2 DEF R!Without, EndedListed
  <2>2. s \notin R!Old
    BY <1>1, <2>1 DEF R!Old, Names
  <2>3. QED
    BY <1>1, <1>2, <2>1, <2>2 DEF R!OldWithout, EndedListed
<1>3. CASE sess[s] = "ended"
  <2> DEFINE k == CHOOSE i \in DOMAIN ended : ended[i] = s
  <2>1. k \in DOMAIN ended /\ ended[k] = s
    BY <1>3 DEF EndedListed, Names
  <2>2. e = R!RemoveAt(ended, k)
    BY <1>3 DEF R!Without
  <2> HIDE DEF k
  <2>3. /\ e \in Seq(Sessions) /\ Len(e) = Len(ended) - 1
        /\ \A j \in 1..Len(e) : e[j] = IF j < k THEN ended[j] ELSE ended[j + 1]
    <3>1. k \in 1..Len(ended)
      BY <1>1, <2>1
    <3>2. QED
      BY <1>1, <2>2, <3>1, RemoveAtIs, Zenon
  <2>4. \A i, j \in DOMAIN ended : ended[i] = ended[j] => i = j
    BY DEF EndedListed, Once
  <2>5. DOMAIN e = 1..Len(e) /\ Len(e) \in Nat /\ k \in 1..Len(ended)
    BY <1>1, <2>1, <2>3
  <2>6. Once(e)
    <3>1. SUFFICES ASSUME NEW i \in DOMAIN e, NEW j \in DOMAIN e, e[i] = e[j] PROVE i = j
      BY DEF Once
    <3> DEFINE place(n) == IF n < k THEN n ELSE n + 1
    <3>2. place(i) \in DOMAIN ended /\ place(j) \in DOMAIN ended /\ e[i] = ended[place(i)] /\ e[j] = ended[place(j)]
      BY <1>1, <2>3, <2>5
    <3>3. place(i) = place(j)
      BY <2>4, <3>1, <3>2
    <3>4. QED
      BY <2>5, <3>3
  <2>7. ASSUME NEW x \in Sessions, x # s, Names(ended, x) PROVE Names(e, x)
    <3>1. PICK i \in DOMAIN ended : ended[i] = x
      BY <2>7 DEF Names
    <3>2. i # k
      BY <2>1, <2>7, <3>1
    <3>3. CASE i < k
      BY <1>1, <2>3, <2>5, <3>1, <3>3 DEF Names
    <3>4. CASE i > k
      <4>1. i - 1 \in 1..Len(e) /\ ~(i - 1 < k) /\ i - 1 + 1 = i
        BY <1>1, <2>3, <2>5, <3>4
      <4>2. e[i - 1] = ended[i]
        BY <2>3, <4>1
      <4>3. QED
        BY <2>5, <3>1, <4>1, <4>2 DEF Names
    <3>5. QED
      BY <1>1, <2>5, <3>2, <3>3, <3>4
  <2>8. ASSUME NEW x \in Sessions, Names(e, x) PROVE x # s /\ Names(ended, x)
    <3>1. PICK j \in DOMAIN e : e[j] = x
      BY <2>8 DEF Names
    <3>2. PICK i \in DOMAIN ended : ended[i] = x /\ i # k
      <4>1. j \in 1..Len(e) /\ j \in DOMAIN ended /\ j + 1 \in DOMAIN ended
        BY <1>1, <2>3, <2>5
      <4>2. CASE j < k
        BY <2>3, <2>5, <3>1, <4>1, <4>2
      <4>3. CASE ~(j < k)
        <5>1. ended[j + 1] = x /\ j + 1 # k
          BY <2>3, <2>5, <3>1, <4>1, <4>3
        <5>2. QED
          BY <4>1, <5>1
      <4>4. QED
        BY <4>2, <4>3
    <3>3. QED
      BY <2>1, <2>4, <3>2 DEF Names
  <2>9. c \in 0..Len(e)
    <3>1. CASE s \in R!Old
      <4>1. cut >= 1
        BY <1>1, <3>1 DEF R!Old
      <4>2. c = cut - 1
        BY <3>1 DEF R!OldWithout
      <4>3. QED
        BY <1>1, <2>3, <2>5, <4>1, <4>2
    <3>2. CASE s \notin R!Old
      <4>1. ~(k \in 1..cut)
        BY <2>1, <3>2 DEF R!Old
      <4>2. c = cut
        BY <3>2 DEF R!OldWithout
      <4>3. QED
        BY <1>1, <2>3, <2>5, <4>1, <4>2
    <3>3. QED
      BY <3>1, <3>2
  <2>10. QED
    BY <1>3, <2>3, <2>6, <2>7, <2>8, <2>9
<1>4. QED
  BY <1>2, <1>3

\* t is the list e with s at its end.
Longer(t, e, s) ==
  /\ t \in Seq(Sessions) /\ Once(t) /\ Len(t) = Len(e) + 1 /\ Len(e) \in Nat
  /\ \A x \in Sessions : Names(t, x) <=> x = s \/ Names(e, x)
  /\ \A i \in DOMAIN e : i \in DOMAIN t /\ t[i] = e[i]
  /\ \A i \in DOMAIN t : i \in DOMAIN e \/ t[i] = s

\* A session that is not on it goes to the end of the list.
LEMMA EndedLast ==
  ASSUME NEW e \in Seq(Sessions), Once(e), NEW s \in Sessions, ~Names(e, s)
  PROVE  Longer(Append(e, s), e, s)
<1>0. PICK t : t = Append(e, s)
  OBVIOUS
<1>1. /\ t \in Seq(Sessions) /\ Len(e) \in Nat /\ Len(t) = Len(e) + 1 /\ t[Len(e) + 1] = s
      /\ DOMAIN e = 1..Len(e) /\ DOMAIN t = 1..(Len(e) + 1)
      /\ \A i \in DOMAIN e : i \in DOMAIN t /\ t[i] = e[i]
      /\ \A i \in DOMAIN t : i \in DOMAIN e \/ i = Len(e) + 1
  BY <1>0, AppendAt
<1>2. \A i \in DOMAIN e : e[i] # s
  BY DEF Names
<1>3. Once(t)
  BY <1>1, <1>2 DEF Once
<1>4. Len(e) + 1 \in DOMAIN t
  BY <1>1
<1>5. \A x \in Sessions : Names(t, x) <=> x = s \/ Names(e, x)
  BY <1>1, <1>4 DEF Names
<1>6. QED
  BY <1>0, <1>1, <1>3, <1>5 DEF Longer

LEMMA RetentionStart ==
  ASSUME R!RetentionInit
  PROVE  RetentionInv
<1>1. /\ sess = [s \in Sessions |-> "none"] /\ ended = <<>> /\ cut = 0 /\ img = {}
      /\ isweep = R!Resting /\ csweep = R!Resting
      /\ purge = [s \in Sessions |-> "idle"] /\ acct = [pc |-> "none", ids |-> {}]
      /\ put = [s \in Sessions |-> "idle"] /\ moved = {} /\ missed = {}
  BY DEF R!RetentionInit
<1>2. <<>> \in Seq(Sessions) /\ Len(<<>>) = 0 /\ DOMAIN <<>> = {}
  OBVIOUS
<1>3. SweepOK(R!Resting) /\ R!Resting.pc = "idle" /\ R!Resting.goal = {}
  <2>1. R!Resting = [pc |-> "idle", cursor |-> 0, page |-> <<>>, full |-> FALSE, goal |-> {}, passes |-> 0]
    BY DEF R!Resting
  <2>2. R!Resting \in SweepState /\ R!Resting.pc = "idle" /\ R!Resting.goal = {} /\ R!Resting.page = <<>>
    BY <1>2, <2>1 DEF SweepState
  <2>3. QED
    BY <1>2, <2>2, RetentionSizes DEF SweepOK
<1>4. RetentionTypes
  BY <1>1, <1>2, <1>3 DEF RetentionTypes, AccountState
<1>5. EndedListed
  BY <1>1, <1>2 DEF EndedListed, Once, Names
<1>6. Captured /\ OrphansFound
  BY <1>1 DEF Captured, OrphansFound, Orphan
<1>7. PassAhead
  BY <1>1, <1>3 DEF PassAhead, Due
<1>8. QED
  BY <1>4, <1>5, <1>6, <1>7 DEF RetentionInv

LEMMA RetentionFacts ==
  ASSUME RetentionInv
  PROVE  /\ RetentionTypes /\ EndedListed /\ Captured /\ OrphansFound /\ SweepOK(isweep) /\ SweepOK(csweep)
         /\ Len(ended) \in Nat /\ DOMAIN ended = 1..Len(ended) /\ cut \in Nat /\ cut <= Len(ended)
         /\ isweep.goal \in SUBSET Sessions /\ csweep.goal \in SUBSET Sessions
         /\ acct.pc \in {"none", "captured", "rowgone", "gone"} /\ acct.ids \in SUBSET Sessions
<1>1. RetentionTypes /\ EndedListed /\ Captured /\ OrphansFound
  BY DEF RetentionInv
<1>2. SweepOK(isweep) /\ SweepOK(csweep) /\ acct \in AccountState /\ ended \in Seq(Sessions) /\ cut \in 0..Len(ended)
  BY <1>1 DEF RetentionTypes
<1>3. isweep.goal \in SUBSET Sessions /\ csweep.goal \in SUBSET Sessions
  BY <1>2, SweepFacts DEF SweepOK
<1>4. acct.pc \in {"none", "captured", "rowgone", "gone"} /\ acct.ids \in SUBSET Sessions
  BY <1>2 DEF AccountState
<1>5. QED
  BY <1>1, <1>2, <1>3, <1>4

LEMMA NarrowedIs ==
  ASSUME NEW w, SweepOK(w), NEW s, NEW v, v = [w EXCEPT !.goal = @ \ {s}]
  PROVE  /\ SweepOK(v) /\ v.goal = w.goal \ {s} /\ v.pc = w.pc /\ v.cursor = w.cursor
         /\ v.page = w.page /\ v.full = w.full
<1>1. w \in SweepState /\ w.goal \ {s} \in SUBSET Sessions
  BY SweepFacts DEF SweepOK
<1>2. /\ v \in SweepState /\ v.goal = w.goal \ {s} /\ v.pc = w.pc /\ v.cursor = w.cursor
      /\ v.page = w.page /\ v.full = w.full
  BY <1>1 DEF SweepState
<1>3. QED
  BY <1>2 DEF SweepOK

LEMMA AbortedIs ==
  ASSUME NEW w, SweepOK(w), NEW v, v = R!Aborted(w)
  PROVE  SweepOK(v) /\ v.pc = "idle" /\ v.goal = {}
<1>1. v = [w EXCEPT !.pc = "idle", !.page = <<>>, !.goal = {}]
  BY DEF R!Aborted
<1>2. w \in SweepState /\ <<>> \in Seq(Sessions) /\ Len(<<>>) = 0
  BY DEF SweepOK
<1>3. v \in SweepState /\ v.pc = "idle" /\ v.page = <<>> /\ v.goal = {}
  BY <1>1, <1>2 DEF SweepState
<1>4. QED
  BY <1>2, <1>3, RetentionSizes DEF SweepOK

\* What a removal leaves of the images it was to remove, it failed to remove.
LEMMA RemovedIs ==
  ASSUME RetentionInv, NEW ids \in SUBSET Sessions, R!RemoveImages(ids)
  PROVE  /\ img' \subseteq img /\ img' \in SUBSET Sessions /\ missed' \in SUBSET Sessions /\ missed \subseteq missed'
         /\ \A x \in ids : x \in img' => x \in missed'
<1>1. PICK failed \in SUBSET (ids \cap img) : img' = img \ (ids \ failed) /\ missed' = missed \cup failed
  BY DEF R!RemoveImages
<1>2. img \in SUBSET Sessions /\ missed \in SUBSET Sessions
  BY RetentionFacts DEF RetentionTypes
<1>3. QED
  BY <1>1, <1>2

\* A pass that was aborted promises nothing.
LEMMA AheadAborted ==
  ASSUME isweep'.pc = "idle", isweep'.goal = {}
  PROVE  PassAhead'
BY DEF PassAhead, Due

\* The pass keeps its way while the list only grows by sessions it does not look for.
LEMMA AheadKept ==
  ASSUME RetentionInv, ended' \in Seq(Sessions), isweep' = isweep,
         Undisturbed' =>
           /\ Undisturbed /\ cut <= cut' /\ cut' \in Nat
           /\ \A i \in DOMAIN ended : i \in DOMAIN ended' /\ ended'[i] = ended[i]
           /\ \A i \in DOMAIN ended' : i \in DOMAIN ended \/ ended'[i] \notin isweep.goal
           /\ \A s \in isweep.goal : s \in img' => s \in img
  PROVE  (Undisturbed => PassAhead)'
<1> SUFFICES ASSUME Undisturbed' PROVE PassAhead'
  OBVIOUS
<1>1. /\ PassAhead /\ cut <= cut' /\ cut' \in Nat
      /\ \A i \in DOMAIN ended : i \in DOMAIN ended' /\ ended'[i] = ended[i]
      /\ \A i \in DOMAIN ended' : i \in DOMAIN ended \/ ended'[i] \notin isweep.goal
  BY DEF RetentionInv
<1>2. Due' \subseteq Due
  BY DEF Due
<1>3. \A i \in DOMAIN ended' : ended'[i] \in Due' => i \in DOMAIN ended /\ ended[i] \in Due
  BY <1>1, <1>2 DEF Due
<1>4. \A p \in Nat : (From(p) => From(p)') /\ (To(p) => To(p)')
  BY <1>3 DEF From, To
<1>5. Len(ended) <= Len(ended') /\ Len(ended) \in Nat /\ Len(ended') \in Nat /\ DOMAIN ended = 1..Len(ended)
  <2>1. Len(ended) \in Nat /\ Len(ended') \in Nat /\ DOMAIN ended = 1..Len(ended) /\ DOMAIN ended' = 1..Len(ended')
    BY RetentionFacts
  <2>2. Len(ended) # 0 => Len(ended) \in 1..Len(ended')
    BY <1>1, <2>1
  <2>3. QED
    BY <2>1, <2>2
<1>6. \A s \in isweep'.goal : \E i \in 1..cut' : ended'[i] = s
  <2>1. SUFFICES ASSUME NEW s \in isweep.goal PROVE \E i \in 1..cut' : ended'[i] = s
    OBVIOUS
  <2>2. PICK i \in 1..cut : ended[i] = s
    BY <1>1 DEF PassAhead
  <2>3. i \in DOMAIN ended /\ i \in 1..cut'
    BY <1>1, RetentionFacts
  <2>4. QED
    BY <1>1, <2>2, <2>3
<1>7. isweep'.pc = "idle" => Due' = {}
  BY <1>1, <1>2 DEF PassAhead
<1>8. isweep'.pc = "list" /\ isweep'.cursor # 0 => \E p \in DOMAIN ended' : ended'[p] = isweep'.cursor /\ From(p + 1)'
  <2>1. SUFFICES ASSUME isweep.pc = "list", isweep.cursor # 0
                 PROVE  \E p \in DOMAIN ended' : ended'[p] = isweep.cursor /\ From(p + 1)'
    OBVIOUS
  <2>2. PICK p \in DOMAIN ended : ended[p] = isweep.cursor /\ From(p + 1)
    BY <1>1, <2>1 DEF PassAhead
  <2>3. p + 1 \in Nat
    BY <1>5
  <2>4. QED
    BY <1>1, <1>4, <2>2, <2>3
<1>9. isweep'.pc = "delete" => \E p \in DOMAIN ended' : OnPage(p)'
  <2>1. SUFFICES ASSUME isweep.pc = "delete" PROVE \E p \in DOMAIN ended' : OnPage(p)'
    OBVIOUS
  <2>2. PICK p \in DOMAIN ended : OnPage(p)
    BY <1>1, <2>1 DEF PassAhead
  <2> DEFINE n == Len(isweep.page)
  <2>3. n \in Nat /\ isweep'.page = isweep.page
    BY RetentionFacts, SweepFacts DEF SweepOK
  <2>4. p \in Nat /\ p >= 1 /\ p \in DOMAIN ended' /\ p + n - 1 \in Nat /\ p + n - 1 <= Len(ended')
    BY <1>1, <1>5, <2>2, <2>3 DEF OnPage
  <2>5. \A k \in 1..n : isweep.page[k] = ended'[p + k - 1]
    <3>1. SUFFICES ASSUME NEW k \in 1..n PROVE isweep.page[k] = ended'[p + k - 1]
      OBVIOUS
    <3>2. p + n - 1 <= Len(ended) /\ isweep.page[k] = ended[p + k - 1]
      BY <2>2 DEF OnPage
    <3>3. p + k - 1 \in DOMAIN ended
      BY <1>5, <2>3, <2>4, <3>2
    <3>4. QED
      BY <1>1, <3>2, <3>3
  <2>6. From(p)' /\ (~isweep.full => To(p + n - 1)')
    BY <1>4, <2>2, <2>4 DEF OnPage
  <2>7. QED
    BY <2>3, <2>4, <2>5, <2>6 DEF OnPage
<1>10. QED
  BY <1>6, <1>7, <1>8, <1>9 DEF PassAhead

\* A step that touches neither the image pass nor the end list.
LEMMA AheadStays ==
  ASSUME RetentionInv, UNCHANGED <<sess, ended, cut, isweep>>, img' \subseteq img, moved \subseteq moved'
  PROVE  EndedListed' /\ (Undisturbed => PassAhead)'
<1>1. EndedListed'
  BY RetentionFacts DEF EndedListed
<1>2. Undisturbed' => Undisturbed
  BY DEF Undisturbed
<1>3. ended' \in Seq(Sessions) /\ isweep' = isweep
  BY RetentionFacts DEF RetentionTypes
<1>4. /\ cut <= cut' /\ cut' \in Nat
      /\ \A i \in DOMAIN ended : i \in DOMAIN ended' /\ ended'[i] = ended[i]
      /\ \A i \in DOMAIN ended' : i \in DOMAIN ended \/ ended'[i] \notin isweep.goal
      /\ \A s \in isweep.goal : s \in img' => s \in img
  BY RetentionFacts
<1>5. QED
  BY <1>1, <1>2, <1>3, <1>4, AheadKept

LEMMA AgeStep ==
  ASSUME RetentionInv, R!Age
  PROVE  RetentionInv'
<1>1. cut < Len(ended) /\ cut' = cut + 1 /\ UNCHANGED <<sess, ended, img, isweep, csweep, purge, acct, put, moved, missed>>
  BY DEF R!Age
<1>2. RetentionTypes' /\ EndedListed' /\ Captured' /\ OrphansFound'
  BY <1>1, RetentionFacts DEF RetentionTypes, EndedListed, Captured, OrphansFound, Orphan, Found
<1>3. (Undisturbed => PassAhead)'
  <2>1. Undisturbed' => Undisturbed
    BY <1>1 DEF Undisturbed
  <2>2. ended' \in Seq(Sessions) /\ cut <= cut' /\ cut' \in Nat
    BY <1>1, RetentionFacts DEF RetentionTypes
  <2>3. QED
    BY <1>1, <2>1, <2>2, AheadKept
<1>4. QED
  BY <1>2, <1>3 DEF RetentionInv

LEMMA ImagePassStep ==
  ASSUME RetentionInv, R!ImagePass
  PROVE  RetentionInv'
<1> DEFINE goal == R!Old \cap img
<1>1. isweep' = R!Begin(isweep, goal) /\ UNCHANGED <<sess, ended, cut, img, csweep, purge, acct, put, moved, missed>>
  BY DEF R!ImagePass
<1>2. SweepOK(isweep') /\ isweep'.pc = "list" /\ isweep'.cursor = 0 /\ isweep'.goal = goal
  <2>1. goal \in SUBSET Sessions /\ SweepOK(isweep)
    BY RetentionFacts DEF RetentionTypes
  <2>2. QED
    BY <1>1, <2>1, BeginIs
<1>3. RetentionTypes' /\ EndedListed' /\ Captured' /\ OrphansFound'
  BY <1>1, <1>2, RetentionFacts DEF RetentionTypes, EndedListed, Captured, OrphansFound, Orphan, Found
<1>4. PassAhead'
  BY <1>1, <1>2 DEF PassAhead, R!Old
<1>5. QED
  BY <1>3, <1>4 DEF RetentionInv

LEMMA ImageListStep ==
  ASSUME RetentionInv, R!ImageList
  PROVE  RetentionInv'
<1>0. PICK page : page = R!ListEnded(isweep.cursor)
  OBVIOUS
<1>1. /\ isweep.pc = "list" /\ isweep' = R!Listed(isweep)
      /\ UNCHANGED <<sess, ended, cut, img, csweep, purge, acct, put, moved, missed>>
  BY DEF R!ImageList
<1>2. ended \in Seq(Sessions) /\ cut \in 0..Len(ended) /\ SweepOK(isweep) /\ isweep.cursor \in Sessions \cup {0}
  BY RetentionFacts, SweepFacts DEF RetentionTypes, SweepOK
<1>3. /\ SweepOK(isweep') /\ isweep'.goal = isweep.goal /\ isweep'.pc # "clean"
      /\ page = <<>> => isweep'.pc = "idle"
      /\ page # <<>> => isweep'.pc = "delete" /\ isweep'.page = page /\ isweep'.full = (Len(page) = Page)
  BY <1>0, <1>1, <1>2, ListedIs
<1>4. RetentionTypes' /\ EndedListed' /\ Captured' /\ OrphansFound'
  BY <1>1, <1>3, RetentionFacts DEF RetentionTypes, EndedListed, Captured, OrphansFound, Orphan, Found
<1>5. ASSUME Undisturbed' PROVE PassAhead'
  <2>1. PassAhead
    BY <1>1, <1>5 DEF RetentionInv, Undisturbed
  <2>2. PICK f \in 1..(Len(ended) + 1) :
          /\ isweep.cursor = 0 => f = 1
          /\ isweep.cursor # 0 => f - 1 \in DOMAIN ended /\ ended[f - 1] = isweep.cursor
          /\ page = <<>> \/ f + Len(page) - 1 <= cut
          /\ \A k \in 1..Len(page) : page[k] = ended[f + k - 1]
          /\ Len(page) # Page => cut <= f + Len(page) - 1
    <3>1. isweep.cursor = 0 \/ Names(ended, isweep.cursor)
      BY <1>1, <2>1 DEF PassAhead, Names
    <3>2. PICK f \in 1..(Len(ended) + 1) : PageFrom(isweep.cursor, page, f)
      BY <1>0, <1>2, <3>1, PageIs, Zenon
    <3>3. QED
      BY <3>2, Zenon DEF PageFrom
  <2>3. page \in Seq(Sessions) /\ Len(page) \in Nat /\ (page # <<>> => Len(page) # 0)
    BY <1>0, <1>2, PageIs, EmptySeq
  <2>4. From(f)
    <3>1. CASE isweep.cursor = 0
      BY <2>2, <3>1, RetentionFacts DEF From
    <3>2. CASE isweep.cursor # 0
      <4>1. PICK p \in DOMAIN ended : ended[p] = isweep.cursor /\ From(p + 1)
        BY <1>1, <2>1, <3>2 DEF PassAhead
      <4>2. p = f - 1 /\ p \in Nat /\ f \in Nat
        BY <2>2, <3>2, <4>1, RetentionFacts DEF EndedListed, Once
      <4>3. p + 1 = f
        BY <4>2
      <4>4. QED
        BY <4>1, <4>3
    <3>3. QED
      BY <3>1, <3>2
  <2>5. To(cut)
    <3>1. ASSUME NEW i \in DOMAIN ended, ended[i] \in Due PROVE i <= cut
      <4>1. PICK j \in 1..cut : ended[j] = ended[i]
        BY <2>1, <3>1 DEF PassAhead, Due
      <4>2. j \in DOMAIN ended
        BY RetentionFacts
      <4>3. i = j
        BY <4>1, <4>2, RetentionFacts DEF EndedListed, Once
      <4>4. QED
        BY <4>1, <4>3
    <3>2. QED
      BY <3>1 DEF To
  <2>6. \A s \in isweep'.goal : \E i \in 1..cut' : ended'[i] = s
    BY <1>1, <1>3, <2>1 DEF PassAhead
  <2>7. Due' = Due
    BY <1>1, <1>3 DEF Due
  <2>8. CASE page = <<>>
    <3>1. cut <= f - 1
      <4>1. Len(page) = 0 /\ Page # 0
        BY <2>8, RetentionSizes
      <4>2. QED
        BY <2>2, <4>1
    <3>2. Due = {}
      <4>1. ASSUME NEW s \in Due PROVE FALSE
        <5>1. PICK i \in 1..cut : ended[i] = s
          BY <2>1, <4>1 DEF PassAhead, Due
        <5>2. i \in DOMAIN ended
          BY RetentionFacts
        <5>3. f <= i
          BY <2>4, <4>1, <5>1, <5>2 DEF From
        <5>4. QED
          BY <3>1, <5>1, <5>3, RetentionFacts
      <4>2. QED
        BY <4>1
    <3>3. isweep'.pc = "idle"
      BY <1>3, <2>8
    <3>4. QED
      BY <2>6, <2>7, <3>2, <3>3 DEF PassAhead
  <2>9. CASE page # <<>>
    <3>1. isweep'.pc = "delete" /\ isweep'.page = page /\ isweep'.full = (Len(page) = Page)
      BY <1>3, <2>9
    <3>2. f \in DOMAIN ended /\ f + Len(page) - 1 <= Len(ended)
      BY <2>2, <2>3, <2>9, RetentionFacts
    <3>3. Len(page) # Page => To(f + Len(page) - 1)
      <4>1. SUFFICES ASSUME Len(page) # Page, NEW i \in DOMAIN ended, ended[i] \in Due PROVE i <= f + Len(page) - 1
        BY DEF To
      <4>2. i <= cut /\ cut <= f + Len(page) - 1
        BY <2>2, <2>5, <4>1 DEF To
      <4>3. QED
        BY <2>3, <4>2, RetentionFacts
    <3>4. From(f)' /\ (To(f + Len(page) - 1) => To(f + Len(page) - 1)')
      BY <1>1, <2>4, <2>7 DEF From, To
    <3>5. OnPage(f)'
      BY <1>1, <2>2, <3>1, <3>2, <3>3, <3>4 DEF OnPage
    <3>6. f \in DOMAIN ended'
      BY <1>1, <3>2
    <3>7. QED
      BY <2>6, <3>1, <3>5, <3>6 DEF PassAhead
  <2>10. QED
    BY <2>8, <2>9
<1>6. QED
  BY <1>4, <1>5 DEF RetentionInv

LEMMA ImageDeleteStep ==
  ASSUME RetentionInv, R!DeleteSessionImages
  PROVE  RetentionInv'
<1>0. PICK page : page = isweep.page
  OBVIOUS
<1>10. PICK h : h = Head(page)
  OBVIOUS
<1>11. /\ isweep.pc = "delete"
       /\ \/ img' = img \ {h} /\ isweep' = R!Advanced(isweep)
          \/ UNCHANGED img /\ isweep' = R!Advanced([isweep EXCEPT !.goal = @ \ {h}])
       /\ UNCHANGED <<sess, ended, cut, csweep, purge, acct, put, moved, missed>>
  BY <1>0, <1>10 DEF R!DeleteSessionImages
<1>2. SweepOK(isweep) /\ page # <<>> /\ page \in Seq(Sessions) /\ isweep.full \in BOOLEAN
  BY <1>0, <1>11, RetentionFacts, SweepFacts DEF SweepOK
<1>12. PICK w : /\ SweepOK(w) /\ w.page = page /\ w.full = isweep.full /\ w.goal \subseteq isweep.goal
                /\ isweep' = R!Advanced(w) /\ img' \subseteq img /\ w.goal \cap img' = Due \ {h}
  <2>1. CASE img' = img \ {h} /\ isweep' = R!Advanced(isweep)
    BY <1>0, <1>2, <2>1 DEF Due
  <2>2. CASE UNCHANGED img /\ isweep' = R!Advanced([isweep EXCEPT !.goal = @ \ {h}])
    <3>1. PICK v : v = [isweep EXCEPT !.goal = isweep.goal \ {h}]
      OBVIOUS
    <3>2. /\ SweepOK(v) /\ v.goal = isweep.goal \ {h} /\ v.pc = isweep.pc /\ v.cursor = isweep.cursor
          /\ v.page = isweep.page /\ v.full = isweep.full
      <4>1. SweepOK(isweep)
        BY <1>2
      <4>2. isweep \in SweepState /\ isweep.goal \ {h} \in SUBSET Sessions
        BY <4>1, SweepFacts DEF SweepOK
      <4>3. /\ v \in SweepState /\ v.goal = isweep.goal \ {h} /\ v.pc = isweep.pc /\ v.cursor = isweep.cursor
            /\ v.page = isweep.page /\ v.full = isweep.full
        BY <3>1, <4>2 DEF SweepState
      <4>4. QED
        BY <4>1, <4>3 DEF SweepOK
    <3>3. isweep' = R!Advanced(v)
      BY <2>2, <3>1
    <3>4. QED
      BY <1>0, <2>2, <3>2, <3>3 DEF Due
  <2>3. QED
    BY <1>11, <2>1, <2>2
<1>1. /\ isweep.pc = "delete" /\ isweep' = R!Advanced(w) /\ img' \subseteq img
      /\ UNCHANGED <<sess, ended, cut, csweep, purge, acct, put, moved, missed>>
  BY <1>11, <1>12
<1>3. /\ SweepOK(isweep') /\ isweep'.goal = w.goal /\ isweep'.full = isweep.full /\ isweep'.pc # "clean" /\ h \in Sessions
      /\ Len(page) > 1 => isweep'.pc = "delete" /\ Len(isweep'.page) = Len(page) - 1
                          /\ \A k \in 1..Len(isweep'.page) : isweep'.page[k] = page[k + 1]
      /\ ~(Len(page) > 1) => isweep'.cursor = h /\ isweep'.pc = IF isweep.full THEN "list" ELSE "idle"
  BY <1>10, <1>12, <1>1, <1>2, AdvancedIs
<1>4. Len(page) \in Nat /\ Len(page) >= 1 /\ h = page[1]
  BY <1>2, <1>10
<1>5. RetentionTypes' /\ EndedListed' /\ Captured' /\ OrphansFound'
  BY <1>1, <1>3, RetentionFacts DEF RetentionTypes, EndedListed, Captured, OrphansFound, Orphan, Found
<1>6. ASSUME Undisturbed' PROVE PassAhead'
  <2>1. PassAhead
    BY <1>1, <1>6 DEF RetentionInv, Undisturbed
  <2>2. PICK p \in DOMAIN ended : OnPage(p)
    BY <1>1, <2>1 DEF PassAhead
  <2>3. /\ p \in Nat /\ p + Len(page) - 1 <= Len(ended) /\ ended[p] = h
        /\ From(p) /\ (~isweep.full => To(p + Len(page) - 1))
        /\ \A k \in 1..Len(page) : page[k] = ended[p + k - 1]
    <3>1. /\ p \in Nat /\ p + Len(page) - 1 <= Len(ended) /\ From(p) /\ (~isweep.full => To(p + Len(page) - 1))
          /\ \A k \in 1..Len(page) : page[k] = ended[p + k - 1]
      BY <1>0, <2>2, RetentionFacts DEF OnPage
    <3>2. 1 \in 1..Len(page) /\ p + 1 - 1 = p
      BY <1>4, <3>1
    <3>3. page[1] = ended[p + 1 - 1]
      BY <3>1, <3>2
    <3>4. QED
      BY <1>4, <3>1, <3>2, <3>3
  <2>4. Due' = Due \ {h}
    BY <1>12, <1>3 DEF Due
  <2>5. From(p + 1)'
    <3>1. SUFFICES ASSUME NEW i \in DOMAIN ended, ended[i] \in Due, ended[i] # h PROVE p + 1 <= i
      BY <1>1, <2>4 DEF From
    <3>2. p <= i /\ i # p
      BY <2>3, <3>1 DEF From
    <3>3. QED
      BY <2>3, <3>2, RetentionFacts
  <2>6. ~isweep.full => To(p + Len(page) - 1)'
    BY <1>1, <2>3, <2>4 DEF To
  <2>7. \A s \in isweep'.goal : \E i \in 1..cut' : ended'[i] = s
    BY <1>1, <1>3, <1>12, <2>1 DEF PassAhead
  <2>8. CASE Len(page) > 1
    <3>1. isweep'.pc = "delete" /\ Len(isweep'.page) = Len(page) - 1 /\ \A k \in 1..Len(isweep'.page) : isweep'.page[k] = page[k + 1]
      BY <1>3, <2>8
    <3>2. p + 1 \in DOMAIN ended /\ p + 1 + Len(isweep'.page) - 1 = p + Len(page) - 1
      <4>1. Len(ended) \in Nat /\ DOMAIN ended = 1..Len(ended)
        BY RetentionFacts
      <4>2. p + 1 \in 1..Len(ended)
        BY <1>4, <2>3, <2>8, <4>1
      <4>3. p + 1 + Len(isweep'.page) - 1 = p + Len(page) - 1
        BY <1>4, <2>3, <3>1
      <4>4. QED
        BY <4>1, <4>2, <4>3
    <3>3. ASSUME NEW k \in 1..Len(isweep'.page) PROVE isweep'.page[k] = ended[p + 1 + k - 1]
      <4>1. k + 1 \in 1..Len(page) /\ p + (k + 1) - 1 = p + 1 + k - 1
        BY <1>4, <2>3, <3>1
      <4>2. QED
        BY <2>3, <3>1, <4>1
    <3>4. OnPage(p + 1)'
      BY <1>1, <1>3, <2>3, <2>5, <2>6, <3>2, <3>3 DEF OnPage
    <3>5. p + 1 \in DOMAIN ended'
      BY <1>1, <3>2
    <3>6. QED
      BY <2>7, <3>1, <3>4, <3>5 DEF PassAhead
  <2>9. CASE ~(Len(page) > 1)
    <3>1. isweep'.cursor = h /\ isweep'.pc = IF isweep.full THEN "list" ELSE "idle"
      BY <1>3, <2>9
    <3>2. CASE isweep.full
      <4>1. isweep'.pc = "list" /\ p \in DOMAIN ended' /\ ended'[p] = isweep'.cursor
        BY <1>1, <2>3, <3>1, <3>2
      <4>2. QED
        BY <2>5, <2>7, <4>1 DEF PassAhead
    <3>3. CASE ~isweep.full
      <4>1. Due' = {}
        <5>1. ASSUME NEW s \in Due' PROVE FALSE
          <6>1. s \in isweep'.goal
            BY <5>1 DEF Due
          <6>2. PICK i \in 1..cut' : ended'[i] = s
            BY <2>7, <6>1
          <6>3. i \in DOMAIN ended' /\ i \in Nat
            BY <1>1, RetentionFacts
          <6>4. p + 1 <= i /\ i <= p + Len(page) - 1
            BY <2>5, <2>6, <3>3, <5>1, <6>2, <6>3 DEF From, To
          <6>5. QED
            BY <1>4, <2>3, <2>9, <6>3, <6>4
        <5>2. QED
          BY <5>1
      <4>2. isweep'.pc = "idle"
        BY <3>1, <3>3
      <4>3. QED
        BY <2>7, <4>1, <4>2 DEF PassAhead
    <3>4. QED
      BY <3>2, <3>3
  <2>10. QED
    BY <2>8, <2>9
<1>7. QED
  BY <1>5, <1>6 DEF RetentionInv

LEMMA ImageListFailsStep ==
  ASSUME RetentionInv, R!ImageListFails
  PROVE  RetentionInv'
<1>1. isweep' = R!Aborted(isweep) /\ UNCHANGED <<sess, ended, cut, img, csweep, purge, acct, put, moved, missed>>
  BY DEF R!ImageListFails
<1>2. SweepOK(isweep') /\ isweep'.pc = "idle" /\ isweep'.goal = {}
  BY <1>1, RetentionFacts, AbortedIs
<1>3. RetentionTypes' /\ EndedListed' /\ Captured' /\ OrphansFound'
  BY <1>1, <1>2, RetentionFacts DEF RetentionTypes, EndedListed, Captured, OrphansFound, Orphan, Found
<1>4. QED
  BY <1>2, <1>3, AheadAborted DEF RetentionInv

\* The server stops: what was being cleaned counts as missed.
LEMMA ServerStopsStep ==
  ASSUME RetentionInv, R!ServerStops
  PROVE  RetentionInv'
<1>1. /\ missed' = missed \cup {s \in img : sess[s] = "gone" /\ R!Cleaning(s)}
      /\ isweep' = R!Aborted(isweep) /\ csweep' = R!Aborted(csweep)
      /\ purge' = [s \in Sessions |-> "idle"] /\ put' = [s \in Sessions |-> "idle"]
      /\ UNCHANGED <<sess, ended, cut, img, moved>>
  BY DEF R!ServerStops
<1>2. acct' \in AccountState /\ acct'.pc # "captured"
  <2>1. PICK pc : acct' = [acct EXCEPT !.pc = pc] /\ pc \in {"none", "gone"}
    <3>1. acct' = [acct EXCEPT !.pc = CASE @ = "captured" -> "none" [] @ = "rowgone" -> "gone" [] OTHER -> @]
      BY DEF R!ServerStops
    <3>2. CASE acct.pc \in {"captured", "none"}
      BY <3>1, <3>2
    <3>3. CASE acct.pc \in {"rowgone", "gone"}
      BY <3>1, <3>3
    <3>4. QED
      BY <3>2, <3>3, RetentionFacts
  <2>2. acct \in AccountState
    BY RetentionFacts DEF RetentionTypes
  <2>3. QED
    BY <2>1, <2>2 DEF AccountState
<1>3. /\ SweepOK(isweep') /\ isweep'.pc = "idle" /\ isweep'.goal = {}
      /\ SweepOK(csweep') /\ csweep'.pc = "idle"
  BY <1>1, RetentionFacts, AbortedIs
<1>4. missed' \in SUBSET Sessions
  BY <1>1, RetentionFacts DEF RetentionTypes
<1>5. RetentionTypes' /\ EndedListed'
  BY <1>1, <1>2, <1>3, <1>4, RetentionFacts DEF RetentionTypes, EndedListed
<1>6. Captured'
  BY <1>2 DEF Captured
<1>7. ASSUME NEW x \in Sessions, Orphan(x)' PROVE FALSE
  <2>1. x \in img /\ sess[x] = "gone" /\ x \notin missed' /\ Orphan(x)
    BY <1>1, <1>7 DEF Orphan
  <2>2. Found(x)
    BY <2>1, RetentionFacts DEF OrphansFound
  <2>3. R!Cleaning(x)
    BY <2>2 DEF Found, R!Cleaning
  <2>4. QED
    BY <1>1, <2>1, <2>3
<1>8. QED
  BY <1>3, <1>5, <1>6, <1>7, AheadAborted DEF RetentionInv, OrphansFound

LEMMA ConversationListFailsStep ==
  ASSUME RetentionInv, R!ConversationListFails
  PROVE  RetentionInv'
<1>1. /\ csweep.pc = "list" /\ csweep' = R!Aborted(csweep)
      /\ UNCHANGED <<sess, ended, cut, img, isweep, purge, acct, put, moved, missed>>
  BY DEF R!ConversationListFails
<1>2. SweepOK(csweep')
  BY <1>1, RetentionFacts, AbortedIs
<1>3. RetentionTypes' /\ Captured' /\ OrphansFound'
  BY <1>1, <1>2, RetentionFacts DEF RetentionTypes, Captured, OrphansFound, Orphan, Found
<1>4. QED
  BY <1>1, <1>3, AheadStays DEF RetentionInv

LEMMA ConversationPassStep ==
  ASSUME RetentionInv, R!ConversationPass
  PROVE  RetentionInv'
<1>1. /\ csweep.pc = "idle" /\ csweep' = R!Begin(csweep, R!Old)
      /\ UNCHANGED <<sess, ended, cut, img, isweep, purge, acct, put, moved, missed>>
  BY DEF R!ConversationPass
<1>2. SweepOK(csweep') /\ csweep'.pc = "list"
  <2>1. R!Old \in SUBSET Sessions /\ SweepOK(csweep)
    BY RetentionFacts DEF RetentionTypes, R!Old
  <2>2. QED
    BY <1>1, <2>1, BeginIs
<1>3. RetentionTypes' /\ Captured' /\ OrphansFound'
  BY <1>1, <1>2, RetentionFacts DEF RetentionTypes, Captured, OrphansFound, Orphan, Found
<1>4. QED
  BY <1>1, <1>3, AheadStays DEF RetentionInv

LEMMA ConversationListStep ==
  ASSUME RetentionInv, R!ConversationList
  PROVE  RetentionInv'
<1>1. /\ csweep.pc = "list" /\ csweep' = R!Listed(csweep)
      /\ UNCHANGED <<sess, ended, cut, img, isweep, purge, acct, put, moved, missed>>
  BY DEF R!ConversationList
<1>2. SweepOK(csweep')
  BY <1>1, RetentionFacts, ListedIs DEF RetentionTypes
<1>3. RetentionTypes' /\ Captured' /\ OrphansFound'
  BY <1>1, <1>2, RetentionFacts DEF RetentionTypes, Captured, OrphansFound, Orphan, Found
<1>4. QED
  BY <1>1, <1>3, AheadStays DEF RetentionInv

\* Rows that go: the end list follows, and images wait for the remover that took them.
LEMMA RowGone ==
  ASSUME RetentionInv, NEW s \in Sessions, R!DeleteRow(s)
  PROVE  /\ sess' = [sess EXCEPT ![s] = "gone"] /\ sess' \in [Sessions -> {"none", "active", "ended", "gone"}]
         /\ ended' \in Seq(Sessions) /\ cut' \in 0..Len(ended') /\ EndedListed' /\ ~Undisturbed'
<1>1. sess' = [sess EXCEPT ![s] = "gone"] /\ ended' = R!Without(s) /\ cut' = R!OldWithout(s)
  BY DEF R!DeleteRow
<1>2. sess \in [Sessions -> {"none", "active", "ended", "gone"}] /\ RetentionTypes /\ EndedListed
  BY RetentionFacts DEF RetentionTypes
<1>3. /\ ended' \in Seq(Sessions) /\ Once(ended') /\ cut' \in 0..Len(ended')
      /\ \A x \in Sessions : Names(ended', x) <=> x # s /\ Names(ended, x)
  BY <1>1, <1>2, WithoutIs
<1>4. EndedListed'
  BY <1>1, <1>2, <1>3 DEF EndedListed
<1>5. QED
  BY <1>1, <1>2, <1>3, <1>4 DEF Undisturbed

LEMMA ConversationDeleteStep ==
  ASSUME RetentionInv, R!ConversationDelete
  PROVE  RetentionInv'
<1>1. PICK s : s = Head(csweep.page)
  OBVIOUS
<1>2. csweep.pc = "delete" /\ UNCHANGED <<img, isweep, purge, acct, put, moved, missed>>
  BY DEF R!ConversationDelete
<1>3. SweepOK(csweep) /\ csweep.page # <<>> /\ s \in Sessions
  <2>1. SweepOK(csweep) /\ csweep.page # <<>> /\ csweep.page \in Seq(Sessions)
    BY <1>2, RetentionFacts, SweepFacts DEF SweepOK
  <2>2. QED
    BY <1>1, <2>1, HeadTailProperties
<1>10. \/ csweep' = R!Advanced([csweep EXCEPT !.goal = @ \ {s}]) /\ UNCHANGED <<sess, ended, cut>>
       \/ sess[s] # "gone" /\ csweep' = [csweep EXCEPT !.pc = "clean"] /\ R!DeleteRow(s)
  BY <1>1 DEF R!ConversationDelete
<1>4. CASE csweep' = R!Advanced([csweep EXCEPT !.goal = @ \ {s}]) /\ UNCHANGED <<sess, ended, cut>>
  <2>1. PICK w : w = [csweep EXCEPT !.goal = @ \ {s}]
    OBVIOUS
  <2>5. SweepOK(w) /\ w.page # <<>> /\ csweep' = R!Advanced(w) /\ UNCHANGED <<sess, ended, cut>>
    BY <1>3, <1>4, <2>1, NarrowedIs
  <2>2. SweepOK(csweep')
    BY <2>5, AdvancedIs
  <2>3. RetentionTypes' /\ Captured' /\ OrphansFound'
    BY <1>2, <2>5, <2>2, RetentionFacts DEF RetentionTypes, Captured, OrphansFound, Orphan, Found
  <2>4. QED
    BY <1>2, <2>5, <2>3, AheadStays DEF RetentionInv
<1>5. CASE sess[s] # "gone" /\ csweep' = [csweep EXCEPT !.pc = "clean"] /\ R!DeleteRow(s)
  <2>1. csweep' = [csweep EXCEPT !.pc = "clean"] /\ R!DeleteRow(s)
    BY <1>5
  <2>2. SweepOK(csweep') /\ csweep'.pc = "clean" /\ csweep'.page = csweep.page
    BY <1>3, <2>1 DEF SweepOK, SweepState
  <2>3. sess' = [sess EXCEPT ![s] = "gone"] /\ EndedListed' /\ ~Undisturbed'
    BY <1>3, <2>1, RowGone
  <2>4. RetentionTypes'
    BY <1>2, <1>3, <2>1, <2>2, RowGone, RetentionFacts DEF RetentionTypes
  <2>5. Captured'
    BY <1>2, <1>3, <2>3, RetentionFacts DEF Captured, RetentionTypes
  <2>6. ASSUME NEW x \in Sessions, Orphan(x)' PROVE Found(x)'
    <3>1. CASE x = s
      BY <1>1, <2>2, <3>1 DEF Found
    <3>2. CASE x # s
      <4>1. Orphan(x)
        BY <1>2, <2>3, <2>6, <3>2, RetentionFacts DEF Orphan, RetentionTypes
      <4>2. Found(x)
        BY <4>1, RetentionFacts DEF OrphansFound
      <4>3. QED
        BY <1>2, <4>2 DEF Found
    <3>3. QED
      BY <3>1, <3>2
  <2>7. QED
    BY <2>3, <2>4, <2>5, <2>6 DEF RetentionInv, OrphansFound
<1>6. QED
  BY <1>10, <1>4, <1>5

LEMMA ConversationCleanStep ==
  ASSUME RetentionInv, R!ConversationClean
  PROVE  RetentionInv'
<1>1. PICK s : s = Head(csweep.page)
  OBVIOUS
<1>2. /\ csweep.pc = "clean" /\ R!RemoveImages({s}) /\ csweep' = R!Advanced(csweep)
      /\ UNCHANGED <<sess, ended, cut, isweep, purge, acct, put, moved>>
  BY <1>1 DEF R!ConversationClean
<1>3. SweepOK(csweep') /\ {s} \in SUBSET Sessions
  <2>1. SweepOK(csweep) /\ csweep.page # <<>>
    BY <1>2, RetentionFacts DEF SweepOK
  <2>2. QED
    BY <1>1, <1>2, <2>1, AdvancedIs
<1>7. /\ img' \subseteq img /\ img' \in SUBSET Sessions /\ missed' \in SUBSET Sessions /\ missed \subseteq missed'
      /\ s \in img' => s \in missed'
  BY <1>2, <1>3, RemovedIs
<1>4. RetentionTypes' /\ Captured'
  BY <1>2, <1>3, <1>7, RetentionFacts DEF RetentionTypes, Captured
<1>5. ASSUME NEW x \in Sessions, Orphan(x)' PROVE Found(x)'
  <2>1. Orphan(x) /\ x # s
    BY <1>2, <1>5, <1>7 DEF Orphan
  <2>2. Found(x)
    BY <2>1, RetentionFacts DEF OrphansFound
  <2>3. QED
    BY <1>1, <1>2, <2>1, <2>2 DEF Found
<1>6. QED
  BY <1>2, <1>4, <1>5, <1>7, AheadStays DEF RetentionInv, OrphansFound

LEMMA AccountStaysStep ==
  ASSUME RetentionInv, R!AccountStays
  PROVE  RetentionInv'
<1>1. /\ acct.pc = "captured" /\ acct' = [acct EXCEPT !.pc = "none"]
      /\ UNCHANGED <<sess, ended, cut, img, isweep, csweep, purge, put, moved, missed>>
  BY DEF R!AccountStays
<1>2. acct' \in AccountState /\ acct'.pc = "none"
  BY <1>1, RetentionFacts DEF RetentionTypes, AccountState
<1>3. RetentionTypes' /\ Captured' /\ OrphansFound'
  BY <1>1, <1>2, RetentionFacts DEF RetentionTypes, Captured, OrphansFound, Orphan, Found
<1>4. QED
  BY <1>1, <1>3, AheadStays DEF RetentionInv

LEMMA CaptureStep ==
  ASSUME RetentionInv, R!CaptureSessions
  PROVE  RetentionInv'
<1>1. /\ acct.pc = "none" /\ acct' = [pc |-> "captured", ids |-> R!SessionIDsForUser]
      /\ UNCHANGED <<sess, ended, cut, img, isweep, csweep, purge, put, moved, missed>>
  BY DEF R!CaptureSessions
<1>2. acct' \in AccountState /\ acct'.pc = "captured" /\ acct'.ids = R!SessionIDsForUser
  BY <1>1 DEF AccountState, R!SessionIDsForUser
<1>3. RetentionTypes' /\ Captured' /\ OrphansFound'
  BY <1>1, <1>2, RetentionFacts
     DEF RetentionTypes, Captured, OrphansFound, Orphan, Found, R!SessionIDsForUser
<1>4. QED
  BY <1>1, <1>3, AheadStays DEF RetentionInv

LEMMA DeleteAccountStep ==
  ASSUME RetentionInv, R!DeleteAccount
  PROVE  RetentionInv'
<1>1. /\ acct.pc = "captured" /\ acct' = [acct EXCEPT !.pc = "rowgone"]
      /\ sess' = [s \in Sessions |-> IF sess[s] = "none" THEN "none" ELSE "gone"]
      /\ ended' = <<>> /\ cut' = 0
      /\ UNCHANGED <<img, isweep, csweep, purge, put, moved, missed>>
  BY DEF R!DeleteAccount
<1>2. acct' \in AccountState /\ acct'.pc = "rowgone" /\ acct'.ids = acct.ids
  BY <1>1, RetentionFacts DEF RetentionTypes, AccountState
<1>3. <<>> \in Seq(Sessions) /\ Len(<<>>) = 0 /\ DOMAIN <<>> = {}
  OBVIOUS
<1>4. RetentionTypes'
  BY <1>1, <1>2, <1>3, RetentionFacts DEF RetentionTypes
<1>5. EndedListed'
  BY <1>1, <1>3 DEF EndedListed, Once, Names
<1>6. Captured'
  BY <1>2 DEF Captured
<1>7. ASSUME NEW x \in Sessions, Orphan(x)' PROVE Found(x)'
  <2>1. x \in img /\ x \notin moved \cup missed /\ sess[x] \in {"active", "ended", "gone"}
    BY <1>1, <1>7, RetentionFacts DEF Orphan, RetentionTypes
  <2>2. CASE sess[x] = "gone"
    <3>1. Found(x)
      BY <2>1, <2>2, RetentionFacts DEF OrphansFound, Orphan
    <3>2. QED
      BY <1>1, <1>2, <3>1 DEF Found
  <2>3. CASE sess[x] \in {"active", "ended"}
    BY <1>1, <1>2, <2>1, <2>3, RetentionFacts DEF Captured, Found
  <2>4. QED
    BY <2>1, <2>2, <2>3
<1>8. (Undisturbed => PassAhead)'
  <2>1. ASSUME Undisturbed' PROVE Undisturbed /\ \A s \in Sessions : sess[s] # "ended"
    BY <1>1, <2>1 DEF Undisturbed
  <2>2. ASSUME Undisturbed' PROVE ended = <<>>
    <3>1. \A i \in DOMAIN ended : ended[i] \in Sessions
      BY RetentionFacts DEF RetentionTypes
    <3>2. DOMAIN ended = {}
      BY <2>1, <2>2, <3>1, RetentionFacts DEF EndedListed, Names
    <3>3. Len(ended) = 0
      BY <3>2, RetentionFacts
    <3>4. QED
      BY <3>3, EmptySeq, RetentionFacts DEF RetentionTypes
  <2>3. Undisturbed' => cut <= cut'
    BY <1>1, <1>3, <2>2, RetentionFacts
  <2>4. QED
    BY <1>1, <1>3, <2>1, <2>2, <2>3, AheadKept
<1>9. QED
  BY <1>4, <1>5, <1>6, <1>7, <1>8 DEF RetentionInv, OrphansFound

LEMMA PurgeUserStep ==
  ASSUME RetentionInv, R!PurgeUserImages
  PROVE  RetentionInv'
<1>1. /\ acct.pc = "rowgone" /\ acct' = [acct EXCEPT !.pc = "gone"] /\ R!RemoveImages(acct.ids)
      /\ UNCHANGED <<sess, ended, cut, isweep, csweep, purge, put, moved>>
  BY DEF R!PurgeUserImages
<1>2. acct' \in AccountState /\ acct'.pc = "gone" /\ acct'.ids = acct.ids
  BY <1>1, RetentionFacts DEF RetentionTypes, AccountState
<1>5. /\ img' \subseteq img /\ img' \in SUBSET Sessions /\ missed' \in SUBSET Sessions /\ missed \subseteq missed'
      /\ \A x \in acct.ids : x \in img' => x \in missed'
  BY <1>1, RetentionFacts, RemovedIs
<1>3. RetentionTypes' /\ Captured' /\ OrphansFound'
  BY <1>1, <1>2, <1>5, RetentionFacts DEF RetentionTypes, Captured, OrphansFound, Orphan, Found
<1>4. QED
  BY <1>1, <1>3, <1>5, AheadStays DEF RetentionInv

LEMMA CreateSessionStep ==
  ASSUME RetentionInv, NEW s \in Sessions, R!CreateSession(s)
  PROVE  RetentionInv'
<1>1. /\ sess[s] = "none" /\ sess' = [sess EXCEPT ![s] = "active"]
      /\ moved' = IF acct.pc = "captured" THEN moved \cup {s} ELSE moved
      /\ UNCHANGED <<ended, cut, img, isweep, csweep, purge, acct, put, missed>>
  BY DEF R!CreateSession
<1>2. RetentionTypes'
  BY <1>1, RetentionFacts DEF RetentionTypes
<1>3. \A x \in Sessions : sess'[x] = IF x = s THEN "active" ELSE sess[x]
  BY <1>1, RetentionFacts DEF RetentionTypes
<1>4. EndedListed'
  BY <1>1, <1>3, RetentionFacts DEF EndedListed
<1>5. Captured' /\ OrphansFound'
  BY <1>1, <1>3, RetentionFacts DEF Captured, OrphansFound, Orphan, Found
<1>6. (Undisturbed => PassAhead)'
  <2>1. Undisturbed' => Undisturbed
    BY <1>1, <1>3 DEF Undisturbed
  <2>2. ended' \in Seq(Sessions)
    BY <1>1, RetentionFacts DEF RetentionTypes
  <2>3. QED
    BY <1>1, <2>1, <2>2, RetentionFacts, AheadKept
<1>7. QED
  BY <1>2, <1>4, <1>5, <1>6 DEF RetentionInv

LEMMA AuthorizeStep ==
  ASSUME RetentionInv, NEW s \in Sessions, R!Authorize(s)
  PROVE  RetentionInv'
<1>1. put' = [put EXCEPT ![s] = "authorized"] /\ UNCHANGED <<sess, ended, cut, img, isweep, csweep, purge, acct, moved, missed>>
  BY DEF R!Authorize
<1>2. RetentionTypes' /\ Captured' /\ OrphansFound'
  BY <1>1, RetentionFacts DEF RetentionTypes, Captured, OrphansFound, Orphan, Found
<1>3. QED
  BY <1>1, <1>2, AheadStays DEF RetentionInv

LEMMA SaveImageStep ==
  ASSUME RetentionInv, NEW s \in Sessions, R!SaveImage(s)
  PROVE  RetentionInv'
<1>1. /\ put' = [put EXCEPT ![s] = "idle"] /\ img' = img \cup {s}
      /\ moved' = IF sess[s] # "active" THEN moved \cup {s} ELSE moved
      /\ UNCHANGED <<sess, ended, cut, isweep, csweep, purge, acct, missed>>
  BY DEF R!SaveImage
<1>2. RetentionTypes' /\ EndedListed'
  BY <1>1, RetentionFacts DEF RetentionTypes, EndedListed
<1>3. Captured' /\ OrphansFound'
  BY <1>1, RetentionFacts DEF Captured, OrphansFound, Orphan, Found
<1>4. (Undisturbed => PassAhead)'
  <2>1. Undisturbed' => Undisturbed /\ sess[s] = "active"
    BY <1>1 DEF Undisturbed
  <2>2. ASSUME Undisturbed' PROVE s \notin isweep.goal
    <3>1. SUFFICES ASSUME s \in isweep.goal PROVE FALSE
      OBVIOUS
    <3>2. PICK i \in 1..cut : ended[i] = s
      BY <2>1, <2>2, <3>1 DEF RetentionInv, PassAhead
    <3>3. i \in DOMAIN ended
      BY RetentionFacts
    <3>4. sess[s] = "ended"
      BY <3>2, <3>3, RetentionFacts DEF EndedListed, Names
    <3>5. QED
      BY <2>1, <2>2, <3>4
  <2>3. Undisturbed' => \A x \in isweep.goal : x \in img' => x \in img
    BY <1>1, <2>2
  <2>4. ended' \in Seq(Sessions)
    BY <1>1, RetentionFacts DEF RetentionTypes
  <2>5. QED
    BY <1>1, <2>1, <2>3, <2>4, RetentionFacts, AheadKept
<1>5. QED
  BY <1>2, <1>3, <1>4 DEF RetentionInv

LEMMA EndSessionStep ==
  ASSUME RetentionInv, NEW s \in Sessions, R!EndSession(s)
  PROVE  RetentionInv'
<1>1. PICK e : e = R!Without(s)
  OBVIOUS
<1>2. PICK c : c = R!OldWithout(s)
  OBVIOUS
<1>3. /\ sess[s] \in {"active", "ended"} /\ sess' = [sess EXCEPT ![s] = "ended"]
      /\ ended' = Append(e, s) /\ cut' = c
      /\ moved' = IF sess[s] = "ended" THEN moved \cup {s} ELSE moved
      /\ UNCHANGED <<img, isweep, csweep, purge, acct, put, missed>>
  BY <1>1, <1>2 DEF R!EndSession, R!EndRow
<1>4. /\ e \in Seq(Sessions) /\ Once(e) /\ c \in 0..Len(e) /\ ~Names(e, s)
      /\ \A x \in Sessions : Names(e, x) <=> x # s /\ Names(ended, x)
      /\ sess[s] # "ended" => e = ended /\ c = cut
  BY <1>1, <1>2, RetentionFacts, WithoutIs
<1>5. /\ ended' \in Seq(Sessions) /\ Once(ended') /\ Len(ended') = Len(e) + 1 /\ Len(e) \in Nat
      /\ \A x \in Sessions : Names(ended', x) <=> x = s \/ Names(e, x)
      /\ \A i \in DOMAIN e : i \in DOMAIN ended' /\ ended'[i] = e[i]
      /\ \A i \in DOMAIN ended' : i \in DOMAIN e \/ ended'[i] = s
  <2>1. PICK t : t = Append(e, s)
    OBVIOUS
  <2>2. /\ t \in Seq(Sessions) /\ Once(t) /\ Len(t) = Len(e) + 1 /\ Len(e) \in Nat
        /\ \A x \in Sessions : Names(t, x) <=> x = s \/ Names(e, x)
        /\ \A i \in DOMAIN e : i \in DOMAIN t /\ t[i] = e[i]
        /\ \A i \in DOMAIN t : i \in DOMAIN e \/ t[i] = s
    <3>1. e \in Seq(Sessions) /\ Once(e) /\ ~Names(e, s)
      BY <1>4
    <3>2. Longer(t, e, s)
      BY <2>1, <3>1, EndedLast
    <3>3. QED
      BY <3>2 DEF Longer
  <2>3. ended' = t
    BY <1>3, <2>1
  <2>4. QED
    BY <2>2, <2>3
<1>6. \A x \in Sessions : sess'[x] = IF x = s THEN "ended" ELSE sess[x]
  BY <1>3, RetentionFacts DEF RetentionTypes
<1>7. RetentionTypes'
  <2>1. cut' \in 0..Len(ended')
    BY <1>3, <1>4, <1>5
  <2>2. QED
    BY <1>3, <1>5, <2>1, RetentionFacts DEF RetentionTypes
<1>8. EndedListed'
  <2>1. ASSUME NEW x \in Sessions PROVE sess'[x] = "ended" <=> Names(ended', x)
    BY <1>4, <1>5, <1>6, RetentionFacts DEF EndedListed
  <2>2. QED
    BY <1>5, <2>1 DEF EndedListed
<1>9. Captured' /\ OrphansFound'
  BY <1>3, <1>6, RetentionFacts DEF Captured, OrphansFound, Orphan, Found
<1>10. (Undisturbed => PassAhead)'
  <2>1. Undisturbed' => Undisturbed /\ sess[s] = "active"
    BY <1>3, <1>6 DEF Undisturbed
  <2>2. ASSUME Undisturbed' PROVE s \notin isweep.goal
    <3>1. SUFFICES ASSUME s \in isweep.goal PROVE FALSE
      OBVIOUS
    <3>2. PICK i \in 1..cut : ended[i] = s
      BY <2>1, <2>2, <3>1 DEF RetentionInv, PassAhead
    <3>3. i \in DOMAIN ended
      BY RetentionFacts
    <3>4. sess[s] = "ended"
      BY <3>2, <3>3, RetentionFacts DEF EndedListed, Names
    <3>5. QED
      BY <2>1, <2>2, <3>4
  <2>3. Undisturbed' => e = ended /\ cut' = cut
    BY <1>3, <1>4, <2>1
  <2>4. Undisturbed' =>
          /\ cut <= cut' /\ cut' \in Nat
          /\ \A i \in DOMAIN ended : i \in DOMAIN ended' /\ ended'[i] = ended[i]
          /\ \A i \in DOMAIN ended' : i \in DOMAIN ended \/ ended'[i] \notin isweep.goal
    BY <1>5, <2>2, <2>3, RetentionFacts
  <2>5. QED
    BY <1>3, <1>5, <2>1, <2>4, AheadKept
<1>11. QED
  BY <1>7, <1>8, <1>9, <1>10 DEF RetentionInv

LEMMA PurgeSessionStep ==
  ASSUME RetentionInv, NEW s \in Sessions, R!PurgeSession(s)
  PROVE  RetentionInv'
<1>1. /\ purge' = [purge EXCEPT ![s] = "rowgone"] /\ R!DeleteRow(s)
      /\ UNCHANGED <<img, isweep, csweep, acct, put, moved, missed>>
  BY DEF R!PurgeSession
<1>2. sess' = [sess EXCEPT ![s] = "gone"] /\ EndedListed' /\ ~Undisturbed'
  BY <1>1, RowGone
<1>3. RetentionTypes'
  BY <1>1, RowGone, RetentionFacts DEF RetentionTypes
<1>4. Captured'
  BY <1>1, <1>2, RetentionFacts DEF Captured, RetentionTypes
<1>5. OrphansFound'
  BY <1>1, <1>2, RetentionFacts DEF OrphansFound, Orphan, Found, RetentionTypes
<1>6. QED
  BY <1>2, <1>3, <1>4, <1>5 DEF RetentionInv

LEMMA PurgeImagesStep ==
  ASSUME RetentionInv, NEW s \in Sessions, R!PurgeImages(s)
  PROVE  RetentionInv'
<1>1. /\ purge' = [purge EXCEPT ![s] = "idle"] /\ R!RemoveImages({s})
      /\ UNCHANGED <<sess, ended, cut, isweep, csweep, acct, put, moved>>
  BY DEF R!PurgeImages
<1>4. /\ img' \subseteq img /\ img' \in SUBSET Sessions /\ missed' \in SUBSET Sessions /\ missed \subseteq missed'
      /\ s \in img' => s \in missed'
  BY <1>1, RemovedIs
<1>2. RetentionTypes' /\ Captured' /\ OrphansFound'
  BY <1>1, <1>4, RetentionFacts DEF RetentionTypes, Captured, OrphansFound, Orphan, Found
<1>3. QED
  BY <1>1, <1>2, <1>4, AheadStays DEF RetentionInv

LEMMA RetentionStep ==
  ASSUME RetentionInv, R!RetentionNext \/ UNCHANGED retentionVars
  PROVE  RetentionInv'
<1>1. CASE UNCHANGED retentionVars
  <2>1. UNCHANGED <<sess, ended, cut, img, isweep, csweep, purge, acct, put, moved, missed>>
    BY <1>1 DEF retentionVars
  <2>2. RetentionTypes' /\ Captured' /\ OrphansFound'
    BY <2>1, RetentionFacts DEF RetentionTypes, Captured, OrphansFound, Orphan, Found
  <2>3. QED
    BY <2>1, <2>2, AheadStays DEF RetentionInv
<1>2. CASE R!RetentionNext
  BY <1>2, AgeStep, ImagePassStep, ImageListStep, ImageDeleteStep, ConversationPassStep, ConversationListStep,
     ConversationDeleteStep, ConversationCleanStep, CaptureStep, DeleteAccountStep, PurgeUserStep,
     ServerStopsStep, ImageListFailsStep, ConversationListFailsStep, AccountStaysStep, CreateSessionStep, AuthorizeStep, SaveImageStep, EndSessionStep, PurgeSessionStep, PurgeImagesStep
     DEF R!RetentionNext
<1>3. QED
  BY <1>1, <1>2

LEMMA RetentionInvSound == RetentionInv => R!RetentionTypeOK /\ R!NoOrphanImages /\ R!ImagePassComplete
<1>1. ASSUME RetentionInv PROVE R!RetentionTypeOK
  <2>1. R!Range(ended) = {s \in Sessions : sess[s] = "ended"}
    <3>1. R!Range(ended) = {ended[i] : i \in DOMAIN ended}
      BY DEF R!Range
    <3>2. \A i \in DOMAIN ended : ended[i] \in Sessions
      BY <1>1, RetentionFacts DEF RetentionTypes
    <3>3. QED
      BY <1>1, <3>1, <3>2, RetentionFacts DEF EndedListed, Names
  <2>2. \A w \in {isweep, csweep} : w.pc \in {"idle", "list", "delete", "clean"} /\ Len(w.page) <= Page
    BY <1>1, RetentionFacts, SweepFacts DEF SweepOK
  <2>3. QED
    BY <1>1, <2>1, <2>2, RetentionFacts DEF RetentionTypes, R!RetentionTypeOK
<1>2. ASSUME RetentionInv PROVE R!NoOrphanImages
  <2>1. img \subseteq Sessions
    BY <1>2, RetentionFacts DEF RetentionTypes
  <2>2. QED
    BY <1>2, <2>1, RetentionFacts DEF R!NoOrphanImages, R!Cleaning, OrphansFound, Orphan, Found
<1>3. ASSUME RetentionInv PROVE R!ImagePassComplete
  BY <1>3 DEF RetentionInv, Undisturbed, PassAhead, Due, R!ImagePassComplete
<1>4. QED
  BY <1>1, <1>2, <1>3

\* For any number of images, uploads and sessions, any page size and any number of passes:
\* an image that a message refers to outlives deletes and sweeps, and the images
\* of a session that is gone go with it, unless the remover's one attempt failed or the
\* process stopped before it.
THEOREM ImagesAreKept == Spec => []ImagesKept
<1>1. Init => UploadsInv /\ RetentionInv
  BY UploadsStart, RetentionStart DEF Init
<1>2. UploadsInv /\ RetentionInv /\ [Next]_vars => UploadsInv' /\ RetentionInv'
  <2>1. ASSUME [Next]_vars
        PROVE  (U!UploadsNext \/ UNCHANGED uploadVars) /\ (R!RetentionNext \/ UNCHANGED retentionVars)
    BY <2>1 DEF Next, Only, vars
  <2>2. QED
    BY <2>1, UploadsStep, RetentionStep
<1>3. UploadsInv /\ RetentionInv => ImagesKept
  BY UploadsInvSound, RetentionInvSound DEF ImagesKept
<1>4. QED
  BY <1>1, <1>2, <1>3, PTL DEF Spec
=============================================================================
