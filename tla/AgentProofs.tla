---------------------------- MODULE AgentProofs ----------------------------
(***************************************************************************)
(* Proofs about the agent: the loop, for any number of iterations, any     *)
(* replies and a cancellation at any moment, and the run tree, for any     *)
(* number of spawns and any limits; and the idle deadline of a response    *)
(* body, for any window.                                                   *)
(***************************************************************************)
EXTENDS MCAgent, FiniteSetTheorems, SequenceTheorems, WellFoundedInduction, TLAPS

\* A set of numbers that is not empty has a least element.
LEMMA LeastOf ==
  ASSUME NEW D \in SUBSET Nat, D # {}
  PROVE  \E m \in D : \A k \in D : m <= k
<1>1. PICK m \in D : \A k \in D : ~(<<k, m>> \in OpToRel(<, Nat))
  BY WFMin, NatLessThanWellFounded, Zenon
<1>2. OpToRel(<, Nat) = {ss \in Nat \X Nat : ss[1] < ss[2]}
  BY Zenon DEF OpToRel
<1>3. \A k \in D : k < m => <<k, m>> \in {ss \in Nat \X Nat : ss[1] < ss[2]}
  OBVIOUS
<1>4. \A k \in D : ~(k < m)
  BY <1>1, <1>2, <1>3, Zenon
<1>5. QED
  BY <1>4

\* One element more or less in a finite set.
LEMMA CountOne ==
  ASSUME NEW B, IsFiniteSet(B), NEW D \in SUBSET B, NEW f
  PROVE  /\ Cardinality(D) \in Nat /\ Cardinality(D \ {f}) \in Nat
         /\ Cardinality(D) = Cardinality(D \ {f}) + (IF f \in D THEN 1 ELSE 0)
<1>1. IsFiniteSet(D)
  BY FS_Subset
<1>2. IsFiniteSet(D \ {f}) /\ Cardinality(D) \in Nat
  BY <1>1, FS_RemoveElement, FS_CardinalityType
<1>3. Cardinality(D \ {f}) \in Nat
  BY <1>2, FS_CardinalityType
<1>4. CASE f \in D
  <2>1. Cardinality(D \ {f}) = Cardinality(D) - 1
    BY <1>1, <1>4, FS_RemoveElement
  <2>2. Cardinality(D) = Cardinality(D \ {f}) + 1
    BY <1>2, <1>3, <2>1
  <2>3. QED
    BY <1>2, <1>3, <1>4, <2>2
<1>5. CASE f \notin D
  <2>1. D \ {f} = D
    BY <1>5
  <2>2. Cardinality(D) = Cardinality(D \ {f}) + 0
    BY <1>2, <2>1
  <2>3. QED
    BY <1>2, <1>3, <1>5, <2>2
<1>6. QED
  BY <1>4, <1>5

-----------------------------------------------------------------------------
(* The run tree.                                                           *)

Waiting == {"idle", "called", "queued", "counted"}
Active == {"called", "queued", "counted", "looping"}
NodeRow ==
  [phase : {"idle", "called", "queued", "counted", "looping", "done", "error"}, parent : U!Runs, depth : Nat, own : Nat]

TreeTypes ==
  /\ budget \in Budgets /\ node \in [U!Runs -> NodeRow] /\ slots \in SUBSET Spawns
  /\ spawned \in Nat /\ scope \in Nat /\ reported \in Nat /\ stopped \in BOOLEAN

\* The parent of a spawn under way waits for it, one level above what the depth guard let pass.
Awaited(s) ==
  /\ node[s].phase # "idle" => node[s].parent # s
  /\ node[s].phase \in Active => node[node[s].parent].phase = "looping"
  /\ node[s].phase = "called" => node[s].depth = node[node[s].parent].depth
  /\ node[s].phase \in {"queued", "counted", "looping"} =>
       node[s].depth = node[node[s].parent].depth + 1 /\ node[s].depth <= budget.depth

\* The spawns that may still be counted, and the ones the total budget let in.
Uncounted == {s \in Spawns : node[s].phase \in Waiting}
Admitted == {s \in Spawns : node[s].phase \in {"looping", "done"}}
SlotHolders == {s \in Spawns : node[s].phase \in {"counted", "looping"}}

\* The inductive invariant of the tree.
TreeInv ==
  /\ TreeTypes
  /\ \A s \in Spawns : Awaited(s)
  /\ slots = SlotHolders /\ Cardinality(slots) <= budget.concurrent
  /\ spawned + Cardinality(Uncounted) <= Cardinality(Spawns)
  /\ Cardinality(Admitted) <= spawned /\ Cardinality(Admitted) <= budget.total

\* What the sets of spawns count, when one of them moves.
LEMMA TreeCounts ==
  ASSUME TreeInv
  PROVE  /\ Cardinality(Spawns) \in Nat /\ Cardinality(slots) \in Nat
         /\ Cardinality(Uncounted) \in Nat /\ Cardinality(Admitted) \in Nat
         /\ budget.depth \in Nat /\ budget.total \in Nat /\ budget.concurrent \in Nat
<1>1. slots \in SUBSET Spawns /\ Uncounted \in SUBSET Spawns /\ Admitted \in SUBSET Spawns
  BY DEF TreeInv, TreeTypes, Uncounted, Admitted
<1>2. budget \in [depth : Nat, total : Nat, concurrent : Nat]
  BY SpawnAssumption DEF TreeInv, TreeTypes
<1>3. QED
  BY <1>1, <1>2, FS_Subset, FS_CardinalityType, SpawnAssumption

\* One spawn moves to another phase: the counts follow.
LEMMA SpawnMoves ==
  ASSUME TreeInv, NEW s \in Spawns, NEW w \in NodeRow, node' = [node EXCEPT ![s] = w],
         w.parent = node[s].parent, w.phase # "idle",
         node[s].phase \in Active,
         node[s].phase = "looping" => ~U!InBatch(s),
         w.phase = "looping" => node[s].phase \in {"looping", "counted"},
         w.phase \in Active => Awaited(s)',
         budget' = budget,
         slots' = SlotHolders', Cardinality(slots') <= budget.concurrent,
         scope' \in Nat, reported' \in Nat, stopped' \in BOOLEAN,
         NEW n \in {0, 1}, spawned' = spawned + n,
         n = 1 => node[s].phase \in Waiting /\ w.phase \notin Waiting,
         w.phase \in Waiting => node[s].phase \in Waiting,
         w.phase \in {"looping", "done"} =>
           node[s].phase \in {"looping", "done"} \/ (n = 1 /\ spawned' <= budget.total)
  PROVE  TreeInv'
<1>1. /\ TreeTypes /\ node \in [U!Runs -> NodeRow] /\ s \in U!Runs /\ s # Root
      /\ Spawns \subseteq U!Runs
  BY SpawnAssumption DEF TreeInv, TreeTypes, U!Runs
<1>2. node' \in [U!Runs -> NodeRow] /\ node'[s] = w /\ \A r \in U!Runs : r # s => node'[r] = node[r]
  BY <1>1
<1>3. TreeTypes'
  <2>1. slots' \in SUBSET Spawns
    BY DEF SlotHolders
  <2>2. QED
    BY <1>1, <1>2, <2>1 DEF TreeTypes
<1>4. ASSUME NEW q \in Spawns PROVE Awaited(q)'
  <2>1. CASE q = s
    <3>1. Awaited(s)
      BY DEF TreeInv
    <3>2. CASE w.phase \in Active
      BY <2>1, <3>2
    <3>3. CASE w.phase \notin Active
      BY <1>2, <2>1, <3>1, <3>3 DEF Awaited, Active
    <3>4. QED
      BY <3>2, <3>3
  <2>2. CASE q # s
    <3>1. Awaited(q) /\ node'[q] = node[q] /\ node[q] \in NodeRow /\ node[q].parent \in U!Runs
      BY <1>1, <1>2, <2>2 DEF TreeInv, NodeRow
    <3>2. CASE node[q].phase \notin Active
      BY <3>1, <3>2 DEF Awaited, Active
    <3>3. CASE node[q].phase \in Active
      <4>1. node[q].parent # s
        <5>1. SUFFICES ASSUME node[q].parent = s PROVE FALSE
          OBVIOUS
        <5>2. q \in U!Children(s) /\ ~U!Returned(q)
          BY <3>3, <5>1 DEF U!Children, U!Returned, Active
        <5>3. node[s].phase = "looping"
          BY <3>1, <3>3, <5>1 DEF Awaited
        <5>4. QED
          BY <5>2, <5>3 DEF U!InBatch
      <4>2. node'[node[q].parent] = node[node[q].parent]
        BY <1>2, <3>1, <4>1
      <4>3. QED
        BY <3>1, <4>2 DEF Awaited
    <3>4. QED
      BY <3>2, <3>3
  <2>3. QED
    BY <2>1, <2>2
<1>5. /\ Uncounted \in SUBSET Spawns /\ Admitted \in SUBSET Spawns /\ Uncounted' \in SUBSET Spawns /\ Admitted' \in SUBSET Spawns
      /\ Uncounted' \ {s} = Uncounted \ {s} /\ Admitted' \ {s} = Admitted \ {s}
      /\ (s \in Uncounted <=> node[s].phase \in Waiting) /\ (s \in Uncounted' <=> w.phase \in Waiting)
      /\ (s \in Admitted <=> node[s].phase \in {"looping", "done"})
      /\ (s \in Admitted' <=> w.phase \in {"looping", "done"})
  BY <1>1, <1>2 DEF Uncounted, Admitted
<1>6. /\ Cardinality(Uncounted \ {s}) \in Nat /\ Cardinality(Admitted \ {s}) \in Nat
      /\ Cardinality(Uncounted) = Cardinality(Uncounted \ {s}) + (IF s \in Uncounted THEN 1 ELSE 0)
      /\ Cardinality(Admitted) = Cardinality(Admitted \ {s}) + (IF s \in Admitted THEN 1 ELSE 0)
  BY <1>5, CountOne, SpawnAssumption
<1>7. /\ Cardinality(Uncounted') = Cardinality(Uncounted \ {s}) + (IF s \in Uncounted' THEN 1 ELSE 0)
      /\ Cardinality(Admitted') = Cardinality(Admitted \ {s}) + (IF s \in Admitted' THEN 1 ELSE 0)
  <2>1. PICK X : X = Uncounted'
    OBVIOUS
  <2>2. PICK Y : Y = Admitted'
    OBVIOUS
  <2>3. /\ Cardinality(X) = Cardinality(X \ {s}) + (IF s \in X THEN 1 ELSE 0)
        /\ Cardinality(Y) = Cardinality(Y \ {s}) + (IF s \in Y THEN 1 ELSE 0)
    BY <1>5, <2>1, <2>2, CountOne, SpawnAssumption
  <2>4. QED
    BY <1>5, <2>1, <2>2, <2>3
<1>8. /\ spawned + Cardinality(Uncounted) <= Cardinality(Spawns) /\ spawned \in Nat
      /\ Cardinality(Admitted) <= spawned /\ Cardinality(Admitted) <= budget.total
  BY <1>1 DEF TreeInv, TreeTypes
<1>9. /\ Cardinality(Spawns) \in Nat /\ budget.total \in Nat /\ budget.concurrent \in Nat
  BY TreeCounts
<1>10. spawned' + Cardinality(Uncounted') <= Cardinality(Spawns)
  <2>1. Cardinality(Uncounted') + n <= Cardinality(Uncounted)
    <3>1. CASE n = 1
      BY <1>5, <1>6, <1>7, <3>1
    <3>2. CASE n = 0
      BY <1>5, <1>6, <1>7, <3>2
    <3>3. QED
      BY <3>1, <3>2
  <2>2. Cardinality(Uncounted') \in Nat /\ Cardinality(Uncounted) \in Nat
    BY <1>6, <1>7
  <2>3. QED
    BY <1>8, <1>9, <2>1, <2>2
<1>11. Cardinality(Admitted') <= spawned' /\ Cardinality(Admitted') <= budget.total
  <2>1. PICK a \in Nat : a = Cardinality(Admitted \ {s})
    BY <1>6
  <2>2. a <= spawned /\ a <= budget.total /\ spawned' >= spawned /\ spawned' \in Nat
    BY <1>6, <1>8, <1>9, <2>1
  <2>3. CASE s \notin Admitted'
    <3>1. PICK c : c = Cardinality(Admitted')
      OBVIOUS
    <3>2. c = a
      BY <1>7, <2>1, <2>3, <3>1
    <3>3. c <= spawned' /\ c <= budget.total
      BY <1>8, <2>1, <2>2, <3>2
    <3>4. QED
      BY <3>1, <3>3
  <2>4. CASE s \in Admitted' /\ s \in Admitted
    BY <1>6, <1>7, <1>8, <2>1, <2>2, <2>4
  <2>5. CASE s \in Admitted' /\ s \notin Admitted
    <3>1. n = 1 /\ spawned' <= budget.total /\ spawned' = spawned + 1
      BY <1>5, <2>5
    <3>2. a + 1 <= spawned' /\ a + 1 <= budget.total
      BY <1>8, <1>9, <2>2, <3>1
    <3>3. QED
      BY <1>7, <2>1, <2>5, <3>2
  <2>6. QED
    BY <2>3, <2>4, <2>5
<1>12. QED
  BY <1>3, <1>4, <1>10, <1>11 DEF TreeInv

\* The first state: nothing is spawned.
LEMMA TreeStart ==
  ASSUME U!SubInit
  PROVE  TreeInv
<1>1. /\ budget \in Budgets /\ budget \in [depth : Nat, total : Nat, concurrent : Nat]
      /\ \A r \in U!Runs : node[r] = IF r = Root THEN [U!Idle EXCEPT !.phase = "looping"] ELSE U!Idle
      /\ node \in [U!Runs -> NodeRow]
  BY SpawnAssumption DEF U!SubInit, U!Idle, NodeRow, U!Runs
<1>2. \A s \in Spawns : s \in U!Runs /\ node[s].phase = "idle"
  BY <1>1, SpawnAssumption DEF U!Runs, U!Idle
<1>3. Uncounted = Spawns /\ Admitted = {} /\ SlotHolders = {}
  BY <1>2 DEF Uncounted, Admitted, SlotHolders, Waiting
<1>4. Cardinality({}) = 0 /\ Cardinality(Spawns) \in Nat
  BY FS_EmptySet, FS_CardinalityType, SpawnAssumption
<1>5. \A s \in Spawns : Awaited(s)
  BY <1>2 DEF Awaited, Active
<1>6. TreeTypes
  BY <1>1 DEF TreeTypes, U!SubInit
<1>7. slots = SlotHolders /\ Cardinality(slots) <= budget.concurrent /\ spawned = 0
  BY <1>1, <1>3, <1>4 DEF U!SubInit
<1>8. /\ spawned + Cardinality(Uncounted) <= Cardinality(Spawns)
      /\ Cardinality(Admitted) <= spawned /\ Cardinality(Admitted) <= budget.total
  BY <1>1, <1>3, <1>4, <1>7
<1>9. QED
  BY <1>5, <1>6, <1>7, <1>8 DEF TreeInv

\* A batch of spawns is called: they are still to be counted.
LEMMA BatchCalled ==
  ASSUME TreeInv, NEW p \in U!Runs, NEW b \in SUBSET Spawns, U!Batch(p, b)
  PROVE  TreeInv'
<1>1. /\ TreeTypes /\ node \in [U!Runs -> NodeRow] /\ Spawns \subseteq U!Runs
      /\ slots = SlotHolders /\ \A s \in Spawns : Awaited(s)
  BY DEF TreeInv, TreeTypes, U!Runs
<1>2. /\ \A s \in b : node[s].phase = "idle"
      /\ node[p].phase = "looping" /\ p \notin b
      /\ node' = [r \in U!Runs |-> IF r \in b THEN [phase |-> "called", parent |-> p, depth |-> node[p].depth, own |-> 0]
                                   ELSE node[r]]
      /\ UNCHANGED <<slots, spawned, scope, reported, stopped, budget>>
  BY DEF U!Batch
<1>3. node[p] \in NodeRow /\ node[p].depth \in Nat
  BY <1>1 DEF NodeRow
<1>4. node' \in [U!Runs -> NodeRow]
  BY <1>1, <1>2, <1>3 DEF NodeRow
<1>5. /\ \A r \in U!Runs : r \notin b => node'[r] = node[r]
      /\ \A r \in b : node'[r].phase = "called" /\ node'[r].parent = p /\ node'[r].depth = node[p].depth
  <2>1. \A r \in U!Runs :
          node'[r] = IF r \in b THEN [phase |-> "called", parent |-> p, depth |-> node[p].depth, own |-> 0] ELSE node[r]
    BY <1>2
  <2>2. \A r \in b : node'[r] = [phase |-> "called", parent |-> p, depth |-> node[p].depth, own |-> 0]
    BY <1>1, <2>1
  <2>3. QED
    BY <2>1, <2>2
<1>6. TreeTypes'
  BY <1>1, <1>2, <1>4 DEF TreeTypes
<1>7. ASSUME NEW q \in Spawns PROVE Awaited(q)'
  <2>1. CASE q \in b
    BY <1>1, <1>2, <1>5, <2>1 DEF Awaited
  <2>2. CASE q \notin b
    <3>1. Awaited(q) /\ node'[q] = node[q] /\ node[q].parent \in U!Runs
      <4>1. Awaited(q) /\ q \in U!Runs
        BY <1>1
      <4>2. node[q] \in NodeRow
        BY <1>1, <4>1
      <4>3. node'[q] = node[q]
        BY <1>5, <2>2, <4>1
      <4>4. node[q].parent \in U!Runs
        BY <4>2 DEF NodeRow
      <4>5. QED
        BY <4>1, <4>3, <4>4
    <3>2. node[q].phase \in Active => node'[node[q].parent] = node[node[q].parent]
      BY <1>2, <1>5, <3>1 DEF Awaited
    <3>3. QED
      BY <1>2, <3>1, <3>2 DEF Awaited, Active
  <2>3. QED
    BY <2>1, <2>2
<1>8. Uncounted' = Uncounted /\ Admitted' = Admitted /\ SlotHolders' = SlotHolders
  BY <1>1, <1>2, <1>5 DEF Uncounted, Admitted, SlotHolders, Waiting
<1>9. QED
  BY <1>1, <1>2, <1>6, <1>7, <1>8 DEF TreeInv

\* The root goes on, or ends when no child of it is under way.
LEMMA RootMoves ==
  ASSUME TreeInv, NEW w \in NodeRow, node' = [node EXCEPT ![Root] = w], w.depth = node[Root].depth,
         w.phase = node[Root].phase \/ ~U!InBatch(Root),
         scope' \in Nat, reported' \in Nat, UNCHANGED <<budget, slots, spawned, stopped>>
  PROVE  TreeInv'
<1>1. /\ TreeTypes /\ node \in [U!Runs -> NodeRow] /\ Root \in U!Runs /\ Root \notin Spawns /\ Spawns \subseteq U!Runs
      /\ slots = SlotHolders
  BY SpawnAssumption DEF TreeInv, TreeTypes, U!Runs
<1>2. /\ node' \in [U!Runs -> NodeRow] /\ node'[Root] = w /\ \A r \in U!Runs : r # Root => node'[r] = node[r]
      /\ \A s \in Spawns : node'[s] = node[s]
  BY <1>1
<1>3. TreeTypes'
  BY <1>1, <1>2 DEF TreeTypes
<1>4. ASSUME NEW q \in Spawns PROVE Awaited(q)'
  <2>1. Awaited(q) /\ node'[q] = node[q] /\ node[q] \in NodeRow
    BY <1>1, <1>2 DEF TreeInv
  <2>2. node[q].parent \in U!Runs
    BY <2>1 DEF NodeRow
  <2>3. CASE node[q].phase \notin Active
    BY <2>1, <2>3 DEF Awaited, Active
  <2>4. CASE node[q].phase \in Active /\ node[q].parent # Root
    <3>1. node'[node[q].parent] = node[node[q].parent]
      BY <1>2, <2>2, <2>4
    <3>2. QED
      BY <2>1, <3>1 DEF Awaited
  <2>5. CASE node[q].phase \in Active /\ node[q].parent = Root
    <3>1. U!InBatch(Root)
      BY <2>5 DEF U!InBatch, U!Children, U!Returned, Active
    <3>2. node'[node[q].parent].phase = node[node[q].parent].phase /\ node'[node[q].parent].depth = node[node[q].parent].depth
      BY <1>2, <2>5, <3>1
    <3>3. QED
      BY <2>1, <3>2 DEF Awaited
  <2>6. QED
    BY <2>3, <2>4, <2>5
<1>5. Uncounted' = Uncounted /\ Admitted' = Admitted /\ SlotHolders' = SlotHolders
  BY <1>2 DEF Uncounted, Admitted, SlotHolders
<1>6. QED
  BY <1>1, <1>3, <1>4, <1>5 DEF TreeInv

\* A spawn is refused: the model that called it reads the error, no slot is kept.
LEMMA SpawnRefused ==
  ASSUME TreeInv, NEW s \in Spawns, U!Refused(s), node[s].phase \in {"called", "queued", "counted"},
         slots' = slots \ {s}, UNCHANGED <<scope, reported, stopped, budget>>,
         NEW n \in {0, 1}, spawned' = spawned + n
  PROVE  TreeInv'
<1> DEFINE w == [node[s] EXCEPT !.phase = "error"]
<1>1. /\ node \in [U!Runs -> NodeRow] /\ s \in U!Runs /\ node[s] \in NodeRow /\ TreeTypes
      /\ slots = SlotHolders /\ slots \in SUBSET Spawns /\ Cardinality(slots) <= budget.concurrent
  BY DEF TreeInv, TreeTypes, U!Runs
<1>2. /\ w \in NodeRow /\ w.parent = node[s].parent /\ w.phase = "error" /\ node' = [node EXCEPT ![s] = w]
  BY <1>1 DEF U!Refused, NodeRow
<1> HIDE DEF w
<1>3. \A q \in Spawns : node'[q] = IF q = s THEN w ELSE node[q]
  BY <1>1, <1>2 DEF U!Runs
<1>4. slots' = SlotHolders'
  BY <1>1, <1>2, <1>3 DEF SlotHolders
<1>5. Cardinality(slots') <= budget.concurrent
  <2>1. /\ Cardinality(slots) \in Nat /\ Cardinality(slots \ {s}) \in Nat
        /\ Cardinality(slots) = Cardinality(slots \ {s}) + (IF s \in slots THEN 1 ELSE 0)
    BY <1>1, CountOne, SpawnAssumption
  <2>2. budget.concurrent \in Nat
    BY TreeCounts
  <2>3. Cardinality(slots \ {s}) <= budget.concurrent
    BY <1>1, <2>1, <2>2
  <2>4. QED
    BY <2>3
<1>6. scope' \in Nat /\ reported' \in Nat /\ stopped' \in BOOLEAN
  BY <1>1 DEF TreeTypes
<1>7. node[s].phase \in Active /\ node[s].phase \in Waiting /\ node[s].phase # "looping"
  BY DEF Active, Waiting
<1>8. w.phase \notin Waiting /\ w.phase \notin Active /\ w.phase \notin {"looping", "done"} /\ w.phase # "idle"
  BY <1>2 DEF Active, Waiting
<1>9. QED
  BY <1>2, <1>4, <1>5, <1>6, <1>7, <1>8, SpawnMoves

\* What the proofs of the actions need of the state they start in.
LEMMA TreeFacts ==
  ASSUME TreeInv, NEW s \in Spawns
  PROVE  /\ node \in [U!Runs -> NodeRow] /\ s \in U!Runs /\ node[s] \in NodeRow /\ Spawns \subseteq U!Runs
         /\ scope \in Nat /\ reported \in Nat /\ stopped \in BOOLEAN /\ spawned \in Nat
         /\ slots = SlotHolders /\ slots \in SUBSET Spawns /\ Cardinality(slots) <= budget.concurrent
         /\ Awaited(s) /\ node[s].depth \in Nat /\ node[s].parent \in U!Runs
         /\ (s \in slots <=> node[s].phase \in {"counted", "looping"})
<1>1. /\ node \in [U!Runs -> NodeRow] /\ s \in U!Runs /\ node[s] \in NodeRow /\ Spawns \subseteq U!Runs
      /\ scope \in Nat /\ reported \in Nat /\ stopped \in BOOLEAN /\ spawned \in Nat
      /\ slots = SlotHolders /\ slots \in SUBSET Spawns /\ Cardinality(slots) <= budget.concurrent
      /\ Awaited(s)
  BY DEF TreeInv, TreeTypes, U!Runs
<1>2. s \in slots <=> node[s].phase \in {"counted", "looping"}
  BY <1>1 DEF SlotHolders
<1>3. QED
  BY <1>1, <1>2 DEF NodeRow

LEMMA ResolveKeeps ==
  ASSUME TreeInv, NEW s \in Spawns, U!Resolve(s)
  PROVE  TreeInv'
<1>1. /\ node \in [U!Runs -> NodeRow] /\ s \in U!Runs /\ node[s] \in NodeRow /\ Spawns \subseteq U!Runs
      /\ scope \in Nat /\ reported \in Nat /\ stopped \in BOOLEAN /\ spawned \in Nat
      /\ slots = SlotHolders /\ Cardinality(slots) <= budget.concurrent
      /\ Awaited(s) /\ node[s].depth \in Nat /\ node[s].parent \in U!Runs
      /\ (s \in slots <=> node[s].phase \in {"counted", "looping"})
  BY TreeFacts
<1>2. node[s].phase = "called" /\ UNCHANGED <<slots, spawned, scope, reported, stopped, budget>>
  BY DEF U!Resolve
<1>3. CASE U!Refused(s)
  <2>1. slots' = slots \ {s} /\ spawned' = spawned + 0
    BY <1>1, <1>2
  <2>2. QED
    BY <1>2, <1>3, <2>1, SpawnRefused
<1>4. CASE ~U!DepthLimit(s) /\ node' = [node EXCEPT ![s].phase = "queued", ![s].depth = @ + 1]
  <2> DEFINE w == [node[s] EXCEPT !.phase = "queued", !.depth = @ + 1]
  <2>1. /\ w \in NodeRow /\ w.parent = node[s].parent /\ w.phase = "queued" /\ w.depth = node[s].depth + 1
        /\ node' = [node EXCEPT ![s] = w]
    BY <1>1, <1>4 DEF NodeRow
  <2> HIDE DEF w
  <2>2. \A q \in U!Runs : node'[q] = IF q = s THEN w ELSE node[q]
    BY <1>1, <2>1
  <2>3. slots' = SlotHolders' /\ Cardinality(slots') <= budget.concurrent
    BY <1>1, <1>2, <2>1, <2>2 DEF SlotHolders
  <2>4. Awaited(s)'
    <3>1. node[s].parent # s /\ node[node[s].parent].phase = "looping" /\ node[s].depth = node[node[s].parent].depth
      BY <1>1, <1>2 DEF Awaited, Active
    <3>2. node'[s] = w /\ node'[node[s].parent] = node[node[s].parent]
      BY <1>1, <2>2, <3>1
    <3>3. budget.depth \in Nat /\ node[s].depth < budget.depth
      BY <1>1, <1>4, TreeCounts DEF U!DepthLimit
    <3>4. w.depth <= budget'.depth
      BY <1>1, <1>2, <2>1, <3>3
    <3>5. QED
      BY <2>1, <3>1, <3>2, <3>4 DEF Awaited
  <2>5. /\ node[s].phase \in Active /\ node[s].phase \in Waiting /\ node[s].phase # "looping"
        /\ w.phase \notin {"looping", "done", "idle"}
    BY <1>2, <2>1 DEF Active, Waiting
  <2>6. PICK n \in {0, 1} : n = 0 /\ spawned' = spawned + n
    BY <1>1, <1>2
  <2>7. scope' \in Nat /\ reported' \in Nat /\ stopped' \in BOOLEAN /\ budget' = budget
    BY <1>1, <1>2
  <2>8. n # 1 /\ node[s].phase \notin {"looping", "counted"} /\ w.phase # "looping"
    BY <1>2, <2>5, <2>6
  <2>9. QED
    BY <2>1, <2>3, <2>4, <2>5, <2>6, <2>7, <2>8, SpawnMoves
<1>5. QED
  BY <1>3, <1>4 DEF U!Resolve

LEMMA QueueKeeps ==
  ASSUME TreeInv, NEW s \in Spawns, U!Queue(s)
  PROVE  TreeInv'
<1>1. /\ node \in [U!Runs -> NodeRow] /\ s \in U!Runs /\ node[s] \in NodeRow /\ Spawns \subseteq U!Runs
      /\ scope \in Nat /\ reported \in Nat /\ stopped \in BOOLEAN /\ spawned \in Nat
      /\ slots = SlotHolders /\ slots \in SUBSET Spawns /\ Cardinality(slots) <= budget.concurrent
      /\ Awaited(s) /\ node[s].depth \in Nat /\ node[s].parent \in U!Runs
      /\ (s \in slots <=> node[s].phase \in {"counted", "looping"})
  BY TreeFacts
<1>2. node[s].phase = "queued" /\ UNCHANGED <<spawned, scope, reported, stopped, budget>>
  BY DEF U!Queue
<1>3. CASE U!Refused(s) /\ UNCHANGED slots
  <2>1. slots' = slots \ {s} /\ spawned' = spawned + 0
    BY <1>1, <1>2, <1>3
  <2>2. QED
    BY <1>2, <1>3, <2>1, SpawnRefused
<1>4. CASE U!HasSlot /\ U!Acquire(s)
  <2> DEFINE w == [node[s] EXCEPT !.phase = "counted"]
  <2>1. /\ w \in NodeRow /\ w.parent = node[s].parent /\ w.phase = "counted" /\ w.depth = node[s].depth
        /\ node' = [node EXCEPT ![s] = w] /\ slots' = slots \cup {s}
    BY <1>1, <1>4 DEF NodeRow, U!Acquire
  <2> HIDE DEF w
  <2>2. \A q \in U!Runs : node'[q] = IF q = s THEN w ELSE node[q]
    BY <1>1, <2>1
  <2>3. slots' = SlotHolders'
    BY <1>1, <2>1, <2>2 DEF SlotHolders
  <2>4. Cardinality(slots') <= budget.concurrent
    <3>1. (slots \cup {s}) \ {s} = slots /\ slots \cup {s} \in SUBSET Spawns /\ s \in slots \cup {s}
      BY <1>1, <1>2
    <3>2. Cardinality(slots \cup {s}) = Cardinality(slots) + 1
      BY <3>1, CountOne, SpawnAssumption
    <3>3. Cardinality(slots) < budget.concurrent /\ Cardinality(slots) \in Nat /\ budget.concurrent \in Nat
      <4>1. U!Cardinality(slots) = Cardinality(slots)
        BY Zenon DEF U!Cardinality, Cardinality
      <4>2. QED
        BY <1>4, <4>1, TreeCounts DEF U!HasSlot
    <3>4. Cardinality(slots \cup {s}) <= budget.concurrent
      BY <3>2, <3>3
    <3>5. QED
      BY <2>1, <3>4
  <2>5. Awaited(s)'
    <3>1. node[s].parent # s /\ node[node[s].parent].phase = "looping" /\ node[s].depth <= budget.depth
          /\ node[s].depth = node[node[s].parent].depth + 1
      BY <1>1, <1>2 DEF Awaited, Active
    <3>2. node'[s] = w /\ node'[node[s].parent] = node[node[s].parent]
      BY <1>1, <2>2, <3>1
    <3>3. QED
      BY <1>2, <2>1, <3>1, <3>2 DEF Awaited
  <2>6. /\ node[s].phase \in Active /\ node[s].phase \in Waiting /\ node[s].phase # "looping"
        /\ w.phase \notin {"looping", "done", "idle"}
    BY <1>2, <2>1 DEF Active, Waiting
  <2>7. PICK n \in {0, 1} : n = 0 /\ spawned' = spawned + n
    BY <1>1, <1>2
  <2>8. scope' \in Nat /\ reported' \in Nat /\ stopped' \in BOOLEAN /\ budget' = budget
    BY <1>1, <1>2
  <2>9. n # 1 /\ node[s].phase \notin {"looping", "counted"} /\ w.phase # "looping"
    BY <1>2, <2>6, <2>7
  <2>10. QED
    BY <2>1, <2>3, <2>4, <2>5, <2>6, <2>7, <2>8, <2>9, SpawnMoves
<1>5. QED
  BY <1>3, <1>4 DEF U!Queue

LEMMA CountSpawnKeeps ==
  ASSUME TreeInv, NEW s \in Spawns, U!CountSpawn(s)
  PROVE  TreeInv'
<1>1. /\ node \in [U!Runs -> NodeRow] /\ s \in U!Runs /\ node[s] \in NodeRow /\ Spawns \subseteq U!Runs
      /\ scope \in Nat /\ reported \in Nat /\ stopped \in BOOLEAN /\ spawned \in Nat
      /\ slots = SlotHolders /\ slots \in SUBSET Spawns /\ Cardinality(slots) <= budget.concurrent
      /\ Awaited(s) /\ node[s].depth \in Nat /\ node[s].parent \in U!Runs
      /\ (s \in slots <=> node[s].phase \in {"counted", "looping"})
  BY TreeFacts
<1>2. /\ node[s].phase = "counted" /\ spawned' = spawned + 1 /\ UNCHANGED <<scope, reported, stopped, budget>>
  BY DEF U!CountSpawn
<1>3. CASE U!Refused(s) /\ slots' = slots \ {s}
  BY <1>2, <1>3, SpawnRefused
<1>4. CASE spawned' <= budget.total /\ node' = [node EXCEPT ![s].phase = "looping"] /\ UNCHANGED slots
  <2> DEFINE w == [node[s] EXCEPT !.phase = "looping"]
  <2>1. /\ w \in NodeRow /\ w.parent = node[s].parent /\ w.phase = "looping" /\ w.depth = node[s].depth
        /\ node' = [node EXCEPT ![s] = w]
    BY <1>1, <1>4 DEF NodeRow
  <2> HIDE DEF w
  <2>2. \A q \in U!Runs : node'[q] = IF q = s THEN w ELSE node[q]
    BY <1>1, <2>1
  <2>3. slots' = SlotHolders' /\ Cardinality(slots') <= budget.concurrent
    BY <1>1, <1>2, <1>4, <2>1, <2>2 DEF SlotHolders
  <2>4. Awaited(s)'
    <3>1. node[s].parent # s /\ node[node[s].parent].phase = "looping" /\ node[s].depth <= budget.depth
          /\ node[s].depth = node[node[s].parent].depth + 1
      BY <1>1, <1>2 DEF Awaited, Active
    <3>2. node'[s] = w /\ node'[node[s].parent] = node[node[s].parent]
      BY <1>1, <2>2, <3>1
    <3>3. QED
      BY <1>2, <2>1, <3>1, <3>2 DEF Awaited
  <2>5. /\ node[s].phase \in Active /\ node[s].phase \in Waiting /\ node[s].phase # "looping"
        /\ w.phase \notin Waiting /\ w.phase # "idle"
    BY <1>2, <2>1 DEF Active, Waiting
  <2>6. PICK n \in {0, 1} : n = 1 /\ spawned' = spawned + n
    BY <1>2
  <2>7. scope' \in Nat /\ reported' \in Nat /\ stopped' \in BOOLEAN /\ budget' = budget
    BY <1>1, <1>2
  <2>8. QED
    BY <1>2, <1>4, <2>1, <2>3, <2>4, <2>5, <2>6, <2>7, SpawnMoves
<1>5. QED
  BY <1>2, <1>3, <1>4 DEF U!CountSpawn

LEMMA ChildEndsKeeps ==
  ASSUME TreeInv, NEW s \in Spawns, U!ChildEnds(s)
  PROVE  TreeInv'
<1>1. /\ node \in [U!Runs -> NodeRow] /\ s \in U!Runs /\ node[s] \in NodeRow /\ Spawns \subseteq U!Runs
      /\ scope \in Nat /\ reported \in Nat /\ stopped \in BOOLEAN /\ spawned \in Nat
      /\ slots = SlotHolders /\ slots \in SUBSET Spawns /\ Cardinality(slots) <= budget.concurrent
      /\ Awaited(s) /\ node[s].depth \in Nat /\ node[s].parent \in U!Runs
      /\ (s \in slots <=> node[s].phase \in {"counted", "looping"})
  BY TreeFacts
<1>2. /\ node[s].phase = "looping" /\ ~U!InBatch(s) /\ slots' = slots \ {s}
      /\ node' = [node EXCEPT ![s].phase = IF stopped THEN "error" ELSE "done"]
      /\ scope' = scope + (node[s].own + scope) /\ UNCHANGED <<spawned, reported, stopped, budget>>
  BY DEF U!ChildEnds, U!TerminalUsage
<1> DEFINE w == [node[s] EXCEPT !.phase = IF stopped THEN "error" ELSE "done"]
<1>3. /\ w \in NodeRow /\ w.parent = node[s].parent /\ w.phase \in {"error", "done"} /\ node' = [node EXCEPT ![s] = w]
  BY <1>1, <1>2 DEF NodeRow
<1> HIDE DEF w
<1>4. \A q \in U!Runs : node'[q] = IF q = s THEN w ELSE node[q]
  BY <1>1, <1>3
<1>5. slots' = SlotHolders'
  BY <1>1, <1>2, <1>3, <1>4 DEF SlotHolders
<1>6. Cardinality(slots') <= budget.concurrent
  <2>1. /\ Cardinality(slots) \in Nat /\ Cardinality(slots \ {s}) \in Nat
        /\ Cardinality(slots) = Cardinality(slots \ {s}) + (IF s \in slots THEN 1 ELSE 0)
    BY <1>1, CountOne, SpawnAssumption
  <2>2. budget.concurrent \in Nat
    BY TreeCounts
  <2>3. Cardinality(slots \ {s}) <= budget.concurrent
    BY <1>1, <2>1, <2>2
  <2>4. QED
    BY <1>2, <2>3
<1>7. /\ node[s].phase \in Active /\ w.phase \notin Active /\ w.phase \notin Waiting /\ w.phase \notin {"idle", "looping"}
  BY <1>2, <1>3 DEF Active, Waiting
<1>8. PICK n \in {0, 1} : n = 0 /\ spawned' = spawned + n
  BY <1>1, <1>2
<1>9. scope' \in Nat /\ reported' \in Nat /\ stopped' \in BOOLEAN /\ budget' = budget
  BY <1>1, <1>2 DEF NodeRow
<1>10. n # 1 /\ node[s].phase \in {"looping", "done"}
  BY <1>2, <1>8
<1>11. QED
  BY <1>2, <1>3, <1>5, <1>6, <1>7, <1>8, <1>9, <1>10, SpawnMoves

LEMMA ModelCallKeeps ==
  ASSUME TreeInv, NEW s \in U!Runs, U!ModelCall(s)
  PROVE  TreeInv'
<1> DEFINE w == [node[s] EXCEPT !.own = 1]
<1>1. /\ node \in [U!Runs -> NodeRow] /\ node[s] \in NodeRow /\ Spawns \subseteq U!Runs
      /\ node[s].phase = "looping" /\ ~U!InBatch(s) /\ node' = [node EXCEPT ![s].own = 1]
      /\ UNCHANGED <<slots, spawned, scope, reported, stopped, budget>> /\ TreeTypes
  BY DEF U!ModelCall, TreeInv, TreeTypes, U!Runs
<1>2. /\ w \in NodeRow /\ w.parent = node[s].parent /\ w.phase = "looping" /\ w.depth = node[s].depth
      /\ node' = [node EXCEPT ![s] = w]
  BY <1>1 DEF NodeRow
<1> HIDE DEF w
<1>3. \A q \in U!Runs : node'[q] = IF q = s THEN w ELSE node[q]
  BY <1>1, <1>2
<1>4. scope' \in Nat /\ reported' \in Nat /\ stopped' \in BOOLEAN /\ budget' = budget
  BY <1>1 DEF TreeTypes
<1>5. CASE s = Root
  BY <1>1, <1>2, <1>4, <1>5, RootMoves
<1>6. CASE s \in Spawns
  <2>1. /\ slots = SlotHolders /\ Cardinality(slots) <= budget.concurrent /\ spawned \in Nat
        /\ Awaited(s) /\ node[s].parent \in U!Runs
    BY <1>6, TreeFacts
  <2>2. slots' = SlotHolders' /\ Cardinality(slots') <= budget.concurrent
    BY <1>1, <1>2, <1>3, <2>1 DEF SlotHolders
  <2>3. Awaited(s)'
    <3>1. node[s].parent # s /\ node[node[s].parent].phase = "looping" /\ node[s].depth <= budget.depth
          /\ node[s].depth = node[node[s].parent].depth + 1
      BY <1>1, <2>1 DEF Awaited, Active
    <3>2. node'[s] = w /\ node'[node[s].parent] = node[node[s].parent]
      BY <1>3, <2>1, <3>1
    <3>3. QED
      BY <1>1, <1>2, <3>1, <3>2 DEF Awaited
  <2>4. node[s].phase \in Active /\ w.phase \notin Waiting
    BY <1>1, <1>2 DEF Active, Waiting
  <2>5. PICK n \in {0, 1} : n = 0 /\ spawned' = spawned + n
    BY <1>1, <2>1
  <2>6. n # 1 /\ node[s].phase \in {"looping", "done"} /\ w.phase # "idle"
    BY <1>1, <1>2, <2>5
  <2>7. QED
    BY <1>1, <1>2, <1>4, <1>6, <2>2, <2>3, <2>4, <2>5, <2>6, SpawnMoves
<1>7. QED
  BY <1>5, <1>6 DEF U!Runs

\* Every step of the tree keeps its invariant.
LEMMA TreeStep ==
  ASSUME TreeInv, [U!SubNext]_subVars
  PROVE  TreeInv'
<1>1. CASE UNCHANGED subVars
  <2>1. UNCHANGED <<budget, node, slots, spawned, scope, reported, stopped>>
    BY <1>1 DEF subVars
  <2>2. QED
    BY <2>1 DEF TreeInv, TreeTypes, Awaited, Uncounted, Admitted, SlotHolders
<1>2. CASE U!CancelTree
  <2>1. UNCHANGED <<budget, node, slots, spawned, scope, reported>> /\ stopped' \in BOOLEAN
    BY <1>2 DEF U!CancelTree
  <2>2. QED
    BY <2>1 DEF TreeInv, TreeTypes, Awaited, Uncounted, Admitted, SlotHolders
<1>3. CASE U!RootEnds
  <2> DEFINE w == [node[Root] EXCEPT !.phase = IF stopped THEN "error" ELSE "done"]
  <2>1. /\ node \in [U!Runs -> NodeRow] /\ Root \in U!Runs /\ node[Root] \in NodeRow /\ scope \in Nat
    BY DEF TreeInv, TreeTypes, U!Runs
  <2>2. /\ ~U!InBatch(Root) /\ node' = [node EXCEPT ![Root].phase = IF stopped THEN "error" ELSE "done"]
        /\ reported' = node[Root].own + scope /\ UNCHANGED <<slots, spawned, scope, stopped, budget>>
    BY <1>3 DEF U!RootEnds, U!TerminalUsage
  <2>3. w \in NodeRow /\ w.depth = node[Root].depth /\ node' = [node EXCEPT ![Root] = w]
    BY <2>1, <2>2 DEF NodeRow
  <2>4. scope' \in Nat /\ reported' \in Nat
    BY <2>1, <2>2 DEF NodeRow
  <2> HIDE DEF w
  <2>5. QED
    BY <2>2, <2>3, <2>4, RootMoves
<1>4. QED
  BY <1>1, <1>2, <1>3, BatchCalled, ResolveKeeps, QueueKeeps, CountSpawnKeeps, ChildEndsKeeps, ModelCallKeeps
     DEF U!SubNext, U!SubStep

\* The slots are free once the root has ended: the holder of least depth would have
\* a parent that loops, which is then the root.
LEMMA SlotsFreed ==
  ASSUME TreeInv, U!Returned(Root)
  PROVE  slots = {}
<1>1. SUFFICES ASSUME slots # {} PROVE FALSE
  OBVIOUS
<1> DEFINE D == {k \in Nat : \E s \in slots : node[s].depth = k}
<1>2. \A s \in slots : s \in Spawns /\ node[s].depth \in Nat /\ node[s].phase \in {"counted", "looping"}
                      /\ node[s].parent \in U!Runs /\ Awaited(s)
  <2>1. TAKE s \in slots
  <2>2. s \in Spawns
    BY DEF TreeInv, TreeTypes
  <2>3. QED
    BY <2>2, TreeFacts
<1>3. D \in SUBSET Nat /\ D # {}
  BY <1>1, <1>2
<1>4. PICK m \in D : \A k \in D : m <= k
  BY <1>3, LeastOf
<1>5. PICK s \in slots : node[s].depth = m
  OBVIOUS
<1>6. /\ node[s].phase \in Active /\ node[node[s].parent].phase = "looping"
      /\ node[s].depth = node[node[s].parent].depth + 1
  BY <1>2, <1>5 DEF Awaited, Active
<1>7. CASE node[s].parent = Root
  BY <1>6, <1>7 DEF U!Returned
<1>8. CASE node[s].parent \in Spawns
  <2>1. node[s].parent \in slots
    BY <1>6, <1>8, TreeFacts
  <2>2. node[node[s].parent].depth \in D /\ node[node[s].parent].depth \in Nat
    BY <1>2, <2>1
  <2>3. m <= node[node[s].parent].depth /\ m = node[node[s].parent].depth + 1
    BY <1>4, <1>5, <1>6, <2>2
  <2>4. QED
    BY <2>2, <2>3
<1>9. QED
  BY <1>2, <1>5, <1>7, <1>8 DEF U!Runs

\* What the invariant says of the fan-out.
LEMMA TreeFollows ==
  ASSUME TreeInv
  PROVE  U!SubTypeOK /\ U!FanOutBounded
<1>1. \A X : U!Cardinality(X) = Cardinality(X)
  BY Zenon DEF U!Cardinality, Cardinality
<1>2. /\ node \in [U!Runs -> NodeRow] /\ Spawns \subseteq U!Runs /\ slots = SlotHolders /\ slots \in SUBSET Spawns
      /\ spawned \in Nat /\ spawned + Cardinality(Uncounted) <= Cardinality(Spawns)
      /\ scope \in Nat /\ reported \in Nat /\ stopped \in BOOLEAN
      /\ Cardinality(slots) <= budget.concurrent /\ Cardinality(Admitted) <= budget.total
      /\ \A s \in Spawns : Awaited(s)
  BY DEF TreeInv, TreeTypes, U!Runs
<1>3. /\ Cardinality(Spawns) \in Nat /\ Cardinality(Uncounted) \in Nat /\ Cardinality(Admitted) \in Nat
      /\ budget.total \in Nat
  BY TreeCounts
<1>4. U!SubTypeOK
  <2>1. spawned \in 0..U!Cardinality(Spawns)
    <3>1. spawned \in 0..Cardinality(Spawns)
      BY <1>2, <1>3
    <3>2. U!Cardinality(Spawns) = Cardinality(Spawns)
      BY <1>1
    <3>3. QED
      BY <3>1, <3>2
  <2>2. \A r \in U!Runs : node[r] \in NodeRow
    BY <1>2
  <2>3. QED
    BY <1>2, <2>1, <2>2 DEF U!SubTypeOK, NodeRow
<1>5. U!FanOutBounded
  <2>1. U!LoopingChildren \subseteq slots
    BY <1>2 DEF U!LoopingChildren, SlotHolders
  <2>2. U!Cardinality(slots) <= budget.concurrent
    BY <1>1, <1>2
  <2> DEFINE E == {s \in Spawns : node[s].depth > 0 /\ node[s].phase \in {"looping", "done"}}
  <2>3. U!Cardinality(E) <= budget.total
    <3>1. E \subseteq Admitted /\ Admitted \subseteq Spawns
      BY DEF Admitted
    <3>2. IsFiniteSet(Admitted)
      BY <3>1, FS_Subset, SpawnAssumption
    <3>3. Cardinality(E) <= Cardinality(Admitted) /\ IsFiniteSet(E)
      BY <3>1, <3>2, FS_Subset
    <3>4. Cardinality(E) \in Nat
      BY <3>3, FS_CardinalityType
    <3>5. Cardinality(E) <= budget.total
      BY <1>2, <1>3, <3>3, <3>4
    <3>6. QED
      BY <1>1, <3>5
  <2>4. \A s \in U!LoopingChildren : node[s].depth <= budget.depth /\ node[s].parent # s
    BY <1>2 DEF U!LoopingChildren, Awaited
  <2>5. U!Returned(Root) => slots = {}
    BY SlotsFreed
  <2>6. QED
    BY <2>1, <2>2, <2>3, <2>4, <2>5 DEF U!FanOutBounded
<1>6. QED
  BY <1>4, <1>5

-----------------------------------------------------------------------------
(* The loop: what a path still has to say.                                 *)

Frame(kind, detached) == [kind |-> kind, detached |-> detached]
FramesAs(kinds, detached) == [i \in DOMAIN kinds |-> Frame(kinds[i], detached)]

\* The frames of a path, written out.
LEMMA FramesOf ==
  ASSUME NEW d, NEW a, NEW b, NEW c
  PROVE  /\ FramesAs(<<a>>, d) = <<Frame(a, d)>>
         /\ FramesAs(<<a, b>>, d) = <<Frame(a, d), Frame(b, d)>>
         /\ FramesAs(<<a, b, c>>, d) = <<Frame(a, d), Frame(b, d), Frame(c, d)>>
<1>1. ASSUME NEW k, NEW t, k \in Seq({a, b, c}), t \in Seq({Frame(a, d), Frame(b, d), Frame(c, d)}), Len(k) = Len(t),
             \A i \in 1..Len(k) : t[i] = Frame(k[i], d)
      PROVE  FramesAs(k, d) = t
  <2> DEFINE s == FramesAs(k, d)
  <2>1. DOMAIN k = 1..Len(k) /\ DOMAIN t = 1..Len(k) /\ t = [i \in DOMAIN t |-> t[i]]
    BY <1>1
  <2>2. \A i \in 1..Len(k) : Frame(k[i], d) = t[i]
    BY <1>1
  <2>3. QED
    BY <2>1, <2>2, Zenon DEF FramesAs
<1>2. <<a>> \in Seq({a, b, c}) /\ <<Frame(a, d)>> \in Seq({Frame(a, d), Frame(b, d), Frame(c, d)})
  OBVIOUS
<1>3. <<a, b>> \in Seq({a, b, c}) /\ <<Frame(a, d), Frame(b, d)>> \in Seq({Frame(a, d), Frame(b, d), Frame(c, d)})
  OBVIOUS
<1>4. <<a, b, c>> \in Seq({a, b, c}) /\ <<Frame(a, d), Frame(b, d), Frame(c, d)>> \in Seq({Frame(a, d), Frame(b, d), Frame(c, d)})
  OBVIOUS
<1>5. FramesAs(<<a>>, d) = <<Frame(a, d)>>
  <2>1. Len(<<a>>) = Len(<<Frame(a, d)>>) /\ \A i \in 1..Len(<<a>>) : <<Frame(a, d)>>[i] = Frame(<<a>>[i], d)
    OBVIOUS
  <2>2. QED
    BY <1>1, <1>2, <2>1
<1>6. FramesAs(<<a, b>>, d) = <<Frame(a, d), Frame(b, d)>>
  <2>1. /\ Len(<<a, b>>) = Len(<<Frame(a, d), Frame(b, d)>>)
        /\ \A i \in 1..Len(<<a, b>>) : <<Frame(a, d), Frame(b, d)>>[i] = Frame(<<a, b>>[i], d)
    OBVIOUS
  <2>2. QED
    BY <1>1, <1>3, <2>1
<1>7. FramesAs(<<a, b, c>>, d) = <<Frame(a, d), Frame(b, d), Frame(c, d)>>
  <2>1. /\ Len(<<a, b, c>>) = Len(<<Frame(a, d), Frame(b, d), Frame(c, d)>>)
        /\ \A i \in 1..Len(<<a, b, c>>) : <<Frame(a, d), Frame(b, d), Frame(c, d)>>[i] = Frame(<<a, b, c>>[i], d)
    OBVIOUS
  <2>2. QED
    BY <1>1, <1>4, <2>1
<1>8. QED
  BY <1>5, <1>6, <1>7

LEMMA LiveFrames ==
  ASSUME NEW a, NEW b, NEW c
  PROVE  /\ L!Live(<<a>>) = <<Frame(a, FALSE)>> /\ L!Live(<<a, b>>) = <<Frame(a, FALSE), Frame(b, FALSE)>>
         /\ L!Live(<<a, b, c>>) = <<Frame(a, FALSE), Frame(b, FALSE), Frame(c, FALSE)>>
         /\ L!Detached(<<a, b>>) = <<Frame(a, TRUE), Frame(b, TRUE)>>
         /\ L!Detached(<<a, b, c>>) = <<Frame(a, TRUE), Frame(b, TRUE), Frame(c, TRUE)>>
<1>1. \A k : L!Live(k) = FramesAs(k, FALSE) /\ L!Detached(k) = FramesAs(k, TRUE)
  BY Zenon DEF L!Live, L!Detached, Frame, FramesAs
<1>2. QED
  BY <1>1, FramesOf

LEMMA Tuples ==
  ASSUME NEW a, NEW b, NEW c
  PROVE  /\ Head(<<a>>) = a /\ Tail(<<a>>) = <<>> /\ <<a>> # <<>>
         /\ Head(<<a, b>>) = a /\ Tail(<<a, b>>) = <<b>> /\ <<a, b>> # <<>>
         /\ Head(<<a, b, c>>) = a /\ Tail(<<a, b, c>>) = <<b, c>> /\ <<a, b, c>> # <<>>
<1>1. Head(<<a>>) = a /\ Tail(<<a>>) = <<>> /\ <<a>> # <<>>
  OBVIOUS
<1>2. Head(<<a, b>>) = a /\ Tail(<<a, b>>) = <<b>> /\ <<a, b>> # <<>>
  OBVIOUS
<1>3. Head(<<a, b, c>>) = a /\ Tail(<<a, b, c>>) = <<b, c>> /\ <<a, b, c>> # <<>>
  OBVIOUS
<1>4. QED
  BY <1>1, <1>2, <1>3

EndKind == IF outcome = "failed" THEN "error" ELSE outcome
ClosingFrame(kind) == Frame(kind, outcome = "cancelled")
Announced == outcome = "cancelled" \/ ~dead

\* Before the end no terminal frame has left; after it the frames leave in their order.
Opening == {<<>>, <<Frame("start", FALSE)>>, <<Frame("finish", FALSE)>>,
            <<Frame("recovery", FALSE), Frame("finish", FALSE)>>}
Closing ==
  \/ todo = <<ClosingFrame("finish"), ClosingFrame("usage"), ClosingFrame(EndKind)>> /\ terminals = <<>>
  \/ /\ todo = <<ClosingFrame("usage"), ClosingFrame(EndKind)>> /\ terminals = <<>>
     /\ ~dead => step = "closed"
  \/ /\ todo = <<ClosingFrame(EndKind)>> /\ terminals = <<>>
     /\ Announced => told = spent
     /\ ~dead => step = "closed"
  \/ /\ todo = <<>>
     /\ Announced => terminals = <<EndKind>> /\ told = spent
     /\ ~dead => step = "closed"

EmissionInv ==
  /\ dead \in BOOLEAN /\ step \in {"open", "closed"} /\ outcome \in {"none", "done", "failed", "cancelled"}
  /\ spent \in Nat /\ told \in 0..spent
  /\ lpc = "end" <=> outcome # "none"
  /\ outcome = "cancelled" => dead
  /\ lpc # "end" => todo \in Opening /\ terminals = <<>>
  /\ lpc = "end" => Closing

\* The ways out start a closing.
LEMMA WaysOut ==
  ASSUME EmissionInv, lpc # "end", UNCHANGED <<dead, step, told, terminals>>, spent' \in Nat, spent' >= spent,
         \/ L!FailRun \/ L!SucceedRun \/ (dead /\ L!CancelRun)
         \/ dead /\ todo' = L!Detached(<<"usage", "cancelled">>) /\ outcome' = "cancelled" /\ lpc' = "end"
  PROVE  EmissionInv'
<1>1. terminals = <<>> /\ dead \in BOOLEAN /\ step \in {"open", "closed"} /\ told \in 0..spent /\ spent \in Nat
  BY DEF EmissionInv
<1>2. told' \in 0..spent'
  BY <1>1
<1>3. CASE L!FailRun
  <2>1. outcome' = "failed" /\ lpc' = "end" /\ todo' = <<Frame("finish", FALSE), Frame("usage", FALSE), Frame("error", FALSE)>>
    BY <1>3, LiveFrames DEF L!FailRun
  <2>2. Closing'
    BY <1>1, <2>1 DEF Closing, ClosingFrame, EndKind
  <2>3. QED
    BY <1>1, <1>2, <2>1, <2>2 DEF EmissionInv
<1>4. CASE L!SucceedRun
  <2>1. outcome' = "done" /\ lpc' = "end" /\ todo' = <<Frame("finish", FALSE), Frame("usage", FALSE), Frame("done", FALSE)>>
    BY <1>4, LiveFrames DEF L!SucceedRun
  <2>2. Closing'
    BY <1>1, <2>1 DEF Closing, ClosingFrame, EndKind
  <2>3. QED
    BY <1>1, <1>2, <2>1, <2>2 DEF EmissionInv
<1>5. CASE dead /\ L!CancelRun
  <2>1. outcome' = "cancelled" /\ lpc' = "end" /\ todo' = <<Frame("finish", TRUE), Frame("usage", TRUE), Frame("cancelled", TRUE)>>
    BY <1>5, LiveFrames DEF L!CancelRun
  <2>2. Closing'
    BY <1>1, <2>1 DEF Closing, ClosingFrame, EndKind
  <2>3. QED
    BY <1>1, <1>2, <1>5, <2>1, <2>2 DEF EmissionInv
<1>6. CASE dead /\ todo' = L!Detached(<<"usage", "cancelled">>) /\ outcome' = "cancelled" /\ lpc' = "end"
  <2>1. todo' = <<Frame("usage", TRUE), Frame("cancelled", TRUE)>>
    BY <1>6, LiveFrames
  <2>2. Closing'
    BY <1>1, <1>6, <2>1 DEF Closing, ClosingFrame, EndKind
  <2>3. QED
    BY <1>1, <1>2, <1>6, <2>1, <2>2 DEF EmissionInv
<1>7. QED
  BY <1>3, <1>4, <1>5, <1>6

\* A frame leaves: each one takes the closing a step further.
LEMMA FrameLeaves ==
  ASSUME EmissionInv, L!EmitNext
  PROVE  EmissionInv'
<1>1. /\ todo # <<>> /\ todo' = Tail(todo) /\ UNCHANGED <<lpc, dead, spent, outcome>>
      /\ LET e == Head(todo) IN
           IF dead /\ ~e.detached THEN UNCHANGED <<step, told, terminals>>
           ELSE /\ step' = CASE e.kind = "start" -> "open" [] e.kind = "finish" -> "closed" [] OTHER -> step
                /\ told' = IF e.kind = "usage" THEN spent ELSE told
                /\ terminals' = IF e.kind \in {"done", "error", "cancelled"} THEN Append(terminals, e.kind) ELSE terminals
  BY DEF L!EmitNext
<1>2. /\ dead \in BOOLEAN /\ step \in {"open", "closed"} /\ outcome \in {"none", "done", "failed", "cancelled"}
      /\ spent \in Nat /\ told \in 0..spent /\ (outcome = "cancelled" => dead)
  BY DEF EmissionInv
<1>3. told' \in 0..spent' /\ step' \in {"open", "closed"}
  BY <1>1, <1>2
<1>4. CASE lpc # "end"
  <2>1. todo \in Opening /\ terminals = <<>>
    BY <1>4 DEF EmissionInv
  <2>2. ASSUME NEW k \in {"start", "finish"}, todo = <<Frame(k, FALSE)>>
        PROVE  todo' \in Opening /\ Head(todo).kind \in {"start", "finish", "recovery"}
    <3>1. Head(todo) = Frame(k, FALSE) /\ todo' = <<>>
      BY <1>1, <2>2, Tuples
    <3>2. QED
      BY <3>1 DEF Opening, Frame
  <2>3. ASSUME todo = <<Frame("recovery", FALSE), Frame("finish", FALSE)>>
        PROVE  todo' \in Opening /\ Head(todo).kind \in {"start", "finish", "recovery"}
    <3>1. Head(todo) = Frame("recovery", FALSE) /\ todo' = <<Frame("finish", FALSE)>>
      BY <1>1, <2>3, Tuples
    <3>2. QED
      BY <3>1 DEF Opening, Frame
  <2>4. todo' \in Opening /\ Head(todo).kind \in {"start", "finish", "recovery"}
    BY <1>1, <2>1, <2>2, <2>3 DEF Opening
  <2>5. terminals' = <<>>
    BY <1>1, <2>1, <2>4
  <2>6. QED
    BY <1>1, <1>2, <1>3, <1>4, <2>4, <2>5 DEF EmissionInv
<1>5. CASE lpc = "end"
  <2>1. Closing /\ outcome \in {"done", "failed", "cancelled"}
    BY <1>2, <1>5 DEF EmissionInv
  <2>2. /\ \A k : ClosingFrame(k).kind = k /\ ClosingFrame(k).detached = (outcome = "cancelled")
        /\ EndKind \in {"done", "error", "cancelled"} /\ EndKind # "usage" /\ EndKind' = EndKind
        /\ \A k : ClosingFrame(k)' = ClosingFrame(k)
    BY <1>1, <2>1 DEF ClosingFrame, Frame, EndKind
  <2>3. Announced' = Announced
    BY <1>1 DEF Announced
  <2>4. CASE todo = <<ClosingFrame("finish"), ClosingFrame("usage"), ClosingFrame(EndKind)>> /\ terminals = <<>>
    <3>1. Head(todo) = ClosingFrame("finish") /\ todo' = <<ClosingFrame("usage"), ClosingFrame(EndKind)>>
      BY <1>1, <2>4, Tuples
    <3>2. terminals' = <<>> /\ (~dead => step' = "closed")
      BY <1>1, <2>2, <2>4, <3>1
    <3>3. Closing'
      BY <1>1, <2>2, <3>1, <3>2 DEF Closing
    <3>4. QED
      BY <1>1, <1>2, <1>3, <1>5, <2>1, <3>3 DEF EmissionInv
  <2>5. CASE todo = <<ClosingFrame("usage"), ClosingFrame(EndKind)>> /\ terminals = <<>> /\ (~dead => step = "closed")
    <3>1. Head(todo) = ClosingFrame("usage") /\ todo' = <<ClosingFrame(EndKind)>>
      BY <1>1, <2>5, Tuples
    <3>2. terminals' = <<>> /\ (~dead => step' = "closed") /\ (Announced => told' = spent)
      BY <1>1, <1>2, <2>2, <2>5, <3>1 DEF Announced
    <3>3. Closing'
      BY <1>1, <2>2, <2>3, <3>1, <3>2 DEF Closing
    <3>4. QED
      BY <1>1, <1>2, <1>3, <1>5, <2>1, <3>3 DEF EmissionInv
  <2>6. CASE /\ todo = <<ClosingFrame(EndKind)>> /\ terminals = <<>> /\ (Announced => told = spent)
             /\ (~dead => step = "closed")
    <3>1. Head(todo) = ClosingFrame(EndKind) /\ todo' = <<>>
      BY <1>1, <2>6, Tuples
    <3>2. Append(<<>>, EndKind) = <<EndKind>>
      OBVIOUS
    <3>3. /\ (Announced => terminals' = <<EndKind>> /\ told' = spent)
          /\ (~dead => step' = "closed")
      BY <1>1, <1>2, <2>2, <2>6, <3>1, <3>2 DEF Announced
    <3>4. Closing'
      BY <1>1, <2>2, <2>3, <3>1, <3>3 DEF Closing
    <3>5. QED
      BY <1>1, <1>2, <1>3, <1>5, <2>1, <3>4 DEF EmissionInv
  <2>7. QED
    BY <1>1, <2>1, <2>4, <2>5, <2>6 DEF Closing
<1>6. QED
  BY <1>4, <1>5

\* A path that goes on says at most what opens or closes a step.
LEMMA GoesOn ==
  ASSUME EmissionInv, lpc # "end", lpc' # "end", todo' \in Opening, UNCHANGED <<step, told, terminals, outcome>>,
         dead' \in BOOLEAN, spent' \in Nat, spent' >= spent
  PROVE  EmissionInv'
<1>1. outcome = "none" /\ terminals = <<>> /\ step \in {"open", "closed"} /\ told \in 0..spent /\ spent \in Nat
  BY DEF EmissionInv
<1>2. told' \in 0..spent'
  BY <1>1
<1>3. QED
  BY <1>1, <1>2 DEF EmissionInv, Opening

\* Every step of the loop keeps what is said of its frames.
LEMMA EmissionStep ==
  ASSUME EmissionInv, [L!LoopNext]_loopVars
  PROVE  EmissionInv'
<1>1. /\ dead \in BOOLEAN /\ spent \in Nat /\ spent >= spent
      /\ lpc # "end" => todo \in Opening
      /\ <<>> \in Opening
  <2>1. <<>> \in Opening
    BY DEF Opening
  <2>2. QED
    BY <2>1 DEF EmissionInv
<1>2. /\ L!Live(<<"start">>) \in Opening /\ L!Live(<<"finish">>) \in Opening
      /\ L!Live(<<"recovery", "finish">>) \in Opening
  BY LiveFrames DEF Opening
<1>3. CASE UNCHANGED loopVars
  <2>1. UNCHANGED <<lpc, dead, todo, step, outcome, spent, told, terminals>>
    BY <1>3 DEF loopVars
  <2>2. QED
    BY <2>1 DEF EmissionInv, Closing, ClosingFrame, EndKind, Announced
<1>4. CASE L!EmitNext
  BY <1>4, FrameLeaves
<1>5. CASE L!Cancel
  <2>1. UNCHANGED <<lpc, todo, step, outcome, spent, told, terminals>> /\ dead' = TRUE /\ ~dead
    BY <1>5 DEF L!Cancel
  <2>2. QED
    BY <2>1 DEF EmissionInv, Closing, ClosingFrame, EndKind, Announced
<1>6. CASE L!IterStart
  <2>1. lpc # "end" /\ UNCHANGED <<dead, step, told, terminals, spent>>
    BY <1>6 DEF L!IterStart, L!Keep
  <2>2. \/ L!FailRun
        \/ dead /\ todo' = L!Detached(<<"usage", "cancelled">>) /\ outcome' = "cancelled" /\ lpc' = "end"
        \/ todo' \in {<<>>, L!Live(<<"start">>)} /\ lpc' = "before" /\ UNCHANGED outcome
    BY <1>6 DEF L!IterStart
  <2>3. QED
    BY <1>1, <1>2, <2>1, <2>2, WaysOut, GoesOn
<1>7. CASE L!BeforeModel
  <2>1. lpc # "end" /\ UNCHANGED <<dead, step, told, terminals, spent>>
    BY <1>7 DEF L!BeforeModel, L!Keep
  <2>2. L!FailRun \/ (lpc' = "attempt" /\ UNCHANGED <<todo, outcome>>)
    BY <1>7 DEF L!BeforeModel
  <2>3. QED
    BY <1>1, <2>1, <2>2, WaysOut, GoesOn
<1>8. CASE L!Attempt
  <2>1. lpc # "end" /\ UNCHANGED <<dead, step, told, terminals, spent>>
    BY <1>8 DEF L!Attempt, L!Keep
  <2>2. L!FailRun \/ (dead /\ L!CancelRun) \/ (lpc' = "assess" /\ UNCHANGED <<todo, outcome>>)
    BY <1>8 DEF L!Attempt
  <2>3. QED
    BY <1>1, <2>1, <2>2, WaysOut, GoesOn
<1>9. CASE L!Assess
  <2>1. lpc # "end" /\ UNCHANGED <<dead, step, told, terminals>>
    BY <1>9 DEF L!Assess, L!Keep
  <2>2. spent' \in Nat /\ spent' >= spent
    BY <1>1, <1>9 DEF L!Assess
  <2>3. \/ L!FailRun
        \/ todo' = L!Live(<<"recovery", "finish">>) /\ lpc' = "iterate" /\ UNCHANGED outcome
        \/ lpc' = "after" /\ UNCHANGED <<todo, outcome>>
    BY <1>9 DEF L!Assess
  <2>4. QED
    BY <1>1, <1>2, <2>1, <2>2, <2>3, WaysOut, GoesOn
<1>10. CASE L!AfterModel
  <2>1. lpc # "end" /\ UNCHANGED <<dead, step, told, terminals, spent>>
    BY <1>10 DEF L!AfterModel, L!Keep
  <2>2. L!FailRun \/ (lpc' = "decide" /\ UNCHANGED <<todo, outcome>>)
    BY <1>10 DEF L!AfterModel
  <2>3. QED
    BY <1>1, <2>1, <2>2, WaysOut, GoesOn
<1>11. CASE L!FinalAnswer
  <2>1. lpc # "end" /\ UNCHANGED <<dead, step, told, terminals, spent>>
    BY <1>11 DEF L!FinalAnswer, L!Keep
  <2>2. L!FailRun \/ L!SucceedRun \/ (dead /\ L!CancelRun)
    BY <1>11 DEF L!FinalAnswer
  <2>3. QED
    BY <1>1, <2>1, <2>2, WaysOut
<1>12. CASE L!RefuseBatch
  <2>1. lpc # "end" /\ UNCHANGED <<dead, step, told, terminals, spent>>
    BY <1>12 DEF L!RefuseBatch, L!Keep
  <2>2. (dead /\ L!CancelRun) \/ (todo' = L!Live(<<"finish">>) /\ lpc' = "iterate" /\ UNCHANGED outcome)
    BY <1>12 DEF L!RefuseBatch
  <2>3. QED
    BY <1>1, <1>2, <2>1, <2>2, WaysOut, GoesOn
<1>13. CASE L!OpenGate \/ L!Dispatch \/ \E j \in DOMAIN got : L!ToolDone(j)
  <2>1. lpc # "end" /\ UNCHANGED <<dead, step, told, terminals, spent, todo, outcome>> /\ lpc' # "end"
    BY <1>13 DEF L!OpenGate, L!Dispatch, L!ToolDone, L!Keep
  <2>2. QED
    BY <1>1, <2>1, GoesOn
<1>14. CASE L!EmitInterrupt
  <2>1. lpc # "end" /\ UNCHANGED <<dead, step, told, terminals, spent>>
    BY <1>14 DEF L!EmitInterrupt, L!Keep
  <2>2. L!FailRun \/ L!SucceedRun \/ UNCHANGED <<todo, outcome, lpc>>
    BY <1>14 DEF L!EmitInterrupt, L!InterruptFails
  <2>3. QED
    BY <1>1, <2>1, <2>2, WaysOut, GoesOn
<1>15. CASE L!RecordBatch
  <2>1. /\ lpc # "end" /\ UNCHANGED <<dead, step, told, terminals, spent, outcome>> /\ lpc' = "iterate"
        /\ todo' = L!Live(<<"finish">>)
    BY <1>15 DEF L!RecordBatch, L!Keep
  <2>2. QED
    BY <1>1, <1>2, <2>1, GoesOn
<1>16. QED
  BY <1>3, <1>4, <1>5, <1>6, <1>7, <1>8, <1>9, <1>10, <1>11, <1>12, <1>13, <1>14, <1>15 DEF L!LoopNext

-----------------------------------------------------------------------------
(* The loop: the newest batch.                                             *)

ReplyRow == [calls : Seq(CallKinds), stop : Stops, usage : {"none", "below", "cap"}, content : BOOLEAN]
BatchRow == [calls : Seq(CallKinds), stop : Stops, answers : Seq(Nat)]
Resting == {"iterate", "before", "attempt", "assess"}
Deciding == {"after", "decide", "gate", "tools"}

BatchTypes ==
  /\ reply \in ReplyRow /\ batch \in BatchRow /\ live \in Seq(Nat) /\ got \in Seq(Nat)
  /\ ran \subseteq DOMAIN batch.calls /\ asked \subseteq DOMAIN batch.calls
  /\ lrecovered \in BOOLEAN /\ dangling = FALSE
  /\ lpc \in Resting \cup Deciding \cup {"end"}
  /\ iter \in 0..MaxIterations /\ (lpc \notin {"iterate", "end"} => iter < MaxIterations)

\* Until its results are recorded the newest batch is the plan of the reply, unanswered.
Planned == batch.calls = reply.calls /\ batch.stop = reply.stop /\ batch.answers = <<>>

\* What has been done with the plan at each control point.
PlanShape ==
  /\ lpc \in Resting => L!Answered
  /\ lpc \in Deciding => Planned
  /\ lpc \in {"after", "decide"} => ran = {} /\ asked = {}
  /\ lpc = "gate" => ran = {} /\ asked \subseteq L!Gated /\ L!Gated # {} /\ L!Trustworthy
  /\ lpc = "tools" => /\ asked = {} /\ ran = L!LiveCalls /\ L!Trustworthy
                      /\ live \in Seq(L!LiveCalls) /\ Len(got) = Len(live)
                      /\ \A i \in L!LiveCalls : \E j \in DOMAIN live : live[j] = i
                      /\ \A j \in DOMAIN got : got[j] \in {L!NoResult, live[j]}
  /\ lpc = "end" => L!Answered \/ (outcome = "done" /\ asked = L!Gated /\ asked # {})

\* The inductive invariant of the batch.
BatchInv ==
  /\ BatchTypes /\ Len(batch.answers) \in {0, Len(batch.calls)}
  /\ PlanShape /\ L!ResultsTellTheTruth /\ L!OnlyCompletePlansAct

LEMMA BatchStart ==
  ASSUME L!LoopInit
  PROVE  BatchInv
<1>1. /\ reply = [calls |-> <<>>, stop |-> "unknown", usage |-> "none", content |-> FALSE]
      /\ batch = [calls |-> <<>>, stop |-> "end_turn", answers |-> <<>>]
      /\ live = <<>> /\ got = <<>> /\ ran = {} /\ asked = {} /\ lrecovered = FALSE /\ dangling = FALSE
      /\ lpc = "iterate" /\ iter = 0
  BY DEF L!LoopInit, L!NoReply, L!Reply, L!NoBatch
<1>2. <<>> \in Seq(CallKinds) /\ <<>> \in Seq(Nat)
      /\ Len(<<>>) = 0 /\ DOMAIN <<>> = {}
  OBVIOUS
<1>3. reply \in ReplyRow /\ batch \in BatchRow
  BY <1>1, <1>2 DEF ReplyRow, BatchRow, Stops
<1>4. BatchTypes
  <2>1. iter \in 0..MaxIterations /\ lpc = "iterate"
    BY <1>1, LoopAssumption
  <2>2. live \in Seq(Nat) /\ got \in Seq(Nat) /\ ran \subseteq DOMAIN batch.calls /\ asked \subseteq DOMAIN batch.calls
    BY <1>1, <1>2
  <2>3. QED
    BY <1>1, <1>3, <2>1, <2>2 DEF BatchTypes, Resting
<1>5. PlanShape
  BY <1>1, <1>2 DEF PlanShape, Resting, Deciding, L!Answered
<1>6. L!ResultsTellTheTruth /\ L!OnlyCompletePlansAct
  BY <1>1, <1>2 DEF L!ResultsTellTheTruth, L!OnlyCompletePlansAct
<1>7. QED
  BY <1>1, <1>2, <1>4, <1>5, <1>6 DEF BatchInv

\* While no plan is open the batch rests, and the run may end.
LEMMA BatchRests ==
  ASSUME BatchInv, lpc \in Resting, UNCHANGED <<batch, ran, asked, live, got, dangling>>,
         reply' \in ReplyRow, lrecovered' \in BOOLEAN, lpc' \in Resting \cup {"end"},
         iter' \in 0..MaxIterations, lpc' \in {"iterate", "end"} \/ iter' < MaxIterations
  PROVE  BatchInv'
<1>1. BatchTypes /\ L!Answered
  BY DEF BatchInv, PlanShape
<1>2. BatchTypes'
  BY <1>1 DEF BatchTypes
<1>3. L!Answered'
  BY <1>1 DEF L!Answered
<1>4. PlanShape'
  BY <1>3 DEF PlanShape, Resting, Deciding
<1>5. L!ResultsTellTheTruth' /\ L!OnlyCompletePlansAct'
  BY DEF BatchInv, L!ResultsTellTheTruth, L!OnlyCompletePlansAct
<1>6. (Len(batch.answers) \in {0, Len(batch.calls)})'
  BY DEF BatchInv
<1>7. QED
  BY <1>2, <1>4, <1>5, <1>6 DEF BatchInv

\* A plan that is not carried out is answered, call by call.
LEMMA BatchRefused ==
  ASSUME BatchInv, lpc \in {"after", "decide", "gate"}, L!Refuse,
         UNCHANGED <<reply, ran, asked, live, got, lrecovered, dangling>>,
         lpc' \in {"iterate", "end"}, iter' \in 0..MaxIterations
  PROVE  BatchInv'
<1> DEFINE none == [i \in DOMAIN batch.calls |-> L!NoResult]
<1>1. BatchTypes /\ batch \in BatchRow /\ batch.calls \in Seq(CallKinds) /\ ran = {} /\ L!OnlyCompletePlansAct
  BY DEF BatchInv, BatchTypes, BatchRow, PlanShape
<1>2. batch' = [batch EXCEPT !.answers = none]
  BY DEF L!Refuse, L!RecordToolResults
<1>3. DOMAIN batch.calls = 1..Len(batch.calls) /\ Len(batch.calls) \in Nat
  BY <1>1
<1>4. none \in Seq(Nat) /\ Len(none) = Len(batch.calls) /\ DOMAIN none = DOMAIN batch.calls
      /\ \A i \in DOMAIN none : none[i] = 0
  BY <1>3 DEF L!NoResult
<1> HIDE DEF none
<1>5. batch' \in BatchRow /\ batch'.calls = batch.calls /\ batch'.stop = batch.stop /\ batch'.answers = none
  BY <1>1, <1>2, <1>4 DEF BatchRow
<1>6. BatchTypes'
  BY <1>1, <1>5 DEF BatchTypes, Resting
<1>7. L!Answered' /\ (Len(batch.answers) \in {0, Len(batch.calls)})'
  BY <1>4, <1>5 DEF L!Answered
<1>8. PlanShape'
  BY <1>7 DEF PlanShape, Resting, Deciding
<1>9. L!ResultsTellTheTruth'
  BY <1>1, <1>4, <1>5 DEF L!ResultsTellTheTruth, L!NoResult
<1>10. L!OnlyCompletePlansAct'
  BY <1>1, <1>5 DEF L!OnlyCompletePlansAct
<1>11. QED
  BY <1>6, <1>7, <1>8, <1>9, <1>10 DEF BatchInv

\* A plan that is looked at goes on unchanged.
LEMMA BatchStays ==
  ASSUME BatchInv, UNCHANGED <<reply, batch, ran, asked, live, got, lrecovered, dangling, iter>>,
         \/ lpc = "after" /\ lpc' = "decide"
         \/ lpc = "decide" /\ reply.calls = <<>> /\ lpc' = "end"
         \/ lpc = "decide" /\ L!Trustworthy /\ L!Gated # {} /\ lpc' = "gate"
         \/ lpc = "gate" /\ asked = L!Gated /\ lpc' = "end" /\ outcome' = "done"
         \/ lpc' = lpc /\ outcome' = outcome
  PROVE  BatchInv'
<1>1. BatchTypes /\ PlanShape /\ L!OnlyCompletePlansAct /\ L!ResultsTellTheTruth
  BY DEF BatchInv
<1>2. L!Gated' = L!Gated /\ L!Trustworthy' = L!Trustworthy /\ L!LiveCalls' = L!LiveCalls /\ L!Answered' = L!Answered /\ Planned' = Planned
  BY DEF L!Gated, L!Trustworthy, L!LiveCalls, L!Answered, Planned
<1>3. BatchTypes'
  BY <1>1 DEF BatchTypes, Resting, Deciding
<1>4. PlanShape'
  <2>1. CASE lpc = "after" /\ lpc' = "decide"
    BY <1>1, <1>2, <2>1 DEF PlanShape, Resting, Deciding
  <2>2. CASE lpc = "decide" /\ reply.calls = <<>> /\ lpc' = "end"
    <3>1. Planned
      BY <1>1, <2>2 DEF PlanShape, Deciding
    <3>2. L!Answered
      BY <2>2, <3>1 DEF Planned, L!Answered
    <3>3. QED
      BY <1>2, <2>2, <3>2 DEF PlanShape, Resting, Deciding
  <2>3. CASE lpc = "decide" /\ L!Trustworthy /\ L!Gated # {} /\ lpc' = "gate"
    BY <1>1, <1>2, <2>3 DEF PlanShape, Resting, Deciding
  <2>4. CASE lpc = "gate" /\ asked = L!Gated /\ lpc' = "end" /\ outcome' = "done"
    BY <1>1, <1>2, <2>4 DEF PlanShape, Resting, Deciding
  <2>5. CASE lpc' = lpc /\ outcome' = outcome
    BY <1>1, <1>2, <2>5 DEF PlanShape
  <2>6. QED
    BY <2>1, <2>2, <2>3, <2>4, <2>5
<1>5. L!ResultsTellTheTruth' /\ L!OnlyCompletePlansAct' /\ (Len(batch.answers) \in {0, Len(batch.calls)})'
  BY DEF BatchInv, L!ResultsTellTheTruth, L!OnlyCompletePlansAct
<1>6. QED
  BY <1>3, <1>4, <1>5 DEF BatchInv

\* A new plan becomes durable only when the one before is answered.
LEMMA PlanPersisted ==
  ASSUME BatchInv, lpc = "assess", L!PersistMessage, lpc' = "after", UNCHANGED <<reply, iter, lrecovered>>
  PROVE  BatchInv'
<1>1. BatchTypes /\ L!Answered /\ reply \in ReplyRow /\ iter < MaxIterations
  BY DEF BatchInv, PlanShape, Resting, BatchTypes
<1>2. /\ batch' = [calls |-> reply.calls, stop |-> reply.stop, answers |-> <<>>]
      /\ dangling' = FALSE /\ ran' = {} /\ asked' = {} /\ live' = <<>> /\ got' = <<>>
  BY <1>1 DEF L!PersistMessage, BatchTypes
<1>3. <<>> \in Seq(Nat)
      /\ Len(<<>>) = 0 /\ DOMAIN <<>> = {}
  OBVIOUS
<1>4. batch' \in BatchRow /\ batch'.calls = reply.calls /\ batch'.stop = reply.stop /\ batch'.answers = <<>>
  BY <1>1, <1>2, <1>3 DEF BatchRow, ReplyRow
<1>5. BatchTypes'
  BY <1>1, <1>2, <1>3, <1>4 DEF BatchTypes, Deciding
<1>6. PlanShape'
  BY <1>2, <1>4 DEF PlanShape, Resting, Deciding, Planned
<1>7. L!ResultsTellTheTruth' /\ L!OnlyCompletePlansAct' /\ (Len(batch.answers) \in {0, Len(batch.calls)})'
  BY <1>2, <1>3, <1>4 DEF L!ResultsTellTheTruth, L!OnlyCompletePlansAct
<1>8. QED
  BY <1>5, <1>6, <1>7 DEF BatchInv

\* Dispatch: exactly the calls that run have been entered, each listed.
LEMMA PlanDispatched ==
  ASSUME BatchInv, L!Dispatch
  PROVE  BatchInv'
<1>1. /\ lpc = "decide" /\ L!Trustworthy /\ L!Gated = {} /\ lpc' = "tools" /\ ran' = L!LiveCalls
      /\ UNCHANGED <<iter, reply, batch, asked, lrecovered, dangling>>
  BY DEF L!Dispatch
<1>2. BatchTypes /\ Planned /\ asked = {} /\ reply \in ReplyRow /\ batch \in BatchRow
  BY <1>1 DEF BatchInv, PlanShape, Deciding, BatchTypes
<1>3. reply.calls \in Seq(CallKinds) /\ DOMAIN reply.calls = 1..Len(reply.calls) /\ Len(reply.calls) \in Nat
  BY <1>2 DEF ReplyRow
<1>4. PICK n \in 0..Len(reply.calls) :
        /\ live' \in [1..n -> L!LiveCalls] /\ L!InOrder(L!LiveCalls, live')
        /\ got' = [j \in 1..n |-> L!NoResult]
  BY DEF L!Dispatch
<1>5. /\ L!LiveCalls \subseteq DOMAIN batch.calls /\ L!LiveCalls \subseteq Nat
      /\ L!LiveCalls' = L!LiveCalls /\ L!Trustworthy' = L!Trustworthy
      /\ \A i \in L!LiveCalls : batch.calls[i] = "run"
  BY <1>1, <1>2, <1>3 DEF L!LiveCalls, Planned, L!Trustworthy
<1>6. /\ live' \in Seq(L!LiveCalls) /\ live' \in Seq(Nat) /\ got' \in Seq(Nat) /\ Len(got') = Len(live')
      /\ \A i \in L!LiveCalls : \E j \in DOMAIN live' : live'[j] = i
      /\ \A j \in DOMAIN got' : got'[j] = L!NoResult
  <2>1. n \in Nat /\ DOMAIN live' = 1..n /\ DOMAIN got' = 1..n
    BY <1>3, <1>4
  <2>2. live' \in Seq(L!LiveCalls) /\ live' \in Seq(Nat) /\ Len(live') = n
    BY <1>4, <1>5, <2>1
  <2>3. got' \in Seq(Nat) /\ Len(got') = n /\ \A j \in DOMAIN got' : got'[j] = L!NoResult
    BY <1>4, <2>1 DEF L!NoResult
  <2>4. QED
    BY <1>4, <2>2, <2>3 DEF L!InOrder
<1>7. BatchTypes'
  BY <1>1, <1>2, <1>5, <1>6 DEF BatchTypes, Deciding
<1>8. PlanShape'
  BY <1>1, <1>2, <1>5, <1>6 DEF PlanShape, Resting, Deciding, Planned
<1>9. L!ResultsTellTheTruth'
  BY <1>1, <1>2 DEF L!ResultsTellTheTruth, Planned
<1>10. L!OnlyCompletePlansAct'
  BY <1>1, <1>2, <1>5 DEF L!OnlyCompletePlansAct, L!Trustworthy, Planned
<1>11. (Len(batch.answers) \in {0, Len(batch.calls)})'
  BY <1>1 DEF BatchInv
<1>12. QED
  BY <1>7, <1>8, <1>9, <1>10, <1>11 DEF BatchInv

\* A tool comes back with the result of its own call.
LEMMA ToolReturns ==
  ASSUME BatchInv, NEW i \in DOMAIN got, L!ToolDone(i)
  PROVE  BatchInv'
<1>1. /\ lpc = "tools" /\ got' = [got EXCEPT ![i] = live[i]]
      /\ UNCHANGED <<iter, lpc, reply, batch, ran, live, asked, lrecovered, dangling>>
  BY DEF L!ToolDone
<1>2. BatchTypes /\ got \in Seq(Nat) /\ live \in Seq(Nat)
  BY DEF BatchInv, BatchTypes
<1>3. /\ Planned /\ asked = {} /\ ran = L!LiveCalls /\ L!Trustworthy
      /\ live \in Seq(L!LiveCalls) /\ Len(got) = Len(live)
      /\ \A c \in L!LiveCalls : \E j \in DOMAIN live : live[j] = c
      /\ \A j \in DOMAIN got : got[j] \in {L!NoResult, live[j]}
  BY <1>1 DEF BatchInv, PlanShape, Deciding
<1>4. /\ got' \in Seq(Nat) /\ Len(got') = Len(got) /\ DOMAIN got' = DOMAIN got
      /\ \A j \in DOMAIN got : got'[j] = IF j = i THEN live[i] ELSE got[j]
  BY <1>1, <1>2, <1>3
<1>5. \A j \in DOMAIN got' : got'[j] \in {L!NoResult, live'[j]}
  BY <1>1, <1>3, <1>4
<1>6. L!LiveCalls' = L!LiveCalls /\ L!Trustworthy' = L!Trustworthy /\ Planned'
  BY <1>1, <1>3 DEF L!LiveCalls, L!Trustworthy, Planned
<1>7. BatchTypes'
  BY <1>1, <1>2, <1>4 DEF BatchTypes
<1>8. PlanShape'
  BY <1>1, <1>3, <1>4, <1>5, <1>6 DEF PlanShape, Resting, Deciding
<1>9. L!ResultsTellTheTruth' /\ L!OnlyCompletePlansAct' /\ (Len(batch.answers) \in {0, Len(batch.calls)})'
  BY <1>1 DEF BatchInv, L!ResultsTellTheTruth, L!OnlyCompletePlansAct
<1>10. QED
  BY <1>7, <1>8, <1>9 DEF BatchInv

\* All are back: the results are recorded, each under its own call.
LEMMA BatchRecorded ==
  ASSUME BatchInv, L!RecordBatch
  PROVE  BatchInv'
<1> DEFINE m == L!Merge(DOMAIN batch.calls, live, got)
<1>1. /\ lpc = "tools" /\ lpc' = "iterate" /\ iter' = iter + 1 /\ \A j \in DOMAIN got : got[j] # L!NoResult
      /\ batch' = [batch EXCEPT !.answers = m]
      /\ UNCHANGED <<reply, ran, live, got, asked, lrecovered, dangling>>
  BY DEF L!RecordBatch, L!RecordToolResults
<1>2. /\ BatchTypes /\ batch \in BatchRow /\ got \in Seq(Nat)
      /\ iter \in 0..MaxIterations /\ iter < MaxIterations
  BY <1>1 DEF BatchInv, BatchTypes
<1>3. /\ Planned /\ ran = L!LiveCalls
      /\ live \in Seq(L!LiveCalls) /\ Len(got) = Len(live)
      /\ \A i \in L!LiveCalls : \E j \in DOMAIN live : live[j] = i
      /\ \A j \in DOMAIN got : got[j] \in {L!NoResult, live[j]}
  BY <1>1 DEF BatchInv, PlanShape, Deciding
<1>4. /\ DOMAIN batch.calls = 1..Len(batch.calls) /\ Len(batch.calls) \in Nat /\ ran \subseteq 1..Len(batch.calls)
      /\ \A j \in DOMAIN got : got[j] = live[j]
  BY <1>1, <1>2, <1>3 DEF BatchTypes, BatchRow
<1>5. /\ m \in Seq(Nat) /\ Len(m) = Len(batch.calls) /\ DOMAIN m = DOMAIN batch.calls
      /\ \A i \in DOMAIN m : m[i] = IF i \in ran THEN i ELSE L!NoResult
  <2>1. m = [i \in DOMAIN batch.calls |-> IF \E j \in DOMAIN live : live[j] = i
                                         THEN got[CHOOSE j \in DOMAIN live : live[j] = i] ELSE L!NoResult]
    BY Zenon DEF L!Merge
  <2>2. DOMAIN got = DOMAIN live /\ \A j \in DOMAIN live : live[j] \in ran
    BY <1>2, <1>3
  <2>3. ASSUME NEW i \in DOMAIN batch.calls PROVE m[i] = IF i \in ran THEN i ELSE L!NoResult
    <3>1. CASE i \in ran
      <4> DEFINE k == CHOOSE j \in DOMAIN live : live[j] = i
      <4>1. \E j \in DOMAIN live : live[j] = i
        BY <1>3, <3>1
      <4>2. k \in DOMAIN live /\ live[k] = i
        BY <4>1, Zenon
      <4>3. m[i] = got[k]
        BY <2>1, <4>1, Zenon
      <4> HIDE DEF k, m
      <4>4. QED
        BY <1>4, <2>2, <3>1, <4>2, <4>3
    <3>2. CASE i \notin ran
      <4>1. ~\E j \in DOMAIN live : live[j] = i
        BY <2>2, <3>2
      <4>2. QED
        BY <2>1, <3>2, <4>1, Zenon
    <3>3. QED
      BY <3>1, <3>2
  <2> HIDE DEF m
  <2>4. DOMAIN m = DOMAIN batch.calls /\ m = [i \in DOMAIN batch.calls |-> m[i]]
    BY <2>1, Zenon
  <2>5. m \in [1..Len(batch.calls) -> Nat]
    <3>1. \A i \in 1..Len(batch.calls) : m[i] \in Nat
      BY <1>4, <2>3 DEF L!NoResult
    <3>2. QED
      BY <1>4, <2>4, <3>1
  <2>6. m \in Seq(Nat) /\ Len(m) = Len(batch.calls)
    BY <1>4, <2>5
  <2>7. QED
    BY <2>3, <2>4, <2>6
<1> HIDE DEF m
<1>6. batch' \in BatchRow /\ batch'.calls = batch.calls /\ batch'.stop = batch.stop /\ batch'.answers = m
  BY <1>1, <1>2, <1>5 DEF BatchRow
<1>7. BatchTypes'
  <2>1. iter' \in 0..MaxIterations
    BY <1>1, <1>2, LoopAssumption
  <2>2. QED
    BY <1>1, <1>2, <1>6, <2>1 DEF BatchTypes, Resting
<1>8. L!Answered' /\ (Len(batch.answers) \in {0, Len(batch.calls)})'
  BY <1>5, <1>6 DEF L!Answered
<1>9. PlanShape'
  BY <1>1, <1>8 DEF PlanShape, Resting, Deciding
<1>10. L!ResultsTellTheTruth'
  BY <1>1, <1>5, <1>6 DEF L!ResultsTellTheTruth, L!NoResult
<1>11. L!OnlyCompletePlansAct'
  BY <1>1, <1>6 DEF BatchInv, L!OnlyCompletePlansAct
<1>12. QED
  BY <1>7, <1>8, <1>9, <1>10, <1>11 DEF BatchInv

\* One more interrupt, of a call that asks.
LEMMA InterruptEmitted ==
  ASSUME BatchInv, L!EmitInterrupt
  PROVE  BatchInv'
<1> DEFINE left == L!Gated \ asked
           next == CHOOSE i \in left : \A j \in left : i <= j
<1>1. /\ lpc = "gate" /\ UNCHANGED <<iter, reply, ran, live, got, lrecovered, dangling>>
      /\ \/ left = {} /\ L!SucceedRun /\ UNCHANGED <<batch, asked>>
         \/ left # {} /\ asked' = asked \cup {next} /\ UNCHANGED <<batch, outcome, lpc>>
         \/ L!Refuse /\ L!FailRun /\ UNCHANGED asked
  BY DEF L!EmitInterrupt, L!InterruptFails
<1>2. /\ BatchTypes /\ ran = {} /\ asked \subseteq L!Gated /\ L!Gated # {} /\ L!Trustworthy /\ Planned
      /\ reply.calls \in Seq(CallKinds) /\ iter \in 0..MaxIterations
  BY <1>1 DEF BatchInv, PlanShape, BatchTypes, Deciding, ReplyRow
<1>3. CASE left = {} /\ L!SucceedRun /\ UNCHANGED <<batch, asked>>
  <2>1. asked = L!Gated /\ lpc' = "end" /\ outcome' = "done"
    BY <1>2, <1>3 DEF L!SucceedRun
  <2>2. QED
    BY <1>1, <1>3, <2>1, BatchStays
<1>4. CASE left # {} /\ asked' = asked \cup {next} /\ UNCHANGED <<batch, outcome, lpc>>
  <2>1. left \in SUBSET Nat
    BY <1>2 DEF L!Gated
  <2>2. \E m \in left : \A k \in left : m <= k
    BY <1>4, <2>1, LeastOf
  <2>3. next \in L!Gated
    BY <2>2, Zenon
  <2>4. /\ L!Gated' = L!Gated /\ L!Trustworthy' = L!Trustworthy /\ Planned' /\ L!Gated \subseteq DOMAIN batch.calls
        /\ \A i \in L!Gated : batch.calls[i] = "ask"
    BY <1>1, <1>2, <1>4 DEF L!Gated, L!Trustworthy, Planned
  <2> HIDE DEF next, left
  <2>5. asked' \subseteq L!Gated
    BY <1>2, <1>4, <2>3
  <2>6. BatchTypes'
    BY <1>1, <1>2, <1>4, <2>4, <2>5 DEF BatchTypes
  <2>7. PlanShape'
    BY <1>1, <1>2, <1>4, <2>4, <2>5 DEF PlanShape, Resting, Deciding
  <2>8. L!ResultsTellTheTruth' /\ (Len(batch.answers) \in {0, Len(batch.calls)})'
    BY <1>1, <1>4 DEF BatchInv, L!ResultsTellTheTruth
  <2>9. L!OnlyCompletePlansAct'
    BY <1>1, <1>2, <1>4, <2>4, <2>5 DEF L!OnlyCompletePlansAct, L!Trustworthy, Planned
  <2>10. QED
    BY <2>6, <2>7, <2>8, <2>9 DEF BatchInv
<1>5. CASE L!Refuse /\ L!FailRun /\ UNCHANGED asked
  <2>1. lpc' = "end"
    BY <1>5 DEF L!FailRun
  <2>2. QED
    BY <1>1, <1>2, <1>5, <2>1, BatchRefused
<1>6. QED
  BY <1>1, <1>3, <1>4, <1>5

\* Every step of the loop keeps what is said of the batch.
LEMMA BatchStep ==
  ASSUME BatchInv, [L!LoopNext]_loopVars
  PROVE  BatchInv'
<1>1. /\ BatchTypes /\ reply \in ReplyRow /\ lrecovered \in BOOLEAN /\ iter \in 0..MaxIterations /\ MaxIterations \in Nat
      /\ lpc \notin {"iterate", "end"} => iter < MaxIterations
      /\ iter < MaxIterations => iter + 1 \in 0..MaxIterations
  BY LoopAssumption DEF BatchInv, BatchTypes
<1>2. CASE UNCHANGED loopVars
  <2>1. UNCHANGED <<reply, batch, ran, asked, live, got, lrecovered, dangling, iter, lpc, outcome>>
    BY <1>2 DEF loopVars
  <2>2. QED
    BY <2>1, BatchStays
<1>3. CASE L!EmitNext \/ L!Cancel
  <2>1. UNCHANGED <<reply, batch, ran, asked, live, got, lrecovered, dangling, iter, lpc, outcome>>
    BY <1>3 DEF L!EmitNext, L!Cancel
  <2>2. QED
    BY <2>1, BatchStays
<1>4. CASE L!IterStart
  <2>1. /\ lpc = "iterate" /\ UNCHANGED <<iter, reply, batch, ran, asked, live, got, lrecovered, dangling>>
        /\ lpc' = "end" \/ (lpc' = "before" /\ iter < MaxIterations)
    BY <1>4 DEF L!IterStart, L!FailRun
  <2>2. QED
    BY <1>1, <2>1, BatchRests DEF Resting
<1>5. CASE L!BeforeModel
  <2>1. /\ lpc = "before" /\ UNCHANGED <<iter, reply, batch, ran, asked, live, got, lrecovered, dangling>>
        /\ lpc' \in {"end", "attempt"}
    BY <1>5 DEF L!BeforeModel, L!FailRun
  <2>2. QED
    BY <1>1, <2>1, BatchRests DEF Resting
<1>6. CASE L!Attempt
  <2>1. /\ lpc = "attempt" /\ UNCHANGED <<iter, batch, ran, asked, live, got, lrecovered, dangling>>
        /\ lpc' \in {"end", "assess"} /\ (reply' \in Replies \/ reply' = reply)
    BY <1>6 DEF L!Attempt, L!FailRun, L!CancelRun
  <2>2. reply' \in ReplyRow
    BY <1>1, <2>1, LoopAssumption DEF ReplyRow
  <2>3. QED
    BY <1>1, <2>1, <2>2, BatchRests DEF Resting
<1>7. CASE L!Assess
  <2>1. lpc = "assess" /\ UNCHANGED reply
    BY <1>7 DEF L!Assess
  <2>2. \/ lpc' = "end" /\ UNCHANGED <<iter, batch, ran, asked, live, got, lrecovered, dangling>>
        \/ lpc' = "iterate" /\ lrecovered' = TRUE /\ iter' = iter + 1 /\ UNCHANGED <<batch, ran, asked, live, got, dangling>>
        \/ L!PersistMessage /\ lpc' = "after" /\ UNCHANGED <<iter, lrecovered>>
    BY <1>7 DEF L!Assess, L!FailRun
  <2>3. QED
    BY <1>1, <2>1, <2>2, BatchRests, PlanPersisted DEF Resting
<1>8. CASE L!AfterModel
  <2>1. /\ lpc = "after" /\ UNCHANGED <<iter, reply, ran, asked, live, got, lrecovered, dangling>>
        /\ (L!Refuse /\ lpc' = "end") \/ (lpc' = "decide" /\ UNCHANGED batch)
    BY <1>8 DEF L!AfterModel, L!FailRun
  <2>2. QED
    BY <1>1, <2>1, BatchRefused, BatchStays
<1>9. CASE L!FinalAnswer
  <2>1. /\ lpc = "decide" /\ reply.calls = <<>> /\ lpc' = "end"
        /\ UNCHANGED <<iter, reply, batch, ran, asked, live, got, lrecovered, dangling>>
    BY <1>9 DEF L!FinalAnswer, L!FailRun, L!CancelRun, L!SucceedRun
  <2>2. QED
    BY <2>1, BatchStays
<1>10. CASE L!RefuseBatch
  <2>1. /\ lpc = "decide" /\ L!Refuse /\ UNCHANGED <<reply, ran, asked, live, got, lrecovered, dangling>>
        /\ (lpc' = "end" /\ iter' = iter) \/ (lpc' = "iterate" /\ iter' = iter + 1)
    BY <1>10 DEF L!RefuseBatch, L!CancelRun
  <2>2. QED
    BY <1>1, <2>1, BatchRefused
<1>11. CASE L!OpenGate
  <2>1. /\ lpc = "decide" /\ L!Trustworthy /\ L!Gated # {} /\ lpc' = "gate"
        /\ UNCHANGED <<iter, reply, batch, ran, asked, live, got, lrecovered, dangling>>
    BY <1>11 DEF L!OpenGate
  <2>2. QED
    BY <2>1, BatchStays
<1>12. QED
  BY <1>2, <1>3, <1>4, <1>5, <1>6, <1>7, <1>8, <1>9, <1>10, <1>11, InterruptEmitted, PlanDispatched, ToolReturns, BatchRecorded
     DEF L!LoopNext

-----------------------------------------------------------------------------
(* The turn.                                                               *)

\* The first frames: none.
LEMMA EmissionStart ==
  ASSUME L!LoopInit
  PROVE  EmissionInv
<1>1. /\ dead = FALSE /\ step = "closed" /\ outcome = "none" /\ spent = 0 /\ told = 0
      /\ lpc = "iterate" /\ todo = <<>> /\ terminals = <<>>
  BY DEF L!LoopInit
<1>2. <<>> \in Opening
  BY DEF Opening
<1>3. told \in 0..spent /\ spent \in Nat /\ lpc # "end"
  BY <1>1
<1>4. todo \in Opening
  BY <1>1, <1>2
<1>5. QED
  BY <1>1, <1>3, <1>4 DEF EmissionInv

\* The parts move apart: a step is one of the loop, or of the tree, or leaves both alone.
LEMMA AgentFrame ==
  ASSUME [Next]_vars
  PROVE  [L!LoopNext]_loopVars /\ [U!SubNext]_subVars
<1>1. CASE UNCHANGED vars
  BY <1>1 DEF vars
<1>2. CASE ViewStep \/ StreamStep \/ StallStep(M!StallNext)
  BY <1>2 DEF ViewStep, StreamStep, StallStep
<1>3. CASE LoopStep
  BY <1>3 DEF LoopStep, Only
<1>4. CASE SubagentStep(U!SubNext)
  BY <1>4 DEF SubagentStep, Only
<1>5. QED
  BY <1>1, <1>2, <1>3, <1>4 DEF Next

AgentInv == BatchInv /\ EmissionInv /\ TreeInv

LEMMA AgentInvFollows ==
  ASSUME AgentInv
  PROVE  TurnSound
<1>1. U!SubTypeOK /\ U!FanOutBounded
  BY TreeFollows DEF AgentInv
<1>2. BatchInv /\ EmissionInv
  BY DEF AgentInv
<1>3. L!LoopTypeOK
  BY <1>2 DEF L!LoopTypeOK, BatchInv, BatchTypes, EmissionInv, Resting, Deciding
<1>4. L!BatchAnswered
  BY <1>2 DEF L!BatchAnswered, BatchInv, BatchTypes, PlanShape, EmissionInv
<1>5. L!EndIsAnnounced
  <2>1. SUFFICES ASSUME L!Ended, outcome = "cancelled" \/ ~dead
                 PROVE  /\ terminals = <<CASE outcome = "failed" -> "error" [] OTHER -> outcome>>
                        /\ told = spent /\ (~dead => step = "closed")
    BY DEF L!EndIsAnnounced
  <2>2. Closing /\ todo = <<>>
    BY <1>2, <2>1 DEF EmissionInv, L!Ended
  <2>3. /\ todo # <<ClosingFrame("finish"), ClosingFrame("usage"), ClosingFrame(EndKind)>>
        /\ todo # <<ClosingFrame("usage"), ClosingFrame(EndKind)>>
        /\ todo # <<ClosingFrame(EndKind)>>
    BY <2>2, Tuples
  <2>4. terminals = <<EndKind>> /\ told = spent /\ (~dead => step = "closed")
    BY <2>1, <2>2, <2>3 DEF Closing, Announced
  <2>5. EndKind = CASE outcome = "failed" -> "error" [] OTHER -> outcome
    BY DEF EndKind
  <2>6. QED
    BY <2>4, <2>5
<1>6. L!ResultsTellTheTruth /\ L!OnlyCompletePlansAct
  BY <1>2 DEF BatchInv
<1>7. QED
  BY <1>1, <1>3, <1>4, <1>5, <1>6 DEF TurnSound

\* TurnSound, for any number of iterations, any replies and any tree of spawns under any
\* limits: every durable batch is answered by its own results, only complete plans act, the
\* end is announced once, and the fan-out of a run stays within its depth, slots and total.
THEOREM TurnsAreSound == Spec => []TurnSound
<1>1. Init => AgentInv
  BY BatchStart, EmissionStart, TreeStart DEF Init, AgentInv
<1>2. AgentInv /\ [Next]_vars => AgentInv'
  BY AgentFrame, BatchStep, EmissionStep, TreeStep DEF AgentInv
<1>3. AgentInv => TurnSound
  BY AgentInvFollows
<1>4. QED
  BY <1>1, <1>2, <1>3, PTL DEF Spec


-----------------------------------------------------------------------------
(* The idle deadline.                                                      *)

\* The inductive invariant of the reader: an armed window counts the time its read has
\* waited, and nobody but the one step that verified the deadline declares a stall.
StallInv ==
  /\ StallSound
  /\ deadline # M!Disarmed => rd \in {"body", "data", "eof", "failed"} /\ waited + deadline = Timeout
  /\ wd = "close" => sfired
  /\ sfired => wd \in {"close", "exit"}

LEMMA StallStart ==
  ASSUME M!NewStallReader
  PROVE  StallInv
<1>1. /\ rd = "idle" /\ deadline = -1 /\ sfired = FALSE /\ sclosed = FALSE /\ wake = FALSE
      /\ wd = "check" /\ timer = 0 /\ body = "open" /\ waited = 0 /\ unfair = FALSE
  BY DEF M!NewStallReader, M!Disarmed
<1>2. M!StallTypeOK
  <2>1. deadline \in M!Disarmed..Timeout
    BY <1>1, TimeoutAssumption DEF M!Disarmed
  <2>2. timer \in 0..Timeout /\ waited \in 0..Timeout
    BY <1>1, TimeoutAssumption
  <2>3. sfired \in BOOLEAN /\ sclosed \in BOOLEAN /\ wake \in BOOLEAN /\ unfair \in BOOLEAN
    BY <1>1
  <2>4. QED
    BY <1>1, <2>1, <2>2, <2>3 DEF M!StallTypeOK
<1>3. QED
  BY <1>1, <1>2 DEF StallInv, StallSound, M!StallIsDeserved, M!NoLostWakeup, M!WatchdogLeavesInOrder, M!Disarmed

\* The parts of the invariant, as facts about the variables.
LEMMA StallFacts ==
  ASSUME StallInv
  PROVE  /\ M!StallTypeOK /\ Timeout \in Nat /\ deadline \in Int /\ timer \in Nat /\ waited \in Nat
         /\ deadline \in -1..Timeout /\ timer \in 0..Timeout /\ waited \in 0..Timeout
         /\ sfired \in BOOLEAN /\ sclosed \in BOOLEAN /\ wake \in BOOLEAN /\ unfair = FALSE
         /\ deadline # -1 => rd \in {"body", "data", "eof", "failed"} /\ waited + deadline = Timeout
         /\ wd = "close" => sfired
         /\ sfired => wd \in {"close", "exit"}
<1>1. M!StallTypeOK /\ M!StallIsDeserved
  BY DEF StallInv, StallSound
<1>2. /\ Timeout \in Nat /\ deadline \in -1..Timeout /\ timer \in 0..Timeout /\ waited \in 0..Timeout
      /\ deadline # -1 => rd \in {"body", "data", "eof", "failed"} /\ waited + deadline = Timeout
  BY <1>1, TimeoutAssumption DEF StallInv, M!StallTypeOK, M!Disarmed
<1>3. /\ sfired \in BOOLEAN /\ sclosed \in BOOLEAN /\ wake \in BOOLEAN /\ unfair = FALSE
      /\ wd = "close" => sfired
      /\ sfired => wd \in {"close", "exit"}
  BY <1>1, Zenon DEF StallInv, M!StallTypeOK, M!StallIsDeserved
<1>4. QED
  BY <1>1, <1>2, <1>3

\* The consumer's steps.
LEMMA ReaderKeeps ==
  ASSUME StallInv, M!ArmRead \/ (\E r \in {"data", "eof", "failed"} : M!BodyRead(r)) \/ M!DisarmRead \/ M!Close
  PROVE  StallInv'
<1> USE DEF M!Disarmed
<1>1. CASE M!ArmRead
  <2>1. /\ rd' = "body" /\ deadline' = Timeout /\ waited' = 0 /\ wake' = TRUE
        /\ UNCHANGED <<sfired, sclosed, wd, timer, body, unfair>>
    BY <1>1 DEF M!ArmRead
  <2>2. M!StallTypeOK'
    BY <2>1, StallFacts DEF M!StallTypeOK
  <2>3. waited' + deadline' = Timeout
    BY <2>1, StallFacts
  <2>4. M!StallIsDeserved' /\ M!NoLostWakeup' /\ M!WatchdogLeavesInOrder'
    BY <2>1, StallFacts DEF StallInv, StallSound, M!StallIsDeserved, M!NoLostWakeup, M!WatchdogLeavesInOrder
  <2>5. QED
    BY <2>1, <2>2, <2>3, <2>4, StallFacts DEF StallInv, StallSound
<1>2. ASSUME NEW r \in {"data", "eof", "failed"}, M!BodyRead(r) PROVE StallInv'
  <2>1. /\ rd = "body" /\ rd' = r /\ body' = (IF r = "eof" THEN "ended" ELSE body) /\ (body = "closed" => r = "failed")
        /\ UNCHANGED <<deadline, sfired, sclosed, wake, wd, timer, waited, unfair>>
    BY <1>2 DEF M!BodyRead
  <2>2. M!StallTypeOK'
    BY <2>1, StallFacts DEF M!StallTypeOK
  <2>3. body = "closed" => body' = "closed"
    BY <2>1
  <2>4. QED
    BY <2>1, <2>2, <2>3, StallFacts
       DEF StallInv, StallSound, M!StallIsDeserved, M!NoLostWakeup, M!WatchdogLeavesInOrder
<1>3. CASE M!DisarmRead
  <2>1. /\ rd' = "idle" /\ deadline' = -1 /\ wake' = TRUE /\ sclosed' \in BOOLEAN /\ (sclosed => sclosed')
        /\ UNCHANGED <<sfired, wd, timer, body, waited, unfair>>
    BY <1>3, StallFacts DEF M!DisarmRead
  <2>2. M!StallTypeOK'
    BY <2>1, StallFacts DEF M!StallTypeOK
  <2>3. QED
    BY <2>1, <2>2, StallFacts
       DEF StallInv, StallSound, M!StallIsDeserved, M!NoLostWakeup, M!WatchdogLeavesInOrder
<1>4. CASE M!Close
  <2>1. /\ rd \in {"idle", "body"} /\ rd' \in {"gone", "body"} /\ (rd = "body" => rd' = "body")
        /\ wake' = TRUE /\ sclosed' = TRUE /\ body' = "closed"
        /\ UNCHANGED <<deadline, sfired, wd, timer, waited, unfair>>
    BY <1>4 DEF M!Close
  <2>2. M!StallTypeOK'
    BY <2>1, StallFacts DEF M!StallTypeOK
  <2>3. QED
    BY <2>1, <2>2, StallFacts
       DEF StallInv, StallSound, M!StallIsDeserved, M!NoLostWakeup, M!WatchdogLeavesInOrder
<1>5. QED
  BY <1>1, <1>2, <1>3, <1>4

\* The watchdog's steps, and the clock's.
LEMMA WatchdogKeeps ==
  ASSUME StallInv, M!Watchdog \/ M!Elapse
  PROVE  StallInv'
<1> USE DEF M!Disarmed
<1>1. CASE M!Check
  <2>1. /\ wd = "check" /\ UNCHANGED <<rd, deadline, sfired, sclosed, wake, body, waited, unfair>>
        /\ timer' = IF deadline > 0 THEN deadline ELSE timer
        /\ wd' = IF sfired \/ sclosed THEN "exit" ELSE IF deadline = -1 THEN "park" ELSE IF deadline > 0 THEN "timer" ELSE "verify"
    BY <1>1 DEF M!Check
  <2>2. ~sfired /\ (wd' = "exit" => sclosed) /\ (wd' = "park" => deadline = -1 /\ ~sclosed)
        /\ (wd' = "timer" => deadline > 0 /\ ~sclosed) /\ wd' \in {"exit", "park", "timer", "verify"}
    <3>1. ~sfired
      BY <2>1, StallFacts
    <3>2. CASE sclosed
      <4>1. wd' = "exit"
        BY <2>1, <3>2
      <4>2. QED
        BY <3>1, <3>2, <4>1
    <3>3. CASE ~sclosed /\ deadline = -1
      BY <2>1, <3>1, <3>3
    <3>4. CASE ~sclosed /\ deadline # -1
      BY <2>1, <3>1, <3>4
    <3>5. QED
      BY <3>2, <3>3, <3>4
  <2>3. M!StallTypeOK'
    BY <2>1, <2>2, StallFacts DEF M!StallTypeOK
  <2>4. QED
    BY <2>1, <2>2, <2>3, StallFacts
       DEF StallInv, StallSound, M!StallIsDeserved, M!NoLostWakeup, M!WatchdogLeavesInOrder
<1>2. CASE M!Woken \/ M!TimerFires
  <2>1. /\ wd \in {"park", "timer"} /\ wd' = "check" /\ wake' \in BOOLEAN
        /\ UNCHANGED <<rd, deadline, sfired, sclosed, timer, body, waited, unfair>>
    BY <1>2, StallFacts DEF M!Woken, M!TimerFires
  <2>2. M!StallTypeOK'
    BY <2>1, StallFacts DEF M!StallTypeOK
  <2>3. QED
    BY <2>1, <2>2, StallFacts
       DEF StallInv, StallSound, M!StallIsDeserved, M!NoLostWakeup, M!WatchdogLeavesInOrder
<1>3. CASE M!Verify
  <2>1. /\ wd = "verify" /\ wd' = (IF M!Fires THEN "close" ELSE "check") /\ sfired' = (sfired \/ M!Fires)
        /\ unfair' = (unfair \/ (M!Fires /\ ~(rd # "idle" /\ waited = Timeout)))
        /\ UNCHANGED <<rd, deadline, sclosed, wake, timer, body, waited>>
    BY <1>3 DEF M!Verify
  <2>2. M!Fires => deadline = 0
    BY DEF M!Fires
  <2>3. M!Fires => rd # "idle" /\ waited = Timeout
    BY <2>2, StallFacts
  <2>4. ~sfired
    BY <2>1 DEF StallInv
  <2>5. unfair' = FALSE /\ (sfired' <=> M!Fires) /\ sfired' \in BOOLEAN /\ wd' \in {"close", "check"}
        /\ (wd' = "close" <=> M!Fires)
    BY <2>1, <2>3, <2>4, StallFacts DEF M!Fires
  <2>6. M!StallTypeOK'
    BY <2>1, <2>5, StallFacts DEF M!StallTypeOK
  <2>7. QED
    BY <2>1, <2>4, <2>5, <2>6, StallFacts
       DEF StallInv, StallSound, M!StallIsDeserved, M!NoLostWakeup, M!WatchdogLeavesInOrder
<1>4. CASE M!CloseBody
  <2>1. /\ wd = "close" /\ body' = "closed" /\ wd' = "exit"
        /\ UNCHANGED <<rd, deadline, sfired, sclosed, wake, timer, waited, unfair>>
    BY <1>4 DEF M!CloseBody
  <2>2. M!StallTypeOK'
    BY <2>1, StallFacts DEF M!StallTypeOK
  <2>3. QED
    BY <2>1, <2>2, StallFacts
       DEF StallInv, StallSound, M!StallIsDeserved, M!NoLostWakeup, M!WatchdogLeavesInOrder
<1>5. CASE M!Elapse
  <2>1. /\ deadline' = (IF deadline > 0 THEN deadline - 1 ELSE deadline)
        /\ timer' = (IF timer > 0 THEN timer - 1 ELSE 0)
        /\ waited' = (IF rd # "idle" /\ waited < Timeout THEN waited + 1 ELSE waited)
        /\ UNCHANGED <<rd, sfired, sclosed, wake, wd, body, unfair>>
        /\ deadline > 0 \/ (wd = "timer" /\ timer > 0)
    BY <1>5 DEF M!Elapse
  <2>2. deadline' \in -1..Timeout /\ timer' \in 0..Timeout /\ waited' \in 0..Timeout
    BY <2>1, StallFacts
  <2>3. M!StallTypeOK'
    BY <2>1, <2>2, StallFacts DEF M!StallTypeOK
  <2>4. deadline' # -1 => rd' \in {"body", "data", "eof", "failed"} /\ waited' + deadline' = Timeout
    BY <2>1, StallFacts
  <2>5. M!NoLostWakeup'
    BY <2>1, StallFacts DEF StallInv, StallSound, M!NoLostWakeup
  <2>6. QED
    BY <2>1, <2>3, <2>4, <2>5, StallFacts
       DEF StallInv, StallSound, M!StallIsDeserved, M!WatchdogLeavesInOrder
<1>6. QED
  BY <1>1, <1>2, <1>3, <1>4, <1>5 DEF M!Watchdog

\* StallSound, for any window: a stall is declared only on a read that waited all of it, no
\* wake-up is lost, and the watchdog leaves only a stream that is over or that it closed.
THEOREM StallsAreDeserved == Spec => []StallSound
<1>1. Init => StallInv
  BY StallStart DEF Init
<1>2. StallInv /\ [Next]_vars => StallInv'
  <2>1. SUFFICES ASSUME StallInv, [Next]_vars PROVE StallInv'
    OBVIOUS
  <2>2. CASE UNCHANGED stallVars
    <3>1. UNCHANGED <<rd, deadline, sfired, sclosed, wake, wd, timer, body, waited, unfair>>
      BY <2>2 DEF stallVars
    <3>2. M!StallTypeOK' /\ M!StallIsDeserved'
      BY <2>1, <3>1, StallFacts DEF M!StallTypeOK, M!StallIsDeserved
    <3>3. M!NoLostWakeup' /\ M!WatchdogLeavesInOrder'
      BY <2>1, <3>1 DEF StallInv, StallSound, M!NoLostWakeup, M!WatchdogLeavesInOrder
    <3>4. QED
      BY <2>1, <3>1, <3>2, <3>3, StallFacts DEF StallInv, StallSound, M!Disarmed
  <2>3. CASE UNCHANGED vars
    BY <2>2, <2>3 DEF vars
  <2>4. CASE ViewStep \/ LoopStep \/ SubagentStep(U!SubNext) \/ StreamStep
    BY <2>2, <2>4 DEF ViewStep, LoopStep, SubagentStep, StreamStep
  <2>5. CASE StallStep(M!StallNext)
    <3>1. M!StallNext
      BY <2>5 DEF StallStep, Only
    <3>2. CASE M!ArmRead \/ (\E r \in {"data", "eof", "failed"} : M!BodyRead(r)) \/ M!DisarmRead \/ M!Close
      BY <2>1, <3>2, ReaderKeeps, Zenon
    <3>3. CASE M!Watchdog \/ M!Elapse
      BY <2>1, <3>3, WatchdogKeeps, Zenon
    <3>4. QED
      BY <3>1, <3>2, <3>3, Zenon DEF M!StallNext
  <2>6. QED
    BY <2>1, <2>3, <2>4, <2>5 DEF Next
<1>3. StallInv => StallSound
  BY DEF StallInv
<1>4. QED
  BY <1>1, <1>2, <1>3, PTL DEF Spec
=============================================================================
