--------------------------- MODULE PlannerProofs ---------------------------
(***************************************************************************)
(* What holds of _toposort (core/planner.py) for every set of notes, every  *)
(* graph and every order the edges came in.                                 *)
(*                                                                          *)
(* The inductive invariant is the bookkeeping of the loop: the table of     *)
(* prerequisites is that of the graph while the sort runs, a counter is the *)
(* number of prerequisites not popped, and what is popped has all its       *)
(* prerequisites before it.  A cycle then is what the counters say: what is *)
(* left waits for what is left, which in a finite set of notes comes back   *)
(* to itself, and what is popped never does.                                *)
(***************************************************************************)
EXTENDS Planner, FiniteSetTheorems, WellFoundedInduction, TLAPS

\* The table the loop works on is that of the graph: nothing places an edge meanwhile.
DepsFresh == Sorting => \A n \in Notes : deps[n] = Dependencies(n)

\* What was popped had its prerequisites popped before.
Ordered ==
    Sorting => \A i \in 1..Len(order) : deps[order[i]] \subseteq {order[j] : j \in 1..(i - 1)}

HeapDone == Planned => ready = {}

IInv == TypeOK /\ DepsFresh /\ Bookkeeping /\ Ordered /\ HeapDone

\* Dependencies are notes.
LEMMA DependenciesType == \A n : Dependencies(n) \subseteq Notes
BY DEF Dependencies

\* Taking a member out of a finite set takes one off its size.
LEMMA CountDown ==
    ASSUME NEW S, IsFiniteSet(S), NEW x
    PROVE  /\ x \in S => Cardinality(S \ {x}) = Cardinality(S) - 1
           /\ x \notin S => Cardinality(S \ {x}) = Cardinality(S)
<1>1. CASE x \in S BY <1>1, FS_RemoveElement
<1>2. CASE x \notin S
  <2>1. S \ {x} = S BY <1>2
  <2> QED BY <1>2, <2>1
<1> QED BY <1>1, <1>2

\* A finite set is as large as it is, and empty exactly when it counts 0.
LEMMA CountZero ==
    ASSUME NEW S, IsFiniteSet(S)
    PROVE  Cardinality(S) \in Nat /\ (Cardinality(S) = 0 <=> S = {})
BY FS_CardinalityType, FS_EmptySet

\* Any set of numbers has a smallest.
LEMMA SmallestExists ==
    ASSUME NEW S, S \subseteq Nat, S # {}
    PROVE  \E n \in S : \A m \in S : n <= m
<1> DEFINE less == {p \in Nat \X Nat : p[1] < p[2]}
<1>1. IsWellFoundedOn(less, Nat) BY NatLessThanWellFounded DEF OpToRel
<1>2. PICK n \in S : \A m \in S : <<m, n>> \notin less BY <1>1, WFMin
<1>3. \A m \in S : ~(m < n) BY <1>2
<1> QED BY <1>3

LEMMA TopReady == TypeOK /\ ready # {} => Top \in ready
<1> SUFFICES ASSUME TypeOK, ready # {} PROVE Top \in ready OBVIOUS
<1>1. ready \subseteq Nat BY PlannerAssumption DEF TypeOK
<1>2. \E n \in ready : \A m \in ready : n <= m BY <1>1, SmallestExists
<1> QED BY <1>2 DEF Top

\* Popping adds the popped note to what was popped.
LEMMA PoppedGrows ==
    ASSUME NEW t \in Notes, order \in Seq(Notes), order' = Append(order, t)
    PROVE  /\ order' \in Seq(Notes) /\ Len(order') = Len(order) + 1
           /\ \A i \in 1..Len(order) : order'[i] = order[i]
           /\ order'[Len(order) + 1] = t
           /\ Popped' = Popped \cup {t}
<1>1. /\ order' \in Seq(Notes) /\ Len(order') = Len(order) + 1
      /\ \A i \in 1..Len(order) : order'[i] = order[i]
      /\ order'[Len(order) + 1] = t
  OBVIOUS
<1>2. Popped' = {order'[i] : i \in 1..(Len(order) + 1)} BY <1>1 DEF Popped
<1>3. Len(order) \in Nat OBVIOUS
<1>4. 1..(Len(order) + 1) = 1..Len(order) \cup {Len(order) + 1} BY <1>3
<1>5. Popped' \subseteq Popped \cup {t} BY <1>1, <1>2, <1>4 DEF Popped
<1>6. Popped \cup {t} \subseteq Popped' BY <1>1, <1>2, <1>4 DEF Popped
<1> QED BY <1>1, <1>5, <1>6

-----------------------------------------------------------------------------
(* The invariant *)

LEMMA InitIInv == Init => IInv
<1> SUFFICES ASSUME Init PROVE IInv OBVIOUS
<1>1. TypeOK BY PlannerAssumption DEF Init, TypeOK, NoPrereqs, Statuses
<1>2. ~Sorting /\ ~Planned BY DEF Init, Sorting, Planned
<1> QED BY <1>1, <1>2 DEF IInv, DepsFresh, Bookkeeping, Ordered, HeapDone

\* Whatever makes the plan stale leaves nothing to prove but the types.
LEMMA OutdatedIInv == TypeOK' /\ Outdated => IInv'
BY DEF Outdated, IInv, DepsFresh, Bookkeeping, Ordered, HeapDone, Sorting, Planned

\* Starting a projection sets the counters up.
LEMMA BuildIInv == IInv /\ Build => IInv'
<1> SUFFICES ASSUME IInv, Build PROVE IInv' OBVIOUS
<1> USE DEF Build, graph
<1>0. TypeOK BY DEF IInv
<1>1. \A n \in Notes : Dependencies(n) \subseteq Notes /\ IsFiniteSet(Dependencies(n))
  BY DependenciesType, FS_Subset, PlannerAssumption
<1>2. \A n \in Notes : Cardinality(Dependencies(n)) \in Nat BY <1>1, FS_CardinalityType
<1>3. TypeOK'
  <2>1. deps' \in [Notes -> SUBSET Notes] BY <1>1
  <2>2. indegree' \in [Notes -> Nat] BY <1>2
  <2>3. ready' \subseteq Notes OBVIOUS
  <2> QED BY <1>0, <2>1, <2>2, <2>3 DEF TypeOK
<1>4. DepsFresh'
  BY <1>0 DEF DepsFresh, Dependencies, TypeOK
<1>5. Len(order') = 0 /\ Popped' = {} BY DEF Popped
<1>6. Bookkeeping'
  <2>1. \A n \in Notes : indegree'[n] = Cardinality(deps'[n] \ Popped')
    BY <1>5
  <2>2. ready' = {n \in Notes : indegree'[n] = 0} \ Popped'
    BY <1>1, <1>5, CountZero
  <2> QED BY <2>1, <2>2, <1>5 DEF Bookkeeping
<1>7. Ordered' BY <1>5 DEF Ordered
<1>8. HeapDone' BY DEF HeapDone, Planned
<1> QED BY <1>3, <1>4, <1>6, <1>7, <1>8 DEF IInv

\* One turn of the loop keeps the books.
LEMMA PopIInv == IInv /\ Pop => IInv'
<1> SUFFICES ASSUME IInv, Pop PROVE IInv' OBVIOUS
<1> USE DEF Pop, graph
<1>0. TypeOK /\ DepsFresh /\ Bookkeeping /\ Ordered /\ Sorting BY DEF IInv, Sorting
<1> DEFINE t == Top
<1>1. t \in ready /\ t \in Notes BY <1>0, TopReady DEF TypeOK
<1>2. indegree[t] = 0 /\ t \notin Popped BY <1>0, <1>1 DEF Bookkeeping
<1>3. /\ order' \in Seq(Notes) /\ Len(order') = Len(order) + 1
      /\ \A i \in 1..Len(order) : order'[i] = order[i]
      /\ order'[Len(order) + 1] = t
      /\ Popped' = Popped \cup {t}
  BY <1>0, <1>1, PoppedGrows DEF TypeOK
<1>4. \A n \in Notes : /\ deps[n] \subseteq Notes /\ IsFiniteSet(deps[n])
                       /\ IsFiniteSet(deps[n] \ Popped)
                       /\ indegree[n] = Cardinality(deps[n] \ Popped)
                       /\ indegree[n] \in Nat
  <2>1. \A n \in Notes : deps[n] \subseteq Notes BY <1>0 DEF TypeOK
  <2>2. \A n \in Notes : IsFiniteSet(deps[n]) BY <2>1, PlannerAssumption, FS_Subset
  <2>3. \A n \in Notes : IsFiniteSet(deps[n] \ Popped) BY <2>2, FS_Subset
  <2> QED BY <1>0, <2>1, <2>2, <2>3 DEF Bookkeeping, TypeOK
\* The counter of a dependent goes down by one, and t was still to come for it.
<1>5. ASSUME NEW n \in Notes
      PROVE  /\ t \in deps[n] => indegree[n] >= 1 /\ indegree'[n] = indegree[n] - 1
             /\ t \notin deps[n] => indegree'[n] = indegree[n]
             /\ indegree'[n] \in Nat
             /\ indegree'[n] = Cardinality(deps[n] \ Popped')
  <2>1. deps[n] \ Popped' = (deps[n] \ Popped) \ {t} BY <1>3
  <2>2. indegree'[n] = IF t \in deps[n] THEN indegree[n] - 1 ELSE indegree[n] OBVIOUS
  <2>3. CASE t \in deps[n]
    <3>1. t \in deps[n] \ Popped BY <1>2, <2>3
    <3>2. Cardinality((deps[n] \ Popped) \ {t}) = Cardinality(deps[n] \ Popped) - 1
      BY <1>4, <3>1, CountDown
    <3>3. indegree[n] # 0 BY <1>4, <3>1, CountZero
    <3>4. indegree[n] \in Nat /\ indegree[n] = Cardinality(deps[n] \ Popped) BY <1>4
    <3>5. Cardinality(deps[n] \ Popped') = indegree[n] - 1 BY <2>1, <3>2, <3>4
    <3>6. indegree'[n] = indegree[n] - 1 BY <2>2, <2>3
    <3>7. indegree[n] >= 1 /\ indegree[n] - 1 \in Nat BY <3>3, <3>4
    <3> QED BY <2>3, <3>5, <3>6, <3>7
  <2>4. CASE t \notin deps[n]
    <3>1. (deps[n] \ Popped) \ {t} = deps[n] \ Popped BY <2>4
    <3> QED BY <1>4, <2>1, <2>2, <2>4, <3>1
  <2> QED BY <2>3, <2>4
<1>6. TypeOK'
  <2>1. indegree' \in [Notes -> Nat] BY <1>5
  <2>2. ready' \subseteq Notes BY <1>0 DEF TypeOK, Freed
  <2> QED BY <1>0, <1>3, <2>1, <2>2 DEF TypeOK
<1>7. DepsFresh' BY <1>0 DEF DepsFresh, Dependencies, Sorting
<1>8. Bookkeeping'
  <2>1. \A n \in Notes : indegree'[n] = Cardinality(deps'[n] \ Popped') BY <1>5
  <2>2. ASSUME NEW n \in Notes
        PROVE  n \in ready' <=> indegree'[n] = 0 /\ n \notin Popped'
    <3>1. n \in ready <=> indegree[n] = 0 /\ n \notin Popped BY <1>0 DEF Bookkeeping
    <3>2. n \in Freed(t) <=> t \in deps[n] /\ indegree[n] = 1 BY DEF Freed
    <3>3. ready' = (ready \ {t}) \cup Freed(t) OBVIOUS
    <3>4. CASE n = t
      <4>1. t \notin Freed(t) BY <1>2, <3>2, <3>4
      <4> QED BY <1>3, <3>3, <3>4, <4>1
    <3>5. CASE n # t /\ t \in deps[n]
      <4>1. indegree[n] \in Nat /\ indegree[n] >= 1 /\ indegree'[n] = indegree[n] - 1
        BY <1>4, <1>5, <3>5
      <4>2. n \notin ready BY <3>1, <4>1
      \* A popped note has no prerequisite to come, so n is not popped.
      <4>3. n \notin Popped
        <5> SUFFICES ASSUME n \in Popped PROVE FALSE OBVIOUS
        <5>1. PICK i \in 1..Len(order) : order[i] = n BY DEF Popped
        <5>2. deps[n] \subseteq {order[j] : j \in 1..(i - 1)} BY <1>0, <5>1 DEF Ordered
        <5>3. {order[j] : j \in 1..(i - 1)} \subseteq Popped
          BY <1>0, <5>1 DEF Popped, TypeOK
        <5> QED BY <1>2, <3>5, <5>2, <5>3
      <4>4. n \in ready' <=> indegree[n] = 1 BY <3>2, <3>3, <3>5, <4>2
      <4>5. n \notin Popped' BY <1>3, <3>5, <4>3
      <4> QED BY <4>1, <4>4, <4>5
    <3>6. CASE n # t /\ t \notin deps[n]
      <4>1. indegree'[n] = indegree[n] BY <1>5, <3>6
      <4> QED BY <1>3, <3>1, <3>2, <3>3, <3>6, <4>1
    <3> QED BY <3>4, <3>5, <3>6
  <2>3. ready' = {n \in Notes : indegree'[n] = 0} \ Popped' BY <1>6, <2>2 DEF TypeOK
  <2>4. ASSUME NEW i \in 1..Len(order'), NEW j \in 1..Len(order'), order'[i] = order'[j]
        PROVE  i = j
    <3>0. Len(order) \in Nat BY <1>0 DEF TypeOK
    <3>1. CASE i \in 1..Len(order) /\ j \in 1..Len(order)
      BY <1>0, <1>3, <2>4, <3>1 DEF Bookkeeping
    <3>2. CASE i = Len(order) + 1 /\ j \in 1..Len(order)
      BY <1>2, <1>3, <2>4, <3>2 DEF Popped
    <3>3. CASE j = Len(order) + 1 /\ i \in 1..Len(order)
      BY <1>2, <1>3, <2>4, <3>3 DEF Popped
    <3>4. CASE i = Len(order) + 1 /\ j = Len(order) + 1 BY <3>4
    <3> QED BY <1>3, <3>0, <3>1, <3>2, <3>3, <3>4
  <2> QED BY <2>1, <2>3, <2>4 DEF Bookkeeping
<1>9. Ordered'
  <2> SUFFICES ASSUME NEW i \in 1..Len(order')
               PROVE  deps[order'[i]] \subseteq {order'[j] : j \in 1..(i - 1)}
    BY DEF Ordered
  <2>0. Len(order) \in Nat BY <1>0 DEF TypeOK
  <2>1. CASE i \in 1..Len(order)
    <3>1. deps[order[i]] \subseteq {order[j] : j \in 1..(i - 1)} BY <1>0, <2>1 DEF Ordered
    <3>2. \A j \in 1..(i - 1) : order'[j] = order[j] BY <1>3, <2>0, <2>1
    <3> QED BY <1>3, <2>1, <3>1, <3>2
  <2>2. CASE i = Len(order) + 1
    <3>1. order'[i] = t BY <1>3, <2>2
    <3>2. deps[t] \subseteq Popped
      <4>1. Cardinality(deps[t] \ Popped) = 0 BY <1>1, <1>2, <1>4
      <4>2. IsFiniteSet(deps[t] \ Popped) BY <1>1, <1>4
      <4>3. deps[t] \ Popped = {} BY <4>1, <4>2, CountZero
      <4> QED BY <4>3
    <3>3. Popped \subseteq {order'[j] : j \in 1..(i - 1)} BY <1>3, <2>0, <2>2 DEF Popped
    <3> QED BY <3>1, <3>2, <3>3
  <2>3. i \in 1..Len(order) \/ i = Len(order) + 1 BY <1>3, <2>0
  <2> QED BY <2>1, <2>2, <2>3
<1>10. HeapDone' BY DEF HeapDone, Planned
<1> QED BY <1>6, <1>7, <1>8, <1>9, <1>10 DEF IInv

\* The loop ends with an empty heap.
LEMMA FinishIInv == IInv /\ Finish => IInv'
<1> SUFFICES ASSUME IInv, Finish PROVE IInv' OBVIOUS
<1> USE DEF Finish, graph
<1>0. TypeOK /\ DepsFresh /\ Bookkeeping /\ Ordered /\ Sorting BY DEF IInv, Sorting
<1>1. Popped \subseteq Notes BY <1>0 DEF TypeOK, Popped
<1>2. TypeOK' BY <1>0, <1>1 DEF TypeOK
<1>3. DepsFresh' BY <1>0 DEF DepsFresh, Dependencies
<1>4. Bookkeeping' BY <1>0 DEF Bookkeeping, Popped
<1>5. Ordered' BY <1>0 DEF Ordered
<1>6. HeapDone' BY DEF HeapDone
<1> QED BY <1>2, <1>3, <1>4, <1>5, <1>6 DEF IInv

\* What happens to the graph only makes the plan stale.
LEMMA GraphTypes ==
    /\ \A e \in Edges : TypeOK /\ Place(e) => TypeOK'
    /\ \A n \in Notes, s \in Marks : TypeOK /\ SetStatus(n, s) => TypeOK'
    /\ \A n \in Notes : TypeOK /\ Work(n) => TypeOK'
<1>0. Outdated => /\ phase' \in {"stale", "sort", "planned"} /\ deps' \in [Notes -> SUBSET Notes]
                  /\ indegree' \in [Notes -> Nat] /\ ready' \subseteq Notes
                  /\ order' \in Seq(Notes) /\ open' \subseteq Notes
  BY DEF Outdated, NoPrereqs
<1>1. ASSUME NEW e \in Edges, TypeOK, Place(e) PROVE TypeOK'
  <2>1. e.source \in Notes /\ e.target \in Notes BY PlannerAssumption
  <2>2. parent' \in [Notes -> Notes \cup {None}] BY <1>1, <2>1 DEF Place, Adopted, TypeOK
  <2> QED BY <1>0, <1>1, <2>2 DEF Place, TypeOK
<1>2. ASSUME NEW n \in Notes, NEW s \in Marks, TypeOK, SetStatus(n, s) PROVE TypeOK'
  <2>1. s \in Statuses BY PlannerAssumption
  <2> QED BY <1>0, <1>2, <2>1 DEF SetStatus, TypeOK
<1>3. ASSUME NEW n \in Notes, TypeOK, Work(n) PROVE TypeOK'
  <2>1. "done" \in Statuses BY DEF Statuses
  <2> QED BY <1>0, <1>3, <2>1 DEF Work, TypeOK
<1> QED BY <1>1, <1>2, <1>3

LEMMA StepIInv == IInv /\ [Next]_vars => IInv'
<1> SUFFICES ASSUME IInv, [Next]_vars PROVE IInv' OBVIOUS
<1>1. ASSUME NEW e \in Edges, Place(e) PROVE IInv'
  BY <1>1, GraphTypes, OutdatedIInv DEF Place, IInv
<1>2. ASSUME NEW n \in Notes, NEW s \in Marks, SetStatus(n, s) PROVE IInv'
  BY <1>2, GraphTypes, OutdatedIInv DEF SetStatus, IInv
<1>3. CASE Build BY <1>3, BuildIInv
<1>4. CASE Pop BY <1>4, PopIInv
<1>5. CASE Finish BY <1>5, FinishIInv
<1>6. ASSUME NEW n \in Notes, Work(n) PROVE IInv'
  BY <1>6, GraphTypes, OutdatedIInv DEF Work, IInv
<1>7. CASE UNCHANGED vars
  BY <1>7 DEF vars, graph, plan, IInv, TypeOK, DepsFresh, Dependencies, Bookkeeping, Ordered,
              HeapDone, Sorting, Planned, Popped
<1> QED BY <1>1, <1>2, <1>3, <1>4, <1>5, <1>6, <1>7 DEF Next

\* The bookkeeping of the loop is invariant, for every graph.
THEOREM Invariant == Spec => []IInv
<1>1. Init => IInv BY InitIInv
<1>2. IInv /\ [Next]_vars => IInv' BY StepIInv
<1> QED BY <1>1, <1>2, PTL DEF Spec

-----------------------------------------------------------------------------
(* What follows from it *)

\* The variables keep their types; no counter of the loop goes below zero.
THEOREM TypeCorrect == Spec => []TypeOK
<1>1. IInv => TypeOK BY DEF IInv
<1> QED BY <1>1, Invariant, PTL

\* The counters, the heap and the order of _toposort agree at every turn.
THEOREM BookkeepingHolds == Spec => []Bookkeeping
<1>1. IInv => Bookkeeping BY DEF IInv
<1> QED BY <1>1, Invariant, PTL

\* The order every view shares respects every edge, whichever way it points.
THEOREM OrderTopologicalHolds == Spec => []OrderTopological
<1>1. IInv => OrderTopological
  <2> SUFFICES ASSUME IInv, Sorting, NEW e \in edges, NEW i \in 1..Len(order), NEW p \in Notes,
                      Orders(e, p, order[i])
               PROVE  \E j \in 1..(i - 1) : order[j] = p
    BY DEF OrderTopological
  <2>1. order[i] \in Notes BY DEF IInv, TypeOK
  <2>2. p \in Dependencies(order[i]) BY <2>1 DEF Orders, Dependencies
  <2>3. p \in deps[order[i]] BY <2>1, <2>2 DEF IInv, DepsFresh
  <2>4. deps[order[i]] \subseteq {order[j] : j \in 1..(i - 1)} BY DEF IInv, Ordered
  <2> QED BY <2>3, <2>4
<1> QED BY <1>1, Invariant, PTL

\* What was left out of the order is what is reported, and what was not needs none of it.
LEMMA StuckLeft ==
    ASSUME IInv, Planned
    PROVE  /\ Cycle = Notes \ Popped /\ \A n \in Cycle : deps[n] \cap Cycle # {}
           /\ \A n \in Popped : deps[n] \subseteq Popped
<1>0. TypeOK /\ Bookkeeping /\ Ordered /\ ready = {} /\ Sorting
  BY DEF IInv, HeapDone, Planned, Sorting
<1>1. \A n \in Notes : /\ deps[n] \subseteq Notes /\ IsFiniteSet(deps[n] \ Popped)
                       /\ indegree[n] = Cardinality(deps[n] \ Popped)
  <2>1. \A n \in Notes : deps[n] \subseteq Notes BY <1>0 DEF TypeOK
  <2>2. \A n \in Notes : IsFiniteSet(deps[n] \ Popped)
    BY <2>1, PlannerAssumption, FS_Subset
  <2> QED BY <1>0, <2>1, <2>2 DEF Bookkeeping
<1>2. \A n \in Notes : indegree[n] > 0 <=> deps[n] \ Popped # {}
  <2>1. \A n \in Notes : indegree[n] \in Nat BY <1>0 DEF TypeOK
  <2>2. \A n \in Notes : indegree[n] = 0 <=> deps[n] \ Popped = {} BY <1>1, CountZero
  <2> QED BY <2>1, <2>2
<1>3. \A n \in Notes : indegree[n] = 0 => n \in Popped BY <1>0 DEF Bookkeeping
<1>4. \A n \in Popped : deps[n] \subseteq Popped
  <2> SUFFICES ASSUME NEW i \in 1..Len(order) PROVE deps[order[i]] \subseteq Popped
    BY DEF Popped
  <2>1. deps[order[i]] \subseteq {order[j] : j \in 1..(i - 1)} BY <1>0 DEF Ordered
  <2>2. {order[j] : j \in 1..(i - 1)} \subseteq Popped BY <1>0 DEF Popped, TypeOK
  <2> QED BY <2>1, <2>2
<1>5. \A n \in Notes : indegree[n] \in Nat BY <1>0 DEF TypeOK
<1>6. Cycle = Notes \ Popped BY <1>2, <1>3, <1>4, <1>5 DEF Cycle
<1>7. ASSUME NEW n \in Cycle PROVE deps[n] \cap Cycle # {}
  <2>1. n \in Notes /\ deps[n] \ Popped # {} BY <1>2 DEF Cycle
  <2> QED BY <1>1, <1>6, <2>1
<1> QED BY <1>4, <1>6, <1>7

\* Every note reported as part of a cycle waits for another one that is, and
\* every other note is in the order.
THEOREM CycleStuckHolds == Spec => []CycleStuck
<1>1. IInv => CycleStuck BY StuckLeft DEF CycleStuck
<1> QED BY <1>1, Invariant, PTL

\* One step reaches, and what is reached from what is reached is reached.
LEMMA ReachesStep ==
    ASSUME NEW step \in [Notes -> SUBSET Notes], NEW n \in Notes
    PROVE  /\ \A m \in step[n] : <<n, m>> \in Reaches(step)
           /\ \A m, k \in Notes : <<n, m>> \in Reaches(step) /\ <<m, k>> \in Reaches(step)
                                     => <<n, k>> \in Reaches(step)
BY DEF Reaches

\* A set closed under the steps holds what is reached from whoever steps into it.
LEMMA ReachesClosed ==
    ASSUME NEW step, NEW n, NEW m, <<n, m>> \in Reaches(step), NEW S \in SUBSET Notes,
           \A k \in S : step[k] \subseteq S, step[n] \subseteq S
    PROVE  m \in S
BY DEF Reaches

\* In a finite set where each has a next one, every chain comes back to itself.
LEMMA ReachesCircle ==
    ASSUME NEW step \in [Notes -> SUBSET Notes], NEW C \in SUBSET Notes,
           \A n \in C : step[n] \cap C # {}, NEW n \in C
    PROVE  \E m \in Notes : <<n, m>> \in Reaches(step) /\ <<m, m>> \in Reaches(step)
<1> DEFINE reaches == Reaches(step)
           below(k) == {m \in Notes : <<k, m>> \in reaches}
           W == {k \in C : k = n \/ <<n, k>> \in reaches}
           sizes == {Cardinality(below(k)) : k \in W}
<1> SUFFICES ASSUME \A m \in Notes : ~(<<n, m>> \in reaches /\ <<m, m>> \in reaches) PROVE FALSE
  OBVIOUS
<1>1. /\ \A k \in Notes : \A m \in step[k] : m \in Notes /\ <<k, m>> \in reaches
      /\ \A j, m, k \in Notes : <<j, m>> \in reaches /\ <<m, k>> \in reaches => <<j, k>> \in reaches
  BY ReachesStep
<1> HIDE DEF reaches
<1>2. \A k \in W : k \in Notes /\ k \notin below(k) OBVIOUS
<1>3. \A k : IsFiniteSet(below(k)) /\ Cardinality(below(k)) \in Nat
  <2> SUFFICES ASSUME NEW k PROVE IsFiniteSet(below(k)) /\ Cardinality(below(k)) \in Nat OBVIOUS
  <2>1. below(k) \subseteq Notes OBVIOUS
  <2> HIDE DEF below
  <2>2. IsFiniteSet(below(k)) BY <2>1, PlannerAssumption, FS_Subset
  <2> QED BY <2>2, FS_CardinalityType
<1>4. PICK k \in W : \A m \in W : Cardinality(below(k)) <= Cardinality(below(m))
  <2>1. n \in W OBVIOUS
  <2> HIDE DEF W, below
  <2>2. sizes \subseteq Nat /\ sizes # {} BY <1>3, <2>1
  <2>3. PICK s \in sizes : \A t \in sizes : s <= t BY <2>2, SmallestExists
  <2> QED BY <2>3
<1>5. PICK m \in C : m \in step[k] OBVIOUS
<1>6. m \in W /\ m \in below(k) /\ below(m) \subseteq below(k)
  <2>1. k \in Notes /\ m \in Notes /\ <<k, m>> \in reaches /\ (k = n \/ <<n, k>> \in reaches)
    BY <1>1, <1>2, <1>5
  <2> QED BY <1>1, <1>5, <2>1
<1>7. below(m) # below(k) BY <1>2, <1>6
<1>8. Cardinality(below(m)) <= Cardinality(below(k)) /\ Cardinality(below(m)) # Cardinality(below(k))
  <2> HIDE DEF below
  <2> QED BY <1>3, <1>6, <1>7, FS_Subset
<1>9. Cardinality(below(k)) <= Cardinality(below(m)) BY <1>4, <1>6
<1> HIDE DEF below
<1> QED BY <1>3, <1>8, <1>9

(* The notes reported as a cycle are exactly those whose prerequisites, or    *)
(* those of their prerequisites, come back to themselves (_toposort).         *)
THEOREM CycleExactHolds == Spec => []CycleExact
<1>1. IInv => CycleExact
  <2> SUFFICES ASSUME IInv, Planned PROVE CycleExact BY DEF CycleExact
  <2> DEFINE needs == Reaches(deps)
  <2>0. /\ TypeOK /\ Ordered /\ Bookkeeping /\ Sorting /\ deps \in [Notes -> SUBSET Notes]
        /\ Len(order) \in Nat /\ \A i \in 1..Len(order) : order[i] \in Notes
    BY DEF IInv, TypeOK, Planned, Sorting
  <2>1. /\ Cycle = Notes \ Popped /\ \A n \in Cycle : deps[n] \cap Cycle # {}
        /\ \A n \in Popped : deps[n] \subseteq Popped
    BY StuckLeft
  <2>2. ASSUME NEW n \in Cycle
        PROVE  \E m \in Notes : <<n, m>> \in needs /\ <<m, m>> \in needs
    <3>1. Cycle \in SUBSET Notes BY <2>1
    <3> QED BY <2>0, <2>1, <3>1, ReachesCircle
  <2>3. ASSUME NEW n \in Notes, NEW m \in Notes, <<n, m>> \in needs, <<m, m>> \in needs
        PROVE  n \in Cycle
    <3> SUFFICES ASSUME n \in Popped PROVE FALSE BY <2>1
    <3>1. Popped \subseteq Notes BY <2>0 DEF Popped
    <3>2. m \in Popped BY <2>1, <2>3, <3>1, ReachesClosed
    <3>3. PICK i \in 1..Len(order) : order[i] = m BY <3>2 DEF Popped
    <3> DEFINE S == {order[j] : j \in 1..(i - 1)}
    <3>4. S \subseteq Notes /\ deps[m] \subseteq S BY <2>0, <3>3 DEF Ordered
    <3>5. \A k \in S : deps[k] \subseteq S
      <4> SUFFICES ASSUME NEW j \in 1..(i - 1) PROVE deps[order[j]] \subseteq S OBVIOUS
      <4>1. j \in 1..Len(order) /\ 1..(j - 1) \subseteq 1..(i - 1) BY <2>0
      <4>2. deps[order[j]] \subseteq {order[k] : k \in 1..(j - 1)} BY <2>0, <4>1 DEF Ordered
      <4> QED BY <4>1, <4>2
    <3> HIDE DEF S
    <3>6. m \in S BY <2>3, <3>4, <3>5, ReachesClosed
    <3>7. PICK j \in 1..(i - 1) : order[j] = m BY <3>6 DEF S
    <3>8. j \in 1..Len(order) /\ j # i BY <2>0
    <3> QED BY <2>0, <3>3, <3>7, <3>8 DEF Bookkeeping
  <2> HIDE DEF needs
  <2>4. \A n \in Cycle : n \in Notes BY <2>1
  <2>5. Cycle = {n \in Notes : \E m \in {k \in Notes : <<k, k>> \in needs} : <<n, m>> \in needs}
    BY <2>2, <2>3, <2>4
  <2> QED BY <2>5 DEF CycleExact, needs
<1> QED BY <1>1, Invariant, PTL
=============================================================================
