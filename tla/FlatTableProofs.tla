--------------------------- MODULE FlatTableProofs ---------------------------
(***************************************************************************)
(* The operators of FlatTable, for every capacity, every hash function and *)
(* every set of keys.  The backward shift is a loop without a counter: the *)
(* first part says what can be proved of such a loop.                      *)
(***************************************************************************)
EXTENDS FlatTable, FiniteSetTheorems, WellFoundedInduction, TLAPS

\* A nonempty set of naturals has a least member.
LEMMA LeastNatural ==
  ASSUME NEW T, T \subseteq Nat, T # {}
  PROVE  \E m \in T : \A n \in T : m <= n
<1> DEFINE F == {0 .. n : n \in T}
           R == StrictSubsetOrdering(Nat)
<1>1. F \subseteq FiniteSubsetsOf(Nat) /\ F # {}
  <2>1. ASSUME NEW n \in T
        PROVE  0 .. n \in FiniteSubsetsOf(Nat)
    <3>1. n \in Int /\ IsFiniteSet(0 .. n)
      BY FS_Interval
    <3> QED
      BY <3>1 DEF FiniteSubsetsOf
  <2> QED
    BY <2>1
<1>2. PICK x \in F : \A y \in F : ~(<<y, x>> \in R)
  <2>1. IsWellFoundedOn(R, FiniteSubsetsOf(Nat))
    BY FS_StrictSubsetOrderingWellFounded
  <2> HIDE DEF F, R
  <2> QED
    BY <1>1, <2>1, WFMin
<1>3. PICK m \in T : x = 0 .. m
  OBVIOUS
<1>4. ASSUME NEW n \in T
      PROVE  m <= n
  <2>1. 0 .. n \in F
    OBVIOUS
  <2>2. ~(0 .. n \subseteq 0 .. m /\ 0 .. n # 0 .. m)
    <3>1. 0 .. n \in SUBSET Nat /\ 0 .. m \in SUBSET Nat
      OBVIOUS
    <3>2. ~(<<0 .. n, 0 .. m>> \in R)
      BY <1>2, <1>3, <2>1
    <3> QED
      BY <3>1, <3>2 DEF StrictSubsetOrdering
  <2>3. CASE n < m
    <3>1. m \in 0 .. m /\ m \notin 0 .. n /\ 0 .. n \subseteq 0 .. m
      BY <2>3
    <3> QED
      BY <2>2, <3>1
  <2> QED
    BY <2>3
<1> QED
  BY <1>4

\* Induction with the set of naturals that satisfy the claim in place of a
\* predicate.
LEMMA InductionOnNat ==
  ASSUME NEW S, 0 \in S, \A n \in Nat : n \in S => n + 1 \in S
  PROVE  Nat \subseteq S
<1> DEFINE T == Nat \ S
<1> SUFFICES ASSUME T # {}
             PROVE  FALSE
  OBVIOUS
<1>1. PICK m \in T : \A n \in T : m <= n
  <2>1. T \subseteq Nat
    OBVIOUS
  <2> HIDE DEF T
  <2> QED
    BY <2>1, LeastNatural
<1>2. m \in Nat /\ m # 0
  OBVIOUS
<1>3. m - 1 \in Nat /\ m - 1 \in S
  BY <1>1, <1>2
<1>4. (m - 1) + 1 \in S
  BY <1>3
<1> QED
  BY <1>2, <1>4

(* A loop over a state space.  *)
Orbit(D, done, step, x) ==
  {y \in D : \A S \in SUBSET D :
     x \in S /\ (\A z \in S \ done : step[z] \in S) => y \in S}

Computes(w, D, done, step, out) ==
  w = [x \in D |-> IF x \in done THEN out[x] ELSE w[step[x]]]

\* A loop over a domain D has a result function: where it ends its output,
\* elsewhere the next state's.
LEMMA LoopExists ==
  ASSUME NEW D, NEW done, NEW step \in [D -> D], NEW out
  PROVE  \E w : Computes(w, D, done, step, out)
<1> DEFINE ends(x) == Orbit(D, done, step, x) \cap done
           w == [x \in D |-> IF x \in done THEN out[x] ELSE out[CHOOSE y : y \in ends(x)]]
<1>1. ASSUME NEW x \in D
      PROVE  x \in Orbit(D, done, step, x)
  BY DEF Orbit
<1>2. ASSUME NEW x \in D \ done
      PROVE  ends(x) = ends(step[x])
  <2>1. ASSUME NEW y \in ends(x)
        PROVE  y \in ends(step[x])
    <3> SUFFICES ASSUME NEW S \in SUBSET D, step[x] \in S,
                        \A z \in S \ done : step[z] \in S
                 PROVE  y \in S
      BY DEF Orbit
    <3>1. y \in S \cup {x}
      <4>1. S \cup {x} \in SUBSET D
        OBVIOUS
      <4> QED
        BY <4>1 DEF Orbit
    <3> QED
      BY <3>1
  <2>2. ASSUME NEW y \in ends(step[x])
        PROVE  y \in ends(x)
    BY DEF Orbit
  <2> QED
    BY <2>1, <2>2
<1>3. ASSUME NEW x \in done, x \in D
      PROVE  ends(x) = {x}
  <2>1. ASSUME NEW y \in ends(x)
        PROVE  y = x
    <3>1. {x} \in SUBSET D
      BY <1>3
    <3> QED
      BY <3>1 DEF Orbit
  <2> QED
    BY <1>1, <1>3, <2>1
<1>4. w = [x \in D |-> IF x \in done THEN out[x] ELSE w[step[x]]]
  <2> SUFFICES ASSUME NEW x \in D \ done
               PROVE  out[CHOOSE y : y \in ends(x)] = w[step[x]]
    OBVIOUS
  <2>1. step[x] \in D
    OBVIOUS
  <2>2. CASE step[x] \in done
    <3>1. ends(x) = {step[x]}
      BY <1>2, <1>3, <2>1, <2>2
    <3> HIDE DEF ends
    <3> QED
      BY <2>1, <2>2, <3>1
  <2>3. CASE step[x] \notin done
    <3>1. ends(x) = ends(step[x])
      BY <1>2
    <3> HIDE DEF ends
    <3> QED
      BY <2>1, <2>3, <3>1
  <2> QED
    BY <2>2, <2>3
<1> HIDE DEF w
<1> QED
  BY <1>4 DEF Computes

\* The rule for loops: an invariant kept by each step and a measure each step
\* lowers give a final state in the invariant that yields the result.
LEMMA LoopEnds ==
  ASSUME NEW D, NEW done, NEW step \in [D -> D], NEW out,
         NEW w, Computes(w, D, done, step, out),
         NEW inv \in SUBSET D, \A x \in inv \ done : step[x] \in inv,
         NEW major \in [D -> Nat], NEW minor \in [D -> Nat],
         \A x \in inv \ done :
           \/ major[step[x]] < major[x]
           \/ major[step[x]] = major[x] /\ minor[step[x]] < minor[x],
         NEW start \in inv
  PROVE  \E y \in inv \cap done : w[start] = out[y]
<1> DEFINE bad == {x \in inv : ~\E y \in inv \cap done : w[x] = out[y]}
<1> SUFFICES ASSUME start \in bad
             PROVE  FALSE
  OBVIOUS
<1>0. \A x \in inv \cap done : x \notin bad
  BY DEF Computes
<1>1. PICK n \in {major[x] : x \in bad} : \A m \in {major[x] : x \in bad} : n <= m
  <2>1. {major[x] : x \in bad} \subseteq Nat /\ {major[x] : x \in bad} # {}
    OBVIOUS
  <2> QED
    BY ONLY <2>1, LeastNatural
<1> DEFINE worst == {x \in bad : major[x] = n}
<1> DEFINE M == {minor[x] : x \in worst}
<1>2. PICK k \in M : \A m \in M : k <= m
  <2>1. worst \subseteq D /\ worst # {}
    OBVIOUS
  <2>2. M \subseteq Nat /\ M # {}
    <3> HIDE DEF worst
    <3> QED
      BY <2>1
  <2> HIDE DEF M
  <2> QED
    BY ONLY <2>2, LeastNatural
<1>3. PICK x \in worst : k = minor[x]
  OBVIOUS
<1>4. x \in inv /\ x \notin done /\ x \in D /\ major[x] = n /\ n \in Nat /\ k \in Nat
  BY <1>0
<1>5. step[x] \in inv /\ w[x] = w[step[x]]
  BY <1>4 DEF Computes
<1>6. step[x] \in bad
  BY <1>5
<1>7. n <= major[step[x]] /\ (major[step[x]] = n => k <= minor[step[x]])
  BY <1>1, <1>2, <1>6
<1>8. major[step[x]] \in Nat /\ minor[step[x]] \in Nat
  BY <1>5
<1>9. \/ major[step[x]] < n
      \/ major[step[x]] = n /\ minor[step[x]] < k
  BY <1>3, <1>4
<1> HIDE DEF bad, worst, M
<1> QED
  BY <1>4, <1>7, <1>8, <1>9

-----------------------------------------------------------------------------
(***************************************************************************)
(* Cyclic arithmetic.                                                      *)
(***************************************************************************)
LEMMA CapacityPositive == Capacity \in Nat /\ Capacity > 0
BY CapacityAssumption

\* What % gives within one capacity of the array on either side.
LEMMA Remainder ==
  ASSUME NEW n \in Int, -Capacity <= n, n < 2 * Capacity
  PROVE  n % Capacity = IF n < 0 THEN n + Capacity
                        ELSE IF n < Capacity THEN n ELSE n - Capacity
BY CapacityPositive

\* The cyclic distance from a to b, without %.
LEMMA DistanceIs ==
  ASSUME NEW a \in Slots, NEW b \in Slots
  PROVE  /\ Distance(a, b) = IF a <= b THEN b - a ELSE b - a + Capacity
         /\ Distance(a, b) \in Slots
         /\ Distance(a, b) \in Nat
BY CapacityPositive, Remainder DEF Distance, Slots

\* The slot d places on, without %.
LEMMA ForwardIs ==
  ASSUME NEW a \in Slots, NEW d \in Slots
  PROVE  /\ (a + d) % Capacity = IF a + d < Capacity THEN a + d ELSE a + d - Capacity
         /\ (a + d) % Capacity \in Slots
BY CapacityPositive, Remainder DEF Slots

\* The slot after a, without %.
LEMMA AfterIs ==
  ASSUME NEW a \in Slots
  PROVE  /\ After(a) = IF a + 1 = Capacity THEN 0 ELSE a + 1
         /\ After(a) \in Slots
BY CapacityPositive, Remainder DEF Slots, After

\* The shift loop's cursor comes nearer to the hole with every step.
LEMMA AfterIsNearer ==
  ASSUME NEW cur \in Slots, NEW hole \in Slots, cur # hole
  PROVE  Distance(After(cur), hole) = Distance(cur, hole) - 1
<1>1. /\ After(cur) \in Slots
      /\ After(cur) = IF cur + 1 = Capacity THEN 0 ELSE cur + 1
  BY AfterIs
<1>2. Distance(After(cur), hole) =
        IF After(cur) <= hole THEN hole - After(cur) ELSE hole - After(cur) + Capacity
  BY <1>1, DistanceIs
<1>3. Distance(cur, hole) = IF cur <= hole THEN hole - cur ELSE hole - cur + Capacity
  BY DistanceIs
<1>4. cur \in 0 .. Capacity - 1 /\ hole \in 0 .. Capacity - 1
  BY DEF Slots
<1> QED
  BY ONLY <1>1, <1>2, <1>3, <1>4, CapacityPositive, cur # hole

\* An entry pulled back lies behind the hole, so that it ends nearer to its
\* natural slot.
LEMMA GapIsPart ==
  ASSUME NEW nat \in Slots, NEW hole \in Slots, NEW cur \in Slots, cur # hole,
         PullsBack(nat, hole, cur)
  PROVE  /\ Distance(nat, cur) > Distance(hole, cur) /\ Distance(hole, cur) > 0
         /\ Distance(nat, hole) = Distance(nat, cur) - Distance(hole, cur)
<1>1. Distance(nat, cur) = IF nat <= cur THEN cur - nat ELSE cur - nat + Capacity
  BY DistanceIs
<1>2. Distance(hole, cur) = IF hole <= cur THEN cur - hole ELSE cur - hole + Capacity
  BY DistanceIs
<1>3. Distance(nat, hole) = IF nat <= hole THEN hole - nat ELSE hole - nat + Capacity
  BY DistanceIs
<1>4. /\ nat \in 0 .. Capacity - 1 /\ hole \in 0 .. Capacity - 1
      /\ cur \in 0 .. Capacity - 1 /\ Distance(nat, cur) > Distance(hole, cur)
  BY DEF Slots, PullsBack
<1> QED
  BY ONLY <1>1, <1>2, <1>3, <1>4, CapacityPositive, cur # hole

-----------------------------------------------------------------------------
(***************************************************************************)
(* The backward shift.                                                     *)
(***************************************************************************)
LEMMA StepTyped ==
  ASSUME NEW at \in ShiftState
  PROVE  ShiftStep(at) \in ShiftState
<1>1. at.hole \in Slots /\ at.cur \in Slots /\ at.table \in [Slots -> Slot]
  BY DEF ShiftState
<1>2. After(at.cur) \in Slots
  BY <1>1, AfterIs
<1>3. Moved(at.table, at.cur, at.hole) \in [Slots -> Slot]
  BY <1>1 DEF Moved, Slot
<1> QED
  BY <1>1, <1>2, <1>3 DEF ShiftStep, ShiftState

ShiftStepOf == [at \in ShiftState |-> IF ShiftEnds(at) THEN at ELSE ShiftStep(at)]

ShiftDone == {at \in ShiftState : ShiftEnds(at)}

ShiftResult == [at \in ShiftState |-> at.table]

Walks(w) == w = [at \in ShiftState |-> IF ShiftEnds(at) THEN at.table ELSE w[ShiftStep(at)]]

\* The recursive function of the shift loop exists.
LEMMA WalkExists == \E w : Walks(w)
<1>1. ShiftStepOf \in [ShiftState -> ShiftState]
  BY StepTyped DEF ShiftStepOf
<1>2. PICK w : Computes(w, ShiftState, ShiftDone, ShiftStepOf, ShiftResult)
  BY ONLY <1>1, LoopExists
<1>3. \A at \in ShiftState : /\ at \in ShiftDone <=> ShiftEnds(at)
                             /\ ~ShiftEnds(at) => ShiftStepOf[at] = ShiftStep(at)
                             /\ ShiftResult[at] = at.table
  BY DEF ShiftDone, ShiftStepOf, ShiftResult
<1>4. Walks(w)
  BY <1>2, <1>3 DEF Computes, Walks
<1> QED
  BY <1>4

\* That function is the result function of the loop.
LEMMA WalksComputes ==
  ASSUME NEW w, Walks(w)
  PROVE  Computes(w, ShiftState, ShiftDone, ShiftStepOf, ShiftResult)
<1>3. \A at \in ShiftState : /\ at \in ShiftDone <=> ShiftEnds(at)
                             /\ ~ShiftEnds(at) => ShiftStepOf[at] = ShiftStep(at)
                             /\ ShiftResult[at] = at.table
  BY DEF ShiftDone, ShiftStepOf, ShiftResult
<1> QED
  BY <1>3 DEF Computes, Walks

\* BackwardShift is its value where erase enters the loop.
LEMMA ShiftIsWalk ==
  ASSUME NEW table, NEW hole
  PROVE  \E w : /\ Walks(w)
                /\ BackwardShift(table, hole) =
                     w[[table |-> table, hole |-> hole, cur |-> After(hole)]]
<1> DEFINE walk[at \in ShiftState] ==
             IF ShiftEnds(at) THEN at.table ELSE walk[ShiftStep(at)]
<1>1. walk = CHOOSE w : Walks(w)
  BY Zenon DEF Walks
<1>2. BackwardShift(table, hole) = walk[[table |-> table, hole |-> hole, cur |-> After(hole)]]
  BY Zenon DEF BackwardShift
<1> HIDE DEF walk
<1>3. Walks(walk)
  BY <1>1, WalkExists, Zenon
<1> QED
  BY <1>2, <1>3, Zenon

Keyed(table) == \A i \in Slots : table[i].occupied => table[i].key \in Keys

Shifting == {at \in ShiftState : ~at.table[at.hole].occupied /\ Keyed(at.table)}

NaturalOf(table, i) == Natural(table[i].key)

\* The natural slot of a stored id is a slot.
LEMMA NaturalTyped ==
  ASSUME NEW table, Keyed(table), NEW i \in Slots, table[i].occupied
  PROVE  NaturalOf(table, i) \in Slots
BY HashAssumption DEF Keyed, NaturalOf, Natural

\* One pair for every slot an entry is displaced by.
Displacements(table) ==
  {p \in Slots \X Slots :
     table[p[1]].occupied /\ p[2] < Distance(NaturalOf(table, p[1]), p[1])}

\* The places by which entries are displaced are finitely many.
LEMMA DisplacementsFinite ==
  ASSUME NEW table
  PROVE  IsFiniteSet(Displacements(table)) /\ Cardinality(Displacements(table)) \in Nat
<1>1. IsFiniteSet(Slots)
  BY CapacityPositive, FS_Interval DEF Slots
<1>2. IsFiniteSet(Slots \X Slots)
  BY <1>1, FS_Product
<1>3. Displacements(table) \in SUBSET (Slots \X Slots)
  BY DEF Displacements
<1> QED
  BY <1>2, <1>3, FS_Subset, FS_CardinalityType

\* While the loop runs the cursor stands on an entry and not on the hole.
LEMMA CurIsNotHole ==
  ASSUME NEW at \in Shifting, ~ShiftEnds(at)
  PROVE  /\ at.hole \in Slots /\ at.cur \in Slots /\ at.table \in [Slots -> Slot]
         /\ at.cur # at.hole /\ at.table[at.cur].occupied
         /\ NaturalOf(at.table, at.cur) \in Slots
<1>1. /\ at.hole \in Slots /\ at.cur \in Slots /\ at.table \in [Slots -> Slot]
      /\ at.cur # at.hole /\ at.table[at.cur].occupied
  BY DEF Shifting, ShiftState, ShiftEnds
<1> QED
  BY <1>1, NaturalTyped DEF Shifting

\* What a move into the hole leaves.
LEMMA MovedIs ==
  ASSUME NEW table \in [Slots -> Slot], NEW cur \in Slots, NEW hole \in Slots, cur # hole
  PROVE  /\ Moved(table, cur, hole) \in [Slots -> Slot]
         /\ Moved(table, cur, hole)[hole] = table[cur]
         /\ ~Moved(table, cur, hole)[cur].occupied
         /\ \A i \in Slots \ {cur, hole} : Moved(table, cur, hole)[i] = table[i]
BY DEF Moved, Slot

\* A move lowers the total displacement: the loop's first measure.
LEMMA MoveShrinks ==
  ASSUME NEW table \in [Slots -> Slot], Keyed(table),
         NEW cur \in Slots, NEW hole \in Slots, cur # hole,
         ~table[hole].occupied, table[cur].occupied,
         PullsBack(NaturalOf(table, cur), hole, cur)
  PROVE  Cardinality(Displacements(Moved(table, cur, hole))) < Cardinality(Displacements(table))
<1> DEFINE new == Moved(table, cur, hole)
<1>2. /\ new[hole] = table[cur] /\ ~new[cur].occupied
      /\ \A i \in Slots \ {cur, hole} : new[i] = table[i]
  BY ONLY MovedIs, table \in [Slots -> Slot], cur \in Slots, hole \in Slots, cur # hole
<1> DEFINE nat == NaturalOf(table, cur)
           A   == Displacements(table)
           B   == Displacements(new)
           top == <<cur, Distance(nat, cur) - 1>>
           f   == [p \in B |-> IF p[1] = hole THEN <<cur, p[2]>> ELSE p]
<1>1. nat \in Slots
  BY NaturalTyped
<1> HIDE DEF new
<1>3. /\ Distance(nat, cur) \in Slots /\ Distance(hole, cur) \in Slots
      /\ Distance(nat, cur) > Distance(hole, cur) /\ Distance(hole, cur) > 0
      /\ Distance(nat, hole) = Distance(nat, cur) - Distance(hole, cur)
  BY <1>1, GapIsPart, DistanceIs
<1>4. top \in A
  <2>1. Distance(nat, cur) - 1 \in Slots /\ Distance(nat, cur) - 1 < Distance(nat, cur)
    <3> HIDE DEF nat
    <3>1. Distance(nat, cur) \in 0 .. Capacity - 1 /\ Distance(nat, cur) > 0
      <4>1. /\ Distance(nat, cur) \in 0 .. Capacity - 1
            /\ Distance(hole, cur) \in 0 .. Capacity - 1
        BY <1>3 DEF Slots
      <4> QED
        BY ONLY <4>1, <1>3, CapacityPositive
    <3> QED
      BY ONLY <3>1, CapacityPositive DEF Slots
  <2> QED
    BY <2>1 DEF Displacements
<1>5. ASSUME NEW p \in B
      PROVE  /\ p[1] # cur
             /\ p[1] = hole => <<cur, p[2]>> \in A \ {top} /\ p = <<hole, p[2]>>
             /\ p[1] # hole => p \in A \ {top}
             /\ p[1] # hole => p[1] # cur
  <2>1. p \in Slots \X Slots /\ new[p[1]].occupied /\ p[2] < Distance(NaturalOf(new, p[1]), p[1])
    BY DEF Displacements
  <2>2. p[1] # cur
    BY <2>1, <1>2
  <2>3. CASE p[1] = hole
    <3>1. p[2] < Distance(nat, hole) /\ p[2] \in Slots
      BY <2>1, <2>3, <1>2 DEF NaturalOf
    <3>2. p[2] < Distance(nat, cur) - 1
      BY <3>1, <1>3 DEF Slots
    <3>3. <<cur, p[2]>> \in A /\ <<cur, p[2]>> # top
      BY <3>1, <3>2, <1>3 DEF Displacements, Slots
    <3> QED
      BY <2>1, <2>2, <2>3, <3>3
  <2>4. CASE p[1] # hole
    <3>1. new[p[1]] = table[p[1]]
      BY <1>2, <2>1, <2>2, <2>4
    <3> QED
      BY <2>1, <2>2, <2>4, <3>1 DEF Displacements, NaturalOf
  <2> QED
    BY <2>3, <2>4
<1> HIDE DEF A, B, top
<1>6. f \in Injection(B, A \ {top})
  <2>1. f \in [B -> A \ {top}]
    BY <1>5
  <2>2. ASSUME NEW p \in B, NEW q \in B, f[p] = f[q]
        PROVE  p = q
    BY <1>5, <2>2
  <2> QED
    BY <2>1, <2>2 DEF Injection, IsInjective
<1> HIDE DEF f
<1>7. /\ IsFiniteSet(A) /\ Cardinality(A) \in Nat
      /\ IsFiniteSet(B) /\ Cardinality(B) \in Nat
  BY DisplacementsFinite DEF A, B
<1>8. IsFiniteSet(A \ {top}) /\ Cardinality(A \ {top}) = Cardinality(A) - 1
  BY <1>4, <1>7, FS_RemoveElement
<1>9. Cardinality(B) <= Cardinality(A \ {top})
  BY <1>6, <1>8, FS_Injection
<1> QED
  BY <1>7, <1>8, <1>9 DEF A, B, new

DisplacementsOf == [at \in ShiftState |-> Cardinality(Displacements(at.table))]

GapOf == [at \in ShiftState |-> Distance(at.cur, at.hole)]

\* A turn of the loop lowers one of the two measures.
LEMMA StepProgress ==
  ASSUME NEW at \in Shifting, ~ShiftEnds(at)
  PROVE  LET next == ShiftStep(at)
         IN  \/ Cardinality(Displacements(next.table)) < Cardinality(Displacements(at.table))
             \/ /\ next.table = at.table
                /\ Distance(next.cur, next.hole) < Distance(at.cur, at.hole)
<1>1. /\ at.hole \in Slots /\ at.cur \in Slots /\ at.table \in [Slots -> Slot]
      /\ at.cur # at.hole /\ at.table[at.cur].occupied
      /\ NaturalOf(at.table, at.cur) \in Slots
      /\ ~at.table[at.hole].occupied /\ Keyed(at.table)
  BY CurIsNotHole DEF Shifting
<1>2. CASE PullsBack(NaturalOf(at.table, at.cur), at.hole, at.cur)
  <2>1. ShiftStep(at).table = Moved(at.table, at.cur, at.hole)
    BY <1>2 DEF ShiftStep, NaturalOf
  <2> QED
    BY <1>1, <1>2, <2>1, MoveShrinks
<1>3. CASE ~PullsBack(NaturalOf(at.table, at.cur), at.hole, at.cur)
  <2>1. ShiftStep(at) = [at EXCEPT !.cur = After(@)]
    BY <1>3 DEF ShiftStep, NaturalOf
  <2>2. /\ ShiftStep(at).table = at.table /\ ShiftStep(at).hole = at.hole
        /\ ShiftStep(at).cur = After(at.cur)
    BY <2>1 DEF Shifting, ShiftState
  <2>3. Distance(After(at.cur), at.hole) < Distance(at.cur, at.hole)
    <3>1. Distance(After(at.cur), at.hole) = Distance(at.cur, at.hole) - 1
      BY ONLY <1>1, AfterIsNearer
    <3>2. Distance(at.cur, at.hole) \in Nat
      BY ONLY <1>1, DistanceIs
    <3> QED
      BY ONLY <3>1, <3>2
  <2> QED
    BY <2>2, <2>3
<1> QED
  BY <1>2, <1>3

\* What is true on entering the shift loop and kept by each turn is true of its
\* result: the loop ends.
LEMMA ShiftRule ==
  ASSUME NEW I \in SUBSET Shifting,
         \A at \in I : ~ShiftEnds(at) => ShiftStep(at) \in I,
         NEW table, NEW hole,
         [table |-> table, hole |-> hole, cur |-> After(hole)] \in I
  PROVE  \E at \in I : ShiftEnds(at) /\ BackwardShift(table, hole) = at.table
<1> DEFINE start == [table |-> table, hole |-> hole, cur |-> After(hole)]
<1>1. PICK w : Walks(w) /\ BackwardShift(table, hole) = w[start]
  BY ShiftIsWalk
<1>2. Computes(w, ShiftState, ShiftDone, ShiftStepOf, ShiftResult)
  BY <1>1, WalksComputes
<1>3. ShiftStepOf \in [ShiftState -> ShiftState]
  BY StepTyped DEF ShiftStepOf
<1>4. I \in SUBSET ShiftState
  BY DEF Shifting
<1>5. \A at \in I \ ShiftDone : ~ShiftEnds(at) /\ ShiftStepOf[at] = ShiftStep(at)
  BY <1>4 DEF ShiftDone, ShiftStepOf
<1>6. \A at \in I \ ShiftDone : ShiftStepOf[at] \in I
  BY <1>5
<1>7. DisplacementsOf \in [ShiftState -> Nat] /\ GapOf \in [ShiftState -> Nat]
  <2>1. \A at \in ShiftState : Distance(at.cur, at.hole) \in Nat
    BY DistanceIs DEF ShiftState, Slots
  <2> QED
    BY <2>1, DisplacementsFinite DEF DisplacementsOf, GapOf
<1>8. \A at \in I \ ShiftDone :
        \/ DisplacementsOf[ShiftStepOf[at]] < DisplacementsOf[at]
        \/ /\ DisplacementsOf[ShiftStepOf[at]] = DisplacementsOf[at]
           /\ GapOf[ShiftStepOf[at]] < GapOf[at]
  <2> SUFFICES ASSUME NEW at \in I \ ShiftDone
               PROVE  \/ DisplacementsOf[ShiftStepOf[at]] < DisplacementsOf[at]
                      \/ /\ DisplacementsOf[ShiftStepOf[at]] = DisplacementsOf[at]
                         /\ GapOf[ShiftStepOf[at]] < GapOf[at]
    OBVIOUS
  <2>1. /\ at \in ShiftState /\ ShiftStep(at) \in ShiftState /\ ShiftStepOf[at] = ShiftStep(at)
    BY <1>4, <1>5, StepTyped
  <2>2. \/ Cardinality(Displacements(ShiftStep(at).table)) < Cardinality(Displacements(at.table))
        \/ /\ ShiftStep(at).table = at.table
           /\ Distance(ShiftStep(at).cur, ShiftStep(at).hole) < Distance(at.cur, at.hole)
    BY <1>5, StepProgress
  <2> QED
    BY <2>1, <2>2 DEF DisplacementsOf, GapOf
<1>9. start \in I
  OBVIOUS
<1> HIDE DEF start
<1>10. \E at \in I \cap ShiftDone : w[start] = ShiftResult[at]
  BY ONLY <1>2, <1>3, <1>4, <1>6, <1>7, <1>8, <1>9, LoopEnds
<1> QED
  BY <1>1, <1>10 DEF ShiftDone, ShiftResult

\* Only a slot itself is at distance 0.
LEMMA DistanceZero ==
  ASSUME NEW a \in Slots, NEW b \in Slots
  PROVE  Distance(a, b) = 0 <=> a = b
<1>1. Distance(a, b) = IF a <= b THEN b - a ELSE b - a + Capacity
  BY DistanceIs
<1>2. a \in 0 .. Capacity - 1 /\ b \in 0 .. Capacity - 1
  BY DEF Slots
<1> QED
  BY ONLY <1>1, <1>2, CapacityPositive

\* Distances add up along an arc.
LEMMA DistanceSplits ==
  ASSUME NEW a \in Slots, NEW b \in Slots, NEW c \in Slots,
         Distance(a, b) <= Distance(a, c) \/ Distance(b, c) <= Distance(a, c)
  PROVE  Distance(a, c) = Distance(a, b) + Distance(b, c)
<1>1. Distance(a, b) = IF a <= b THEN b - a ELSE b - a + Capacity
  BY DistanceIs
<1>2. Distance(b, c) = IF b <= c THEN c - b ELSE c - b + Capacity
  BY DistanceIs
<1>3. Distance(a, c) = IF a <= c THEN c - a ELSE c - a + Capacity
  BY DistanceIs
<1>4. a \in 0 .. Capacity - 1 /\ b \in 0 .. Capacity - 1 /\ c \in 0 .. Capacity - 1
  BY DEF Slots
<1> QED
  BY ONLY <1>1, <1>2, <1>3, <1>4, CapacityPositive,
          Distance(a, b) <= Distance(a, c) \/ Distance(b, c) <= Distance(a, c)

\* The slot d places on is at distance d.
LEMMA ForwardDistance ==
  ASSUME NEW a \in Slots, NEW d \in Slots
  PROVE  Distance(a, (a + d) % Capacity) = d
<1> DEFINE b == (a + d) % Capacity
<1>1. /\ b = IF a + d < Capacity THEN a + d ELSE a + d - Capacity
      /\ b \in Slots
  BY ForwardIs
<1> HIDE DEF b
<1>2. Distance(a, b) = IF a <= b THEN b - a ELSE b - a + Capacity
  BY <1>1, DistanceIs
<1>3. a \in 0 .. Capacity - 1 /\ d \in 0 .. Capacity - 1
  BY DEF Slots
<1>4. Distance(a, b) = d
  BY ONLY <1>1, <1>2, <1>3, CapacityPositive
<1> QED
  BY <1>4 DEF b

\* The slot at the distance from a to b is b.
LEMMA DistanceForward ==
  ASSUME NEW a \in Slots, NEW b \in Slots
  PROVE  (a + Distance(a, b)) % Capacity = b
<1> DEFINE d == Distance(a, b)
<1>1. d \in Slots /\ d = IF a <= b THEN b - a ELSE b - a + Capacity
  BY DistanceIs
<1> HIDE DEF d
<1>2. (a + d) % Capacity = IF a + d < Capacity THEN a + d ELSE a + d - Capacity
  BY <1>1, ForwardIs
<1>3. a \in 0 .. Capacity - 1 /\ b \in 0 .. Capacity - 1
  BY DEF Slots
<1>4. (a + d) % Capacity = b
  BY ONLY <1>1, <1>2, <1>3, CapacityPositive
<1> QED
  BY <1>4 DEF d

-----------------------------------------------------------------------------
(***************************************************************************)
(* What a shift keeps.                                                     *)
(***************************************************************************)
LEMMA OccupiedFinite ==
  ASSUME NEW table
  PROVE  IsFiniteSet(Occupied(table)) /\ Cardinality(Occupied(table)) \in 0 .. Capacity
<1>1. IsFiniteSet(Slots) /\ Cardinality(Slots) = Capacity
  BY CapacityPositive, FS_Interval DEF Slots
<1>2. Occupied(table) \in SUBSET Slots
  BY DEF Occupied
<1>3. IsFiniteSet(Occupied(table)) /\ Cardinality(Occupied(table)) <= Capacity
  BY <1>1, <1>2, FS_Subset
<1>4. Cardinality(Occupied(table)) \in Nat
  BY <1>3, FS_CardinalityType
<1> QED
  BY <1>3, <1>4, CapacityPositive

\* A move keeps the entries of the table and their number.
LEMMA MoveKeeps ==
  ASSUME NEW table \in [Slots -> Slot], Keyed(table),
         NEW cur \in Slots, NEW hole \in Slots, cur # hole,
         ~table[hole].occupied, table[cur].occupied
  PROVE  LET new == Moved(table, cur, hole)
         IN  /\ Keyed(new)
             /\ Entries(new) = Entries(table)
             /\ Cardinality(Occupied(new)) = Cardinality(Occupied(table))
<1> DEFINE new == Moved(table, cur, hole)
<1>1. /\ new \in [Slots -> Slot] /\ new[hole] = table[cur] /\ ~new[cur].occupied
      /\ \A i \in Slots \ {cur, hole} : new[i] = table[i]
  BY ONLY MovedIs, table \in [Slots -> Slot], cur \in Slots, hole \in Slots, cur # hole
<1> HIDE DEF new
<1>2. Keyed(new)
  BY <1>1 DEF Keyed
<1>3. Occupied(new) = (Occupied(table) \ {cur}) \cup {hole}
  BY <1>1 DEF Occupied
<1>4. Entries(new) = Entries(table)
  <2>1. ASSUME NEW i \in Occupied(new)
        PROVE  \E j \in Occupied(table) : new[i] = table[j]
    BY <1>1 DEF Occupied
  <2>2. ASSUME NEW j \in Occupied(table)
        PROVE  \E i \in Occupied(new) : new[i] = table[j]
    BY <1>1 DEF Occupied
  <2> QED
    BY <2>1, <2>2 DEF Entries
<1>5. cur \in Occupied(table) /\ hole \notin Occupied(table)
  BY DEF Occupied
<1>6. IsFiniteSet(Occupied(table)) /\ Cardinality(Occupied(table)) \in Nat
  BY OccupiedFinite, CapacityPositive
<1>7. /\ IsFiniteSet(Occupied(table) \ {cur})
      /\ Cardinality(Occupied(table) \ {cur}) = Cardinality(Occupied(table)) - 1
  BY <1>5, <1>6, FS_RemoveElement
<1>8. Cardinality((Occupied(table) \ {cur}) \cup {hole}) = Cardinality(Occupied(table))
  <2> DEFINE S == Occupied(table) \ {cur}
  <2>1. IsFiniteSet(S) /\ hole \notin S
    BY <1>5, <1>7
  <2>2. Cardinality(S \cup {hole}) = Cardinality(S) + 1
    BY ONLY <2>1, FS_AddElement
  <2> QED
    BY ONLY <2>2, <1>6, <1>7
<1> QED
  BY <1>2, <1>3, <1>4, <1>8 DEF new

\* A turn keeps the hole vacant and the stored ids ids.
LEMMA StepShifting ==
  ASSUME NEW at \in Shifting, ~ShiftEnds(at)
  PROVE  ShiftStep(at) \in Shifting
<1>1. /\ at.hole \in Slots /\ at.cur \in Slots /\ at.table \in [Slots -> Slot]
      /\ at.cur # at.hole /\ at.table[at.cur].occupied
      /\ ~at.table[at.hole].occupied /\ Keyed(at.table)
  BY CurIsNotHole DEF Shifting
<1>2. ShiftStep(at) \in ShiftState
  BY StepTyped DEF Shifting
<1>3. CASE PullsBack(NaturalOf(at.table, at.cur), at.hole, at.cur)
  <2>1. /\ ShiftStep(at).table = Moved(at.table, at.cur, at.hole)
        /\ ShiftStep(at).hole = at.cur
    BY <1>3 DEF ShiftStep, NaturalOf
  <2>2. ~Moved(at.table, at.cur, at.hole)[at.cur].occupied
    BY ONLY <1>1, MovedIs
  <2>3. Keyed(Moved(at.table, at.cur, at.hole))
    BY ONLY <1>1, MoveKeeps
  <2> QED
    BY <1>2, <2>1, <2>2, <2>3 DEF Shifting
<1>4. CASE ~PullsBack(NaturalOf(at.table, at.cur), at.hole, at.cur)
  <2>1. ShiftStep(at) = [at EXCEPT !.cur = After(@)]
    BY <1>4 DEF ShiftStep, NaturalOf
  <2>2. ShiftStep(at).table = at.table /\ ShiftStep(at).hole = at.hole
    BY <2>1 DEF Shifting, ShiftState
  <2> QED
    BY <1>1, <1>2, <2>2 DEF Shifting
<1> QED
  BY <1>3, <1>4

\* A turn moves an entry or skips it.
LEMMA StepCases ==
  ASSUME NEW at \in Shifting, ~ShiftEnds(at)
  PROVE  \/ /\ PullsBack(NaturalOf(at.table, at.cur), at.hole, at.cur)
            /\ ShiftStep(at).table = Moved(at.table, at.cur, at.hole)
            /\ ShiftStep(at).hole = at.cur
            /\ ShiftStep(at).cur = After(at.cur)
         \/ /\ ~PullsBack(NaturalOf(at.table, at.cur), at.hole, at.cur)
            /\ ShiftStep(at).table = at.table
            /\ ShiftStep(at).hole = at.hole
            /\ ShiftStep(at).cur = After(at.cur)
BY DEF ShiftStep, NaturalOf, Shifting, ShiftState

\* erase enters the loop in such a state.
LEMMA StartShifting ==
  ASSUME NEW table \in [Slots -> Slot], Keyed(table), NEW hole \in Slots, ~table[hole].occupied
  PROVE  [table |-> table, hole |-> hole, cur |-> After(hole)] \in Shifting
BY AfterIs DEF Shifting, ShiftState

\* The whole loop keeps the entries and their number.
LEMMA ShiftKeeps ==
  ASSUME NEW table \in [Slots -> Slot], Keyed(table), NEW hole \in Slots, ~table[hole].occupied
  PROVE  LET new == BackwardShift(table, hole)
         IN  /\ new \in [Slots -> Slot] /\ Keyed(new)
             /\ Entries(new) = Entries(table)
             /\ Cardinality(Occupied(new)) = Cardinality(Occupied(table))
<1> DEFINE Keeps(t) == /\ Entries(t) = Entries(table)
                       /\ Cardinality(Occupied(t)) = Cardinality(Occupied(table))
           I == {at \in Shifting : Keeps(at.table)}
<1>1. ASSUME NEW at \in I, ~ShiftEnds(at)
      PROVE  ShiftStep(at) \in I
  <2>1. ShiftStep(at) \in Shifting
    BY <1>1, StepShifting
  <2>2. /\ at.hole \in Slots /\ at.cur \in Slots /\ at.table \in [Slots -> Slot]
        /\ at.cur # at.hole /\ at.table[at.cur].occupied
        /\ ~at.table[at.hole].occupied /\ Keyed(at.table)
    BY <1>1, CurIsNotHole DEF Shifting
  <2>3. Keeps(Moved(at.table, at.cur, at.hole))
    <3>1. /\ Entries(Moved(at.table, at.cur, at.hole)) = Entries(at.table)
          /\ Cardinality(Occupied(Moved(at.table, at.cur, at.hole))) = Cardinality(Occupied(at.table))
      BY ONLY <2>2, MoveKeeps
    <3> QED
      BY <3>1
  <2>4. Keeps(ShiftStep(at).table)
    BY <1>1, <2>3, StepCases
  <2> QED
    BY <2>1, <2>4
<1>2. [table |-> table, hole |-> hole, cur |-> After(hole)] \in I
  BY StartShifting
<1>3. I \in SUBSET Shifting
  OBVIOUS
<1>4. \E at \in I : ShiftEnds(at) /\ BackwardShift(table, hole) = at.table
  <2> HIDE DEF I
  <2> QED
    BY ONLY <1>1, <1>2, <1>3, ShiftRule
<1> QED
  BY <1>4 DEF Shifting, ShiftState

\* Where every entry is in its natural slot the loop moves nothing.
LEMMA ShiftStill ==
  ASSUME NEW table \in [Slots -> Slot], Keyed(table), NEW hole \in Slots, ~table[hole].occupied,
         \A i \in Occupied(table) : NaturalOf(table, i) = i
  PROVE  BackwardShift(table, hole) = table
<1> DEFINE I == {at \in Shifting : at.table = table}
<1>1. ASSUME NEW at \in I, ~ShiftEnds(at)
      PROVE  ShiftStep(at) \in I
  <2>1. ShiftStep(at) \in Shifting
    BY <1>1, StepShifting
  <2>2. at.hole \in Slots /\ at.cur \in Occupied(table)
    BY <1>1, CurIsNotHole DEF Occupied
  <2>3. ~PullsBack(NaturalOf(table, at.cur), at.hole, at.cur)
    <3>1. at.cur \in Slots
      BY <2>2 DEF Occupied
    <3>2. Distance(at.cur, at.cur) = 0 /\ Distance(at.hole, at.cur) \in Nat
      BY <2>2, <3>1, DistanceZero, DistanceIs
    <3>3. ~(Distance(at.cur, at.cur) > Distance(at.hole, at.cur))
      BY ONLY <3>2
    <3> QED
      BY <2>2, <3>3 DEF PullsBack
  <2> QED
    BY <1>1, <2>1, <2>3, StepCases
<1>2. [table |-> table, hole |-> hole, cur |-> After(hole)] \in I
  BY StartShifting
<1>3. I \in SUBSET Shifting
  OBVIOUS
<1>4. \E at \in I : ShiftEnds(at) /\ BackwardShift(table, hole) = at.table
  <2> HIDE DEF I
  <2> QED
    BY ONLY <1>1, <1>2, <1>3, ShiftRule
<1> QED
  BY <1>4

-----------------------------------------------------------------------------
(***************************************************************************)
(* The chain of an entry: the slots strictly between its natural slot and  *)
(* its own.                                                                *)
(***************************************************************************)
Inside(n, s, i) == 0 < Distance(n, s) /\ Distance(n, s) < Distance(n, i)

Chained(table) ==
  \A i \in Occupied(table), s \in Slots :
    Inside(NaturalOf(table, i), s, i) => table[s].occupied

\* A hole may break the chains of the entries at least k slots beyond it.
ChainedBut(table, hole, k) ==
  \A i \in Occupied(table), s \in Slots :
    Inside(NaturalOf(table, i), s, i) =>
      table[s].occupied \/ (s = hole /\ Distance(hole, i) >= k)

\* How far cur has walked from the hole.
Walked(hole, cur) == IF cur = hole THEN Capacity ELSE Distance(hole, cur)

\* How far the cursor has come after a step.
LEMMA WalkedAfter ==
  ASSUME NEW hole \in Slots, NEW cur \in Slots
  PROVE  /\ Walked(hole, After(hole)) = 1
         /\ cur # hole => Walked(hole, After(cur)) = Distance(hole, cur) + 1
<1>1. /\ After(cur) \in Slots /\ After(cur) = IF cur + 1 = Capacity THEN 0 ELSE cur + 1
      /\ After(hole) \in Slots /\ After(hole) = IF hole + 1 = Capacity THEN 0 ELSE hole + 1
  BY AfterIs
<1>2. Distance(hole, cur) = IF hole <= cur THEN cur - hole ELSE cur - hole + Capacity
  BY DistanceIs
<1>3. Distance(hole, After(cur)) =
        IF hole <= After(cur) THEN After(cur) - hole ELSE After(cur) - hole + Capacity
  BY <1>1, DistanceIs
<1>4. Distance(hole, After(hole)) =
        IF hole <= After(hole) THEN After(hole) - hole ELSE After(hole) - hole + Capacity
  BY <1>1, DistanceIs
<1>5. cur \in 0 .. Capacity - 1 /\ hole \in 0 .. Capacity - 1
  BY DEF Slots
<1> QED
  BY ONLY <1>1, <1>2, <1>3, <1>4, <1>5, CapacityPositive DEF Walked

\* A slot inside a chain splits it.
LEMMA InsideSplits ==
  ASSUME NEW n \in Slots, NEW s \in Slots, NEW i \in Slots, Inside(n, s, i)
  PROVE  /\ Distance(n, i) = Distance(n, s) + Distance(s, i)
         /\ Distance(s, i) > 0 /\ Distance(s, i) < Distance(n, i)
<1>1. Distance(n, i) = Distance(n, s) + Distance(s, i)
  BY DistanceSplits, DistanceIs DEF Inside
<1>2. Distance(n, s) \in Nat /\ Distance(s, i) \in Nat /\ Distance(n, i) \in Nat
  BY DistanceIs
<1>3. 0 < Distance(n, s) /\ Distance(n, s) < Distance(n, i)
  BY DEF Inside
<1> QED
  BY ONLY <1>1, <1>2, <1>3

\* A slot of the chain beyond another one is inside it too.
LEMMA InsideBeyond ==
  ASSUME NEW n \in Slots, NEW h \in Slots, NEW c \in Slots, NEW i \in Slots,
         Inside(n, h, i), Distance(h, c) < Distance(h, i)
  PROVE  Inside(n, c, i)
<1>1. /\ Distance(n, i) = Distance(n, h) + Distance(h, i)
      /\ Distance(n, h) > 0
  BY InsideSplits DEF Inside
<1>2. Distance(h, i) = Distance(h, c) + Distance(c, i)
  BY DistanceSplits, DistanceIs
<1>3. /\ Distance(n, i) \in Nat /\ Distance(n, h) \in Nat /\ Distance(h, c) \in Nat
      /\ Distance(h, i) \in Nat /\ Distance(c, i) \in Nat /\ Distance(n, c) \in Nat
  BY DistanceIs
<1>4. Distance(c, i) <= Distance(n, i)
  BY ONLY <1>1, <1>2, <1>3
<1>5. Distance(n, i) = Distance(n, c) + Distance(c, i)
  BY <1>4, DistanceSplits
<1>6. 0 < Distance(n, c) /\ Distance(n, c) < Distance(n, i)
  BY ONLY <1>1, <1>2, <1>3, <1>5, Distance(h, c) < Distance(h, i)
<1> QED
  BY <1>6 DEF Inside

\* A turn keeps every chain unbroken but for the hole, behind which the loop
\* has not looked yet.
LEMMA StepChain ==
  ASSUME NEW at \in Shifting, ~ShiftEnds(at),
         ChainedBut(at.table, at.hole, Walked(at.hole, at.cur))
  PROVE  LET next == ShiftStep(at)
         IN  ChainedBut(next.table, next.hole, Walked(next.hole, next.cur))
<1> DEFINE t == at.table
           h == at.hole
           c == at.cur
           n == NaturalOf(t, c)
<1>1. /\ h \in Slots /\ c \in Slots /\ t \in [Slots -> Slot]
      /\ c # h /\ t[c].occupied /\ ~t[h].occupied /\ Keyed(t) /\ n \in Slots
  BY CurIsNotHole DEF Shifting
<1>2. /\ \/ /\ PullsBack(n, h, c)
            /\ ShiftStep(at).table = Moved(t, c, h)
            /\ ShiftStep(at).hole = c
            /\ ShiftStep(at).cur = After(c)
         \/ /\ ~PullsBack(n, h, c)
            /\ ShiftStep(at).table = t
            /\ ShiftStep(at).hole = h
            /\ ShiftStep(at).cur = After(c)
      /\ ChainedBut(t, h, Walked(h, c))
  BY StepCases
<1> HIDE DEF t, h, c
<1>3. /\ Walked(h, c) = Distance(h, c) /\ Walked(h, After(c)) = Distance(h, c) + 1
      /\ Walked(c, After(c)) = 1
  BY <1>1, WalkedAfter DEF Walked
<1>4. \A i \in Occupied(t) : NaturalOf(t, i) \in Slots /\ i \in Slots
  BY <1>1, NaturalTyped DEF Occupied
<1>5. ASSUME PullsBack(n, h, c)
      PROVE  ChainedBut(Moved(t, c, h), c, 1)
  <2> DEFINE new == Moved(t, c, h)
  <2>1. /\ new[h] = t[c] /\ ~new[c].occupied
        /\ \A i \in Slots \ {c, h} : new[i] = t[i]
    BY ONLY <1>1, MovedIs
  <2> HIDE DEF new
  <2> SUFFICES ASSUME NEW i \in Occupied(new), NEW s \in Slots,
                      Inside(NaturalOf(new, i), s, i)
               PROVE  new[s].occupied \/ (s = c /\ Distance(c, i) >= 1)
    BY DEF ChainedBut, new
  <2>2. i \in Slots /\ i # c
    BY <2>1 DEF Occupied
  <2>3. CASE s = c
    <3>1. Distance(c, i) # 0 /\ Distance(c, i) \in Nat
      BY <1>1, <2>2, DistanceZero, DistanceIs
    <3> QED
      BY ONLY <2>3, <3>1
  <2>4. CASE s = h
    BY <1>1, <2>1, <2>4
  <2>5. CASE s # c /\ s # h /\ i # h
    <3>1. i \in Occupied(t) /\ NaturalOf(t, i) = NaturalOf(new, i)
      BY <2>1, <2>2, <2>5 DEF Occupied, NaturalOf
    <3>2. t[s].occupied
      BY <1>2, <2>5, <3>1 DEF ChainedBut
    <3> QED
      BY <2>1, <2>5, <3>2
  <2>6. CASE s # c /\ s # h /\ i = h
    <3>1. NaturalOf(new, i) = n
      BY <2>1, <2>6 DEF NaturalOf
    <3>2. 0 < Distance(n, s) /\ Distance(n, s) < Distance(n, h)
      BY <2>6, <3>1 DEF Inside
    <3>3. Distance(n, h) = Distance(n, c) - Distance(h, c) /\ Distance(h, c) > 0
      BY <1>1, <1>5, GapIsPart
    <3>4. Distance(n, s) \in Nat /\ Distance(n, c) \in Nat /\ Distance(h, c) \in Nat
      BY <1>1, DistanceIs
    <3>5. 0 < Distance(n, s) /\ Distance(n, s) < Distance(n, c)
      BY ONLY <3>2, <3>3, <3>4
    <3>6. c \in Occupied(t)
      BY <1>1 DEF Occupied
    <3>7. t[s].occupied
      BY <1>2, <2>6, <3>5, <3>6 DEF ChainedBut, Inside
    <3> QED
      BY <2>1, <2>6, <3>7
  <2> QED
    BY <2>3, <2>4, <2>5, <2>6
<1>6. ASSUME ~PullsBack(n, h, c)
      PROVE  ChainedBut(t, h, Distance(h, c) + 1)
  <2> SUFFICES ASSUME NEW i \in Occupied(t), NEW s \in Slots,
                      Inside(NaturalOf(t, i), s, i), ~t[s].occupied
               PROVE  s = h /\ Distance(h, i) >= Distance(h, c) + 1
    BY DEF ChainedBut
  <2>1. s = h /\ Distance(h, i) >= Distance(h, c)
    BY <1>2, <1>3 DEF ChainedBut
  <2>2. Distance(h, i) \in Nat /\ Distance(h, c) \in Nat /\ Distance(n, c) \in Nat
    BY <1>1, <1>4, DistanceIs
  <2>3. CASE i = c
    <3>1. Distance(h, c) < Distance(n, c)
      BY <1>1, <2>1, <2>3, InsideSplits
    <3>2. ~(Distance(n, c) > Distance(h, c))
      BY <1>6 DEF PullsBack
    <3> QED
      BY ONLY <2>2, <3>1, <3>2
  <2>4. CASE i # c
    <3>1. Distance(h, i) # Distance(h, c)
      BY <1>1, <1>4, <2>4, DistanceForward
    <3> QED
      BY ONLY <2>1, <2>2, <3>1
  <2> QED
    BY <2>3, <2>4
<1> QED
  BY <1>2, <1>3, <1>5, <1>6

\* When the loop ends at a vacant slot no chain contains the hole.
LEMMA EndChain ==
  ASSUME NEW at \in Shifting, ShiftEnds(at),
         ChainedBut(at.table, at.hole, Walked(at.hole, at.cur))
  PROVE  Chained(at.table)
<1> DEFINE t == at.table
           h == at.hole
           c == at.cur
<1>1. /\ h \in Slots /\ c \in Slots /\ t \in [Slots -> Slot]
      /\ ~t[c].occupied /\ ~t[h].occupied /\ Keyed(t)
      /\ ChainedBut(t, h, Walked(h, c))
  BY DEF Shifting, ShiftState, ShiftEnds
<1> HIDE DEF t, h, c
<1> SUFFICES ASSUME NEW i \in Occupied(t), NEW s \in Slots,
                    Inside(NaturalOf(t, i), s, i), ~t[s].occupied
             PROVE  FALSE
  BY DEF Chained, t
<1>2. i \in Slots /\ NaturalOf(t, i) \in Slots /\ i # c
  BY <1>1, NaturalTyped DEF Occupied
<1>3. s = h /\ Distance(h, i) >= Walked(h, c)
  BY <1>1 DEF ChainedBut
<1>4. Distance(h, i) \in 0 .. Capacity - 1 /\ Distance(h, i) \in Nat /\ Distance(h, c) \in Nat
  BY <1>1, <1>2, DistanceIs DEF Slots
<1>5. c # h /\ Distance(h, i) >= Distance(h, c)
  BY ONLY <1>3, <1>4, CapacityPositive DEF Walked
<1>6. Distance(h, i) # Distance(h, c)
  BY <1>1, <1>2, DistanceForward
<1>7. Distance(h, c) < Distance(h, i)
  BY ONLY <1>4, <1>5, <1>6
<1>8. Inside(NaturalOf(t, i), c, i)
  BY <1>1, <1>2, <1>3, <1>7, InsideBeyond
<1> QED
  BY <1>1, <1>5, <1>8 DEF ChainedBut

\* The loop mends the only gap an erase makes.
LEMMA ShiftMendsChains ==
  ASSUME NEW table \in [Slots -> Slot], Keyed(table), NEW hole \in Slots, ~table[hole].occupied,
         ChainedBut(table, hole, 1)
  PROVE  Chained(BackwardShift(table, hole))
<1> DEFINE I == {at \in Shifting : ChainedBut(at.table, at.hole, Walked(at.hole, at.cur))}
<1>1. ASSUME NEW at \in I, ~ShiftEnds(at)
      PROVE  ShiftStep(at) \in I
  BY <1>1, StepShifting, StepChain
<1>2. [table |-> table, hole |-> hole, cur |-> After(hole)] \in I
  BY StartShifting, WalkedAfter
<1>3. I \in SUBSET Shifting
  OBVIOUS
<1>4. \E at \in I : ShiftEnds(at) /\ BackwardShift(table, hole) = at.table
  <2> HIDE DEF I
  <2> QED
    BY ONLY <1>1, <1>2, <1>3, ShiftRule
<1> QED
  BY <1>4, EndChain

-----------------------------------------------------------------------------
(***************************************************************************)
(* The probe.                                                              *)
(***************************************************************************)
LEMMA NaturalIsSlot ==
  ASSUME NEW key \in Keys
  PROVE  Natural(key) \in Slots
BY HashAssumption DEF Natural

\* Min of a nonempty set of naturals is its least member.
LEMMA MinIs ==
  ASSUME NEW T, T \subseteq Nat, T # {}
  PROVE  Min(T) \in T /\ \A n \in T : Min(T) <= n
BY LeastNatural, Zenon DEF Min

\* A nonempty set of bounded naturals has a greatest element.
LEMMA GreatestNatural ==
  ASSUME NEW n \in Nat, NEW S, S \subseteq 0 .. n, S # {}
  PROVE  \E m \in S : \A k \in S : k <= m
<1> DEFINE T == {n - k : k \in S}
<1>1. T \subseteq Nat /\ T # {}
  <2>1. \A k \in S : n - k \in Nat
    OBVIOUS
  <2>2. T \subseteq Nat
    BY ONLY <2>1
  <2> QED
    BY <2>2
<1>2. PICK t \in T : \A u \in T : t <= u
  <2> HIDE DEF T
  <2> QED
    BY <1>1, LeastNatural
<1>3. PICK m \in S : t = n - m
  OBVIOUS
<1>4. ASSUME NEW k \in S
      PROVE  k <= m
  BY <1>2, <1>3
<1> QED
  BY <1>4

\* Max is it.
LEMMA MaxIsGreatest ==
  ASSUME NEW n \in Nat, NEW S, S \subseteq 0 .. n, S # {}
  PROVE  Max(S) \in S /\ \A k \in S : k <= Max(S)
<1>1. PICK m \in S : \A k \in S : k <= m
  BY GreatestNatural
<1>2. \A k \in S : m >= k
  BY <1>1
<1>3. Max(S) \in S /\ \A k \in S : Max(S) >= k
  BY <1>2, Zenon DEF Max
<1> QED
  BY <1>3

\* The slot the probe for key stops at, by what it passes on the way.
StopsAt(table, key, p) ==
  /\ p \in Slots
  /\ ~table[p].occupied \/ table[p].key = key
  /\ \A s \in Slots : Distance(Natural(key), s) < Distance(Natural(key), p) =>
       table[s].occupied /\ table[s].key # key

\* Where a probe that ends stops.
LEMMA ProbeIs ==
  ASSUME NEW table, NEW key \in Keys, ProbeEnds(table, key)
  PROVE  StopsAt(table, key, ProbeSlot(table, key))
<1> DEFINE T == ProbeStops(table, key)
           d == Min(T)
           n == Natural(key)
<1>1. n \in Slots
  BY NaturalIsSlot
<1>2. d \in T /\ \A e \in T : d <= e
  <2>1. T \subseteq Nat /\ T # {}
    BY DEF ProbeStops, ProbeEnds, Slots
  <2> HIDE DEF T
  <2> QED
    BY <2>1, MinIs
<1>3. /\ d \in Slots
      /\ ~table[(n + d) % Capacity].occupied \/ table[(n + d) % Capacity].key = key
  BY <1>2 DEF ProbeStops
<1>4. ProbeSlot(table, key) = (n + d) % Capacity
  BY DEF ProbeSlot
<1> HIDE DEF d, n
<1>5. (n + d) % Capacity \in Slots /\ Distance(n, (n + d) % Capacity) = d
  BY <1>1, <1>3, ForwardIs, ForwardDistance
<1>6. ASSUME NEW s \in Slots, Distance(n, s) < d
      PROVE  table[s].occupied /\ table[s].key # key
  <2>1. Distance(n, s) \in Slots /\ (n + Distance(n, s)) % Capacity = s
    BY <1>1, DistanceIs, DistanceForward
  <2>2. Distance(n, s) \notin T
    <3>1. Distance(n, s) \in Nat /\ d \in Nat
      BY <1>1, <1>3, DistanceIs DEF Slots
    <3>2. ~(d <= Distance(n, s))
      BY ONLY <3>1, <1>6
    <3> QED
      BY <1>2, <3>2
  <2> QED
    BY <2>1, <2>2 DEF ProbeStops, n
<1> QED
  BY <1>3, <1>4, <1>5, <1>6 DEF StopsAt, n

\* That is the only place where it can stop.
LEMMA StopIsProbe ==
  ASSUME NEW table, NEW key \in Keys, NEW p, StopsAt(table, key, p)
  PROVE  ProbeEnds(table, key) /\ ProbeSlot(table, key) = p
<1> DEFINE n == Natural(key)
           q == ProbeSlot(table, key)
<1>1. n \in Slots /\ p \in Slots
  BY NaturalIsSlot DEF StopsAt
<1>2. ProbeEnds(table, key)
  <2>1. Distance(n, p) \in Slots /\ (n + Distance(n, p)) % Capacity = p
    BY <1>1, DistanceIs, DistanceForward
  <2>2. Distance(n, p) \in ProbeStops(table, key)
    BY <2>1 DEF ProbeStops, StopsAt
  <2> QED
    BY <2>2 DEF ProbeEnds
<1>3. StopsAt(table, key, q)
  BY <1>2, ProbeIs
<1> HIDE DEF q, n
<1>4. q \in Slots /\ Distance(n, p) \in Nat /\ Distance(n, q) \in Nat
  BY <1>1, <1>3, DistanceIs DEF StopsAt
<1>5. ~(Distance(n, p) < Distance(n, q)) /\ ~(Distance(n, q) < Distance(n, p))
  BY <1>1, <1>3, <1>4 DEF StopsAt, n
<1>6. Distance(n, p) = Distance(n, q)
  BY ONLY <1>4, <1>5
<1>7. p = q
  BY <1>1, <1>4, <1>6, DistanceForward
<1> QED
  BY <1>2, <1>7 DEF q

\* find answers the slot of the id or that there is none.
LEMMA FindIs ==
  ASSUME NEW table, NEW key \in Keys, ProbeEnds(table, key)
  PROVE  /\ Find(table, key) = Null <=> ~table[ProbeSlot(table, key)].occupied
         /\ Find(table, key) # Null =>
              /\ Find(table, key) = ProbeSlot(table, key)
              /\ Find(table, key) \in Occupied(table)
              /\ table[Find(table, key)].key = key
<1>1. StopsAt(table, key, ProbeSlot(table, key))
  BY ProbeIs
<1>2. ProbeSlot(table, key) \in Slots /\ ProbeSlot(table, key) # Null
  BY <1>1, NullAssumption DEF StopsAt
<1> QED
  BY <1>1, <1>2 DEF Find, StopsAt, Occupied

\* Two tables that differ in their orders at most.
SameKeys(t, u) == \A i \in Slots : t[i].occupied = u[i].occupied /\ t[i].key = u[i].key

\* Probes look at the ids and at occupancy, not at orders.
LEMMA SameKeysSameProbe ==
  ASSUME NEW t, NEW u, SameKeys(t, u), NEW key \in Keys
  PROVE  /\ ProbeEnds(t, key) = ProbeEnds(u, key)
         /\ ProbeSlot(t, key) = ProbeSlot(u, key)
<1>1. \A d \in Slots : (Natural(key) + d) % Capacity \in Slots
  BY NaturalIsSlot, ForwardIs
<1>2. ProbeStops(t, key) = ProbeStops(u, key)
  BY <1>1 DEF ProbeStops, SameKeys
<1> QED
  BY <1>2 DEF ProbeEnds, ProbeSlot

\* So does find.
LEMMA SameKeysSameFind ==
  ASSUME NEW t, NEW u, SameKeys(t, u), NEW key \in Keys, ProbeEnds(t, key)
  PROVE  Find(t, key) = Find(u, key)
<1>1. /\ ProbeEnds(u, key) = ProbeEnds(t, key)
      /\ ProbeSlot(t, key) = ProbeSlot(u, key)
  BY SameKeysSameProbe
<1>2. ProbeSlot(t, key) \in Slots
  BY ProbeIs DEF StopsAt
<1> QED
  BY <1>1, <1>2 DEF Find, SameKeys

-----------------------------------------------------------------------------
(***************************************************************************)
(* insert and erase.                                                       *)
(***************************************************************************)
LEMMA InsertKeeps ==
  ASSUME NEW table \in [Slots -> Slot], Keyed(table),
         NEW key \in Keys, NEW order \in Orders, ProbeEnds(table, key)
  PROVE  LET new == Inserted(table, key, order)
             p   == ProbeSlot(table, key)
         IN  /\ new \in [Slots -> Slot] /\ Keyed(new)
             /\ new[p].occupied /\ new[p].key = key /\ new[p].order = order
             /\ \A i \in Slots \ {p} : new[i] = table[i]
             /\ Occupied(new) = Occupied(table) \cup {p}
<1> DEFINE p == ProbeSlot(table, key)
<1>1. p \in Slots /\ (~table[p].occupied \/ table[p].key = key)
  BY ProbeIs DEF StopsAt
<1>2. Inserted(table, key, order) =
        IF table[p].occupied
        THEN [table EXCEPT ![p].order = order]
        ELSE [table EXCEPT ![p] = [key |-> key, order |-> order, occupied |-> TRUE]]
  BY DEF Inserted
<1> HIDE DEF p
<1> DEFINE new == Inserted(table, key, order)
<1>3. new \in [Slots -> Slot]
  BY <1>1, <1>2 DEF Slot
<1>4. /\ new[p].occupied /\ new[p].key = key /\ new[p].order = order
      /\ \A i \in Slots \ {p} : new[i] = table[i]
  BY <1>1, <1>2 DEF Slot
<1> HIDE DEF new
<1>5. Keyed(new) /\ Occupied(new) = Occupied(table) \cup {p}
  BY <1>1, <1>4 DEF Keyed, Occupied
<1> QED
  BY <1>3, <1>4, <1>5 DEF new, p

\* insert keeps chains unbroken.
LEMMA InsertChains ==
  ASSUME NEW table \in [Slots -> Slot], Keyed(table), Chained(table),
         NEW key \in Keys, NEW order \in Orders, ProbeEnds(table, key)
  PROVE  Chained(Inserted(table, key, order))
<1> DEFINE new == Inserted(table, key, order)
           p   == ProbeSlot(table, key)
<1>1. /\ new[p].occupied /\ new[p].key = key
      /\ \A i \in Slots \ {p} : new[i] = table[i]
      /\ Occupied(new) = Occupied(table) \cup {p}
  BY InsertKeeps
<1>2. StopsAt(table, key, p)
  BY ProbeIs
<1> HIDE DEF new, p
<1> SUFFICES ASSUME NEW i \in Occupied(new), NEW s \in Slots,
                    Inside(NaturalOf(new, i), s, i), s # p
             PROVE  table[s].occupied
  BY <1>1 DEF Chained, new
<1>3. CASE i = p
  BY <1>1, <1>2, <1>3 DEF StopsAt, Inside, NaturalOf
<1>4. CASE i # p
  <2>1. i \in Occupied(table) /\ NaturalOf(table, i) = NaturalOf(new, i)
    BY <1>1, <1>4 DEF NaturalOf, Occupied
  <2> QED
    BY <2>1 DEF Chained
<1> QED
  BY <1>3, <1>4

\* insert adds one entry or replaces one.
LEMMA InsertCounts ==
  ASSUME NEW table \in [Slots -> Slot], Keyed(table),
         NEW key \in Keys, NEW order \in Orders, ProbeEnds(table, key)
  PROVE  Cardinality(Occupied(Inserted(table, key, order))) =
           IF Find(table, key) = Null THEN Cardinality(Occupied(table)) + 1
                                      ELSE Cardinality(Occupied(table))
<1> DEFINE p == ProbeSlot(table, key)
<1>1. Occupied(Inserted(table, key, order)) = Occupied(table) \cup {p}
  BY InsertKeeps
<1>2. p \in Slots /\ (Find(table, key) = Null <=> p \notin Occupied(table))
  BY ProbeIs, FindIs DEF StopsAt, Occupied
<1>3. IsFiniteSet(Occupied(table))
  BY OccupiedFinite
<1> HIDE DEF p
<1> QED
  BY <1>1, <1>2, <1>3, FS_AddElement

\* What vacating a slot leaves.
LEMMA VacateIs ==
  ASSUME NEW table \in [Slots -> Slot], Keyed(table), NEW i \in Slots
  PROVE  LET new == [table EXCEPT ![i].occupied = FALSE]
         IN  /\ new \in [Slots -> Slot] /\ Keyed(new)
             /\ ~new[i].occupied /\ new[i].key = table[i].key /\ new[i].order = table[i].order
             /\ \A j \in Slots \ {i} : new[j] = table[j]
             /\ Occupied(new) = Occupied(table) \ {i}
<1> DEFINE new == [table EXCEPT ![i].occupied = FALSE]
<1>1. /\ new \in [Slots -> Slot]
      /\ ~new[i].occupied /\ new[i].key = table[i].key /\ new[i].order = table[i].order
      /\ \A j \in Slots \ {i} : new[j] = table[j]
  BY DEF Slot
<1> HIDE DEF new
<1>2. Keyed(new) /\ Occupied(new) = Occupied(table) \ {i}
  BY <1>1 DEF Keyed, Occupied
<1> QED
  BY <1>1, <1>2 DEF new

\* erase removes one entry and no other.
LEMMA EraseKeeps ==
  ASSUME NEW table \in [Slots -> Slot], Keyed(table), NEW i \in Occupied(table)
  PROVE  LET new == EraseAt(table, i)
         IN  /\ new \in [Slots -> Slot] /\ Keyed(new)
             /\ Entries(new) = {<<table[j].key, table[j].order>> : j \in Occupied(table) \ {i}}
             /\ Cardinality(Occupied(new)) = Cardinality(Occupied(table)) - 1
<1> DEFINE mid == [table EXCEPT ![i].occupied = FALSE]
           new == BackwardShift(mid, i)
<1>1. i \in Slots
  BY DEF Occupied
<1>2. /\ mid \in [Slots -> Slot] /\ Keyed(mid) /\ ~mid[i].occupied
      /\ \A j \in Slots \ {i} : mid[j] = table[j]
      /\ Occupied(mid) = Occupied(table) \ {i}
  BY <1>1, VacateIs
<1> HIDE DEF mid
<1>3. /\ new \in [Slots -> Slot] /\ Keyed(new) /\ Entries(new) = Entries(mid)
      /\ Cardinality(Occupied(new)) = Cardinality(Occupied(mid))
  BY ONLY <1>1, <1>2, ShiftKeeps
<1>4. Entries(mid) = {<<table[j].key, table[j].order>> : j \in Occupied(table) \ {i}}
  BY <1>2 DEF Entries, Occupied
<1>5. Cardinality(Occupied(mid)) = Cardinality(Occupied(table)) - 1
  <2>1. IsFiniteSet(Occupied(table))
    BY OccupiedFinite
  <2>2. Cardinality(Occupied(table) \ {i}) = Cardinality(Occupied(table)) - 1
    BY <2>1, FS_RemoveElement
  <2> QED
    BY <1>2, <2>2
<1>6. EraseAt(table, i) = new
  BY DEF EraseAt, mid
<1> HIDE DEF new
<1> QED
  BY <1>3, <1>4, <1>5, <1>6

\* erase keeps chains unbroken.
LEMMA EraseChains ==
  ASSUME NEW table \in [Slots -> Slot], Keyed(table), Chained(table), NEW i \in Occupied(table)
  PROVE  Chained(EraseAt(table, i))
<1> DEFINE mid == [table EXCEPT ![i].occupied = FALSE]
<1>1. i \in Slots
  BY DEF Occupied
<1>2. /\ mid \in [Slots -> Slot] /\ Keyed(mid) /\ ~mid[i].occupied
      /\ \A j \in Slots \ {i} : mid[j] = table[j]
      /\ Occupied(mid) = Occupied(table) \ {i}
  BY <1>1, VacateIs
<1>3. EraseAt(table, i) = BackwardShift(mid, i)
  BY DEF EraseAt
<1> HIDE DEF mid
<1>4. ChainedBut(mid, i, 1)
  <2> SUFFICES ASSUME NEW j \in Occupied(mid), NEW s \in Slots,
                      Inside(NaturalOf(mid, j), s, j)
               PROVE  mid[s].occupied \/ (s = i /\ Distance(i, j) >= 1)
    BY DEF ChainedBut
  <2>1. j \in Occupied(table) /\ j # i /\ j \in Slots /\ NaturalOf(table, j) = NaturalOf(mid, j)
    BY <1>2 DEF NaturalOf, Occupied
  <2>2. Distance(i, j) # 0 /\ Distance(i, j) \in Nat
    BY <1>1, <2>1, DistanceZero, DistanceIs
  <2>3. Distance(i, j) >= 1
    BY ONLY <2>2
  <2>4. table[s].occupied
    BY <2>1 DEF Chained
  <2> QED
    BY <1>2, <2>3, <2>4
<1> QED
  BY ONLY <1>1, <1>2, <1>3, <1>4, ShiftMendsChains

-----------------------------------------------------------------------------
(***************************************************************************)
(* A hash without collisions.                                              *)
(***************************************************************************)
CollisionFree(ids) == \A k1, k2 \in ids : Hash[k1] = Hash[k2] => k1 = k2

StoredIn(table, ids) == \A i \in Occupied(table) : table[i].key \in ids

\* Every entry lies in its natural slot.
Settled(table) == \A i \in Occupied(table) : NaturalOf(table, i) = i

\* With one id to a natural slot a probe stops where it starts.
LEMMA SettledProbe ==
  ASSUME NEW ids, ids \subseteq Keys, CollisionFree(ids), NEW key \in ids,
         NEW table, Keyed(table), Settled(table), StoredIn(table, ids)
  PROVE  /\ ProbeEnds(table, key)
         /\ ProbeSlot(table, key) = Natural(key)
         /\ table[Natural(key)].occupied => table[Natural(key)].key = key
<1> DEFINE n == Natural(key)
<1>1. n \in Slots
  BY NaturalIsSlot
<1>2. ASSUME table[n].occupied
      PROVE  table[n].key = key
  <2>1. Natural(table[n].key) = n /\ table[n].key \in ids
    BY <1>1, <1>2 DEF Settled, Occupied, NaturalOf, StoredIn
  <2> QED
    BY <2>1 DEF CollisionFree, Natural
<1>3. StopsAt(table, key, n)
  <2>1. Distance(n, n) = 0 /\ \A s \in Slots : Distance(n, s) \in Nat
    BY <1>1, DistanceZero, DistanceIs
  <2>2. \A s \in Slots : ~(Distance(n, s) < Distance(n, n))
    BY ONLY <2>1
  <2> QED
    BY <1>1, <1>2, <2>2 DEF StopsAt
<1> QED
  BY <1>2, <1>3, StopIsProbe

\* The natural slot of the key stores it.
Holds(table, key) == table[Natural(key)].occupied /\ table[Natural(key)].key = key

\* Then an entry is held where its id belongs,
LEMMA SettledHolds ==
  ASSUME NEW table, Settled(table), NEW i \in Occupied(table)
  PROVE  Natural(table[i].key) = i /\ Holds(table, table[i].key)
BY DEF Settled, NaturalOf, Occupied, Holds

\* find answers the natural slot or nothing,
LEMMA SettledFind ==
  ASSUME NEW table, Keyed(table), Settled(table), NEW key \in Keys
  PROVE  /\ Holds(table, key) => ProbeEnds(table, key)
         /\ ProbeEnds(table, key) =>
              Find(table, key) = IF Holds(table, key) THEN Natural(key) ELSE Null
<1> DEFINE n == Natural(key)
<1>1. n \in Slots
  BY NaturalIsSlot
<1>2. CASE Holds(table, key)
  <2>1. StopsAt(table, key, n)
    <3>1. Distance(n, n) = 0 /\ \A s \in Slots : Distance(n, s) \in Nat
      BY <1>1, DistanceZero, DistanceIs
    <3>2. \A s \in Slots : ~(Distance(n, s) < Distance(n, n))
      BY ONLY <3>1
    <3> QED
      BY <1>1, <1>2, <3>2 DEF StopsAt, Holds
  <2>2. ProbeEnds(table, key) /\ ProbeSlot(table, key) = n
    BY <2>1, StopIsProbe
  <2> QED
    BY <1>2, <2>2 DEF Find, Holds
<1>3. CASE ~Holds(table, key)
  <2>1. ASSUME ProbeEnds(table, key), Find(table, key) # Null
        PROVE  FALSE
    <3>1. Find(table, key) \in Occupied(table) /\ table[Find(table, key)].key = key
      BY <2>1, FindIs
    <3> QED
      BY <1>3, <3>1, SettledHolds
  <2> QED
    BY <1>3, <2>1
<1> QED
  BY <1>2, <1>3

\* and erase moves nothing.
LEMMA SettledErase ==
  ASSUME NEW table \in [Slots -> Slot], Keyed(table), Settled(table), NEW i \in Slots
  PROVE  EraseAt(table, i) = [table EXCEPT ![i].occupied = FALSE]
<1> DEFINE mid == [table EXCEPT ![i].occupied = FALSE]
<1>1. /\ mid \in [Slots -> Slot] /\ Keyed(mid) /\ ~mid[i].occupied
      /\ \A j \in Slots \ {i} : mid[j] = table[j]
      /\ Occupied(mid) = Occupied(table) \ {i}
  BY VacateIs
<1>2. EraseAt(table, i) = BackwardShift(mid, i)
  BY DEF EraseAt
<1> HIDE DEF mid
<1>3. \A j \in Occupied(mid) : NaturalOf(mid, j) = j
  BY <1>1 DEF Settled, NaturalOf, Occupied
<1>4. BackwardShift(mid, i) = mid
  BY ONLY <1>1, <1>3, ShiftStill, i \in Slots
<1> QED
  BY <1>2, <1>4 DEF mid

=============================================================================
