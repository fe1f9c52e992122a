--------------------------- MODULE MemoryPoolProofs ---------------------------
(***************************************************************************)
(* MemoryPool and MemoryPool1 for every capacity and every depth of nested *)
(* calls.  The argument is about six sets of slots: those on the free      *)
(* list, those of running constructors and destructors, the objects, and   *)
(* the lost ones.  Each step moves one slot from one set to another.       *)
(***************************************************************************)
EXTENDS MemoryPool1, FiniteSetTheorems, TLAPS

Ops == {"construct", "destroy", "close"}

SlotsOf(cs, op) == {cs[i].slot : i \in {j \in DOMAIN cs : cs[j].op = op}}

DistinctCalls(cs) == \A i, j \in DOMAIN cs : cs[i].slot = cs[j].slot => i = j

-----------------------------------------------------------------------------
(***************************************************************************)
(* Sequences as stacks.                                                    *)
(***************************************************************************)
LEMMA FrontOf ==
  ASSUME NEW S, NEW s \in Seq(S), s # <<>>
  PROVE  /\ Front(s) \in Seq(S)
         /\ Len(Front(s)) = Len(s) - 1
         /\ \A i \in 1 .. Len(s) - 1 : Front(s)[i] = s[i]
         /\ Last(s) = s[Len(s)]
         /\ Last(s) \in S
         /\ Len(s) \in Nat \ {0}
<1>1. Len(s) \in Nat \ {0}
  OBVIOUS
<1>2. Last(s) = s[Len(s)] /\ Last(s) \in S
  BY <1>1 DEF Last
<1>3. Front(s) = [i \in 1 .. Len(s) - 1 |-> s[i]]
  BY <1>1 DEF Front
<1>4. \A i \in 1 .. Len(s) - 1 : s[i] \in S
  BY <1>1
<1>5. Front(s) \in Seq(S) /\ Len(Front(s)) = Len(s) - 1
  BY <1>1, <1>3, <1>4
<1>6. \A i \in 1 .. Len(s) - 1 : Front(s)[i] = s[i]
  BY <1>3
<1> QED
  BY <1>1, <1>2, <1>5, <1>6

\* The members of a sequence with one more.
LEMMA SetOfAppend ==
  ASSUME NEW S, NEW s \in Seq(S), NEW e \in S
  PROVE  ToSet(Append(s, e)) = ToSet(s) \cup {e}
<1>1. /\ DOMAIN s = 1 .. Len(s) /\ DOMAIN Append(s, e) = 1 .. Len(s) + 1 /\ Len(s) \in Nat
      /\ \A i \in 1 .. Len(s) : Append(s, e)[i] = s[i]
      /\ Append(s, e)[Len(s) + 1] = e
  OBVIOUS
<1>2. ToSet(Append(s, e)) \subseteq ToSet(s) \cup {e}
  BY <1>1 DEF ToSet
<1>3. ToSet(s) \subseteq ToSet(Append(s, e))
  <2> SUFFICES ASSUME NEW i \in DOMAIN s
               PROVE  s[i] \in ToSet(Append(s, e))
    BY DEF ToSet
  <2>1. s[i] = Append(s, e)[i] /\ i \in DOMAIN Append(s, e)
    BY <1>1
  <2> QED
    BY <2>1 DEF ToSet
<1>4. e \in ToSet(Append(s, e))
  <2>1. Len(s) + 1 \in DOMAIN Append(s, e)
    BY <1>1
  <2> QED
    BY <1>1, <2>1 DEF ToSet
<1> QED
  BY <1>2, <1>3, <1>4

\* A new member leaves a sequence without duplicates.
LEMMA InjectiveAppend ==
  ASSUME NEW S, NEW s \in Seq(S), NEW e \in S, IsInjective(s), e \notin ToSet(s)
  PROVE  IsInjective(Append(s, e))
<1>1. /\ DOMAIN s = 1 .. Len(s) /\ DOMAIN Append(s, e) = 1 .. Len(s) + 1 /\ Len(s) \in Nat
      /\ \A i \in 1 .. Len(s) : Append(s, e)[i] = s[i]
      /\ Append(s, e)[Len(s) + 1] = e
  OBVIOUS
<1>2. \A i \in 1 .. Len(s) : s[i] # e
  BY <1>1 DEF ToSet
<1> QED
  BY <1>1, <1>2 DEF IsInjective

\* So does taking the last one off, and it is gone.
LEMMA InjectiveFront ==
  ASSUME NEW S, NEW s \in Seq(S), s # <<>>, IsInjective(s)
  PROVE  /\ IsInjective(Front(s))
         /\ ToSet(Front(s)) = ToSet(s) \ {Last(s)}
         /\ Last(s) \in ToSet(s)
<1>1. /\ Front(s) \in Seq(S) /\ Len(Front(s)) = Len(s) - 1
      /\ \A i \in 1 .. Len(s) - 1 : Front(s)[i] = s[i]
      /\ Last(s) = s[Len(s)] /\ Len(s) \in Nat \ {0}
  BY FrontOf
<1>2. DOMAIN s = 1 .. Len(s) /\ DOMAIN Front(s) = 1 .. Len(s) - 1
  BY <1>1
<1>3. IsInjective(Front(s))
  BY <1>1, <1>2 DEF IsInjective
<1>4. Last(s) \in ToSet(s)
  BY <1>1, <1>2 DEF ToSet
<1>5. ToSet(Front(s)) = ToSet(s) \ {Last(s)}
  BY <1>1, <1>2 DEF ToSet, IsInjective
<1> QED
  BY <1>3, <1>4, <1>5

(* Entering a call for a slot that no other call works on.                 *)
LEMMA PushCall ==
  ASSUME NEW cs \in Seq(Call), NEW op \in Ops, NEW slot \in Slots,
         DistinctCalls(cs), \A o \in Ops : slot \notin SlotsOf(cs, o)
  PROVE  LET cs2 == Append(cs, [op |-> op, slot |-> slot])
         IN  /\ cs2 \in Seq(Call)
             /\ DistinctCalls(cs2)
             /\ SlotsOf(cs2, op) = SlotsOf(cs, op) \cup {slot}
             /\ \A o \in Ops \ {op} : SlotsOf(cs2, o) = SlotsOf(cs, o)
<1> DEFINE c   == [op |-> op, slot |-> slot]
           cs2 == Append(cs, c)
<1>1. c \in Call
  BY DEF Call, Ops
<1>2. /\ cs2 \in Seq(Call) /\ Len(cs) \in Nat /\ Len(cs2) = Len(cs) + 1
      /\ DOMAIN cs = 1 .. Len(cs) /\ DOMAIN cs2 = 1 .. Len(cs) + 1
      /\ \A i \in 1 .. Len(cs) : cs2[i] = cs[i]
      /\ cs2[Len(cs) + 1] = c
  BY <1>1
<1>3. \A i \in DOMAIN cs : cs[i].slot # slot
  <2> SUFFICES ASSUME NEW i \in DOMAIN cs, cs[i].slot = slot
               PROVE  FALSE
    OBVIOUS
  <2>1. cs[i] \in Call
    BY <1>2
  <2>2. cs[i].op \in Ops
    BY <2>1 DEF Call, Ops
  <2>3. slot \in SlotsOf(cs, cs[i].op)
    BY DEF SlotsOf
  <2> QED
    BY <2>2, <2>3
<1>4. DistinctCalls(cs2)
  <2> SUFFICES ASSUME NEW i \in DOMAIN cs2, NEW j \in DOMAIN cs2, cs2[i].slot = cs2[j].slot
               PROVE  i = j
    BY DEF DistinctCalls
  <2>1. c.slot = slot
    OBVIOUS
  <2>2. CASE i \in DOMAIN cs /\ j \in DOMAIN cs
    BY <1>2, <2>2 DEF DistinctCalls
  <2>3. CASE i = Len(cs) + 1 \/ j = Len(cs) + 1
    BY <1>2, <1>3, <2>1, <2>3
  <2> QED
    BY <1>2, <2>2, <2>3
<1>5. SlotsOf(cs2, op) = SlotsOf(cs, op) \cup {slot}
  <2>1. c.op = op /\ c.slot = slot
    OBVIOUS
  <2> HIDE DEF c, cs2
  <2> QED
    BY <1>2, <2>1 DEF SlotsOf
<1>6. ASSUME NEW o \in Ops \ {op}
      PROVE  SlotsOf(cs2, o) = SlotsOf(cs, o)
  <2>1. c.op = op
    OBVIOUS
  <2> HIDE DEF c, cs2
  <2> QED
    BY <1>2, <2>1 DEF SlotsOf
<1> QED
  BY <1>2, <1>4, <1>5, <1>6

(* Leaving the innermost call.                                             *)
LEMMA PopCall ==
  ASSUME NEW cs \in Seq(Call), cs # <<>>, DistinctCalls(cs),
         NEW op, NEW slot, Last(cs) = [op |-> op, slot |-> slot]
  PROVE  /\ Front(cs) \in Seq(Call)
         /\ DistinctCalls(Front(cs))
         /\ op \in Ops /\ slot \in SlotsOf(cs, op)
         /\ SlotsOf(Front(cs), op) = SlotsOf(cs, op) \ {slot}
         /\ \A o \in Ops \ {op} : SlotsOf(Front(cs), o) = SlotsOf(cs, o)
<1> DEFINE n == Len(cs)
           f == Front(cs)
<1>1. /\ f \in Seq(Call) /\ Len(f) = n - 1 /\ n \in Nat \ {0}
      /\ \A i \in 1 .. n - 1 : f[i] = cs[i]
      /\ Last(cs) = cs[n] /\ Last(cs) \in Call
  BY FrontOf
<1>2. DOMAIN cs = 1 .. n /\ DOMAIN f = 1 .. n - 1
  BY <1>1
<1>3. cs[n].op = op /\ cs[n].slot = slot
  BY <1>1
<1>4. op \in Ops
  BY <1>1, <1>3 DEF Call, Ops
<1> HIDE DEF n, f
<1>5. DistinctCalls(f)
  BY <1>1, <1>2 DEF DistinctCalls
<1>6. slot \in SlotsOf(cs, op)
  BY <1>1, <1>2, <1>3 DEF SlotsOf
<1>7. SlotsOf(f, op) = SlotsOf(cs, op) \ {slot}
  BY <1>1, <1>2, <1>3 DEF SlotsOf, DistinctCalls
<1>8. ASSUME NEW o \in Ops \ {op}
      PROVE  SlotsOf(f, o) = SlotsOf(cs, o)
  BY <1>1, <1>2, <1>3 DEF SlotsOf
<1> QED
  BY <1>1, <1>4, <1>5, <1>6, <1>7, <1>8 DEF f

-----------------------------------------------------------------------------
(***************************************************************************)
(* The inductive invariant.  MemoryPool1 differs in that its one running   *)
(* constructor or destructor works on the slot on top of the free list.    *)
(***************************************************************************)
Disjoint(S, T) == S \cap T = {}

Free    == ToSet(free)
Made    == SlotsOf(calls, "construct")
Undone  == SlotsOf(calls, "destroy")
Closed  == SlotsOf(calls, "close")

SetsTyped ==
  /\ free \in Seq(Slots) /\ calls \in Seq(Call)
  /\ objects \subseteq Slots /\ lost \subseteq Slots
  /\ cursor \in -1 .. Capacity

StacksDistinct == IsInjective(free) /\ DistinctCalls(calls)

SetsApart ==
  /\ Disjoint(objects, Made) /\ Disjoint(objects, Undone) /\ Disjoint(objects, Closed)
  /\ Disjoint(objects, lost) /\ Disjoint(objects, Free)
  /\ Disjoint(Made, Undone) /\ Disjoint(Made, Closed) /\ Disjoint(Undone, Closed)
  /\ Disjoint(lost, Made) /\ Disjoint(lost, Undone) /\ Disjoint(lost, Closed)
  /\ Disjoint(lost, Free) /\ Disjoint(Free, Closed)

CallsOffTheList == Disjoint(Free, Made) /\ Disjoint(Free, Undone)

OnTop ==
  /\ Made \cup Undone \cup Closed # {} => Len(calls) = 1
  /\ \A slot \in Made \cup Undone : free # <<>> /\ slot = Last(free)

OccupiedAre == occupied = objects \cup Undone \cup Closed

ClosingInOrder == Closing => Made = {} /\ \A slot \in objects : cursor <= slot

Known == Free \cup Made \cup objects \cup Undone \cup lost

\* What size() counts: a MemoryPool1 counts down before the destructor runs.
Counted == IF draft THEN objects ELSE objects \cup Undone

CountsInv ==
  /\ ~Closing => /\ live = Cardinality(Counted)
                 /\ Known = Slots
                 /\ Closed = {}
  /\ draft => lost = {}

PoolInv ==
  /\ SetsTyped /\ StacksDistinct /\ SetsApart
  /\ IF draft THEN OnTop ELSE CallsOffTheList
  /\ OccupiedAre /\ ClosingInOrder

-----------------------------------------------------------------------------
(***************************************************************************)
(* What entering and leaving a call does to the sets.                      *)
(***************************************************************************)
LEMMA Entered ==
  ASSUME SetsTyped, StacksDistinct, NEW op \in Ops, NEW slot \in Slots, Enter(op, slot),
         slot \notin Made, slot \notin Undone, slot \notin Closed
  PROVE  /\ calls' \in Seq(Call) /\ DistinctCalls(calls')
         /\ Made'   = IF op = "construct" THEN Made \cup {slot} ELSE Made
         /\ Undone' = IF op = "destroy" THEN Undone \cup {slot} ELSE Undone
         /\ Closed' = IF op = "close" THEN Closed \cup {slot} ELSE Closed
         /\ Len(calls') = Len(calls) + 1
<1>1. calls \in Seq(Call) /\ DistinctCalls(calls)
  BY DEF SetsTyped, StacksDistinct
<1>2. \A o \in Ops : slot \notin SlotsOf(calls, o)
  BY DEF Ops, Made, Undone, Closed
<1>3. calls' = Append(calls, [op |-> op, slot |-> slot])
  BY DEF Enter
<1>4. /\ calls' \in Seq(Call) /\ DistinctCalls(calls')
      /\ SlotsOf(calls', op) = SlotsOf(calls, op) \cup {slot}
      /\ \A o \in Ops \ {op} : SlotsOf(calls', o) = SlotsOf(calls, o)
  BY <1>1, <1>2, <1>3, PushCall
<1>5. Len(calls') = Len(calls) + 1
  BY <1>1, <1>3
<1>6. Made' = SlotsOf(calls', "construct") /\ Undone' = SlotsOf(calls', "destroy")
      /\ Closed' = SlotsOf(calls', "close")
  BY DEF Made, Undone, Closed
<1> QED
  BY <1>4, <1>5, <1>6 DEF Ops, Made, Undone, Closed

\* A constructor or destructor that is left leaves one call fewer, and frees its slot.
LEMMA Returned ==
  ASSUME SetsTyped, StacksDistinct, NEW op, NEW slot, Leave(op, slot)
  PROVE  /\ calls' \in Seq(Call) /\ DistinctCalls(calls')
         /\ slot \in Slots /\ slot \in SlotsOf(calls, op)
         /\ Made'   = IF op = "construct" THEN Made \ {slot} ELSE Made
         /\ Undone' = IF op = "destroy" THEN Undone \ {slot} ELSE Undone
         /\ Closed' = IF op = "close" THEN Closed \ {slot} ELSE Closed
         /\ Len(calls') = Len(calls) - 1
<1>1. /\ calls \in Seq(Call) /\ DistinctCalls(calls) /\ calls # <<>>
      /\ Last(calls) = [op |-> op, slot |-> slot] /\ calls' = Front(calls)
  BY DEF SetsTyped, StacksDistinct, Leave
<1>2. /\ calls' \in Seq(Call) /\ DistinctCalls(calls')
      /\ op \in Ops /\ slot \in SlotsOf(calls, op)
      /\ SlotsOf(calls', op) = SlotsOf(calls, op) \ {slot}
      /\ \A o \in Ops \ {op} : SlotsOf(calls', o) = SlotsOf(calls, o)
  BY <1>1, PopCall
<1>3. Len(calls') = Len(calls) - 1 /\ Last(calls) \in Call
  BY <1>1, FrontOf
<1>4. slot \in Slots
  BY <1>1, <1>3 DEF Call
<1>5. Made' = SlotsOf(calls', "construct") /\ Undone' = SlotsOf(calls', "destroy")
      /\ Closed' = SlotsOf(calls', "close")
  BY DEF Made, Undone, Closed
<1> QED
  BY <1>2, <1>3, <1>4, <1>5 DEF Ops, Made, Undone, Closed

\* No call, no slot at work.
LEMMA NothingCalled ==
  ASSUME SetsTyped, Len(calls) = 0
  PROVE  Made = {} /\ Undone = {} /\ Closed = {}
BY DEF SetsTyped, Made, Undone, Closed, SlotsOf

\* The slots at work are slots of the pool.
LEMMA CalledSlots ==
  ASSUME SetsTyped
  PROVE  Made \subseteq Slots /\ Undone \subseteq Slots /\ Closed \subseteq Slots
<1>1. ASSUME NEW i \in DOMAIN calls
      PROVE  calls[i].slot \in Slots
  <2>1. calls[i] \in Call
    BY DEF SetsTyped
  <2> QED
    BY <2>1 DEF Call
<1> QED
  BY <1>1 DEF Made, Undone, Closed, SlotsOf

\* The slot that a pop takes off the free list is on it no more.
LEMMA TopOfFree ==
  ASSUME SetsTyped, StacksDistinct, free # <<>>
  PROVE  /\ Last(free) \in Slots /\ Last(free) \in Free
         /\ Front(free) \in Seq(Slots) /\ IsInjective(Front(free))
         /\ ToSet(Front(free)) = Free \ {Last(free)}
BY FrontOf, InjectiveFront DEF SetsTyped, StacksDistinct, Free

\* A slot pushed on the free list is its last.
LEMMA PutBack ==
  ASSUME SetsTyped, StacksDistinct, NEW slot \in Slots, slot \notin Free
  PROVE  /\ Append(free, slot) \in Seq(Slots) /\ IsInjective(Append(free, slot))
         /\ ToSet(Append(free, slot)) = Free \cup {slot}
         /\ Append(free, slot) # <<>> /\ Last(Append(free, slot)) = slot
<1>1. free \in Seq(Slots) /\ IsInjective(free)
  BY DEF SetsTyped, StacksDistinct
<1>2. Append(free, slot) \in Seq(Slots) /\ Len(Append(free, slot)) = Len(free) + 1
      /\ Len(free) \in Nat /\ Append(free, slot)[Len(free) + 1] = slot
  BY <1>1
<1>3. Append(free, slot) # <<>>
  BY <1>2
<1>4. Last(Append(free, slot)) = slot
  BY <1>2 DEF Last
<1> QED
  BY <1>1, <1>2, <1>3, <1>4, SetOfAppend, InjectiveAppend DEF Free

-----------------------------------------------------------------------------
(***************************************************************************)
(* MemoryPool's actions.                                                   *)
(***************************************************************************)
LEMMA PoolsInitInv == PoolsInit => PoolInv
<1> SUFFICES ASSUME PoolsInit
             PROVE  PoolInv
  OBVIOUS
<1>1. /\ free = [i \in 1 .. Capacity |-> Capacity - i] /\ calls = <<>>
      /\ occupied = {} /\ objects = {} /\ lost = {} /\ cursor = -1
  BY DEF PoolsInit, PoolInit
<1>2. \A i \in 1 .. Capacity : Capacity - i \in Slots
  BY CapacityAssumption DEF Slots
<1>3. free \in Seq(Slots)
  BY <1>1, <1>2, CapacityAssumption
<1>4. SetsTyped
  BY <1>1, <1>3, CapacityAssumption DEF SetsTyped
<1>5. Len(calls) = 0
  BY <1>1
<1>6. Made = {} /\ Undone = {} /\ Closed = {}
  BY <1>4, <1>5, NothingCalled
<1>7. DistinctCalls(calls)
  BY <1>1 DEF DistinctCalls
<1>8. IsInjective(free)
  BY <1>1, CapacityAssumption DEF IsInjective
<1> QED
  BY <1>1, <1>4, <1>6, <1>7, <1>8
  DEF PoolInv, SetsApart, StacksDistinct, Disjoint, OnTop, CallsOffTheList, OccupiedAre,
      ClosingInOrder, Closing

\* allocate keeps the invariant up to the constructor it calls,
LEMMA AllocateKeeps ==
  ASSUME PoolInv, ~draft, Allocate, UNCHANGED draft
  PROVE  PoolInv'
<1> DEFINE slot == Last(free)
<1>1. SetsTyped /\ StacksDistinct /\ SetsApart /\ CallsOffTheList /\ OccupiedAre /\ ClosingInOrder
  BY DEF PoolInv
<1>2. /\ free # <<>> /\ Enter("construct", slot) /\ free' = Front(free) /\ ~Closing
      /\ UNCHANGED <<occupied, objects, lost, cursor>>
  BY DEF Allocate
<1>3. /\ slot \in Slots /\ slot \in Free /\ free' \in Seq(Slots)
      /\ IsInjective(free') /\ Free' = Free \ {slot}
  BY <1>1, <1>2, TopOfFree DEF Free
<1>4. slot \notin Made /\ slot \notin Undone /\ slot \notin Closed
  BY <1>1, <1>3 DEF CallsOffTheList, SetsApart, Disjoint
<1> HIDE DEF slot
<1>5. /\ calls' \in Seq(Call) /\ DistinctCalls(calls')
      /\ Made' = Made \cup {slot} /\ Undone' = Undone /\ Closed' = Closed
  BY <1>1, <1>2, <1>3, <1>4, Entered DEF Ops
<1>6. SetsTyped' /\ StacksDistinct'
  BY <1>1, <1>2, <1>3, <1>5 DEF SetsTyped, StacksDistinct
<1>7. SetsApart' /\ CallsOffTheList'
  BY <1>1, <1>2, <1>3, <1>4, <1>5 DEF SetsApart, CallsOffTheList, Disjoint
<1>8. OccupiedAre' /\ ClosingInOrder'
  BY <1>1, <1>2, <1>5 DEF OccupiedAre, ClosingInOrder, Closing
<1> QED
  BY <1>6, <1>7, <1>8 DEF PoolInv

\* when the constructor returns,
LEMMA ConstructReturnsKeeps ==
  ASSUME PoolInv, ~draft, UNCHANGED draft, NEW slot, ConstructReturns(slot)
  PROVE  PoolInv'
<1>1. SetsTyped /\ StacksDistinct /\ SetsApart /\ CallsOffTheList /\ OccupiedAre /\ ClosingInOrder
  BY DEF PoolInv
<1>2. /\ Leave("construct", slot)
      /\ occupied' = occupied \cup {slot} /\ objects' = objects \cup {slot}
      /\ UNCHANGED <<free, lost, cursor>>
  BY DEF ConstructReturns
<1>3. /\ calls' \in Seq(Call) /\ DistinctCalls(calls')
      /\ slot \in Slots /\ slot \in Made
      /\ Made' = Made \ {slot} /\ Undone' = Undone /\ Closed' = Closed
  BY <1>1, <1>2, Returned DEF Made
<1>4. Free' = Free /\ ~Closing /\ ~Closing'
  BY <1>1, <1>2, <1>3 DEF Free, ClosingInOrder, Closing
<1>5. SetsTyped' /\ StacksDistinct'
  BY <1>1, <1>2, <1>3 DEF SetsTyped, StacksDistinct
<1>6. SetsApart' /\ CallsOffTheList'
  BY <1>1, <1>2, <1>3, <1>4 DEF SetsApart, CallsOffTheList, Disjoint
<1>7. OccupiedAre' /\ ClosingInOrder'
  BY <1>1, <1>2, <1>3, <1>4 DEF OccupiedAre, ClosingInOrder
<1> QED
  BY <1>5, <1>6, <1>7 DEF PoolInv

\* and when it throws: the slot is lost.
LEMMA ConstructThrowsKeeps ==
  ASSUME PoolInv, ~draft, UNCHANGED draft, NEW slot, ConstructThrows(slot)
  PROVE  PoolInv'
<1>1. SetsTyped /\ StacksDistinct /\ SetsApart /\ CallsOffTheList /\ OccupiedAre /\ ClosingInOrder
  BY DEF PoolInv
<1>2. /\ Leave("construct", slot) /\ lost' = lost \cup {slot}
      /\ UNCHANGED <<free, occupied, objects, cursor>>
  BY DEF ConstructThrows
<1>3. /\ calls' \in Seq(Call) /\ DistinctCalls(calls')
      /\ slot \in Slots /\ slot \in Made
      /\ Made' = Made \ {slot} /\ Undone' = Undone /\ Closed' = Closed
  BY <1>1, <1>2, Returned DEF Made
<1>4. Free' = Free
  BY <1>2 DEF Free
<1>5. SetsTyped' /\ StacksDistinct'
  BY <1>1, <1>2, <1>3 DEF SetsTyped, StacksDistinct
<1>6. SetsApart' /\ CallsOffTheList'
  BY <1>1, <1>2, <1>3, <1>4 DEF SetsApart, CallsOffTheList, Disjoint
<1>7. OccupiedAre' /\ ClosingInOrder'
  BY <1>1, <1>2, <1>3, <1>4 DEF OccupiedAre, ClosingInOrder, Closing
<1> QED
  BY <1>5, <1>6, <1>7 DEF PoolInv

\* deallocate keeps it up to the destructor it calls,
LEMMA DeallocateKeeps ==
  ASSUME PoolInv, ~draft, UNCHANGED draft, NEW slot \in Slots, Deallocate(slot)
  PROVE  PoolInv'
<1>1. SetsTyped /\ StacksDistinct /\ SetsApart /\ CallsOffTheList /\ OccupiedAre /\ ClosingInOrder
  BY DEF PoolInv
<1>2. /\ slot \in objects /\ Enter("destroy", slot) /\ objects' = objects \ {slot}
      /\ UNCHANGED <<free, occupied, lost, cursor>>
  BY DEF Deallocate
<1>3. slot \notin Made /\ slot \notin Undone /\ slot \notin Closed
  BY <1>1, <1>2 DEF SetsApart, Disjoint
<1>4. /\ calls' \in Seq(Call) /\ DistinctCalls(calls')
      /\ Made' = Made /\ Undone' = Undone \cup {slot} /\ Closed' = Closed
  BY <1>1, <1>2, <1>3, Entered DEF Ops
<1>5. Free' = Free
  BY <1>2 DEF Free
<1>6. SetsTyped' /\ StacksDistinct'
  BY <1>1, <1>2, <1>4 DEF SetsTyped, StacksDistinct
<1>7. SetsApart' /\ CallsOffTheList'
  BY <1>1, <1>2, <1>4, <1>5 DEF SetsApart, CallsOffTheList, Disjoint
<1>8. OccupiedAre' /\ ClosingInOrder'
  BY <1>1, <1>2, <1>4 DEF OccupiedAre, ClosingInOrder, Closing
<1> QED
  BY <1>6, <1>7, <1>8 DEF PoolInv

\* and when the destructor returns.
LEMMA DestroyReturnsKeeps ==
  ASSUME PoolInv, ~draft, UNCHANGED draft, NEW slot, DestroyReturns(slot)
  PROVE  PoolInv'
<1>1. SetsTyped /\ StacksDistinct /\ SetsApart /\ CallsOffTheList /\ OccupiedAre /\ ClosingInOrder
  BY DEF PoolInv
<1>2. /\ Leave("destroy", slot) /\ occupied' = occupied \ {slot} /\ free' = Append(free, slot)
      /\ UNCHANGED <<objects, lost, cursor>>
  BY DEF DestroyReturns
<1>3. /\ calls' \in Seq(Call) /\ DistinctCalls(calls')
      /\ slot \in Slots /\ slot \in Undone
      /\ Made' = Made /\ Undone' = Undone \ {slot} /\ Closed' = Closed
  BY <1>1, <1>2, Returned DEF Undone
<1>4. slot \notin Free /\ slot \notin objects /\ slot \notin Closed /\ slot \notin Made /\ slot \notin lost
  BY <1>1, <1>3 DEF CallsOffTheList, SetsApart, Disjoint
<1>5. free' \in Seq(Slots) /\ IsInjective(free') /\ Free' = Free \cup {slot}
  BY <1>1, <1>2, <1>3, <1>4, PutBack DEF Free
<1>6. SetsTyped' /\ StacksDistinct'
  BY <1>1, <1>2, <1>3, <1>5 DEF SetsTyped, StacksDistinct
<1>7. SetsApart' /\ CallsOffTheList'
  BY <1>1, <1>2, <1>3, <1>4, <1>5 DEF SetsApart, CallsOffTheList, Disjoint
<1>8. OccupiedAre' /\ ClosingInOrder'
  BY <1>1, <1>2, <1>3, <1>4 DEF OccupiedAre, ClosingInOrder, Closing
<1> QED
  BY <1>6, <1>7, <1>8 DEF PoolInv

-----------------------------------------------------------------------------
(***************************************************************************)
(* MemoryPool1's actions.                                                  *)
(***************************************************************************)
LEMMA Allocate1Keeps ==
  ASSUME PoolInv, draft, UNCHANGED draft, Allocate1
  PROVE  PoolInv'
<1> DEFINE slot == Last(free)
<1>1. SetsTyped /\ StacksDistinct /\ SetsApart /\ OnTop /\ OccupiedAre /\ ClosingInOrder
  BY DEF PoolInv
<1>2. /\ free # <<>> /\ calls = <<>> /\ Enter("construct", slot) /\ ~Closing
      /\ UNCHANGED <<free, occupied, objects, lost, cursor>>
  BY DEF Allocate1
<1>3. slot \in Slots /\ slot \in Free
  BY <1>1, <1>2, TopOfFree
<1>4. Len(calls) = 0 /\ Made = {} /\ Undone = {} /\ Closed = {}
  BY <1>1, <1>2, NothingCalled
<1> HIDE DEF slot
<1>5. /\ calls' \in Seq(Call) /\ DistinctCalls(calls')
      /\ Made' = Made \cup {slot} /\ Undone' = Undone /\ Closed' = Closed
      /\ Len(calls') = 1
  BY <1>1, <1>2, <1>3, <1>4, Entered DEF Ops
<1>6. Free' = Free
  BY <1>2 DEF Free
<1>7. SetsTyped' /\ StacksDistinct'
  BY <1>1, <1>2, <1>5 DEF SetsTyped, StacksDistinct
<1>8. SetsApart'
  BY <1>1, <1>2, <1>3, <1>4, <1>5, <1>6 DEF SetsApart, Disjoint
<1>9. OnTop'
  BY <1>2, <1>4, <1>5 DEF OnTop, slot
<1>10. OccupiedAre' /\ ClosingInOrder'
  BY <1>1, <1>2, <1>5 DEF OccupiedAre, ClosingInOrder, Closing
<1> QED
  BY <1>7, <1>8, <1>9, <1>10 DEF PoolInv

(* The one call underway worked on the slot on top, and no call remains.   *)
LEMMA OnlyCall ==
  ASSUME SetsTyped, StacksDistinct, OnTop, NEW op, NEW slot, Leave(op, slot)
  PROVE  /\ slot \in Slots /\ slot \in SlotsOf(calls, op)
         /\ calls' \in Seq(Call) /\ DistinctCalls(calls') /\ Len(calls') = 0
         /\ Made' = {} /\ Undone' = {} /\ Closed' = {}
         /\ op = "construct" => Made = {slot} /\ Undone = {} /\ Closed = {}
         /\ op = "destroy" => Made = {} /\ Undone = {slot} /\ Closed = {}
         /\ op = "close" => Made = {} /\ Undone = {} /\ Closed = {slot}
<1>1. /\ slot \in Slots /\ slot \in SlotsOf(calls, op)
      /\ calls' \in Seq(Call) /\ DistinctCalls(calls') /\ Len(calls') = Len(calls) - 1
      /\ Made'   = IF op = "construct" THEN Made \ {slot} ELSE Made
      /\ Undone' = IF op = "destroy" THEN Undone \ {slot} ELSE Undone
      /\ Closed' = IF op = "close" THEN Closed \ {slot} ELSE Closed
  BY Returned
<1>2. op \in Ops
  BY PopCall DEF Leave, SetsTyped, StacksDistinct
<1>3. slot \in Made \cup Undone \cup Closed
  BY <1>1, <1>2 DEF Ops, Made, Undone, Closed
<1>4. Len(calls') = 0
  BY <1>1, <1>3 DEF OnTop
<1>5. SlotsOf(calls', "construct") = {} /\ SlotsOf(calls', "destroy") = {}
      /\ SlotsOf(calls', "close") = {}
  BY <1>1, <1>4 DEF SlotsOf
<1>6. Made' = {} /\ Undone' = {} /\ Closed' = {}
  BY <1>5 DEF Made, Undone, Closed
<1>7. slot \in SlotsOf(calls, "construct") => slot \in Made
  BY DEF Made
<1>8. slot \in SlotsOf(calls, "destroy") => slot \in Undone
  BY DEF Undone
<1>9. slot \in SlotsOf(calls, "close") => slot \in Closed
  BY DEF Closed
<1> QED
  BY <1>1, <1>4, <1>6, <1>7, <1>8, <1>9

\* The draft's allocate keeps it when the constructor returns
LEMMA Construct1ReturnsKeeps ==
  ASSUME PoolInv, draft, UNCHANGED draft, NEW slot, Construct1Returns(slot)
  PROVE  PoolInv'
<1>1. SetsTyped /\ StacksDistinct /\ SetsApart /\ OnTop /\ OccupiedAre /\ ClosingInOrder
  BY DEF PoolInv
<1>2. /\ Leave("construct", slot)
      /\ occupied' = occupied \cup {slot} /\ objects' = objects \cup {slot}
      /\ free' = Front(free) /\ UNCHANGED <<lost, cursor>>
  BY DEF Construct1Returns
<1>3. /\ slot \in Slots /\ calls' \in Seq(Call) /\ DistinctCalls(calls')
      /\ Made' = {} /\ Undone' = {} /\ Closed' = {}
      /\ Made = {slot} /\ Undone = {} /\ Closed = {}
  BY <1>1, <1>2, OnlyCall
<1>4. free # <<>> /\ slot = Last(free)
  BY <1>1, <1>3 DEF OnTop
<1>5. free' \in Seq(Slots) /\ IsInjective(free') /\ Free' = Free \ {slot}
  BY <1>1, <1>2, <1>4, TopOfFree DEF Free
<1>6. ~Closing /\ ~Closing'
  BY <1>1, <1>2, <1>3 DEF ClosingInOrder, Closing
<1>7. SetsTyped' /\ StacksDistinct'
  BY <1>1, <1>2, <1>3, <1>5 DEF SetsTyped, StacksDistinct
<1>8. SetsApart' /\ OnTop'
  BY <1>1, <1>2, <1>3, <1>5 DEF SetsApart, OnTop, Disjoint
<1>9. OccupiedAre' /\ ClosingInOrder'
  BY <1>1, <1>2, <1>3, <1>6 DEF OccupiedAre, ClosingInOrder
<1> QED
  BY <1>7, <1>8, <1>9 DEF PoolInv

\* and when it throws: the slot is still free.
LEMMA Construct1ThrowsKeeps ==
  ASSUME PoolInv, draft, UNCHANGED draft, NEW slot, Construct1Throws(slot)
  PROVE  PoolInv'
<1>1. SetsTyped /\ StacksDistinct /\ SetsApart /\ OnTop /\ OccupiedAre /\ ClosingInOrder
  BY DEF PoolInv
<1>2. Leave("construct", slot) /\ UNCHANGED <<free, occupied, objects, lost, cursor>>
  BY DEF Construct1Throws
<1>3. /\ calls' \in Seq(Call) /\ DistinctCalls(calls')
      /\ Made' = {} /\ Undone' = {} /\ Closed' = {} /\ Undone = {} /\ Closed = {}
  BY <1>1, <1>2, OnlyCall
<1>4. Free' = Free
  BY <1>2 DEF Free
<1>5. SetsTyped' /\ StacksDistinct'
  BY <1>1, <1>2, <1>3 DEF SetsTyped, StacksDistinct
<1>6. SetsApart' /\ OnTop'
  BY <1>1, <1>2, <1>3, <1>4 DEF SetsApart, OnTop, Disjoint
<1>7. OccupiedAre' /\ ClosingInOrder'
  BY <1>1, <1>2, <1>3 DEF OccupiedAre, ClosingInOrder, Closing
<1> QED
  BY <1>5, <1>6, <1>7 DEF PoolInv

\* The draft's deallocate frees the slot before it calls the destructor,
LEMMA Deallocate1Keeps ==
  ASSUME PoolInv, draft, UNCHANGED draft, NEW slot \in Slots, Deallocate1(slot)
  PROVE  PoolInv'
<1>1. SetsTyped /\ StacksDistinct /\ SetsApart /\ OnTop /\ OccupiedAre /\ ClosingInOrder
  BY DEF PoolInv
<1>2. /\ slot \in objects /\ calls = <<>> /\ Enter("destroy", slot) /\ ~Closing
      /\ objects' = objects \ {slot} /\ free' = Append(free, slot)
      /\ UNCHANGED <<occupied, lost, cursor>>
  BY DEF Deallocate1
<1>3. Len(calls) = 0 /\ Made = {} /\ Undone = {} /\ Closed = {}
  BY <1>1, <1>2, NothingCalled
<1>4. /\ calls' \in Seq(Call) /\ DistinctCalls(calls')
      /\ Made' = {} /\ Undone' = {slot} /\ Closed' = {} /\ Len(calls') = 1
  BY <1>1, <1>2, <1>3, Entered DEF Ops
<1>5. slot \notin Free /\ slot \notin lost
  BY <1>1, <1>2 DEF SetsApart, Disjoint
<1>6. /\ free' \in Seq(Slots) /\ IsInjective(free') /\ Free' = Free \cup {slot}
      /\ free' # <<>> /\ Last(free') = slot
  BY <1>1, <1>2, <1>5, PutBack DEF Free
<1>7. SetsTyped' /\ StacksDistinct'
  BY <1>1, <1>2, <1>4, <1>6 DEF SetsTyped, StacksDistinct
<1>8. SetsApart'
  BY <1>1, <1>2, <1>4, <1>5, <1>6 DEF SetsApart, Disjoint
<1>9. OnTop'
  BY <1>4, <1>6 DEF OnTop
<1>10. OccupiedAre' /\ ClosingInOrder'
  BY <1>1, <1>2, <1>3, <1>4 DEF OccupiedAre, ClosingInOrder, Closing
<1> QED
  BY <1>7, <1>8, <1>9, <1>10 DEF PoolInv

\* which then returns.
LEMMA Destroy1ReturnsKeeps ==
  ASSUME PoolInv, draft, UNCHANGED draft, NEW slot, Destroy1Returns(slot)
  PROVE  PoolInv'
<1>1. SetsTyped /\ StacksDistinct /\ SetsApart /\ OnTop /\ OccupiedAre /\ ClosingInOrder
  BY DEF PoolInv
<1>2. /\ Leave("destroy", slot) /\ occupied' = occupied \ {slot}
      /\ UNCHANGED <<free, objects, lost, cursor>>
  BY DEF Destroy1Returns
<1>3. /\ calls' \in Seq(Call) /\ DistinctCalls(calls')
      /\ Made' = {} /\ Undone' = {} /\ Closed' = {}
      /\ Made = {} /\ Undone = {slot} /\ Closed = {}
  BY <1>1, <1>2, OnlyCall
<1>4. Free' = Free
  BY <1>2 DEF Free
<1>5. SetsTyped' /\ StacksDistinct'
  BY <1>1, <1>2, <1>3 DEF SetsTyped, StacksDistinct
<1>6. SetsApart' /\ OnTop'
  BY <1>1, <1>2, <1>3, <1>4 DEF SetsApart, OnTop, Disjoint
<1>7. OccupiedAre' /\ ClosingInOrder'
  BY <1>1, <1>2, <1>3 DEF OccupiedAre, ClosingInOrder, Closing, SetsApart, Disjoint
<1> QED
  BY <1>5, <1>6, <1>7 DEF PoolInv

-----------------------------------------------------------------------------
(***************************************************************************)
(* The destructor, which both have.                                        *)
(***************************************************************************)
LEMMA CloseKeeps ==
  ASSUME PoolInv, UNCHANGED draft, Close
  PROVE  PoolInv'
<1>1. SetsTyped /\ StacksDistinct /\ SetsApart /\ OccupiedAre
  BY DEF PoolInv
<1>2. calls = <<>> /\ cursor' = 0 /\ UNCHANGED <<free, occupied, calls, objects, lost>>
  BY DEF Close
<1>3. Free' = Free /\ Made' = Made /\ Undone' = Undone /\ Closed' = Closed
  BY <1>2 DEF Free, Made, Undone, Closed
<1>4. Len(calls) = 0 /\ Made = {}
  BY <1>1, <1>2, NothingCalled
<1>5. SetsTyped'
  BY <1>1, <1>2, CapacityAssumption DEF SetsTyped
<1>6. \A slot \in objects : 0 <= slot
  BY <1>1 DEF SetsTyped, Slots
<1>7. ClosingInOrder'
  BY <1>2, <1>3, <1>4, <1>6 DEF ClosingInOrder
<1>8. StacksDistinct' /\ SetsApart' /\ OccupiedAre'
  BY <1>1, <1>2, <1>3 DEF StacksDistinct, SetsApart, OccupiedAre
<1>9. (OnTop' = OnTop) /\ (CallsOffTheList' = CallsOffTheList)
  BY <1>2, <1>3 DEF OnTop, CallsOffTheList
<1> QED
  BY <1>5, <1>7, <1>8, <1>9 DEF PoolInv

\* The pool's destructor passes a vacant slot,
LEMMA CloseSkipsKeeps ==
  ASSUME PoolInv, UNCHANGED draft, CloseSkips
  PROVE  PoolInv'
<1>1. SetsTyped /\ StacksDistinct /\ SetsApart /\ OccupiedAre /\ ClosingInOrder
  BY DEF PoolInv
<1>2. /\ calls = <<>> /\ cursor \in Slots \ occupied /\ cursor' = cursor + 1
      /\ UNCHANGED <<free, occupied, calls, objects, lost>>
  BY DEF CloseSkips
<1>3. Free' = Free /\ Made' = Made /\ Undone' = Undone /\ Closed' = Closed
  BY <1>2 DEF Free, Made, Undone, Closed
<1>4. cursor \in 0 .. Capacity - 1
  BY <1>2 DEF Slots
<1>5. SetsTyped'
  BY <1>1, <1>2, <1>4, CapacityAssumption DEF SetsTyped
<1>6. Closing /\ Closing'
  BY <1>2, <1>4, CapacityAssumption DEF Closing
<1>7. ASSUME NEW slot \in objects
      PROVE  cursor + 1 <= slot
  <2>1. cursor <= slot /\ slot # cursor
    BY <1>1, <1>2, <1>6 DEF ClosingInOrder, OccupiedAre
  <2>2. slot \in 0 .. Capacity - 1
    BY <1>1 DEF SetsTyped, Slots
  <2> QED
    BY <1>4, <2>1, <2>2, CapacityAssumption
<1>8. ClosingInOrder'
  BY <1>1, <1>2, <1>3, <1>6, <1>7 DEF ClosingInOrder
<1>9. StacksDistinct' /\ SetsApart' /\ OccupiedAre'
  BY <1>1, <1>2, <1>3 DEF StacksDistinct, SetsApart, OccupiedAre
<1>10. (OnTop' = OnTop) /\ (CallsOffTheList' = CallsOffTheList)
  BY <1>2, <1>3 DEF OnTop, CallsOffTheList
<1> QED
  BY <1>5, <1>8, <1>9, <1>10 DEF PoolInv

\* calls the destructor of an occupied one
LEMMA CloseDestroysKeeps ==
  ASSUME PoolInv, UNCHANGED draft, CloseDestroys
  PROVE  PoolInv'
<1> DEFINE slot == cursor
<1>1. SetsTyped /\ StacksDistinct /\ SetsApart /\ OccupiedAre /\ ClosingInOrder
  BY DEF PoolInv
<1>2. /\ calls = <<>> /\ slot \in occupied /\ Enter("close", slot)
      /\ objects' = objects \ {slot} /\ UNCHANGED <<free, occupied, lost, cursor>>
  BY DEF CloseDestroys
<1>3. Len(calls) = 0 /\ Made = {} /\ Undone = {} /\ Closed = {}
  BY <1>1, <1>2, NothingCalled
<1>4. slot \in objects /\ slot \in Slots
  BY <1>1, <1>2, <1>3 DEF OccupiedAre, SetsTyped
<1> HIDE DEF slot
<1>5. /\ calls' \in Seq(Call) /\ DistinctCalls(calls') /\ Len(calls') = 1
      /\ Made' = {} /\ Undone' = {} /\ Closed' = {slot}
  BY <1>1, <1>2, <1>3, <1>4, Entered DEF Ops
<1>6. Free' = Free
  BY <1>2 DEF Free
<1>7. SetsTyped' /\ StacksDistinct'
  BY <1>1, <1>2, <1>5 DEF SetsTyped, StacksDistinct
<1>8. SetsApart' /\ OnTop' /\ CallsOffTheList'
  BY <1>1, <1>2, <1>4, <1>5, <1>6 DEF SetsApart, OnTop, CallsOffTheList, Disjoint
<1>9. OccupiedAre' /\ ClosingInOrder'
  BY <1>1, <1>2, <1>3, <1>4, <1>5 DEF OccupiedAre, ClosingInOrder, Closing
<1> QED
  BY <1>7, <1>8, <1>9 DEF PoolInv

\* and clears its bit.
LEMMA CloseResetsKeeps ==
  ASSUME PoolInv, UNCHANGED draft, CloseResets
  PROVE  PoolInv'
<1> DEFINE slot == cursor
<1>1. SetsTyped /\ StacksDistinct /\ SetsApart /\ OccupiedAre /\ ClosingInOrder
  BY DEF PoolInv
<1>2. /\ Leave("close", slot) /\ occupied' = occupied \ {slot} /\ cursor' = slot + 1
      /\ UNCHANGED <<free, objects, lost>>
  BY DEF CloseResets
<1>3. /\ calls' \in Seq(Call) /\ DistinctCalls(calls') /\ slot \in Slots /\ slot \in Closed
      /\ Made' = Made /\ Undone' = Undone /\ Closed' = Closed \ {slot}
  BY <1>1, <1>2, Returned DEF Closed
<1>4. slot \notin objects /\ slot \notin Made /\ slot \notin Undone
  BY <1>1, <1>3 DEF SetsApart, Disjoint
<1>5. Free' = Free
  BY <1>2 DEF Free
<1>6. slot \in 0 .. Capacity - 1
  BY <1>3 DEF Slots
<1>7. SetsTyped' /\ StacksDistinct'
  BY <1>1, <1>2, <1>3, <1>6, CapacityAssumption DEF SetsTyped, StacksDistinct
<1>8. Closing
  BY <1>6, CapacityAssumption DEF Closing
<1>9. ASSUME NEW other \in objects
      PROVE  slot + 1 <= other
  <2>1. slot <= other /\ other # slot
    BY <1>1, <1>4, <1>8 DEF ClosingInOrder
  <2>2. other \in 0 .. Capacity - 1
    BY <1>1 DEF SetsTyped, Slots
  <2> QED
    BY <1>6, <2>1, <2>2, CapacityAssumption
<1> HIDE DEF slot
<1>10. SetsApart' /\ OccupiedAre'
  BY <1>1, <1>2, <1>3, <1>4, <1>5 DEF SetsApart, OccupiedAre, Disjoint
<1>11. ClosingInOrder'
  BY <1>1, <1>2, <1>3, <1>8, <1>9 DEF ClosingInOrder
<1>12. CASE draft
  <2>1. OnTop
    BY <1>12 DEF PoolInv
  <2>2. Made' = {} /\ Undone' = {} /\ Closed' = {}
    BY <1>1, <1>2, <2>1, OnlyCall
  <2>3. OnTop'
    BY <2>2 DEF OnTop
  <2> QED
    BY <1>7, <1>10, <1>11, <1>12, <2>3 DEF PoolInv
<1>13. CASE ~draft
  <2>1. CallsOffTheList
    BY <1>13 DEF PoolInv
  <2>2. CallsOffTheList'
    BY <1>3, <1>5, <2>1 DEF CallsOffTheList
  <2> QED
    BY <1>7, <1>10, <1>11, <1>13, <2>2 DEF PoolInv
<1> QED
  BY <1>12, <1>13

-----------------------------------------------------------------------------
(***************************************************************************)
(* Counting.  The steps that change a count move one slot.                 *)
(***************************************************************************)
LEMMA SlotsFinite ==
  /\ IsFiniteSet(Slots) /\ Cardinality(Slots) = Capacity
  /\ \A S \in SUBSET Slots : IsFiniteSet(S) /\ Cardinality(S) \in Nat
<1>1. IsFiniteSet(Slots) /\ Cardinality(Slots) = Capacity
  BY FS_Interval, CapacityAssumption DEF Slots
<1> QED
  BY <1>1, FS_Subset, FS_CardinalityType

\* The sizes of two disjoint sets add up.
LEMMA DisjointUnion ==
  ASSUME NEW S, NEW T, IsFiniteSet(S), IsFiniteSet(T), S \cap T = {}
  PROVE  Cardinality(S \cup T) = Cardinality(S) + Cardinality(T)
<1>1. Cardinality(S \cup T) = Cardinality(S) + Cardinality(T) - Cardinality(S \cap T)
  BY FS_Union
<1>2. Cardinality(S \cap T) = 0
  BY FS_EmptySet
<1>3. Cardinality(S) \in Nat /\ Cardinality(T) \in Nat
  BY FS_CardinalityType
<1> QED
  BY <1>1, <1>2, <1>3

\* A free list without duplicates is as long as its set is large.
LEMMA LengthIsCardinality ==
  ASSUME SetsTyped, StacksDistinct
  PROVE  Len(free) = Cardinality(Free)
<1> DEFINE n == Len(free)
           b == [i \in 1 .. n |-> free[i]]
<1>1. /\ n \in Nat /\ DOMAIN free = 1 .. n
      /\ \A i, j \in 1 .. n : free[i] = free[j] => i = j
      /\ Free = {free[i] : i \in 1 .. n}
  BY DEF SetsTyped, StacksDistinct, IsInjective, Free, ToSet
<1>2. IsFiniteSet(1 .. n) /\ Cardinality(1 .. n) = n
  BY <1>1, FS_Interval
<1> HIDE DEF n
<1>3. b \in Bijection(1 .. n, Free)
  BY <1>1 DEF Bijection, Injection, Surjection, IsInjective
<1>4. ExistsBijection(1 .. n, Free)
  BY <1>3 DEF ExistsBijection
<1> QED
  BY <1>2, <1>4, FS_Bijection DEF n

\* A step that moves no slot into or out of the count keeps the counts,
LEMMA CountUnmoved ==
  ASSUME CountsInv, UNCHANGED <<live, cursor, draft>>, Counted' = Counted, Known' = Known,
         Closed' \subseteq Closed,
         draft => lost' = {}
  PROVE  CountsInv'
BY DEF CountsInv, Closing, Known, Closed

\* and so does one that moves a slot and the count alike.
LEMMA CountMoved ==
  ASSUME SetsTyped, CountsInv, UNCHANGED <<cursor, draft>>, Known' = Known, draft => lost' = {},
         Closed' \subseteq Closed,
         NEW slot,
         \/ slot \notin Counted /\ Counted' = Counted \cup {slot} /\ live' = live + 1
         \/ slot \in Counted /\ Counted' = Counted \ {slot} /\ live' = live - 1
  PROVE  CountsInv'
<1> SUFFICES ASSUME ~Closing
             PROVE  live' = Cardinality(Counted')
  BY DEF CountsInv, Known, Closing
<1>1. Counted \subseteq Slots
  BY CalledSlots DEF Counted, SetsTyped
<1>2. IsFiniteSet(Counted) /\ live = Cardinality(Counted)
  BY <1>1, SlotsFinite DEF CountsInv
<1> QED
  BY <1>2, FS_AddElement, FS_RemoveElement

\* The pool's destructor keeps the counts.
LEMMA CloseCounts ==
  ASSUME PoolInv, CountsInv, Close \/ CloseSkips \/ CloseDestroys \/ CloseResets, UNCHANGED draft
  PROVE  CountsInv'
<1>1. lost' = lost
  BY DEF Close, CloseSkips, CloseDestroys, CloseResets
<1>2. cursor \in -1 .. Capacity /\ (cursor \in Slots => cursor >= 0)
  BY DEF PoolInv, SetsTyped, Slots
<1>3. CASE Close
  BY <1>3, <1>1 DEF Close, CountsInv, Closing
<1>4. CASE CloseSkips
  BY <1>4, <1>1, <1>2 DEF CloseSkips, CountsInv, Closing
<1>5. CASE CloseDestroys
  <2>1. cursor \in Slots
    BY <1>5, NothingCalled, CalledSlots DEF PoolInv, OccupiedAre, SetsTyped, CloseDestroys
  <2> QED
    BY <1>5, <1>1, <1>2, <2>1 DEF CloseDestroys, CountsInv, Closing
<1>6. CASE CloseResets
  <2>1. cursor \in Slots
    BY <1>6, Returned DEF PoolInv, CloseResets
  <2> QED
    BY <1>6, <1>1, <1>2, <2>1 DEF CloseResets, CountsInv, Closing
<1> QED
  BY <1>3, <1>4, <1>5, <1>6

\* Every step of the pool keeps the counts,
LEMMA NextKeepsCounts ==
  ASSUME PoolInv, CountsInv, ~draft, PoolNext, UNCHANGED draft
  PROVE  CountsInv'
<1>1. SetsTyped /\ StacksDistinct /\ SetsApart /\ CallsOffTheList /\ ClosingInOrder
  BY DEF PoolInv
<1>2. CASE Allocate
  <2>1. /\ free # <<>> /\ Enter("construct", Last(free)) /\ free' = Front(free)
        /\ UNCHANGED <<live, objects, lost, cursor>>
    BY <1>2 DEF Allocate
  <2>2. Last(free) \in Slots /\ Last(free) \in Free /\ Free' = Free \ {Last(free)}
    BY <1>1, <2>1, TopOfFree DEF Free
  <2>3. Made' = Made \cup {Last(free)} /\ Undone' = Undone /\ Closed' \subseteq Closed
    BY <1>1, <2>1, <2>2, Entered DEF Ops, CallsOffTheList, SetsApart, Disjoint
  <2>4. Counted' = Counted /\ Known' = Known
    BY <2>1, <2>2, <2>3 DEF Counted, Known
  <2> QED
    BY <2>1, <2>4, <2>3, CountUnmoved
<1>3. CASE \E slot \in Slots : ConstructReturns(slot)
  <2> PICK slot \in Slots : ConstructReturns(slot)
    BY <1>3
  <2>1. /\ Leave("construct", slot) /\ objects' = objects \cup {slot} /\ live' = live + 1
        /\ UNCHANGED <<free, lost, cursor>>
    BY DEF ConstructReturns
  <2>2. slot \in Made /\ Made' = Made \ {slot} /\ Undone' = Undone /\ Closed' \subseteq Closed
    BY <1>1, <2>1, Returned DEF Made
  <2>3. slot \notin Counted /\ Counted' = Counted \cup {slot}
    BY <1>1, <2>1, <2>2 DEF Counted, SetsApart, Disjoint
  <2>4. Free' = Free
    BY <2>1 DEF Free
  <2>5. Known' = Known
    BY <2>1, <2>2, <2>4 DEF Known
  <2> QED
    BY <1>1, <2>1, <2>3, <2>5, <2>2, CountMoved
<1>4. CASE \E slot \in Slots : ConstructThrows(slot)
  <2> PICK slot \in Slots : ConstructThrows(slot)
    BY <1>4
  <2>1. /\ Leave("construct", slot) /\ lost' = lost \cup {slot}
        /\ UNCHANGED <<free, live, objects, cursor>>
    BY DEF ConstructThrows
  <2>2. slot \in Made /\ Made' = Made \ {slot} /\ Undone' = Undone /\ Closed' \subseteq Closed
    BY <1>1, <2>1, Returned DEF Made
  <2>3. Free' = Free
    BY <2>1 DEF Free
  <2>4. Counted' = Counted /\ Known' = Known
    BY <2>1, <2>2, <2>3 DEF Counted, Known
  <2> QED
    BY <2>1, <2>4, <2>2, CountUnmoved
<1>5. CASE \E slot \in Slots : Deallocate(slot)
  <2> PICK slot \in Slots : Deallocate(slot)
    BY <1>5
  <2>1. /\ slot \in objects /\ Enter("destroy", slot) /\ objects' = objects \ {slot}
        /\ UNCHANGED <<free, live, lost, cursor>>
    BY DEF Deallocate
  <2>2. Made' = Made /\ Undone' = Undone \cup {slot} /\ Closed' \subseteq Closed
    BY <1>1, <2>1, Entered DEF Ops, SetsApart, Disjoint
  <2>3. Free' = Free
    BY <2>1 DEF Free
  <2>4. Counted' = Counted /\ Known' = Known
    BY <2>1, <2>2, <2>3 DEF Counted, Known
  <2> QED
    BY <2>1, <2>4, <2>2, CountUnmoved
<1>6. CASE \E slot \in Slots : DestroyReturns(slot)
  <2> PICK slot \in Slots : DestroyReturns(slot)
    BY <1>6
  <2>1. /\ Leave("destroy", slot) /\ free' = Append(free, slot) /\ live' = live - 1
        /\ UNCHANGED <<objects, lost, cursor>>
    BY DEF DestroyReturns
  <2>2. slot \in Undone /\ Undone' = Undone \ {slot} /\ Made' = Made /\ Closed' \subseteq Closed
    BY <1>1, <2>1, Returned DEF Undone
  <2>3. Free' = Free \cup {slot}
    BY <1>1, <2>1, <2>2, PutBack DEF Free, CallsOffTheList, Disjoint
  <2>4. slot \in Counted /\ Counted' = Counted \ {slot}
    BY <1>1, <2>1, <2>2 DEF Counted, SetsApart, Disjoint
  <2>5. Known' = Known
    BY <2>1, <2>2, <2>3 DEF Known
  <2> QED
    BY <1>1, <2>1, <2>4, <2>5, <2>2, CountMoved
<1>7. CASE Close \/ CloseSkips \/ CloseDestroys \/ CloseResets
  BY <1>7, CloseCounts
<1> QED
  BY <1>2, <1>3, <1>4, <1>5, <1>6, <1>7 DEF PoolNext

\* and every step of the draft.
LEMMA Next1KeepsCounts ==
  ASSUME PoolInv, CountsInv, draft, Next1, UNCHANGED draft
  PROVE  CountsInv'
<1>1. SetsTyped /\ StacksDistinct /\ SetsApart /\ OnTop /\ ClosingInOrder /\ lost = {}
  BY DEF PoolInv, CountsInv
<1>2. CASE Allocate1
  <2>1. /\ free # <<>> /\ calls = <<>> /\ Enter("construct", Last(free))
        /\ UNCHANGED <<free, live, objects, lost, cursor>>
    BY <1>2 DEF Allocate1
  <2>2. Last(free) \in Slots /\ Last(free) \in Free /\ Free' = Free
    BY <1>1, <2>1, TopOfFree DEF Free
  <2>3. Made = {} /\ Undone = {} /\ Closed = {}
    BY <1>1, <2>1, NothingCalled
  <2>4. Made' = Made \cup {Last(free)} /\ Undone' = Undone /\ Closed' \subseteq Closed
    BY <1>1, <2>1, <2>2, <2>3, Entered DEF Ops
  <2>5. Counted' = Counted /\ Known' = Known
    BY <2>1, <2>2, <2>4 DEF Counted, Known
  <2> QED
    BY <1>1, <2>1, <2>5, <2>4, CountUnmoved
<1>3. CASE \E slot \in Slots : Construct1Returns(slot)
  <2> PICK slot \in Slots : Construct1Returns(slot)
    BY <1>3
  <2>1. /\ Leave("construct", slot) /\ objects' = objects \cup {slot} /\ live' = live + 1
        /\ free' = Front(free) /\ UNCHANGED <<lost, cursor>>
    BY DEF Construct1Returns
  <2>2. Made = {slot} /\ Made' = {} /\ Undone = {} /\ Undone' = {} /\ Closed' \subseteq Closed
    BY <1>1, <2>1, OnlyCall
  <2>3. free # <<>> /\ slot = Last(free)
    BY <1>1, <2>2 DEF OnTop
  <2>4. slot \in Free /\ Free' = Free \ {slot}
    BY <1>1, <2>1, <2>3, TopOfFree DEF Free
  <2>5. slot \notin Counted /\ Counted' = Counted \cup {slot}
    BY <1>1, <2>1, <2>2 DEF Counted, SetsApart, Disjoint
  <2>6. Known' = Known
    BY <2>1, <2>2, <2>4 DEF Known
  <2> QED
    BY <1>1, <2>1, <2>5, <2>6, <2>2, CountMoved
<1>4. CASE \E slot \in Slots : Construct1Throws(slot)
  <2> PICK slot \in Slots : Construct1Throws(slot)
    BY <1>4
  <2>1. Leave("construct", slot) /\ UNCHANGED <<free, live, objects, lost, cursor>>
    BY DEF Construct1Throws
  <2>2. Made = {slot} /\ Made' = {} /\ Undone = {} /\ Undone' = {} /\ Closed' \subseteq Closed
    BY <1>1, <2>1, OnlyCall
  <2>3. slot \in Free /\ Free' = Free
    BY <1>1, <2>1, <2>2, TopOfFree DEF OnTop, Free
  <2>4. Counted' = Counted /\ Known' = Known
    BY <2>1, <2>2, <2>3 DEF Counted, Known
  <2> QED
    BY <1>1, <2>1, <2>4, <2>2, CountUnmoved
<1>5. CASE \E slot \in Slots : Deallocate1(slot)
  <2> PICK slot \in Slots : Deallocate1(slot)
    BY <1>5
  <2>1. /\ slot \in objects /\ calls = <<>> /\ Enter("destroy", slot)
        /\ objects' = objects \ {slot} /\ live' = live - 1 /\ free' = Append(free, slot)
        /\ UNCHANGED <<lost, cursor>>
    BY DEF Deallocate1
  <2>2. Made = {} /\ Undone = {} /\ Closed = {}
    BY <1>1, <2>1, NothingCalled
  <2>3. Made' = {} /\ Undone' = {slot} /\ Closed' \subseteq Closed
    BY <1>1, <2>1, <2>2, Entered DEF Ops
  <2>4. Free' = Free \cup {slot}
    BY <1>1, <2>1, PutBack DEF Free, SetsApart, Disjoint
  <2>5. slot \in Counted /\ Counted' = Counted \ {slot}
    BY <2>1 DEF Counted
  <2>6. Known' = Known
    BY <2>1, <2>2, <2>3, <2>4 DEF Known
  <2> QED
    BY <1>1, <2>1, <2>5, <2>6, <2>3, CountMoved
<1>6. CASE \E slot \in Slots : Destroy1Returns(slot)
  <2> PICK slot \in Slots : Destroy1Returns(slot)
    BY <1>6
  <2>1. Leave("destroy", slot) /\ UNCHANGED <<free, live, objects, lost, cursor>>
    BY DEF Destroy1Returns
  <2>2. Made = {} /\ Made' = {} /\ Undone = {slot} /\ Undone' = {} /\ Closed' \subseteq Closed
    BY <1>1, <2>1, OnlyCall
  <2>3. slot \in Free /\ Free' = Free
    BY <1>1, <2>1, <2>2, TopOfFree DEF OnTop, Free
  <2>4. Counted' = Counted /\ Known' = Known
    BY <2>1, <2>2, <2>3 DEF Counted, Known
  <2> QED
    BY <1>1, <2>1, <2>4, <2>2, CountUnmoved
<1>7. CASE Close \/ CloseSkips \/ CloseDestroys \/ CloseResets
  BY <1>7, CloseCounts
<1> QED
  BY <1>2, <1>3, <1>4, <1>5, <1>6, <1>7 DEF Next1

-----------------------------------------------------------------------------
(***************************************************************************)
(* The theorems.                                                           *)
(***************************************************************************)
THEOREM PoolInvariant == PoolsSpec => [](PoolInv /\ CountsInv)
<1>1. PoolsInit => CountsInv
  <2> SUFFICES ASSUME PoolsInit
               PROVE  CountsInv
    OBVIOUS
  <2>1. /\ free = [i \in 1 .. Capacity |-> Capacity - i] /\ calls = <<>>
        /\ live = 0 /\ objects = {} /\ lost = {}
    BY DEF PoolsInit, PoolInit
  <2>2. Undone = {} /\ Made = {} /\ Closed = {} /\ SetsTyped
    BY <2>1, PoolsInitInv, NothingCalled DEF PoolInv
  <2>3. DOMAIN free = 1 .. Capacity
    BY <2>1
  <2>4. \A slot \in Slots : Capacity - slot \in DOMAIN free /\ free[Capacity - slot] = slot
    BY <2>1, <2>3, CapacityAssumption DEF Slots
  <2>5. Slots \subseteq Free
    BY <2>4 DEF Free, ToSet
  <2>6. Free \subseteq Slots
    BY <2>2 DEF Free, ToSet, SetsTyped
  <2>7. Known = Slots /\ Counted = {}
    BY <2>1, <2>2, <2>5, <2>6 DEF Known, Counted
  <2> QED
    BY <2>1, <2>2, <2>7, FS_EmptySet DEF CountsInv
<1>2. ASSUME PoolInv, CountsInv, [PoolsNext]_poolsVars
      PROVE  PoolInv' /\ CountsInv'
  <2>1. CASE draft /\ Next1 /\ UNCHANGED draft
    <3>1. CountsInv'
      BY <1>2, <2>1, Next1KeepsCounts
    <3>2. PoolInv'
      BY <1>2, <2>1, Allocate1Keeps, Construct1ReturnsKeeps, Construct1ThrowsKeeps,
         Deallocate1Keeps, Destroy1ReturnsKeeps, CloseKeeps, CloseSkipsKeeps,
         CloseDestroysKeeps, CloseResetsKeeps DEF Next1
    <3> QED
      BY <3>1, <3>2
  <2>2. CASE ~draft /\ PoolNext /\ UNCHANGED draft
    <3>1. CountsInv'
      BY <1>2, <2>2, NextKeepsCounts
    <3>2. PoolInv'
      BY <1>2, <2>2, AllocateKeeps, ConstructReturnsKeeps, ConstructThrowsKeeps,
         DeallocateKeeps, DestroyReturnsKeeps, CloseKeeps, CloseSkipsKeeps,
         CloseDestroysKeeps, CloseResetsKeeps DEF PoolNext
    <3> QED
      BY <3>1, <3>2
  <2>3. CASE UNCHANGED poolsVars
    <3>1. UNCHANGED <<free, occupied, live, calls, objects, lost, cursor, draft>>
      BY <2>3 DEF poolsVars, poolVars
    <3>2. /\ Free' = Free /\ Made' = Made /\ Undone' = Undone /\ Closed' = Closed
          /\ (Closing' <=> Closing) /\ Counted' = Counted /\ Known' = Known
      BY <3>1 DEF Free, Made, Undone, Closed, Closing, Counted, Known
    <3>3. CountsInv'
      BY <1>2, <3>1, <3>2 DEF CountsInv
    <3>4. SetsTyped' /\ StacksDistinct' /\ SetsApart' /\ OccupiedAre' /\ ClosingInOrder'
      BY <1>2, <3>1, <3>2 DEF PoolInv, SetsTyped, StacksDistinct, SetsApart, OccupiedAre,
         ClosingInOrder
    <3>5. IF draft THEN OnTop' ELSE CallsOffTheList'
      BY <1>2, <3>1, <3>2 DEF PoolInv, OnTop, CallsOffTheList
    <3> QED
      BY <3>1, <3>3, <3>4, <3>5 DEF PoolInv
  <2> QED
    BY <1>2, <2>1, <2>2, <2>3 DEF PoolsNext
<1> QED
  BY <1>1, <1>2, PoolsInitInv, PTL DEF PoolsSpec

(* No slot is handed out while it has a use, at any depth of nesting and   *)
(* for every capacity: the pools' main promise.                            *)
THEOREM NeverAlias == PoolsSpec => []PoolsNeverAlias
<1>1. ASSUME PoolInv
      PROVE  PoolsNeverAlias
  <2> SUFFICES ASSUME Settled
               PROVE  NoAliasing
    BY DEF PoolsNeverAlias
  <2>1. SetsTyped /\ StacksDistinct /\ SetsApart
    BY <1>1 DEF PoolInv
  <2>2. CallsOffTheList
    <3>1. CASE draft
      BY <2>1, <3>1, NothingCalled DEF Settled, CallsOffTheList, Disjoint
    <3>2. CASE ~draft
      BY <1>1, <3>2 DEF PoolInv
    <3> QED
      BY <3>1, <3>2
  <2>3. IsInjective([i \in DOMAIN calls |-> calls[i].slot])
    BY <2>1 DEF StacksDistinct, DistinctCalls, IsInjective
  <2>4. Underway("construct") = Made /\ Underway("destroy") = Undone /\ Underway("close") = Closed
    BY DEF Underway, Made, Undone, Closed, SlotsOf
  <2> DEFINE uses == <<Free, Made, objects, Undone, Closed, lost>>
  <2>5. DOMAIN uses = 1 .. 6
    OBVIOUS
  <2>6. \A i, j \in 1 .. 6 : i # j => uses[i] \cap uses[j] = {}
    <3>1. /\ uses[1] = Free /\ uses[2] = Made /\ uses[3] = objects /\ uses[4] = Undone
          /\ uses[5] = Closed /\ uses[6] = lost
      OBVIOUS
    <3> HIDE DEF uses
    <3> TAKE i, j \in 1 .. 6
    <3>2. i \in {1, 2, 3, 4, 5, 6} /\ j \in {1, 2, 3, 4, 5, 6}
      OBVIOUS
    <3> QED
      BY <2>1, <2>2, <3>1, <3>2 DEF SetsApart, CallsOffTheList, Disjoint
  <2>7. IsInjective(free) /\ Free = ToSet(free)
    BY <2>1 DEF StacksDistinct, Free
  <2> QED
    BY <2>3, <2>4, <2>5, <2>6, <2>7 DEF NoAliasing
<1> QED
  BY <1>1, PoolInvariant, PTL

(* The bits mark the objects not yet fully destroyed, so neither a nested  *)
(* call nor the destructor destroys one twice or passes one over.          *)
THEOREM OccupiedExactly == PoolsSpec => []OccupiedHoldsObject
<1>1. PoolInv => OccupiedHoldsObject
  BY DEF PoolInv, OccupiedAre, OccupiedHoldsObject, Underway, Undone, Closed, SlotsOf
<1> QED
  BY <1>1, PoolInvariant, PTL

(* When the destructor has passed the last slot no object is left.         *)
THEOREM NothingSurvives == PoolsSpec => []NothingSurvivesThePool
<1>1. ASSUME PoolInv, cursor = Capacity, NEW slot \in objects
      PROVE  FALSE
  <2>1. Closing
    BY <1>1, CapacityAssumption DEF Closing
  <2>2. cursor <= slot /\ slot \in 0 .. Capacity - 1
    BY <1>1, <2>1 DEF PoolInv, ClosingInOrder, SetsTyped, Slots
  <2> QED
    BY <1>1, <2>2, CapacityAssumption
<1>2. PoolInv => NothingSurvivesThePool
  BY <1>1 DEF NothingSurvivesThePool
<1> QED
  BY <1>2, PoolInvariant, PTL

(* size(), available() and the slots between or lost add up to capacity.   *)
THEOREM CountsAddUp == PoolsSpec => []PoolsCountsAgree
<1>1. ASSUME PoolInv, CountsInv, Settled, ~Closing
      PROVE  /\ live = Cardinality(occupied)
             /\ Len(free) + live + Cardinality(Underway("construct") \cup lost) = Capacity
  <2>1. SetsTyped /\ StacksDistinct /\ SetsApart /\ OccupiedAre
    BY <1>1 DEF PoolInv
  <2>2. live = Cardinality(Counted) /\ Known = Slots
    BY <1>1 DEF CountsInv, Known
  <2>3. Closed = {}
    BY <1>1 DEF CountsInv
  <2>4. draft => Undone = {} /\ Made = {}
    BY <1>1, <2>1, NothingCalled DEF Settled
  <2>5. Counted = occupied
    BY <2>1, <2>3, <2>4 DEF OccupiedAre, Counted
  <2>6. Len(free) = Cardinality(Free)
    BY <2>1, LengthIsCardinality
  <2> DEFINE apart == Made \cup lost
  <2>7. Free \cap occupied = {} /\ (Free \cup occupied) \cap apart = {}
    <3>1. draft \/ CallsOffTheList
      BY <1>1 DEF PoolInv
    <3> QED
      BY <2>1, <2>3, <2>4, <3>1 DEF SetsApart, OccupiedAre, CallsOffTheList, Disjoint
  <2>8. Free \cup occupied \cup apart = Slots
    BY <2>1, <2>2, <2>3 DEF Known, OccupiedAre
  <2>9. IsFiniteSet(Free) /\ IsFiniteSet(occupied) /\ IsFiniteSet(apart)
        /\ IsFiniteSet(Free \cup occupied)
    BY <2>8, SlotsFinite
  <2> HIDE DEF apart
  <2>10. Cardinality(Free \cup occupied) = Cardinality(Free) + Cardinality(occupied)
    BY <2>7, <2>9, DisjointUnion
  <2>11. Cardinality(Free \cup occupied \cup apart)
           = Cardinality(Free \cup occupied) + Cardinality(apart)
    BY <2>7, <2>9, DisjointUnion
  <2>12. Underway("construct") \cup lost = apart
    BY DEF Underway, Made, SlotsOf, apart
  <2> QED
    BY <2>2, <2>5, <2>6, <2>8, <2>10, <2>11, <2>12, SlotsFinite
<1>2. PoolInv /\ CountsInv => PoolsCountsAgree
  BY <1>1 DEF PoolsCountsAgree, CountsAgree, CountsInv
<1> QED
  BY <1>2, PoolInvariant, PTL

=============================================================================
