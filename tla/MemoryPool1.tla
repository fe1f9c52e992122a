------------------------------ MODULE MemoryPool1 ------------------------------
(***************************************************************************)
(* MemoryPool1<T, Capacity> (core/memory_pool_1.hpp), the pool of 1.cc: a   *)
(* MemoryPool whose allocate takes the slot off the free list only after   *)
(* the constructor and whose deallocate puts it back before the            *)
(* destructor.  Its state is that of MemoryPool, so one application that   *)
(* has chosen either of them is modelled, and what they have in common is  *)
(* MemoryPool's.                                                           *)
(*                                                                         *)
(* A constructor or destructor that calls this pool again gets, or gives   *)
(* away, the slot it runs in; like 1.cc's, those modelled do not.  A       *)
(* constructor may throw.                                                  *)
(***************************************************************************)
EXTENDS MemoryPool

VARIABLE draft   \* the application's pool is a MemoryPool1

poolsVars == <<poolVars, draft>>

PoolsInit == PoolInit /\ draft \in BOOLEAN

-----------------------------------------------------------------------------
Allocate1 ==
  /\ ~Closing
  /\ calls = <<>>
  /\ free # <<>>
  /\ Enter("construct", Last(free))
  /\ UNCHANGED <<free, occupied, live, objects, lost, cursor>>

Construct1ReturnsUnpopped(slot) ==
  /\ Leave("construct", slot)
  /\ occupied' = occupied \cup {slot}
  /\ live' = live + 1
  /\ objects' = objects \cup {slot}
  /\ UNCHANGED <<free, lost, cursor>>

Construct1Returns(slot) ==
  /\ Leave("construct", slot)
  /\ occupied' = occupied \cup {slot}
  /\ live' = live + 1
  /\ free' = Front(free)
  /\ objects' = objects \cup {slot}
  /\ UNCHANGED <<lost, cursor>>

\* Nothing has been done yet that would have to be undone.
Construct1Throws(slot) ==
  /\ Leave("construct", slot)
  /\ UNCHANGED <<free, occupied, live, objects, lost, cursor>>

Deallocate1(slot) ==
  /\ ~Closing
  /\ calls = <<>>
  /\ slot \in objects
  /\ slot \in occupied
  /\ free' = Append(free, slot)
  /\ live' = live - 1
  /\ Enter("destroy", slot)
  /\ objects' = objects \ {slot}
  /\ UNCHANGED <<occupied, lost, cursor>>

Destroy1Returns(slot) ==
  /\ Leave("destroy", slot)
  /\ occupied' = occupied \ {slot}
  /\ UNCHANGED <<free, live, objects, lost, cursor>>

Next1 ==
  \/ Allocate1
  \/ \E slot \in Slots :
       \/ Construct1Returns(slot) \/ Construct1Throws(slot)
       \/ Deallocate1(slot) \/ Destroy1Returns(slot)
  \/ Close \/ CloseSkips \/ CloseDestroys \/ CloseResets

PoolsNext ==
  /\ \/ draft /\ Next1
     \/ ~draft /\ PoolNext
  /\ UNCHANGED draft

PoolsSpec == PoolsInit /\ [][PoolsNext]_poolsVars

-----------------------------------------------------------------------------
(***************************************************************************)
(* Properties.                                                             *)
(***************************************************************************)
\* MemoryPool keeps its promises through nested calls, MemoryPool1 between
\* calls only.
Settled == draft => calls = <<>>

(* allocate of either pool never returns a slot that someone still uses,   *)
(* and no slot is handed out twice.                                        *)
PoolsNeverAlias == Settled => NoAliasing

(* The counts of either pool add up, and MemoryPool1 keeps the slot of a   *)
(* constructor that throws.                                                *)
PoolsCountsAgree ==
  Settled => /\ CountsAgree
             /\ draft => lost = {}

=============================================================================
