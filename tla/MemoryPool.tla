------------------------------ MODULE MemoryPool ------------------------------
(***************************************************************************)
(* MemoryPool<T, Capacity> (core/memory_pool.hpp): a slab of slots with a  *)
(* stack of free ones and a bit per occupied one.  allocate and deallocate *)
(* run T's constructor and destructor in the middle; either may call the   *)
(* pool again (a node that owns other nodes), and a constructor may throw. *)
(* So a call is two actions, and the calls underway form a stack.          *)
(*                                                                         *)
(* The application deallocates constructed objects only.  A pointer whose  *)
(* slot is not occupied, or that points to no slot, is refused without any *)
(* change.  T's destructor allocates nothing while the pool is destroyed.  *)
(***************************************************************************)
EXTENDS Integers, FiniteSets, Sequences, SequencesExt

CONSTANTS
  Capacity,   \* number of slots
  MaxDepth    \* bound on the depth of nested calls

ASSUME CapacityAssumption == Capacity \in Nat \ {0}
ASSUME MaxDepthAssumption == MaxDepth \in Nat

Slots == 0 .. Capacity - 1

Call == [op : {"construct", "destroy", "close"}, slot : Slots]

VARIABLES
  free,      \* free_list_[0 .. free_top_ - 1]
  occupied,  \* the bits set in occupied_
  live,      \* live_count_
  calls,     \* the constructors and destructors running, innermost last
  objects,   \* slots with an object whose destructor has not begun
  lost,      \* slots whose constructor threw
  cursor     \* slot reached by ~MemoryPool, -1 before it runs

poolVars == <<free, occupied, live, calls, objects, lost, cursor>>

PoolTypeOK ==
  /\ free \in Seq(Slots)
  /\ occupied \subseteq Slots
  /\ live \in 0 .. Capacity
  /\ calls \in Seq(Call)
  /\ objects \subseteq Slots
  /\ lost \subseteq Slots
  /\ cursor \in -1 .. Capacity

PoolInit ==
  /\ free = [i \in 1 .. Capacity |-> Capacity - i]
  /\ occupied = {}
  /\ live = 0
  /\ calls = <<>>
  /\ objects = {}
  /\ lost = {}
  /\ cursor = -1

-----------------------------------------------------------------------------
Closing == cursor >= 0

Enter(op, slot) ==
  /\ Len(calls) < MaxDepth
  /\ calls' = Append(calls, [op |-> op, slot |-> slot])

Leave(op, slot) ==
  /\ calls # <<>>
  /\ Last(calls) = [op |-> op, slot |-> slot]
  /\ calls' = Front(calls)

\* The constructor runs before the slot leaves the free list.
AllocateWithoutPop ==
  /\ ~Closing
  /\ free # <<>>
  /\ Enter("construct", Last(free))
  /\ UNCHANGED <<free, occupied, live, objects, lost, cursor>>

Allocate ==
  /\ ~Closing
  /\ free # <<>>
  /\ Enter("construct", Last(free))
  /\ free' = Front(free)
  /\ UNCHANGED <<occupied, live, objects, lost, cursor>>

ConstructReturnsUnmarked(slot) ==
  /\ Leave("construct", slot)
  /\ live' = live + 1
  /\ objects' = objects \cup {slot}
  /\ UNCHANGED <<free, occupied, lost, cursor>>

ConstructReturns(slot) ==
  /\ Leave("construct", slot)
  /\ occupied' = occupied \cup {slot}
  /\ live' = live + 1
  /\ objects' = objects \cup {slot}
  /\ UNCHANGED <<free, lost, cursor>>

\* The slot has left the free list and nothing puts it back.
ConstructThrows(slot) ==
  /\ Leave("construct", slot)
  /\ lost' = lost \cup {slot}
  /\ UNCHANGED <<free, occupied, live, objects, cursor>>

\* The slot is free for others before its destructor has run.
DeallocateFreesFirst(slot) ==
  /\ Closing => calls # <<>>
  /\ slot \in objects
  /\ slot \in occupied
  /\ Enter("destroy", slot)
  /\ objects' = objects \ {slot}
  /\ free' = Append(free, slot)
  /\ UNCHANGED <<occupied, live, lost, cursor>>

Deallocate(slot) ==
  /\ Closing => calls # <<>>
  /\ slot \in objects
  /\ slot \in occupied
  /\ Enter("destroy", slot)
  /\ objects' = objects \ {slot}
  /\ UNCHANGED <<free, occupied, live, lost, cursor>>

DestroyReturns(slot) ==
  /\ Leave("destroy", slot)
  /\ occupied' = occupied \ {slot}
  /\ free' = Append(free, slot)
  /\ live' = live - 1
  /\ UNCHANGED <<objects, lost, cursor>>

-----------------------------------------------------------------------------
(***************************************************************************)
(* ~MemoryPool walks the slots and destroys the occupied ones.  The free   *)
(* list and the count are left as they are.                                *)
(***************************************************************************)
CloseFromOne ==
  /\ ~Closing
  /\ calls = <<>>
  /\ cursor' = 1
  /\ UNCHANGED <<free, occupied, live, calls, objects, lost>>

Close ==
  /\ ~Closing
  /\ calls = <<>>
  /\ cursor' = 0
  /\ UNCHANGED <<free, occupied, live, calls, objects, lost>>

CloseSkips ==
  /\ calls = <<>>
  /\ cursor \in Slots \ occupied
  /\ cursor' = cursor + 1
  /\ UNCHANGED <<free, occupied, live, calls, objects, lost>>

CloseDestroys ==
  /\ calls = <<>>
  /\ cursor \in occupied
  /\ Enter("close", cursor)
  /\ objects' = objects \ {cursor}
  /\ UNCHANGED <<free, occupied, live, lost, cursor>>

CloseResets ==
  /\ Leave("close", cursor)
  /\ occupied' = occupied \ {cursor}
  /\ cursor' = cursor + 1
  /\ UNCHANGED <<free, live, objects, lost>>

PoolNext ==
  \/ Allocate
  \/ \E slot \in Slots :
       \/ ConstructReturns(slot) \/ ConstructThrows(slot)
       \/ Deallocate(slot) \/ DestroyReturns(slot)
  \/ Close \/ CloseSkips \/ CloseDestroys \/ CloseResets

PoolSpec == PoolInit /\ [][PoolNext]_poolVars

-----------------------------------------------------------------------------
(***************************************************************************)
(* Properties.                                                             *)
(***************************************************************************)
Underway(op) == {calls[i].slot : i \in {j \in DOMAIN calls : calls[j].op = op}}

(* A slot has one use at a time, at any depth of nested calls: it is free  *)
(* once, or under construction, or an object, or under destruction, or     *)
(* lost.  allocate never returns memory that someone still uses.           *)
NoAliasing ==
  LET uses == <<ToSet(free), Underway("construct"), objects,
                Underway("destroy"), Underway("close"), lost>>
  IN  /\ IsInjective(free)
      /\ IsInjective([i \in DOMAIN calls |-> calls[i].slot])
      /\ \A i, j \in DOMAIN uses : i # j => uses[i] \cap uses[j] = {}

(* occupied_ marks exactly the slots with an object not yet fully          *)
(* destroyed: neither ~MemoryPool nor a deallocate nested in a destructor  *)
(* destroys an object twice, or passes one over.                           *)
OccupiedHoldsObject ==
  occupied = objects \cup Underway("destroy") \cup Underway("close")

(* size() and available() add up: a slot that is neither is under          *)
(* construction, or was lost to a constructor that threw.                  *)
CountsAgree ==
  ~Closing =>
    /\ live = Cardinality(occupied)
    /\ Len(free) + live + Cardinality(Underway("construct") \cup lost) = Capacity

(* When the pool is gone, every object in it has been destroyed, whatever  *)
(* the destructors deallocated meanwhile.                                  *)
NothingSurvivesThePool == cursor = Capacity => objects = {}

=============================================================================
