------------------------------ MODULE FlatTable ------------------------------
(***************************************************************************)
(* The open-addressing hash table of flat_order_map.hpp as operators on a  *)
(* table value: a function from slot indices to slots.  FlatOrderMap makes *)
(* a state machine of them, OrderBook keeps its orders in such a table and *)
(* points into it.                                                         *)
(*                                                                         *)
(* A pointer to an Order stored inline is the index of its slot; nullptr   *)
(* is Null.  A slot keeps its last key and order after occupied has been   *)
(* cleared, as the C++ array does: a stale pointer still reads them.       *)
(***************************************************************************)
EXTENDS Integers, FiniteSets, FiniteSetsExt

CONSTANTS
  Keys,      \* order ids
  Orders,    \* what a slot stores inline
  NoOrder,   \* the zeroed Order of a slot that was never used
  Capacity,  \* capacity_, the number of slots
  Hash,      \* hash(): the natural slot of each key
  Null       \* nullptr

Slots == 0 .. Capacity - 1

ASSUME CapacityAssumption == Capacity \in Nat \ {0}
ASSUME HashAssumption     == Hash \in [Keys -> Slots]
ASSUME NullAssumption     == Null \notin Slots /\ Null \notin Keys

-----------------------------------------------------------------------------
(***************************************************************************)
(* Slots and cyclic index arithmetic.                                      *)
(***************************************************************************)
Slot == [key : Keys \cup {Null}, order : Orders \cup {NoOrder}, occupied : BOOLEAN]

EmptySlot == [key |-> Null, order |-> NoOrder, occupied |-> FALSE]

EmptyTable == [i \in Slots |-> EmptySlot]

Natural(key) == Hash[key]

\* (idx + 1) & mask_
After(i) == (i + 1) % Capacity

\* (to - from) & mask_ : how far a probe walks from one slot to the other
Distance(from, to) == (to - from) % Capacity

Occupied(table) == {i \in Slots : table[i].occupied}

\* What a table stores, wherever it stores it.
Entries(table) == {<<table[i].key, table[i].order>> : i \in Occupied(table)}

-----------------------------------------------------------------------------
(***************************************************************************)
(* The probe loop shared by find, insert and erase.  It stops at the first *)
(* slot, from the natural one on, that is empty or holds the key; over a   *)
(* full table that lacks the key it never stops.                           *)
(***************************************************************************)
ProbeStopsAnywhere(table, key) == Slots

ProbeStops(table, key) ==
  {d \in Slots : LET s == table[(Natural(key) + d) % Capacity]
                 IN  ~s.occupied \/ s.key = key}

ProbeEnds(table, key) == ProbeStops(table, key) # {}

ProbeSlot(table, key) == (Natural(key) + Min(ProbeStops(table, key))) % Capacity

Find(table, key) ==
  LET i == ProbeSlot(table, key)
  IN  IF table[i].occupied THEN i ELSE Null

-----------------------------------------------------------------------------
(* A new key takes the slot the probe stopped at; a known key only has its *)
(* order replaced.                                                         *)
Inserted(table, key, order) ==
  LET i == ProbeSlot(table, key)
  IN  IF table[i].occupied
      THEN [table EXCEPT ![i].order = order]
      ELSE [table EXCEPT ![i] = [key |-> key, order |-> order, occupied |-> TRUE]]

-----------------------------------------------------------------------------
(***************************************************************************)
(* Backward-shift deletion.  The loop walks cur forward from the hole and  *)
(* pulls an entry back when it is displaced by more than its distance to   *)
(* the hole.  An entry whose natural slot IS the hole is displaced by      *)
(* exactly that distance and stays where it is.                            *)
(***************************************************************************)
PullsBackNothing(natural, hole, cur) == FALSE

PullsBackAlways(natural, hole, cur) == TRUE

PullsBack(natural, hole, cur) == Distance(natural, cur) > Distance(hole, cur)

\* s.occupied is cleared before s is copied.
MovedAfterClearing(table, cur, hole) ==
  [table EXCEPT ![cur].occupied = FALSE,
                ![hole] = [table[cur] EXCEPT !.occupied = FALSE]]

Moved(table, cur, hole) ==
  [table EXCEPT ![hole] = table[cur], ![cur].occupied = FALSE]

\* The loop's variables: the table, hole and cur.
ShiftState == [table : [Slots -> Slot], hole : Slots, cur : Slots]

ShiftEnds(at) == ~at.table[at.cur].occupied

ShiftStep(at) ==
  IF PullsBack(Natural(at.table[at.cur].key), at.hole, at.cur)
  THEN [table |-> Moved(at.table, at.cur, at.hole),
        hole  |-> at.cur,
        cur   |-> After(at.cur)]
  ELSE [at EXCEPT !.cur = After(@)]

BackwardShift(shifted, vacated) ==
  LET walk[at \in ShiftState] == IF ShiftEnds(at) THEN at.table ELSE walk[ShiftStep(at)]
  IN  walk[[table |-> shifted, hole |-> vacated, cur |-> After(vacated)]]

EraseAt(table, i) == BackwardShift([table EXCEPT ![i].occupied = FALSE], i)

Erased(table, key) ==
  LET i == Find(table, key)
  IN  IF i = Null THEN table ELSE EraseAt(table, i)

=============================================================================
