----------------------------- MODULE FlatOrderMap -----------------------------
(***************************************************************************)
(* FlatOrderMap (flat_order_map.hpp): insert, find, erase and clear over a *)
(* FlatTable of fixed capacity, one action per method.  find, insert and   *)
(* erase share a probe loop with no exit over a full table that lacks the  *)
(* key: the calling thread is then lost, which spinning records.           *)
(***************************************************************************)
EXTENDS FlatTable

VARIABLES
  slots,     \* slots_
  size,      \* size_
  spinning   \* a probe loop was entered that cannot end

vars == <<slots, size, spinning>>

-----------------------------------------------------------------------------
Init ==
  /\ slots    = EmptyTable
  /\ size     = 0
  /\ spinning = FALSE

InsertForgetsReplace(k, o) ==
  /\ ~spinning
  /\ ProbeEnds(slots, k)
  /\ slots' = Inserted(slots, k, o)
  /\ size'  = size + 1
  /\ UNCHANGED spinning

Insert(k, o) ==
  /\ ~spinning
  /\ ProbeEnds(slots, k)
  /\ slots' = Inserted(slots, k, o)
  /\ size'  = IF Find(slots, k) = Null THEN size + 1 ELSE size
  /\ UNCHANGED spinning

\* An erase that finds nothing returns false and changes nothing.
Erase(k) ==
  /\ ~spinning
  /\ ProbeEnds(slots, k)
  /\ Find(slots, k) # Null
  /\ slots' = Erased(slots, k)
  /\ size'  = size - 1
  /\ UNCHANGED spinning

Clear ==
  /\ ~spinning
  /\ slots' = EmptyTable
  /\ size'  = 0
  /\ UNCHANGED spinning

\* find(k), insert(k, ...) or erase(k) enters its loop and never leaves it.
ProbeForever(k) ==
  /\ ~spinning
  /\ ~ProbeEnds(slots, k)
  /\ spinning' = TRUE
  /\ UNCHANGED <<slots, size>>

Spin == spinning /\ UNCHANGED vars

Next ==
  \/ \E k \in Keys, o \in Orders : Insert(k, o)
  \/ \E k \in Keys : Erase(k)
  \/ Clear
  \/ \E k \in Keys : ProbeForever(k)
  \/ Spin

Spec == Init /\ [][Next]_vars

-----------------------------------------------------------------------------
(***************************************************************************)
(* Properties.                                                             *)
(***************************************************************************)

(* size_ is the number of occupied slots after any sequence of calls: the  *)
(* backward shift neither loses nor copies an entry, and insert counts an  *)
(* entry only when it takes a new slot.                                    *)
SizeIsOccupancy == size = Cardinality(Occupied(slots))

(* Every slot strictly between an entry's natural slot and its own slot is *)
(* occupied.  This is the most erase preserves: the natural slot itself    *)
(* may be left empty (see EntriesReachable).                               *)
ChainUnbrokenAfterNatural ==
  \A i \in Occupied(slots) :
    LET n == Natural(slots[i].key)
    IN  \A d \in 1 .. Distance(n, i) - 1 : slots[(n + d) % Capacity].occupied

(* Every stored entry is the one find returns for its key.  Comment at     *)
(* flat_order_map.hpp:126 says a displaced entry is moved back into the    *)
(* vacated slot; find relies on it.                                        *)
EntriesReachable ==
  \A i \in Occupied(slots) :
    LET k == slots[i].key IN ProbeEnds(slots, k) /\ Find(slots, k) = i

(* An entry is out of find's reach only while its natural slot is vacant:  *)
(* as long as that slot is occupied, by whichever entry, the probe for the *)
(* key ends at an entry of that key.  flat_order_map.hpp:126 promises this *)
(* of every entry; the shift keeps it for all but those whose natural slot *)
(* is the hole.                                                            *)
StrandedOnlyByHole ==
  \A i \in Occupied(slots) :
    LET k == slots[i].key
    IN  slots[Natural(k)].occupied => ProbeEnds(slots, k) /\ Find(slots, k) # Null

(* erase removes exactly the entry find designates and no other: whatever  *)
(* the shift relocates keeps its key and its order.                        *)
EntriesWithout(table, i) ==
  {<<table[j].key, table[j].order>> : j \in Occupied(table) \ {i}}

EraseRemovesOneEntry ==
  [][\A k \in Keys : Erase(k) =>
       Entries(slots') = EntriesWithout(slots, Find(slots, k))]_vars

(* insert never overwrites the entry of another key.                       *)
InsertKeepsOtherEntries ==
  [][\A k \in Keys, o \in Orders : Insert(k, o) =>
       {e \in Entries(slots') : e[1] # k} = {e \in Entries(slots) : e[1] # k}]_vars

=============================================================================
