------------------------- MODULE FlatOrderMapProofs -------------------------
(***************************************************************************)
(* FlatOrderMap, for every capacity, every hash function and every set of  *)
(* keys: size counts the entries, chains stay unbroken beyond the natural  *)
(* slot, insert and erase touch one entry, and an entry is out of find's   *)
(* reach only while its natural slot is vacant.                            *)
(***************************************************************************)
EXTENDS FlatOrderMap, FlatTableProofs

(***************************************************************************)
(* The inductive invariant.  Chained is ChainUnbrokenAfterNatural said of  *)
(* slots instead of distances, which is how the shift's loop keeps it.     *)
(***************************************************************************)
MapInv ==
  /\ slots \in [Slots -> Slot] /\ Keyed(slots)
  /\ Chained(slots)
  /\ SizeIsOccupancy

\* The table that the constructor and clear leave.
LEMMA EmptyTableIs ==
  /\ EmptyTable \in [Slots -> Slot] /\ Keyed(EmptyTable)
  /\ Occupied(EmptyTable) = {} /\ Cardinality(Occupied(EmptyTable)) = 0
  /\ Chained(EmptyTable) /\ Settled(EmptyTable)
<1>1. EmptyTable \in [Slots -> Slot] /\ \A i \in Slots : ~EmptyTable[i].occupied
  BY DEF EmptyTable, EmptySlot, Slot
<1>2. Occupied(EmptyTable) = {}
  BY <1>1 DEF Occupied
<1>3. Cardinality(Occupied(EmptyTable)) = 0
  BY <1>2, FS_EmptySet
<1> QED
  BY <1>1, <1>2, <1>3 DEF Keyed, Chained, Settled

\* The constructor establishes the invariant.
LEMMA InitMapInv == Init => MapInv
BY EmptyTableIs DEF Init, MapInv, SizeIsOccupancy

\* insert keeps it.
LEMMA InsertMapInv ==
  ASSUME MapInv, NEW k \in Keys, NEW o \in Orders, Insert(k, o)
  PROVE  MapInv'
<1>1. /\ slots \in [Slots -> Slot] /\ Keyed(slots) /\ Chained(slots)
      /\ size = Cardinality(Occupied(slots)) /\ ~spinning /\ spinning' = spinning
      /\ ProbeEnds(slots, k) /\ slots' = Inserted(slots, k, o)
      /\ size' = IF Find(slots, k) = Null THEN size + 1 ELSE size
  BY DEF MapInv, SizeIsOccupancy, Insert
<1>2. slots' \in [Slots -> Slot] /\ Keyed(slots')
  BY <1>1, InsertKeeps
<1>3. Chained(slots')
  BY <1>1, InsertChains
<1>4. size' = Cardinality(Occupied(slots'))
  BY <1>1, InsertCounts
<1> QED
  BY <1>1, <1>2, <1>3, <1>4 DEF MapInv, SizeIsOccupancy

\* erase of an id that find finds erases its slot.
LEMMA ErasedIs ==
  ASSUME NEW table \in [Slots -> Slot], NEW k \in Keys,
         ProbeEnds(table, k), Find(table, k) # Null
  PROVE  Find(table, k) \in Occupied(table) /\ Erased(table, k) = EraseAt(table, Find(table, k))
BY FindIs DEF Erased

\* erase keeps it.
LEMMA EraseMapInv ==
  ASSUME MapInv, NEW k \in Keys, Erase(k)
  PROVE  MapInv'
<1>1. /\ slots \in [Slots -> Slot] /\ Keyed(slots) /\ Chained(slots)
      /\ size = Cardinality(Occupied(slots)) /\ ~spinning /\ spinning' = spinning
      /\ Find(slots, k) \in Occupied(slots) /\ slots' = EraseAt(slots, Find(slots, k))
      /\ size' = size - 1
  BY ErasedIs DEF MapInv, SizeIsOccupancy, Erase
<1>2. /\ slots' \in [Slots -> Slot] /\ Keyed(slots')
      /\ Cardinality(Occupied(slots')) = Cardinality(Occupied(slots)) - 1
  BY <1>1, EraseKeeps
<1>3. Chained(slots')
  BY <1>1, EraseChains
<1> QED
  BY <1>1, <1>2, <1>3 DEF MapInv, SizeIsOccupancy

\* Every method keeps it.
LEMMA StepMapInv == MapInv /\ [Next]_vars => MapInv'
<1> SUFFICES ASSUME MapInv, [Next]_vars
             PROVE  MapInv'
  OBVIOUS
<1>1. ASSUME NEW k \in Keys, NEW o \in Orders, Insert(k, o)
      PROVE  MapInv'
  BY <1>1, InsertMapInv
<1>2. ASSUME NEW k \in Keys, Erase(k)
      PROVE  MapInv'
  BY <1>2, EraseMapInv
<1>3. CASE Clear
  BY <1>3, EmptyTableIs DEF Clear, MapInv, SizeIsOccupancy
<1>4. ASSUME NEW k \in Keys, ProbeForever(k)
      PROVE  MapInv'
  BY <1>4 DEF ProbeForever, MapInv, SizeIsOccupancy
<1>5. CASE UNCHANGED vars
  BY <1>5 DEF vars, MapInv, SizeIsOccupancy
<1> QED
  BY <1>1, <1>2, <1>3, <1>4, <1>5 DEF Next, Spin

\* A table of any capacity, with any hash function and after any calls, counts
\* its entries, holds ids of the application and has no gap in a chain behind a
\* natural slot.
THEOREM MapInvariant == Spec => []MapInv
BY InitMapInv, StepMapInv, PTL DEF Spec

-----------------------------------------------------------------------------
(* size_ is the number of occupied slots, whatever the keys' hashes.       *)
THEOREM MapSizeIsOccupancy == Spec => []SizeIsOccupancy
<1>1. MapInv => SizeIsOccupancy
  BY DEF MapInv
<1> QED
  BY <1>1, MapInvariant, PTL

\* The invariant's chains are those of the property.
LEMMA ChainedIsUnbroken ==
  ASSUME slots \in [Slots -> Slot], Keyed(slots), Chained(slots)
  PROVE  ChainUnbrokenAfterNatural
<1> SUFFICES ASSUME NEW i \in Occupied(slots),
                    NEW d \in 1 .. Distance(Natural(slots[i].key), i) - 1
             PROVE  slots[(Natural(slots[i].key) + d) % Capacity].occupied
  BY DEF ChainUnbrokenAfterNatural
<1> DEFINE n == Natural(slots[i].key)
<1>1. i \in Slots /\ n \in Slots /\ n = NaturalOf(slots, i)
  BY NaturalTyped DEF Occupied, NaturalOf
<1> HIDE DEF n
<1>2. Distance(n, i) \in 0 .. Capacity - 1
  BY <1>1, DistanceIs DEF Slots
<1>3. d \in 0 .. Capacity - 1 /\ 0 < d /\ d < Distance(n, i)
  BY <1>2, CapacityPositive DEF n
<1>4. (n + d) % Capacity \in Slots /\ Distance(n, (n + d) % Capacity) = d
  BY <1>1, <1>3, ForwardIs, ForwardDistance DEF Slots
<1>5. Inside(NaturalOf(slots, i), (n + d) % Capacity, i)
  BY <1>1, <1>3, <1>4 DEF Inside
<1> QED
  BY <1>4, <1>5 DEF Chained, n

(* After any sequence of inserts, erases and clears, the slots between an  *)
(* entry's natural slot and its own are occupied.                          *)
THEOREM MapChainUnbroken == Spec => []ChainUnbrokenAfterNatural
<1>1. MapInv => ChainUnbrokenAfterNatural
  BY ChainedIsUnbroken DEF MapInv
<1> QED
  BY <1>1, MapInvariant, PTL

-----------------------------------------------------------------------------
(* The backward shift of an erase moves entries and loses, copies or       *)
(* changes none but the one erased.                                        *)
THEOREM MapEraseRemovesOneEntry == Spec => EraseRemovesOneEntry
<1>1. ASSUME MapInv, NEW k \in Keys, Erase(k)
      PROVE  Entries(slots') = EntriesWithout(slots, Find(slots, k))
  <2>1. /\ slots \in [Slots -> Slot] /\ Keyed(slots)
        /\ Find(slots, k) \in Occupied(slots) /\ slots' = EraseAt(slots, Find(slots, k))
    BY <1>1, ErasedIs DEF MapInv, Erase
  <2> QED
    BY <2>1, EraseKeeps DEF EntriesWithout
<1>2. MapInv => [\A k \in Keys : Erase(k) =>
                   Entries(slots') = EntriesWithout(slots, Find(slots, k))]_vars
  BY <1>1
<1> QED
  BY <1>2, MapInvariant, PTL DEF EraseRemovesOneEntry

(* insert never overwrites the entry of another key.                       *)
THEOREM MapInsertKeepsOtherEntries == Spec => InsertKeepsOtherEntries
<1>1. ASSUME MapInv, NEW k \in Keys, NEW o \in Orders, Insert(k, o)
      PROVE  {e \in Entries(slots') : e[1] # k} = {e \in Entries(slots) : e[1] # k}
  <2> DEFINE p == ProbeSlot(slots, k)
  <2>1. /\ slots \in [Slots -> Slot] /\ Keyed(slots) /\ ProbeEnds(slots, k)
        /\ slots' = Inserted(slots, k, o)
    BY <1>1 DEF MapInv, Insert
  <2>2. p \in Slots /\ (slots[p].occupied => slots[p].key = k)
    BY <2>1, ProbeIs DEF StopsAt
  <2>3. /\ slots'[p].key = k
        /\ \A i \in Slots \ {p} : slots'[i] = slots[i]
        /\ Occupied(slots') = Occupied(slots) \cup {p}
    BY <2>1, InsertKeeps
  <2> HIDE DEF p
  <2>4. ASSUME NEW i \in Occupied(slots), slots[i].key # k
        PROVE  i \in Occupied(slots') /\ slots'[i] = slots[i]
    BY <2>2, <2>3, <2>4 DEF Occupied
  <2>5. ASSUME NEW i \in Occupied(slots'), slots'[i].key # k
        PROVE  i \in Occupied(slots) /\ slots'[i] = slots[i]
    BY <2>2, <2>3, <2>5 DEF Occupied
  <2> QED
    BY <2>4, <2>5 DEF Entries
<1>2. MapInv => [\A k \in Keys, o \in Orders : Insert(k, o) =>
                   {e \in Entries(slots') : e[1] # k} = {e \in Entries(slots) : e[1] # k}]_vars
  BY <1>1
<1> QED
  BY <1>2, MapInvariant, PTL DEF InsertKeepsOtherEntries

-----------------------------------------------------------------------------
\* A chain without a gap leads from an occupied natural slot to the entry.
LEMMA ChainLeadsToEntry ==
  ASSUME slots \in [Slots -> Slot], Keyed(slots), Chained(slots),
         NEW i \in Occupied(slots), slots[NaturalOf(slots, i)].occupied
  PROVE  ProbeEnds(slots, slots[i].key) /\ Find(slots, slots[i].key) # Null
<1> DEFINE k == slots[i].key
           n == Natural(k)
           p == ProbeSlot(slots, k)
<1>1. /\ i \in Slots /\ slots[i].occupied /\ k \in Keys /\ n \in Slots
      /\ slots[n].occupied /\ n = NaturalOf(slots, i)
  BY NaturalIsSlot DEF Occupied, Keyed, NaturalOf
<1>2. ProbeEnds(slots, k)
  <2>1. Distance(n, i) \in Slots /\ (n + Distance(n, i)) % Capacity = i
    BY <1>1, DistanceIs, DistanceForward
  <2>2. Distance(n, i) \in ProbeStops(slots, k)
    BY <1>1, <2>1 DEF ProbeStops
  <2> QED
    BY <2>2 DEF ProbeEnds
<1>3. StopsAt(slots, k, p)
  BY <1>1, <1>2, ProbeIs
<1>4. p \in Slots /\ ~(Distance(n, i) < Distance(n, p))
  BY <1>1, <1>3 DEF StopsAt
<1> HIDE DEF k, n, p
<1>5. slots[p].occupied
  <2> SUFFICES ASSUME ~slots[p].occupied
               PROVE  FALSE
    OBVIOUS
  <2>1. p # n /\ p # i
    BY <1>1
  <2>2. /\ Distance(n, p) \in Nat /\ Distance(n, i) \in Nat
        /\ (n + Distance(n, p)) % Capacity = p /\ (n + Distance(n, i)) % Capacity = i
    BY <1>1, <1>4, DistanceIs, DistanceForward
  <2>3. Distance(n, p) # Distance(n, i)
    BY ONLY <2>1, <2>2
  <2>4. Distance(n, p) # 0
    BY <1>1, <1>4, <2>1, DistanceZero
  <2>5. 0 < Distance(n, p) /\ Distance(n, p) < Distance(n, i)
    BY ONLY <1>4, <2>2, <2>3, <2>4
  <2>6. Inside(NaturalOf(slots, i), p, i)
    BY <1>1, <2>5 DEF Inside
  <2> QED
    BY <1>4, <2>6 DEF Chained
<1>6. Find(slots, k) # Null
  BY <1>4, <1>5, NullAssumption DEF Find, p
<1> QED
  BY <1>2, <1>6 DEF k

(* What the comment at flat_order_map.hpp:126 promises holds, whatever the *)
(* ids' hashes, of every entry whose natural slot is occupied: find        *)
(* returns an entry of its key.                                            *)
THEOREM MapStrandedOnlyByHole == Spec => []StrandedOnlyByHole
<1>1. MapInv => StrandedOnlyByHole
  BY ChainLeadsToEntry DEF MapInv, StrandedOnlyByHole, NaturalOf
<1> QED
  BY <1>1, MapInvariant, PTL

=============================================================================
