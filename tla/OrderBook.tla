------------------------------ MODULE OrderBook ------------------------------
(***************************************************************************)
(* OrderBook (order_book.hpp) over PriceLevel (price_level.hpp), Order     *)
(* (order.hpp) and FlatOrderMap.  Orders live inline in the slots of the   *)
(* flat table; each price level is the head and tail of a doubly linked    *)
(* list threaded through those slots by Order::next and Order::prev, that  *)
(* is, by slot addresses.  The backward shift of an erase copies an order  *)
(* to another slot without touching the pointers that lead to it.          *)
(***************************************************************************)
EXTENDS FlatTable, Sequences, SequencesExt

CONSTANTS
  Prices,       \* prices
  Quantities,   \* order and execution quantities
  QtyModulus    \* 2^32, the width of a quantity and of a level's sum

ASSUME PriceAssumption    == Prices \subseteq Nat
ASSUME QuantityAssumption == QtyModulus \in Nat \ {0} /\ Quantities \subseteq 0 .. QtyModulus - 1

Sides   == {"Buy", "Sell"}
Pointer == 0 .. Capacity - 1 \cup {Null}

\* Order: the order id is the key of the slot, the instrument the book's.
Order == [side : Sides, price : Prices, remaining : 0 .. QtyModulus - 1,
          next : Pointer, prev : Pointer]

ZeroOrder == [side |-> "Buy", price |-> 0, remaining |-> 0, next |-> Null, prev |-> Null]

NewOrder(side, price, qty) ==
  [side |-> side, price |-> price, remaining |-> qty, next |-> Null, prev |-> Null]

\* Null is a price and a quantity to the models of callers: neither is nullptr.
ASSUME NullIsNoNumber == Null \notin Nat

ASSUME OrdersAssumption == Orders = Order /\ NoOrder = ZeroOrder

Level == [price : Prices, head : Pointer, tail : Pointer]

VARIABLES
  slots,     \* orders_.slots_
  size,      \* orders_.size_
  levels,    \* bids_ and asks_, best price first
  spinning   \* a probe loop of orders_ was entered that cannot end

bookVars == <<slots, size, levels, spinning>>

TypeOK ==
  /\ slots \in [Slots -> Slot]
  /\ size \in 0 .. Capacity
  /\ levels \in [Sides -> Seq(Level)]
  /\ spinning \in BOOLEAN

-----------------------------------------------------------------------------
(***************************************************************************)
(* PriceLevel: an intrusive FIFO list.  Both operators return the table    *)
(* with the links rewritten and the level with its head and tail.          *)
(***************************************************************************)
EmptyLevel(price) == [price |-> price, head |-> Null, tail |-> Null]

LinkedFirst(table, level, p) ==
  IF level.head = Null
  THEN [table |-> [table EXCEPT ![p].order.next = Null, ![p].order.prev = Null],
        level |-> [level EXCEPT !.head = p, !.tail = p]]
  ELSE [table |-> [table EXCEPT ![level.head].order.prev = p,
                                ![p].order.next = level.head,
                                ![p].order.prev = Null],
        level |-> [level EXCEPT !.head = p]]

Linked(table, level, p) ==
  IF level.head = Null
  THEN [table |-> [table EXCEPT ![p].order.next = Null, ![p].order.prev = Null],
        level |-> [level EXCEPT !.head = p, !.tail = p]]
  ELSE [table |-> [table EXCEPT ![level.tail].order.next = p,
                                ![p].order.prev = level.tail,
                                ![p].order.next = Null],
        level |-> [level EXCEPT !.tail = p]]

\* p->field = q when p is not nullptr
SetNext(table, p, q) == IF p = Null THEN table ELSE [table EXCEPT ![p].order.next = q]
SetPrev(table, p, q) == IF p = Null THEN table ELSE [table EXCEPT ![p].order.prev = q]

UnlinkedKeepingTail(table, level, p) ==
  LET before == table[p].order.prev
      after  == table[p].order.next
  IN  [table |-> SetPrev(SetNext(table, before, after), after, before),
       level |-> [level EXCEPT !.head = IF before = Null THEN after ELSE @]]

Unlinked(table, level, p) ==
  LET before == table[p].order.prev
      after  == table[p].order.next
  IN  [table |-> SetPrev(SetNext(table, before, after), after, before),
       level |-> [level EXCEPT !.head = IF before = Null THEN after ELSE @,
                               !.tail = IF after = Null THEN before ELSE @]]

\* The slots reached from the head; a corrupted list may run into a cycle,
\* which Capacity steps reveal.
NodeAt(table, level) ==
  LET node[n \in Nat] ==
        IF n = 0
        THEN level.head
        ELSE LET last == node[n - 1]
             IN  IF last = Null THEN Null ELSE table[last].order.next
  IN  [n \in 0 .. Capacity |-> node[n]]

WalkEnds(table, level) == NodeAt(table, level)[Capacity] = Null

Walk(table, level) ==
  LET node == NodeAt(table, level)
  IN  [n \in 1 .. Cardinality({m \in DOMAIN node : node[m] # Null}) |-> node[n - 1]]

\* get_total_qty, for a walk that ends; the sum has the width of a quantity.
TotalQty(table, level) ==
  FoldLeft(LAMBDA sum, p : (sum + table[p].order.remaining) % QtyModulus,
           0, Walk(table, level))

-----------------------------------------------------------------------------
(***************************************************************************)
(* The level vectors.  find_or_insert binary-searches; cancel, and the     *)
(* quantity queries, scan for the first level of the price.                *)
(***************************************************************************)
BetterIgnoresSide(side, a, b) == a > b

Better(side, a, b) == IF side = "Buy" THEN a > b ELSE a < b

LowerBoundTooFar(side, price) ==
  1 + Cardinality({i \in DOMAIN levels[side] : ~Better(side, price, levels[side][i].price)})

LowerBound(side, price) ==
  1 + Cardinality({i \in DOMAIN levels[side] : Better(side, levels[side][i].price, price)})

FindOrInsert(side, price) ==
  LET lv == levels[side]
      i  == LowerBound(side, price)
  IN  IF i \in DOMAIN lv /\ lv[i].price = price
      THEN lv
      ELSE InsertAt(lv, i, EmptyLevel(price))

LevelsOf(lv, price) == {i \in DOMAIN lv : lv[i].price = price}

-----------------------------------------------------------------------------
Init ==
  /\ slots    = EmptyTable
  /\ size     = 0
  /\ levels   = [side \in Sides |-> <<>>]
  /\ spinning = FALSE

\* orders_.find(id), for a probe that ends
Found(id) == Find(slots, id)

\* add_order on an id not in the map: copy the order into its slot, then
\* link the copy at the end of its price level.
AddOrder(id, side, price, qty) ==
  /\ ~spinning
  /\ ProbeEnds(slots, id)
  /\ Found(id) = Null
  /\ LET p      == ProbeSlot(slots, id)
         lv     == FindOrInsert(side, price)
         i      == LowerBound(side, price)
         linked == Linked(Inserted(slots, id, NewOrder(side, price, qty)), lv[i], p)
     IN  /\ slots'  = linked.table
         /\ levels' = [levels EXCEPT ![side] = [lv EXCEPT ![i] = linked.level]]
  /\ size' = size + 1
  /\ UNCHANGED spinning

\* The body of cancel_order for the order found in slot p of table.
RemovedOrderKeepsLevel(table, id, p) ==
  LET o  == table[p].order
      lv == levels[o.side]
      at == LevelsOf(lv, o.price)
  IN  IF at = {}
      THEN /\ slots' = Erased(table, id)
           /\ UNCHANGED levels
      ELSE LET i        == Min(at)
               unlinked == Unlinked(table, lv[i], p)
           IN  /\ slots'  = Erased(unlinked.table, id)
               /\ levels' = [levels EXCEPT ![o.side] = [lv EXCEPT ![i] = unlinked.level]]

RemoveOrder(table, id, p) ==
  LET o  == table[p].order
      lv == levels[o.side]
      at == LevelsOf(lv, o.price)
  IN  IF at = {}
      THEN /\ slots' = Erased(table, id)
           /\ UNCHANGED levels
      ELSE LET i        == Min(at)
               unlinked == Unlinked(table, lv[i], p)
           IN  /\ slots'  = Erased(unlinked.table, id)
               /\ levels' = [levels EXCEPT ![o.side] =
                               IF unlinked.level.head = Null
                               THEN RemoveAt(lv, i)
                               ELSE [lv EXCEPT ![i] = unlinked.level]]

CancelOrder(id) ==
  /\ ~spinning
  /\ ProbeEnds(slots, id)
  /\ Found(id) # Null
  /\ RemoveOrder(slots, id, Found(id))
  /\ size' = size - 1
  /\ UNCHANGED spinning

Executed(id, qty) == Min({qty, slots[Found(id)].order.remaining})

ExecuteOrder(id, qty) ==
  /\ ~spinning
  /\ ProbeEnds(slots, id)
  /\ Found(id) # Null
  /\ LET p    == Found(id)
         left == slots[p].order.remaining - Executed(id, qty)
         t    == [slots EXCEPT ![p].order.remaining = left]
     IN  /\ slots[p].order.remaining # 0
         /\ IF left = 0
            THEN /\ RemoveOrder(t, id, p)
                 /\ size' = size - 1
            ELSE /\ slots' = t
                 /\ UNCHANGED <<levels, size>>
  /\ UNCHANGED spinning

\* Any method that looks up an id absent from a full table.
ProbeForever(id) ==
  /\ ~spinning
  /\ ~ProbeEnds(slots, id)
  /\ spinning' = TRUE
  /\ UNCHANGED <<slots, size, levels>>

Spin == spinning /\ UNCHANGED bookVars

Next ==
  \/ \E id \in Keys, side \in Sides, price \in Prices, qty \in Quantities :
       AddOrder(id, side, price, qty)
  \/ \E id \in Keys : CancelOrder(id)
  \/ \E id \in Keys, qty \in Quantities : ExecuteOrder(id, qty)
  \/ \E id \in Keys : ProbeForever(id)
  \/ Spin

Spec == Init /\ [][Next]_bookVars

-----------------------------------------------------------------------------
(***************************************************************************)
(* The queries.                                                            *)
(***************************************************************************)
BestPrice(side) == IF levels[side] = <<>> THEN Null ELSE Head(levels[side]).price

QtyAt(side, price) ==
  LET at == LevelsOf(levels[side], price)
  IN  IF at = {} THEN 0 ELSE TotalQty(slots, levels[side][Min(at)])

-----------------------------------------------------------------------------
(***************************************************************************)
(* Properties.                                                             *)
(***************************************************************************)
\* The stored orders of one side and price, whatever the lists say.
OrdersAt(side, price) ==
  {i \in Occupied(slots) : slots[i].order.side = side /\ slots[i].order.price = price}

(* bids_ strictly descends and asks_ strictly ascends through every        *)
(* add, cancel and execution: the binary search of find_or_insert never    *)
(* splits a price into two levels.                                         *)
LevelsSorted ==
  \A side \in Sides : \A i, j \in DOMAIN levels[side] :
    i < j => Better(side, levels[side][i].price, levels[side][j].price)

(* No level is left without a first and a last order, whatever stale       *)
(* pointers a shift has left behind: add_order dereferences tail_ of any   *)
(* level that has a head_.                                                 *)
NoEmptyLevel ==
  \A side \in Sides : \A i \in DOMAIN levels[side] :
    levels[side][i].head # Null /\ levels[side][i].tail # Null

(* The list of every level ends, visits exactly the stored orders of its   *)
(* side and price, and its prev pointers and tail mirror its next pointers *)
(* (PriceLevel::remove_order unlinks through both).                        *)
ListsMatchOrders ==
  \A side \in Sides : \A i \in DOMAIN levels[side] :
    LET level == levels[side][i]
        walk  == Walk(slots, level)
    IN  /\ WalkEnds(slots, level)
        /\ ToSet(walk) = OrdersAt(side, level.price)
        /\ level.tail = walk[Len(walk)]
        /\ \A n \in DOMAIN walk :
             slots[walk[n]].order.prev = IF n = 1 THEN Null ELSE walk[n - 1]

(* best_bid and best_ask quote the best price at which an order is stored: *)
(* no level outlives its last order and no order lacks its level.          *)
TopOfBook ==
  \A side \in Sides :
    LET quoted == {slots[i].order.price : i \in {j \in Occupied(slots) : slots[j].order.side = side}}
    IN  IF quoted = {}
        THEN BestPrice(side) = Null
        ELSE BestPrice(side) = IF side = "Buy" THEN Max(quoted) ELSE Min(quoted)

(* price_level.hpp:20: "Sums remaining quantities of all orders at this    *)
(* price".                                                                 *)
SumRemaining(S) == SumFunctionOnSet([i \in S |-> slots[i].order.remaining], S)

QtySumsOrders ==
  \A side \in Sides, price \in Prices :
    QtyAt(side, price) = SumRemaining(OrdersAt(side, price))

(* get_bid_qty_at and get_ask_qty_at sum the stored orders of a price to   *)
(* the width of a quantity (price_level.hpp:24 adds up 32 bits): no order  *)
(* is left out, counted twice or counted at another price.                 *)
QtySumsToWidth ==
  \A side \in Sides, price \in Prices :
    QtyAt(side, price) = SumRemaining(OrdersAt(side, price)) % QtyModulus

\* No price holds more than a quantity can express.
SumsFit ==
  \A side \in Sides, price \in Prices : SumRemaining(OrdersAt(side, price)) < QtyModulus

(* Price-time priority: while no chain of the table is broken, the lists   *)
(* threaded through its slots are the queues of LimitOrderBook, and every  *)
(* add, cancel and execution is one of its steps.                          *)
IdsAt(side, price) ==
  LET at   == LevelsOf(levels[side], price)
      walk == Walk(slots, levels[side][Min(at)])
  IN  IF at = {} THEN <<>> ELSE [n \in DOMAIN walk |-> slots[walk[n]].key]

RestingIds == [side \in Sides |-> [price \in Prices |-> IdsAt(side, price)]]

OpenQuantities == [id \in Keys |->
                     IF Found(id) = Null THEN 0 ELSE slots[Found(id)].order.remaining]

Book == INSTANCE LimitOrderBook WITH
          Ids       <- Keys,
          queue     <- RestingIds,
          remaining <- OpenQuantities,
          count     <- size

ImplementsLimitOrderBook == Book!Spec

=============================================================================
