---------------------------- MODULE LimitOrderBook ----------------------------
(***************************************************************************)
(* What OrderBook promises: price-time priority.  Every side and price has *)
(* a queue of resting order ids, first come first; an order keeps its      *)
(* place through partial executions and leaves when it is cancelled or     *)
(* fully executed.  No tables, no lists, no levels.                        *)
(***************************************************************************)
EXTENDS Integers, Sequences, SequencesExt

CONSTANTS Ids, Sides, Prices, Quantities

VARIABLES
  queue,      \* queue[side][price]: the ids resting there, oldest first
  remaining,  \* remaining[id]: the open quantity, 0 when id does not rest
  count       \* the number of resting orders

vars == <<queue, remaining, count>>

RestsAt(id, side, price) == id \in ToSet(queue[side][price])

Resting(id) == \E side \in Sides, price \in Prices : RestsAt(id, side, price)

Init ==
  /\ queue     = [side \in Sides |-> [price \in Prices |-> <<>>]]
  /\ remaining = [id \in Ids |-> 0]
  /\ count     = 0

Add(id, side, price, qty) ==
  /\ count'     = count + 1
  /\ remaining' = [remaining EXCEPT ![id] = qty]
  /\ ~Resting(id)
  /\ queue'     = [queue EXCEPT ![side][price] = Append(@, id)]

Leave(id) ==
  /\ count'     = count - 1
  /\ remaining' = [remaining EXCEPT ![id] = 0]
  /\ \E side \in Sides, price \in Prices : \E i \in DOMAIN queue[side][price] :
       /\ queue[side][price][i] = id
       /\ queue' = [queue EXCEPT ![side][price] = RemoveAt(@, i)]

\* A fill smaller than the open quantity leaves every queue as it is.
Fill(id, qty) ==
  /\ qty < remaining[id]
  /\ remaining' = [remaining EXCEPT ![id] = @ - qty]
  /\ Resting(id)
  /\ UNCHANGED <<queue, count>>

\* A fill of an order with open quantity that exhausts it.
Exhaust(id, qty) ==
  /\ remaining[id] > 0
  /\ qty >= remaining[id]
  /\ Leave(id)

Next ==
  \/ \E id \in Ids, side \in Sides, price \in Prices, qty \in Quantities :
       Add(id, side, price, qty)
  \/ \E id \in Ids : Leave(id)
  \/ \E id \in Ids, qty \in Quantities : Fill(id, qty) \/ Exhaust(id, qty)

Spec == Init /\ [][Next]_vars

=============================================================================
