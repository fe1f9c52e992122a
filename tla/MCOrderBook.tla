----------------------------- MODULE MCOrderBook -----------------------------
(* Instances of OrderBook: ids that never collide, and ids that do.        *)
EXTENDS OrderBook, TLC

CONSTANTS k1, k2, k3

DistinctHash == k1 :> 3 @@ k2 :> 0 @@ k3 :> 1

\* All three ids share the last slot: chains wrap round the table.
CollidingHash == [id \in Keys |-> Capacity - 1]

\* Ids that share their slot can be exchanged.
IdSymmetry == Permutations(Keys)

\* The bound of the runs in which orders move.
BidsOnly == levels["Sell"] = <<>>

\* What slots hold that no entry occupies no operation reads, though a stale
\* pointer may still write there: states that differ only there are one.
StoredOnly == <<[i \in Occupied(slots) |-> slots[i]], size, levels, spinning>>

=============================================================================
