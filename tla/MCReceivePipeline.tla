--------------------------- MODULE MCReceivePipeline ---------------------------
(* Instances of ReceivePipeline: a feed of a few orders, and five packets  *)
(* of other hosts that reach the corners of the parsers.                   *)
EXTENDS ReceivePipeline, TLC

OrderTerms == [id \in Keys |-> [side |-> "Buy", price |-> 1, shares |-> 2]]

DistinctHash == [id \in Keys |-> id % Capacity]

\* Messages of other hosts are about one share, and replace by order 3.
Msg(type, id) == [type |-> type, id |-> id, newId |-> 3, shares |-> 1]
Blk(len, type, id) == [len |-> len, msg |-> Msg(type, id)]

\* A tagged datagram whose first block is empty: a heartbeat.
Heartbeat ==
  [Wire([len |-> 24, count |-> 2, blocks |-> <<Blk(0, "S", 1), Blk(2, "S", 1)>>, raw |-> Msg("S", 1)])
     EXCEPT !.type = "VLAN", !.inner = "IPv4", !.len = @ + 4]

\* Messages of another feed about the first orders: a block of two bytes, a
\* trade, a delete that is too short, and a last block that lacks one byte.
OtherFeed ==
  Wire([len    |-> 20 + 38 + 4 + 44 + 12 + 38 + 21,
        count  |-> 8,
        blocks |-> <<Blk(36, "E", 1), Blk(2, "S", 1), Blk(42, "P", 2), Blk(10, "D", 2),
                     Blk(36, "U", 1), Blk(20, "X", 2)>>,
        raw    |-> Msg("S", 1)])

\* A datagram of which the network kept less than it claims.
CutShort == [Wire([len |-> 22, count |-> 1, blocks |-> <<Blk(16, "D", 1)>>, raw |-> Msg("S", 1)])
               EXCEPT !.len = 50, !.ihl = 6]

\* An unframed delete, of an order of the feed or of one nobody announced.
RawDelete(id) == Wire([len |-> 16, count |-> 0, blocks |-> <<>>, raw |-> Msg("D", id)])

SomeNoise == {Heartbeat, OtherFeed, CutShort, RawDelete(1), RawDelete(3)}
NoNoise   == {}

\* The cancel in OtherFeed is cut off.
ASSUME NoiseCancelsNothing == NoForeignCancel

=============================================================================
