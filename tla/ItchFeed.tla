------------------------------- MODULE ItchFeed -------------------------------
(***************************************************************************)
(* The traffic generator (tools/itch_sender.py): it invents adds, cancels  *)
(* and trades in batches, one MoldUDP64 frame per batch, and keeps a capped *)
(* queue of the orders it may still cancel.                                *)
(*                                                                         *)
(* Order references run on to 2^32, which is never reached here; sides,    *)
(* prices and shares are fixed per order by whoever extends this module.   *)
(***************************************************************************)
EXTENDS Integers, Sequences, SequencesExt

CONSTANTS
  Refs,        \* the order references the run gets to, 1 .. n
  LiveCap,     \* LIVE_ORDER_CAP
  Batch,       \* args.batch
  MaxFrames    \* bound on the frames sent

ASSUME BatchAssumption == Batch \in Nat \ {0} /\ LiveCap \in Nat \ {0}

Message == [type : {"A", "X", "P", "D", "E", "U", "S"}, id : Refs]

VARIABLES
  live,     \* _live_orders
  nextRef,  \* _next_order_ref
  batch,    \* messages of the frame being made
  sent      \* the frames sent, each a sequence of messages

feedVars == <<live, nextRef, batch, sent>>

FeedInit == live = <<>> /\ nextRef = 1 /\ batch = <<>> /\ sent = <<>>

-----------------------------------------------------------------------------
Generates(type, ref) ==
  /\ Len(batch) < Batch
  /\ Len(sent) < MaxFrames
  /\ batch' = Append(batch, [type |-> type, id |-> ref])
  /\ UNCHANGED sent

\* The oldest order is forgotten when there are too many; nobody cancels it.
GenerateAdd ==
  /\ nextRef \in Refs
  /\ Generates("A", nextRef)
  /\ nextRef' = nextRef + 1
  /\ live' = IF Len(live) = LiveCap THEN Append(Tail(live), nextRef) ELSE Append(live, nextRef)

\* The rotations of the queue around the removal cancel out.
GenerateCancelKeepsLive ==
  /\ \E i \in DOMAIN live : Generates("X", live[i])
  /\ UNCHANGED <<live, nextRef>>

GenerateCancel ==
  /\ \E i \in DOMAIN live : Generates("X", live[i]) /\ live' = RemoveAt(live, i)
  /\ UNCHANGED nextRef

GenerateTrade ==
  /\ \E i \in DOMAIN live : Generates("P", live[i])
  /\ UNCHANGED <<live, nextRef>>

SendFrame ==
  /\ Len(batch) = Batch
  /\ sent' = Append(sent, batch)
  /\ batch' = <<>>
  /\ UNCHANGED <<live, nextRef>>

FeedNext == GenerateAdd \/ GenerateCancel \/ GenerateTrade \/ SendFrame

=============================================================================
