--------------------------- MODULE MarketDataHandler ---------------------------
(***************************************************************************)
(* MarketDataHandler (market_data_handler.hpp): process_message counts and *)
(* dispatches one ITCH message, applies it to the order book, and then     *)
(* fires the registered callbacks.  One action per message type, with the  *)
(* whole call chain down to the flat table.                                *)
(*                                                                         *)
(* A message is its fields.  A null or two-byte buffer is refused before   *)
(* it is counted and changes nothing.                                      *)
(*                                                                         *)
(* mirror and astray are no state of the handler.  mirror is what a        *)
(* callback can know, a copy of the open quantities rebuilt from the       *)
(* fields of the events (itch_messages.hpp) and nothing else: shares       *)
(* added, executed or cancelled, an order that takes another's place.      *)
(* astray tells the orders on which it cannot rely.                        *)
(***************************************************************************)
EXTENDS OrderBook

CONSTANTS
  Announced,    \* the ids of the feed's add orders; the other ids are those of
                \* orders added before this handler began to listen
  MaxMessages   \* bound on total_messages_ between two resets

ASSUME AnnouncedAssumption   == Announced \subseteq Keys
ASSUME MaxMessagesAssumption == MaxMessages \in Nat

VARIABLES
  total,       \* total_messages_
  processed,   \* messages_processed_
  event,       \* the type of the event the last message fired, "none" if it fired none
  mirror,      \* open quantity of each order a subscriber believes in, or Null
  astray       \* orders of which the last event was a cancel of part of their
               \* shares, or a replacement by them

handlerVars == <<bookVars, total, processed, event, mirror, astray>>

EventTypes == {"ORDER_ADDED", "ORDER_EXECUTED", "ORDER_CANCELLED", "ORDER_DELETED",
               "ORDER_REPLACED", "TRADE"}

HandlerTypeOK ==
  /\ TypeOK
  /\ total \in 0 .. MaxMessages
  /\ processed \in 0 .. total
  /\ event \in EventTypes \cup {"none"}
  /\ mirror \in [Keys -> (0 .. QtyModulus - 1) \cup {Null}]
  /\ astray \subseteq Keys

HandlerInit ==
  /\ Init
  /\ total = 0
  /\ processed = 0
  /\ event = "none"
  /\ mirror = [id \in Keys |-> Null]
  /\ astray = {}

-----------------------------------------------------------------------------
\* The head of process_message, for a message of at least three bytes.
Counted ==
  /\ total < MaxMessages
  /\ total' = total + 1

\* fire_callback, and the count of processed messages that follows it.
Fires(type, open, adrift) ==
  /\ event' = type
  /\ mirror' = open
  /\ astray' = adrift
  /\ processed' = processed + 1

Silent ==
  /\ event' = "none"
  /\ UNCHANGED <<processed, mirror, astray>>

\* The probe of orders_ finds the id, or finds that it is not there.
Known(id)   == ~spinning /\ ProbeEnds(slots, id) /\ Found(id) # Null
Unknown(id) == ~spinning /\ ProbeEnds(slots, id) /\ Found(id) = Null

\* What is left of an open quantity when some of its shares go.
Less(open, shares) == IF open = Null \/ open <= shares THEN Null ELSE open - shares

Forgotten(id)       == [mirror EXCEPT ![id] = Null]
Reduced(id, shares) == [mirror EXCEPT ![id] = Less(@, shares)]

-----------------------------------------------------------------------------
\* An order id already in the book is dropped without an event.
ProcessAddOrder(id, side, price, shares) ==
  /\ Counted
  /\ \/ /\ AddOrder(id, side, price, shares)
        /\ Fires("ORDER_ADDED", [mirror EXCEPT ![id] = shares], astray \ {id})
     \/ /\ Known(id)
        /\ UNCHANGED bookVars
        /\ Silent

\* The event carries the message's shares, which the book caps at what is
\* open; so does a subscriber.
ProcessExecuteOrder(id, shares) ==
  /\ Counted
  /\ \/ /\ ExecuteOrder(id, shares)
        /\ IF Executed(id, shares) > 0
           THEN Fires("ORDER_EXECUTED", Reduced(id, shares), astray)
           ELSE Silent
     \/ /\ \/ Unknown(id)
           \/ Known(id) /\ slots[Found(id)].order.remaining = 0
        /\ UNCHANGED bookVars
        /\ Silent

\* The book does not read cancelled_shares: the whole order goes.
ProcessCancelOrder(id, cancelled) ==
  /\ Counted
  /\ \/ /\ CancelOrder(id)
        /\ Fires("ORDER_CANCELLED", Reduced(id, cancelled),
                 IF Less(mirror[id], cancelled) = Null THEN astray \ {id} ELSE astray \cup {id})
     \/ Unknown(id) /\ UNCHANGED bookVars /\ Silent

DeletedWithoutEvent(id) ==
  /\ Counted
  /\ \/ CancelOrder(id) /\ Silent
     \/ Unknown(id) /\ UNCHANGED bookVars /\ Silent

ProcessDeleteOrder(id) ==
  /\ Counted
  /\ \/ CancelOrder(id) /\ Fires("ORDER_DELETED", Forgotten(id), astray \ {id})
     \/ Unknown(id) /\ UNCHANGED bookVars /\ Silent

\* The book does not enter the new order, and the event fires and the message
\* counts even when the replaced order is unknown.
ProcessReplaceOrder(id, newId, shares, price) ==
  /\ Counted
  /\ \/ CancelOrder(id)
     \/ Unknown(id) /\ UNCHANGED bookVars
  /\ Fires("ORDER_REPLACED", [mirror EXCEPT ![id] = Null, ![newId] = shares],
           (astray \ {id}) \cup {newId})

ProcessTrade ==
  /\ Counted
  /\ ~spinning
  /\ Fires("TRADE", mirror, astray)
  /\ UNCHANGED bookVars

\* A type the switch does not name, or a buffer too short for its type.
Reject ==
  /\ Counted
  /\ ~spinning
  /\ UNCHANGED bookVars
  /\ Silent

\* A message whose lookup never ends.
ProcessForever(id) ==
  /\ Counted
  /\ ProbeForever(id)
  /\ Silent

HandlerSpin == Spin /\ UNCHANGED <<total, processed, event, mirror, astray>>

\* reset fires no event; its caller clears what it built from the events.
Reset ==
  /\ ~spinning
  /\ slots' = EmptyTable
  /\ size' = 0
  /\ levels' = [side \in Sides |-> <<>>]
  /\ total' = 0
  /\ processed' = 0
  /\ event' = "none"
  /\ mirror' = [id \in Keys |-> Null]
  /\ astray' = {}
  /\ UNCHANGED spinning

HandlerNext ==
  \/ \E id \in Announced, side \in Sides, price \in Prices, shares \in Quantities :
       ProcessAddOrder(id, side, price, shares)
  \/ \E id \in Keys, shares \in Quantities :
       ProcessExecuteOrder(id, shares) \/ ProcessCancelOrder(id, shares)
  \/ \E id \in Keys : ProcessDeleteOrder(id)
  \/ \E id, newId \in Keys, shares \in Quantities, price \in Prices :
       ProcessReplaceOrder(id, newId, shares, price)
  \/ ProcessTrade
  \/ Reject
  \/ \E id \in Keys : ProcessForever(id)
  \/ HandlerSpin
  \/ Reset

HandlerSpec == HandlerInit /\ [][HandlerNext]_handlerVars

-----------------------------------------------------------------------------
(***************************************************************************)
(* Properties.                                                             *)
(***************************************************************************)

\* What the book has open of an order: nothing if open is Null, else open.
Opened(id) ==
  {slots[i].order.remaining : i \in {j \in Occupied(slots) : slots[j].key = id}}

Rests(id, open) == Opened(id) = IF open = Null THEN {} ELSE {open}

Agrees(id) == Rests(id, mirror[id])

(* A subscriber that applies every event by its fields agrees with the     *)
(* book on every order of which no partial cancel or replacement has led   *)
(* it astray: the handler announces every change it makes and only those,  *)
(* after duplicates, partial and over-executions, re-used ids, and adds    *)
(* and deletes of orders gone astray.                                      *)
MirrorMatchesBook == \A id \in Keys \ astray : Agrees(id)

(* docs/market_data_handler.md:40 says that the handler "Maintains bid/ask *)
(* levels with remaining quantities".  So a subscriber that takes the      *)
(* "Number of shares cancelled" (itch_messages.hpp:87) off an order, and   *)
(* puts the "New order reference number" (itch_messages.hpp:106) in the    *)
(* place of an order the book held, agrees with the book thereafter.       *)
EventsTell ==
  [][event' \in {"ORDER_CANCELLED", "ORDER_REPLACED"} /\ size' < size =>
       \A id \in Keys : Agrees(id) => Agrees(id)']_handlerVars

=============================================================================
