---------------------------- MODULE ReceivePipeline ----------------------------
(***************************************************************************)
(* The receiver (examples/market_data_pipeline_demo.cpp): main brings up a *)
(* DpdkPacketHandler, polls it until a signal, and for each packet filters *)
(* the port, extracts the UDP payload, cuts the MoldUDP64 framing into     *)
(* messages for a MarketDataHandler, and records the latency.  Its sender  *)
(* is ItchFeed; the network between them loses, repeats and reorders       *)
(* datagrams, and other hosts send to the same port.                       *)
(*                                                                         *)
(* The handler's method calls, one per message, are steps of their own, as *)
(* the signal handler and the network run beside them.                     *)
(***************************************************************************)
EXTENDS MarketDataHandler, DpdkPacketHandler, UdpPayload, LatencyHistogram, ItchFeed

CONSTANTS
  FilterPort,   \* filter_port; 0 turns the filter off
  Noise,        \* packets of other hosts
  Lossless,     \* the network delivers every frame once and in order
  Terms,        \* side and price of each order, and the shares the sender adds
  Cycles,       \* what rdtsc may count over one packet
  Hz            \* tsc_hz

VARIABLES
  running,      \* g_running
  stage,        \* where main is
  off,          \* off, of the payload
  block,        \* i + 1
  parsed,       \* parsed_any
  latWindow, latTotal,   \* lat_window, lat_total
  log,          \* the calls of process_message so far, each message and size
  heard,        \* the payloads handed to process_itch_payload so far
  samples,      \* the latencies recorded so far
  windowFrom    \* samples recorded when the latency window was last reset

mainVars == <<stage, off, block, parsed, latWindow, latTotal, log, heard, samples, windowFrom>>

vars == <<handlerVars, nicVars, feedVars, running, mainVars>>

Stages == {"bring up", "loop", "packet", "blocks", "raw", "timed", "report", "exit",
           "other application"}

-----------------------------------------------------------------------------
(***************************************************************************)
(* Messages, payloads and packets.                                         *)
(***************************************************************************)
\* sizeof of the packed structs of itch_messages.hpp.  A stands for the type
\* F too, and E for C: process_message does not tell them apart.
StructSize == [A |-> 41, E |-> 36, X |-> 20, D |-> 16, U |-> 36, P |-> 42]

UnderstoodIgnoringSize(m, len) == m.type \in DOMAIN StructSize

\* The switch names the type, and cast_message finds the struct whole.
Understood(m, len) == m.type \in DOMAIN StructSize /\ len >= StructSize[m.type]

\* The offsets at which the header and the first k blocks end.
BlockEnds(blocks) ==
  LET end[k \in 0 .. Len(blocks)] ==
        IF k = 0 THEN 20 ELSE end[k - 1] + 2 + blocks[k].len
  IN  end

\* A message of the sender: it cancels all the shares it added.
Written(type, ref) == [type |-> type, id |-> ref, newId |-> ref, shares |-> Terms[ref].shares]

\* A payload: its bytes, the count in its header, the blocks at the offsets
\* the framing loop reaches, and the message its first bytes would be.
Framed(msgs) ==
  LET blocks == [i \in DOMAIN msgs |-> [len |-> StructSize[msgs[i].type],
                                        msg |-> Written(msgs[i].type, msgs[i].id)]]
  IN  [len    |-> BlockEnds(blocks)[Len(msgs)],
       count  |-> Len(msgs),
       blocks |-> blocks,
       raw    |-> Written("S", 1)]               \* SESSION reads as type 'S'

\* The datagram a sender's stack makes of a payload.
Wire(pl) ==
  [len |-> 42 + pl.len, type |-> "IPv4", inner |-> "other", version |-> 4, ihl |-> 5,
   protocol |-> "UDP", udpLen |-> 8 + pl.len, dstPort |-> FilterPort, payload |-> pl]

-----------------------------------------------------------------------------
(***************************************************************************)
(* What is assumed of the feed and of other hosts.                         *)
(***************************************************************************)
ASSUME RefsAssumption == 1 \in Refs /\ Refs \subseteq Nat /\ Refs \subseteq Announced

\* The sender draws at least 100 shares (itch_sender.py:126).
ASSUME TermsAssumption ==
  Terms \in [Keys -> [side : Sides, price : Prices, shares : Quantities \ {0}]]

\* A frame of the largest messages fits into a packet, whose length has 16
\* bits: a longer one would come in fragments.
ASSUME FramesAssumption == 42 + 20 + 44 * Batch < Modulus16

\* S stands for all types that the switch does not name.  A message carries
\* what its type has a field for, of a new order its reference and shares.
Messages == [type : DOMAIN StructSize \cup {"S"}, id : Keys, newId : Keys, shares : Quantities]

Payloads == [len : Word16, count : Word16, blocks : Seq([len : Word16, msg : Messages]),
             raw : Messages]

\* blocks goes on to where the framing loop breaks off.
BlocksComplete(pl) ==
  LET n    == Len(pl.blocks)
      ends == BlockEnds(pl.blocks)
  IN  \/ pl.count <= n
      \/ \E k \in 1 .. n : pl.blocks[k].len = 0 \/ ends[k] > pl.len
      \/ ends[n] + 2 > pl.len

AddsAnnounced(pl) ==
  /\ pl.raw.type = "A" => pl.raw.id \in Announced
  /\ \A k \in DOMAIN pl.blocks : pl.blocks[k].msg.type = "A" => pl.blocks[k].msg.id \in Announced

\* Any packet, its lengths true or not; payload is what its UDP header spans.
WellFormed(p) ==
  /\ HasLengths(p)
  /\ p.payload \in Payloads /\ BlocksComplete(p.payload) /\ AddsAnnounced(p.payload)
  /\ p.udpLen >= 8 => p.udpLen = 8 + p.payload.len

ASSUME NoiseAssumption == \A p \in Noise : WellFormed(p)

ASSUME ClockAssumption == Cycles \subseteq Nat /\ Hz \in Nat

-----------------------------------------------------------------------------
Offered ==
  IF Lossless
  THEN {[i \in 1 .. n |-> Wire(Framed(sent[packetsReceived + i]))] :
          n \in 1 .. Min({Burst, Len(sent) - packetsReceived})}
  ELSE Bursts({Wire(Framed(msgs)) : msgs \in Range(sent)} \cup Noise)

-----------------------------------------------------------------------------
PipelineInit ==
  /\ HandlerInit /\ NicInit /\ FeedInit
  /\ running = TRUE
  /\ stage \in {"bring up", "other application"}
  /\ off = 0 /\ block = 0 /\ parsed = FALSE
  /\ latWindow = EmptyHistogram /\ latTotal = EmptyHistogram
  /\ log = <<>> /\ heard = <<>> /\ samples = <<>> /\ windowFrom = 0

Goes(from, to) == ~spinning /\ stage = from /\ stage' = to

parseVars == <<off, block, parsed, log, heard>>
latVars   == <<latWindow, latTotal, samples, windowFrom>>

BringUp ==
  /\ \/ Goes("bring up", "loop") /\ InitSucceeds
     \/ Goes("bring up", "exit") /\ \E k \in DOMAIN InitSteps : InitFails(k)
  /\ UNCHANGED <<handlerVars, feedVars, running, parseVars, latVars>>

PollPort ==
  /\ running
  /\ \/ Goes("loop", "packet") /\ \E pkts \in Offered : Poll(pkts, TRUE)
     \/ Goes("loop", "report") /\ UNCHANGED nicVars
  /\ UNCHANGED <<handlerVars, feedVars, running, parseVars, latVars>>

Pkt == Head(burst)

Accepted(p) == (FilterPort # 0 => UdpDstPort(p) = FilterPort) /\ Extracts(p)

NextPacket == IF Len(burst) = 1 THEN "report" ELSE "packet"

SkipPacketStays ==
  /\ Goes("packet", "packet")
  /\ ~Accepted(Pkt)
  /\ UNCHANGED <<handlerVars, nicVars, feedVars, running, parseVars, latVars>>

SkipPacket ==
  /\ Goes("packet", NextPacket)
  /\ ~Accepted(Pkt)
  /\ FinishPacket
  /\ UNCHANGED <<handlerVars, feedVars, running, parseVars, latVars>>

\* process_itch_payload up to its loop
AcceptPacket ==
  /\ Goes("packet", IF PayloadLen(Pkt) >= 20 THEN "blocks" ELSE "raw")
  /\ Accepted(Pkt)
  /\ heard' = Append(heard, Pkt.payload)
  /\ off' = 20 /\ block' = 1 /\ parsed' = FALSE
  /\ UNCHANGED <<handlerVars, nicVars, feedVars, running, log, latVars>>

-----------------------------------------------------------------------------
(***************************************************************************)
(* The framing loop, and process_message by message type.                  *)
(***************************************************************************)
Dispatched(m) ==
  \/ m.type = "A" /\ ProcessAddOrder(m.id, Terms[m.id].side, Terms[m.id].price, m.shares)
  \/ m.type = "E" /\ ProcessExecuteOrder(m.id, m.shares)
  \/ m.type = "X" /\ ProcessCancelOrder(m.id, m.shares)
  \/ m.type = "D" /\ ProcessDeleteOrder(m.id)
  \/ m.type = "U" /\ ProcessReplaceOrder(m.id, m.newId, m.shares, Terms[m.newId].price)
  \/ m.type = "P" /\ ProcessTrade
  \/ m.type # "P" /\ ProcessForever(m.id)

ProcessMessage(m, len) ==
  /\ log' = Append(log, [msg |-> m, len |-> len])
  /\ \/ len < 3 /\ UNCHANGED handlerVars
     \/ len >= 3 /\ ~Understood(m, len) /\ Reject
     \/ len >= 3 /\ Understood(m, len) /\ Dispatched(m)

Payload == Last(heard)
Block   == Payload.blocks[block]

AtBlock == block <= Payload.count /\ off + 2 <= PayloadLen(Pkt)

FitsWithoutLength(b) == b.len # 0 /\ off + b.len <= PayloadLen(Pkt)

Fits(b) == b.len # 0 /\ off + 2 + b.len <= PayloadLen(Pkt)

ParseBlock ==
  /\ Goes("blocks", "blocks")
  /\ AtBlock /\ Fits(Block)
  /\ ProcessMessage(Block.msg, Block.len)
  /\ off' = off + 2 + Block.len
  /\ block' = block + 1
  /\ parsed' = TRUE
  /\ UNCHANGED <<nicVars, feedVars, running, heard, latVars>>

EndBlocks ==
  /\ Goes("blocks", IF parsed THEN "timed" ELSE "raw")
  /\ AtBlock => ~Fits(Block)
  /\ UNCHANGED <<handlerVars, nicVars, feedVars, running, parseVars, latVars>>

FallBack ==
  /\ Goes("raw", "timed")
  /\ ProcessMessage(Payload.raw, PayloadLen(Pkt))
  /\ UNCHANGED <<nicVars, feedVars, running, off, block, parsed, heard, latVars>>

\* The rest of the callback, and of process_burst's turn for the packet.
Record(cycles) ==
  /\ Goes("timed", NextPacket)
  /\ latWindow' = RecordCycles(latWindow, cycles, Hz)
  /\ latTotal'  = RecordCycles(latTotal, cycles, Hz)
  /\ samples'   = IF Hz = 0 THEN samples ELSE Append(samples, Nanoseconds(cycles, Hz))
  /\ FinishPacket
  /\ UNCHANGED <<handlerVars, feedVars, running, parseVars, windowFrom>>

-----------------------------------------------------------------------------
ReportKeepsWindow ==
  /\ Goes("report", "loop")
  /\ \/ latWindow.total > 0 /\ windowFrom' = Len(samples)
     \/ UNCHANGED windowFrom
  /\ UNCHANGED <<handlerVars, nicVars, feedVars, running, parseVars, latWindow, latTotal, samples>>

\* A second may have passed.
Report ==
  /\ Goes("report", "loop")
  /\ \/ /\ latWindow.total > 0
        /\ latWindow' = EmptyHistogram
        /\ windowFrom' = Len(samples)
     \/ UNCHANGED <<latWindow, windowFrom>>
  /\ UNCHANGED <<handlerVars, nicVars, feedVars, running, parseVars, latTotal, samples>>

LeaveLoop ==
  /\ ~running
  /\ Goes("loop", "exit")
  /\ Shutdown
  /\ UNCHANGED <<handlerVars, feedVars, running, parseVars, latVars>>

\* SIGINT or SIGTERM, between any two steps
Signal ==
  /\ running /\ stage # "other application"
  /\ running' = FALSE
  /\ UNCHANGED <<handlerVars, nicVars, feedVars, mainVars>>

\* Only PollPort sees what was sent: the sender's steps between two polls
\* are those at the first of them.
Feed ==
  /\ stage = "loop"
  /\ FeedNext
  /\ UNCHANGED <<handlerVars, nicVars, running, mainVars>>

\* Any other use of a DpdkPacketHandler: its methods in any order, its
\* callbacks looking on.
OtherApplication ==
  /\ stage = "other application"
  /\ \/ \E k \in DOMAIN InitSteps : InitFails(k)
     \/ InitSucceeds
     \/ RegisterCallback
     \/ \E pkts \in Bursts(Noise), given \in BOOLEAN : Poll(pkts, given)
     \/ FinishPacket
     \/ Shutdown
  /\ UNCHANGED <<handlerVars, feedVars, running, mainVars>>

\* main has returned, or is lost in a probe.
Stopped == (stage = "exit" \/ spinning) /\ UNCHANGED vars

Main ==
  \/ BringUp \/ PollPort \/ SkipPacket \/ AcceptPacket
  \/ ParseBlock \/ EndBlocks \/ FallBack
  \/ \E cycles \in Cycles : Record(cycles)
  \/ Report \/ LeaveLoop

PipelineNext == Main \/ Signal \/ Feed \/ OtherApplication \/ Stopped

\* main is a thread that runs; nothing else has to happen.
PipelineSpec == PipelineInit /\ [][PipelineNext]_vars /\ WF_vars(Main)

-----------------------------------------------------------------------------
(***************************************************************************)
(* Properties.                                                             *)
(***************************************************************************)
PipelineTypeOK ==
  /\ NicTypeOK /\ HandlerTypeOK
  /\ running \in BOOLEAN /\ stage \in Stages
  /\ off \in Nat /\ block \in Nat /\ parsed \in BOOLEAN
  /\ latWindow \in Histogram /\ latTotal \in Histogram
  /\ windowFrom \in 0 .. Len(samples)
  /\ live \in Seq(Refs) /\ Len(live) <= LiveCap

(* Of no packet the receiver holds is a byte read beyond its end, tagged,  *)
(* cut short or lying about its lengths as it may be; the port filter and  *)
(* the extraction, two walks over the headers, come to the same header;    *)
(* and no valid datagram is refused by a length check (UdpPayload).        *)
HeadersReadRight ==
  \A i \in DOMAIN burst :
    StaysInside(burst[i]) /\ FilterSeesPort(burst[i]) /\ RefusesNoValidPacket(burst[i])

(* What process_itch_payload owes a payload: the whole blocks before the   *)
(* first that is empty or cut off, or else the payload as one message.     *)
WholeBlocks(pl) ==
  {k \in 0 .. Min({pl.count, Len(pl.blocks)}) :
     \A j \in 1 .. k : pl.blocks[j].len # 0 /\ BlockEnds(pl.blocks)[j] <= pl.len}

Calls(pl) ==
  LET n == Max(WholeBlocks(pl))
  IN  IF pl.len < 20 \/ n = 0
      THEN <<[msg |-> pl.raw, len |-> pl.len]>>
      ELSE [i \in 1 .. n |-> [msg |-> pl.blocks[i].msg, len |-> pl.blocks[i].len]]

(* Each message of each accepted payload goes to process_message once and  *)
(* in order, whatever the framing claims and whatever runs beside it.      *)
EachBlockOnce ==
  LET owed == FlattenSeq([i \in DOMAIN heard |-> Calls(heard[i])])
  IN  /\ IsPrefix(log, owed)
      /\ stage \notin {"blocks", "raw"} => log = owed

\* Call x is a whole message of one of the types about the order.
Says(x, types, id) ==
  x.msg.type \in types /\ x.msg.id = id /\ x.len >= StructSize[x.msg.type]

Said(i, types, id) == Says(log[i], types, id)

Removals == {"E", "X", "D", "U"}

\* What the fields of a message say of an order of which open was left
\* before it; a repeated add says nothing new.
AfterCall(open, id, x) ==
  CASE Says(x, {"A"}, id) /\ open = Null -> x.msg.shares
    [] Says(x, {"E"}, id)                -> IF open = 0 THEN 0 ELSE Less(open, x.msg.shares)
    [] Says(x, {"X"}, id)                -> Less(open, x.msg.shares)
    [] Says(x, {"D", "U"}, id)           -> Null
    [] OTHER                             -> open

\* What is left of an order after a sequence of messages.
Replayed(calls, id) ==
  LET open[n \in 0 .. Len(calls)] ==
        IF n = 0 THEN Null ELSE AfterCall(open[n - 1], id, calls[n])
  IN  open[Len(calls)]

\* No message cancels less of the order than was added, or replaces another
\* order by it: of those the book keeps nothing, against the message's fields
\* (EventsTell).
Undisputed(calls, id) ==
  \A i \in DOMAIN calls :
    /\ Says(calls[i], {"X"}, id) =>
         \A j \in DOMAIN calls :
           Says(calls[j], {"A"}, id) => calls[j].msg.shares <= calls[i].msg.shares
    /\ Says(calls[i], {"U"}, calls[i].msg.id) => calls[i].msg.newId # id

(* The book is the messages heard, replayed in their order: what is open   *)
(* of an order is what their fields leave of it, however often and in      *)
(* whatever order the datagrams came, however they were framed, and        *)
(* whatever other orders did in between.                                   *)
BookReplaysLog ==
  ~spinning =>
    \A id \in Keys : Undisputed(log, id) => Rests(id, Replayed(log, id))

(* An order the sender still regards as live, and whose add was heard, is  *)
(* in the book, unless another host's message removed it: loss and         *)
(* reordering can leave the book too full, never too empty of those.  That *)
(* no other host cancels it is NoForeignCancel.                            *)
LiveOrdersRest ==
  ~spinning =>
    \A ref \in Range(live) :
      /\ \E i \in DOMAIN log : Said(i, {"A"}, ref)
      /\ \A i \in DOMAIN log : ~Said(i, Removals \ {"X"}, ref)
      => Opened(ref) # {}

\* The other hosts tell of no whole cancel of an order of the feed.
NoForeignCancel ==
  \A p \in Noise : \A i \in DOMAIN Calls(p.payload) : \A ref \in Refs :
    ~Says(Calls(p.payload)[i], {"X"}, ref)

Window == SubSeq(samples, windowFrom + 1, Len(samples))

(* lat_total describes all packets of the run, lat_window exactly those    *)
(* since the last report: each bucket, count, minimum, maximum and mean.   *)
HistogramsDescribeSamples ==
  Describes(latTotal, samples) /\ Describes(latWindow, Window)

(* main returns with no buffer held and no port running, by whichever of   *)
(* its two ways, and a port that was running is closed and its pool freed. *)
ExitReleases ==
  stage = "exit" =>
    /\ buffers = 0 /\ ~initialized /\ port # "started"
    /\ packetsReceived > 0 => port = "closed" /\ pools = 0

(* A signal ends the program, at whatever step it arrives, unless the      *)
(* thread is lost in a probe.                                              *)
StopsOnSignal == ~running ~> (stage = "exit" \/ spinning)

(* tools/itch_sender.py:111 says of the cap on live orders: "Cap at 50k so *)
(* FlatOrderMap (262k slots, 70% limit = 183k) never overflows."           *)
FeedNeverOverflows == ~spinning

=============================================================================
