------------------------- MODULE ReceivePipelineProofs -------------------------
(***************************************************************************)
(* The receiver's use of its NIC, for every feed, network, book, size and  *)
(* moment of the signal.  NicInv alone says nothing about main; InStage    *)
(* adds what main's place in the program says about the handler's state.   *)
(***************************************************************************)
EXTENDS ReceivePipeline, LatencyRecorder, DpdkPacketHandlerProofs, OrderBookProofs

WithPacket == {"packet", "blocks", "raw", "timed"}

InStage ==
  /\ stage \in WithPacket => Bursting
  /\ stage \in {"loop", "report"} => Idle /\ initialized
  /\ stage = "bring up" => Idle /\ port = "closed" /\ packetsReceived = 0
  /\ stage = "exit" => /\ Idle /\ ~initialized /\ port # "started"
                       /\ packetsReceived # 0 => port = "closed" /\ ~mbufPool

SentTyped == \E S : sent \in Seq(S)

ReceiverInv == NicInv /\ InStage /\ SentTyped

-----------------------------------------------------------------------------
\* Min of a pair is at most its first.
LEMMA MinOfTwo ==
  ASSUME NEW a \in Int, NEW b \in Int
  PROVE  Min({a, b}) \in Int /\ Min({a, b}) <= a
BY DEF Min

(* What the network has to offer fits into one receive call, whether it is *)
(* a perfect network or not.                                               *)
LEMMA OfferedTyped ==
  ASSUME NicInv, SentTyped, NEW pkts \in Offered
  PROVE  \E S : pkts \in Seq(S) /\ pkts # <<>> /\ Len(pkts) <= Burst
<1>1. CASE Lossless
  <2>1. Len(sent) - packetsReceived \in Int
    <3>1. PICK S : sent \in Seq(S)
      BY DEF SentTyped
    <3>2. Len(sent) \in Nat
      BY <3>1
    <3> QED
      BY <3>2 DEF NicInv, CountsTyped
  <2> DEFINE most == Min({Burst, Len(sent) - packetsReceived})
             frame(i) == Wire(Framed(sent[packetsReceived + i]))
  <2>2. most \in Int /\ most <= Burst
    BY <2>1, BurstTyped, MinOfTwo
  <2>3. PICK n \in 1 .. most : pkts = [i \in 1 .. n |-> frame(i)]
    BY <1>1 DEF Offered
  <2> HIDE DEF most, frame
  <2>4. n \in Nat /\ n # 0 /\ n <= Burst
    BY <2>2, <2>3, BurstTyped
  <2> DEFINE S == {frame(i) : i \in 1 .. n}
  <2>5. pkts \in Seq(S) /\ Len(pkts) = n
    BY <2>3, <2>4
  <2> QED
    BY <2>4, <2>5
<1>2. CASE ~Lossless
  <2> DEFINE S == {Wire(Framed(msgs)) : msgs \in Range(sent)} \cup Noise
  <2>1. pkts \in Bursts(S)
    BY <1>2 DEF Offered
  <2> HIDE DEF S
  <2> QED
    BY <2>1, BurstsTyped
<1> QED
  BY <1>1, <1>2

\* A step that leaves the NIC alone keeps what its variables say.
LEMMA NicUntouched == NicInv /\ UNCHANGED nicVars => NicInv'
BY NextKeeps

\* A step that sends nothing keeps the frames sent a sequence.
LEMMA SentUntouched == SentTyped /\ UNCHANGED feedVars => SentTyped'
BY DEF SentTyped, feedVars

(* A step of main that takes place between two calls of its handler.       *)
LEMMA BetweenCalls ==
  ASSUME ReceiverInv, UNCHANGED nicVars, UNCHANGED feedVars,
         \/ stage' = stage
         \/ stage \in WithPacket /\ stage' \in WithPacket
         \/ stage \in {"loop", "report"} /\ stage' \in {"loop", "report"}
  PROVE  ReceiverInv'
<1>1. NicInv' /\ SentTyped'
  BY NicUntouched, SentUntouched DEF ReceiverInv
<1>2. UNCHANGED <<initialized, port, mbufPool, packetsReceived, burst>>
  BY DEF nicVars
<1>3. InStage'
  BY <1>2 DEF ReceiverInv, InStage, Idle, Bursting, WithPacket
<1> QED
  BY <1>1, <1>3 DEF ReceiverInv

-----------------------------------------------------------------------------
\* ReceiverInv holds initially.
LEMMA PipelineInitHolds == PipelineInit => ReceiverInv
<1> SUFFICES ASSUME PipelineInit
             PROVE  ReceiverInv
  OBVIOUS
<1>1. NicInv
  BY InitHolds DEF PipelineInit
<1>2. SentTyped
  <2>1. sent = <<>>
    BY DEF PipelineInit, FeedInit
  <2>2. <<>> \in Seq({})
    OBVIOUS
  <2> QED
    BY <2>1, <2>2 DEF SentTyped
<1>3. InStage
  BY DEF PipelineInit, NicInit, InStage, Idle, Bursting, WithPacket
<1> QED
  BY <1>1, <1>2, <1>3 DEF ReceiverInv

\* Bringing the port up, or failing at any of its steps.
LEMMA BringUpKeeps == ReceiverInv /\ BringUp => ReceiverInv'
<1> SUFFICES ASSUME ReceiverInv, BringUp
             PROVE  ReceiverInv'
  OBVIOUS
<1>1. SentTyped'
  BY SentUntouched DEF BringUp, ReceiverInv
<1>2. CASE Goes("bring up", "loop") /\ InitSucceeds
  <2>1. NicInv'
    BY <1>2, InitSucceedsKeeps DEF ReceiverInv
  <2>2. burst' = <<>> /\ initialized'
    BY <1>2 DEF InitSucceeds, Idle, Bursting, burstVars
  <2>3. InStage'
    BY <1>2, <2>2 DEF Goes, InStage, Idle, Bursting, WithPacket
  <2> QED
    BY <1>1, <2>1, <2>3 DEF ReceiverInv
<1>3. CASE Goes("bring up", "exit") /\ \E k \in DOMAIN InitSteps : InitFails(k)
  <2>1. PICK k \in DOMAIN InitSteps : InitFails(k)
    BY <1>3
  <2>2. NicInv'
    BY <2>1, InitFailsKeeps DEF ReceiverInv
  <2>3. burst' = <<>> /\ ~initialized' /\ packetsReceived' = packetsReceived
    BY <2>1 DEF InitFails, Idle, Bursting, burstVars
  <2>4. packetsReceived = 0 /\ port = "closed"
    BY <1>3 DEF ReceiverInv, InStage, Goes
  <2>5. port' # "started"
    <3>1. Reached(k) /\ k \in 1 .. 7
      BY <2>1, SevenSteps DEF InitFails
    <3> QED
      BY <2>4, <3>1, SevenSteps DEF Reached
  <2>6. InStage'
    BY <1>3, <2>3, <2>4, <2>5 DEF Goes, InStage, Idle, Bursting, WithPacket
  <2> QED
    BY <1>1, <2>2, <2>6 DEF ReceiverInv
<1> QED
  BY <1>2, <1>3 DEF BringUp

\* Polling for a burst.
LEMMA PollPortKeeps == ReceiverInv /\ PollPort => ReceiverInv'
<1> SUFFICES ASSUME ReceiverInv, PollPort
             PROVE  ReceiverInv'
  OBVIOUS
<1>1. UNCHANGED feedVars
  BY DEF PollPort
<1>2. CASE Goes("loop", "packet") /\ \E pkts \in Offered : Poll(pkts, TRUE)
  <2>1. PICK pkts \in Offered : Poll(pkts, TRUE)
    BY <1>2
  <2>2. PICK S : pkts \in Seq(S) /\ pkts # <<>> /\ Len(pkts) <= Burst
    BY OfferedTyped DEF ReceiverInv
  <2>3. NicInv'
    BY <2>1, <2>2, PollKeeps DEF ReceiverInv
  <2>4. burst' # <<>>
    BY <2>1, <2>2 DEF Poll
  <2>5. InStage'
    BY <1>2, <2>4 DEF Goes, InStage, Bursting, WithPacket
  <2> QED
    BY <1>1, <2>3, <2>5, SentUntouched DEF ReceiverInv
<1>3. CASE Goes("loop", "report") /\ UNCHANGED nicVars
  BY <1>1, <1>3, BetweenCalls DEF Goes
<1> QED
  BY <1>2, <1>3 DEF PollPort

(* The end of a packet's turn: the next one of the burst, or none.         *)
LEMMA TurnEnds ==
  ASSUME ReceiverInv, FinishPacket, stage \in WithPacket, stage' = NextPacket,
         UNCHANGED feedVars
  PROVE  ReceiverInv'
<1>1. NicInv'
  BY FinishPacketKeeps DEF ReceiverInv
<1>2. SentTyped'
  BY SentUntouched DEF ReceiverInv
<1> PICK S : burst \in Seq(S)
  BY DEF ReceiverInv, NicInv, BurstFits
<1>3. burst # <<>> /\ burst' = Tail(burst)
  BY DEF FinishPacket, Bursting
<1>4. initialized /\ initialized' = initialized
  BY <1>3 DEF FinishPacket, ReceiverInv, NicInv, PollsOnlyReadyPort, Bursting, lifeVars
<1>5. CASE Len(burst) = 1
  <2>1. stage' = "report" /\ burst' = <<>>
    BY <1>3, <1>5 DEF NextPacket
  <2> QED
    BY <1>1, <1>2, <1>4, <2>1 DEF ReceiverInv, InStage, Idle, Bursting, WithPacket
<1>6. CASE Len(burst) # 1
  <2>1. stage' = "packet" /\ Len(burst') # 0
    BY <1>3, <1>6 DEF NextPacket
  <2>2. burst' # <<>>
    BY <2>1
  <2> QED
    BY <1>1, <1>2, <2>1, <2>2 DEF ReceiverInv, InStage, Bursting, WithPacket
<1> QED
  BY <1>5, <1>6

\* Leaving the loop after a signal.
LEMMA LeaveLoopKeeps == ReceiverInv /\ LeaveLoop => ReceiverInv'
<1> SUFFICES ASSUME ReceiverInv, LeaveLoop
             PROVE  ReceiverInv'
  OBVIOUS
<1>1. NicInv' /\ SentTyped'
  BY ShutdownKeeps, SentUntouched DEF LeaveLoop, ReceiverInv
<1>2. stage' = "exit" /\ initialized /\ burst = <<>>
  BY DEF LeaveLoop, Goes, ReceiverInv, InStage, Idle, Bursting
<1>3. port' = "closed" /\ ~initialized' /\ ~mbufPool' /\ burst' = <<>>
  BY <1>2 DEF LeaveLoop, Shutdown, burstVars
<1>4. InStage'
  BY <1>2, <1>3 DEF InStage, Idle, Bursting, WithPacket
<1> QED
  BY <1>1, <1>4 DEF ReceiverInv

\* Any other application.
LEMMA OtherApplicationKeeps == ReceiverInv /\ OtherApplication => ReceiverInv'
<1> SUFFICES ASSUME ReceiverInv, OtherApplication
             PROVE  ReceiverInv'
  OBVIOUS
<1>1. stage' = "other application" /\ SentTyped'
  BY SentUntouched DEF OtherApplication, mainVars, ReceiverInv
<1>2. InStage'
  BY <1>1 DEF InStage, WithPacket
<1>3. ASSUME NEW k \in DOMAIN InitSteps, InitFails(k)
      PROVE  NicInv'
  BY <1>3, InitFailsKeeps DEF ReceiverInv
<1>4. InitSucceeds => NicInv'
  BY InitSucceedsKeeps DEF ReceiverInv
<1>5. RegisterCallback => NicInv'
  BY RegisterCallbackKeeps DEF ReceiverInv
<1>6. ASSUME NEW pkts \in Bursts(Noise), NEW given \in BOOLEAN, Poll(pkts, given)
      PROVE  NicInv'
  BY <1>6, PollKeeps, BurstsTyped DEF ReceiverInv
<1>7. FinishPacket => NicInv'
  BY FinishPacketKeeps DEF ReceiverInv
<1>8. Shutdown => NicInv'
  BY ShutdownKeeps DEF ReceiverInv
<1> QED
  BY <1>1, <1>2, <1>3, <1>4, <1>5, <1>6, <1>7, <1>8 DEF OtherApplication, ReceiverInv

(* The feed only ever appends to what it has sent.                         *)
LEMMA FeedKeeps == ReceiverInv /\ Feed => ReceiverInv'
<1> SUFFICES ASSUME ReceiverInv, Feed
             PROVE  ReceiverInv'
  OBVIOUS
<1> PICK S : sent \in Seq(S)
  BY DEF ReceiverInv, SentTyped
<1>1. sent' = sent \/ sent' = Append(sent, batch)
  BY DEF Feed, FeedNext, GenerateAdd, GenerateCancel, GenerateTrade, SendFrame, Generates
<1>2. sent \in Seq(S \cup {batch}) /\ Append(sent, batch) \in Seq(S \cup {batch})
  OBVIOUS
<1>3. SentTyped'
  BY <1>1, <1>2 DEF SentTyped
<1>4. UNCHANGED nicVars /\ stage' = stage
  BY DEF Feed, mainVars
<1>5. NicInv' /\ InStage'
  BY <1>4, NicUntouched DEF ReceiverInv, InStage, Idle, Bursting, nicVars
<1> QED
  BY <1>3, <1>5 DEF ReceiverInv

\* Every step keeps ReceiverInv.
LEMMA PipelineNextKeeps == ReceiverInv /\ [PipelineNext]_vars => ReceiverInv'
<1> SUFFICES ASSUME ReceiverInv, [PipelineNext]_vars
             PROVE  ReceiverInv'
  OBVIOUS
<1>1. CASE BringUp
  BY <1>1, BringUpKeeps
<1>2. CASE PollPort
  BY <1>2, PollPortKeeps
<1>3. CASE SkipPacket
  BY <1>3, TurnEnds DEF SkipPacket, Goes, WithPacket
<1>4. CASE AcceptPacket \/ ParseBlock \/ EndBlocks \/ FallBack
  <2>1. stage \in WithPacket /\ stage' \in WithPacket
    BY <1>4 DEF AcceptPacket, ParseBlock, EndBlocks, FallBack, Goes, WithPacket
  <2>2. UNCHANGED nicVars /\ UNCHANGED feedVars
    BY <1>4 DEF AcceptPacket, ParseBlock, EndBlocks, FallBack
  <2> QED
    BY <2>1, <2>2, BetweenCalls
<1>5. ASSUME NEW cycles \in Cycles, Record(cycles)
      PROVE  ReceiverInv'
  BY <1>5, TurnEnds DEF Record, Goes, WithPacket
<1>6. CASE Report
  <2>1. stage \in {"loop", "report"} /\ stage' \in {"loop", "report"}
    BY <1>6 DEF Report, Goes
  <2>2. UNCHANGED nicVars /\ UNCHANGED feedVars
    BY <1>6 DEF Report
  <2> QED
    BY <2>1, <2>2, BetweenCalls
<1>7. CASE LeaveLoop
  BY <1>7, LeaveLoopKeeps
<1>8. CASE Signal
  BY <1>8, BetweenCalls DEF Signal, mainVars
<1>9. CASE Feed
  BY <1>9, FeedKeeps
<1>10. CASE OtherApplication
  BY <1>10, OtherApplicationKeeps
<1>11. CASE Stopped \/ UNCHANGED vars
  BY <1>11, BetweenCalls DEF Stopped, vars, mainVars
<1> QED
  BY <1>1, <1>2, <1>3, <1>4, <1>5, <1>6, <1>7, <1>8, <1>9, <1>10, <1>11
  DEF PipelineNext, Main

\* It holds always.
LEMMA ReceiverInvHolds == PipelineSpec => []ReceiverInv
BY PipelineInitHolds, PipelineNextKeeps, PTL DEF PipelineSpec

-----------------------------------------------------------------------------
(* However main ends, after an init that failed or a signal at any step,   *)
(* it holds no buffer and leaves no port running; a port that ran is       *)
(* closed and its pool freed.                                              *)
THEOREM ExitAlwaysReleases == PipelineSpec => []ExitReleases
<1>1. ASSUME ReceiverInv, stage = "exit"
      PROVE  /\ buffers = 0 /\ ~initialized /\ port # "started"
             /\ packetsReceived > 0 => port = "closed" /\ pools = 0
  <2>1. burst = <<>> /\ ~initialized /\ port # "started"
    BY <1>1 DEF ReceiverInv, InStage, Idle, Bursting
  <2>2. buffers = 0
    BY <1>1, <2>1 DEF ReceiverInv, NicInv, BuffersReturned
  <2>3. ASSUME packetsReceived > 0
        PROVE  port = "closed" /\ pools = 0
    <3>1. packetsReceived # 0
      BY <1>1, <2>3 DEF ReceiverInv, NicInv, CountsTyped
    <3> QED
      BY <1>1, <3>1 DEF ReceiverInv, InStage, NicInv, PoolCounted
  <2> QED
    BY <2>1, <2>2, <2>3
<1>2. ReceiverInv => ExitReleases
  BY <1>1 DEF ExitReleases
<1> QED
  BY <1>2, ReceiverInvHolds, PTL

(* The whole receiver, with whatever else its main does between two calls, *)
(* keeps what DpdkPacketHandler promises to a caller in general.           *)
THEOREM ReceiverKeepsHandler ==
  PipelineSpec => [](PollsOnlyReadyPort /\ PoolOwned /\ BuffersReturned /\ CountersAgree)
<1>1. ReceiverInv => PollsOnlyReadyPort /\ PoolOwned /\ BuffersReturned /\ CountersAgree
  BY NicInvOwns DEF ReceiverInv, NicInv
<1> QED
  BY <1>1, ReceiverInvHolds, PTL

-----------------------------------------------------------------------------
(***************************************************************************)
(* The offsets at which the blocks of a payload end.                       *)
(***************************************************************************)
EndsOf(f, blocks) ==
  f = [k \in 0 .. Len(blocks) |-> IF k = 0 THEN 20 ELSE f[k - 1] + 2 + blocks[k].len]

Blocks == Seq([len : Word16, msg : Messages])

\* Word16 without the value of its bound, which costs the provers much.
LEMMA WordsAre == Modulus16 \in Nat /\ Word16 = 0 .. Modulus16 - 1
<1>1. Modulus16 \in Nat
  BY DEF Modulus16
<1> QED
  BY <1>1 DEF Word16

\* The length, the domain and the elements of a sequence.
LEMMA SeqTyped ==
  ASSUME NEW S, NEW s \in Seq(S)
  PROVE  /\ Len(s) \in Nat /\ DOMAIN s = 1 .. Len(s)
         /\ \A k \in 1 .. Len(s) : s[k] \in S
OBVIOUS

\* What is known of the blocks of a payload.
LEMMA BlocksTyped ==
  ASSUME NEW blocks \in Blocks
  PROVE  /\ Len(blocks) \in Nat /\ DOMAIN blocks = 1 .. Len(blocks)
         /\ \A k \in 1 .. Len(blocks) : /\ blocks[k] \in [len : Word16, msg : Messages]
                                       /\ blocks[k].len \in Nat
<1>1. /\ Len(blocks) \in Nat /\ DOMAIN blocks = 1 .. Len(blocks)
      /\ \A k \in 1 .. Len(blocks) : blocks[k] \in [len : Word16, msg : Messages]
  BY SeqTyped DEF Blocks
<1>2. Word16 \subseteq Nat
  BY DEF Word16, Modulus16
<1>3. \A b \in [len : Word16, msg : Messages] : b.len \in Nat
  BY ONLY <1>2
<1> QED
  BY <1>1, <1>3

\* Such a function exists, block by block.
LEMMA EndsExist ==
  ASSUME NEW blocks \in Blocks
  PROVE  \E f : EndsOf(f, blocks) /\ f \in [0 .. Len(blocks) -> Nat]
<1> DEFINE N == Len(blocks)
           Upto(f, n) == f = [k \in 0 .. n |-> IF k = 0 THEN 20 ELSE f[k - 1] + 2 + blocks[k].len]
           S == {n \in Nat : n <= N => \E f \in [0 .. n -> Nat] : Upto(f, n)}
<1>1. N \in Nat /\ \A k \in 1 .. N : blocks[k].len \in Nat
  BY BlocksTyped
<1> HIDE DEF N
<1>2. 0 \in S
  <2> DEFINE f == [k \in 0 .. 0 |-> 20]
  <2>1. f \in [0 .. 0 -> Nat] /\ Upto(f, 0)
    OBVIOUS
  <2> QED
    BY <2>1
<1>3. ASSUME NEW n \in Nat, n \in S
      PROVE  n + 1 \in S
  <2>0. n + 1 \in Nat
    OBVIOUS
  <2> SUFFICES ASSUME n + 1 <= N
               PROVE  \E f \in [0 .. n + 1 -> Nat] : Upto(f, n + 1)
    BY <2>0, Zenon
  <2>1. PICK f \in [0 .. n -> Nat] : Upto(f, n)
    <3>1. n <= N
      BY <1>1
    <3>2. n <= N => \E f \in [0 .. n -> Nat] : Upto(f, n)
      BY <1>3, Zenon
    <3> QED
      BY <3>1, <3>2, Zenon
  <2> DEFINE g == [k \in 0 .. n + 1 |-> IF k = n + 1 THEN f[n] + 2 + blocks[n + 1].len ELSE f[k]]
  <2>2. blocks[n + 1].len \in Nat /\ f[n] \in Nat
    BY <1>1
  <2>3. g \in [0 .. n + 1 -> Nat]
    BY <2>2
  <2>4. ASSUME NEW k \in 0 .. n + 1
        PROVE  g[k] = IF k = 0 THEN 20 ELSE g[k - 1] + 2 + blocks[k].len
    <3>1. CASE k = n + 1
      BY <3>1
    <3>2. CASE k # n + 1
      <4>1. k \in 0 .. n /\ f[k] = IF k = 0 THEN 20 ELSE f[k - 1] + 2 + blocks[k].len
        BY <2>1, <3>2
      <4> QED
        BY <3>2, <4>1
    <3> QED
      BY <3>1, <3>2
  <2>5. Upto(g, n + 1)
    BY <2>4
  <2> QED
    BY <2>3, <2>5
<1>4. N \in S
  <2> HIDE DEF S
  <2>1. Nat \subseteq S
    BY <1>2, <1>3, InductionOnNat
  <2> QED
    BY <1>1, <2>1
<1> QED
  BY <1>1, <1>4 DEF EndsOf, N

\* The first block starts behind the header, each next one behind its
\* predecessor.
LEMMA BlockEndsIs ==
  ASSUME NEW blocks \in Blocks
  PROVE  /\ BlockEnds(blocks) \in [0 .. Len(blocks) -> Nat]
         /\ BlockEnds(blocks)[0] = 20
         /\ \A k \in 1 .. Len(blocks) :
              BlockEnds(blocks)[k] = BlockEnds(blocks)[k - 1] + 2 + blocks[k].len
<1> DEFINE end[k \in 0 .. Len(blocks)] ==
             IF k = 0 THEN 20 ELSE end[k - 1] + 2 + blocks[k].len
<1>1. end = CHOOSE f : EndsOf(f, blocks)
  BY Zenon DEF EndsOf
<1>2. BlockEnds(blocks) = end
  BY Zenon DEF BlockEnds
<1> HIDE DEF end
<1>3. EndsOf(end, blocks)
  BY <1>1, EndsExist, Zenon
<1>4. PICK f : EndsOf(f, blocks) /\ f \in [0 .. Len(blocks) -> Nat]
  BY EndsExist
<1>5. Len(blocks) \in Nat
  BY DEF Blocks
<1> DEFINE S == {n \in Nat : n <= Len(blocks) => end[n] \in Nat}
<1>6. \A k \in 0 .. Len(blocks) : end[k] = IF k = 0 THEN 20 ELSE end[k - 1] + 2 + blocks[k].len
  BY <1>3 DEF EndsOf
<1>7. \A k \in 1 .. Len(blocks) : blocks[k].len \in Nat
  BY BlocksTyped
<1>8. Nat \subseteq S
  <2>1. 0 \in S
    BY <1>5, <1>6
  <2>2. ASSUME NEW n \in Nat, n \in S
        PROVE  n + 1 \in S
    <3> SUFFICES ASSUME n + 1 <= Len(blocks)
                 PROVE  end[n + 1] \in Nat
      OBVIOUS
    <3>1. n + 1 \in 0 .. Len(blocks) /\ n + 1 \in 1 .. Len(blocks) /\ end[n] \in Nat /\ (n + 1) - 1 = n
      BY <1>5, <2>2
    <3> QED
      BY <1>6, <1>7, <3>1
  <2> HIDE DEF S
  <2> QED
    BY <2>1, <2>2, InductionOnNat
<1>9. \A k \in 0 .. Len(blocks) : end[k] \in Nat
  BY <1>5, <1>8
<1>10. end = [k \in 0 .. Len(blocks) |-> end[k]]
  <2>1. end = [k \in 0 .. Len(blocks) |-> IF k = 0 THEN 20 ELSE end[k - 1] + 2 + blocks[k].len]
    BY <1>3 DEF EndsOf
  <2> QED
    BY <2>1
<1>11. end \in [0 .. Len(blocks) -> Nat]
  BY <1>9, <1>10
<1> QED
  BY <1>2, <1>5, <1>6, <1>11

-----------------------------------------------------------------------------
(***************************************************************************)
(* The sender's frames are packets like any other.                         *)
(***************************************************************************)
FeedMessage == [type : {"A", "X", "P"}, id : Refs]

FeedFrame == {msgs \in Seq(FeedMessage) : Len(msgs) <= Batch}

WrittenOut(m) == Written(m.type, m.id)

BlocksOf(msgs) ==
  [i \in DOMAIN msgs |-> [len |-> StructSize[msgs[i].type], msg |-> WrittenOut(msgs[i])]]

\* What the assumptions say of the order references.
LEMMA RefsAreKeys == Refs \subseteq Keys /\ 1 \in Keys /\ Refs \subseteq Announced /\ Refs \subseteq Nat
BY RefsAssumption, AnnouncedAssumption

\* The terms of an order.
LEMMA TermsTyped ==
  ASSUME NEW id \in Keys
  PROVE  /\ Terms[id].side \in Sides /\ Terms[id].price \in Prices
         /\ Terms[id].shares \in Quantities
<1>1. Terms[id] \in [side : Sides, price : Prices, shares : Quantities \ {0}]
  BY TermsAssumption
<1>2. Terms[id].side \in Sides /\ Terms[id].price \in Prices /\ Terms[id].shares \in Quantities \ {0}
  BY ONLY <1>1
<1> QED
  BY ONLY <1>2

\* The fields of a message that the sender writes.
LEMMA WrittenTyped ==
  ASSUME NEW type \in DOMAIN StructSize \cup {"S"}, NEW id \in Keys
  PROVE  Written(type, id) \in Messages /\ Written(type, id).type = type /\ Written(type, id).id = id
<1> PICK shares \in Quantities : shares = Terms[id].shares
  BY TermsTyped
<1>1. Written(type, id) = [type |-> type, id |-> id, newId |-> id, shares |-> shares]
  BY DEF Written
<1>2. Written(type, id) \in [type : DOMAIN StructSize \cup {"S"}, id : Keys, newId : Keys,
                            shares : Quantities]
  BY ONLY <1>1, type \in DOMAIN StructSize \cup {"S"}, id \in Keys, shares \in Quantities
<1>3. Written(type, id).type = type /\ Written(type, id).id = id
  BY ONLY <1>1
<1> QED
  BY ONLY <1>2, <1>3 DEF Messages

\* A message the sender makes is one of the receiver, its size a nonzero word.
LEMMA FeedMessageTyped ==
  ASSUME NEW m \in FeedMessage
  PROVE  /\ WrittenOut(m) \in Messages /\ m.id \in Announced /\ m.type # "S"
         /\ WrittenOut(m).type = m.type /\ WrittenOut(m).id = m.id
         /\ StructSize[m.type] \in Word16 /\ StructSize[m.type] <= 42 /\ StructSize[m.type] # 0
<1>1. m.type \in {"A", "X", "P"} /\ m.id \in Refs /\ m = [type |-> m.type, id |-> m.id]
  BY DEF FeedMessage
<1>2. StructSize["A"] = 41 /\ StructSize["X"] = 20 /\ StructSize["P"] = 42
  BY DEF StructSize
<1>3. {"A", "X", "P"} \subseteq DOMAIN StructSize
  BY DEF StructSize
<1>4. WrittenOut(m) \in Messages /\ WrittenOut(m).type = m.type /\ WrittenOut(m).id = m.id
  BY <1>1, <1>3, RefsAreKeys, WrittenTyped DEF WrittenOut
<1>5. 41 \in Word16 /\ 20 \in Word16 /\ 42 \in Word16
  BY DEF Word16, Modulus16
<1> QED
  BY <1>1, <1>2, <1>4, <1>5, RefsAreKeys

\* A block for each message, of at most 44 bytes with its length.
LEMMA BlocksOfTyped ==
  ASSUME NEW msgs \in Seq(FeedMessage)
  PROVE  /\ BlocksOf(msgs) \in Blocks /\ Len(BlocksOf(msgs)) = Len(msgs)
         /\ \A k \in 1 .. Len(msgs) : /\ BlocksOf(msgs)[k].msg = WrittenOut(msgs[k])
                                      /\ BlocksOf(msgs)[k].len = StructSize[msgs[k].type]
                                      /\ BlocksOf(msgs)[k].len <= 42
<1>1. Len(msgs) \in Nat /\ DOMAIN msgs = 1 .. Len(msgs)
      /\ \A k \in 1 .. Len(msgs) : msgs[k] \in FeedMessage
  BY SeqTyped
<1>2. \A k \in 1 .. Len(msgs) :
        /\ BlocksOf(msgs)[k] = [len |-> StructSize[msgs[k].type], msg |-> WrittenOut(msgs[k])]
        /\ BlocksOf(msgs)[k] \in [len : Word16, msg : Messages]
  BY <1>1, FeedMessageTyped DEF BlocksOf
<1>3. BlocksOf(msgs) = [k \in 1 .. Len(msgs) |-> BlocksOf(msgs)[k]]
  BY <1>1 DEF BlocksOf
<1>4. BlocksOf(msgs) \in Seq([len : Word16, msg : Messages]) /\ Len(BlocksOf(msgs)) = Len(msgs)
  <2> DEFINE B == [len : Word16, msg : Messages]
             b == BlocksOf(msgs)
  <2>1. \A k \in 1 .. Len(msgs) : b[k] \in B
    BY <1>2, Zenon DEF B
  <2>2. b = [k \in 1 .. Len(msgs) |-> b[k]]
    BY <1>3, Zenon
  <2> HIDE DEF B, b
  <2>3. b \in Seq(B) /\ Len(b) = Len(msgs)
    BY <1>1, <2>1, <2>2
  <2> QED
    BY <2>3 DEF B, b
<1>5. \A k \in 1 .. Len(msgs) : /\ BlocksOf(msgs)[k].msg = WrittenOut(msgs[k])
                                /\ BlocksOf(msgs)[k].len = StructSize[msgs[k].type]
  <2> SUFFICES ASSUME NEW k \in 1 .. Len(msgs)
               PROVE  /\ BlocksOf(msgs)[k].msg = WrittenOut(msgs[k])
                      /\ BlocksOf(msgs)[k].len = StructSize[msgs[k].type]
    OBVIOUS
  <2>1. BlocksOf(msgs)[k] = [len |-> StructSize[msgs[k].type], msg |-> WrittenOut(msgs[k])]
    BY <1>2, Zenon
  <2> QED
    BY ONLY <2>1
<1>6. \A k \in 1 .. Len(msgs) : StructSize[msgs[k].type] <= 42
  BY <1>1, FeedMessageTyped
<1> QED
  BY <1>4, <1>5, <1>6 DEF Blocks

\* k blocks of at most 42 bytes end within 44 * k bytes of the header.
LEMMA EndsBounded ==
  ASSUME NEW blocks \in Blocks, \A k \in 1 .. Len(blocks) : blocks[k].len <= 42
  PROVE  \A k \in 0 .. Len(blocks) : BlockEnds(blocks)[k] <= 20 + 44 * k
<1> DEFINE ends == BlockEnds(blocks)
           N == Len(blocks)
           S == {n \in Nat : n <= N => ends[n] <= 20 + 44 * n}
<1>1. /\ ends \in [0 .. N -> Nat] /\ ends[0] = 20 /\ N \in Nat
      /\ \A k \in 1 .. N : ends[k] = ends[k - 1] + 2 + blocks[k].len /\ blocks[k].len \in Nat
                           /\ blocks[k].len <= 42
  BY BlockEndsIs, BlocksTyped
<1> HIDE DEF ends, N
<1>2. 0 \in S
  BY <1>1
<1>3. ASSUME NEW n \in Nat, n \in S
      PROVE  n + 1 \in S
  <2> SUFFICES ASSUME n + 1 <= N
               PROVE  ends[n + 1] <= 20 + 44 * (n + 1)
    OBVIOUS
  <2>1. n \in 0 .. N /\ n + 1 \in 1 .. N /\ (n + 1) - 1 = n /\ ends[n] <= 20 + 44 * n
    BY <1>1, <1>3
  <2>2. ends[n + 1] = ends[n] + 2 + blocks[n + 1].len /\ blocks[n + 1].len <= 42
        /\ blocks[n + 1].len \in Nat /\ ends[n] \in Nat
    BY <1>1, <2>1
  <2> QED
    BY <2>1, <2>2
<1>4. Nat \subseteq S
  <2> HIDE DEF S
  <2> QED
    BY <1>2, <1>3, InductionOnNat
<1> QED
  BY <1>1, <1>4 DEF ends, N

\* Framed with the blocks named.
LEMMA FramedIs ==
  ASSUME NEW msgs
  PROVE  Framed(msgs) = [len    |-> BlockEnds(BlocksOf(msgs))[Len(msgs)],
                         count  |-> Len(msgs),
                         blocks |-> BlocksOf(msgs),
                         raw    |-> Written("S", 1)]
BY DEF Framed, BlocksOf, WrittenOut

\* What the receiver is told of a payload.
GoodPayload == {pl \in Payloads : BlocksComplete(pl) /\ AddsAnnounced(pl)}

\* The fields of a payload.
LEMMA PayloadTyped ==
  ASSUME NEW pl \in Payloads
  PROVE  /\ pl.len \in Nat /\ pl.len < Modulus16 /\ pl.count \in Nat /\ pl.blocks \in Blocks
         /\ pl.raw \in Messages
<1>1. pl \in [len : Word16, count : Word16, blocks : Blocks, raw : Messages]
  BY ONLY pl \in Payloads DEF Payloads, Blocks
<1>2. pl.len \in Word16 /\ pl.count \in Word16 /\ pl.blocks \in Blocks /\ pl.raw \in Messages
  BY ONLY <1>1
<1> QED
  BY ONLY <1>2, WordsAre

\* build_moldudp64_frame makes a payload whose blocks are all there and short.
LEMMA FramedGood ==
  ASSUME NEW msgs \in FeedFrame
  PROVE  Framed(msgs) \in GoodPayload /\ Framed(msgs).len <= 20 + 44 * Batch
<1> DEFINE n == Len(msgs)
           b == BlocksOf(msgs)
           e == BlockEnds(b)[n]
           pl == Framed(msgs)
<1>1. /\ msgs \in Seq(FeedMessage) /\ n \in Nat /\ n <= Batch
      /\ b \in Blocks /\ Len(b) = n
      /\ \A k \in 1 .. n : b[k].msg = WrittenOut(msgs[k]) /\ b[k].len <= 42 /\ msgs[k] \in FeedMessage
  BY BlocksOfTyped, SeqTyped DEF FeedFrame
<1>2. pl.len = e /\ pl.count = n /\ pl.blocks = b /\ pl.raw = Written("S", 1)
      /\ pl = [len |-> e, count |-> n, blocks |-> b, raw |-> Written("S", 1)]
  BY FramedIs
<1> HIDE DEF n, b, pl
<1>3. e \in Nat /\ e <= 20 + 44 * n
  BY <1>1, BlockEndsIs, EndsBounded
<1> HIDE DEF e
<1>4. e <= 20 + 44 * Batch /\ e \in Word16 /\ n \in Word16
  BY <1>1, <1>3, FramesAssumption, BatchAssumption, WordsAre
<1>5. Written("S", 1) \in Messages /\ Written("S", 1).type = "S"
  BY RefsAreKeys, WrittenTyped
<1>6. pl \in Payloads
  <2>1. pl \in [len : Word16, count : Word16, blocks : Blocks, raw : Messages]
    BY ONLY <1>1, <1>2, <1>4, <1>5
  <2> QED
    BY ONLY <2>1 DEF Payloads, Blocks
<1>7. BlocksComplete(pl)
  BY <1>1, <1>2 DEF BlocksComplete
<1>8. AddsAnnounced(pl)
  <2>1. DOMAIN b = 1 .. n
    BY <1>1, BlocksTyped
  <2>2. ASSUME NEW k \in DOMAIN pl.blocks
        PROVE  pl.blocks[k].msg.id \in Announced
    BY <1>1, <1>2, <2>1, FeedMessageTyped
  <2> QED
    BY <1>2, <1>5, <2>2 DEF AddsAnnounced
<1> QED
  BY <1>2, <1>4, <1>6, <1>7, <1>8 DEF GoodPayload, pl

\* A frame as the stack sends it tells the truth about its lengths.
LEMMA FrameWellFormed ==
  ASSUME NEW msgs \in FeedFrame
  PROVE  WellFormed(Wire(Framed(msgs))) /\ Wire(Framed(msgs)).payload = Framed(msgs)
<1> DEFINE pl == Framed(msgs)
           p == Wire(pl)
<1>1. pl \in GoodPayload /\ pl.len <= 20 + 44 * Batch
  BY FramedGood
<1> HIDE DEF pl
<1>2. p.len = 42 + pl.len /\ p.udpLen = 8 + pl.len /\ p.ihl = 5 /\ p.payload = pl
  BY DEF Wire
<1> HIDE DEF p
<1>3. pl.len \in Nat
  BY <1>1, PayloadTyped DEF GoodPayload
<1>4. HasLengths(p)
  <2>1. 42 + pl.len < Modulus16
    BY <1>1, <1>3, FramesAssumption, BatchAssumption, WordsAre
  <2> QED
    BY <1>2, <1>3, <2>1, WordsAre DEF HasLengths
<1>5. WellFormed(p)
  BY <1>1, <1>2, <1>4 DEF WellFormed, GoodPayload
<1> QED
  BY <1>2, <1>5 DEF p, pl

-----------------------------------------------------------------------------
(***************************************************************************)
(* What the feed sends and the port delivers.                              *)
(***************************************************************************)
FeedTyped == live \in Seq(Refs) /\ batch \in FeedFrame /\ sent \in Seq(FeedFrame)

\* The packets that may arrive by now.
Arrivals(frames) == {Wire(Framed(msgs)) : msgs \in Range(frames)} \cup Noise

FedInv == FeedTyped /\ burst \in Seq(Arrivals(sent))

\* All that can arrive is well formed, whoever sent it.
LEMMA ArrivalGood ==
  ASSUME NEW frames \in Seq(FeedFrame), NEW p \in Arrivals(frames)
  PROVE  WellFormed(p)
<1>1. CASE p \in Noise
  BY <1>1, NoiseAssumption
<1>2. CASE p \notin Noise
  <2>1. PICK msgs \in Range(frames) : p = Wire(Framed(msgs))
    BY <1>2 DEF Arrivals
  <2>2. msgs \in FeedFrame
    BY SeqTyped DEF Range
  <2> QED
    BY <2>1, <2>2, FrameWellFormed
<1> QED
  BY <1>1, <1>2

\* Both networks deliver only what was sent, or comes from other hosts.
LEMMA OfferedArrive ==
  ASSUME NicInv, NEW S, sent \in Seq(S), NEW pkts \in Offered
  PROVE  pkts \in Seq(Arrivals(sent))
<1>1. CASE Lossless
  <2> DEFINE most == Min({Burst, Len(sent) - packetsReceived})
             frame(i) == Wire(Framed(sent[packetsReceived + i]))
  <2>1. packetsReceived \in Nat /\ Len(sent) \in Nat /\ DOMAIN sent = 1 .. Len(sent)
    BY SeqTyped DEF NicInv, CountsTyped
  <2>2. /\ Min({Len(sent) - packetsReceived, Burst}) \in Int
        /\ Min({Len(sent) - packetsReceived, Burst}) <= Len(sent) - packetsReceived
    <3>1. Len(sent) - packetsReceived \in Int /\ Burst \in Int
      BY <2>1, BurstTyped
    <3> QED
      BY ONLY <3>1, MinOfTwo
  <2>3. {Len(sent) - packetsReceived, Burst} = {Burst, Len(sent) - packetsReceived}
    OBVIOUS
  <2>4. most \in Int /\ most <= Len(sent) - packetsReceived
    BY ONLY <2>2, <2>3
  <2>5. PICK n \in 1 .. most : pkts = [i \in 1 .. n |-> frame(i)]
    BY <1>1 DEF Offered
  <2> HIDE DEF most
  <2>6. ASSUME NEW i \in 1 .. n
        PROVE  frame(i) \in Arrivals(sent)
    <3>1. packetsReceived + i \in DOMAIN sent
      BY <2>1, <2>4
    <3> QED
      BY <3>1 DEF Arrivals, Range
  <2> HIDE DEF frame
  <2> QED
    BY <2>4, <2>5, <2>6
<1>2. CASE ~Lossless
  <2> DEFINE T == Arrivals(sent)
  <2>1. pkts \in Bursts(T)
    BY <1>2, Zenon DEF Offered, Arrivals
  <2> HIDE DEF T
  <2>2. pkts \in Seq(T)
    BY <2>1, BurstsTyped
  <2> QED
    BY <2>2 DEF T
<1> QED
  BY <1>1, <1>2

\* A frame once sent may arrive at any later time.
LEMMA ArrivalsGrow ==
  ASSUME NEW frames, NEW S, frames \in Seq(S), NEW msgs
  PROVE  Arrivals(frames) \subseteq Arrivals(Append(frames, msgs))
<1>1. Range(frames) \subseteq Range(Append(frames, msgs))
  <2>1. SUFFICES ASSUME NEW i \in DOMAIN frames
                 PROVE  frames[i] \in Range(Append(frames, msgs))
    BY DEF Range
  <2>2. i \in DOMAIN Append(frames, msgs) /\ Append(frames, msgs)[i] = frames[i]
    OBVIOUS
  <2> QED
    BY <2>2 DEF Range
<1> QED
  BY <1>1 DEF Arrivals

\* The head and the tail of a sequence.
LEMMA TailSeq ==
  ASSUME NEW S, NEW s \in Seq(S), s # <<>>
  PROVE  Tail(s) \in Seq(S) /\ Head(s) = s[1] /\ Len(Tail(s)) = Len(s) - 1 /\ Len(s) > 0
         /\ \A i \in 1 .. Len(s) - 1 : Tail(s)[i] = s[i + 1]
BY HeadTailProperties

\* A sequence over a set is one over any larger set.
LEMMA SeqGrows ==
  ASSUME NEW S, NEW T, S \subseteq T, NEW s \in Seq(S)
  PROVE  s \in Seq(T)
BY SeqMonotonic

\* What a step does to the packets held and to the frames sent.
LEMMA BurstStep ==
  ASSUME NicInv, FeedTyped, burst \in Seq(Arrivals(sent)), [PipelineNext]_vars
  PROVE  /\ sent' = sent \/ (sent' = Append(sent, batch) /\ burst' = burst)
         /\ burst' \in Seq(Arrivals(sent))
<1> DEFINE K == Arrivals(sent)
<1>0. burst \in Seq(K)
  OBVIOUS
<1>f. ASSUME FinishPacket
      PROVE  burst' \in Seq(K)
  <2>1. burst # <<>> /\ burst' = Tail(burst)
    BY <1>f DEF FinishPacket, Bursting
  <2> HIDE DEF K
  <2> QED
    BY <1>0, <2>1, TailSeq
<1>p. ASSUME NEW pkts \in Offered, Poll(pkts, TRUE)
      PROVE  burst' \in Seq(K)
  BY <1>p, OfferedArrive DEF Poll, FeedTyped
<1>i. ASSUME NEW k, InitFails(k) \/ InitSucceeds
      PROVE  burst' \in Seq(K)
  BY <1>i, <1>0 DEF InitFails, InitSucceeds, burstVars
<1>n. UNCHANGED nicVars => burst' \in Seq(K)
  BY <1>0 DEF nicVars
<1>s. UNCHANGED feedVars => sent' = sent
  BY DEF feedVars
<1> HIDE DEF K
<1>1. CASE BringUp
  BY <1>1, <1>i, <1>s DEF BringUp, K
<1>2. CASE PollPort
  BY <1>2, <1>p, <1>n, <1>s DEF PollPort, K
<1>3. CASE SkipPacket
  BY <1>3, <1>f, <1>s DEF SkipPacket, K
<1>4. CASE AcceptPacket \/ ParseBlock \/ EndBlocks \/ FallBack \/ Report
  BY <1>4, <1>n, <1>s DEF AcceptPacket, ParseBlock, EndBlocks, FallBack, Report, K
<1>5. ASSUME NEW cycles \in Cycles, Record(cycles)
      PROVE  sent' = sent /\ burst' \in Seq(K)
  BY <1>5, <1>f, <1>s DEF Record
<1>6. CASE LeaveLoop
  BY <1>6, <1>0, <1>s DEF LeaveLoop, Shutdown, burstVars, K
<1>7. CASE Signal \/ Stopped \/ UNCHANGED vars
  BY <1>7, <1>n, <1>s DEF Signal, Stopped, vars, K
<1>8. CASE Feed
  <2>1. UNCHANGED nicVars /\ burst' = burst
    BY <1>8 DEF Feed, nicVars
  <2>2. sent' = sent \/ sent' = Append(sent, batch)
    BY <1>8 DEF Feed, FeedNext, GenerateAdd, GenerateCancel, GenerateTrade, SendFrame, Generates
  <2> QED
    BY <1>n, <2>1, <2>2 DEF K
<1>9. CASE OtherApplication
  <2>1. sent' = sent
    BY <1>9, <1>s DEF OtherApplication
  <2>2. ASSUME NEW pkts \in Bursts(Noise), NEW given \in BOOLEAN, Poll(pkts, given)
        PROVE  burst' \in Seq(K)
    <3>1. pkts \in Seq(Noise) /\ Noise \subseteq K /\ burst' = pkts
      BY <2>2, BurstsTyped DEF Poll, K, Arrivals
    <3> QED
      BY <3>1, SeqGrows
  <2>3. RegisterCallback \/ Shutdown => burst' \in Seq(K)
    BY <1>0 DEF RegisterCallback, Shutdown, burstVars
  <2> QED
    BY <1>9, <2>1, <2>2, <2>3, <1>f, <1>i DEF OtherApplication, K
<1> QED
  BY <1>1, <1>2, <1>3, <1>4, <1>5, <1>6, <1>7, <1>8, <1>9 DEF PipelineNext, Main, K

\* The elements of a sequence with one more.
LEMMA AppendSeq ==
  ASSUME NEW S, NEW s \in Seq(S), NEW x \in S
  PROVE  /\ Append(s, x) \in Seq(S) /\ Len(Append(s, x)) = Len(s) + 1
         /\ \A i \in 1 .. Len(s) : Append(s, x)[i] = s[i]
         /\ Append(s, x)[Len(s) + 1] = x
BY AppendProperties

\* The generator keeps to its own types, and to the size of a frame.
LEMMA FeedStepTyped ==
  ASSUME FeedTyped, FeedNext
  PROVE  FeedTyped'
<1>1. live \in Seq(Refs) /\ batch \in Seq(FeedMessage) /\ Len(batch) <= Batch
      /\ sent \in Seq(FeedFrame) /\ Len(batch) \in Nat
  BY DEF FeedTyped, FeedFrame
<1>2. ASSUME NEW type \in {"A", "X", "P"}, NEW ref \in Refs, Generates(type, ref)
      PROVE  batch' \in FeedFrame /\ sent' = sent
  <2>1. [type |-> type, id |-> ref] \in FeedMessage
    BY DEF FeedMessage
  <2>2. batch' = Append(batch, [type |-> type, id |-> ref]) /\ Len(batch) < Batch /\ sent' = sent
    BY <1>2 DEF Generates
  <2>3. batch' \in Seq(FeedMessage) /\ Len(batch') = Len(batch) + 1
    BY <1>1, <2>1, <2>2, AppendSeq
  <2> QED
    BY <1>1, <2>2, <2>3, BatchAssumption DEF FeedFrame
<1>3. \A i \in DOMAIN live : live[i] \in Refs
  BY <1>1
<1>4. CASE GenerateAdd
  <2>1. nextRef \in Refs /\ Generates("A", nextRef)
        /\ live' = IF Len(live) = LiveCap THEN Append(Tail(live), nextRef) ELSE Append(live, nextRef)
    BY <1>4 DEF GenerateAdd
  <2>2. live' \in Seq(Refs)
    <3>1. CASE Len(live) = LiveCap
      <4>1. live # <<>>
        BY <3>1, BatchAssumption
      <4>2. Tail(live) \in Seq(Refs)
        BY <1>1, <4>1, TailSeq
      <4> QED
        BY <2>1, <3>1, <4>2, AppendSeq
    <3>2. CASE Len(live) # LiveCap
      BY <1>1, <2>1, <3>2, AppendSeq
    <3> QED
      BY <3>1, <3>2
  <2> QED
    BY <1>1, <1>2, <2>1, <2>2 DEF FeedTyped
<1>5. CASE GenerateCancel
  <2>1. PICK i \in DOMAIN live : Generates("X", live[i]) /\ live' = RemoveAt(live, i)
    BY <1>5 DEF GenerateCancel
  <2> QED
    BY <1>1, <1>2, <1>3, <2>1, RemoveAtIs DEF FeedTyped
<1>6. CASE GenerateTrade
  BY <1>1, <1>2, <1>3, <1>6 DEF GenerateTrade, FeedTyped
<1>7. CASE SendFrame
  <2>1. sent' = Append(sent, batch) /\ batch' = <<>> /\ live' = live /\ batch \in FeedFrame
    BY <1>7 DEF SendFrame, FeedTyped
  <2>2. <<>> \in FeedFrame
    BY BatchAssumption DEF FeedFrame
  <2> QED
    BY <1>1, <2>1, <2>2, AppendSeq DEF FeedTyped
<1> QED
  BY <1>4, <1>5, <1>6, <1>7 DEF FeedNext

\* Every step keeps what the sender holds and has sent typed.
LEMMA FeedTypedKeeps ==
  ASSUME FeedTyped, [PipelineNext]_vars
  PROVE  FeedTyped'
<1>1. CASE Feed
  BY <1>1, FeedStepTyped DEF Feed
<1>2. CASE UNCHANGED feedVars
  BY <1>2 DEF FeedTyped, feedVars
<1>3. Feed \/ UNCHANGED feedVars
  BY DEF PipelineNext, Main, vars, BringUp, PollPort, SkipPacket, AcceptPacket, ParseBlock,
         EndBlocks, FallBack, Record, Report, LeaveLoop, Signal, OtherApplication, Stopped
<1> QED
  BY <1>1, <1>2, <1>3

\* Every step keeps the packets held among those that can arrive.
LEMMA FedKeeps ==
  ASSUME NicInv, FedInv, [PipelineNext]_vars
  PROVE  FedInv'
<1>1. FeedTyped' /\ sent \in Seq(FeedFrame)
  BY FeedTypedKeeps DEF FedInv, FeedTyped
<1>2. /\ sent' = sent \/ (sent' = Append(sent, batch) /\ burst' = burst)
      /\ burst' \in Seq(Arrivals(sent))
  BY BurstStep DEF FedInv
<1>3. Arrivals(sent) \subseteq Arrivals(sent')
  BY <1>1, <1>2, ArrivalsGrow
<1> QED
  BY <1>1, <1>2, <1>3, SeqGrows DEF FedInv

\* It holds initially.
LEMMA FedInit == PipelineInit => FedInv
<1> SUFFICES ASSUME PipelineInit
             PROVE  FedInv
  OBVIOUS
<1>1. live = <<>> /\ batch = <<>> /\ sent = <<>> /\ burst = <<>>
  BY DEF PipelineInit, FeedInit, NicInit
<1>2. <<>> \in FeedFrame
  BY BatchAssumption DEF FeedFrame
<1> QED
  BY <1>1, <1>2 DEF FedInv, FeedTyped

\* It holds always.
LEMMA FedInvHolds == PipelineSpec => [](ReceiverInv /\ FedInv)
<1>1. PipelineInit => ReceiverInv /\ FedInv
  BY PipelineInitHolds, FedInit
<1>2. ReceiverInv /\ FedInv /\ [PipelineNext]_vars => (ReceiverInv /\ FedInv)'
  BY PipelineNextKeeps, FedKeeps DEF ReceiverInv
<1> QED
  BY <1>1, <1>2, PTL DEF PipelineSpec

(* Of no packet the receiver holds is a byte read beyond its end, tagged,  *)
(* cut short or lying about its lengths as it may be; filter and           *)
(* extraction agree, and no valid datagram is refused.                     *)
THEOREM ReceiverReadsRight == PipelineSpec => []HeadersReadRight
<1>1. ReceiverInv /\ FedInv => HeadersReadRight
  <2> SUFFICES ASSUME FedInv, NEW i \in DOMAIN burst
               PROVE  /\ StaysInside(burst[i]) /\ FilterSeesPort(burst[i])
                      /\ RefusesNoValidPacket(burst[i])
    BY DEF HeadersReadRight
  <2>1. burst[i] \in Arrivals(sent) /\ sent \in Seq(FeedFrame)
    BY SeqTyped DEF FedInv, FeedTyped
  <2>2. HasLengths(burst[i])
    BY <2>1, ArrivalGood DEF WellFormed
  <2> QED
    BY <2>2, NeverReadsOutside, FilterAndPayloadAgree, NoValidPacketRefused
<1> QED
  BY <1>1, FedInvHolds, PTL

-----------------------------------------------------------------------------
(***************************************************************************)
(* FlattenSeq, one element more at a time.                                 *)
(***************************************************************************)
FlatOf(g, s) == g = [i \in 1 .. Len(s) |-> IF i = 1 THEN s[i] ELSE g[i - 1] \o s[i]]

\* The recursion of FlattenSeq, an element at a time.
LEMMA FlatAt ==
  ASSUME NEW g, NEW s, FlatOf(g, s), NEW i \in 1 .. Len(s)
  PROVE  g[i] = IF i = 1 THEN s[i] ELSE g[i - 1] \o s[i]
BY Zenon DEF FlatOf

\* There is a function that satisfies it.
LEMMA FlatExists ==
  ASSUME NEW T, NEW s \in Seq(Seq(T))
  PROVE  \E g : FlatOf(g, s) /\ g \in [1 .. Len(s) -> Seq(T)]
<1> DEFINE N == Len(s)
           Upto(g, n) == g = [i \in 1 .. n |-> IF i = 1 THEN s[i] ELSE g[i - 1] \o s[i]]
           S == {n \in Nat : n <= N => \E g \in [1 .. n -> Seq(T)] : Upto(g, n)}
<1>1. N \in Nat /\ \A i \in 1 .. N : s[i] \in Seq(T)
  BY SeqTyped
<1> HIDE DEF N
<1>2. 0 \in S
  <2> DEFINE g == [i \in 1 .. 0 |-> <<>>]
  <2>1. 1 .. 0 = {}
    OBVIOUS
  <2>2. g \in [1 .. 0 -> Seq(T)]
    BY <2>1, Zenon
  <2>3. Upto(g, 0)
    BY <2>1, Zenon
  <2> QED
    BY <2>2, <2>3
<1>3. ASSUME NEW n \in Nat, n \in S
      PROVE  n + 1 \in S
  <2>0. n + 1 \in Nat
    OBVIOUS
  <2> SUFFICES ASSUME n + 1 <= N
               PROVE  \E g \in [1 .. n + 1 -> Seq(T)] : Upto(g, n + 1)
    BY <2>0, Zenon
  <2>1. PICK f \in [1 .. n -> Seq(T)] : Upto(f, n)
    <3>1. n <= N
      BY <1>1
    <3>2. n <= N => \E g \in [1 .. n -> Seq(T)] : Upto(g, n)
      BY <1>3, Zenon
    <3> QED
      BY <3>1, <3>2, Zenon
  <2> DEFINE last == IF n = 0 THEN s[1] ELSE f[n] \o s[n + 1]
             g == [i \in 1 .. n + 1 |-> IF i = n + 1 THEN last ELSE f[i]]
  <2>2. last \in Seq(T)
    <3>1. s[n + 1] \in Seq(T)
      BY <1>1
    <3>2. CASE n = 0
      BY <3>1, <3>2
    <3>3. CASE n # 0
      <4>1. f[n] \in Seq(T)
        BY <3>3
      <4> QED
        BY <3>1, <3>3, <4>1, ConcatProperties
    <3> QED
      BY <3>2, <3>3
  <2>3. g \in [1 .. n + 1 -> Seq(T)]
    <3> HIDE DEF last
    <3> QED
      BY <2>2
  <2> HIDE DEF last
  <2>4. g = [i \in 1 .. n + 1 |-> g[i]]
    OBVIOUS
  <2>5. g[n + 1] = last /\ \A i \in 1 .. n : g[i] = f[i]
    OBVIOUS
  <2> HIDE DEF g
  <2>6. ASSUME NEW i \in 1 .. n + 1
        PROVE  g[i] = IF i = 1 THEN s[i] ELSE g[i - 1] \o s[i]
    <3>1. CASE i = n + 1 /\ n = 0
      <4>1. i = 1 /\ last = s[1]
        BY <3>1 DEF last
      <4> QED
        BY <3>1, <4>1, <2>5, Zenon
    <3>2. CASE i = n + 1 /\ n # 0
      <4>1. i # 1 /\ i - 1 = n /\ n \in 1 .. n
        BY <3>2
      <4>2. g[i - 1] = f[n] /\ g[i] = f[n] \o s[i]
        BY <2>5, <3>2, <4>1, Zenon DEF last
      <4> QED
        BY <4>1, <4>2, Zenon
    <3>3. CASE i # n + 1
      <4>1. i \in 1 .. n
        BY <3>3
      <4>2. f[i] = IF i = 1 THEN s[i] ELSE f[i - 1] \o s[i]
        BY <2>1, <4>1, Zenon
      <4>3. i # 1 => i - 1 \in 1 .. n
        BY <4>1
      <4>4. g[i] = f[i] /\ (i # 1 => g[i - 1] = f[i - 1])
        BY <2>5, <4>1, <4>3
      <4> QED
        BY <4>2, <4>4, Zenon
    <3> QED
      BY <3>1, <3>2, <3>3
  <2>7. Upto(g, n + 1)
    <3>1. [i \in 1 .. n + 1 |-> g[i]] =
            [i \in 1 .. n + 1 |-> IF i = 1 THEN s[i] ELSE g[i - 1] \o s[i]]
      BY <2>6, Zenon
    <3> QED
      BY <2>4, <3>1, Zenon
  <2> HIDE DEF Upto
  <2> QED
    BY <2>3, <2>7
<1>4. N \in S
  <2> HIDE DEF S
  <2>1. Nat \subseteq S
    BY <1>2, <1>3, InductionOnNat
  <2> QED
    BY <1>1, <2>1
<1>5. N <= N
  BY <1>1
<1>6. \E g \in [1 .. N -> Seq(T)] : Upto(g, N)
  BY <1>4, <1>5, Zenon
<1>7. PICK g \in [1 .. N -> Seq(T)] : Upto(g, N)
  BY <1>6, Zenon
<1> QED
  BY <1>7, Zenon DEF FlatOf, N

Agree(s, t, n) == \A i \in 1 .. n : s[i] = t[i]

\* Two flattenings agree as long as the sequences do.
LEMMA FlatUnique ==
  ASSUME NEW s, NEW t, NEW n \in Nat, Len(s) \in Nat, Len(t) \in Nat, n <= Len(s), n <= Len(t),
         Agree(s, t, n), NEW g, NEW h, FlatOf(g, s), FlatOf(h, t)
  PROVE  Agree(g, h, n)
<1> DEFINE S == {m \in Nat : m \in 1 .. n => g[m] = h[m]}
<1>1. \A i \in 1 .. n : /\ g[i] = IF i = 1 THEN s[i] ELSE g[i - 1] \o s[i]
                        /\ h[i] = IF i = 1 THEN t[i] ELSE h[i - 1] \o t[i]
  <2> SUFFICES ASSUME NEW i \in 1 .. n
               PROVE  /\ g[i] = IF i = 1 THEN s[i] ELSE g[i - 1] \o s[i]
                      /\ h[i] = IF i = 1 THEN t[i] ELSE h[i - 1] \o t[i]
    OBVIOUS
  <2>1. i \in 1 .. Len(s) /\ i \in 1 .. Len(t)
    OBVIOUS
  <2>2. g[i] = IF i = 1 THEN s[i] ELSE g[i - 1] \o s[i]
    BY ONLY FlatOf(g, s), <2>1, FlatAt, Zenon
  <2>3. h[i] = IF i = 1 THEN t[i] ELSE h[i - 1] \o t[i]
    BY ONLY FlatOf(h, t), <2>1, FlatAt, Zenon
  <2> QED
    BY ONLY <2>2, <2>3
<1>2. 0 \in S
  OBVIOUS
<1>3. ASSUME NEW m \in Nat, m \in S
      PROVE  m + 1 \in S
  <2> SUFFICES ASSUME m + 1 \in 1 .. n
               PROVE  g[m + 1] = h[m + 1]
    OBVIOUS
  <2>1. CASE m = 0
    BY <1>1, <2>1 DEF Agree
  <2>2. CASE m # 0
    <3>1. m \in 1 .. n /\ (m + 1) - 1 = m /\ m + 1 # 1
      BY <2>2
    <3>2. g[m] = h[m]
      BY <1>3, <3>1
    <3> QED
      BY <1>1, <3>1, <3>2 DEF Agree
  <2> QED
    BY <2>1, <2>2
<1>4. Nat \subseteq S
  <2> HIDE DEF S
  <2> QED
    BY <1>2, <1>3, InductionOnNat
<1> QED
  BY <1>4 DEF Agree

\* FlattenSeq is the last value of such a function.
LEMMA FlattenIs ==
  ASSUME NEW T, NEW s \in Seq(Seq(T)), Len(s) # 0
  PROVE  \E g : FlatOf(g, s) /\ g \in [1 .. Len(s) -> Seq(T)] /\ FlattenSeq(s) = g[Len(s)]
<1> DEFINE flatten[i \in 1 .. Len(s)] == IF i = 1 THEN s[i] ELSE flatten[i - 1] \o s[i]
<1>1. flatten = CHOOSE g : FlatOf(g, s)
  BY Zenon DEF FlatOf
<1>2. FlattenSeq(s) = flatten[Len(s)]
  BY Zenon DEF FlattenSeq
<1> HIDE DEF flatten
<1>3. PICK g : FlatOf(g, s) /\ g \in [1 .. Len(s) -> Seq(T)]
  BY FlatExists
<1>4. FlatOf(flatten, s)
  BY <1>1, <1>3, Zenon
<1>5. Len(s) \in Nat
  BY SeqTyped
<1>6. \A i \in 1 .. Len(s) : flatten[i] = g[i]
  <2>1. Len(s) <= Len(s) /\ Agree(s, s, Len(s))
    BY <1>5 DEF Agree
  <2>2. Agree(flatten, g, Len(s))
    BY <1>3, <1>4, <1>5, <2>1, FlatUnique
  <2> QED
    BY <2>2 DEF Agree
<1>7. FlattenSeq(s) = g[Len(s)]
  BY <1>2, <1>5, <1>6
<1> QED
  BY <1>3, <1>7

\* Nothing flattened is nothing.
LEMMA FlattenEmpty == FlattenSeq(<<>>) = <<>>
BY DEF FlattenSeq

\* One sequence more is concatenated at the end.
LEMMA FlattenAppend ==
  ASSUME NEW T, NEW s \in Seq(Seq(T)), NEW x \in Seq(T)
  PROVE  /\ FlattenSeq(s) \in Seq(T)
         /\ FlattenSeq(Append(s, x)) = FlattenSeq(s) \o x
<1> DEFINE u == Append(s, x)
           n == Len(s)
<1>1. /\ u \in Seq(Seq(T)) /\ Len(u) = n + 1 /\ n \in Nat
      /\ \A i \in 1 .. n : u[i] = s[i]
      /\ u[n + 1] = x
  BY AppendSeq, SeqTyped
<1> HIDE DEF u, n
<1>2. PICK h : FlatOf(h, u) /\ FlattenSeq(u) = h[n + 1]
  <2>1. Len(u) # 0
    BY <1>1
  <2> QED
    BY <1>1, <2>1, FlattenIs
<1>3. h[n + 1] = IF n + 1 = 1 THEN x ELSE h[n] \o x
  <2>1. n + 1 \in 1 .. Len(u) /\ (n + 1) - 1 = n
    BY <1>1
  <2> QED
    BY <1>1, <1>2, <2>1, FlatAt
<1>4. CASE n = 0
  <2>1. s = <<>>
    BY <1>4 DEF n
  <2>2. FlattenSeq(s) = <<>> /\ FlattenSeq(u) = x
    BY <1>1, <1>2, <1>3, <1>4, <2>1, FlattenEmpty
  <2>3. <<>> \o x = x /\ <<>> \in Seq(T)
    BY ConcatEmptySeq
  <2> QED
    BY <2>2, <2>3 DEF u
<1>5. CASE n # 0
  <2>1. PICK g : FlatOf(g, s) /\ g \in [1 .. n -> Seq(T)] /\ FlattenSeq(s) = g[n]
    BY <1>5, FlattenIs DEF n
  <2>2. h[n] = g[n]
    <3>1. /\ n <= Len(u) /\ n <= Len(s) /\ Len(s) \in Nat /\ Len(u) \in Nat /\ n \in 1 .. n
          /\ Agree(s, u, n)
      BY <1>1, <1>5 DEF n, Agree
    <3>2. Agree(g, h, n)
      <4>1. FlatOf(g, s) /\ FlatOf(h, u)
        BY <1>2, <2>1
      <4> QED
        BY ONLY <1>1, <3>1, <4>1, FlatUnique
    <3> QED
      BY <3>1, <3>2 DEF Agree
  <2>3. g[n] \in Seq(T)
    BY <1>1, <1>5, <2>1
  <2> QED
    BY <1>1, <1>2, <1>3, <1>5, <2>1, <2>2, <2>3 DEF u
<1> QED
  BY <1>4, <1>5

-----------------------------------------------------------------------------
(***************************************************************************)
(* What process_itch_payload owes a payload.                               *)
(***************************************************************************)
Call == [msg : Messages, len : Nat]

\* The calls for the first n blocks, and the one for an unframed payload.
Told(pl, n) == [i \in 1 .. n |-> [msg |-> pl.blocks[i].msg, len |-> pl.blocks[i].len]]

Raw(pl) == [msg |-> pl.raw, len |-> pl.len]

\* What it takes for the first k blocks of a payload to be whole.
LEMMA WholeAre ==
  ASSUME NEW pl \in GoodPayload
  PROVE  /\ 0 \in WholeBlocks(pl) /\ WholeBlocks(pl) \subseteq 0 .. Len(pl.blocks)
         /\ \A k \in 0 .. Len(pl.blocks) :
              k \in WholeBlocks(pl) <=>
                /\ k <= pl.count
                /\ \A j \in 1 .. k : pl.blocks[j].len # 0 /\ BlockEnds(pl.blocks)[j] <= pl.len
<1> DEFINE n == Len(pl.blocks)
           c == pl.count
           most == Min({c, n})
<1>1. c \in Nat /\ n \in Nat
  BY PayloadTyped, BlocksTyped DEF GoodPayload
<1> HIDE DEF c, n
<1>2. most = IF c <= n THEN c ELSE n
  <2>1. \E x \in {c, n} : \A y \in {c, n} : x <= y
    BY <1>1
  <2>2. most \in {c, n} /\ \A y \in {c, n} : most <= y
    BY <2>1, Zenon DEF Min
  <2> QED
    BY <1>1, <2>2
<1>3. WholeBlocks(pl) = {k \in 0 .. most : \A j \in 1 .. k :
                           pl.blocks[j].len # 0 /\ BlockEnds(pl.blocks)[j] <= pl.len}
  BY Zenon DEF WholeBlocks, c, n
<1> HIDE DEF most
<1> QED
  BY <1>1, <1>2, <1>3 DEF c, n

\* What is owed for one payload: its whole blocks, or the one fallback.
LEMMA CallsTyped ==
  ASSUME NEW pl \in GoodPayload
  PROVE  /\ Max(WholeBlocks(pl)) \in WholeBlocks(pl)
         /\ \A k \in WholeBlocks(pl) : k <= Max(WholeBlocks(pl))
         /\ \A k \in WholeBlocks(pl) : Told(pl, k) \in Seq(Call)
         /\ <<Raw(pl)>> \in Seq(Call) /\ Raw(pl) \in Call
         /\ Calls(pl) = IF pl.len < 20 \/ Max(WholeBlocks(pl)) = 0
                        THEN <<Raw(pl)>> ELSE Told(pl, Max(WholeBlocks(pl)))
         /\ Calls(pl) \in Seq(Call)
<1> DEFINE n == Max(WholeBlocks(pl))
           N == Len(pl.blocks)
<1>1. /\ pl.blocks \in Blocks /\ pl.len \in Nat /\ pl.raw \in Messages /\ N \in Nat
      /\ \A k \in 1 .. N : pl.blocks[k] \in [len : Word16, msg : Messages] /\ pl.blocks[k].len \in Nat
  BY PayloadTyped, BlocksTyped DEF GoodPayload
<1>2. n \in WholeBlocks(pl) /\ \A k \in WholeBlocks(pl) : k <= n
  BY <1>1, WholeAre, MaxIsGreatest
<1>3. \A k \in 1 .. N : pl.blocks[k].msg \in Messages /\ pl.blocks[k].len \in Nat
  BY <1>1
<1>4. ASSUME NEW k \in 0 .. N
      PROVE  Told(pl, k) \in Seq(Call)
  <2>1. \A i \in 1 .. k : [msg |-> pl.blocks[i].msg, len |-> pl.blocks[i].len] \in Call
    <3> SUFFICES ASSUME NEW i \in 1 .. k
                 PROVE  [msg |-> pl.blocks[i].msg, len |-> pl.blocks[i].len] \in Call
      OBVIOUS
    <3>1. pl.blocks[i].msg \in Messages /\ pl.blocks[i].len \in Nat
      BY <1>1, <1>3
    <3> QED
      BY <3>1 DEF Call
  <2>2. Told(pl, k) \in [1 .. k -> Call]
    BY <2>1, Zenon DEF Told
  <2>3. k \in Nat
    BY <1>1
  <2> QED
    BY <2>2, <2>3, IsASeq
<1>5. Raw(pl) \in Call
  BY <1>1 DEF Raw, Call
<1>6. Calls(pl) = IF pl.len < 20 \/ n = 0 THEN <<Raw(pl)>> ELSE Told(pl, n)
  BY Zenon DEF Calls, Raw, Told
<1>7. \A k \in WholeBlocks(pl) : k \in 0 .. N
  BY WholeAre
<1> HIDE DEF n
<1>8. Calls(pl) \in Seq(Call)
  BY <1>2, <1>4, <1>5, <1>6, <1>7
<1> QED
  BY <1>2, <1>4, <1>5, <1>6, <1>7, <1>8 DEF n

\* The loop finds the block behind the whole ones, if its two length bytes
\* are there, and it is whole if it is not empty and fits.
LEMMA NextWhole ==
  ASSUME NEW pl \in GoodPayload, NEW k \in Nat \ {0}, k - 1 \in WholeBlocks(pl),
         NEW o, o = BlockEnds(pl.blocks)[k - 1]
  PROVE  /\ k <= pl.count /\ o + 2 <= pl.len =>
              /\ k \in 1 .. Len(pl.blocks)
              /\ BlockEnds(pl.blocks)[k] = o + 2 + pl.blocks[k].len
              /\ pl.blocks[k].len # 0 /\ o + 2 + pl.blocks[k].len <= pl.len => k \in WholeBlocks(pl)
         /\ k \in WholeBlocks(pl) =>
              /\ k <= pl.count /\ o + 2 <= pl.len /\ pl.blocks[k].len # 0
              /\ o + 2 + pl.blocks[k].len <= pl.len
<1> DEFINE ends == BlockEnds(pl.blocks)
           b == pl.blocks
           n == Len(pl.blocks)
           Whole(j) == b[j].len # 0 /\ ends[j] <= pl.len
<1>1. /\ pl.count \in Nat /\ pl.len \in Nat /\ b \in Blocks /\ n \in Nat
      /\ \A j \in 1 .. n : b[j].len \in Nat
  BY PayloadTyped, BlocksTyped DEF GoodPayload
<1>2. /\ ends \in [0 .. n -> Nat]
      /\ \A j \in 1 .. n : ends[j] = ends[j - 1] + 2 + b[j].len
  BY <1>1, BlockEndsIs
<1>3. /\ WholeBlocks(pl) \subseteq 0 .. n
      /\ \A j \in 0 .. n : j \in WholeBlocks(pl) <=> j <= pl.count /\ \A i \in 1 .. j : Whole(i)
  BY WholeAre
<1>4. \/ pl.count <= n
      \/ \E j \in 1 .. n : b[j].len = 0 \/ ends[j] > pl.len
      \/ ends[n] + 2 > pl.len
  BY Zenon DEF GoodPayload, BlocksComplete
<1> HIDE DEF ends, b, n
<1>5. k - 1 \in 0 .. n /\ o = ends[k - 1] /\ o \in Nat /\ \A i \in 1 .. k - 1 : Whole(i)
  BY <1>1, <1>2, <1>3 DEF ends, b
<1>6. ASSUME k <= pl.count, o + 2 <= pl.len
      PROVE  k \in 1 .. n
  <2> SUFFICES ASSUME k - 1 = n
               PROVE  FALSE
    BY <1>1, <1>5
  <2>1. ~(pl.count <= n)
    BY <1>1, <1>6
  <2>2. ~(ends[n] + 2 > pl.len)
    BY <1>1, <1>5, <1>6
  <2>3. PICK j \in 1 .. n : b[j].len = 0 \/ ends[j] > pl.len
    BY <1>4, <2>1, <2>2
  <2>4. Whole(j)
    BY <1>5, <2>3
  <2>5. ends[j] \in Nat
    BY <1>1, <1>2
  <2> QED
    BY <1>1, <2>3, <2>4, <2>5
<1>7. ASSUME k \in 1 .. n
      PROVE  /\ ends[k] = o + 2 + b[k].len
             /\ k \in WholeBlocks(pl) <=> k <= pl.count /\ Whole(k)
  <2>1. ends[k] = ends[k - 1] + 2 + b[k].len
    BY <1>2, <1>7
  <2>2. (\A i \in 1 .. k : Whole(i)) <=> Whole(k)
    <3>1. \A i \in 1 .. k : i = k \/ i \in 1 .. k - 1
      OBVIOUS
    <3>2. k \in 1 .. k
      OBVIOUS
    <3> HIDE DEF Whole
    <3> QED
      BY <1>5, <3>1, <3>2
  <2>3. k \in 0 .. n
    BY <1>1, <1>7
  <2> HIDE DEF Whole
  <2> QED
    BY <1>3, <1>5, <2>1, <2>2, <2>3
<1>8. ASSUME k \in WholeBlocks(pl)
      PROVE  k <= pl.count /\ o + 2 <= pl.len /\ b[k].len # 0 /\ o + 2 + b[k].len <= pl.len
  <2>1. k \in 1 .. n
    BY <1>1, <1>3, <1>8
  <2> QED
    BY <1>1, <1>5, <1>7, <1>8, <2>1
<1>9. ASSUME k <= pl.count, o + 2 <= pl.len
      PROVE  /\ k \in 1 .. n /\ ends[k] = o + 2 + b[k].len
             /\ b[k].len # 0 /\ o + 2 + b[k].len <= pl.len => k \in WholeBlocks(pl)
  BY <1>6, <1>7, <1>9
<1> QED
  BY <1>8, <1>9 DEF ends, b, n

Owed(h) == FlattenSeq([i \in DOMAIN h |-> Calls(h[i])])

\* What is owed grows payload by payload.
LEMMA OwedIs ==
  ASSUME NEW h \in Seq(GoodPayload), NEW pl \in GoodPayload
  PROVE  /\ Owed(h) \in Seq(Call)
         /\ Owed(Append(h, pl)) = Owed(h) \o Calls(pl)
<1> DEFINE s == [i \in DOMAIN h |-> Calls(h[i])]
           H == Append(h, pl)
           u == [i \in DOMAIN H |-> Calls(H[i])]
           n == Len(h)
<1>1. n \in Nat /\ DOMAIN h = 1 .. n /\ \A i \in 1 .. n : h[i] \in GoodPayload
  BY SeqTyped
<1>2. /\ H \in Seq(GoodPayload) /\ DOMAIN H = 1 .. n + 1
      /\ \A i \in 1 .. n : H[i] = h[i]
      /\ H[n + 1] = pl
  BY AppendSeq, SeqTyped
<1> HIDE DEF n, H
<1>3. \A i \in 1 .. n : s[i] \in Seq(Call) /\ s[i] = Calls(h[i])
  BY <1>1, CallsTyped
<1>4. s \in [1 .. n -> Seq(Call)]
  BY <1>1, <1>3
<1>5. s \in Seq(Seq(Call)) /\ Len(s) = n
  BY <1>1, <1>4, IsASeq, LenProperties
<1>6. Calls(pl) \in Seq(Call)
  BY CallsTyped
<1>7. DOMAIN u = 1 .. n + 1 /\ \A i \in 1 .. n + 1 : u[i] = Calls(H[i])
  BY <1>2
<1>8. u = [i \in 1 .. n + 1 |-> u[i]]
  BY <1>2
<1>9. u = Append(s, Calls(pl))
  <2> HIDE DEF s, u
  <2>1. /\ Append(s, Calls(pl)) \in Seq(Seq(Call)) /\ Len(Append(s, Calls(pl))) = n + 1
        /\ \A i \in 1 .. n : Append(s, Calls(pl))[i] = s[i]
        /\ Append(s, Calls(pl))[n + 1] = Calls(pl)
    BY <1>5, <1>6, AppendSeq
  <2>2. \A i \in 1 .. n + 1 : u[i] = Append(s, Calls(pl))[i]
    BY <1>1, <1>2, <1>3, <1>7, <2>1
  <2>3. Append(s, Calls(pl)) = [i \in 1 .. n + 1 |-> Append(s, Calls(pl))[i]]
    <3> DEFINE a == Append(s, Calls(pl))
    <3>1. a \in Seq(Seq(Call)) /\ Len(a) = n + 1
      BY <2>1
    <3> HIDE DEF a
    <3>2. a = [i \in 1 .. n + 1 |-> a[i]]
      BY ONLY <3>1
    <3> QED
      BY <3>2 DEF a
  <2> QED
    BY <1>8, <2>2, <2>3
<1> HIDE DEF s, u
<1>10. FlattenSeq(s) \in Seq(Call) /\ FlattenSeq(u) = FlattenSeq(s) \o Calls(pl)
  BY <1>5, <1>6, <1>9, FlattenAppend
<1> QED
  BY <1>10 DEF Owed, s, u, H

\* Nothing is owed before the first payload.
LEMMA OwedNothing == Owed(<<>>) = <<>>
<1>1. [i \in DOMAIN <<>> |-> Calls(<<>>[i])] = <<>>
  OBVIOUS
<1> QED
  BY <1>1, FlattenEmpty DEF Owed

-----------------------------------------------------------------------------
(***************************************************************************)
(* The framing loop.                                                       *)
(***************************************************************************)
Parsing == stage \in {"blocks", "raw"}

\* Where the loop is in payload pl.
AtBlockOf(pl) ==
  /\ pl.len >= 20
  /\ block \in Nat \ {0} /\ block - 1 \in WholeBlocks(pl)
  /\ off = BlockEnds(pl.blocks)[block - 1]
  /\ parsed <=> block > 1

\* What was told of the payloads h before pl, and of pl.
TellingOf(h, pl) ==
  /\ heard = Append(h, pl) /\ PayloadLen(Pkt) = pl.len
  /\ stage = "blocks" => AtBlockOf(pl) /\ log = Owed(h) \o Told(pl, block - 1)
  /\ stage = "raw" => Calls(pl) = <<Raw(pl)>> /\ log = Owed(h)

ParseInv ==
  /\ heard \in Seq(GoodPayload)
  /\ ~Parsing => log = Owed(heard)
  /\ Parsing => \E h \in Seq(GoodPayload), pl \in GoodPayload : TellingOf(h, pl)

\* The last element is the one appended.
LEMMA LastOfAppend ==
  ASSUME NEW S, NEW h \in Seq(S), NEW x \in S
  PROVE  Last(Append(h, x)) = x
<1>1. Len(Append(h, x)) = Len(h) + 1 /\ Append(h, x)[Len(h) + 1] = x
  BY AppendSeq
<1> QED
  BY <1>1 DEF Last

\* The parser is not touched, and not entered or left.
LEMMA ParseIdle ==
  ASSUME ParseInv, UNCHANGED <<heard, log>>,
         \/ ~Parsing /\ ~Parsing'
         \/ UNCHANGED <<stage, off, block, parsed, burst>>
  PROVE  ParseInv'
<1>1. CASE ~Parsing /\ ~Parsing'
  BY <1>1 DEF ParseInv
<1>2. CASE UNCHANGED <<stage, off, block, parsed, burst>>
  <2>1. Parsing' = Parsing /\ \A h, pl : TellingOf(h, pl)' = TellingOf(h, pl)
    BY <1>2 DEF Parsing, TellingOf, AtBlockOf, Pkt
  <2> QED
    BY <2>1 DEF ParseInv
<1> QED
  BY <1>1, <1>2

\* A payload accepted: nothing of it is told, its first block is due.
LEMMA AcceptKeepsParse ==
  ASSUME ReceiverInv, FedInv, ParseInv, AcceptPacket
  PROVE  ParseInv'
<1> PICK pl : pl = Pkt.payload
  OBVIOUS
<1> PICK h : h = heard
  OBVIOUS
<1>1. /\ stage = "packet" /\ stage' = IF PayloadLen(Pkt) >= 20 THEN "blocks" ELSE "raw"
      /\ heard' = Append(h, pl) /\ off' = 20 /\ block' = 1 /\ parsed' = FALSE
      /\ log' = log /\ Pkt' = Pkt /\ Extracts(Pkt)
  BY DEF AcceptPacket, Goes, Accepted, nicVars, Pkt
<1>2. WellFormed(Pkt)
  <2>1. burst # <<>>
    BY <1>1 DEF ReceiverInv, InStage, WithPacket, Bursting
  <2>2. Head(burst) \in Arrivals(sent)
    BY <2>1, SeqTyped, TailSeq DEF FedInv
  <2> QED
    BY <2>2, ArrivalGood DEF FedInv, FeedTyped, Pkt
<1>3. pl \in GoodPayload /\ pl.len \in Nat /\ pl.len < Modulus16
  <2>1. pl \in Payloads /\ BlocksComplete(pl) /\ AddsAnnounced(pl)
    BY <1>2 DEF WellFormed
  <2> QED
    BY <2>1, PayloadTyped DEF GoodPayload
<1>4. PayloadLen(Pkt) = pl.len
  <2>1. Pkt.udpLen = 8 + pl.len
    BY <1>1, <1>2 DEF Extracts, WellFormed
  <2>2. Pkt.udpLen - 8 = pl.len /\ Modulus16 \in Nat \ {0} /\ pl.len \in 0 .. Modulus16 - 1
    BY <1>3, <2>1, WordsAre
  <2> QED
    BY <2>2, CastIsIdentity DEF PayloadLen
<1>5. ~Parsing /\ log = Owed(h) /\ h \in Seq(GoodPayload)
  BY <1>1 DEF Parsing, ParseInv
<1>6. stage' = "blocks" => AtBlockOf(pl)' /\ log' = Owed(h) \o Told(pl, block' - 1)
  <2> SUFFICES ASSUME stage' = "blocks"
               PROVE  AtBlockOf(pl)' /\ log' = Owed(h) \o Told(pl, block' - 1)
    OBVIOUS
  <2>1. pl.len >= 20
    BY <1>1, <1>4
  <2>2. pl.blocks \in Blocks
    BY <1>3, PayloadTyped DEF GoodPayload
  <2>3. BlockEnds(pl.blocks)[0] = 20 /\ 0 \in WholeBlocks(pl)
    BY <1>3, <2>2, BlockEndsIs, WholeAre
  <2>4. Told(pl, 0) = <<>>
    <3>1. 1 .. 0 = {}
      OBVIOUS
    <3>2. Told(pl, 0) \in [1 .. 0 -> Call]
      BY <3>1, Zenon DEF Told
    <3>3. Told(pl, 0) \in Seq(Call) /\ Len(Told(pl, 0)) = 0
      BY <3>2, IsASeq, LenProperties
    <3> QED
      BY <3>3
  <2>5. Owed(h) \in Seq(Call)
    BY <1>3, <1>5, OwedIs
  <2>6. Owed(h) \o <<>> = Owed(h)
    BY <2>5, ConcatEmptySeq
  <2>7. block' - 1 = 0 /\ off' = 20 /\ (parsed' <=> block' > 1) /\ block' \in Nat \ {0}
    BY <1>1
  <2>8. log' = Owed(h) \o Told(pl, block' - 1)
    BY <1>1, <1>5, <2>4, <2>6, <2>7
  <2> QED
    BY <2>1, <2>3, <2>7, <2>8 DEF AtBlockOf
<1>7. stage' = "raw" => Calls(pl) = <<Raw(pl)>> /\ log' = Owed(h)
  <2> SUFFICES ASSUME stage' = "raw"
               PROVE  Calls(pl) = <<Raw(pl)>> /\ log' = Owed(h)
    OBVIOUS
  <2>1. ~(PayloadLen(Pkt) >= 20)
    BY <1>1
  <2>2. pl.len < 20
    BY <1>3, <1>4, <2>1
  <2> QED
    BY <1>1, <1>3, <1>5, <2>2, CallsTyped
<1>8. heard' \in Seq(GoodPayload)
  BY <1>1, <1>3, <1>5, AppendSeq
<1>9. PayloadLen(Pkt)' = pl.len
  BY <1>1, <1>4
<1>10. Parsing'
  BY <1>1 DEF Parsing
<1>11. TellingOf(h, pl)'
  <2>1. heard' = Append(h, pl)
    BY <1>1
  <2> QED
    BY <1>6, <1>7, <1>9, <2>1 DEF TellingOf
<1> QED
  BY <1>3, <1>5, <1>8, <1>10, <1>11 DEF ParseInv

\* What the parser holds, in each of its two stages.
LEMMA TellingNow ==
  ASSUME ParseInv, Parsing
  PROVE  \E h \in Seq(GoodPayload), pl \in GoodPayload :
           /\ TellingOf(h, pl) /\ Payload = pl
           /\ Owed(h) \in Seq(Call) /\ Owed(heard) = Owed(h) \o Calls(pl)
<1>1. PICK h \in Seq(GoodPayload), pl \in GoodPayload : TellingOf(h, pl)
  BY DEF ParseInv
<1>2. heard = Append(h, pl)
  BY <1>1 DEF TellingOf
<1> QED
  BY <1>1, <1>2, LastOfAppend, OwedIs DEF Payload

\* Telling block k after the k - 1 before it.
LEMMA AppendTold ==
  ASSUME NEW pl \in GoodPayload, NEW k \in WholeBlocks(pl), k > 0, NEW s \in Seq(Call)
  PROVE  /\ [msg |-> pl.blocks[k].msg, len |-> pl.blocks[k].len] \in Call
         /\ Append(s \o Told(pl, k - 1), [msg |-> pl.blocks[k].msg, len |-> pl.blocks[k].len]) =
              s \o Told(pl, k)
<1> DEFINE x == [msg |-> pl.blocks[k].msg, len |-> pl.blocks[k].len]
           p == Told(pl, k - 1)
           q == Told(pl, k)
           n == Len(s)
<1>1. /\ k \in 1 .. Len(pl.blocks) /\ k \in Nat /\ Len(pl.blocks) \in Nat
      /\ k - 1 \in WholeBlocks(pl)
  <2>1. Len(pl.blocks) \in Nat /\ pl.count \in Nat
    BY PayloadTyped, BlocksTyped DEF GoodPayload
  <2>2. k \in 0 .. Len(pl.blocks) /\ k - 1 \in 0 .. Len(pl.blocks)
    BY <2>1, WholeAre
  <2>3. /\ k <= pl.count
        /\ \A j \in 1 .. k : pl.blocks[j].len # 0 /\ BlockEnds(pl.blocks)[j] <= pl.len
    BY <2>2, WholeAre
  <2>4. /\ k - 1 <= pl.count
        /\ \A j \in 1 .. k - 1 : pl.blocks[j].len # 0 /\ BlockEnds(pl.blocks)[j] <= pl.len
    BY <2>1, <2>2, <2>3
  <2>5. k - 1 \in WholeBlocks(pl)
    BY <2>2, <2>4, WholeAre
  <2> QED
    BY <2>1, <2>2, <2>5
<1>2. p \in Seq(Call) /\ q \in Seq(Call) /\ n \in Nat
  BY <1>1, CallsTyped, SeqTyped
<1>3. /\ p = [i \in 1 .. k - 1 |-> [msg |-> pl.blocks[i].msg, len |-> pl.blocks[i].len]]
      /\ q = [i \in 1 .. k |-> [msg |-> pl.blocks[i].msg, len |-> pl.blocks[i].len]]
  BY Zenon DEF Told
<1>4. /\ Len(p) = k - 1 /\ Len(q) = k
      /\ \A i \in 1 .. k - 1 : p[i] = q[i]
      /\ q[k] = x
  BY <1>1, <1>2, <1>3
<1>5. x \in Call
  BY <1>1, <1>2, <1>4, SeqTyped
<1> HIDE DEF x, p, q, n
<1>6. /\ s \o p \in Seq(Call) /\ Len(s \o p) = n + (k - 1)
      /\ \A j \in 1 .. n + (k - 1) : j <= n => (s \o p)[j] = s[j]
      /\ \A j \in 1 .. n + (k - 1) : j > n => (s \o p)[j] = p[j - n]
  <2>1. n + (k - 1) \in Nat /\ n + (k - 1) = Len(s) + Len(p)
    BY <1>1, <1>2, <1>4 DEF n
  <2> QED
    BY ONLY <1>2, <2>1, s \in Seq(Call), Concatenated DEF n
<1>7. /\ s \o q \in Seq(Call) /\ Len(s \o q) = n + k
      /\ \A j \in 1 .. n + k : j <= n => (s \o q)[j] = s[j]
      /\ \A j \in 1 .. n + k : j > n => (s \o q)[j] = q[j - n]
  <2>1. n + k \in Nat /\ n + k = Len(s) + Len(q)
    BY <1>1, <1>2, <1>4 DEF n
  <2> QED
    BY ONLY <1>2, <2>1, s \in Seq(Call), Concatenated DEF n
<1> DEFINE a == Append(s \o p, x)
           b == s \o q
<1>8. /\ a \in Seq(Call) /\ Len(a) = n + k
      /\ \A j \in 1 .. n + (k - 1) : a[j] = (s \o p)[j]
      /\ a[n + k] = x
  <2>1. n + (k - 1) + 1 = n + k
    BY <1>1, <1>2
  <2> QED
    BY <1>5, <1>6, <2>1, AppendSeq
<1> HIDE DEF a, b
<1>9. ASSUME NEW j \in 1 .. n + k
      PROVE  a[j] = b[j]
  <2>1. CASE j = n + k
    <3>1. j - n = k /\ j > n
      BY <1>1, <1>2, <2>1
    <3> QED
      BY <1>4, <1>7, <1>8, <2>1, <3>1 DEF b
  <2>2. CASE j # n + k /\ j <= n
    <3>1. j \in 1 .. n + (k - 1)
      BY <1>1, <1>2, <2>2
    <3> QED
      BY <1>6, <1>7, <1>8, <2>2, <3>1 DEF b
  <2>3. CASE j # n + k /\ j > n
    <3>1. j \in 1 .. n + (k - 1) /\ j - n \in 1 .. k - 1
      BY <1>1, <1>2, <2>3
    <3> QED
      BY <1>4, <1>6, <1>7, <1>8, <2>3, <3>1 DEF b
  <2> QED
    BY <1>1, <1>2, <2>1, <2>2, <2>3
<1>10. a = b
  <2>1. b \in Seq(Call) /\ Len(b) = n + k
    BY <1>7 DEF b
  <2> QED
    BY <1>8, <1>9, <2>1, SeqEqual
<1> QED
  BY <1>5, <1>10 DEF a, b, p, q, x

\* What the parser finds at its block.
LEMMA BlockHere ==
  ASSUME NEW pl \in GoodPayload, AtBlockOf(pl), PayloadLen(Pkt) = pl.len, Payload = pl,
         AtBlock
  PROVE  /\ block \in 1 .. Len(pl.blocks) /\ Block = pl.blocks[block]
         /\ Block.len \in Nat /\ Block.msg \in Messages
         /\ BlockEnds(pl.blocks)[block] = off + 2 + Block.len
         /\ Fits(Block) => block \in WholeBlocks(pl)
<1>1. /\ block \in Nat \ {0} /\ block - 1 \in WholeBlocks(pl)
      /\ off = BlockEnds(pl.blocks)[block - 1]
      /\ block <= pl.count /\ off + 2 <= pl.len /\ Block = pl.blocks[block]
  BY DEF AtBlockOf, AtBlock, Block
<1>2. /\ block \in 1 .. Len(pl.blocks)
      /\ BlockEnds(pl.blocks)[block] = off + 2 + pl.blocks[block].len
      /\ pl.blocks[block].len # 0 /\ off + 2 + pl.blocks[block].len <= pl.len => block \in WholeBlocks(pl)
  BY <1>1, NextWhole
<1>3. pl.blocks[block] \in [len : Word16, msg : Messages] /\ pl.blocks[block].len \in Nat
  BY <1>2, PayloadTyped, BlocksTyped DEF GoodPayload
<1>4. pl.blocks[block].msg \in Messages
  BY <1>3
<1> QED
  BY <1>1, <1>2, <1>3, <1>4 DEF Fits

\* A block that fits is the next whole block of the payload.
LEMMA ParseBlockKeepsParse ==
  ASSUME ParseInv, ParseBlock
  PROVE  ParseInv'
<1>1. Parsing /\ stage = "blocks" /\ stage' = "blocks"
  BY DEF Parsing, ParseBlock, Goes
<1>2. PICK h \in Seq(GoodPayload), pl \in GoodPayload :
        /\ TellingOf(h, pl) /\ Payload = pl
        /\ Owed(h) \in Seq(Call) /\ Owed(heard) = Owed(h) \o Calls(pl)
  BY <1>1, TellingNow
<1>3. /\ AtBlockOf(pl) /\ log = Owed(h) \o Told(pl, block - 1)
      /\ heard = Append(h, pl) /\ PayloadLen(Pkt) = pl.len
  BY <1>1, <1>2 DEF TellingOf
<1>4. /\ AtBlock /\ Fits(Block) /\ off' = off + 2 + Block.len /\ block' = block + 1
      /\ parsed' = TRUE /\ heard' = heard /\ Pkt' = Pkt
      /\ log' = Append(log, [msg |-> Block.msg, len |-> Block.len])
  BY DEF ParseBlock, ProcessMessage, nicVars, Pkt
<1>5. /\ Block = pl.blocks[block] /\ block \in WholeBlocks(pl)
      /\ BlockEnds(pl.blocks)[block] = off + 2 + Block.len
  BY <1>2, <1>3, <1>4, BlockHere
<1>6. block \in Nat \ {0} /\ pl.len >= 20
  BY <1>3 DEF AtBlockOf
<1>7. AtBlockOf(pl)'
  <2>1. block' \in Nat \ {0} /\ block' - 1 = block /\ block' > 1
    BY <1>4, <1>6
  <2> QED
    BY <1>4, <1>5, <1>6, <2>1 DEF AtBlockOf
<1>8. log' = Owed(h) \o Told(pl, block' - 1)
  <2>1. block' - 1 = block /\ block > 0
    BY <1>4, <1>6
  <2> QED
    BY <1>2, <1>3, <1>4, <1>5, <2>1, AppendTold
<1>9. PayloadLen(Pkt)' = pl.len
  BY <1>3, <1>4
<1>10. TellingOf(h, pl)'
  BY <1>1, <1>3, <1>4, <1>7, <1>8, <1>9 DEF TellingOf
<1> QED
  BY <1>1, <1>4, <1>10 DEF ParseInv, Parsing

\* Where the loop breaks off, the whole blocks are those it has told.
LEMMA BlocksDone ==
  ASSUME NEW pl \in GoodPayload, AtBlockOf(pl), PayloadLen(Pkt) = pl.len, Payload = pl,
         AtBlock => ~Fits(Block)
  PROVE  Max(WholeBlocks(pl)) = block - 1
<1> DEFINE n == Max(WholeBlocks(pl))
<1>1. /\ block \in Nat \ {0} /\ block - 1 \in WholeBlocks(pl)
      /\ off = BlockEnds(pl.blocks)[block - 1]
  BY DEF AtBlockOf
<1>2. /\ n \in WholeBlocks(pl) /\ \A k \in WholeBlocks(pl) : k <= n
      /\ WholeBlocks(pl) \subseteq 0 .. Len(pl.blocks)
  BY CallsTyped, WholeAre
<1>3. block \notin WholeBlocks(pl)
  <2> SUFFICES ASSUME block \in WholeBlocks(pl)
               PROVE  FALSE
    OBVIOUS
  <2>1. /\ block <= pl.count /\ off + 2 <= pl.len /\ pl.blocks[block].len # 0
        /\ off + 2 + pl.blocks[block].len <= pl.len
    BY <1>1, NextWhole
  <2> QED
    BY <2>1 DEF AtBlock, Fits, Block
<1> HIDE DEF n
<1>4. ASSUME n >= block
      PROVE  FALSE
  <2>1. Len(pl.blocks) \in Nat /\ pl.count \in Nat
    BY PayloadTyped, BlocksTyped DEF GoodPayload
  <2>2. n \in 0 .. Len(pl.blocks) /\ block \in 0 .. Len(pl.blocks)
    BY <1>1, <1>2, <1>4, <2>1
  <2>3. /\ n <= pl.count
        /\ \A j \in 1 .. n : pl.blocks[j].len # 0 /\ BlockEnds(pl.blocks)[j] <= pl.len
    BY <1>2, <2>2, WholeAre
  <2>4. /\ block <= pl.count
        /\ \A j \in 1 .. block : pl.blocks[j].len # 0 /\ BlockEnds(pl.blocks)[j] <= pl.len
    BY <1>4, <2>1, <2>2, <2>3
  <2>5. block \in WholeBlocks(pl)
    BY <2>2, <2>4, WholeAre
  <2> QED
    BY <1>3, <2>5
<1>5. block - 1 <= n /\ n \in Int
  <2>1. Len(pl.blocks) \in Nat
    BY PayloadTyped, BlocksTyped DEF GoodPayload
  <2> QED
    BY <1>1, <1>2, <2>1
<1> QED
  BY <1>1, <1>4, <1>5 DEF n

\* The loop ends with all whole blocks told; if there were none, the fallback is due.
LEMMA EndBlocksKeepsParse ==
  ASSUME ParseInv, EndBlocks
  PROVE  ParseInv'
<1>1. /\ Parsing /\ stage = "blocks" /\ stage' = IF parsed THEN "timed" ELSE "raw"
      /\ heard' = heard /\ log' = log /\ Pkt' = Pkt /\ (AtBlock => ~Fits(Block))
  BY DEF Parsing, EndBlocks, Goes, parseVars, nicVars, Pkt
<1>2. PICK h \in Seq(GoodPayload), pl \in GoodPayload :
        /\ TellingOf(h, pl) /\ Payload = pl
        /\ Owed(h) \in Seq(Call) /\ Owed(heard) = Owed(h) \o Calls(pl)
  BY <1>1, TellingNow
<1>3. /\ AtBlockOf(pl) /\ log = Owed(h) \o Told(pl, block - 1)
      /\ heard = Append(h, pl) /\ PayloadLen(Pkt) = pl.len
  BY <1>1, <1>2 DEF TellingOf
<1>4. Max(WholeBlocks(pl)) = block - 1
  BY <1>1, <1>2, <1>3, BlocksDone
<1>5. block \in Nat \ {0} /\ pl.len >= 20 /\ (parsed <=> block > 1) /\ pl.len \in Nat
  BY <1>3, PayloadTyped DEF AtBlockOf, GoodPayload
<1>6. heard \in Seq(GoodPayload)
  BY DEF ParseInv
<1>7. CASE parsed
  <2>1. Calls(pl) = Told(pl, block - 1)
    <3>1. ~(pl.len < 20) /\ block - 1 # 0
      BY <1>5, <1>7
    <3>2. Calls(pl) = IF pl.len < 20 \/ Max(WholeBlocks(pl)) = 0
                      THEN <<Raw(pl)>> ELSE Told(pl, Max(WholeBlocks(pl)))
      BY CallsTyped
    <3> QED
      BY ONLY <1>4, <3>1, <3>2
  <2>2. ~Parsing' /\ log' = Owed(heard')
    BY <1>1, <1>2, <1>3, <1>7, <2>1 DEF Parsing
  <2> QED
    BY <1>1, <1>6, <2>2 DEF ParseInv
<1>8. CASE ~parsed
  <2>1. block - 1 = 0
    BY <1>5, <1>8
  <2>2. Calls(pl) = <<Raw(pl)>>
    BY <1>4, <2>1, CallsTyped
  <2>3. log = Owed(h)
    <3>1. Told(pl, 0) = <<>>
      <4>1. 1 .. 0 = {}
        OBVIOUS
      <4>2. Told(pl, 0) \in [1 .. 0 -> Call]
        BY <4>1, Zenon DEF Told
      <4>3. Told(pl, 0) \in Seq(Call) /\ Len(Told(pl, 0)) = 0
        BY <4>2, IsASeq, LenProperties
      <4> QED
        BY <4>3
    <3> QED
      BY <1>2, <1>3, <2>1, <3>1, ConcatEmptySeq
  <2>4. PayloadLen(Pkt)' = pl.len
    BY <1>1, <1>3
  <2>5. stage' = "raw" /\ Parsing'
    BY <1>1, <1>8 DEF Parsing
  <2>6. TellingOf(h, pl)'
    BY <1>1, <1>3, <2>2, <2>3, <2>4, <2>5 DEF TellingOf
  <2> QED
    BY <1>1, <1>6, <2>5, <2>6 DEF ParseInv
<1> QED
  BY <1>7, <1>8

\* The fallback is the only message of its payload.
LEMMA FallBackKeepsParse ==
  ASSUME ParseInv, FallBack
  PROVE  ParseInv'
<1>1. /\ Parsing /\ stage = "raw" /\ stage' = "timed" /\ heard' = heard
      /\ log' = Append(log, [msg |-> Payload.raw, len |-> PayloadLen(Pkt)])
  BY DEF Parsing, FallBack, Goes, ProcessMessage
<1>2. PICK h \in Seq(GoodPayload), pl \in GoodPayload :
        /\ TellingOf(h, pl) /\ Payload = pl
        /\ Owed(h) \in Seq(Call) /\ Owed(heard) = Owed(h) \o Calls(pl)
  BY <1>1, TellingNow
<1>3. log = Owed(h) /\ Calls(pl) = <<Raw(pl)>> /\ PayloadLen(Pkt) = pl.len
  BY <1>1, <1>2 DEF TellingOf
<1>4. log' = Append(Owed(h), Raw(pl))
  BY <1>1, <1>2, <1>3 DEF Raw
<1>5. Append(Owed(h), Raw(pl)) = Owed(h) \o <<Raw(pl)>>
  BY <1>2, CallsTyped, AppendIsConcat
<1>6. log' = Owed(heard') /\ ~Parsing'
  BY <1>1, <1>2, <1>3, <1>4, <1>5 DEF Parsing
<1> QED
  BY <1>1, <1>6 DEF ParseInv

\* Every step keeps ParseInv.
LEMMA ParseNextKeeps ==
  ASSUME ReceiverInv, FedInv, ParseInv, [PipelineNext]_vars
  PROVE  ParseInv'
<1>1. CASE BringUp \/ PollPort \/ Report \/ LeaveLoop
  <2>1. ~Parsing /\ ~Parsing' /\ UNCHANGED <<heard, log>>
    BY <1>1 DEF BringUp, PollPort, Report, LeaveLoop, Goes, Parsing, parseVars
  <2> QED
    BY <2>1, ParseIdle
<1>2. CASE SkipPacket \/ \E cycles \in Cycles : Record(cycles)
  <2>1. ~Parsing /\ ~Parsing' /\ UNCHANGED <<heard, log>>
    BY <1>2 DEF SkipPacket, Record, NextPacket, Goes, Parsing, parseVars
  <2> QED
    BY <2>1, ParseIdle
<1>3. CASE AcceptPacket
  BY <1>3, AcceptKeepsParse
<1>4. CASE ParseBlock
  BY <1>4, ParseBlockKeepsParse
<1>5. CASE EndBlocks
  BY <1>5, EndBlocksKeepsParse
<1>6. CASE FallBack
  BY <1>6, FallBackKeepsParse
<1>7. CASE Signal \/ Feed \/ Stopped \/ UNCHANGED vars
  <2>1. UNCHANGED <<heard, log, stage, off, block, parsed, burst>>
    BY <1>7 DEF Signal, Feed, Stopped, vars, mainVars, nicVars
  <2> QED
    BY <2>1, ParseIdle
<1>8. CASE OtherApplication
  <2>1. ~Parsing /\ ~Parsing' /\ UNCHANGED <<heard, log>>
    BY <1>8 DEF OtherApplication, mainVars, Parsing
  <2> QED
    BY <2>1, ParseIdle
<1> QED
  BY <1>1, <1>2, <1>3, <1>4, <1>5, <1>6, <1>7, <1>8 DEF PipelineNext, Main

\* It holds initially.
LEMMA ParseInit == PipelineInit => ParseInv
<1> SUFFICES ASSUME PipelineInit
             PROVE  ParseInv
  OBVIOUS
<1>1. heard = <<>> /\ log = <<>>
  BY DEF PipelineInit
<1>2. stage \in {"bring up", "other application"}
  BY DEF PipelineInit
<1>3. ~Parsing
  BY <1>2 DEF Parsing
<1>4. <<>> \in Seq(GoodPayload)
  OBVIOUS
<1>5. Owed(heard) = <<>>
  BY <1>1, OwedNothing
<1> QED
  BY <1>1, <1>3, <1>4, <1>5 DEF ParseInv

\* It holds always.
LEMMA ParseInvHolds == PipelineSpec => [](ReceiverInv /\ FedInv /\ ParseInv)
<1>1. PipelineInit => ReceiverInv /\ FedInv /\ ParseInv
  BY PipelineInitHolds, FedInit, ParseInit
<1>2. ReceiverInv /\ FedInv /\ ParseInv /\ [PipelineNext]_vars => (ReceiverInv /\ FedInv /\ ParseInv)'
  BY PipelineNextKeeps, FedKeeps, ParseNextKeeps DEF ReceiverInv
<1> QED
  BY <1>1, <1>2, PTL DEF PipelineSpec

\* What is owed is a sequence of calls.
LEMMA OwedTyped ==
  ASSUME NEW h \in Seq(GoodPayload)
  PROVE  Owed(h) \in Seq(Call)
<1>1. CASE h = <<>>
  <2>1. Owed(h) = <<>>
    BY <1>1, OwedNothing
  <2>2. <<>> \in Seq(Call)
    OBVIOUS
  <2> QED
    BY <2>1, <2>2
<1>2. CASE h # <<>>
  <2>1. h[1] \in GoodPayload
    BY <1>2, SeqTyped, TailSeq
  <2> QED
    BY <2>1, OwedIs
<1> QED
  BY <1>1, <1>2

\* A sequence that agrees with the beginning of another is a prefix of it.
LEMMA PrefixIs ==
  ASSUME NEW T, NEW a \in Seq(T), NEW b \in Seq(T), Len(a) <= Len(b),
         \A i \in 1 .. Len(a) : a[i] = b[i]
  PROVE  IsPrefix(a, b)
<1>1. SubSeq(a, 1, Len(a)) = [i \in 1 .. Len(a) |-> a[i]]
  OBVIOUS
<1>2. SubSeq(b, 1, Len(a)) = [i \in 1 .. Len(a) |-> b[i]]
  OBVIOUS
<1>3. [i \in 1 .. Len(a) |-> a[i]] = [i \in 1 .. Len(a) |-> b[i]]
  OBVIOUS
<1> QED
  BY <1>1, <1>2, <1>3 DEF IsPrefix

\* So it is behind a common beginning.
LEMMA PrefixOfJoin ==
  ASSUME NEW T, NEW s \in Seq(T), NEW p \in Seq(T), NEW q \in Seq(T), Len(p) <= Len(q),
         \A i \in 1 .. Len(p) : p[i] = q[i]
  PROVE  IsPrefix(s \o p, s \o q)
<1> DEFINE a == s \o p
           b == s \o q
           n == Len(s)
<1>1. n \in Nat /\ Len(p) \in Nat /\ Len(q) \in Nat
  BY SeqTyped
<1>2. n + Len(p) \in Nat /\ n + Len(q) \in Nat
  BY <1>1
<1>3. /\ a \in Seq(T) /\ Len(a) = n + Len(p)
      /\ \A j \in 1 .. n + Len(p) : j <= n => a[j] = s[j]
      /\ \A j \in 1 .. n + Len(p) : j > n => a[j] = p[j - n]
  BY <1>2, Concatenated
<1>4. /\ b \in Seq(T) /\ Len(b) = n + Len(q)
      /\ \A j \in 1 .. n + Len(q) : j <= n => b[j] = s[j]
      /\ \A j \in 1 .. n + Len(q) : j > n => b[j] = q[j - n]
  BY <1>2, Concatenated
<1> HIDE DEF a, b, n
<1>5. ASSUME NEW j \in 1 .. n + Len(p)
      PROVE  a[j] = b[j]
  <2>1. j \in 1 .. n + Len(q)
    BY <1>1
  <2>2. CASE j <= n
    BY <1>3, <1>4, <2>1, <2>2
  <2>3. CASE j > n
    <3>1. j - n \in 1 .. Len(p)
      BY <1>1, <2>3
    <3> QED
      BY <1>3, <1>4, <2>1, <2>3, <3>1
  <2> QED
    BY <1>1, <2>2, <2>3
<1>6. Len(a) <= Len(b)
  BY <1>1, <1>3, <1>4
<1>7. IsPrefix(a, b)
  BY <1>3, <1>4, <1>5, <1>6, PrefixIs
<1> QED
  BY <1>7 DEF a, b

\* What is told is the beginning of what is owed.
LEMMA TellsPrefix ==
  ASSUME ParseInv
  PROVE  IsPrefix(log, Owed(heard))
<1>1. CASE ~Parsing
  <2>1. log \in Seq(Call) /\ log = Owed(heard)
    BY <1>1, OwedTyped DEF ParseInv
  <2>2. Len(log) <= Len(log) /\ \A i \in 1 .. Len(log) : log[i] = log[i]
    BY <2>1
  <2>3. IsPrefix(log, log)
    BY <2>1, <2>2, PrefixIs
  <2> QED
    BY <2>1, <2>3
<1>2. CASE Parsing
  <2>1. PICK h \in Seq(GoodPayload), pl \in GoodPayload :
          /\ TellingOf(h, pl) /\ Payload = pl
          /\ Owed(h) \in Seq(Call) /\ Owed(heard) = Owed(h) \o Calls(pl)
    BY <1>2, TellingNow
  <2>2. Calls(pl) \in Seq(Call) /\ <<>> \in Seq(Call) /\ Len(Calls(pl)) \in Nat
    BY CallsTyped, SeqTyped
  <2>3. ASSUME log = Owed(h)
        PROVE  IsPrefix(log, Owed(heard))
    <3>1. log = Owed(h) \o <<>>
      BY <2>1, <2>3, ConcatEmptySeq
    <3>2. Len(<<>>) <= Len(Calls(pl)) /\ \A i \in 1 .. Len(<<>>) : <<>>[i] = Calls(pl)[i]
      BY <2>2
    <3>3. IsPrefix(Owed(h) \o <<>>, Owed(h) \o Calls(pl))
      BY <2>1, <2>2, <3>2, PrefixOfJoin
    <3> QED
      BY <2>1, <3>1, <3>3
  <2>4. CASE stage = "raw"
    BY <2>1, <2>3, <2>4 DEF TellingOf
  <2>5. CASE stage = "blocks"
    <3> DEFINE k == block - 1
               n == Max(WholeBlocks(pl))
    <3>1. AtBlockOf(pl) /\ log = Owed(h) \o Told(pl, k)
      BY <2>1, <2>5 DEF TellingOf
    <3>2. /\ k \in WholeBlocks(pl) /\ n \in WholeBlocks(pl) /\ k <= n /\ pl.len >= 20
          /\ block \in Nat \ {0}
      BY <3>1, CallsTyped DEF AtBlockOf
    <3>3. n \in Nat /\ k \in Nat /\ pl.len \in Nat
      BY <3>2, WholeAre, PayloadTyped, BlocksTyped DEF GoodPayload
    <3>4. Told(pl, k) \in Seq(Call)
      BY <3>2, CallsTyped
    <3> HIDE DEF k, n
    <3>5. /\ Told(pl, k) = [i \in 1 .. k |-> [msg |-> pl.blocks[i].msg, len |-> pl.blocks[i].len]]
          /\ Told(pl, n) = [i \in 1 .. n |-> [msg |-> pl.blocks[i].msg, len |-> pl.blocks[i].len]]
      BY Zenon DEF Told
    <3>6. Len(Told(pl, k)) = k /\ Len(Told(pl, n)) = n /\ \A i \in 1 .. k : Told(pl, k)[i] = Told(pl, n)[i]
      BY <3>2, <3>3, <3>5
    <3>7. CASE n = 0
      <4>1. k = 0 /\ Told(pl, k) = <<>>
        BY <3>2, <3>3, <3>4, <3>6, <3>7
      <4>2. log = Owed(h)
        BY <2>1, <3>1, <4>1, ConcatEmptySeq
      <4> QED
        BY <2>3, <4>2
    <3>8. CASE n # 0
      <4>1. Calls(pl) = Told(pl, n)
        <5>1. Calls(pl) = IF pl.len < 20 \/ n = 0 THEN <<Raw(pl)>> ELSE Told(pl, n)
          BY CallsTyped DEF n
        <5>2. ~(pl.len < 20)
          BY <3>2, <3>3
        <5> QED
          BY ONLY <3>8, <5>1, <5>2
      <4>2. Len(Told(pl, k)) <= Len(Calls(pl)) /\ \A i \in 1 .. Len(Told(pl, k)) : Told(pl, k)[i] = Calls(pl)[i]
        BY <3>2, <3>6, <4>1
      <4>3. IsPrefix(Owed(h) \o Told(pl, k), Owed(h) \o Calls(pl))
        BY <2>1, <2>2, <3>4, <4>2, PrefixOfJoin
      <4> QED
        BY <2>1, <3>1, <4>3
    <3> QED
      BY <3>7, <3>8
  <2> QED
    BY <1>2, <2>4, <2>5 DEF Parsing
<1> QED
  BY <1>1, <1>2

(* Each message of each accepted payload goes to process_message once and  *)
(* in order, whatever the framing claims, of whatever host.                *)
THEOREM EachBlockToldOnce == PipelineSpec => []EachBlockOnce
<1>1. ParseInv => EachBlockOnce
  <2> SUFFICES ASSUME ParseInv
               PROVE  IsPrefix(log, Owed(heard)) /\ (~Parsing => log = Owed(heard))
    BY Zenon DEF EachBlockOnce, Owed, Parsing
  <2> QED
    BY TellsPrefix DEF ParseInv
<1> QED
  BY <1>1, ParseInvHolds, PTL

-----------------------------------------------------------------------------
(***************************************************************************)
(* The book of the receiver.  What a message does to an order depends on   *)
(* what is open of it, and so does what the message says.                  *)
(***************************************************************************)
ReplayOf(f, calls, id) ==
  f = [n \in 0 .. Len(calls) |-> IF n = 0 THEN Null ELSE AfterCall(f[n - 1], id, calls[n])]

\* A replay exists,
LEMMA ReplayExists ==
  ASSUME NEW calls \in Seq(Call), NEW id
  PROVE  \E f : ReplayOf(f, calls, id)
<1> DEFINE N == Len(calls)
           NextOpen(v, n) == AfterCall(v, id, calls[n])
           Upto(f, n) == f = [k \in 0 .. n |-> IF k = 0 THEN Null ELSE NextOpen(f[k - 1], k)]
           S == {n \in Nat : \E f : Upto(f, n)}
<1>1. N \in Nat
  OBVIOUS
<1> HIDE DEF N, NextOpen
<1>2. 0 \in S
  <2> DEFINE f == [k \in 0 .. 0 |-> Null]
  <2>1. Upto(f, 0)
    OBVIOUS
  <2> QED
    BY <2>1
<1>3. ASSUME NEW n \in Nat, n \in S
      PROVE  n + 1 \in S
  <2>0. n + 1 \in Nat
    OBVIOUS
  <2> SUFFICES \E f : Upto(f, n + 1)
    BY <2>0, Zenon
  <2>1. PICK f : Upto(f, n)
    BY <1>3, Zenon
  <2> DEFINE g == [k \in 0 .. n + 1 |-> IF k = n + 1 THEN NextOpen(f[n], n + 1) ELSE f[k]]
  <2>2. ASSUME NEW k \in 0 .. n + 1
        PROVE  g[k] = IF k = 0 THEN Null ELSE NextOpen(g[k - 1], k)
    <3>1. CASE k = n + 1
      BY <3>1
    <3>2. CASE k # n + 1
      <4>1. k \in 0 .. n /\ f[k] = IF k = 0 THEN Null ELSE NextOpen(f[k - 1], k)
        BY <2>1, <3>2
      <4> QED
        BY <3>2, <4>1
    <3> QED
      BY <3>1, <3>2
  <2>3. Upto(g, n + 1)
    BY <2>2
  <2> QED
    BY <2>3
<1>4. Nat \subseteq S
  <2> HIDE DEF S
  <2> QED
    BY <1>2, <1>3, InductionOnNat
<1>5. PICK f : Upto(f, N)
  BY <1>1, <1>4
<1>6. ReplayOf(f, calls, id)
  BY <1>5, Zenon DEF ReplayOf, N, NextOpen
<1> QED
  BY <1>6

\* and ends with what Replayed says.
LEMMA ReplayedIs ==
  ASSUME NEW calls \in Seq(Call), NEW id
  PROVE  \E f : ReplayOf(f, calls, id) /\ Replayed(calls, id) = f[Len(calls)]
<1> DEFINE open[n \in 0 .. Len(calls)] ==
             IF n = 0 THEN Null ELSE AfterCall(open[n - 1], id, calls[n])
<1>1. open = CHOOSE f : ReplayOf(f, calls, id)
  BY Zenon DEF ReplayOf
<1>2. Replayed(calls, id) = open[Len(calls)]
  BY Zenon DEF Replayed
<1> HIDE DEF open
<1>3. ReplayOf(open, calls, id)
  BY <1>1, ReplayExists, Zenon
<1> QED
  BY <1>2, <1>3

\* Nothing is open before the first call, and each changes what was before it.
LEMMA ReplayedOneMore ==
  ASSUME NEW id
  PROVE  /\ Replayed(<<>>, id) = Null
         /\ \A calls \in Seq(Call), x \in Call :
              Replayed(Append(calls, x), id) = AfterCall(Replayed(calls, id), id, x)
<1>1. Replayed(<<>>, id) = Null
  <2>1. <<>> \in Seq(Call) /\ Len(<<>>) = 0
    OBVIOUS
  <2>2. PICK f : ReplayOf(f, <<>>, id) /\ Replayed(<<>>, id) = f[0]
    BY <2>1, ReplayedIs
  <2> QED
    BY <2>1, <2>2 DEF ReplayOf
<1>2. ASSUME NEW calls \in Seq(Call), NEW x \in Call
      PROVE  Replayed(Append(calls, x), id) = AfterCall(Replayed(calls, id), id, x)
  <2> DEFINE N == Len(calls)
             NextOpen(v, n) == AfterCall(v, id, calls[n])
  <2> PICK more : more = Append(calls, x)
    OBVIOUS
  <2>1. /\ more \in Seq(Call) /\ N \in Nat /\ Len(more) = N + 1
        /\ \A n \in 1 .. N : more[n] = calls[n]
        /\ more[N + 1] = x
    BY AppendSeq
  <2>2. PICK f : ReplayOf(f, calls, id) /\ Replayed(calls, id) = f[N]
    BY ReplayedIs
  <2>3. PICK g : ReplayOf(g, more, id) /\ Replayed(more, id) = g[N + 1]
    BY <2>1, ReplayedIs
  <2>4. \A n \in 0 .. N : f[n] = IF n = 0 THEN Null ELSE NextOpen(f[n - 1], n)
    BY <2>2, Zenon DEF ReplayOf, N, NextOpen
  <2>5. \A n \in 0 .. N + 1 : g[n] = IF n = 0 THEN Null ELSE AfterCall(g[n - 1], id, more[n])
    BY <2>1, <2>3, Zenon DEF ReplayOf
  <2> HIDE DEF N
  <2>6. \A n \in 0 .. N : g[n] = IF n = 0 THEN Null ELSE NextOpen(g[n - 1], n)
    <3>1. \A n \in 0 .. N : n \in 0 .. N + 1 /\ (n # 0 => n \in 1 .. N)
      BY <2>1
    <3> QED
      BY <2>1, <2>5, <3>1 DEF NextOpen
  <2> HIDE DEF NextOpen
  <2> DEFINE S == {n \in Nat : n <= N => f[n] = g[n]}
  <2>7. 0 \in S
    BY <2>1, <2>4, <2>6
  <2>8. ASSUME NEW n \in Nat, n \in S
        PROVE  n + 1 \in S
    <3> SUFFICES ASSUME n + 1 <= N
                 PROVE  f[n + 1] = g[n + 1]
      OBVIOUS
    <3>1. f[n] = g[n] /\ n + 1 \in 0 .. N /\ n + 1 # 0 /\ (n + 1) - 1 = n
      BY <2>1, <2>8
    <3> QED
      BY <2>4, <2>6, <3>1
  <2>9. Nat \subseteq S
    <3> HIDE DEF S
    <3> QED
      BY <2>7, <2>8, InductionOnNat
  <2>10. f[N] = g[N]
    BY <2>1, <2>9
  <2>11. g[N + 1] = AfterCall(g[N], id, x)
    <3>1. N + 1 \in 0 .. N + 1 /\ N + 1 # 0 /\ (N + 1) - 1 = N
      BY <2>1
    <3> QED
      BY <2>1, <2>5, <3>1
  <2> QED
    BY <2>2, <2>3, <2>10, <2>11 DEF N
<1> QED
  BY <1>1, <1>2

-----------------------------------------------------------------------------
(***************************************************************************)
(* What a call does to the open quantity of an order, and why the calls    *)
(* say the same.                                                           *)
(***************************************************************************)
Effect(open, id, x) ==
  IF Says(x, {"A"}, id) THEN IF open = Null THEN x.msg.shares ELSE open
  ELSE IF Says(x, {"E"}, id) THEN Spent(open, x.msg.shares)
  ELSE IF Says(x, {"X", "D", "U"}, id) THEN Null
  ELSE open

\* Call x does to every order what it should.
Heeds(x) == spinning' \/ \A id \in Keys : Open(slots', id) = Effect(Open(slots, id), id, x)

AddHeard(calls, id, n) ==
  \E i \in DOMAIN calls : Says(calls[i], {"A"}, id) /\ n <= calls[i].msg.shares

\* What the calls tell of an order of which open is left.
WordOf(calls, id, open) ==
  /\ open # Null => AddHeard(calls, id, open)
  /\ (\E i \in DOMAIN calls : Says(calls[i], {"A"}, id))
       /\ (\A i \in DOMAIN calls : ~Says(calls[i], Removals, id)) => open # Null
  /\ Undisputed(calls, id) => open = Replayed(calls, id)

WordInv == ~spinning => \A id \in Keys : WordOf(log, id, Open(slots, id))

\* The calls of a longer log.
LEMMA OneMoreCall ==
  ASSUME NEW calls \in Seq(Call), NEW x \in Call
  PROVE  /\ Len(calls) + 1 \in DOMAIN Append(calls, x) /\ Append(calls, x)[Len(calls) + 1] = x
         /\ \A i \in DOMAIN calls : i \in DOMAIN Append(calls, x) /\ Append(calls, x)[i] = calls[i]
         /\ \A i \in DOMAIN Append(calls, x) : i \in DOMAIN calls \/ Append(calls, x)[i] = x
<1> DEFINE n == Len(calls)
<1> PICK more : more = Append(calls, x)
  OBVIOUS
<1>1. /\ more \in Seq(Call) /\ n \in Nat /\ DOMAIN calls = 1 .. n
      /\ DOMAIN more = 1 .. n + 1
      /\ \A i \in 1 .. n : more[i] = calls[i]
      /\ more[n + 1] = x
  BY AppendSeq, SeqTyped
<1> HIDE DEF n
<1>2. n + 1 \in 1 .. n + 1 /\ \A i \in 1 .. n + 1 : i \in 1 .. n \/ i = n + 1
  BY <1>1
<1>3. \A i \in 1 .. n : i \in 1 .. n + 1
  BY <1>1
<1> QED
  BY <1>1, <1>2, <1>3 DEF n

\* An order undisputed so far was so before.
LEMMA UndisputedBefore ==
  ASSUME NEW calls \in Seq(Call), NEW x \in Call, NEW id, Undisputed(Append(calls, x), id)
  PROVE  /\ Undisputed(calls, id)
         /\ Says(x, {"X"}, id) => \A i \in DOMAIN calls :
              Says(calls[i], {"A"}, id) => calls[i].msg.shares <= x.msg.shares
<1> PICK more : more = Append(calls, x)
  OBVIOUS
<1>1. /\ Len(calls) + 1 \in DOMAIN more /\ more[Len(calls) + 1] = x
      /\ \A i \in DOMAIN calls : i \in DOMAIN more /\ more[i] = calls[i]
  BY OneMoreCall
<1>2. Undisputed(more, id)
  OBVIOUS
<1>3. Undisputed(calls, id)
  BY <1>1, <1>2 DEF Undisputed
<1> QED
  BY <1>1, <1>2, <1>3 DEF Undisputed

\* What a call can be about.
LEMMA CallSays ==
  ASSUME NEW x \in Call
  PROVE  /\ x.msg \in Messages /\ x.len \in Nat
         /\ x.msg.id \in Keys /\ x.msg.newId \in Keys
         /\ x.msg.shares \in Quantities /\ x.msg.shares \in Nat /\ x.msg.shares # Null
         /\ \A id, T, U : Says(x, T, id) /\ Says(x, U, id) => T \cap U # {}
<1>1. x.msg \in Messages /\ x.len \in Nat
  BY DEF Call
<1>2. x.msg.id \in Keys /\ x.msg.newId \in Keys /\ x.msg.shares \in Quantities
  BY <1>1 DEF Messages
<1>3. x.msg.shares \in Nat /\ x.msg.shares # Null
  <2>1. \A n \in 0 .. QtyModulus - 1 : n \in Nat
    BY ONLY QuantityAssumption
  <2>2. x.msg.shares \in Nat
    BY <1>2, <2>1, QuantityAssumption
  <2> QED
    BY <2>2, NullIsNoNumber
<1>4. \A id, T, U : Says(x, T, id) /\ Says(x, U, id) => T \cap U # {}
  BY DEF Says
<1> QED
  BY <1>1, <1>2, <1>3, <1>4

\* Of an undisputed order a call says what it does.
LEMMA EffectIsSaid ==
  ASSUME NEW calls \in Seq(Call), NEW x \in Call, NEW id, NEW open \in Nat \cup {Null},
         WordOf(calls, id, open), Undisputed(Append(calls, x), id)
  PROVE  Effect(open, id, x) = AfterCall(open, id, x)
<1>1. x.msg.shares \in Nat
  BY CallSays
<1>2. /\ ~(Says(x, {"A"}, id) /\ Says(x, {"E"}, id))
      /\ ~(Says(x, {"A"}, id) /\ Says(x, {"X"}, id))
      /\ ~(Says(x, {"A"}, id) /\ Says(x, {"D", "U"}, id))
      /\ ~(Says(x, {"E"}, id) /\ Says(x, {"X"}, id))
      /\ ~(Says(x, {"E"}, id) /\ Says(x, {"D", "U"}, id))
      /\ ~(Says(x, {"X"}, id) /\ Says(x, {"D", "U"}, id))
      /\ Says(x, {"X", "D", "U"}, id) <=> Says(x, {"X"}, id) \/ Says(x, {"D", "U"}, id)
  BY DEF Says
<1>3. CASE Says(x, {"A"}, id)
  BY <1>2, <1>3 DEF Effect, AfterCall
<1>4. CASE Says(x, {"E"}, id)
  BY <1>2, <1>4 DEF Effect, AfterCall, Spent
<1>5. CASE Says(x, {"X"}, id)
  <2>1. Less(open, x.msg.shares) = Null
    <3>1. CASE open = Null
      BY <3>1 DEF Less
    <3>2. CASE open # Null
      <4>1. PICK i \in DOMAIN calls : Says(calls[i], {"A"}, id) /\ open <= calls[i].msg.shares
        BY <3>2 DEF WordOf, AddHeard
      <4>2. calls[i].msg.shares <= x.msg.shares
        BY <1>5, <4>1, UndisputedBefore
      <4>3. calls[i].msg.shares \in Nat
        BY CallSays, SeqTyped
      <4>4. open <= x.msg.shares
        BY <1>1, <3>2, <4>1, <4>2, <4>3
      <4> QED
        BY <4>4 DEF Less
    <3> QED
      BY <3>1, <3>2
  <2>2. AfterCall(open, id, x) = Less(open, x.msg.shares)
    BY <1>2, <1>5 DEF AfterCall
  <2>3. Effect(open, id, x) = Null
    BY <1>2, <1>5 DEF Effect
  <2> QED
    BY <2>1, <2>2, <2>3
<1>6. CASE Says(x, {"D", "U"}, id)
  BY <1>2, <1>6 DEF Effect, AfterCall
<1>7. CASE ~Says(x, {"A"}, id) /\ ~Says(x, {"E"}, id) /\ ~Says(x, {"X"}, id) /\ ~Says(x, {"D", "U"}, id)
  BY <1>2, <1>7 DEF Effect, AfterCall
<1> QED
  BY <1>3, <1>4, <1>5, <1>6, <1>7

\* No call leaves more open than was, or was added.
LEMMA EffectBounded ==
  ASSUME NEW x \in Call, NEW id, NEW open \in Nat \cup {Null}, Effect(open, id, x) # Null
  PROVE  \/ Says(x, {"A"}, id) /\ Effect(open, id, x) <= x.msg.shares
         \/ open # Null /\ Effect(open, id, x) \in Nat /\ Effect(open, id, x) <= open
<1>1. x.msg.shares \in Nat
  BY CallSays
<1>2. CASE Says(x, {"A"}, id)
  BY <1>1, <1>2 DEF Effect
<1>3. CASE ~Says(x, {"A"}, id) /\ Says(x, {"E"}, id)
  <2>1. Effect(open, id, x) = Spent(open, x.msg.shares)
    BY <1>3 DEF Effect
  <2> QED
    BY <1>1, <2>1 DEF Spent, Less
<1>4. CASE ~Says(x, {"A"}, id) /\ ~Says(x, {"E"}, id)
  BY <1>4 DEF Effect
<1> QED
  BY <1>2, <1>3, <1>4

\* A call that does what it should keeps what the calls tell.
LEMMA WordOfOneMore ==
  ASSUME NEW calls \in Seq(Call), NEW x \in Call, NEW id, NEW open \in Nat \cup {Null},
         WordOf(calls, id, open)
  PROVE  WordOf(Append(calls, x), id, Effect(open, id, x))
<1> PICK more : more = Append(calls, x)
  OBVIOUS
<1> PICK left : left = Effect(open, id, x)
  OBVIOUS
<1>0. /\ Len(calls) + 1 \in DOMAIN more /\ more[Len(calls) + 1] = x
      /\ \A i \in DOMAIN calls : i \in DOMAIN more /\ more[i] = calls[i]
      /\ \A i \in DOMAIN more : i \in DOMAIN calls \/ more[i] = x
  BY OneMoreCall
<1>1. ASSUME left # Null
      PROVE  AddHeard(more, id, left)
  <2>1. CASE Says(x, {"A"}, id) /\ left <= x.msg.shares
    BY <1>0, <2>1 DEF AddHeard
  <2>2. CASE open # Null /\ left \in Nat /\ left <= open
    <3>1. PICK i \in DOMAIN calls : Says(calls[i], {"A"}, id) /\ open <= calls[i].msg.shares
      BY <2>2 DEF WordOf, AddHeard
    <3>2. calls[i].msg.shares \in Nat
      BY CallSays, SeqTyped
    <3>3. left <= calls[i].msg.shares
      BY <2>2, <3>1, <3>2
    <3> QED
      BY <1>0, <3>1, <3>3 DEF AddHeard
  <2> QED
    BY <1>1, <2>1, <2>2, EffectBounded
<1>2. ASSUME NEW j \in DOMAIN more, Says(more[j], {"A"}, id),
             \A i \in DOMAIN more : ~Says(more[i], Removals, id)
      PROVE  left # Null
  <2>1. ~Says(x, Removals, id) /\ \A i \in DOMAIN calls : ~Says(calls[i], Removals, id)
    BY <1>0, <1>2
  <2>2. ~Says(x, {"E"}, id) /\ ~Says(x, {"X", "D", "U"}, id)
    BY <2>1 DEF Says, Removals
  <2>3. x.msg.shares # Null
    BY CallSays
  <2>4. CASE Says(x, {"A"}, id)
    BY <2>3, <2>4 DEF Effect
  <2>5. CASE ~Says(x, {"A"}, id)
    <3>1. j \in DOMAIN calls /\ Says(calls[j], {"A"}, id)
      BY <1>0, <1>2, <2>5
    <3>2. open # Null
      BY <2>1, <3>1 DEF WordOf
    <3>3. left = open
      BY <2>2, <2>5 DEF Effect
    <3> QED
      BY <3>2, <3>3
  <2> QED
    BY <2>4, <2>5
<1>3. ASSUME Undisputed(more, id)
      PROVE  left = Replayed(more, id)
  <2>1. Undisputed(calls, id)
    BY <1>3, UndisputedBefore
  <2>2. open = Replayed(calls, id)
    BY <2>1 DEF WordOf
  <2>3. left = AfterCall(open, id, x)
    BY <1>3, EffectIsSaid
  <2> QED
    BY <2>2, <2>3, ReplayedOneMore
<1>4. WordOf(more, id, left)
  BY <1>1, <1>2, <1>3 DEF WordOf
<1> QED
  BY <1>4

\* What is open is a quantity.
LEMMA OpenIsQuantity ==
  ASSUME StoredInv, NEW id \in Keys
  PROVE  Open(slots, id) \in Nat \cup {Null}
BY StoredTable, OpenTyped

-----------------------------------------------------------------------------
(***************************************************************************)
(* process_message does what its messages say.                             *)
(***************************************************************************)
\* A call of one order has its effect on that order alone.
LEMMA OneOrderHeeds ==
  ASSUME NEW x \in Call, NEW open,
         \A k \in Keys : Open(slots', k) = IF k = x.msg.id THEN open ELSE Open(slots, k),
         open = Effect(Open(slots, x.msg.id), x.msg.id, x)
  PROVE  Heeds(x)
<1>1. \A k \in Keys : k # x.msg.id => Effect(Open(slots, k), k, x) = Open(slots, k)
  BY DEF Effect, Says
<1> QED
  BY <1>1 DEF Heeds

\* An add, whether it is entered or dropped as a repetition,
LEMMA AddHeeds ==
  ASSUME CollisionFree(Announced), StoredInv, NEW x \in Call, Says(x, {"A"}, x.msg.id),
         NEW side \in Sides, NEW price \in Prices, x.msg.id \in Announced,
         ProcessAddOrder(x.msg.id, side, price, x.msg.shares)
  PROVE  StoredInv' /\ Heeds(x)
<1> PICK id : id = x.msg.id
  OBVIOUS
<1> PICK shares : shares = x.msg.shares
  OBVIOUS
<1>1. id \in Keys /\ id \in Announced /\ shares \in Quantities
  BY CallSays
<1>2. \A open : Effect(open, id, x) = IF open = Null THEN shares ELSE open
  BY DEF Effect
<1>3. CASE AddOrder(id, side, price, shares)
  <2>1. /\ StoredInv' /\ Open(slots, id) = Null
        /\ \A k \in Keys : Open(slots', k) = IF k = id THEN shares ELSE Open(slots, k)
    BY <1>1, <1>3, AddOpens
  <2> QED
    BY <1>2, <2>1, OneOrderHeeds
<1>4. CASE Known(id) /\ UNCHANGED bookVars
  <2>1. /\ StoredInv' /\ Open(slots, id) # Null
        /\ \A k \in Keys : Open(slots', k) = Open(slots, k)
    BY <1>1, <1>4, BookVarsStay, LookupOpen DEF Known
  <2>2. \A k \in Keys : Open(slots', k) = IF k = x.msg.id THEN Open(slots, id) ELSE Open(slots, k)
    BY <2>1
  <2> QED
    BY <1>2, <2>1, <2>2, OneOrderHeeds
<1> QED
  BY <1>3, <1>4 DEF ProcessAddOrder

\* an execution of all of an order, of part of it, or of nothing,
LEMMA ExecuteHeeds ==
  ASSUME StoredInv, NEW x \in Call, Says(x, {"E"}, x.msg.id),
         ProcessExecuteOrder(x.msg.id, x.msg.shares)
  PROVE  StoredInv' /\ Heeds(x)
<1> PICK id : id = x.msg.id
  OBVIOUS
<1> PICK shares : shares = x.msg.shares
  OBVIOUS
<1>1. id \in Keys /\ shares \in Quantities
  BY CallSays
<1>2. \A open : Effect(open, id, x) = Spent(open, shares)
  BY DEF Effect, Says
<1>3. CASE ExecuteOrder(id, shares)
  <2> PICK spent : spent = Spent(Open(slots, id), shares)
    OBVIOUS
  <2>1. /\ StoredInv'
        /\ \A k \in Keys : Open(slots', k) = IF k = id THEN spent ELSE Open(slots, k)
    BY <1>1, <1>3, ExecuteOpens
  <2> QED
    BY <1>2, <2>1, OneOrderHeeds
<1>4. CASE /\ Unknown(id) \/ (Known(id) /\ slots[Found(id)].order.remaining = 0)
           /\ UNCHANGED bookVars
  <2>1. StoredInv' /\ \A k \in Keys : Open(slots', k) = Open(slots, k)
    BY <1>4, BookVarsStay
  <2>2. Open(slots, id) = Null \/ Open(slots, id) = 0
    BY <1>1, <1>4, LookupOpen DEF Known, Unknown
  <2>3. Spent(Open(slots, id), shares) = Open(slots, id)
    BY <2>2 DEF Spent, Less
  <2>4. \A k \in Keys : Open(slots', k) = IF k = x.msg.id THEN Open(slots, id) ELSE Open(slots, k)
    BY <2>1
  <2> QED
    BY <1>2, <2>1, <2>3, <2>4, OneOrderHeeds
<1> QED
  BY <1>3, <1>4 DEF ProcessExecuteOrder

\* a removal by any of the other messages,
LEMMA RemovalHeeds ==
  ASSUME StoredInv, NEW x \in Call, Says(x, {"X", "D", "U"}, x.msg.id),
         CancelOrder(x.msg.id) \/ (Unknown(x.msg.id) /\ UNCHANGED bookVars)
  PROVE  StoredInv' /\ Heeds(x)
<1> PICK id : id = x.msg.id
  OBVIOUS
<1>1. id \in Keys
  BY CallSays
<1>2. \A open : Effect(open, id, x) = Null
  BY DEF Effect, Says
<1>3. CASE CancelOrder(id)
  <2>1. /\ StoredInv'
        /\ \A k \in Keys : Open(slots', k) = IF k = id THEN Null ELSE Open(slots, k)
    BY <1>1, <1>3, CancelOpens
  <2> QED
    BY <1>2, <2>1, OneOrderHeeds
<1>4. CASE Unknown(id) /\ UNCHANGED bookVars
  <2>1. /\ StoredInv' /\ Open(slots, id) = Null
        /\ \A k \in Keys : Open(slots', k) = Open(slots, k)
    BY <1>1, <1>4, BookVarsStay, LookupOpen DEF Unknown
  <2>2. \A k \in Keys : Open(slots', k) = IF k = x.msg.id THEN Null ELSE Open(slots, k)
    BY <2>1
  <2> QED
    BY <1>2, <2>1, <2>2, OneOrderHeeds
<1> QED
  BY <1>3, <1>4

\* and a call that says nothing of any order.
LEMMA NothingHeeds ==
  ASSUME StoredInv, NEW x \in Call, UNCHANGED bookVars,
         x.msg.type \in {"S", "P"} \/ ~(x.len >= StructSize[x.msg.type])
  PROVE  StoredInv' /\ Heeds(x)
<1>1. \A k : ~Says(x, {"A"}, k) /\ ~Says(x, {"E"}, k) /\ ~Says(x, {"X", "D", "U"}, k)
  BY DEF Says
<1>2. \A k \in Keys : Effect(Open(slots, k), k, x) = Open(slots, k)
  BY <1>1 DEF Effect
<1> QED
  BY <1>2, BookVarsStay DEF Heeds

\* process_message keeps the book in order and does what its message says.
LEMMA MessageHeeds ==
  ASSUME CollisionFree(Announced), StoredInv, NEW m \in Messages, NEW len \in Nat,
         m.type = "A" => m.id \in Announced, ProcessMessage(m, len)
  PROVE  StoredInv' /\ Heeds([msg |-> m, len |-> len])
<1> PICK x : x = [msg |-> m, len |-> len]
  OBVIOUS
<1>1. x \in Call /\ x.msg = m /\ x.len = len
  BY DEF Call
<1>2. /\ m.type \in DOMAIN StructSize \cup {"S"} /\ m.id \in Keys /\ m.newId \in Keys
      /\ m.shares \in Quantities
  BY DEF Messages
<1>3. \A t \in DOMAIN StructSize : StructSize[t] >= 16 /\ StructSize[t] \in Nat
  BY DEF StructSize
<1>4. CASE len < 3 /\ UNCHANGED handlerVars
  <2>1. UNCHANGED bookVars
    BY <1>4 DEF handlerVars
  <2>2. m.type # "S" => ~(len >= StructSize[m.type])
    <3>1. m.type # "S" => StructSize[m.type] >= 16 /\ StructSize[m.type] \in Nat
      BY <1>2, <1>3
    <3> QED
      BY <1>4, <3>1
  <2> QED
    BY <1>1, <2>1, <2>2, NothingHeeds
<1>5. CASE ~Understood(m, len) /\ Reject
  <2>1. UNCHANGED bookVars
    BY <1>5 DEF Reject
  <2>2. m.type # "S" => ~(len >= StructSize[m.type])
    BY <1>2, <1>5 DEF Understood
  <2> QED
    BY <1>1, <2>1, <2>2, NothingHeeds
<1>6. CASE Understood(m, len) /\ Dispatched(m)
  <2>0. \A T : m.type \in T => Says(x, T, m.id)
    BY <1>1, <1>6 DEF Understood, Says
  <2>1. CASE m.type = "A" /\ ProcessAddOrder(m.id, Terms[m.id].side, Terms[m.id].price, m.shares)
    <3>1. /\ Terms[m.id].side \in Sides /\ Terms[m.id].price \in Prices
          /\ Says(x, {"A"}, m.id) /\ m.id \in Announced
      BY <1>2, <2>0, <2>1, TermsTyped
    <3> QED
      BY <1>1, <2>1, <3>1, AddHeeds
  <2>2. CASE m.type = "E" /\ ProcessExecuteOrder(m.id, m.shares)
    <3>1. Says(x, {"E"}, m.id)
      BY <2>0, <2>2
    <3> QED
      BY <1>1, <2>2, <3>1, ExecuteHeeds
  <2>3. CASE \/ m.type = "X" /\ ProcessCancelOrder(m.id, m.shares)
             \/ m.type = "D" /\ ProcessDeleteOrder(m.id)
             \/ m.type = "U" /\ ProcessReplaceOrder(m.id, m.newId, m.shares, Terms[m.newId].price)
    <3>1. Says(x, {"X", "D", "U"}, m.id)
      BY <2>0, <2>3
    <3>2. CancelOrder(m.id) \/ (Unknown(m.id) /\ UNCHANGED bookVars)
      BY <2>3 DEF ProcessCancelOrder, ProcessDeleteOrder, ProcessReplaceOrder
    <3> QED
      BY <1>1, <3>1, <3>2, RemovalHeeds
  <2>4. CASE m.type = "P" /\ ProcessTrade
    <3>1. UNCHANGED bookVars
      BY <2>4 DEF ProcessTrade
    <3> QED
      BY <1>1, <2>4, <3>1, NothingHeeds
  <2>5. CASE m.type # "P" /\ ProcessForever(m.id)
    <3>1. UNCHANGED <<slots, levels, size>> /\ spinning'
      BY <2>5 DEF ProcessForever, ProbeForever
    <3> QED
      BY <3>1, NothingOpens DEF Heeds
  <2> QED
    BY <1>6, <2>1, <2>2, <2>3, <2>4, <2>5 DEF Dispatched
<1>7. StoredInv' /\ Heeds(x)
  BY <1>4, <1>5, <1>6 DEF ProcessMessage
<1> QED
  BY <1>7

\* process_message is a step of the handler, or none.
LEMMA MessageIsStep ==
  ASSUME NEW m \in Messages, NEW len \in Nat, m.type = "A" => m.id \in Announced,
         ProcessMessage(m, len)
  PROVE  [HandlerNext]_handlerVars
<1>1. /\ m.id \in Keys /\ Terms[m.id].side \in Sides /\ Terms[m.id].price \in Prices
      /\ m.shares \in Quantities /\ m.newId \in Keys /\ Terms[m.newId].price \in Prices
  BY TermsTyped DEF Messages
<1>2. CASE UNCHANGED handlerVars \/ Reject
  BY <1>2 DEF HandlerNext
<1>3. CASE Dispatched(m)
  <2>1. CASE m.type = "A" /\ ProcessAddOrder(m.id, Terms[m.id].side, Terms[m.id].price, m.shares)
    BY <1>1, <2>1 DEF HandlerNext
  <2>2. CASE \/ ProcessExecuteOrder(m.id, m.shares)
             \/ ProcessCancelOrder(m.id, m.shares)
    BY <1>1, <2>2 DEF HandlerNext
  <2>3. CASE ProcessDeleteOrder(m.id)
    BY <1>1, <2>3 DEF HandlerNext
  <2>4. CASE ProcessReplaceOrder(m.id, m.newId, m.shares, Terms[m.newId].price)
    BY <1>1, <2>4 DEF HandlerNext
  <2>5. CASE ProcessTrade \/ ProcessForever(m.id)
    BY <1>1, <2>5 DEF HandlerNext
  <2> QED
    BY <1>3, <2>1, <2>2, <2>3, <2>4, <2>5 DEF Dispatched
<1> QED
  BY <1>2, <1>3 DEF ProcessMessage

\* The block that the framing loop is at.
LEMMA BlockDue ==
  ASSUME ParseInv, ParseBlock
  PROVE  /\ Block.len \in Nat /\ Block.msg \in Messages
         /\ Block.msg.type = "A" => Block.msg.id \in Announced
<1>1. stage = "blocks" /\ Parsing /\ AtBlock
  BY DEF ParseBlock, Goes, Parsing
<1>2. PICK h \in Seq(GoodPayload), pl \in GoodPayload : TellingOf(h, pl) /\ Payload = pl
  BY <1>1, TellingNow
<1>3. AtBlockOf(pl) /\ PayloadLen(Pkt) = pl.len
  BY <1>1, <1>2 DEF TellingOf
<1>4. /\ block \in 1 .. Len(pl.blocks) /\ Block = pl.blocks[block]
      /\ Block.len \in Nat /\ Block.msg \in Messages
  BY <1>1, <1>2, <1>3, BlockHere
<1>5. AddsAnnounced(pl) /\ DOMAIN pl.blocks = 1 .. Len(pl.blocks)
  BY PayloadTyped, BlocksTyped DEF GoodPayload
<1> QED
  BY <1>4, <1>5 DEF AddsAnnounced

\* The payload told as one message.
LEMMA RawDue ==
  ASSUME ParseInv, FallBack
  PROVE  /\ PayloadLen(Pkt) \in Nat /\ Payload.raw \in Messages
         /\ Payload.raw.type = "A" => Payload.raw.id \in Announced
<1>1. stage = "raw" /\ Parsing
  BY DEF FallBack, Goes, Parsing
<1>2. PICK h \in Seq(GoodPayload), pl \in GoodPayload : TellingOf(h, pl) /\ Payload = pl
  BY <1>1, TellingNow
<1>3. PayloadLen(Pkt) = pl.len
  BY <1>2 DEF TellingOf
<1>4. pl.len \in Nat /\ pl.raw \in Messages /\ AddsAnnounced(pl)
  BY PayloadTyped DEF GoodPayload
<1> QED
  BY <1>2, <1>3, <1>4 DEF AddsAnnounced

\* Every step of the receiver is a step of the handler, or leaves it alone.
LEMMA ReceiverStepsHandler ==
  ASSUME ParseInv, [PipelineNext]_vars
  PROVE  [HandlerNext]_handlerVars
<1>1. CASE ParseBlock
  <2>1. ProcessMessage(Block.msg, Block.len)
    BY <1>1 DEF ParseBlock
  <2> QED
    BY <1>1, <2>1, BlockDue, MessageIsStep
<1>2. CASE FallBack
  <2>1. ProcessMessage(Payload.raw, PayloadLen(Pkt))
    BY <1>2 DEF FallBack
  <2> QED
    BY <1>2, <2>1, RawDue, MessageIsStep
<1>3. CASE \/ BringUp \/ PollPort \/ SkipPacket \/ AcceptPacket \/ EndBlocks
           \/ (\E cycles \in Cycles : Record(cycles)) \/ Report \/ LeaveLoop
  BY <1>3 DEF BringUp, PollPort, SkipPacket, AcceptPacket, EndBlocks, Record, Report, LeaveLoop
<1>4. CASE Signal \/ Feed \/ OtherApplication \/ Stopped \/ UNCHANGED vars
  BY <1>4 DEF Signal, Feed, OtherApplication, Stopped, vars
<1> QED
  BY <1>1, <1>2, <1>3, <1>4 DEF PipelineNext, Main

\* The calls told so far are calls.
LEMMA LogTyped ==
  ASSUME ParseInv
  PROVE  log \in Seq(Call)
<1>1. CASE ~Parsing
  BY <1>1, OwedTyped DEF ParseInv
<1>2. CASE Parsing
  <2>1. PICK h \in Seq(GoodPayload), pl \in GoodPayload : TellingOf(h, pl) /\ Owed(h) \in Seq(Call)
    BY <1>2, TellingNow
  <2>2. CASE stage = "blocks"
    <3>1. block - 1 \in WholeBlocks(pl) /\ log = Owed(h) \o Told(pl, block - 1)
      BY <2>1, <2>2 DEF TellingOf, AtBlockOf
    <3>2. Told(pl, block - 1) \in Seq(Call)
      BY <3>1, CallsTyped
    <3> QED
      BY <2>1, <3>1, <3>2, ConcatProperties
  <2>3. CASE stage = "raw"
    BY <2>1, <2>3 DEF TellingOf
  <2> QED
    BY <1>2, <2>2, <2>3 DEF Parsing
<1> QED
  BY <1>1, <1>2

\* A message told keeps the book and what was heard together.
LEMMA MessageKeepsBook ==
  ASSUME CollisionFree(Announced), ParseInv, StoredInv, WordInv, ~spinning, NEW m \in Messages,
         NEW len \in Nat, m.type = "A" => m.id \in Announced, ProcessMessage(m, len)
  PROVE  StoredInv' /\ WordInv'
<1> PICK x : x = [msg |-> m, len |-> len]
  OBVIOUS
<1>1. x \in Call /\ log' = Append(log, x)
  BY DEF Call, ProcessMessage
<1>2. StoredInv' /\ Heeds(x)
  BY MessageHeeds
<1>3. ASSUME ~spinning', NEW id \in Keys
      PROVE  WordOf(log', id, Open(slots', id))
  <2>1. WordOf(log, id, Open(slots, id)) /\ Open(slots, id) \in Nat \cup {Null}
    BY OpenIsQuantity DEF WordInv
  <2>2. Open(slots', id) = Effect(Open(slots, id), id, x)
    BY <1>2, <1>3 DEF Heeds
  <2> QED
    BY <1>1, <2>1, <2>2, LogTyped, WordOfOneMore
<1> QED
  BY <1>2, <1>3 DEF WordInv

\* A step that tells nothing keeps them too.
LEMMA SilenceKeepsBook ==
  ASSUME StoredInv, WordInv, UNCHANGED <<handlerVars, log>>
  PROVE  StoredInv' /\ WordInv'
<1>1. UNCHANGED bookVars /\ UNCHANGED <<slots, spinning, log>>
  BY DEF handlerVars, bookVars
<1>2. StoredInv'
  BY <1>1, BookVarsStay
<1> QED
  BY <1>1, <1>2 DEF WordInv

\* Every step of the receiver keeps them.
LEMMA BookNextKeeps ==
  ASSUME CollisionFree(Announced), ParseInv, StoredInv, WordInv, [PipelineNext]_vars
  PROVE  StoredInv' /\ WordInv'
<1>1. CASE ParseBlock
  <2>1. ~spinning /\ ProcessMessage(Block.msg, Block.len)
    BY <1>1 DEF ParseBlock, Goes
  <2> QED
    BY <1>1, <2>1, BlockDue, MessageKeepsBook
<1>2. CASE FallBack
  <2>1. ~spinning /\ ProcessMessage(Payload.raw, PayloadLen(Pkt))
    BY <1>2 DEF FallBack, Goes
  <2> QED
    BY <1>2, <2>1, RawDue, MessageKeepsBook
<1>3. CASE \/ BringUp \/ PollPort \/ SkipPacket \/ AcceptPacket \/ EndBlocks
           \/ (\E cycles \in Cycles : Record(cycles)) \/ Report \/ LeaveLoop
  <2>1. UNCHANGED <<handlerVars, log>>
    BY <1>3 DEF BringUp, PollPort, SkipPacket, AcceptPacket, EndBlocks, Record, Report, LeaveLoop,
                parseVars
  <2> QED
    BY <2>1, SilenceKeepsBook
<1>4. CASE Signal \/ Feed \/ OtherApplication \/ Stopped \/ UNCHANGED vars
  <2>1. UNCHANGED <<handlerVars, log>>
    BY <1>4 DEF Signal, Feed, OtherApplication, Stopped, vars, mainVars
  <2> QED
    BY <2>1, SilenceKeepsBook
<1> QED
  BY <1>1, <1>2, <1>3, <1>4 DEF PipelineNext, Main

\* They hold initially.
LEMMA BookInitHolds ==
  ASSUME PipelineInit
  PROVE  StoredInv /\ WordInv
<1>1. Init /\ slots = EmptyTable /\ log = <<>>
  BY DEF PipelineInit, HandlerInit, Init
<1>2. StoredInv
  BY <1>1, EmptyStored
<1>3. ASSUME NEW id \in Keys
      PROVE  WordOf(log, id, Open(slots, id))
  <2>1. Open(slots, id) = Null /\ Replayed(log, id) = Null
    BY <1>1, EmptyOpens, ReplayedOneMore
  <2> QED
    BY <1>1, <2>1 DEF WordOf
<1> QED
  BY <1>2, <1>3 DEF WordInv

\* They hold always.
LEMMA BookHolds ==
  ASSUME CollisionFree(Announced)
  PROVE  PipelineSpec => [](ReceiverInv /\ FedInv /\ ParseInv /\ StoredInv /\ WordInv)
<1>1. PipelineInit => StoredInv /\ WordInv
  BY BookInitHolds
<1>2. ParseInv /\ StoredInv /\ WordInv /\ [PipelineNext]_vars => (StoredInv /\ WordInv)'
  BY BookNextKeeps
<1> QED
  BY <1>1, <1>2, ParseInvHolds, PTL DEF PipelineSpec

(* Whatever the network loses, repeats or reorders and whatever other      *)
(* hosts send, executions of part of an order included: what is open of an *)
(* order in the receiver's book is what a replay of the messages heard     *)
(* leaves of it, if none of them is a cancel of part of it or a            *)
(* replacement by it; for every feed, book and table, when the announced   *)
(* references do not collide.                                              *)
THEOREM BookAlwaysReplaysLog ==
  ASSUME CollisionFree(Announced)
  PROVE  PipelineSpec => []BookReplaysLog
<1>1. StoredInv /\ WordInv => BookReplaysLog
  <2> SUFFICES ASSUME StoredInv, WordInv, ~spinning, NEW id \in Keys, Undisputed(log, id)
               PROVE  Rests(id, Replayed(log, id))
    BY DEF BookReplaysLog
  <2>1. Open(slots, id) = Replayed(log, id)
    BY DEF WordInv, WordOf
  <2> QED
    BY <2>1, RestsIsOpen
<1> QED
  BY <1>1, BookHolds, PTL

(* A subscriber to the events of the receiver's handler agrees with its    *)
(* book, on all orders but those of which a partial cancel or a            *)
(* replacement has led it astray.                                          *)
THEOREM ReceiverMirrorsBook ==
  ASSUME CollisionFree(Announced)
  PROVE  PipelineSpec => []MirrorMatchesBook
<1>1. PipelineInit => MirrorInv
  BY MirrorStart DEF PipelineInit
<1>2. ParseInv /\ MirrorInv /\ [PipelineNext]_vars => MirrorInv'
  BY ReceiverStepsHandler, MirrorStep
<1>3. MirrorInv => MirrorMatchesBook
  BY MirrorMatches
<1> QED
  BY <1>1, <1>2, <1>3, ParseInvHolds, PTL DEF PipelineSpec

-----------------------------------------------------------------------------
(***************************************************************************)
(* The orders the sender regards as live.  It cancels what it forgets and  *)
(* forgets what it cancels, so none of them has a cancel under way; and no *)
(* cancel is told to the handler that was not sent.                        *)
(***************************************************************************)
Cancels(msgs, ref) == \E j \in DOMAIN msgs : msgs[j].type = "X" /\ msgs[j].id = ref

Cancelled(ref) == \E k \in DOMAIN sent : Cancels(sent[k], ref)

LiveInv ==
  /\ nextRef \in Nat /\ NoRepeats(live)
  /\ \A ref \in Range(live) : ref < nextRef
  /\ \A ref \in Refs : Cancels(batch, ref) \/ Cancelled(ref) => ref < nextRef /\ ref \notin Range(live)

\* A queue without repetitions, with one reference more,
LEMMA AppendFresh ==
  ASSUME NEW S, NEW s \in Seq(S), NoRepeats(s), NEW x \in S, x \notin Range(s)
  PROVE  NoRepeats(Append(s, x)) /\ Range(Append(s, x)) = Range(s) \cup {x}
<1> DEFINE t == Append(s, x)
           n == Len(s)
<1>1. /\ n \in Nat /\ DOMAIN s = 1 .. n /\ DOMAIN t = 1 .. n + 1 /\ Len(t) = n + 1
      /\ \A i \in 1 .. n : t[i] = s[i]
      /\ t[n + 1] = x
  <2>1. t \in Seq(S)
    BY AppendSeq
  <2> QED
    BY <2>1, AppendSeq, SeqTyped
<1> HIDE DEF t, n
<1>2. \A i \in 1 .. n : t[i] # x
  BY <1>1 DEF Range
<1>3. NoRepeats(t)
  <2>1. \A i, j \in 1 .. n : s[i] = s[j] => i = j
    BY DEF NoRepeats, n
  <2> SUFFICES ASSUME NEW i \in 1 .. n + 1, NEW j \in 1 .. n + 1, t[i] = t[j]
               PROVE  i = j
    BY <1>1 DEF NoRepeats
  <2>2. (i \in 1 .. n \/ i = n + 1) /\ (j \in 1 .. n \/ j = n + 1)
    BY <1>1
  <2> QED
    BY <1>1, <1>2, <2>1, <2>2
<1>4. Range(t) = Range(s) \cup {x}
  <2>1. Range(t) = {t[i] : i \in 1 .. n + 1} /\ Range(s) = {s[i] : i \in 1 .. n}
    BY <1>1 DEF Range
  <2>2. \A i \in 1 .. n + 1 : i \in 1 .. n \/ i = n + 1
    BY <1>1
  <2>3. n + 1 \in 1 .. n + 1 /\ \A i \in 1 .. n : i \in 1 .. n + 1
    BY <1>1
  <2> QED
    BY <1>1, <2>1, <2>2, <2>3
<1> QED
  BY <1>3, <1>4 DEF t

\* without its oldest,
LEMMA TailDistinct ==
  ASSUME NEW S, NEW s \in Seq(S), NoRepeats(s), s # <<>>
  PROVE  NoRepeats(Tail(s)) /\ Range(Tail(s)) \subseteq Range(s)
<1>1. /\ Tail(s) \in Seq(S) /\ Len(Tail(s)) = Len(s) - 1 /\ Len(s) > 0
      /\ \A i \in 1 .. Len(s) - 1 : Tail(s)[i] = s[i + 1]
  BY TailSeq
<1>2. Len(s) \in Nat /\ DOMAIN s = 1 .. Len(s) /\ DOMAIN Tail(s) = 1 .. Len(s) - 1
  BY <1>1, SeqTyped
<1>3. \A i \in 1 .. Len(s) - 1 : i + 1 \in 1 .. Len(s)
  BY <1>2
<1>4. NoRepeats(Tail(s))
  <2> SUFFICES ASSUME NEW i \in 1 .. Len(s) - 1, NEW j \in 1 .. Len(s) - 1, Tail(s)[i] = Tail(s)[j]
               PROVE  i = j
    BY <1>1 DEF NoRepeats
  <2>1. i + 1 = j + 1
    BY <1>1, <1>3 DEF NoRepeats
  <2> QED
    BY <1>2, <2>1
<1> QED
  BY <1>1, <1>2, <1>3, <1>4 DEF Range

\* and without one of them.
LEMMA RemoveDistinct ==
  ASSUME NEW S, NEW s \in Seq(S), NoRepeats(s), NEW i \in DOMAIN s
  PROVE  /\ NoRepeats(RemoveAt(s, i)) /\ Range(RemoveAt(s, i)) \subseteq Range(s)
         /\ s[i] \notin Range(RemoveAt(s, i))
<1> DEFINE r == RemoveAt(s, i)
           n == Len(s)
           old(j) == IF j < i THEN j ELSE j + 1
<1>1. /\ r \in Seq(S) /\ Len(r) = n - 1
      /\ \A j \in 1 .. n - 1 : r[j] = IF j < i THEN s[j] ELSE s[j + 1]
  BY RemoveAtIs
<1>2. n \in Nat /\ DOMAIN s = 1 .. n /\ DOMAIN r = 1 .. n - 1
  BY <1>1, SeqTyped
<1> HIDE DEF r, n
<1>3. \A j \in 1 .. n - 1 : old(j) \in 1 .. n /\ old(j) # i /\ r[j] = s[old(j)]
  BY <1>1, <1>2
<1>4. \A j, k \in 1 .. n - 1 : old(j) = old(k) => j = k
  BY <1>2
<1>5. \A j, k \in 1 .. n : s[j] = s[k] => j = k
  BY DEF NoRepeats, n
<1> HIDE DEF old
<1>6. NoRepeats(r)
  BY <1>1, <1>3, <1>4, <1>5 DEF NoRepeats
<1>7. Range(r) \subseteq Range(s) /\ s[i] \notin Range(r)
  BY <1>2, <1>3, <1>5 DEF Range
<1> QED
  BY <1>6, <1>7 DEF r

\* The cancels of a frame with one message more.
LEMMA CancelsAppend ==
  ASSUME NEW S, NEW msgs \in Seq(S), NEW m \in S, NEW ref
  PROVE  Cancels(Append(msgs, m), ref) <=> Cancels(msgs, ref) \/ (m.type = "X" /\ m.id = ref)
<1> DEFINE n == Len(msgs)
           t == Append(msgs, m)
<1>1. /\ n \in Nat /\ DOMAIN msgs = 1 .. n /\ DOMAIN t = 1 .. n + 1
      /\ \A i \in 1 .. n : t[i] = msgs[i]
      /\ t[n + 1] = m
  <2>1. t \in Seq(S)
    BY AppendSeq
  <2> QED
    BY <2>1, AppendSeq, SeqTyped
<1> HIDE DEF t, n
<1>2. /\ \A i \in 1 .. n + 1 : i \in 1 .. n \/ i = n + 1
      /\ n + 1 \in 1 .. n + 1 /\ \A i \in 1 .. n : i \in 1 .. n + 1
  BY <1>1
<1>3. Cancels(t, ref) <=> Cancels(msgs, ref) \/ (m.type = "X" /\ m.id = ref)
  BY <1>1, <1>2 DEF Cancels
<1> QED
  BY <1>3 DEF t

\* The cancels of the frames sent, when one more is.
LEMMA CancelledAppend ==
  ASSUME NEW S, sent \in Seq(S), batch \in S, sent' = Append(sent, batch), NEW ref
  PROVE  Cancelled(ref)' <=> Cancelled(ref) \/ Cancels(batch, ref)
<1> DEFINE n == Len(sent)
<1> PICK t : t = Append(sent, batch)
  OBVIOUS
<1>1. /\ n \in Nat /\ DOMAIN sent = 1 .. n /\ DOMAIN t = 1 .. n + 1
      /\ \A i \in 1 .. n : t[i] = sent[i]
      /\ t[n + 1] = batch
  <2>1. t \in Seq(S)
    BY AppendSeq
  <2> QED
    BY <2>1, AppendSeq, SeqTyped
<1> HIDE DEF n
<1>2. /\ \A i \in 1 .. n + 1 : i \in 1 .. n \/ i = n + 1
      /\ n + 1 \in 1 .. n + 1 /\ \A i \in 1 .. n : i \in 1 .. n + 1
  BY <1>1
<1>3. Cancelled(ref)' <=> \E k \in DOMAIN t : Cancels(t[k], ref)
  BY DEF Cancelled, Cancels
<1> QED
  BY <1>1, <1>2, <1>3 DEF Cancelled

\* Every step of the sender keeps LiveInv.
LEMMA LiveStep ==
  ASSUME FeedTyped, LiveInv, FeedNext
  PROVE  LiveInv'
<1>1. /\ live \in Seq(Refs) /\ batch \in Seq(FeedMessage) /\ batch \in FeedFrame
      /\ sent \in Seq(FeedFrame) /\ Len(live) \in Nat /\ Refs \subseteq Nat
      /\ DOMAIN live = 1 .. Len(live)
  BY RefsAreKeys DEF FeedTyped, FeedFrame
<1>2. ASSUME NEW type \in {"A", "X", "P"}, NEW new \in Refs, Generates(type, new), NEW ref
      PROVE  /\ Cancelled(ref)' = Cancelled(ref)
             /\ Cancels(batch', ref) <=> Cancels(batch, ref) \/ (type = "X" /\ new = ref)
  <2>1. batch' = Append(batch, [type |-> type, id |-> new]) /\ sent' = sent
    BY <1>2 DEF Generates
  <2>2. [type |-> type, id |-> new] \in FeedMessage
    BY DEF FeedMessage
  <2> PICK m : m = [type |-> type, id |-> new]
    OBVIOUS
  <2>3. Cancels(Append(batch, m), ref) <=> Cancels(batch, ref) \/ (m.type = "X" /\ m.id = ref)
    BY <1>1, <2>2, CancelsAppend
  <2>4. m.type = type /\ m.id = new
    OBVIOUS
  <2> QED
    BY <2>1, <2>3, <2>4 DEF Cancelled
<1>3. CASE GenerateAdd
  <2>1. /\ nextRef \in Refs /\ Generates("A", nextRef) /\ nextRef' = nextRef + 1
        /\ live' = IF Len(live) = LiveCap THEN Append(Tail(live), nextRef) ELSE Append(live, nextRef)
    BY <1>3 DEF GenerateAdd
  <2>2. PICK kept \in Seq(Refs) : /\ live' = Append(kept, nextRef) /\ NoRepeats(kept)
                                  /\ Range(kept) \subseteq Range(live)
    <3>1. CASE Len(live) = LiveCap
      <4>1. live # <<>>
        BY <3>1, BatchAssumption
      <4> QED
        BY <1>1, <2>1, <3>1, <4>1, TailSeq, TailDistinct DEF LiveInv
    <3>2. CASE Len(live) # LiveCap
      BY <1>1, <2>1, <3>2 DEF LiveInv
    <3> QED
      BY <3>1, <3>2
  <2>3. nextRef \notin Range(live) /\ nextRef \in Nat
    BY DEF LiveInv
  <2>4. NoRepeats(live') /\ Range(live') = Range(kept) \cup {nextRef}
    <3>1. nextRef \notin Range(kept)
      BY <2>2, <2>3
    <3>2. /\ NoRepeats(Append(kept, nextRef))
          /\ Range(Append(kept, nextRef)) = Range(kept) \cup {nextRef}
      BY <2>1, <2>2, <3>1, AppendFresh
    <3> QED
      BY <2>2, <3>2
  <2>5. \A ref \in Range(live') : ref < nextRef'
    <3>1. Range(live) \subseteq Nat
      <4>1. \A i \in DOMAIN live : live[i] \in Refs
        BY <1>1
      <4> QED
        BY <1>1, <4>1 DEF Range
    <3> QED
      BY <2>1, <2>2, <2>3, <2>4, <3>1 DEF LiveInv
  <2>6. ASSUME NEW ref \in Refs, Cancels(batch', ref) \/ Cancelled(ref)'
        PROVE  ref < nextRef' /\ ref \notin Range(live')
    <3>1. Cancels(batch, ref) \/ Cancelled(ref)
      BY <1>2, <2>1, <2>6
    <3>2. ref < nextRef /\ ref \notin Range(live) /\ ref \in Nat
      BY <1>1, <3>1 DEF LiveInv
    <3> QED
      BY <2>1, <2>2, <2>3, <2>4, <3>2
  <2> QED
    BY <2>1, <2>3, <2>4, <2>5, <2>6 DEF LiveInv
<1>4. CASE GenerateCancel
  <2>1. PICK i \in DOMAIN live : Generates("X", live[i]) /\ live' = RemoveAt(live, i)
    BY <1>4 DEF GenerateCancel
  <2>2. nextRef' = nextRef /\ live[i] \in Refs /\ live[i] \in Range(live)
    BY <1>1, <1>4 DEF GenerateCancel, Range
  <2>3. NoRepeats(live') /\ Range(live') \subseteq Range(live) /\ live[i] \notin Range(live')
    BY <1>1, <2>1, RemoveDistinct DEF LiveInv
  <2>4. ASSUME NEW ref \in Refs, Cancels(batch', ref) \/ Cancelled(ref)'
        PROVE  ref < nextRef' /\ ref \notin Range(live')
    <3>1. Cancels(batch, ref) \/ Cancelled(ref) \/ ref = live[i]
      BY <1>2, <2>1, <2>2, <2>4
    <3> QED
      BY <2>2, <2>3, <3>1 DEF LiveInv
  <2> QED
    BY <2>2, <2>3, <2>4 DEF LiveInv
<1>5. CASE GenerateTrade
  <2>1. PICK i \in DOMAIN live : Generates("P", live[i])
    BY <1>5 DEF GenerateTrade
  <2>2. live' = live /\ nextRef' = nextRef /\ live[i] \in Refs
    BY <1>1, <1>5 DEF GenerateTrade
  <2>3. \A ref : Cancels(batch', ref) \/ Cancelled(ref)' => Cancels(batch, ref) \/ Cancelled(ref)
    BY <1>2, <2>1, <2>2
  <2> QED
    BY <2>2, <2>3 DEF LiveInv
<1>6. CASE SendFrame
  <2>1. sent' = Append(sent, batch) /\ batch' = <<>> /\ live' = live /\ nextRef' = nextRef
    BY <1>6 DEF SendFrame
  <2>2. \A ref : Cancels(batch', ref) \/ Cancelled(ref)' => Cancels(batch, ref) \/ Cancelled(ref)
    <3>1. \A ref : ~Cancels(<<>>, ref)
      BY DEF Cancels
    <3> QED
      BY <1>1, <2>1, <3>1, CancelledAppend
  <2> QED
    BY <2>1, <2>2 DEF LiveInv
<1> QED
  BY <1>3, <1>4, <1>5, <1>6 DEF FeedNext

\* It holds initially.
LEMMA LiveInit == PipelineInit => LiveInv
<1> SUFFICES ASSUME PipelineInit
             PROVE  LiveInv
  OBVIOUS
<1>1. live = <<>> /\ batch = <<>> /\ sent = <<>> /\ nextRef = 1
  BY DEF PipelineInit, FeedInit
<1>2. NoRepeats(live) /\ Range(live) = {} /\ \A ref : ~Cancels(batch, ref) /\ ~Cancelled(ref)
  BY <1>1 DEF NoRepeats, Range, Cancels, Cancelled
<1> QED
  BY <1>1, <1>2 DEF LiveInv

\* Only the sender's steps touch what the sender holds.
LEMMA FeedOrNot == ASSUME [PipelineNext]_vars PROVE (Feed /\ FeedNext) \/ UNCHANGED feedVars
BY DEF PipelineNext, Main, vars, BringUp, PollPort, SkipPacket, AcceptPacket, ParseBlock,
       EndBlocks, FallBack, Record, Report, LeaveLoop, Signal, OtherApplication, Stopped, Feed

\* Every step of the receiver and its feed keeps LiveInv.
LEMMA LiveNextKeeps ==
  ASSUME FeedTyped, LiveInv, [PipelineNext]_vars
  PROVE  LiveInv'
<1>1. CASE FeedNext
  BY <1>1, LiveStep
<1>2. CASE UNCHANGED feedVars
  <2>1. live' = live /\ nextRef' = nextRef /\ batch' = batch /\ sent' = sent
    BY <1>2 DEF feedVars
  <2>2. \A ref : Cancelled(ref)' = Cancelled(ref)
    BY <2>1 DEF Cancelled
  <2> QED
    BY <2>1, <2>2 DEF LiveInv
<1> QED
  BY <1>1, <1>2, FeedOrNot

\* A cancel the handler is told of was sent.
HeardSent == \A i \in DOMAIN heard : \E p \in Arrivals(sent) : heard[i] = p.payload

CancelsSent == \A i \in DOMAIN log : \A ref \in Refs : Says(log[i], {"X"}, ref) => Cancelled(ref)

\* What is sent stays sent.
LEMMA SentGrows ==
  ASSUME FedInv, [PipelineNext]_vars
  PROVE  /\ Arrivals(sent) \subseteq Arrivals(sent')
         /\ \A ref : Cancelled(ref) => Cancelled(ref)'
<1>1. sent \in Seq(FeedFrame) /\ batch \in FeedFrame
  BY DEF FedInv, FeedTyped
<1>2. sent' = sent \/ sent' = Append(sent, batch)
  BY FeedOrNot DEF FeedNext, feedVars, GenerateAdd, GenerateCancel, GenerateTrade, Generates, SendFrame
<1>3. CASE sent' = sent
  BY <1>3 DEF Cancelled
<1>4. CASE sent' = Append(sent, batch)
  BY <1>1, <1>4, ArrivalsGrow, CancelledAppend
<1> QED
  BY <1>2, <1>3, <1>4

\* A cancel among the messages owed for a payload was sent, by the feed.
LEMMA CallsCancel ==
  ASSUME NoForeignCancel, FedInv, NEW p \in Arrivals(sent), NEW i \in DOMAIN Calls(p.payload),
         NEW ref \in Refs, Says(Calls(p.payload)[i], {"X"}, ref)
  PROVE  Cancelled(ref)
<1>1. p \notin Noise
  BY DEF NoForeignCancel
<1>2. PICK msgs \in Range(sent) : p = Wire(Framed(msgs))
  BY <1>1 DEF Arrivals
<1>3. PICK k \in DOMAIN sent : sent[k] = msgs
  BY <1>2 DEF Range
<1>4. msgs \in FeedFrame
  BY <1>3, SeqTyped DEF FedInv, FeedTyped
<1> PICK pl : pl = Framed(msgs)
  OBVIOUS
<1>5. pl \in GoodPayload /\ p.payload = pl
  BY <1>2, <1>4, FramedGood, FrameWellFormed
<1>6. pl.blocks = BlocksOf(msgs) /\ pl.raw.type = "S"
  <2>1. pl = [len    |-> BlockEnds(BlocksOf(msgs))[Len(msgs)],
              count  |-> Len(msgs),
              blocks |-> BlocksOf(msgs),
              raw    |-> Written("S", 1)]
    BY FramedIs
  <2>2. pl.blocks = BlocksOf(msgs) /\ pl.raw = Written("S", 1)
    BY ONLY <2>1
  <2> QED
    BY <2>2, WrittenTyped, RefsAreKeys
<1>7. /\ msgs \in Seq(FeedMessage) /\ Len(BlocksOf(msgs)) = Len(msgs) /\ Len(msgs) \in Nat
      /\ DOMAIN msgs = 1 .. Len(msgs)
      /\ \A j \in 1 .. Len(msgs) : /\ BlocksOf(msgs)[j].msg = WrittenOut(msgs[j])
                                   /\ WrittenOut(msgs[j]).type = msgs[j].type
                                   /\ WrittenOut(msgs[j]).id = msgs[j].id
  BY <1>4, BlocksOfTyped, SeqTyped, FeedMessageTyped DEF FeedFrame
<1>8. /\ Max(WholeBlocks(pl)) \in WholeBlocks(pl) /\ WholeBlocks(pl) \subseteq 0 .. Len(pl.blocks)
      /\ Calls(pl) = <<Raw(pl)>> \/ Calls(pl) = Told(pl, Max(WholeBlocks(pl)))
  BY <1>5, CallsTyped, WholeAre
<1>9. CASE Calls(pl) = <<Raw(pl)>>
  <2>1. i \in DOMAIN <<Raw(pl)>> /\ Says(<<Raw(pl)>>[i], {"X"}, ref)
    BY <1>5, <1>9
  <2>2. i = 1
    BY <2>1
  <2>3. Says(Raw(pl), {"X"}, ref)
    BY <2>1, <2>2
  <2> QED
    BY <1>6, <2>3 DEF Says, Raw
<1>10. CASE Calls(pl) = Told(pl, Max(WholeBlocks(pl)))
  <2> DEFINE n == Max(WholeBlocks(pl))
  <2>1. n \in 0 .. Len(msgs)
    BY <1>6, <1>7, <1>8
  <2> HIDE DEF n
  <2>2. i \in DOMAIN Told(pl, n) /\ Says(Told(pl, n)[i], {"X"}, ref)
    BY <1>5, <1>10 DEF n
  <2>3. i \in 1 .. n /\ Told(pl, n)[i] = [msg |-> pl.blocks[i].msg, len |-> pl.blocks[i].len]
    BY <2>2 DEF Told
  <2>4. Told(pl, n)[i].msg = pl.blocks[i].msg
    BY <2>3
  <2>5. i \in 1 .. Len(msgs) /\ pl.blocks[i].msg = WrittenOut(msgs[i])
    BY <1>6, <1>7, <2>1, <2>3
  <2>6. Cancels(msgs, ref)
    BY <1>7, <2>2, <2>4, <2>5 DEF Says, Cancels
  <2> QED
    BY <1>3, <2>6 DEF Cancelled
<1> QED
  BY <1>8, <1>9, <1>10

\* A message told is one of those owed for the last payload heard.
LEMMA ToldIsOwed ==
  ASSUME ParseInv, ParseBlock \/ FallBack
  PROVE  \E h \in Seq(GoodPayload), pl \in GoodPayload : \E i \in DOMAIN Calls(pl) :
           heard = Append(h, pl) /\ log' = Append(log, Calls(pl)[i])
<1>1. Parsing /\ (ParseBlock => stage = "blocks") /\ (FallBack => stage = "raw")
  BY DEF ParseBlock, FallBack, Goes, Parsing
<1>2. PICK h \in Seq(GoodPayload), pl \in GoodPayload : TellingOf(h, pl) /\ Payload = pl
  BY <1>1, TellingNow
<1>3. heard = Append(h, pl) /\ PayloadLen(Pkt) = pl.len
  BY <1>2 DEF TellingOf
<1>4. CASE ParseBlock
  <2>1. /\ AtBlock /\ Fits(Block) /\ AtBlockOf(pl)
        /\ log' = Append(log, [msg |-> Block.msg, len |-> Block.len])
    BY <1>1, <1>2, <1>4 DEF ParseBlock, ProcessMessage, TellingOf
  <2>2. block \in WholeBlocks(pl) /\ Block = pl.blocks[block]
    BY <1>2, <1>3, <2>1, BlockHere
  <2>3. block \in Nat \ {0} /\ pl.len >= 20 /\ pl.len \in Nat
    BY <2>1, PayloadTyped DEF AtBlockOf, GoodPayload
  <2> DEFINE n == Max(WholeBlocks(pl))
  <2>4. n \in Nat /\ block <= n
    BY <2>2, CallsTyped, WholeAre
  <2>5. Calls(pl) = Told(pl, n)
    <3>1. ~(pl.len < 20 \/ n = 0)
      BY <2>3, <2>4
    <3> QED
      BY <3>1, CallsTyped
  <2> HIDE DEF n
  <2>6. block \in 1 .. n
    BY <2>3, <2>4
  <2>7. /\ block \in DOMAIN Told(pl, n)
        /\ Told(pl, n)[block] = [msg |-> pl.blocks[block].msg, len |-> pl.blocks[block].len]
    BY <2>6 DEF Told
  <2> QED
    BY <1>3, <2>1, <2>2, <2>5, <2>7
<1>5. CASE FallBack
  <2>1. Calls(pl) = <<Raw(pl)>> /\ log' = Append(log, Raw(pl))
    BY <1>1, <1>2, <1>3, <1>5 DEF FallBack, ProcessMessage, TellingOf, Raw
  <2>2. 1 \in DOMAIN <<Raw(pl)>> /\ <<Raw(pl)>>[1] = Raw(pl)
    OBVIOUS
  <2> QED
    BY <1>3, <2>1, <2>2
<1> QED
  BY <1>4, <1>5

\* The payloads heard are those of packets that could arrive,
LEMMA HeardKeeps ==
  ASSUME ReceiverInv, FedInv, ParseInv, HeardSent, [PipelineNext]_vars
  PROVE  HeardSent'
<1>1. CASE heard' = heard
  BY <1>1, SentGrows DEF HeardSent
<1>2. CASE AcceptPacket
  <2>1. heard' = Append(heard, Pkt.payload) /\ stage = "packet"
    BY <1>2 DEF AcceptPacket, Goes
  <2>2. heard \in Seq(GoodPayload)
    BY DEF ParseInv
  <2>3. burst \in Seq(Arrivals(sent)) /\ burst # <<>>
    BY <2>1 DEF FedInv, ReceiverInv, InStage, WithPacket, Bursting
  <2>4. Pkt \in Arrivals(sent)
    <3>1. Pkt = burst[1] /\ Len(burst) > 0 /\ Len(burst) \in Nat
      BY <2>3, TailSeq, SeqTyped DEF Pkt
    <3> QED
      BY <2>3, <3>1, SeqTyped
  <2>5. Pkt.payload \in GoodPayload
    BY <2>4, ArrivalGood DEF FedInv, FeedTyped, WellFormed, GoodPayload
  <2> PICK p : p = Pkt
    OBVIOUS
  <2> PICK g : g = Append(heard, p.payload)
    OBVIOUS
  <2>6. /\ g \in Seq(GoodPayload) /\ Len(g) = Len(heard) + 1 /\ Len(heard) \in Nat
        /\ \A i \in 1 .. Len(heard) : g[i] = heard[i]
        /\ g[Len(heard) + 1] = p.payload
    BY <2>2, <2>5, AppendSeq, SeqTyped
  <2>7. DOMAIN heard = 1 .. Len(heard) /\ DOMAIN g = 1 .. Len(heard) + 1
    BY <2>2, <2>6, SeqTyped
  <2>8. \A i \in DOMAIN g : i \in DOMAIN heard \/ i = Len(heard) + 1
    BY <2>6, <2>7
  <2>9. \A i \in DOMAIN g : \E q \in Arrivals(sent) : g[i] = q.payload
    BY <2>4, <2>6, <2>7, <2>8 DEF HeardSent
  <2>10. heard' = g
    BY <2>1
  <2> QED
    BY <2>9, <2>10, SentGrows DEF HeardSent
<1>3. AcceptPacket \/ heard' = heard
  BY DEF PipelineNext, Main, vars, BringUp, PollPort, SkipPacket, ParseBlock, EndBlocks, FallBack,
         Record, Report, LeaveLoop, Signal, Feed, OtherApplication, Stopped, mainVars, parseVars
<1> QED
  BY <1>1, <1>2, <1>3

\* so the cancels told were sent.
LEMMA CancelsSentKeeps ==
  ASSUME NoForeignCancel, FedInv, ParseInv, HeardSent, CancelsSent, [PipelineNext]_vars
  PROVE  CancelsSent'
<1>1. CASE log' = log
  BY <1>1, SentGrows DEF CancelsSent
<1>2. CASE ParseBlock \/ FallBack
  <2>0. PICK h \in Seq(GoodPayload), pl \in GoodPayload : \E i \in DOMAIN Calls(pl) :
          heard = Append(h, pl) /\ log' = Append(log, Calls(pl)[i])
    BY <1>2, ToldIsOwed
  <2>1. PICK i \in DOMAIN Calls(pl) : heard = Append(h, pl) /\ log' = Append(log, Calls(pl)[i])
    BY <2>0
  <2>2. PICK p \in Arrivals(sent) : pl = p.payload
    <3>1. /\ heard \in Seq(GoodPayload) /\ Len(heard) = Len(h) + 1 /\ heard[Len(h) + 1] = pl
          /\ Len(h) \in Nat
      BY <2>1, AppendSeq, SeqTyped
    <3>2. Len(h) + 1 \in DOMAIN heard
      BY <3>1, SeqTyped
    <3> QED
      BY <3>1, <3>2 DEF HeardSent
  <2> PICK x : x = Calls(pl)[i]
    OBVIOUS
  <2>3. x \in Call /\ log \in Seq(Call)
    BY LogTyped, CallsTyped, SeqTyped
  <2>4. \A ref \in Refs : Says(x, {"X"}, ref) => Cancelled(ref)
    BY <2>2, CallsCancel
  <2> PICK g : g = Append(log, x)
    OBVIOUS
  <2>5. /\ g \in Seq(Call) /\ Len(g) = Len(log) + 1 /\ Len(log) \in Nat
        /\ \A k \in 1 .. Len(log) : g[k] = log[k]
        /\ g[Len(log) + 1] = x
    BY <2>3, AppendSeq, SeqTyped
  <2>6. DOMAIN log = 1 .. Len(log) /\ DOMAIN g = 1 .. Len(log) + 1
    BY <2>3, <2>5, SeqTyped
  <2>7. \A k \in DOMAIN g : k \in DOMAIN log \/ k = Len(log) + 1
    BY <2>5, <2>6
  <2>8. \A k \in DOMAIN g : \A ref \in Refs : Says(g[k], {"X"}, ref) => Cancelled(ref)
    BY <2>4, <2>5, <2>6, <2>7 DEF CancelsSent
  <2>9. log' = g
    BY <2>1
  <2> QED
    BY <2>8, <2>9, SentGrows DEF CancelsSent
<1>3. ParseBlock \/ FallBack \/ log' = log
  BY DEF PipelineNext, Main, vars, BringUp, PollPort, SkipPacket, AcceptPacket, EndBlocks,
         Record, Report, LeaveLoop, Signal, Feed, OtherApplication, Stopped, mainVars, parseVars
<1> QED
  BY <1>1, <1>2, <1>3

\* What is live and what is cancelled, always.
LEMMA LiveHolds ==
  ASSUME NoForeignCancel
  PROVE  PipelineSpec => [](ReceiverInv /\ FedInv /\ ParseInv /\ LiveInv /\ HeardSent /\ CancelsSent)
<1>1. PipelineInit => LiveInv /\ HeardSent /\ CancelsSent
  <2>1. PipelineInit => heard = <<>> /\ log = <<>>
    BY DEF PipelineInit
  <2> QED
    BY <2>1, LiveInit DEF HeardSent, CancelsSent
<1>2. /\ ReceiverInv /\ FedInv /\ ParseInv /\ LiveInv /\ HeardSent /\ CancelsSent
      /\ [PipelineNext]_vars
      => (LiveInv /\ HeardSent /\ CancelsSent)'
  BY LiveNextKeeps, HeardKeeps, CancelsSentKeeps DEF FedInv
<1> QED
  BY <1>1, <1>2, ParseInvHolds, PTL DEF PipelineSpec

(* An order the sender regards as live and whose add was heard rests in    *)
(* the receiver's book, whatever the network lost, repeated or reordered,  *)
(* unless another host removed it: its cancel was never sent.              *)
THEOREM LiveOrdersAlwaysRest ==
  ASSUME CollisionFree(Announced), NoForeignCancel
  PROVE  PipelineSpec => []LiveOrdersRest
<1>1. FedInv /\ ParseInv /\ LiveInv /\ CancelsSent /\ StoredInv /\ WordInv => LiveOrdersRest
  <2> SUFFICES ASSUME FedInv, ParseInv, LiveInv, CancelsSent, StoredInv, WordInv, ~spinning,
                      NEW ref \in Range(live),
                      \E i \in DOMAIN log : Said(i, {"A"}, ref),
                      \A i \in DOMAIN log : ~Said(i, Removals \ {"X"}, ref)
               PROVE  Opened(ref) # {}
    BY DEF LiveOrdersRest
  <2>1. ref \in Refs /\ ref \in Keys
    <3>1. \A i \in DOMAIN live : live[i] \in Refs
      BY DEF FedInv, FeedTyped
    <3> QED
      BY <3>1, RefsAreKeys DEF Range
  <2>2. ~Cancelled(ref)
    BY <2>1 DEF LiveInv
  <2>3. \A i \in DOMAIN log : ~Says(log[i], Removals, ref)
    BY <2>1, <2>2 DEF CancelsSent, Said, Says, Removals
  <2>4. Open(slots, ref) # Null
    <3>1. WordOf(log, ref, Open(slots, ref))
      BY <2>1 DEF WordInv
    <3> QED
      BY <2>3, <3>1 DEF WordOf, Said
  <2> QED
    BY <2>1, <2>4, RestsIsOpen DEF Rests
<1> QED
  BY <1>1, BookHolds, LiveHolds, PTL

(***************************************************************************)
(* The histogram: powers of two, what record_ns tallies, and the rank that *)
(* a percentile stands for.                                                *)
(***************************************************************************)
\* One more element doubles the number of subsets.
LEMMA Doubling ==
  ASSUME NEW n \in Nat
  PROVE  /\ 2 ^ n \in Nat \ {0}
         /\ 2 ^ (n + 1) = 2 * 2 ^ n
         /\ IsFiniteSet(SUBSET (1 .. n)) /\ Cardinality(SUBSET (1 .. n)) = 2 ^ n
<1> DEFINE A == SUBSET (1 .. n)
           B == {s \cup {n + 1} : s \in A}
           f == [s \in A |-> s \cup {n + 1}]
<1>1. IsFiniteSet(A) /\ Cardinality(A) = 2 ^ n
  <2>1. IsFiniteSet(1 .. n) /\ Cardinality(1 .. n) = n
    BY FS_Interval
  <2> QED
    BY <2>1, FS_SUBSET
<1>2. Cardinality(SUBSET (1 .. n + 1)) = 2 ^ (n + 1)
  <2>1. IsFiniteSet(1 .. n + 1) /\ Cardinality(1 .. n + 1) = n + 1
    BY FS_Interval
  <2> QED
    BY <2>1, FS_SUBSET
<1>3. ExistsBijection(A, B)
  <2>1. f \in [A -> B]
    OBVIOUS
  <2>2. ASSUME NEW s \in A, NEW r \in A, f[s] = f[r]
        PROVE  s = r
    <3>1. n + 1 \notin s /\ n + 1 \notin r
      OBVIOUS
    <3>2. s \cup {n + 1} = r \cup {n + 1}
      BY <2>2
    <3> QED
      BY <3>1, <3>2
  <2>3. \A t \in B : \E s \in A : f[s] = t
    OBVIOUS
  <2>4. f \in Bijection(A, B)
    BY <2>1, <2>2, <2>3 DEF Bijection, Injection, Surjection, IsInjective
  <2> QED
    BY <2>4 DEF ExistsBijection
<1>4. IsFiniteSet(B) /\ Cardinality(B) = 2 ^ n
  BY <1>1, <1>3, FS_Bijection
<1>5. SUBSET (1 .. n + 1) = A \cup B
  <2>1. ASSUME NEW s \in SUBSET (1 .. n + 1)
        PROVE  s \in A \cup B
    <3>1. s \ {n + 1} \in A
      OBVIOUS
    <3>2. CASE n + 1 \in s
      <4>1. s = (s \ {n + 1}) \cup {n + 1}
        BY <3>2
      <4> QED
        BY <3>1, <4>1, Zenon
    <3>3. CASE n + 1 \notin s
      BY <3>3
    <3> QED
      BY <3>2, <3>3
  <2>2. \A s \in A : s \in SUBSET (1 .. n + 1) /\ s \cup {n + 1} \in SUBSET (1 .. n + 1)
    OBVIOUS
  <2>3. A \subseteq SUBSET (1 .. n + 1) /\ B \subseteq SUBSET (1 .. n + 1)
    BY ONLY <2>2, Zenon DEF B
  <2> HIDE DEF A, B
  <2> QED
    BY ONLY <2>1, <2>3, Zenon
<1>6. A \cap B = {}
  <2>1. \A s \in A : n + 1 \notin s
    OBVIOUS
  <2>2. \A s \in B : n + 1 \in s
    OBVIOUS
  <2> QED
    BY <2>1, <2>2
<1> HIDE DEF A, B
<1>7. Cardinality(A \cup B) = Cardinality(A) + Cardinality(B) - Cardinality(A \cap B)
  BY <1>1, <1>4, FS_Union
<1>8. Cardinality(A \cap B) = 0
  BY <1>6, FS_EmptySet
<1>9. 2 ^ n \in Nat
  BY <1>1, FS_CardinalityType
<1>10. 2 ^ n # 0
  <2>1. {} \in A
    BY DEF A
  <2> QED
    BY <1>1, <2>1, FS_EmptySet
<1>11. Cardinality(A \cup B) = 2 * 2 ^ n
  BY <1>1, <1>4, <1>7, <1>8, <1>9
<1>12. 2 ^ (n + 1) = 2 * 2 ^ n
  BY ONLY <1>2, <1>5, <1>11, Zenon
<1>13. IsFiniteSet(SUBSET (1 .. n)) /\ Cardinality(SUBSET (1 .. n)) = 2 ^ n
  BY <1>1 DEF A
<1> QED
  BY ONLY <1>9, <1>10, <1>12, <1>13

\* The first power.
LEMMA PowerOfZero == 2 ^ 0 = 1
<1>1. Cardinality(SUBSET {}) = 2 ^ Cardinality({})
  BY FS_EmptySet, FS_SUBSET
<1>2. SUBSET {} = {{}}
  OBVIOUS
<1> QED
  BY <1>1, <1>2, FS_EmptySet, FS_Singleton

\* Powers grow.
LEMMA PowersGrow ==
  ASSUME NEW m \in Nat, NEW n \in Nat, m <= n
  PROVE  2 ^ m <= 2 ^ n
<1> DEFINE T == {k \in Nat : m <= k => 2 ^ m <= 2 ^ k}
<1>1. 0 \in T
  <2> SUFFICES ASSUME m <= 0
               PROVE  2 ^ m <= 2 ^ 0
    OBVIOUS
  <2>1. m = 0
    OBVIOUS
  <2>2. 2 ^ m \in Nat /\ 2 ^ m = 2 ^ 0
    BY ONLY <2>1, m \in Nat, Doubling, Zenon
  <2>3. \A a \in Nat : \A b : a = b => a <= b
    OBVIOUS
  <2> QED
    BY ONLY <2>2, <2>3, Zenon
<1>2. ASSUME NEW k \in Nat, k \in T
      PROVE  k + 1 \in T
  <2>1. /\ 2 ^ m \in Nat /\ 2 ^ k \in Nat /\ 2 ^ (k + 1) = 2 * 2 ^ k
    BY Doubling
  <2>2. CASE m <= k
    BY <1>2, <2>1, <2>2
  <2>3. CASE m = k + 1
    BY <2>1, <2>3
  <2> QED
    BY <2>2, <2>3
<1>3. 0 \in T /\ \A k \in Nat : k \in T => k + 1 \in T
  BY <1>1, <1>2
<1>4. Nat \subseteq T
  <2> HIDE DEF T
  <2> QED
    BY <1>3, InductionOnNat
<1> QED
  BY <1>4

\* Every positive number has a highest bit.
LEMMA HighestBit ==
  ASSUME NEW x \in Nat, x > 0, NEW n \in Nat, x < 2 ^ n
  PROVE  \E b \in 0 .. n - 1 : 2 ^ b <= x /\ x < 2 ^ (b + 1)
<1> DEFINE T == {k \in Nat : x < 2 ^ k => \E b \in 0 .. k - 1 : 2 ^ b <= x /\ x < 2 ^ (b + 1)}
<1>1. 0 \in T
  BY PowerOfZero
<1>2. ASSUME NEW k \in Nat, k \in T
      PROVE  k + 1 \in T
  <2>1. 2 ^ k \in Nat
    BY Doubling
  <2>2. CASE x < 2 ^ k
    BY <1>2, <2>2
  <2>3. CASE 2 ^ k <= x
    <3>1. k \in 0 .. (k + 1) - 1
      OBVIOUS
    <3> QED
      BY <2>3, <3>1
  <2> QED
    BY <2>1, <2>2, <2>3
<1>3. 0 \in T /\ \A k \in Nat : k \in T => k + 1 \in T
  BY <1>1, <1>2
<1>4. Nat \subseteq T
  <2> HIDE DEF T
  <2> QED
    BY <1>3, InductionOnNat
<1> QED
  BY <1>4
-----------------------------------------------------------------------------
\* The words of a counter.
LEMMA WordIs == /\ 2 ^ Bits \in Nat /\ 2 ^ Bits > 0
                /\ Word = 0 .. 2 ^ Bits - 1 /\ Word \subseteq Nat
<1>1. 2 ^ Bits \in Nat \ {0}
  BY BitsAssumption, Doubling
<1> QED
  BY <1>1 DEF Word

\* The bucket of a sample.
InBucketOf(x, b) ==
  /\ b \in BucketNumbers
  /\ x = 0 => b = 0
  /\ x > 0 => 2 ^ b <= x /\ x < 2 ^ (b + 1)

\* BucketIndex names the bucket whose powers of two enclose the sample.
LEMMA BucketIs ==
  ASSUME NEW x \in Word
  PROVE  InBucketOf(x, BucketIndex(x))
<1>1. x \in Nat /\ x < 2 ^ Bits
  BY WordIs
<1>2. CASE x = 0
  <2>1. BucketIndex(x) = 0
    BY <1>2 DEF BucketIndex
  <2>2. 0 \in BucketNumbers
    BY BitsAssumption DEF BucketNumbers
  <2> QED
    BY <1>2, <2>1, <2>2 DEF InBucketOf
<1>3. CASE x > 0
  <2>1. Bits \in Nat
    BY BitsAssumption
  <2>2. \E b \in 0 .. Bits - 1 : 2 ^ b <= x /\ x < 2 ^ (b + 1)
    BY <1>1, <1>3, <2>1, HighestBit
  <2>3. PICK b : b = CHOOSE c \in BucketNumbers : 2 ^ c <= x /\ x < 2 ^ (c + 1)
    OBVIOUS
  <2>4. b \in BucketNumbers /\ 2 ^ b <= x /\ x < 2 ^ (b + 1)
    BY ONLY <2>2, <2>3, Zenon DEF BucketNumbers
  <2>5. x # 0
    BY <1>1, <1>3
  <2>6. BucketIndex(x) = b
    BY ONLY <2>3, <2>5, Zenon DEF BucketIndex
  <2> QED
    BY <2>4, <2>5, <2>6 DEF InBucketOf
<1> QED
  BY <1>1, <1>2, <1>3

\* Larger samples are in no lower bucket.
LEMMA BucketsOrdered ==
  ASSUME NEW x \in Word, NEW y \in Word, BucketIndex(x) < BucketIndex(y)
  PROVE  x < y
<1> PICK b : b = BucketIndex(x)
  OBVIOUS
<1> PICK c : c = BucketIndex(y)
  OBVIOUS
<1>1. InBucketOf(x, b) /\ InBucketOf(y, c)
  BY BucketIs
<1>2. b \in Nat /\ c \in Nat /\ b + 1 \in Nat /\ b + 1 <= c
  BY <1>1, BitsAssumption DEF InBucketOf, BucketNumbers
<1>3. 2 ^ (b + 1) <= 2 ^ c /\ 2 ^ (b + 1) \in Nat /\ 2 ^ c \in Nat /\ 2 ^ (b + 1) > 0
  <2>1. 2 ^ (b + 1) <= 2 ^ c
    BY <1>2, PowersGrow
  <2>2. 2 ^ (b + 1) \in Nat \ {0} /\ 2 ^ c \in Nat
    BY <1>2, Doubling
  <2> QED
    BY <2>1, <2>2
<1>4. x \in Nat /\ y \in Nat
  BY WordIs
<1>5. y > 0
  BY <1>1, <1>2, <1>4 DEF InBucketOf
<1> QED
  BY <1>1, <1>3, <1>4, <1>5 DEF InBucketOf

\* The samples of a bucket, and of the first ones.
SamplesIn(s, b)   == {i \in DOMAIN s : BucketIndex(s[i]) = b}
SamplesUpTo(s, b) == {i \in DOMAIN s : BucketIndex(s[i]) <= b}

(* What a histogram has counted: every sample in its bucket, the sum of    *)
(* all to the width of a word, and the extremes.                           *)
Tallied(h, s) ==
  /\ h \in Histogram /\ s \in Seq(Word)
  /\ h.total = Len(s)
  /\ \A b \in BucketNumbers : h.buckets[b] = Cardinality(SamplesIn(s, b))
  /\ h.sum = Total(s, 1 .. Len(s)) % 2 ^ Bits
  /\ \A i \in 1 .. Len(s) : h.min <= s[i] /\ s[i] <= h.max
  /\ s = <<>> => h.min = 2 ^ Bits - 1 /\ h.max = 0
  /\ s # <<>> => \E i, j \in 1 .. Len(s) : h.min = s[i] /\ h.max = s[j]

\* A histogram after reset has tallied no sample.
LEMMA TalliedNothing == Tallied(EmptyHistogram, <<>>)
<1> DEFINE h == EmptyHistogram
           s == <<>>
<1>1. h \in Histogram
  <2>1. 0 \in Word /\ 2 ^ Bits - 1 \in Word /\ 0 \in Nat
    BY WordIs
  <2>2. [b \in BucketNumbers |-> 0] \in [BucketNumbers -> Nat]
    OBVIOUS
  <2> QED
    BY <2>1, <2>2 DEF EmptyHistogram, Histogram
<1>2. s \in Seq(Word) /\ Len(s) = 0 /\ DOMAIN s = {} /\ 1 .. Len(s) = {}
  OBVIOUS
<1>3. h.total = 0 /\ h.sum = 0 /\ h.min = 2 ^ Bits - 1 /\ h.max = 0
  BY DEF EmptyHistogram
<1>4. \A b \in BucketNumbers : h.buckets[b] = 0
  BY DEF EmptyHistogram
<1> HIDE DEF h
<1>5. \A b \in BucketNumbers : h.buckets[b] = Cardinality(SamplesIn(s, b))
  <2>1. \A b : SamplesIn(s, b) = {}
    BY <1>2 DEF SamplesIn
  <2> QED
    BY <1>4, <2>1, FS_EmptySet
<1>6. h.sum = Total(s, 1 .. Len(s)) % 2 ^ Bits
  <2>1. Total(s, {}) = 0
    BY FS_EmptySet, TotalSplit
  <2>2. 0 % 2 ^ Bits = 0
    <3> PICK m \in Nat : m = 2 ^ Bits
      BY WordIs
    <3>1. m > 0
      BY WordIs
    <3>2. 0 % m = 0
      BY ONLY m \in Nat, <3>1
    <3> QED
      BY <3>2
  <2>3. Total(s, 1 .. Len(s)) = 0
    BY <1>2, <2>1
  <2> QED
    BY ONLY <1>3, <2>2, <2>3, Zenon
<1>7. \A i \in 1 .. Len(s) : h.min <= s[i] /\ s[i] <= h.max
  BY <1>2
<1> HIDE DEF s
<1>8. s = <<>>
  BY DEF s
<1>9. Tallied(h, s)
  BY ONLY <1>1, <1>2, <1>3, <1>5, <1>6, <1>7, <1>8, Zenon DEF Tallied
<1> QED
  BY <1>9 DEF h, s
\* A sequence with one more element.
LEMMA OneMore ==
  ASSUME NEW V, NEW s \in Seq(V), NEW x \in V
  PROVE  /\ Append(s, x) \in Seq(V) /\ Len(Append(s, x)) = Len(s) + 1 /\ Len(s) \in Nat
         /\ DOMAIN Append(s, x) = 1 .. Len(s) + 1 /\ DOMAIN s = 1 .. Len(s)
         /\ Append(s, x) # <<>>
         /\ \A i \in 1 .. Len(s) : Append(s, x)[i] = s[i]
         /\ Append(s, x)[Len(s) + 1] = x
OBVIOUS

\* The samples of a bucket are finitely many.
LEMMA SamplesFinite ==
  ASSUME NEW s \in Seq(Word), NEW b
  PROVE  /\ IsFiniteSet(SamplesIn(s, b)) /\ Cardinality(SamplesIn(s, b)) \in Nat
         /\ IsFiniteSet(SamplesUpTo(s, b)) /\ Cardinality(SamplesUpTo(s, b)) \in Nat
<1>1. IsFiniteSet(DOMAIN s)
  <2>1. DOMAIN s = 1 .. Len(s) /\ Len(s) \in Nat
    OBVIOUS
  <2> QED
    BY <2>1, FS_Interval
<1>2. SamplesIn(s, b) \in SUBSET DOMAIN s /\ SamplesUpTo(s, b) \in SUBSET DOMAIN s
  BY DEF SamplesIn, SamplesUpTo
<1> QED
  BY <1>1, <1>2, FS_Subset, FS_CardinalityType

\* A sample more counts in its bucket.
LEMMA BucketGrows ==
  ASSUME NEW s \in Seq(Word), NEW x \in Word, NEW b
  PROVE  Cardinality(SamplesIn(Append(s, x), b)) =
           IF b = BucketIndex(x) THEN Cardinality(SamplesIn(s, b)) + 1
                                 ELSE Cardinality(SamplesIn(s, b))
<1> PICK t : t = Append(s, x)
  OBVIOUS
<1> PICK n : n = Len(s)
  OBVIOUS
<1>1. /\ DOMAIN t = 1 .. n + 1 /\ DOMAIN s = 1 .. n /\ n \in Nat
      /\ \A i \in 1 .. n : t[i] = s[i]
      /\ t[n + 1] = x
  BY OneMore
<1>2. n + 1 \notin SamplesIn(s, b)
  BY <1>1 DEF SamplesIn
<1>3. CASE b = BucketIndex(x)
  <2>1. SamplesIn(t, b) = SamplesIn(s, b) \cup {n + 1}
    BY <1>1, <1>3 DEF SamplesIn
  <2> QED
    BY <1>2, <1>3, <2>1, SamplesFinite, FS_AddElement
<1>4. CASE b # BucketIndex(x)
  <2>1. SamplesIn(t, b) = SamplesIn(s, b)
    BY <1>1, <1>4 DEF SamplesIn
  <2> QED
    BY <1>4, <2>1
<1> QED
  BY <1>3, <1>4

\* The sum grows by a sample more.
LEMMA SumGrows ==
  ASSUME NEW s \in Seq(Nat), NEW x \in Nat
  PROVE  /\ Total(s, 1 .. Len(s)) \in Nat
         /\ Total(Append(s, x), 1 .. Len(s) + 1) = Total(s, 1 .. Len(s)) + x
<1> PICK t : t = Append(s, x)
  OBVIOUS
<1> PICK n : n = Len(s)
  OBVIOUS
<1>1. /\ n \in Nat /\ t \in Seq(Nat) /\ Len(t) = n + 1
      /\ \A i \in 1 .. n : t[i] = s[i]
      /\ t[n + 1] = x
  BY OneMore
<1>2. IsFiniteSet(1 .. n) /\ IsFiniteSet(1 .. n + 1)
  BY <1>1, FS_Interval
<1>3. /\ \A i \in 1 .. n : s[i] \in Nat /\ s[i] = t[i]
      /\ \A i \in 1 .. n + 1 : t[i] \in Nat
  BY <1>1
<1>4. n + 1 \in 1 .. n + 1 /\ (1 .. n + 1) \ {n + 1} = 1 .. n
  BY <1>1
<1>5. Total(t, 1 .. n + 1) = Total(t, (1 .. n + 1) \ {n + 1}) + t[n + 1]
  <2>1. \A i \in 1 .. n + 1 : Total(t, 1 .. n + 1) = Total(t, (1 .. n + 1) \ {i}) + t[i]
    BY ONLY <1>2, <1>3, TotalSplit
  <2> QED
    BY ONLY <1>4, <2>1, Zenon
<1>6. Total(s, 1 .. n) = Total(t, 1 .. n)
  BY ONLY <1>2, <1>3, TotalAgrees
<1>7. Total(s, 1 .. n) \in Nat
  BY ONLY <1>2, <1>3, TotalSplit
<1>8. Total(t, 1 .. n + 1) = Total(t, 1 .. n) + x
  BY ONLY <1>1, <1>4, <1>5
<1> QED
  BY <1>6, <1>7, <1>8

\* The fields of a histogram that a sample was recorded in.
RecordedIn(h, g, x) ==
  /\ g.buckets = [h.buckets EXCEPT ![BucketIndex(x)] = @ + 1]
  /\ g.total = h.total + 1
  /\ g.sum = (h.sum + x) % 2 ^ Bits
  /\ g.min = Min({h.min, x}) /\ g.max = Max({h.max, x})

\* What record_ns leaves in each field.
LEMMA RecordIs ==
  ASSUME NEW h, NEW x
  PROVE  /\ RecordedIn(h, RecordNs(h, x), x)
         /\ RecordNs(h, x) = [buckets |-> RecordNs(h, x).buckets, total |-> RecordNs(h, x).total,
                              sum |-> RecordNs(h, x).sum, min |-> RecordNs(h, x).min,
                              max |-> RecordNs(h, x).max]
BY DEF RecordedIn, RecordNs

\* The extremes of two numbers.
LEMMA Extremes ==
  ASSUME NEW a \in Nat, NEW b \in Nat
  PROVE  /\ Min({a, b}) \in {a, b} /\ Min({a, b}) <= a /\ Min({a, b}) <= b
         /\ Max({a, b}) \in {a, b} /\ a <= Max({a, b}) /\ b <= Max({a, b})
<1>1. {a, b} \subseteq Nat /\ {a, b} # {}
  OBVIOUS
<1>2. Min({a, b}) \in {a, b} /\ \A n \in {a, b} : Min({a, b}) <= n
  BY ONLY <1>1, MinIs
<1>3. {a, b} \subseteq 0 .. a + b /\ a + b \in Nat
  OBVIOUS
<1>4. Max({a, b}) \in {a, b} /\ \A k \in {a, b} : k <= Max({a, b})
  BY ONLY <1>1, <1>3, MaxIsGreatest
<1> QED
  BY <1>2, <1>4

\* record_ns tallies one more sample.
LEMMA TalliedOneMore ==
  ASSUME NEW h, NEW s, Tallied(h, s), NEW x \in Word
  PROVE  Tallied(RecordNs(h, x), Append(s, x))
<1> PICK g : g = RecordNs(h, x)
  OBVIOUS
<1> PICK t : t = Append(s, x)
  OBVIOUS
<1> PICK n : n = Len(s)
  OBVIOUS
<1> PICK c : c = BucketIndex(x)
  OBVIOUS
<1>1. h \in Histogram /\ s \in Seq(Word)
  BY DEF Tallied
<1>2. /\ n \in Nat /\ t \in Seq(Word) /\ Len(t) = n + 1 /\ t # <<>>
      /\ \A i \in 1 .. n : t[i] = s[i]
      /\ t[n + 1] = x
  BY <1>1, OneMore
<1>3. c \in BucketNumbers
  BY BucketIs DEF InBucketOf
<1>4. /\ h.buckets \in [BucketNumbers -> Nat] /\ h.total \in Nat
      /\ h.sum \in Word /\ h.min \in Word /\ h.max \in Word
  BY <1>1 DEF Histogram
<1>5. /\ g.buckets = [h.buckets EXCEPT ![c] = @ + 1]
      /\ g.total = h.total + 1
      /\ g.sum = (h.sum + x) % 2 ^ Bits
      /\ g.min = Min({h.min, x}) /\ g.max = Max({h.max, x})
  BY RecordIs DEF RecordedIn
<1>6. x \in Nat /\ h.sum \in Nat /\ h.min \in Nat /\ h.max \in Nat
  BY <1>4, WordIs
<1>7. /\ g.min \in {h.min, x} /\ g.min <= h.min /\ g.min <= x
      /\ g.max \in {h.max, x} /\ h.max <= g.max /\ x <= g.max
  <2> PICK lo \in Nat : lo = h.min
    BY <1>6
  <2> PICK hi \in Nat : hi = h.max
    BY <1>6
  <2>1. /\ Min({lo, x}) \in {lo, x} /\ Min({lo, x}) <= lo /\ Min({lo, x}) <= x
        /\ Max({hi, x}) \in {hi, x} /\ hi <= Max({hi, x}) /\ x <= Max({hi, x})
    BY ONLY <1>6, Extremes
  <2>2. g.min = Min({lo, x}) /\ g.max = Max({hi, x})
    BY <1>5
  <2> QED
    BY <2>1, <2>2
<1>8. g.sum \in Word
  <2> PICK m \in Nat : m = 2 ^ Bits
    BY WordIs
  <2> PICK a \in Nat : a = h.sum + x
    BY <1>6
  <2>1. m > 0
    BY WordIs
  <2>2. a % m \in 0 .. m - 1
    BY ONLY a \in Nat, m \in Nat, <2>1
  <2> QED
    BY <1>5, <2>2, WordIs
<1>9. g.buckets \in [BucketNumbers -> Nat]
  BY <1>3, <1>4, <1>5
<1>10. g \in Histogram
  <2>1. g = [buckets |-> g.buckets, total |-> g.total, sum |-> g.sum, min |-> g.min, max |-> g.max]
    BY RecordIs
  <2>2. g.total \in Nat /\ g.min \in Word /\ g.max \in Word
    BY <1>4, <1>5, <1>7
  <2> QED
    BY ONLY <1>8, <1>9, <2>1, <2>2, Zenon DEF Histogram
<1>11. g.total = Len(t)
  BY <1>2, <1>5 DEF Tallied
<1>12. ASSUME NEW b \in BucketNumbers
       PROVE  g.buckets[b] = Cardinality(SamplesIn(t, b))
  <2>1. h.buckets[b] = Cardinality(SamplesIn(s, b))
    BY DEF Tallied
  <2>2. Cardinality(SamplesIn(t, b)) = IF b = c THEN Cardinality(SamplesIn(s, b)) + 1
                                                ELSE Cardinality(SamplesIn(s, b))
    BY <1>1, BucketGrows
  <2>3. g.buckets[b] = IF b = c THEN h.buckets[b] + 1 ELSE h.buckets[b]
    BY ONLY <1>3, <1>4, <1>5, b \in BucketNumbers
  <2> QED
    BY ONLY <2>1, <2>2, <2>3
<1>13. g.sum = Total(t, 1 .. Len(t)) % 2 ^ Bits
  <2>1. s \in Seq(Nat)
    <3>1. Word \subseteq Nat
      BY WordIs
    <3>2. Len(s) \in Nat /\ DOMAIN s = 1 .. Len(s) /\ \A i \in 1 .. Len(s) : s[i] \in Word
      BY ONLY <1>1
    <3>4. \A i \in 1 .. Len(s) : s[i] \in Nat
      BY ONLY <3>1, <3>2, Zenon
    <3>3. s = [i \in 1 .. Len(s) |-> s[i]]
      BY <1>1, <3>2
    <3> QED
      BY ONLY <3>2, <3>3, <3>4, SeqDef
  <2> PICK a \in Nat : a = Total(s, 1 .. n)
    BY <1>6, <2>1, SumGrows
  <2>2. Total(t, 1 .. n + 1) = a + x
    BY <1>6, <2>1, SumGrows
  <2> PICK m \in Nat : m = 2 ^ Bits
    BY WordIs
  <2>3. m > 0
    BY WordIs
  <2>4. h.sum = a % m
    BY DEF Tallied
  <2>5. ((a % m) + x) % m = (a + x) % m
    BY ONLY <1>6, <2>3, ModOfSum
  <2> QED
    BY <1>2, <1>5, <2>2, <2>4, <2>5
<1>14. ASSUME NEW i \in 1 .. Len(t)
       PROVE  g.min <= t[i] /\ t[i] <= g.max
  <2>1. CASE i = n + 1
    BY <1>2, <1>7, <2>1
  <2>2. CASE i \in 1 .. n
    <3>1. h.min <= s[i] /\ s[i] <= h.max
      BY <2>2 DEF Tallied
    <3>2. s[i] \in Nat /\ t[i] = s[i]
      BY <1>1, <1>2, <2>2, WordIs
    <3>3. g.min \in Nat /\ g.max \in Nat
      BY <1>6, <1>7
    <3> QED
      BY <1>6, <1>7, <3>1, <3>2, <3>3
  <2> QED
    BY <1>2, <2>1, <2>2
<1>15. \E i, j \in 1 .. Len(t) : g.min = t[i] /\ g.max = t[j]
  <2>1. CASE s = <<>>
    <3>1. h.min = 2 ^ Bits - 1 /\ h.max = 0
      BY <2>1 DEF Tallied
    <3>2. x <= 2 ^ Bits - 1
      BY WordIs
    <3>3. g.min = x /\ g.max = x
      BY <1>6, <1>7, <3>1, <3>2
    <3>4. n + 1 \in 1 .. Len(t)
      BY <1>2
    <3> QED
      BY <1>2, <3>3, <3>4
  <2>2. CASE s # <<>>
    <3>1. PICK i, j \in 1 .. n : h.min = s[i] /\ h.max = s[j]
      BY <2>2 DEF Tallied
    <3>2. i \in 1 .. Len(t) /\ j \in 1 .. Len(t) /\ n + 1 \in 1 .. Len(t)
      BY <1>2
    <3>3. t[i] = h.min /\ t[j] = h.max /\ t[n + 1] = x
      BY <1>2, <3>1
    <3> QED
      BY ONLY <1>7, <3>2, <3>3
  <2> QED
    BY <2>1, <2>2
<1>16. Tallied(g, t)
  BY ONLY <1>2, <1>10, <1>11, <1>12, <1>13, <1>14, <1>15, Zenon DEF Tallied
<1> QED
  BY <1>16
\* What is known of the samples of a tallied histogram.
LEMMA SamplesTyped ==
  ASSUME NEW s \in Seq(Word)
  PROVE  /\ Len(s) \in Nat /\ DOMAIN s = 1 .. Len(s)
         /\ \A i \in 1 .. Len(s) : s[i] \in Word /\ s[i] \in Nat /\ BucketIndex(s[i]) \in BucketNumbers
<1>1. Len(s) \in Nat /\ DOMAIN s = 1 .. Len(s) /\ \A i \in 1 .. Len(s) : s[i] \in Word
  OBVIOUS
<1>2. \A x \in Word : x \in Nat /\ BucketIndex(x) \in BucketNumbers
  BY WordIs, BucketIs DEF InBucketOf
<1> QED
  BY <1>1, <1>2

\* The sum of the first buckets is the number of samples in them.
LEMMA UpToIs ==
  ASSUME NEW h, NEW s, Tallied(h, s), NEW b \in BucketNumbers
  PROVE  UpTo(h, b) = Cardinality(SamplesUpTo(s, b))
<1> PICK w : w = h.buckets
  OBVIOUS
<1>1. s \in Seq(Word) /\ w \in [BucketNumbers -> Nat]
  BY DEF Tallied, Histogram
<1>2. \A c \in BucketNumbers : w[c] = Cardinality(SamplesIn(s, c)) /\ w[c] \in Nat
  BY <1>1 DEF Tallied
<1>3. BucketNumbers = 0 .. Bits - 1 /\ Bits \in Nat /\ Bits > 0
  BY BitsAssumption DEF BucketNumbers
<1>4. \A i \in DOMAIN s : BucketIndex(s[i]) \in Nat
  BY <1>1, <1>3, SamplesTyped
<1> DEFINE T == {c \in Nat : c < Bits => Total(w, 0 .. c) = Cardinality(SamplesUpTo(s, c))}
<1>5. 0 \in T
  <2>1. IsFiniteSet({0}) /\ 0 \in {0} /\ {0} \ {0} = {} /\ 0 .. 0 = {0}
    <3>1. 0 .. 0 = {0}
      OBVIOUS
    <3>2. IsFiniteSet({0})
      BY FS_Singleton, Zenon
    <3> QED
      BY ONLY <3>1, <3>2
  <2>2. w[0] = Cardinality(SamplesIn(s, 0)) /\ w[0] \in Nat
    BY <1>2, <1>3
  <2>3. \A x \in {0} : w[x] \in Nat
    BY <2>2
  <2>4. Total(w, {0}) = Total(w, {0} \ {0}) + w[0] /\ Total(w, {}) = 0
    BY ONLY <2>1, <2>3, TotalSplit
  <2>5. SamplesUpTo(s, 0) = SamplesIn(s, 0)
    BY <1>4 DEF SamplesUpTo, SamplesIn
  <2>6. Total(w, 0 .. 0) = Cardinality(SamplesUpTo(s, 0))
    BY ONLY <2>1, <2>2, <2>4, <2>5
  <2> QED
    BY <2>6
<1>6. ASSUME NEW c \in Nat, c \in T
      PROVE  c + 1 \in T
  <2>n. c + 1 \in Nat
    OBVIOUS
  <2> SUFFICES ASSUME c + 1 < Bits
               PROVE  Total(w, 0 .. c + 1) = Cardinality(SamplesUpTo(s, c + 1))
    BY <2>n
  <2>1. Total(w, 0 .. c) = Cardinality(SamplesUpTo(s, c))
    BY <1>3, <1>6
  <2>2. c + 1 \in BucketNumbers /\ 0 .. c + 1 \subseteq BucketNumbers
    BY <1>3
  <2>3. IsFiniteSet(0 .. c + 1) /\ c + 1 \in 0 .. c + 1
    BY FS_Interval
  <2>4. (0 .. c + 1) \ {c + 1} = 0 .. c
    OBVIOUS
  <2>5. Total(w, 0 .. c + 1) = Total(w, 0 .. c) + w[c + 1]
    <3>1. \A x \in 0 .. c + 1 : w[x] \in Nat
      BY <1>2, <2>2
    <3>2. \A x \in 0 .. c + 1 : Total(w, 0 .. c + 1) = Total(w, (0 .. c + 1) \ {x}) + w[x]
      BY ONLY <2>3, <3>1, TotalSplit
    <3> QED
      BY ONLY <2>3, <2>4, <3>2, Zenon
  <2> DEFINE A == SamplesUpTo(s, c)
             B == SamplesIn(s, c + 1)
  <2>6. IsFiniteSet(A) /\ IsFiniteSet(B) /\ Cardinality(A) \in Nat /\ Cardinality(B) \in Nat
    BY <1>1, SamplesFinite
  <2>7. SamplesUpTo(s, c + 1) = A \cup B /\ A \cap B = {}
    BY <1>4 DEF SamplesUpTo, SamplesIn
  <2> HIDE DEF A, B
  <2>8. Cardinality(A \cup B) = Cardinality(A) + Cardinality(B) - Cardinality(A \cap B)
    BY <2>6, FS_Union
  <2>9. Cardinality(A \cap B) = 0
    BY <2>7, FS_EmptySet
  <2>10. w[c + 1] = Cardinality(B)
    BY <1>2, <2>2 DEF B
  <2>11. Total(w, 0 .. c) = Cardinality(A)
    BY <2>1 DEF A
  <2>12. Cardinality(A \cup B) = Cardinality(A) + Cardinality(B)
    BY ONLY <2>6, <2>8, <2>9
  <2>13. Cardinality(SamplesUpTo(s, c + 1)) = Cardinality(A \cup B)
    BY ONLY <2>7, Zenon
  <2> QED
    BY ONLY <2>5, <2>10, <2>11, <2>12, <2>13
<1>7. 0 \in T /\ \A c \in Nat : c \in T => c + 1 \in T
  BY <1>5, <1>6
<1>8. Nat \subseteq T
  <2> HIDE DEF T
  <2> QED
    BY <1>7, InductionOnNat
<1>9. Total(w, 0 .. b) = Cardinality(SamplesUpTo(s, b))
  BY <1>3, <1>8
<1>10. SumFunctionOnSet(w, 0 .. b) = Total(w, 0 .. b)
  <2>1. IsFiniteSet(0 .. b)
    BY <1>3, FS_Interval
  <2>2. \A x \in 0 .. b : w[x] \in Nat
    BY <1>2, <1>3
  <2> QED
    BY ONLY <2>1, <2>2, SumIs
<1>11. UpTo(h, b) = SumFunctionOnSet(w, 0 .. b)
  BY Zenon DEF UpTo, SumFunctionOnSet
<1> QED
  BY <1>9, <1>10, <1>11

\* All of them.
LEMMA AllSamples ==
  ASSUME NEW s \in Seq(Word)
  PROVE  Bits - 1 \in BucketNumbers /\ Cardinality(SamplesUpTo(s, Bits - 1)) = Len(s)
<1>1. Bits - 1 \in BucketNumbers /\ BucketNumbers = 0 .. Bits - 1 /\ Bits \in Nat
  BY BitsAssumption DEF BucketNumbers
<1>2. Len(s) \in Nat /\ DOMAIN s = 1 .. Len(s)
  BY SamplesTyped
<1>3. SamplesUpTo(s, Bits - 1) = 1 .. Len(s)
  <2>1. \A i \in 1 .. Len(s) : BucketIndex(s[i]) <= Bits - 1
    BY <1>1, SamplesTyped
  <2> QED
    BY ONLY <1>2, <2>1 DEF SamplesUpTo
<1>4. Cardinality(1 .. Len(s)) = Len(s)
  BY <1>2, FS_Interval
<1> QED
  BY ONLY <1>1, <1>3, <1>4, Zenon

\* The extremes are those of the samples.
LEMMA ExtremesAre ==
  ASSUME NEW h, NEW s, Tallied(h, s), s # <<>>
  PROVE  h.min = Min(Range(s)) /\ h.max = Max(Range(s))
<1>1. h.min \in Nat /\ h.max \in Nat /\ s \in Seq(Word)
  <2>1. h.min \in Word /\ h.max \in Word
    BY DEF Tallied, Histogram
  <2> QED
    BY <2>1, WordIs DEF Tallied
<1>2. Len(s) \in Nat /\ DOMAIN s = 1 .. Len(s) /\ \A i \in 1 .. Len(s) : s[i] \in Nat
  BY <1>1, SamplesTyped
<1>3. /\ \A x \in Range(s) : x \in Nat /\ h.min <= x /\ x <= h.max
      /\ h.min \in Range(s) /\ h.max \in Range(s)
  <2>1. \A x : x \in Range(s) <=> \E i \in 1 .. Len(s) : s[i] = x
    BY <1>2 DEF Range
  <2>2. \A i \in 1 .. Len(s) : h.min <= s[i] /\ s[i] <= h.max
    BY DEF Tallied
  <2>3. \E i, j \in 1 .. Len(s) : h.min = s[i] /\ h.max = s[j]
    BY DEF Tallied
  <2> QED
    BY ONLY <1>2, <2>1, <2>2, <2>3
<1> PICK R : R = Range(s)
  OBVIOUS
<1> PICK lo : lo = h.min
  OBVIOUS
<1> PICK hi : hi = h.max
  OBVIOUS
<1>4. lo \in Nat /\ hi \in Nat
  BY <1>1
<1>5. R \subseteq Nat /\ R # {} /\ R \subseteq 0 .. hi
  BY <1>3, <1>4
<1>6. Min(R) \in R /\ \A x \in R : Min(R) <= x
  BY ONLY <1>5, MinIs
<1>7. Max(R) \in R /\ \A x \in R : x <= Max(R)
  BY ONLY <1>4, <1>5, MaxIsGreatest
<1>8. lo \in R /\ hi \in R /\ \A x \in R : lo <= x /\ x <= hi
  BY <1>3
<1>9. lo = Min(R) /\ hi = Max(R)
  <2> PICK a : a = Min(R)
    OBVIOUS
  <2> PICK z : z = Max(R)
    OBVIOUS
  <2>1. a \in Nat /\ z \in Nat
    BY <1>5, <1>6, <1>7
  <2>2. lo <= a /\ a <= lo /\ hi <= z /\ z <= hi
    BY <1>6, <1>7, <1>8
  <2> QED
    BY <1>4, <2>1, <2>2
<1> QED
  BY <1>9

\* A histogram describes the samples it has tallied.
LEMMA TalliedDescribes ==
  ASSUME NEW h, NEW s, Tallied(h, s)
  PROVE  Describes(h, s)
<1>1. s \in Seq(Word) /\ h.total = Len(s) /\ Len(s) \in Nat
  BY DEF Tallied
<1>2. \A b \in BucketNumbers :
        h.buckets[b] = Cardinality({i \in DOMAIN s : BucketIndex(s[i]) = b})
  BY Zenon DEF Tallied, SamplesIn
<1>3. CASE s = <<>>
  <2>1. h.total = 0 /\ h.max = 0
    BY <1>1, <1>3 DEF Tallied
  <2>2. MinNs(h) = 0 /\ MeanNs(h) = 0
    BY <2>1 DEF MinNs, MeanNs
  <2> QED
    BY ONLY <1>1, <1>2, <1>3, <2>1, <2>2, Zenon DEF Describes
<1>4. CASE s # <<>>
  <2>1. h.total > 0
    <3>1. Len(s) # 0
      BY <1>1, <1>4
    <3> QED
      BY <1>1, <3>1
  <2>2. MinNs(h) = h.min /\ MeanNs(h) = h.sum \div h.total
    BY <2>1 DEF MinNs, MeanNs
  <2>3. h.min = Min(Range(s)) /\ h.max = Max(Range(s))
    BY <1>4, ExtremesAre
  <2>4. SumOf(s) = Total(s, 1 .. Len(s))
    <3>1. DOMAIN s = 1 .. Len(s) /\ \A i \in 1 .. Len(s) : s[i] \in Nat
      BY <1>1, SamplesTyped
    <3>2. IsFiniteSet(1 .. Len(s))
      BY <1>1, FS_Interval
    <3>3. SumFunctionOnSet(s, 1 .. Len(s)) = Total(s, 1 .. Len(s))
      BY ONLY <3>1, <3>2, SumIs
    <3>4. SumOf(s) = SumFunctionOnSet(s, DOMAIN s)
      BY Zenon DEF SumOf, SumFunctionOnSet
    <3> QED
      BY <3>1, <3>3, <3>4
  <2>5. h.sum = Total(s, 1 .. Len(s)) % 2 ^ Bits
    BY DEF Tallied
  <2>6. MeanNs(h) = (SumOf(s) % 2 ^ Bits) \div Len(s)
    BY ONLY <1>1, <2>2, <2>4, <2>5, Zenon
  <2> QED
    BY ONLY <1>1, <1>2, <1>4, <2>2, <2>3, <2>6, Zenon DEF Describes
<1> QED
  BY <1>3, <1>4
\* The samples below x, and those not above it.
Below(s, x)  == {i \in DOMAIN s : s[i] < x}
AtMost(s, x) == {i \in DOMAIN s : s[i] <= x}

\* x is the sample that n others may stand in front of.
HasRank(s, x, n) ==
  x \in Range(s) /\ Cardinality(Below(s, x)) <= n /\ Cardinality(AtMost(s, x)) > n

\* A set of positions of a sequence is finite, and no smaller than its subsets.
LEMMA BelowFinite ==
  ASSUME NEW s \in Seq(Word)
  PROVE  \A I \in SUBSET DOMAIN s :
           /\ IsFiniteSet(I) /\ Cardinality(I) \in Nat /\ Cardinality(I) <= Len(s)
           /\ \A J \in SUBSET I : Cardinality(J) <= Cardinality(I)
<1>1. IsFiniteSet(DOMAIN s) /\ Cardinality(DOMAIN s) = Len(s)
  <2>1. DOMAIN s = 1 .. Len(s) /\ Len(s) \in Nat
    OBVIOUS
  <2>2. IsFiniteSet(1 .. Len(s)) /\ Cardinality(1 .. Len(s)) = Len(s)
    BY <2>1, FS_Interval
  <2> QED
    BY ONLY <2>1, <2>2
<1> SUFFICES ASSUME NEW I \in SUBSET DOMAIN s
             PROVE  /\ IsFiniteSet(I) /\ Cardinality(I) \in Nat /\ Cardinality(I) <= Len(s)
                    /\ \A J \in SUBSET I : Cardinality(J) <= Cardinality(I)
  OBVIOUS
<1>2. IsFiniteSet(I) /\ Cardinality(I) <= Len(s)
  BY <1>1, FS_Subset
<1> QED
  BY <1>2, FS_Subset, FS_CardinalityType

\* Every rank within a sequence is that of one of its samples.
LEMMA RankExists ==
  ASSUME NEW s \in Seq(Word), NEW n \in Nat, n < Len(s)
  PROVE  \E x : HasRank(s, x, n)
<1>1. /\ Len(s) \in Nat /\ DOMAIN s = 1 .. Len(s)
      /\ \A i \in 1 .. Len(s) : s[i] \in Nat
  BY SamplesTyped
<1>2. \A x : x \in Range(s) <=> \E i \in 1 .. Len(s) : s[i] = x
  BY <1>1 DEF Range
<1> DEFINE G == {y \in Range(s) : Cardinality(AtMost(s, y)) > n}
<1>3. G \subseteq Nat
  BY <1>1, <1>2
<1>4. G # {}
  <2>1. s[1] \in Range(s) /\ Range(s) \subseteq 0 .. 2 ^ Bits /\ 2 ^ Bits \in Nat
    <3>1. \A i \in 1 .. Len(s) : s[i] \in Word
      BY SamplesTyped
    <3>2. 2 ^ Bits \in Nat /\ Word \subseteq 0 .. 2 ^ Bits
      BY WordIs
    <3>3. 1 \in 1 .. Len(s)
      BY <1>1
    <3> QED
      BY ONLY <1>2, <3>1, <3>2, <3>3
  <2>2. PICK y \in Range(s) : \A z \in Range(s) : z <= y
    <3> HIDE DEF G
    <3>1. Range(s) # {}
      BY <2>1
    <3> QED
      BY ONLY <2>1, <3>1, GreatestNatural
  <2>3. AtMost(s, y) = 1 .. Len(s)
    BY <1>1, <1>2, <2>2 DEF AtMost
  <2>4. Cardinality(1 .. Len(s)) = Len(s)
    BY <1>1, FS_Interval
  <2>5. Cardinality(AtMost(s, y)) = Len(s)
    BY ONLY <2>3, <2>4, Zenon
  <2> QED
    BY <1>1, <2>2, <2>5
<1>5. PICK x \in G : \A y \in G : x <= y
  <2> HIDE DEF G
  <2> QED
    BY <1>3, <1>4, LeastNatural
<1>6. x \in Nat
  BY <1>3
<1>7. CASE Below(s, x) = {}
  <2>1. Cardinality(Below(s, x)) = 0
    BY <1>7, FS_EmptySet
  <2>2. HasRank(s, x, n)
    BY <2>1 DEF HasRank
  <2> QED
    BY <2>2
<1>8. CASE Below(s, x) # {}
  <2> DEFINE S == {s[i] : i \in Below(s, x)}
  <2>1. S \subseteq 0 .. x /\ S # {}
    <3>1. \A i \in Below(s, x) : i \in 1 .. Len(s) /\ s[i] < x
      BY <1>1 DEF Below
    <3>2. \A i \in Below(s, x) : s[i] \in 0 .. x
      BY ONLY <1>1, <1>6, <3>1
    <3>3. S # {}
      BY <1>8
    <3> QED
      BY ONLY <3>2, <3>3
  <2>2. PICK y \in S : \A k \in S : k <= y
    <3> HIDE DEF S
    <3> QED
      BY <1>6, <2>1, GreatestNatural
  <2>3. y \in Nat /\ y < x /\ y \in Range(s)
    BY <1>1, <1>2 DEF Below
  <2>4. AtMost(s, y) = Below(s, x)
    BY <1>1, <1>6, <2>2, <2>3 DEF AtMost, Below
  <2>5. ~(x <= y)
    BY <1>6, <2>3
  <2>6. y \notin G
    BY <1>5, <2>5
  <2>7. Cardinality(Below(s, x)) \in Nat
    <3>1. Below(s, x) \in SUBSET DOMAIN s
      BY DEF Below
    <3> QED
      BY <3>1, BelowFinite
  <2>8. Cardinality(Below(s, x)) <= n
    BY <2>3, <2>4, <2>6, <2>7
  <2>9. HasRank(s, x, n)
    BY <2>8 DEF HasRank
  <2> QED
    BY <2>9
<1> QED
  BY <1>7, <1>8

\* Ranked picks such a sample.
LEMMA RankedIs ==
  ASSUME NEW s \in Seq(Word), NEW n \in Nat, n < Len(s)
  PROVE  HasRank(s, Ranked(s, n), n)
<1>1. PICK x : HasRank(s, x, n)
  BY RankExists
<1>2. x \in Range(s) /\ Cardinality(Below(s, x)) <= n /\ Cardinality(AtMost(s, x)) > n
  BY <1>1 DEF HasRank
<1>3. PICK r : r = Ranked(s, n)
  OBVIOUS
<1>4. r \in Range(s) /\ Cardinality(Below(s, r)) <= n /\ Cardinality(AtMost(s, r)) > n
  BY ONLY <1>2, <1>3, Zenon DEF Ranked, Below, AtMost
<1> QED
  BY <1>3, <1>4 DEF HasRank

\* The first bucket that counts more than n samples is that of the sample of rank n.
LEMMA RankedBucket ==
  ASSUME NEW s \in Seq(Word), NEW n \in Nat, NEW x, HasRank(s, x, n),
         NEW b \in BucketNumbers, Cardinality(SamplesUpTo(s, b)) > n,
         \A c \in BucketNumbers : c < b => ~(Cardinality(SamplesUpTo(s, c)) > n)
  PROVE  x \in Word /\ BucketIndex(x) = b
<1>1. /\ Len(s) \in Nat /\ DOMAIN s = 1 .. Len(s)
      /\ \A i \in 1 .. Len(s) : s[i] \in Word /\ s[i] \in Nat /\ BucketIndex(s[i]) \in BucketNumbers
  BY SamplesTyped
<1>2. x \in Word /\ x \in Nat /\ BucketIndex(x) \in BucketNumbers
  BY <1>1 DEF HasRank, Range
<1>3. \A c \in BucketNumbers : c \in Nat
  BY BitsAssumption DEF BucketNumbers
<1> PICK k : k = BucketIndex(x)
  OBVIOUS
<1>4. k \in BucketNumbers /\ k \in Nat /\ b \in Nat
  BY <1>2, <1>3
<1>5. /\ Below(s, x) \in SUBSET DOMAIN s /\ AtMost(s, x) \in SUBSET DOMAIN s
      /\ \A c : SamplesUpTo(s, c) \in SUBSET DOMAIN s
  BY DEF Below, AtMost, SamplesUpTo
<1>6. /\ Cardinality(Below(s, x)) \in Nat /\ Cardinality(AtMost(s, x)) \in Nat
      /\ \A c : Cardinality(SamplesUpTo(s, c)) \in Nat
  BY <1>5, BelowFinite
<1>7. Cardinality(Below(s, x)) <= n /\ Cardinality(AtMost(s, x)) > n
  BY DEF HasRank
<1>8. ~(b < k)
  <2> SUFFICES ASSUME b < k
               PROVE  FALSE
    OBVIOUS
  <2>1. SamplesUpTo(s, b) \subseteq Below(s, x)
    <3> SUFFICES ASSUME NEW i \in 1 .. Len(s), BucketIndex(s[i]) <= b
                 PROVE  s[i] < x
      BY <1>1 DEF SamplesUpTo, Below
    <3> PICK j : j = BucketIndex(s[i])
      OBVIOUS
    <3>0. j \in Nat /\ j <= b
      BY <1>1, <1>3
    <3>1. BucketIndex(s[i]) < BucketIndex(x)
      BY <1>4, <3>0
    <3> QED
      BY <1>1, <1>2, <3>1, BucketsOrdered
  <2>2. Cardinality(SamplesUpTo(s, b)) <= Cardinality(Below(s, x))
    BY <1>5, <2>1, BelowFinite
  <2> QED
    BY <1>6, <1>7, <2>2
<1>9. ~(k < b)
  <2> SUFFICES ASSUME k < b
               PROVE  FALSE
    OBVIOUS
  <2>1. AtMost(s, x) \subseteq SamplesUpTo(s, k)
    <3> SUFFICES ASSUME NEW i \in 1 .. Len(s), s[i] <= x
                 PROVE  BucketIndex(s[i]) <= k
      BY <1>1 DEF SamplesUpTo, AtMost
    <3>1. ~(x < s[i])
      BY <1>1, <1>2
    <3>2. ~(BucketIndex(x) < BucketIndex(s[i]))
      BY <1>1, <1>2, <3>1, BucketsOrdered
    <3> PICK j : j = BucketIndex(s[i])
      OBVIOUS
    <3>3. j \in Nat /\ ~(k < j)
      BY <1>1, <1>3, <3>2
    <3> QED
      BY <1>4, <3>3
  <2>2. Cardinality(AtMost(s, x)) <= Cardinality(SamplesUpTo(s, k))
    BY <1>5, <2>1, BelowFinite
  <2>3. ~(Cardinality(SamplesUpTo(s, k)) > n)
    BY <1>4
  <2> QED
    BY <1>6, <1>7, <2>2, <2>3
<1> QED
  BY <1>2, <1>4, <1>8, <1>9

\* The percentile of a histogram names the bucket of the sample it stands for.
LEMMA TalliedNames ==
  ASSUME NEW h, NEW s, Tallied(h, s), NEW n \in Nat, n < Len(s)
  PROVE  Percentile(h, n) = 2 ^ BucketIndex(Ranked(s, n))
<1>1. s \in Seq(Word) /\ h.total = Len(s) /\ Len(s) \in Nat /\ Len(s) # 0
  BY DEF Tallied
<1> DEFINE over == {b \in BucketNumbers : UpTo(h, b) > n}
<1>2. \A b \in BucketNumbers : b \in over <=> Cardinality(SamplesUpTo(s, b)) > n
  BY UpToIs
<1>3. Percentile(h, n) = IF over = {} THEN h.max ELSE 2 ^ Min(over)
  BY ONLY <1>1, Zenon DEF Percentile
<1>4. over \subseteq BucketNumbers
  OBVIOUS
<1> HIDE DEF over
<1> PICK x : x = Ranked(s, n)
  OBVIOUS
<1>5. HasRank(s, x, n)
  BY <1>1, RankedIs
<1>6. over # {}
  <2>1. Bits - 1 \in BucketNumbers /\ Cardinality(SamplesUpTo(s, Bits - 1)) = Len(s)
    BY <1>1, AllSamples
  <2>2. Cardinality(SamplesUpTo(s, Bits - 1)) > n
    BY <1>1, <2>1
  <2> QED
    BY <1>2, <2>1, <2>2
<1>7. over \subseteq Nat
  BY <1>4, BitsAssumption DEF BucketNumbers
<1> PICK b : b = Min(over)
  OBVIOUS
<1>8. b \in over /\ \A c \in over : b <= c
  BY <1>6, <1>7, MinIs
<1>9. b \in BucketNumbers /\ Cardinality(SamplesUpTo(s, b)) > n
  BY <1>2, <1>4, <1>8
<1>10. \A c \in BucketNumbers : c < b => ~(Cardinality(SamplesUpTo(s, c)) > n)
  <2>1. \A c \in BucketNumbers : c \in Nat
    BY BitsAssumption DEF BucketNumbers
  <2> QED
    BY <1>2, <1>8, <1>9, <2>1
<1>11. BucketIndex(x) = b
  BY <1>1, <1>5, <1>9, <1>10, RankedBucket
<1> QED
  BY <1>3, <1>6, <1>11

(***************************************************************************)
(* A histogram in use.                                                     *)
(***************************************************************************)
\* The target of a reported percentage is the rank of a sample.
LEMMA TargetsTyped ==
  ASSUME NEW h, h.total \in Nat, h.total # 0, NEW pct \in Reported,
         NEW target \in Targets(h, pct)
  PROVE  target \in Nat /\ target < h.total
<1> PICK n \in Nat : n = h.total /\ n # 0
  OBVIOUS
<1> PICK product \in Nat : product = pct * n
  BY DEF Reported
<1>1. product < 10000 * n
  BY DEF Reported
<1> PICK exact : exact = product \div 10000
  OBVIOUS
<1>2. exact \in Nat /\ exact < n /\ (product > 0 /\ product % 10000 = 0 => exact > 0)
  BY <1>1
<1>3. target = exact \/ (target = exact - 1 /\ product > 0 /\ product % 10000 = 0)
  <2> DEFINE Short == product > 0 /\ product % 10000 = 0 /\ pct % 625 # 0
  <2>1. Targets(h, pct) = {product \div 10000} \cup {t \in {product \div 10000 - 1} : Short}
    BY ONLY product = pct * n, n = h.total DEF Targets
  <2>2. Targets(h, pct) = {exact} \cup {t \in {exact - 1} : Short}
    BY <2>1
  <2> HIDE DEF Short
  <2>3. target = exact \/ (target = exact - 1 /\ Short)
    BY <2>2
  <2> QED
    BY <2>3 DEF Short
<1> QED
  BY <1>2, <1>3

\* Every step keeps a histogram at what was recorded since its reset.
LEMMA RecorderTallies == RecorderSpec => []Tallied(histogram, recorded)
<1>1. RecorderInit => Tallied(histogram, recorded)
  BY TalliedNothing DEF RecorderInit
<1>2. Tallied(histogram, recorded) /\ [RecorderNext]_recorderVars => Tallied(histogram, recorded)'
  <2> SUFFICES ASSUME Tallied(histogram, recorded), [RecorderNext]_recorderVars
               PROVE  Tallied(histogram', recorded')
    OBVIOUS
  <2>1. ASSUME NEW ns \in Latencies, RecordLatency(ns)
        PROVE  Tallied(histogram', recorded')
    BY <2>1, LatenciesAssumption, TalliedOneMore DEF RecordLatency
  <2>2. CASE ResetHistogram
    BY <2>2, TalliedNothing DEF ResetHistogram
  <2>3. CASE UNCHANGED recorderVars
    BY <2>3 DEF recorderVars
  <2> QED
    BY <2>1, <2>2, <2>3 DEF RecorderNext
<1> QED
  BY <1>1, <1>2, PTL DEF RecorderSpec

(* Whatever is recorded between whatever resets, in words of any width,    *)
(* every percentile the reports print names the bucket of the sample it    *)
(* stands for, whichever way the product behind it is rounded.             *)
THEOREM PercentilesAlwaysNameBuckets == RecorderSpec => []PercentilesNameBuckets
<1>1. ASSUME Tallied(histogram, recorded)
      PROVE  PercentilesNameBuckets
  <2> SUFFICES ASSUME recorded # <<>>, NEW pct \in Reported,
                      NEW target \in Targets(histogram, pct)
               PROVE  Percentile(histogram, target) = 2 ^ BucketIndex(Ranked(recorded, target))
    BY DEF PercentilesNameBuckets
  <2>1. histogram.total = Len(recorded) /\ recorded \in Seq(Word) /\ Len(recorded) # 0
    BY <1>1 DEF Tallied
  <2>2. target \in Nat /\ target < Len(recorded)
    BY <2>1, TargetsTyped
  <2> QED
    BY <1>1, <2>2, TalliedNames
<1> QED
  BY <1>1, RecorderTallies, PTL

(***************************************************************************)
(* The latencies of the receiver.                                          *)
(***************************************************************************)
\* A sequence cut off in front.
LEMMA TailIs ==
  ASSUME NEW V, NEW s \in Seq(V), NEW m \in 0 .. Len(s), NEW w, w = SubSeq(s, m + 1, Len(s))
  PROVE  w \in Seq(V) /\ Len(w) = Len(s) - m /\ \A i \in 1 .. Len(s) - m : w[i] = s[m + i]
<1> PICK n : n = Len(s)
  OBVIOUS
<1> PICK k : k = m + 1
  OBVIOUS
<1>1. n \in Nat /\ m \in Nat /\ m <= n /\ k \in Int /\ n \in Int
  OBVIOUS
<1>2. \A i \in k .. n : s[i] \in V
  <2>1. \A i \in 1 .. n : s[i] \in V
    OBVIOUS
  <2> QED
    BY <1>1, <2>1
<1>3. /\ SubSeq(s, k, n) \in Seq(V)
      /\ Len(SubSeq(s, k, n)) = IF k <= n THEN n - k + 1 ELSE 0
      /\ \A i \in 1 .. n - k + 1 : SubSeq(s, k, n)[i] = s[k + i - 1]
  BY ONLY <1>1, <1>2, SubSeqProperties
<1>4. w = SubSeq(s, k, n)
  OBVIOUS
<1>5. Len(w) = n - m
  BY ONLY <1>1, <1>3, <1>4, k = m + 1
<1>6. ASSUME NEW i \in 1 .. n - m
      PROVE  w[i] = s[m + i]
  <2>1. i \in 1 .. n - k + 1 /\ k + i - 1 = m + i
    BY <1>1
  <2> QED
    BY ONLY <1>3, <1>4, <2>1
<1> QED
  BY <1>3, <1>4, <1>5, <1>6

\* One more element is one more of what is left.
LEMMA TailOfOneMore ==
  ASSUME NEW V, NEW s \in Seq(V), NEW x \in V, NEW m \in 0 .. Len(s)
  PROVE  SubSeq(Append(s, x), m + 1, Len(Append(s, x))) = Append(SubSeq(s, m + 1, Len(s)), x)
<1> PICK n : n = Len(s)
  OBVIOUS
<1> PICK t : t = Append(s, x)
  OBVIOUS
<1>1. /\ n \in Nat /\ m \in Nat /\ m <= n /\ t \in Seq(V) /\ Len(t) = n + 1
      /\ \A i \in 1 .. n : t[i] = s[i]
      /\ t[n + 1] = x
  BY OneMore
<1> PICK w : w = SubSeq(s, m + 1, Len(s))
  OBVIOUS
<1>2. w \in Seq(V) /\ Len(w) = n - m /\ \A i \in 1 .. n - m : w[i] = s[m + i]
  BY TailIs
<1> PICK u : u = Append(w, x)
  OBVIOUS
<1>3. /\ u \in Seq(V) /\ Len(u) = n - m + 1
      /\ \A i \in 1 .. n - m : u[i] = s[m + i]
      /\ u[n - m + 1] = x
  BY <1>1, <1>2, OneMore
<1> PICK v : v = SubSeq(t, m + 1, Len(t))
  OBVIOUS
<1>4. v \in Seq(V) /\ Len(v) = Len(t) - m /\ \A i \in 1 .. Len(t) - m : v[i] = t[m + i]
  <2>1. m \in 0 .. Len(t)
    BY <1>1
  <2> QED
    BY ONLY <1>1, <2>1, v = SubSeq(t, m + 1, Len(t)), TailIs
<1>5. ASSUME NEW i \in 1 .. n - m + 1
      PROVE  u[i] = v[i]
  <2>1. v[i] = t[m + i]
    <3>1. Len(t) - m = n - m + 1
      BY ONLY n \in Nat, m \in Nat, Len(t) = n + 1, <1>1
    <3>2. i \in 1 .. Len(t) - m
      BY ONLY <3>1, i \in 1 .. n - m + 1
    <3> QED
      BY ONLY <1>4, <3>2
  <2>2. CASE i \in 1 .. n - m
    BY <1>1, <1>3, <2>1, <2>2
  <2>3. CASE i = n - m + 1
    <3>1. m + i = n + 1
      BY <1>1, <2>3
    <3> QED
      BY ONLY <1>1, <1>3, <2>1, <2>3, <3>1
  <2>4. i \in 1 .. n - m \/ i = n - m + 1
    BY ONLY <1>1, i \in 1 .. n - m + 1
  <2> QED
    BY ONLY <2>2, <2>3, <2>4
<1>6. u = v
  <2>1. Len(t) - m = n - m + 1
    BY ONLY <1>1
  <2>2. Len(u) = Len(v) /\ \A i \in 1 .. Len(u) : u[i] = v[i]
    BY ONLY <1>3, <1>4, <1>5, <2>1
  <2> QED
    BY ONLY <1>3, <1>4, <2>2, SeqEqual
<1> QED
  BY <1>6

-----------------------------------------------------------------------------
(* What the two histograms have tallied: all latencies, and those since    *)
(* the last report.                                                        *)
TallyInv ==
  /\ Tallied(latTotal, samples) /\ Tallied(latWindow, Window)
  /\ windowFrom \in 0 .. Len(samples)

\* A latency is a word.
LEMMA NanosecondsTyped ==
  ASSUME NEW cycles \in Cycles, Hz # 0
  PROVE  Nanoseconds(cycles, Hz) \in Word
<1>1. cycles \in Nat /\ Hz \in Nat /\ Hz > 0 /\ NanosPerSecond \in Nat
  BY ClockAssumption, NanosAssumption
<1> PICK a \in Nat : a = cycles * NanosPerSecond
  BY <1>1
<1> PICK q \in Nat : q = a \div Hz
  <2>1. a \div Hz \in Nat
    BY ONLY <1>1, a \in Nat
  <2> QED
    BY <2>1
<1> PICK m \in Nat : m = 2 ^ Bits
  BY WordIs
<1>2. m > 0
  BY WordIs
<1>3. q % m \in 0 .. m - 1
  BY ONLY <1>2, q \in Nat, m \in Nat
<1> QED
  BY <1>3, WordIs DEF Nanoseconds

\* The receiver starts with two empty histograms and no sample.
LEMMA InitTallyInv == PipelineInit => TallyInv
<1> SUFFICES ASSUME PipelineInit
             PROVE  TallyInv
  OBVIOUS
<1>1. /\ latWindow = EmptyHistogram /\ latTotal = EmptyHistogram
      /\ samples = <<>> /\ windowFrom = 0
  BY DEF PipelineInit
<1>2. Window = <<>>
  <2>1. Len(samples) = 0
    BY <1>1
  <2> QED
    BY <1>1, <2>1, SubSeqEmpty DEF Window
<1> QED
  BY <1>1, <1>2, TalliedNothing DEF TallyInv

\* Recording a latency.
LEMMA RecordTallies ==
  ASSUME TallyInv, NEW cycles \in Cycles, Record(cycles)
  PROVE  TallyInv'
<1>1. /\ latWindow' = RecordCycles(latWindow, cycles, Hz)
      /\ latTotal' = RecordCycles(latTotal, cycles, Hz)
      /\ samples' = IF Hz = 0 THEN samples ELSE Append(samples, Nanoseconds(cycles, Hz))
      /\ windowFrom' = windowFrom
  BY DEF Record
<1>2. CASE Hz = 0
  <2>1. latWindow' = latWindow /\ latTotal' = latTotal /\ samples' = samples
    BY <1>1, <1>2 DEF RecordCycles
  <2> QED
    BY <1>1, <2>1 DEF TallyInv, Window
<1>3. CASE Hz # 0
  <2> PICK ns \in Word : ns = Nanoseconds(cycles, Hz)
    BY <1>3, NanosecondsTyped
  <2>1. /\ latWindow' = RecordNs(latWindow, ns) /\ latTotal' = RecordNs(latTotal, ns)
        /\ samples' = Append(samples, ns)
    BY <1>1, <1>3 DEF RecordCycles
  <2>2. samples \in Seq(Word) /\ windowFrom \in 0 .. Len(samples)
    BY DEF TallyInv, Tallied
  <2>3. Window' = Append(Window, ns)
    BY <1>1, <2>1, <2>2, TailOfOneMore DEF Window
  <2>4. Tallied(latTotal', samples') /\ Tallied(latWindow', Window')
    BY <2>1, <2>3, TalliedOneMore DEF TallyInv
  <2>5. windowFrom' \in 0 .. Len(samples')
    BY <1>1, <2>1, <2>2
  <2> QED
    BY <2>4, <2>5 DEF TallyInv
<1> QED
  BY <1>2, <1>3

\* A report starts the window anew.
LEMMA ReportTallies ==
  ASSUME TallyInv, Report
  PROVE  TallyInv'
<1>1. latTotal' = latTotal /\ samples' = samples
  BY DEF Report
<1>2. Len(samples) \in Nat
  BY DEF TallyInv, Tallied
<1>3. CASE latWindow' = EmptyHistogram /\ windowFrom' = Len(samples)
  <2>1. Window' = <<>>
    BY <1>1, <1>2, <1>3, SubSeqEmpty DEF Window
  <2> QED
    BY <1>1, <1>2, <1>3, <2>1, TalliedNothing DEF TallyInv
<1>4. CASE UNCHANGED <<latWindow, windowFrom>>
  BY <1>1, <1>4 DEF TallyInv, Window
<1> QED
  BY <1>3, <1>4 DEF Report

\* Every step of the receiver keeps the histograms at what was sampled.
LEMMA StepTallyInv ==
  ASSUME TallyInv, [PipelineNext]_vars
  PROVE  TallyInv'
<1>1. UNCHANGED latVars => TallyInv'
  BY DEF TallyInv, Window, latVars
<1>2. ASSUME BringUp \/ PollPort \/ SkipPacket \/ AcceptPacket \/ LeaveLoop
      PROVE  UNCHANGED latVars
  BY <1>2 DEF BringUp, PollPort, SkipPacket, AcceptPacket, LeaveLoop
<1>3. ASSUME ParseBlock \/ EndBlocks \/ FallBack
      PROVE  UNCHANGED latVars
  BY <1>3 DEF ParseBlock, EndBlocks, FallBack
<1>4. ASSUME Signal \/ Feed \/ OtherApplication \/ Stopped \/ UNCHANGED vars
      PROVE  UNCHANGED latVars
  BY <1>4 DEF Signal, Feed, OtherApplication, Stopped, vars, mainVars, latVars
<1>5. CASE \E cycles \in Cycles : Record(cycles)
  BY <1>5, RecordTallies
<1>6. CASE Report
  BY <1>6, ReportTallies
<1> QED
  BY <1>1, <1>2, <1>3, <1>4, <1>5, <1>6 DEF PipelineNext, Main

\* The histograms tally the latencies, in every run of the receiver.
LEMMA TallyInvariant == PipelineSpec => []TallyInv
BY InitTallyInv, StepTallyInv, PTL DEF PipelineSpec

(* lat_total describes all packets of the run and lat_window those since   *)
(* the last report, for words of any width and any number of packets:      *)
(* their count, their least, their largest and their mean.                 *)
THEOREM HistogramsDescribe == PipelineSpec => []HistogramsDescribeSamples
<1>1. TallyInv => HistogramsDescribeSamples
  BY TalliedDescribes DEF TallyInv, HistogramsDescribeSamples
<1> QED
  BY <1>1, TallyInvariant, PTL

-----------------------------------------------------------------------------
(***************************************************************************)
(* Types of the receiver, as one program.                                  *)
(***************************************************************************)
MainInv ==
  /\ running \in BOOLEAN /\ stage \in Stages
  /\ off \in Nat /\ block \in Nat /\ parsed \in BOOLEAN
  /\ Len(live) <= LiveCap

\* The sender's cap on the orders it may still cancel.
LEMMA FeedCapped ==
  ASSUME FeedTyped, Len(live) <= LiveCap, FeedNext
  PROVE  Len(live') <= LiveCap
<1>1. live \in Seq(Refs) /\ Len(live) \in Nat /\ LiveCap \in Nat /\ LiveCap # 0
  BY BatchAssumption DEF FeedTyped
<1>2. CASE GenerateAdd
  <2>1. nextRef \in Refs
        /\ live' = IF Len(live) = LiveCap THEN Append(Tail(live), nextRef) ELSE Append(live, nextRef)
    BY <1>2 DEF GenerateAdd
  <2>2. CASE Len(live) = LiveCap
    <3>1. live # <<>>
      BY <1>1, <2>2
    <3> PICK kept : kept = Tail(live)
      OBVIOUS
    <3>2. kept \in Seq(Refs) /\ Len(kept) = Len(live) - 1
      BY <1>1, <3>1
    <3>3. live' = Append(kept, nextRef)
      BY <2>1, <2>2
    <3>4. Len(Append(kept, nextRef)) = Len(kept) + 1
      BY ONLY <2>1, <3>2, AppendSeq
    <3> QED
      BY ONLY <1>1, <2>2, <3>2, <3>3, <3>4
  <2>3. CASE Len(live) # LiveCap
    <3>1. Len(live') = Len(live) + 1
      BY <1>1, <2>1, <2>3, AppendSeq
    <3> QED
      BY <1>1, <2>3, <3>1
  <2> QED
    BY <2>2, <2>3
<1>3. CASE GenerateCancel
  <2>1. PICK i \in DOMAIN live : live' = RemoveAt(live, i)
    BY <1>3 DEF GenerateCancel
  <2>2. Len(live') = Len(live) - 1
    BY <1>1, <2>1, RemoveAtIs
  <2> QED
    BY <1>1, <2>2
<1>4. CASE GenerateTrade \/ SendFrame
  <2>1. live' = live
    BY <1>4 DEF GenerateTrade, SendFrame
  <2> QED
    BY <2>1
<1> QED
  BY <1>2, <1>3, <1>4 DEF FeedNext

\* Every step keeps main's own variables typed.
LEMMA StepMainInv ==
  ASSUME FeedTyped, ParseInv, MainInv, [PipelineNext]_vars
  PROVE  MainInv'
<1>1. Len(live') <= LiveCap
  <2>1. (Feed /\ FeedNext) \/ live' = live
    BY FeedOrNot DEF feedVars
  <2> QED
    BY <2>1, FeedCapped DEF MainInv
<1>2. CASE ParseBlock
  <2>1. Block.len \in Nat
    BY <1>2, BlockDue
  <2>2. /\ stage' = "blocks" /\ off' = off + 2 + Block.len /\ block' = block + 1
        /\ parsed' = TRUE /\ running' = running
    BY <1>2 DEF ParseBlock, Goes
  <2>3. off' \in Nat /\ block' \in Nat
    <3>1. off \in Nat /\ block \in Nat
      BY DEF MainInv
    <3> QED
      BY ONLY <2>1, <2>2, <3>1
  <2>4. stage' \in Stages
    BY <2>2 DEF Stages
  <2> QED
    BY <1>1, <2>2, <2>3, <2>4 DEF MainInv
<1>3. CASE AcceptPacket
  <2>1. stage' \in {"blocks", "raw"} /\ off' = 20 /\ block' = 1 /\ parsed' = FALSE /\ running' = running
    BY <1>3 DEF AcceptPacket, Goes
  <2> QED
    BY <1>1, <2>1 DEF MainInv, Stages
<1>4. CASE \/ BringUp \/ PollPort \/ SkipPacket \/ EndBlocks \/ FallBack
           \/ (\E cycles \in Cycles : Record(cycles)) \/ Report \/ LeaveLoop
  <2>1. UNCHANGED <<off, block, parsed, running>>
    BY <1>4 DEF BringUp, PollPort, SkipPacket, EndBlocks, FallBack, Record, Report, LeaveLoop, parseVars
  <2>2. stage' \in Stages
    BY <1>4 DEF BringUp, PollPort, SkipPacket, EndBlocks, FallBack, Record, Report, LeaveLoop,
                Goes, NextPacket, Stages
  <2> QED
    BY <1>1, <2>1, <2>2 DEF MainInv
<1>5. CASE Signal \/ Feed \/ OtherApplication \/ Stopped \/ UNCHANGED vars
  <2>1. UNCHANGED <<stage, off, block, parsed>> /\ running' \in {running, FALSE}
    BY <1>5 DEF Signal, Feed, OtherApplication, Stopped, vars, mainVars
  <2> QED
    BY <1>1, <2>1 DEF MainInv
<1> QED
  BY <1>2, <1>3, <1>4, <1>5 DEF PipelineNext, Main

\* The receiver starts with them typed.
LEMMA InitMainInv == PipelineInit => MainInv
<1> SUFFICES ASSUME PipelineInit
             PROVE  MainInv
  OBVIOUS
<1>1. /\ running = TRUE /\ stage \in {"bring up", "other application"}
      /\ off = 0 /\ block = 0 /\ parsed = FALSE /\ live = <<>>
  BY DEF PipelineInit, FeedInit
<1>2. stage \in Stages
  BY <1>1 DEF Stages
<1>3. Len(<<>>) = 0 /\ 0 <= LiveCap
  BY BatchAssumption
<1> QED
  BY <1>1, <1>2, <1>3 DEF MainInv

(* Every variable of the receiver keeps its type, over all messages, loss, *)
(* foreign packets, signals and other uses of the handler: no counter of   *)
(* buffers underflows, no burst exceeds its array, no bucket is out of its *)
(* array, and the offset never depends on what lies beyond the payload.    *)
THEOREM PipelineTyped == PipelineSpec => []PipelineTypeOK
<1>1. PipelineInit => HandlerInv /\ MainInv
  BY HandlerStart, InitMainInv DEF PipelineInit
<1>2. ParseInv /\ HandlerInv /\ [PipelineNext]_vars => HandlerInv'
  BY ReceiverStepsHandler, HandlerStep
<1>3. FedInv /\ ParseInv /\ MainInv /\ [PipelineNext]_vars => MainInv'
  BY StepMainInv DEF FedInv
<1>4. ReceiverInv /\ FedInv /\ HandlerInv /\ MainInv /\ TallyInv => PipelineTypeOK
  <2> SUFFICES ASSUME ReceiverInv, FedInv, HandlerInv, MainInv, TallyInv
               PROVE  PipelineTypeOK
    OBVIOUS
  <2>1. NicTypeOK
    BY Zenon DEF ReceiverInv, NicInv, NicTypeOK, FlagsTyped, CountsTyped, BurstFits
  <2>2. HandlerTypeOK
    BY HandlerInvTyped
  <2>3. live \in Seq(Refs) /\ Len(live) <= LiveCap
    BY DEF FedInv, FeedTyped, MainInv
  <2>4. latWindow \in Histogram /\ latTotal \in Histogram /\ windowFrom \in 0 .. Len(samples)
    BY DEF TallyInv, Tallied
  <2> QED
    BY <2>1, <2>2, <2>3, <2>4 DEF MainInv, PipelineTypeOK
<1> QED
  BY <1>1, <1>2, <1>3, <1>4, ParseInvHolds, TallyInvariant, PTL DEF PipelineSpec

=============================================================================
