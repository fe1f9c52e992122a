------------------------ MODULE DpdkPacketHandlerProofs ------------------------
(***************************************************************************)
(* The life cycle and the burst loop of DpdkPacketHandler, for every set   *)
(* of packets and all sizes.  NicInv is inductive: to the properties it    *)
(* adds what they need of each other, above all that a handler which has a *)
(* pool has initialized EAL: a second rte_eal_init fails, so no later      *)
(* attempt overwrites the pool.                                            *)
(***************************************************************************)
EXTENDS DpdkPacketHandler, UdpPayload, TLAPS

FlagsTyped ==
  /\ initialized \in BOOLEAN /\ eal \in BOOLEAN /\ mbufPool \in BOOLEAN /\ own \in BOOLEAN
  /\ port \in {"closed", "configured", "started"}

CountsTyped ==
  /\ pools \in Nat /\ callbacks \in Nat /\ buffers \in Nat
  /\ packetsReceived \in Nat /\ packetsProcessed \in Nat /\ packetsDropped \in Nat

BurstFits == (\E S : burst \in Seq(S)) /\ Len(burst) <= Burst

PoolCounted == (mbufPool /\ eal /\ pools = 1) \/ (~mbufPool /\ pools = 0)

NicInv ==
  /\ FlagsTyped /\ CountsTyped /\ BurstFits
  /\ PollsOnlyReadyPort /\ PoolCounted
  /\ BuffersReturned /\ CountersAgree

\* A burst is a number of packets.
LEMMA BurstTyped == Burst \in Nat
BY BurstAssumption DEF Burst

\* init makes seven calls that may fail.
LEMMA SevenSteps == Len(InitSteps) = 7 /\ DOMAIN InitSteps = 1 .. 7
BY DEF InitSteps

(* What one call receives is a nonempty sequence that fits into pkts.      *)
LEMMA BurstsTyped ==
  ASSUME NEW S, NEW pkts \in Bursts(S)
  PROVE  pkts \in Seq(S) /\ pkts # <<>> /\ Len(pkts) <= Burst
<1>1. PICK n \in 1 .. Burst : pkts \in [1 .. n -> S]
  BY DEF Bursts
<1>2. n \in Nat /\ n <= Burst /\ n # 0
  BY BurstTyped
<1>3. pkts \in Seq(S) /\ Len(pkts) = n
  BY <1>1, <1>2
<1> QED
  BY <1>2, <1>3

\* The invariant holds of a handler just made.
LEMMA InitHolds == NicInit => NicInv
<1> SUFFICES ASSUME NicInit
             PROVE  NicInv
  OBVIOUS
<1>1. FlagsTyped
  BY Zenon DEF NicInit, FlagsTyped
<1>2. CountsTyped
  BY DEF NicInit, CountsTyped
<1>3. burst \in Seq({}) /\ Len(burst) = 0
  BY DEF NicInit
<1>4. PollsOnlyReadyPort
  BY Zenon DEF NicInit, PollsOnlyReadyPort, Bursting
<1>5. PoolCounted
  BY Zenon DEF NicInit, PoolCounted
<1>6. BuffersReturned /\ CountersAgree
  BY <1>3 DEF NicInit, BuffersReturned, CountersAgree
<1> QED
  BY <1>1, <1>2, <1>3, <1>4, <1>5, <1>6, BurstTyped DEF NicInv, BurstFits

(* A step that leaves the burst and its counters alone.                    *)
LEMMA BurstUntouched ==
  ASSUME NicInv, UNCHANGED burstVars
  PROVE  BurstFits' /\ BuffersReturned' /\ CountersAgree'
BY DEF NicInv, burstVars, BurstFits, BuffersReturned, CountersAgree, Burst

(* A step of init that fails keeps the handler without packets, and leaves *)
(* at most the one pool it has created.                                    *)
LEMMA InitFailsKeeps ==
  ASSUME NicInv, NEW k \in DOMAIN InitSteps, InitFails(k)
  PROVE  NicInv'
<1> USE SevenSteps
<1>1. UNCHANGED <<initialized, callbacks>> /\ UNCHANGED burstVars
  BY DEF InitFails
<1>2. ~initialized /\ burst = <<>>
  BY DEF InitFails, Idle, Bursting
<1>3. k \in 1 .. 7 /\ Reached(k)
  BY DEF InitFails
<1>4. UNCHANGED <<packetsReceived, packetsProcessed, packetsDropped, burst, own, buffers>>
  BY <1>1 DEF burstVars
<1>5. PoolCounted'
  <2>1. CASE k < 3
    <3>1. mbufPool' = mbufPool
      <4>1. k # 3 /\ ~(k > 3)
        BY <1>3, <2>1
      <4> QED
        BY <1>3, <2>1, <4>1, Zenon DEF Reached
    <3>2. pools' = pools
      BY <1>3, <2>1 DEF Reached
    <3>3. CASE k = 1
      <4>1. eal' = eal
        BY <1>3, <3>3, Zenon DEF Reached
      <4> QED
        BY <3>1, <3>2, <4>1, Zenon DEF NicInv, PoolCounted
    <3>4. CASE k # 1
      <4>1. eal' = TRUE
        BY <1>3, <3>4, Zenon DEF Reached
      <4> QED
        BY <3>1, <3>2, <4>1, Zenon DEF NicInv, PoolCounted
    <3> QED
      BY <3>3, <3>4
  <2>2. CASE k = 3
    <3>1. mbufPool' = FALSE
      BY <1>3, <2>2 DEF Reached
    <3>2. pools' = pools /\ ~eal
      BY <1>3, <2>2 DEF Reached
    <3> QED
      BY <3>1, <3>2 DEF NicInv, PoolCounted
  <2>3. CASE k > 3
    <3>1. mbufPool' = TRUE /\ eal' = TRUE
      BY <1>3, <2>3 DEF Reached
    <3>2. pools' = pools + 1 /\ ~eal
      BY <1>3, <2>3 DEF Reached
    <3> QED
      BY <3>1, <3>2 DEF NicInv, PoolCounted
  <2> QED
    BY <1>3, <2>1, <2>2, <2>3
<1>6. CountsTyped'
  BY <1>1, <1>3, <1>4 DEF NicInv, CountsTyped, Reached
<1>7. FlagsTyped'
  <2>1. eal' \in BOOLEAN
    <3>1. eal' = eal \/ eal' = TRUE
      BY <1>3, Zenon DEF Reached
    <3> QED
      BY <3>1, Zenon DEF NicInv, FlagsTyped
  <2>2. mbufPool' \in BOOLEAN
    <3>1. CASE k < 3
      <4>1. k # 3 /\ ~(k > 3)
        BY <1>3, <3>1
      <4>2. mbufPool' = mbufPool
        BY <1>3, <3>1, <4>1, Zenon DEF Reached
      <4> QED
        BY <4>2, Zenon DEF NicInv, FlagsTyped
    <3>2. CASE k = 3
      BY <1>3, <3>2 DEF Reached
    <3>3. CASE k > 3
      BY <1>3, <3>3 DEF Reached
    <3> QED
      BY <1>3, <3>1, <3>2, <3>3
  <2>3. port' \in {"closed", "configured", "started"}
    BY <1>3 DEF Reached, NicInv, FlagsTyped
  <2> QED
    BY <2>1, <2>2, <2>3, <1>1, <1>4, Zenon DEF NicInv, FlagsTyped
<1>8. PollsOnlyReadyPort'
  BY <1>1, <1>2, <1>4 DEF PollsOnlyReadyPort, Bursting
<1> QED
  BY <1>1, <1>5, <1>6, <1>7, <1>8, BurstUntouched DEF NicInv

\* An init that succeeds keeps it.
LEMMA InitSucceedsKeeps == NicInv /\ InitSucceeds => NicInv'
<1> SUFFICES ASSUME NicInv, InitSucceeds
             PROVE  NicInv'
  OBVIOUS
<1> USE SevenSteps
<1>1. callbacks' = callbacks /\ UNCHANGED burstVars /\ initialized' = TRUE /\ Reached(8)
  BY DEF InitSucceeds
<1>2. UNCHANGED <<packetsReceived, packetsProcessed, packetsDropped, burst, own, buffers>>
  BY <1>1 DEF burstVars
<1>3. ~eal /\ pools' = pools + 1 /\ port' = "started"
  BY <1>1 DEF Reached
<1>4. eal' = TRUE /\ mbufPool' = TRUE
  BY <1>1 DEF Reached
<1>5. PoolCounted'
  BY <1>3, <1>4 DEF NicInv, PoolCounted
<1>6. CountsTyped'
  BY <1>1, <1>2, <1>3 DEF NicInv, CountsTyped
<1>7. FlagsTyped'
  BY <1>1, <1>2, <1>3, <1>4, Zenon DEF NicInv, FlagsTyped
<1>8. PollsOnlyReadyPort'
  BY <1>1, <1>3, <1>4, Zenon DEF PollsOnlyReadyPort
<1> QED
  BY <1>1, <1>5, <1>6, <1>7, <1>8, BurstUntouched DEF NicInv

\* So does a registration,
LEMMA RegisterCallbackKeeps == NicInv /\ RegisterCallback => NicInv'
<1> SUFFICES ASSUME NicInv, RegisterCallback
             PROVE  NicInv'
  OBVIOUS
<1>1. UNCHANGED lifeVars /\ UNCHANGED burstVars /\ callbacks' = callbacks + 1
  BY DEF RegisterCallback
<1>2. CountsTyped'
  BY <1>1 DEF NicInv, CountsTyped, lifeVars, burstVars
<1>3. FlagsTyped' /\ PoolCounted' /\ PollsOnlyReadyPort'
  BY <1>1, Zenon DEF NicInv, FlagsTyped, PoolCounted, PollsOnlyReadyPort, Bursting,
                     lifeVars, burstVars
<1> QED
  BY <1>1, <1>2, <1>3, BurstUntouched DEF NicInv

\* a burst received, whatever its packets,
LEMMA PollKeeps ==
  ASSUME NicInv, NEW S, NEW pkts \in Seq(S), pkts # <<>>, Len(pkts) <= Burst,
         NEW given \in BOOLEAN, Poll(pkts, given)
  PROVE  NicInv'
<1>1. Len(pkts) \in Nat
  OBVIOUS
<1>2. initialized /\ burst = <<>>
  BY DEF Poll, Idle, Bursting
<1>3. UNCHANGED <<initialized, eal, mbufPool, pools, port, callbacks,
                  packetsProcessed, packetsDropped>>
  BY DEF Poll, lifeVars
<1>4. burst' = pkts /\ own' = given
  BY DEF Poll
<1>5. buffers' = buffers + Len(pkts) /\ packetsReceived' = packetsReceived + Len(pkts)
  BY DEF Poll
<1>6. PollsOnlyReadyPort' /\ PoolCounted'
  BY <1>2, <1>3, Zenon DEF NicInv, PollsOnlyReadyPort, PoolCounted
<1>7. Len(burst) = 0
  BY <1>2
<1>8. BuffersReturned' /\ CountersAgree' /\ CountsTyped'
  BY <1>1, <1>3, <1>4, <1>5, <1>7 DEF NicInv, BuffersReturned, CountersAgree, CountsTyped
<1>9. FlagsTyped'
  BY <1>3, <1>4, Zenon DEF NicInv, FlagsTyped
<1>10. BurstFits'
  BY <1>1, <1>4 DEF BurstFits, Burst
<1> QED
  BY <1>6, <1>8, <1>9, <1>10 DEF NicInv

\* the end of the turn for one packet,
LEMMA FinishPacketKeeps == NicInv /\ FinishPacket => NicInv'
<1> SUFFICES ASSUME NicInv, FinishPacket
             PROVE  NicInv'
  OBVIOUS
<1> PICK S : burst \in Seq(S)
  BY DEF NicInv, BurstFits
<1>1. burst \in Seq(S) /\ burst # <<>> /\ Len(burst) <= Burst
  BY DEF NicInv, BurstFits, FinishPacket, Bursting
<1>2. Len(burst) \in Nat /\ Len(burst) > 0
  BY <1>1
<1>3. burst' \in Seq(S) /\ Len(burst') = Len(burst) - 1
  BY <1>1, <1>2 DEF FinishPacket
<1>4. UNCHANGED <<initialized, eal, mbufPool, pools, port, callbacks, packetsReceived, own>>
  BY DEF FinishPacket, lifeVars
<1>5. buffers' = buffers - 1
  BY DEF FinishPacket
<1>6. /\ packetsProcessed' \in Nat /\ packetsDropped' \in Nat
      /\ packetsProcessed' + packetsDropped' = packetsProcessed + packetsDropped + 1
  BY DEF FinishPacket, NicInv, CountsTyped
<1>7. PollsOnlyReadyPort' /\ PoolCounted' /\ FlagsTyped'
  <2>1. Bursting
    BY DEF FinishPacket
  <2> QED
    BY <2>1, <1>4, Zenon DEF NicInv, PollsOnlyReadyPort, PoolCounted, FlagsTyped
<1>8. BuffersReturned' /\ CountersAgree' /\ CountsTyped'
  <2>1. buffers' = Len(burst') /\ buffers' \in Nat
    BY <1>2, <1>3, <1>5 DEF NicInv, BuffersReturned
  <2>2. packetsReceived' = packetsProcessed' + packetsDropped' + Len(burst')
    <3>1. packetsReceived = packetsProcessed + packetsDropped + Len(burst)
      BY DEF NicInv, CountersAgree
    <3>2. packetsProcessed \in Nat /\ packetsDropped \in Nat
      BY DEF NicInv, CountsTyped
    <3>3. packetsReceived' = packetsReceived
      BY <1>4
    <3>4. Len(burst') = Len(burst) - 1 /\ Len(burst) \in Nat
      BY <1>2, <1>3
    <3>5. packetsProcessed' + packetsDropped' = packetsProcessed + packetsDropped + 1
      BY <1>6
    <3>6. (packetsProcessed' + packetsDropped') + Len(burst') =
            packetsProcessed + packetsDropped + Len(burst)
      BY <3>2, <3>4, <3>5
    <3> QED
      BY <3>1, <3>3, <3>6
  <2>3. CountsTyped'
    BY <1>4, <1>6, <2>1, Zenon DEF NicInv, CountsTyped
  <2> QED
    BY <2>1, <2>2, <2>3, Zenon DEF BuffersReturned, CountersAgree
<1>9. BurstFits'
  BY <1>1, <1>2, <1>3, BurstTyped DEF BurstFits, Burst
<1> QED
  BY <1>7, <1>8, <1>9 DEF NicInv

\* and a shutdown.
LEMMA ShutdownKeeps == NicInv /\ Shutdown => NicInv'
<1> SUFFICES ASSUME NicInv, Shutdown
             PROVE  NicInv'
  OBVIOUS
<1>1. eal' = eal /\ callbacks' = callbacks /\ UNCHANGED burstVars /\ burst = <<>>
  BY DEF Shutdown, Idle, Bursting
<1>2. UNCHANGED <<packetsReceived, packetsProcessed, packetsDropped, burst, own, buffers>>
  BY <1>1 DEF burstVars
<1>3. CASE initialized
  <2>1. mbufPool /\ pools = 1
    BY <1>3 DEF NicInv, PollsOnlyReadyPort, PoolCounted
  <2>2. port' = "closed" /\ pools' = 0 /\ mbufPool' = FALSE /\ initialized' = FALSE
    BY <1>3, <2>1 DEF Shutdown
  <2>3. FlagsTyped' /\ PoolCounted' /\ PollsOnlyReadyPort'
    BY <1>1, <1>2, <2>2, Zenon
    DEF NicInv, FlagsTyped, PoolCounted, PollsOnlyReadyPort, Bursting
  <2>4. CountsTyped'
    BY <1>1, <1>2, <2>2 DEF NicInv, CountsTyped
  <2> QED
    BY <1>1, <2>3, <2>4, BurstUntouched DEF NicInv
<1>4. CASE ~initialized
  <2>1. UNCHANGED <<port, pools, mbufPool, initialized>>
    BY <1>4 DEF Shutdown
  <2>2. FlagsTyped' /\ PoolCounted' /\ PollsOnlyReadyPort' /\ CountsTyped'
    BY <1>1, <1>2, <2>1, Zenon
    DEF NicInv, FlagsTyped, PoolCounted, PollsOnlyReadyPort, Bursting, CountsTyped
  <2> QED
    BY <1>1, <2>2, BurstUntouched DEF NicInv
<1> QED
  BY <1>3, <1>4

\* Every step keeps the invariant.
LEMMA NextKeeps == NicInv /\ [NicNext]_nicVars => NicInv'
<1> SUFFICES ASSUME NicInv, [NicNext]_nicVars
             PROVE  NicInv'
  OBVIOUS
<1>1. ASSUME NEW k \in DOMAIN InitSteps, InitFails(k)
      PROVE  NicInv'
  BY <1>1, InitFailsKeeps
<1>2. CASE InitSucceeds
  BY <1>2, InitSucceedsKeeps
<1>3. CASE RegisterCallback
  BY <1>3, RegisterCallbackKeeps
<1>4. ASSUME NEW pkts \in Bursts(Packets), NEW given \in BOOLEAN, Poll(pkts, given)
      PROVE  NicInv'
  BY <1>4, PollKeeps, BurstsTyped
<1>5. CASE FinishPacket
  BY <1>5, FinishPacketKeeps
<1>6. CASE Shutdown
  BY <1>6, ShutdownKeeps
<1>7. CASE UNCHANGED nicVars
  <2>1. UNCHANGED burstVars
    BY <1>7 DEF nicVars, burstVars
  <2>2. FlagsTyped' /\ CountsTyped' /\ PollsOnlyReadyPort' /\ PoolCounted'
    BY <1>7, Zenon DEF nicVars, NicInv, FlagsTyped, CountsTyped, PollsOnlyReadyPort,
                       PoolCounted, Bursting
  <2> QED
    BY <2>1, <2>2, BurstUntouched DEF NicInv
<1> QED
  BY <1>1, <1>2, <1>3, <1>4, <1>5, <1>6, <1>7 DEF NicNext

(* Buffers are in hand only during a burst, a burst only with a pool.      *)
LEMMA NicInvOwns == NicInv => PoolOwned
<1>1. ASSUME NicInv
      PROVE  PoolOwned
  <2>1. pools = IF mbufPool THEN 1 ELSE 0
    BY <1>1 DEF NicInv, PoolCounted
  <2>2. ASSUME buffers > 0
        PROVE  mbufPool
    <3>1. burst # <<>>
      BY <1>1, <2>2 DEF NicInv, BuffersReturned
    <3> QED
      BY <1>1, <3>1 DEF NicInv, PollsOnlyReadyPort, Bursting
  <2> QED
    BY <2>1, <2>2 DEF PoolOwned
<1> QED
  BY <1>1

\* It holds always.
LEMMA InvHolds == NicSpec => []NicInv
BY InitHolds, NextKeeps, PTL DEF NicSpec

-----------------------------------------------------------------------------
(* Every variable of the handler keeps its type: no counter underflows and *)
(* no burst exceeds the array it is received into.                         *)
THEOREM NicTyped == NicSpec => []NicTypeOK
<1>1. NicInv => NicTypeOK
  BY Zenon DEF NicInv, NicTypeOK, FlagsTyped, CountsTyped, BurstFits
<1> QED
  BY <1>1, InvHolds, PTL

(* Only a port that init has brought up and no shutdown has closed is      *)
(* polled, after whatever failures, retries and shutdowns.                 *)
THEOREM OnlyReadyPortPolled == NicSpec => []PollsOnlyReadyPort
<1>1. NicInv => PollsOnlyReadyPort
  BY DEF NicInv
<1> QED
  BY <1>1, InvHolds, PTL

(* At most one pool exists, and it outlives the buffers taken from it.     *)
THEOREM PoolNeverLeaked == NicSpec => []PoolOwned
BY NicInvOwns, InvHolds, PTL

(* Every buffer of a burst is given back exactly once.                     *)
THEOREM EveryBufferReturned == NicSpec => []BuffersReturned
<1>1. NicInv => BuffersReturned
  BY DEF NicInv
<1> QED
  BY <1>1, InvHolds, PTL

(* packets_received is the packets processed, dropped and still to come.   *)
THEOREM CountersAlwaysAgree == NicSpec => []CountersAgree
<1>1. NicInv => CountersAgree
  BY DEF NicInv
<1> QED
  BY <1>1, InvHolds, PTL

-----------------------------------------------------------------------------
(***************************************************************************)
(* What extract_udp_payload and udp_dst_port do with any packet whatever.  *)
(***************************************************************************)

(* A number that fits into a word is unchanged by the cast to that width. *)
LEMMA CastIsIdentity ==
  ASSUME NEW m \in Nat \ {0}, NEW n \in 0 .. m - 1
  PROVE  n % m = n
  OBVIOUS

(* The packets of the type of UdpPayload are of those considered here.     *)
LEMMA PacketsHaveLengths ==
  ASSUME NEW p \in Packet
  PROVE  HasLengths(p)
BY DEF Packet, HasLengths

(* Lengths are numbers of 16 bits, an IP header has up to 15 words.        *)
LEMMA PacketTyped ==
  ASSUME NEW p, HasLengths(p)
  PROVE  /\ Modulus16 \in Nat \ {0}
         /\ p.len \in Nat
         /\ p.udpLen \in Nat /\ p.udpLen < Modulus16
         /\ p.ihl \in Nat
<1>1. p.len \in Word16 /\ p.udpLen \in Word16 /\ p.ihl \in 0 .. 15
  BY DEF HasLengths
<1>2. Modulus16 \in Nat \ {0}
  BY DEF Modulus16
<1>3. QED
  BY <1>1, <1>2 DEF Word16

(* UDP begins behind an IP header that begins at byte 14 or 18.            *)
LEMMA OffsetsTyped ==
  ASSUME NEW p, HasLengths(p)
  PROVE  /\ Offset(p) \in {14, 18}
         /\ Tagged(p) <=> Offset(p) = 18
         /\ UdpOffset(p) \in Nat
         /\ UdpOffset(p) >= Offset(p)
         /\ p.ihl >= 5 => UdpOffset(p) >= Offset(p) + 20
  BY PacketTyped DEF Offset, UdpOffset

(* No packet makes the receiver read past its end or hand on a payload     *)
(* that sticks out of it (dpdk_packet_handler.hpp:251,                     *)
(* market_data_pipeline_demo.cpp:33).                                      *)
THEOREM NeverReadsOutside == ASSUME NEW p, HasLengths(p) PROVE StaysInside(p)
<1>1. HasUdp(p) => UdpOffset(p) >= Offset(p) + 20 /\ p.len >= UdpOffset(p) + 8
  BY OffsetsTyped DEF HasUdp
<1>2. ASSUME NEW i \in ExtractReads(p) PROVE i < p.len
  <2>1. CASE i \in {12, 13} /\ p.len >= 14
    BY <2>1, PacketTyped
  <2>2. CASE i \in {16, 17} /\ p.len >= 18
    BY <2>2, PacketTyped
  <2>3. CASE i = Offset(p) /\ p.len >= Offset(p) + 20
    BY <2>3, PacketTyped, OffsetsTyped
  <2>4. CASE i \in {Offset(p) + 9, UdpOffset(p) + 4, UdpOffset(p) + 5} /\ HasUdp(p)
    BY <1>1, <2>4, PacketTyped, OffsetsTyped
  <2>5. QED
    BY <1>2, <2>1, <2>2, <2>3, <2>4 DEF ExtractReads, HasEthernet, HasEtherType, HasIp
<1>3. ASSUME NEW i \in PortReads(p) PROVE i < p.len
  <2>1. CASE i \in {12, 13, PortOffset(p)} /\ p.len >= 14 + 20 + 4
    <3>1. i <= 18
      BY <2>1 DEF PortOffset
    <3> QED
      BY <2>1, <3>1, PacketTyped DEF PortOffset
  <2>2. CASE i \in {PortUdpOffset(p) + 2, PortUdpOffset(p) + 3} /\ p.len >= PortUdpOffset(p) + 4
    <3>1. PortOffset(p) \in Nat /\ p.ihl \in Nat /\ PortUdpOffset(p) \in Nat
      BY DEF PortUdpOffset, PortOffset, HasLengths
    <3> QED
      BY <2>2, <3>1, PacketTyped
  <2>3. QED
    BY <1>3, <2>1, <2>2 DEF PortReads, PortReadable
<1>4. ASSUME Extracts(p) PROVE PayloadOffset(p) + PayloadLen(p) <= p.len
  <2>1. p.udpLen >= 8 /\ p.len >= (UdpOffset(p) + 8) + (p.udpLen - 8)
    BY <1>4 DEF Extracts
  <2>2. p.udpLen - 8 \in 0 .. Modulus16 - 1
    BY <2>1, PacketTyped
  <2>3. PayloadLen(p) = p.udpLen - 8
    BY <2>2, PacketTyped, CastIsIdentity DEF PayloadLen
  <2>4. QED
    BY <2>1, <2>3 DEF PayloadOffset
<1>5. QED
  BY <1>2, <1>3, <1>4 DEF StaysInside

(* The two walks over the headers agree on every packet whose payload is   *)
(* processed: its own destination port is compared with the filter's       *)
(* (market_data_pipeline_demo.cpp:33, :147).                               *)
THEOREM FilterAndPayloadAgree == ASSUME NEW p, HasLengths(p) PROVE FilterSeesPort(p)
<1>1. SUFFICES ASSUME Extracts(p)
               PROVE  PortReadable(p) /\ PortUdpOffset(p) + 2 = PayloadOffset(p) - 6
  BY DEF FilterSeesPort
<1>2. UdpOffset(p) >= Offset(p) + 20 /\ p.len >= UdpOffset(p) + 8
  BY <1>1, OffsetsTyped DEF Extracts, HasUdp
<1>3. PortUdpOffset(p) = UdpOffset(p)
  <2>1. p.len >= 18
    BY <1>2, PacketTyped, OffsetsTyped
  <2> QED
    BY <2>1 DEF PortUdpOffset, PortOffset, UdpOffset, Offset
<1>4. QED
  BY <1>2, <1>3, PacketTyped, OffsetsTyped DEF PortReadable, PayloadOffset

(* No valid datagram is refused (dpdk_packet_handler.hpp:272, :279, :296). *)
THEOREM NoValidPacketRefused == ASSUME NEW p, HasLengths(p) PROVE RefusesNoValidPacket(p)
<1>1. SUFFICES ASSUME FitsItsPacket(p) PROVE Extracts(p)
  BY DEF RefusesNoValidPacket
<1>2. /\ UdpOffset(p) >= Offset(p) + 20
      /\ p.len >= UdpOffset(p) + 8
      /\ p.len >= (UdpOffset(p) + 8) + (p.udpLen - 8)
  BY <1>1, PacketTyped, OffsetsTyped DEF FitsItsPacket
<1>3. HasIp(p)
  BY <1>1, <1>2, PacketTyped, OffsetsTyped
  DEF FitsItsPacket, HasIp, HasEtherType, HasEthernet
<1>4. QED
  BY <1>1, <1>2, <1>3 DEF FitsItsPacket, Extracts, HasUdp

=============================================================================
