--------------------------- MODULE DpdkPacketHandler ---------------------------
(***************************************************************************)
(* DpdkPacketHandler (dpdk_packet_handler.hpp): bring-up of a NIC port by  *)
(* init with its early returns, the burst loop of process_burst, shutdown. *)
(* One thread uses it.  A packet of a burst is its callbacks, which run    *)
(* between Poll and FinishPacket, and then the rest of the loop's body.    *)
(*                                                                         *)
(* The driver is external.  rte_eal_init succeeds once per process; a pool *)
(* lives until it is freed; a port is configured, started and closed; the  *)
(* NIC receives into buffers of the pool only.                             *)
(***************************************************************************)
EXTENDS Integers, Sequences

CONSTANTS
  Packets,       \* what the NIC may receive
  BurstSize,     \* config_.burst_size
  ArraySize,     \* size of pkts, 256
  PoolSize,      \* config_.mbuf_pool_size
  MaxCallbacks,  \* bound on callbacks_
  MaxReceived    \* bound on packets_received_

ASSUME BurstAssumption == BurstSize \in Nat /\ ArraySize \in Nat /\ PoolSize \in Nat

VARIABLES
  initialized,  \* initialized_
  eal,          \* rte_eal_init has succeeded
  mbufPool,     \* mbuf_pool_ is not nullptr
  pools,        \* pools created and not freed
  port,         \* "closed", "configured" or "started"
  callbacks,    \* number of callbacks_
  packetsReceived, packetsProcessed, packetsDropped,   \* the counters
  burst,        \* packets of pkts whose turn is not over, in order
  own,          \* process_burst was given a callback
  buffers       \* buffers received and not freed

nicVars == <<initialized, eal, mbufPool, pools, port, callbacks,
             packetsReceived, packetsProcessed, packetsDropped, burst, own, buffers>>

lifeVars  == <<initialized, eal, mbufPool, pools, port>>
burstVars == <<packetsReceived, packetsProcessed, packetsDropped, burst, own, buffers>>

Burst == IF BurstSize > ArraySize THEN ArraySize ELSE BurstSize

NicTypeOK ==
  /\ initialized \in BOOLEAN /\ eal \in BOOLEAN /\ mbufPool \in BOOLEAN /\ own \in BOOLEAN
  /\ port \in {"closed", "configured", "started"}
  /\ {pools, callbacks, packetsReceived, packetsProcessed, packetsDropped, buffers} \subseteq Nat
  /\ Len(burst) <= Burst

NicInit ==
  /\ initialized = FALSE /\ eal = FALSE /\ mbufPool = FALSE /\ own = FALSE
  /\ port = "closed"
  /\ pools = 0 /\ callbacks = 0
  /\ packetsReceived = 0 /\ packetsProcessed = 0 /\ packetsDropped = 0 /\ buffers = 0
  /\ burst = <<>>

-----------------------------------------------------------------------------
\* A call of process_burst is under way.
Bursting == burst # <<>>

Idle == ~Bursting

(***************************************************************************)
(* init.  It returns false at the first step that fails, whatever the      *)
(* steps before it have acquired, and true at once when it has succeeded   *)
(* before.                                                                 *)
(***************************************************************************)
InitSteps == <<"eal", "device", "pool", "configure", "rx queues", "tx queues", "start">>

ReachedIgnoringEal(k) ==
  /\ eal'      = IF k = 1 THEN eal ELSE TRUE
  /\ mbufPool' = CASE k < 3 -> mbufPool [] k = 3 -> FALSE [] k > 3 -> TRUE
  /\ pools'    = IF k > 3 THEN pools + 1 ELSE pools
  /\ port'     = CASE k > Len(InitSteps) -> "started"
                   [] k \in 5 .. Len(InitSteps) -> "configured"
                   [] OTHER -> port

\* All steps before step k have succeeded: what they leave behind.
Reached(k) ==
  /\ k > 1 => ~eal
  /\ eal'      = IF k = 1 THEN eal ELSE TRUE
  /\ mbufPool' = CASE k < 3 -> mbufPool [] k = 3 -> FALSE [] k > 3 -> TRUE
  /\ pools'    = IF k > 3 THEN pools + 1 ELSE pools
  /\ port'     = CASE k > Len(InitSteps) -> "started"
                   [] k \in 5 .. Len(InitSteps) -> "configured"
                   [] OTHER -> port

InitFails(k) ==
  /\ Idle /\ ~initialized
  /\ k \in DOMAIN InitSteps
  /\ Reached(k)
  /\ UNCHANGED <<initialized, callbacks, burstVars>>

InitSucceedsEarly ==
  /\ Idle /\ ~initialized
  /\ \E k \in {Len(InitSteps), Len(InitSteps) + 1} : Reached(k)
  /\ initialized' = TRUE
  /\ UNCHANGED <<callbacks, burstVars>>

InitSucceeds ==
  /\ Idle /\ ~initialized
  /\ Reached(Len(InitSteps) + 1)
  /\ initialized' = TRUE
  /\ UNCHANGED <<callbacks, burstVars>>

RegisterCallback ==
  /\ Idle
  /\ callbacks < MaxCallbacks
  /\ callbacks' = callbacks + 1
  /\ UNCHANGED <<lifeVars, burstVars>>

-----------------------------------------------------------------------------
\* What one call of process_burst can receive out of S.
Bursts(S) == UNION {[1 .. n -> S] : n \in 1 .. Burst}

\* process_burst up to its loop.  A call that receives nothing, or comes
\* before init, changes nothing.
Poll(pkts, given) ==
  /\ Idle /\ initialized
  /\ buffers + Len(pkts) <= PoolSize
  /\ packetsReceived + Len(pkts) <= MaxReceived
  /\ packetsReceived' = packetsReceived + Len(pkts)
  /\ buffers'  = buffers + Len(pkts)
  /\ burst'    = pkts
  /\ own'      = given
  /\ UNCHANGED <<lifeVars, callbacks, packetsProcessed, packetsDropped>>

\* Some callback runs for the packet at the head of the burst: the one
\* process_burst was given or, without it, the registered ones.
Handled == own \/ callbacks > 0

FinishFreesTwice ==
  /\ Bursting
  /\ burst'     = Tail(burst)
  /\ packetsProcessed' = IF Handled THEN packetsProcessed + 1 ELSE packetsProcessed
  /\ packetsDropped'   = IF Handled THEN packetsDropped ELSE packetsDropped + 1
  /\ buffers'   = buffers - 2
  /\ UNCHANGED <<lifeVars, callbacks, packetsReceived, own>>

FinishOnlyHandled ==
  /\ Bursting
  /\ burst'     = Tail(burst)
  /\ packetsProcessed' = IF Handled THEN packetsProcessed + 1 ELSE packetsProcessed
  /\ packetsDropped'   = IF Handled THEN packetsDropped ELSE packetsDropped + 1
  /\ buffers'   = IF Handled THEN buffers - 1 ELSE buffers
  /\ UNCHANGED <<lifeVars, callbacks, packetsReceived, own>>

FinishCountsCallbacks ==
  /\ Bursting
  /\ burst'     = Tail(burst)
  /\ packetsProcessed' = packetsProcessed + (IF own THEN 1 ELSE callbacks)
  /\ packetsDropped'   = IF Handled THEN packetsDropped ELSE packetsDropped + 1
  /\ buffers'   = buffers - 1
  /\ UNCHANGED <<lifeVars, callbacks, packetsReceived, own>>

FinishPacket ==
  /\ Bursting
  /\ burst'     = Tail(burst)
  /\ packetsProcessed' = IF Handled THEN packetsProcessed + 1 ELSE packetsProcessed
  /\ packetsDropped'   = IF Handled THEN packetsDropped ELSE packetsDropped + 1
  /\ buffers'   = buffers - 1
  /\ UNCHANGED <<lifeVars, callbacks, packetsReceived, own>>

ShutdownLeavesPort ==
  /\ Idle
  /\ IF initialized
     THEN /\ pools' = IF mbufPool THEN pools - 1 ELSE pools
          /\ mbufPool' = FALSE
          /\ initialized' = FALSE
     ELSE UNCHANGED <<pools, mbufPool, initialized>>
  /\ UNCHANGED <<port, eal, callbacks, burstVars>>

\* shutdown and the destructor; only an init that succeeded is undone.
Shutdown ==
  /\ Idle
  /\ IF initialized
     THEN /\ port' = "closed"
          /\ pools' = IF mbufPool THEN pools - 1 ELSE pools
          /\ mbufPool' = FALSE
          /\ initialized' = FALSE
     ELSE UNCHANGED <<port, pools, mbufPool, initialized>>
  /\ UNCHANGED <<eal, callbacks, burstVars>>

NicNext ==
  \/ \E k \in DOMAIN InitSteps : InitFails(k)
  \/ InitSucceeds
  \/ RegisterCallback
  \/ \E pkts \in Bursts(Packets), given \in BOOLEAN : Poll(pkts, given)
  \/ FinishPacket
  \/ Shutdown

NicSpec == NicInit /\ [][NicNext]_nicVars

-----------------------------------------------------------------------------
(***************************************************************************)
(* Properties.                                                             *)
(***************************************************************************)

(* process_burst polls only a port that every step of init has brought up  *)
(* and no shutdown has closed since, and packets are held only meanwhile.  *)
PollsOnlyReadyPort ==
  initialized \/ Bursting => initialized /\ eal /\ mbufPool /\ port = "started"

(* At most one pool exists, mbuf_pool_ points to it, and it outlives every *)
(* buffer taken from it, through failed inits, retries and shutdowns: no   *)
(* pool is overwritten or freed twice, no buffer is freed into a dead one. *)
PoolOwned ==
  /\ pools = IF mbufPool THEN 1 ELSE 0
  /\ buffers > 0 => mbufPool

(* Each buffer of a burst is given back exactly once, by the time its      *)
(* packet's turn is over, also when no callback takes the packet: the NIC  *)
(* never runs out of buffers.                                              *)
BuffersReturned == buffers = Len(burst)

(* The three counters agree after every packet, whoever handled it.        *)
CountersAgree == packetsReceived = packetsProcessed + packetsDropped + Len(burst)

=============================================================================
