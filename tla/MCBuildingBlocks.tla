--------------------------- MODULE MCBuildingBlocks ---------------------------
(* The components that stand beside the receive path, a TimerWheel, a      *)
(* MemoryPool or MemoryPool1, and a LatencyHistogram, each in an           *)
(* application of its own.  They share no state: one is used, and the      *)
(* others stay as they were constructed.                                   *)
EXTENDS TimerWheel, MemoryPool1, LatencyRecorder

blocksVars == <<vars, poolsVars, recorderVars>>

\* Of an unused pool it makes no difference which of the two it is.
PoolUnused == PoolsInit /\ ~draft

BlocksInit == Init /\ PoolsInit /\ RecorderInit

WheelUsed == Next /\ PoolUnused /\ RecorderInit /\ UNCHANGED <<poolsVars, recorderVars>>

PoolUsed == PoolsNext /\ Init /\ RecorderInit /\ UNCHANGED <<vars, recorderVars>>

HistogramUsed == RecorderNext /\ Init /\ PoolUnused /\ UNCHANGED <<vars, poolsVars>>

\* The pool's destructor has returned.
PoolGone == cursor = Capacity /\ UNCHANGED blocksVars

BlocksNext == WheelUsed \/ PoolUsed \/ HistogramUsed \/ PoolGone

BlocksSpec == BlocksInit /\ [][BlocksNext]_blocksVars

=============================================================================
