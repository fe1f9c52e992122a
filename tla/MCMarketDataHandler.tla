-------------------------- MODULE MCMarketDataHandler --------------------------
(* Instances of MarketDataHandler over a book of two slots, which the two  *)
(* announced orders fill.                                                  *)
EXTENDS MarketDataHandler, TLC

CONSTANTS k1, k2, k3

DistinctHash == k1 :> 1 @@ k2 :> 0 @@ k3 :> 0

=============================================================================
