------------------------------- MODULE MCPrices -------------------------------
(***************************************************************************)
(* Instances of Prices for TLC.                                            *)
(***************************************************************************)
EXTENDS Prices

\* Fees in fen by weight in grams.
TwoTiers == [m \in {10, 30} |-> IF m = 10 THEN 120 ELSE 8000]
===============================================================================
