---------------------------- MODULE MCOrderPayment ----------------------------
(***************************************************************************)
(* Instances of OrderPayment for TLC.                                      *)
(***************************************************************************)
EXTENDS OrderPayment, TLC

CONSTANTS s1, s2

\* Two units of s1 and one of s2; the baskets overlap in s1, and two of the big
\* ones cannot both be served.
MCStock == s1 :> 2 @@ s2 :> 1
MCBaskets == {s1 :> 1 @@ s2 :> 0, s1 :> 2 @@ s2 :> 1}
\* One unit of one SKU, for the runs that are not about stock.
OneUnit == s1 :> 1
OneUnitBaskets == {OneUnit}

Symmetry == Permutations(Orders) \cup Permutations(Events) \cup Permutations(Refunders)
===============================================================================
