-------------------------- MODULE MCItineraryDeposit --------------------------
(***************************************************************************)
(* Instances of ItineraryDeposit for TLC.                                  *)
(***************************************************************************)
EXTENDS ItineraryDeposit, TLC

\* The deposits are compared for equality only, callers not at all.
Symmetry ==
    Permutations(Requests) \cup Permutations(Intents) \cup Permutations(Prices)
        \cup Permutations(Planners) \cup Permutations(Refunders)
===============================================================================
