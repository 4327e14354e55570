----------------------------- MODULE MCStorefront -----------------------------
(***************************************************************************)
(* What a customer meets, for TLC: the payment of orders (OrderPayment),   *)
(* the cart and the catalogue (Shop), the second factor (TwoFactor).  They *)
(* share no variable; every behaviour is one of the part the run begins    *)
(* with, and the others stay in their initial states.                      *)
(***************************************************************************)
EXTENDS MCOrderPayment, Shop, TwoFactor

VARIABLE part

storefrontVars == <<vars, shopVars, tfaVars, part>>

StorefrontInit ==
    /\ Init /\ ShopInit /\ TfaInit
    /\ part \in {"order", "shop", "twofactor"}

StorefrontNext ==
    \/ part = "order" /\ Next /\ UNCHANGED <<shopVars, tfaVars, part>>
    \/ part = "shop" /\ ShopNext /\ UNCHANGED <<vars, tfaVars, part>>
    \/ part = "twofactor" /\ TfaNext /\ UNCHANGED <<vars, shopVars, part>>

StorefrontSpec == StorefrontInit /\ [][StorefrontNext]_storefrontVars

\* ShopCalls and TfaCalls are given the same two values.
StorefrontSymmetry == Symmetry \cup Permutations(Wares) \cup Permutations(ShopCalls)
===============================================================================
