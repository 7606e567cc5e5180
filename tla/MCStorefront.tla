---------------------------- MODULE MCStorefront ----------------------------
(***************************************************************************)
(* Two calls that may be for one purchase, be a read or a webhook or be     *)
(* refused, and a third that buys without a key.                            *)
(***************************************************************************)
EXTENDS Storefront, TLC

CONSTANTS c1, c2, c3, k, x10, x11, x20, x21, x30, x31

MCMayCall ==
    c1 :> {"createPurchase", "listBanks", "handlePaystackWebhook"}
    @@ c2 :> {"createPurchase", "updateBadgeConfig"}
    @@ c3 :> {"createPurchase"}

MCHeaderOf == c1 :> k @@ c2 :> k @@ c3 :> EmptyHeader

MCRequestOf ==
    c1 :> (0 :> x10 @@ 1 :> x11) @@ c2 :> (0 :> x20 @@ 1 :> x21) @@ c3 :> (0 :> x30 @@ 1 :> x31)
=============================================================================
