----------------------------- MODULE MCPurchase -----------------------------
(* The instance of Purchase for TLC. *)
EXTENDS Purchase, TLC

CONSTANTS a, b, c, d, k1, u1, u2

\* Three requests share a key, one of them for another user; the fourth has none.
SharedKey == a :> k1 @@ b :> k1 @@ c :> k1 @@ d :> None
SharedUser == a :> u1 @@ b :> u1 @@ c :> u2 @@ d :> u1

\* One request at the DTO's maximum, beyond the column's.
LargeAmount == [r \in Requests |-> IF r = d THEN MaxAmountKobo ELSE 1]
=============================================================================
