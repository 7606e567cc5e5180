----------------------------- MODULE MCCashback -----------------------------
(* Instances of Cashback for TLC. *)
EXTENDS Cashback

CONSTANTS t1, t2, u1, u2, e1, e2, d1, d2, d3, old, new

\* One badge of one user.
OneUser == [t \in {t1} |-> u1]
OneTx == [e \in {e1} |-> t1]
WithBankDetails == [e \in {e1} |-> old]
SameEvent == [d \in {d1, d2} |-> e1]
OnlyDelivery == [d \in {d1} |-> e1]

\* Two badges of one user, who has no bank details yet at the first.
TwoBadges == [t \in {t1, t2} |-> u1]
SecondHasBankDetails == [e \in {e1, e2} |-> IF e = e1 THEN None ELSE old]
EachOnce == [d \in {d1, d2} |-> IF d = d1 THEN e1 ELSE e2]

\* A second user has a badge but no bank details.
TwoUsers == [t \in {t1, t2} |-> IF t = t1 THEN u1 ELSE u2]
TwoTxs == [e \in {e1, e2} |-> IF e = e1 THEN t1 ELSE t2]
FirstHasBankDetails == [e \in {e1, e2} |-> IF e = e1 THEN old ELSE None]
TwoEvents == [d \in {d1, d2, d3} |-> IF d = d3 THEN e2 ELSE e1]
=============================================================================
