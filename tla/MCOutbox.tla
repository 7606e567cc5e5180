------------------------------ MODULE MCOutbox ------------------------------
(* Instances of Outbox for TLC. *)
EXTENDS Outbox, TLC

CONSTANTS r1, r2, s1, s2, c1, p1, p2

\* Two rows whose transactions started together: any order may be returned.
TwoRows == {r1, r2}
TwoRowsCreatedAt == [r \in TwoRows |-> 1]

OneRow == {r1}
OneRowCreatedAt == [r \in OneRow |-> 1]

\* c1 shares its process with the scanner s1.
TwoScanners == {s1, s2}
TwoPods == [w \in {c1, s1, s2} |-> IF w = s2 THEN p2 ELSE p1]

OneScanner == {s1}
OnePod == [w \in {c1, s1} |-> p1]

\* Sound for the safety run: r1 and r2 differ in nothing.
RowSymmetry == Permutations(TwoRows)
=============================================================================
