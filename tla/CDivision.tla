----------------------------- MODULE CDivision -----------------------------
(* The division and the remainder of C, which round towards 0, by a positive number. *)
EXTENDS Integers

\* No number is negated: the least one has no counterpart.
Quotient(a, b) == IF a < 0 /\ a % b # 0 THEN a \div b + 1 ELSE a \div b
Remainder(a, b) == a - b * Quotient(a, b)
=============================================================================
