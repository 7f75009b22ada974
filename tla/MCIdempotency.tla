---------------------------- MODULE MCIdempotency ----------------------------
(* Small instances of Idempotency for TLC: a and b carry one body, c and  *)
(* d another one.                                                          *)
EXTENDS Idempotency, TLC

CONSTANTS a, b, c, d

MCHash == [r \in Requests |-> IF r \in {c, d} THEN 2 ELSE 1]

\* Requests with one body are interchangeable.
Symmetry == Permutations({a, b}) \cup Permutations({c, d})
=============================================================================
