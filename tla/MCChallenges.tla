---------------------------- MODULE MCChallenges ----------------------------
(***************************************************************************)
(* A small instance of ChallengeLifecycle: three challenges of one address **)
(* and two of another, so that the address limit and the global limit are  *)
(* both reached.                                                           *)
(***************************************************************************)
EXTENDS ChallengeLifecycle, TLC

CONSTANTS a, b, a1, a2, a3, b1, b2

MCIPOf == [k \in {a1, a2, a3, b1, b2} |-> IF k \in {b1, b2} THEN b ELSE a]

Symmetry == Permutations({a1, a2, a3}) \cup Permutations({b1, b2})
=============================================================================
