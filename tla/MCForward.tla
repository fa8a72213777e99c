----------------------------- MODULE MCForward -----------------------------
(***************************************************************************)
(* Small instances of Forward: two connections of one address and one each *)
(* of two others.                                                          *)
(***************************************************************************)
EXTENDS Forward, TLC

CONSTANTS a, b, d, a1, a2, b1, d1

MCIPOf == [c \in {a1, a2, b1, d1} |-> IF c = b1 THEN b ELSE IF c = d1 THEN d ELSE a]
MCIPOfTwo == [c \in {a1, a2} |-> a]

Twins == Permutations({a1, a2})
=============================================================================
