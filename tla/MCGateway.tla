----------------------------- MODULE MCGateway -----------------------------
(***************************************************************************)
(* A small instance of Gateway: a connection from an address with a client *)
(* and one from an address that is denied.                                 *)
(***************************************************************************)
EXTENDS Gateway, TLC

CONSTANTS a, d, ca, cd, a1, a2, d1

MCIPOf == [c \in {a1, a2, d1} |-> IF c = d1 THEN d ELSE a]
MCClientIP == [c \in {ca, cd} |-> IF c = cd THEN d ELSE a]
MCPeriod == [f \in {Port} |-> 1]
Symmetry == Permutations({a1, a2})
MCStatic == [f \in {Port} |-> {d}]
=============================================================================
