---------------------------- MODULE MCHandshake ----------------------------
(***************************************************************************)
(* A small instance of Handshake: two clients compete for the one place of *)
(* a forward; one of them can move from the office it shares with the other*)
(* to a mobile network, runs a clock that is ahead, may try twice, and has *)
(* a key that ends before the run does.                                    *)
(***************************************************************************)
EXTENDS Handshake

CONSTANTS office, mobile, laptop, desktop

MCHomes == [c \in Clients |-> IF c = laptop THEN {office, mobile} ELSE {office}]
MCSkew == [c \in Clients |-> IF c = laptop THEN 1 ELSE -1]
MCKeyFrom == [c \in Clients |-> 0]
MCKeyUntil == [c \in Clients |-> IF c = laptop THEN 5 ELSE 20]
MCTarget == [c \in Clients |-> 1]
MCPeriod == <<2>>
MCMaxAttempts == [c \in Clients |-> IF c = laptop THEN 2 ELSE 1]
=============================================================================
