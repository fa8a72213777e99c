---------------------------- MODULE MCClientList ----------------------------
(***************************************************************************)
(* A small instance of ClientList: a public forward that two clients of one*)
(* address and one of another compete for, and a second forward with two   *)
(* static addresses and a shorter window.  The third client's address is   *)
(* denied, which also overrides that it is static.                         *)
(***************************************************************************)
EXTENDS ClientList

CONSTANTS nat, home, cafe, laptop, desktop, phone, t1, t2

MCBindPort == <<22, 80>>
MCAllowTokens == <<{t1}, {t2}>>
MCAuthExpiredTime == <<2, 1>>
MCAllowIPs == <<{}, {nat, home}>>
MCClientIP == [c \in {laptop, desktop, phone} |-> IF c = phone THEN home ELSE nat]
=============================================================================
