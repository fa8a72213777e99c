----------------------------- MODULE MCLogLocks -----------------------------
(***************************************************************************)
(* A small instance of LogLocks: the reader, an acceptor, the refreshers   *)
(* of two forwards, and a connection that logs.                            *)
(***************************************************************************)
EXTENDS LogLocks
=============================================================================
