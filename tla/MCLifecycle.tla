---------------------------- MODULE MCLifecycle ----------------------------
(***************************************************************************)
(* A small instance of Lifecycle: three forwards, two of them on one port. *)
(***************************************************************************)
EXTENDS Lifecycle

CONSTANTS p, q

MCPortOf == <<p, p, q>>
=============================================================================
