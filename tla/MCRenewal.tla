----------------------------- MODULE MCRenewal -----------------------------
(***************************************************************************)
(* A small instance of RenewalLoop, where attempts and responses may       *)
(* outlast the interval and a few attempts without a grant lose access.    *)
(***************************************************************************)
EXTENDS RenewalLoop
=============================================================================
