----------------------------- MODULE MCTwoFactor -----------------------------
(***************************************************************************)
(* Small instances of TwoFactor.                                           *)
(***************************************************************************)
EXTENDS TwoFactor

=============================================================================
