----------------------------- MODULE MCFiatLedger -----------------------------
(***************************************************************************)
(* Two users with an account and one without, for FiatLedger alone.        *)
(***************************************************************************)
EXTENDS FiatLedger

MCStart == [u \in {"u1", "u2"} |-> 2]

=============================================================================
