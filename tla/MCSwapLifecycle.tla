--------------------------- MODULE MCSwapLifecycle ---------------------------
(***************************************************************************)
(* Values for the constants of SwapLifecycle: the orders that are          *)
(* token-to-fiat are listed in the .cfg, the others are fiat-to-token.     *)
(***************************************************************************)
EXTENDS SwapLifecycle

CONSTANT TokenOrders

MCSwapTypeOf ==
    [o \in Orders |-> IF o \in TokenOrders THEN "TOKENTOFIAT" ELSE "FIATTOTOKEN"]

=============================================================================
