---------------------------- MODULE MCSwapPayouts ----------------------------
(***************************************************************************)
(* MCSwapLifecycle with a history variable that tells whether two          *)
(* deliveries were ever in flight at once; a serial indexer is one that    *)
(* never lets that happen.                                                 *)
(***************************************************************************)
EXTENDS MCSwapLifecycle, FiniteSets

VARIABLE overlapped

Overlap == Cardinality({d \in Deliveries : delivery[d] \in DeliveryBusy}) > 1

MCInit == Init /\ overlapped = FALSE
MCNext == Next /\ overlapped' = (overlapped \/ Overlap')
MCSpec == MCInit /\ [][MCNext]_<<vars, overlapped>>

\* As long as deliveries come one at a time, repeated events pay an order once,
\* unless a client edited it, the handler wrote over its completion, or an
\* answer of the payment provider was lost: the status is the only guard.
PaidAtMostOnce ==
    ~overlapped => \A o \in Orders :
      Unblemished(o, {"edited", "overwritten", "unanswered"})
        => Len(payouts[o]) <= 1

=============================================================================
