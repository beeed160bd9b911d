--------------------------- MODULE SwapSettlement ---------------------------
(***************************************************************************)
(* What swap orders, contract and event processor promise together, said   *)
(* without rows, handlers or batches: tokens and fiat move in step.        *)
(* An order's swap is accepted by the contract once and settled once; it   *)
(* is confirmed only after it was executed; and each transfer of fiat uses *)
(* up one confirmation of a token-to-fiat swap.                            *)
(***************************************************************************)
EXTENDS Sequences, Naturals

CONSTANTS Orders, Instances, SwapTypes

VARIABLES
    swap,        \* the order's swap in the contract: a state and a type
    confirmed,   \* the events that confirmed each order
    payouts      \* the transfers of fiat, each by the confirmation it uses

settlementVars == <<swap, confirmed, payouts>>

SettlementInit ==
    /\ swap      = [o \in Orders |-> [state |-> "none", type |-> "none"]]
    /\ confirmed = [o \in Orders |-> {}]
    /\ payouts   = [o \in Orders |-> <<>>]

Accept(o, t) ==
    /\ swap[o].state = "none"
    /\ swap' = [swap EXCEPT ![o] = [state |-> "submitted", type |-> t]]
    /\ UNCHANGED <<confirmed, payouts>>

SettleSwap(o, outcome) ==
    /\ swap[o].state = "submitted"
    /\ swap' = [swap EXCEPT ![o].state = outcome]
    /\ UNCHANGED <<confirmed, payouts>>

Confirm(o, i) ==
    /\ swap[o].state = "executed"
    /\ confirmed' = [confirmed EXCEPT ![o] = @ \cup {i}]
    /\ UNCHANGED <<swap, payouts>>

PayOut(o, i) ==
    /\ swap[o] = [state |-> "executed", type |-> "TOKENTOFIAT"]
    /\ i \in confirmed[o]
    /\ \A k \in 1..Len(payouts[o]) : payouts[o][k] # i
    /\ payouts' = [payouts EXCEPT ![o] = Append(@, i)]
    /\ UNCHANGED <<swap, confirmed>>

SettlementNext ==
    \E o \in Orders :
      \/ \E t \in SwapTypes : Accept(o, t)
      \/ \E outcome \in {"executed", "reverted"} : SettleSwap(o, outcome)
      \/ \E i \in Instances : Confirm(o, i) \/ PayOut(o, i)

SettlementSpec == SettlementInit /\ [][SettlementNext]_settlementVars

=============================================================================
