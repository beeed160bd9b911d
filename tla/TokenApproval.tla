---------------------------- MODULE TokenApproval ----------------------------
(***************************************************************************)
(* The approval inside a token-to-fiat order.  The handler of the order    *)
(* names one of its user's wallets, has the user's default wallet approve  *)
(* the liquidity contract as spender, waits for that transaction, and has  *)
(* the deployer call the contract, which takes the tokens of the named     *)
(* wallet.  The orders here are all of one user, and may overlap.          *)
(*                                                                         *)
(* The token contract and the liquidity contract are not in this           *)
(* repository: an approval replaces the allowance, a swap needs and takes  *)
(* both allowance and tokens, and may be refused by the contract besides.  *)
(***************************************************************************)
EXTENDS Integers

CONSTANTS
    Orders,
    Amount,      \* the fromAmount of each order
    Wallets,     \* the user's active wallets
    Defaults,    \* those with isDefault: any number of them
    NoWallet,
    Tokens       \* what the wallets hold at first

ApprovalAssumption ==
    /\ Amount \in [Orders -> Nat \ {0}]
    /\ Defaults \subseteq Wallets
    /\ NoWallet \notin Wallets
    /\ Tokens \in [Wallets -> Nat]

VARIABLES
    status,      \* SwapOrder.status
    step,        \* where the handler of the order is
    wallet,      \* the wallet it names: the first one that a query returned
    signer,      \* the wallet that signs its approval
    approval,    \* that transaction
    swap,        \* the transaction of the swap
    allowance,   \* what the liquidity contract may take of each wallet
    tokens,
    audit,       \* the order's row of AuditLog
    unsure,      \* history: orders given up after their swap may have been accepted
    disturbed    \* history: orders whose allowance another order replaced or used

vars     == <<status, step, wallet, signer, approval, swap, allowance, tokens,
              audit, unsure, disturbed>>
rows     == <<status, audit>>
chain    == <<allowance, tokens>>
chosen   == <<wallet, signer>>
history  == <<unsure, disturbed>>

Steps == {"idle", "check", "sign", "wait", "submit", "mark", "fail", "done"}

\* A swap that reverts: the allowance or the tokens do not cover it, or the contract
\* refuses it for a reason of its own.
Reverted == {"uncovered", "unfunded", "refused"}

TypeOK ==
    /\ status    \in [Orders -> {"absent", "pending", "processing", "failed"}]
    /\ step      \in [Orders -> Steps]
    /\ wallet    \in [Orders -> Wallets \cup {NoWallet}]
    /\ signer    \in [Orders -> Defaults \cup {NoWallet}]
    /\ approval  \in [Orders -> {"none", "submitted", "executed", "reverted"}]
    /\ swap      \in [Orders -> {"none", "submitted", "executed"} \cup Reverted]
    /\ allowance \in [Wallets -> Nat]
    /\ tokens    \in [Wallets -> Nat]
    /\ audit     \in [Orders -> {"none", "success", "reverted", "failed", "lost"}]
    /\ unsure    \subseteq Orders
    /\ disturbed \subseteq Orders

Init ==
    /\ status    = [o \in Orders |-> "absent"]
    /\ step      = [o \in Orders |-> "idle"]
    /\ wallet    = [o \in Orders |-> NoWallet]
    /\ signer    = [o \in Orders |-> NoWallet]
    /\ approval  = [o \in Orders |-> "none"]
    /\ swap      = [o \in Orders |-> "none"]
    /\ allowance = [w \in Wallets |-> 0]
    /\ tokens    = Tokens
    /\ audit     = [o \in Orders |-> "none"]
    /\ unsure    = {}
    /\ disturbed = {}

Goes(o, to)       == step' = [step EXCEPT ![o] = to]
Becomes(o, s)     == status' = [status EXCEPT ![o] = s]
Settles(o, how)   == approval' = [approval EXCEPT ![o] = how]

\* createAuditLog: a row, or a failure that is logged and passed over.
Audited(o, what)  == \E row \in {what, "lost"} : audit' = [audit EXCEPT ![o] = row]

(***************************************************************************)
(* The handler.                                                            *)
(***************************************************************************)
Execute(o) ==
    /\ step[o] = "idle"
    /\ Becomes(o, "pending")
    /\ Goes(o, "check")
    /\ UNCHANGED <<chosen, approval, swap, chain, audit, history>>

\* The wallet is one of the user's; it must be registered and hold enough by now.
\* Any of the reads may fail.
Check(o) ==
    /\ step[o] = "check"
    /\ \/ Goes(o, "fail") /\ UNCHANGED wallet
       \/ \E w \in Wallets :
            /\ tokens[w] >= Amount[o]
            /\ wallet' = [wallet EXCEPT ![o] = w]
            /\ Goes(o, "sign")
    /\ UNCHANGED <<rows, signer, approval, swap, chain, history>>

\* getUserAccount and account.execute: no default wallet, no key, or refused.
SignRefused(o) ==
    /\ step[o] = "sign"
    /\ Goes(o, "fail")
    /\ Audited(o, "failed")
    /\ UNCHANGED <<status, chosen, approval, swap, chain, history>>

\* Mutant: nobody waits for the transaction.
SignAcceptedUnawaited(o) ==
    /\ step[o] = "sign"
    /\ \E w \in Defaults : signer' = [signer EXCEPT ![o] = w]
    /\ Settles(o, "submitted")
    /\ Goes(o, "submit") /\ Audited(o, "success")
    /\ UNCHANGED <<status, wallet, swap, chain, history>>

\* Mutant: any active wallet of the user may sign.
SignAcceptedByAny(o) ==
    /\ step[o] = "sign"
    /\ \E w \in Wallets : signer' = [signer EXCEPT ![o] = w]
    /\ Settles(o, "submitted")
    /\ Goes(o, "wait") /\ UNCHANGED audit
    /\ UNCHANGED <<status, wallet, swap, chain, history>>

\* Accepted; the answer arrives or is lost.
SignAccepted(o) ==
    /\ step[o] = "sign"
    /\ \E w \in Defaults : signer' = [signer EXCEPT ![o] = w]
    /\ Settles(o, "submitted")
    /\ \/ Goes(o, "wait") /\ UNCHANGED audit
       \/ Goes(o, "fail") /\ Audited(o, "failed")
    /\ UNCHANGED <<status, wallet, swap, chain, history>>

\* waitForTransaction, then the audit row with the receipt's success, which nobody
\* else looks at; or the node stops answering.
AwaitApproval(o) ==
    /\ step[o] = "wait"
    /\ \/ /\ approval[o] \in {"executed", "reverted"}
          /\ Goes(o, "submit")
          /\ Audited(o, IF approval[o] = "executed" THEN "success" ELSE "reverted")
       \/ Goes(o, "fail") /\ Audited(o, "failed")
    /\ UNCHANGED <<status, chosen, approval, swap, chain, history>>

\* Mutant: a refused call is taken for an accepted one.
SubmitRefusedUnseen(o) ==
    /\ step[o] = "submit"
    /\ Goes(o, "mark")
    /\ UNCHANGED <<rows, chosen, approval, swap, chain, history>>

SubmitRefused(o) ==
    /\ step[o] = "submit"
    /\ Goes(o, "fail")
    /\ UNCHANGED <<rows, chosen, approval, swap, chain, history>>

\* The deployer's call is not waited for.
SubmitAccepted(o) ==
    /\ step[o] = "submit"
    /\ swap' = [swap EXCEPT ![o] = "submitted"]
    /\ \/ Goes(o, "mark") /\ UNCHANGED history
       \/ Goes(o, "fail") /\ unsure' = unsure \cup {o} /\ UNCHANGED disturbed
    /\ UNCHANGED <<rows, chosen, approval, chain>>

\* update(id, {status: 'processing'}), or the database fails.
MarkProcessing(o) ==
    /\ step[o] = "mark"
    /\ \/ Becomes(o, "processing") /\ Goes(o, "done") /\ UNCHANGED history
       \/ /\ Goes(o, "fail") /\ unsure' = unsure \cup {o}
          /\ UNCHANGED <<status, disturbed>>
    /\ UNCHANGED <<chosen, approval, swap, chain, audit>>

MarkFailed(o) ==
    /\ step[o] = "fail"
    /\ Becomes(o, "failed") \/ UNCHANGED status
    /\ Goes(o, "done")
    /\ UNCHANGED <<chosen, approval, swap, chain, audit, history>>

\* Mutant: something is added for the fee.
ApprovedAmountWithFee(o) == Amount[o] + 1

\* One value is computed, approved and swapped.
ApprovedAmount(o) == Amount[o]

(***************************************************************************)
(* The chain.                                                              *)
(***************************************************************************)
\* The orders with a share in the allowance of w, other than o.
Others(o, w) == {p \in Orders \ {o} : signer[p] = w /\ approval[p] = "executed"}

\* approve of the token contract: the allowance is the amount, whatever it was.
Approve(o) ==
    /\ approval[o] = "submitted"
    /\ allowance' = [allowance EXCEPT ![signer[o]] = ApprovedAmount(o)]
    /\ Settles(o, "executed")
    /\ disturbed' = disturbed \cup Others(o, signer[o])
    /\ UNCHANGED <<rows, step, chosen, swap, tokens, unsure>>

ApproveReverts(o) ==
    /\ approval[o] = "submitted"
    /\ Settles(o, "reverted")
    /\ UNCHANGED <<rows, step, chosen, swap, chain, history>>

\* swap_token_to_fiat: it takes the amount of the named wallet.
Swap(o) ==
    LET w == wallet[o]
    IN  /\ swap[o] = "submitted"
        /\ allowance[w] >= Amount[o] /\ tokens[w] >= Amount[o]
        /\ swap' = [swap EXCEPT ![o] = "executed"]
        /\ allowance' = [allowance EXCEPT ![w] = @ - Amount[o]]
        /\ tokens' = [tokens EXCEPT ![w] = @ - Amount[o]]
        /\ disturbed' = disturbed \cup Others(o, w)
        /\ UNCHANGED <<rows, step, chosen, approval, unsure>>

SwapReverts(o, why) ==
    /\ swap[o] = "submitted"
    /\ \/ why = "uncovered" /\ allowance[wallet[o]] < Amount[o]
       \/ why = "unfunded" /\ tokens[wallet[o]] < Amount[o]
       \/ why = "refused"
    /\ swap' = [swap EXCEPT ![o] = why]
    /\ UNCHANGED <<rows, step, chosen, approval, chain, history>>

\* The tokens of a wallet are spent on something else.
Spend(w) ==
    /\ tokens[w] > 0
    /\ tokens' = [tokens EXCEPT ![w] = @ - 1]
    /\ UNCHANGED <<rows, step, chosen, approval, swap, allowance, history>>

Next ==
    \/ \E o \in Orders :
         \/ Execute(o) \/ Check(o) \/ SignRefused(o) \/ SignAccepted(o)
         \/ AwaitApproval(o) \/ SubmitRefused(o) \/ SubmitAccepted(o)
         \/ MarkProcessing(o) \/ MarkFailed(o)
         \/ Approve(o) \/ ApproveReverts(o) \/ Swap(o)
         \/ \E why \in Reverted : SwapReverts(o, why)
    \/ \E w \in Wallets : Spend(w)

Spec == Init /\ [][Next]_vars

(***************************************************************************)
(* Properties.                                                             *)
(***************************************************************************)

\* A swap that the handler sent after its approval was settled finds its allowance,
\* with three exceptions: the approval itself reverted, the default wallet that signed
\* it is not the wallet the order names, or another order of the user replaced or
\* used the allowance in between.  Such an order stays in 'processing': nobody waits
\* for the swap and a revert has no event.
RevertHasCause ==
    \A o \in Orders : swap[o] = "uncovered" =>
      \/ approval[o] = "reverted"
      \/ signer[o] # wallet[o]
      \/ o \in disturbed

\* An order approves its own amount: what the contract may still take of a wallet
\* belongs to an order that approved it and whose swap has not taken it.
AllowanceIsOwed ==
    \A w \in Wallets : allowance[w] > 0 =>
      \E o \in Orders :
        /\ signer[o] = w /\ approval[o] = "executed"
        /\ allowance[w] <= Amount[o]
        /\ ~(swap[o] = "executed" /\ wallet[o] = w)

\* executeTransaction: the audit row of an order tells what became of its approval,
\* and a swap is sent only after an approval that was settled and audited (or whose
\* audit row the database lost).
AuditIsTrue ==
    \A o \in Orders :
      /\ audit[o] = "success"  => approval[o] = "executed"
      /\ audit[o] = "reverted" => approval[o] = "reverted"
      /\ audit[o] = "failed"   => swap[o] = "none"
      /\ swap[o] # "none" =>
           approval[o] \in {"executed", "reverted"} /\ audit[o] # "none"

(***************************************************************************)
(* Refinement: seen from the order, this is the handler of SwapLifecycle.  *)
(***************************************************************************)
HandlerOf(o) == IF step[o] \in {"sign", "wait"} THEN "approve" ELSE step[o]

SwapOf(o) ==
    [state |-> IF swap[o] \in Reverted THEN "reverted" ELSE swap[o],
     type  |-> IF swap[o] = "none" THEN "none" ELSE "TOKENTOFIAT"]

Lifecycle == INSTANCE SwapLifecycle WITH
    SwapTypeOf <- [o \in Orders |-> "TOKENTOFIAT"],
    Deliveries <- {}, MaxBatch <- 1, MaxCrashes <- 0, MaxEdits <- 0, DbFaults <- TRUE,
    handler    <- [o \in Orders |-> HandlerOf(o)],
    swap       <- [o \in Orders |-> SwapOf(o)],
    mishaps    <- [o \in Orders |-> IF o \in unsure THEN {"unsure"} ELSE {}],
    charged    <- {}, recorded <- {},
    delivery   <- [d \in {} |-> "idle"], batch <- [d \in {} |-> <<>>],
    confirmed  <- [o \in Orders |-> {}], payouts <- [o \in Orders |-> <<>>],
    crashes    <- 0, edits <- 0

\* Approvals, wallets and allowances change nothing of what SwapLifecycle says of a
\* token-to-fiat order: its Approve, Submit and Settle are what happens here.
ImplementsLifecycle == Lifecycle!Spec

=============================================================================
