---------------------------- MODULE ChainCallProofs ----------------------------
(***************************************************************************)
(* Theorems of what surrounds a contract call, for every set of orders,    *)
(* wallets and default wallets, every amount and holding, every set of     *)
(* calls and every number of restarts: the approval before a token-to-fiat *)
(* swap, the deployer's nonce under every call, and the run's two together.*)
(***************************************************************************)
EXTENDS SequenceTheorems, MCChainCalls, TLAPS

-----------------------------------------------------------------------------
(***************************************************************************)
(* Approvals: the inductive invariant, part by part.                       *)
(***************************************************************************)

\* How far the handler is says what has become of its transactions.
HandlerInv ==
    \A o \in Orders :
      /\ step[o] \in {"idle", "check", "sign"} => approval[o] = "none" /\ swap[o] = "none"
      /\ step[o] = "wait"   => swap[o] = "none"
      /\ step[o] = "submit" => /\ approval[o] \in {"executed", "reverted"}
                               /\ swap[o] = "none"
                               /\ audit[o] \in {"success", "reverted", "lost"}
      /\ approval[o] = "submitted" => swap[o] = "none"
      /\ approval[o] # "none" => signer[o] \in Wallets
      /\ step[o] \in {"sign", "wait", "submit"} \/ swap[o] # "none" => wallet[o] \in Wallets
      /\ audit[o] = "failed" => step[o] \in {"fail", "done"}

\* An approval that nobody disturbed is still there, until the order's own swap takes
\* it from the wallet that signed it.
ApprovalStands ==
    \A o \in Orders \ disturbed :
      approval[o] = "executed" /\ ~(swap[o] = "executed" /\ wallet[o] = signer[o])
        => allowance[signer[o]] = Amount[o]

ApprovalInv ==
    /\ ApprovalAssumption
    /\ TypeOK
    /\ HandlerInv
    /\ AuditIsTrue
    /\ AllowanceIsOwed
    /\ ApprovalStands
    /\ RevertHasCause

-----------------------------------------------------------------------------
(***************************************************************************)
(* Approvals: the first state, the steps of the handler and of the chain.  *)
(***************************************************************************)

LEMMA ApprovalInit == ApprovalAssumption /\ Init => ApprovalInv
  BY SMT DEF ApprovalAssumption, Init, ApprovalInv, TypeOK, HandlerInv, AuditIsTrue, AllowanceIsOwed,
             ApprovalStands, RevertHasCause, Steps

\* Types.
LEMMA StepTypeOK == ApprovalInv /\ [Next]_vars => TypeOK'
<1> SUFFICES ASSUME ApprovalInv, [Next]_vars PROVE TypeOK'
  OBVIOUS
<1> USE DEF ApprovalAssumption, ApprovalInv, TypeOK, Steps, Reverted, rows, chosen, chain, history
<1>1. ASSUME NEW o \in Orders, Execute(o) PROVE TypeOK'
  BY <1>1, SMT DEF Execute, Becomes, Goes
<1>2. ASSUME NEW o \in Orders, Check(o) PROVE TypeOK'
  BY <1>2, SMT DEF Check, Goes
<1>3. ASSUME NEW o \in Orders, SignRefused(o) PROVE TypeOK'
  BY <1>3, SMT DEF SignRefused, Goes, Audited
<1>4. ASSUME NEW o \in Orders, SignAccepted(o) PROVE TypeOK'
  BY <1>4, SMT DEF SignAccepted, Settles, Goes, Audited
<1>5. ASSUME NEW o \in Orders, AwaitApproval(o) PROVE TypeOK'
  BY <1>5, SMT DEF AwaitApproval, Goes, Audited
<1>6. ASSUME NEW o \in Orders, SubmitRefused(o) PROVE TypeOK'
  BY <1>6, SMT DEF SubmitRefused, Goes
<1>7. ASSUME NEW o \in Orders, SubmitAccepted(o) PROVE TypeOK'
  BY <1>7, SMT DEF SubmitAccepted, Goes
<1>8. ASSUME NEW o \in Orders, MarkProcessing(o) PROVE TypeOK'
  BY <1>8, SMT DEF MarkProcessing, Becomes, Goes
<1>9. ASSUME NEW o \in Orders, MarkFailed(o) PROVE TypeOK'
  BY <1>9, SMT DEF MarkFailed, Becomes, Goes
<1>10. ASSUME NEW o \in Orders, Approve(o) PROVE TypeOK'
  <2>1. signer[o] \in Wallets
    BY <1>10, SMT DEF Approve, HandlerInv
  <2>. QED  BY <1>10, <2>1, SMT DEF Approve, ApprovedAmount, Settles, Others
<1>11. ASSUME NEW o \in Orders, ApproveReverts(o) PROVE TypeOK'
  BY <1>11, SMT DEF ApproveReverts, Settles
<1>12. ASSUME NEW o \in Orders, Swap(o) PROVE TypeOK'
  <2>1. wallet[o] \in Wallets
    BY <1>12, SMT DEF Swap, HandlerInv
  <2>. QED  BY <1>12, <2>1, SMT DEF Swap, Others
<1>13. ASSUME NEW o \in Orders, NEW why \in Reverted, SwapReverts(o, why) PROVE TypeOK'
  BY <1>13, SMT DEF SwapReverts
<1>14. ASSUME NEW w \in Wallets, Spend(w) PROVE TypeOK'
  BY <1>14, SMT DEF Spend
<1>15. CASE UNCHANGED vars
  BY <1>15 DEF vars
<1> QED
  BY <1>1, <1>2, <1>3, <1>4, <1>5, <1>6, <1>7, <1>8, <1>9, <1>10, <1>11, <1>12, <1>13, <1>14,
     <1>15 DEF Next

\* Handlers, the token contract and the audit log move together.
LEMMA StepHandlerInv == ApprovalInv /\ [Next]_vars => HandlerInv'
<1> SUFFICES ASSUME ApprovalInv, [Next]_vars PROVE HandlerInv'
  OBVIOUS
<1> USE DEF ApprovalAssumption, ApprovalInv, TypeOK, Steps, Reverted, rows, chosen, chain, history,
            HandlerInv
<1>1. ASSUME NEW o \in Orders, Execute(o) PROVE HandlerInv'
  BY <1>1, SMT DEF Execute, Becomes, Goes
<1>2. ASSUME NEW o \in Orders, Check(o) PROVE HandlerInv'
  BY <1>2, SMT DEF Check, Goes
<1>3. ASSUME NEW o \in Orders, SignRefused(o) PROVE HandlerInv'
  BY <1>3, SMT DEF SignRefused, Goes, Audited
<1>4. ASSUME NEW o \in Orders, SignAccepted(o) PROVE HandlerInv'
  BY <1>4, SMT DEF SignAccepted, Settles, Goes, Audited
<1>5. ASSUME NEW o \in Orders, AwaitApproval(o) PROVE HandlerInv'
  BY <1>5, SMT DEF AwaitApproval, Goes, Audited
<1>6. ASSUME NEW o \in Orders, SubmitRefused(o) PROVE HandlerInv'
  BY <1>6, SMT DEF SubmitRefused, Goes
<1>7. ASSUME NEW o \in Orders, SubmitAccepted(o) PROVE HandlerInv'
  BY <1>7, SMT DEF SubmitAccepted, Goes
<1>8. ASSUME NEW o \in Orders, MarkProcessing(o) PROVE HandlerInv'
  BY <1>8, SMT DEF MarkProcessing, Becomes, Goes
<1>9. ASSUME NEW o \in Orders, MarkFailed(o) PROVE HandlerInv'
  BY <1>9, SMT DEF MarkFailed, Becomes, Goes
<1>10. ASSUME NEW o \in Orders, Approve(o) PROVE HandlerInv'
  BY <1>10, SMT DEF Approve, ApprovedAmount, Settles, Others
<1>11. ASSUME NEW o \in Orders, ApproveReverts(o) PROVE HandlerInv'
  BY <1>11, SMT DEF ApproveReverts, Settles
<1>12. ASSUME NEW o \in Orders, Swap(o) PROVE HandlerInv'
  BY <1>12, SMT DEF Swap, Others
<1>13. ASSUME NEW o \in Orders, NEW why \in Reverted, SwapReverts(o, why) PROVE HandlerInv'
  BY <1>13, SMT DEF SwapReverts
<1>14. ASSUME NEW w \in Wallets, Spend(w) PROVE HandlerInv'
  BY <1>14, SMT DEF Spend
<1>15. CASE UNCHANGED vars
  BY <1>15 DEF vars
<1> QED
  BY <1>1, <1>2, <1>3, <1>4, <1>5, <1>6, <1>7, <1>8, <1>9, <1>10, <1>11, <1>12, <1>13, <1>14,
     <1>15 DEF Next

\* The audit row is written from the receipt, and nothing changes a settled approval.
LEMMA StepAuditIsTrue == ApprovalInv /\ [Next]_vars => AuditIsTrue'
<1> SUFFICES ASSUME ApprovalInv, [Next]_vars PROVE AuditIsTrue'
  OBVIOUS
<1> USE DEF ApprovalAssumption, ApprovalInv, TypeOK, Steps, Reverted, rows, chosen, chain, history,
            HandlerInv, AuditIsTrue
<1>1. ASSUME NEW o \in Orders, Execute(o) PROVE AuditIsTrue'
  BY <1>1, SMT DEF Execute, Becomes, Goes
<1>2. ASSUME NEW o \in Orders, Check(o) PROVE AuditIsTrue'
  BY <1>2, SMT DEF Check, Goes
<1>3. ASSUME NEW o \in Orders, SignRefused(o) PROVE AuditIsTrue'
  BY <1>3, SMT DEF SignRefused, Goes, Audited
<1>4. ASSUME NEW o \in Orders, SignAccepted(o) PROVE AuditIsTrue'
  BY <1>4, SMT DEF SignAccepted, Settles, Goes, Audited
<1>5. ASSUME NEW o \in Orders, AwaitApproval(o) PROVE AuditIsTrue'
  BY <1>5, SMT DEF AwaitApproval, Goes, Audited
<1>6. ASSUME NEW o \in Orders, SubmitRefused(o) PROVE AuditIsTrue'
  BY <1>6, SMT DEF SubmitRefused, Goes
<1>7. ASSUME NEW o \in Orders, SubmitAccepted(o) PROVE AuditIsTrue'
  BY <1>7, SMT DEF SubmitAccepted, Goes
<1>8. ASSUME NEW o \in Orders, MarkProcessing(o) PROVE AuditIsTrue'
  BY <1>8, SMT DEF MarkProcessing, Becomes, Goes
<1>9. ASSUME NEW o \in Orders, MarkFailed(o) PROVE AuditIsTrue'
  BY <1>9, SMT DEF MarkFailed, Becomes, Goes
<1>10. ASSUME NEW o \in Orders, Approve(o) PROVE AuditIsTrue'
  BY <1>10, SMT DEF Approve, ApprovedAmount, Settles, Others
<1>11. ASSUME NEW o \in Orders, ApproveReverts(o) PROVE AuditIsTrue'
  BY <1>11, SMT DEF ApproveReverts, Settles
<1>12. ASSUME NEW o \in Orders, Swap(o) PROVE AuditIsTrue'
  BY <1>12, SMT DEF Swap, Others
<1>13. ASSUME NEW o \in Orders, NEW why \in Reverted, SwapReverts(o, why) PROVE AuditIsTrue'
  BY <1>13, SMT DEF SwapReverts
<1>14. ASSUME NEW w \in Wallets, Spend(w) PROVE AuditIsTrue'
  BY <1>14, SMT DEF Spend
<1>15. CASE UNCHANGED vars
  BY <1>15 DEF vars
<1> QED
  BY <1>1, <1>2, <1>3, <1>4, <1>5, <1>6, <1>7, <1>8, <1>9, <1>10, <1>11, <1>12, <1>13, <1>14,
     <1>15 DEF Next

\* An approval owes its own amount; a swap leaves nothing of an allowance that was its own.
LEMMA StepAllowanceIsOwed == ApprovalInv /\ [Next]_vars => AllowanceIsOwed'
<1> SUFFICES ASSUME ApprovalInv, [Next]_vars PROVE AllowanceIsOwed'
  OBVIOUS
<1> USE DEF ApprovalAssumption, ApprovalInv, TypeOK, Steps, Reverted, rows, chosen, chain, history,
            HandlerInv, AllowanceIsOwed
<1>1. ASSUME NEW o \in Orders, Execute(o) PROVE AllowanceIsOwed'
  BY <1>1, SMT DEF Execute, Becomes, Goes
<1>2. ASSUME NEW o \in Orders, Check(o) PROVE AllowanceIsOwed'
  BY <1>2, SMT DEF Check, Goes
<1>3. ASSUME NEW o \in Orders, SignRefused(o) PROVE AllowanceIsOwed'
  BY <1>3, SMT DEF SignRefused, Goes, Audited
<1>4. ASSUME NEW o \in Orders, SignAccepted(o) PROVE AllowanceIsOwed'
  BY <1>4, SMT DEF SignAccepted, Settles, Goes, Audited
<1>5. ASSUME NEW o \in Orders, AwaitApproval(o) PROVE AllowanceIsOwed'
  BY <1>5, SMT DEF AwaitApproval, Goes, Audited
<1>6. ASSUME NEW o \in Orders, SubmitRefused(o) PROVE AllowanceIsOwed'
  BY <1>6, SMT DEF SubmitRefused, Goes
<1>7. ASSUME NEW o \in Orders, SubmitAccepted(o) PROVE AllowanceIsOwed'
  BY <1>7, SMT DEF SubmitAccepted, Goes
<1>8. ASSUME NEW o \in Orders, MarkProcessing(o) PROVE AllowanceIsOwed'
  BY <1>8, SMT DEF MarkProcessing, Becomes, Goes
<1>9. ASSUME NEW o \in Orders, MarkFailed(o) PROVE AllowanceIsOwed'
  BY <1>9, SMT DEF MarkFailed, Becomes, Goes
<1>10. ASSUME NEW o \in Orders, Approve(o) PROVE AllowanceIsOwed'
  BY <1>10, SMT DEF Approve, ApprovedAmount, Settles, Others
<1>11. ASSUME NEW o \in Orders, ApproveReverts(o) PROVE AllowanceIsOwed'
  BY <1>11, SMT DEF ApproveReverts, Settles
<1>12. ASSUME NEW o \in Orders, Swap(o) PROVE AllowanceIsOwed'
  BY <1>12, SMT DEF Swap, Others
<1>13. ASSUME NEW o \in Orders, NEW why \in Reverted, SwapReverts(o, why) PROVE AllowanceIsOwed'
  BY <1>13, SMT DEF SwapReverts
<1>14. ASSUME NEW w \in Wallets, Spend(w) PROVE AllowanceIsOwed'
  BY <1>14, SMT DEF Spend
<1>15. CASE UNCHANGED vars
  BY <1>15 DEF vars
<1> QED
  BY <1>1, <1>2, <1>3, <1>4, <1>5, <1>6, <1>7, <1>8, <1>9, <1>10, <1>11, <1>12, <1>13, <1>14,
     <1>15 DEF Next

\* Whoever changes an allowance disturbs those who share it.
LEMMA StepApprovalStands == ApprovalInv /\ [Next]_vars => ApprovalStands'
<1> SUFFICES ASSUME ApprovalInv, [Next]_vars PROVE ApprovalStands'
  OBVIOUS
<1> USE DEF ApprovalAssumption, ApprovalInv, TypeOK, Steps, Reverted, rows, chosen, chain, history,
            HandlerInv, ApprovalStands
<1>1. ASSUME NEW o \in Orders, Execute(o) PROVE ApprovalStands'
  BY <1>1, SMT DEF Execute, Becomes, Goes
<1>2. ASSUME NEW o \in Orders, Check(o) PROVE ApprovalStands'
  BY <1>2, SMT DEF Check, Goes
<1>3. ASSUME NEW o \in Orders, SignRefused(o) PROVE ApprovalStands'
  BY <1>3, SMT DEF SignRefused, Goes, Audited
<1>4. ASSUME NEW o \in Orders, SignAccepted(o) PROVE ApprovalStands'
  BY <1>4, SMT DEF SignAccepted, Settles, Goes, Audited
<1>5. ASSUME NEW o \in Orders, AwaitApproval(o) PROVE ApprovalStands'
  BY <1>5, SMT DEF AwaitApproval, Goes, Audited
<1>6. ASSUME NEW o \in Orders, SubmitRefused(o) PROVE ApprovalStands'
  BY <1>6, SMT DEF SubmitRefused, Goes
<1>7. ASSUME NEW o \in Orders, SubmitAccepted(o) PROVE ApprovalStands'
  BY <1>7, SMT DEF SubmitAccepted, Goes
<1>8. ASSUME NEW o \in Orders, MarkProcessing(o) PROVE ApprovalStands'
  BY <1>8, SMT DEF MarkProcessing, Becomes, Goes
<1>9. ASSUME NEW o \in Orders, MarkFailed(o) PROVE ApprovalStands'
  BY <1>9, SMT DEF MarkFailed, Becomes, Goes
<1>10. ASSUME NEW o \in Orders, Approve(o) PROVE ApprovalStands'
  BY <1>10, SMT DEF Approve, ApprovedAmount, Settles, Others
<1>11. ASSUME NEW o \in Orders, ApproveReverts(o) PROVE ApprovalStands'
  BY <1>11, SMT DEF ApproveReverts, Settles
<1>12. ASSUME NEW o \in Orders, Swap(o) PROVE ApprovalStands'
  BY <1>12, SMT DEF Swap, Others
<1>13. ASSUME NEW o \in Orders, NEW why \in Reverted, SwapReverts(o, why) PROVE ApprovalStands'
  BY <1>13, SMT DEF SwapReverts
<1>14. ASSUME NEW w \in Wallets, Spend(w) PROVE ApprovalStands'
  BY <1>14, SMT DEF Spend
<1>15. CASE UNCHANGED vars
  BY <1>15 DEF vars
<1> QED
  BY <1>1, <1>2, <1>3, <1>4, <1>5, <1>6, <1>7, <1>8, <1>9, <1>10, <1>11, <1>12, <1>13, <1>14,
     <1>15 DEF Next

\* A swap without its allowance: its approval reverted, or does not stand.
LEMMA StepRevertHasCause == ApprovalInv /\ [Next]_vars => RevertHasCause'
<1> SUFFICES ASSUME ApprovalInv, [Next]_vars PROVE RevertHasCause'
  OBVIOUS
<1> USE DEF ApprovalAssumption, ApprovalInv, TypeOK, Steps, Reverted, rows, chosen, chain, history,
            HandlerInv, AuditIsTrue, ApprovalStands, RevertHasCause
<1>1. ASSUME NEW o \in Orders, Execute(o) PROVE RevertHasCause'
  BY <1>1, SMT DEF Execute, Becomes, Goes
<1>2. ASSUME NEW o \in Orders, Check(o) PROVE RevertHasCause'
  BY <1>2, SMT DEF Check, Goes
<1>3. ASSUME NEW o \in Orders, SignRefused(o) PROVE RevertHasCause'
  BY <1>3, SMT DEF SignRefused, Goes, Audited
<1>4. ASSUME NEW o \in Orders, SignAccepted(o) PROVE RevertHasCause'
  BY <1>4, SMT DEF SignAccepted, Settles, Goes, Audited
<1>5. ASSUME NEW o \in Orders, AwaitApproval(o) PROVE RevertHasCause'
  BY <1>5, SMT DEF AwaitApproval, Goes, Audited
<1>6. ASSUME NEW o \in Orders, SubmitRefused(o) PROVE RevertHasCause'
  BY <1>6, SMT DEF SubmitRefused, Goes
<1>7. ASSUME NEW o \in Orders, SubmitAccepted(o) PROVE RevertHasCause'
  BY <1>7, SMT DEF SubmitAccepted, Goes
<1>8. ASSUME NEW o \in Orders, MarkProcessing(o) PROVE RevertHasCause'
  BY <1>8, SMT DEF MarkProcessing, Becomes, Goes
<1>9. ASSUME NEW o \in Orders, MarkFailed(o) PROVE RevertHasCause'
  BY <1>9, SMT DEF MarkFailed, Becomes, Goes
<1>10. ASSUME NEW o \in Orders, Approve(o) PROVE RevertHasCause'
  BY <1>10, SMT DEF Approve, ApprovedAmount, Settles, Others
<1>11. ASSUME NEW o \in Orders, ApproveReverts(o) PROVE RevertHasCause'
  BY <1>11, SMT DEF ApproveReverts, Settles
<1>12. ASSUME NEW o \in Orders, Swap(o) PROVE RevertHasCause'
  BY <1>12, SMT DEF Swap, Others
<1>13. ASSUME NEW o \in Orders, NEW why \in Reverted, SwapReverts(o, why) PROVE RevertHasCause'
  BY <1>13, SMT DEF SwapReverts
<1>14. ASSUME NEW w \in Wallets, Spend(w) PROVE RevertHasCause'
  BY <1>14, SMT DEF Spend
<1>15. CASE UNCHANGED vars
  BY <1>15 DEF vars
<1> QED
  BY <1>1, <1>2, <1>3, <1>4, <1>5, <1>6, <1>7, <1>8, <1>9, <1>10, <1>11, <1>12, <1>13, <1>14,
     <1>15 DEF Next

-----------------------------------------------------------------------------
(***************************************************************************)
(* Approvals: theorems.                                                    *)
(***************************************************************************)

\* The parts together are inductive.
THEOREM ApprovalInvariance == ApprovalAssumption /\ Spec => []ApprovalInv
<1>1. ApprovalInv /\ [Next]_vars => ApprovalInv'
  <2>1. ApprovalInv => ApprovalAssumption'
    BY DEF ApprovalInv, ApprovalAssumption
  <2>. QED
    BY <2>1, StepTypeOK, StepHandlerInv, StepAuditIsTrue, StepAllowanceIsOwed,
       StepApprovalStands, StepRevertHasCause DEF ApprovalInv
<1>. QED  BY <1>1, ApprovalInit, PTL DEF Spec

\* The variables of the handlers, the token contract and the audit log keep their types.
THEOREM ApprovalTypes == ApprovalAssumption /\ Spec => []TypeOK
<1>1. ApprovalInv => TypeOK
  BY DEF ApprovalInv
<1>. QED  BY <1>1, ApprovalInvariance, PTL

\* executeTransaction: the audit row of an order is what became of its approval, and no
\* swap is sent before its approval was settled and audited.
THEOREM AuditTrue == ApprovalAssumption /\ Spec => []AuditIsTrue
<1>1. ApprovalInv => AuditIsTrue
  BY DEF ApprovalInv
<1>. QED  BY <1>1, ApprovalInvariance, PTL

\* approveTokenWithUserCredentials: the contract may take of a wallet only what an
\* order approved there and has not swapped yet.
THEOREM AllowanceOwed == ApprovalAssumption /\ Spec => []AllowanceIsOwed
<1>1. ApprovalInv => AllowanceIsOwed
  BY DEF ApprovalInv
<1>. QED  BY <1>1, ApprovalInvariance, PTL

\* swapTokenToFiat: with any number of wallets, defaults and overlapping orders, a swap
\* is uncovered only for a reverted approval, a foreign signer or a disturbing order.
THEOREM RevertCause == ApprovalAssumption /\ Spec => []RevertHasCause
<1>1. ApprovalInv => RevertHasCause
  BY DEF ApprovalInv
<1>. QED  BY <1>1, ApprovalInvariance, PTL

-----------------------------------------------------------------------------
(***************************************************************************)
(* Approvals: what SwapLifecycle sees of the state, and how it moves.      *)
(***************************************************************************)
HandlerName(s) == IF s \in {"sign", "wait"} THEN "approve" ELSE s
SwapRow(x)     == [state |-> IF x \in Reverted THEN "reverted" ELSE x,
                   type  |-> IF x = "none" THEN "none" ELSE "TOKENTOFIAT"]

handlerSeen == [o \in Orders |-> HandlerOf(o)]
swapSeen    == [o \in Orders |-> SwapOf(o)]
mishapsSeen == [o \in Orders |-> IF o \in unsure THEN {"unsure"} ELSE {}]

\* An order has its row from the moment its handler begins.
RowInv == \A o \in Orders : step[o] = "idle" <=> status[o] = "absent"

LEMMA HandlerSeenMoves ==
  ASSUME ApprovalInv, NEW o \in Orders, NEW to \in Steps, Goes(o, to)
  PROVE  handlerSeen' = [handlerSeen EXCEPT ![o] = HandlerName(to)]
  BY DEF ApprovalInv, TypeOK, Goes, handlerSeen, HandlerOf, HandlerName

LEMMA SwapSeenMoves ==
  ASSUME ApprovalInv, NEW o \in Orders, NEW x, swap' = [swap EXCEPT ![o] = x]
  PROVE  swapSeen' = [swapSeen EXCEPT ![o] = SwapRow(x)]
  BY DEF ApprovalInv, TypeOK, swapSeen, SwapOf, SwapRow

LEMMA MishapNoted ==
  ASSUME NEW o \in Orders, unsure' = unsure \cup {o}
  PROVE  mishapsSeen' = [mishapsSeen EXCEPT ![o] = mishapsSeen[o] \cup {"unsure"}]
  BY DEF mishapsSeen

LEMMA SeenStays ==
  /\ UNCHANGED step   => UNCHANGED handlerSeen
  /\ UNCHANGED swap   => UNCHANGED swapSeen
  /\ UNCHANGED unsure => UNCHANGED mishapsSeen
  BY DEF handlerSeen, HandlerOf, swapSeen, SwapOf, mishapsSeen

LEMMA StepRowInv == ApprovalInv /\ RowInv /\ [Next]_vars => RowInv'
<1> SUFFICES ASSUME ApprovalInv, RowInv, [Next]_vars PROVE RowInv'
  OBVIOUS
<1> USE DEF ApprovalInv, TypeOK, RowInv, Steps, rows, chosen, chain, history, Goes, Becomes
<1>1. ASSUME NEW o \in Orders, Execute(o) PROVE RowInv'
  BY <1>1 DEF Execute
<1>2. ASSUME NEW o \in Orders, MarkProcessing(o) PROVE RowInv'
  BY <1>2 DEF MarkProcessing
<1>3. ASSUME NEW o \in Orders, MarkFailed(o) PROVE RowInv'
  BY <1>3 DEF MarkFailed
<1>4. ASSUME NEW o \in Orders, Check(o) \/ SignRefused(o) \/ SignAccepted(o)
                               \/ AwaitApproval(o) \/ SubmitRefused(o) \/ SubmitAccepted(o)
      PROVE  RowInv'
  BY <1>4 DEF Check, SignRefused, SignAccepted, AwaitApproval, SubmitRefused, SubmitAccepted
<1>5. CASE UNCHANGED <<status, step>>
  BY <1>5
<1>6. ASSUME NEW o \in Orders, Approve(o) \/ ApproveReverts(o) \/ Swap(o)
                               \/ \E why \in Reverted : SwapReverts(o, why)
      PROVE  RowInv'
  BY <1>5, <1>6 DEF Approve, ApproveReverts, Swap, SwapReverts
<1>7. ASSUME NEW w \in Wallets, Spend(w) PROVE RowInv'
  BY <1>5, <1>7 DEF Spend
<1>8. CASE UNCHANGED vars
  BY <1>5, <1>8 DEF vars
<1>. QED  BY <1>1, <1>2, <1>3, <1>4, <1>6, <1>7, <1>8 DEF Next

LEMMA ExecuteRefines ==
  ASSUME ApprovalInv, RowInv, NEW o \in Orders, Execute(o)
  PROVE  Lifecycle!Execute(o, "pending")
<1>1. /\ status[o] = "absent" /\ status' = [status EXCEPT ![o] = "pending"]
      /\ Goes(o, "check") /\ UNCHANGED swap /\ UNCHANGED unsure
  BY DEF Execute, RowInv, Becomes, history
<1>2. handlerSeen' = [handlerSeen EXCEPT ![o] = "check"]
  BY <1>1, HandlerSeenMoves DEF Steps, HandlerName
<1>3. UNCHANGED swapSeen /\ UNCHANGED mishapsSeen
  BY <1>1, SeenStays
<1>. QED  BY <1>1, <1>2, <1>3
          DEF Lifecycle!Execute, Lifecycle!HandlerGoes, Lifecycle!deliveryVars, Lifecycle!limits,
              handlerSeen, swapSeen, mishapsSeen

\* A step of the handler that neither writes the row nor calls the contract.
LEMMA QuietRefines ==
  ASSUME ApprovalInv, NEW o \in Orders, NEW to \in Steps, Goes(o, to),
         UNCHANGED status, UNCHANGED swap, UNCHANGED unsure,
         \/ step[o] = "check" /\ to \in {"fail", "sign"}
         \/ step[o] = "sign" /\ to \in {"fail", "wait"}
         \/ step[o] = "wait" /\ to \in {"fail", "submit"}
         \/ step[o] = "submit" /\ to = "fail"
  PROVE  Lifecycle!HandlerStep(o) \/ UNCHANGED Lifecycle!vars
<1>1. handlerSeen' = [handlerSeen EXCEPT ![o] = HandlerName(to)]
  BY HandlerSeenMoves
<1>2. UNCHANGED swapSeen /\ UNCHANGED mishapsSeen
  BY SeenStays
<1>3. handlerSeen[o] = HandlerName(step[o])
  BY DEF handlerSeen, HandlerOf, HandlerName
<1>. USE DEF Lifecycle!HandlerGoes, Lifecycle!deliveryVars, Lifecycle!limits,
             handlerSeen, swapSeen, mishapsSeen
<1>4. CASE step[o] = "check"
  <2>1. Lifecycle!Check(o)
    BY <1>1, <1>2, <1>3, <1>4 DEF Lifecycle!Check, HandlerName
  <2>. QED  BY <2>1 DEF Lifecycle!HandlerStep
<1>5. CASE step[o] \in {"sign", "wait"} /\ to \in {"fail", "submit"}
  <2>1. Lifecycle!Approve(o)
    BY <1>1, <1>2, <1>3, <1>5 DEF Lifecycle!Approve, HandlerName
  <2>. QED  BY <2>1 DEF Lifecycle!HandlerStep
<1>6. CASE step[o] = "sign" /\ to = "wait"
  <2>1. UNCHANGED handlerSeen
    BY <1>1, <1>3, <1>6 DEF HandlerName
  <2>. QED  BY <1>2, <2>1 DEF Lifecycle!vars
<1>7. CASE step[o] = "submit"
  <2>1. Lifecycle!SubmitRefused(o)
    BY <1>1, <1>2, <1>3, <1>7 DEF Lifecycle!SubmitRefused, HandlerName
  <2>. QED  BY <2>1 DEF Lifecycle!HandlerStep
<1>. QED  BY <1>4, <1>5, <1>6, <1>7

LEMMA SubmitRefines ==
  ASSUME ApprovalInv, NEW o \in Orders, SubmitAccepted(o)
  PROVE  Lifecycle!SubmitAccepted(o)
<1>1. /\ step[o] = "submit" /\ swap' = [swap EXCEPT ![o] = "submitted"] /\ UNCHANGED status
      /\ \/ Goes(o, "mark") /\ UNCHANGED unsure
         \/ Goes(o, "fail") /\ unsure' = unsure \cup {o}
  BY DEF SubmitAccepted, rows, history
<1>2. swapSeen' = [swapSeen EXCEPT ![o] = [state |-> "submitted", type |-> "TOKENTOFIAT"]]
  BY <1>1, SwapSeenMoves DEF SwapRow, Reverted
<1>3. handlerSeen[o] = "submit"
  BY <1>1 DEF handlerSeen, HandlerOf
<1>4. \/ handlerSeen' = [handlerSeen EXCEPT ![o] = "mark"] /\ UNCHANGED mishapsSeen
      \/ /\ handlerSeen' = [handlerSeen EXCEPT ![o] = "fail"]
         /\ mishapsSeen' = [mishapsSeen EXCEPT ![o] = mishapsSeen[o] \cup {"unsure"}]
  BY <1>1, HandlerSeenMoves, SeenStays, MishapNoted DEF Steps, HandlerName
<1>. QED  BY <1>1, <1>2, <1>3, <1>4
          DEF Lifecycle!SubmitAccepted, Lifecycle!HandlerGoes, Lifecycle!Note,
              Lifecycle!deliveryVars, Lifecycle!limits, handlerSeen, swapSeen, mishapsSeen

LEMMA MarkProcessingRefines ==
  ASSUME ApprovalInv, RowInv, NEW o \in Orders, MarkProcessing(o)
  PROVE  Lifecycle!MarkProcessing(o)
<1>1. /\ step[o] = "mark" /\ UNCHANGED swap
      /\ \/ /\ status' = [status EXCEPT ![o] = "processing"]
            /\ Goes(o, "done") /\ UNCHANGED unsure
         \/ Goes(o, "fail") /\ unsure' = unsure \cup {o} /\ UNCHANGED status
  BY DEF MarkProcessing, Becomes, history
<1>2. status[o] \in {"pending", "processing", "failed"}
  BY <1>1 DEF ApprovalInv, TypeOK, RowInv
<1>3. UNCHANGED swapSeen
  BY <1>1, SeenStays
<1>4. handlerSeen[o] = "mark"
  BY <1>1 DEF handlerSeen, HandlerOf
<1>5. \/ /\ status' = [status EXCEPT ![o] = "processing"]
         /\ handlerSeen' = [handlerSeen EXCEPT ![o] = "done"] /\ UNCHANGED mishapsSeen
      \/ /\ handlerSeen' = [handlerSeen EXCEPT ![o] = "fail"] /\ UNCHANGED status
         /\ mishapsSeen' = [mishapsSeen EXCEPT ![o] = mishapsSeen[o] \cup {"unsure"}]
  BY <1>1, HandlerSeenMoves, SeenStays, MishapNoted DEF Steps, HandlerName
<1>. QED  BY <1>2, <1>3, <1>4, <1>5
          DEF Lifecycle!MarkProcessing, Lifecycle!HandlerGoes, Lifecycle!Note, Lifecycle!Present,
              Lifecycle!Written, Lifecycle!deliveryVars, Lifecycle!limits,
              handlerSeen, swapSeen, mishapsSeen

LEMMA MarkFailedRefines ==
  ASSUME ApprovalInv, RowInv, NEW o \in Orders, MarkFailed(o)
  PROVE  Lifecycle!MarkFailed(o)
<1>1. /\ step[o] = "fail" /\ UNCHANGED swap /\ UNCHANGED unsure /\ Goes(o, "done")
      /\ status' = [status EXCEPT ![o] = "failed"] \/ UNCHANGED status
  BY DEF MarkFailed, Becomes, history
<1>2. status[o] \in {"pending", "processing", "failed"}
  BY <1>1 DEF ApprovalInv, TypeOK, RowInv
<1>3. UNCHANGED swapSeen /\ UNCHANGED mishapsSeen
  BY <1>1, SeenStays
<1>4. handlerSeen[o] = "fail"
  BY <1>1 DEF handlerSeen, HandlerOf
<1>5. handlerSeen' = [handlerSeen EXCEPT ![o] = "done"]
  BY <1>1, HandlerSeenMoves DEF Steps, HandlerName
<1>. QED  BY <1>1, <1>2, <1>3, <1>4, <1>5
          DEF Lifecycle!MarkFailed, Lifecycle!HandlerGoes, Lifecycle!Present, Lifecycle!Written,
              Lifecycle!deliveryVars, Lifecycle!limits, handlerSeen, swapSeen, mishapsSeen

LEMMA SettleRefines ==
  ASSUME ApprovalInv, NEW o \in Orders, NEW x \in {"executed"} \cup Reverted,
         swap[o] = "submitted", swap' = [swap EXCEPT ![o] = x],
         UNCHANGED status, UNCHANGED step, UNCHANGED unsure
  PROVE  \E outcome \in {"executed", "reverted"} : Lifecycle!Settle(o, outcome)
<1>1. PICK outcome \in {"executed", "reverted"} :
        SwapRow(x) = [state |-> outcome, type |-> "TOKENTOFIAT"]
  BY DEF SwapRow, Reverted
<1>2. swapSeen' = [swapSeen EXCEPT ![o] = [state |-> outcome, type |-> "TOKENTOFIAT"]]
  BY <1>1, SwapSeenMoves
<1>3. swapSeen[o] = [state |-> "submitted", type |-> "TOKENTOFIAT"]
  BY DEF swapSeen, SwapOf, Reverted
<1>4. swapSeen' = [swapSeen EXCEPT ![o].state = outcome]
  <2>1. [swapSeen[o] EXCEPT !.state = outcome] = [state |-> outcome, type |-> "TOKENTOFIAT"]
    BY <1>3
  <2>2. [swapSeen EXCEPT ![o].state = outcome]
          = [swapSeen EXCEPT ![o] = [swapSeen[o] EXCEPT !.state = outcome]]
    OBVIOUS
  <2>. QED  BY <1>2, <2>1, <2>2
<1>5. UNCHANGED handlerSeen /\ UNCHANGED mishapsSeen
  BY SeenStays
<1>6. Lifecycle!Settle(o, outcome)
  BY <1>3, <1>4, <1>5
     DEF Lifecycle!Settle, Lifecycle!handlerVars, Lifecycle!deliveryVars, Lifecycle!limits,
         handlerSeen, swapSeen, mishapsSeen
<1>. QED  BY <1>6

LEMMA InitRefines == Init => Lifecycle!Init
<1> SUFFICES ASSUME Init PROVE Lifecycle!Init
  OBVIOUS
<1>1. handlerSeen = [o \in Orders |-> "idle"]
  BY DEF Init, handlerSeen, HandlerOf
<1>2. swapSeen = [o \in Orders |-> [state |-> "none", type |-> "none"]]
  BY DEF Init, swapSeen, SwapOf, Reverted
<1>3. mishapsSeen = [o \in Orders |-> {}]
  BY DEF Init, mishapsSeen
<1>. QED  BY <1>1, <1>2, <1>3
          DEF Init, Lifecycle!Init, Lifecycle!NoSwap, handlerSeen, swapSeen, mishapsSeen

LEMMA StepRefines ==
  ASSUME ApprovalInv, RowInv, [Next]_vars
  PROVE  [Lifecycle!Next]_(Lifecycle!vars)
<1>. DEFINE Simulated == Lifecycle!Next \/ UNCHANGED Lifecycle!vars
<1>1. ASSUME NEW o \in Orders, Execute(o) PROVE Lifecycle!Next
  <2>1. Lifecycle!Execute(o, "pending") /\ "pending" \in Lifecycle!Written
    BY <1>1, ExecuteRefines DEF Lifecycle!Written
  <2>. QED  BY <2>1 DEF Lifecycle!Next
<1>2. ASSUME NEW o \in Orders, Lifecycle!HandlerStep(o) PROVE Lifecycle!Next
  BY <1>2 DEF Lifecycle!Next
<1>3. ASSUME NEW o \in Orders, Check(o) \/ SignRefused(o) \/ SignAccepted(o)
                               \/ AwaitApproval(o) \/ SubmitRefused(o)
      PROVE  Simulated
  <2>1. /\ UNCHANGED status /\ UNCHANGED swap /\ UNCHANGED unsure
        /\ \E to \in Steps :
             /\ Goes(o, to)
             /\ \/ step[o] = "check" /\ to \in {"fail", "sign"}
                \/ step[o] = "sign" /\ to \in {"fail", "wait"}
                \/ step[o] = "wait" /\ to \in {"fail", "submit"}
                \/ step[o] = "submit" /\ to = "fail"
    BY <1>3, Zenon
       DEF Check, SignRefused, SignAccepted, AwaitApproval, SubmitRefused, rows, history, Steps
  <2>. QED  BY <1>2, <2>1, QuietRefines
<1>4. ASSUME NEW o \in Orders, SubmitAccepted(o) \/ MarkProcessing(o) \/ MarkFailed(o)
      PROVE  Lifecycle!Next
  BY <1>2, <1>4, SubmitRefines, MarkProcessingRefines, MarkFailedRefines DEF Lifecycle!HandlerStep
<1>5. CASE UNCHANGED status /\ UNCHANGED step /\ UNCHANGED swap /\ UNCHANGED unsure
  <2>1. UNCHANGED handlerSeen /\ UNCHANGED swapSeen /\ UNCHANGED mishapsSeen
    BY <1>5, SeenStays
  <2>. QED  BY <1>5, <2>1 DEF Lifecycle!vars, handlerSeen, swapSeen, mishapsSeen
<1>6. ASSUME NEW o \in Orders, Approve(o) \/ ApproveReverts(o) PROVE Simulated
  BY <1>5, <1>6 DEF Approve, ApproveReverts, rows, history
<1>7. ASSUME NEW w \in Wallets, Spend(w) PROVE Simulated
  BY <1>5, <1>7 DEF Spend, rows, history
<1>8. ASSUME NEW o \in Orders, Swap(o) \/ \E why \in Reverted : SwapReverts(o, why)
      PROVE  Lifecycle!Next
  <2>1. /\ swap[o] = "submitted" /\ UNCHANGED status /\ UNCHANGED step /\ UNCHANGED unsure
        /\ \E x \in {"executed"} \cup Reverted : swap' = [swap EXCEPT ![o] = x]
    BY <1>8 DEF Swap, SwapReverts, rows, history
  <2>2. \E outcome \in {"executed", "reverted"} : Lifecycle!Settle(o, outcome)
    BY <2>1, SettleRefines
  <2>. QED  BY <2>2 DEF Lifecycle!Next
<1>9. CASE UNCHANGED vars
  BY <1>5, <1>9 DEF vars
<1>. QED  BY <1>1, <1>3, <1>4, <1>6, <1>7, <1>8, <1>9 DEF Next

\* executeTransaction and swapTokenToFiat: with approvals, wallets and allowances added, a
\* token-to-fiat order still lives the life that SwapLifecycle describes.
THEOREM LifecycleRefined == ApprovalAssumption /\ Spec => ImplementsLifecycle
<1>1. Init => RowInv
  BY DEF Init, RowInv
<1>2. ApprovalInv /\ RowInv /\ [Next]_vars => RowInv'
  BY StepRowInv
<1>3. ApprovalInv /\ RowInv /\ [Next]_vars => [Lifecycle!Next]_(Lifecycle!vars)
  BY StepRefines
<1>. QED  BY <1>1, <1>2, <1>3, InitRefines, ApprovalInvariance, PTL
          DEF Spec, ImplementsLifecycle, Lifecycle!Spec

-----------------------------------------------------------------------------
(***************************************************************************)
(* The deployer's calls: the inductive invariant, part by part.            *)
(***************************************************************************)

CallSteps == {"class", "nonce", "send", "wait", "dead"} \cup Deployer!Answers

\* What a request may be when n transactions were accepted.
CallRows(n) ==
    {Deployer!Idle} \cup
    [op : Deployer!Operations, nonce : 0..n, before : SUBSET Calls, step : CallSteps]

DeployerTyped ==
    /\ call     \in [Calls -> CallRows(Len(sent))]
    /\ sent     \in Seq(Calls)
    /\ settled  \in 0..Len(sent)
    /\ reverted \subseteq Calls
    /\ restarts \in 0..MaxRestarts

\* An answer after a wait: the transaction was seen in a block.
Awaited(row) == row.step = "reverted" \/ (row.step = "ok" /\ row.op.then # "answer")

\* Before the one attempt to send, and after one refused for its nonce, a request has
\* no transaction.
Unsent(row) == row.step \in {"idle", "class", "nonce", "send", "nonce taken"}

\* No request has two transactions.
SentOnce == \A m, n \in 1..Len(sent) : sent[m] = sent[n] => m = n

SentFollows == \A c \in Calls : Unsent(call[c]) => \A n \in 1..Len(sent) : sent[n] # c

AwaitedSettled ==
    \A c \in Calls :
      /\ Awaited(call[c]) => \E n \in 1..settled : sent[n] = c
      /\ call[c].step = "ok" /\ call[c].op.then = "throw" => c \notin reverted

\* What a request counts as answered when it began stays answered.
BeforeAnswered ==
    \A c \in Calls : \A b \in call[c].before : call[b].step \in Deployer!Answers

\* The nonce a request signs with is past every transaction that was waited for when
\* the request began.
NonceCounts ==
    \A c \in Calls :
      /\ call[c].step \in {"send", "nonce taken"} =>
           \A b \in call[c].before :
             Awaited(call[b]) => \E n \in 1..call[c].nonce : sent[n] = b
      /\ call[c].step = "nonce taken" => call[c].nonce < Len(sent)

DeployerInv ==
    /\ DeployerTyped
    /\ SentOnce
    /\ SentFollows
    /\ AwaitedSettled
    /\ BeforeAnswered
    /\ NonceCounts

-----------------------------------------------------------------------------
(***************************************************************************)
(* Requests as records.                                                    *)
(***************************************************************************)

LEMMA CallRowFacts ==
  ASSUME NEW n \in Nat, NEW row \in CallRows(n)
  PROVE  /\ row.nonce \in 0..n
         /\ row.before \subseteq Calls
         /\ row.step \in CallSteps \cup {"idle"}
         /\ row.step # "idle" => row.op \in Deployer!Operations
  BY SMT DEF CallRows, Deployer!Idle

LEMMA CallRowKinds ==
  ASSUME NEW n \in Nat, NEW op \in Deployer!Operations, NEW nonce \in 0..n,
         NEW before \in SUBSET Calls, NEW st \in CallSteps
  PROVE  [op |-> op, step |-> st, nonce |-> nonce, before |-> before] \in CallRows(n)
  BY DEF CallRows

LEMMA CallRowsGrow ==
  ASSUME NEW m \in Nat, NEW n \in Nat, m <= n
  PROVE  CallRows(m) \subseteq CallRows(n)
  BY SMT DEF CallRows

LEMMA DeployerTypes == DeployerTyped <=> Deployer!TypeOK
  BY DEF DeployerTyped, CallRows, CallSteps, Deployer!TypeOK

LEMMA DeployerTypesNext == DeployerTyped' <=> Deployer!TypeOK'
  BY DEF DeployerTyped, CallRows, CallSteps, Deployer!TypeOK

-----------------------------------------------------------------------------
(***************************************************************************)
(* The first state, and every step.                                        *)
(***************************************************************************)

LEMMA DeployerInit ==
  ASSUME Deployer!DeployerAssumption, Deployer!Init
  PROVE  DeployerInv
<1>. USE DEF Deployer!Init, Deployer!DeployerAssumption, Deployer!Idle
<1>1. Deployer!Idle \in CallRows(0) /\ Len(<<>>) = 0
  BY DEF CallRows
<1>2. DeployerTyped
  BY <1>1 DEF DeployerTyped
<1>3. SentOnce /\ SentFollows /\ BeforeAnswered
  BY DEF SentOnce, SentFollows, BeforeAnswered
<1>4. AwaitedSettled /\ NonceCounts
  BY DEF AwaitedSettled, NonceCounts, Awaited
<1>. QED  BY <1>2, <1>3, <1>4 DEF DeployerInv

\* The accepted transactions stay, and at most some of c are new.
SentGrows(c) ==
    /\ sent' \in Seq(Calls)
    /\ Len(sent) <= Len(sent')
    /\ \A n \in 1..Len(sent)  : sent'[n] = sent[n]
    /\ \A n \in 1..Len(sent') : n <= Len(sent) \/ sent'[n] = c

\* What the invariant asks of a row that c moves to.
FitsRow(row) ==
    /\ row \in CallRows(Len(sent))
    /\ row.step = "nonce taken" => row.nonce < Len(sent)

FitsSent(c, row) == Unsent(row) => \A n \in 1..Len(sent') : sent'[n] # c

FitsChain(c, row) ==
    /\ Awaited(row) => \E n \in 1..settled : sent[n] = c
    /\ row.step = "ok" /\ row.op.then = "throw" => c \notin reverted

FitsBefore(row) ==
    /\ \A b \in row.before : call[b].step \in Deployer!Answers
    /\ row.step \in {"send", "nonce taken"} =>
         \A b \in row.before : Awaited(call[b]) => \E n \in 1..row.nonce : sent[n] = b

LEMMA SentGrowsFacts ==
  ASSUME sent \in Seq(Calls), NEW c, SentGrows(c)
  PROVE  /\ Len(sent) \in Nat /\ Len(sent') \in Nat /\ Len(sent) <= Len(sent')
         /\ \A n \in 1..Len(sent) : n \in 1..Len(sent') /\ sent'[n] = sent[n]
         /\ \A n \in 1..Len(sent') : sent'[n] # c => n \in 1..Len(sent) /\ sent[n] = sent'[n]
  BY DEF SentGrows

\* One request moves, from a step that is no answer.
LEMMA RequestMoves ==
  ASSUME DeployerInv, NEW c \in Calls, NEW row,
         call' = [call EXCEPT ![c] = row],
         call[c].step \notin Deployer!Answers,
         SentGrows(c), SentOnce',
         UNCHANGED <<settled, reverted, restarts>>,
         FitsRow(row), FitsSent(c, row), FitsChain(c, row), FitsBefore(row)
  PROVE  DeployerInv'
<1>1. call \in [Calls -> CallRows(Len(sent))] /\ sent \in Seq(Calls)
  BY DEF DeployerInv, DeployerTyped
<1>2. /\ Len(sent) \in Nat /\ Len(sent') \in Nat /\ Len(sent) <= Len(sent')
      /\ \A n \in 1..Len(sent) : n \in 1..Len(sent') /\ sent'[n] = sent[n]
      /\ \A n \in 1..Len(sent') : sent'[n] # c => n \in 1..Len(sent) /\ sent[n] = sent'[n]
  BY <1>1, SentGrowsFacts
<1>3. /\ call' \in [Calls -> CallRows(Len(sent'))]
      /\ call'[c] = row /\ \A d \in Calls \ {c} : call'[d] = call[d]
  <2>1. CallRows(Len(sent)) \subseteq CallRows(Len(sent'))
    BY <1>2, CallRowsGrow
  <2>2. row \in CallRows(Len(sent'))
    BY <2>1 DEF FitsRow
  <2>. QED  BY <1>1, <2>1, <2>2
<1>4. settled \in 0..Len(sent) /\ settled' = settled /\ reverted' = reverted
  BY DEF DeployerInv, DeployerTyped
<1>5. DeployerTyped'
  <2>1. sent' \in Seq(Calls)
    BY DEF SentGrows
  <2>2. settled' \in 0..Len(sent')
    BY <1>2, <1>4
  <2>. QED  BY <1>3, <2>1, <2>2 DEF DeployerInv, DeployerTyped
<1>6. \A d \in Calls : /\ call[d].before \subseteq Calls /\ call[d].nonce \in 0..Len(sent)
                       /\ call'[d].before \subseteq Calls /\ call'[d].nonce \in 0..Len(sent')
  BY <1>1, <1>2, <1>3, CallRowFacts
<1>7. SentFollows'
  <2>. SUFFICES ASSUME NEW d \in Calls, Unsent(call'[d]), NEW n \in 1..Len(sent')
                PROVE  sent'[n] # d
    BY DEF SentFollows, Unsent
  <2>1. CASE d = c
    BY <1>3, <2>1 DEF FitsSent
  <2>2. CASE d # c
    <3>1. Unsent(call[d])
      BY <1>3, <2>2
    <3>2. \A m \in 1..Len(sent) : sent[m] # d
      BY <3>1 DEF DeployerInv, SentFollows
    <3>. QED  BY <1>2, <2>2, <3>2
  <2>. QED  BY <2>1, <2>2
<1>8. AwaitedSettled'
  <2>. SUFFICES ASSUME NEW d \in Calls
                PROVE  /\ Awaited(call'[d]) => \E n \in 1..settled : sent'[n] = d
                       /\ call'[d].step = "ok" /\ call'[d].op.then = "throw" => d \notin reverted
    BY <1>4 DEF AwaitedSettled, Awaited
  <2>1. /\ Awaited(call'[d]) => \E n \in 1..settled : sent[n] = d
        /\ call'[d].step = "ok" /\ call'[d].op.then = "throw" => d \notin reverted
    <3>1. CASE d = c
      BY <1>3, <3>1 DEF FitsChain
    <3>2. CASE d # c
      BY <1>3, <3>2 DEF DeployerInv, AwaitedSettled
    <3>. QED  BY <3>1, <3>2
  <2>2. \A n \in 1..settled : sent'[n] = sent[n]
    BY <1>2, <1>4
  <2>. QED  BY <2>1, <2>2, Zenon
<1>9. ASSUME NEW b \in Calls, call[b].step \in Deployer!Answers
      PROVE  call'[b] = call[b]
  BY <1>3, <1>9
<1>10. ASSUME NEW d \in Calls, NEW b \in call'[d].before
       PROVE  b \in Calls /\ call[b].step \in Deployer!Answers /\ call'[b] = call[b]
  <2>1. b \in Calls
    BY <1>6
  <2>2. CASE d = c
    BY <1>3, <1>9, <2>1, <2>2 DEF FitsBefore
  <2>3. CASE d # c
    BY <1>3, <1>9, <2>1, <2>3 DEF DeployerInv, BeforeAnswered
  <2>. QED  BY <2>1, <2>2, <2>3
<1>11. BeforeAnswered'
  BY <1>10 DEF BeforeAnswered, Deployer!Answers
<1>12. NonceCounts'
  <2>1. ASSUME NEW d \in Calls, call'[d].step \in {"send", "nonce taken"},
               NEW b \in call'[d].before, Awaited(call'[b])
        PROVE  \E n \in 1..call'[d].nonce : sent'[n] = b
    <3>1. Awaited(call[b])
      BY <1>10, <2>1
    <3>2. /\ \E n \in 1..call'[d].nonce : sent[n] = b
          /\ call'[d].nonce <= Len(sent)
      <4>1. CASE d = c
        <5>1. row.nonce \in 0..Len(sent)
          BY <1>2, CallRowFacts DEF FitsRow
        <5>2. \E n \in 1..row.nonce : sent[n] = b
          BY <1>3, <2>1, <3>1, <4>1 DEF FitsBefore
        <5>. QED  BY <1>2, <1>3, <4>1, <5>1, <5>2
      <4>2. CASE d # c
        <5>1. call'[d] = call[d] /\ call[d].nonce \in 0..Len(sent)
          BY <1>3, <1>6, <4>2
        <5>2. \E n \in 1..call[d].nonce : sent[n] = b
          BY <2>1, <3>1, <5>1 DEF DeployerInv, NonceCounts
        <5>. QED  BY <1>2, <5>1, <5>2
      <4>. QED  BY <4>1, <4>2
    <3>. QED  BY <1>2, <1>6, <3>2
  <2>2. ASSUME NEW d \in Calls, call'[d].step = "nonce taken"
        PROVE  call'[d].nonce < Len(sent')
    <3>1. call'[d].nonce < Len(sent)
      <4>1. CASE d = c
        BY <1>3, <2>2, <4>1 DEF FitsRow
      <4>2. CASE d # c
        BY <1>3, <2>2, <4>2 DEF DeployerInv, NonceCounts
      <4>. QED  BY <4>1, <4>2
    <3>2. call'[d].nonce \in 0..Len(sent')
      BY <1>6
    <3>. QED  BY <1>2, <3>1, <3>2
  <2>. QED  BY <2>1, <2>2 DEF NonceCounts, Awaited
<1>. QED  BY <1>5, <1>7, <1>8, <1>11, <1>12 DEF DeployerInv

\* A request moves and nothing is sent.
LEMMA RequestMovesQuietly ==
  ASSUME DeployerInv, NEW c \in Calls, NEW row,
         call' = [call EXCEPT ![c] = row],
         call[c].step \notin Deployer!Answers,
         UNCHANGED <<sent, settled, reverted, restarts>>,
         Unsent(row) => Unsent(call[c]),
         FitsRow(row), FitsChain(c, row), FitsBefore(row)
  PROVE  DeployerInv'
<1>1. sent \in Seq(Calls) /\ Len(sent) \in Nat /\ sent' = sent
  <2>1. sent \in Seq(Calls)
    BY DEF DeployerInv, DeployerTyped
  <2>. QED  BY <2>1, LenProperties
<1>2. SentGrows(c)
  <2>1. /\ sent' \in Seq(Calls)
        /\ \A n \in 1..Len(sent) : sent'[n] = sent[n]
    BY <1>1
  <2>2. Len(sent) <= Len(sent) /\ \A n \in 1..Len(sent) : n <= Len(sent)
    BY <1>1
  <2>3. Len(sent') = Len(sent)
    BY <1>1
  <2>. QED  BY <2>1, <2>2, <2>3, Zenon DEF SentGrows
<1>3. SentOnce'
  BY <1>1 DEF DeployerInv, SentOnce
<1>4. FitsSent(c, row)
  BY <1>1 DEF FitsSent, DeployerInv, SentFollows
<1>. QED  BY <1>2, <1>3, <1>4, RequestMoves

\* Goes(c, to), for the steps that neither send nor answer "ok".
LEMMA RequestGoes ==
  ASSUME DeployerInv, NEW c \in Calls, NEW to \in {"nonce", "unsure"},
         call[c].step \in {"class", "nonce", "send", "wait"},
         to = "nonce" => call[c].step = "class",
         Deployer!Goes(c, to),
         UNCHANGED <<sent, settled, reverted, restarts>>
  PROVE  DeployerInv'
<1>. DEFINE row == Deployer!Moved(c, to, call[c].nonce)
<1>1. /\ call[c] \in CallRows(Len(sent)) /\ Len(sent) \in Nat
  BY DEF DeployerInv, DeployerTyped
<1>2. /\ call[c].op \in Deployer!Operations /\ call[c].before \subseteq Calls
      /\ call[c].nonce \in 0..Len(sent)
  BY <1>1, CallRowFacts
<1>3. row = [op |-> call[c].op, step |-> to, nonce |-> call[c].nonce, before |-> call[c].before]
  BY DEF Deployer!Moved
<1>4. row \in CallRows(Len(sent))
  BY <1>1, <1>2, <1>3, CallRowKinds DEF CallSteps, Deployer!Answers
<1>5. row.step = to /\ row.before = call[c].before
  BY <1>3
<1>6. FitsChain(c, row)
  BY <1>5 DEF FitsChain, Awaited
<1>7. FitsBefore(row)
  BY <1>5 DEF FitsBefore, DeployerInv, BeforeAnswered
<1>8. call' = [call EXCEPT ![c] = row]
  BY DEF Deployer!Goes
<1>9. call[c].step \notin Deployer!Answers
  BY DEF Deployer!Answers
<1>10. Unsent(row) => Unsent(call[c])
  BY <1>5 DEF Unsent
<1>11. FitsRow(row)
  BY <1>4, <1>5, Zenon DEF FitsRow
<1>. HIDE DEF row
<1>. QED  BY <1>6, <1>7, <1>8, <1>9, <1>10, <1>11, RequestMovesQuietly

LEMMA StepBegin ==
  ASSUME DeployerInv, NEW c \in Calls, NEW op \in Deployer!Operations, Deployer!Begin(c, op)
  PROVE  DeployerInv'
<1>. DEFINE st  == CASE op.first = "refuse" -> "unsure"
                     [] op.first = "check"  -> "class"
                     [] op.first = "call"   -> "nonce"
            row == [op |-> op, nonce |-> 0, before |-> Deployer!Finished, step |-> st]
<1>1. st \in {"unsure", "class", "nonce"}
  <2>1. op.first \in {"refuse", "check", "call"}
    BY DEF Deployer!Operations, Deployer!swapFiatToToken, Deployer!mintToken,
           Deployer!transferLiquidityOwnership, Deployer!transferFactoryOwnership,
           Deployer!addSupportedToken, Deployer!registerUserToLiquidity,
           Deployer!upgradeLiquidityContract, Deployer!upgradePragmaOracleAddress,
           Deployer!upgradeAccountFactory, Deployer!swapTokenToFiat,
           Deployer!setAccountClassHash, Deployer!addFiatToLiquidity,
           Deployer!addTokenToLiquidity
  <2>. QED  BY <2>1
<1>2. Len(sent) \in Nat
  <2>1. sent \in Seq(Calls)
    BY DEF DeployerInv, DeployerTyped
  <2>. QED  BY <2>1, LenProperties
<1>3. call' = [call EXCEPT ![c] = row] /\ UNCHANGED <<sent, settled, reverted, restarts>>
  BY DEF Deployer!Begin
<1>. HIDE DEF st
<1>4. Deployer!Finished \subseteq Calls /\ st \in CallSteps
  BY <1>1 DEF Deployer!Finished, CallSteps, Deployer!Answers
<1>5. /\ row = [op |-> op, step |-> st, nonce |-> 0, before |-> Deployer!Finished]
      /\ row.step = st /\ row.before = Deployer!Finished
  OBVIOUS
<1>6. call[c].step = "idle"
  BY DEF Deployer!Begin, Deployer!At
<1>. HIDE DEF row
<1>7. FitsRow(row)
  <2>1. row \in CallRows(Len(sent))
    BY <1>2, <1>4, <1>5, CallRowKinds
  <2>2. row.step # "nonce taken"
    BY <1>1, <1>5
  <2>. QED  BY <2>1, <2>2, Zenon DEF FitsRow
<1>8. FitsChain(c, row)
  BY <1>1, <1>5 DEF FitsChain, Awaited
<1>9. FitsBefore(row)
  BY <1>1, <1>5 DEF FitsBefore, Deployer!Finished
<1>10. call[c].step \notin Deployer!Answers /\ Unsent(call[c])
  BY <1>6 DEF Deployer!Answers, Unsent
<1>. QED  BY <1>3, <1>7, <1>8, <1>9, <1>10, RequestMovesQuietly

LEMMA StepGetClassAt ==
  ASSUME DeployerInv, NEW c \in Calls, Deployer!GetClassAt(c)
  PROVE  DeployerInv'
<1>1. /\ call[c].step = "class"
      /\ Deployer!Goes(c, "nonce") \/ Deployer!Goes(c, "unsure")
      /\ UNCHANGED <<sent, settled, reverted, restarts>>
  BY DEF Deployer!GetClassAt, Deployer!At
<1>. QED  BY <1>1, RequestGoes

\* The nonce counts what is settled, and so what was waited for.
LEMMA StepGetNonce ==
  ASSUME DeployerInv, NEW c \in Calls, Deployer!GetNonce(c)
  PROVE  DeployerInv'
<1>1. /\ call[c].step = "nonce"
      /\ UNCHANGED <<sent, settled, reverted, restarts>>
      /\ \/ call' = [call EXCEPT ![c] = Deployer!Moved(c, "send", settled)]
         \/ Deployer!Goes(c, "unsure")
  BY DEF Deployer!GetNonce, Deployer!At
<1>2. CASE Deployer!Goes(c, "unsure")
  BY <1>1, <1>2, RequestGoes
<1>3. CASE call' = [call EXCEPT ![c] = Deployer!Moved(c, "send", settled)]
  <2>. DEFINE row == Deployer!Moved(c, "send", settled)
  <2>1. sent \in Seq(Calls) /\ call[c] \in CallRows(Len(sent)) /\ settled \in 0..Len(sent)
    BY DEF DeployerInv, DeployerTyped
  <2>2. Len(sent) \in Nat
    BY <2>1, LenProperties
  <2>3. call[c].op \in Deployer!Operations /\ call[c].before \subseteq Calls
    BY <1>1, <2>1, <2>2, CallRowFacts
  <2>4. row = [op |-> call[c].op, step |-> "send", nonce |-> settled, before |-> call[c].before]
    BY DEF Deployer!Moved
  <2>5. row \in CallRows(Len(sent))
    BY <2>1, <2>2, <2>3, <2>4, CallRowKinds DEF CallSteps
  <2>6. row.step = "send" /\ row.before = call[c].before /\ row.nonce = settled
    BY <2>4
  <2>. HIDE DEF row
  <2>7. FitsRow(row)
    BY <2>5, <2>6, Zenon DEF FitsRow
  <2>8. FitsChain(c, row)
    BY <2>6 DEF FitsChain, Awaited
  <2>9. FitsBefore(row)
    BY <2>3, <2>6 DEF FitsBefore, DeployerInv, BeforeAnswered, AwaitedSettled
  <2>10. call[c].step \notin Deployer!Answers /\ Unsent(call[c])
    BY <1>1 DEF Deployer!Answers, Unsent
  <2>11. call' = [call EXCEPT ![c] = row]
    BY <1>3 DEF row
  <2>. QED  BY <1>1, <2>7, <2>8, <2>9, <2>10, <2>11, RequestMovesQuietly
<1>. QED  BY <1>1, <1>2, <1>3

\* An answer that ends a wait: the transaction is in a block.
LEMMA StepWait ==
  ASSUME DeployerInv, NEW c \in Calls, Deployer!Wait(c)
  PROVE  DeployerInv'
<1>. DEFINE to  == IF c \in reverted /\ call[c].op.then = "throw" THEN "reverted" ELSE "ok"
            row == Deployer!Moved(c, to, call[c].nonce)
<1>1. /\ call[c].step = "wait"
      /\ UNCHANGED <<sent, settled, reverted, restarts>>
      /\ \/ Deployer!Settled(c) /\ Deployer!Goes(c, to)
         \/ Deployer!Goes(c, "unsure")
  BY DEF Deployer!Wait, Deployer!At
<1>2. CASE Deployer!Goes(c, "unsure")
  BY <1>1, <1>2, RequestGoes
<1>3. CASE Deployer!Settled(c) /\ Deployer!Goes(c, to)
  <2>1. sent \in Seq(Calls) /\ call[c] \in CallRows(Len(sent))
    BY DEF DeployerInv, DeployerTyped
  <2>2. Len(sent) \in Nat
    BY <2>1, LenProperties
  <2>3. /\ call[c].op \in Deployer!Operations /\ call[c].before \subseteq Calls
        /\ call[c].nonce \in 0..Len(sent)
    BY <1>1, <2>1, <2>2, CallRowFacts
  <2>4. row = [op |-> call[c].op, step |-> to, nonce |-> call[c].nonce, before |-> call[c].before]
    BY DEF Deployer!Moved
  <2>5. to \in CallSteps
    BY DEF CallSteps, Deployer!Answers
  <2>6. row \in CallRows(Len(sent))
    <3>. HIDE DEF row, to
    <3>. QED  BY <2>2, <2>3, <2>4, <2>5, CallRowKinds
  <2>7. row.step = to /\ row.op = call[c].op /\ row.before = call[c].before
    BY <2>4
  <2>8. to \in {"ok", "reverted"} /\ (to = "ok" /\ call[c].op.then = "throw" => c \notin reverted)
    OBVIOUS
  <2>9. call' = [call EXCEPT ![c] = row]
    BY <1>3 DEF Deployer!Goes
  <2>. HIDE DEF row, to
  <2>10. FitsRow(row)
    BY <2>6, <2>7, <2>8, Zenon DEF FitsRow
  <2>11. FitsChain(c, row)
    BY <1>3, <2>7, <2>8 DEF FitsChain, Deployer!Settled
  <2>12. FitsBefore(row)
    BY <2>7, <2>8 DEF FitsBefore, DeployerInv, BeforeAnswered
  <2>13. call[c].step \notin Deployer!Answers /\ ~Unsent(row)
    BY <1>1, <2>7, <2>8 DEF Deployer!Answers, Unsent
  <2>. QED  BY <1>1, <2>9, <2>10, <2>11, <2>12, <2>13, RequestMovesQuietly
<1>. QED  BY <1>1, <1>2, <1>3

\* A transaction that is accepted is the first of its request.
LEMMA AppendKeepsOnce ==
  ASSUME sent \in Seq(Calls), NEW c \in Calls, SentOnce,
         sent' = Append(sent, c), \A n \in 1..Len(sent) : sent[n] # c
  PROVE  SentGrows(c) /\ SentOnce'
<1>1. /\ sent' \in Seq(Calls) /\ Len(sent) \in Nat /\ Len(sent') = Len(sent) + 1
      /\ \A n \in 1..Len(sent) : sent'[n] = sent[n]
      /\ sent'[Len(sent) + 1] = c
  OBVIOUS
<1>2. SentGrows(c)
  <2>1. \A n \in 1..Len(sent') : n <= Len(sent) \/ sent'[n] = c
    BY <1>1
  <2>. QED  BY <1>1, <2>1 DEF SentGrows
<1>3. \A m, n \in 1..Len(sent') : sent'[m] = sent'[n] => m = n
  BY <1>1 DEF SentOnce
<1>. QED  BY <1>2, <1>3 DEF SentOnce

LEMMA StepSend ==
  ASSUME DeployerInv, NEW c \in Calls, Deployer!Send(c)
  PROVE  DeployerInv'
<1>1. call[c].step = "send" /\ UNCHANGED <<settled, reverted, restarts>>
  BY DEF Deployer!Send, Deployer!At
<1>2. sent \in Seq(Calls) /\ call[c] \in CallRows(Len(sent))
  BY DEF DeployerInv, DeployerTyped
<1>3. Len(sent) \in Nat
  BY <1>2, LenProperties
<1>4. /\ call[c].op \in Deployer!Operations /\ call[c].before \subseteq Calls
      /\ call[c].nonce \in 0..Len(sent)
  BY <1>1, <1>2, <1>3, CallRowFacts
<1>5. call[c].step \notin Deployer!Answers /\ Unsent(call[c])
  BY <1>1 DEF Deployer!Answers, Unsent
<1>6. ASSUME call[c].nonce < Len(sent), Deployer!Goes(c, "nonce taken"), UNCHANGED sent
      PROVE  DeployerInv'
  <2>. DEFINE row == Deployer!Moved(c, "nonce taken", call[c].nonce)
  <2>1. row = [op |-> call[c].op, step |-> "nonce taken", nonce |-> call[c].nonce,
               before |-> call[c].before]
    BY DEF Deployer!Moved
  <2>2. row \in CallRows(Len(sent))
    BY <1>3, <1>4, <2>1, CallRowKinds DEF CallSteps, Deployer!Answers
  <2>. HIDE DEF row
  <2>3. row.step = "nonce taken" /\ row.nonce = call[c].nonce /\ row.before = call[c].before
    BY <2>1, Zenon
  <2>4. call' = [call EXCEPT ![c] = row]
    BY <1>6 DEF row, Deployer!Goes
  <2>5. FitsRow(row)
    BY <1>6, <2>2, <2>3, Zenon DEF FitsRow
  <2>6. FitsChain(c, row)
    BY <2>3 DEF FitsChain, Awaited
  <2>7. FitsBefore(row)
    BY <1>1, <2>3 DEF FitsBefore, DeployerInv, BeforeAnswered, NonceCounts
  <2>. QED  BY <1>1, <1>5, <1>6, <2>4, <2>5, <2>6, <2>7, RequestMovesQuietly
<1>7. ASSUME sent' = Append(sent, c), NEW to \in {"ok", "wait", "unsure"},
             Deployer!Goes(c, to), to = "ok" => call[c].op.then = "answer"
      PROVE  DeployerInv'
  <2>. DEFINE row == Deployer!Moved(c, to, call[c].nonce)
  <2>1. row = [op |-> call[c].op, step |-> to, nonce |-> call[c].nonce,
               before |-> call[c].before]
    BY DEF Deployer!Moved
  <2>2. row \in CallRows(Len(sent))
    BY <1>3, <1>4, <2>1, CallRowKinds DEF CallSteps, Deployer!Answers
  <2>3. row.step = to /\ row.op = call[c].op /\ row.before = call[c].before
    BY <2>1
  <2>4. call' = [call EXCEPT ![c] = row]
    BY <1>7 DEF Deployer!Goes
  <2>. HIDE DEF row
  <2>5. FitsRow(row)
    BY <2>2, <2>3, Zenon DEF FitsRow
  <2>6. FitsChain(c, row)
    BY <1>7, <2>3 DEF FitsChain, Awaited
  <2>7. FitsBefore(row)
    BY <2>3 DEF FitsBefore, DeployerInv, BeforeAnswered
  <2>8. SentGrows(c) /\ SentOnce'
    BY <1>2, <1>5, <1>7, AppendKeepsOnce DEF DeployerInv, SentFollows
  <2>9. FitsSent(c, row)
    BY <2>3 DEF FitsSent, Unsent
  <2>. QED  BY <1>1, <1>5, <2>4, <2>5, <2>6, <2>7, <2>8, <2>9, RequestMoves
<1>8. CASE call[c].nonce < Len(sent)
  BY <1>6, <1>8 DEF Deployer!Send
<1>9. CASE ~(call[c].nonce < Len(sent))
  <2>1. \/ /\ sent' = Append(sent, c)
           /\ \/ Deployer!Goes(c, "ok") /\ call[c].op.then = "answer"
              \/ Deployer!Goes(c, "wait")
              \/ Deployer!Goes(c, "unsure")
        \/ Deployer!Goes(c, "unsure") /\ UNCHANGED sent
    BY <1>9 DEF Deployer!Send
  <2>2. CASE Deployer!Goes(c, "unsure") /\ UNCHANGED sent
    BY <1>1, <2>2, RequestGoes
  <2>. QED  BY <1>7, <2>1, <2>2
<1>. QED  BY <1>8, <1>9

\* The chain settles transactions in their order: it never takes back what a request
\* was answered after its own.
LEMMA StepSettle ==
  ASSUME DeployerInv, Deployer!Settle
  PROVE  DeployerInv'
<1>1. /\ sent \in Seq(Calls) /\ settled \in 0..Len(sent) /\ reverted \subseteq Calls
      /\ call' = call /\ sent' = sent /\ restarts' = restarts
      /\ settled < Len(sent) /\ settled' = settled + 1
      /\ reverted' \subseteq reverted \cup {sent[settled + 1]}
  BY DEF Deployer!Settle, DeployerInv, DeployerTyped
<1>2. Len(sent) \in Nat /\ settled + 1 \in 1..Len(sent) /\ sent[settled + 1] \in Calls
  BY <1>1, LenProperties
<1>3. DeployerTyped'
  BY <1>1, <1>2 DEF DeployerInv, DeployerTyped
<1>4. SentOnce' /\ SentFollows' /\ BeforeAnswered'
  BY <1>1 DEF DeployerInv, SentOnce, SentFollows, BeforeAnswered, Unsent
<1>5. NonceCounts'
  BY <1>1, Zenon DEF DeployerInv, NonceCounts, Awaited
<1>6. AwaitedSettled'
  <2>. SUFFICES ASSUME NEW c \in Calls
                PROVE  /\ Awaited(call[c]) => \E n \in 1..settled' : sent[n] = c
                       /\ call[c].step = "ok" /\ call[c].op.then = "throw" => c \notin reverted'
    BY <1>1 DEF AwaitedSettled, Awaited
  <2>1. /\ Awaited(call[c]) => \E n \in 1..settled : sent[n] = c
        /\ call[c].step = "ok" /\ call[c].op.then = "throw" => c \notin reverted
    BY DEF DeployerInv, AwaitedSettled
  <2>2. (\E n \in 1..settled : sent[n] = c) => sent[settled + 1] # c
    BY <1>1, <1>2 DEF DeployerInv, SentOnce
  <2>3. (\E n \in 1..settled : sent[n] = c) => \E n \in 1..settled' : sent[n] = c
    BY <1>1
  <2>. QED  BY <1>1, <2>1, <2>2, <2>3 DEF Awaited
<1>. QED  BY <1>3, <1>4, <1>5, <1>6 DEF DeployerInv

\* A restart forgets the requests at work and nothing that was answered.
LEMMA StepRestart ==
  ASSUME Deployer!DeployerAssumption, DeployerInv, Deployer!Restart
  PROVE  DeployerInv'
<1>. DEFINE stays(c) == call[c].step \in {"idle"} \cup Deployer!Answers
<1>1. /\ UNCHANGED <<sent, settled, reverted>> /\ restarts' \in 0..MaxRestarts
      /\ call' = [c \in Calls |-> IF stays(c) THEN call[c]
                                  ELSE Deployer!Moved(c, "dead", call[c].nonce)]
  <2>1. /\ UNCHANGED <<sent, settled, reverted>>
        /\ call' = [c \in Calls |-> IF stays(c) THEN call[c]
                                    ELSE Deployer!Moved(c, "dead", call[c].nonce)]
    BY DEF Deployer!Restart
  <2>2. restarts < MaxRestarts /\ restarts' = restarts + 1
    BY DEF Deployer!Restart
  <2>3. restarts \in 0..MaxRestarts /\ MaxRestarts \in Nat
    BY DEF DeployerInv, DeployerTyped, Deployer!DeployerAssumption
  <2>. QED  BY <2>1, <2>2, <2>3
<1>2. sent \in Seq(Calls) /\ call \in [Calls -> CallRows(Len(sent))]
  BY DEF DeployerInv, DeployerTyped
<1>3. Len(sent) \in Nat
  BY <1>2, LenProperties
<1>4. ASSUME NEW c \in Calls, ~stays(c)
      PROVE  /\ call'[c] \in CallRows(Len(sent)) /\ call'[c].step = "dead"
             /\ call'[c].before = call[c].before
  <2>1. /\ call[c].op \in Deployer!Operations /\ call[c].before \subseteq Calls
        /\ call[c].nonce \in 0..Len(sent)
    BY <1>2, <1>3, <1>4, CallRowFacts
  <2>2. call'[c] = [op |-> call[c].op, step |-> "dead", nonce |-> call[c].nonce,
                    before |-> call[c].before]
    BY <1>1, <1>4 DEF Deployer!Moved
  <2>3. call'[c] \in CallRows(Len(sent))
    BY <1>3, <2>1, <2>2, CallRowKinds DEF CallSteps
  <2>. QED  BY <2>2, <2>3
<1>5. \A c \in Calls : stays(c) => call'[c] = call[c]
  BY <1>1
<1>6. DeployerTyped'
  <2>1. call' \in [Calls -> CallRows(Len(sent))]
    BY <1>1, <1>2, <1>4, <1>5
  <2>. QED  BY <1>1, <2>1 DEF DeployerInv, DeployerTyped
<1>. HIDE DEF stays
<1>7. ASSUME NEW c \in Calls
      PROVE  call'[c] = call[c] \/ (call'[c].step = "dead" /\ call'[c].before = call[c].before)
  BY <1>4, <1>5
<1>8. SentOnce'
  BY <1>1 DEF DeployerInv, SentOnce
<1>9. SentFollows'
  BY <1>1, <1>7 DEF DeployerInv, SentFollows, Unsent
<1>10. AwaitedSettled'
  BY <1>1, <1>7 DEF DeployerInv, AwaitedSettled, Awaited
<1>11. \A c \in Calls : call[c].before \subseteq Calls
  BY <1>2, <1>3, CallRowFacts
<1>12. \A b \in Calls : call[b].step \in Deployer!Answers => call'[b] = call[b]
  BY <1>5 DEF stays
<1>13. BeforeAnswered'
  BY <1>7, <1>11, <1>12 DEF DeployerInv, BeforeAnswered, Deployer!Answers
<1>14. NonceCounts'
  <2>. SUFFICES ASSUME NEW c \in Calls, call'[c].step \in {"send", "nonce taken"}
                PROVE  /\ \A b \in call'[c].before : Awaited(call'[b]) =>
                            \E n \in 1..call'[c].nonce : sent'[n] = b
                       /\ call'[c].step = "nonce taken" => call'[c].nonce < Len(sent')
    BY DEF NonceCounts, Awaited
  <2>1. call'[c] = call[c]
    BY <1>7
  <2>2. \A b \in call[c].before : call'[b] = call[b]
    BY <1>11, <1>12 DEF DeployerInv, BeforeAnswered
  <2>3. /\ \A b \in call[c].before : Awaited(call[b]) => \E n \in 1..call[c].nonce : sent[n] = b
        /\ call[c].step = "nonce taken" => call[c].nonce < Len(sent)
    BY <2>1 DEF DeployerInv, NonceCounts
  <2>. QED  BY <1>1, <2>1, <2>2, <2>3, Zenon
<1>. QED  BY <1>6, <1>8, <1>9, <1>10, <1>13, <1>14 DEF DeployerInv

LEMMA DeployerStep ==
  ASSUME Deployer!DeployerAssumption, DeployerInv, Deployer!Next
  PROVE  DeployerInv'
BY StepBegin, StepGetClassAt, StepGetNonce, StepSend, StepWait, StepSettle, StepRestart
   DEF Deployer!Next

-----------------------------------------------------------------------------
(***************************************************************************)
(* Each part of the run's specification steps on its own.                  *)
(***************************************************************************)

ChainInv == ApprovalInv /\ DeployerInv

LEMMA InitChain == InitAll => ChainInv
  BY ApprovalBounds, DeployerBounds, ApprovalInit, DeployerInit DEF InitAll, ChainInv

LEMMA ApprovalStep == ApprovalInv /\ [Next]_vars => ApprovalInv'
  BY StepTypeOK, StepHandlerInv, StepAuditIsTrue, StepAllowanceIsOwed, StepApprovalStands,
     StepRevertHasCause DEF ApprovalInv, ApprovalAssumption

LEMMA StepChain == ChainInv /\ [NextAll]_allVars => ChainInv'
<1> SUFFICES ASSUME ChainInv, [NextAll]_allVars PROVE ChainInv'
  OBVIOUS
<1>1. UNCHANGED deployerVars => DeployerInv'
  <2>. SUFFICES ASSUME UNCHANGED deployerVars PROVE DeployerInv'
    OBVIOUS
  <2>1. UNCHANGED call /\ UNCHANGED sent /\ UNCHANGED settled /\ UNCHANGED reverted
        /\ UNCHANGED restarts
    BY DEF deployerVars
  <2>2. DeployerTyped'
    BY <2>1 DEF ChainInv, DeployerInv, DeployerTyped
  <2>3. SentOnce' /\ SentFollows' /\ BeforeAnswered'
    BY <2>1 DEF ChainInv, DeployerInv, SentOnce, SentFollows, BeforeAnswered, Unsent
  <2>4. AwaitedSettled'
    BY <2>1 DEF ChainInv, DeployerInv, AwaitedSettled, Awaited
  <2>5. NonceCounts'
    BY <2>1, Zenon DEF ChainInv, DeployerInv, NonceCounts, Awaited
  <2>. QED  BY <2>2, <2>3, <2>4, <2>5 DEF DeployerInv
<1>2. UNCHANGED vars => ApprovalInv'
  BY ApprovalStep DEF ChainInv
<1>3. CASE part = "arguments" /\ UNCHANGED <<vars, deployerVars>>
  BY <1>1, <1>2, <1>3 DEF ChainInv
<1>4. CASE Next /\ UNCHANGED <<text, deployerVars>>
  BY <1>1, <1>4, ApprovalStep DEF ChainInv
<1>5. CASE Deployer!Next /\ UNCHANGED <<text, vars>>
  BY <1>2, <1>5, DeployerBounds, DeployerStep DEF ChainInv
<1>6. CASE UNCHANGED allVars
  BY <1>1, <1>2, <1>6 DEF ChainInv, allVars
<1>. QED  BY <1>3, <1>4, <1>5, <1>6 DEF NextAll

THEOREM ChainInvariance == SpecAll => []ChainInv
<1>1. InitAll => ChainInv
  BY InitChain
<1>2. ChainInv /\ [NextAll]_allVars => ChainInv'
  BY StepChain
<1>. QED  BY <1>1, <1>2, PTL DEF SpecAll

-----------------------------------------------------------------------------
(***************************************************************************)
(* What follows of the invariant.                                          *)
(***************************************************************************)

LEMMA NextIndex ==
  ASSUME NEW S, NEW s \in Seq(S), NEW k \in 0..Len(s), k < Len(s)
  PROVE  /\ k + 1 \in 1..Len(s) /\ s[k + 1] \in S
         /\ \A n \in 1..k : n \in 1..Len(s) /\ n # k + 1
  OBVIOUS

\* The winner of a nonce was not among the calls that were waited for.
LEMMA WinnerWasUnawaited ==
  ASSUME DeployerInv, NEW c \in Calls, call[c].step = "nonce taken"
  PROVE  LET winner == sent[call[c].nonce + 1]
         IN  \/ winner \notin call[c].before
             \/ call[winner].op.then = "answer"
             \/ call[winner].step = "unsure"
<1>. DEFINE winner == sent[call[c].nonce + 1]
<1>. SUFFICES ASSUME winner \in call[c].before
              PROVE  call[winner].op.then = "answer" \/ call[winner].step = "unsure"
  OBVIOUS
<1>1. sent \in Seq(Calls) /\ call[c] \in CallRows(Len(sent))
  BY DEF DeployerInv, DeployerTyped
<1>2. Len(sent) \in Nat
  BY <1>1, LenProperties
<1>3. call[c].nonce \in 0..Len(sent) /\ call[c].before \subseteq Calls
  BY <1>1, <1>2, CallRowFacts
<1>4. call[c].nonce < Len(sent)
  BY DEF DeployerInv, NonceCounts
<1>5. /\ call[c].nonce + 1 \in 1..Len(sent) /\ winner \in Calls
      /\ \A n \in 1..call[c].nonce : n \in 1..Len(sent) /\ n # call[c].nonce + 1
  BY <1>1, <1>3, <1>4, NextIndex
<1>6. call[winner].step \in Deployer!Answers
  BY DEF DeployerInv, BeforeAnswered
<1>7. call[winner].step # "nonce taken"
  <2>1. \E n \in 1..Len(sent) : sent[n] = winner
    BY <1>5
  <2>. HIDE DEF winner
  <2>. QED  BY <1>5, <2>1 DEF DeployerInv, SentFollows, Unsent
<1>8. ~Awaited(call[winner])
  <2>. SUFFICES ASSUME Awaited(call[winner]) PROVE FALSE
    OBVIOUS
  <2>1. \E n \in 1..call[c].nonce : sent[n] = winner
    BY DEF DeployerInv, NonceCounts
  <2>2. PICK n \in 1..call[c].nonce : sent[n] = sent[call[c].nonce + 1]
    BY <2>1
  <2>3. n \in 1..Len(sent) /\ n # call[c].nonce + 1
    BY <1>5
  <2>. QED  BY <1>5, <2>2, <2>3 DEF DeployerInv, SentOnce
<1>. HIDE DEF winner
<1>. QED  BY <1>6, <1>7, <1>8 DEF Awaited, Deployer!Answers

LEMMA InvGivesDeployer == DeployerInv => Deployer!AnswersAreTrue
<1>. SUFFICES ASSUME DeployerInv, NEW c \in Calls
              PROVE  /\ call[c].step = "ok" /\ call[c].op.then # "answer" =>
                          /\ \E n \in 1..settled : sent[n] = c
                          /\ call[c].op.then = "throw" => c \notin reverted
                     /\ call[c].step = "nonce taken" =>
                          LET winner == sent[call[c].nonce + 1]
                          IN  \/ winner \notin call[c].before
                              \/ call[winner].op.then = "answer"
                              \/ call[winner].step = "unsure"
  BY DEF Deployer!AnswersAreTrue, Deployer!At, Deployer!Settled
<1>1. call[c].step = "ok" /\ call[c].op.then # "answer" =>
        /\ \E n \in 1..settled : sent[n] = c
        /\ call[c].op.then = "throw" => c \notin reverted
  BY DEF DeployerInv, AwaitedSettled, Awaited
<1>. QED  BY <1>1, WinnerWasUnawaited

-----------------------------------------------------------------------------
(***************************************************************************)
(* Theorems.                                                               *)
(***************************************************************************)

\* The variables of the approvals and of the deployer's calls keep their types.
THEOREM TypeCorrect == SpecAll => []TypesOK
<1>1. ChainInv => TypesOK
  BY DeployerTypes DEF ChainInv, ApprovalInv, DeployerInv, TypesOK
<1>. QED  BY <1>1, ChainInvariance, PTL

\* ContractService: for any number of requests and restarts, what a client is told of a
\* call is what became of it, and a call refused for its nonce collided with one that
\* was unanswered when it began, or that nobody waited for; and the audit row of an
\* order is what became of its approval.
THEOREM AnswersTrue == SpecAll => []AnswersAreTrue
<1>1. ChainInv => AnswersAreTrue
  BY InvGivesDeployer DEF ChainInv, ApprovalInv, AnswersAreTrue
<1>. QED  BY <1>1, ChainInvariance, PTL

=============================================================================
