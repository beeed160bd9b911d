------------------------- MODULE SwapLifecycleProofs -------------------------
(***************************************************************************)
(* Theorems of SwapLifecycle for every set of orders and deliveries and    *)
(* every value of the bounds; the last one is about the history that       *)
(* MCSwapPayouts adds.                                                     *)
(***************************************************************************)
EXTENDS MCSwapPayouts, FiniteSetTheorems, TLAPS

-----------------------------------------------------------------------------
(***************************************************************************)
(* The inductive invariant, part by part.                                  *)
(***************************************************************************)

\* Nothing has happened for an order that was not created, and the contract
\* knows nothing of an order whose handler has not called it yet.
NotYetSubmitted ==
    \A o \in Orders :
      /\ status[o] = "absent" => handler[o] = "idle"
      /\ status[o] = "absent" \/ handler[o] \in {"check", "charge", "approve", "submit"}
           => swap[o] = NoSwap

\* A handler on its way to 'failed' knows that, unless it is unsure; and only
\* a client or a handler that has returned leaves a row 'failed'.
FailureIsKnown ==
    \A o \in Orders :
      /\ handler[o] = "fail" /\ Unblemished(o, {"unsure"})
           => swap[o].state \in {"none", "reverted"}
      /\ status[o] = "failed" /\ Unblemished(o, {"edited"})
           => handler[o] = "done"

\* Events tell of executed swaps, those that wait in a batch and those used.
EventsAreTrue ==
    /\ \A d \in Deliveries : delivery[d] \in DeliveryBusy =>
         /\ batch[d] # <<>>
         /\ \A i \in 1..Len(batch[d]) : swap[batch[d][i]].state = "executed"
    /\ \A o \in Orders : confirmed[o] # {} => swap[o].state = "executed"

\* A delivery reaches the payout only over the completion, the record and the
\* token-to-fiat event.
PayoutIsEarned ==
    \A d \in Deliveries :
      /\ delivery[d] \in {"record", "payFind", "pay", "payFail"}
           => Instance(d) \in confirmed[Current(d)]
      /\ delivery[d] \in {"payFind", "pay", "payFail"}
           => Current(d) \in recorded /\ swap[Current(d)].type = "TOKENTOFIAT"

\* The events a delivery has yet to finish have paid nothing so far.
Spent(n, at, left) ==
    /\ at # "idle"
    /\ at \in DeliveryBusy \ {"payFail"} => n > left
    /\ at = "payFail" => n >= left

EventsUnspent ==
    \A o \in Orders : \A k \in 1..Len(payouts[o]) :
      Spent(payouts[o][k][2], delivery[payouts[o][k][1]], Len(batch[payouts[o][k][1]]))

IInv ==
    /\ TypeOK
    /\ NotYetSubmitted
    /\ FailureIsKnown
    /\ FailedWasNotExecuted
    /\ CompletedWasExecuted
    /\ EventsAreTrue
    /\ ConfirmedStaysCompleted
    /\ PayoutIsEarned
    /\ EventsUnspent
    /\ PayoutsAreCovered

-----------------------------------------------------------------------------
(***************************************************************************)
(* Lemmas about batches.                                                   *)
(***************************************************************************)

\* A batch the indexer sends is a non-empty, bounded sequence of executed swaps.
LEMMA BatchFacts ==
    ASSUME NEW b \in Batches
    PROVE  /\ b \in Seq(Orders) /\ b # <<>> /\ Len(b) \in 1..MaxBatch
           /\ \A i \in 1..Len(b) : swap[b[i]].state = "executed"
<1>1. PICK n \in 1..MaxBatch : b \in [1..n -> {o \in Orders : swap[o].state = "executed"}]
  BY DEF Batches
<1>2. b \in Seq(Orders) /\ Len(b) = n
  BY <1>1, SwapAssumption DEF SwapAssumption
<1>. QED  BY <1>1, <1>2, SwapAssumption DEF SwapAssumption

\* What the loop over a batch reads and leaves.
LEMMA HeadTail ==
    ASSUME NEW b \in Seq(Orders), b # <<>>
    PROVE  /\ Head(b) \in Orders /\ Head(b) = b[1]
           /\ Len(b) \in Nat \ {0}
           /\ Tail(b) \in Seq(Orders) /\ Len(Tail(b)) = Len(b) - 1
           /\ \A i \in 1..Len(Tail(b)) : Tail(b)[i] = b[i + 1]
  OBVIOUS

\* A delivery at work has a current event: an order whose swap was executed.
LEMMA CurrentFacts ==
    ASSUME TypeOK, EventsAreTrue, NEW d \in Deliveries, delivery[d] \in DeliveryBusy
    PROVE  /\ batch[d] \in Seq(Orders) /\ batch[d] # <<>>
           /\ Current(d) \in Orders /\ Current(d) = batch[d][1]
           /\ swap[Current(d)].state = "executed"
           /\ Len(batch[d]) \in 1..MaxBatch /\ Instance(d) \in Instances
<1>1. batch[d] \in Seq(Orders) /\ batch[d] # <<>> /\ Len(batch[d]) <= MaxBatch
  BY DEF TypeOK, EventsAreTrue
<1>2. Len(batch[d]) \in 1..MaxBatch
  BY <1>1, SwapAssumption DEF SwapAssumption
<1>3. Current(d) \in Orders /\ Current(d) = batch[d][1]
  BY <1>1, HeadTail DEF Current
<1>. QED  BY <1>1, <1>2, <1>3 DEF EventsAreTrue, Instance, Instances

\* Moving on to the next event keeps deliveries and batches well formed.
LEMMA NextEventFacts ==
    ASSUME TypeOK, EventsAreTrue, NEW d \in Deliveries, delivery[d] \in DeliveryBusy,
           NextEvent(d)
    PROVE  /\ delivery' \in [Deliveries -> DeliveryBusy \cup {"idle", "done", "dead"}]
           /\ batch' \in [Deliveries -> Seq(Orders)]
           /\ \A e \in Deliveries : Len(batch'[e]) <= MaxBatch
           /\ delivery'[d] \in {"find", "done"}
           /\ Len(batch'[d]) = Len(batch[d]) - 1
           /\ delivery'[d] = "find" =>
                batch'[d] # <<>> /\ \A i \in 1..Len(batch'[d]) : batch'[d][i] = batch[d][i + 1]
           /\ \A e \in Deliveries \ {d} : delivery'[e] = delivery[e] /\ batch'[e] = batch[e]
<1>1. /\ batch[d] \in Seq(Orders) /\ batch[d] # <<>> /\ Len(batch[d]) \in 1..MaxBatch
  BY CurrentFacts
<1>2. /\ Tail(batch[d]) \in Seq(Orders) /\ Len(Tail(batch[d])) = Len(batch[d]) - 1
      /\ \A i \in 1..Len(Tail(batch[d])) : Tail(batch[d])[i] = batch[d][i + 1]
  BY <1>1, HeadTail
<1>3. batch' = [batch EXCEPT ![d] = Tail(batch[d])]
      /\ delivery' = [delivery EXCEPT ![d] = IF Len(batch[d]) = 1 THEN "done" ELSE "find"]
  BY DEF NextEvent
<1>4. batch'[d] = Tail(batch[d]) /\ delivery'[d] = IF Len(batch[d]) = 1 THEN "done" ELSE "find"
  BY <1>3 DEF TypeOK
<1>5. ASSUME delivery'[d] = "find" PROVE batch'[d] # <<>>
  <2>1. Len(batch[d]) # 1
    BY <1>4, <1>5
  <2>2. Len(batch'[d]) # 0
    BY <1>1, <1>2, <1>4, <2>1
  <2>. QED  BY <2>2
<1>. QED  BY <1>1, <1>2, <1>3, <1>4, <1>5, SwapAssumption DEF TypeOK, DeliveryBusy, SwapAssumption

\* A note adds one mishap to one order.
LEMMA NoteFacts ==
    ASSUME TypeOK, NEW o \in Orders, NEW m \in Mishaps, Note(o, m)
    PROVE  /\ mishaps' \in [Orders -> SUBSET Mishaps]
           /\ mishaps'[o] = mishaps[o] \cup {m}
           /\ \A p \in Orders \ {o} : mishaps'[p] = mishaps[p]
<1>1. mishaps \in [Orders -> SUBSET Mishaps]
  BY DEF TypeOK
<1>2. mishaps[o] \cup {m} \in SUBSET Mishaps
  BY <1>1
<1>. QED  BY <1>1, <1>2 DEF Note

\* The mishaps the actions note.
LEMMA MishapNames ==
    {"edited", "unsure", "overwritten", "unanswered", "abandoned"} = Mishaps
  BY DEF Mishaps

\* A restart adds at most one mishap to every order.
LEMMA CrashMishaps ==
    ASSUME TypeOK, Crash
    PROVE  /\ mishaps' \in [Orders -> SUBSET Mishaps]
           /\ \A o \in Orders :
                \/ mishaps'[o] = mishaps[o]
                \/ mishaps'[o] = mishaps[o] \cup {"abandoned"}
<1>1. mishaps \in [Orders -> SUBSET Mishaps]
  BY DEF TypeOK
<1>2. mishaps' = [o \in Orders |-> mishaps[o] \cup
                    IF \E d \in Deliveries : Settling(d) /\ Current(d) = o
                      THEN {"abandoned"} ELSE {}]
  BY DEF Crash
<1>3. ASSUME NEW o \in Orders
      PROVE  \/ mishaps'[o] = mishaps[o]
             \/ mishaps'[o] = mishaps[o] \cup {"abandoned"}
  BY <1>2
<1>4. ASSUME NEW o \in Orders PROVE mishaps'[o] \in SUBSET Mishaps
  BY <1>1, <1>3, MishapNames
<1>. QED  BY <1>2, <1>3, <1>4

-----------------------------------------------------------------------------
(***************************************************************************)
(* Every step keeps each part of the invariant.                            *)
(***************************************************************************)

\* Every action writes values of its variables' types.
LEMMA TypeStep ==
    ASSUME TypeOK, EventsAreTrue, [Next]_vars
    PROVE  TypeOK'
<1>. USE MishapNames DEF Written, Present, HandlerBusy, DeliveryBusy, handlerVars, deliveryVars, limits
<1>1. ASSUME NEW o \in Orders, Create(o) PROVE TypeOK'
  BY <1>1 DEF Create, TypeOK
<1>2. ASSUME NEW o \in Orders, NEW s \in Written \cup {"removed"},
             Execute(o, s) \/ Update(o, s) \/ (Remove(o) /\ s = "removed")
      PROVE  TypeOK'
  <2>1. mishaps' \in [Orders -> SUBSET Mishaps]
    BY <1>2, NoteFacts DEF Execute, Update, Remove, TypeOK
  <2>2. status' \in [Orders -> Written \cup {"absent", "removed"}]
    BY <1>2 DEF Execute, Update, Remove, TypeOK
  <2>3. edits' \in 0..MaxEdits
    BY <1>2, SwapAssumption DEF Execute, Update, Remove, TypeOK, SwapAssumption
  <2>. QED  BY <1>2, <2>1, <2>2, <2>3 DEF Execute, Update, Remove, HandlerGoes, TypeOK
<1>3. ASSUME NEW o \in Orders, NEW t \in SwapTypes, DirectSwap(o, t) PROVE TypeOK'
  BY <1>3 DEF DirectSwap, TypeOK, Swaps
<1>4. ASSUME NEW o \in Orders, NEW outcome \in {"executed", "reverted"}, Settle(o, outcome)
      PROVE  TypeOK'
  <2>. DEFINE row == swap[o]
  <2>1. row \in Swaps
    BY DEF TypeOK
  <2>2. [row EXCEPT !.state = outcome] \in Swaps
    <3>. HIDE DEF row
    <3>. QED  BY <1>4, <2>1 DEF Swaps
  <2>3. swap' = [swap EXCEPT ![o] = [swap[o] EXCEPT !.state = outcome]]
    BY <1>4 DEF Settle
  <2>4. swap' \in [Orders -> Swaps]
    BY <2>2, <2>3 DEF TypeOK
  <2>. QED  BY <1>4, <2>4 DEF Settle, TypeOK
<1>5. ASSUME NEW o \in Orders, Check(o) \/ Charge(o) \/ Approve(o) \/ SubmitRefused(o) PROVE TypeOK'
  BY <1>5 DEF Check, Charge, Approve, SubmitRefused, HandlerGoes, TypeOK
<1>6. ASSUME NEW o \in Orders, SubmitAccepted(o) PROVE TypeOK'
  <2>1. mishaps' \in [Orders -> SUBSET Mishaps]
    BY <1>6, NoteFacts DEF SubmitAccepted, TypeOK
  <2>2. swap' \in [Orders -> Swaps]
    BY <1>6, SwapAssumption DEF SubmitAccepted, TypeOK, Swaps, SwapAssumption
  <2>. QED  BY <1>6, <2>1, <2>2 DEF SubmitAccepted, HandlerGoes, TypeOK
<1>7. ASSUME NEW o \in Orders, Wait(o) \/ MarkProcessing(o) \/ MarkFailed(o) PROVE TypeOK'
  <2>1. mishaps' \in [Orders -> SUBSET Mishaps]
    BY <1>7, NoteFacts DEF Wait, MarkProcessing, MarkFailed, TypeOK
  <2>2. status' \in [Orders -> Written \cup {"absent", "removed"}]
    BY <1>7 DEF Wait, MarkProcessing, MarkFailed, TypeOK
  <2>. QED  BY <1>7, <2>1, <2>2 DEF Wait, MarkProcessing, MarkFailed, HandlerGoes, TypeOK
<1>8. ASSUME NEW d \in Deliveries, NEW b \in Batches, Deliver(d, b) PROVE TypeOK'
  BY <1>8, BatchFacts DEF Deliver, TypeOK
<1>9. ASSUME NEW d \in Deliveries, DeliveryStep(d) PROVE TypeOK'
  <2>1. /\ delivery' \in [Deliveries -> DeliveryBusy \cup {"idle", "done", "dead"}]
        /\ batch' \in [Deliveries -> Seq(Orders)]
        /\ \A e \in Deliveries : Len(batch'[e]) <= MaxBatch
    BY <1>9, NextEventFacts
       DEF DeliveryStep, FindOrder, RateUnavailable, CompleteOrder, RecordTransaction, PayoutFind,
           PayoutRefused, PayoutSent, MarkPayoutFailed, DeliveryGoes, Abort, TypeOK
  <2>2. Current(d) \in Orders /\ Instance(d) \in Instances
    BY <1>9, CurrentFacts
       DEF DeliveryStep, FindOrder, RateUnavailable, CompleteOrder, RecordTransaction, PayoutFind,
           PayoutRefused, PayoutSent, MarkPayoutFailed
  <2>3. mishaps' \in [Orders -> SUBSET Mishaps]
    BY <1>9, <2>2, NoteFacts
       DEF DeliveryStep, FindOrder, RateUnavailable, CompleteOrder, RecordTransaction, PayoutFind,
           PayoutRefused, PayoutSent, MarkPayoutFailed, TypeOK
  <2>5. status' \in [Orders -> Written \cup {"absent", "removed"}]
    BY <1>9, <2>2
       DEF DeliveryStep, FindOrder, RateUnavailable, CompleteOrder, RecordTransaction, PayoutFind,
           PayoutRefused, PayoutSent, MarkPayoutFailed, TypeOK
  <2>6. confirmed' \in [Orders -> SUBSET Instances]
    <3>1. \/ confirmed' = confirmed
          \/ confirmed' = [confirmed EXCEPT ![Current(d)] = @ \cup {Instance(d)}]
      BY <1>9
         DEF DeliveryStep, FindOrder, RateUnavailable, CompleteOrder, RecordTransaction,
             PayoutFind, PayoutRefused, PayoutSent, MarkPayoutFailed
    <3>2. confirmed[Current(d)] \cup {Instance(d)} \in SUBSET Instances
      BY <2>2 DEF TypeOK
    <3>. QED  BY <2>2, <3>1, <3>2 DEF TypeOK
  <2>7. payouts' \in [Orders -> Seq(Instances)]
    <3>1. \/ payouts' = payouts
          \/ payouts' = [payouts EXCEPT ![Current(d)] = Append(@, Instance(d))]
      BY <1>9
         DEF DeliveryStep, FindOrder, RateUnavailable, CompleteOrder, RecordTransaction,
             PayoutFind, PayoutRefused, PayoutSent, MarkPayoutFailed
    <3>2. Append(payouts[Current(d)], Instance(d)) \in Seq(Instances)
      BY <2>2 DEF TypeOK
    <3>. QED  BY <2>2, <3>1, <3>2 DEF TypeOK
  <2>8. recorded' \subseteq Orders
    BY <1>9, <2>2
       DEF DeliveryStep, FindOrder, RateUnavailable, CompleteOrder, RecordTransaction, PayoutFind,
           PayoutRefused, PayoutSent, MarkPayoutFailed, TypeOK
  <2>4. UNCHANGED <<handler, swap, charged, crashes, edits>>
    BY <1>9
       DEF DeliveryStep, FindOrder, RateUnavailable, CompleteOrder, RecordTransaction, PayoutFind,
           PayoutRefused, PayoutSent, MarkPayoutFailed
  <2>. QED  BY <2>1, <2>3, <2>4, <2>5, <2>6, <2>7, <2>8 DEF TypeOK
<1>10. ASSUME Crash PROVE TypeOK'
  <2>1. mishaps' \in [Orders -> SUBSET Mishaps]
    BY <1>10, CrashMishaps
  <2>. QED  BY <1>10, <2>1, SwapAssumption DEF Crash, TypeOK, SwapAssumption
<1>11. ASSUME UNCHANGED vars PROVE TypeOK'
  BY <1>11 DEF vars, TypeOK
<1>. QED
  BY <1>1, <1>2, <1>3, <1>4, <1>5, <1>6, <1>7, <1>8, <1>9, <1>10, <1>11 DEF Next, HandlerStep

\* Deliveries touch neither handlers nor swaps, and write only to rows that exist.
LEMMA DeliveryFrame ==
    ASSUME TypeOK, EventsAreTrue, NEW d \in Deliveries, DeliveryStep(d)
    PROVE  /\ UNCHANGED <<handler, swap, charged, limits>>
           /\ delivery[d] \in DeliveryBusy
           /\ \A o \in Orders : status'[o] # status[o] =>
                /\ o = Current(d) /\ status[o] \in Present
                /\ status'[o] \in {"completed", "payout_failed"}
           /\ \A o \in Orders : mishaps'[o] # mishaps[o] =>
                \/ mishaps'[o] = mishaps[o] \cup {"unanswered"}
                \/ mishaps'[o] = mishaps[o] \cup {"abandoned"}
<1>1. UNCHANGED <<handler, swap, charged, limits>> /\ delivery[d] \in DeliveryBusy
  BY DEF DeliveryStep, FindOrder, RateUnavailable, CompleteOrder, RecordTransaction, PayoutFind,
         PayoutRefused, PayoutSent, MarkPayoutFailed, DeliveryBusy, handlerVars, limits
<1>2. Current(d) \in Orders
  BY <1>1, CurrentFacts
<1>3. \/ status' = status
      \/ /\ status[Current(d)] \in Present
         /\ \/ status' = [status EXCEPT ![Current(d)] = "completed"]
            \/ status' = [status EXCEPT ![Current(d)] = "payout_failed"]
  BY DEF DeliveryStep, FindOrder, RateUnavailable, CompleteOrder, RecordTransaction, PayoutFind,
         PayoutRefused, PayoutSent, MarkPayoutFailed
<1>4. mishaps' = mishaps \/ Note(Current(d), "unanswered") \/ Note(Current(d), "abandoned")
  BY DEF DeliveryStep, FindOrder, RateUnavailable, CompleteOrder, RecordTransaction, PayoutFind,
         PayoutRefused, PayoutSent, MarkPayoutFailed
<1>5. \A o \in Orders : mishaps'[o] # mishaps[o] =>
        \/ mishaps'[o] = mishaps[o] \cup {"unanswered"}
        \/ mishaps'[o] = mishaps[o] \cup {"abandoned"}
  BY <1>2, <1>4, NoteFacts, MishapNames
<1>. QED  BY <1>1, <1>2, <1>3, <1>5 DEF TypeOK

\* No step submits a swap behind the back of a handler that has yet to call.
LEMMA NotYetSubmittedStep ==
    ASSUME TypeOK, EventsAreTrue, NotYetSubmitted, [Next]_vars
    PROVE  NotYetSubmitted'
<1>. USE DEF Written, Present, HandlerBusy, handlerVars, NotYetSubmitted, TypeOK
<1>1. ASSUME NEW o \in Orders,
             \/ Create(o) \/ Remove(o)
             \/ \E s \in Written : Execute(o, s) \/ Update(o, s)
      PROVE  NotYetSubmitted'
  BY <1>1 DEF Create, Remove, Execute, Update, HandlerGoes
<1>2. ASSUME NEW o \in Orders, \E t \in SwapTypes : DirectSwap(o, t) PROVE NotYetSubmitted'
  BY <1>2 DEF DirectSwap
<1>3. ASSUME NEW o \in Orders, \E outcome \in {"executed", "reverted"} : Settle(o, outcome)
      PROVE  NotYetSubmitted'
  <2>1. swap[o] # NoSwap
    BY <1>3 DEF Settle, NoSwap
  <2>. QED  BY <1>3, <2>1 DEF Settle
<1>4. ASSUME NEW o \in Orders, HandlerStep(o) PROVE NotYetSubmitted'
  BY <1>4 DEF HandlerStep, Check, Charge, Approve, SubmitRefused, SubmitAccepted, Wait, MarkProcessing,
              MarkFailed, HandlerGoes
<1>5. ASSUME NEW d \in Deliveries, DeliveryStep(d) PROVE NotYetSubmitted'
  BY <1>5, DeliveryFrame
<1>6. ASSUME Crash \/ (\E d \in Deliveries, b \in Batches : Deliver(d, b)) \/ UNCHANGED vars
      PROVE  NotYetSubmitted'
  <2>1. UNCHANGED <<status, swap>>
    BY <1>6 DEF Crash, Deliver, vars
  <2>2. ASSUME NEW o \in Orders
        PROVE  handler'[o] = handler[o] \/ (handler'[o] = "dead" /\ handler[o] # "idle")
    <3>1. CASE Crash
      BY <3>1 DEF Crash
    <3>2. CASE ~Crash
      BY <1>6, <3>2 DEF Deliver, vars
    <3>. QED  BY <3>1, <3>2
  <2>. QED  BY <2>1, <2>2
<1>. QED  BY <1>1, <1>2, <1>3, <1>4, <1>5, <1>6 DEF Next

\* How an order's swap moves: it is submitted once, by its handler or directly,
\* and settled once; an executed or reverted swap never changes again.
LEMMA SwapMoves ==
    ASSUME TypeOK, EventsAreTrue, NotYetSubmitted, [Next]_vars, NEW o \in Orders
    PROVE  \/ swap'[o] = swap[o]
           \/ /\ swap[o] = NoSwap /\ swap'[o].state = "submitted"
              /\ status[o] # "absent" /\ status'[o] = status[o]
              /\ confirmed'[o] = confirmed[o] /\ mishaps[o] \subseteq mishaps'[o]
              /\ \/ handler[o] = "idle" /\ handler'[o] = "idle"
                 \/ /\ handler'[o] \in {"mark", "wait", "fail"}
                    /\ handler'[o] = "fail" => "unsure" \in mishaps'[o]
           \/ /\ swap[o].state = "submitted"
              /\ swap'[o].state \in {"executed", "reverted"} /\ swap'[o].type = swap[o].type
              /\ UNCHANGED <<status, handler, delivery, batch, confirmed, payouts, mishaps, recorded>>
<1>. USE DEF handlerVars, deliveryVars, limits
<1>1. ASSUME NEW p \in Orders, NEW t \in SwapTypes, DirectSwap(p, t), swap'[o] # swap[o]
      PROVE  /\ swap[o] = NoSwap /\ swap'[o].state = "submitted"
             /\ status[o] # "absent" /\ status'[o] = status[o]
             /\ confirmed'[o] = confirmed[o] /\ mishaps[o] \subseteq mishaps'[o]
             /\ handler[o] = "idle" /\ handler'[o] = "idle"
  BY <1>1 DEF DirectSwap, TypeOK
<1>2. ASSUME NEW p \in Orders, SubmitAccepted(p), swap'[o] # swap[o]
      PROVE  /\ swap[o] = NoSwap /\ swap'[o].state = "submitted"
             /\ status[o] # "absent" /\ status'[o] = status[o]
             /\ confirmed'[o] = confirmed[o] /\ mishaps[o] \subseteq mishaps'[o]
             /\ handler'[o] \in {"mark", "wait", "fail"}
             /\ handler'[o] = "fail" => "unsure" \in mishaps'[o]
  <2>1. o = p /\ swap'[o].state = "submitted" /\ handler[o] = "submit"
    BY <1>2 DEF SubmitAccepted, TypeOK
  <2>2. swap[o] = NoSwap /\ status[o] # "absent"
    BY <2>1 DEF NotYetSubmitted
  <2>3. \/ handler'[o] \in {"mark", "wait"} /\ mishaps' = mishaps
        \/ handler'[o] = "fail" /\ Note(o, "unsure")
    BY <1>2, <2>1 DEF SubmitAccepted, HandlerGoes, TypeOK
  <2>4. mishaps[o] \subseteq mishaps'[o] /\ (handler'[o] = "fail" => "unsure" \in mishaps'[o])
    BY <2>3, NoteFacts, MishapNames
  <2>. QED  BY <1>2, <2>1, <2>2, <2>3, <2>4 DEF SubmitAccepted
<1>3. ASSUME NEW p \in Orders, NEW outcome \in {"executed", "reverted"}, Settle(p, outcome),
             swap'[o] # swap[o]
      PROVE  /\ swap[o].state = "submitted"
             /\ swap'[o].state \in {"executed", "reverted"} /\ swap'[o].type = swap[o].type
             /\ UNCHANGED <<status, handler, delivery, batch, confirmed, payouts, mishaps, recorded>>
  BY <1>3 DEF Settle, TypeOK, Swaps
<1>4. ASSUME NEW p \in Orders,
             \/ Create(p) \/ Remove(p)
             \/ \E s \in Written : Execute(p, s) \/ Update(p, s)
             \/ Check(p) \/ Charge(p) \/ Approve(p) \/ SubmitRefused(p) \/ Wait(p) \/ MarkProcessing(p)
             \/ MarkFailed(p)
      PROVE  swap' = swap
  BY <1>4 DEF Create, Remove, Execute, Update, Check, Charge, Approve, SubmitRefused, Wait, MarkProcessing,
              MarkFailed
<1>5. ASSUME NEW d \in Deliveries, DeliveryStep(d) PROVE swap' = swap
  BY <1>5, DeliveryFrame
<1>6. ASSUME Crash \/ (\E d \in Deliveries, b \in Batches : Deliver(d, b)) \/ UNCHANGED vars
      PROVE  swap' = swap
  BY <1>6 DEF Crash, Deliver, vars
<1>. QED  BY <1>1, <1>2, <1>3, <1>4, <1>5, <1>6 DEF Next, HandlerStep

\* The contract does not forget: an executed or reverted swap stays as it is.
LEMMA SettledStays ==
    ASSUME TypeOK, EventsAreTrue, NotYetSubmitted, [Next]_vars, NEW o \in Orders,
           swap[o].state \in {"executed", "reverted"}
    PROVE  swap'[o] = swap[o]
  BY SwapMoves DEF NoSwap

\* Mishaps are never taken back.
LEMMA MishapsGrow ==
    ASSUME TypeOK, EventsAreTrue, [Next]_vars, NEW o \in Orders
    PROVE  mishaps[o] \subseteq mishaps'[o]
<1>1. ASSUME NEW p \in Orders, NEW m \in Mishaps, Note(p, m) PROVE mishaps[o] \subseteq mishaps'[o]
  BY <1>1, NoteFacts
<1>2. ASSUME NEW p \in Orders,
             \/ Create(p) \/ Remove(p)
             \/ \E s \in Written : Execute(p, s) \/ Update(p, s)
             \/ \E t \in SwapTypes : DirectSwap(p, t)
             \/ \E outcome \in {"executed", "reverted"} : Settle(p, outcome)
             \/ HandlerStep(p)
      PROVE  mishaps' = mishaps \/ \E m \in Mishaps : Note(p, m)
  BY <1>2, MishapNames
     DEF Create, Remove, Execute, Update, DirectSwap, Settle, HandlerStep, Check, Charge, Approve,
         SubmitRefused, SubmitAccepted, Wait, MarkProcessing, MarkFailed
<1>3. ASSUME NEW d \in Deliveries, DeliveryStep(d) PROVE mishaps[o] \subseteq mishaps'[o]
  BY <1>3, DeliveryFrame
<1>4. ASSUME (\E d \in Deliveries, b \in Batches : Deliver(d, b)) \/ UNCHANGED vars
      PROVE  mishaps' = mishaps
  BY <1>4 DEF Deliver, vars
<1>5. ASSUME Crash PROVE mishaps[o] \subseteq mishaps'[o]
  BY <1>5, CrashMishaps
<1>. QED  BY <1>1, <1>2, <1>3, <1>4, <1>5 DEF Next

\* Events go on telling the truth: the contract never takes an executed swap back.
LEMMA EventsAreTrueStep ==
    ASSUME TypeOK, EventsAreTrue, NotYetSubmitted, [Next]_vars
    PROVE  EventsAreTrue'
<1>1. \A o \in Orders : swap[o].state = "executed" => swap'[o].state = "executed"
  BY SettledStays
<1>x. ASSUME NEW e \in Deliveries, delivery[e] \in DeliveryBusy, NEW i \in 1..Len(batch[e])
      PROVE  swap[batch[e][i]].state = "executed" /\ swap'[batch[e][i]].state = "executed"
  <2>1. batch[e] \in Seq(Orders) /\ swap[batch[e][i]].state = "executed"
    BY <1>x DEF TypeOK, EventsAreTrue
  <2>2. batch[e][i] \in Orders
    BY <2>1
  <2>. QED  BY <1>1, <2>1, <2>2
<1>2. ASSUME UNCHANGED <<delivery, batch, confirmed>> PROVE EventsAreTrue'
  BY <1>x, <1>1, <1>2 DEF EventsAreTrue
<1>3. ASSUME NEW d \in Deliveries, NEW b \in Batches, Deliver(d, b) PROVE EventsAreTrue'
  <2>1. /\ delivery' = [delivery EXCEPT ![d] = "find"] /\ batch' = [batch EXCEPT ![d] = b]
        /\ confirmed' = confirmed
    BY <1>3 DEF Deliver
  <2>2. b \in Seq(Orders) /\ b # <<>> /\ \A i \in 1..Len(b) : swap[b[i]].state = "executed"
    BY BatchFacts
  <2>3. \A i \in 1..Len(b) : swap'[b[i]].state = "executed"
    BY <1>1, <2>2
  <2>4. delivery'[d] = "find" /\ batch'[d] = b
        /\ \A e \in Deliveries \ {d} : delivery'[e] = delivery[e] /\ batch'[e] = batch[e]
    BY <2>1 DEF TypeOK
  <2>. QED  BY <1>x, <1>1, <2>1, <2>2, <2>3, <2>4 DEF EventsAreTrue
<1>4. ASSUME NEW d \in Deliveries, DeliveryStep(d) PROVE EventsAreTrue'
  <2>1. /\ delivery[d] \in DeliveryBusy /\ batch[d] \in Seq(Orders) /\ batch[d] # <<>>
        /\ Current(d) \in Orders /\ swap[Current(d)].state = "executed" /\ swap' = swap
    BY <1>4, DeliveryFrame, CurrentFacts
  <2>2. \/ NextEvent(d)
        \/ \E to \in DeliveryBusy \cup {"done"} : DeliveryGoes(d, to)
    BY <1>4
       DEF DeliveryStep, FindOrder, RateUnavailable, CompleteOrder, RecordTransaction, PayoutFind,
           PayoutRefused, PayoutSent, MarkPayoutFailed, Abort, DeliveryBusy
  <2>3. \A e \in Deliveries : delivery'[e] \in DeliveryBusy =>
          batch'[e] # <<>> /\ \A i \in 1..Len(batch'[e]) : swap'[batch'[e][i]].state = "executed"
    <3>1. CASE NextEvent(d)
      <4>1. /\ delivery'[d] \in {"find", "done"}
            /\ Len(batch'[d]) = Len(batch[d]) - 1
            /\ delivery'[d] = "find" =>
                 batch'[d] # <<>> /\ \A i \in 1..Len(batch'[d]) : batch'[d][i] = batch[d][i + 1]
            /\ \A e \in Deliveries \ {d} : delivery'[e] = delivery[e] /\ batch'[e] = batch[e]
        BY <2>1, <3>1, NextEventFacts
      <4>2. \A i \in 1..Len(batch'[d]) : i + 1 \in 1..Len(batch[d])
        BY <2>1, <4>1
      <4>3. ASSUME NEW i \in 1..Len(batch'[d]), delivery'[d] = "find"
            PROVE  swap'[batch'[d][i]].state = "executed"
        BY <1>x, <2>1, <4>1, <4>2, <4>3
      <4>. QED  BY <1>x, <4>1, <4>3 DEF EventsAreTrue, DeliveryBusy
    <3>2. CASE \E to \in DeliveryBusy \cup {"done"} : DeliveryGoes(d, to)
      BY <1>x, <2>1, <3>2 DEF DeliveryGoes, EventsAreTrue, TypeOK
    <3>. QED  BY <2>2, <3>1, <3>2
  <2>4. \A o \in Orders : confirmed'[o] = confirmed[o] \/ o = Current(d)
    BY <1>4, <2>1
       DEF DeliveryStep, FindOrder, RateUnavailable, CompleteOrder, RecordTransaction, PayoutFind,
           PayoutRefused, PayoutSent, MarkPayoutFailed, TypeOK
  <2>. QED  BY <2>1, <2>3, <2>4 DEF EventsAreTrue
<1>5. ASSUME Crash PROVE EventsAreTrue'
  BY <1>x, <1>1, <1>5 DEF Crash, EventsAreTrue, DeliveryBusy
<1>6. ASSUME NEW o \in Orders,
             \/ Create(o) \/ Remove(o)
             \/ \E s \in Written : Execute(o, s) \/ Update(o, s)
             \/ \E t \in SwapTypes : DirectSwap(o, t)
             \/ \E outcome \in {"executed", "reverted"} : Settle(o, outcome)
             \/ HandlerStep(o)
      PROVE  UNCHANGED <<delivery, batch, confirmed>>
  BY <1>6
     DEF Create, Remove, Execute, Update, DirectSwap, Settle, HandlerStep, Check, Charge, Approve,
         SubmitRefused, SubmitAccepted, Wait, MarkProcessing, MarkFailed, deliveryVars
<1>7. ASSUME UNCHANGED vars PROVE UNCHANGED <<delivery, batch, confirmed>>
  BY <1>7 DEF vars
<1>. QED  BY <1>2, <1>3, <1>4, <1>5, <1>6, <1>7 DEF Next

\* Only a handler sends itself to the catch block.
LEMMA TurnsToFail ==
    ASSUME TypeOK, EventsAreTrue, [Next]_vars, NEW o \in Orders,
           handler[o] # "fail", handler'[o] = "fail"
    PROVE  HandlerStep(o)
<1>1. ASSUME NEW d \in Deliveries, DeliveryStep(d) PROVE FALSE
  BY <1>1, DeliveryFrame
<1>2. ASSUME NEW p \in Orders,
             \/ Create(p) \/ Remove(p)
             \/ \E s \in Written : Execute(p, s) \/ Update(p, s)
             \/ \E t \in SwapTypes : DirectSwap(p, t)
             \/ \E outcome \in {"executed", "reverted"} : Settle(p, outcome)
      PROVE  FALSE
  BY <1>2 DEF TypeOK, Create, Remove, Execute, Update, DirectSwap, Settle, HandlerGoes, handlerVars
<1>3. ASSUME Crash \/ (\E d \in Deliveries, b \in Batches : Deliver(d, b)) \/ UNCHANGED vars
      PROVE  FALSE
  BY <1>3 DEF TypeOK, Crash, Deliver, handlerVars, vars
<1>4. ASSUME NEW p \in Orders, HandlerStep(p) PROVE p = o
  BY <1>4 DEF TypeOK, HandlerStep, Check, Charge, Approve, SubmitRefused, SubmitAccepted, Wait,
              MarkProcessing, MarkFailed, HandlerGoes
<1>. QED  BY <1>1, <1>2, <1>3, <1>4 DEF Next

\* Only the catch block marks an order failed, clients apart.
LEMMA TurnsFailed ==
    ASSUME TypeOK, EventsAreTrue, [Next]_vars, NEW o \in Orders,
           status[o] # "failed", status'[o] = "failed", "edited" \notin mishaps'[o]
    PROVE  MarkFailed(o)
<1>1. ASSUME NEW d \in Deliveries, DeliveryStep(d) PROVE FALSE
  BY <1>1, DeliveryFrame
<1>2. ASSUME NEW p \in Orders, NEW s \in Written, Execute(p, s) \/ Update(p, s) PROVE FALSE
  <2>1. p = o /\ s # "pending"
    BY <1>2 DEF Execute, Update, TypeOK
  <2>2. Note(o, "edited")
    BY <1>2, <2>1 DEF Execute, Update
  <2>. QED  BY <2>2, NoteFacts, MishapNames
<1>3. ASSUME NEW p \in Orders,
             \/ Create(p) \/ Remove(p)
             \/ \E t \in SwapTypes : DirectSwap(p, t)
             \/ \E outcome \in {"executed", "reverted"} : Settle(p, outcome)
      PROVE  FALSE
  BY <1>3 DEF TypeOK, Create, Remove, DirectSwap, Settle
<1>4. ASSUME Crash \/ (\E d \in Deliveries, b \in Batches : Deliver(d, b)) \/ UNCHANGED vars
      PROVE  FALSE
  BY <1>4 DEF Crash, Deliver, vars
<1>5. ASSUME NEW p \in Orders, HandlerStep(p) PROVE MarkFailed(o)
  BY <1>5 DEF TypeOK, HandlerStep, Check, Charge, Approve, SubmitRefused, SubmitAccepted, Wait,
              MarkProcessing, MarkFailed
<1>. QED  BY <1>1, <1>2, <1>3, <1>4, <1>5 DEF Next

\* A handler that has returned does nothing more.
LEMMA DoneStays ==
    ASSUME TypeOK, EventsAreTrue, NEW o \in Orders, handler[o] = "done", [Next]_vars,
           status[o] # "absent"
    PROVE  handler'[o] = "done"
<1>1. ASSUME NEW d \in Deliveries, DeliveryStep(d) PROVE handler' = handler
  BY <1>1, DeliveryFrame
<1>2. ASSUME NEW p \in Orders,
             \/ Create(p) \/ Remove(p)
             \/ \E s \in Written : Execute(p, s) \/ Update(p, s)
             \/ \E t \in SwapTypes : DirectSwap(p, t)
             \/ \E outcome \in {"executed", "reverted"} : Settle(p, outcome)
      PROVE  handler'[o] = handler[o]
  BY <1>2 DEF TypeOK, Create, Remove, Execute, Update, DirectSwap, Settle, HandlerGoes, handlerVars
<1>3. ASSUME NEW p \in Orders, HandlerStep(p) PROVE handler'[o] = handler[o]
  <2>1. handler[p] # "done"
    BY <1>3 DEF HandlerStep, Check, Charge, Approve, SubmitRefused, SubmitAccepted, Wait,
                MarkProcessing, MarkFailed
  <2>2. \E to : HandlerGoes(p, to)
    BY <1>3, Zenon DEF HandlerStep, Check, Charge, Approve, SubmitRefused, SubmitAccepted, Wait,
                MarkProcessing, MarkFailed
  <2>. QED  BY <2>1, <2>2 DEF HandlerGoes, TypeOK
<1>4. ASSUME Crash \/ (\E d \in Deliveries, b \in Batches : Deliver(d, b)) \/ UNCHANGED vars
      PROVE  handler'[o] = handler[o]
  BY <1>4 DEF Crash, Deliver, HandlerBusy, TypeOK, handlerVars, vars
<1>. QED  BY <1>1, <1>2, <1>3, <1>4 DEF Next

\* A handler enters the catch block knowing its swap failed, or notes that it is
\* unsure; 'failed' is the last thing a handler writes.
LEMMA FailureIsKnownStep ==
    ASSUME TypeOK, EventsAreTrue, NotYetSubmitted, FailureIsKnown, [Next]_vars
    PROVE  FailureIsKnown'
<1>1. ASSUME NEW o \in Orders, handler'[o] = "fail", "unsure" \notin mishaps'[o]
      PROVE  swap'[o].state \in {"none", "reverted"}
  <2>1. "unsure" \notin mishaps[o]
    BY <1>1, MishapsGrow
  <2>2. CASE handler[o] = "fail"
    <3>1. swap[o].state \in {"none", "reverted"}
      BY <2>1, <2>2 DEF FailureIsKnown, Unblemished
    <3>. QED  BY <1>1, <2>2, <3>1, SwapMoves
  <2>3. CASE handler[o] # "fail"
    <3>1. HandlerStep(o)
      BY <1>1, <2>3, TurnsToFail
    <3>2. \/ Check(o) \/ Approve(o) \/ SubmitRefused(o)
          \/ handler[o] = "wait" /\ swap[o].state = "reverted" /\ swap' = swap
      <4>1. ~Note(o, "unsure")
        BY <1>1, NoteFacts, MishapNames
      <4>. QED
        BY <1>1, <3>1, <4>1
           DEF TypeOK, HandlerStep, Check, Charge, Approve, SubmitRefused, SubmitAccepted, Wait,
               MarkProcessing, MarkFailed, HandlerGoes
    <3>. QED  BY <3>2 DEF Check, Approve, SubmitRefused, NotYetSubmitted, NoSwap
  <2>. QED  BY <2>2, <2>3
<1>2. ASSUME NEW o \in Orders, status'[o] = "failed", "edited" \notin mishaps'[o]
      PROVE  handler'[o] = "done"
  <2>1. "edited" \notin mishaps[o]
    BY <1>2, MishapsGrow
  <2>2. CASE status[o] = "failed"
    <3>1. handler[o] = "done"
      BY <2>1, <2>2 DEF FailureIsKnown, Unblemished
    <3>. QED  BY <3>1, <2>2, DoneStays
  <2>3. CASE status[o] # "failed"
    BY <1>2, <2>3, TurnsFailed DEF MarkFailed, HandlerGoes, TypeOK
  <2>. QED  BY <2>2, <2>3
<1>. QED  BY <1>1, <1>2 DEF FailureIsKnown, Unblemished

\* No step makes a known failure untrue: the swap of an order that a returned
\* handler marked failed is none or reverted, and stays so.
LEMMA FailedWasNotExecutedStep ==
    ASSUME TypeOK, EventsAreTrue, NotYetSubmitted, FailureIsKnown, FailedWasNotExecuted,
           [Next]_vars
    PROVE  FailedWasNotExecuted'
<1>. SUFFICES ASSUME NEW o \in Orders, status'[o] = "failed",
                     "edited" \notin mishaps'[o], "unsure" \notin mishaps'[o]
              PROVE  swap'[o].state \in {"none", "reverted"}
  BY DEF FailedWasNotExecuted, Unblemished
<1>1. "edited" \notin mishaps[o] /\ "unsure" \notin mishaps[o]
  BY MishapsGrow
<1>2. handler'[o] = "done"
  BY FailureIsKnownStep DEF FailureIsKnown, Unblemished
<1>3. CASE status[o] = "failed"
  <2>1. swap[o].state \in {"none", "reverted"} /\ handler[o] = "done"
    BY <1>1, <1>3 DEF FailedWasNotExecuted, FailureIsKnown, Unblemished
  <2>. QED  BY <1>2, <2>1, SwapMoves
<1>4. CASE status[o] # "failed"
  <2>2. handler[o] = "fail" /\ swap' = swap
    BY <1>4, TurnsFailed DEF MarkFailed
  <2>. QED  BY <1>1, <2>2 DEF FailureIsKnown, Unblemished
<1>. QED  BY <1>3, <1>4

\* Only the event processor completes an order, clients apart, and it does so on
\* an event of the order's executed swap.
LEMMA TurnsCompleted ==
    ASSUME TypeOK, EventsAreTrue, [Next]_vars, NEW o \in Orders,
           status[o] \notin {"completed", "payout_failed"},
           status'[o] \in {"completed", "payout_failed"}, "edited" \notin mishaps'[o]
    PROVE  swap[o].state = "executed"
<1>1. ASSUME NEW d \in Deliveries, DeliveryStep(d) PROVE swap[o].state = "executed"
  BY <1>1, DeliveryFrame, CurrentFacts
<1>2. ASSUME NEW p \in Orders, NEW s \in Written, Execute(p, s) \/ Update(p, s) PROVE FALSE
  <2>1. p = o /\ s # "pending"
    BY <1>2 DEF Execute, Update, TypeOK
  <2>2. Note(o, "edited")
    BY <1>2, <2>1 DEF Execute, Update
  <2>. QED  BY <2>2, NoteFacts, MishapNames
<1>3. ASSUME NEW p \in Orders,
             \/ Create(p) \/ Remove(p) \/ HandlerStep(p)
             \/ \E t \in SwapTypes : DirectSwap(p, t)
             \/ \E outcome \in {"executed", "reverted"} : Settle(p, outcome)
      PROVE  FALSE
  BY <1>3
     DEF TypeOK, Create, Remove, DirectSwap, Settle, HandlerStep, Check, Charge, Approve, SubmitRefused,
         SubmitAccepted, Wait, MarkProcessing, MarkFailed
<1>4. ASSUME Crash \/ (\E d \in Deliveries, b \in Batches : Deliver(d, b)) \/ UNCHANGED vars
      PROVE  FALSE
  BY <1>4 DEF Crash, Deliver, vars
<1>. QED  BY <1>1, <1>2, <1>3, <1>4 DEF Next

\* No step completes an order without its swap, and executed swaps stay.
LEMMA CompletedWasExecutedStep ==
    ASSUME TypeOK, EventsAreTrue, NotYetSubmitted, CompletedWasExecuted, [Next]_vars
    PROVE  CompletedWasExecuted'
<1>. SUFFICES ASSUME NEW o \in Orders, status'[o] \in {"completed", "payout_failed"},
                     "edited" \notin mishaps'[o]
              PROVE  swap'[o].state = "executed"
  BY DEF CompletedWasExecuted, Unblemished
<1>1. "edited" \notin mishaps[o]
  BY MishapsGrow
<1>2. swap[o].state = "executed"
  BY <1>1, TurnsCompleted DEF CompletedWasExecuted, Unblemished
<1>. QED  BY <1>2, SettledStays

\* A completion is lost only to a client, to the handler's 'processing', noted as
\* an overwriting, or to the catch block.
LEMMA LosesCompletion ==
    ASSUME TypeOK, EventsAreTrue, [Next]_vars, NEW o \in Orders,
           status[o] \in {"completed", "payout_failed"},
           status'[o] \notin {"completed", "payout_failed"},
           "edited" \notin mishaps'[o], "overwritten" \notin mishaps'[o]
    PROVE  MarkFailed(o)
<1>1. ASSUME NEW d \in Deliveries, DeliveryStep(d) PROVE FALSE
  BY <1>1, DeliveryFrame
<1>2. ASSUME NEW p \in Orders, Remove(p) \/ \E s \in Written : Update(p, s) PROVE FALSE
  <2>1. p = o /\ Note(o, "edited")
    BY <1>2 DEF Remove, Update, TypeOK
  <2>. QED  BY <2>1, NoteFacts, MishapNames
<1>3. ASSUME NEW p \in Orders, MarkProcessing(p) PROVE FALSE
  <2>1. p = o /\ Note(o, "overwritten")
    BY <1>3 DEF MarkProcessing, TypeOK
  <2>. QED  BY <2>1, NoteFacts, MishapNames
<1>4. ASSUME NEW p \in Orders, MarkFailed(p) PROVE p = o
  BY <1>4 DEF MarkFailed, TypeOK
<1>5. ASSUME NEW p \in Orders,
             \/ Create(p) \/ Check(p) \/ Charge(p) \/ Approve(p) \/ SubmitRefused(p) \/ SubmitAccepted(p)
             \/ Wait(p)
             \/ \E s \in Written : Execute(p, s)
             \/ \E t \in SwapTypes : DirectSwap(p, t)
             \/ \E outcome \in {"executed", "reverted"} : Settle(p, outcome)
      PROVE  FALSE
  BY <1>5
     DEF TypeOK, Create, Execute, DirectSwap, Settle, Check, Charge, Approve, SubmitRefused,
         SubmitAccepted, Wait
<1>6. ASSUME Crash \/ (\E d \in Deliveries, b \in Batches : Deliver(d, b)) \/ UNCHANGED vars
      PROVE  FALSE
  BY <1>6 DEF Crash, Deliver, vars
<1>. QED  BY <1>1, <1>2, <1>3, <1>4, <1>5, <1>6 DEF Next, HandlerStep

\* A new confirmation leaves the order completed.
LEMMA NewlyConfirmed ==
    ASSUME TypeOK, EventsAreTrue, [Next]_vars, NEW o \in Orders, confirmed'[o] # confirmed[o]
    PROVE  /\ status'[o] = "completed"
           /\ \E d \in Deliveries : CompleteOrder(d) /\ o = Current(d)
<1>1. \E d \in Deliveries : CompleteOrder(d)
  BY DEF Next, Create, Remove, Execute, Update, DirectSwap, Settle, Crash, Deliver, HandlerStep,
         Check, Charge, Approve, SubmitRefused, SubmitAccepted, Wait, MarkProcessing, MarkFailed,
         DeliveryStep, FindOrder, RateUnavailable, RecordTransaction, PayoutFind, PayoutRefused,
         PayoutSent, MarkPayoutFailed, deliveryVars, vars
<1>2. PICK d \in Deliveries : CompleteOrder(d)
  BY <1>1
<1>3. Current(d) \in Orders
  BY <1>2, CurrentFacts DEF CompleteOrder, DeliveryBusy
<1>. QED  BY <1>2, <1>3 DEF CompleteOrder, TypeOK

\* No step takes a completion away without its mishap.
LEMMA ConfirmedStaysCompletedStep ==
    ASSUME TypeOK, EventsAreTrue, NotYetSubmitted, FailureIsKnown, ConfirmedStaysCompleted,
           [Next]_vars
    PROVE  ConfirmedStaysCompleted'
<1>. SUFFICES ASSUME NEW o \in Orders, confirmed'[o] # {}, "edited" \notin mishaps'[o],
                     "unsure" \notin mishaps'[o], "overwritten" \notin mishaps'[o]
              PROVE  status'[o] \in {"completed", "payout_failed"}
  BY DEF ConfirmedStaysCompleted, Unblemished
<1>1. /\ "edited" \notin mishaps[o] /\ "unsure" \notin mishaps[o]
      /\ "overwritten" \notin mishaps[o]
  BY MishapsGrow
<1>2. CASE confirmed'[o] = confirmed[o]
  <2>1. status[o] \in {"completed", "payout_failed"} /\ swap[o].state = "executed"
    BY <1>1, <1>2 DEF ConfirmedStaysCompleted, EventsAreTrue, Unblemished
  <2>2. ~MarkFailed(o)
    BY <1>1, <2>1 DEF MarkFailed, FailureIsKnown, Unblemished
  <2>. QED  BY <2>1, <2>2, LosesCompletion
<1>3. CASE confirmed'[o] # confirmed[o]
  BY <1>3, NewlyConfirmed
<1>. QED  BY <1>2, <1>3

\* A delivery moves only by its own steps, its start and crashes.
LEMMA DeliveryMoves ==
    ASSUME TypeOK, EventsAreTrue, [Next]_vars, NEW d \in Deliveries
    PROVE  \/ UNCHANGED <<delivery[d], batch[d]>>
           \/ DeliveryStep(d)
           \/ \E b \in Batches : Deliver(d, b)
           \/ delivery'[d] = "dead" /\ delivery[d] # "idle" /\ batch'[d] = batch[d]
<1>1. ASSUME NEW o \in Orders,
             \/ Create(o) \/ Remove(o)
             \/ \E s \in Written : Execute(o, s) \/ Update(o, s)
             \/ \E t \in SwapTypes : DirectSwap(o, t)
             \/ \E outcome \in {"executed", "reverted"} : Settle(o, outcome)
             \/ HandlerStep(o)
      PROVE  UNCHANGED <<delivery, batch>>
  BY <1>1
     DEF Create, Remove, Execute, Update, DirectSwap, Settle, HandlerStep, Check, Charge, Approve,
         SubmitRefused, SubmitAccepted, Wait, MarkProcessing, MarkFailed, deliveryVars
<1>2. ASSUME NEW e \in Deliveries, DeliveryStep(e), e # d
      PROVE  UNCHANGED <<delivery[d], batch[d]>>
  BY <1>2
     DEF TypeOK, DeliveryStep, FindOrder, RateUnavailable, CompleteOrder, RecordTransaction,
         PayoutFind, PayoutRefused, PayoutSent, MarkPayoutFailed, DeliveryGoes, NextEvent, Abort
<1>3. ASSUME NEW e \in Deliveries, NEW b \in Batches, Deliver(e, b), e # d
      PROVE  UNCHANGED <<delivery[d], batch[d]>>
  BY <1>3 DEF Deliver, TypeOK
<1>4. ASSUME Crash
      PROVE  \/ UNCHANGED <<delivery[d], batch[d]>>
             \/ delivery'[d] = "dead" /\ delivery[d] # "idle" /\ batch'[d] = batch[d]
  BY <1>4 DEF Crash, DeliveryBusy
<1>5. ASSUME UNCHANGED vars PROVE UNCHANGED <<delivery, batch>>
  BY <1>5 DEF vars
<1>. QED  BY <1>1, <1>2, <1>3, <1>4, <1>5 DEF Next

LEMMA ExceptGrows ==
    ASSUME NEW S, NEW f, DOMAIN f = S, NEW x, NEW v
    PROVE  \A y \in S : f[y] \subseteq [f EXCEPT ![x] = f[x] \cup {v}][y]
OBVIOUS

\* Confirmations and records are never taken back.
LEMMA LedgersGrow ==
    ASSUME TypeOK, EventsAreTrue, [Next]_vars
    PROVE  /\ \A o \in Orders : confirmed[o] \subseteq confirmed'[o]
           /\ recorded \subseteq recorded'
<1>1. ASSUME NEW o \in Orders,
             \/ Create(o) \/ Remove(o)
             \/ \E s \in Written : Execute(o, s) \/ Update(o, s)
             \/ \E t \in SwapTypes : DirectSwap(o, t)
             \/ \E outcome \in {"executed", "reverted"} : Settle(o, outcome)
             \/ HandlerStep(o)
      PROVE  UNCHANGED <<confirmed, recorded>>
  BY <1>1
     DEF Create, Remove, Execute, Update, DirectSwap, Settle, HandlerStep, Check, Charge, Approve,
         SubmitRefused, SubmitAccepted, Wait, MarkProcessing, MarkFailed, deliveryVars
<1>2. ASSUME NEW d \in Deliveries, DeliveryStep(d)
      PROVE  /\ confirmed' = confirmed \/ confirmed' = [confirmed EXCEPT ![Current(d)] = @ \cup {Instance(d)}]
             /\ recorded \subseteq recorded'
  BY <1>2
     DEF DeliveryStep, FindOrder, RateUnavailable, CompleteOrder, RecordTransaction,
         PayoutFind, PayoutRefused, PayoutSent, MarkPayoutFailed
<1>3. ASSUME Crash \/ (\E d \in Deliveries, b \in Batches : Deliver(d, b)) \/ UNCHANGED vars
      PROVE  UNCHANGED <<confirmed, recorded>>
  BY <1>3 DEF Crash, Deliver, vars
<1>4. ASSUME NEW d \in Deliveries, DeliveryStep(d), NEW o \in Orders
      PROVE  confirmed[o] \subseteq confirmed'[o]
  <2>1. DOMAIN confirmed = Orders
    BY DEF TypeOK
  <2>2. CASE confirmed' = confirmed
    BY <2>2
  <2>3. CASE confirmed' = [confirmed EXCEPT ![Current(d)] = @ \cup {Instance(d)}]
    BY <2>1, <2>3, ExceptGrows
  <2>. QED  BY <1>2, <1>4, <2>2, <2>3
<1>5. UNCHANGED <<confirmed, recorded>> \/ \E d \in Deliveries : DeliveryStep(d)
  BY <1>1, <1>3 DEF Next
<1>. QED  BY <1>2, <1>4, <1>5

\* Fiat moves only in PayoutSent, one transfer at a time.
LEMMA PayoutMoves ==
    ASSUME TypeOK, EventsAreTrue, [Next]_vars
    PROVE  \/ payouts' = payouts
           \/ \E d \in Deliveries :
                /\ PayoutSent(d) /\ Current(d) \in Orders
                /\ payouts' = [payouts EXCEPT ![Current(d)] = Append(@, Instance(d))]
<1>1. ASSUME payouts' # payouts PROVE \E d \in Deliveries : PayoutSent(d)
  BY <1>1
     DEF Next, Create, Remove, Execute, Update, DirectSwap, Settle, Crash, Deliver, HandlerStep,
         Check, Charge, Approve, SubmitRefused, SubmitAccepted, Wait, MarkProcessing, MarkFailed,
         DeliveryStep, FindOrder, RateUnavailable, CompleteOrder, RecordTransaction, PayoutFind,
         PayoutRefused, MarkPayoutFailed, deliveryVars, vars
<1>2. ASSUME NEW d \in Deliveries, PayoutSent(d)
      PROVE  /\ Current(d) \in Orders
             /\ payouts' = [payouts EXCEPT ![Current(d)] = Append(@, Instance(d))]
  BY <1>2, CurrentFacts DEF PayoutSent, DeliveryBusy
<1>. QED  BY <1>1, <1>2

\* A step of a delivery moves on to the next event, or stays with the current
\* one and goes where the order of the code's calls lets it.
LEMMA DeliveryStepKinds ==
    ASSUME TypeOK, EventsAreTrue, NEW d \in Deliveries, DeliveryStep(d)
    PROVE  \/ NextEvent(d)
           \/ /\ delivery[d] # "payFail"
              /\ batch' = batch /\ delivery'[d] \in DeliveryBusy \cup {"done"}
              /\ \/ delivery'[d] \in {"complete", "done"}
                 \/ delivery'[d] = "record" /\ Instance(d) \in confirmed'[Current(d)]
                 \/ /\ delivery[d] = "record" /\ delivery'[d] = "payFind"
                    /\ Current(d) \in recorded' /\ swap[Current(d)].type = "TOKENTOFIAT"
                 \/ delivery[d] \in {"payFind", "pay"} /\ delivery'[d] \in {"pay", "payFail"}
<1>1. delivery[d] \in DeliveryBusy
  BY DeliveryFrame
<1>2. Current(d) \in Orders
  BY <1>1, CurrentFacts
<1>. QED
  BY <1>2 DEF TypeOK, DeliveryStep, FindOrder, RateUnavailable, CompleteOrder, RecordTransaction,
              PayoutFind, PayoutRefused, PayoutSent, MarkPayoutFailed, Abort, DeliveryGoes,
              DeliveryBusy

\* Each delivery reaches the payout in the order of the code's calls.
LEMMA PayoutIsEarnedStep ==
    ASSUME TypeOK, EventsAreTrue, NotYetSubmitted, PayoutIsEarned, [Next]_vars
    PROVE  PayoutIsEarned'
<1>. SUFFICES ASSUME NEW d \in Deliveries,
                     delivery'[d] \in {"record", "payFind", "pay", "payFail"}
              PROVE  /\ Instance(d)' \in confirmed'[Current(d)']
                     /\ delivery'[d] # "record" =>
                          Current(d)' \in recorded' /\ swap'[Current(d)'].type = "TOKENTOFIAT"
  BY DEF PayoutIsEarned
<1>1. CASE UNCHANGED <<delivery[d], batch[d]>>
  <2>1. delivery[d] \in DeliveryBusy /\ Current(d)' = Current(d) /\ Instance(d)' = Instance(d)
    BY <1>1 DEF DeliveryBusy, Current, Instance
  <2>2. Current(d) \in Orders /\ swap[Current(d)].state = "executed"
    BY <2>1, CurrentFacts
  <2>3. swap'[Current(d)] = swap[Current(d)]
    BY <2>2, SettledStays
  <2>. QED  BY <1>1, <2>1, <2>2, <2>3, LedgersGrow DEF PayoutIsEarned
<1>2. CASE DeliveryStep(d)
  <2>1. delivery[d] \in DeliveryBusy /\ swap' = swap
    BY <1>2, DeliveryFrame
  <2>2. Current(d) \in Orders
    BY <2>1, CurrentFacts
  <2>3. ~NextEvent(d)
    BY <2>1, NextEventFacts
  <2>4. batch' = batch /\ Current(d)' = Current(d) /\ Instance(d)' = Instance(d)
    BY <1>2, <2>3, DeliveryStepKinds DEF Current, Instance
  <2>5. \/ delivery'[d] = "record" /\ Instance(d) \in confirmed'[Current(d)]
        \/ /\ delivery[d] = "record" /\ delivery'[d] = "payFind"
           /\ Current(d) \in recorded' /\ swap[Current(d)].type = "TOKENTOFIAT"
        \/ delivery[d] \in {"payFind", "pay"} /\ delivery'[d] \in {"pay", "payFail"}
    BY <1>2, <2>3, DeliveryStepKinds
  <2>. QED  BY <2>1, <2>2, <2>4, <2>5, LedgersGrow DEF PayoutIsEarned
<1>3. CASE \E b \in Batches : Deliver(d, b)
  BY <1>3 DEF Deliver, TypeOK
<1>. QED  BY <1>1, <1>2, <1>3, DeliveryMoves

\* Once spent, an event is behind its delivery.
LEMMA SpentStep ==
    ASSUME TypeOK, EventsAreTrue, [Next]_vars,
           NEW d \in Deliveries, NEW n \in 1..MaxBatch, Spent(n, delivery[d], Len(batch[d]))
    PROVE  Spent(n, delivery'[d], Len(batch'[d]))
<1>1. CASE UNCHANGED <<delivery[d], batch[d]>>
  BY <1>1 DEF Spent
<1>2. CASE DeliveryStep(d)
  <2>1. delivery[d] \in DeliveryBusy
    BY <1>2, DeliveryFrame
  <2>2. Len(batch[d]) \in 1..MaxBatch
    BY <2>1, CurrentFacts
  <2>3. n >= Len(batch[d]) /\ (delivery[d] # "payFail" => n > Len(batch[d]))
    BY <2>1, <2>2, SwapAssumption DEF Spent, SwapAssumption
  <2>4. CASE NextEvent(d)
    <3>1. delivery'[d] \in {"find", "done"} /\ Len(batch'[d]) = Len(batch[d]) - 1
      BY <2>1, <2>4, NextEventFacts
    <3>. QED  BY <2>2, <2>3, <3>1 DEF Spent
  <2>5. CASE ~NextEvent(d)
    <3>1. /\ delivery[d] # "payFail" /\ batch' = batch
          /\ delivery'[d] \in DeliveryBusy \cup {"done"}
      BY <1>2, <2>5, DeliveryStepKinds
    <3>. QED  BY <2>2, <2>3, <3>1 DEF Spent, DeliveryBusy
  <2>. QED  BY <2>4, <2>5
<1>3. ~ \E b \in Batches : Deliver(d, b)
  BY DEF Deliver, Spent
<1>4. CASE delivery'[d] = "dead"
  BY <1>4 DEF Spent, DeliveryBusy
<1>. QED  BY <1>1, <1>2, <1>3, <1>4, DeliveryMoves

\* A transfer is new to its order, or it was there before.
LEMMA TransferCases ==
    ASSUME TypeOK, EventsAreTrue, [Next]_vars,
           NEW o \in Orders, NEW k \in 1..Len(payouts'[o])
    PROVE  \/ k \in 1..Len(payouts[o]) /\ payouts'[o][k] = payouts[o][k]
           \/ \E d \in Deliveries : /\ PayoutSent(d) /\ o = Current(d)
                                    /\ k = Len(payouts[o]) + 1 /\ payouts'[o][k] = Instance(d)
<1>1. payouts[o] \in Seq(Instances)
  BY DEF TypeOK
<1>2. CASE payouts'[o] = payouts[o]
  BY <1>1, <1>2
<1>3. CASE payouts'[o] # payouts[o]
  <2>1. PICK d \in Deliveries :
             /\ PayoutSent(d) /\ Current(d) \in Orders
             /\ payouts' = [payouts EXCEPT ![Current(d)] = Append(@, Instance(d))]
    BY <1>3, PayoutMoves
  <2>2. o = Current(d) /\ payouts'[o] = Append(payouts[o], Instance(d))
    BY <1>3, <2>1 DEF TypeOK
  <2>. QED  BY <1>1, <2>1, <2>2
<1>. QED  BY <1>2, <1>3

\* A transfer spends the event its delivery works on, and the delivery moves on.
LEMMA EventsUnspentStep ==
    ASSUME TypeOK, EventsAreTrue, EventsUnspent, [Next]_vars
    PROVE  EventsUnspent'
<1>. SUFFICES ASSUME NEW o \in Orders, NEW k \in 1..Len(payouts'[o])
              PROVE  Spent(payouts'[o][k][2], delivery'[payouts'[o][k][1]],
                           Len(batch'[payouts'[o][k][1]]))
  BY DEF EventsUnspent
<1>1. CASE k \in 1..Len(payouts[o]) /\ payouts'[o][k] = payouts[o][k]
  <2>1. payouts[o][k] \in Instances
    BY <1>1 DEF TypeOK
  <2>2. payouts[o][k][1] \in Deliveries /\ payouts[o][k][2] \in 1..MaxBatch
    BY <2>1 DEF Instances
  <2>3. Spent(payouts[o][k][2], delivery[payouts[o][k][1]], Len(batch[payouts[o][k][1]]))
    BY <1>1 DEF EventsUnspent
  <2>. QED  BY <1>1, <2>2, <2>3, SpentStep
<1>2. ASSUME NEW d \in Deliveries, PayoutSent(d), payouts'[o][k] = Instance(d)
      PROVE  Spent(payouts'[o][k][2], delivery'[payouts'[o][k][1]],
                   Len(batch'[payouts'[o][k][1]]))
  <2>1. delivery[d] = "pay" /\ (NextEvent(d) \/ DeliveryGoes(d, "payFail"))
    BY <1>2 DEF PayoutSent
  <2>2. payouts'[o][k][1] = d /\ payouts'[o][k][2] = Len(batch[d])
    BY <1>2 DEF Instance
  <2>3. Len(batch[d]) \in 1..MaxBatch
    BY <2>1, CurrentFacts DEF DeliveryBusy
  <2>4. CASE NextEvent(d)
    <3>1. delivery'[d] \in {"find", "done"} /\ Len(batch'[d]) = Len(batch[d]) - 1
      BY <2>1, <2>4, NextEventFacts DEF DeliveryBusy
    <3>. QED  BY <2>2, <2>3, <3>1 DEF Spent
  <2>5. CASE DeliveryGoes(d, "payFail")
    BY <2>2, <2>3, <2>5 DEF DeliveryGoes, Spent, TypeOK
  <2>. QED  BY <2>1, <2>4, <2>5
<1>. QED  BY <1>1, <1>2, TransferCases

\* Each new transfer is covered and uses an event no other transfer uses.
LEMMA PayoutsAreCoveredStep ==
    ASSUME TypeOK, EventsAreTrue, NotYetSubmitted, PayoutIsEarned, EventsUnspent,
           PayoutsAreCovered, [Next]_vars
    PROVE  PayoutsAreCovered'
<1>1. ASSUME NEW o \in Orders, NEW k \in 1..Len(payouts'[o])
      PROVE  /\ payouts'[o][k] \in confirmed'[o]
             /\ o \in recorded'
             /\ swap'[o] = [state |-> "executed", type |-> "TOKENTOFIAT"]
  <2>1. CASE k \in 1..Len(payouts[o]) /\ payouts'[o][k] = payouts[o][k]
    <3>1. /\ payouts[o][k] \in confirmed[o] /\ o \in recorded
          /\ swap[o] = [state |-> "executed", type |-> "TOKENTOFIAT"]
      BY <2>1 DEF PayoutsAreCovered
    <3>. QED  BY <2>1, <3>1, LedgersGrow, SettledStays
  <2>2. ASSUME NEW d \in Deliveries, PayoutSent(d), o = Current(d), payouts'[o][k] = Instance(d)
        PROVE  /\ payouts'[o][k] \in confirmed'[o]
               /\ o \in recorded'
               /\ swap'[o] = [state |-> "executed", type |-> "TOKENTOFIAT"]
    <3>1. delivery[d] = "pay"
      BY <2>2 DEF PayoutSent
    <3>2. swap[o].state = "executed"
      BY <2>2, <3>1, CurrentFacts DEF DeliveryBusy
    <3>3. Instance(d) \in confirmed[o] /\ o \in recorded /\ swap[o].type = "TOKENTOFIAT"
      BY <2>2, <3>1 DEF PayoutIsEarned
    <3>4. swap[o] = [state |-> "executed", type |-> "TOKENTOFIAT"]
      BY <3>2, <3>3 DEF TypeOK, Swaps
    <3>. QED  BY <2>2, <3>2, <3>3, <3>4, LedgersGrow, SettledStays
  <2>. QED  BY <2>1, <2>2, TransferCases
<1>2. ASSUME NEW o \in Orders, NEW k \in 1..Len(payouts'[o]), NEW j \in 1..Len(payouts'[o]),
             payouts'[o][j] = payouts'[o][k]
      PROVE  j = k
  <2>1. ASSUME NEW i \in 1..Len(payouts[o]), NEW d \in Deliveries, PayoutSent(d)
        PROVE  payouts[o][i] # Instance(d)
    <3>1. delivery[d] = "pay"
      BY <2>1 DEF PayoutSent
    <3>2. Spent(payouts[o][i][2], delivery[payouts[o][i][1]], Len(batch[payouts[o][i][1]]))
      BY DEF EventsUnspent
    <3>3. Len(batch[d]) \in 1..MaxBatch
      BY <3>1, CurrentFacts DEF DeliveryBusy
    <3>. QED  BY <3>1, <3>2, <3>3 DEF Spent, Instance, DeliveryBusy
  <2>2. CASE j \in 1..Len(payouts[o]) /\ k \in 1..Len(payouts[o])
             /\ payouts'[o][j] = payouts[o][j] /\ payouts'[o][k] = payouts[o][k]
    BY <1>2, <2>2 DEF PayoutsAreCovered
  <2>. QED  BY <1>2, <2>1, <2>2, TransferCases
<1>. QED  BY <1>1, <1>2 DEF PayoutsAreCovered

-----------------------------------------------------------------------------
(***************************************************************************)
(* Theorems.                                                               *)
(***************************************************************************)

\* The invariant holds of the empty database.
LEMMA InitInv == Init => IInv
<1>. SUFFICES ASSUME Init PROVE IInv
  OBVIOUS
<1>1. TypeOK
  BY SwapAssumption
     DEF Init, TypeOK, Swaps, NoSwap, SwapAssumption
<1>. QED
  BY <1>1
     DEF Init, IInv, NotYetSubmitted, FailureIsKnown, FailedWasNotExecuted, CompletedWasExecuted,
         EventsAreTrue, ConfirmedStaysCompleted, PayoutIsEarned, EventsUnspent,
         PayoutsAreCovered, Unblemished, DeliveryBusy, NoSwap

\* The invariant is inductive.
LEMMA StepInv == IInv /\ [Next]_vars => IInv'
BY TypeStep, NotYetSubmittedStep, FailureIsKnownStep, FailedWasNotExecutedStep,
   CompletedWasExecutedStep, EventsAreTrueStep, ConfirmedStaysCompletedStep, PayoutIsEarnedStep,
   EventsUnspentStep, PayoutsAreCoveredStep
   DEF IInv

\* The invariant the other theorems are read off from.
THEOREM Invariance == Spec => []IInv
BY InitInv, StepInv, PTL DEF Spec

\* Every variable keeps its type.
THEOREM TypeCorrectness == Spec => []TypeOK
BY Invariance, PTL DEF IInv

\* Only executed swaps complete orders, whatever handlers, deliveries and crashes
\* interleave.
THEOREM CompletionIsTrue == Spec => []CompletedWasExecuted
BY Invariance, PTL DEF IInv

\* The catch block of executeSwap never calls an executed swap failed, unless an
\* answer was lost.
THEOREM FailureIsTrue == Spec => []FailedWasNotExecuted
BY Invariance, PTL DEF IInv

\* Nothing takes a completion away but the writes named in the mishaps.
THEOREM CompletionStays == Spec => []ConfirmedStaysCompleted
BY Invariance, PTL DEF IInv

\* Each transfer of fiat has an event of its own that completed the order, a
\* Transaction row and an executed token-to-fiat swap.
THEOREM PayoutsCovered == Spec => []PayoutsAreCovered
BY Invariance, PTL DEF IInv

\* No event, however late, reopens an order that failed for good.
THEOREM FailureFinal == Spec => FailureIsFinal
<1>1. ASSUME IInv, [Next]_vars
      PROVE  [\A o \in Orders : status[o] = "failed" /\ status'[o] # "failed"
                => mishaps'[o] \cap {"edited", "unsure"} # {}]_vars
  <2>. SUFFICES ASSUME NEW o \in Orders, status[o] = "failed", status'[o] # "failed",
                       "edited" \notin mishaps'[o], "unsure" \notin mishaps'[o]
                PROVE  FALSE
    OBVIOUS
  <2>. USE <1>1 DEF IInv
  <2>1. "edited" \notin mishaps[o] /\ "unsure" \notin mishaps[o]
    BY MishapsGrow
  <2>2. handler[o] = "done" /\ swap[o].state \in {"none", "reverted"}
    BY <2>1 DEF FailureIsKnown, FailedWasNotExecuted, Unblemished
  <2>3. ASSUME NEW d \in Deliveries, DeliveryStep(d) PROVE FALSE
    <3>1. o = Current(d) /\ swap[Current(d)].state = "executed"
      BY <2>3, DeliveryFrame, CurrentFacts
    <3>. QED  BY <2>2, <3>1
  <2>4. ASSUME NEW p \in Orders, Remove(p) \/ \E s \in Written : Update(p, s) PROVE FALSE
    <3>1. p = o /\ Note(o, "edited")
      BY <2>4 DEF Remove, Update, TypeOK
    <3>. QED  BY <3>1, NoteFacts, MishapNames
  <2>5. ASSUME NEW p \in Orders,
               \/ Create(p) \/ HandlerStep(p)
               \/ \E s \in Written : Execute(p, s)
               \/ \E t \in SwapTypes : DirectSwap(p, t)
               \/ \E outcome \in {"executed", "reverted"} : Settle(p, outcome)
        PROVE  FALSE
    BY <2>2, <2>5
       DEF TypeOK, Create, Execute, DirectSwap, Settle, HandlerStep, Check, Charge, Approve,
           SubmitRefused, SubmitAccepted, Wait, MarkProcessing, MarkFailed
  <2>6. ASSUME Crash \/ (\E d \in Deliveries, b \in Batches : Deliver(d, b)) \/ UNCHANGED vars
        PROVE  FALSE
    BY <2>6 DEF Crash, Deliver, vars
  <2>. QED  BY <2>3, <2>4, <2>5, <2>6 DEF Next
<1>. QED  BY <1>1, Invariance, PTL DEF Spec, FailureIsFinal

\* A fiat-to-token handler that is past the charge has charged.
HandlerCharged ==
    \A o \in Orders :
      SwapTypeOf[o] = "FIATTOTOKEN" /\ handler[o] \in {"approve", "submit", "wait", "mark"}
        => o \in charged

\* Only Charge leads a fiat-to-token handler to the contract, and a charge stays.
LEMMA ChargeStep ==
    ASSUME IInv, HandlerCharged, ChargedBeforeTokens, [Next]_vars
    PROVE  HandlerCharged' /\ ChargedBeforeTokens'
<1>. USE DEF HandlerCharged, ChargedBeforeTokens, TypeOK, IInv, handlerVars, deliveryVars, limits
<1>1. ASSUME NEW p \in Orders, Create(p) \/ Remove(p) \/ \E s \in Written : Update(p, s)
      PROVE  HandlerCharged' /\ ChargedBeforeTokens'
  BY <1>1 DEF Create, Remove, Update
<1>2. ASSUME NEW p \in Orders, NEW s \in Written, Execute(p, s)
      PROVE  HandlerCharged' /\ ChargedBeforeTokens'
  <2>1. swap[p].type # "FIATTOTOKEN"
    BY <1>2 DEF Execute, NotYetSubmitted, NoSwap
  <2>. QED  BY <1>2, <2>1 DEF Execute, HandlerGoes
<1>3. ASSUME NEW p \in Orders, NEW t \in SwapTypes, DirectSwap(p, t)
      PROVE  HandlerCharged' /\ ChargedBeforeTokens'
  BY <1>3 DEF DirectSwap
<1>4. ASSUME NEW p \in Orders, NEW outcome \in {"executed", "reverted"}, Settle(p, outcome)
      PROVE  HandlerCharged' /\ ChargedBeforeTokens'
  BY <1>4 DEF Settle, Swaps
<1>5. ASSUME NEW p \in Orders, HandlerStep(p) PROVE HandlerCharged' /\ ChargedBeforeTokens'
  <2>1. CASE Check(p)
    BY <2>1 DEF Check, HandlerGoes
  <2>2. CASE Charge(p)
    BY <2>2 DEF Charge, HandlerGoes
  <2>3. CASE Approve(p) \/ SubmitRefused(p)
    BY <2>3 DEF Approve, SubmitRefused, HandlerGoes
  <2>4. CASE SubmitAccepted(p)
    BY <2>4 DEF SubmitAccepted, HandlerGoes
  <2>5. CASE Wait(p)
    BY <2>5 DEF Wait, HandlerGoes
  <2>6. CASE MarkProcessing(p) \/ MarkFailed(p)
    BY <2>6 DEF MarkProcessing, MarkFailed, HandlerGoes
  <2>. QED  BY <1>5, <2>1, <2>2, <2>3, <2>4, <2>5, <2>6 DEF HandlerStep
<1>6. ASSUME NEW d \in Deliveries, DeliveryStep(d) PROVE HandlerCharged' /\ ChargedBeforeTokens'
  BY <1>6, DeliveryFrame
<1>7. ASSUME Crash \/ (\E d \in Deliveries, b \in Batches : Deliver(d, b)) \/ UNCHANGED vars
      PROVE  HandlerCharged' /\ ChargedBeforeTokens'
  <2>1. CASE Crash
    BY <2>1 DEF Crash, HandlerBusy
  <2>2. CASE \E d \in Deliveries, b \in Batches : Deliver(d, b)
    BY <2>2 DEF Deliver
  <2>3. CASE UNCHANGED vars
    BY <2>3 DEF vars
  <2>. QED  BY <1>7, <2>1, <2>2, <2>3
<1>. QED  BY <1>1, <1>2, <1>3, <1>4, <1>5, <1>6, <1>7 DEF Next

\* executeSwap asks the contract for no tokens before the fiat was charged.
THEOREM ChargeComesFirst == Spec => []ChargedBeforeTokens
<1>1. Init => HandlerCharged /\ ChargedBeforeTokens
  BY DEF Init, HandlerCharged, ChargedBeforeTokens, NoSwap
<1>. QED  BY <1>1, Invariance, ChargeStep, PTL DEF Spec

-----------------------------------------------------------------------------
(***************************************************************************)
(* What the liveness properties rest on besides fairness: the work that a  *)
(* handler and a delivery have left.                                       *)
(***************************************************************************)

\* The steps a handler may yet take: one call after the other, the catch block
\* included, and none when it has returned.
HandlerLeft(o) ==
    CASE handler[o] = "idle"    -> 7
      [] handler[o] = "check"   -> 6
      [] handler[o] = "charge"  -> 5
      [] handler[o] = "approve" -> 5
      [] handler[o] = "submit"  -> 4
      [] handler[o] = "wait"    -> 3
      [] handler[o] = "mark"    -> 2
      [] handler[o] = "fail"    -> 1
      [] OTHER                  -> 0

\* The steps the current event of a delivery may yet take.
EventLeft(d) ==
    CASE delivery[d] = "find"     -> 6
      [] delivery[d] = "complete" -> 5
      [] delivery[d] = "record"   -> 4
      [] delivery[d] = "payFind"  -> 3
      [] delivery[d] = "pay"      -> 2
      [] OTHER                    -> 1

\* Those of the whole delivery: six for each event that waits behind the current one.
DeliveryLeft(d) ==
    IF delivery[d] = "idle" THEN 6 * MaxBatch + 1
    ELSE IF delivery[d] \in DeliveryBusy THEN 6 * (Len(batch[d]) - 1) + EventLeft(d)
    ELSE 0

\* Each step of a handler or a delivery leaves it less to do, and no step of
\* another, of a client, of the chain or of the indexer leaves it more.
WorkRunsDown ==
    [][/\ \A o \in Orders :
            /\ HandlerLeft(o)' <= HandlerLeft(o)
            /\ handler'[o] # handler[o] \/ HandlerStep(o) => HandlerLeft(o)' < HandlerLeft(o)
       /\ \A d \in Deliveries :
            /\ DeliveryLeft(d)' <= DeliveryLeft(d)
            /\ delivery'[d] # delivery[d] \/ batch'[d] # batch[d] \/ DeliveryStep(d)
                 => DeliveryLeft(d)' < DeliveryLeft(d)]_vars

\* A handler that has returned has taken its order out of pending, unless the
\* database failed it or a client put the order back.
ReturnedNotPending ==
    ~DbFaults =>
      \A o \in Orders :
        handler[o] = "done" /\ Unblemished(o, {"edited"}) => status[o] # "pending"

\* A handler's steps lead from call to call.
LEMMA HandlerStepMoves ==
    ASSUME TypeOK, NEW o \in Orders, HandlerStep(o)
    PROVE  \/ handler[o] = "check"   /\ handler'[o] \in {"charge", "approve", "fail"}
           \/ handler[o] = "charge"  /\ handler'[o] = "submit"
           \/ handler[o] = "approve" /\ handler'[o] \in {"submit", "fail"}
           \/ handler[o] = "submit"  /\ handler'[o] \in {"wait", "mark", "fail"}
           \/ handler[o] = "wait"    /\ handler'[o] \in {"mark", "fail"}
           \/ handler[o] = "mark"    /\ handler'[o] \in {"fail", "done"}
           \/ handler[o] = "fail"    /\ handler'[o] = "done"
<1>1. handler \in [Orders -> HandlerBusy \cup {"idle", "done", "dead"}]
  BY DEF TypeOK
<1>2. CASE Check(o) \/ Charge(o) \/ Approve(o)
  BY <1>1, <1>2 DEF Check, Charge, Approve, HandlerGoes
<1>3. CASE SubmitRefused(o) \/ SubmitAccepted(o)
  BY <1>1, <1>3 DEF SubmitRefused, SubmitAccepted, HandlerGoes
<1>4. CASE Wait(o)
  BY <1>1, <1>4 DEF Wait, HandlerGoes
<1>5. CASE MarkProcessing(o) \/ MarkFailed(o)
  BY <1>1, <1>5 DEF MarkProcessing, MarkFailed, HandlerGoes
<1>. QED  BY <1>2, <1>3, <1>4, <1>5 DEF HandlerStep

\* Besides, a request starts a handler and a restart ends it.
LEMMA HandlerMoves ==
    ASSUME IInv, [Next]_vars, NEW o \in Orders
    PROVE  \/ handler'[o] = handler[o]
           \/ HandlerStep(o)
           \/ handler[o] = "idle" /\ handler'[o] = "check"
           \/ Crash /\ handler[o] \in HandlerBusy /\ handler'[o] = "dead"
<1>1. handler \in [Orders -> HandlerBusy \cup {"idle", "done", "dead"}]
  BY DEF IInv, TypeOK
<1>2. CASE Crash
  BY <1>1, <1>2 DEF Crash
<1>3. ASSUME NEW p \in Orders, NEW s \in Written, Execute(p, s)
      PROVE  handler'[o] = handler[o] \/ (handler[o] = "idle" /\ handler'[o] = "check")
  BY <1>1, <1>3 DEF Execute, HandlerGoes, IInv, NotYetSubmitted
<1>4. ASSUME NEW p \in Orders, HandlerStep(p) PROVE handler'[o] = handler[o] \/ HandlerStep(o)
  BY <1>1, <1>4
     DEF HandlerStep, Check, Charge, Approve, SubmitRefused, SubmitAccepted, Wait,
         MarkProcessing, MarkFailed, HandlerGoes
<1>5. ASSUME NEW p \in Orders,
             \/ Create(p) \/ Remove(p)
             \/ \E s \in Written : Update(p, s)
             \/ \E t \in SwapTypes : DirectSwap(p, t)
             \/ \E outcome \in {"executed", "reverted"} : Settle(p, outcome)
      PROVE  handler' = handler
  BY <1>5 DEF Create, Remove, Update, DirectSwap, Settle, handlerVars
<1>6. ASSUME NEW d \in Deliveries, DeliveryStep(d) \/ \E b \in Batches : Deliver(d, b)
      PROVE  handler' = handler
  BY <1>6, DeliveryFrame DEF IInv, Deliver, handlerVars
<1>7. CASE UNCHANGED vars
  BY <1>7 DEF vars
<1>. QED  BY <1>2, <1>3, <1>4, <1>5, <1>6, <1>7 DEF Next

\* So a handler that moves has less left.
LEMMA HandlerRunsDown ==
    ASSUME IInv, [Next]_vars, NEW o \in Orders
    PROVE  /\ HandlerLeft(o)' <= HandlerLeft(o)
           /\ handler'[o] # handler[o] \/ HandlerStep(o) => HandlerLeft(o)' < HandlerLeft(o)
<1>1. CASE HandlerStep(o)
  <2>1. TypeOK
    BY DEF IInv
  <2>. QED  BY <1>1, <2>1, HandlerStepMoves DEF HandlerLeft
<1>2. CASE handler[o] = "idle" /\ handler'[o] = "check"
  BY <1>2 DEF HandlerLeft
<1>3. CASE handler[o] \in HandlerBusy /\ handler'[o] = "dead"
  BY <1>3 DEF HandlerLeft, HandlerBusy
<1>4. CASE handler'[o] = handler[o] /\ ~HandlerStep(o)
  BY <1>4 DEF HandlerLeft
<1>. QED  BY <1>1, <1>2, <1>3, <1>4, HandlerMoves

\* A delivery's steps lead through the current event, to the next one or to the end.
LEMMA DeliveryStepMoves ==
    ASSUME TypeOK, EventsAreTrue, NEW d \in Deliveries, DeliveryStep(d)
    PROVE  /\ delivery[d] \in DeliveryBusy
           /\ \/ delivery'[d] = "done"
              \/ delivery'[d] = "find" /\ Len(batch'[d]) = Len(batch[d]) - 1
              \/ /\ batch'[d] = batch[d]
                 /\ \/ delivery[d] = "find"     /\ delivery'[d] = "complete"
                    \/ delivery[d] = "complete" /\ delivery'[d] = "record"
                    \/ delivery[d] = "record"   /\ delivery'[d] = "payFind"
                    \/ delivery[d] = "payFind"  /\ delivery'[d] = "pay"
                    \/ delivery[d] = "pay"      /\ delivery'[d] = "payFail"
<1>1. delivery[d] \in DeliveryBusy
  BY DeliveryFrame
<1>2. \/ NextEvent(d)
      \/ DeliveryGoes(d, "done")
      \/ delivery[d] = "find"     /\ DeliveryGoes(d, "complete")
      \/ delivery[d] = "complete" /\ DeliveryGoes(d, "record")
      \/ delivery[d] = "record"   /\ DeliveryGoes(d, "payFind")
      \/ delivery[d] = "payFind"  /\ DeliveryGoes(d, "pay")
      \/ delivery[d] = "pay"      /\ DeliveryGoes(d, "payFail")
  BY DEF DeliveryStep, FindOrder, RateUnavailable, CompleteOrder, RecordTransaction, PayoutFind,
         PayoutRefused, PayoutSent, MarkPayoutFailed, Abort
<1>3. CASE NextEvent(d)
  BY <1>1, <1>3, NextEventFacts
<1>4. CASE ~NextEvent(d)
  BY <1>1, <1>2, <1>4 DEF DeliveryGoes, TypeOK
<1>. QED  BY <1>1, <1>3, <1>4

\* Besides, the indexer's call starts a delivery and a restart ends it.
LEMMA DeliveryMovesOn ==
    ASSUME IInv, [Next]_vars, NEW d \in Deliveries
    PROVE  \/ delivery'[d] = delivery[d] /\ batch'[d] = batch[d]
           \/ DeliveryStep(d)
           \/ /\ delivery[d] = "idle" /\ delivery'[d] = "find"
              /\ Len(batch'[d]) \in 1..MaxBatch
           \/ delivery[d] \in DeliveryBusy /\ delivery'[d] = "dead"
<1>1. /\ delivery \in [Deliveries -> DeliveryBusy \cup {"idle", "done", "dead"}]
      /\ batch \in [Deliveries -> Seq(Orders)]
  BY DEF IInv, TypeOK
<1>2. CASE Crash
  BY <1>1, <1>2 DEF Crash
<1>3. ASSUME NEW e \in Deliveries, NEW b \in Batches, Deliver(e, b)
      PROVE  \/ delivery'[d] = delivery[d] /\ batch'[d] = batch[d]
             \/ /\ delivery[d] = "idle" /\ delivery'[d] = "find"
                /\ Len(batch'[d]) \in 1..MaxBatch
  <2>1. Len(b) \in 1..MaxBatch
    BY BatchFacts
  <2>. QED  BY <1>1, <1>3, <2>1 DEF Deliver
<1>4. ASSUME NEW e \in Deliveries, DeliveryStep(e)
      PROVE  (delivery'[d] = delivery[d] /\ batch'[d] = batch[d]) \/ DeliveryStep(d)
  <2>1. CASE e = d
    BY <1>4, <2>1
  <2>2. CASE e # d
    BY <1>1, <1>4, <2>2
       DEF DeliveryStep, FindOrder, RateUnavailable, CompleteOrder, RecordTransaction, PayoutFind,
           PayoutRefused, PayoutSent, MarkPayoutFailed, Abort, DeliveryGoes, NextEvent
  <2>. QED  BY <2>1, <2>2
<1>5. ASSUME NEW p \in Orders,
             \/ Create(p) \/ Remove(p) \/ HandlerStep(p)
             \/ \E s \in Written : Execute(p, s) \/ Update(p, s)
             \/ \E t \in SwapTypes : DirectSwap(p, t)
             \/ \E outcome \in {"executed", "reverted"} : Settle(p, outcome)
      PROVE  delivery' = delivery /\ batch' = batch
  BY <1>5
     DEF Create, Remove, Execute, Update, DirectSwap, Settle, HandlerStep, Check, Charge, Approve,
         SubmitRefused, SubmitAccepted, Wait, MarkProcessing, MarkFailed, deliveryVars
<1>6. CASE UNCHANGED vars
  BY <1>6 DEF vars
<1>. QED  BY <1>2, <1>3, <1>4, <1>5, <1>6 DEF Next

LEMMA DeliveryCounts ==
    ASSUME IInv, NEW d \in Deliveries
    PROVE  DeliveryLeft(d) \in Int
<1>1. delivery[d] \in DeliveryBusy => Len(batch[d]) \in 1..MaxBatch
  BY CurrentFacts DEF IInv
<1>2. EventLeft(d) \in 1..6
  BY DEF EventLeft
<1>. QED  BY <1>1, <1>2, SwapAssumption DEF DeliveryLeft, SwapAssumption

\* So a delivery that moves has less left, however many events its batch has.
LEMMA DeliveryRunsDown ==
    ASSUME IInv, [Next]_vars, NEW d \in Deliveries
    PROVE  /\ DeliveryLeft(d)' <= DeliveryLeft(d)
           /\ delivery'[d] # delivery[d] \/ batch'[d] # batch[d] \/ DeliveryStep(d)
                => DeliveryLeft(d)' < DeliveryLeft(d)
<1>1. /\ TypeOK /\ EventsAreTrue
      /\ delivery[d] \in DeliveryBusy => Len(batch[d]) \in 1..MaxBatch
      /\ MaxBatch \in Nat \ {0}
  BY CurrentFacts, SwapAssumption DEF IInv, SwapAssumption
<1>2. EventLeft(d) \in 1..6 /\ EventLeft(d)' \in 1..6
  BY DEF EventLeft
<1>3. CASE DeliveryStep(d)
  <2>1. delivery[d] \in DeliveryBusy /\ DeliveryLeft(d) = 6 * (Len(batch[d]) - 1) + EventLeft(d)
    BY <1>1, <1>3, DeliveryStepMoves DEF DeliveryLeft, DeliveryBusy
  <2>2. Len(batch[d]) \in Nat \ {0} /\ DeliveryLeft(d) \in Nat \ {0}
    <3>1. Len(batch[d]) \in Nat \ {0}
      BY <1>1, <2>1
    <3>. QED  BY <1>2, <2>1, <3>1
  <2>3. CASE delivery'[d] = "done"
    <3>1. DeliveryLeft(d)' = 0
      BY <2>3 DEF DeliveryLeft, DeliveryBusy
    <3>. QED  BY <2>2, <3>1
  <2>4. CASE delivery'[d] = "find" /\ Len(batch'[d]) = Len(batch[d]) - 1
    <3>1. DeliveryLeft(d)' = 6 * (Len(batch'[d]) - 1) + 6
      BY <2>4 DEF DeliveryLeft, EventLeft, DeliveryBusy
    <3>. QED  BY <1>2, <2>1, <2>2, <2>4, <3>1
  <2>5. CASE /\ batch'[d] = batch[d]
             /\ \/ delivery[d] = "find"     /\ delivery'[d] = "complete"
                \/ delivery[d] = "complete" /\ delivery'[d] = "record"
                \/ delivery[d] = "record"   /\ delivery'[d] = "payFind"
                \/ delivery[d] = "payFind"  /\ delivery'[d] = "pay"
                \/ delivery[d] = "pay"      /\ delivery'[d] = "payFail"
    <3>1. EventLeft(d)' < EventLeft(d)
      BY <2>5 DEF EventLeft
    <3>2. DeliveryLeft(d)' = 6 * (Len(batch[d]) - 1) + EventLeft(d)'
      BY <2>5 DEF DeliveryLeft, DeliveryBusy
    <3>3. 6 * (Len(batch[d]) - 1) \in Int
      BY <2>2
    <3>. QED  BY <1>2, <2>1, <3>1, <3>2, <3>3
  <2>. QED  BY <1>1, <1>3, <2>3, <2>4, <2>5, DeliveryStepMoves, Zenon
<1>4. CASE delivery[d] = "idle" /\ delivery'[d] = "find" /\ Len(batch'[d]) \in 1..MaxBatch
  <2>1. /\ DeliveryLeft(d) = 6 * MaxBatch + 1
        /\ DeliveryLeft(d)' = 6 * (Len(batch'[d]) - 1) + 6
    BY <1>4 DEF DeliveryLeft, EventLeft, DeliveryBusy
  <2>. QED  BY <1>1, <1>4, <2>1
<1>5. CASE delivery[d] \in DeliveryBusy /\ delivery'[d] = "dead"
  <2>1. DeliveryLeft(d) = 6 * (Len(batch[d]) - 1) + EventLeft(d) /\ DeliveryLeft(d)' = 0
    BY <1>5 DEF DeliveryLeft, DeliveryBusy
  <2>. QED  BY <1>1, <1>2, <1>5, <2>1
<1>6. CASE delivery'[d] = delivery[d] /\ batch'[d] = batch[d] /\ ~DeliveryStep(d)
  <2>1. DeliveryLeft(d)' = DeliveryLeft(d)
    BY <1>6 DEF DeliveryLeft, EventLeft
  <2>2. DeliveryLeft(d) \in Int
    BY <1>1, <1>2 DEF DeliveryLeft
  <2>. QED  BY <1>6, <2>1, <2>2
<1>. QED  BY <1>3, <1>4, <1>5, <1>6, DeliveryMovesOn

\* Handlers and deliveries come to an end: a handler within seven steps, a delivery
\* of any batch within six steps per event, whatever else happens in between.
THEOREM WorkEnds == Spec => WorkRunsDown
<1>1. ASSUME IInv, [Next]_vars
      PROVE  [/\ \A o \in Orders :
                   /\ HandlerLeft(o)' <= HandlerLeft(o)
                   /\ handler'[o] # handler[o] \/ HandlerStep(o)
                        => HandlerLeft(o)' < HandlerLeft(o)
              /\ \A d \in Deliveries :
                   /\ DeliveryLeft(d)' <= DeliveryLeft(d)
                   /\ delivery'[d] # delivery[d] \/ batch'[d] # batch[d] \/ DeliveryStep(d)
                        => DeliveryLeft(d)' < DeliveryLeft(d)]_vars
  BY <1>1, HandlerRunsDown, DeliveryRunsDown
<1>. QED  BY <1>1, Invariance, PTL DEF Spec, WorkRunsDown

\* Only a handler that ends closes its order, and only a client or a handler that
\* is yet to end opens one.
LEMMA ReturnedStep ==
    ASSUME IInv, ReturnedNotPending, [Next]_vars
    PROVE  ReturnedNotPending'
<1>. SUFFICES ASSUME ~DbFaults, NEW o \in Orders, handler'[o] = "done",
                     "edited" \notin mishaps'[o], status'[o] = "pending"
              PROVE  FALSE
  BY DEF ReturnedNotPending, Unblemished
<1>. USE DEF IInv
<1>1. "edited" \notin mishaps[o]
  BY MishapsGrow
<1>2. handler[o] = "done" => status[o] # "pending"
  BY <1>1 DEF ReturnedNotPending, Unblemished
<1>3. ASSUME NEW p \in Orders, Remove(p) \/ \E s \in Written : Update(p, s) PROVE FALSE
  <2>1. p = o => Note(o, "edited")
    BY <1>3 DEF Remove, Update
  <2>2. p # o => status'[o] = status[o]
    BY <1>3 DEF Remove, Update, TypeOK
  <2>3. handler' = handler
    BY <1>3 DEF Remove, Update, handlerVars
  <2>. QED  BY <1>2, <2>1, <2>2, <2>3, NoteFacts, MishapNames
<1>4. ASSUME NEW p \in Orders, Create(p) \/ \E s \in Written : Execute(p, s) PROVE FALSE
  <2>1. status[p] = "absent" /\ handler[p] = "idle"
    BY <1>4 DEF Create, Execute, NotYetSubmitted
  <2>2. p # o => status'[o] = status[o] /\ handler'[o] = handler[o]
    BY <1>4 DEF Create, Execute, HandlerGoes, handlerVars, TypeOK
  <2>3. handler'[p] # "done"
    BY <1>4, <2>1 DEF Create, Execute, HandlerGoes, handlerVars, TypeOK
  <2>. QED  BY <1>2, <2>2, <2>3
<1>5. ASSUME NEW p \in Orders, HandlerStep(p) PROVE FALSE
  <2>1. CASE p # o
    <3>1. handler'[o] = handler[o] /\ status'[o] = status[o]
      BY <1>5, <2>1
         DEF TypeOK, HandlerStep, Check, Charge, Approve, SubmitRefused, SubmitAccepted, Wait,
             MarkProcessing, MarkFailed, HandlerGoes
    <3>. QED  BY <1>2, <3>1
  <2>2. CASE p = o
    <3>1. handler[o] \in {"mark", "fail"}
      BY <1>5, <2>2, HandlerStepMoves
    <3>2. MarkProcessing(o) \/ MarkFailed(o)
      BY <1>5, <2>2, <3>1
         DEF HandlerStep, Check, Charge, Approve, SubmitRefused, SubmitAccepted, Wait
    <3>. QED  BY <3>2 DEF MarkProcessing, MarkFailed, HandlerGoes, TypeOK
  <2>. QED  BY <2>1, <2>2
<1>6. ASSUME NEW d \in Deliveries, DeliveryStep(d) PROVE FALSE
  BY <1>2, <1>6, DeliveryFrame
<1>7. ASSUME \/ Crash
             \/ \E d \in Deliveries, b \in Batches : Deliver(d, b)
             \/ \E p \in Orders : \E t \in SwapTypes : DirectSwap(p, t)
             \/ \E p \in Orders : \E outcome \in {"executed", "reverted"} : Settle(p, outcome)
             \/ UNCHANGED vars
      PROVE  FALSE
  BY <1>2, <1>7 DEF Crash, Deliver, DirectSwap, Settle, handlerVars, vars, TypeOK
<1>. QED  BY <1>3, <1>4, <1>5, <1>6, <1>7 DEF Next

\* An execution that returns has taken its order out of pending, as long as the
\* database answers, whichever call of it failed.
THEOREM ReturnLeavesPending == Spec => []ReturnedNotPending
<1>1. Init => ReturnedNotPending
  BY DEF Init, ReturnedNotPending
<1>. QED  BY <1>1, ReturnedStep, Invariance, PTL DEF Spec

-----------------------------------------------------------------------------
(***************************************************************************)
(* Progress under fairness, from the work that is left.  What is enabled   *)
(* is beyond the provers: that an action whose guard holds can be taken,   *)
(* which is plain from its form, is a hypothesis.                          *)
(***************************************************************************)

\* The guards of the steps of a handler, and of a delivery.
RowAnswers(o) == status[o] \in Present \/ status[o] = "removed" \/ DbFaults

HandlerReady(o) ==
    \/ handler[o] \in {"check", "charge", "approve", "submit", "wait"}
    \/ handler[o] \in {"mark", "fail"} /\ RowAnswers(o)

DeliveryReady(d) ==
    /\ batch[d] # <<>>
    /\ \/ delivery[d] \in {"find", "record", "payFind", "pay"}
       \/ delivery[d] \in {"complete", "payFail"} /\ RowAnswers(Current(d))

ReadyIsEnabled ==
    /\ \A o \in Orders : HandlerReady(o) => ENABLED <<HandlerStep(o)>>_vars
    /\ \A d \in Deliveries : DeliveryReady(d) => ENABLED <<DeliveryStep(d)>>_vars

\* Whatever a handler, or a delivery, has left to do, it will have less.
HandlerGoesOn(o, n)  == HandlerLeft(o) = n ~> HandlerLeft(o) < n
DeliveryGoesOn(d, n) == DeliveryLeft(d) = n ~> DeliveryLeft(d) < n

WorkLeft == 1..6

\* A handler at work is at a step whose guard holds: no answer, lost row or status
\* that another wrote leaves it stuck.
LEMMA HandlerIsReady ==
    ASSUME IInv, NEW o \in Orders, HandlerLeft(o) \in WorkLeft
    PROVE  HandlerReady(o)
<1>1. handler[o] \in HandlerBusy
  BY DEF HandlerLeft, HandlerBusy, WorkLeft, IInv, TypeOK
<1>2. status[o] # "absent"
  BY <1>1 DEF IInv, NotYetSubmitted, HandlerBusy
<1>3. RowAnswers(o)
  BY <1>2 DEF RowAnswers, Present, IInv, TypeOK
<1>. QED  BY <1>1, <1>3 DEF HandlerReady, HandlerBusy

\* So is a delivery.
LEMMA DeliveryIsReady ==
    ASSUME IInv, NEW d \in Deliveries, delivery[d] \in DeliveryBusy
    PROVE  DeliveryReady(d)
<1>1. batch[d] # <<>> /\ Current(d) \in Orders /\ swap[Current(d)].state = "executed"
  BY CurrentFacts DEF IInv
<1>2. status[Current(d)] # "absent"
  BY <1>1 DEF IInv, NotYetSubmitted, NoSwap
<1>3. RowAnswers(Current(d))
  BY <1>1, <1>2 DEF RowAnswers, Present, IInv, TypeOK
<1>. QED  BY <1>1, <1>3 DEF DeliveryReady, DeliveryBusy

\* A handler at work goes on.
LEMMA HandlerProgress ==
    ASSUME NEW o \in Orders, NEW n \in WorkLeft
    PROVE  Spec /\ HandlerRuns(o) /\ []ReadyIsEnabled => HandlerGoesOn(o, n)
<1>1. IInv /\ [Next]_vars /\ HandlerLeft(o) = n => (HandlerLeft(o) = n)' \/ (HandlerLeft(o) < n)'
  BY HandlerRunsDown DEF HandlerLeft, WorkLeft
<1>2. IInv /\ [Next]_vars /\ <<HandlerStep(o)>>_vars /\ HandlerLeft(o) = n => (HandlerLeft(o) < n)'
  BY HandlerRunsDown
<1>3. IInv /\ ReadyIsEnabled /\ HandlerLeft(o) = n => ENABLED <<HandlerStep(o)>>_vars
  <2>1. IInv /\ HandlerLeft(o) = n => HandlerReady(o)
    BY HandlerIsReady
  <2>. QED  BY <2>1 DEF ReadyIsEnabled
<1>. QED  BY <1>1, <1>2, <1>3, Invariance, PTL DEF Spec, HandlerRuns, HandlerGoesOn

\* Without restarts a handler ends only where it has taken its order out of pending,
\* or found it gone.
LEMMA HandlerEnds ==
    ASSUME IInv, [Next]_vars, ~DbFaults, MaxCrashes = 0,
           NEW o \in Orders, HandlerLeft(o) # 0, HandlerLeft(o)' = 0
    PROVE  status'[o] # "pending"
<1>1. ~Crash
  <2>1. crashes \in 0..MaxCrashes
    BY DEF IInv, TypeOK
  <2>. QED  BY <2>1 DEF Crash
<1>2. handler'[o] # handler[o] /\ handler'[o] # "check"
  BY DEF HandlerLeft
<1>3. HandlerStep(o)
  BY <1>1, <1>2, HandlerMoves
<1>4. handler[o] \in {"mark", "fail"}
  <2>1. TypeOK
    BY DEF IInv
  <2>2. handler'[o] \notin HandlerBusy
    BY DEF HandlerLeft, HandlerBusy
  <2>. QED  BY <1>3, <2>1, <2>2, HandlerStepMoves DEF HandlerBusy
<1>5. MarkProcessing(o) \/ MarkFailed(o)
  BY <1>3, <1>4 DEF HandlerStep, Check, Charge, Approve, SubmitRefused, SubmitAccepted, Wait
<1>6. handler'[o] # "fail"
  BY DEF HandlerLeft
<1>. QED  BY <1>5, <1>6 DEF MarkProcessing, MarkFailed, HandlerGoes, IInv, TypeOK

\* Six steps lead from the first check to the end.
LEMMA HandlerLeavesPending ==
    ASSUME ~DbFaults, MaxCrashes = 0, NEW o \in Orders
    PROVE  Spec /\ HandlerRuns(o) /\ []ReadyIsEnabled => LeavesPending(o)
<1>1. Spec /\ HandlerRuns(o) /\ []ReadyIsEnabled =>
        /\ HandlerGoesOn(o, 6) /\ HandlerGoesOn(o, 5) /\ HandlerGoesOn(o, 4)
        /\ HandlerGoesOn(o, 3) /\ HandlerGoesOn(o, 2) /\ HandlerGoesOn(o, 1)
  <2>1. 1 \in WorkLeft /\ 2 \in WorkLeft /\ 3 \in WorkLeft /\ 4 \in WorkLeft /\ 5 \in WorkLeft /\ 6 \in WorkLeft
    BY DEF WorkLeft
  <2>. QED  BY <2>1, HandlerProgress, Zenon
<1>2. handler[o] = "check" => HandlerLeft(o) = 6
  BY DEF HandlerLeft
<1>3. /\ HandlerLeft(o) < 6 => HandlerLeft(o) = 5 \/ HandlerLeft(o) < 5
      /\ HandlerLeft(o) < 5 => HandlerLeft(o) = 4 \/ HandlerLeft(o) < 4
      /\ HandlerLeft(o) < 4 => HandlerLeft(o) = 3 \/ HandlerLeft(o) < 3
      /\ HandlerLeft(o) < 3 => HandlerLeft(o) = 2 \/ HandlerLeft(o) < 2
      /\ HandlerLeft(o) < 2 => HandlerLeft(o) = 1 \/ HandlerLeft(o) < 1
      /\ HandlerLeft(o) < 1 => HandlerLeft(o) = 0
      /\ HandlerLeft(o) = 6 => ~(HandlerLeft(o) = 0)
  BY DEF HandlerLeft
<1>4. IInv /\ [Next]_vars /\ ~(HandlerLeft(o) = 0) /\ (HandlerLeft(o) = 0)'
        => (status[o] # "pending")'
  BY HandlerEnds
<1>. QED
  BY <1>1, <1>2, <1>3, <1>4, Invariance, PTL DEF Spec, HandlerGoesOn, LeavesPending

\* Every execution takes its order out of pending as long as server and database
\* stay up, whichever check, call or transaction fails.
THEOREM ExecutionsLeavePending ==
    ~DbFaults /\ MaxCrashes = 0 => (FairSpec /\ []ReadyIsEnabled => ExecutionLeavesPending)
BY HandlerLeavesPending, Zenon DEF FairSpec, Fairness, ExecutionLeavesPending

\* A delivery at work goes on.
LEMMA DeliveryProgress ==
    ASSUME NEW d \in Deliveries, NEW n \in 1..(6 * MaxBatch)
    PROVE  Spec /\ DeliveryRuns(d) /\ []ReadyIsEnabled => DeliveryGoesOn(d, n)
<1>1. IInv /\ [Next]_vars /\ DeliveryLeft(d) = n
        => (DeliveryLeft(d) = n)' \/ (DeliveryLeft(d) < n)'
  <2>1. IInv => DeliveryLeft(d) \in Int
    BY DeliveryCounts
  <2>2. IInv' => (DeliveryLeft(d) \in Int)'
    BY <2>1, PTL
  <2>3. n \in Int
    BY SwapAssumption DEF SwapAssumption
  <2>. QED  BY <2>2, <2>3, DeliveryRunsDown, StepInv
<1>2. IInv /\ [Next]_vars /\ <<DeliveryStep(d)>>_vars /\ DeliveryLeft(d) = n
        => (DeliveryLeft(d) < n)'
  BY DeliveryRunsDown
<1>3. IInv /\ ReadyIsEnabled /\ DeliveryLeft(d) = n => ENABLED <<DeliveryStep(d)>>_vars
  <2>1. DeliveryLeft(d) = n => delivery[d] \in DeliveryBusy
    BY SwapAssumption DEF DeliveryLeft, SwapAssumption
  <2>2. IInv /\ DeliveryLeft(d) = n => DeliveryReady(d)
    BY <2>1, DeliveryIsReady
  <2>. QED  BY <2>2 DEF ReadyIsEnabled
<1>. QED  BY <1>1, <1>2, <1>3, Invariance, PTL DEF Spec, DeliveryRuns, DeliveryGoesOn

\* Every delivery goes on until it is answered: from whatever is left of it, at most
\* six steps for each event, to less.
DeliveriesGoOn == \A d \in Deliveries : \A n \in 1..(6 * MaxBatch) : DeliveryGoesOn(d, n)

\* POST /contract/events: no event of a delivery waits for ever for a statement or a payout,
\* with any number of restarts and failing statements.
THEOREM DeliveriesProgress == FairSpec /\ []ReadyIsEnabled => DeliveriesGoOn
BY DeliveryProgress, Zenon DEF FairSpec, Fairness, DeliveriesGoOn

-----------------------------------------------------------------------------
(***************************************************************************)
(* Refinement.                                                             *)
(***************************************************************************)

\* A step that moves fiat is a PayOut of SwapSettlement.
LEMMA TransferRefines ==
    ASSUME IInv, IInv', [Next]_vars, NEW d \in Deliveries, PayoutSent(d)
    PROVE  Settlement!SettlementNext
<1>1. delivery[d] = "pay" /\ UNCHANGED <<swap, confirmed>>
  BY DEF PayoutSent
<1>2. Current(d) \in Orders /\ Instance(d) \in Instances
      /\ swap[Current(d)].state = "executed" /\ Len(batch[d]) \in 1..MaxBatch
  BY <1>1, CurrentFacts DEF IInv, DeliveryBusy
<1>3. Instance(d) \in confirmed[Current(d)] /\ swap[Current(d)].type = "TOKENTOFIAT"
  BY <1>1 DEF IInv, PayoutIsEarned
<1>4. swap[Current(d)] = [state |-> "executed", type |-> "TOKENTOFIAT"]
  BY <1>2, <1>3 DEF IInv, TypeOK, Swaps
<1>5. \A k \in 1..Len(payouts[Current(d)]) : payouts[Current(d)][k] # Instance(d)
  BY <1>1, <1>2 DEF IInv, EventsUnspent, Spent, Instance, DeliveryBusy
<1>6. payouts' = [payouts EXCEPT ![Current(d)] = Append(@, Instance(d))]
  BY DEF PayoutSent
<1>7. Settlement!PayOut(Current(d), Instance(d))
  BY <1>1, <1>3, <1>4, <1>5, <1>6 DEF Settlement!PayOut
<1>. QED  BY <1>2, <1>7 DEF Settlement!SettlementNext

\* A step of a delivery that moves no fiat confirms its event or stutters.
LEMMA DeliveryRefines ==
    ASSUME IInv, NEW d \in Deliveries, DeliveryStep(d), ~PayoutSent(d)
    PROVE  [Settlement!SettlementNext]_<<swap, confirmed, payouts>>
<1>1. delivery[d] \in DeliveryBusy
  BY DeliveryFrame DEF IInv
<1>2. Current(d) \in Orders /\ Instance(d) \in Instances /\ swap[Current(d)].state = "executed"
  BY <1>1, CurrentFacts DEF IInv
<1>3. UNCHANGED <<swap, payouts>>
  BY DEF DeliveryStep, FindOrder, RateUnavailable, CompleteOrder, RecordTransaction, PayoutFind,
         PayoutRefused, MarkPayoutFailed
<1>4. \/ confirmed' = confirmed
      \/ confirmed' = [confirmed EXCEPT ![Current(d)] = @ \cup {Instance(d)}]
  BY DEF DeliveryStep, FindOrder, RateUnavailable, CompleteOrder, RecordTransaction, PayoutFind,
         PayoutRefused, MarkPayoutFailed
<1>5. CASE confirmed' = confirmed
  BY <1>3, <1>5
<1>6. CASE confirmed' = [confirmed EXCEPT ![Current(d)] = @ \cup {Instance(d)}]
  BY <1>2, <1>3, <1>6 DEF Settlement!SettlementNext, Settlement!Confirm
<1>. QED  BY <1>4, <1>5, <1>6

\* Every other step submits a swap, settles one or stutters.
LEMMA SwapRefines ==
    ASSUME IInv, NEW p \in Orders,
           \/ Create(p) \/ Remove(p) \/ HandlerStep(p)
           \/ \E s \in Written : Execute(p, s) \/ Update(p, s)
           \/ \E t \in SwapTypes : DirectSwap(p, t)
           \/ \E outcome \in {"executed", "reverted"} : Settle(p, outcome)
    PROVE  [Settlement!SettlementNext]_<<swap, confirmed, payouts>>
<1>. USE DEF deliveryVars, Settlement!SettlementNext
<1>1. UNCHANGED <<confirmed, payouts>>
  BY DEF Create, Remove, Execute, Update, DirectSwap, Settle, HandlerStep, Check, Charge, Approve,
         SubmitRefused, SubmitAccepted, Wait, MarkProcessing, MarkFailed
<1>2. ASSUME NEW t \in SwapTypes, DirectSwap(p, t) PROVE Settlement!Accept(p, t)
  BY <1>1, <1>2 DEF DirectSwap, NoSwap, Settlement!Accept
<1>3. ASSUME SubmitAccepted(p) PROVE Settlement!Accept(p, SwapTypeOf[p]) /\ SwapTypeOf[p] \in SwapTypes
  <2>1. swap[p] = NoSwap
    BY <1>3 DEF SubmitAccepted, IInv, NotYetSubmitted
  <2>. QED
    BY <1>1, <1>3, <2>1, SwapAssumption DEF SubmitAccepted, NoSwap, Settlement!Accept, SwapAssumption
<1>4. ASSUME NEW outcome \in {"executed", "reverted"}, Settle(p, outcome)
      PROVE  Settlement!SettleSwap(p, outcome)
  BY <1>1, <1>4 DEF Settle, Settlement!SettleSwap
<1>5. ASSUME \/ Create(p) \/ Remove(p)
             \/ \E s \in Written : Execute(p, s) \/ Update(p, s)
             \/ Check(p) \/ Charge(p) \/ Approve(p) \/ SubmitRefused(p) \/ Wait(p) \/ MarkProcessing(p)
             \/ MarkFailed(p)
      PROVE  swap' = swap
  BY <1>5 DEF Create, Remove, Execute, Update, Check, Charge, Approve, SubmitRefused, Wait, MarkProcessing,
              MarkFailed
<1>. QED  BY <1>1, <1>2, <1>3, <1>4, <1>5 DEF HandlerStep

\* Handlers, deliveries, races, edits and crashes together implement
\* SwapSettlement: the steps that touch tokens or fiat are steps it allows.
THEOREM Refinement == Spec => ImplementsSettlement
<1>1. Init => Settlement!SettlementInit
  BY DEF Init, NoSwap, Settlement!SettlementInit
<1>2. ASSUME IInv, IInv', [Next]_vars
      PROVE  [Settlement!SettlementNext]_Settlement!settlementVars
  <2>1. ASSUME Crash \/ (\E d \in Deliveries, b \in Batches : Deliver(d, b)) \/ UNCHANGED vars
        PROVE  UNCHANGED <<swap, confirmed, payouts>>
    BY <2>1 DEF Crash, Deliver, vars
  <2>2. [Settlement!SettlementNext]_<<swap, confirmed, payouts>>
    BY <1>2, <2>1, TransferRefines, DeliveryRefines, SwapRefines DEF Next
  <2>. QED  BY <2>2 DEF Settlement!settlementVars
<1>. QED
  BY <1>1, <1>2, Invariance, PTL DEF Spec, ImplementsSettlement, Settlement!SettlementSpec

-----------------------------------------------------------------------------
(***************************************************************************)
(* A completion is followed by its payout.                                 *)
(***************************************************************************)

\* The fiat of o is due: the order is completed and its event was a token-to-fiat one.
Due(o) ==
    /\ status[o] = "completed"
    /\ SwapTypeOf[o] = "TOKENTOFIAT" /\ swap[o].type = "TOKENTOFIAT"

\* Fiat that is due was sent, or a delivery has the payout before it: one that is only
\* looking for the row does not count, for it passes by a completed one.
PayoutIsNear ==
    \A o \in Orders :
      Due(o) /\ Unblemished(o, {"edited", "abandoned"}) =>
        payouts[o] # <<>> \/ \E d \in Deliveries : Settling(d) /\ Current(d) = o

\* A delivery dies in a restart only.
LEMMA DiesInCrash ==
    ASSUME TypeOK, EventsAreTrue, [Next]_vars, NEW d \in Deliveries,
           delivery'[d] = "dead", delivery[d] # "dead"
    PROVE  Crash
<1>1. ASSUME NEW o \in Orders,
             \/ Create(o) \/ Remove(o)
             \/ \E s \in Written : Execute(o, s) \/ Update(o, s)
             \/ \E t \in SwapTypes : DirectSwap(o, t)
             \/ \E outcome \in {"executed", "reverted"} : Settle(o, outcome)
             \/ HandlerStep(o)
      PROVE  FALSE
  BY <1>1
     DEF Create, Remove, Execute, Update, DirectSwap, Settle, HandlerStep, Check, Charge, Approve,
         SubmitRefused, SubmitAccepted, Wait, MarkProcessing, MarkFailed, deliveryVars
<1>2. ASSUME NEW e \in Deliveries, DeliveryStep(e) PROVE FALSE
  BY <1>2
     DEF TypeOK, DeliveryStep, FindOrder, RateUnavailable, CompleteOrder, RecordTransaction,
         PayoutFind, PayoutRefused, PayoutSent, MarkPayoutFailed, DeliveryGoes, NextEvent, Abort
<1>3. ASSUME NEW e \in Deliveries, NEW b \in Batches, Deliver(e, b) PROVE FALSE
  BY <1>3 DEF Deliver, TypeOK
<1>4. ASSUME UNCHANGED vars PROVE FALSE
  BY <1>4 DEF vars
<1>. QED  BY <1>1, <1>2, <1>3, <1>4 DEF Next

\* Of an unedited order, only CompleteOrder writes 'completed'.
LEMMA BecomesCompleted ==
    ASSUME TypeOK, EventsAreTrue, [Next]_vars, NEW o \in Orders,
           status[o] # "completed", status'[o] = "completed", "edited" \notin mishaps'[o]
    PROVE  \E d \in Deliveries : CompleteOrder(d) /\ Current(d) = o
<1>1. ASSUME NEW d \in Deliveries, DeliveryStep(d) PROVE CompleteOrder(d) /\ Current(d) = o
  <2>1. Current(d) = o
    BY <1>1, DeliveryFrame
  <2>2. ~MarkPayoutFailed(d)
    BY <2>1 DEF MarkPayoutFailed, TypeOK
  <2>. QED
    BY <1>1, <2>1, <2>2 DEF DeliveryStep, FindOrder, RateUnavailable, RecordTransaction, PayoutFind,
                            PayoutRefused, PayoutSent
<1>2. ASSUME NEW p \in Orders, NEW s \in Written, Execute(p, s) \/ Update(p, s) PROVE FALSE
  <2>1. p = o /\ s # "pending"
    BY <1>2 DEF Execute, Update, TypeOK
  <2>2. Note(o, "edited")
    BY <1>2, <2>1 DEF Execute, Update
  <2>. QED  BY <2>2, NoteFacts, MishapNames
<1>3. ASSUME NEW p \in Orders,
             \/ Create(p) \/ Remove(p) \/ HandlerStep(p)
             \/ \E t \in SwapTypes : DirectSwap(p, t)
             \/ \E outcome \in {"executed", "reverted"} : Settle(p, outcome)
      PROVE  FALSE
  BY <1>3
     DEF TypeOK, Create, Remove, DirectSwap, Settle, HandlerStep, Check, Charge, Approve, SubmitRefused,
         SubmitAccepted, Wait, MarkProcessing, MarkFailed
<1>4. ASSUME Crash \/ (\E d \in Deliveries, b \in Batches : Deliver(d, b)) \/ UNCHANGED vars
      PROVE  FALSE
  BY <1>4 DEF Crash, Deliver, vars
<1>. QED  BY <1>1, <1>2, <1>3, <1>4 DEF Next

LEMMA NotEmptied ==
    ASSUME NEW S, NEW s \in Seq(S), NEW e \in S
    PROVE  Append(s, e) # <<>>
<1>1. Len(Append(s, e)) = Len(s) + 1 /\ Len(s) \in Nat
  OBVIOUS
<1>. QED  BY <1>1

\* A delivery with the payout before it keeps it there, sends it or notes that it does
\* not, as long as the order stays due.
LEMMA SettlingGoesOn ==
    ASSUME TypeOK, EventsAreTrue, NEW d \in Deliveries, Settling(d), DeliveryStep(d),
           Due(Current(d)), status'[Current(d)] = "completed",
           "abandoned" \notin mishaps'[Current(d)]
    PROVE  payouts'[Current(d)] # <<>> \/ (Settling(d)' /\ Current(d)' = Current(d))
<1>1. Current(d) \in Orders /\ delivery[d] \in {"record", "payFind", "pay", "payFail"}
  BY CurrentFacts DEF Settling, DeliveryBusy
<1>2. ~Note(Current(d), "abandoned")
  BY <1>1, NoteFacts, MishapNames
<1>. USE DEF Settling, Current, DeliveryGoes, TypeOK, Due
<1>3. ASSUME NEW to \in {"payFind", "pay", "payFail"}, DeliveryGoes(d, to)
      PROVE  Settling(d)' /\ Current(d)' = Current(d)
  BY <1>3
<1>4. CASE RecordTransaction(d)
  BY <1>2, <1>3, <1>4 DEF RecordTransaction
<1>5. CASE PayoutFind(d)
  BY <1>2, <1>3, <1>5 DEF PayoutFind
<1>6. CASE PayoutRefused(d)
  BY <1>3, <1>6 DEF PayoutRefused
<1>7. CASE PayoutSent(d)
  <2>1. payouts' = [payouts EXCEPT ![Current(d)] = Append(payouts[Current(d)], Instance(d))]
    BY <1>7 DEF PayoutSent
  <2>2. payouts'[Current(d)] = Append(payouts[Current(d)], Instance(d))
    BY <1>1, <2>1
  <2>3. payouts[Current(d)] \in Seq(Instances) /\ Instance(d) \in Instances
    BY <1>1, CurrentFacts DEF DeliveryBusy
  <2>4. Append(payouts[Current(d)], Instance(d)) # <<>>
    BY <2>3, NotEmptied
  <2>. QED  BY <2>2, <2>4, Zenon
<1>8. CASE MarkPayoutFailed(d)
  BY <1>1, <1>2, <1>8 DEF MarkPayoutFailed
<1>. QED
  BY <1>1, <1>4, <1>5, <1>6, <1>7, <1>8
     DEF DeliveryStep, FindOrder, RateUnavailable, CompleteOrder

\* Transfers are not taken back.
LEMMA PaidStays ==
    ASSUME TypeOK, EventsAreTrue, [Next]_vars, NEW o \in Orders, payouts[o] # <<>>
    PROVE  payouts'[o] # <<>>
<1>1. payouts[o] \in Seq(Instances)
  BY DEF TypeOK
<1>2. CASE payouts' = payouts
  BY <1>2
<1>3. ASSUME NEW d \in Deliveries, Current(d) \in Orders,
             payouts' = [payouts EXCEPT ![Current(d)] = Append(@, Instance(d))]
      PROVE  payouts'[o] # <<>>
  <2>1. payouts'[o] = payouts[o] \/ payouts'[o] = Append(payouts[o], Instance(d))
    BY <1>3 DEF TypeOK
  <2>. QED  BY <1>1, <2>1
<1>. QED  BY <1>2, <1>3, PayoutMoves

\* The payout stays near until it is made.
LEMMA PayoutIsNearStep ==
    ASSUME IInv, PayoutIsNear, [Next]_vars
    PROVE  PayoutIsNear'
<1>. SUFFICES ASSUME NEW o \in Orders, Due(o)', "edited" \notin mishaps'[o],
                     "abandoned" \notin mishaps'[o], payouts'[o] = <<>>
              PROVE  \E d \in Deliveries : Settling(d)' /\ Current(d)' = o
  BY DEF PayoutIsNear, Unblemished
<1>. USE DEF IInv
<1>1. "edited" \notin mishaps[o] /\ "abandoned" \notin mishaps[o] /\ payouts[o] = <<>>
  BY MishapsGrow, PaidStays
<1>2. CASE status[o] = "completed"
  <2>1. swap[o].state = "executed"
    BY <1>1, <1>2 DEF CompletedWasExecuted, Unblemished
  <2>2. swap'[o] = swap[o]
    BY <2>1, SettledStays
  <2>3. Due(o)
    BY <1>2, <2>2 DEF Due
  <2>4. PICK d \in Deliveries : Settling(d) /\ Current(d) = o
    BY <1>1, <2>3 DEF PayoutIsNear, Unblemished
  <2>5. CASE UNCHANGED <<delivery[d], batch[d]>>
    BY <2>4, <2>5 DEF Settling, Current
  <2>6. CASE DeliveryStep(d)
    BY <2>3, <2>4, <2>6, SettlingGoesOn DEF Due
  <2>7. ~ \E b \in Batches : Deliver(d, b)
    BY <2>4 DEF Deliver, Settling
  <2>8. ASSUME delivery'[d] = "dead" PROVE FALSE
    <3>1. Crash
      BY <2>4, <2>8, DiesInCrash DEF Settling
    <3>2. "abandoned" \in mishaps'[o]
      BY <2>4, <3>1 DEF Crash
    <3>. QED  BY <3>2
  <2>. QED  BY <2>5, <2>6, <2>7, <2>8, DeliveryMoves
<1>3. CASE status[o] # "completed"
  <2>1. PICK d \in Deliveries : CompleteOrder(d) /\ Current(d) = o
    BY <1>3, BecomesCompleted DEF Due
  <2>2. DeliveryGoes(d, "record")
    BY <1>3, <2>1 DEF CompleteOrder, Due
  <2>. QED  BY <2>1, <2>2 DEF DeliveryGoes, Settling, Current, TypeOK
<1>. QED  BY <1>2, <1>3

\* LiquidityEventProcessorService: whatever overlaps, repeats or fails, the fiat of a
\* completed order has been sent as soon as no delivery works on the order, unless a
\* client edited it or a delivery abandoned it.
THEOREM PayoutsFollow == Spec => []PayoutFollows
<1>1. Init => PayoutIsNear
  BY DEF Init, PayoutIsNear, Due
<1>2. PayoutIsNear => PayoutFollows
  BY DEF PayoutIsNear, PayoutFollows, PayoutSettled, Due, AtWork, Settling, DeliveryBusy
<1>. QED  BY <1>1, <1>2, Invariance, PayoutIsNearStep, PTL DEF Spec

-----------------------------------------------------------------------------
(***************************************************************************)
(* Deliveries that come one at a time pay an order once.                   *)
(***************************************************************************)
Unlucky == {"edited", "overwritten", "unanswered"}
Closed  == {"completed", "failed"}

\* No event finds an order with one of these open again.
PastLookup == {"complete", "record", "payFind", "pay", "payFail"}

OneAtATime ==
    \A d, e \in Deliveries :
      delivery[d] \in DeliveryBusy /\ delivery[e] \in DeliveryBusy => d = e

\* The order that a delivery is about to pay is not open, and neither is one that was
\* paid, which no delivery has found since.
ClosedOnce ==
    \A o \in Orders : Unblemished(o, Unlucky) =>
      /\ \A d \in Deliveries :
           delivery[d] \in {"record", "payFind", "pay"} /\ Current(d) = o => status[o] \in Closed
      /\ payouts[o] # <<>> =>
           /\ Len(payouts[o]) = 1
           /\ status[o] \in Closed
           /\ \A d \in Deliveries : delivery[d] \in PastLookup => Current(d) # o

SerialInv == ~overlapped => OneAtATime /\ ClosedOnce

\* One delivery starts at a time, so that the first overlap is of two.
LEMMA OverlapIsSeen ==
    ASSUME TypeOK, EventsAreTrue, [Next]_vars, OneAtATime, ~Overlap'
    PROVE  OneAtATime'
<1>. DEFINE Busy == {d \in Deliveries : delivery[d] \in DeliveryBusy}
            Busy2 == {d \in Deliveries : delivery'[d] \in DeliveryBusy}
<1>1. \E x : Busy \subseteq {x}
  BY DEF OneAtATime
<1>2. \E y : Busy2 \subseteq Busy \cup {y}
  <2>1. ASSUME NEW d \in Deliveries, delivery'[d] \in DeliveryBusy, delivery[d] \notin DeliveryBusy
        PROVE  \E b \in Batches : Deliver(d, b)
    BY <2>1, DeliveryMoves, DeliveryFrame DEF DeliveryBusy
  <2>2. ASSUME NEW d \in Deliveries, NEW b \in Batches, Deliver(d, b)
        PROVE  Busy2 \subseteq Busy \cup {d}
    BY <2>2 DEF Deliver, TypeOK
  <2>. QED  BY <2>1, <2>2
<1>3. IsFiniteSet(Busy2)
  <2>1. PICK x, y : Busy2 \subseteq {x} \cup {y}
    BY <1>1, <1>2
  <2>2. IsFiniteSet({x} \cup {y})
    BY FS_Singleton, FS_Union
  <2>. HIDE DEF Busy2
  <2>. QED  BY <2>1, <2>2, FS_Subset
<1>4. ~(Cardinality(Busy2) > 1)
  BY DEF Overlap
<1>5. ASSUME NEW d \in Busy2, NEW e \in Busy2, d # e PROVE FALSE
  <2>. HIDE DEF Busy2
  <2>1. IsFiniteSet(Busy2 \ {d}) /\ Cardinality(Busy2 \ {d}) = Cardinality(Busy2) - 1
    BY <1>3, FS_RemoveElement
  <2>2. Cardinality(Busy2 \ {d}) # 0
    <3>1. Busy2 \ {d} # {}
      BY <1>5
    <3>. QED  BY <2>1, <3>1, FS_EmptySet
  <2>3. Cardinality(Busy2 \ {d}) \in Nat /\ Cardinality(Busy2) \in Nat
    BY <1>3, <2>1, FS_CardinalityType
  <2>. QED  BY <1>4, <2>1, <2>2, <2>3
<1>. QED  BY <1>5 DEF OneAtATime

\* A closed order is opened by a client, by a handler that writes over its completion,
\* or by a payout that is refused.
LEMMA StaysClosed ==
    ASSUME TypeOK, EventsAreTrue, FailureIsKnown, [Next]_vars, NEW o \in Orders,
           status[o] \in Closed, "edited" \notin mishaps'[o], "overwritten" \notin mishaps'[o],
           \A d \in Deliveries : MarkPayoutFailed(d) => Current(d) # o
    PROVE  status'[o] \in Closed
<1>1. ASSUME NEW d \in Deliveries, DeliveryStep(d) PROVE status'[o] \in Closed
  <2>1. CASE CompleteOrder(d)
    BY <2>1 DEF CompleteOrder, Closed, TypeOK
  <2>2. CASE MarkPayoutFailed(d)
    BY <2>2 DEF MarkPayoutFailed, TypeOK
  <2>. QED
    BY <1>1, <2>1, <2>2 DEF DeliveryStep, FindOrder, RateUnavailable, RecordTransaction, PayoutFind,
                            PayoutRefused, PayoutSent
<1>2. ASSUME NEW p \in Orders, Remove(p) \/ \E s \in Written : Update(p, s)
      PROVE  status'[o] \in Closed
  <2>1. CASE p = o
    <3>1. Note(o, "edited")
      BY <1>2, <2>1 DEF Remove, Update
    <3>. QED  BY <3>1, NoteFacts, MishapNames
  <2>2. CASE p # o
    BY <1>2, <2>2 DEF Remove, Update, TypeOK
  <2>. QED  BY <2>1, <2>2
<1>3. ASSUME NEW p \in Orders, MarkProcessing(p) PROVE status'[o] \in Closed
  <2>1. CASE p = o
    <3>1. status[o] # "failed"
      <4>1. "edited" \notin mishaps[o]
        BY MishapsGrow
      <4>. QED  BY <1>3, <2>1, <4>1 DEF MarkProcessing, FailureIsKnown, Unblemished
    <3>2. Note(o, "overwritten") \/ status' = status
      BY <1>3, <2>1, <3>1 DEF MarkProcessing, Closed
    <3>. QED  BY <3>2, NoteFacts, MishapNames
  <2>2. CASE p # o
    BY <1>3, <2>2 DEF MarkProcessing, TypeOK
  <2>. QED  BY <2>1, <2>2
<1>4. ASSUME NEW p \in Orders, MarkFailed(p) PROVE status'[o] \in Closed
  BY <1>4 DEF MarkFailed, TypeOK, Closed
<1>5. ASSUME NEW p \in Orders,
             \/ Create(p) \/ Check(p) \/ Charge(p) \/ Approve(p) \/ SubmitRefused(p) \/ SubmitAccepted(p)
             \/ Wait(p)
             \/ \E s \in Written : Execute(p, s)
             \/ \E t \in SwapTypes : DirectSwap(p, t)
             \/ \E outcome \in {"executed", "reverted"} : Settle(p, outcome)
      PROVE  status'[o] \in Closed
  BY <1>5
     DEF TypeOK, Closed, Create, Execute, DirectSwap, Settle, Check, Charge, Approve, SubmitRefused,
         SubmitAccepted, Wait
<1>6. ASSUME Crash \/ (\E d \in Deliveries, b \in Batches : Deliver(d, b)) \/ UNCHANGED vars
      PROVE  status'[o] \in Closed
  BY <1>6 DEF Crash, Deliver, vars
<1>. QED  BY <1>1, <1>2, <1>3, <1>4, <1>5, <1>6 DEF Next, HandlerStep

\* A delivery gets past the lookup for an open order only, and to the record by the
\* completion only.
LEMMA PassesLookup ==
    ASSUME TypeOK, EventsAreTrue, [Next]_vars, NEW d \in Deliveries,
           delivery'[d] \in PastLookup
    PROVE  /\ delivery[d] \in DeliveryBusy /\ Current(d)' = Current(d)
           /\ delivery[d] \in PastLookup \/ status[Current(d)] \in Open
           /\ \/ delivery'[d] = delivery[d]
              \/ delivery'[d] = "record" /\ status'[Current(d)] = "completed"
              \/ delivery[d] \in {"record", "payFind", "pay"}
              \/ delivery'[d] = "complete"
<1>. USE DEF PastLookup, DeliveryBusy
<1>1. CASE UNCHANGED <<delivery[d], batch[d]>>
  BY <1>1 DEF Current
<1>2. CASE DeliveryStep(d)
  <2>1. delivery[d] \in DeliveryBusy /\ Current(d) \in Orders
    BY <1>2, DeliveryFrame, CurrentFacts
  <2>2. ~NextEvent(d)
    BY <2>1, NextEventFacts
  <2>3. Current(d)' = Current(d)
    BY <1>2, <2>2, DeliveryStepKinds DEF Current
  <2>4. delivery[d] = "find" => status[Current(d)] \in Open /\ delivery'[d] = "complete"
    BY <1>2, <2>2
       DEF DeliveryStep, FindOrder, RateUnavailable, CompleteOrder, RecordTransaction, PayoutFind,
           PayoutRefused, PayoutSent, MarkPayoutFailed, DeliveryGoes, Abort, TypeOK
  <2>5. delivery[d] = "complete" =>
          delivery'[d] = "record" /\ status'[Current(d)] = "completed"
    BY <1>2, <2>1
       DEF DeliveryStep, FindOrder, RateUnavailable, CompleteOrder, RecordTransaction, PayoutFind,
           PayoutRefused, PayoutSent, MarkPayoutFailed, DeliveryGoes, Abort, TypeOK
  <2>6. delivery[d] # "payFail"
    BY <1>2, <2>2, DeliveryStepKinds
  <2>. QED  BY <2>1, <2>3, <2>4, <2>5, <2>6
<1>3. CASE \E b \in Batches : Deliver(d, b)
  BY <1>3 DEF Deliver, TypeOK
<1>. QED  BY <1>1, <1>2, <1>3, DeliveryMoves

LEMMA ClosedOnceStep ==
    ASSUME IInv, OneAtATime, OneAtATime', ClosedOnce, [Next]_vars
    PROVE  ClosedOnce'
<1>. USE DEF IInv
<1>. SUFFICES ASSUME NEW o \in Orders, Unblemished(o, Unlucky)'
              PROVE  /\ \A d \in Deliveries :
                          delivery'[d] \in {"record", "payFind", "pay"} /\ Current(d)' = o
                            => status'[o] \in Closed
                     /\ payouts'[o] # <<>> =>
                          /\ Len(payouts'[o]) = 1
                          /\ status'[o] \in Closed
                          /\ \A d \in Deliveries : delivery'[d] \in PastLookup => Current(d)' # o
  BY DEF ClosedOnce
<1>1. /\ "edited" \notin mishaps'[o] /\ "overwritten" \notin mishaps'[o]
      /\ "unanswered" \notin mishaps'[o]
  BY DEF Unblemished, Unlucky
<1>2. Unblemished(o, Unlucky)
  BY <1>1, MishapsGrow DEF Unblemished, Unlucky
<1>3. ASSUME NEW d \in Deliveries, delivery'[d] \in {"record", "payFind", "pay"}, Current(d)' = o
      PROVE  status'[o] \in Closed
  <2>1. /\ Current(d) = o /\ delivery[d] \in DeliveryBusy
        /\ \/ delivery[d] \in {"record", "payFind", "pay"}
           \/ status'[o] = "completed"
    BY <1>3, PassesLookup DEF PastLookup
  <2>2. CASE delivery[d] \in {"record", "payFind", "pay"}
    <3>1. status[o] \in Closed
      BY <1>2, <2>1, <2>2 DEF ClosedOnce
    <3>2. ASSUME NEW e \in Deliveries, MarkPayoutFailed(e) PROVE FALSE
      <4>1. delivery[e] = "payFail"
        BY <3>2 DEF MarkPayoutFailed
      <4>. QED  BY <2>1, <2>2, <4>1 DEF OneAtATime, DeliveryBusy
    <3>. QED  BY <1>1, <3>1, <3>2, StaysClosed
  <2>. QED  BY <2>1, <2>2 DEF Closed
<1>4. ASSUME payouts[o] # <<>>, payouts'[o] = payouts[o]
      PROVE  /\ Len(payouts'[o]) = 1 /\ status'[o] \in Closed
             /\ \A d \in Deliveries : delivery'[d] \in PastLookup => Current(d)' # o
  <2>1. /\ Len(payouts[o]) = 1 /\ status[o] \in Closed
        /\ \A d \in Deliveries : delivery[d] \in PastLookup => Current(d) # o
    BY <1>2, <1>4 DEF ClosedOnce
  <2>2. \A d \in Deliveries : MarkPayoutFailed(d) => Current(d) # o
    BY <2>1 DEF MarkPayoutFailed, PastLookup
  <2>3. status'[o] \in Closed
    BY <1>1, <2>1, <2>2, StaysClosed
  <2>4. status[o] \notin Open
    BY <2>1 DEF Closed, Open
  <2>. QED  BY <1>4, <2>1, <2>3, <2>4, PassesLookup
<1>5. ASSUME payouts'[o] # payouts[o]
      PROVE  /\ Len(payouts'[o]) = 1 /\ status'[o] \in Closed
             /\ \A d \in Deliveries : delivery'[d] \in PastLookup => Current(d)' # o
  <2>1. PICK d \in Deliveries :
             /\ PayoutSent(d) /\ Current(d) \in Orders
             /\ payouts' = [payouts EXCEPT ![Current(d)] = Append(@, Instance(d))]
    BY <1>5, PayoutMoves
  <2>2. Current(d) = o /\ payouts'[o] = Append(payouts[o], Instance(d))
    BY <1>5, <2>1 DEF TypeOK
  <2>3. delivery[d] = "pay" /\ status' = status
    BY <2>1 DEF PayoutSent
  <2>4. payouts[o] = <<>> /\ status[o] \in Closed
    BY <1>2, <2>2, <2>3 DEF ClosedOnce, PastLookup
  <2>5. NextEvent(d)
    <3>1. ~Note(o, "unanswered")
      BY <1>1, NoteFacts, MishapNames
    <3>. QED  BY <2>1, <2>2, <3>1 DEF PayoutSent
  <2>6. delivery'[d] \in {"find", "done"}
    BY <2>3, <2>5, NextEventFacts DEF DeliveryBusy
  <2>7. ASSUME NEW e \in Deliveries, delivery'[e] \in PastLookup PROVE FALSE
    <3>1. e # d /\ delivery[e] \in DeliveryBusy
      BY <2>6, <2>7, PassesLookup DEF PastLookup
    <3>. QED  BY <2>3, <3>1 DEF OneAtATime, DeliveryBusy
  <2>8. Len(payouts'[o]) = 1
    BY <2>2, <2>4
  <2>. QED  BY <2>3, <2>4, <2>7, <2>8
<1>. QED  BY <1>3, <1>4, <1>5

\* LiquidityEventProcessorService: an indexer that sends one call at a time, with any
\* repetitions and restarts, has an order paid once, unless a client edited it, its
\* handler wrote over its completion or the payment provider's answer was lost.
THEOREM PaidOnce == MCSpec => []PaidAtMostOnce
<1>1. MCInit => SerialInv /\ IInv
  <2>1. MCInit => IInv
    BY InitInv DEF MCInit
  <2>2. MCInit => OneAtATime /\ ClosedOnce
    BY DEF MCInit, Init, OneAtATime, ClosedOnce, DeliveryBusy
  <2>. QED  BY <2>1, <2>2 DEF SerialInv
<1>2. ASSUME IInv, SerialInv, [MCNext]_<<vars, overlapped>> PROVE IInv' /\ SerialInv'
  <2>1. [Next]_vars
    BY <1>2 DEF MCNext
  <2>2. IInv'
    BY <1>2, <2>1, StepInv
  <2>3. CASE UNCHANGED <<vars, overlapped>>
    <3>1. UNCHANGED <<delivery, batch, mishaps, status, payouts, overlapped>>
      BY <2>3 DEF vars
    <3>. QED  BY <1>2, <2>2, <3>1 DEF SerialInv, OneAtATime, ClosedOnce, Unblemished, Current
  <2>4. CASE MCNext
    <3>. SUFFICES ASSUME ~overlapped' PROVE OneAtATime' /\ ClosedOnce'
      BY <2>2 DEF SerialInv
    <3>1. ~overlapped /\ ~Overlap'
      BY <2>4 DEF MCNext
    <3>2. OneAtATime /\ ClosedOnce
      BY <1>2, <3>1 DEF SerialInv
    <3>3. OneAtATime'
      BY <1>2, <2>1, <3>1, <3>2, OverlapIsSeen DEF IInv
    <3>. QED  BY <1>2, <2>1, <3>2, <3>3, ClosedOnceStep
  <2>. QED  BY <1>2, <2>3, <2>4
<1>3. IInv /\ SerialInv => PaidAtMostOnce
  <2>. SUFFICES ASSUME IInv, ClosedOnce, NEW o \in Orders, Unblemished(o, Unlucky)
                PROVE  Len(payouts[o]) <= 1
    BY DEF PaidAtMostOnce, SerialInv, Unlucky
  <2>1. payouts[o] = <<>> \/ Len(payouts[o]) = 1
    BY DEF ClosedOnce
  <2>2. Len(<<>>) = 0
    OBVIOUS
  <2>3. Len(payouts[o]) \in {0, 1}
    BY <2>1, <2>2, Zenon
  <2>4. \A n \in {0, 1} : n <= 1
    OBVIOUS
  <2>. QED  BY <2>3, <2>4, Zenon
<1>. QED  BY <1>1, <1>2, <1>3, PTL DEF MCSpec

=============================================================================
