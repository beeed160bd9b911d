--------------------------- MODULE SwapLifecycle ---------------------------
(***************************************************************************)
(* The life of a swap order: the HTTP handler that executes it, the        *)
(* StarkNet liquidity contract that settles it, the event processor that   *)
(* completes it and pays the fiat out, and the rows they share.            *)
(*                                                                         *)
(* A handler runs once per order.  A delivery is one POST /contract/events *)
(* call of the indexer; it carries a batch of swap events, and the same    *)
(* event may be carried by any number of deliveries (the indexer repeats a *)
(* call that was not answered).  Every await of the code is a place where  *)
(* another handler or delivery may run, so each stretch of code between    *)
(* two calls that touch shared state is an action.                         *)
(***************************************************************************)
EXTENDS Integers, Sequences

CONSTANTS
    Orders,       \* ids of swap orders
    SwapTypeOf,   \* the swapType column: what the client asked for
    Deliveries,   \* calls of POST /contract/events
    MaxBatch,     \* bound: swap events in one call
    MaxCrashes,   \* bound: restarts of the server
    MaxEdits,     \* bound: PATCH and DELETE requests on orders
    DbFaults      \* may a database call fail?

SwapTypes == {"TOKENTOFIAT", "FIATTOTOKEN"}

ASSUME SwapAssumption ==
    /\ SwapTypeOf \in [Orders -> SwapTypes]
    /\ MaxBatch \in Nat \ {0}
    /\ MaxCrashes \in Nat
    /\ MaxEdits \in Nat
    /\ DbFaults \in BOOLEAN

VARIABLES
    status,       \* SwapOrder.status; "absent" before, "removed" after the row
    handler,      \* where executeSwap is, for the order it created
    swap,         \* the order's swap in the liquidity contract
    charged,      \* orders whose fiat account was charged
    recorded,     \* orders with a "swap" row in the Transaction table
    delivery,     \* where each delivery is
    batch,        \* the events each delivery has yet to process, head first
    confirmed,    \* history: the events that completed each order
    payouts,      \* history: the transfers of fiat per order, by their events
    mishaps,      \* history: what went wrong around each order
    crashes, edits

vars == <<status, handler, swap, charged, recorded, delivery, batch,
          confirmed, payouts, mishaps, crashes, edits>>

handlerVars  == <<handler, charged>>
deliveryVars == <<delivery, batch, confirmed, payouts, recorded>>
limits       == <<crashes, edits>>

(***************************************************************************)
(* Values.                                                                 *)
(***************************************************************************)
Written == {"pending", "processing", "completed", "failed", "payout_failed"}

\* Mutant: the findFirst filter takes completed rows too.
OpenOrCompleted == {"pending", "processing", "payout_failed", "completed"}

Open == {"pending", "processing", "payout_failed"}

Present == Written

HandlerBusy == {"check", "charge", "approve", "submit", "wait", "mark", "fail"}
DeliveryBusy == {"find", "complete", "record", "payFind", "pay", "payFail"}

NoSwap == [state |-> "none", type |-> "none"]
Swaps  == [state : {"none", "submitted", "executed", "reverted"},
           type  : SwapTypes \cup {"none"}]

\* A mishap is a fact about an order that the properties make exceptions for:
\* "edited"      its row was written or deleted by a client,
\* "unsure"      its handler gave up after the swap may have been accepted,
\* "overwritten" its handler wrote over a row the event processor completed,
\* "unanswered"  fiat was transferred and the provider's answer was lost,
\* "abandoned"   a delivery that had completed it ended at a failing database
\*               call or a restart before it could settle the payout.
Mishaps == {"edited", "unsure", "overwritten", "unanswered", "abandoned"}

\* An event instance: the delivery that carries it and its place from the end.
Instances == Deliveries \X (1..MaxBatch)

TypeOK ==
    /\ status    \in [Orders -> Written \cup {"absent", "removed"}]
    /\ handler   \in [Orders -> HandlerBusy \cup {"idle", "done", "dead"}]
    /\ swap      \in [Orders -> Swaps]
    /\ charged   \subseteq Orders
    /\ recorded  \subseteq Orders
    /\ delivery  \in [Deliveries -> DeliveryBusy \cup {"idle", "done", "dead"}]
    /\ batch     \in [Deliveries -> Seq(Orders)]
    /\ \A d \in Deliveries : Len(batch[d]) <= MaxBatch
    /\ confirmed \in [Orders -> SUBSET Instances]
    /\ payouts   \in [Orders -> Seq(Instances)]
    /\ mishaps   \in [Orders -> SUBSET Mishaps]
    /\ crashes   \in 0..MaxCrashes
    /\ edits     \in 0..MaxEdits

Init ==
    /\ status    = [o \in Orders |-> "absent"]
    /\ handler   = [o \in Orders |-> "idle"]
    /\ swap      = [o \in Orders |-> NoSwap]
    /\ charged   = {}
    /\ recorded  = {}
    /\ delivery  = [d \in Deliveries |-> "idle"]
    /\ batch     = [d \in Deliveries |-> <<>>]
    /\ confirmed = [o \in Orders |-> {}]
    /\ payouts   = [o \in Orders |-> <<>>]
    /\ mishaps   = [o \in Orders |-> {}]
    /\ crashes   = 0
    /\ edits     = 0

Note(o, m) == mishaps' = [mishaps EXCEPT ![o] = @ \cup {m}]

(***************************************************************************)
(* Requests on the rows (swap-order.controller.ts).                        *)
(***************************************************************************)

\* POST /swap-order: a row and nothing else.
Create(o) ==
    /\ status[o] = "absent"
    /\ status' = [status EXCEPT ![o] = "pending"]
    /\ UNCHANGED <<handlerVars, swap, deliveryVars, mishaps, limits>>

\* PATCH /swap-order/:id with a status.
Update(o, s) ==
    /\ status[o] \in Present
    /\ edits < MaxEdits
    /\ edits' = edits + 1
    /\ status' = [status EXCEPT ![o] = s]
    /\ Note(o, "edited")
    /\ UNCHANGED <<handlerVars, swap, deliveryVars, crashes>>

\* DELETE /swap-order/:id.  The Transaction rows of the order stay.
Remove(o) ==
    /\ status[o] \in Present
    /\ edits < MaxEdits
    /\ edits' = edits + 1
    /\ status' = [status EXCEPT ![o] = "removed"]
    /\ Note(o, "edited")
    /\ UNCHANGED <<handlerVars, swap, deliveryVars, crashes>>

\* POST /contract/swap-token-to-fiat or /contract/swap-fiat-to-token, of either
\* type, for an order that POST /swap-order created.
DirectSwap(o, t) ==
    /\ status[o] # "absent"
    /\ handler[o] = "idle"
    /\ swap[o] = NoSwap
    /\ swap' = [swap EXCEPT ![o] = [state |-> "submitted", type |-> t]]
    /\ UNCHANGED <<status, handlerVars, deliveryVars, mishaps, limits>>

(***************************************************************************)
(* The handler of POST /swap-order/execute.                                *)
(***************************************************************************)
HandlerGoes(o, to) == handler' = [handler EXCEPT ![o] = to]

\* executeSwap creates the row; the request may carry a status of its own.
Execute(o, s) ==
    /\ status[o] = "absent"
    /\ status' = [status EXCEPT ![o] = s]
    /\ HandlerGoes(o, "check")
    /\ IF s = "pending" THEN UNCHANGED mishaps ELSE Note(o, "edited")
    /\ UNCHANGED <<charged, swap, deliveryVars, limits>>

\* Mutant: a fiat-to-token order is not charged.
CheckUncharged(o) ==
    /\ handler[o] = "check"
    /\ HandlerGoes(o, "fail") \/ HandlerGoes(o, "submit")
    /\ UNCHANGED <<status, charged, swap, deliveryVars, mishaps, limits>>

\* User, wallet, registration and balance are read; a refusal throws.  (Fiat to token: the
\* checks before the charge in executeFiatToTokenSwap.)
Check(o) ==
    /\ handler[o] = "check"
    /\ \/ HandlerGoes(o, "fail")
       \/ HandlerGoes(o, IF SwapTypeOf[o] = "TOKENTOFIAT" THEN "approve" ELSE "charge")
    /\ UNCHANGED <<status, charged, swap, deliveryVars, mishaps, limits>>

\* Fiat to token only: charge before the contract is called (it never refuses).
Charge(o) ==
    /\ handler[o] = "charge"
    /\ charged' = charged \cup {o}
    /\ HandlerGoes(o, "submit")
    /\ UNCHANGED <<status, swap, deliveryVars, mishaps, limits>>

\* Token to fiat only: the user's wallet approves the contract as spender and the
\* transaction is waited for.  Without wallet or key, or without an answer, it
\* throws; whether the transaction succeeded is logged and not looked at.
Approve(o) ==
    /\ handler[o] = "approve"
    /\ HandlerGoes(o, "fail") \/ HandlerGoes(o, "submit")
    /\ UNCHANGED <<status, charged, swap, deliveryVars, mishaps, limits>>

\* account.execute: refused; accepted; or accepted with the answer lost.
\* A fiat-to-token call also waits for the transaction, a token-to-fiat does not.
SubmitRefused(o) ==
    /\ handler[o] = "submit"
    /\ HandlerGoes(o, "fail")
    /\ UNCHANGED <<status, charged, swap, deliveryVars, mishaps, limits>>

SubmitAccepted(o) ==
    /\ handler[o] = "submit"
    /\ swap' = [swap EXCEPT ![o] = [state |-> "submitted", type |-> SwapTypeOf[o]]]
    /\ \/ /\ HandlerGoes(o, IF SwapTypeOf[o] = "TOKENTOFIAT" THEN "mark" ELSE "wait")
          /\ UNCHANGED mishaps
       \/ /\ HandlerGoes(o, "fail")
          /\ Note(o, "unsure")
    /\ UNCHANGED <<status, charged, deliveryVars, limits>>

\* Mutant: a transaction that is still pending is taken for a failed one.
WaitImpatient(o) ==
    /\ handler[o] = "wait"
    /\ HandlerGoes(o, IF swap[o].state = "executed" THEN "mark" ELSE "fail")
    /\ UNCHANGED <<status, charged, swap, deliveryVars, mishaps, limits>>

\* waitForTransaction: executed, reverted, or the node stops answering.
Wait(o) ==
    /\ handler[o] = "wait"
    /\ \/ /\ swap[o].state = "executed"
          /\ HandlerGoes(o, "mark")
          /\ UNCHANGED mishaps
       \/ /\ swap[o].state = "reverted"
          /\ HandlerGoes(o, "fail")
          /\ UNCHANGED mishaps
       \/ /\ HandlerGoes(o, "fail")
          /\ Note(o, "unsure")
    /\ UNCHANGED <<status, charged, swap, deliveryVars, limits>>

\* Mutant: the order is completed as soon as the contract took the call.
MarkCompleted(o) ==
    /\ handler[o] = "mark"
    /\ status[o] \in Present
    /\ status' = [status EXCEPT ![o] = "completed"]
    /\ HandlerGoes(o, "done")
    /\ UNCHANGED <<charged, swap, deliveryVars, mishaps, limits>>

\* update(id, {status: 'processing'}), whatever the status is by now.
MarkProcessing(o) ==
    /\ handler[o] = "mark"
    /\ \/ /\ status[o] \in Present
          /\ status' = [status EXCEPT ![o] = "processing"]
          /\ HandlerGoes(o, "done")
          /\ IF status[o] \in {"completed", "payout_failed"}
               THEN Note(o, "overwritten")
               ELSE UNCHANGED mishaps
       \/ /\ status[o] = "removed" \/ DbFaults
          /\ HandlerGoes(o, "fail")
          /\ Note(o, "unsure")
          /\ UNCHANGED status
    /\ UNCHANGED <<charged, swap, deliveryVars, limits>>

\* Mutant: the catch block marks the order and calls the contract again.
MarkFailedRetry(o) ==
    /\ handler[o] = "fail"
    /\ HandlerGoes(o, "submit")
    /\ status[o] \in Present
    /\ status' = [status EXCEPT ![o] = "failed"]
    /\ UNCHANGED <<charged, swap, deliveryVars, mishaps, limits>>

\* Mutant: the catch block rethrows without marking the order.
MarkFailedSilent(o) ==
    /\ handler[o] = "fail"
    /\ HandlerGoes(o, "done")
    /\ UNCHANGED <<status, charged, swap, deliveryVars, mishaps, limits>>

\* The catch block: update(id, {status: 'failed'}), whatever the status is.
MarkFailed(o) ==
    /\ handler[o] = "fail"
    /\ HandlerGoes(o, "done")
    /\ \/ /\ status[o] \in Present
          /\ status' = [status EXCEPT ![o] = "failed"]
       \/ /\ status[o] = "removed" \/ DbFaults
          /\ UNCHANGED status
    /\ UNCHANGED <<charged, swap, deliveryVars, mishaps, limits>>

HandlerStep(o) ==
    \/ Check(o) \/ Charge(o) \/ Approve(o)
    \/ SubmitRefused(o) \/ SubmitAccepted(o) \/ Wait(o)
    \/ MarkProcessing(o) \/ MarkFailed(o)

(***************************************************************************)
(* The chain: a submitted swap is executed, or reverted, once.             *)
(***************************************************************************)
Settle(o, outcome) ==
    /\ swap[o].state = "submitted"
    /\ swap' = [swap EXCEPT ![o].state = outcome]
    /\ UNCHANGED <<status, handlerVars, deliveryVars, mishaps, limits>>

(***************************************************************************)
(* POST /contract/events: process, routeEvent and the two swap handlers.   *)
(***************************************************************************)
Batches == UNION {[1..n -> {o \in Orders : swap[o].state = "executed"}] : n \in 1..MaxBatch}

Current(d)  == Head(batch[d])
Instance(d) == <<d, Len(batch[d])>>

DeliveryGoes(d, to) == delivery' = [delivery EXCEPT ![d] = to] /\ UNCHANGED batch

\* The loop of process moves to the next event, or the call is answered.
NextEvent(d) ==
    /\ batch' = [batch EXCEPT ![d] = Tail(@)]
    /\ delivery' = [delivery EXCEPT ![d] = IF Len(batch[d]) = 1 THEN "done" ELSE "find"]

\* An error is rethrown: the call fails and the rest of the batch is dropped.
Abort(d) == DeliveryGoes(d, "done")

Deliver(d, b) ==
    /\ delivery[d] = "idle"
    /\ delivery' = [delivery EXCEPT ![d] = "find"]
    /\ batch' = [batch EXCEPT ![d] = b]
    /\ UNCHANGED <<status, handlerVars, swap, confirmed, payouts, recorded, mishaps, limits>>

\* The exchange rate is fetched, then findFirst looks for an open row.
FindOrder(d) ==
    /\ delivery[d] = "find"
    /\ IF status[Current(d)] \in Open THEN DeliveryGoes(d, "complete") ELSE NextEvent(d)
    /\ UNCHANGED <<status, handlerVars, swap, confirmed, payouts, recorded, mishaps, limits>>

RateUnavailable(d) ==
    /\ delivery[d] = "find"
    /\ Abort(d)
    /\ UNCHANGED <<status, handlerVars, swap, confirmed, payouts, recorded, mishaps, limits>>

\* update(id, {status: 'completed'}), whatever the status is by now.
CompleteOrder(d) ==
    /\ delivery[d] = "complete"
    /\ \/ /\ status[Current(d)] \in Present
          /\ status' = [status EXCEPT ![Current(d)] = "completed"]
          /\ confirmed' = [confirmed EXCEPT ![Current(d)] = @ \cup {Instance(d)}]
          /\ DeliveryGoes(d, "record")
       \/ /\ status[Current(d)] = "removed" \/ DbFaults
          /\ Abort(d)
          /\ UNCHANGED <<status, confirmed>>
    /\ UNCHANGED <<handlerVars, swap, payouts, recorded, mishaps, limits>>

\* Mutant: a failed upsert is swallowed and the payout follows all the same.
RecordUnchecked(d) ==
    /\ delivery[d] = "record"
    /\ recorded' = recorded \cup {Current(d)} \/ UNCHANGED recorded
    /\ IF swap[Current(d)].type = "TOKENTOFIAT" THEN DeliveryGoes(d, "payFind") ELSE NextEvent(d)
    /\ UNCHANGED <<status, handlerVars, swap, confirmed, payouts, mishaps, limits>>

\* Mutant: a failed upsert takes the completion back.
RecordUndoing(d) ==
    /\ delivery[d] = "record"
    /\ Abort(d)
    /\ status' = [status EXCEPT ![Current(d)] = "processing"]
    /\ UNCHANGED <<handlerVars, swap, confirmed, payouts, recorded, mishaps, limits>>

\* Mutant: an order that has its Transaction row is taken to be paid.
RecordOnce(d) ==
    /\ delivery[d] = "record"
    /\ recorded' = recorded \cup {Current(d)}
    /\ IF swap[Current(d)].type = "TOKENTOFIAT" /\ Current(d) \notin recorded
         THEN DeliveryGoes(d, "payFind")
         ELSE NextEvent(d)
    /\ UNCHANGED <<status, handlerVars, swap, confirmed, payouts, mishaps, limits>>

\* transaction.upsert; only the token-to-fiat handler goes on to a payout.
RecordTransaction(d) ==
    /\ delivery[d] = "record"
    /\ \/ /\ recorded' = recorded \cup {Current(d)}
          /\ IF swap[Current(d)].type = "TOKENTOFIAT"
               THEN DeliveryGoes(d, "payFind")
               ELSE NextEvent(d)
          /\ UNCHANGED mishaps
       \/ /\ DbFaults
          /\ Abort(d)
          /\ Note(Current(d), "abandoned")
          /\ UNCHANGED recorded
    /\ UNCHANGED <<status, handlerVars, swap, confirmed, payouts, limits>>

\* Mutant: the payout waits until the row says completed.
PayoutFindPolling(d) ==
    /\ delivery[d] = "payFind"
    /\ status[Current(d)] = "completed"
    /\ IF SwapTypeOf[Current(d)] = "TOKENTOFIAT" THEN DeliveryGoes(d, "pay") ELSE NextEvent(d)
    /\ UNCHANGED <<status, handlerVars, swap, confirmed, payouts, recorded, mishaps, limits>>

\* initiatePayoutForSwap reads the row again; its errors stop at the event.
PayoutFind(d) ==
    /\ delivery[d] = "payFind"
    /\ \/ /\ status[Current(d)] = "completed"
          /\ SwapTypeOf[Current(d)] = "TOKENTOFIAT"
          /\ DeliveryGoes(d, "pay")
          /\ UNCHANGED mishaps
       \/ /\ \/ status[Current(d)] # "completed"
             \/ SwapTypeOf[Current(d)] # "TOKENTOFIAT"
          /\ NextEvent(d)
          /\ UNCHANGED mishaps
       \/ /\ DbFaults
          /\ NextEvent(d)
          /\ Note(Current(d), "abandoned")
    /\ UNCHANGED <<status, handlerVars, swap, confirmed, payouts, recorded, limits>>

\* initiatePayout: no account, no rate or a refusal; no money has moved.
PayoutRefused(d) ==
    /\ delivery[d] = "pay"
    /\ DeliveryGoes(d, "payFail")
    /\ UNCHANGED <<status, handlerVars, swap, confirmed, payouts, recorded, mishaps, limits>>

\* Mutant: an unanswered transfer is sent again.
PayoutResent(d) ==
    /\ delivery[d] = "pay"
    /\ payouts' = [payouts EXCEPT ![Current(d)] = Append(@, Instance(d))]
    /\ NextEvent(d) \/ DeliveryGoes(d, "pay")
    /\ UNCHANGED <<status, handlerVars, swap, confirmed, recorded, mishaps, limits>>

\* initiatePayout: the transfer is made, under a fresh reference each time;
\* the answer arrives, or the 20 s timeout comes first.
PayoutSent(d) ==
    /\ delivery[d] = "pay"
    /\ payouts' = [payouts EXCEPT ![Current(d)] = Append(@, Instance(d))]
    /\ \/ NextEvent(d) /\ UNCHANGED mishaps
       \/ DeliveryGoes(d, "payFail") /\ Note(Current(d), "unanswered")
    /\ UNCHANGED <<status, handlerVars, swap, confirmed, recorded, limits>>

\* Mutant: the status is misspelt; the column is a plain string.
MarkPayoutFailedMisspelt(d) ==
    /\ delivery[d] = "payFail"
    /\ status' = [status EXCEPT ![Current(d)] = "payout-failed"]
    /\ NextEvent(d)
    /\ UNCHANGED <<handlerVars, swap, confirmed, payouts, recorded, mishaps, limits>>

\* update(id, {status: 'payout_failed'}), whatever the status is by now.
MarkPayoutFailed(d) ==
    /\ delivery[d] = "payFail"
    /\ \/ /\ status[Current(d)] \in Present
          /\ status' = [status EXCEPT ![Current(d)] = "payout_failed"]
          /\ UNCHANGED mishaps
       \/ /\ status[Current(d)] = "removed" \/ DbFaults
          /\ Note(Current(d), "abandoned")
          /\ UNCHANGED status
    /\ NextEvent(d)
    /\ UNCHANGED <<handlerVars, swap, confirmed, payouts, recorded, limits>>

DeliveryStep(d) ==
    \/ FindOrder(d) \/ RateUnavailable(d)
    \/ CompleteOrder(d) \/ RecordTransaction(d)
    \/ PayoutFind(d) \/ PayoutRefused(d) \/ PayoutSent(d) \/ MarkPayoutFailed(d)

(***************************************************************************)
(* The server restarts: every request in flight is gone, the rows stay.    *)
(***************************************************************************)
Settling(d) == delivery[d] \in {"record", "payFind", "pay", "payFail"}

Crash ==
    /\ crashes < MaxCrashes
    /\ crashes' = crashes + 1
    /\ handler' = [o \in Orders |-> IF handler[o] \in HandlerBusy THEN "dead" ELSE handler[o]]
    /\ delivery' = [d \in Deliveries |->
                      IF delivery[d] \in DeliveryBusy THEN "dead" ELSE delivery[d]]
    /\ mishaps' = [o \in Orders |-> mishaps[o] \cup
                     IF \E d \in Deliveries : Settling(d) /\ Current(d) = o
                       THEN {"abandoned"} ELSE {}]
    /\ UNCHANGED <<status, swap, charged, recorded, batch, confirmed, payouts, edits>>

Next ==
    \/ \E o \in Orders :
         \/ Create(o) \/ Remove(o) \/ HandlerStep(o)
         \/ \E s \in Written : Execute(o, s) \/ Update(o, s)
         \/ \E t \in SwapTypes : DirectSwap(o, t)
         \/ \E outcome \in {"executed", "reverted"} : Settle(o, outcome)
    \/ \E d \in Deliveries : DeliveryStep(d) \/ \E b \in Batches : Deliver(d, b)
    \/ Crash

Spec == Init /\ [][Next]_vars

\* A request that was accepted runs on: node's event loop starves nobody, and
\* the chain settles what it accepted.  Clients and the indexer owe nothing.
HandlerRuns(o)  == WF_vars(HandlerStep(o))
SwapSettles(o)  == WF_vars(\E outcome \in {"executed", "reverted"} : Settle(o, outcome))
DeliveryRuns(d) == WF_vars(DeliveryStep(d))

Fairness ==
    /\ \A o \in Orders : HandlerRuns(o) /\ SwapSettles(o)
    /\ \A d \in Deliveries : DeliveryRuns(d)

FairSpec == Spec /\ Fairness

(***************************************************************************)
(* Safety.                                                                 *)
(***************************************************************************)
Unblemished(o, ms) == mishaps[o] \cap ms = {}

\* An order that no client edited is completed (or paid out and refused) only if
\* the liquidity contract executed its swap: completeNearestPendingOrder is the
\* only writer of these statuses and runs on executed swaps alone.
CompletedWasExecuted ==
    \A o \in Orders :
      status[o] \in {"completed", "payout_failed"} /\ Unblemished(o, {"edited"})
        => swap[o].state = "executed"

\* The catch block of executeSwap tells the truth: a failed order has no swap in
\* the contract, unless the handler lost an answer of the node or of the database
\* after the swap may have been accepted.
FailedWasNotExecuted ==
    \A o \in Orders :
      status[o] = "failed" /\ Unblemished(o, {"edited", "unsure"})
        => swap[o].state \in {"none", "reverted"}

\* Once a delivery completed an order, only the writes named here can take the
\* completion away: no other interleaving of handler and deliveries does.
ConfirmedStaysCompleted ==
    \A o \in Orders :
      confirmed[o] # {} /\ Unblemished(o, {"edited", "unsure", "overwritten"})
        => status[o] \in {"completed", "payout_failed"}

\* Every transfer of fiat is covered: the event that triggered it completed the
\* order first and triggers no other, the Transaction row was there, and the
\* contract had executed a token-to-fiat swap for the order.
PayoutsAreCovered ==
    \A o \in Orders : \A k \in 1..Len(payouts[o]) :
      /\ payouts[o][k] \in confirmed[o]
      /\ \A j \in 1..Len(payouts[o]) : payouts[o][j] = payouts[o][k] => j = k
      /\ o \in recorded
      /\ swap[o] = [state |-> "executed", type |-> "TOKENTOFIAT"]

\* No tokens are asked of the contract for fiat that was not charged: executeSwap
\* charges the account before it calls swap_fiat_to_token, whatever fails later.
ChargedBeforeTokens ==
    \A o \in Orders :
      swap[o].type = "FIATTOTOKEN" /\ handler[o] # "idle" => o \in charged

AtWork(o) == \E d \in Deliveries : delivery[d] \in DeliveryBusy /\ Current(d) = o

\* The fiat of a token-to-fiat order that is completed, and that no delivery is
\* working on, has been sent.
PayoutSettled(o) ==
    (/\ status[o] = "completed"
     /\ SwapTypeOf[o] = "TOKENTOFIAT" /\ swap[o].type = "TOKENTOFIAT"
     /\ ~AtWork(o))
      => payouts[o] # <<>>

\* A completion is followed by its payout whatever overlaps, repeats or fails,
\* with one exception: a delivery that abandons the order it has completed.
PayoutFollows ==
    \A o \in Orders : Unblemished(o, {"edited", "abandoned"}) => PayoutSettled(o)

\* "After updating the order, trigger the fiat payout"
\* (liquidity-event-processor.service.ts:313): no exception but the client's edits.
PayoutAlwaysFollows ==
    \A o \in Orders : Unblemished(o, {"edited"}) => PayoutSettled(o)

\* "Order completion will be triggered automatically by LiquidityEventProcessor-
\* Service when it receives the FiatToTokenSwapExecuted event"
\* (swap-order.service.ts:231): once the handler has returned, a fiat-to-token
\* order whose event completed it is completed.
CompletionIsKept ==
    \A o \in Orders :
      (/\ SwapTypeOf[o] = "FIATTOTOKEN" /\ swap[o].type = "FIATTOTOKEN"
       /\ confirmed[o] # {} /\ handler[o] = "done"
       /\ Unblemished(o, {"edited", "unsure"}))
        => status[o] = "completed"

(***************************************************************************)
(* What a step may not do.                                                 *)
(***************************************************************************)

\* An order marked failed by a handler that knew its swap had failed stays so:
\* no event, however late or stale, completes or reopens it.
FailureIsFinal ==
    [][\A o \in Orders :
         status[o] = "failed" /\ status'[o] # "failed"
           => mishaps'[o] \cap {"edited", "unsure"} # {}]_vars

(***************************************************************************)
(* Liveness, under FairSpec.                                               *)
(***************************************************************************)

\* Every execution that starts takes its order out of pending, whatever check,
\* call or transaction fails, as long as server and database stay up.
LeavesPending(o) == handler[o] = "check" ~> status[o] # "pending"

ExecutionLeavesPending == \A o \in Orders : LeavesPending(o)

\* Every delivery is answered, whatever its events run into.
DeliveryIsAnswered ==
    \A d \in Deliveries : delivery[d] = "find" ~> delivery[d] \in {"done", "dead"}

(***************************************************************************)
(* Refinement: the whole machinery implements SwapSettlement.              *)
(***************************************************************************)
Settlement == INSTANCE SwapSettlement

\* Handlers, deliveries, races, edits and crashes included, tokens and fiat move
\* in step: the contract's swaps, the completions and the transfers of this
\* system behave as SwapSettlement allows.
ImplementsSettlement == Settlement!SettlementSpec

=============================================================================
