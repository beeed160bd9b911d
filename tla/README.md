# Verification of sync-BE

sync-BE is a NestJS server that lets a user swap fiat money for StarkNet tokens and back. It
keeps its records in PostgreSQL (through Prisma), settles swaps in a Cairo liquidity contract,
learns of settlements from an external indexer that posts contract events, and moves fiat
through a payment provider. This directory holds TLA+ models of it, the TLC runs that check
them and TLAPS proofs about them. `PROJECT.json` lists components, runs, mutants, hazards,
theorems, and the source lines of every definition.

Paths below are relative to the repository; `src/...` is the application's code.

## 1. Inventory

One node process serves HTTP requests. Code between two `await`s is atomic; at every `await`
any other request may run. There is no queue, no lock and no `SELECT ... FOR UPDATE`: the only
things that order two requests are the database's unique keys, its few `$transaction`s and the
contract. Nothing is retried and no job repairs what a failed request left behind.

| Component | State | Operations | Talks to | What is hard |
|---|---|---|---|---|
| Swap orders (`src/swap-order`) | `SwapOrder` rows: status, type, amounts | create, execute, update, remove, payout of a confirmed order | wallets, payments, contract client, event processor | the handler and the event processor both write `status`, each by id and without looking; answers of node and provider get lost; the server restarts between two writes |
| Liquidity event processor (`src/contract/liquidity-event-processor.service.ts`) | none of its own; writes `SwapOrder`, `Transaction`, `LiquidityPool`, `PoolHistory`, `ExchangeRate`, `CryptoWallet` | one batch of events per call, in order, until one throws | the indexer calls it; it calls swap orders and exchange rates | batches are repeated, overlap and fail half way; events are not numbered |
| Liquidity contract client (`src/contract/liquidity-pool-contract.service.ts`) | cached reads of the contract | registration, two swaps, liquidity, owner's calls, cached reads | StarkNet node, shared cache | cached answers against changes of the contract; a call accepted whose answer is lost |
| Payments (`src/payment`) | none | payout, charge (mock), balance (mock) | Flutterwave | a time-out after the transfer was made; a fresh reference for each attempt |
| Exchange rates (`src/exchange-rate`) | rates in memory with a time stamp, a copy in the shared cache, `ExchangeRate` rows, last Pragma prices | cached rates, uncached pair rates, subscription with reconnection | Flutterwave, CoinGecko, contract client, Pragma | age of a rate through two caches; fetches that overtake one another; stale data on errors |
| Users (`src/user`) | `User`, `FiatAccount`, `CryptoWallet` rows, payment PIN counters | create, provision accounts, PIN, remove | Flutterwave, contract client | provisioning in several steps that cannot be taken back; counters read and written back |
| Authentication, sessions (`src/auth`, `src/session`) | log-in counters, second factor, `Session` rows, `EncryptedKey` rows | log in, refresh, second factor, wallets | database | a token rotated by two requests; a secret replaced while it is in use |
| Transactions, transfers (`src/transaction`, `src/transfer`) | `Transaction`, `AuditLog` rows, fiat balances | create with audit row, paged listings, fiat transfer, token transfer | database, token contract | references made from the clock; a balance checked outside the transaction that changes it; pages cut from rows that change between two requests |
| Wallets (`src/wallet/wallet.service.ts`) | none beyond the rows | creation of single accounts and wallets; unified balance and summary | Monnify, contract clients, exchange rates | a chain account created whose row is not; sums of reads of different moments |
| Wallet key management (`src/wallet/key-management.service.ts`) | audit rows; the keys in `CryptoWallet` | a transaction signed with the user's key | StarkNet node | which wallet signs; an allowance shared by overlapping orders; a receipt nobody looks at |
| Account, factory and token contract clients, conversions (`src/contract`) | a class hash | create account, read address, balances; felt, uuid and unit conversions | StarkNet node | numeric edges |
| Liquidity pool reads, audit log, system settings, dashboard, mock contract client, shell | rows nobody else reads, or none | reads, single-row writes | database | nothing beyond single statements |

What makes each of them correct:

* **swap orders and event processor**: tokens and fiat move in step. An order is completed only
  if the contract executed its swap; it is failed only if it did not; a completion is not lost;
  fiat is sent only for a completed, recorded, executed token-to-fiat swap, once per
  confirmation, and is sent at all; executions and deliveries end.
* **pools and deposits**: balances are explained by their history; repeated events change nothing.
* **contract client, exchange rates**: a cached answer is recent, and a change that the server
  itself made is seen.
* **key management, contract calls**: a swap finds the allowance its order approved; no allowance
  is left over; what a client or an audit row is told of a call is what became of it.
* **transfers**: what was answered is in the tables, what was refused left nothing.
* **summaries**: totals are explained by what accounts and wallets held meanwhile.
* **users**: an account on chain has its row; what is registered stays known; counters count.
* **authentication**: a rotated token is dead; a second factor in force is one the user confirmed.
* **listings**: pages together show the rows that were there all the while.

## 2. Plan

Done, the most important behaviour first:

1. `SwapLifecycle`: orders, contract, event processor and payouts together; the abstract
   `SwapSettlement` it implements; proofs in `SwapLifecycleProofs`.
2. `LiquidityLedger`: the other event handlers (pools, deposits, withdrawals, rates); proofs in
   `LiquidityLedgerProofs`.
3. `ContractCache`, `ExchangeRateCache`, `PragmaFeed`, `Listings`: reads of what others change;
   proofs in `CacheProofs`.
4. `LoginLockout`, `PaymentPin`, `TwoFactor`, `AuthSessions`: the guards of an account; proofs in
   `AccessProofs`.
5. `AccountProvisioning`: users, wallets, keys, with the `UserRegistered` event.
6. What surrounds a contract call: `ContractArguments` (identifiers and amounts on their way
   there and back; proofs in `ArgumentProofs`), `TokenApproval` (the approval inside a
   token-to-fiat order, a refinement of `SwapLifecycle`) and `DeployerCalls` (everything signed with
   the deployer's key); proofs of these two in `ChainCallProofs`.
7. `FiatLedger` (transfers, references, audit rows) and `WalletSummary`; proofs of these two and
   of `AccountProvisioning` in `AccountProofs`.
8. `RecursionTheorems`: induction over numbers, finite sets and sequences, and what recursive
   functions, folds and sums compute, for the proofs of conversions, pools and summaries.

Left:

9. Whatever theorems a change of the code calls for: every safety property of a passing run is
   proved (section 5).
10. `SwapLifecycle` and `LiquidityLedger` share the batch loop but not a module: a swap event and
    a pool event in one batch are checked apart. Composing the two is worth it only if one
    handler comes to depend on rows the other writes; today none does.

## 3. Modules

A row of the database is a function value at its id, a request is a function value at its slot
that says where it stands in the code. An action is the code between two points at which another
request may run: from one `await` on shared state to the next. A statement that fails, a node
that does not answer and a request that stops are branches of the action or actions of their own.
History variables are named as such at their declaration; no guard reads them except for the
bounds, and for `shown` in `TwoFactor`: a client can make no code from a secret it was never shown. Definitions introduced by "Mutant:" are no part of a specification: each is what a
plausible mistake would make of the definition next to it.

### SwapLifecycle, SwapSettlement

| Variable | In the program |
|---|---|
| `status[o]` | column `SwapOrder.status`; `absent` before and `removed` after the row |
| `handler[o]` | where `executeSwap` (swap-order.service.ts) stands for the order it created |
| `swap[o]` | what the liquidity contract did with the order's swap, and of which type it was |
| `charged`, `recorded` | orders with a charge in `payment.service.ts`, with a `swap` row in `Transaction` |
| `delivery[d]`, `batch[d]` | a call of `POST /contract/events` and the events it has yet to process |
| `confirmed`, `payouts`, `mishaps` | history: completing events, transfers of fiat, what went wrong |

* **Handler**: `Execute` creates the row; `Check` is the reads and refusals of both `execute...Swap`
  functions; `Approve` (token to fiat) and `Charge` (fiat to token) come before the contract;
  `SubmitRefused` / `SubmitAccepted` are the two outcomes of `account.execute`, the second with
  its answer received or lost; `Wait` is `waitForTransaction` (fiat to token only);
  `MarkProcessing` and `MarkFailed` are the blind updates at the end and in the `catch` block.
* **Chain**: `Settle` executes or reverts a submitted swap, once.
* **Event processor**: `Deliver` begins a call with any batch of events of executed swaps, repeats
  included; `FindOrder` / `RateUnavailable` are rate and `findFirst` of
  `completeNearestPendingOrder`, `CompleteOrder` its update, `RecordTransaction` its upsert;
  `PayoutFind`, `PayoutRefused`, `PayoutSent`, `MarkPayoutFailed` are `initiatePayoutForSwap`.
  An error before the payout ends the batch (`Abort`); one inside it ends with its event.
* **Clients**: `Create`, `Update`, `Remove`, `DirectSwap`. **Server**: `Crash`.

`SwapSettlement` knows only `swap`, `confirmed` and `payouts`: the contract settles a swap once,
only executed swaps are confirmed, and each transfer uses up one confirmation of a token-to-fiat
swap. `SwapLifecycle` implements it under the identity mapping of these three.

Restrictions: an order gets one chain submission in its life (the contract refuses a second with
the same id); direct swaps are called only for orders that `POST /swap-order` created; the charge
is the repository's mock, which never refuses; the success of the approval transaction is not
looked at, as in the code; events are of executed swaps, since the contract emits no others. A
status string that no code writes behaves like `failed` (no branch tests for it) and is left out.

### LiquidityLedger

`Log` is the chain's events; a call carries a stretch of it, of at most `MaxBatch` events. `inOrder`
says which of two indexers a behaviour has: one whose calls overlap, repeat and come in any order,
or one that makes one call at a time and goes on from its cursor. `UpsertPool` and `AddHistory` are
the two statements of `updateLiquidityPool`; `SkipDeposit`, `FindWallet`, `UpsertDeposit` are
`handleFiatDeposit`; `UpsertRate` is `handleExchangeRateUpdated`; `MarkRegistered` is
`handleUserRegistered`; `Ignore` stands for the handlers that change nothing here, withdrawals
included: their update seeks a `userId` that equals a contract address and matches no row.
`Then` and `Refuse` are a statement answered, lost after it was done, and not done. `torn` and
`owed` are history. Removal of users is not part of this module.

### ContractCache, ExchangeRateCache, PragmaFeed, Listings

* `ContractCache`: `Miss`, `ReadContract`, `Store` are the stretches of a cached read
  (`isUserRegistered` and its like); `Submit`, `Executed` / `Reverted`, `Invalidate` those of a
  call that changes the contract and deletes the entry; `ChangeElsewhere` is everybody else.
* `ExchangeRateCache`: one action per stretch of `getExchangeRates`; the time stamp is the clock
  as read at the start, `newest` is history. `SharedTTL` is the lifetime of the shared copy, which is given in seconds
  to a cache that takes milliseconds.
* Both have a clock, and `MaxLatency` bounds how long one read takes: the clients' time-outs.
* `PragmaFeed`: `Open`, `Message`, `Error`, `Close` are the socket's callbacks, `Reconnect` the
  timer, `Destroy` the end of the module. A message that is no JSON is left out.
* `Listings`: `ReadData` and `ReadTotal` are the two statements of a page, `Answer` is the answer
  and the client's next request. `listing` tells whether the statements are sent at once
  (users, accounts, wallets, transactions) or one after the other (swap orders, where `findMany`
  is awaited inside `Promise.all`). The client that walks from page 1 to the last is an assumption.

### LoginLockout, PaymentPin, TwoFactor, AuthSessions

`LoginLockout` is `validateUser`; `PaymentPin` is `setPaymentPin`, `verifyPaymentPin`,
`changePaymentPin`; `TwoFactor` is `generate2FASecret`, `initializeMfa`, `enable2FA`,
`verifyMfaSetup`, `disable2FA`; `AuthSessions` is the session part of `login`, `refreshToken` and
`DELETE /session/:id`. Each reads a row and later writes it by id; between the two any other
request may run, and `Lost` is a request that stops there. A code is the secret it was made from,
a refresh token is the second it was signed in. `raced`, in the first three, is history: requests
have overlapped since the last one that left nothing to undo (for the PIN: since a right one that
was alone and whose PIN was still in force). `POST` and `PATCH /session` write whatever the
client sends and are left out. The comparison of an expired session in `refreshToken` never
removes one, since the token's own expiry is checked first.

### AccountProvisioning

One user with fiat accounts, wallets and accounts on chain. `Provision`, `VirtualAccount`,
`AddFiat`, `CreateAccount`, `AddWallet`, `FindFiat`, `RegisterUser` are the steps of
`provisionUserAccounts`; `CreateFiatAccount`, `ReserveAccount`, `AddReserved`,
`CreateCryptoWallet`, `AddCryptoWallet` those of the wallet service; `RemoveFiat`, `RemoveWallets`,
`RemoveUser` the transaction of `remove`; `UserRegistered` is the event that comes back. `Fails`
ends a request at any step. `RegisterWallet` is the registration route, which takes any address from
anybody: also that of an account whose row is not stored yet, which the dashboard route tells
(contract.controller.ts:34, user.service.ts:131). `early` is the history of such registrations. An
address that is not made yet is registered by nobody, since its key is new. Addresses are
numbers and their normalisation is left out; a nonce taken by another call of the deployer's
account is a refusal; `createWallet` and `importWallet` of the authentication service are called
by no route.

### FiatLedger

`Transaction` rows, their audit rows and the default accounts of one currency. `TransferFiat` and
`TransferToken` are the transfer service (the second throws before it records anything: its
contract handle has no account to sign with); `CheckTransfer` and `CommitTransfer` are
`transferFiat` of the transaction service before and inside its `$transaction`; `UpdateStatus` is
`PATCH /tx/:id`, which sets `completedAt` and never a status. The clock is in milliseconds: a
reference is a prefix and the clock, and `Taken` is the unique key. `Written` computes both
inserts, so that the roll-back is a consequence and not an assumption.

### WalletSummary

`ReadUser`, `ReadToken`, `ReadRates`, `FindDefault`, `ReadAgain`, `Answer` are the stretches of
`getWalletSummary` and the `getUnifiedBalance` inside it; `Move` changes a balance on the chain in
between. `totalValueNGN`, `totalValueUSD` and `TokenBalance` compute the answer. Amounts are
kobo and whole tokens; a missing rate is 0, and a total that is not a number is `Missing`. The two
counts that end the summary are left out: no code writes a row that the second one counts.

### TokenApproval

The handler of a token-to-fiat order between `Check` and `MarkProcessing`, once more and in
detail: `SignRefused` and `SignAccepted` are `getUserAccount` and `account.execute` of
`executeTransaction`, `AwaitApproval` its wait, receipt and audit row, `SubmitRefused` and
`SubmitAccepted` the deployer's call. `wallet[o]` is what the order's handler took first from an
unordered query of active wallets, `signer[o]` an active default wallet found later; a user may
have several of both. `Approve`, `Swap` and `SwapReverts` are the token and the liquidity
contract as the code relies on them, `Spend` is the user's own use of the tokens. `unsure` and
`disturbed` are history. `Lifecycle` maps it to `SwapLifecycle` without deliveries: `sign` and
`wait` are its `approve`, a swap that reverted for whatever cause is `reverted`. What
`SwapLifecycle` leaves open as the chain's choice gets a reason here.

### DeployerCalls

Thirteen operations of the liquidity and factory clients as pairs: what comes before their call,
and what they make of its transaction. `GetNonce` and `Send` are the two requests inside
`account.execute`; the node takes one transaction per nonce. `before` is history: the calls that
were answered when a call began. The deployer's own `approve` is called
by nobody and left out, and so are deployments of accounts (`AccountProvisioning`).

### ContractArguments

`uuidToFelt252`, `felt252ToUuid`, `convertToWei` and the use of `bnToUint256`, on texts character
by character, because the properties are about what characters do. Upper case, white space,
exponents (`1e-7`) and prefixes of other bases are left out, so that `ArgumentsArrive` says nothing of
them; one small base stands for 16 and for 10. `Without` is a fold
and `Power` a recursive function where `SelectSeq` and `^` would do for TLC: the provers know
nothing of those two.

## 4. Runs

| Run | Asks | Shows |
|---|---|---|
| `SwapTokenOrder` | one token-to-fiat order under every fault | completion and fiat follow the contract (`CompletedWasExecuted`, `PayoutsAreCovered`); one payout with a serial indexer (`PaidAtMostOnce`); a completion without payout only where a delivery was cut off (`PayoutFollows`); `ImplementsSettlement` |
| `SwapFiatOrder` | one fiat-to-token order under every fault | what the catch block writes is true and final (`FailedWasNotExecuted`, `FailureIsFinal`); completions are lost only to the named writes (`ConfirmedStaysCompleted`); charge before tokens |
| `SwapProgress` | do executions and deliveries end? | `ExecutionLeavesPending`, `DeliveryIsAnswered` under `FairSpec` |
| `SwapPayoutForgotten` | "After updating the order, trigger the fiat payout" | violated: a failing upsert in between |
| `SwapCompletionLost` | "Order completion will be triggered automatically" | violated: the handler's late `processing` |
| `Ledger` | pools, deposits, rates, registrations under an indexer that works in any order, and one that works in order and retries | `BalanceExplained`, `AnsweredIsApplied`; `RateIsLatest`, `AllAnswered` for the second |
| `CacheReads` | how old or incomplete may an answer be? | `AnswersAreRecent`, `WriteSeenUnlessRaced`, `OneSubscription`, `Resubscribes`, `PagesAreExplained` |
| `AccessGuards` | counters, locks, second factor, sessions | `AttemptsAreExact`, `LocksLast`, `FactorSecretWasConfirmed`, `NothingIsUndone`, `SessionTokenIsHeld`, most of them for requests that do not overlap: the overlap is what the code gets wrong (section 6) |
| `FactorReplaced` | "Store the secret temporarily" | violated: an enabled factor changes its secret at once |
| `Accounts` | two requests on one user's accounts, two transfers, one summary | `FlagFollowsEvent`, `AnsweredIsDone`, `RemovalIsWhole`, `SummaryIsExplained` |
| `TransferRolledBack` | "Update account balances" | violated: a transfer that nothing stands against is rolled back |
| `ChainCalls` | arguments, approvals and nonces around a contract call | `ArgumentsArrive`, `RevertHasCause`, `AllowanceIsOwed`, `AnswersAreTrue`, `ImplementsLifecycle` |

`MCAccess`, `MCCaches`, `MCAccounts` and `MCChainCalls` put parts that share no row and no entry
into one run and let one of them work in each behaviour: their product would multiply states and
show nothing more. Their properties name those of the parts, some of them two at a time where they
ask the same question. `MCLedger` gives `LiquidityLedger` its events; the two indexers are the two
values of `inOrder`.

**Bounds.** They are the constants named as bounds in each module.

* Swaps: one order per type is enough for safety, since no code path touches two orders except a
  batch, and a batch of two carries the same event twice or, in `SwapProgress`, two orders. Two
  deliveries give every overlap of find, complete, record and pay; a crash and an edit come at
  any point; any statement may fail. Three deliveries would only repeat the second.
* Ledger: eight events cover each handler, a pool opened by a removal, and two rates of one pair
  around events that may fail. Two calls of at most two events overlap in every way; one repeat,
  one failing statement and one restart, each at any point.
* Caches: lifetime 2, latency 2 and time 5 let an answer reach the age the bound allows. Two
  readers and a writer; two overlapping rate requests; four sockets. Four rows on pages of two
  with two changes give a last page that is missed, and a row that is repeated.
* Guards: two requests; three attempts of at most five wrong ones; a lock of 2 in a time of 3
  lapses before the end. Three PINs: one is replaced by a second while a third is entered.
* Accounts: two requests and two accounts on chain, each registered by its request or by a client,
  early or late, so that one is stored while the other is made; two transfers among three users
  (one without an account) in three milliseconds, so that references collide and do not; two wallets,
  one of them default, with two tokens each, one movement at any point and any read failing.
* Approvals: two orders of different amounts and two wallets, one of them default, whose tokens
  cover both orders and one of them: every overlap of approve and swap, and a signer that is not the
  order's wallet. Deployer: two calls give every collision; a third would only meet the second.
* Conversions: texts of up to six characters over base 3, identifiers of four digits with hyphens
  after the second and third, two decimals, and a word of 12 that some amounts exceed.

**Deadlock.** Runs say `CHECK_DEADLOCK FALSE`: clients and the indexer owe nothing, so that a
state in which all requests have ended is a proper end.

**Fairness.** `SwapLifecycle!Fairness`: weak fairness for each handler, each delivery and the
settlement of each swap: node's event loop resumes whatever can go on, clients time out, and the
chain settles what it accepted. No fairness for clients, indexer and crashes. `LiquidityLedger`
adds, for the indexer that works in order, that it calls again from its cursor (`CarryOn`); that is
what a delivery that fails relies on, and the repository says no more about it. `AllAnswered` asks
nothing of the other one. `PragmaFeed`: timers fire, closing sockets
close. No property needs strong fairness.

## 5. Proofs

Every theorem holds for every value of the constants that the named assumptions of its module
allow, from those assumptions alone. `SwapLifecycle` and `LiquidityLedger` state theirs
(`SwapAssumption`, `LedgerAssumption`); the modules that a run instantiates together define theirs,
and `MCAccess`, `MCCaches`, `MCAccounts` and `MCChainCalls` assume them by name. They say that
bounds, lifetimes and amounts are numbers of the right kind and that the sets whose members are
counted are finite. The models are proved about as TLC runs them. Their bounds are constants like the
others, so that a theorem holds however many crashes, repeats or changes they allow.

No property below is inductive by itself. Each module of proofs gives the inductive invariant part
by part, a lemma for each action and part it can disturb, and one lemma that puts them together.

### Swaps: `SwapLifecycleProofs`

Any set of orders and deliveries, any batch size, any number of crashes and edits, with and without
failing statements.

| Theorem | Says |
|---|---|
| `TypeCorrectness` | `Spec => []TypeOK` |
| `CompletionIsTrue` | `Spec => []CompletedWasExecuted` |
| `FailureIsTrue` | `Spec => []FailedWasNotExecuted` |
| `CompletionStays` | `Spec => []ConfirmedStaysCompleted` |
| `PayoutsCovered` | `Spec => []PayoutsAreCovered` |
| `PayoutsFollow` | `Spec => []PayoutFollows` |
| `PaidOnce` | `MCSpec => []PaidAtMostOnce`, where `MCSpec` is `Spec` with the history of overlaps |
| `ChargeComesFirst` | `Spec => []ChargedBeforeTokens` |
| `FailureFinal` | `Spec => FailureIsFinal` |
| `WorkEnds` | `Spec => WorkRunsDown`: each step of a handler or a delivery leaves it less to do, no other step leaves it more |
| `ReturnLeavesPending` | `Spec => []ReturnedNotPending`: an execution that returned took its order out of pending, if no statement fails |
| `ExecutionsLeavePending` | `~DbFaults /\ MaxCrashes = 0 => (FairSpec /\ []ReadyIsEnabled => ExecutionLeavesPending)` |
| `DeliveriesProgress` | `FairSpec /\ []ReadyIsEnabled => DeliveriesGoOn`: a delivery with work left comes to have less |
| `Refinement` | `Spec => ImplementsSettlement` |

* `FailedWasNotExecuted` needs `FailureIsKnown` (a handler that is about to write `failed` knows
  the swap is not there, or is `unsure`; and a failed order's handler is done) and
  `NotYetSubmitted` (the contract knows nothing of an order whose handler has not called it).
* `CompletedWasExecuted` needs `EventsAreTrue`: whatever waits in a batch is an executed swap, and
  executed swaps stay executed.
* `PayoutsAreCovered` needs `PayoutIsEarned` (a delivery reaches the payout only over completion
  and record of that very event) and `EventsUnspent` (an event still in a batch has paid nothing),
  which is what makes the transfers of one order use distinct events.
* `ChargedBeforeTokens` needs `HandlerCharged`: past the charge the order is charged.
* `PayoutFollows` needs `PayoutIsNear`. The property lets any delivery at work on the order stand
  in for the transfer; but one that only looks for the row will pass by a completed one, so it does
  not help a second delivery that is cut off. The invariant counts only a delivery at the record,
  at the payout's look-up, at the transfer or at the write of its failure.
* `PaidAtMostOnce` needs `SerialInv`, which speaks only while no two deliveries have overlapped.
  `ClosedOnce` says that an order about to be paid is not open, and that one that was paid was paid
  once, is not open, and has no delivery past the look-up: an event that comes again finds nothing.
  `OneAtATime` says why no delivery can do that behind another's back. It needs no
  assumption that deliveries are finitely many: at the first overlap there are exactly two.

`FailureFinal` and `Refinement` are step properties under `IInv`.

**Progress.** `HandlerLeft` counts the steps a handler may yet take (seven at the start) and
`DeliveryLeft` those of a delivery (six for each event behind the current one, and what the current
one may take). `WorkEnds` says that both run down whatever the others do, so nothing goes
round in circles; that holds with every fault. The
two theorems under fairness add that nothing stands still: whatever a handler has left, it will
have less, and the last step of a handler leaves its order out of pending.

The provers cannot look into `ENABLED`, so `ReadyIsEnabled` is a hypothesis: a handler or
delivery whose action's written guard holds (`HandlerReady`, `DeliveryReady`) can take it. It is a
matter of the form of the actions, in which every primed variable is assigned, and it is no
assumption about the program. TLC finds it true in every reachable state when it is checked as an
invariant, with the constants of `SwapProgress` and also with restarts, edits and failing
statements. What is about the program is proved: that a handler or delivery at work
always has its guard (`HandlerIsReady`, `DeliveryIsReady`), since its row answers whether it is
there or not, and its batch is not empty.

### Approvals and the deployer: `ChainCallProofs`

Any set of orders, wallets and default wallets, any amounts and holdings; any set of calls and any
number of restarts.

| Theorem | Says |
|---|---|
| `ApprovalTypes`, `TypeCorrect` | the types of both, as `[]TypesOK` of the run |
| `AuditTrue` | `ApprovalAssumption /\ Spec => []AuditIsTrue` (the approvals' half of `AnswersAreTrue`) |
| `AllowanceOwed` | `ApprovalAssumption /\ Spec => []AllowanceIsOwed` |
| `RevertCause` | `ApprovalAssumption /\ Spec => []RevertHasCause` |
| `LifecycleRefined` | `ApprovalAssumption /\ Spec => ImplementsLifecycle` |
| `AnswersTrue` | `SpecAll => []AnswersAreTrue` |

* `HandlerInv` says how far the handler's place in the code tells what has become of its
  transactions: nothing before `sign`, a settled and audited approval at `submit`; `AuditIsTrue`
  rests on it.
* `ApprovalStands` says that an executed approval which no other order replaced or used is still the
  whole allowance of its signer until the order's own swap takes it. `RevertHasCause` follows at the
  one step that matters: a swap finds too little at the wallet it names; if its approval was executed,
  signed by that wallet and undisturbed, it stands, and the allowance is the amount.
* `AllowanceIsOwed` keeps its witness in every step but two: an `Approve` is its own new witness,
  and after a swap of the witness from that wallet nothing is left, for the allowance was at most its
  amount.
* `LifecycleRefined` has one lemma per action: the signature, its loss, the wait and the swap of
  `TokenApproval` are the stutters, approvals, submissions and settlements of `SwapLifecycle`.
  It needs `RowInv`: an order has its row from the moment its handler begins.
* `AnswersAreTrue` of the deployer needs `SentOnce` (no request has two transactions) with
  `SentFollows` (a request that has not sent has none), so that a nonce is a place in `sent` and
  belongs to one request; `AwaitedSettled` (an answer after a wait is of a transaction in a block);
  and `NonceCounts`: the nonce a request signs with is past every transaction that was waited for
  before it began. A refusal therefore names a winner that was not waited for.

### Identifiers and amounts: `ArgumentProofs`

Texts of any length, any base of at least two, any word, number of decimals and place of hyphens
that `ArgumentsAssumption` allows.

| Theorem | Says |
|---|---|
| `ConversionsTrue` | `SpecAll => []ArgumentsArrive` |

* The library's induction theorems take a predicate as a parameter, which the provers cannot
  instantiate. `RecursionTheorems` therefore states induction for a set, from well-founded minima,
  and with it shows that recursive functions exist and that a fold over a sequence is computed
  one element at a time. `NumberAppend`, `WithoutAppend`, `PowerSteps` and `ToHexSteps` are those steps;
  everything after them is induction over digits or arithmetic.
* Identifiers: `HexPads` says that `toHex` of a number written with digits gives those digits back
  but for leading zeros, and `ZerosPad` that padding to the number's width restores them.
* Amounts: `NumberConcat` values digits behind others, so `Pieces` and `WithoutDot` give the
  written number as its whole part and its fraction. `ShortFraction` (padded) and `LongFraction`
  (cut) are the two cases of `WeiIsScaled`; a cut fraction is rounded down because the digits that
  are dropped are less than one unit (`NumberBounds`).

### Pools, deposits and rates: `LiquidityLedgerProofs`

Any log of events, any set of calls, both indexers.

| Theorem | Says |
|---|---|
| `TypeCorrect` | `Spec => []TypeOK` |
| `PoolsAreExplained` | `Spec => []BalanceExplained` |
| `AnswersAreApplied` | `Spec => []AnsweredIsApplied` |
| `RatesAreLatest` | `Spec => []RateIsLatest` |
| `IndexerEnds` | `Spec => IndexerRunsDown`: each call and each statement leaves an ordered indexer less to do |
| `IndexerProgress` | `Calls # {} /\ MaxBatch # 0 => (FairSpec /\ []LedgerIsEnabled => LogGoesOn)`: what is left of the log comes to be less |

* `BalanceExplained` compares a balance with a sum over the pool's events. `RecursionTheorems` proves what
  such a sum is: 0 over the empty set, the same under functions that agree, and more by what one
  value grows. The community modules define it by recursion that chooses an element at a
  time; the lemmas show by induction over the subsets of a finite set that the choice does not matter.
  With them a statement adds one event's amount to the balance and to the sum; `OpenedByItsEvent`
  carries the exception of a pool whose first event takes liquidity out.
* `AnsweredIsApplied` needs `PassedIsApplied`: what a call has put behind it is applied although it
  is not yet answered. For pool events that is counting (`HistoryBears`): each answer, and
  each call past the event, has a history row of its own. For the others it is `PassedIsKept`, with the
  wallets known when the call began; wallets are never lost.
* `RateIsLatest` needs `OrderedIndexer`: one call at a time, begun at the cursor, with no rate older
  than the events behind it.
* `WorkLeft`, for an ordered indexer, is the way to the end of the log (three steps for each event)
  and a whole way more for each repeat, failure and restart that may yet come: a failure sends the
  indexer back, but never by more than it costs. `OrderedIndexer` makes the way that of the one
  call under way. `LedgerIsEnabled` is a hypothesis like `ReadyIsEnabled`; TLC finds it and
  `IndexerRunsDown` true with the constants of `Ledger`.

### Guards of an account: `AccessProofs`

Any requests, PINs, sessions, limits and times. The theorems are of `MCAccess`'s specification;
each guard has its own invariant.

| Theorem | Says |
|---|---|
| `TypeCorrect` | `Spec => []TypeOK` |
| `CountersAreExact` | `Spec => []AttemptsAreExact` |
| `EnabledFactorHasSecret` | `Spec => []FactorSecretWasConfirmed` |
| `ClientHoldsToken` | `Spec => []SessionTokenIsHeld` |
| `LocksAreKept` | `Spec => LocksLast` |
| `RequestsUndoNothing` | `Spec => NothingIsUndone` |

What a request has read is still so when it writes, because it was alone: that is `LoginAlone`,
`PinAlone` and `FactorAlone`. `LoginCounts` holds under every overlap: no request has read more
than was counted, and no lock reaches further than one set now; a log-in lock therefore moves
backwards only when a right password clears it. `SecretsAreGenerated` bounds what may be stored. For
sessions the property is inductive with the types: `unheard` and `shared` say all that is needed.

### Caches, feed and listings: `CacheProofs`

Any keys, lifetimes, requests, pairs, page sizes and numbers of rows and changes.

| Theorem | Says |
|---|---|
| `TypeCorrect` | `Spec => []TypeOK` |
| `AnswersStayRecent` | `Spec => []AnswersAreRecent` |
| `DeletionsLast` | `Spec => []WriteSeenUnlessRaced` |
| `SubscriptionIsOne` | `Spec => []OneSubscription` |
| `PagesStayExplained` | `Spec => []PagesAreExplained` |
| `SubscriptionIsTakenUp` | `Spec /\ []FeedIsEnabled => Resubscribes` |

* Contract reads: `ReadsAreShort`, `ReadsWereTrue` and `EntriesWereTrue` follow a version from the
  read over its store to its expiry: it was replaced, if at all, after the read began, so the entry
  expires a lifetime and a read later at most. `DeletionsAreSeen` carries the second theorem.
* Exchange rates: `CopyIsRecent` and `StampIsTrue` bound the age of what is in either cache against
  the clock its request read. The bound for rates that went through both caches is strict (`<`), since
  an entry is dead in the instant it expires; `StampIsTrue` needs it so.
* Feed: only the newest socket lives, and a timer is set exactly if it does not (`NewestLives`);
  `handle` is the interval that runs (`NewestIsPinged`), so stopping it stops the pings. The closed
  newest socket therefore has a timer (`FeedWaits`), and under the fairness of timers and sockets the
  next one opens. `FeedIsEnabled` is a hypothesis for the reason given for `ReadyIsEnabled`; TLC
  finds it true with the constants of `CacheReads`.
* Listings: the properties compare numbers of rows. `Rank` is how many rows come before one; `Passed`
  are the rows the client has gone past unseen, `Returns` those it will meet again. `MissesAreFew` and
  `RepeatsAreFew` are inequalities between their sizes and the rows that left or came; an action
  moves at most one untied row over the `Boundary` for each row it takes or adds.

### Accounts, transfers and summaries: `AccountProofs`

Any requests, users, amounts, wallets, tokens and prices.

| Theorem | Says |
|---|---|
| `TypeCorrect` | `Spec => []TypeOK` |
| `FlagsAreReported` | `Spec => []FlagFollowsEvent` |
| `AnswersAreKept` | `Spec => []AnsweredIsDone` |
| `RemovalTakesAll` | `Spec => RemovalIsWhole` |
| `SummariesAreExplained` | `Spec => []SummaryIsExplained` |

* `FlagFollowsEvent` needs `AccountsAreKept` and `AccountsAreOwn`: until the wallet row of a new
  account is there only a client can have registered it, which `early` records, and from then on the
  row stays as long as the user. So the event of a registration by the server cannot come before the
  row; that of an early client can, and the theorem leaves those accounts out.
* `AnsweredIsDone` needs that references differ, that an answer has its row and that rows are no more
  than the requests that recorded one; audits are counted per user. `SecondRowIsRefused` is the finding
  `TransferRolledBack` as a lemma: the second row that `transferFiat` writes meets the reference of
  the first, whatever the time, the users and the amount.
* `SummaryIsExplained` needs `BalancesArePast` (what was read was held while the summary was
  computed) and `ReadsAreOrdered`; that the total is the price of those amounts is an induction over
  the sum, which may be multiplied term by term.

### What proving changed

Three properties or models had to be made sharper. `ChangeIsProven` was false for a right entry of a PIN
that had meanwhile been replaced, a case the run with two PINs could not reach; `raced` now tells, and
the run has three. The bound on the age of rates became strict. Sums in `WalletSummary`, references in
`AccountProvisioning`'s requests and the deployer's rows were written so that their types can be stated,
and the fairness of `SwapLifecycle`, `LiquidityLedger` and `PragmaFeed` as a conjunction of named parts, one for each
process, since the provers take a temporal formula apart only by its names.

### Only model-checked

* `DeliveryIsAnswered` and `AllAnswered`: a delivery's steps grow with its batch, and an indexer's calls
  with the log, so that their end is an induction over a temporal formula. That cannot be
  stated here: a set cannot be formed with one, and the library's theorems cannot be
  instantiated. What is proved is each step of that induction: a natural number that no step
  raises (`WorkEnds`, `IndexerEnds`) and that always falls (`DeliveriesProgress`,
  `IndexerProgress`).
* `ENABLED`, in `ReadyIsEnabled`, `LedgerIsEnabled` and `FeedIsEnabled`, on which the progress theorems rest.
* The four runs that expect a violation.

## 6. Findings

With a run that shows them: `SwapPayoutForgotten`, `SwapCompletionLost`, `FactorReplaced`,
`TransferRolledBack`.

Seen while modelling, and part of the models where their module exists:

* Overlapping wrong passwords, and overlapping wrong PINs, count once; a wrong PIN entry read
  before the lock lifts it when it is written (`~raced` in `LoginLockout` and `PaymentPin`).
* Overlapping refreshes of one session leave a client with a token no session holds
  (`shared` in `AuthSessions`).
* A read that asked the contract before a change may cache its answer after the change deleted the
  entry (`raced` in `ContractCache`).
* Provisioning answers success without a fiat account and with a reverted registration
  (`excused` in `AccountProvisioning`).
* A client that registers a new account's address before its wallet row is stored makes the event
  pass over the row: the wallet stays unflagged unless the event is delivered again (`early` in
  `AccountProvisioning`), and `executeTokenToFiatSwap` then refuses its user.
* A pool whose first event removes liquidity begins with that amount as its balance
  (`Opening` in `LiquidityLedger`).
* A token-to-fiat swap reverts for want of an allowance when the default wallet is not the wallet
  the order names, when its approval reverted, or when another order of the user replaced or used
  the allowance (`RevertHasCause` in `TokenApproval`); such an order stays in `processing`.
* Two calls of the deployer under way at once take one nonce, and one is refused (`DeployerCalls`).
* Two transfers recorded in one millisecond collide in their reference (`FiatLedger`).
* A client that pages through a listing may miss its last row when a row is created between the
  count and the page (`torn` in `Listings`); the listing of swap orders does not have this.

Seen while reading, outside the models:

* `addFiatToLiquidity` and `addTokenToLiquidity` (liquidity-pool-contract.service.ts:132, :173) pass
  a symbol to `uuidToFelt252`, which wants 32 hexadecimal digits and throws for every real symbol.
* `swapFiatToToken` calls `BigInt` on the fiat amount after the account was charged; a fraction
  throws.
* `getTokenDecimals` of the contract client is 18 for every token; the token service says 6 for USDC.
* `approveTokenWithDeployerCredentials` splits the amount with a 64-bit mask and a 128-bit shift;
  nothing calls it.
* A withdrawal event completes a row by reference and `userId` (liquidity-event-processor.service.ts:350),
  but the event's user is a contract address and no code creates such a row: it never matches.
* `totalValueUSD` (wallet.service.ts:257) is not a number without the rate of the dollar; no row ever
  has the type `SETTLEMENT` and the status `COMPLETED` that the summary counts (:444).
* `GET /wallet/summary` and the contract controller's reads are cached by URL whoever asks
  (wallet.controller.ts:49, contract.controller.ts:7), and "Cache invalidation is now handled by the
  CacheInterceptor" (token-contract.service.ts:175), which invalidates nothing.
* An upgrade checks the class at the liquidity contract's address before an `await` and sends to the
  address after it, which `setLiquidityContractAddress` may have replaced.

## 7. Not modelled

Mock contract client (used by nobody), reads of pools, the routes of the audit log and system
settings (rows nobody else reads), dashboard (fixed numbers), application shell (wiring),
replacement of the liquidity contract's address in memory, encryption and hashing (pure functions
of libraries). Components marked "partly" in `PROJECT.json` name what is left out of them.
