--------------------------- MODULE LiquidityLedger ---------------------------
(***************************************************************************)
(* The tables that the event processor keeps in step with the chain: pool  *)
(* balances and their history, deposits, rates and registered wallets.     *)
(*                                                                         *)
(* The chain's events are the constant Log.  A call of POST                *)
(* /contract/events carries a stretch of it.  Each event is handled by one *)
(* or two statements, every one of them atomic in the database, and the    *)
(* call stops at the first one that throws.  Events carry no number that   *)
(* the processor remembers, so a repeated event is applied again.          *)
(***************************************************************************)
EXTENDS Integers, Sequences, FiniteSets, Functions

CONSTANTS
    Log,          \* the chain's events, oldest first
    Calls,        \* slots for calls of POST /contract/events in flight
    MaxBatch,     \* bound: events that a call carries
    MaxCalls,     \* bound: calls of an indexer that works in any order
    MaxRepeats,   \* bound: calls of an ordered one that carry what was answered before
    MaxFaults,    \* bound: database calls that fail
    MaxCrashes    \* bound: restarts of the server

PoolKinds == {"add", "remove"}
\* "silent" stands for events that change nothing here: a token registration,
\* an unknown or nameless event, and a withdrawal, whose row is sought by a
\* userId that is a contract address and so is never found.
Kinds == PoolKinds \cup {"deposit", "rate", "registered", "silent"}

ASSUME LedgerAssumption ==
    /\ Len(Log) \in Nat
    /\ \A i \in 1..Len(Log) :
         /\ Log[i].kind \in Kinds
         /\ Log[i].kind \in PoolKinds => Log[i].amount \in Nat
    /\ IsFiniteSet(Calls)
    /\ MaxBatch \in Nat /\ MaxCalls \in Nat /\ MaxRepeats \in Nat
    /\ MaxFaults \in Nat /\ MaxCrashes \in Nat

Events    == 1..Len(Log)
OfKind(K) == {i \in Events : Log[i].kind \in K}
Symbols   == {Log[i].symbol : i \in OfKind(PoolKinds)}
Pairs     == {Log[i].pair : i \in OfKind({"rate"})}
Addresses == {Log[i].user : i \in OfKind({"deposit", "registered"})}
NoReference == "none"    \* a deposit without transaction_id

VARIABLES
    inOrder,      \* does the indexer make one call at a time, oldest first?
    call,         \* per slot: place in the code, stretch of the Log, wallets known at the start
    pool,         \* LiquidityPool.balance per symbol
    opened,       \* the event that created the symbol's row, 0 while there is none
    history,      \* PoolHistory rows per event
    deposits,     \* events that left a completed Transaction row
    rate,         \* the event whose rate the ExchangeRate row of a pair holds, or 0
    wallets,      \* addresses with a CryptoWallet row
    registered,   \* addresses whose row says isRegisteredToLiquidity
    torn,         \* history: symbols that lost a history row
    owed,         \* history: how often an event was answered for
    cursor,       \* an indexer that works in order: where it stands in the Log
    repeats, faults, crashes

vars == <<inOrder, call, pool, opened, history, deposits, rate, wallets, registered,
          torn, owed, cursor, repeats, faults, crashes>>

tables  == <<pool, opened, history, deposits, rate, registered>>
indexer == <<owed, cursor>>
limits  == <<inOrder, repeats, faults, crashes>>

Most == IF inOrder THEN MaxRepeats ELSE MaxCalls

Idle == [pc |-> "idle", from |-> 1, at |-> 1, last |-> 1, knew |-> {}]
Busy == {"event", "history", "deposit"}

CallRecords == [pc : Busy \cup {"idle"}, from : Nat \ {0}, at : Nat \ {0}, last : Nat \ {0},
                knew : SUBSET Addresses]

CallsTyped ==
    /\ call \in [Calls -> CallRecords]
    /\ \A c \in Calls : call[c].pc \in Busy =>
         call[c].from <= call[c].at /\ call[c].at <= call[c].last /\ call[c].last <= Len(Log)

TablesTyped ==
    /\ pool       \in [Symbols -> Int]
    /\ opened     \in [Symbols -> Events \cup {0}]
    /\ history    \in [Events -> Nat]
    /\ deposits   \subseteq Events
    /\ rate       \in [Pairs -> Events \cup {0}]
    /\ wallets    \subseteq Addresses
    /\ registered \subseteq wallets

LimitsTyped ==
    /\ inOrder \in BOOLEAN
    /\ torn    \subseteq Symbols
    /\ owed    \in [Events -> Nat]
    /\ cursor  \in Events \cup {0}
    /\ repeats \in 0..Most /\ faults \in 0..MaxFaults /\ crashes \in 0..MaxCrashes

TypeOK == CallsTyped /\ TablesTyped /\ LimitsTyped

Init ==
    /\ inOrder \in BOOLEAN
    /\ call       = [c \in Calls |-> Idle]
    /\ pool       = [s \in Symbols |-> 0]
    /\ opened     = [s \in Symbols |-> 0]
    /\ history    = [i \in Events |-> 0]
    /\ deposits   = {}
    /\ rate       = [p \in Pairs |-> 0]
    /\ wallets    = {}
    /\ registered = {}
    /\ torn       = {}
    /\ owed       = [i \in Events |-> 0]
    /\ cursor     = 0
    /\ repeats = 0 /\ faults = 0 /\ crashes = 0

(***************************************************************************)
(* The indexer and the users.                                              *)
(***************************************************************************)

\* A user gets a CryptoWallet row.
AddWallet(a) ==
    /\ a \notin wallets
    /\ wallets' = wallets \cup {a}
    /\ UNCHANGED <<call, tables, torn, indexer, limits>>

\* A call carries the events i to j.  An indexer that works in order makes one
\* call at a time; it goes on where it stands, or goes back and repeats what was
\* applied before because an answer was lost.
Deliver(c, i, j) ==
    /\ call[c].pc = "idle"
    /\ i <= j /\ j < i + MaxBatch
    /\ inOrder => i <= cursor + 1 /\ \A d \in Calls : call[d].pc = "idle"
    /\ IF inOrder /\ i = cursor + 1
         THEN UNCHANGED repeats
         ELSE repeats < Most /\ repeats' = repeats + 1
    /\ cursor' = IF inOrder THEN i - 1 ELSE cursor
    /\ call' = [call EXCEPT ![c] =
                  [pc |-> "event", from |-> i, at |-> i, last |-> j, knew |-> wallets]]
    /\ UNCHANGED <<tables, wallets, torn, owed, faults, crashes, inOrder>>

(***************************************************************************)
(* process and routeEvent.                                                 *)
(***************************************************************************)
Event(c) == Log[call[c].at]

\* The call goes to a place in the code, at event i of its stretch.
Goes(c, to, i) ==
    call' = [call EXCEPT ![c] = [pc |-> to, from |-> call[c].from, at |-> i,
                                 last |-> call[c].last, knew |-> call[c].knew]]

\* What an answered call answers for: pool, rate and silent events always, the
\* others if the wallet was known when the call began.
Promised(c) ==
    {i \in call[c].from..call[c].last :
       Log[i].kind \in {"deposit", "registered"} => Log[i].user \in call[c].knew}

\* The loop moves to the next event; after the last one the call is answered.
Continue(c) ==
    IF call[c].at < call[c].last
      THEN /\ Goes(c, "event", call[c].at + 1)
           /\ UNCHANGED indexer
      ELSE /\ call' = [call EXCEPT ![c] = Idle]
           /\ owed' = [i \in Events |-> IF i \in Promised(c) THEN owed[i] + 1 ELSE owed[i]]
           /\ cursor' = IF inOrder THEN call[c].last ELSE cursor

\* Mutant: a failing event is logged and the loop goes on.
BreakQuietly(c) ==
    /\ faults < MaxFaults
    /\ faults' = faults + 1
    /\ Continue(c)

\* A database call throws: the call fails and the rest of its events is dropped.
Break(c) ==
    /\ faults < MaxFaults
    /\ faults' = faults + 1
    /\ call' = [call EXCEPT ![c] = Idle]
    /\ UNCHANGED indexer

\* A statement that was carried out: it is answered, or its answer is lost.
Answered(c) == Continue(c) /\ UNCHANGED faults
Then(c)     == Answered(c) \/ Break(c)

\* A statement that was not carried out.
Refuse(c) ==
    /\ call[c].pc \in Busy
    /\ Break(c)
    /\ torn' = IF call[c].pc = "history" THEN torn \cup {Event(c).symbol} ELSE torn
    /\ UNCHANGED <<tables, wallets, repeats, crashes, inOrder>>

\* Mutant: an event of no interest is an error.
IgnoreStrictly(c) ==
    /\ call[c].pc = "event"
    /\ Event(c).kind = "silent"
    /\ call' = [call EXCEPT ![c] = Idle]
    /\ UNCHANGED <<tables, wallets, torn, indexer, limits>>

\* The default branch of routeEvent, and the handlers that change no row.
Ignore(c) ==
    /\ call[c].pc = "event"
    /\ Event(c).kind = "silent"
    /\ Answered(c)
    /\ UNCHANGED <<tables, wallets, torn, repeats, crashes, inOrder>>

\* updateLiquidityPool, first statement: the balance changes by the amount, or
\* the row is created with it, whichever way the liquidity went.
UpsertPool(c) ==
    /\ call[c].pc = "event"
    /\ Event(c).kind \in PoolKinds
    /\ LET e == Event(c)
           added == e.kind = "add" \/ opened[e.symbol] = 0
       IN  /\ pool' = [pool EXCEPT ![e.symbol] = IF added THEN @ + e.amount ELSE @ - e.amount]
           /\ opened' = [opened EXCEPT ![e.symbol] = IF @ = 0 THEN call[c].at ELSE @]
           /\ \/ Goes(c, "history", call[c].at) /\ UNCHANGED <<faults, indexer, torn>>
              \/ Break(c) /\ torn' = torn \cup {e.symbol}
    /\ UNCHANGED <<history, deposits, rate, wallets, registered, repeats, crashes, inOrder>>

\* Mutant: an event that has its history row is not given another.
AddHistoryOnce(c) ==
    /\ call[c].pc = "history"
    /\ history' = [history EXCEPT ![call[c].at] = IF @ = 0 THEN 1 ELSE @]
    /\ Then(c)
    /\ UNCHANGED <<pool, opened, deposits, rate, wallets, registered, torn, repeats, crashes, inOrder>>

\* updateLiquidityPool, second statement: a row of the pool's history.
AddHistory(c) ==
    /\ call[c].pc = "history"
    /\ history' = [history EXCEPT ![call[c].at] = @ + 1]
    /\ Then(c)
    /\ UNCHANGED <<pool, opened, deposits, rate, wallets, registered, torn, repeats, crashes, inOrder>>

\* handleFiatDeposit: a deposit without reference or without a wallet is passed over.
SkipDeposit(c) ==
    /\ call[c].pc = "event"
    /\ Event(c).kind = "deposit"
    /\ Event(c).reference = NoReference \/ Event(c).user \notin wallets
    /\ Answered(c)
    /\ UNCHANGED <<tables, wallets, torn, repeats, crashes, inOrder>>

\* Otherwise the wallet's user is read, ...
FindWallet(c) ==
    /\ call[c].pc = "event"
    /\ Event(c).kind = "deposit"
    /\ Event(c).reference # NoReference
    /\ Event(c).user \in wallets
    /\ Goes(c, "deposit", call[c].at)
    /\ UNCHANGED <<tables, wallets, torn, indexer, limits>>

\* ... then the Transaction row is made, or found by its reference.
UpsertDeposit(c) ==
    /\ call[c].pc = "deposit"
    /\ deposits' = deposits \cup {call[c].at}
    /\ Then(c)
    /\ UNCHANGED <<pool, opened, history, rate, wallets, registered, torn, repeats, crashes, inOrder>>

\* Mutant: a pair that has a rate keeps it.
UpsertRateOnce(c) ==
    /\ call[c].pc = "event"
    /\ Event(c).kind = "rate"
    /\ rate' = [rate EXCEPT ![Event(c).pair] = IF @ = 0 THEN call[c].at ELSE @]
    /\ Then(c)
    /\ UNCHANGED <<pool, opened, history, deposits, wallets, registered, torn, repeats, crashes, inOrder>>

\* handleExchangeRateUpdated.
UpsertRate(c) ==
    /\ call[c].pc = "event"
    /\ Event(c).kind = "rate"
    /\ rate' = [rate EXCEPT ![Event(c).pair] = call[c].at]
    /\ Then(c)
    /\ UNCHANGED <<pool, opened, history, deposits, wallets, registered, torn, repeats, crashes, inOrder>>

\* Mutant: the row is taken to be there.
MarkRegisteredAnyway(c) ==
    /\ call[c].pc = "event"
    /\ Event(c).kind = "registered"
    /\ registered' = registered \cup {Event(c).user}
    /\ Then(c)
    /\ UNCHANGED <<pool, opened, history, deposits, rate, wallets, torn, repeats, crashes, inOrder>>

\* handleUserRegistered: every row of the address, which may be none.
MarkRegistered(c) ==
    /\ call[c].pc = "event"
    /\ Event(c).kind = "registered"
    /\ registered' = registered \cup ({Event(c).user} \cap wallets)
    /\ Then(c)
    /\ UNCHANGED <<pool, opened, history, deposits, rate, wallets, torn, repeats, crashes, inOrder>>

CallStep(c) ==
    \/ Ignore(c) \/ UpsertPool(c) \/ AddHistory(c)
    \/ SkipDeposit(c) \/ FindWallet(c) \/ UpsertDeposit(c)
    \/ UpsertRate(c) \/ MarkRegistered(c)

\* The server restarts: calls are gone, and with them the history rows they owed.
Crash ==
    /\ crashes < MaxCrashes
    /\ crashes' = crashes + 1
    /\ torn' = torn \cup {Event(c).symbol : c \in {d \in Calls : call[d].pc = "history"}}
    /\ call' = [c \in Calls |-> Idle]
    /\ UNCHANGED <<tables, wallets, indexer, repeats, faults, inOrder>>

Next ==
    \/ \E a \in Addresses : AddWallet(a)
    \/ \E c \in Calls : \/ CallStep(c) \/ Refuse(c)
                        \/ \E i, j \in Events : Deliver(c, i, j)
    \/ Crash

Spec == Init /\ [][Next]_vars

\* A call that began runs on, and an indexer that works in order goes on from
\* its cursor and calls again when a call fails.  Nothing is asked of one that
\* works in any order.
CarryOn == inOrder /\ \E c \in Calls : \E j \in Events : Deliver(c, cursor + 1, j)
Proceed(c) == inOrder /\ CallStep(c)

IndexerCarriesOn == WF_vars(CarryOn)
CallProceeds(c)  == WF_vars(Proceed(c))

Fairness == IndexerCarriesOn /\ \A c \in Calls : CallProceeds(c)
FairSpec == Spec /\ Fairness

(***************************************************************************)
(* Properties.                                                             *)
(***************************************************************************)

\* Liquidity that an event moves, for each time it was applied.
Signed(i) == IF Log[i].kind = "add" THEN Log[i].amount ELSE -Log[i].amount

\* Calls that changed the balance for event i and have not written its row.
Unwritten(i) == {c \in Calls : call[c].pc = "history" /\ call[c].at = i}

\* A pool that a removal created counts that removal as an addition once.
Opening(s) ==
    IF opened[s] # 0 /\ Log[opened[s]].kind = "remove" THEN 2 * Log[opened[s]].amount ELSE 0

\* What the history of a pool says of its balance, event by event.
PoolEvents(s) == {i \in OfKind(PoolKinds) : Log[i].symbol = s}
Explained(s)  == [i \in PoolEvents(s) |-> Signed(i) * (history[i] + Cardinality(Unwritten(i)))]

\* A pool's balance is explained row by row by its history, for any interleaving,
\* repetition and failure of calls, unless a call lost the history row it owed:
\* balances are incremented in the database and never read and written back.
BalanceExplained ==
    \A s \in Symbols \ torn : pool[s] = Opening(s) + SumFunction(Explained(s))

\* A call that is answered has done everything it was asked: each answer for a
\* pool event has a history row of its own, each answered deposit or
\* registration of a wallet known at the time is in the tables.
AnsweredIsApplied ==
    \A i \in Events : owed[i] > 0 =>
      CASE Log[i].kind \in PoolKinds -> history[i] >= owed[i]
        [] Log[i].kind = "deposit"   -> i \in deposits \/ Log[i].reference = NoReference
        [] Log[i].kind = "rate"      -> rate[Log[i].pair] # 0
        [] Log[i].kind = "registered" -> Log[i].user \in registered
        [] OTHER -> TRUE

\* With an indexer that works in order, no pair's rate is older than the events
\* the indexer has put behind it, whatever was repeated or failed half way.
RateIsLatest ==
    inOrder => \A i \in OfKind({"rate"}) : i <= cursor => rate[Log[i].pair] >= i

\* However calls fail, repeat or are cut off by restarts, an indexer that calls
\* again gets every event of the chain answered for: no event blocks those
\* behind it.
AllAnswered == inOrder => <>(cursor = Len(Log))

=============================================================================
