------------------------ MODULE LiquidityLedgerProofs ------------------------
(***************************************************************************)
(* Theorems about LiquidityLedger for every Log, any number of calls in    *)
(* flight and both kinds of indexer.                                       *)
(***************************************************************************)
EXTENDS LiquidityLedger, RecursionTheorems, TLAPS

\* The place of a call says the kind of the event it stands at.
PlaceFitsEvent ==
    \A c \in Calls :
      /\ call[c].pc = "history" => Event(c).kind \in PoolKinds
      /\ call[c].pc = "deposit" => Event(c).kind = "deposit"

\* A pool's row was created by an event of that pool.
OpenedByItsEvent == \A s \in Symbols : opened[s] # 0 => opened[s] \in PoolEvents(s)

\* Calls that have put event i behind them and are not answered yet.
Past(i) == {c \in Calls : call[c].pc \in Busy /\ call[c].from <= i /\ i < call[c].at}

\* Event i is in the tables, as far as an answer promises it.
Kept(i) ==
    CASE Log[i].kind \in PoolKinds  -> TRUE
      [] Log[i].kind = "deposit"    -> i \in deposits \/ Log[i].reference = NoReference
      [] Log[i].kind = "rate"       -> rate[Log[i].pair] # 0
      [] Log[i].kind = "registered" -> Log[i].user \in registered
      [] OTHER -> TRUE

\* Answers given for event i and calls that have it behind them.
Burden(i) == owed[i] + Cardinality(Past(i))

\* Each answer for a pool event, and each call that has it behind it, has a
\* history row of its own.
HistoryBears == \A i \in OfKind(PoolKinds) : history[i] >= Burden(i)

\* The other events are kept as soon as a call that promises them has passed them.
PassedIsKept ==
    /\ \A c \in Calls : call[c].knew \subseteq wallets
    /\ \A i \in Events : owed[i] > 0 => Kept(i)
    /\ \A c \in Calls : \A i \in Promised(c) : c \in Past(i) => Kept(i)

PassedIsApplied == HistoryBears /\ PassedIsKept

\* No rate is older than the events up to n.
RatesUpTo(n) == \A i \in OfKind({"rate"}) : i <= n => rate[Log[i].pair] >= i

\* An ordered indexer has one call under way, which began at its cursor and has
\* left no rate older than the events behind it.
OrderedIndexer ==
    inOrder =>
      /\ RatesUpTo(cursor)
      /\ \A c, d \in Calls : call[c].pc \in Busy /\ call[d].pc \in Busy => c = d
      /\ \A c \in Calls : call[c].pc \in Busy =>
           call[c].from = cursor + 1 /\ RatesUpTo(call[c].at - 1)

\* The inductive invariant.
IInv == /\ TypeOK /\ PlaceFitsEvent /\ OpenedByItsEvent /\ BalanceExplained
        /\ PassedIsApplied /\ OrderedIndexer

-----------------------------------------------------------------------------

LEMMA EventFacts ==
  /\ Events \subseteq Nat \ {0}
  /\ \A i \in Nat \ {0} : i <= Len(Log) => i \in Events
  /\ \A i \in Events : /\ i <= Len(Log)
                       /\ Log[i].kind \in PoolKinds => /\ Log[i].symbol \in Symbols
                                                       /\ Log[i].amount \in Nat
                       /\ Log[i].kind = "rate" => Log[i].pair \in Pairs
                       /\ Log[i].kind = "registered" => Log[i].user \in Addresses
BY LedgerAssumption, SMT
   DEF Events, OfKind, PoolKinds, Symbols, Pairs, Addresses

LEMMA InitIsTyped == Init => TypeOK /\ PlaceFitsEvent
BY LedgerAssumption, EventFacts, SMT
   DEF Init, TypeOK, CallsTyped, CallRecords, TablesTyped, LimitsTyped, PlaceFitsEvent, Idle, Busy, Most

CallsFit == CallsTyped /\ PlaceFitsEvent

LEMMA CallStops ==
  ASSUME CallsFit, NEW c \in Calls, call' = [call EXCEPT ![c] = Idle]
  PROVE  CallsFit'
BY SMT DEF CallsFit, CallsTyped, CallRecords, PlaceFitsEvent, Event, Idle, Busy


LEMMA CallGoes ==
  ASSUME CallsFit, NEW c \in Calls, call[c].pc \in Busy, NEW to \in Busy, NEW i \in Nat,
         Goes(c, to, i),
         i = call[c].at \/ (i = call[c].at + 1 /\ i <= call[c].last),
         to = "history" => Log[i].kind \in PoolKinds,
         to = "deposit" => Log[i].kind = "deposit"
  PROVE  CallsFit'
BY SMT DEF Goes, CallsFit, CallsTyped, CallRecords, PlaceFitsEvent, Event, Idle, Busy

LEMMA CallContinues ==
  ASSUME CallsFit, NEW c \in Calls, call[c].pc \in Busy, Continue(c)
  PROVE  CallsFit'
<1>1. call[c].at \in Nat \ {0} /\ call[c].last \in Nat \ {0} /\ call[c].at <= call[c].last
  BY DEF CallsFit, CallsTyped, CallRecords
<1>2. CASE call[c].at < call[c].last
  BY <1>1, <1>2, CallGoes, SMT DEF Continue, Busy
<1>3. CASE ~(call[c].at < call[c].last)
  BY <1>3, CallStops, SMT DEF Continue
<1>. QED  BY <1>2, <1>3

LEMMA CallThen ==
  ASSUME CallsFit, NEW c \in Calls, call[c].pc \in Busy, Then(c)
  PROVE  CallsFit'
BY CallContinues, CallStops DEF Then, Answered, Break

LEMMA PlacesAreBusy ==
  {"event", "history", "deposit"} \subseteq Busy
BY DEF Busy

LEMMA CallsStep == TypeOK /\ PlaceFitsEvent /\ [Next]_vars => CallsFit'
<1> SUFFICES ASSUME TypeOK, CallsFit, [Next]_vars PROVE CallsFit'
  BY DEF TypeOK, CallsFit
<1> USE PlacesAreBusy
<1>1. ASSUME NEW a \in Addresses, AddWallet(a) PROVE CallsFit'
  BY <1>1 DEF AddWallet, CallsFit, CallsTyped, PlaceFitsEvent, Event
<1>2. ASSUME NEW c \in Calls, Ignore(c) PROVE CallsFit'
  BY <1>2, CallContinues DEF Ignore, Answered
<1>3. ASSUME NEW c \in Calls, UpsertPool(c) PROVE CallsFit'
  <2>1. CASE Break(c)
    BY <2>1, CallStops DEF Break
  <2>2. CASE Goes(c, "history", call[c].at)
    <3>1. call[c].at \in Nat /\ call[c].pc \in Busy
      BY <1>3 DEF UpsertPool, CallsFit, CallsTyped, CallRecords
    <3>. QED  BY <1>3, <2>2, <3>1, CallGoes DEF UpsertPool, Event
  <2>. QED  BY <1>3, <2>1, <2>2 DEF UpsertPool
<1>4. ASSUME NEW c \in Calls, AddHistory(c) PROVE CallsFit'
  BY <1>4, CallThen DEF AddHistory
<1>5. ASSUME NEW c \in Calls, SkipDeposit(c) PROVE CallsFit'
  BY <1>5, CallContinues DEF SkipDeposit, Answered
<1>6. ASSUME NEW c \in Calls, FindWallet(c) PROVE CallsFit'
  <2>1. call[c].at \in Nat /\ call[c].pc \in Busy
    BY <1>6 DEF FindWallet, CallsFit, CallsTyped, CallRecords
  <2>. QED  BY <1>6, <2>1, CallGoes DEF FindWallet, Event
<1>7. ASSUME NEW c \in Calls, UpsertDeposit(c) PROVE CallsFit'
  BY <1>7, CallThen DEF UpsertDeposit
<1>8. ASSUME NEW c \in Calls, UpsertRate(c) PROVE CallsFit'
  BY <1>8, CallThen DEF UpsertRate
<1>9. ASSUME NEW c \in Calls, MarkRegistered(c) PROVE CallsFit'
  BY <1>9, CallThen DEF MarkRegistered
<1>10. ASSUME NEW c \in Calls, Refuse(c) PROVE CallsFit'
  BY <1>10, CallStops DEF Refuse, Break
<1>11. ASSUME NEW c \in Calls, NEW i \in Events, NEW j \in Events, Deliver(c, i, j)
       PROVE  CallsFit'
  <2>1. i \in Nat \ {0} /\ j \in Nat \ {0} /\ i <= j /\ j <= Len(Log) /\ wallets \subseteq Addresses
    BY <1>11, EventFacts DEF Deliver, TypeOK, TablesTyped
  <2>2. call' = [call EXCEPT ![c] = [pc |-> "event", from |-> i, at |-> i, last |-> j, knew |-> wallets]]
    BY <1>11 DEF Deliver
  <2>. QED  BY <2>1, <2>2, SMT DEF CallsFit, CallsTyped, CallRecords, PlaceFitsEvent, Event, Busy
<1>12. CASE Crash
  BY <1>12, SMT DEF Crash, CallsFit, CallsTyped, CallRecords, PlaceFitsEvent, Event, Idle, Busy
<1>13. CASE UNCHANGED vars
  BY <1>13 DEF vars, CallsFit, CallsTyped, PlaceFitsEvent, Event
<1>. QED
  BY <1>1, <1>2, <1>3, <1>4, <1>5, <1>6, <1>7, <1>8, <1>9, <1>10, <1>11, <1>12, <1>13
     DEF Next, CallStep

\* The event that a call under way stands at.
LEMMA EventHere ==
  ASSUME CallsFit, NEW c \in Calls, call[c].pc \in Busy
  PROVE  /\ call[c].at \in Events /\ call[c].last \in Events /\ call[c].from \in Events
         /\ call[c].at <= call[c].last
         /\ Event(c).kind \in PoolKinds => /\ Event(c).symbol \in Symbols
                                           /\ Event(c).amount \in Nat
         /\ Event(c).kind = "rate" => Event(c).pair \in Pairs
         /\ Event(c).kind = "registered" => Event(c).user \in Addresses
<1>1. /\ call[c].at \in Nat \ {0} /\ call[c].last \in Nat \ {0} /\ call[c].from \in Nat \ {0}
      /\ call[c].at <= call[c].last /\ call[c].from <= call[c].at /\ call[c].last <= Len(Log)
  BY DEF CallsFit, CallsTyped, CallRecords
<1>2. Len(Log) \in Nat
  BY LedgerAssumption
<1>3. call[c].at \in Events /\ call[c].last \in Events /\ call[c].from \in Events
  BY <1>1, <1>2, EventFacts
<1>. QED  BY <1>1, <1>3, EventFacts DEF Event

LEMMA TablesStep == TypeOK /\ PlaceFitsEvent /\ [Next]_vars => TablesTyped'
<1> SUFFICES ASSUME TypeOK, CallsFit, TablesTyped, [Next]_vars PROVE TablesTyped'
  BY DEF TypeOK, CallsFit
<1> USE PlacesAreBusy DEF TablesTyped, tables
<1>1. ASSUME NEW a \in Addresses, AddWallet(a) PROVE TablesTyped'
  BY <1>1 DEF AddWallet
<1>2. ASSUME NEW c \in Calls, Ignore(c) \/ SkipDeposit(c) \/ FindWallet(c) \/ Refuse(c)
      PROVE  TablesTyped'
  BY <1>2 DEF Ignore, SkipDeposit, FindWallet, Refuse
<1>3. ASSUME NEW c \in Calls, UpsertPool(c) PROVE TablesTyped'
  <2>. DEFINE e == Event(c)
  <2>1. e.symbol \in Symbols /\ e.amount \in Nat /\ call[c].at \in Events
    BY <1>3, EventHere DEF UpsertPool
  <2>2. pool[e.symbol] + e.amount \in Int /\ pool[e.symbol] - e.amount \in Int
    BY <2>1
  <2>3. pool' \in [Symbols -> Int]
    BY <1>3, <2>2 DEF UpsertPool
  <2>4. opened' \in [Symbols -> Events \cup {0}]
    BY <1>3, <2>1 DEF UpsertPool
  <2>. QED  BY <1>3, <2>3, <2>4 DEF UpsertPool
<1>4. ASSUME NEW c \in Calls, AddHistory(c) PROVE TablesTyped'
  <2>1. call[c].at \in Events
    BY <1>4, EventHere DEF AddHistory
  <2>. QED  BY <1>4, <2>1 DEF AddHistory
<1>5. ASSUME NEW c \in Calls, UpsertDeposit(c) PROVE TablesTyped'
  BY <1>5, EventHere DEF UpsertDeposit
<1>6. ASSUME NEW c \in Calls, UpsertRate(c) PROVE TablesTyped'
  BY <1>6, EventHere DEF UpsertRate
<1>7. ASSUME NEW c \in Calls, MarkRegistered(c) PROVE TablesTyped'
  BY <1>7 DEF MarkRegistered
<1>8. ASSUME NEW c \in Calls, NEW i \in Events, NEW j \in Events, Deliver(c, i, j)
      PROVE  TablesTyped'
  BY <1>8 DEF Deliver
<1>9. CASE Crash \/ UNCHANGED vars
  BY <1>9 DEF Crash, vars
<1>. QED
  BY <1>1, <1>2, <1>3, <1>4, <1>5, <1>6, <1>7, <1>8, <1>9 DEF Next, CallStep

LEMMA LimitsStep == TypeOK /\ PlaceFitsEvent /\ [Next]_vars => LimitsTyped'
<1> SUFFICES ASSUME TypeOK, CallsFit, LimitsTyped, [Next]_vars PROVE LimitsTyped'
  BY DEF TypeOK, CallsFit
<1> USE PlacesAreBusy, LedgerAssumption DEF LimitsTyped, limits, indexer, Most
<1>1. ASSUME NEW c \in Calls, call[c].pc \in Busy, Continue(c)
      PROVE  owed' \in [Events -> Nat] /\ cursor' \in Events \cup {0}
  BY <1>1, EventHere DEF Continue
<1>2. ASSUME NEW c \in Calls, call[c].pc \in Busy, Then(c)
      PROVE  owed' \in [Events -> Nat] /\ cursor' \in Events \cup {0} /\ faults' \in 0..MaxFaults
  BY <1>1, <1>2 DEF Then, Answered, Break
<1>3. ASSUME NEW a \in Addresses, AddWallet(a) PROVE LimitsTyped'
  BY <1>3 DEF AddWallet
<1>4. ASSUME NEW c \in Calls, Ignore(c) \/ SkipDeposit(c) PROVE LimitsTyped'
  BY <1>1, <1>4 DEF Ignore, SkipDeposit, Answered
<1>5. ASSUME NEW c \in Calls, FindWallet(c) PROVE LimitsTyped'
  BY <1>5 DEF FindWallet
<1>6. ASSUME NEW c \in Calls, UpsertPool(c) PROVE LimitsTyped'
  BY <1>6, EventHere DEF UpsertPool, Break
<1>7. ASSUME NEW c \in Calls, AddHistory(c) PROVE LimitsTyped'
  BY <1>2, <1>7 DEF AddHistory
<1>8. ASSUME NEW c \in Calls, UpsertDeposit(c) PROVE LimitsTyped'
  BY <1>2, <1>8 DEF UpsertDeposit
<1>9. ASSUME NEW c \in Calls, UpsertRate(c) PROVE LimitsTyped'
  BY <1>2, <1>9 DEF UpsertRate
<1>10. ASSUME NEW c \in Calls, MarkRegistered(c) PROVE LimitsTyped'
  BY <1>2, <1>10 DEF MarkRegistered
<1>11. ASSUME NEW c \in Calls, Refuse(c) PROVE LimitsTyped'
  BY <1>11, EventHere DEF Refuse, Break, CallsFit, PlaceFitsEvent
<1>12. ASSUME NEW c \in Calls, NEW i \in Events, NEW j \in Events, Deliver(c, i, j)
       PROVE  LimitsTyped'
  <2>1. i - 1 \in Events \cup {0}
    BY EventFacts
  <2>2. repeats' \in 0..Most
    BY <1>12 DEF Deliver
  <2>. QED  BY <1>12, <2>1, <2>2 DEF Deliver
<1>13. CASE Crash
  <2>1. \A c \in Calls : call[c].pc = "history" => Event(c).symbol \in Symbols
    BY EventHere DEF CallsFit, PlaceFitsEvent
  <2>. QED  BY <1>13, <2>1 DEF Crash
<1>14. CASE UNCHANGED vars
  BY <1>14 DEF vars
<1>. QED
  BY <1>3, <1>4, <1>5, <1>6, <1>7, <1>8, <1>9, <1>10, <1>11, <1>12, <1>13, <1>14
     DEF Next, CallStep

LEMMA TypeStep == TypeOK /\ PlaceFitsEvent /\ [Next]_vars => TypeOK' /\ PlaceFitsEvent'
BY CallsStep, TablesStep, LimitsStep DEF TypeOK, CallsFit

-----------------------------------------------------------------------------
(***************************************************************************)
(* The balance of a pool.                                                  *)
(***************************************************************************)
Weight(i) == history[i] + Cardinality(Unwritten(i))

LEMMA UnwrittenFinite ==
  ASSUME NEW i
  PROVE  IsFiniteSet(Unwritten(i)) /\ Cardinality(Unwritten(i)) \in Nat
BY LedgerAssumption, FS_Subset, FS_CardinalityType DEF Unwritten

LEMMA OneMoreCall ==
  ASSUME NEW S, IsFiniteSet(S), NEW x, x \notin S
  PROVE  Cardinality(S \cup {x}) = Cardinality(S) + 1
BY FS_AddElement

LEMMA PoolEventsFinite ==
  ASSUME NEW s
  PROVE  IsFiniteSet(PoolEvents(s)) /\ PoolEvents(s) \subseteq Events
<1>1. IsFiniteSet(Events)
  BY LedgerAssumption, FS_Interval DEF Events
<1>. QED  BY <1>1, FS_Subset DEF PoolEvents, OfKind

LEMMA SignedInt == \A i \in OfKind(PoolKinds) : Signed(i) \in Int
BY LedgerAssumption DEF Signed, OfKind, Events

LEMMA ExplainedTerms ==
  ASSUME TablesTyped, NEW s
  PROVE  /\ DOMAIN Explained(s) = PoolEvents(s)
         /\ \A i \in PoolEvents(s) : /\ Explained(s)[i] = Signed(i) * Weight(i)
                                     /\ Signed(i) \in Int /\ Weight(i) \in Nat
                                     /\ Explained(s)[i] \in Int
<1>1. \A i \in PoolEvents(s) : Signed(i) \in Int /\ Weight(i) \in Nat
  BY UnwrittenFinite, SignedInt DEF Weight, PoolEvents, OfKind, TablesTyped
<1>2. DOMAIN Explained(s) = PoolEvents(s) /\ \A i \in PoolEvents(s) : Explained(s)[i] = Signed(i) * Weight(i)
  BY DEF Explained, Weight
<1>. QED  BY <1>1, <1>2

LEMMA OpeningInt ==
  ASSUME TablesTyped, OpenedByItsEvent, NEW s \in Symbols
  PROVE  Opening(s) \in Int
BY LedgerAssumption DEF TablesTyped, OpenedByItsEvent, Opening, PoolEvents, OfKind, Events

LEMMA OpenedStep == TypeOK /\ PlaceFitsEvent /\ OpenedByItsEvent /\ [Next]_vars => OpenedByItsEvent'
<1> SUFFICES ASSUME TypeOK, CallsFit, TablesTyped, OpenedByItsEvent, [Next]_vars
             PROVE  OpenedByItsEvent'
  BY DEF TypeOK, CallsFit
<1> USE PlacesAreBusy DEF OpenedByItsEvent, tables
<1>1. ASSUME NEW c \in Calls, UpsertPool(c) PROVE OpenedByItsEvent'
  <2>1. call[c].at \in PoolEvents(Event(c).symbol) /\ Event(c).symbol \in Symbols
    BY <1>1, EventHere DEF UpsertPool, PoolEvents, OfKind, Event
  <2>. QED  BY <1>1, <2>1 DEF UpsertPool, TablesTyped
<1>2. ASSUME NEW c \in Calls, CallStep(c), ~UpsertPool(c) PROVE OpenedByItsEvent'
  BY <1>2 DEF CallStep, Ignore, AddHistory, SkipDeposit, FindWallet, UpsertDeposit,
              UpsertRate, MarkRegistered
<1>3. CASE (\E a \in Addresses : AddWallet(a)) \/ Crash \/ UNCHANGED vars
  BY <1>3 DEF AddWallet, Crash, vars
<1>4. ASSUME NEW c \in Calls, Refuse(c) \/ \E i, j \in Events : Deliver(c, i, j)
      PROVE  OpenedByItsEvent'
  BY <1>4 DEF Refuse, Deliver
<1>. QED  BY <1>1, <1>2, <1>3, <1>4 DEF Next

\* A pool whose row does not change, nor the weights of its events, stays explained.
LEMMA PoolUnmoved ==
  ASSUME TablesTyped, TablesTyped', NEW s \in Symbols,
         pool[s] = Opening(s) + SumFunction(Explained(s)),
         pool'[s] = pool[s], opened'[s] = opened[s],
         \A i \in PoolEvents(s) : Weight(i)' = Weight(i)
  PROVE  (pool[s] = Opening(s) + SumFunction(Explained(s)))'
<1>1. Explained(s)' = Explained(s)
  BY DEF Explained, Weight
<1>2. Opening(s)' = Opening(s)
  BY DEF Opening
<1>. QED  BY <1>1, <1>2

\* The balance changes by as much as the history that the call now owes.
LEMMA UpsertExplained ==
  ASSUME TypeOK, CallsFit, OpenedByItsEvent, TablesTyped', OpenedByItsEvent',
         NEW c \in Calls, NEW k, k = call[c].at, UpsertPool(c), Goes(c, "history", k),
         NEW s \in Symbols, pool[s] = Opening(s) + SumFunction(Explained(s))
  PROVE  (pool[s] = Opening(s) + SumFunction(Explained(s)))'
<1>. USE PlacesAreBusy DEF TypeOK
<1>. DEFINE e == Log[k]
<1>1. /\ call[c].pc = "event" /\ e.kind \in PoolKinds /\ e = Log[k]
      /\ history' = history
      /\ pool' = [pool EXCEPT ![e.symbol] =
                    IF e.kind = "add" \/ opened[e.symbol] = 0 THEN @ + e.amount ELSE @ - e.amount]
      /\ opened' = [opened EXCEPT ![e.symbol] = IF @ = 0 THEN k ELSE @]
  BY DEF UpsertPool, Event
<1>2. k \in Events /\ e.symbol \in Symbols /\ e.amount \in Nat /\ k \in PoolEvents(e.symbol)
  BY <1>1, EventHere DEF PoolEvents, OfKind, Event
<1>3. \A d \in Calls \ {c} : call'[d] = call[d]
  BY DEF Goes, CallsFit, CallsTyped
<1>4. call'[c].pc = "history" /\ call'[c].at = k
  BY DEF Goes, CallsFit, CallsTyped
<1>5. \A i \in Events \ {k} : Weight(i)' = Weight(i)
  <2>. SUFFICES ASSUME NEW i \in Events \ {k} PROVE Unwritten(i)' = Unwritten(i)
    BY <1>1 DEF Weight
  <2>. QED  BY <1>1, <1>3, <1>4 DEF Unwritten
<1>6. Weight(k)' = Weight(k) + 1
  <2>1. Unwritten(k)' = Unwritten(k) \cup {c} /\ c \notin Unwritten(k)
    BY <1>1, <1>3, <1>4 DEF Unwritten
  <2>2. Cardinality(Unwritten(k)') = Cardinality(Unwritten(k)) + 1
    BY <2>1, UnwrittenFinite, OneMoreCall, Zenon
  <2>3. history[k] \in Nat /\ Cardinality(Unwritten(k)) \in Nat
    BY <1>2, UnwrittenFinite DEF TablesTyped
  <2>. QED  BY <1>1, <2>2, <2>3 DEF Weight
<1>. HIDE DEF e
<1>7. CASE s # e.symbol
  <2>1. pool'[s] = pool[s] /\ opened'[s] = opened[s]
    BY <1>1, <1>2, <1>7 DEF TablesTyped
  <2>2. k \notin PoolEvents(s)
    BY <1>2, <1>7 DEF PoolEvents
  <2>3. \A i \in PoolEvents(s) : Weight(i)' = Weight(i)
    BY <1>5, <2>2, PoolEventsFinite
  <2>. QED  BY <2>1, <2>3, PoolUnmoved
<1>8. CASE s = e.symbol
  <2>. DEFINE S == PoolEvents(s)
              f == Explained(s)
              g == Explained(s)'
  <2>1. k \in S /\ IsFiniteSet(S) /\ S \subseteq Events
    BY <1>2, <1>8, PoolEventsFinite
  <2>2. /\ DOMAIN f = S /\ DOMAIN g = S
        /\ \A i \in S : f[i] \in Int
        /\ \A i \in S : f[i] = Signed(i) * Weight(i) /\ Signed(i) \in Int /\ Weight(i) \in Nat
    BY ExplainedTerms DEF Explained
  <2>3. \A i \in S : g[i] = Signed(i) * Weight(i)'
    BY DEF Explained, Weight
  <2>4. \A i \in S \ {k} : g[i] = f[i]
    BY <1>5, <2>1, <2>2, <2>3
  <2>5. g[k] = f[k] + Signed(k) /\ Signed(k) \in Int /\ f[k] \in Int
    <3>1. \A a \in Int, b \in Nat : a * (b + 1) = (a * b) + a
      OBVIOUS
    <3>2. g[k] = Signed(k) * (Weight(k) + 1) /\ f[k] = Signed(k) * Weight(k)
      BY <1>6, <2>1, <2>2, <2>3
    <3>3. Signed(k) \in Int /\ Weight(k) \in Nat /\ f[k] \in Int
      BY <2>1, <2>2
    <3>. HIDE DEF f, g
    <3>. QED  BY <3>1, <3>2, <3>3
  <2>6. SumFunctionOnSet(g, S) = SumFunctionOnSet(f, S) + (g[k] - f[k])
    <3>1. g[k] \in Int
      BY <2>5
    <3>. HIDE DEF f, g, S
    <3>. QED  BY <2>1, <2>2, <2>4, <3>1, SumChange
  <2>7. SumFunctionOnSet(f, S) \in Int
    BY <2>1, <2>2, SumInt
  <2>8. SumFunction(g) = SumFunction(f) + Signed(k) /\ SumFunction(f) \in Int
    <3>1. SumFunction(g) = SumFunctionOnSet(g, S) /\ SumFunction(f) = SumFunctionOnSet(f, S)
      BY <2>2 DEF SumFunction
    <3>. HIDE DEF f, g, S
    <3>. QED  BY <2>5, <2>6, <2>7, <3>1
  <2>9. Opening(s) \in Int /\ pool[s] \in Int
    BY OpeningInt DEF TablesTyped
  <2>10. pool'[s] = pool[s] + Signed(k) + (Opening(s)' - Opening(s)) /\ Opening(s)' \in Int
    <3>1. Signed(k) = IF e.kind = "add" THEN e.amount ELSE -e.amount
      BY <1>1 DEF Signed
    <3>2. k # 0
      BY <1>2, EventFacts
    <3>3. CASE opened[s] # 0
      <4>1. opened'[s] = opened[s]
        BY <1>1, <1>2, <1>8, <3>3 DEF TablesTyped
      <4>2. Opening(s)' = Opening(s)
        BY <4>1 DEF Opening
      <4>3. pool'[s] = pool[s] + Signed(k)
        BY <1>1, <1>2, <1>8, <2>9, <3>1, <3>3 DEF TablesTyped
      <4>. QED  BY <2>9, <4>2, <4>3, <1>2, <3>1
    <3>4. CASE opened[s] = 0
      <4>1. opened'[s] = k /\ pool'[s] = pool[s] + e.amount
        BY <1>1, <1>2, <1>8, <3>4 DEF TablesTyped
      <4>2. Opening(s) = 0 /\ Opening(s)' = IF e.kind = "remove" THEN 2 * e.amount ELSE 0
        <5>1. Opening(s) = 0
          BY <3>4 DEF Opening
        <5>2. Log[opened'[s]] = e /\ opened'[s] # 0
          BY <1>1, <3>2, <4>1
        <5>. QED  BY <5>1, <5>2, Zenon DEF Opening
      <4>3. e.kind = "add" \/ e.kind = "remove"
        BY <1>1 DEF PoolKinds
      <4>. QED  BY <1>2, <2>9, <3>1, <4>1, <4>2, <4>3
    <3>. QED  BY <3>3, <3>4
  <2>. HIDE DEF S, f
  <2>11. pool'[s] = Opening(s)' + SumFunction(g)
    <3>1. pool[s] = Opening(s) + SumFunction(f)
      BY DEF f
    <3>2. Signed(k) \in Int
      BY <2>5
    <3>. HIDE DEF g
    <3>. QED  BY <2>8, <2>9, <2>10, <3>1, <3>2
  <2>. QED  BY <2>11
<1>. QED  BY <1>7, <1>8

\* A call that moves on, or stops, is not at a history row afterwards.
LEMMA CallLeaves ==
  ASSUME CallsFit, NEW c \in Calls, Then(c) \/ Goes(c, "deposit", call[c].at)
  PROVE  call'[c].pc # "history" /\ \A d \in Calls \ {c} : call'[d] = call[d]
BY DEF Then, Answered, Continue, Break, Goes, Idle, CallsFit, CallsTyped

LEMMA UnwrittenSame ==
  ASSUME CallsFit, NEW c \in Calls, call[c].pc # "history",
         Then(c) \/ Goes(c, "deposit", call[c].at), NEW i
  PROVE  Unwritten(i)' = Unwritten(i)
BY CallLeaves DEF Unwritten

LEMMA AddHistoryWeighs ==
  ASSUME CallsFit, TablesTyped, NEW c \in Calls, AddHistory(c), NEW i \in Events
  PROVE  Weight(i)' = Weight(i)
<1>1. call[c].at \in Events /\ call[c].pc = "history"
  BY EventHere, PlacesAreBusy DEF AddHistory
<1>2. call'[c].pc # "history" /\ \A d \in Calls \ {c} : call'[d] = call[d]
  BY CallLeaves DEF AddHistory
<1>3. history' = [history EXCEPT ![call[c].at] = @ + 1]
  BY DEF AddHistory
<1>4. CASE i = call[c].at
  <2>1. Unwritten(i)' = Unwritten(i) \ {c} /\ c \in Unwritten(i)
    BY <1>1, <1>2, <1>4 DEF Unwritten
  <2>2. Cardinality(Unwritten(i)') = Cardinality(Unwritten(i)) - 1
    BY <2>1, UnwrittenFinite, FS_RemoveElement
  <2>3. history'[i] = history[i] + 1 /\ history[i] \in Nat /\ Cardinality(Unwritten(i)) \in Nat
    BY <1>1, <1>3, <1>4, UnwrittenFinite DEF TablesTyped
  <2>. QED  BY <2>2, <2>3 DEF Weight
<1>5. CASE i # call[c].at
  <2>1. Unwritten(i)' = Unwritten(i)
    BY <1>1, <1>2, <1>5 DEF Unwritten
  <2>2. history'[i] = history[i]
    BY <1>1, <1>3, <1>5 DEF TablesTyped
  <2>. QED  BY <2>1, <2>2 DEF Weight
<1>. QED  BY <1>4, <1>5

LEMMA BalanceStep ==
  TypeOK /\ PlaceFitsEvent /\ OpenedByItsEvent /\ BalanceExplained /\ [Next]_vars => BalanceExplained'
<1> SUFFICES ASSUME TypeOK, CallsFit, OpenedByItsEvent, BalanceExplained, [Next]_vars,
                    NEW s \in Symbols, s \notin torn'
             PROVE  (pool[s] = Opening(s) + SumFunction(Explained(s)))'
  <2>1. Symbols' = Symbols
    OBVIOUS
  <2>. QED  BY <2>1 DEF TypeOK, CallsFit, BalanceExplained
<1>1. TablesTyped /\ TablesTyped' /\ CallsFit' /\ OpenedByItsEvent'
  BY TablesStep, CallsStep, OpenedStep DEF TypeOK, CallsFit
<1> USE <1>1, PlacesAreBusy DEF tables, indexer, limits
\* Steps that leave the pools alone, and the history rows owed to them.
<1>2. ASSUME s \notin torn, pool' = pool, opened' = opened,
             \A i \in PoolEvents(s) : Weight(i)' = Weight(i)
      PROVE  (pool[s] = Opening(s) + SumFunction(Explained(s)))'
  BY <1>2, PoolUnmoved DEF BalanceExplained
<1>3. ASSUME s \notin torn, pool' = pool, opened' = opened, history' = history,
             \A i \in PoolEvents(s) : Unwritten(i)' = Unwritten(i)
      PROVE  (pool[s] = Opening(s) + SumFunction(Explained(s)))'
  BY <1>2, <1>3 DEF Weight
<1>4. ASSUME NEW a \in Addresses, AddWallet(a)
      PROVE  (pool[s] = Opening(s) + SumFunction(Explained(s)))'
  BY <1>3, <1>4 DEF AddWallet, Unwritten
<1>5. ASSUME NEW c \in Calls, Ignore(c) \/ SkipDeposit(c)
      PROVE  (pool[s] = Opening(s) + SumFunction(Explained(s)))'
  <2>1. \A i \in PoolEvents(s) : Unwritten(i)' = Unwritten(i)
    BY <1>5, UnwrittenSame DEF Ignore, SkipDeposit, Then
  <2>. QED  BY <1>3, <1>5, <2>1 DEF Ignore, SkipDeposit
<1>6. ASSUME NEW c \in Calls, FindWallet(c)
      PROVE  (pool[s] = Opening(s) + SumFunction(Explained(s)))'
  <2>1. \A i \in PoolEvents(s) : Unwritten(i)' = Unwritten(i)
    BY <1>6, UnwrittenSame DEF FindWallet
  <2>. QED  BY <1>3, <1>6, <2>1 DEF FindWallet
<1>7. ASSUME NEW c \in Calls, UpsertDeposit(c) \/ UpsertRate(c) \/ MarkRegistered(c)
      PROVE  (pool[s] = Opening(s) + SumFunction(Explained(s)))'
  <2>1. \A i \in PoolEvents(s) : Unwritten(i)' = Unwritten(i)
    BY <1>7, UnwrittenSame DEF UpsertDeposit, UpsertRate, MarkRegistered
  <2>. QED  BY <1>3, <1>7, <2>1 DEF UpsertDeposit, UpsertRate, MarkRegistered
<1>8. ASSUME NEW c \in Calls, AddHistory(c)
      PROVE  (pool[s] = Opening(s) + SumFunction(Explained(s)))'
  <2>1. \A i \in PoolEvents(s) : Weight(i)' = Weight(i)
    BY <1>8, AddHistoryWeighs, PoolEventsFinite
  <2>. QED  BY <1>2, <1>8, <2>1 DEF AddHistory
<1>9. ASSUME NEW c \in Calls, UpsertPool(c)
      PROVE  (pool[s] = Opening(s) + SumFunction(Explained(s)))'
  <2>1. CASE Goes(c, "history", call[c].at) /\ torn' = torn
    BY <1>9, <2>1, UpsertExplained DEF BalanceExplained
  <2>2. CASE Break(c) /\ torn' = torn \cup {Event(c).symbol}
    <3>1. \A i \in PoolEvents(s) : Unwritten(i)' = Unwritten(i)
      BY <1>9, <2>2, UnwrittenSame DEF Then, UpsertPool
    <3>2. pool'[s] = pool[s] /\ opened'[s] = opened[s] /\ history' = history
      BY <1>9, <2>2 DEF UpsertPool, TablesTyped
    <3>. QED  BY <2>2, <3>1, <3>2, PoolUnmoved DEF BalanceExplained, Weight
  <2>. QED  BY <1>9, <2>1, <2>2 DEF UpsertPool
<1>10. ASSUME NEW c \in Calls, Refuse(c)
       PROVE  (pool[s] = Opening(s) + SumFunction(Explained(s)))'
  <2>1. \A i \in PoolEvents(s) : Unwritten(i)' = Unwritten(i)
    <3>1. CASE call[c].pc # "history"
      BY <1>10, <3>1, UnwrittenSame DEF Then, Refuse
    <3>2. CASE call[c].pc = "history"
      <4>1. call[c].at \notin PoolEvents(s)
        BY <1>10, <3>2 DEF Refuse, PoolEvents, Event
      <4>2. call'[c].pc # "history" /\ \A d \in Calls \ {c} : call'[d] = call[d]
        BY <1>10, CallLeaves DEF Refuse, Then
      <4>. QED  BY <4>1, <4>2 DEF Unwritten
    <3>. QED  BY <3>1, <3>2
  <2>. QED  BY <1>3, <1>10, <2>1 DEF Refuse
<1>11. ASSUME NEW c \in Calls, NEW i \in Events, NEW j \in Events, Deliver(c, i, j)
       PROVE  (pool[s] = Opening(s) + SumFunction(Explained(s)))'
  <2>1. call[c].pc = "idle" /\ call'[c].pc = "event" /\ \A d \in Calls \ {c} : call'[d] = call[d]
    BY <1>11 DEF Deliver, CallsFit, CallsTyped
  <2>2. \A n \in PoolEvents(s) : Unwritten(n)' = Unwritten(n)
    BY <2>1 DEF Unwritten
  <2>. QED  BY <1>3, <1>11, <2>2 DEF Deliver
<1>12. CASE Crash
  <2>1. \A d \in Calls : call[d].pc = "history" => call[d].at \notin PoolEvents(s)
    BY <1>12 DEF Crash, PoolEvents, Event
  <2>2. \A i \in PoolEvents(s) : Unwritten(i)' = Unwritten(i)
    BY <1>12, <2>1 DEF Crash, Unwritten, Idle
  <2>. QED  BY <1>3, <1>12, <2>2 DEF Crash
<1>13. CASE UNCHANGED vars
  BY <1>3, <1>13 DEF vars, Unwritten
<1>. QED
  BY <1>4, <1>5, <1>6, <1>7, <1>8, <1>9, <1>10, <1>11, <1>12, <1>13 DEF Next, CallStep

LEMMA InitBalance == Init => OpenedByItsEvent /\ BalanceExplained
<1> SUFFICES ASSUME Init PROVE OpenedByItsEvent /\ BalanceExplained
  OBVIOUS
<1>1. TablesTyped
  BY InitIsTyped DEF TypeOK
<1>2. OpenedByItsEvent
  BY DEF Init, OpenedByItsEvent
<1>3. ASSUME NEW s \in Symbols PROVE pool[s] = Opening(s) + SumFunction(Explained(s))
  <2>1. \A i \in PoolEvents(s) : Weight(i) = 0
    <3>. SUFFICES ASSUME NEW i \in PoolEvents(s) PROVE Weight(i) = 0
      OBVIOUS
    <3>1. Unwritten(i) = {} /\ history[i] = 0
      BY PoolEventsFinite DEF Init, Unwritten, Idle
    <3>. QED  BY <3>1, FS_EmptySet DEF Weight
  <2>. DEFINE f == Explained(s)
  <2>2. DOMAIN f = PoolEvents(s) /\ \A i \in PoolEvents(s) : f[i] = 0
    BY <1>1, <2>1, ExplainedTerms
  <2>3. SumFunction(f) = 0
    <3>. HIDE DEF f
    <3>. QED  BY <2>2, PoolEventsFinite, SumZero DEF SumFunction
  <2>4. pool[s] = 0 /\ Opening(s) = 0
    BY DEF Init, Opening
  <2>. QED  BY <2>3, <2>4
<1>. QED  BY <1>2, <1>3 DEF BalanceExplained

-----------------------------------------------------------------------------
(***************************************************************************)
(* What an answer promises.                                                *)
(***************************************************************************)
LEMMA PastFinite ==
  ASSUME NEW i
  PROVE  IsFiniteSet(Past(i)) /\ Cardinality(Past(i)) \in Nat
BY LedgerAssumption, FS_Subset, FS_CardinalityType DEF Past

LEMMA PastShrinks ==
  ASSUME NEW i, Past(i)' \subseteq Past(i)
  PROVE  Cardinality(Past(i)') \in Nat /\ Cardinality(Past(i)') <= Cardinality(Past(i))
BY PastFinite, FS_Subset, FS_CardinalityType

\* A call that moves on adds itself to what the event it leaves must bear; an
\* answer takes the call from the events behind it and adds one for each.
LEMMA BurdenMoves ==
  ASSUME TypeOK, CallsFit, NEW c \in Calls, call[c].pc \in Busy, Then(c), NEW i \in Events
  PROVE  Burden(i)' <= IF i = call[c].at THEN Burden(i) + 1 ELSE Burden(i)
<1>1. /\ call[c].at \in Events /\ call[c].from \in Events /\ call[c].last \in Events
      /\ call[c].at <= call[c].last /\ Events \subseteq Nat /\ call[c].from <= call[c].at
  BY EventHere, EventFacts DEF CallsFit, CallsTyped
<1>2. \A d \in Calls \ {c} : call'[d] = call[d]
  BY CallLeaves
<1>3. owed[i] \in Nat /\ Cardinality(Past(i)) \in Nat /\ Burden(i) = owed[i] + Cardinality(Past(i))
  BY PastFinite DEF TypeOK, LimitsTyped, Burden
<1>4. CASE /\ call' = [call EXCEPT ![c] = Idle]
           /\ \/ owed' = owed
              \/ /\ owed' = [n \in Events |-> IF n \in Promised(c) THEN owed[n] + 1 ELSE owed[n]]
                 /\ ~(call[c].at < call[c].last)
  <2>1. Past(i)' = Past(i) \ {c}
    BY <1>2, <1>4 DEF Past, Idle, Busy, CallsFit, CallsTyped
  <2>2. Cardinality(Past(i)') \in Nat /\ Cardinality(Past(i)') <= Cardinality(Past(i))
    BY <2>1, PastShrinks
  <2>3. CASE owed' = owed
    BY <1>3, <2>2, <2>3 DEF Burden
  <2>4. CASE /\ owed' = [n \in Events |-> IF n \in Promised(c) THEN owed[n] + 1 ELSE owed[n]]
             /\ ~(call[c].at < call[c].last)
    <3>1. CASE i \notin Promised(c)
      BY <1>3, <2>2, <2>4, <3>1 DEF Burden
    <3>2. CASE i \in Promised(c) /\ i = call[c].at
      BY <1>3, <2>2, <2>4, <3>2 DEF Burden
    <3>3. CASE i \in Promised(c) /\ i # call[c].at
      <4>1. c \in Past(i)
        BY <1>1, <2>4, <3>3 DEF Past, Promised
      <4>2. Cardinality(Past(i)') = Cardinality(Past(i)) - 1
        BY <2>1, <4>1, PastFinite, FS_RemoveElement
      <4>. QED  BY <1>3, <2>4, <3>3, <4>2 DEF Burden
    <3>. QED  BY <3>1, <3>2, <3>3
  <2>. QED  BY <1>4, <2>3, <2>4
<1>5. CASE Goes(c, "event", call[c].at + 1) /\ owed' = owed
  <2>1. CASE i = call[c].at
    <3>1. Past(i)' = Past(i) \cup {c} /\ c \notin Past(i)
      BY <1>1, <1>2, <1>5, <2>1 DEF Past, Goes, Busy, CallsFit, CallsTyped
    <3>2. Cardinality(Past(i)') = Cardinality(Past(i)) + 1
      BY <3>1, PastFinite, FS_AddElement
    <3>. QED  BY <1>3, <1>5, <2>1, <3>2 DEF Burden
  <2>2. CASE i # call[c].at
    <3>1. i < call[c].at + 1 <=> i < call[c].at
      <4>1. i \in Nat /\ call[c].at \in Nat
        BY <1>1
      <4>. QED  BY <2>2, <4>1
    <3>2. /\ call'[c].pc \in Busy /\ call[c].pc \in Busy
          /\ call'[c].from = call[c].from /\ call'[c].at = call[c].at + 1
      BY <1>5, PlacesAreBusy DEF Goes, CallsFit, CallsTyped
    <3>3. Past(i)' = Past(i)
      BY <1>2, <3>1, <3>2 DEF Past
    <3>. QED  BY <1>3, <1>5, <2>2, <3>3 DEF Burden
  <2>. QED  BY <2>1, <2>2
<1>. QED  BY <1>4, <1>5 DEF Then, Answered, Continue, Break, indexer

LEMMA PastSame ==
  ASSUME CallsFit, NEW c \in Calls, NEW to \in Busy, call[c].pc \in Busy,
         Goes(c, to, call[c].at), NEW i
  PROVE  Past(i)' = Past(i)
BY DEF Past, Goes, CallsFit, CallsTyped

LEMMA BurdenSame ==
  ASSUME owed' = owed, NEW i \in Events, owed[i] \in Nat, Past(i)' \subseteq Past(i)
  PROVE  Burden(i)' <= Burden(i)
BY PastShrinks, PastFinite DEF Burden

LEMMA BearsStep == TypeOK /\ PlaceFitsEvent /\ HistoryBears /\ [Next]_vars => HistoryBears'
<1> SUFFICES ASSUME TypeOK, CallsFit, HistoryBears, [Next]_vars, NEW i \in OfKind(PoolKinds)
             PROVE  history'[i] >= Burden(i)'
  BY DEF TypeOK, CallsFit, HistoryBears
<1> USE PlacesAreBusy DEF tables, indexer, limits
<1>1. /\ i \in Events /\ Log[i].kind \in PoolKinds
      /\ history[i] \in Nat /\ Burden(i) \in Nat /\ history[i] >= Burden(i)
      /\ owed[i] \in Nat
  BY PastFinite DEF OfKind, HistoryBears, Burden, TypeOK, TablesTyped, LimitsTyped
<1>2. Burden(i)' \in Nat
  <2>1. owed'[i] \in Nat
    BY <1>1, LimitsStep DEF CallsFit, LimitsTyped
  <2>2. Cardinality(Past(i))' \in Nat
    <3>1. IsFiniteSet(Past(i)')
      BY LedgerAssumption, FS_Subset DEF Past
    <3>. QED  BY <3>1, FS_CardinalityType
  <2>. QED  BY <2>1, <2>2 DEF Burden
<1>3. ASSUME history' = history, Burden(i)' <= Burden(i) PROVE history'[i] >= Burden(i)'
  BY <1>1, <1>2, <1>3
<1>4. ASSUME NEW c \in Calls, call[c].pc \in Busy, Then(c), i # call[c].at
      PROVE  Burden(i)' <= Burden(i)
  BY <1>1, <1>4, BurdenMoves
<1>5. ASSUME owed' = owed, Past(i)' \subseteq Past(i) PROVE Burden(i)' <= Burden(i)
  BY <1>1, <1>5, BurdenSame
<1>6. ASSUME NEW a \in Addresses, AddWallet(a) PROVE history'[i] >= Burden(i)'
  BY <1>3, <1>5, <1>6 DEF AddWallet, Past
<1>7. ASSUME NEW c \in Calls, Ignore(c) PROVE history'[i] >= Burden(i)'
  <2>1. i # call[c].at
    BY <1>1, <1>7 DEF Ignore, Event, PoolKinds
  <2>. QED  BY <1>3, <1>4, <1>7, <2>1 DEF Ignore, Then
<1>8. ASSUME NEW c \in Calls, SkipDeposit(c) PROVE history'[i] >= Burden(i)'
  <2>1. i # call[c].at
    BY <1>1, <1>8 DEF SkipDeposit, Event, PoolKinds
  <2>. QED  BY <1>3, <1>4, <1>8, <2>1 DEF SkipDeposit, Then
<1>9. ASSUME NEW c \in Calls, FindWallet(c) PROVE history'[i] >= Burden(i)'
  BY <1>3, <1>5, <1>9, PastSame DEF FindWallet
<1>10. ASSUME NEW c \in Calls, UpsertDeposit(c) PROVE history'[i] >= Burden(i)'
  <2>1. i # call[c].at
    BY <1>1, <1>10 DEF UpsertDeposit, Event, PoolKinds, CallsFit, PlaceFitsEvent
  <2>. QED  BY <1>3, <1>4, <1>10, <2>1 DEF UpsertDeposit
<1>11. ASSUME NEW c \in Calls, UpsertRate(c) PROVE history'[i] >= Burden(i)'
  <2>1. i # call[c].at
    BY <1>1, <1>11 DEF UpsertRate, Event, PoolKinds
  <2>. QED  BY <1>3, <1>4, <1>11, <2>1 DEF UpsertRate
<1>12. ASSUME NEW c \in Calls, MarkRegistered(c) PROVE history'[i] >= Burden(i)'
  <2>1. i # call[c].at
    BY <1>1, <1>12 DEF MarkRegistered, Event, PoolKinds
  <2>. QED  BY <1>3, <1>4, <1>12, <2>1 DEF MarkRegistered
<1>13. ASSUME NEW c \in Calls, UpsertPool(c) PROVE history'[i] >= Burden(i)'
  <2>1. CASE Goes(c, "history", call[c].at) /\ owed' = owed
    BY <1>3, <1>5, <1>13, <2>1, PastSame DEF UpsertPool
  <2>2. CASE Break(c)
    <3>1. Past(i)' \subseteq Past(i) /\ owed' = owed
      BY <2>2 DEF Break, Past, Idle, Busy, CallsFit, CallsTyped
    <3>. QED  BY <1>3, <1>5, <1>13, <3>1 DEF UpsertPool
  <2>. QED  BY <1>13, <2>1, <2>2 DEF UpsertPool
<1>14. ASSUME NEW c \in Calls, AddHistory(c) PROVE history'[i] >= Burden(i)'
  <2>1. CASE i # call[c].at
    <3>1. history'[i] = history[i]
      BY <1>1, <1>14, <2>1 DEF AddHistory, TypeOK, TablesTyped
    <3>2. Burden(i)' <= Burden(i)
      BY <1>4, <1>14, <2>1 DEF AddHistory
    <3>. QED  BY <1>1, <1>2, <3>1, <3>2
  <2>2. CASE i = call[c].at
    <3>1. history'[i] = history[i] + 1
      BY <1>1, <1>14, <2>2 DEF AddHistory, TypeOK, TablesTyped
    <3>2. Burden(i)' <= Burden(i) + 1
      BY <1>1, <1>14, <2>2, BurdenMoves DEF AddHistory
    <3>. QED  BY <1>1, <1>2, <3>1, <3>2
  <2>. QED  BY <2>1, <2>2
<1>15. ASSUME NEW c \in Calls, Refuse(c) PROVE history'[i] >= Burden(i)'
  <2>1. Past(i)' \subseteq Past(i) /\ owed' = owed
    BY <1>15 DEF Refuse, Break, Past, Idle, Busy, CallsFit, CallsTyped
  <2>. QED  BY <1>3, <1>5, <1>15, <2>1 DEF Refuse
<1>16. ASSUME NEW c \in Calls, NEW k \in Events, NEW l \in Events, Deliver(c, k, l)
       PROVE  history'[i] >= Burden(i)'
  <2>1. k \in Nat /\ i \in Nat
    BY <1>1, EventFacts
  <2>2. call'[c].from = k /\ call'[c].at = k /\ \A d \in Calls \ {c} : call'[d] = call[d]
    BY <1>16 DEF Deliver, CallsFit, CallsTyped
  <2>3. Past(i)' \subseteq Past(i)
    BY <2>1, <2>2 DEF Past
  <2>. QED  BY <1>3, <1>5, <1>16, <2>3 DEF Deliver
<1>17. CASE Crash
  <2>1. Past(i)' \subseteq Past(i)
    BY <1>17 DEF Crash, Past, Idle, Busy
  <2>. QED  BY <1>3, <1>5, <1>17, <2>1 DEF Crash
<1>18. CASE UNCHANGED vars
  BY <1>3, <1>5, <1>18 DEF vars, Past
<1>. QED
  BY <1>6, <1>7, <1>8, <1>9, <1>10, <1>11, <1>12, <1>13, <1>14, <1>15, <1>16, <1>17, <1>18
     DEF Next, CallStep

LEMMA KeptStays ==
  ASSUME TypeOK, CallsFit, [Next]_vars, NEW i \in Events, Kept(i)
  PROVE  Kept(i)'
<1>1. deposits \subseteq deposits' /\ registered \subseteq registered'
  BY DEF Next, CallStep, AddWallet, Ignore, UpsertPool, AddHistory, SkipDeposit, FindWallet,
         UpsertDeposit, UpsertRate, MarkRegistered, Refuse, Deliver, Crash, vars, tables
<1>2. \A p \in Pairs : rate[p] # 0 => rate'[p] # 0
  <2>1. CASE \E c \in Calls : UpsertRate(c)
    <3>1. PICK c \in Calls : UpsertRate(c)
      BY <2>1
    <3>2. call[c].at # 0
      BY <3>1, EventHere, EventFacts, PlacesAreBusy DEF UpsertRate
    <3>. QED  BY <3>1, <3>2 DEF UpsertRate, TypeOK, TablesTyped
  <2>2. CASE ~\E c \in Calls : UpsertRate(c)
    <3>1. rate' = rate
      BY <2>2 DEF Next, CallStep, AddWallet, Ignore, UpsertPool, AddHistory, SkipDeposit,
                  FindWallet, UpsertDeposit, MarkRegistered, Refuse, Deliver, Crash, vars, tables
    <3>. QED  BY <3>1
  <2>. QED  BY <2>1, <2>2
<1>3. Log[i].kind = "rate" => Log[i].pair \in Pairs
  BY EventFacts
<1>. QED  BY <1>1, <1>2, <1>3 DEF Kept, PoolKinds

\* A call that leaves an event it promises, once the event is kept.
LEMMA KeptThen ==
  ASSUME TypeOK, CallsFit, PassedIsKept, [Next]_vars, NEW c \in Calls, call[c].pc \in Busy, Then(c),
         wallets' = wallets, NEW k, k = call[c].at, k \in Promised(c) => Kept(k)'
  PROVE  PassedIsKept'
<1>1. \A i \in Events : Kept(i) => Kept(i)'
  BY KeptStays
<1>2. /\ k \in Events /\ call[c].from \in Events /\ call[c].last \in Events
      /\ k <= call[c].last /\ call[c].from <= k /\ Events \subseteq Nat
  BY EventHere, EventFacts DEF CallsFit, CallsTyped
<1>3. \A d \in Calls \ {c} : call'[d] = call[d]
  BY CallLeaves
<1>4. \A i \in Promised(c) : i \in Events /\ i \in Nat /\ i <= call[c].last /\ call[c].from <= i
  <2>1. /\ call[c].from \in Nat \ {0} /\ call[c].last \in Nat /\ call[c].last <= Len(Log)
        /\ Len(Log) \in Nat
    BY <1>2, EventFacts, LedgerAssumption
  <2>2. \A i \in Promised(c) : i \in Nat \ {0} /\ i <= call[c].last /\ call[c].from <= i
    BY <2>1 DEF Promised
  <2>3. \A i \in Promised(c) : i <= Len(Log)
    BY <2>1, <2>2
  <2>. QED  BY <2>2, <2>3, EventFacts
<1>5. \A i \in Promised(c) : i < k + 1 => Kept(i)'
  <2>. SUFFICES ASSUME NEW i \in Promised(c), i < k + 1, i # k PROVE Kept(i)'
    OBVIOUS
  <2>1. i \in Nat /\ k \in Nat
    BY <1>2, <1>4
  <2>2. i < k
    BY <2>1
  <2>3. c \in Past(i)
    BY <1>4, <2>2 DEF Past
  <2>. QED  BY <1>1, <1>4, <2>3 DEF PassedIsKept
<1>6. ASSUME NEW d \in Calls \ {c}
      PROVE  call'[d].knew \subseteq wallets' /\ \A i \in Promised(d)' : d \in Past(i)' => Kept(i)'
  <2>1. Promised(d)' = Promised(d) /\ \A i : d \in Past(i)' <=> d \in Past(i)
    BY <1>3 DEF Promised, Past
  <2>2. \A i \in Promised(d) : d \in Past(i) => i \in Events
    <3>1. \A i \in Promised(d) : d \in Past(i) => call[d].pc \in Busy
      BY DEF Past
    <3>2. call[d].pc \in Busy => /\ call[d].from \in Nat \ {0} /\ call[d].last \in Nat \ {0}
                                 /\ call[d].last <= Len(Log) /\ Len(Log) \in Nat
      BY EventHere, EventFacts, LedgerAssumption
    <3>3. call[d].pc \in Busy => Promised(d) \subseteq Events
      BY <3>2, EventFacts DEF Promised
    <3>. QED  BY <3>1, <3>3
  <2>. QED  BY <1>1, <1>3, <2>1, <2>2 DEF PassedIsKept
<1>7. CASE /\ call' = [call EXCEPT ![c] = Idle]
           /\ \/ owed' = owed
              \/ /\ owed' = [n \in Events |-> IF n \in Promised(c) THEN owed[n] + 1 ELSE owed[n]]
                 /\ ~(k < call[c].last)
  <2>1. call'[c] = Idle /\ \A i : c \notin Past(i)'
    BY <1>7 DEF Past, Idle, Busy, CallsFit, CallsTyped
  <2>2. \A i \in Events : owed'[i] > 0 => Kept(i)'
    <3>1. CASE owed' = owed
      BY <1>1, <3>1 DEF PassedIsKept
    <3>2. CASE /\ owed' = [n \in Events |-> IF n \in Promised(c) THEN owed[n] + 1 ELSE owed[n]]
               /\ ~(k < call[c].last)
      <4>1. \A i \in Promised(c) : i < k + 1
        <5>1. k \in Nat /\ call[c].last \in Nat
          BY <1>2
        <5>. QED  BY <1>2, <1>4, <3>2, <5>1
      <4>. QED  BY <1>1, <1>5, <3>2, <4>1 DEF PassedIsKept
    <3>. QED  BY <1>7, <3>1, <3>2
  <2>3. call'[c].knew \subseteq wallets'
    BY <2>1 DEF Idle
  <2>. QED  BY <1>6, <2>1, <2>2, <2>3 DEF PassedIsKept
<1>8. CASE Goes(c, "event", k + 1) /\ owed' = owed
  <2>1. /\ call'[c].knew = call[c].knew /\ Promised(c)' = Promised(c)
        /\ \A i : c \in Past(i)' => i < k + 1
    BY <1>8 DEF Goes, Past, Promised, CallsFit, CallsTyped
  <2>2. \A i \in Promised(c)' : c \in Past(i)' => Kept(i)'
    BY <1>5, <2>1
  <2>3. \A i \in Events : owed'[i] > 0 => Kept(i)'
    BY <1>1, <1>8 DEF PassedIsKept
  <2>4. call'[c].knew \subseteq wallets'
    BY <2>1 DEF PassedIsKept
  <2>. QED  BY <1>6, <2>2, <2>3, <2>4 DEF PassedIsKept
<1>. QED  BY <1>7, <1>8 DEF Then, Answered, Continue, Break, indexer

\* A step that puts nothing behind a call.
LEMMA KeptQuietly ==
  ASSUME TypeOK, CallsFit, PassedIsKept, [Next]_vars, wallets \subseteq wallets', owed' = owed,
         \A d \in Calls : call'[d].knew \subseteq wallets',
         \A d \in Calls : \A i \in Promised(d)' :
            d \in Past(i)' => i \in Promised(d) /\ i \in Events /\ d \in Past(i)
  PROVE  PassedIsKept'
BY KeptStays DEF PassedIsKept

LEMMA PromisedEvents ==
  ASSUME CallsFit, NEW c \in Calls, NEW i \in Promised(c), c \in Past(i)
  PROVE  i \in Events
<1>1. /\ call[c].from \in Nat \ {0} /\ call[c].last \in Nat /\ call[c].last <= Len(Log)
      /\ Len(Log) \in Nat
  BY EventHere, EventFacts, LedgerAssumption DEF Past
<1>2. i \in Nat \ {0} /\ i <= Len(Log)
  BY <1>1 DEF Promised
<1>. QED  BY <1>2, EventFacts

LEMMA KeptStep == TypeOK /\ PlaceFitsEvent /\ PassedIsKept /\ [Next]_vars => PassedIsKept'
<1> SUFFICES ASSUME TypeOK, CallsFit, PassedIsKept, [Next]_vars PROVE PassedIsKept'
  BY DEF TypeOK, CallsFit
<1> USE PlacesAreBusy DEF tables, indexer, limits
<1>0. TypeOK' /\ CallsFit'
  BY TypeStep, CallsStep DEF CallsFit
<1>1. ASSUME NEW a \in Addresses, AddWallet(a) PROVE PassedIsKept'
  BY <1>1, KeptQuietly, PromisedEvents DEF AddWallet, Promised, Past, PassedIsKept
<1>2. ASSUME NEW c \in Calls, Ignore(c) PROVE PassedIsKept'
  <2>1. ASSUME NEW k, k = call[c].at PROVE Kept(k)'
    BY <1>2, <2>1 DEF Ignore, Event, Kept, PoolKinds
  <2>. QED  BY <1>2, <2>1, KeptThen DEF Ignore, Then
<1>3. ASSUME NEW c \in Calls, SkipDeposit(c) PROVE PassedIsKept'
  <2>1. call[c].at \in Promised(c) => Log[call[c].at].reference = NoReference
    BY <1>3 DEF SkipDeposit, Event, Promised, PassedIsKept
  <2>2. ASSUME NEW k, k = call[c].at, k \in Promised(c) PROVE Kept(k)'
    BY <1>3, <2>1, <2>2 DEF SkipDeposit, Event, Kept, PoolKinds
  <2>. QED  BY <1>3, <2>2, KeptThen DEF SkipDeposit, Then
<1>4. ASSUME NEW c \in Calls, UpsertDeposit(c) PROVE PassedIsKept'
  <2>1. ASSUME NEW k, k = call[c].at PROVE Kept(k)'
    BY <1>4, <2>1 DEF UpsertDeposit, Event, Kept, PoolKinds, CallsFit, PlaceFitsEvent
  <2>. QED  BY <1>4, <2>1, KeptThen DEF UpsertDeposit
<1>5. ASSUME NEW c \in Calls, UpsertRate(c) PROVE PassedIsKept'
  <2>1. ASSUME NEW k, k = call[c].at PROVE Kept(k)'
    <3>1. k # 0 /\ Log[k].pair \in Pairs /\ Log[k].kind = "rate"
      BY <1>5, <2>1, EventHere, EventFacts DEF UpsertRate, Event
    <3>2. rate'[Log[k].pair] = k
      BY <1>5, <2>1, <3>1 DEF UpsertRate, Event, TypeOK, TablesTyped
    <3>. QED  BY <3>1, <3>2 DEF Kept, PoolKinds
  <2>. QED  BY <1>5, <2>1, KeptThen DEF UpsertRate
<1>6. ASSUME NEW c \in Calls, MarkRegistered(c) PROVE PassedIsKept'
  <2>1. ASSUME NEW k, k = call[c].at, k \in Promised(c) PROVE Kept(k)'
    <3>1. Log[k].user \in wallets /\ Log[k].kind = "registered"
      BY <1>6, <2>1 DEF MarkRegistered, Event, Promised, PassedIsKept
    <3>. QED  BY <1>6, <2>1, <3>1 DEF MarkRegistered, Event, Kept, PoolKinds
  <2>. QED  BY <1>6, <2>1, KeptThen DEF MarkRegistered
<1>7. ASSUME NEW c \in Calls, AddHistory(c) PROVE PassedIsKept'
  <2>1. ASSUME NEW k, k = call[c].at PROVE Kept(k)'
    BY <1>7, <2>1 DEF AddHistory, Event, Kept, PoolKinds, CallsFit, PlaceFitsEvent
  <2>. QED  BY <1>7, <2>1, KeptThen DEF AddHistory
<1>8. ASSUME NEW c \in Calls, NEW to \in Busy, call[c].pc \in Busy, Goes(c, to, call[c].at),
             wallets' = wallets, owed' = owed
      PROVE  PassedIsKept'
  <2>1. \A d \in Calls : call'[d].knew = call[d].knew /\ Promised(d)' = Promised(d)
    BY <1>8 DEF Goes, Promised, CallsFit, CallsTyped
  <2>2. \A d \in Calls : \A i : d \in Past(i)' <=> d \in Past(i)
    BY <1>8, PastSame
  <2>. QED  BY <1>8, <2>1, <2>2, KeptQuietly, PromisedEvents DEF PassedIsKept
<1>9. ASSUME NEW c \in Calls, call' = [call EXCEPT ![c] = Idle], wallets' = wallets, owed' = owed
      PROVE  PassedIsKept'
  <2>1. \A d \in Calls \ {c} : call'[d] = call[d]
    BY <1>9 DEF CallsFit, CallsTyped
  <2>2. call'[c].knew = {} /\ \A i : c \notin Past(i)'
    BY <1>9 DEF Idle, Past, Busy, CallsFit, CallsTyped
  <2>3. \A d \in Calls \ {c} : \A i \in Promised(d)' : d \in Past(i)' => i \in Promised(d) /\ d \in Past(i)
    BY <2>1 DEF Promised, Past
  <2>. QED  BY <1>9, <2>1, <2>2, <2>3, KeptQuietly, PromisedEvents DEF PassedIsKept
<1>10. ASSUME NEW c \in Calls, FindWallet(c) PROVE PassedIsKept'
  BY <1>8, <1>10 DEF FindWallet
<1>11. ASSUME NEW c \in Calls, UpsertPool(c) PROVE PassedIsKept'
  BY <1>8, <1>9, <1>11 DEF UpsertPool, Break
<1>12. ASSUME NEW c \in Calls, Refuse(c) PROVE PassedIsKept'
  BY <1>9, <1>12 DEF Refuse, Break
<1>13. ASSUME NEW c \in Calls, NEW k \in Events, NEW l \in Events, Deliver(c, k, l)
       PROVE  PassedIsKept'
  <2>1. /\ call'[c].from = k /\ call'[c].at = k /\ call'[c].knew = wallets /\ k \in Nat
        /\ \A d \in Calls \ {c} : call'[d] = call[d]
    BY <1>13, EventFacts DEF Deliver, CallsFit, CallsTyped
  <2>2. \A i \in Promised(c)' : c \notin Past(i)'
    <3>1. call'[c].last = l /\ l \in Nat
      BY <1>13, EventFacts DEF Deliver, CallsFit, CallsTyped
    <3>2. \A i \in Promised(c)' : i \in Nat
      BY <2>1, <3>1 DEF Promised
    <3>. QED  BY <2>1, <3>2 DEF Past
  <2>3. \A d \in Calls \ {c} : \A i \in Promised(d)' : d \in Past(i)' => i \in Promised(d) /\ d \in Past(i)
    BY <2>1 DEF Promised, Past
  <2>. QED  BY <1>13, <2>1, <2>2, <2>3, KeptQuietly, PromisedEvents DEF Deliver, PassedIsKept
<1>14. CASE Crash
  <2>1. \A d \in Calls : call'[d].knew = {} /\ \A i : d \notin Past(i)'
    BY <1>14 DEF Crash, Idle, Past, Busy
  <2>. QED  BY <1>14, <2>1, KeptQuietly DEF Crash
<1>15. CASE UNCHANGED vars
  BY <1>15, KeptQuietly, PromisedEvents DEF vars, Promised, Past, PassedIsKept
<1>. QED
  BY <1>1, <1>2, <1>3, <1>4, <1>5, <1>6, <1>7, <1>10, <1>11, <1>12, <1>13, <1>14, <1>15
     DEF Next, CallStep

LEMMA InitApplied == Init => PassedIsApplied
<1> SUFFICES ASSUME Init PROVE PassedIsApplied
  OBVIOUS
<1>1. \A c \in Calls : call[c].knew = {} /\ \A i : c \notin Past(i)
  BY DEF Init, Idle, Past, Busy
<1>2. \A i \in OfKind(PoolKinds) : history[i] >= Burden(i)
  <2>. SUFFICES ASSUME NEW i \in OfKind(PoolKinds) PROVE history[i] >= Burden(i)
    OBVIOUS
  <2>1. Past(i) = {}
    BY <1>1 DEF Past
  <2>2. history[i] = 0 /\ owed[i] = 0
    BY DEF Init, OfKind
  <2>. QED  BY <2>1, <2>2, FS_EmptySet DEF Burden
<1>3. \A i \in Events : owed[i] = 0
  BY DEF Init
<1>. QED  BY <1>1, <1>2, <1>3 DEF PassedIsApplied, HistoryBears, PassedIsKept

LEMMA AppliedMeans == TypeOK /\ PassedIsApplied => AnsweredIsApplied
<1> SUFFICES ASSUME TypeOK, PassedIsApplied, NEW i \in Events, owed[i] > 0
             PROVE  CASE Log[i].kind \in PoolKinds -> history[i] >= owed[i]
                      [] Log[i].kind = "deposit"   -> i \in deposits \/ Log[i].reference = NoReference
                      [] Log[i].kind = "rate"      -> rate[Log[i].pair] # 0
                      [] Log[i].kind = "registered" -> Log[i].user \in registered
                      [] OTHER -> TRUE
  BY DEF AnsweredIsApplied
<1>1. Kept(i)
  BY DEF PassedIsApplied, PassedIsKept
<1>2. CASE Log[i].kind \in PoolKinds
  <2>1. history[i] \in Nat /\ owed[i] \in Nat /\ Cardinality(Past(i)) \in Nat
    BY PastFinite DEF TypeOK, TablesTyped, LimitsTyped
  <2>2. history[i] >= owed[i] + Cardinality(Past(i))
    BY <1>2 DEF PassedIsApplied, HistoryBears, OfKind, Burden
  <2>. QED  BY <1>2, <2>1, <2>2 DEF PoolKinds
<1>3. CASE Log[i].kind \notin PoolKinds
  BY <1>1, <1>3 DEF Kept, PoolKinds
<1>. QED  BY <1>2, <1>3

-----------------------------------------------------------------------------
(***************************************************************************)
(* The rates under an indexer that works in order.                         *)
(***************************************************************************)
LEMMA CursorNat ==
  ASSUME TypeOK
  PROVE  cursor \in Nat /\ OfKind({"rate"}) \subseteq Nat
<1>1. OfKind({"rate"}) \subseteq Events
  BY DEF OfKind
<1>2. cursor \in Events \cup {0}
  BY DEF TypeOK, LimitsTyped
<1>3. Events \subseteq Nat
  BY EventFacts
<1>4. cursor \in Nat
  BY <1>2, <1>3
<1>5. OfKind({"rate"}) \subseteq Nat
  BY <1>1, <1>3
<1>. QED  BY <1>4, <1>5

\* A call that moves on or stops with the rates up to its event in place.
LEMMA OrderedThen ==
  ASSUME TypeOK, CallsFit, OrderedIndexer, NEW c \in Calls, call[c].pc \in Busy, Then(c),
         inOrder' = inOrder, NEW k, k = call[c].at, inOrder => RatesUpTo(k)'
  PROVE  OrderedIndexer'
<1> SUFFICES ASSUME inOrder PROVE OrderedIndexer'
  BY DEF OrderedIndexer
<1>1. /\ k \in Nat /\ call[c].from \in Nat /\ call[c].last \in Nat /\ cursor \in Nat
      /\ call[c].from <= k /\ k <= call[c].last /\ call[c].from = cursor + 1
  <2>1. call[c].from <= k /\ call[c].from = cursor + 1
    BY DEF CallsFit, CallsTyped, OrderedIndexer
  <2>2. k \in Events /\ call[c].from \in Events /\ call[c].last \in Events /\ k <= call[c].last
    BY EventHere
  <2>. QED  BY <2>1, <2>2, CursorNat, EventFacts
<1>2. OfKind({"rate"}) \subseteq Nat
  BY CursorNat
<1>3. ASSUME NEW n \in Nat, n <= k PROVE RatesUpTo(n)'
  BY <1>1, <1>2, <1>3 DEF RatesUpTo
<1>4. \A d \in Calls \ {c} : call'[d] = call[d] /\ call[d].pc \notin Busy
  BY CallLeaves DEF OrderedIndexer
<1>5. CASE /\ call' = [call EXCEPT ![c] = Idle]
           /\ \/ cursor' = cursor
              \/ cursor' = call[c].last /\ ~(k < call[c].last)
  <2>1. \A d \in Calls : call'[d].pc \notin Busy
    BY <1>4, <1>5 DEF Idle, Busy, CallsFit, CallsTyped
  <2>2. cursor' \in Nat /\ cursor' <= k
    BY <1>1, <1>5
  <2>. QED  BY <1>3, <2>1, <2>2 DEF OrderedIndexer
<1>6. CASE Goes(c, "event", k + 1) /\ cursor' = cursor
  <2>1. call'[c].from = call[c].from /\ call'[c].at = k + 1
    BY <1>6 DEF Goes, CallsFit, CallsTyped
  <2>2. (k + 1) - 1 = k /\ cursor <= k
    BY <1>1
  <2>3. RatesUpTo(cursor)' /\ RatesUpTo(k)'
    BY <1>1, <1>3, <1>6, <2>2
  <2>4. RatesUpTo(call[c].at - 1)'
    BY <2>1, <2>2, <2>3 DEF RatesUpTo
  <2>5. \A d \in Calls : call'[d].pc \in Busy => d = c
    BY <1>4
  <2>6. call'[c].from = cursor' + 1
    BY <1>1, <1>6, <2>1
  <2>. QED  BY <2>3, <2>4, <2>5, <2>6 DEF OrderedIndexer
<1>. QED  BY <1>1, <1>5, <1>6 DEF Then, Answered, Continue, Break, indexer

LEMMA RatesPassed ==
  ASSUME CallsFit, OrderedIndexer, inOrder, NEW c \in Calls, call[c].pc \in Busy,
         NEW k, k = call[c].at, Event(c).kind # "rate"
  PROVE  RatesUpTo(k)
<1>1. k \in Nat /\ OfKind({"rate"}) \subseteq Nat
  BY EventHere, EventFacts DEF OfKind
<1>2. k \notin OfKind({"rate"})
  BY DEF OfKind, Event
<1>3. RatesUpTo(k - 1)
  BY DEF OrderedIndexer
<1>. QED  BY <1>1, <1>2, <1>3 DEF RatesUpTo

LEMMA OrderedStep == TypeOK /\ PlaceFitsEvent /\ OrderedIndexer /\ [Next]_vars => OrderedIndexer'
<1> SUFFICES ASSUME TypeOK, CallsFit, OrderedIndexer, [Next]_vars PROVE OrderedIndexer'
  BY DEF TypeOK, CallsFit
<1> USE PlacesAreBusy DEF tables, indexer, limits
<1>1. ASSUME NEW c \in Calls, call[c].pc \in Busy, Then(c), Event(c).kind # "rate",
             rate' = rate, inOrder' = inOrder
      PROVE  OrderedIndexer'
  <2>1. ASSUME NEW k, k = call[c].at, inOrder PROVE RatesUpTo(k)'
    <3>1. RatesUpTo(k)
      BY <1>1, <2>1, RatesPassed
    <3>. QED  BY <1>1, <3>1 DEF RatesUpTo
  <2>. QED  BY <1>1, <2>1, OrderedThen
<1>2. ASSUME NEW c \in Calls, Ignore(c) \/ SkipDeposit(c) \/ MarkRegistered(c)
      PROVE  OrderedIndexer'
  BY <1>1, <1>2 DEF Ignore, SkipDeposit, MarkRegistered, Then
<1>3. ASSUME NEW c \in Calls, AddHistory(c) \/ UpsertDeposit(c) PROVE OrderedIndexer'
  <2>1. Event(c).kind # "rate"
    BY <1>3 DEF AddHistory, UpsertDeposit, CallsFit, PlaceFitsEvent, PoolKinds
  <2>. QED  BY <1>1, <1>3, <2>1 DEF AddHistory, UpsertDeposit
<1>4. ASSUME NEW c \in Calls, UpsertRate(c) PROVE OrderedIndexer'
  <2>1. ASSUME NEW k, k = call[c].at, inOrder PROVE RatesUpTo(k)'
    <3>1. k \in Nat /\ RatesUpTo(k - 1) /\ OfKind({"rate"}) \subseteq Nat
      BY <1>4, <2>1, EventHere, EventFacts DEF UpsertRate, OrderedIndexer, OfKind
    <3>2. \A p \in Pairs : rate'[p] = IF p = Event(c).pair THEN k ELSE rate[p]
      BY <1>4, <2>1 DEF UpsertRate, TypeOK, TablesTyped
    <3>3. \A i \in OfKind({"rate"}) : Log[i].pair \in Pairs
      BY DEF Pairs
    <3>4. Event(c).pair = Log[k].pair
      BY <2>1 DEF Event
    <3>5. \A i \in OfKind({"rate"}) : i <= k => i = k \/ i <= k - 1
      BY <3>1
    <3>. QED  BY <3>1, <3>2, <3>3, <3>4, <3>5 DEF RatesUpTo
  <2>. QED  BY <1>4, <2>1, OrderedThen DEF UpsertRate
<1>5. ASSUME NEW c \in Calls, NEW to \in Busy, call[c].pc \in Busy, Goes(c, to, call[c].at),
             rate' = rate, cursor' = cursor, inOrder' = inOrder
      PROVE  OrderedIndexer'
  BY <1>5 DEF Goes, CallsFit, CallsTyped, OrderedIndexer, RatesUpTo
<1>6. ASSUME NEW c \in Calls, call' = [call EXCEPT ![c] = Idle],
             rate' = rate, cursor' = cursor, inOrder' = inOrder
      PROVE  OrderedIndexer'
  BY <1>6 DEF Idle, Busy, CallsFit, CallsTyped, OrderedIndexer, RatesUpTo
<1>7. ASSUME NEW c \in Calls, FindWallet(c) PROVE OrderedIndexer'
  BY <1>5, <1>7 DEF FindWallet
<1>8. ASSUME NEW c \in Calls, UpsertPool(c) PROVE OrderedIndexer'
  BY <1>5, <1>6, <1>8 DEF UpsertPool, Break
<1>9. ASSUME NEW c \in Calls, Refuse(c) PROVE OrderedIndexer'
  BY <1>6, <1>9 DEF Refuse, Break
<1>10. ASSUME NEW c \in Calls, NEW i \in Events, NEW j \in Events, Deliver(c, i, j)
       PROVE  OrderedIndexer'
  <2> SUFFICES ASSUME inOrder PROVE OrderedIndexer'
    BY <1>10 DEF Deliver, OrderedIndexer
  <2>1. i \in Nat /\ cursor \in Nat /\ OfKind({"rate"}) \subseteq Nat
    BY CursorNat, EventFacts
  <2>2. i <= cursor + 1 /\ cursor' = i - 1 /\ rate' = rate /\ \A d \in Calls : call[d].pc = "idle"
    BY <1>10 DEF Deliver
  <2>3. /\ call'[c].from = i /\ call'[c].at = i
        /\ \A d \in Calls \ {c} : call'[d].pc \notin Busy
    BY <1>10, <2>2 DEF Deliver, Busy, CallsFit, CallsTyped
  <2>4. \A n \in OfKind({"rate"}) : n <= i - 1 => rate'[Log[n].pair] >= n
    BY <2>1, <2>2 DEF OrderedIndexer, RatesUpTo
  <2>5. RatesUpTo(cursor)' /\ RatesUpTo(call[c].at - 1)'
    BY <2>2, <2>3, <2>4 DEF RatesUpTo
  <2>6. call'[c].from = cursor' + 1
    BY <2>1, <2>2, <2>3
  <2>. QED  BY <2>3, <2>5, <2>6 DEF OrderedIndexer
<1>11. CASE Crash
  BY <1>11 DEF Crash, Idle, Busy, OrderedIndexer, RatesUpTo
<1>12. CASE (\E a \in Addresses : AddWallet(a)) \/ UNCHANGED vars
  BY <1>12 DEF AddWallet, vars, OrderedIndexer, RatesUpTo
<1>. QED
  BY <1>2, <1>3, <1>4, <1>7, <1>8, <1>9, <1>10, <1>11, <1>12 DEF Next, CallStep

LEMMA InitOrdered == Init => OrderedIndexer
<1> SUFFICES ASSUME Init PROVE OrderedIndexer
  OBVIOUS
<1>1. \A c \in Calls : call[c].pc \notin Busy
  BY DEF Init, Idle, Busy
<1>2. RatesUpTo(cursor)
  <2>1. OfKind({"rate"}) \subseteq Nat \ {0} /\ cursor = 0
    BY EventFacts DEF Init, OfKind
  <2>2. \A i \in OfKind({"rate"}) : ~(i <= cursor)
    BY <2>1
  <2>. QED  BY <2>2 DEF RatesUpTo
<1>. QED  BY <1>1, <1>2 DEF OrderedIndexer

-----------------------------------------------------------------------------
(***************************************************************************)
(* The inductive invariant and what follows from it.                       *)
(***************************************************************************)
LEMMA IInvStep == IInv /\ [Next]_vars => IInv'
BY TypeStep, OpenedStep, BalanceStep, BearsStep, KeptStep, OrderedStep DEF IInv, PassedIsApplied

LEMMA Inductive == Spec => []IInv
<1>1. Init => IInv
  BY InitIsTyped, InitBalance, InitApplied, InitOrdered DEF IInv
<1>. QED  BY <1>1, IInvStep, PTL DEF Spec

\* Every variable keeps its type, whatever the calls do.
THEOREM TypeCorrect == Spec => []TypeOK
<1>1. IInv => TypeOK
  BY DEF IInv
<1>. QED  BY <1>1, Inductive, PTL

\* updateLiquidityPool: for every log of events, however calls interleave, repeat
\* and fail, a pool that lost no history row holds what its history says.
THEOREM PoolsAreExplained == Spec => []BalanceExplained
<1>1. IInv => BalanceExplained
  BY DEF IInv
<1>. QED  BY <1>1, Inductive, PTL

\* process: whatever fails, repeats or overlaps, a call is answered only when
\* every pool event it carried has a history row of its own, and every other one
\* it promised is in the tables.
THEOREM AnswersAreApplied == Spec => []AnsweredIsApplied
<1>1. IInv => AnsweredIsApplied
  BY AppliedMeans DEF IInv
<1>. QED  BY <1>1, Inductive, PTL

\* handleExchangeRateUpdated: whatever fails or is repeated half way, under an
\* indexer that works in order no rate is older than the events behind it.
THEOREM RatesAreLatest == Spec => []RateIsLatest
<1>1. IInv => RateIsLatest
  BY DEF IInv, OrderedIndexer, RatesUpTo, RateIsLatest
<1>. QED  BY <1>1, Inductive, PTL

-----------------------------------------------------------------------------
(***************************************************************************)
(* An indexer that works in order comes to the end of the log.             *)
(***************************************************************************)

\* The statements and calls that lie before an ordered indexer at cursor n, with f for
\* its calls, when nothing goes wrong: three for each event.
WorksAt(f) == CHOOSE c \in Calls : f[c].pc \in Busy
Way(f, n) ==
    IF \E c \in Calls : f[c].pc \in Busy
      THEN 3 * (Len(Log) - f[WorksAt(f)].at) + (IF f[WorksAt(f)].pc = "event" THEN 2 ELSE 1)
      ELSE 3 * (Len(Log) - n)

\* What can go wrong yet, each time at the cost of all the way at most.
Setbacks == (MaxRepeats - repeats) + (MaxFaults - faults) + (MaxCrashes - crashes)
WorkLeft == Setbacks * (3 * Len(Log) + 1) + Way(call, cursor)

\* Every step of a call, and every call that is made, leaves an ordered indexer less to
\* do; no step leaves it more.
IndexerRunsDown ==
    [][inOrder => /\ WorkLeft \in Nat /\ WorkLeft' <= WorkLeft
                  /\ call' # call \/ (\E c \in Calls : CallStep(c)) => WorkLeft' < WorkLeft]_vars

\* Calls f with none under way, and with c alone under way.
AllIdle(f)  == \A d \in Calls : f[d].pc \notin Busy
Alone(f, c) == f[c].pc \in Busy /\ f[c].at \in Events /\ \A d \in Calls : f[d].pc \in Busy => d = c

LEMMA WayIdle ==
  ASSUME NEW f, NEW n, AllIdle(f)
  PROVE  Way(f, n) = 3 * (Len(Log) - n)
BY DEF Way, AllIdle

LEMMA WayAlone ==
  ASSUME NEW f, NEW n, NEW c \in Calls, Alone(f, c)
  PROVE  Way(f, n) = 3 * (Len(Log) - f[c].at) + (IF f[c].pc = "event" THEN 2 ELSE 1)
<1>1. WorksAt(f) = c
  BY DEF WorksAt, Alone
<1>. QED  BY <1>1 DEF Way, Alone

LEMMA LogLength == Len(Log) \in Nat
BY LedgerAssumption

LEMMA EventNumbers == \A i \in Events : i \in Nat \ {0} /\ i <= Len(Log)
BY EventFacts

\* The arithmetic of the way: what is left at event k of l.
LEMMA WayNumbers ==
  ASSUME NEW l \in Nat, NEW k \in Nat, k <= l, NEW e \in 1..2
  PROVE  LET w == 3 * (l - k) + e
         IN  /\ w \in Int /\ 0 <= w /\ k # 0 => w <= 3 * l
             /\ 3 * (l - k) < w /\ 3 * (l - (k + 1)) + 2 < w
OBVIOUS

LEMMA WayRange ==
  ASSUME NEW f, NEW n \in Events \cup {0}, AllIdle(f) \/ \E c \in Calls : Alone(f, c)
  PROVE  Way(f, n) \in Int /\ 0 <= Way(f, n) /\ Way(f, n) <= 3 * Len(Log)
<1>1. CASE AllIdle(f)
  <2>1. n \in Nat /\ n <= Len(Log)
    BY EventNumbers, LogLength
  <2>. QED  BY <1>1, <2>1, WayIdle, LogLength
<1>2. ASSUME NEW c \in Calls, Alone(f, c)
      PROVE  Way(f, n) \in Int /\ 0 <= Way(f, n) /\ Way(f, n) <= 3 * Len(Log)
  <2>1. f[c].at \in Nat /\ f[c].at # 0 /\ f[c].at <= Len(Log)
    BY <1>2, EventNumbers DEF Alone
  <2>2. PICK e \in 1..2 : Way(f, n) = 3 * (Len(Log) - f[c].at) + e
    BY <1>2, WayAlone
  <2>. DEFINE k == f[c].at
              w == 3 * (Len(Log) - k) + e
  <2>. HIDE DEF k
  <2>3. k \in Nat /\ k # 0 /\ k <= Len(Log) /\ Way(f, n) = w
    BY <2>1, <2>2 DEF k
  <2>4. w \in Int /\ 0 <= w /\ w <= 3 * Len(Log)
    BY <2>3, WayNumbers, LogLength
  <2>. QED  BY <2>3, <2>4
<1>. QED  BY <1>1, <1>2

\* An ordered indexer has no call under way, or one.
LEMMA OneOrNone ==
  CallsFit /\ OrderedIndexer /\ inOrder => AllIdle(call) \/ \E c \in Calls : Alone(call, c)
BY EventHere DEF AllIdle, Alone, OrderedIndexer

LEMMA BusyIsAlone ==
  ASSUME CallsFit, OrderedIndexer, inOrder, NEW c \in Calls, call[c].pc \in Busy
  PROVE  Alone(call, c)
BY EventHere DEF Alone, OrderedIndexer

LEMMA Bounds ==
  /\ MaxRepeats \in Nat /\ MaxFaults \in Nat /\ MaxCrashes \in Nat
  /\ TypeOK => repeats \in Nat /\ faults \in Nat /\ crashes \in Nat
BY LedgerAssumption DEF TypeOK, LimitsTyped, Most

LEMMA SetbacksInt == TypeOK => Setbacks \in Int
BY Bounds DEF Setbacks

\* What goes wrong is counted.
LEMMA SetbackCounts ==
  ASSUME TypeOK,
         \/ repeats' = repeats + 1 /\ faults' = faults /\ crashes' = crashes
         \/ repeats' = repeats /\ faults' = faults + 1 /\ crashes' = crashes
         \/ repeats' = repeats /\ faults' = faults /\ crashes' = crashes + 1
  PROVE  Setbacks' = Setbacks - 1
BY Bounds DEF Setbacks

LEMMA InOrderKept == ASSUME [Next]_vars PROVE inOrder' = inOrder
<1>1. \A c \in Calls : CallStep(c) \/ Refuse(c) => inOrder' = inOrder
  BY DEF CallStep, Refuse, Ignore, UpsertPool, AddHistory, SkipDeposit, FindWallet, UpsertDeposit,
     UpsertRate, MarkRegistered, limits
<1>. QED  BY <1>1 DEF Next, AddWallet, Deliver, Crash, limits, vars

\* The arithmetic of a step on the way, and of a step that loses it.
LEMMA OnTheWay ==
  ASSUME NEW s \in Int, NEW l \in Nat, NEW v \in Int, NEW w \in Int, w < v
  PROVE  s * l + w < s * l + v
<1>1. s * l \in Int
  OBVIOUS
<1>. QED  BY <1>1

LEMMA LosesTheWay ==
  ASSUME NEW s \in Int, NEW l \in Nat, NEW v \in Int, NEW w \in Int, 0 <= v, w < l
  PROVE  (s - 1) * l + w < s * l + v
<1>1. s * l \in Int /\ (s - 1) * l = s * l - l
  OBVIOUS
<1>. QED  BY <1>1

\* A call that moves on.
LEMMA ContinueIsShorter ==
  ASSUME CallsFit, OrderedIndexer, inOrder, NEW c \in Calls, call[c].pc \in Busy, Continue(c)
  PROVE  Way(call', cursor') < Way(call, cursor)
<1>1. Alone(call, c)
  BY BusyIsAlone
<1>2. /\ call[c].at \in Nat /\ call[c].last \in Nat /\ call[c].at <= call[c].last
      /\ call[c].at + 1 \in Nat \ {0} /\ call[c].last <= Len(Log)
  BY EventHere, EventNumbers
<1>3. PICK e \in 1..2 : Way(call, cursor) = 3 * (Len(Log) - call[c].at) + e
  BY <1>1, WayAlone
<1>4. CASE call[c].at < call[c].last
  <2>1. Goes(c, "event", call[c].at + 1)
    BY <1>4 DEF Continue
  <2>2. /\ call'[c].pc = "event" /\ call'[c].at = call[c].at + 1
        /\ \A d \in Calls \ {c} : call'[d] = call[d]
    BY <2>1 DEF Goes, CallsFit, CallsTyped
  <2>3. call[c].at + 1 \in Events
    BY <1>2, <1>4, LogLength, EventFacts
  <2>4. Alone(call', c)
    BY <1>1, <2>2, <2>3 DEF Alone, Busy
  <2>5. Way(call', cursor') = 3 * (Len(Log) - (call[c].at + 1)) + 2
    BY <2>2, <2>4, WayAlone
  <2>6. call[c].at <= Len(Log)
    BY <1>2, LogLength
  <2>. QED  BY <1>2, <1>3, <2>5, <2>6, WayNumbers, LogLength
<1>5. CASE ~(call[c].at < call[c].last)
  <2>1. call' = [call EXCEPT ![c] = Idle] /\ cursor' = call[c].last
    BY <1>5 DEF Continue
  <2>2. AllIdle(call')
    BY <1>1, <2>1 DEF Alone, AllIdle, Idle, Busy, CallsFit, CallsTyped
  <2>3. Way(call', cursor') = 3 * (Len(Log) - call[c].last)
    BY <2>1, <2>2, WayIdle
  <2>4. call[c].last = call[c].at /\ call[c].at <= Len(Log)
    BY <1>2, <1>5, LogLength
  <2>. QED  BY <1>2, <1>3, <2>3, <2>4, WayNumbers, LogLength
<1>. QED  BY <1>4, <1>5

LEMMA GoesIsShorter ==
  ASSUME CallsFit, OrderedIndexer, inOrder, NEW c \in Calls, call[c].pc = "event",
         NEW to \in Busy \ {"event"}, Goes(c, to, call[c].at)
  PROVE  Way(call', cursor') < Way(call, cursor)
<1>1. Alone(call, c)
  BY BusyIsAlone DEF Busy
<1>2. call[c].at \in Nat
  BY <1>1, EventNumbers DEF Alone
<1>3. /\ call'[c].pc = to /\ call'[c].at = call[c].at
      /\ \A d \in Calls \ {c} : call'[d] = call[d]
  BY DEF Goes, CallsFit, CallsTyped
<1>4. Alone(call', c)
  BY <1>1, <1>3 DEF Alone
<1>5. Way(call, cursor) = 3 * (Len(Log) - call[c].at) + 2
  BY <1>1, WayAlone
<1>6. Way(call', cursor') = 3 * (Len(Log) - call[c].at) + 1
  BY <1>3, <1>4, WayAlone
<1>. QED  BY <1>2, <1>5, <1>6, LogLength

LEMMA DeliverIsShorter ==
  ASSUME TypeOK, inOrder, NEW c \in Calls, NEW i \in Events, NEW j \in Events, Deliver(c, i, j)
  PROVE  /\ Alone(call', c)
         /\ i = cursor + 1 => Way(call', cursor') < Way(call, cursor)
<1>1. /\ call' = [call EXCEPT ![c] = [pc |-> "event", from |-> i, at |-> i, last |-> j, knew |-> wallets]]
      /\ \A d \in Calls : call[d].pc = "idle"
  BY DEF Deliver
<1>2. /\ call'[c].pc = "event" /\ call'[c].at = i
      /\ \A d \in Calls \ {c} : call'[d] = call[d]
  BY <1>1 DEF TypeOK, CallsTyped
<1>3. Alone(call', c)
  BY <1>1, <1>2 DEF Alone, Busy
<1>4. Way(call, cursor) = 3 * (Len(Log) - cursor)
  <2>1. AllIdle(call)
    BY <1>1 DEF AllIdle, Busy
  <2>. QED  BY <2>1, WayIdle
<1>5. Way(call', cursor') = 3 * (Len(Log) - i) + 2
  BY <1>2, <1>3, WayAlone
<1>. QED  BY <1>3, <1>4, <1>5, CursorNat, LogLength

LEMMA IndexerStep ==
  ASSUME TypeOK, CallsFit, OrderedIndexer, [Next]_vars, inOrder
  PROVE  /\ WorkLeft' <= WorkLeft
         /\ call' # call \/ (\E c \in Calls : CallStep(c)) => WorkLeft' < WorkLeft
         /\ WorkLeft' < WorkLeft \/ (call' = call /\ cursor' = cursor)
<1>. DEFINE Lap == 3 * Len(Log) + 1
<1> USE PlacesAreBusy DEF tables, indexer, limits
<1>a. /\ inOrder' = inOrder /\ CallsFit' /\ OrderedIndexer'
  <2>1. inOrder' = inOrder
    BY InOrderKept
  <2>. QED  BY <2>1, CallsStep, OrderedStep DEF TypeOK, CallsFit
<1>b. /\ Lap \in Nat /\ Setbacks \in Int /\ WorkLeft = Setbacks * Lap + Way(call, cursor)
      /\ WorkLeft' = Setbacks' * Lap + Way(call', cursor')
  BY SetbacksInt, LogLength DEF WorkLeft
<1>c. Way(call, cursor) \in Int /\ 0 <= Way(call, cursor)
  <2>1. cursor \in Events \cup {0}
    BY DEF TypeOK, LimitsTyped
  <2>. QED  BY <2>1, OneOrNone, WayRange
<1>d. Way(call', cursor') \in Int /\ Way(call', cursor') < Lap
  <2>1. cursor' \in Events \cup {0}
    BY TypeStep DEF TypeOK, CallsFit, LimitsTyped
  <2>2. (CallsFit /\ OrderedIndexer /\ inOrder => AllIdle(call) \/ \E c \in Calls : Alone(call, c))'
    BY OneOrNone, PTL
  <2>3. AllIdle(call') \/ \E c \in Calls : Alone(call', c)
    BY <1>a, <2>2 DEF AllIdle, Alone
  <2>. QED  BY <2>1, <2>3, WayRange, LogLength
<1>. HIDE DEF Lap
<1>1. ASSUME Setbacks' = Setbacks, Way(call', cursor') < Way(call, cursor)
      PROVE  WorkLeft' < WorkLeft
  BY <1>1, <1>b, <1>c, <1>d, OnTheWay
<1>2. ASSUME Setbacks' = Setbacks - 1 PROVE WorkLeft' < WorkLeft
  BY <1>2, <1>b, <1>c, <1>d, LosesTheWay
<1>3. ASSUME NEW c \in Calls, Break(c), repeats' = repeats, crashes' = crashes
      PROVE  WorkLeft' < WorkLeft
  <2>1. Setbacks' = Setbacks - 1
    BY <1>3, SetbackCounts DEF Break
  <2>. QED  BY <1>2, <2>1
<1>4. ASSUME NEW c \in Calls, call[c].pc \in Busy, Then(c), repeats' = repeats, crashes' = crashes
      PROVE  WorkLeft' < WorkLeft
  <2>1. CASE Answered(c)
    <3>1. Continue(c) /\ Setbacks' = Setbacks
      BY <1>4, <2>1 DEF Answered, Setbacks
    <3>. QED  BY <1>1, <1>4, <3>1, ContinueIsShorter
  <2>. QED  BY <1>3, <1>4, <2>1 DEF Then
<1>5. ASSUME NEW c \in Calls, call[c].pc = "event", NEW to \in {"history", "deposit"},
             Goes(c, to, call[c].at), repeats' = repeats, faults' = faults, crashes' = crashes
      PROVE  WorkLeft' < WorkLeft
  <2>1. Setbacks' = Setbacks /\ to \in Busy \ {"event"}
    BY <1>5 DEF Setbacks, Busy
  <2>. QED  BY <1>1, <1>5, <2>1, GoesIsShorter
<1>6. ASSUME NEW c \in Calls, CallStep(c) \/ Refuse(c) PROVE WorkLeft' < WorkLeft
  <2>1. CASE Ignore(c) \/ SkipDeposit(c)
    BY <1>4, <2>1 DEF Ignore, SkipDeposit, Then
  <2>2. CASE AddHistory(c)
    BY <1>4, <2>2 DEF AddHistory
  <2>3. CASE UpsertDeposit(c)
    BY <1>4, <2>3 DEF UpsertDeposit
  <2>4. CASE UpsertRate(c)
    BY <1>4, <2>4 DEF UpsertRate
  <2>5. CASE MarkRegistered(c)
    BY <1>4, <2>5 DEF MarkRegistered
  <2>6. CASE FindWallet(c)
    BY <1>5, <2>6 DEF FindWallet
  <2>7. CASE UpsertPool(c)
    BY <1>3, <1>5, <2>7 DEF UpsertPool
  <2>8. CASE Refuse(c)
    BY <1>3, <2>8 DEF Refuse
  <2>. QED  BY <1>6, <2>1, <2>2, <2>3, <2>4, <2>5, <2>6, <2>7, <2>8 DEF CallStep
<1>7. ASSUME NEW c \in Calls, NEW i \in Events, NEW j \in Events, Deliver(c, i, j)
      PROVE  WorkLeft' < WorkLeft
  <2>1. CASE i = cursor + 1
    <3>1. Setbacks' = Setbacks
      BY <1>7, <2>1 DEF Deliver, Setbacks
    <3>. QED  BY <1>1, <1>7, <2>1, <3>1, DeliverIsShorter
  <2>2. CASE i # cursor + 1
    <3>1. repeats' = repeats + 1 /\ faults' = faults /\ crashes' = crashes
      BY <1>7, <2>2 DEF Deliver
    <3>. QED  BY <1>2, <3>1, SetbackCounts
  <2>. QED  BY <2>1, <2>2
<1>8. ASSUME Crash PROVE WorkLeft' < WorkLeft
  <2>1. Setbacks' = Setbacks - 1
    BY <1>8, SetbackCounts DEF Crash
  <2>. QED  BY <1>2, <2>1
<1>9. ASSUME (\E a \in Addresses : AddWallet(a)) \/ UNCHANGED vars
      PROVE  WorkLeft' = WorkLeft /\ call' = call /\ cursor' = cursor
  <2>1. call' = call /\ cursor' = cursor /\ Setbacks' = Setbacks
    BY <1>9 DEF AddWallet, vars, Setbacks
  <2>. QED  BY <1>b, <2>1
<1>10. WorkLeft \in Int /\ WorkLeft' \in Int
  <2>1. TypeOK' /\ (TypeOK => Setbacks \in Int)'
    BY TypeStep, SetbacksInt, PTL DEF CallsFit
  <2>2. Setbacks' \in Int
    BY <2>1
  <2>. QED  BY <1>b, <1>c, <1>d, <2>2
<1>11. WorkLeft' < WorkLeft \/ (WorkLeft' = WorkLeft /\ call' = call /\ cursor' = cursor)
  BY <1>6, <1>7, <1>8, <1>9 DEF Next
<1>. QED  BY <1>6, <1>10, <1>11

LEMMA WorkIsNumber == IInv /\ inOrder => WorkLeft \in Nat
<1>. SUFFICES ASSUME TypeOK, CallsFit, OrderedIndexer, inOrder PROVE WorkLeft \in Nat
  BY DEF IInv, TypeOK, CallsFit
<1>1. repeats <= MaxRepeats /\ faults <= MaxFaults /\ crashes <= MaxCrashes
  BY Bounds DEF TypeOK, LimitsTyped, Most
<1>2. Setbacks \in Nat
  BY <1>1, Bounds DEF Setbacks
<1>3. Way(call, cursor) \in Nat
  <2>1. cursor \in Events \cup {0}
    BY DEF TypeOK, LimitsTyped
  <2>2. Way(call, cursor) \in Int /\ 0 <= Way(call, cursor)
    BY <2>1, OneOrNone, WayRange
  <2>. QED  BY <2>2
<1>4. \A s, l, w \in Nat : s * l + w \in Nat
  OBVIOUS
<1>5. 3 * Len(Log) + 1 \in Nat
  BY LogLength
<1>. QED  BY <1>2, <1>3, <1>4, <1>5 DEF WorkLeft

\* process, under an indexer that works in order: its calls, and the statements they
\* take, are bounded by the length of the log and by what goes wrong; no event is
\* handled for ever, whatever fails, repeats or restarts.
THEOREM IndexerEnds == Spec => IndexerRunsDown
<1>1. ASSUME IInv, [Next]_vars
      PROVE  [inOrder => /\ WorkLeft \in Nat /\ WorkLeft' <= WorkLeft
                         /\ call' # call \/ (\E c \in Calls : CallStep(c))
                              => WorkLeft' < WorkLeft]_vars
  <2>1. TypeOK /\ CallsFit /\ OrderedIndexer
    BY <1>1 DEF IInv, TypeOK, CallsFit
  <2>. QED  BY <1>1, <2>1, IndexerStep, WorkIsNumber
<1>. QED  BY <1>1, Inductive, PTL DEF Spec, IndexerRunsDown

\* The guards of an ordered indexer's next call, and of a call's next statement, as they
\* are written.  That an action whose guard holds is enabled is a hypothesis below.
IndexerReady ==
    /\ inOrder /\ Calls # {} /\ MaxBatch # 0 /\ cursor < Len(Log)
    /\ \A c \in Calls : call[c].pc = "idle"
CallReady(c) ==
    /\ inOrder
    /\ \/ call[c].pc = "event" /\ Event(c).kind \in Kinds
       \/ call[c].pc \in {"history", "deposit"}

LedgerIsEnabled ==
    /\ IndexerReady => ENABLED <<CarryOn>>_vars
    /\ \A c \in Calls : CallReady(c) => ENABLED <<Proceed(c)>>_vars

\* An ordered indexer between two calls, and one whose call c is under way, with n left.
Between(n) == inOrder /\ AllIdle(call) /\ cursor # Len(Log) /\ WorkLeft = n
During(c, n) == inOrder /\ call[c].pc \in Busy /\ WorkLeft = n

IndexerGoesOn(n) == Between(n) ~> WorkLeft < n
CallGoesOn(c, n) == During(c, n) ~> WorkLeft < n

LEMMA IndexerIsReady ==
  ASSUME IInv, Calls # {}, MaxBatch # 0, NEW n, Between(n)
  PROVE  IndexerReady
<1>1. cursor < Len(Log)
  <2>1. cursor \in Events \cup {0}
    BY DEF IInv, TypeOK, LimitsTyped
  <2>2. cursor \in Nat /\ cursor <= Len(Log)
    BY <2>1, EventNumbers, LogLength
  <2>. QED  BY <2>2, LogLength DEF Between
<1>2. \A c \in Calls : call[c].pc = "idle"
  BY DEF Between, AllIdle, IInv, TypeOK, CallsTyped, CallRecords
<1>. QED  BY <1>1, <1>2 DEF IndexerReady, Between

LEMMA CallIsReady ==
  ASSUME IInv, NEW c \in Calls, NEW n, During(c, n)
  PROVE  CallReady(c)
<1>1. call[c].at \in Events
  <2>1. CallsFit /\ call[c].pc \in Busy
    BY DEF IInv, TypeOK, CallsFit, During
  <2>. QED  BY <2>1, EventHere
<1>2. Event(c).kind \in Kinds
  BY <1>1, LedgerAssumption DEF Event, Events
<1>. QED  BY <1>2 DEF CallReady, During, Busy

LEMMA StaysOrIsLess ==
  ASSUME IInv, [Next]_vars, inOrder, NEW n, WorkLeft = n
  PROVE  /\ inOrder'
         /\ WorkLeft' < n \/ (WorkLeft' = n /\ call' = call /\ cursor' = cursor)
         /\ CarryOn \/ (\E c \in Calls : CallStep(c)) => WorkLeft' < n
<1>1. TypeOK /\ CallsFit /\ OrderedIndexer
  BY DEF IInv, TypeOK, CallsFit
<1>2. /\ WorkLeft' < n \/ (WorkLeft' = n /\ call' = call /\ cursor' = cursor)
      /\ call' # call \/ (\E c \in Calls : CallStep(c)) => WorkLeft' < n
  <2>1. /\ WorkLeft' <= WorkLeft
        /\ call' # call \/ (\E c \in Calls : CallStep(c)) => WorkLeft' < WorkLeft
        /\ WorkLeft' < WorkLeft \/ (call' = call /\ cursor' = cursor)
    BY <1>1, IndexerStep
  <2>2. WorkLeft \in Nat /\ WorkLeft' \in Nat
    <3>1. (IInv /\ inOrder => WorkLeft \in Nat)'
      BY WorkIsNumber, PTL
    <3>. QED  BY <3>1, IInvStep, InOrderKept, WorkIsNumber
  <2>. QED  BY <2>1, <2>2
<1>3. CarryOn => call' # call
  <2>. SUFFICES ASSUME NEW c \in Calls, NEW j \in Events, Deliver(c, cursor + 1, j)
                PROVE  call' # call
    BY DEF CarryOn
  <2>1. call[c].pc = "idle" /\ call'[c].pc = "event"
    BY <1>1 DEF Deliver, CallsFit, CallsTyped
  <2>. QED  BY <2>1
<1>. QED  BY <1>2, <1>3, InOrderKept

LEMMA BetweenGoesOn ==
  ASSUME NEW n \in Nat, Calls # {}, MaxBatch # 0
  PROVE  Spec /\ IndexerCarriesOn /\ []LedgerIsEnabled => IndexerGoesOn(n)
<1>1. IInv /\ [Next]_vars /\ Between(n) => Between(n)' \/ (WorkLeft < n)'
  BY StaysOrIsLess DEF Between, AllIdle
<1>2. IInv /\ [Next]_vars /\ <<CarryOn>>_vars /\ Between(n) => (WorkLeft < n)'
  BY StaysOrIsLess DEF Between
<1>3. IInv /\ LedgerIsEnabled /\ Between(n) => ENABLED <<CarryOn>>_vars
  <2>1. IInv /\ Between(n) => IndexerReady
    BY IndexerIsReady
  <2>. QED  BY <2>1 DEF LedgerIsEnabled
<1>. QED  BY <1>1, <1>2, <1>3, Inductive, PTL DEF Spec, IndexerCarriesOn, IndexerGoesOn

LEMMA DuringGoesOn ==
  ASSUME NEW n \in Nat, NEW c \in Calls
  PROVE  Spec /\ CallProceeds(c) /\ []LedgerIsEnabled => CallGoesOn(c, n)
<1>1. IInv /\ [Next]_vars /\ During(c, n) => During(c, n)' \/ (WorkLeft < n)'
  BY StaysOrIsLess DEF During
<1>2. IInv /\ [Next]_vars /\ <<Proceed(c)>>_vars /\ During(c, n) => (WorkLeft < n)'
  BY StaysOrIsLess DEF During, Proceed
<1>3. IInv /\ LedgerIsEnabled /\ During(c, n) => ENABLED <<Proceed(c)>>_vars
  <2>1. IInv /\ During(c, n) => CallReady(c)
    BY CallIsReady
  <2>. QED  BY <2>1 DEF LedgerIsEnabled
<1>. QED  BY <1>1, <1>2, <1>3, Inductive, PTL DEF Spec, CallProceeds, CallGoesOn

\* Until it has reached the end of the log, an ordered indexer comes to have less left.
LogGoesOn == \A n \in Nat : IndexerGoesOn(n) /\ \A c \in Calls : CallGoesOn(c, n)

\* process, under an indexer that works in order and calls again: whatever is left of the
\* log, and whatever fails, there will be less; no event blocks those behind it.
THEOREM IndexerProgress ==
    Calls # {} /\ MaxBatch # 0 => (FairSpec /\ []LedgerIsEnabled => LogGoesOn)
BY BetweenGoesOn, DuringGoesOn, Zenon DEF FairSpec, Fairness, LogGoesOn

=============================================================================
