-------------------------- MODULE ExchangeRateCache --------------------------
(***************************************************************************)
(* getExchangeRates: rates kept in the memory of the service with a time   *)
(* stamp, behind them a copy in the shared cache, behind that three        *)
(* sources.  A set of rates is known by the time at which the first of its *)
(* sources was asked; rates of a source that caches for itself count from  *)
(* when it was asked.                                                      *)
(*                                                                         *)
(* Requests overlap freely: each reads the clock once, at its start.       *)
(***************************************************************************)
EXTENDS Integers

CONSTANTS
    Requests,
    TTL,          \* CACHE_TTL_MS: how long rates in memory serve
    SharedTTL,    \* lifetime of the copy: CACHE_TTL_MS / 1000, taken as milliseconds
    MaxLatency,   \* a request takes at most so long, its background write included
    MaxTime, MaxRestarts    \* bounds

RateCacheAssumption ==
    /\ TTL \in Nat \ {0} /\ SharedTTL \in Nat \ {0}
    /\ MaxLatency \in Nat /\ MaxTime \in Nat /\ MaxRestarts \in Nat

VARIABLES
    clock,
    memory,       \* lastCachedRates and lastFetchTime; copied: from the shared cache
    shared,       \* the copy in the shared cache
    request,      \* per request: place in the code, its clock reading, its rates
    newest,       \* history: the newest rates that memory has held since the start
    restarts

vars == <<clock, memory, shared, request, newest, restarts>>

Never    == -1
NoMemory == [sampled |-> Never, stamp |-> 0, copied |-> FALSE]
NoCopy   == [sampled |-> Never, expires |-> 0]
NoRequest == [pc |-> "idle", now |-> 0, sampled |-> Never]

Times == 0..MaxTime

TypeOK ==
    /\ clock    \in Times
    /\ memory   \in [sampled : Times \cup {Never}, stamp : Times, copied : BOOLEAN]
    /\ shared   \in [sampled : Times \cup {Never}, expires : Nat]
    /\ request  \in [Requests -> [pc : {"idle", "lookup", "ask", "fetch", "publish"},
                                  now : Times, sampled : Times \cup {Never}]]
    /\ memory.stamp <= clock
    /\ newest   \in Times \cup {Never}
    /\ restarts \in 0..MaxRestarts

Init ==
    /\ clock    = 0
    /\ memory   = NoMemory
    /\ shared   = NoCopy
    /\ request  = [r \in Requests |-> NoRequest]
    /\ newest   = Never
    /\ restarts = 0

Tick ==
    /\ clock < MaxTime
    /\ \A r \in Requests : request[r].pc # "idle" => clock - request[r].now < MaxLatency
    /\ clock' = clock + 1
    /\ UNCHANGED <<memory, shared, request, newest, restarts>>

\* May the rates in memory be returned at once?
Fresh == memory.sampled # Never /\ clock - memory.stamp < TTL

CopyLive == shared.sampled # Never /\ clock < shared.expires

Goes(r, to) == request' = [request EXCEPT ![r] = [pc |-> to, now |-> @.now, sampled |-> @.sampled]]
Ends(r)     == request' = [request EXCEPT ![r] = NoRequest]

Keep(rates) ==
    /\ memory' = rates
    /\ newest' = IF rates.sampled > newest THEN rates.sampled ELSE newest

\* Rates in memory that are too old, or none: the request goes on.
Start(r) ==
    /\ request[r].pc = "idle"
    /\ ~Fresh
    /\ request' = [request EXCEPT ![r] = [pc |-> "lookup", now |-> clock, sampled |-> Never]]
    /\ UNCHANGED <<clock, memory, shared, newest, restarts>>

\* A hit in the shared cache is copied to memory under the request's clock reading.
Copy(r) ==
    /\ request[r].pc = "lookup"
    /\ CopyLive
    /\ Keep([sampled |-> shared.sampled, stamp |-> request[r].now, copied |-> TRUE])
    /\ Ends(r)
    /\ UNCHANGED <<clock, shared, restarts>>

\* A miss, or a cache that fails.
LookupFails(r) ==
    /\ request[r].pc = "lookup"
    /\ Goes(r, "ask")
    /\ UNCHANGED <<clock, memory, shared, newest, restarts>>

\* The sources are asked together.
Ask(r) ==
    /\ request[r].pc = "ask"
    /\ request' = [request EXCEPT ![r] = [pc |-> "fetch", now |-> @.now, sampled |-> clock]]
    /\ UNCHANGED <<clock, memory, shared, newest, restarts>>

\* Mutant: the rates are stamped when they arrive.
FetchedLate(r) ==
    /\ request[r].pc = "fetch"
    /\ Keep([sampled |-> request[r].sampled, stamp |-> clock, copied |-> FALSE])
    /\ Goes(r, "publish")
    /\ UNCHANGED <<clock, shared, restarts>>

\* All have answered: memory first, under the request's clock reading.
Fetched(r) ==
    /\ request[r].pc = "fetch"
    /\ Keep([sampled |-> request[r].sampled, stamp |-> request[r].now, copied |-> FALSE])
    /\ Goes(r, "publish")
    /\ UNCHANGED <<clock, shared, restarts>>

\* One of them failed: whatever is in memory is returned, or the error is.
FetchFails(r) ==
    /\ request[r].pc = "fetch"
    /\ Ends(r)
    /\ UNCHANGED <<clock, memory, shared, newest, restarts>>

\* The write to the shared cache runs in the background and may fail.
Publish(r) ==
    /\ request[r].pc = "publish"
    /\ \/ shared' = [sampled |-> request[r].sampled, expires |-> clock + SharedTTL]
       \/ UNCHANGED shared
    /\ Ends(r)
    /\ UNCHANGED <<clock, memory, newest, restarts>>

\* The server restarts; the shared cache may be outside of it.
Restart ==
    /\ restarts < MaxRestarts
    /\ restarts' = restarts + 1
    /\ memory' = NoMemory /\ newest' = Never
    /\ request' = [r \in Requests |-> NoRequest]
    /\ shared' \in {shared, NoCopy}
    /\ UNCHANGED clock

Next ==
    \/ Tick
    \/ \E r \in Requests :
         \/ Start(r) \/ Copy(r) \/ LookupFails(r) \/ Ask(r)
         \/ Fetched(r) \/ FetchFails(r) \/ Publish(r)
    \/ Restart

Spec == Init /\ [][Next]_vars

(***************************************************************************)
(* Properties.                                                             *)
(***************************************************************************)

\* Rates served from memory are younger than TTL if the service fetched them
\* itself, however long the fetch took and whichever fetches overtook it: the stamp
\* is never later than the moment the sources were asked.  Rates copied from the
\* shared cache start a new TTL when they are copied; their age is still bounded,
\* by both lifetimes and one request.
ServedAreRecent ==
    Fresh => clock - memory.sampled
               < TTL + (IF memory.copied THEN SharedTTL + MaxLatency ELSE 0)

\* What a request falls back on when its fetch fails is of any age, but it is not much
\* older than the newest rates the server has had: a slow fetch, or the shared copy,
\* may put memory back by no more than one request and the copy's lifetime.
FallbackIsNearNewest ==
    memory.sampled # Never => newest - memory.sampled < SharedTTL + MaxLatency

=============================================================================
