------------------------------- MODULE MCCaches -------------------------------
(***************************************************************************)
(* Small instances of the parts that answer with what others may change    *)
(* meanwhile: ContractCache, ExchangeRateCache, PragmaFeed and Listings.   *)
(* They share no entry and no row, so the steps of one say nothing about   *)
(* the others: the run lets one of them work in each behaviour, instead of *)
(* multiplying their states.                                               *)
(***************************************************************************)
EXTENDS Integers

CONSTANTS MaxLatency, MaxTime, MaxRestarts,
          Keys, TTL, WriterKeys, Readers, Writers, MaxVersion,  \* contract reads
          Requests, RatesTTL, SharedTTL,                        \* exchange rates
          Pairs, MaxSockets,                                    \* Pragma
          Limit, MaxRows, MaxChanges                            \* listings

MCTTL == [k \in {"registered"} |-> 2]

VARIABLES
    reads,        \* the part at work
    clock, current, replaced, entry, reader, writer, invalidated, raced, restarts,
    rateClock, memory, shared, request, newest, rateRestarts,
    state, timers, opened, intervals, handle, prices, destroyed,
    listing, createdAt, listed, page, todo, data, total, seen, ended,
    throughout, repeats, entered, left, torn

Contract == INSTANCE ContractCache
Rates    == INSTANCE ExchangeRateCache WITH
    TTL <- RatesTTL, clock <- rateClock, restarts <- rateRestarts
Feed     == INSTANCE PragmaFeed
Pages    == INSTANCE Listings

ASSUME ContractBounds == Contract!CacheAssumption
ASSUME RateBounds == Rates!RateCacheAssumption
ASSUME FeedBounds == Feed!FeedAssumption
ASSUME PageBounds == Pages!ListingAssumption

contractVars == <<clock, current, replaced, entry, reader, writer, invalidated, raced, restarts>>
rateVars     == <<rateClock, memory, shared, request, newest, rateRestarts>>
feedVars     == <<state, timers, opened, intervals, handle, prices, destroyed>>
pageVars     == <<listing, createdAt, listed, page, todo, data, total, seen, ended,
                  throughout, repeats, entered, left, torn>>
vars         == <<reads, contractVars, rateVars, feedVars, pageVars>>

\* Parts that are not at work stand still; listings then begin without rows.
Init ==
    /\ reads \in {"contract", "rates", "feed", "pages"}
    /\ Contract!Init /\ Rates!Init /\ Feed!Init /\ Pages!Init
    /\ reads # "pages" => listing = "parallel" /\ createdAt = <<>>

Next ==
    /\ UNCHANGED reads
    /\ \/ reads = "contract" /\ Contract!Next /\ UNCHANGED <<rateVars, feedVars, pageVars>>
       \/ reads = "rates"    /\ Rates!Next    /\ UNCHANGED <<contractVars, feedVars, pageVars>>
       \/ reads = "feed"     /\ Feed!Next     /\ UNCHANGED <<contractVars, rateVars, pageVars>>
       \/ reads = "pages"    /\ Pages!Next    /\ UNCHANGED <<contractVars, rateVars, feedVars>>

\* The fairness of the feed asks nothing while another part is at work.
Spec == Init /\ [][Next]_vars /\ Feed!Fairness

(***************************************************************************)
(* The properties of each part.                                            *)
(***************************************************************************)

\* The variables of the four parts keep their types.
TypeOK == Contract!TypeOK /\ Rates!TypeOK /\ Feed!TypeOK /\ Pages!TypeOK

\* The cached contract reads: an answer was the contract's a lifetime and a read ago;
\* getExchangeRates: rates are as recent as the lifetimes they were kept for, and what
\* a failed fetch falls back on is near the newest rates there were.
AnswersAreRecent ==
    Contract!StalenessBounded /\ Rates!ServedAreRecent /\ Rates!FallbackIsNearNewest

\* registerUserToLiquidity, addSupportedToken: a deletion is undone only by
\* a read that raced with it.
WriteSeenUnlessRaced == Contract!WriteSeenUnlessRaced

\* PragmaService: one socket lives, pinged while it is open, or one timer will
\* open the next.
OneSubscription == Feed!OneSubscription

\* findAll and its like: pages miss no more rows than ceased to match meanwhile, and
\* repeat no more than came to match.
PagesAreExplained == Pages!MissedAreExplained /\ Pages!RepeatsAreExplained

\* connect: a subscription that broke is taken up again.
Resubscribes == Feed!Resubscribes

=============================================================================
