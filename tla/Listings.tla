------------------------------ MODULE Listings ------------------------------
(***************************************************************************)
(* Rows listed page by page: users, a user's accounts, wallets,            *)
(* transactions and swap orders, all transactions, all swap orders.  A     *)
(* page is cut from the rows that match, newest first, and comes with      *)
(* their number; page and number are two statements, and other requests    *)
(* change the rows between any two statements.                             *)
(*                                                                         *)
(* One client asks for page after page, as far as the last number goes.    *)
(* Rows are numbered in the order of their creation times; rows of the     *)
(* same millisecond have no order, so each statement may order them anew.  *)
(***************************************************************************)
EXTENDS Integers, FiniteSets

CONSTANTS
    Limit,                  \* rows of a page
    MaxRows, MaxChanges     \* bounds: rows, and changes while the client reads

ListingAssumption == Limit \in Nat \ {0} /\ MaxRows \in Nat /\ MaxChanges \in Nat

VARIABLES
    listing,     \* which kind of listing is read
    createdAt,   \* creation time per row
    listed,      \* rows that match the filter
    page,        \* the page being read
    todo,        \* its statements that are yet to run
    data, total, \* what those that ran have returned
    seen,        \* rows the client was shown
    ended,       \* was the last page answered?
    throughout,  \* history: rows that matched ever since the first page was asked for
    repeats,     \* history: how often a row was shown again
    entered, left,   \* history: rows that came to match, or ceased to, meanwhile
    torn         \* history: those that came between a page's number and its rows

vars == <<listing, createdAt, listed, page, todo, data, total, seen, ended,
          throughout, repeats, entered, left, torn>>
client  == <<page, todo, data, total, seen, ended, repeats>>
changes == <<createdAt, listed, throughout, entered, left, torn>>

Rows == DOMAIN createdAt

TypeOK ==
    /\ listing    \in {"parallel", "awaited"}
    /\ createdAt  \in UNION {[1..n -> 0..MaxRows] : n \in 0..MaxRows}
    /\ listed     \subseteq Rows
    /\ page       \in Nat \ {0}
    /\ todo       \subseteq {"data", "total"}
    /\ data       \subseteq Rows
    /\ total      \in 0..MaxRows
    /\ seen       \subseteq Rows
    /\ ended      \in BOOLEAN
    /\ throughout \subseteq listed
    /\ repeats \in Nat /\ entered \in Nat /\ left \in Nat /\ torn \in 0..entered

\* Rows come one after another, some in the same millisecond.
TimesOf(r, t) == IF r = 1 THEN {0} ELSE {t[r - 1], t[r - 1] + 1}

Histories == {t \in UNION {[1..n -> 0..MaxRows] : n \in 0..MaxRows} :
                \A r \in DOMAIN t : t[r] \in TimesOf(r, t)}

Init ==
    /\ listing \in {"parallel", "awaited"}
    /\ createdAt \in Histories
    /\ listed \in SUBSET Rows
    /\ page = 1 /\ todo = {"data", "total"}
    /\ data = {} /\ total = 0
    /\ seen = {} /\ ended = FALSE
    /\ throughout = listed
    /\ repeats = 0 /\ entered = 0 /\ left = 0 /\ torn = 0

(***************************************************************************)
(* Other requests.                                                         *)
(***************************************************************************)
Lists(r) ==
    /\ ~ended
    /\ entered + left < MaxChanges
    /\ listed' = listed \cup {r}
    /\ entered' = entered + 1
    /\ torn' = IF todo = {"data"} THEN torn + 1 ELSE torn
    /\ UNCHANGED <<listing, client, throughout, left>>

\* A row is created.
CreateRow ==
    /\ Cardinality(Rows) < MaxRows
    /\ LET r == Cardinality(Rows) + 1
       IN  /\ \E t \in TimesOf(r, createdAt) :
                createdAt' = [i \in 1..r |-> IF i = r THEN t ELSE createdAt[i]]
           /\ Lists(r)

\* A row is updated so that it matches, or one created earlier is committed.
Match(r) == r \in Rows \ listed /\ Lists(r) /\ UNCHANGED createdAt

\* A row is deleted, or updated so that it does not match any more.
Unmatch(r) ==
    /\ ~ended
    /\ entered + left < MaxChanges
    /\ r \in listed
    /\ listed' = listed \ {r}
    /\ throughout' = throughout \ {r}
    /\ left' = left + 1
    /\ UNCHANGED <<listing, client, createdAt, entered, torn>>

(***************************************************************************)
(* The two statements of a page, and its answer.                           *)
(***************************************************************************)
Skip == (page - 1) * Limit

Fewest(a, b) == IF a < b THEN a ELSE b

\* Mutant: without orderBy the database returns rows as it finds them.
IsPageUnordered(S) ==
    Cardinality(S) = Fewest(Limit, Cardinality(listed) - Fewest(Skip, Cardinality(listed)))

\* skip, take and orderBy createdAt desc: S follows the Skip newest rows.
IsPage(S) ==
    \E newer \in SUBSET (listed \ S) :
      LET older == listed \ (S \cup newer)
      IN  /\ Cardinality(newer) = Fewest(Skip, Cardinality(listed))
          /\ Cardinality(S) = Fewest(Limit, Cardinality(listed) - Cardinality(newer))
          /\ \A i \in newer, j \in S : createdAt[i] >= createdAt[j]
          /\ \A i \in newer \cup S, j \in older : createdAt[i] >= createdAt[j]

ReadData ==
    /\ "data" \in todo
    /\ todo' = todo \ {"data"}
    /\ data' \in {S \in SUBSET listed : IsPage(S)}
    /\ UNCHANGED <<listing, changes, page, total, seen, ended, repeats>>

\* Promise.all sends both statements at once, except where findMany is awaited.
MayCount == listing = "parallel" \/ "data" \notin todo

ReadTotal ==
    /\ "total" \in todo
    /\ MayCount
    /\ todo' = todo \ {"total"}
    /\ total' = Cardinality(listed)
    /\ UNCHANGED <<listing, changes, page, data, seen, ended, repeats>>

\* The answer; the client goes on to the next page as long as total says so.
Answer ==
    /\ todo = {} /\ ~ended
    /\ seen' = seen \cup data
    /\ repeats' = repeats + Cardinality(seen \cap data)
    /\ IF page * Limit < total
         THEN page' = page + 1 /\ todo' = {"data", "total"} /\ UNCHANGED ended
         ELSE ended' = TRUE /\ UNCHANGED <<page, todo>>
    /\ data' = {} /\ total' = 0
    /\ UNCHANGED <<listing, changes>>

Next ==
    \/ CreateRow
    \/ \E r \in 1..MaxRows : Match(r) \/ Unmatch(r)
    \/ ReadData \/ ReadTotal \/ Answer

Spec == Init /\ [][Next]_vars

(***************************************************************************)
(* Properties.                                                             *)
(***************************************************************************)
Tied(r) == \E i \in Rows \ {r} : createdAt[i] = createdAt[r]

\* Pages 1 to the last show every row that matched all the while, except for at
\* most one row per row that ceased to match meanwhile, whatever came to match;
\* where number and rows are read at once, also one per row that came between.
\* Rows of the same millisecond are left aside: their order may change.
MissedAreExplained ==
    ended => Cardinality({r \in throughout \ seen : ~Tied(r)})
               <= left + (IF listing = "parallel" THEN torn ELSE 0)

\* Rows are shown again at most as often as rows came to match meanwhile, as long
\* as no two rows are of the same millisecond.
RepeatsAreExplained == (\A r \in Rows : ~Tied(r)) => repeats <= entered

=============================================================================
