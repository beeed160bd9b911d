------------------------------- MODULE MCLedger -------------------------------
(***************************************************************************)
(* LiquidityLedger under two indexers, of which a behaviour has one: one   *)
(* whose calls may overlap, repeat and come in any order, and one that     *)
(* makes one call at a time, oldest event first.                           *)
(***************************************************************************)
EXTENDS LiquidityLedger

Add(s, n)      == [kind |-> "add", symbol |-> s, amount |-> n]
Remove(s, n)   == [kind |-> "remove", symbol |-> s, amount |-> n]
Deposit(u, r)  == [kind |-> "deposit", user |-> u, reference |-> r]
Rate(p)        == [kind |-> "rate", pair |-> p]
RegisteredAs(u) == [kind |-> "registered", user |-> u]
Silent         == [kind |-> "silent"]

\* A removal that opens its pool and an addition to it, two rates of a pair with
\* events between them that may fail, and the events of the other tables.
MCLog == <<Rate("NGN-USDC"), Remove("NGN", 3), Add("NGN", 5), RegisteredAs("a"),
           Deposit("a", "r1"), Deposit("a", NoReference), Rate("NGN-USDC"), Silent>>

=============================================================================
