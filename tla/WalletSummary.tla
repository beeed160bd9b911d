---------------------------- MODULE WalletSummary ----------------------------
(***************************************************************************)
(* What a user's accounts are worth: getWalletSummary and, inside it,      *)
(* getUnifiedBalance.  The user's rows are one statement; then every token *)
(* of every wallet is asked of the chain on its own, and what fails is     *)
(* left out; then the rates; then the tokens of the default wallet once    *)
(* more.  Balances move between any two of these reads.                    *)
(*                                                                         *)
(* Amounts of naira are in kobo, so that everything stays a whole number;  *)
(* the rate of a token is in dollars, that of the dollar in naira.  A rate *)
(* that is missing, or not a number, is 0 here.                            *)
(***************************************************************************)
EXTENDS Integers, FiniteSets, Functions

CONSTANTS
    Wallets,       \* the user's active wallets
    Defaults,      \* those with isDefault
    Tokens,        \* USDC, STRK, SYNC and ETH
    Fiat,          \* what the fiat accounts may hold: kobo and dollars
    Kobo,          \* in a naira: 100
    Naira,         \* what a dollar may cost
    MaxHeld, MaxMoves     \* bounds: a balance; movements while a summary is computed

Missing  == -1
NoWallet == "none"
Places   == Wallets \X Tokens

SummaryAssumption ==
    /\ IsFiniteSet(Wallets) /\ IsFiniteSet(Tokens)
    /\ Defaults \subseteq Wallets /\ NoWallet \notin Wallets
    /\ Fiat \subseteq [{"NGN", "USD"} -> Nat]
    /\ Kobo \in Nat \ {0} /\ Naira \subseteq Nat /\ MaxHeld \in Nat /\ MaxMoves \in Nat

VARIABLES
    held,          \* tokens on the wallets
    step,          \* where the request is
    fiat,          \* what it has read of the user's fiat accounts, in kobo and dollars
    read,          \* the balances it has read, by wallet and token
    naira, prices, \* the rates it has read
    default,       \* the wallet whose tokens it reads again
    again,         \* what it has read of them
    past,          \* history: all balances since it began
    moves

vars    == <<held, step, fiat, read, naira, prices, default, again, past, moves>>
outside == <<held, past, moves>>
rates   == <<naira, prices>>

TypeOK ==
    /\ held    \in [Places -> 0..MaxHeld]
    /\ step    \in {"idle", "tokens", "rates", "again", "answered", "failed"}
    /\ fiat    \in [{"NGN", "USD"} -> Nat]
    /\ DOMAIN read \subseteq Places  /\ \A x \in DOMAIN read : read[x] \in {Missing} \cup 0..MaxHeld
    /\ naira   \in Naira \cup {0}
    /\ prices  \in [Tokens -> 0..1]
    /\ default \in Defaults \cup {NoWallet}
    /\ DOMAIN again \subseteq Tokens /\ \A t \in DOMAIN again : again[t] \in {Missing} \cup 0..MaxHeld
    /\ past    \in [Places -> SUBSET (0..MaxHeld)]
    /\ moves   \in 0..MaxMoves

Init ==
    /\ held \in [Places -> 0..MaxHeld]
    /\ step = "idle"
    /\ fiat = [c \in {"NGN", "USD"} |-> 0]
    /\ read = <<>> /\ again = <<>>
    /\ naira = 0 /\ prices = [t \in Tokens |-> 0]
    /\ default = NoWallet
    /\ past = [x \in Places |-> {held[x]}]
    /\ moves = 0

(***************************************************************************)
(* Meanwhile, on the chain.                                                *)
(***************************************************************************)
Move(x, n) ==
    /\ step \notin {"idle", "answered", "failed"}
    /\ moves < MaxMoves
    /\ moves' = moves + 1
    /\ held[x] # n
    /\ held' = [held EXCEPT ![x] = n]
    /\ past' = [past EXCEPT ![x] = @ \cup {n}]
    /\ UNCHANGED <<step, fiat, read, rates, default, again>>

(***************************************************************************)
(* getUnifiedBalance.                                                      *)
(***************************************************************************)
\* findUnique with the accounts: all of one moment, whatever they hold then.
ReadUser ==
    /\ step = "idle"
    /\ step' = "tokens"
    /\ fiat' \in Fiat
    /\ UNCHANGED <<outside, read, rates, default, again>>

\* getAccountBalance: the balance, or an error that leaves the token out.
Balance(x) == {held[x], Missing}

Record(f, x, n) == [y \in DOMAIN f \cup {x} |-> IF y = x THEN n ELSE f[y]]

ReadToken(x) ==
    /\ step = "tokens"
    /\ x \notin DOMAIN read
    /\ \E n \in Balance(x) : read' = Record(read, x, n)
    /\ UNCHANGED <<outside, step, fiat, rates, default, again>>

ReadRates ==
    /\ step = "tokens" /\ DOMAIN read = Places
    /\ \/ /\ step' = "rates"
          /\ naira' \in Naira \cup {0} /\ prices' \in [Tokens -> 0..1]
       \/ step' = "failed" /\ UNCHANGED rates
    /\ UNCHANGED <<outside, fiat, read, default, again>>

Listed(w) == \E t \in Tokens : read[<<w, t>>] # Missing

\* Mutant: the first wallet, default or not.
FindWallet ==
    /\ step = "rates"
    /\ step' = "again"
    /\ default' \in {w \in Wallets : Listed(w)} \cup {NoWallet}
    /\ UNCHANGED <<outside, fiat, read, rates, again>>

\* find among the balances that were read: a default wallet with one of them, if any.
FindDefault ==
    /\ step = "rates"
    /\ step' = "again"
    /\ LET found == {w \in Defaults : Listed(w)}
       IN  default' \in (IF found = {} THEN {NoWallet} ELSE found)
    /\ UNCHANGED <<outside, fiat, read, rates, again>>

ReadAgain(t) ==
    /\ step = "again"
    /\ default # NoWallet
    /\ t \notin DOMAIN again
    /\ \E n \in Balance(<<default, t>>) : again' = Record(again, t, n)
    /\ UNCHANGED <<outside, step, fiat, read, rates, default>>

\* The counts of pools and settlements are read, and the answer is made.
Answer ==
    /\ step = "again"
    /\ default = NoWallet \/ DOMAIN again = Tokens
    /\ step' \in {"answered", "failed"}
    /\ UNCHANGED <<outside, fiat, read, rates, default, again>>

Next ==
    \/ ReadUser \/ ReadRates \/ FindDefault \/ Answer
    \/ \E x \in Places : ReadToken(x) \/ \E n \in 0..MaxHeld : Move(x, n)
    \/ \E t \in Tokens : ReadAgain(t)

Spec == Init /\ [][Next]_vars

(***************************************************************************)
(* The numbers of the answer.                                              *)
(***************************************************************************)
\* Without a rate, what it would convert does not count.
Converted(amount) == Kobo * amount * naira

FiatValue == fiat["NGN"] + Converted(fiat["USD"])

TokenValue ==
    SumFunction([x \in Places |-> IF read[x] = Missing THEN 0
                                  ELSE Converted(read[x] * prices[x[2]])])

totalValueNGN == FiatValue + TokenValue

\* Not a number without the rate of the dollar.
totalValueUSD == IF naira = 0 THEN Missing ELSE totalValueNGN \div (Kobo * naira)

TokenBalance(t) ==
    IF default = NoWallet \/ again[t] = Missing THEN 0 ELSE again[t]

(***************************************************************************)
(* Properties.                                                             *)
(***************************************************************************)
Failed == {x \in Places : read[x] = Missing}

\* getWalletSummary under movements and failing reads: the total in naira is the fiat of
\* one moment plus every token on every wallet once, at an amount that it held while
\* the summary was computed; what is missing from it was not read, or has no rate.
\* The tokens shown are a default wallet's, at amounts it held meanwhile; they are all 0
\* only if it has none, or a read of it failed.  With the dollar's rate, the total in
\* dollars is that in naira, converted.
SummaryIsExplained ==
    step = "answered" =>
      /\ \E worth \in [Places -> 0..MaxHeld] :
           /\ \A x \in Places : worth[x] \in (IF x \in Failed THEN {0} ELSE past[x])
           /\ totalValueNGN =
                fiat["NGN"] + Kobo * naira * (fiat["USD"] +
                  SumFunction([x \in Places |-> worth[x] * prices[x[2]]]))
      /\ \A t \in Tokens :
           \/ TokenBalance(t) = 0
           \/ \E w \in Defaults : TokenBalance(t) \in past[<<w, t>>]
      /\ default = NoWallet =>
           \A w \in Defaults : \A t \in Tokens : <<w, t>> \in Failed
      /\ naira # 0 => totalValueUSD * Kobo * naira <= totalValueNGN

=============================================================================
