------------------------------ MODULE MCAccounts ------------------------------
(***************************************************************************)
(* Small instances of what concerns a user's accounts: how they come and   *)
(* go (AccountProvisioning), transfers between them (FiatLedger) and the   *)
(* summary of what they are worth (WalletSummary).  Each part is a view of *)
(* other columns: transfers take accounts that stay, and the summary reads *)
(* the user's rows in one statement, whatever they hold then.  The run     *)
(* lets one of them work in each behaviour, instead of multiplying their   *)
(* states.                                                                 *)
(***************************************************************************)
EXTENDS Integers

CONSTANTS Requests,
          MaxFiat, MaxAccounts,                    \* provisioning
          Users, Start, Amounts, MaxTime,          \* transfers
          Wallets, Defaults, Tokens, Fiat, Kobo, Naira, MaxHeld, MaxMoves   \* summary

MCStart == [u \in {"u1", "u2"} |-> 2]
MCFiat  == {[c \in {"NGN", "USD"} |-> 1]}

VARIABLES
    part,         \* the part at work
    user, fiat, fiatMade, wallets, flagged, request,
    made, registered, provisioned, excused, reported, early,
    clock, rows, audits, balance, transfer,
    held, step, fiatRead, read, naira, prices, default, again, past, moves

Provisioning == INSTANCE AccountProvisioning
Transfers    == INSTANCE FiatLedger WITH request <- transfer
Summary      == INSTANCE WalletSummary WITH fiat <- fiatRead

ASSUME AccountBounds == Provisioning!ProvisioningAssumption
ASSUME TransferBounds == Transfers!LedgerAssumption
ASSUME SummaryBounds == Summary!SummaryAssumption

accountVars  == <<user, fiat, fiatMade, wallets, flagged, request,
                  made, registered, provisioned, excused, reported, early>>
transferVars == <<clock, rows, audits, balance, transfer>>
summaryVars  == <<held, step, fiatRead, read, naira, prices, default, again, past, moves>>
vars         == <<part, accountVars, transferVars, summaryVars>>

\* Parts that are not at work stand still; the summary's wallets are then empty.
Init ==
    /\ part \in {"provisioning", "transfers", "summary"}
    /\ Provisioning!Init /\ Transfers!Init /\ Summary!Init
    /\ part # "summary" => \A x \in Summary!Places : held[x] = 0

Next ==
    /\ UNCHANGED part
    /\ \/ /\ part = "provisioning" /\ Provisioning!Next
          /\ UNCHANGED <<transferVars, summaryVars>>
       \/ /\ part = "transfers" /\ Transfers!Next
          /\ UNCHANGED <<accountVars, summaryVars>>
       \/ /\ part = "summary" /\ Summary!Next
          /\ UNCHANGED <<accountVars, transferVars>>

Spec == Init /\ [][Next]_vars

(***************************************************************************)
(* The properties of each part.                                            *)
(***************************************************************************)

\* The variables of accounts, transfers and summaries keep their types.
TypeOK == Provisioning!TypeOK /\ Transfers!TypeOK /\ Summary!TypeOK

\* handleUserRegistered: a wallet is flagged only if its event was handled, and each
\* wallet whose event was handled is flagged, but where a client came before the server.
FlagFollowsEvent == Provisioning!FlagFollowsEvent

\* provisionUserAccounts, the transfer service and transferFiat: what was answered with
\* success is in the tables, and what was refused left nothing there.
AnsweredIsDone == Provisioning!AnsweredIsProvisioned /\ Transfers!AnsweredIsRecorded

\* remove: a user's rows go together with the user, all of them.
RemovalIsWhole == Provisioning!RemovalIsWhole

\* getWalletSummary: its totals and token balances are those of accounts and wallets
\* while it was computed, except for what could not be read.
SummaryIsExplained == Summary!SummaryIsExplained

=============================================================================
