------------------------- MODULE AccountProvisioning -------------------------
(***************************************************************************)
(* The accounts of one user: the user row, its fiat accounts and its       *)
(* StarkNet wallets, the accounts that the factory contract has made for   *)
(* it, and their registration with the liquidity contract.                 *)
(*                                                                         *)
(* provisionUserAccounts asks a bank for an account, makes an account on   *)
(* chain, stores its wallet and registers it, each step on its own; the    *)
(* wallet service adds single accounts; remove deletes everything in one   *)
(* transaction; the UserRegistered event comes back through the indexer.   *)
(* Requests may overlap, and any step may be the last one of its request.  *)
(*                                                                         *)
(* Fiat rows and accounts on chain are numbered as they are made.  The key *)
(* of an account on chain is in the memory of its request until the wallet *)
(* row holds it.                                                           *)
(***************************************************************************)
EXTENDS Integers

CONSTANTS
    Requests,
    MaxFiat, MaxAccounts     \* bounds: fiat rows, accounts on chain

ProvisioningAssumption == MaxFiat \in Nat /\ MaxAccounts \in Nat

VARIABLES
    user,          \* the row: none, row, removed
    fiat,          \* ids of its fiat accounts; all of them are default ones
    fiatMade,      \* fiat rows ever created
    wallets,       \* addresses of its wallet rows
    flagged,       \* those with isRegisteredToLiquidity
    request,
    made,          \* accounts that the factory has made
    registered,    \* accounts that the liquidity contract has registered
    provisioned,   \* history: accounts of requests that were answered with success
    excused,       \* history: those of them without a default fiat account, or reverted
    reported,      \* history: accounts whose UserRegistered event was handled
    early          \* history: accounts a client registered while no wallet row held them

vars    == <<user, fiat, fiatMade, wallets, flagged, request,
             made, registered, provisioned, excused, reported, early>>
rows    == <<fiat, fiatMade, wallets, flagged>>
chain   == <<made, registered>>
history == <<provisioned, excused, reported, early>>

FiatIds   == 1..MaxFiat
Accounts  == 1..MaxAccounts
NoAccount == 0
Idle      == [op |-> "none", pc |-> "idle", account |-> NoAccount]
Deleting(pc, f, w) == [op |-> "remove", pc |-> pc, fiat |-> f, wallets |-> w]

\* A request's step, with the account on chain or the rows it has in its hands.
RequestRows ==
    {Idle}
    \cup [op : {"provision", "fiat"}, pc : {"bank", "addFiat"}, account : {NoAccount}]
    \cup [op : {"provision", "wallet"}, pc : {"deploy"}, account : {NoAccount}]
    \cup [op : {"provision", "wallet"}, pc : {"addWallet"}, account : 1..made]
    \cup [op : {"provision"}, pc : {"findFiat", "register"}, account : 1..made]
    \cup [op : {"remove"}, pc : {"fiatDeleted", "walletsDeleted"},
          fiat : SUBSET (1..fiatMade), wallets : SUBSET (1..made)]

TypeOK ==
    /\ user        \in {"none", "row", "removed"}
    /\ fiat        \subseteq 1..fiatMade
    /\ fiatMade    \in 0..MaxFiat
    /\ wallets     \subseteq 1..made
    /\ flagged     \subseteq wallets
    /\ request     \in [Requests -> RequestRows]
    /\ made        \in 0..MaxAccounts
    /\ registered  \subseteq 1..made
    /\ provisioned \subseteq 1..made
    /\ excused     \subseteq provisioned
    /\ reported    \subseteq registered
    /\ early       \subseteq registered

Init ==
    /\ user = "none" /\ fiat = {} /\ fiatMade = 0 /\ wallets = {} /\ flagged = {}
    /\ request = [r \in Requests |-> Idle]
    /\ made = 0 /\ registered = {}
    /\ provisioned = {} /\ excused = {} /\ reported = {} /\ early = {}

At(r, op, pc)   == request[r].op = op /\ request[r].pc = pc
Goes(r, to)     == request' = [request EXCEPT ![r] = to]
Continues(r, pc, a) == Goes(r, [op |-> request[r].op, pc |-> pc, account |-> a])
Begins(r, op, pc) == request[r] = Idle /\ Goes(r, [op |-> op, pc |-> pc, account |-> NoAccount])

\* createUser: the row alone.
CreateUser ==
    /\ user = "none"
    /\ user' = "row"
    /\ UNCHANGED <<rows, request, chain, history>>

(***************************************************************************)
(* provisionUserAccounts.                                                  *)
(***************************************************************************)
Provision(r) ==
    /\ user = "row"
    /\ Begins(r, "provision", "bank")
    /\ UNCHANGED <<user, rows, chain, history>>

\* createVirtualAccounts: an account, or null, which the loop passes over.
VirtualAccount(r) ==
    /\ At(r, "provision", "bank")
    /\ \E pc \in {"addFiat", "deploy"} : Continues(r, pc, NoAccount)
    /\ UNCHANGED <<user, rows, chain, history>>

\* A fiat row: the foreign key asks for the user.
InsertFiat ==
    /\ user = "row"
    /\ fiatMade < MaxFiat
    /\ fiatMade' = fiatMade + 1
    /\ fiat' = fiat \cup {fiatMade + 1}
    /\ UNCHANGED <<wallets, flagged>>

AddFiat(r) ==
    /\ At(r, "provision", "addFiat")
    /\ InsertFiat
    /\ Continues(r, "deploy", NoAccount)
    /\ UNCHANGED <<user, chain, history>>

\* Mutant: an account whose creation reverted is not told apart.
CreateAccountUnchecked(r) ==
    /\ request[r].pc = "deploy"
    /\ made < MaxAccounts
    /\ made' \in {made, made + 1}
    /\ Continues(r, "addWallet", IF made' = made THEN NoAccount ELSE made')
    /\ UNCHANGED <<user, rows, registered, history>>

\* Mutant: an account is registered as soon as it is made, before its row is stored.
CreateAccountRegistered(r) ==
    /\ request[r].pc = "deploy"
    /\ made < MaxAccounts
    /\ made' = made + 1
    /\ registered' = registered \cup {made + 1}
    /\ Continues(r, "addWallet", made + 1)
    /\ UNCHANGED <<user, rows, history>>

\* createAccount: a fresh key pair, an account made on chain, its address from the
\* receipt.  (When the receipt is lost, Fails follows: the key is lost.)
CreateAccount(r) ==
    /\ request[r].pc = "deploy"
    /\ made < MaxAccounts
    /\ made' = made + 1
    /\ Continues(r, "addWallet", made + 1)
    /\ UNCHANGED <<user, rows, registered, history>>

InsertWallet(a) ==
    /\ user = "row"
    /\ wallets' = wallets \cup {a}
    /\ UNCHANGED <<fiat, fiatMade, flagged>>

AddWallet(r) ==
    /\ At(r, "provision", "addWallet")
    /\ InsertWallet(request[r].account)
    /\ Continues(r, "findFiat", request[r].account)
    /\ UNCHANGED <<user, chain, history>>

Answered(r, excuse) ==
    /\ provisioned' = provisioned \cup {request[r].account}
    /\ excused' = excused \cup (IF excuse THEN {request[r].account} ELSE {})
    /\ Goes(r, Idle)

\* findFirst of a default account: without one, registration is passed over.
FindFiat(r) ==
    /\ At(r, "provision", "findFiat")
    /\ IF fiat # {}
         THEN Continues(r, "register", request[r].account) /\ UNCHANGED history
         ELSE Answered(r, TRUE) /\ UNCHANGED <<reported, early>>
    /\ UNCHANGED <<user, rows, chain>>

\* registerUserToLiquidity: executed, and the answer comes or is lost; or reverted,
\* which is answered with 'success' too.
RegisterUser(r) ==
    /\ At(r, "provision", "register")
    /\ \/ /\ registered' = registered \cup {request[r].account}
          /\ \/ Answered(r, FALSE) /\ UNCHANGED <<reported, early>>
             \/ Goes(r, Idle) /\ UNCHANGED history
       \/ /\ Answered(r, TRUE)
          /\ UNCHANGED <<registered, reported, early>>
    /\ UNCHANGED <<user, rows, made>>

\* POST /contract/register-user-to-liquidity takes any address from anybody: also one
\* whose wallet row is not stored yet, since the dashboard route tells the address of a
\* new account from the moment it is made.  (Before that nobody knows it: its key is new.)
RegisterWallet(a) ==
    /\ a <= made
    /\ registered' = registered \cup {a}
    /\ early' = early \cup ({a} \ wallets)
    /\ UNCHANGED <<user, rows, request, made, provisioned, excused, reported>>

(***************************************************************************)
(* The wallet service: a reserved bank account, or a further wallet.       *)
(***************************************************************************)
CreateFiatAccount(r) ==
    /\ user = "row"
    /\ Begins(r, "fiat", "bank")
    /\ UNCHANGED <<user, rows, chain, history>>

\* createReserveAccount: an account; without one its caller throws (Fails).
ReserveAccount(r) ==
    /\ At(r, "fiat", "bank")
    /\ Continues(r, "addFiat", NoAccount)
    /\ UNCHANGED <<user, rows, chain, history>>

AddReserved(r) ==
    /\ At(r, "fiat", "addFiat")
    /\ InsertFiat
    /\ Goes(r, Idle)
    /\ UNCHANGED <<user, chain, history>>

CreateCryptoWallet(r) ==
    /\ user = "row"
    /\ Begins(r, "wallet", "deploy")
    /\ UNCHANGED <<user, rows, chain, history>>

AddCryptoWallet(r) ==
    /\ At(r, "wallet", "addWallet")
    /\ InsertWallet(request[r].account)
    /\ Goes(r, Idle)
    /\ UNCHANGED <<user, chain, history>>

(***************************************************************************)
(* remove: one transaction.  Each deleteMany takes the rows that are there *)
(* when it runs; nobody else sees them gone before the commit.             *)
(***************************************************************************)

\* Mutant: the statements are not in a transaction.
RemoveFiatAtOnce(r) ==
    /\ user = "row"
    /\ request[r] = Idle
    /\ fiat' = {}
    /\ Goes(r, Deleting("fiatDeleted", fiat, {}))
    /\ UNCHANGED <<user, fiatMade, wallets, flagged, chain, history>>

RemoveFiat(r) ==
    /\ user = "row"
    /\ request[r] = Idle
    /\ Goes(r, Deleting("fiatDeleted", fiat, {}))
    /\ UNCHANGED <<user, rows, chain, history>>

RemoveWallets(r) ==
    /\ At(r, "remove", "fiatDeleted")
    /\ Goes(r, Deleting("walletsDeleted", request[r].fiat, wallets))
    /\ UNCHANGED <<user, rows, chain, history>>

\* The user row: it must be there, and no row may refer to it any more.
RemoveUser(r) ==
    /\ At(r, "remove", "walletsDeleted")
    /\ user = "row"
    /\ fiat \subseteq request[r].fiat /\ wallets \subseteq request[r].wallets
    /\ user' = "removed"
    /\ fiat' = {} /\ wallets' = {} /\ flagged' = {}
    /\ Goes(r, Idle)
    /\ UNCHANGED <<fiatMade, chain, history>>

\* Any step is refused, fails or loses its answer, or the server restarts; an open
\* transaction is rolled back.
Fails(r) ==
    /\ request[r] # Idle
    /\ Goes(r, Idle)
    /\ UNCHANGED <<user, rows, chain, history>>

\* handleUserRegistered: the rows with that address, if any; events are repeated.
UserRegistered(a) ==
    /\ a \in registered
    /\ flagged' = flagged \cup (wallets \cap {a})
    /\ reported' = reported \cup {a}
    /\ UNCHANGED <<user, fiat, fiatMade, wallets, request, chain, provisioned, excused, early>>

Next ==
    \/ CreateUser
    \/ \E r \in Requests :
         \/ Provision(r) \/ VirtualAccount(r) \/ AddFiat(r) \/ CreateAccount(r)
         \/ AddWallet(r) \/ FindFiat(r) \/ RegisterUser(r)
         \/ CreateFiatAccount(r) \/ ReserveAccount(r) \/ AddReserved(r)
         \/ CreateCryptoWallet(r) \/ AddCryptoWallet(r)
         \/ RemoveFiat(r) \/ RemoveWallets(r) \/ RemoveUser(r)
         \/ Fails(r)
    \/ \E a \in Accounts : RegisterWallet(a) \/ UserRegistered(a)

Spec == Init /\ [][Next]_vars

(***************************************************************************)
(* Properties.                                                             *)
(***************************************************************************)

\* A wallet is flagged as registered only if the indexer has reported it, and each
\* reported wallet is flagged: what the server registers itself is stored before, so that
\* its event cannot miss the row, whichever requests overlap and fail.  A client that
\* registers an address before its row is stored can make the event miss it.
FlagFollowsEvent ==
    /\ flagged \subseteq reported
    /\ (wallets \cap reported) \ early \subseteq flagged

\* A request answered with success leaves the user a wallet of its own account,
\* registered unless the user had no default fiat account then or the contract
\* reverted, for as long as the user is there.
AnsweredIsProvisioned ==
    /\ user = "row" => provisioned \subseteq wallets
    /\ provisioned \subseteq registered \cup excused

\* A user's rows go only together with the user, all of them, even when accounts
\* are added while it is being removed: no removal leaves a user without accounts
\* or an account without a user.
RemovalIsWhole ==
    [][/\ (fiat \ fiat' # {} \/ wallets \ wallets' # {}) => user' = "removed"
       /\ user' = "removed" => fiat' = {} /\ wallets' = {}]_vars

=============================================================================
