---------------------------- MODULE AccountProofs ----------------------------
(***************************************************************************)
(* Theorems about a user's accounts: how they come and go, transfers       *)
(* between them and the summary of what they are worth, for any users,     *)
(* requests, wallets, tokens, amounts and bounds.  Each part has an        *)
(* inductive invariant of its own.                                         *)
(***************************************************************************)
EXTENDS MCAccounts, FiniteSets, Functions, FiniteSetTheorems, RecursionTheorems, TLAPS

(***************************************************************************)
(* AccountProvisioning.                                                    *)
(***************************************************************************)
Holding   == {"addWallet", "findFiat", "register"}
Holds(r)  == request[r].pc \in Holding

\* No two requests have the same account on chain in their hands.
AccountsAreOwn ==
    \A r, q \in Requests : r # q /\ Holds(r) /\ Holds(q) => request[r].account # request[q].account

\* Until its wallet row is there only a client may have registered the account; from then on
\* the row stays as long as the user does.
AccountsAreKept ==
    \A r \in Requests :
      /\ request[r].pc = "addWallet" => request[r].account \notin wallets \cup (registered \ early)
      /\ request[r].pc \in {"findFiat", "register"} /\ user = "row" => request[r].account \in wallets

\* Nothing is done for a user who is not there yet; nothing is left of one who is gone.
UserComesFirst ==
    /\ user = "none" => provisioned = {} /\ \A r \in Requests : request[r] = Provisioning!Idle
    /\ user = "removed" => fiat = {} /\ wallets = {}

ProvisionInv ==
    /\ Provisioning!TypeOK /\ Provisioning!FlagFollowsEvent /\ Provisioning!AnsweredIsProvisioned
    /\ AccountsAreOwn /\ AccountsAreKept /\ UserComesFirst

\* The steps of a request, when m accounts and f fiat rows were made.
RowsOf(m, f) ==
    {Provisioning!Idle}
    \cup [op : {"provision", "fiat"}, pc : {"bank", "addFiat"}, account : {Provisioning!NoAccount}]
    \cup [op : {"provision", "wallet"}, pc : {"deploy"}, account : {Provisioning!NoAccount}]
    \cup [op : {"provision", "wallet"}, pc : {"addWallet"}, account : 1..m]
    \cup [op : {"provision"}, pc : {"findFiat", "register"}, account : 1..m]
    \cup [op : {"remove"}, pc : {"fiatDeleted", "walletsDeleted"},
          fiat : SUBSET (1..f), wallets : SUBSET (1..m)]

LEMMA RowsNow ==
  Provisioning!RequestRows = RowsOf(made, fiatMade)
BY DEF Provisioning!RequestRows, RowsOf, Provisioning!Idle, Provisioning!NoAccount

LEMMA RowsNext ==
  Provisioning!RequestRows' = RowsOf(made', fiatMade')
BY DEF Provisioning!RequestRows, RowsOf, Provisioning!Idle, Provisioning!NoAccount

LEMMA RowFacts ==
  ASSUME NEW m, NEW f, NEW q \in RowsOf(m, f)
  PROVE  /\ q.pc = "deploy" => q.op \in {"provision", "wallet"}
         /\ q.pc \in Holding => q.account \in 1..m
         /\ q.pc = "fiatDeleted" => q.fiat \in SUBSET (1..f)
BY DEF RowsOf, Holding, Provisioning!Idle, Provisioning!NoAccount

LEMMA RowKinds ==
  ASSUME NEW m, NEW f
  PROVE  /\ Provisioning!Idle \in RowsOf(m, f) /\ Provisioning!Idle.pc = "idle"
         /\ \A op \in {"provision", "fiat"}, pc \in {"bank", "addFiat"} :
              [op |-> op, pc |-> pc, account |-> Provisioning!NoAccount] \in RowsOf(m, f)
         /\ \A op \in {"provision", "wallet"} :
              [op |-> op, pc |-> "deploy", account |-> Provisioning!NoAccount] \in RowsOf(m, f)
         /\ \A op \in {"provision", "wallet"}, a \in 1..m :
              [op |-> op, pc |-> "addWallet", account |-> a] \in RowsOf(m, f)
         /\ \A pc \in {"findFiat", "register"}, a \in 1..m :
              [op |-> "provision", pc |-> pc, account |-> a] \in RowsOf(m, f)
         /\ \A pc \in {"fiatDeleted", "walletsDeleted"}, F \in SUBSET (1..f), W \in SUBSET (1..m) :
              Provisioning!Deleting(pc, F, W) \in RowsOf(m, f)
BY DEF RowsOf, Provisioning!Idle, Provisioning!Deleting

LEMMA RowsGrow ==
  ASSUME NEW m \in Nat, NEW f \in Nat, NEW n \in Nat, NEW g \in Nat, m <= n, f <= g
  PROVE  RowsOf(m, f) \subseteq RowsOf(n, g)
<1>1. 1..m \subseteq 1..n /\ 1..f \subseteq 1..g
  OBVIOUS
<1>2. SUBSET (1..m) \subseteq SUBSET (1..n) /\ SUBSET (1..f) \subseteq SUBSET (1..g)
  BY <1>1
<1>. QED  BY <1>1, <1>2 DEF RowsOf

LEMMA ProvisionTypes ==
  ASSUME ProvisionInv
  PROVE  /\ MaxFiat \in Nat /\ MaxAccounts \in Nat
         /\ user \in {"none", "row", "removed"}
         /\ made \in Nat /\ made <= MaxAccounts /\ fiatMade \in Nat /\ fiatMade <= MaxFiat
         /\ fiat \subseteq 1..fiatMade /\ wallets \subseteq 1..made /\ flagged \subseteq wallets
         /\ registered \subseteq 1..made /\ provisioned \subseteq 1..made
         /\ excused \subseteq provisioned /\ reported \subseteq registered /\ early \subseteq registered
         /\ request \in [Requests -> RowsOf(made, fiatMade)]
         /\ \A r \in Requests : Holds(r) => request[r].account \in 1..made
<1>1. /\ MaxFiat \in Nat /\ MaxAccounts \in Nat
      /\ user \in {"none", "row", "removed"}
      /\ made \in Nat /\ made <= MaxAccounts /\ fiatMade \in Nat /\ fiatMade <= MaxFiat
      /\ fiat \subseteq 1..fiatMade /\ wallets \subseteq 1..made /\ flagged \subseteq wallets
      /\ registered \subseteq 1..made /\ provisioned \subseteq 1..made
      /\ excused \subseteq provisioned /\ reported \subseteq registered /\ early \subseteq registered
  BY AccountBounds DEF Provisioning!ProvisioningAssumption, ProvisionInv, Provisioning!TypeOK
<1>2. request \in [Requests -> RowsOf(made, fiatMade)]
  BY RowsNow DEF ProvisionInv, Provisioning!TypeOK
<1>. QED  BY <1>1, <1>2, RowFacts DEF Holds

LEMMA TypesAgain ==
  ASSUME MaxFiat \in Nat, MaxAccounts \in Nat,
         user' \in {"none", "row", "removed"},
         made' \in Nat, made' <= MaxAccounts, fiatMade' \in Nat, fiatMade' <= MaxFiat,
         fiat' \subseteq 1..fiatMade', wallets' \subseteq 1..made', flagged' \subseteq wallets',
         registered' \subseteq 1..made', provisioned' \subseteq 1..made',
         excused' \subseteq provisioned', reported' \subseteq registered', early' \subseteq registered',
         request' \in [Requests -> RowsOf(made', fiatMade')]
  PROVE  Provisioning!TypeOK'
BY RowsNext DEF Provisioning!TypeOK

\* One request moves.
LEMMA RequestGoes ==
  ASSUME ProvisionInv, NEW r \in Requests, NEW to, Provisioning!Goes(r, to),
         made' \in Nat, fiatMade' \in Nat, made <= made', fiatMade <= fiatMade',
         to \in RowsOf(made', fiatMade')
  PROVE  /\ request' \in [Requests -> RowsOf(made', fiatMade')]
         /\ request'[r] = to /\ \A q \in Requests \ {r} : request'[q] = request[q]
<1>1. request \in [Requests -> RowsOf(made', fiatMade')]
  <2>1. RowsOf(made, fiatMade) \subseteq RowsOf(made', fiatMade')
    BY ProvisionTypes, RowsGrow
  <2>. QED  BY <2>1, ProvisionTypes
<1>2. request' = [request EXCEPT ![r] = to]
  BY DEF Provisioning!Goes
<1>. QED  BY <1>1, <1>2

\* A request moves that has no account on chain in its hands then.
LEMMA QuietMove ==
  ASSUME ProvisionInv, NEW r \in Requests, NEW to, Provisioning!Goes(r, to),
         UNCHANGED <<user, wallets, flagged, made, registered, provisioned, excused, reported, early>>,
         to \in RowsOf(made', fiatMade'), to.pc \notin Holding,
         user # "none" \/ to = Provisioning!Idle,
         \/ UNCHANGED <<fiat, fiatMade>>
         \/ user = "row" /\ fiatMade' = fiatMade + 1 /\ fiatMade' <= MaxFiat
            /\ fiat' = fiat \cup {fiatMade'}
  PROVE  ProvisionInv'
<1>t. /\ MaxFiat \in Nat /\ made \in Nat /\ fiatMade \in Nat /\ fiatMade <= MaxFiat
      /\ fiat \subseteq 1..fiatMade
  BY ProvisionTypes
<1>f. fiatMade' \in Nat /\ fiatMade <= fiatMade' /\ fiatMade' <= MaxFiat /\ fiat' \subseteq 1..fiatMade'
  <2>1. CASE UNCHANGED <<fiat, fiatMade>>
    BY <1>t, <2>1
  <2>2. CASE fiatMade' = fiatMade + 1 /\ fiatMade' <= MaxFiat /\ fiat' = fiat \cup {fiatMade'}
    BY <1>t, <2>2
  <2>. QED  BY <2>1, <2>2
<1>g. /\ request' \in [Requests -> RowsOf(made', fiatMade')]
      /\ request'[r] = to /\ \A q \in Requests \ {r} : request'[q] = request[q]
  BY <1>t, <1>f, RequestGoes
<1>1. Provisioning!TypeOK'
  BY <1>f, <1>g, ProvisionTypes, TypesAgain
<1>2. \A q \in Requests : request'[q].pc \in Holding => q # r /\ request'[q] = request[q]
  BY <1>g
<1>3. AccountsAreOwn' /\ AccountsAreKept'
  BY <1>2 DEF ProvisionInv, AccountsAreOwn, AccountsAreKept, Holds, Holding
<1>4. UserComesFirst'
  BY <1>g DEF ProvisionInv, UserComesFirst
<1>. QED  BY <1>1, <1>3, <1>4
          DEF ProvisionInv, Provisioning!FlagFollowsEvent, Provisioning!AnsweredIsProvisioned

LEMMA ProvisionStep == ProvisionInv /\ [Provisioning!Next]_accountVars => ProvisionInv'
<1> SUFFICES ASSUME ProvisionInv, [Provisioning!Next]_accountVars PROVE ProvisionInv'
  OBVIOUS
<1> USE DEF Provisioning!rows, Provisioning!chain, Provisioning!history
<1>t. /\ MaxFiat \in Nat /\ MaxAccounts \in Nat
      /\ user \in {"none", "row", "removed"}
      /\ made \in Nat /\ made <= MaxAccounts /\ fiatMade \in Nat /\ fiatMade <= MaxFiat
      /\ fiat \subseteq 1..fiatMade /\ wallets \subseteq 1..made /\ flagged \subseteq wallets
      /\ registered \subseteq 1..made /\ provisioned \subseteq 1..made
      /\ excused \subseteq provisioned /\ reported \subseteq registered /\ early \subseteq registered
      /\ request \in [Requests -> RowsOf(made, fiatMade)]
      /\ \A r \in Requests : Holds(r) => request[r].account \in 1..made
  BY ProvisionTypes
<1>i. /\ flagged \subseteq reported /\ (wallets \cap reported) \ early \subseteq flagged
      /\ user = "row" => provisioned \subseteq wallets
      /\ provisioned \subseteq registered \cup excused
      /\ AccountsAreOwn /\ AccountsAreKept /\ UserComesFirst
  BY DEF ProvisionInv, Provisioning!FlagFollowsEvent, Provisioning!AnsweredIsProvisioned
<1>n. \A r \in Requests : request[r] # Provisioning!Idle => user # "none"
  BY <1>i DEF UserComesFirst
<1>p. Provisioning!Idle.pc = "idle"
  BY DEF Provisioning!Idle
<1>1. CASE Provisioning!CreateUser
  <2>1. /\ user = "none" /\ user' = "row"
        /\ UNCHANGED <<fiat, fiatMade, wallets, flagged, request, made, registered,
                       provisioned, excused, reported, early>>
    BY <1>1 DEF Provisioning!CreateUser
  <2>2. provisioned = {} /\ \A r \in Requests : request[r].pc = "idle"
    BY <1>i, <1>p, <2>1 DEF UserComesFirst
  <2>3. Provisioning!TypeOK'
    BY <1>t, <2>1, TypesAgain
  <2>. QED  BY <1>i, <2>1, <2>2, <2>3
            DEF ProvisionInv, Provisioning!FlagFollowsEvent, Provisioning!AnsweredIsProvisioned,
                AccountsAreOwn, AccountsAreKept, UserComesFirst, Holds, Holding
<1>2. ASSUME NEW r \in Requests,
             \/ Provisioning!Provision(r) \/ Provisioning!CreateFiatAccount(r)
             \/ Provisioning!CreateCryptoWallet(r)
      PROVE  ProvisionInv'
  <2>1. /\ user = "row"
        /\ UNCHANGED <<user, fiat, fiatMade, wallets, flagged, made, registered,
                       provisioned, excused, reported, early>>
    BY <1>2 DEF Provisioning!Provision, Provisioning!CreateFiatAccount, Provisioning!CreateCryptoWallet
  <2>2. PICK op \in {"provision", "fiat", "wallet"}, pc \in {"bank", "deploy"} :
          /\ Provisioning!Goes(r, [op |-> op, pc |-> pc, account |-> Provisioning!NoAccount])
          /\ pc = "bank" => op \in {"provision", "fiat"}
          /\ pc = "deploy" => op = "wallet"
    BY <1>2 DEF Provisioning!Provision, Provisioning!CreateFiatAccount,
                Provisioning!CreateCryptoWallet, Provisioning!Begins
  <2>3. [op |-> op, pc |-> pc, account |-> Provisioning!NoAccount] \in RowsOf(made', fiatMade')
    BY <2>2, RowKinds
  <2>. QED  BY <2>1, <2>2, <2>3, QuietMove DEF Holding
<1>3. ASSUME NEW r \in Requests, Provisioning!VirtualAccount(r) \/ Provisioning!ReserveAccount(r)
      PROVE  ProvisionInv'
  <2>1. /\ request[r].op \in {"provision", "fiat"} /\ request[r].pc = "bank"
        /\ UNCHANGED <<user, fiat, fiatMade, wallets, flagged, made, registered,
                       provisioned, excused, reported, early>>
    BY <1>3 DEF Provisioning!VirtualAccount, Provisioning!ReserveAccount, Provisioning!At
  <2>2. PICK pc \in {"addFiat", "deploy"} :
          /\ Provisioning!Goes(r, [op |-> request[r].op, pc |-> pc, account |-> Provisioning!NoAccount])
          /\ pc = "deploy" => request[r].op = "provision"
    BY <1>3 DEF Provisioning!VirtualAccount, Provisioning!ReserveAccount, Provisioning!Continues,
                Provisioning!At
  <2>3. [op |-> request[r].op, pc |-> pc, account |-> Provisioning!NoAccount] \in RowsOf(made', fiatMade')
    BY <2>1, <2>2, RowKinds
  <2>4. user # "none"
    BY <1>n, <1>p, <2>1
  <2>. QED  BY <2>1, <2>2, <2>3, <2>4, QuietMove DEF Holding
<1>4. ASSUME NEW r \in Requests, Provisioning!AddFiat(r) \/ Provisioning!AddReserved(r)
      PROVE  ProvisionInv'
  <2>1. /\ UNCHANGED <<user, wallets, flagged, made, registered, provisioned, excused, reported, early>>
        /\ user = "row" /\ fiatMade' = fiatMade + 1 /\ fiatMade' <= MaxFiat
        /\ fiat' = fiat \cup {fiatMade'}
    BY <1>4, <1>t DEF Provisioning!AddFiat, Provisioning!AddReserved, Provisioning!InsertFiat
  <2>2. PICK to : /\ Provisioning!Goes(r, to)
                  /\ \/ to = Provisioning!Idle
                     \/ to = [op |-> "provision", pc |-> "deploy", account |-> Provisioning!NoAccount]
    BY <1>4 DEF Provisioning!AddFiat, Provisioning!AddReserved, Provisioning!Continues, Provisioning!At
  <2>3. to \in RowsOf(made', fiatMade') /\ to.pc \notin Holding
    BY <1>p, <2>2, RowKinds DEF Holding
  <2>. QED  BY <2>1, <2>2, <2>3, QuietMove
<1>5. ASSUME NEW r \in Requests, Provisioning!CreateAccount(r) PROVE ProvisionInv'
  <2> DEFINE to == [op |-> request[r].op, pc |-> "addWallet", account |-> made + 1]
  <2>1. /\ request[r].pc = "deploy" /\ made < MaxAccounts /\ made' = made + 1
        /\ Provisioning!Goes(r, to)
        /\ UNCHANGED <<user, fiat, fiatMade, wallets, flagged, registered,
                       provisioned, excused, reported, early>>
    BY <1>5 DEF Provisioning!CreateAccount, Provisioning!Continues
  <2>2. request[r].op \in {"provision", "wallet"}
    BY <1>t, <2>1, RowFacts
  <2>3. made' \in Nat /\ made <= made' /\ made' <= MaxAccounts /\ made + 1 \in 1..made' /\ 1..made \subseteq 1..made'
    BY <1>t, <2>1
  <2>4. to \in RowsOf(made', fiatMade')
    BY <2>2, <2>3, RowKinds
  <2>5. to.pc = "addWallet" /\ to.account = made + 1
    OBVIOUS
  <2> HIDE DEF to
  <2>6. /\ request' \in [Requests -> RowsOf(made', fiatMade')]
        /\ request'[r] = to /\ \A q \in Requests \ {r} : request'[q] = request[q]
    BY <1>t, <2>1, <2>3, <2>4, RequestGoes
  <2>7. Provisioning!TypeOK'
    BY <1>t, <2>1, <2>3, <2>6, TypesAgain
  <2>8. \A q \in Requests \ {r} : Holds(q)' => Holds(q) /\ request'[q].account # made + 1
    BY <1>t, <2>6 DEF Holds
  <2>9. AccountsAreOwn'
    BY <1>i, <2>5, <2>6, <2>8 DEF AccountsAreOwn
  <2>10. made + 1 \notin wallets \cup registered
    BY <1>t
  <2>11. AccountsAreKept'
    BY <1>i, <2>1, <2>5, <2>6, <2>10 DEF AccountsAreKept
  <2>12. UserComesFirst'
    BY <1>i, <1>n, <1>p, <2>1 DEF UserComesFirst
  <2>. QED  BY <1>i, <2>1, <2>7, <2>9, <2>11, <2>12
            DEF ProvisionInv, Provisioning!FlagFollowsEvent, Provisioning!AnsweredIsProvisioned
<1>6. ASSUME NEW r \in Requests, Provisioning!AddWallet(r) \/ Provisioning!AddCryptoWallet(r)
      PROVE  ProvisionInv'
  <2> DEFINE a == request[r].account
  <2>1. /\ request[r].pc = "addWallet" /\ user = "row" /\ wallets' = wallets \cup {a}
        /\ UNCHANGED <<user, fiat, fiatMade, flagged, made, registered,
                       provisioned, excused, reported, early>>
    BY <1>6 DEF Provisioning!AddWallet, Provisioning!AddCryptoWallet, Provisioning!InsertWallet,
                Provisioning!At
  <2>2. PICK to : /\ Provisioning!Goes(r, to)
                  /\ \/ to = Provisioning!Idle
                     \/ to = [op |-> "provision", pc |-> "findFiat", account |-> a]
    BY <1>6 DEF Provisioning!AddWallet, Provisioning!AddCryptoWallet, Provisioning!Continues, Provisioning!At
  <2>3. a \in 1..made /\ a \notin wallets /\ a \notin registered \ early
    BY <1>t, <1>i, <2>1 DEF AccountsAreKept, Holds, Holding
  <2>4. /\ to \in RowsOf(made', fiatMade') /\ to.pc \in {"idle", "findFiat"}
        /\ to.pc = "findFiat" => to.account = a
    BY <1>p, <2>1, <2>2, <2>3, RowKinds
  <2> HIDE DEF a
  <2>5. /\ request' \in [Requests -> RowsOf(made', fiatMade')]
        /\ request'[r] = to /\ \A q \in Requests \ {r} : request'[q] = request[q]
    BY <1>t, <2>1, <2>2, <2>4, RequestGoes
  <2>6. Provisioning!TypeOK'
    BY <1>t, <2>1, <2>3, <2>5, TypesAgain
  <2>7. \A q \in Requests \ {r} : Holds(q) => request[q].account # a
    BY <1>i, <2>1 DEF AccountsAreOwn, Holds, Holding, a
  <2>8. AccountsAreOwn'
    BY <1>i, <2>4, <2>5, <2>7 DEF AccountsAreOwn, Holds, Holding
  <2>9. AccountsAreKept'
    BY <1>i, <2>1, <2>4, <2>5, <2>7 DEF AccountsAreKept, Holds, Holding
  <2>10. UserComesFirst'
    BY <1>i, <2>1 DEF UserComesFirst
  <2>11. (wallets' \cap reported') \ early' \subseteq flagged'
    BY <1>t, <1>i, <2>1, <2>3
  <2>. QED  BY <1>i, <2>1, <2>6, <2>8, <2>9, <2>10, <2>11
            DEF ProvisionInv, Provisioning!FlagFollowsEvent, Provisioning!AnsweredIsProvisioned
<1>7. ASSUME NEW r \in Requests, Provisioning!FindFiat(r) \/ Provisioning!RegisterUser(r)
      PROVE  ProvisionInv'
  <2> DEFINE a == request[r].account
  <2>1. /\ request[r].pc \in {"findFiat", "register"}
        /\ UNCHANGED <<user, fiat, fiatMade, wallets, flagged, made, reported, early>>
    BY <1>7 DEF Provisioning!FindFiat, Provisioning!RegisterUser, Provisioning!At
  <2>2. \/ UNCHANGED registered
        \/ registered' = registered \cup {a}
    BY <1>7 DEF Provisioning!FindFiat, Provisioning!RegisterUser
  <2>3. \/ UNCHANGED <<provisioned, excused>>
        \/ provisioned' = provisioned \cup {a} /\ excused' = excused \cup {a}
        \/ provisioned' = provisioned \cup {a} /\ excused' = excused /\ registered' = registered \cup {a}
    BY <1>7 DEF Provisioning!FindFiat, Provisioning!RegisterUser, Provisioning!Answered
  <2>4. PICK to : /\ Provisioning!Goes(r, to)
                  /\ \/ to = Provisioning!Idle
                     \/ to = [op |-> "provision", pc |-> "register", account |-> a]
    BY <1>7 DEF Provisioning!FindFiat, Provisioning!RegisterUser, Provisioning!Answered,
                Provisioning!Continues, Provisioning!At
  <2>5. a \in 1..made /\ (user = "row" => a \in wallets)
    BY <1>t, <1>i, <2>1 DEF AccountsAreKept, Holds, Holding
  <2>6. /\ to \in RowsOf(made', fiatMade') /\ to.pc \in {"idle", "register"}
        /\ to.pc = "register" => to.account = a
    BY <1>p, <2>1, <2>4, <2>5, RowKinds
  <2>7. \A q \in Requests \ {r} : Holds(q) => request[q].account # a
    BY <1>i, <2>1 DEF AccountsAreOwn, Holds, Holding
  <2>8. user # "none"
    BY <1>n, <1>p, <2>1
  <2> HIDE DEF a
  <2>9. /\ request' \in [Requests -> RowsOf(made', fiatMade')]
        /\ request'[r] = to /\ \A q \in Requests \ {r} : request'[q] = request[q]
    BY <1>t, <2>1, <2>4, <2>6, RequestGoes
  <2>10. Provisioning!TypeOK'
    BY <1>t, <2>1, <2>2, <2>3, <2>5, <2>9, TypesAgain
  <2>11. AccountsAreOwn'
    BY <1>i, <2>6, <2>7, <2>9 DEF AccountsAreOwn, Holds, Holding
  <2>12. AccountsAreKept'
    BY <1>i, <2>1, <2>2, <2>5, <2>6, <2>7, <2>9 DEF AccountsAreKept, Holds, Holding
  <2>13. UserComesFirst'
    BY <1>i, <2>1, <2>8 DEF UserComesFirst
  <2>14. user' = "row" => provisioned' \subseteq wallets'
    BY <1>i, <2>1, <2>3, <2>5
  <2>15. provisioned' \subseteq registered' \cup excused'
    BY <1>i, <2>2, <2>3
  <2>. QED  BY <1>i, <2>1, <2>10, <2>11, <2>12, <2>13, <2>14, <2>15
            DEF ProvisionInv, Provisioning!FlagFollowsEvent, Provisioning!AnsweredIsProvisioned
<1>8. ASSUME NEW r \in Requests,
             Provisioning!RemoveFiat(r) \/ Provisioning!RemoveWallets(r) \/ Provisioning!Fails(r)
      PROVE  ProvisionInv'
  <2>1. UNCHANGED <<user, fiat, fiatMade, wallets, flagged, made, registered,
                    provisioned, excused, reported, early>>
    BY <1>8 DEF Provisioning!RemoveFiat, Provisioning!RemoveWallets, Provisioning!Fails
  <2>2. CASE Provisioning!RemoveFiat(r)
    <3>1. user = "row" /\ Provisioning!Goes(r, Provisioning!Deleting("fiatDeleted", fiat, {}))
      BY <2>2 DEF Provisioning!RemoveFiat
    <3>2. Provisioning!Deleting("fiatDeleted", fiat, {}) \in RowsOf(made', fiatMade')
      BY <1>t, <2>1, RowKinds
    <3>. QED  BY <2>1, <3>1, <3>2, QuietMove DEF Provisioning!Deleting, Holding
  <2>3. CASE Provisioning!RemoveWallets(r)
    <3>1. /\ request[r].pc = "fiatDeleted"
          /\ Provisioning!Goes(r, Provisioning!Deleting("walletsDeleted", request[r].fiat, wallets))
      BY <2>3 DEF Provisioning!RemoveWallets, Provisioning!At
    <3>2. request[r].fiat \in SUBSET (1..fiatMade)
      BY <1>t, <3>1, RowFacts
    <3>3. Provisioning!Deleting("walletsDeleted", request[r].fiat, wallets) \in RowsOf(made', fiatMade')
      BY <1>t, <2>1, <3>2, RowKinds
    <3>4. user # "none"
      BY <1>n, <1>p, <3>1
    <3>. QED  BY <2>1, <3>1, <3>3, <3>4, QuietMove DEF Provisioning!Deleting, Holding
  <2>4. CASE Provisioning!Fails(r)
    <3>1. Provisioning!Goes(r, Provisioning!Idle)
      BY <2>4 DEF Provisioning!Fails
    <3>2. Provisioning!Idle \in RowsOf(made', fiatMade')
      BY RowKinds
    <3>. QED  BY <1>p, <2>1, <3>1, <3>2, QuietMove DEF Holding
  <2>. QED  BY <1>8, <2>2, <2>3, <2>4
<1>9. ASSUME NEW r \in Requests, Provisioning!RemoveUser(r) PROVE ProvisionInv'
  <2>1. /\ user' = "removed" /\ fiat' = {} /\ wallets' = {} /\ flagged' = {}
        /\ Provisioning!Goes(r, Provisioning!Idle)
        /\ UNCHANGED <<fiatMade, made, registered, provisioned, excused, reported, early>>
    BY <1>9 DEF Provisioning!RemoveUser
  <2>2. /\ request' \in [Requests -> RowsOf(made', fiatMade')]
        /\ request'[r] = Provisioning!Idle /\ \A q \in Requests \ {r} : request'[q] = request[q]
    BY <1>t, <2>1, RequestGoes, RowKinds
  <2>3. Provisioning!TypeOK'
    BY <1>t, <2>1, <2>2, TypesAgain
  <2>4. \A q \in Requests : request'[q].pc # "idle" => q # r /\ request'[q] = request[q]
    BY <1>p, <2>2
  <2>5. AccountsAreOwn' /\ AccountsAreKept'
    BY <1>i, <2>1, <2>4 DEF AccountsAreOwn, AccountsAreKept, Holds, Holding
  <2>. QED  BY <1>i, <2>1, <2>3, <2>5
            DEF ProvisionInv, Provisioning!FlagFollowsEvent, Provisioning!AnsweredIsProvisioned,
                UserComesFirst
<1>10. ASSUME NEW a \in 1..MaxAccounts, Provisioning!RegisterWallet(a) PROVE ProvisionInv'
  <2>1. /\ a \in 1..made /\ registered' = registered \cup {a} /\ early' = early \cup ({a} \ wallets)
        /\ UNCHANGED <<user, fiat, fiatMade, wallets, flagged, request, made,
                       provisioned, excused, reported>>
    BY <1>t, <1>10 DEF Provisioning!RegisterWallet
  <2>2. Provisioning!TypeOK'
    BY <1>t, <2>1, TypesAgain
  <2>3. registered' \ early' \subseteq (registered \ early) \cup wallets
    BY <2>1
  <2>4. AccountsAreOwn' /\ AccountsAreKept' /\ UserComesFirst'
    BY <1>i, <2>1, <2>3 DEF AccountsAreOwn, AccountsAreKept, UserComesFirst, Holds
  <2>. QED  BY <1>i, <2>1, <2>2, <2>4
            DEF ProvisionInv, Provisioning!FlagFollowsEvent, Provisioning!AnsweredIsProvisioned
<1>11. ASSUME NEW a \in 1..MaxAccounts, Provisioning!UserRegistered(a) PROVE ProvisionInv'
  <2>1. /\ a \in registered /\ flagged' = flagged \cup (wallets \cap {a})
        /\ reported' = reported \cup {a}
        /\ UNCHANGED <<user, fiat, fiatMade, wallets, request, made, registered, provisioned, excused, early>>
    BY <1>11 DEF Provisioning!UserRegistered
  <2>2. Provisioning!TypeOK'
    BY <1>t, <2>1, TypesAgain
  <2>3. AccountsAreOwn' /\ AccountsAreKept' /\ UserComesFirst'
    BY <1>i, <2>1 DEF AccountsAreOwn, AccountsAreKept, UserComesFirst, Holds
  <2>4. flagged' \subseteq reported' /\ (wallets' \cap reported') \ early' \subseteq flagged'
    BY <1>i, <2>1
  <2>. QED  BY <1>i, <2>1, <2>2, <2>3, <2>4
            DEF ProvisionInv, Provisioning!FlagFollowsEvent, Provisioning!AnsweredIsProvisioned
<1>12. CASE UNCHANGED accountVars
  <2>1. UNCHANGED <<user, fiat, fiatMade, wallets, flagged, request, made, registered,
                    provisioned, excused, reported, early>>
    BY <1>12 DEF accountVars
  <2>2. Provisioning!TypeOK'
    BY <1>t, <2>1, TypesAgain
  <2>3. AccountsAreOwn' /\ AccountsAreKept' /\ UserComesFirst'
    BY <1>i, <2>1 DEF AccountsAreOwn, AccountsAreKept, UserComesFirst, Holds
  <2>. QED  BY <1>i, <2>1, <2>2, <2>3
            DEF ProvisionInv, Provisioning!FlagFollowsEvent, Provisioning!AnsweredIsProvisioned
<1>. QED  BY <1>1, <1>2, <1>3, <1>4, <1>5, <1>6, <1>7, <1>8, <1>9, <1>10, <1>11, <1>12
          DEF Provisioning!Next, Provisioning!Accounts

LEMMA ProvisionInit == Provisioning!Init => ProvisionInv
<1> SUFFICES ASSUME Provisioning!Init PROVE ProvisionInv
  OBVIOUS
<1>1. /\ user = "none" /\ fiat = {} /\ fiatMade = 0 /\ wallets = {} /\ flagged = {}
      /\ made = 0 /\ registered = {} /\ provisioned = {} /\ excused = {} /\ reported = {} /\ early = {}
      /\ request = [r \in Requests |-> Provisioning!Idle]
  BY DEF Provisioning!Init
<1>2. Provisioning!Idle.pc = "idle" /\ Provisioning!Idle \in RowsOf(made, fiatMade)
  BY RowKinds
<1>3. Provisioning!TypeOK
  <2>1. request \in [Requests -> Provisioning!RequestRows]
    BY <1>1, <1>2, RowsNow
  <2>. QED  BY <1>1, <2>1, AccountBounds DEF Provisioning!ProvisioningAssumption, Provisioning!TypeOK
<1>. QED  BY <1>1, <1>2, <1>3
          DEF ProvisionInv, Provisioning!FlagFollowsEvent, Provisioning!AnsweredIsProvisioned,
              AccountsAreOwn, AccountsAreKept, UserComesFirst, Holds, Holding

\* A user's rows go with the user, all of them.
LEMMA ProvisionRemoves ==
  ProvisionInv /\ [Provisioning!Next]_accountVars =>
    [/\ (fiat \ fiat' # {} \/ wallets \ wallets' # {}) => user' = "removed"
     /\ user' = "removed" => fiat' = {} /\ wallets' = {}]_(Provisioning!vars)
<1> SUFFICES ASSUME ProvisionInv, [Provisioning!Next]_accountVars
             PROVE  /\ (fiat \ fiat' # {} \/ wallets \ wallets' # {}) => user' = "removed"
                    /\ user' = "removed" => fiat' = {} /\ wallets' = {}
  OBVIOUS
<1>1. UserComesFirst'
  BY ProvisionStep DEF ProvisionInv
<1>2. user' = "removed" \/ (fiat \subseteq fiat' /\ wallets \subseteq wallets')
  BY DEF Provisioning!Next, accountVars, Provisioning!rows, Provisioning!CreateUser,
         Provisioning!Provision, Provisioning!VirtualAccount, Provisioning!AddFiat,
         Provisioning!CreateAccount, Provisioning!AddWallet, Provisioning!FindFiat,
         Provisioning!RegisterUser, Provisioning!CreateFiatAccount, Provisioning!ReserveAccount,
         Provisioning!AddReserved, Provisioning!CreateCryptoWallet, Provisioning!AddCryptoWallet,
         Provisioning!RemoveFiat, Provisioning!RemoveWallets, Provisioning!RemoveUser,
         Provisioning!Fails, Provisioning!RegisterWallet, Provisioning!UserRegistered,
         Provisioning!InsertFiat, Provisioning!InsertWallet
<1>. QED  BY <1>1, <1>2 DEF UserComesFirst

(***************************************************************************)
(* FiatLedger.                                                             *)
(***************************************************************************)
TransactionRows ==
    [reference : Transfers!References, user : Users, type : Transfers!Types, amount : Int,
     status : {"processing", "completed"}, completed : BOOLEAN]

TransferRequests ==
    {Transfers!Idle}
    \cup [step : {"refused"}, why : Transfers!Reasons]
    \cup [step : {"answered"}, reference : Transfers!References, user : Users]
    \cup [step : {"checked"}, reference : Transfers!References, user : Transfers!Holders,
          recipient : Transfers!Holders, amount : Amounts]

TransfersTyped ==
    /\ clock \in 0..MaxTime
    /\ rows \subseteq TransactionRows /\ IsFiniteSet(rows)
    /\ audits \in [Users -> Nat]
    /\ balance \in [Transfers!Holders -> Int]
    /\ transfer \in [Requests -> TransferRequests]

ReferencesDiffer == \A x, y \in rows : x.reference = y.reference => x = y

\* Requests that a row stands for, answered or not.
Recorded == {r \in Requests : transfer[r].step = "answered" \/ transfer[r] = Transfers!Refused("unheard")}

TakenReferences == {row.reference : row \in rows}
PlainRows(u)    == {row \in rows : row.user = u /\ row.type = "transfer"}

AnswersHaveRows ==
    \A r \in Requests : transfer[r].step = "answered" =>
      \E row \in rows : row.reference = transfer[r].reference /\ row.user = transfer[r].user

AnswersDiffer ==
    \A r, q \in Requests : r # q /\ transfer[r].step = "answered" /\ transfer[q].step = "answered" =>
      transfer[q].reference # transfer[r].reference

RowsHaveRequests ==
    IsFiniteSet(TakenReferences) /\ Cardinality(TakenReferences) <= Cardinality(Recorded)

AuditsCount == \A u \in Users : audits[u] = Cardinality(PlainRows(u))

TransfersInv ==
    /\ TransfersTyped /\ ReferencesDiffer
    /\ AnswersHaveRows /\ AnswersDiffer /\ RowsHaveRequests /\ AuditsCount

LEMMA TransferFacts ==
  /\ IsFiniteSet(Requests) /\ MaxTime \in Nat /\ Amounts \subseteq Int
  /\ Transfers!Holders \subseteq Users
  /\ \A S : Transfers!Cardinality(S) = Cardinality(S)
<1>1. \A S : Transfers!IsFiniteSet(S) = IsFiniteSet(S)
  BY DEF Transfers!IsFiniteSet, IsFiniteSet
<1>2. \A S : Transfers!Cardinality(S) = Cardinality(S)
  BY DEF Transfers!Cardinality, Cardinality
<1>. QED  BY <1>1, <1>2, TransferBounds DEF Transfers!LedgerAssumption, Transfers!Holders

LEMMA TransferKinds ==
  /\ Transfers!Idle \in TransferRequests /\ Transfers!Idle.step = "idle"
  /\ \A why \in Transfers!Reasons :
       Transfers!Refused(why) \in TransferRequests /\ Transfers!Refused(why).step = "refused"
       /\ (Transfers!Refused(why) = Transfers!Refused("unheard") => why = "unheard")
  /\ \A ref \in Transfers!References, u \in Users :
       /\ Transfers!Answered(ref, u) \in TransferRequests
       /\ Transfers!Answered(ref, u).step = "answered"
       /\ Transfers!Answered(ref, u).reference = ref /\ Transfers!Answered(ref, u).user = u
  /\ \A ref \in Transfers!References, u, v \in Transfers!Holders, a \in Amounts :
       /\ Transfers!Checked(ref, u, v, a) \in TransferRequests
       /\ Transfers!Checked(ref, u, v, a).step = "checked"
BY DEF TransferRequests, Transfers!Idle, Transfers!Refused, Transfers!Answered, Transfers!Checked

LEMMA TransferKind ==
  ASSUME NEW q \in TransferRequests
  PROVE  \/ q = Transfers!Idle
         \/ \E why \in Transfers!Reasons : q = Transfers!Refused(why)
         \/ \E ref \in Transfers!References, u \in Users : q = Transfers!Answered(ref, u)
         \/ \E ref \in Transfers!References, u \in Transfers!Holders, v \in Transfers!Holders,
               a \in Amounts : q = Transfers!Checked(ref, u, v, a)
<1>1. CASE q \in [step : {"refused"}, why : Transfers!Reasons]
  BY <1>1 DEF Transfers!Refused
<1>2. CASE q \in [step : {"answered"}, reference : Transfers!References, user : Users]
  BY <1>2 DEF Transfers!Answered
<1>3. CASE q \in [step : {"checked"}, reference : Transfers!References, user : Transfers!Holders,
                  recipient : Transfers!Holders, amount : Amounts]
  BY <1>3 DEF Transfers!Checked
<1>. QED  BY <1>1, <1>2, <1>3 DEF TransferRequests

\* What the run checks follows.
LEMMA TransfersAnswer == TransfersInv => Transfers!TypeOK /\ Transfers!AnsweredIsRecorded
<1> SUFFICES ASSUME TransfersInv PROVE Transfers!TypeOK /\ Transfers!AnsweredIsRecorded
  OBVIOUS
<1>1. \A r \in Requests : transfer[r] \in TransferRequests
  BY DEF TransfersInv, TransfersTyped
<1>2. \A row \in rows :
         /\ row.reference \in Transfers!References /\ row.user \in Users /\ row.type \in Transfers!Types
         /\ row.amount \in Int /\ row.status \in {"processing", "completed"}
  BY DEF TransfersInv, TransfersTyped, TransactionRows
<1>3. \A row \in rows : row.completed \in BOOLEAN
  BY DEF TransfersInv, TransfersTyped, TransactionRows
<1>4. clock \in 0..MaxTime /\ audits \in [Users -> Nat] /\ balance \in [Transfers!Holders -> Int]
  BY DEF TransfersInv, TransfersTyped
<1>5. Transfers!TypeOK
  BY <1>1, <1>2, <1>3, <1>4, TransferKind DEF Transfers!TypeOK
<1>6. /\ \A r \in Requests : transfer[r].step = "answered" =>
           /\ \E row \in rows : row.reference = transfer[r].reference /\ row.user = transfer[r].user
           /\ \A q \in Requests \ {r} :
                transfer[q].step = "answered" => transfer[q].reference # transfer[r].reference
      /\ \A u \in Users : audits[u] = Cardinality({row \in rows : row.user = u /\ row.type = "transfer"})
  BY DEF TransfersInv, AnswersHaveRows, AnswersDiffer, AuditsCount, PlainRows
<1>7. Cardinality({row.reference : row \in rows})
        <= Cardinality({r \in Requests :
             transfer[r].step = "answered" \/ transfer[r] = Transfers!Refused("unheard")})
  BY DEF TransfersInv, RowsHaveRequests, TakenReferences, Recorded
<1>. QED  BY <1>5, <1>6, <1>7, TransferFacts DEF Transfers!AnsweredIsRecorded

LEMMA TransfersInit == Transfers!Init => TransfersInv
<1> SUFFICES ASSUME Transfers!Init PROVE TransfersInv
  OBVIOUS
<1>1. /\ clock = 0 /\ rows = {} /\ audits = [u \in Users |-> 0] /\ balance = Start
      /\ transfer = [r \in Requests |-> Transfers!Idle]
  BY DEF Transfers!Init
<1>2. Start \in [Transfers!Holders -> Int]
  BY TransferBounds DEF Transfers!LedgerAssumption, Transfers!Holders
<1>3. \A r \in Requests : transfer[r].step = "idle"
  BY <1>1, TransferKinds
<1>4. TransfersTyped
  BY <1>1, <1>2, TransferFacts, TransferKinds, FS_EmptySet DEF TransfersTyped
<1>5. TakenReferences = {} /\ \A u : PlainRows(u) = {}
  BY <1>1 DEF TakenReferences, PlainRows
<1>6. Recorded \subseteq Requests
  BY DEF Recorded
<1>7. RowsHaveRequests
  <2>1. Cardinality(Recorded) \in Nat
    BY <1>6, TransferFacts, FS_Subset, FS_CardinalityType
  <2>2. IsFiniteSet(TakenReferences) /\ Cardinality(TakenReferences) = 0
    BY <1>5, FS_EmptySet
  <2>. QED  BY <2>1, <2>2 DEF RowsHaveRequests
<1>8. AuditsCount
  BY <1>1, <1>5, FS_EmptySet DEF AuditsCount
<1>9. ReferencesDiffer /\ AnswersHaveRows /\ AnswersDiffer
  BY <1>1, <1>3 DEF ReferencesDiffer, AnswersHaveRows, AnswersDiffer
<1>. QED  BY <1>4, <1>7, <1>8, <1>9 DEF TransfersInv

\* A request moves that records nothing.
LEMMA TransferMoves ==
  ASSUME TransfersInv, NEW r \in Requests, NEW to \in TransferRequests, Transfers!Goes(r, to),
         UNCHANGED <<clock, rows, audits, balance>>,
         transfer[r].step \in {"idle", "checked"},
         to.step # "answered", to # Transfers!Refused("unheard")
  PROVE  TransfersInv'
<1>1. transfer' = [transfer EXCEPT ![r] = to] /\ transfer \in [Requests -> TransferRequests]
  BY DEF Transfers!Goes, TransfersInv, TransfersTyped
<1>2. /\ transfer' \in [Requests -> TransferRequests]
      /\ transfer'[r] = to /\ \A q \in Requests \ {r} : transfer'[q] = transfer[q]
  BY <1>1
<1>3. transfer[r].step # "answered" /\ transfer[r] # Transfers!Refused("unheard")
  BY DEF Transfers!Refused
<1>4. \A q \in Requests :
        /\ transfer'[q].step = "answered" => transfer[q].step = "answered" /\ transfer'[q] = transfer[q]
        /\ (transfer'[q].step = "answered" \/ transfer'[q] = Transfers!Refused("unheard"))
             <=> (transfer[q].step = "answered" \/ transfer[q] = Transfers!Refused("unheard"))
  BY <1>2, <1>3
<1>5. Recorded' = Recorded
  BY <1>4 DEF Recorded, Transfers!Refused
<1>6. TransfersTyped' /\ ReferencesDiffer' /\ RowsHaveRequests' /\ AuditsCount'
  BY <1>2, <1>5 DEF TransfersInv, TransfersTyped, ReferencesDiffer, RowsHaveRequests,
                    TakenReferences, AuditsCount, PlainRows
<1>7. AnswersHaveRows' /\ AnswersDiffer'
  BY <1>4 DEF TransfersInv, AnswersHaveRows, AnswersDiffer
<1>. QED  BY <1>6, <1>7 DEF TransfersInv

\* createTransaction succeeds.
LEMMA TransferIsRecorded ==
  ASSUME TransfersInv, NEW r \in Requests, NEW u \in Users, NEW a \in Amounts, NEW ref, NEW row, NEW to,
         ref \in Transfers!References, row = Transfers!RowOf(ref, u, "transfer", a, "processing"),
         Transfers!CreateTransaction(row), Transfers!Goes(r, to),
         UNCHANGED <<clock, balance>>, transfer[r] = Transfers!Idle,
         to = Transfers!Answered(ref, u) \/ to = Transfers!Refused("unheard")
  PROVE  TransfersInv'
<1>1. /\ row \in TransactionRows /\ row.reference = ref /\ row.user = u /\ row.type = "transfer"
  <2>1. a \in Int
    BY TransferFacts
  <2>. QED  BY <2>1 DEF TransactionRows, Transfers!RowOf, Transfers!Types
<1>2. /\ rows' = rows \cup {row} /\ audits' = [audits EXCEPT ![u] = audits[u] + 1]
      /\ ref \notin TakenReferences
  BY <1>1 DEF Transfers!CreateTransaction, Transfers!Taken, TakenReferences
<1>3. /\ to \in TransferRequests
      /\ to.step = "answered" \/ to = Transfers!Refused("unheard")
      /\ to.step = "answered" => to.reference = ref /\ to.user = u
  BY TransferKinds DEF Transfers!Reasons
<1>4. /\ transfer' \in [Requests -> TransferRequests]
      /\ transfer'[r] = to /\ \A q \in Requests \ {r} : transfer'[q] = transfer[q]
  <2>1. transfer' = [transfer EXCEPT ![r] = to] /\ transfer \in [Requests -> TransferRequests]
    BY DEF Transfers!Goes, TransfersInv, TransfersTyped
  <2>. QED  BY <1>3, <2>1
<1>5. transfer[r].step = "idle" /\ transfer[r].step # "answered" /\ transfer[r] # Transfers!Refused("unheard")
  BY DEF Transfers!Idle, Transfers!Refused
<1>6. IsFiniteSet(rows') /\ rows' \subseteq TransactionRows /\ audits' \in [Users -> Nat]
  BY <1>1, <1>2, FS_AddElement DEF TransfersInv, TransfersTyped
<1>7. TransfersTyped'
  BY <1>4, <1>6 DEF TransfersInv, TransfersTyped
<1>8. ReferencesDiffer'
  BY <1>1, <1>2 DEF TransfersInv, ReferencesDiffer, TakenReferences
<1>9. AnswersHaveRows'
  BY <1>1, <1>2, <1>3, <1>4 DEF TransfersInv, AnswersHaveRows
<1>10. AnswersDiffer'
  <2>1. \A q \in Requests : transfer[q].step = "answered" => transfer[q].reference # ref
    BY <1>2 DEF TransfersInv, AnswersHaveRows, TakenReferences
  <2>. QED  BY <1>3, <1>4, <2>1 DEF TransfersInv, AnswersDiffer
<1>11. RowsHaveRequests'
  <2>1. TakenReferences' = TakenReferences \cup {ref}
    BY <1>1, <1>2 DEF TakenReferences
  <2>2. Recorded' = Recorded \cup {r} /\ r \notin Recorded
    BY <1>3, <1>4, <1>5 DEF Recorded, Transfers!Refused
  <2>3. IsFiniteSet(Recorded)
    <3>1. Recorded \subseteq Requests
      BY DEF Recorded
    <3>. QED  BY <3>1, TransferFacts, FS_Subset
  <2>4. Cardinality(Recorded') = Cardinality(Recorded) + 1 /\ Cardinality(Recorded) \in Nat
    BY <2>2, <2>3, FS_AddElement, FS_CardinalityType
  <2>5. IsFiniteSet(TakenReferences) /\ Cardinality(TakenReferences) <= Cardinality(Recorded)
    BY DEF TransfersInv, RowsHaveRequests
  <2>6. /\ IsFiniteSet(TakenReferences') /\ Cardinality(TakenReferences') = Cardinality(TakenReferences) + 1
        /\ Cardinality(TakenReferences) \in Nat
    BY <1>2, <2>1, <2>5, FS_AddElement, FS_CardinalityType
  <2>. QED  BY <2>4, <2>5, <2>6 DEF RowsHaveRequests
<1>12. AuditsCount'
  <2> SUFFICES ASSUME NEW v \in Users PROVE audits'[v] = Cardinality(PlainRows(v)')
    BY DEF AuditsCount
  <2>1. audits[v] = Cardinality(PlainRows(v)) /\ audits \in [Users -> Nat]
    BY DEF TransfersInv, AuditsCount, TransfersTyped
  <2>2. IsFiniteSet(PlainRows(v))
    <3>1. PlainRows(v) \subseteq rows
      BY DEF PlainRows
    <3>. QED  BY <3>1, FS_Subset DEF TransfersInv, TransfersTyped
  <2>3. CASE v = u
    <3>1. PlainRows(v)' = PlainRows(v) \cup {row} /\ row \notin PlainRows(v)
      BY <1>1, <1>2, <2>3 DEF PlainRows, TakenReferences
    <3>2. Cardinality(PlainRows(v)') = Cardinality(PlainRows(v)) + 1
      BY <2>2, <3>1, FS_AddElement
    <3>. QED  BY <1>2, <2>1, <2>3, <3>2
  <2>4. CASE v # u
    <3>1. PlainRows(v)' = PlainRows(v)
      BY <1>1, <1>2, <2>4 DEF PlainRows
    <3>. QED  BY <1>2, <2>1, <2>4, <3>1
  <2>. QED  BY <2>3, <2>4
<1>. QED  BY <1>7, <1>8, <1>9, <1>10, <1>11, <1>12 DEF TransfersInv

\* The second row of a transfer between accounts takes the reference of the first.
LEMMA SecondRowIsRefused == ASSUME NEW t PROVE Transfers!Written(t).failed
<1>1. Transfers!Debit(t).reference = t.reference /\ Transfers!Credit(t).reference = t.reference
  BY DEF Transfers!Debit, Transfers!Credit, Transfers!RowOf
<1> DEFINE first == Transfers!Insert([rows |-> rows, failed |-> FALSE], Transfers!Debit(t))
<1>2. first.failed \/ \E old \in first.rows : old.reference = t.reference
  BY <1>1 DEF Transfers!Insert
<1> HIDE DEF first
<1>3. Transfers!Insert(first, Transfers!Credit(t)).failed
  BY <1>1, <1>2 DEF Transfers!Insert
<1>. QED  BY <1>3 DEF Transfers!Written, first

LEMMA StatusIsUpdated ==
  ASSUME TransfersInv, NEW row \in rows, Transfers!UpdateStatus(row)
  PROVE  TransfersInv'
<1> DEFINE new == [row EXCEPT !.completed = TRUE]
<1>1. row \in TransactionRows /\ rows \subseteq TransactionRows /\ IsFiniteSet(rows)
  BY DEF TransfersInv, TransfersTyped
<1>2. /\ new \in TransactionRows /\ new.reference = row.reference /\ new.user = row.user
      /\ new.type = row.type /\ new.completed = TRUE
  BY <1>1 DEF TransactionRows
<1>3. /\ rows' = (rows \ {row}) \cup {new} /\ ~row.completed
      /\ UNCHANGED <<clock, audits, balance, transfer>>
  BY DEF Transfers!UpdateStatus
<1>4. new # row
  BY <1>2, <1>3
<1> HIDE DEF new
<1>5. new \notin rows /\ \A x \in rows \ {row} : x.reference # row.reference
  BY <1>2, <1>4 DEF TransfersInv, ReferencesDiffer
<1>6. IsFiniteSet(rows')
  BY <1>1, <1>3, FS_RemoveElement, FS_AddElement
<1>7. TransfersTyped'
  BY <1>1, <1>2, <1>3, <1>6 DEF TransfersInv, TransfersTyped
<1>8. ReferencesDiffer'
  BY <1>2, <1>3, <1>5 DEF TransfersInv, ReferencesDiffer
<1>9. AnswersHaveRows' /\ AnswersDiffer'
  BY <1>2, <1>3 DEF TransfersInv, AnswersHaveRows, AnswersDiffer
<1>10. RowsHaveRequests'
  <2>1. TakenReferences' = TakenReferences
    BY <1>2, <1>3 DEF TakenReferences
  <2>. QED  BY <1>3, <2>1 DEF TransfersInv, RowsHaveRequests, Recorded, Transfers!Refused
<1>11. AuditsCount'
  <2> SUFFICES ASSUME NEW v \in Users PROVE Cardinality(PlainRows(v)') = Cardinality(PlainRows(v))
    BY <1>3 DEF TransfersInv, AuditsCount
  <2>1. IsFiniteSet(PlainRows(v))
    <3>1. PlainRows(v) \subseteq rows
      BY DEF PlainRows
    <3>. QED  BY <1>1, <3>1, FS_Subset
  <2>2. CASE row \in PlainRows(v)
    <3>1. PlainRows(v)' = (PlainRows(v) \ {row}) \cup {new} /\ new \notin PlainRows(v) \ {row}
      BY <1>2, <1>3, <1>5, <2>2 DEF PlainRows
    <3>2. IsFiniteSet(PlainRows(v) \ {row}) /\ Cardinality(PlainRows(v) \ {row}) = Cardinality(PlainRows(v)) - 1
      BY <2>1, <2>2, FS_RemoveElement
    <3>3. Cardinality((PlainRows(v) \ {row}) \cup {new}) = Cardinality(PlainRows(v) \ {row}) + 1
      BY <3>1, <3>2, FS_AddElement
    <3>4. Cardinality(PlainRows(v)) \in Nat
      BY <2>1, FS_CardinalityType
    <3>. QED  BY <3>1, <3>2, <3>3, <3>4
  <2>3. CASE row \notin PlainRows(v)
    <3>1. PlainRows(v)' = PlainRows(v)
      BY <1>2, <1>3, <2>3 DEF PlainRows
    <3>. QED  BY <3>1
  <2>. QED  BY <2>2, <2>3
<1>. QED  BY <1>7, <1>8, <1>9, <1>10, <1>11 DEF TransfersInv

LEMMA TransfersStep == TransfersInv /\ [Transfers!Next]_transferVars => TransfersInv'
<1> SUFFICES ASSUME TransfersInv, [Transfers!Next]_transferVars PROVE TransfersInv'
  OBVIOUS
<1>c. clock \in 0..MaxTime
  BY DEF TransfersInv, TransfersTyped
<1>1. ASSUME NEW r \in Requests, NEW u \in Users, NEW a \in Amounts, Transfers!TransferFiat(r, u, a)
      PROVE  TransfersInv'
  <2> DEFINE ref == <<"TRANSFER", clock>>
  <2>1. transfer[r] = Transfers!Idle /\ UNCHANGED <<clock, balance>>
    BY <1>1 DEF Transfers!TransferFiat
  <2>2. ref \in Transfers!References
    BY <1>c DEF Transfers!References
  <2>3. CASE Transfers!CreateTransaction(Transfers!RowOf(ref, u, "transfer", a, "processing"))
             /\ (Transfers!Goes(r, Transfers!Answered(ref, u)) \/ Transfers!Goes(r, Transfers!Refused("unheard")))
    <3> HIDE DEF ref
    <3>. QED  BY <2>1, <2>2, <2>3, TransferIsRecorded
  <2>4. CASE UNCHANGED <<rows, audits>> /\ \E why \in {"taken", "database"} : Transfers!Goes(r, Transfers!Refused(why))
    <3>1. PICK why \in {"taken", "database"} : Transfers!Goes(r, Transfers!Refused(why))
      BY <2>4
    <3>2. /\ Transfers!Refused(why) \in TransferRequests /\ Transfers!Refused(why).step # "answered"
          /\ Transfers!Refused(why) # Transfers!Refused("unheard")
      BY TransferKinds DEF Transfers!Reasons
    <3>. QED  BY <2>1, <2>4, <3>1, <3>2, TransferKinds, TransferMoves
  <2>. QED  BY <1>1, <2>3, <2>4 DEF Transfers!TransferFiat
<1>2. ASSUME NEW r \in Requests, NEW u \in Users, NEW v \in Users, NEW a \in Amounts,
             Transfers!CheckTransfer(r, u, v, a)
      PROVE  TransfersInv'
  <2> DEFINE ref == <<"FIATTRANSFER", clock>>
  <2>1. transfer[r] = Transfers!Idle /\ UNCHANGED <<clock, rows, audits, balance>>
    BY <1>2 DEF Transfers!CheckTransfer
  <2>2. ref \in Transfers!References
    BY <1>c DEF Transfers!References
  <2>3. CASE Transfers!Acceptable(u, v, a) /\ Transfers!Goes(r, Transfers!Checked(ref, u, v, a))
    <3>1. u \in Transfers!Holders /\ v \in Transfers!Holders
      BY <2>3 DEF Transfers!Acceptable
    <3> HIDE DEF ref
    <3>2. /\ Transfers!Checked(ref, u, v, a) \in TransferRequests
          /\ Transfers!Checked(ref, u, v, a).step = "checked"
      BY <2>2, <3>1, TransferKinds
    <3>3. Transfers!Refused("unheard").step = "refused"
      BY DEF Transfers!Refused
    <3>. QED  BY <2>1, <2>3, <3>2, <3>3, TransferKinds, TransferMoves
  <2>4. CASE Transfers!Goes(r, Transfers!Refused("terms"))
    <3>1. /\ Transfers!Refused("terms") \in TransferRequests /\ Transfers!Refused("terms").step # "answered"
          /\ Transfers!Refused("terms") # Transfers!Refused("unheard")
      BY TransferKinds DEF Transfers!Reasons
    <3>. QED  BY <2>1, <2>4, <3>1, TransferKinds, TransferMoves
  <2>. QED  BY <1>2, <2>3, <2>4 DEF Transfers!CheckTransfer
<1>3. ASSUME NEW r \in Requests, Transfers!TransferToken(r) PROVE TransfersInv'
  <2>1. /\ transfer[r] = Transfers!Idle /\ UNCHANGED <<clock, rows, audits, balance>>
        /\ Transfers!Goes(r, Transfers!Refused("terms"))
    BY <1>3 DEF Transfers!TransferToken
  <2>2. /\ Transfers!Refused("terms") \in TransferRequests /\ Transfers!Refused("terms").step # "answered"
        /\ Transfers!Refused("terms") # Transfers!Refused("unheard")
    BY TransferKinds DEF Transfers!Reasons
  <2>. QED  BY <2>1, <2>2, TransferKinds, TransferMoves
<1>4. ASSUME NEW r \in Requests, Transfers!CommitTransfer(r) PROVE TransfersInv'
  <2>1. transfer[r].step = "checked" /\ UNCHANGED <<clock, audits>>
    BY <1>4 DEF Transfers!CommitTransfer
  <2>2. PICK why \in {"rolledBack", "database"} :
          Transfers!Goes(r, Transfers!Refused(why)) /\ UNCHANGED <<rows, balance>>
    BY <1>4, SecondRowIsRefused DEF Transfers!CommitTransfer
  <2>3. /\ Transfers!Refused(why) \in TransferRequests /\ Transfers!Refused(why).step # "answered"
        /\ Transfers!Refused(why) # Transfers!Refused("unheard")
    BY TransferKinds DEF Transfers!Reasons
  <2>. QED  BY <2>1, <2>2, <2>3, TransferMoves
<1>5. ASSUME NEW row \in rows, Transfers!UpdateStatus(row) PROVE TransfersInv'
  BY <1>5, StatusIsUpdated
<1>6. ASSUME UNCHANGED <<rows, audits, balance, transfer>>, clock' \in 0..MaxTime PROVE TransfersInv'
  BY <1>6 DEF TransfersInv, TransfersTyped, ReferencesDiffer, AnswersHaveRows, AnswersDiffer,
              RowsHaveRequests, TakenReferences, Recorded, AuditsCount, PlainRows, Transfers!Refused
<1>7. CASE Transfers!Tick
  <2>1. clock' \in 0..MaxTime /\ UNCHANGED <<rows, audits, balance, transfer>>
    BY <1>7, <1>c, TransferFacts DEF Transfers!Tick
  <2>. QED  BY <1>6, <2>1
<1>8. CASE UNCHANGED transferVars
  BY <1>6, <1>8, <1>c DEF transferVars
<1>. QED  BY <1>1, <1>2, <1>3, <1>4, <1>5, <1>7, <1>8 DEF Transfers!Next

(***************************************************************************)
(* WalletSummary.                                                          *)
(***************************************************************************)
LEMMA PairsAreFinite ==
  ASSUME NEW S, IsFiniteSet(S), NEW T, IsFiniteSet(T)
  PROVE  IsFiniteSet(S \X T)
<1> DEFINE Good == {U \in SUBSET S : IsFiniteSet(U \X T)}
<1>1. {} \in Good
  BY FS_EmptySet, {} \X T = {}
<1>2. ASSUME NEW U \in SUBSET S, U # {}, \A x \in U : U \ {x} \in Good
      PROVE  U \in Good
  <2>1. PICK x \in U : TRUE
    BY <1>2
  <2>2. IsFiniteSet((U \ {x}) \X T)
    BY <1>2
  <2> DEFINE f == [t \in T |-> <<x, t>>]
  <2>3. f \in Surjection(T, {x} \X T)
    <3>1. f \in [T -> {x} \X T]
      OBVIOUS
    <3>2. ASSUME NEW y \in {x} \X T PROVE \E t \in T : f[t] = y
      <4>1. y[2] \in T /\ y = <<x, y[2]>>
        OBVIOUS
      <4>. QED  BY <4>1
    <3> HIDE DEF f
    <3>. QED  BY <3>1, <3>2 DEF Surjection
  <2>4. IsFiniteSet({x} \X T)
    <3> HIDE DEF f
    <3>. QED  BY <2>3, FS_Surjection
  <2>5. U \X T = ((U \ {x}) \X T) \cup ({x} \X T)
    <3>1. U = (U \ {x}) \cup {x}
      BY <2>1
    <3>. QED  BY <3>1
  <2>6. IsFiniteSet(((U \ {x}) \X T) \cup ({x} \X T))
    BY <2>2, <2>4, FS_Union
  <2>. QED  BY <2>5, <2>6
<1>3. SUBSET S \subseteq Good
  <2> HIDE DEF Good
  <2>. QED  BY <1>1, <1>2, FiniteSetInduction
<1>. QED  BY <1>3

LEMMA SummarySum == \A f : Summary!SumFunction(f) = SumFunctionOnSet(f, DOMAIN f)
BY Zenon DEF Summary!SumFunction, Summary!SumFunctionOnSet, Summary!FoldFunctionOnSet, Summary!MapThenFoldSet,
       SumFunctionOnSet, FoldFunctionOnSet, MapThenFoldSet

\* What was read of a balance, it was while the summary was computed.
BalancesArePast ==
    /\ \A x \in Summary!Places : held[x] \in past[x]
    /\ \A x \in DOMAIN read : read[x] = Summary!Missing \/ read[x] \in past[x]
    /\ \A t \in DOMAIN again : again[t] = Summary!Missing \/ again[t] \in past[<<default, t>>]

\* All balances are read before the rates; the default wallet's once more afterwards.
ReadsAreOrdered ==
    /\ step \notin {"idle", "tokens"} => DOMAIN read = Summary!Places
    /\ step \in {"idle", "tokens", "rates"} \/ default = Summary!NoWallet => DOMAIN again = {}
    /\ step \in {"idle", "tokens", "rates"} => default = Summary!NoWallet
    /\ step = "answered" /\ default # Summary!NoWallet => DOMAIN again = Tokens

\* There is no default wallet in the answer only if no token of one could be read.
DefaultIsListed ==
    step \in {"again", "answered"} /\ default = Summary!NoWallet =>
      \A w \in Defaults, t \in Tokens : read[<<w, t>>] = Summary!Missing

SummaryInv == Summary!TypeOK /\ BalancesArePast /\ ReadsAreOrdered /\ DefaultIsListed

LEMMA SummaryFacts ==
  /\ Summary!Places = Wallets \X Tokens /\ IsFiniteSet(Summary!Places)
  /\ MaxHeld \in Nat /\ MaxMoves \in Nat /\ Kobo \in Nat \ {0} /\ Naira \subseteq Nat
  /\ Defaults \subseteq Wallets /\ Summary!NoWallet \notin Wallets
  /\ Fiat \subseteq [{"NGN", "USD"} -> Nat]
<1>1. \A S : Summary!IsFiniteSet(S) = IsFiniteSet(S)
  BY DEF Summary!IsFiniteSet, IsFiniteSet
<1>2. IsFiniteSet(Wallets) /\ IsFiniteSet(Tokens)
  BY <1>1, SummaryBounds DEF Summary!SummaryAssumption
<1>. QED  BY <1>2, PairsAreFinite, SummaryBounds DEF Summary!SummaryAssumption, Summary!Places

LEMMA SummaryTypes ==
  ASSUME SummaryInv
  PROVE  /\ held \in [Summary!Places -> 0..MaxHeld]
         /\ step \in {"idle", "tokens", "rates", "again", "answered", "failed"}
         /\ fiatRead \in [{"NGN", "USD"} -> Nat]
         /\ DOMAIN read \subseteq Summary!Places
         /\ \A x \in DOMAIN read : read[x] \in {Summary!Missing} \cup 0..MaxHeld
         /\ naira \in Naira \cup {0} /\ naira \in Nat
         /\ prices \in [Tokens -> 0..1]
         /\ default \in Defaults \cup {Summary!NoWallet}
         /\ DOMAIN again \subseteq Tokens
         /\ \A t \in DOMAIN again : again[t] \in {Summary!Missing} \cup 0..MaxHeld
         /\ past \in [Summary!Places -> SUBSET (0..MaxHeld)]
         /\ moves \in 0..MaxMoves
<1>1. Summary!TypeOK
  BY DEF SummaryInv
<1>2. naira \in Nat
  BY <1>1, SummaryFacts DEF Summary!TypeOK
<1>. QED  BY <1>1, <1>2 DEF Summary!TypeOK

LEMMA SummaryInit == Summary!Init => SummaryInv
<1> SUFFICES ASSUME Summary!Init PROVE SummaryInv
  OBVIOUS
<1>1. /\ held \in [Summary!Places -> 0..MaxHeld] /\ step = "idle"
      /\ fiatRead = [c \in {"NGN", "USD"} |-> 0] /\ read = <<>> /\ again = <<>>
      /\ naira = 0 /\ prices = [t \in Tokens |-> 0] /\ default = Summary!NoWallet
      /\ past = [x \in Summary!Places |-> {held[x]}] /\ moves = 0
  BY DEF Summary!Init
<1>2. DOMAIN read = {} /\ DOMAIN again = {}
  BY <1>1
<1>3. past \in [Summary!Places -> SUBSET (0..MaxHeld)] /\ \A x \in Summary!Places : held[x] \in past[x]
  BY <1>1
<1>4. prices \in [Tokens -> 0..1] /\ moves \in 0..MaxMoves /\ fiatRead \in [{"NGN", "USD"} -> Nat]
  BY <1>1, SummaryFacts
<1>5. Summary!TypeOK
  BY <1>1, <1>2, <1>3, <1>4 DEF Summary!TypeOK
<1>. QED  BY <1>1, <1>2, <1>3, <1>5 DEF SummaryInv, BalancesArePast, ReadsAreOrdered, DefaultIsListed

LEMMA SummaryStep == SummaryInv /\ [Summary!Next]_summaryVars => SummaryInv'
<1> SUFFICES ASSUME SummaryInv, [Summary!Next]_summaryVars PROVE SummaryInv'
  OBVIOUS
<1> USE DEF Summary!outside, Summary!rates
<1>t. /\ held \in [Summary!Places -> 0..MaxHeld]
      /\ step \in {"idle", "tokens", "rates", "again", "answered", "failed"}
      /\ fiatRead \in [{"NGN", "USD"} -> Nat]
      /\ DOMAIN read \subseteq Summary!Places
      /\ \A x \in DOMAIN read : read[x] \in {Summary!Missing} \cup 0..MaxHeld
      /\ naira \in Naira \cup {0}
      /\ prices \in [Tokens -> 0..1]
      /\ default \in Defaults \cup {Summary!NoWallet}
      /\ DOMAIN again \subseteq Tokens
      /\ \A t \in DOMAIN again : again[t] \in {Summary!Missing} \cup 0..MaxHeld
      /\ past \in [Summary!Places -> SUBSET (0..MaxHeld)]
      /\ moves \in 0..MaxMoves
  BY SummaryTypes
<1>i. BalancesArePast /\ ReadsAreOrdered /\ DefaultIsListed
  BY DEF SummaryInv
<1>f. /\ Summary!Places = Wallets \X Tokens
      /\ MaxHeld \in Nat /\ MaxMoves \in Nat
      /\ Defaults \subseteq Wallets /\ Summary!NoWallet \notin Wallets
      /\ Fiat \subseteq [{"NGN", "USD"} -> Nat]
  BY SummaryFacts
<1>1. ASSUME NEW x \in Summary!Places, NEW n \in 0..MaxHeld, Summary!Move(x, n) PROVE SummaryInv'
  <2>1. /\ moves < MaxMoves /\ moves' = moves + 1
        /\ held' = [held EXCEPT ![x] = n] /\ past' = [past EXCEPT ![x] = past[x] \cup {n}]
        /\ UNCHANGED <<step, fiatRead, read, naira, prices, default, again>>
    BY <1>1 DEF Summary!Move
  <2>2. held' \in [Summary!Places -> 0..MaxHeld] /\ moves' \in 0..MaxMoves
    BY <1>t, <1>f, <2>1
  <2>3. past' \in [Summary!Places -> SUBSET (0..MaxHeld)]
    BY <1>t, <2>1
  <2>4. \A y \in Summary!Places : past[y] \subseteq past'[y]
    BY <1>t, <2>1
  <2>5. Summary!TypeOK'
    BY <1>t, <2>1, <2>2, <2>3 DEF Summary!TypeOK
  <2>6. \A y \in Summary!Places : held'[y] \in past'[y]
    BY <1>t, <1>i, <2>1 DEF BalancesArePast
  <2>7. \A t \in DOMAIN again : <<default, t>> \in Summary!Places
    <3>1. \A t \in DOMAIN again : default # Summary!NoWallet
      BY <1>i DEF ReadsAreOrdered
    <3>. QED  BY <1>t, <1>f, <3>1
  <2>8. BalancesArePast'
    BY <1>t, <1>i, <2>1, <2>4, <2>6, <2>7 DEF BalancesArePast
  <2>. QED  BY <1>i, <2>1, <2>5, <2>8 DEF SummaryInv, ReadsAreOrdered, DefaultIsListed
<1>2. CASE Summary!ReadUser
  <2>1. /\ step = "idle" /\ step' = "tokens" /\ fiatRead' \in Fiat
        /\ UNCHANGED <<held, past, moves, read, naira, prices, default, again>>
    BY <1>2 DEF Summary!ReadUser
  <2>2. Summary!TypeOK'
    BY <1>t, <1>f, <2>1 DEF Summary!TypeOK
  <2>. QED  BY <1>i, <2>1, <2>2 DEF SummaryInv, BalancesArePast, ReadsAreOrdered, DefaultIsListed
<1>3. ASSUME NEW x \in Summary!Places, Summary!ReadToken(x) PROVE SummaryInv'
  <2>1. PICK n \in {held[x], Summary!Missing} : read' = Summary!Record(read, x, n)
    BY <1>3 DEF Summary!ReadToken, Summary!Balance
  <2>2. /\ step = "tokens" /\ x \notin DOMAIN read
        /\ UNCHANGED <<held, past, moves, step, fiatRead, naira, prices, default, again>>
    BY <1>3 DEF Summary!ReadToken
  <2>3. /\ DOMAIN read' = DOMAIN read \cup {x} /\ read'[x] = n
        /\ \A y \in DOMAIN read : read'[y] = read[y]
    <3>1. read' = [y \in DOMAIN read \cup {x} |-> IF y = x THEN n ELSE read[y]]
      BY <2>1 DEF Summary!Record
    <3>. QED  BY <2>2, <3>1
  <2>4. DOMAIN read' \subseteq Summary!Places /\ \A y \in DOMAIN read' : read'[y] \in {Summary!Missing} \cup 0..MaxHeld
    BY <1>t, <2>3
  <2>5. Summary!TypeOK'
    BY <1>t, <2>2, <2>4 DEF Summary!TypeOK
  <2>6. BalancesArePast'
    BY <1>i, <2>2, <2>3 DEF BalancesArePast
  <2>. QED  BY <1>i, <2>2, <2>5, <2>6 DEF SummaryInv, ReadsAreOrdered, DefaultIsListed
<1>4. CASE Summary!ReadRates
  <2>1. /\ step = "tokens" /\ DOMAIN read = Summary!Places /\ step' \in {"rates", "failed"}
        /\ UNCHANGED <<held, past, moves, fiatRead, read, default, again>>
    BY <1>4 DEF Summary!ReadRates
  <2>2. naira' \in Naira \cup {0} /\ prices' \in [Tokens -> 0..1]
    BY <1>t, <1>4 DEF Summary!ReadRates
  <2>3. Summary!TypeOK'
    BY <1>t, <2>1, <2>2 DEF Summary!TypeOK
  <2>. QED  BY <1>i, <2>1, <2>3 DEF SummaryInv, BalancesArePast, ReadsAreOrdered, DefaultIsListed
<1>5. CASE Summary!FindDefault
  <2> DEFINE found == {w \in Defaults : Summary!Listed(w)}
  <2>1. /\ step = "rates" /\ step' = "again"
        /\ UNCHANGED <<held, past, moves, fiatRead, read, naira, prices, again>>
        /\ default' \in (IF found = {} THEN {Summary!NoWallet} ELSE found)
    BY <1>5 DEF Summary!FindDefault
  <2>2. default' \in Defaults \cup {Summary!NoWallet}
    BY <2>1
  <2>3. default' = Summary!NoWallet => found = {}
    BY <1>f, <2>1
  <2>4. default' = Summary!NoWallet => \A w \in Defaults, t \in Tokens : read[<<w, t>>] = Summary!Missing
    BY <2>3 DEF Summary!Listed
  <2> HIDE DEF found
  <2>5. Summary!TypeOK'
    BY <1>t, <2>1, <2>2 DEF Summary!TypeOK
  <2>6. DOMAIN again = {} /\ DOMAIN read = Summary!Places
    BY <1>i, <2>1 DEF ReadsAreOrdered
  <2>. QED  BY <1>i, <2>1, <2>4, <2>5, <2>6
            DEF SummaryInv, BalancesArePast, ReadsAreOrdered, DefaultIsListed
<1>6. ASSUME NEW t \in Tokens, Summary!ReadAgain(t) PROVE SummaryInv'
  <2>1. PICK n \in {held[<<default, t>>], Summary!Missing} : again' = Summary!Record(again, t, n)
    BY <1>6 DEF Summary!ReadAgain, Summary!Balance
  <2>2. /\ step = "again" /\ default # Summary!NoWallet /\ t \notin DOMAIN again
        /\ UNCHANGED <<held, past, moves, step, fiatRead, read, naira, prices, default>>
    BY <1>6 DEF Summary!ReadAgain
  <2>3. <<default, t>> \in Summary!Places
    BY <1>t, <1>f, <2>2
  <2>4. /\ DOMAIN again' = DOMAIN again \cup {t} /\ again'[t] = n
        /\ \A y \in DOMAIN again : again'[y] = again[y]
    <3>1. again' = [y \in DOMAIN again \cup {t} |-> IF y = t THEN n ELSE again[y]]
      BY <2>1 DEF Summary!Record
    <3>. QED  BY <2>2, <3>1
  <2>5. DOMAIN again' \subseteq Tokens /\ \A y \in DOMAIN again' : again'[y] \in {Summary!Missing} \cup 0..MaxHeld
    BY <1>t, <2>3, <2>4
  <2>6. Summary!TypeOK'
    BY <1>t, <2>2, <2>5 DEF Summary!TypeOK
  <2>7. BalancesArePast'
    BY <1>i, <2>2, <2>3, <2>4 DEF BalancesArePast
  <2>. QED  BY <1>i, <2>2, <2>6, <2>7 DEF SummaryInv, ReadsAreOrdered, DefaultIsListed
<1>7. CASE Summary!Answer
  <2>1. /\ step = "again" /\ (default = Summary!NoWallet \/ DOMAIN again = Tokens)
        /\ step' \in {"answered", "failed"}
        /\ UNCHANGED <<held, past, moves, fiatRead, read, naira, prices, default, again>>
    BY <1>7 DEF Summary!Answer
  <2>2. Summary!TypeOK'
    BY <1>t, <2>1 DEF Summary!TypeOK
  <2>. QED  BY <1>i, <2>1, <2>2 DEF SummaryInv, BalancesArePast, ReadsAreOrdered, DefaultIsListed
<1>8. CASE UNCHANGED summaryVars
  <2>1. UNCHANGED <<held, step, fiatRead, read, naira, prices, default, again, past, moves>>
    BY <1>8 DEF summaryVars
  <2>2. Summary!TypeOK'
    BY <1>t, <2>1 DEF Summary!TypeOK
  <2>. QED  BY <1>i, <2>1, <2>2 DEF SummaryInv, BalancesArePast, ReadsAreOrdered, DefaultIsListed
<1>. QED  BY <1>1, <1>2, <1>3, <1>4, <1>5, <1>6, <1>7, <1>8 DEF Summary!Next

LEMMA DividedIsLess ==
  ASSUME NEW a \in Nat, NEW k \in Nat \ {0}, NEW n \in Nat \ {0}
  PROVE  (a \div (k * n)) * k * n <= a
<1> DEFINE b == k * n
           q == a \div b
<1>1. b \in Nat \ {0}
  OBVIOUS
<1>2. (q * k) * n = q * b /\ q \in Int
  <2>1. q \in Int
    <3> HIDE DEF b
    <3>. QED  BY <1>1
  <2> HIDE DEF q
  <2>. QED  BY <2>1
<1> HIDE DEF b
<1>3. q * b <= a
  <2>1. a = b * q + (a % b) /\ a % b \in 0..(b - 1)
    BY <1>1
  <2>. QED  BY <1>1, <1>2, <2>1
<1>. QED  BY <1>2, <1>3 DEF b

\* What the runs check follows.
LEMMA SummaryAnswers == SummaryInv => Summary!SummaryIsExplained
<1> SUFFICES ASSUME SummaryInv, step = "answered"
             PROVE  /\ \E worth \in [Summary!Places -> 0..MaxHeld] :
                         /\ \A x \in Summary!Places :
                              worth[x] \in (IF x \in Summary!Failed THEN {0} ELSE past[x])
                         /\ Summary!totalValueNGN =
                              fiatRead["NGN"] + Kobo * naira * (fiatRead["USD"] +
                                Summary!SumFunction([x \in Summary!Places |-> worth[x] * prices[x[2]]]))
                    /\ \A t \in Tokens :
                         \/ Summary!TokenBalance(t) = 0
                         \/ \E w \in Defaults : Summary!TokenBalance(t) \in past[<<w, t>>]
                    /\ default = Summary!NoWallet =>
                         \A w \in Defaults : \A t \in Tokens : <<w, t>> \in Summary!Failed
                    /\ naira # 0 => Summary!totalValueUSD * Kobo * naira <= Summary!totalValueNGN
  BY DEF Summary!SummaryIsExplained
<1>f. /\ IsFiniteSet(Summary!Places) /\ Summary!Places = Wallets \X Tokens /\ Kobo \in Nat \ {0}
      /\ MaxHeld \in Nat /\ Defaults \subseteq Wallets /\ Summary!NoWallet \notin Wallets
  BY SummaryFacts
<1>t. /\ naira \in Nat /\ prices \in [Tokens -> 0..1] /\ fiatRead["NGN"] \in Nat /\ fiatRead["USD"] \in Nat
      /\ past \in [Summary!Places -> SUBSET (0..MaxHeld)]
      /\ default \in Defaults \cup {Summary!NoWallet}
  BY SummaryTypes
<1>r. /\ DOMAIN read = Summary!Places
      /\ \A x \in Summary!Places : /\ read[x] \in {Summary!Missing} \cup 0..MaxHeld
                                   /\ read[x] = Summary!Missing \/ read[x] \in past[x]
  BY SummaryTypes DEF SummaryInv, ReadsAreOrdered, BalancesArePast
<1> DEFINE worth == [x \in Summary!Places |-> IF read[x] = Summary!Missing THEN 0 ELSE read[x]]
           f == [x \in Summary!Places |-> worth[x] * prices[x[2]]]
           g == [x \in Summary!Places |-> IF read[x] = Summary!Missing THEN 0
                                          ELSE Summary!Converted(read[x] * prices[x[2]])]
<1>1. worth \in [Summary!Places -> 0..MaxHeld]
  BY <1>f, <1>r
<1>2. \A x \in Summary!Places : worth[x] \in (IF x \in Summary!Failed THEN {0} ELSE past[x])
  BY <1>r DEF Summary!Failed
<1>3. \A x \in Summary!Places : f[x] \in Int /\ f[x] >= 0 /\ g[x] = (Kobo * naira) * f[x]
  <2> TAKE x \in Summary!Places
  <2>1. prices[x[2]] \in Nat
    BY <1>f, <1>t
  <2>2. CASE read[x] = Summary!Missing
    <3>1. worth[x] = 0 /\ g[x] = 0
      BY <2>2
    <3>. QED  BY <1>f, <1>t, <2>1, <3>1
  <2>3. CASE read[x] # Summary!Missing
    <3>1. read[x] \in Nat /\ worth[x] = read[x] /\ g[x] = Kobo * (read[x] * prices[x[2]]) * naira
      BY <1>f, <1>r, <2>3 DEF Summary!Converted
    <3>2. f[x] = read[x] * prices[x[2]]
      BY <3>1
    <3>3. f[x] \in Nat
      <4> HIDE DEF f, worth
      <4>. QED  BY <2>1, <3>1, <3>2
    <3> HIDE DEF f, g, worth
    <3>4. g[x] = Kobo * f[x] * naira
      BY <3>1, <3>2
    <3>. QED  BY <1>f, <1>t, <3>3, <3>4
  <2>. QED  BY <2>2, <2>3
<1>4. DOMAIN f = Summary!Places /\ DOMAIN g = Summary!Places
  OBVIOUS
<1>5. Summary!TokenValue = SumFunctionOnSet(g, Summary!Places)
  BY <1>4, SummarySum DEF Summary!TokenValue
<1>6. Summary!SumFunction(f) = SumFunctionOnSet(f, Summary!Places)
  <2> HIDE DEF f
  <2>. QED  BY <1>4, SummarySum
<1> HIDE DEF f, g
<1>7. Kobo * naira \in Int
  BY <1>f, <1>t
<1>8. SumFunctionOnSet(g, Summary!Places) = (Kobo * naira) * SumFunctionOnSet(f, Summary!Places)
  BY <1>f, <1>3, <1>7, SumScaled
<1>9. SumFunctionOnSet(f, Summary!Places) \in Int /\ SumFunctionOnSet(f, Summary!Places) >= 0
  BY <1>f, <1>3, SumInt, SumPositive
<1>10. Summary!totalValueNGN =
         fiatRead["NGN"] + Kobo * naira * (fiatRead["USD"] + Summary!SumFunction(f))
  <2>1. Summary!totalValueNGN = (fiatRead["NGN"] + Kobo * fiatRead["USD"] * naira) + Summary!TokenValue
    BY DEF Summary!totalValueNGN, Summary!FiatValue, Summary!Converted
  <2>2. Summary!totalValueNGN = (fiatRead["NGN"] + Kobo * fiatRead["USD"] * naira)
                                  + (Kobo * naira) * Summary!SumFunction(f)
    BY <1>5, <1>6, <1>8, <2>1
  <2>3. Summary!SumFunction(f) \in Int
    BY <1>6, <1>9
  <2>4. \A a, b, k, n, s \in Int : (a + k * b * n) + (k * n) * s = a + k * n * (b + s)
    OBVIOUS
  <2>. QED  BY <1>f, <1>t, <2>2, <2>3, <2>4
<1>11. Summary!totalValueNGN \in Nat
  <2>1. \A a, b, k, n, s \in Nat : a + k * n * (b + s) \in Nat
    OBVIOUS
  <2>2. Summary!SumFunction(f) \in Nat
    BY <1>6, <1>9
  <2>. QED  BY <1>f, <1>t, <1>10, <2>1, <2>2
<1>12. naira # 0 => Summary!totalValueUSD * Kobo * naira <= Summary!totalValueNGN
  <2> SUFFICES ASSUME naira # 0
               PROVE  (Summary!totalValueNGN \div (Kobo * naira)) * Kobo * naira <= Summary!totalValueNGN
    BY DEF Summary!totalValueUSD
  <2>. QED  BY <1>f, <1>t, <1>11, DividedIsLess
<1>13. default = Summary!NoWallet =>
         \A w \in Defaults : \A t \in Tokens : <<w, t>> \in Summary!Failed
  BY <1>f DEF SummaryInv, DefaultIsListed, Summary!Failed
<1>14. ASSUME NEW t \in Tokens
       PROVE  \/ Summary!TokenBalance(t) = 0
              \/ \E w \in Defaults : Summary!TokenBalance(t) \in past[<<w, t>>]
  <2>1. CASE default = Summary!NoWallet \/ again[t] = Summary!Missing
    BY <2>1 DEF Summary!TokenBalance
  <2>2. CASE default # Summary!NoWallet /\ again[t] # Summary!Missing
    <3>1. default \in Defaults /\ DOMAIN again = Tokens
      BY <1>t, <2>2 DEF SummaryInv, ReadsAreOrdered
    <3>2. again[t] \in past[<<default, t>>]
      BY <2>2, <3>1 DEF SummaryInv, BalancesArePast
    <3>. QED  BY <2>2, <3>1, <3>2 DEF Summary!TokenBalance
  <2>. QED  BY <2>1, <2>2
<1>15. \E w \in [Summary!Places -> 0..MaxHeld] :
         /\ \A x \in Summary!Places : w[x] \in (IF x \in Summary!Failed THEN {0} ELSE past[x])
         /\ Summary!totalValueNGN =
              fiatRead["NGN"] + Kobo * naira * (fiatRead["USD"] +
                Summary!SumFunction([x \in Summary!Places |-> w[x] * prices[x[2]]]))
  <2>1. f = [x \in Summary!Places |-> worth[x] * prices[x[2]]]
    BY DEF f
  <2> HIDE DEF worth
  <2>. QED  BY <1>1, <1>2, <1>10, <2>1
<1>. QED  BY <1>12, <1>13, <1>14, <1>15

(***************************************************************************)
(* The three parts together.                                               *)
(***************************************************************************)
LEMMA OneAccountPartWorks ==
  [Next]_vars => /\ [Provisioning!Next]_accountVars /\ [Transfers!Next]_transferVars
                 /\ [Summary!Next]_summaryVars
BY DEF Next, vars

AccountsInv == ProvisionInv /\ TransfersInv /\ SummaryInv

LEMMA AccountsInvariant == Spec => []AccountsInv
<1>1. Init => AccountsInv
  BY ProvisionInit, TransfersInit, SummaryInit DEF Init, AccountsInv
<1>2. AccountsInv /\ [Next]_vars => AccountsInv'
  BY OneAccountPartWorks, ProvisionStep, TransfersStep, SummaryStep DEF AccountsInv
<1>. QED  BY <1>1, <1>2, PTL DEF Spec

\* The variables of accounts, transfers and summaries keep their types.
THEOREM TypeCorrect == Spec => []TypeOK
<1>1. AccountsInv => TypeOK
  BY TransfersAnswer DEF AccountsInv, ProvisionInv, SummaryInv, TypeOK
<1>. QED  BY AccountsInvariant, <1>1, PTL

\* handleUserRegistered: a wallet is flagged only if its event was handled, and each wallet
\* whose event was handled is flagged unless a client registered its address before the row
\* was stored, whichever requests overlap and fail.
THEOREM FlagsAreReported == Spec => []FlagFollowsEvent
<1>1. AccountsInv => FlagFollowsEvent
  BY DEF AccountsInv, ProvisionInv, FlagFollowsEvent
<1>. QED  BY AccountsInvariant, <1>1, PTL

\* provisionUserAccounts, the transfer service and transferFiat: an answer of success is
\* true of the tables, and a refusal left nothing there.
THEOREM AnswersAreKept == Spec => []AnsweredIsDone
<1>1. AccountsInv => AnsweredIsDone
  BY TransfersAnswer DEF AccountsInv, ProvisionInv, AnsweredIsDone
<1>. QED  BY AccountsInvariant, <1>1, PTL

\* remove: no removal leaves a user without accounts, or an account without a user.
THEOREM RemovalTakesAll == Spec => RemovalIsWhole
<1>1. AccountsInv /\ [Next]_vars =>
        [/\ (fiat \ fiat' # {} \/ wallets \ wallets' # {}) => user' = "removed"
         /\ user' = "removed" => fiat' = {} /\ wallets' = {}]_(Provisioning!vars)
  BY OneAccountPartWorks, ProvisionRemoves DEF AccountsInv
<1>. QED  BY AccountsInvariant, <1>1, PTL DEF Spec, RemovalIsWhole, Provisioning!RemovalIsWhole

\* getWalletSummary: every number of the answer is explained by accounts and balances of
\* the time it was computed in, except for what could not be read.
THEOREM SummariesAreExplained == Spec => []SummaryIsExplained
<1>1. AccountsInv => SummaryIsExplained
  BY SummaryAnswers DEF AccountsInv, SummaryIsExplained
<1>. QED  BY AccountsInvariant, <1>1, PTL

=============================================================================
