------------------------------ MODULE FiatLedger ------------------------------
(***************************************************************************)
(* Transfers between users as the database sees them: Transaction rows     *)
(* under a unique reference, their audit rows, and the balances of the     *)
(* default fiat accounts of one currency.                                  *)
(*                                                                         *)
(* POST /transfer/fiat and POST /transfer/token record a transfer with     *)
(* createTransaction; POST /tx/fiat checks a balance, then writes a debit, *)
(* a credit and both balances in one database transaction; PATCH /tx/:id   *)
(* changes a row.  References are made from the clock, in milliseconds.    *)
(***************************************************************************)
EXTENDS Integers, FiniteSets

CONSTANTS
    Users,
    Start,        \* the default accounts and what they hold at first, by user
    Amounts,      \* what a client may ask for: any number
    Requests,
    MaxTime       \* bound: milliseconds

LedgerAssumption ==
    /\ IsFiniteSet(Requests)
    /\ DOMAIN Start \subseteq Users
    /\ Start \in [DOMAIN Start -> Int]
    /\ Amounts \subseteq Int
    /\ MaxTime \in Nat

VARIABLES
    clock,
    rows,         \* the Transaction rows
    audits,       \* rows of AuditLog by user; nothing on them names their transaction
    balance,      \* FiatAccount.balance of the default accounts
    request

vars == <<clock, rows, audits, balance, request>>

Holders == DOMAIN Start

References == {"TRANSFER", "FIATTRANSFER"} \X (0..MaxTime)
Types      == {"transfer", "fiat_transfer_debit", "fiat_transfer_credit"}

RowOf(ref, u, type, amount, status) ==
    [reference |-> ref, user |-> u, type |-> type, amount |-> amount,
     status |-> status, completed |-> status = "completed"]

Idle      == [step |-> "idle"]
Refused(why) == [step |-> "refused", why |-> why]
Answered(ref, u) == [step |-> "answered", reference |-> ref, user |-> u]

\* A request is refused for its terms, for a reference that is taken, because its own
\* rows could not all be written, by the database, or is done and not answered.
Reasons == {"terms", "taken", "rolledBack", "database", "unheard"}

\* A transfer between its checks and its database transaction.
Checked(ref, u, v, a) ==
    [step |-> "checked", reference |-> ref, user |-> u, recipient |-> v, amount |-> a]

TypeOK ==
    /\ clock   \in 0..MaxTime
    /\ \A row \in rows :
         /\ row.reference \in References /\ row.user \in Users /\ row.type \in Types
         /\ row.amount \in Int /\ row.status \in {"processing", "completed"}
         /\ row.completed \in BOOLEAN
    /\ audits  \in [Users -> Nat]
    /\ balance \in [Holders -> Int]
    /\ \A r \in Requests :
         \/ request[r] = Idle
         \/ \E why \in Reasons : request[r] = Refused(why)
         \/ \E ref \in References, u \in Users : request[r] = Answered(ref, u)
         \/ \E ref \in References, u \in Holders, v \in Holders, a \in Amounts :
              request[r] = Checked(ref, u, v, a)

Init ==
    /\ clock = 0
    /\ rows = {}
    /\ audits = [u \in Users |-> 0]
    /\ balance = Start
    /\ request = [r \in Requests |-> Idle]

Goes(r, to)   == request' = [request EXCEPT ![r] = to]
Taken(ref)    == \E row \in rows : row.reference = ref

(***************************************************************************)
(* createTransaction and the transfer service.                             *)
(***************************************************************************)

\* The row and its audit row, both or none.
CreateTransaction(row) ==
    /\ ~Taken(row.reference)
    /\ rows' = rows \cup {row}
    /\ audits' = [audits EXCEPT ![row.user] = @ + 1]

\* POST /transfer/fiat: a row in 'processing'; no balance is looked at.
TransferFiat(r, u, a) ==
    LET ref == <<"TRANSFER", clock>>
    IN  /\ request[r] = Idle
        /\ \/ /\ CreateTransaction(RowOf(ref, u, "transfer", a, "processing"))
              /\ Goes(r, Answered(ref, u)) \/ Goes(r, Refused("unheard"))
           \/ /\ UNCHANGED <<rows, audits>>
              /\ Goes(r, Refused(IF Taken(ref) THEN "taken" ELSE "database"))
        /\ UNCHANGED <<clock, balance>>

\* POST /transfer/token: the contract instance has no account to sign with, so that
\* transfer throws before createTransaction is reached.
TransferToken(r) ==
    /\ request[r] = Idle
    /\ Goes(r, Refused("terms"))
    /\ UNCHANGED <<clock, rows, audits, balance>>

(***************************************************************************)
(* transferFiat of the transaction service.                                *)
(***************************************************************************)

\* What the checks ask for: two users with a default account, enough on the first.
Acceptable(u, v, a) ==
    /\ a > 0
    /\ u # v
    /\ {u, v} \subseteq Holders
    /\ balance[u] >= a

CheckTransfer(r, u, v, a) ==
    /\ request[r] = Idle
    /\ Goes(r, IF Acceptable(u, v, a)
               THEN Checked(<<"FIATTRANSFER", clock>>, u, v, a)
               ELSE Refused("terms"))
    /\ UNCHANGED <<clock, rows, audits, balance>>

\* An insert inside a database transaction: the rows it leaves, or the failure that
\* a reference that is taken, or an earlier failure, makes of it.
Insert(table, row) ==
    IF table.failed \/ \E old \in table.rows : old.reference = row.reference
    THEN [rows |-> table.rows, failed |-> TRUE]
    ELSE [rows |-> table.rows \cup {row}, failed |-> FALSE]

Debit(t)  == RowOf(t.reference, t.user, "fiat_transfer_debit", -t.amount, "completed")
Credit(t) == RowOf(t.reference, t.recipient, "fiat_transfer_credit", t.amount, "completed")

Written(t) == Insert(Insert([rows |-> rows, failed |-> FALSE], Debit(t)), Credit(t))

\* Mutant: the rows are written without a database transaction around them.
CommitTransferPieceByPiece(r) ==
    /\ request[r].step = "checked"
    /\ LET t == request[r]
       IN  IF Written(t).failed
           THEN /\ rows' = Written(t).rows
                /\ Goes(r, Refused("rolledBack"))
                /\ UNCHANGED balance
           ELSE /\ rows' = Written(t).rows
                /\ balance' = [balance EXCEPT ![t.user] = @ - t.amount,
                                              ![t.recipient] = @ + t.amount]
                /\ Goes(r, Answered(t.reference, t.user))
    /\ UNCHANGED <<clock, audits>>

\* The database transaction: debit row, credit row, both balances, or nothing.  It
\* does not read the balance again.
CommitTransfer(r) ==
    /\ request[r].step = "checked"
    /\ LET t == request[r]
       IN  \/ IF Written(t).failed
              THEN Goes(r, Refused("rolledBack")) /\ UNCHANGED <<rows, balance>>
              ELSE /\ rows' = Written(t).rows
                   /\ balance' = [balance EXCEPT ![t.user] = @ - t.amount,
                                                 ![t.recipient] = @ + t.amount]
                   /\ Goes(r, Answered(t.reference, t.user)) \/ Goes(r, Refused("unheard"))
           \/ Goes(r, Refused("database")) /\ UNCHANGED <<rows, balance>>
    /\ UNCHANGED <<clock, audits>>

(***************************************************************************)
(* PATCH /tx/:id and the clock.                                            *)
(***************************************************************************)

\* updateStatus with 'completed' sets completedAt; the status it is given, this one
\* or any other, is never written.
UpdateStatus(row) ==
    /\ ~row.completed
    /\ rows' = (rows \ {row}) \cup {[row EXCEPT !.completed = TRUE]}
    /\ UNCHANGED <<clock, audits, balance, request>>

Tick ==
    /\ clock < MaxTime
    /\ clock' = clock + 1
    /\ UNCHANGED <<rows, audits, balance, request>>

Next ==
    \/ \E r \in Requests :
         \/ \E u \in Users, a \in Amounts :
              \/ TransferFiat(r, u, a)
              \/ \E v \in Users : CheckTransfer(r, u, v, a)
         \/ TransferToken(r)
         \/ CommitTransfer(r)
    \/ \E row \in rows : UpdateStatus(row)
    \/ Tick

Spec == Init /\ [][Next]_vars

(***************************************************************************)
(* Properties.                                                             *)
(***************************************************************************)
RowsOf(u, type) == {row \in rows : row.user = u /\ row.type = type}

\* The transfer service and transferFiat: who is answered has a row under a reference
\* of their own; a transfer that was refused, whatever the reason, left no row, unless
\* it was made and only its answer was lost; and AuditLog counts exactly the transfers
\* that createTransaction recorded.
AnsweredIsRecorded ==
    /\ \A r \in Requests : request[r].step = "answered" =>
         /\ \E row \in rows : row.reference = request[r].reference /\ row.user = request[r].user
         /\ \A q \in Requests \ {r} :
              request[q].step = "answered" => request[q].reference # request[r].reference
    /\ Cardinality({row.reference : row \in rows})
         <= Cardinality({r \in Requests :
              request[r].step = "answered" \/ request[r] = Refused("unheard")})
    /\ \A u \in Users :
         audits[u] = Cardinality({row \in rows : row.user = u /\ row.type = "transfer"})

\* "Update account balances" (transaction.service.ts:199): a transfer whose checks
\* passed, and no call of which the database failed, is carried out.  The code
\* violates it: its two rows take one reference, which is unique.
SoundTransferSucceeds == \A r \in Requests : request[r] # Refused("rolledBack")

=============================================================================
