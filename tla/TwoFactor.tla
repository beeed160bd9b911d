------------------------------ MODULE TwoFactor ------------------------------
(***************************************************************************)
(* The second factor of one user: a secret is stored, confirmed with a     *)
(* code, asked for at log-in, and removed.  generate2FASecret and          *)
(* initializeMfa store a secret, enable2FA and verifyMfaSetup confirm one, *)
(* disable2FA removes it; each reads the row and then writes it by id.     *)
(*                                                                         *)
(* Secrets are numbered as they are generated.  A code is right for one    *)
(* secret only, so a code is modelled by the secret it was made from.      *)
(***************************************************************************)
EXTENDS Integers

CONSTANTS
    Requests,
    MaxSecrets      \* bound: secrets generated

TwoFactorAssumption == MaxSecrets \in Nat

VARIABLES
    secret, enabled,   \* the row; secret 0 stands for null
    generated,         \* secrets generated so far
    request,           \* what a request is about to write
    confirmed,         \* history: secrets that a code was accepted for by enable or setup
    shown,             \* history: secrets that an answer has shown to the client
    raced,             \* history: did requests overlap since the factor was last removed?
    renewed            \* history: was a secret made for a factor that was enabled?

vars == <<secret, enabled, generated, request, confirmed, shown, raced, renewed>>
history == <<confirmed, shown, raced, renewed>>

Secrets == 1..MaxSecrets
Idle    == [pc |-> "idle", secret |-> 0]

TypeOK ==
    /\ secret    \in Secrets \cup {0}
    /\ enabled   \in BOOLEAN
    /\ generated \in Secrets \cup {0}
    /\ request   \in [Requests -> [pc : {"idle", "store", "enable", "disable"},
                                   secret : Secrets \cup {0}]]
    /\ confirmed \subseteq 1..generated
    /\ shown     \subseteq 1..generated
    /\ raced     \in BOOLEAN
    /\ renewed   \in BOOLEAN

Init ==
    /\ secret = 0 /\ enabled = FALSE /\ generated = 0
    /\ request = [r \in Requests |-> Idle]
    /\ confirmed = {} /\ shown = {}
    /\ raced = FALSE /\ renewed = FALSE

Alone(r)  == \A q \in Requests \ {r} : request[q].pc = "idle"
Begins(r) == request[r].pc = "idle" /\ raced' = (raced \/ ~Alone(r))

Goes(r, pc, s) == request' = [request EXCEPT ![r] = [pc |-> pc, secret |-> s]]

\* generate2FASecret, initializeMfa: the user exists, a secret is made; nothing
\* asks whether the factor is enabled.
Generate(r) ==
    /\ Begins(r)
    /\ renewed' = (renewed \/ enabled)
    /\ generated < MaxSecrets
    /\ generated' = generated + 1
    /\ Goes(r, "store", generated + 1)
    /\ UNCHANGED <<secret, enabled, confirmed, shown>>

\* It is stored, then shown, unless the QR code fails or the answer is lost.
StoreSecret(r) ==
    /\ request[r].pc = "store"
    /\ secret' = request[r].secret
    /\ shown' \in {shown, shown \cup {request[r].secret}}
    /\ Goes(r, "idle", 0)
    /\ UNCHANGED <<enabled, generated, confirmed, raced, renewed>>

\* Mutant: any code is taken.
CheckAnyCode(r, code) ==
    /\ Begins(r)
    /\ secret # 0
    /\ Goes(r, "enable", code)
    /\ UNCHANGED <<secret, enabled, generated, confirmed, shown, renewed>>

\* enable2FA, verifyMfaSetup: the stored secret is there and the code is right.
CheckCode(r, code) ==
    /\ Begins(r)
    /\ secret # 0
    /\ code = secret
    /\ code \in shown
    /\ Goes(r, "enable", secret)
    /\ confirmed' = confirmed \cup {secret}
    /\ UNCHANGED <<secret, enabled, generated, shown, renewed>>

\* Their update: by id, the flag alone.
Enable(r) ==
    /\ request[r].pc = "enable"
    /\ enabled' = TRUE
    /\ Goes(r, "idle", 0)
    /\ UNCHANGED <<secret, generated, history>>

\* disable2FA: the user exists, ...
FindUser(r) ==
    /\ Begins(r)
    /\ Goes(r, "disable", 0)
    /\ UNCHANGED <<secret, enabled, generated, confirmed, shown, renewed>>

\* ... then both columns are reset.
Disable(r) ==
    /\ request[r].pc = "disable"
    /\ enabled' = FALSE
    /\ secret' = 0
    /\ Goes(r, "idle", 0)
    /\ raced' = ~Alone(r) /\ renewed' = FALSE
    /\ UNCHANGED <<generated, confirmed, shown>>

\* A refusal, a failing update, or a restart.
Lost(r) ==
    /\ request[r].pc # "idle"
    /\ Goes(r, "idle", 0)
    /\ UNCHANGED <<secret, enabled, generated, history>>

Next == \E r \in Requests :
    \/ Generate(r) \/ StoreSecret(r)
    \/ \E code \in Secrets : CheckCode(r, code)
    \/ Enable(r) \/ FindUser(r) \/ Disable(r) \/ Lost(r)

Spec == Init /\ [][Next]_vars

(***************************************************************************)
(* Properties.                                                             *)
(***************************************************************************)

\* While requests come one at a time, and again after a removal that found itself
\* alone, an enabled second factor has a secret, so that login can check a code:
\* no order of storing, enabling and disabling separates them.  While in addition
\* nobody asks for a new secret when the factor is on, the secret in force was
\* confirmed with a code by its user.
SecretWasConfirmed ==
    ~raced /\ enabled => secret # 0 /\ (renewed \/ secret \in confirmed)

\* "Store the secret temporarily (will be confirmed when 2FA is enabled)"
\* (auth.service.ts:160): the secret of an enabled second factor is a confirmed one.
EnabledIsConfirmed == enabled => secret \in confirmed

=============================================================================
