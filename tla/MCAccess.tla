------------------------------- MODULE MCAccess -------------------------------
(***************************************************************************)
(* Small instances of the four guards of an account: LoginLockout,         *)
(* PaymentPin, TwoFactor and AuthSessions.  They share no column and no    *)
(* request, so the steps of one say nothing about another: the run lets    *)
(* one guard work in each behaviour, instead of multiplying their states.  *)
(***************************************************************************)
EXTENDS Integers

CONSTANTS Requests, MaxTime, MaxWrong,
          MAX_LOGIN_ATTEMPTS, LOCKOUT_DURATION,      \* log-in
          Pins, MaxAttempts, LockTime,               \* payment PIN
          MaxSecrets,                                \* second factor
          Sessions, Lifetime                         \* sessions

VARIABLES
    guard,        \* the guard at work
    loginClock, loginAttempts, loginLockedUntil, logins, loginFailures, loginWrong, loginRaced,
    pinClock, pin, attempts, lockedUntil, entries, failures, proven, wrong, pinRaced,
    secret, enabled, generated, confirmations, confirmed, shown, factorRaced, renewed,
    clock, session, refreshes, answered, unheard, shared

Login == INSTANCE LoginLockout WITH
    clock <- loginClock, lockedUntil <- loginLockedUntil, request <- logins,
    failures <- loginFailures, wrong <- loginWrong, raced <- loginRaced
Pin == INSTANCE PaymentPin WITH clock <- pinClock, request <- entries, raced <- pinRaced
Factor == INSTANCE TwoFactor WITH request <- confirmations, raced <- factorRaced
Tokens == INSTANCE AuthSessions WITH request <- refreshes

ASSUME LoginBounds == Login!LockoutAssumption
ASSUME PinBounds == Pin!PinAssumption
ASSUME FactorBounds == Factor!TwoFactorAssumption
ASSUME TokenBounds == Tokens!SessionAssumption

loginVars  == <<loginClock, loginAttempts, loginLockedUntil, logins,
                loginFailures, loginWrong, loginRaced>>
pinVars    == <<pinClock, pin, attempts, lockedUntil, entries, failures, proven, wrong, pinRaced>>
factorVars == <<secret, enabled, generated, confirmations, confirmed, shown, factorRaced, renewed>>
tokenVars  == <<clock, session, refreshes, answered, unheard, shared>>
vars       == <<guard, loginVars, pinVars, factorVars, tokenVars>>

Init ==
    /\ guard \in {"login", "pin", "factor", "tokens"}
    /\ Login!Init /\ Pin!Init /\ Factor!Init /\ Tokens!Init

Next ==
    /\ UNCHANGED guard
    /\ \/ /\ guard = "login" /\ Login!Next
          /\ UNCHANGED <<pinVars, factorVars, tokenVars>>
       \/ /\ guard = "pin" /\ Pin!Next
          /\ UNCHANGED <<loginVars, factorVars, tokenVars>>
       \/ /\ guard = "factor" /\ Factor!Next
          /\ UNCHANGED <<loginVars, pinVars, tokenVars>>
       \/ /\ guard = "tokens" /\ Tokens!Next
          /\ UNCHANGED <<loginVars, pinVars, factorVars>>

Spec == Init /\ [][Next]_vars

(***************************************************************************)
(* The properties of each guard.                                           *)
(***************************************************************************)

\* The variables of every guard keep their types.
TypeOK == Login!TypeOK /\ Pin!TypeOK /\ Factor!TypeOK /\ Tokens!TypeOK

\* validateUser and verifyPaymentPin: the counters of failed log-ins and of wrong PINs
\* are exact while no requests overlap.
AttemptsAreExact == Login!CountIsExact /\ Pin!AttemptsAreExact

\* validateUser and verifyPaymentPin: a lock in force is lifted by a right password
\* alone, or by a new PIN alone.
LocksLast == Login!LockHolds /\ Pin!LockLasts

\* enable2FA: an enabled factor has a secret, one that its user confirmed.
FactorSecretWasConfirmed == Factor!SecretWasConfirmed

\* changePaymentPin and refreshToken: a request that was under way undoes nothing: only
\* the PIN that was entered is replaced, and a removed session does not come back.
NothingIsUndone == Pin!ChangeIsProven /\ Tokens!RemovedStaysRemoved

\* refreshToken: the client's last token is the one the session holds.
SessionTokenIsHeld == Tokens!AnsweredIsHeld

=============================================================================
