----------------------------- MODULE AccessProofs -----------------------------
(***************************************************************************)
(* Theorems about the four guards of an account, for any requests, PINs,   *)
(* sessions, limits and bounds.  Each guard has an inductive invariant of  *)
(* its own; the specification of all four implements each of them.         *)
(***************************************************************************)
EXTENDS MCAccess, TLAPS

(***************************************************************************)
(* LoginLockout.                                                           *)
(***************************************************************************)

\* What a request has read is no more than what has been counted, and a lock does
\* not reach further than one set now.
LoginCounts ==
    /\ \A r \in Requests : Login!InFlight(r) => logins[r] <= loginWrong
    /\ loginFailures <= loginWrong
    /\ loginLockedUntil <= loginClock + LOCKOUT_DURATION

\* Without overlap one request is under way at most, and it has read the present count.
LoginAlone ==
    ~loginRaced =>
      /\ \A q, r \in Requests : Login!InFlight(q) /\ Login!InFlight(r) => q = r
      /\ \A r \in Requests : Login!InFlight(r) => logins[r] = loginAttempts

LoginInv == Login!TypeOK /\ LoginCounts /\ LoginAlone /\ Login!CountIsExact

LEMMA LoginIdle == Login!Idle \notin Nat
BY DEF Login!Idle

LEMMA LoginInit == Login!Init => LoginInv
<1> SUFFICES ASSUME Login!Init PROVE LoginInv
  OBVIOUS
<1> USE LoginBounds, LoginIdle DEF Login!LockoutAssumption, Login!Init
<1>1. logins \in [Requests -> {Login!Idle} \cup 0..MaxWrong]
  OBVIOUS
<1>2. /\ loginClock \in 0..MaxTime /\ loginAttempts \in 0..MaxWrong /\ loginLockedUntil \in Login!Times
      /\ loginFailures \in 0..MaxWrong /\ loginWrong \in 0..MaxWrong
  BY DEF Login!Times
<1>3. loginRaced \in BOOLEAN
  OBVIOUS
<1>4. LoginCounts /\ LoginAlone /\ Login!CountIsExact
  BY DEF LoginCounts, LoginAlone, Login!InFlight, Login!CountIsExact
<1>. QED  BY <1>1, <1>2, <1>3, <1>4 DEF LoginInv, Login!TypeOK

LEMMA LoginStep == LoginInv /\ [Login!Next]_loginVars => LoginInv'
<1> SUFFICES ASSUME LoginInv, [Login!Next]_loginVars PROVE LoginInv'
  OBVIOUS
<1> USE LoginBounds, LoginIdle
    DEF Login!LockoutAssumption, LoginInv, Login!TypeOK, Login!Times, Login!InFlight,
        LoginCounts, LoginAlone, Login!CountIsExact
<1>1. CASE Login!Tick
  BY <1>1, SMT DEF Login!Tick
<1>2. ASSUME NEW r \in Requests, Login!Begin(r) PROVE LoginInv'
  <2>1. Login!TypeOK'
    BY <1>2, SMT DEF Login!Begin, Login!Alone
  <2>2. LoginCounts' /\ Login!CountIsExact'
    BY <1>2, SMT DEF Login!Begin, Login!Alone
  <2>3. LoginAlone'
    <3> SUFFICES ASSUME ~loginRaced' PROVE LoginAlone'
      OBVIOUS
    <3>1. \A q \in Requests \ {r} : logins[q] = Login!Idle
      BY <1>2 DEF Login!Begin, Login!Alone
    <3>2. /\ logins'[r] = loginAttempts /\ loginAttempts' = loginAttempts
          /\ \A q \in Requests \ {r} : logins'[q] = logins[q]
      BY <1>2 DEF Login!Begin
    <3>. QED  BY <3>1, <3>2
  <2>. QED  BY <2>1, <2>2, <2>3
<1>3. ASSUME NEW r \in Requests, Login!Wrong(r) PROVE LoginInv'
  BY <1>3, SMT DEF Login!Wrong, Login!Ends
<1>4. ASSUME NEW r \in Requests, Login!Right(r) PROVE LoginInv'
  BY <1>4, SMT DEF Login!Right, Login!Ends, Login!Alone
<1>5. ASSUME NEW r \in Requests, Login!Lost(r) PROVE LoginInv'
  BY <1>5, SMT DEF Login!Lost, Login!Ends
<1>6. CASE UNCHANGED loginVars
  BY <1>6, SMT DEF loginVars
<1>. QED  BY <1>1, <1>2, <1>3, <1>4, <1>5, <1>6 DEF Login!Next

LEMMA LoginLockStep ==
  LoginInv /\ [Login!Next]_loginVars =>
    (Login!Locked /\ loginLockedUntil' < loginLockedUntil => loginAttempts' = 0)
<1> SUFFICES ASSUME LoginInv, [Login!Next]_loginVars,
                    Login!Locked, loginLockedUntil' < loginLockedUntil
             PROVE  loginAttempts' = 0
  OBVIOUS
<1> USE LoginBounds
    DEF Login!LockoutAssumption, LoginInv, Login!TypeOK, Login!Times, LoginCounts, Login!Locked
<1>1. CASE Login!Tick \/ UNCHANGED loginVars
  BY <1>1 DEF Login!Tick, loginVars
<1>2. ASSUME NEW r \in Requests, Login!Begin(r) \/ Login!Lost(r) PROVE loginAttempts' = 0
  BY <1>2 DEF Login!Begin, Login!Lost
<1>3. ASSUME NEW r \in Requests, Login!Wrong(r) \/ Login!Right(r) PROVE loginAttempts' = 0
  BY <1>3 DEF Login!Wrong, Login!Right
<1>. QED  BY <1>1, <1>2, <1>3 DEF Login!Next

(***************************************************************************)
(* PaymentPin.                                                             *)
(***************************************************************************)

\* What is under way for a request.
Fails(r)   == entries[r].pc = "fail"
Passes(r)  == entries[r].pc = "pass"
Changes(r) == entries[r].pc = "change"

\* Without overlap one request is under way at most; a wrong entry has read the present
\* attempts, a right one the PIN in force, and a change knows it was entered.
PinAlone ==
    ~pinRaced =>
      /\ \A q, r \in Requests : entries[q] # Pin!Idle /\ entries[r] # Pin!Idle => q = r
      /\ \A r \in Requests :
           /\ Fails(r) => entries[r].seen = attempts
           /\ Passes(r) => entries[r].old = pin
           /\ Changes(r) => proven = pin
           /\ entries[r] # Pin!Idle => ~Pin!Locked

PinInv ==
    /\ Pin!TypeOK
    /\ failures <= wrong
    /\ PinAlone
    /\ Pin!AttemptsAreExact

LEMMA PinWrites ==
  ASSUME NEW e \in Pin!Writes
  PROVE  /\ e = Pin!Idle <=> e.pc = "idle"
         /\ e.pc \in {"idle", "fail", "pass", "change"}
         /\ e.pc = "fail" => e.seen \in 0..(MaxAttempts - 1)
         /\ e.pc = "pass" => e.old \in Pins /\ e.new \in Pins \cup {Pin!NoPin}
         /\ e.pc = "change" => e.old \in Pins /\ e.new \in Pins
BY DEF Pin!Writes, Pin!Idle

LEMMA PinMade ==
  /\ Pin!Idle \in Pin!Writes
  /\ \A n \in 0..(MaxAttempts - 1) : [pc |-> "fail", seen |-> n] \in Pin!Writes
  /\ \A p \in Pins, n \in Pins \cup {Pin!NoPin} : [pc |-> "pass", old |-> p, new |-> n] \in Pin!Writes
  /\ \A p, n \in Pins : [pc |-> "change", old |-> p, new |-> n] \in Pin!Writes
BY DEF Pin!Writes

LEMMA PinInit == Pin!Init => PinInv
<1> SUFFICES ASSUME Pin!Init PROVE PinInv
  OBVIOUS
<1> USE PinBounds DEF Pin!PinAssumption, Pin!Init
<1>1. Pin!TypeOK
  <2>1. entries \in [Requests -> Pin!Writes]
    BY PinMade
  <2>2. pinRaced \in BOOLEAN /\ pin \in Pins \cup {Pin!NoPin} /\ proven \in Pins \cup {Pin!NoPin}
    OBVIOUS
  <2>3. /\ pinClock \in 0..MaxTime /\ attempts \in 0..(MaxAttempts - 1) /\ failures \in 0..MaxWrong
        /\ lockedUntil \in 0..(MaxTime + LockTime) /\ wrong \in 0..MaxWrong
    OBVIOUS
  <2>. QED  BY <2>1, <2>2, <2>3 DEF Pin!TypeOK
<1>2. PinAlone
  BY DEF PinAlone, Fails, Passes, Changes, Pin!Idle
<1>. QED  BY <1>1, <1>2 DEF PinInv, Pin!AttemptsAreExact

LEMMA PinStep == PinInv /\ [Pin!Next]_pinVars => PinInv'
<1> SUFFICES ASSUME PinInv, [Pin!Next]_pinVars PROVE PinInv'
  OBVIOUS
<1> USE PinBounds DEF Pin!PinAssumption
<1>t. Pin!TypeOK /\ failures <= wrong
  BY DEF PinInv
<1>1. CASE Pin!Tick
  <2>1. Pin!TypeOK'
    BY <1>1, <1>t DEF Pin!Tick, Pin!TypeOK, Pin!row
  <2>2. PinAlone' /\ (failures <= wrong)' /\ Pin!AttemptsAreExact'
    BY <1>1, <1>t DEF Pin!Tick, Pin!row, PinInv, PinAlone, Pin!AttemptsAreExact,
       Fails, Passes, Changes, Pin!Locked, Pin!TypeOK
  <2>. QED  BY <2>1, <2>2 DEF PinInv
<1>2. ASSUME NEW r \in Requests, NEW p \in Pins, Pin!Set(r, p) PROVE PinInv'
  <2>1. Pin!TypeOK'
    BY <1>2, <1>t DEF Pin!Set, Pin!TypeOK
  <2>2. (failures <= wrong)' /\ Pin!AttemptsAreExact'
    BY <1>2, <1>t DEF Pin!Set, Pin!TypeOK, Pin!AttemptsAreExact
  <2>3. PinAlone'
    <3> SUFFICES ASSUME ~pinRaced' PROVE PinAlone'
      BY DEF PinAlone
    <3>1. \A q \in Requests : entries'[q] = Pin!Idle
      BY <1>2 DEF Pin!Set, Pin!Alone
    <3>. QED  BY <3>1 DEF PinAlone, Fails, Passes, Changes, Pin!Idle
  <2>. QED  BY <2>1, <2>2, <2>3 DEF PinInv
<1>3. ASSUME NEW r \in Requests, NEW entry \in Pins, NEW new \in Pins \cup {Pin!NoPin},
             Pin!Enter(r, entry, new)
      PROVE  PinInv'
  <2>1. PICK e \in Pin!Writes :
           /\ entries' = [entries EXCEPT ![r] = e]
           /\ e.pc \in {"pass", "fail"}
           /\ e.pc = "pass" => e.old = pin
           /\ e.pc = "fail" => e.seen = attempts
    BY <1>3, <1>t, PinMade DEF Pin!Enter, Pin!TypeOK
  <2>2. UNCHANGED <<pinClock, pin, attempts, lockedUntil, failures, proven, wrong>>
        /\ ~Pin!Locked /\ pinRaced' = (pinRaced \/ ~Pin!Alone(r))
    BY <1>3 DEF Pin!Enter, Pin!row, Pin!Begins
  <2>3. Pin!TypeOK'
    BY <1>t, <2>1, <2>2 DEF Pin!TypeOK
  <2>4. (failures <= wrong)' /\ Pin!AttemptsAreExact'
    BY <2>2 DEF PinInv, Pin!AttemptsAreExact
  <2>5. PinAlone'
    <3> SUFFICES ASSUME ~pinRaced' PROVE PinAlone'
      BY DEF PinAlone
    <3>1. \A q \in Requests \ {r} : entries'[q] = Pin!Idle
      BY <1>t, <2>1, <2>2 DEF Pin!Alone, Pin!TypeOK
    <3>2. entries'[r] = e /\ ~Pin!Locked'
      BY <1>t, <2>1, <2>2 DEF Pin!TypeOK, Pin!Locked
    <3>. QED  BY <2>1, <2>2, <3>1, <3>2 DEF PinAlone, Fails, Passes, Changes, Pin!Idle
  <2>. QED  BY <2>3, <2>4, <2>5 DEF PinInv
<1>4. ASSUME NEW r \in Requests, Pin!Fail(r) PROVE PinInv'
  <2>e. entries[r] \in Pin!Writes /\ entries[r].pc = "fail" /\ entries[r].seen \in 0..(MaxAttempts - 1)
    BY <1>4, <1>t, PinWrites DEF Pin!Fail, Pin!TypeOK
  <2>1. Pin!TypeOK' /\ (failures <= wrong)'
    BY <1>4, <1>t, <2>e, PinMade DEF Pin!Fail, Pin!TypeOK
  <2>2. Pin!AttemptsAreExact'
    BY <1>4, <1>t, <2>e DEF Pin!Fail, Pin!TypeOK, PinInv, PinAlone, Fails, Pin!AttemptsAreExact
  <2>3. PinAlone'
    BY <1>4, <1>t, <2>e DEF Pin!Fail, Pin!TypeOK, PinInv, PinAlone, Fails, Passes, Changes, Pin!Idle
  <2>. QED  BY <2>1, <2>2, <2>3 DEF PinInv
<1>5. ASSUME NEW r \in Requests, Pin!Pass(r) PROVE PinInv'
  <2>e. /\ entries[r] \in Pin!Writes /\ entries[r].pc = "pass"
        /\ entries[r].old \in Pins /\ entries[r].new \in Pins \cup {Pin!NoPin}
    BY <1>5, <1>t, PinWrites DEF Pin!Pass, Pin!TypeOK
  <2>1. PICK e \in Pin!Writes :
           entries' = [entries EXCEPT ![r] = e] /\ e.pc \in {"idle", "change"}
    BY <1>5, <1>t, <2>e, PinMade DEF Pin!Pass, Pin!TypeOK, Pin!Idle
  <2>2. /\ pinRaced' = (~Pin!Alone(r) \/ pin # entries[r].old)
        /\ proven' = entries[r].old /\ attempts' = 0 /\ failures' = 0 /\ lockedUntil' = 0
        /\ UNCHANGED <<pinClock, pin, wrong>>
    BY <1>5 DEF Pin!Pass
  <2>3. Pin!TypeOK' /\ (failures <= wrong)'
    BY <1>t, <2>e, <2>1, <2>2 DEF Pin!TypeOK
  <2>4. Pin!AttemptsAreExact'
    BY <2>2 DEF Pin!AttemptsAreExact
  <2>5. PinAlone'
    <3> SUFFICES ASSUME ~pinRaced' PROVE PinAlone'
      BY DEF PinAlone
    <3>1. \A q \in Requests \ {r} : entries'[q] = Pin!Idle
      BY <1>t, <2>1, <2>2 DEF Pin!Alone, Pin!TypeOK
    <3>2. proven' = pin'
      BY <2>2
    <3>3. entries'[r] = e
      BY <1>t, <2>1 DEF Pin!TypeOK
    <3>4. ~Pin!Locked'
      BY <1>t, <2>2 DEF Pin!TypeOK, Pin!Locked
    <3>. QED  BY <2>1, <3>1, <3>2, <3>3, <3>4 DEF PinAlone, Fails, Passes, Changes, Pin!Idle
  <2>. QED  BY <2>3, <2>4, <2>5 DEF PinInv
<1>6. ASSUME NEW r \in Requests, Pin!Change(r) PROVE PinInv'
  <2>e. entries[r] \in Pin!Writes /\ entries[r].pc = "change" /\ entries[r].new \in Pins
    BY <1>6, <1>t, PinWrites DEF Pin!Change, Pin!TypeOK
  <2>1. Pin!TypeOK' /\ (failures <= wrong)'
    BY <1>6, <1>t, <2>e, PinMade DEF Pin!Change, Pin!TypeOK
  <2>2. Pin!AttemptsAreExact'
    BY <1>6 DEF Pin!Change, PinInv, Pin!AttemptsAreExact
  <2>3. PinAlone'
    BY <1>6, <1>t, <2>e DEF Pin!Change, Pin!TypeOK, PinInv, PinAlone, Fails, Passes, Changes, Pin!Idle
  <2>. QED  BY <2>1, <2>2, <2>3 DEF PinInv
<1>7. ASSUME NEW r \in Requests, Pin!Lost(r) PROVE PinInv'
  <2>1. Pin!TypeOK' /\ (failures <= wrong)'
    BY <1>7, <1>t, PinMade DEF Pin!Lost, Pin!TypeOK, Pin!row
  <2>2. Pin!AttemptsAreExact'
    BY <1>7 DEF Pin!Lost, Pin!row, PinInv, Pin!AttemptsAreExact
  <2>3. PinAlone'
    BY <1>7, <1>t DEF Pin!Lost, Pin!row, Pin!TypeOK, PinInv, PinAlone, Fails, Passes, Changes,
       Pin!Idle, Pin!Locked
  <2>. QED  BY <2>1, <2>2, <2>3 DEF PinInv
<1>8. CASE UNCHANGED pinVars
  <2>1. Pin!TypeOK' /\ (failures <= wrong)'
    BY <1>8, <1>t DEF pinVars, Pin!TypeOK
  <2>2. Pin!AttemptsAreExact' /\ PinAlone'
    BY <1>8 DEF pinVars, PinInv, Pin!AttemptsAreExact, PinAlone, Fails, Passes, Changes, Pin!Locked
  <2>. QED  BY <2>1, <2>2 DEF PinInv
<1>. QED  BY <1>1, <1>2, <1>3, <1>4, <1>5, <1>6, <1>7, <1>8 DEF Pin!Next

LEMMA PinLockStep ==
  PinInv /\ [Pin!Next]_pinVars =>
    (~pinRaced /\ ~pinRaced' /\ Pin!Locked /\ lockedUntil' < lockedUntil
       => proven' = pin' /\ attempts' = 0)
<1> SUFFICES ASSUME PinInv, [Pin!Next]_pinVars,
                    ~pinRaced, ~pinRaced', Pin!Locked, lockedUntil' < lockedUntil
             PROVE  proven' = pin' /\ attempts' = 0
  OBVIOUS
<1> USE PinBounds DEF Pin!PinAssumption, PinInv, Pin!TypeOK
<1>1. CASE Pin!Tick \/ UNCHANGED pinVars
  BY <1>1 DEF Pin!Tick, Pin!row, pinVars
<1>2. ASSUME NEW r \in Requests, NEW p \in Pins, Pin!Set(r, p) PROVE proven' = pin' /\ attempts' = 0
  BY <1>2 DEF Pin!Set
<1>3. ASSUME NEW r \in Requests, NEW e \in Pins, NEW n \in Pins \cup {Pin!NoPin}, Pin!Enter(r, e, n)
      PROVE  FALSE
  BY <1>3 DEF Pin!Enter, Pin!row
<1>4. ASSUME NEW r \in Requests, Pin!Fail(r) \/ Pin!Pass(r) PROVE FALSE
  <2>1. entries[r] # Pin!Idle
    BY <1>4, PinWrites DEF Pin!Fail, Pin!Pass
  <2>. QED  BY <2>1 DEF PinAlone
<1>5. ASSUME NEW r \in Requests, Pin!Change(r) \/ Pin!Lost(r) PROVE FALSE
  BY <1>5 DEF Pin!Change, Pin!Lost, Pin!row
<1>. QED  BY <1>1, <1>2, <1>3, <1>4, <1>5 DEF Pin!Next

LEMMA PinChangeStep ==
  PinInv /\ [Pin!Next]_pinVars =>
    (~pinRaced /\ ~pinRaced' /\ pin' # pin
       => pin = proven \/ (pin' = proven' /\ attempts' = 0))
<1> SUFFICES ASSUME PinInv, [Pin!Next]_pinVars, ~pinRaced, ~pinRaced', pin' # pin
             PROVE  pin = proven \/ (pin' = proven' /\ attempts' = 0)
  OBVIOUS
<1>1. CASE Pin!Tick \/ UNCHANGED pinVars
  BY <1>1 DEF Pin!Tick, Pin!row, pinVars
<1>2. ASSUME NEW r \in Requests, NEW p \in Pins, Pin!Set(r, p) PROVE pin' = proven' /\ attempts' = 0
  BY <1>2 DEF Pin!Set
<1>3. ASSUME NEW r \in Requests, NEW e \in Pins, NEW n \in Pins \cup {Pin!NoPin}, Pin!Enter(r, e, n)
      PROVE  FALSE
  BY <1>3 DEF Pin!Enter, Pin!row
<1>4. ASSUME NEW r \in Requests, Pin!Fail(r) \/ Pin!Pass(r) \/ Pin!Lost(r) PROVE FALSE
  BY <1>4 DEF Pin!Fail, Pin!Pass, Pin!Lost, Pin!row
<1>5. ASSUME NEW r \in Requests, Pin!Change(r) PROVE pin = proven
  BY <1>5 DEF Pin!Change, PinInv, PinAlone, Changes
<1>. QED  BY <1>1, <1>2, <1>3, <1>4, <1>5 DEF Pin!Next

(***************************************************************************)
(* TwoFactor.                                                              *)
(***************************************************************************)

\* What is stored, or about to be, was generated.
SecretsAreGenerated ==
    /\ secret \in 0..generated
    /\ \A r \in Requests : confirmations[r].pc = "store" => confirmations[r].secret \in 1..generated

\* Without overlap one request is under way at most; one that will enable the factor
\* has confirmed its secret, and one that will store a secret for an enabled factor is
\* known to renew it.
FactorAlone ==
    ~factorRaced =>
      /\ \A q, r \in Requests :
           confirmations[q].pc # "idle" /\ confirmations[r].pc # "idle" => q = r
      /\ \A r \in Requests :
           /\ confirmations[r].pc = "enable" => secret # 0 /\ secret \in confirmed
           /\ confirmations[r].pc = "store" /\ enabled => renewed

FactorInv == Factor!TypeOK /\ SecretsAreGenerated /\ FactorAlone /\ Factor!SecretWasConfirmed

LEMMA FactorInit == Factor!Init => FactorInv
<1> SUFFICES ASSUME Factor!Init PROVE FactorInv
  OBVIOUS
<1> USE DEF Factor!Init
<1>1. /\ \A r \in Requests : confirmations[r].pc = "idle"
      /\ confirmations \in [Requests -> [pc : {"idle", "store", "enable", "disable"},
                                        secret : Factor!Secrets \cup {0}]]
  BY DEF Factor!Idle
<1>2. enabled \in BOOLEAN /\ factorRaced \in BOOLEAN /\ renewed \in BOOLEAN
  OBVIOUS
<1>3. Factor!TypeOK
  BY <1>1, <1>2 DEF Factor!TypeOK
<1>4. SecretsAreGenerated /\ FactorAlone /\ Factor!SecretWasConfirmed
  BY <1>1 DEF SecretsAreGenerated, FactorAlone, Factor!SecretWasConfirmed
<1>. QED  BY <1>3, <1>4 DEF FactorInv

\* A request starts: it finds itself alone, or requests overlap.
LEMMA FactorBegins ==
  ASSUME FactorInv, NEW r \in Requests, NEW e \in [pc : {"store", "enable", "disable"}, secret : Nat],
         Factor!Begins(r), confirmations' = [confirmations EXCEPT ![r] = e],
         UNCHANGED <<secret, enabled>>,
         confirmed \subseteq confirmed', renewed => renewed',
         e.pc = "enable" => secret # 0 /\ secret \in confirmed',
         e.pc = "store" /\ enabled => renewed'
  PROVE  FactorAlone' /\ Factor!SecretWasConfirmed'
<1> USE DEF FactorInv
<1>1. ~factorRaced' => ~factorRaced /\ \A q \in Requests \ {r} : confirmations[q].pc = "idle"
  BY DEF Factor!Begins, Factor!Alone
<1>2. confirmations'[r] = e /\ \A q \in Requests \ {r} : confirmations'[q] = confirmations[q]
  BY DEF Factor!TypeOK
<1>3. FactorAlone'
  BY <1>1, <1>2 DEF FactorAlone
<1>4. Factor!SecretWasConfirmed'
  BY <1>1 DEF Factor!SecretWasConfirmed
<1>. QED  BY <1>3, <1>4

\* A request ends: no other begins.
LEMMA FactorEnds ==
  ASSUME FactorInv, NEW r \in Requests, Factor!Goes(r, "idle", 0)
  PROVE  /\ confirmations' \in [Requests -> [pc : {"idle", "store", "enable", "disable"},
                                             secret : Factor!Secrets \cup {0}]]
         /\ confirmations'[r].pc = "idle"
         /\ \A q \in Requests \ {r} : confirmations'[q] = confirmations[q]
BY DEF FactorInv, Factor!TypeOK, Factor!Goes

LEMMA FactorStep == FactorInv /\ [Factor!Next]_factorVars => FactorInv'
<1> SUFFICES ASSUME FactorInv, [Factor!Next]_factorVars PROVE FactorInv'
  OBVIOUS
<1> USE FactorBounds DEF Factor!TwoFactorAssumption
<1>t. Factor!TypeOK /\ SecretsAreGenerated /\ FactorAlone /\ Factor!SecretWasConfirmed
  BY DEF FactorInv
<1>g. generated \in Nat /\ secret \in Nat
  BY <1>t DEF Factor!TypeOK, Factor!Secrets
<1>1. ASSUME NEW r \in Requests, Factor!Generate(r) PROVE FactorInv'
  <2>1. PICK e \in [pc : {"store"}, secret : 1..MaxSecrets] :
           e.secret = generated + 1 /\ confirmations' = [confirmations EXCEPT ![r] = e]
    <3>1. [pc |-> "store", secret |-> generated + 1] \in [pc : {"store"}, secret : 1..MaxSecrets]
      BY <1>1, <1>g DEF Factor!Generate
    <3>. QED  BY <1>1, <3>1 DEF Factor!Generate, Factor!Goes
  <2>e. e \in [pc : {"store", "enable", "disable"}, secret : Nat] /\ e.pc = "store"
    OBVIOUS
  <2>2. Factor!TypeOK'
    BY <1>1, <1>t, <1>g, <2>1 DEF Factor!Generate, Factor!TypeOK, Factor!Secrets, Factor!Begins
  <2>3. SecretsAreGenerated'
    BY <1>1, <1>t, <1>g, <2>1 DEF Factor!Generate, Factor!TypeOK, SecretsAreGenerated
  <2>4. FactorAlone' /\ Factor!SecretWasConfirmed'
    <3>1. renewed => renewed'
      BY <1>1 DEF Factor!Generate
    <3>2. enabled => renewed'
      BY <1>1 DEF Factor!Generate
    <3>3. Factor!Begins(r) /\ UNCHANGED <<secret, enabled, confirmed>>
      BY <1>1 DEF Factor!Generate
    <3>. QED  BY <2>1, <2>e, <3>1, <3>2, <3>3, FactorBegins
  <2>. QED  BY <2>2, <2>3, <2>4 DEF FactorInv
<1>2. ASSUME NEW r \in Requests, Factor!StoreSecret(r) PROVE FactorInv'
  <2>1. confirmations[r].secret \in 1..generated
    BY <1>2, <1>t DEF Factor!StoreSecret, SecretsAreGenerated
  <2>2. Factor!TypeOK'
    BY <1>2, <1>t, <2>1, FactorEnds DEF Factor!StoreSecret, Factor!TypeOK, Factor!Secrets
  <2>3. SecretsAreGenerated'
    BY <1>2, <1>t, <2>1, FactorEnds DEF Factor!StoreSecret, SecretsAreGenerated
  <2>4. FactorAlone' /\ Factor!SecretWasConfirmed'
    BY <1>2, <1>t, <2>1, FactorEnds DEF Factor!StoreSecret, FactorAlone, Factor!SecretWasConfirmed
  <2>. QED  BY <2>2, <2>3, <2>4 DEF FactorInv
<1>3. ASSUME NEW r \in Requests, NEW code \in Factor!Secrets, Factor!CheckCode(r, code) PROVE FactorInv'
  <2>1. PICK e \in [pc : {"enable"}, secret : 1..MaxSecrets] :
           confirmations' = [confirmations EXCEPT ![r] = e]
    BY <1>3 DEF Factor!CheckCode, Factor!Goes, Factor!Secrets
  <2>2. Factor!TypeOK'
    BY <1>3, <1>t, <2>1 DEF Factor!CheckCode, Factor!TypeOK, Factor!Secrets, Factor!Begins
  <2>3. SecretsAreGenerated'
    BY <1>3, <1>t, <2>1 DEF Factor!CheckCode, Factor!TypeOK, SecretsAreGenerated
  <2>4. FactorAlone' /\ Factor!SecretWasConfirmed'
    <3>1. e \in [pc : {"store", "enable", "disable"}, secret : Nat] /\ e.pc = "enable"
      OBVIOUS
    <3>2. /\ Factor!Begins(r) /\ UNCHANGED <<secret, enabled, renewed>>
          /\ confirmed \subseteq confirmed' /\ secret # 0 /\ secret \in confirmed'
      BY <1>3 DEF Factor!CheckCode
    <3>. QED  BY <2>1, <3>1, <3>2, FactorBegins
  <2>. QED  BY <2>2, <2>3, <2>4 DEF FactorInv
<1>4. ASSUME NEW r \in Requests, Factor!Enable(r) PROVE FactorInv'
  <2>1. Factor!TypeOK' /\ SecretsAreGenerated'
    BY <1>4, <1>t, FactorEnds DEF Factor!Enable, Factor!history, Factor!TypeOK, SecretsAreGenerated
  <2>2. FactorAlone' /\ Factor!SecretWasConfirmed'
    BY <1>4, <1>t, FactorEnds DEF Factor!Enable, Factor!history, FactorAlone, Factor!SecretWasConfirmed
  <2>. QED  BY <2>1, <2>2 DEF FactorInv
<1>5. ASSUME NEW r \in Requests, Factor!FindUser(r) PROVE FactorInv'
  <2>1. PICK e \in [pc : {"disable"}, secret : {0}] : confirmations' = [confirmations EXCEPT ![r] = e]
    BY <1>5 DEF Factor!FindUser, Factor!Goes
  <2>2. Factor!TypeOK'
    BY <1>5, <1>t, <2>1 DEF Factor!FindUser, Factor!TypeOK, Factor!Begins
  <2>3. SecretsAreGenerated'
    BY <1>5, <1>t, <2>1 DEF Factor!FindUser, Factor!TypeOK, SecretsAreGenerated
  <2>4. FactorAlone' /\ Factor!SecretWasConfirmed'
    <3>1. e \in [pc : {"store", "enable", "disable"}, secret : Nat] /\ e.pc = "disable"
      OBVIOUS
    <3>2. Factor!Begins(r) /\ UNCHANGED <<secret, enabled, confirmed, renewed>>
      BY <1>5 DEF Factor!FindUser
    <3>. QED  BY <2>1, <3>1, <3>2, FactorBegins
  <2>. QED  BY <2>2, <2>3, <2>4 DEF FactorInv
<1>6. ASSUME NEW r \in Requests, Factor!Disable(r) PROVE FactorInv'
  <2>0. factorRaced' \in BOOLEAN
    BY <1>6 DEF Factor!Disable
  <2>t. Factor!TypeOK'
    BY <1>6, <1>t, <2>0, FactorEnds DEF Factor!Disable, Factor!TypeOK
  <2>1. SecretsAreGenerated' /\ Factor!SecretWasConfirmed'
    BY <1>6, <1>t, <1>g, FactorEnds DEF Factor!Disable, SecretsAreGenerated, Factor!SecretWasConfirmed
  <2>2. ~factorRaced' => \A q \in Requests : confirmations'[q].pc = "idle"
    BY <1>6, FactorEnds DEF Factor!Disable, Factor!Alone
  <2>. QED  BY <2>t, <2>1, <2>2 DEF FactorInv, FactorAlone
<1>7. ASSUME NEW r \in Requests, Factor!Lost(r) PROVE FactorInv'
  <2>1. Factor!TypeOK' /\ SecretsAreGenerated' /\ Factor!SecretWasConfirmed'
    BY <1>7, <1>t, FactorEnds
       DEF Factor!Lost, Factor!history, Factor!TypeOK, SecretsAreGenerated, Factor!SecretWasConfirmed
  <2>2. FactorAlone'
    BY <1>7, <1>t, FactorEnds DEF Factor!Lost, Factor!history, FactorAlone
  <2>. QED  BY <2>1, <2>2 DEF FactorInv
<1>8. CASE UNCHANGED factorVars
  BY <1>8 DEF factorVars, FactorInv, Factor!TypeOK, SecretsAreGenerated, FactorAlone,
     Factor!SecretWasConfirmed
<1>. QED  BY <1>1, <1>2, <1>3, <1>4, <1>5, <1>6, <1>7, <1>8 DEF Factor!Next

(***************************************************************************)
(* AuthSessions.                                                           *)
(***************************************************************************)

TokensInv == Tokens!TypeOK /\ Tokens!AnsweredIsHeld

LEMMA TokensSteps ==
  /\ Tokens!Idle \in Tokens!Steps
  /\ \A t \in Tokens!Seconds : [pc |-> "create", token |-> t] \in Tokens!Steps
  /\ \A s \in Sessions : [pc |-> "sign", id |-> s, token |-> Tokens!NoToken] \in Tokens!Steps
  /\ \A s \in Sessions, t \in Tokens!Seconds :
       [pc |-> "update", id |-> s, token |-> t] \in Tokens!Steps
BY DEF Tokens!Steps

LEMMA TokensStepIs ==
  ASSUME NEW e \in Tokens!Steps
  PROVE  /\ e.pc \in {"create", "update"} => e.token \in Tokens!Seconds
         /\ e.pc \in {"sign", "update"} => e.id \in Sessions
BY DEF Tokens!Steps, Tokens!Idle

LEMMA TokensRows ==
  /\ Tokens!NoSession \in Tokens!Rows /\ Tokens!Gone \in Tokens!Rows
  /\ Tokens!NoSession.state = "none" /\ Tokens!NoSession.token = Tokens!NoToken
  /\ Tokens!Gone.state = "removed" /\ Tokens!Gone.token = Tokens!NoToken
  /\ \A t \in Tokens!Seconds, e \in 0..(MaxTime + Lifetime) :
       /\ Tokens!Row(t, e) \in Tokens!Rows
       /\ Tokens!Row(t, e).state = "row" /\ Tokens!Row(t, e).token = t /\ t # Tokens!NoToken
BY TokenBounds
   DEF Tokens!SessionAssumption, Tokens!Rows, Tokens!Row, Tokens!Gone, Tokens!NoSession,
       Tokens!NoToken, Tokens!Seconds

LEMMA TokensInit == Tokens!Init => TokensInv
<1> SUFFICES ASSUME Tokens!Init PROVE TokensInv
  OBVIOUS
<1>1. clock \in Tokens!Seconds /\ \A s \in Sessions : answered[s] = Tokens!NoToken
  BY TokenBounds DEF Tokens!SessionAssumption, Tokens!Init, Tokens!Seconds
<1>2. Tokens!TypeOK
  BY <1>1, TokensSteps, TokensRows DEF Tokens!Init, Tokens!TypeOK
<1>. QED  BY <1>2, TokensRows DEF Tokens!Init, TokensInv, Tokens!AnsweredIsHeld

\* A row is created or updated with the token a request has signed, and the client is
\* told of it or the answer is lost.
LEMMA TokensWritten ==
  ASSUME TokensInv, NEW s \in Sessions, NEW t \in Tokens!Seconds,
         session' = [session EXCEPT ![s] = Tokens!Row(t, clock + Lifetime)],
         \/ answered' = [answered EXCEPT ![s] = t] /\ UNCHANGED unheard
         \/ unheard' = unheard \cup {s} /\ UNCHANGED answered,
         refreshes' \in [Requests -> Tokens!Steps],
         UNCHANGED <<clock, shared>>
  PROVE  TokensInv'
<1> USE DEF TokensInv
<1>1. clock + Lifetime \in 0..(MaxTime + Lifetime)
  BY TokenBounds DEF Tokens!SessionAssumption, Tokens!TypeOK, Tokens!Seconds
<1>2. /\ session'[s].state = "row" /\ session'[s].token = t /\ t # Tokens!NoToken
      /\ session' \in [Sessions -> Tokens!Rows]
      /\ \A q \in Sessions \ {s} : session'[q] = session[q]
  BY <1>1, TokensRows DEF Tokens!TypeOK
<1>3. Tokens!TypeOK'
  BY <1>2 DEF Tokens!TypeOK
<1>4. Tokens!AnsweredIsHeld'
  BY <1>2 DEF Tokens!TypeOK, Tokens!AnsweredIsHeld
<1>. QED  BY <1>3, <1>4

LEMMA TokensRemoved ==
  ASSUME TokensInv, NEW s \in Sessions,
         session' = [session EXCEPT ![s] = Tokens!Gone],
         refreshes' \in [Requests -> Tokens!Steps], shared' \in {shared, shared \cup {s}},
         UNCHANGED <<clock, answered, unheard>>
  PROVE  TokensInv'
<1> USE DEF TokensInv
<1>1. /\ session'[s].state = "removed" /\ session'[s].token = Tokens!NoToken
      /\ session' \in [Sessions -> Tokens!Rows]
      /\ \A q \in Sessions \ {s} : session'[q] = session[q]
  BY TokensRows DEF Tokens!TypeOK
<1>2. Tokens!TypeOK'
  BY <1>1 DEF Tokens!TypeOK
<1>3. Tokens!AnsweredIsHeld'
  BY <1>1 DEF Tokens!TypeOK, Tokens!AnsweredIsHeld
<1>. QED  BY <1>2, <1>3

\* A step that changes no row.
LEMMA TokensKept ==
  ASSUME TokensInv, UNCHANGED <<session, answered, unheard>>, clock' \in Tokens!Seconds,
         refreshes' \in [Requests -> Tokens!Steps],
         shared \subseteq shared', shared' \subseteq Sessions
  PROVE  TokensInv'
BY DEF TokensInv, Tokens!TypeOK, Tokens!AnsweredIsHeld

LEMMA TokensStep == TokensInv /\ [Tokens!Next]_tokenVars => TokensInv'
<1> SUFFICES ASSUME TokensInv, [Tokens!Next]_tokenVars PROVE TokensInv'
  OBVIOUS
<1>t. /\ clock \in Tokens!Seconds /\ refreshes \in [Requests -> Tokens!Steps]
      /\ shared \subseteq Sessions
  BY DEF TokensInv, Tokens!TypeOK
<1>1. CASE Tokens!Tick
  <2>1. clock' \in Tokens!Seconds
    BY <1>1, <1>t, TokenBounds DEF Tokens!Tick, Tokens!Seconds, Tokens!SessionAssumption
  <2>. QED  BY <1>1, <1>t, <2>1, TokensKept DEF Tokens!Tick
<1>2. ASSUME NEW r \in Requests, Tokens!SignIn(r) \/ Tokens!SignNew(r) \/ Tokens!Refused(r)
      PROVE  TokensInv'
  <2>1. refreshes' \in [Requests -> Tokens!Steps]
    BY <1>2, <1>t, TokensSteps, TokensStepIs
       DEF Tokens!SignIn, Tokens!SignNew, Tokens!Refused, Tokens!Goes
  <2>. QED  BY <1>2, <1>t, <2>1, TokensKept DEF Tokens!SignIn, Tokens!SignNew, Tokens!Refused
<1>3. ASSUME NEW r \in Requests, NEW s \in Sessions, Tokens!CreateSession(r, s) PROVE TokensInv'
  <2>1. refreshes[r].token \in Tokens!Seconds /\ refreshes' \in [Requests -> Tokens!Steps]
    BY <1>3, <1>t, TokensSteps, TokensStepIs DEF Tokens!CreateSession, Tokens!Goes
  <2>. QED  BY <1>3, <2>1, TokensWritten DEF Tokens!CreateSession
<1>4. ASSUME NEW r \in Requests, Tokens!UpdateSession(r) PROVE TokensInv'
  <2>1. /\ refreshes[r].token \in Tokens!Seconds /\ refreshes[r].id \in Sessions
        /\ refreshes' \in [Requests -> Tokens!Steps]
    BY <1>4, <1>t, TokensSteps, TokensStepIs DEF Tokens!UpdateSession, Tokens!Goes
  <2>. QED  BY <1>4, <2>1, TokensWritten DEF Tokens!UpdateSession
<1>5. ASSUME NEW r \in Requests, NEW s \in Sessions, Tokens!FindSession(r, s) PROVE TokensInv'
  <2>1. shared' \in {shared, shared \cup {s}}
    BY <1>5 DEF Tokens!FindSession
  <2>2. CASE session[s].expiresAt < clock
    BY <1>5, <1>t, <2>1, <2>2, TokensRemoved DEF Tokens!FindSession
  <2>3. CASE ~(session[s].expiresAt < clock)
    <3>1. refreshes' \in [Requests -> Tokens!Steps]
      BY <1>5, <1>t, <2>3, TokensSteps DEF Tokens!FindSession, Tokens!Goes
    <3>. QED  BY <1>5, <1>t, <2>1, <2>3, <3>1, TokensKept DEF Tokens!FindSession
  <2>. QED  BY <2>2, <2>3
<1>6. ASSUME NEW s \in Sessions, Tokens!Remove(s) PROVE TokensInv'
  BY <1>6, <1>t, TokensRemoved DEF Tokens!Remove
<1>7. CASE UNCHANGED tokenVars
  BY <1>7, <1>t, TokensKept DEF tokenVars
<1>. QED  BY <1>1, <1>2, <1>3, <1>4, <1>5, <1>6, <1>7 DEF Tokens!Next

LEMMA TokensRemovedStep ==
  TokensInv /\ [Tokens!Next]_tokenVars =>
    \A s \in Sessions : session[s].state = "removed" => session'[s].state = "removed"
<1> SUFFICES ASSUME TokensInv, [Tokens!Next]_tokenVars,
                    NEW s \in Sessions, session[s].state = "removed"
             PROVE  session'[s].state = "removed"
  OBVIOUS
<1>t. session \in [Sessions -> Tokens!Rows]
  BY DEF TokensInv, Tokens!TypeOK
<1>1. CASE Tokens!Tick \/ UNCHANGED tokenVars
  BY <1>1 DEF Tokens!Tick, tokenVars
<1>2. ASSUME NEW r \in Requests, Tokens!SignIn(r) \/ Tokens!SignNew(r) \/ Tokens!Refused(r)
      PROVE  session'[s].state = "removed"
  BY <1>2 DEF Tokens!SignIn, Tokens!SignNew, Tokens!Refused
<1>3. ASSUME NEW r \in Requests, NEW q \in Sessions, Tokens!CreateSession(r, q)
      PROVE  session'[s].state = "removed"
  BY <1>3, <1>t, TokensRows DEF Tokens!CreateSession
<1>4. ASSUME NEW r \in Requests, Tokens!UpdateSession(r) PROVE session'[s].state = "removed"
  BY <1>4, <1>t DEF Tokens!UpdateSession
<1>5. ASSUME NEW r \in Requests, NEW q \in Sessions, Tokens!FindSession(r, q)
      PROVE  session'[s].state = "removed"
  BY <1>5, <1>t DEF Tokens!FindSession
<1>6. ASSUME NEW q \in Sessions, Tokens!Remove(q) PROVE session'[s].state = "removed"
  BY <1>6, <1>t DEF Tokens!Remove
<1>. QED  BY <1>1, <1>2, <1>3, <1>4, <1>5, <1>6 DEF Tokens!Next

(***************************************************************************)
(* The four of them.                                                       *)
(***************************************************************************)

\* MCAccess lets one guard work and leaves the others alone: each guard behaves as it
\* does by itself.
LEMMA OneGuardWorks ==
  [Next]_vars => /\ [Login!Next]_loginVars /\ [Pin!Next]_pinVars
                 /\ [Factor!Next]_factorVars /\ [Tokens!Next]_tokenVars
BY DEF Next, vars

GuardsInv == LoginInv /\ PinInv /\ FactorInv /\ TokensInv

LEMMA GuardsInvariant == Spec => []GuardsInv
<1>1. Init => GuardsInv
  BY LoginInit, PinInit, FactorInit, TokensInit DEF Init, GuardsInv
<1>2. GuardsInv /\ [Next]_vars => GuardsInv'
  BY OneGuardWorks, LoginStep, PinStep, FactorStep, TokensStep DEF GuardsInv
<1>. QED  BY <1>1, <1>2, PTL DEF Spec

\* The variables of the four guards keep their types.
THEOREM TypeCorrect == Spec => []TypeOK
<1>1. GuardsInv => TypeOK
  BY DEF GuardsInv, LoginInv, PinInv, FactorInv, TokensInv, TypeOK
<1>. QED  BY GuardsInvariant, <1>1, PTL

\* validateUser and verifyPaymentPin: without overlap no failed log-in and no wrong PIN
\* goes uncounted, and none is counted twice.
THEOREM CountersAreExact == Spec => []AttemptsAreExact
<1>1. GuardsInv => AttemptsAreExact
  BY DEF GuardsInv, LoginInv, PinInv, AttemptsAreExact
<1>. QED  BY GuardsInvariant, <1>1, PTL

\* enable2FA, disable2FA, generate2FASecret: an enabled factor has a secret, one that its
\* user confirmed.
THEOREM EnabledFactorHasSecret == Spec => []FactorSecretWasConfirmed
<1>1. GuardsInv => FactorSecretWasConfirmed
  BY DEF GuardsInv, FactorInv, FactorSecretWasConfirmed
<1>. QED  BY GuardsInvariant, <1>1, PTL

\* refreshToken: the client holds the token that its session's row holds.
THEOREM ClientHoldsToken == Spec => []SessionTokenIsHeld
<1>1. GuardsInv => SessionTokenIsHeld
  BY DEF GuardsInv, TokensInv, SessionTokenIsHeld
<1>. QED  BY GuardsInvariant, <1>1, PTL

\* validateUser and verifyPaymentPin: a lock is lifted early by a right password or a new
\* PIN alone.
THEOREM LocksAreKept == Spec => LocksLast
<1>1. GuardsInv /\ [Next]_vars =>
        [Login!Locked /\ loginLockedUntil' < loginLockedUntil => loginAttempts' = 0]_(Login!vars)
  BY OneGuardWorks, LoginLockStep DEF GuardsInv
<1>2. GuardsInv /\ [Next]_vars =>
        [~pinRaced /\ ~pinRaced' /\ Pin!Locked /\ lockedUntil' < lockedUntil
           => proven' = pin' /\ attempts' = 0]_(Pin!vars)
  BY OneGuardWorks, PinLockStep DEF GuardsInv
<1>. QED  BY GuardsInvariant, <1>1, <1>2, PTL DEF Spec, LocksLast, Login!LockHolds, Pin!LockLasts

\* changePaymentPin and refreshToken: without overlap only the PIN that was entered is
\* replaced, and no refresh brings a removed session back.
THEOREM RequestsUndoNothing == Spec => NothingIsUndone
<1>1. GuardsInv /\ [Next]_vars =>
        [~pinRaced /\ ~pinRaced' /\ pin' # pin
           => pin = proven \/ (pin' = proven' /\ attempts' = 0)]_(Pin!vars)
  BY OneGuardWorks, PinChangeStep DEF GuardsInv
<1>2. GuardsInv /\ [Next]_vars =>
        [\A s \in Sessions : session[s].state = "removed" => session'[s].state = "removed"]_(Tokens!vars)
  BY OneGuardWorks, TokensRemovedStep DEF GuardsInv
<1>. QED  BY GuardsInvariant, <1>1, <1>2, PTL
          DEF Spec, NothingIsUndone, Pin!ChangeIsProven, Tokens!RemovedStaysRemoved

=============================================================================
