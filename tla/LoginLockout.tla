---------------------------- MODULE LoginLockout ----------------------------
(***************************************************************************)
(* validateUser: the counter of failed log-ins of one account and the time *)
(* until which it is locked.  A request reads the row, compares the        *)
(* password, and writes the row by id; requests may overlap.               *)
(***************************************************************************)
EXTENDS Integers

CONSTANTS
    Requests,
    MAX_LOGIN_ATTEMPTS,
    LOCKOUT_DURATION,
    MaxTime, MaxWrong       \* bounds: the clock, and wrong passwords

LockoutAssumption ==
    /\ MAX_LOGIN_ATTEMPTS \in Nat \ {0} /\ LOCKOUT_DURATION \in Nat \ {0}
    /\ MaxTime \in Nat /\ MaxWrong \in Nat

VARIABLES
    clock,
    loginAttempts, lockedUntil,    \* the row; 0 stands for null
    request,                       \* the count a request has read, or Idle
    failures,                      \* history: wrong passwords since the last right one
    wrong,                         \* history: wrong passwords
    raced                          \* history: did requests overlap since the last right one?

vars == <<clock, loginAttempts, lockedUntil, request, failures, wrong, raced>>

Idle == -1
Times == 0..(MaxTime + LOCKOUT_DURATION)

TypeOK ==
    /\ clock         \in 0..MaxTime
    /\ loginAttempts \in 0..MaxWrong
    /\ lockedUntil   \in Times
    /\ request       \in [Requests -> {Idle} \cup 0..MaxWrong]
    /\ failures      \in 0..MaxWrong
    /\ wrong         \in 0..MaxWrong
    /\ raced         \in BOOLEAN

Init ==
    /\ clock = 0
    /\ loginAttempts = 0
    /\ lockedUntil = 0
    /\ request = [r \in Requests |-> Idle]
    /\ failures = 0
    /\ wrong = 0
    /\ raced = FALSE

Locked == lockedUntil > clock
InFlight(r) == request[r] # Idle
Alone(r)    == \A q \in Requests \ {r} : ~InFlight(q)

Tick ==
    /\ clock < MaxTime
    /\ clock' = clock + 1
    /\ UNCHANGED <<loginAttempts, lockedUntil, request, failures, wrong, raced>>

\* The row is read; a locked account is refused and nothing changes.
Begin(r) ==
    /\ ~InFlight(r)
    /\ ~Locked
    /\ request' = [request EXCEPT ![r] = loginAttempts]
    /\ raced' = (raced \/ ~Alone(r))
    /\ UNCHANGED <<clock, loginAttempts, lockedUntil, failures, wrong>>

Ends(r) == InFlight(r) /\ request' = [request EXCEPT ![r] = Idle]

\* Mutant: the update of a failure always names the lock.
WrongUnlocking(r) ==
    /\ Ends(r)
    /\ wrong < MaxWrong
    /\ loginAttempts' = request[r] + 1
    /\ lockedUntil' = IF request[r] + 1 >= MAX_LOGIN_ATTEMPTS THEN clock + LOCKOUT_DURATION ELSE 0
    /\ failures' = failures + 1
    /\ wrong' = wrong + 1
    /\ UNCHANGED <<clock, raced>>

\* A wrong password: the count that was read, plus one, and perhaps the lock.
Wrong(r) ==
    /\ Ends(r)
    /\ wrong < MaxWrong
    /\ loginAttempts' = request[r] + 1
    /\ lockedUntil' = IF request[r] + 1 >= MAX_LOGIN_ATTEMPTS
                        THEN clock + LOCKOUT_DURATION ELSE lockedUntil
    /\ failures' = failures + 1
    /\ wrong' = wrong + 1
    /\ UNCHANGED <<clock, raced>>

\* A right password: both are reset.
Right(r) ==
    /\ Ends(r)
    /\ loginAttempts' = 0
    /\ lockedUntil' = 0
    /\ failures' = 0
    /\ raced' = ~Alone(r)
    /\ UNCHANGED <<clock, wrong>>

\* The update fails, or the server restarts.
Lost(r) ==
    /\ Ends(r)
    /\ UNCHANGED <<clock, loginAttempts, lockedUntil, failures, wrong, raced>>

Next ==
    \/ Tick
    \/ \E r \in Requests : Begin(r) \/ Wrong(r) \/ Right(r) \/ Lost(r)

Spec == Init /\ [][Next]_vars

(***************************************************************************)
(* Properties.                                                             *)
(***************************************************************************)

\* While log-ins do not overlap, and again after a right password that found itself
\* alone, the attempts are the wrong passwords since the last right one and enough
\* of them lock.  However they overlap, counts may be lost but are not made up: an
\* account is locked only after that many wrong passwords.
CountIsExact ==
    /\ ~raced => /\ loginAttempts = failures
                 /\ failures >= MAX_LOGIN_ATTEMPTS => lockedUntil > 0
    /\ loginAttempts <= wrong
    /\ lockedUntil > 0 => wrong >= MAX_LOGIN_ATTEMPTS

\* A lock in force is lifted by a right password alone: a wrong one that began
\* before the lock may put the count back, never the lock.
LockHolds ==
    [][Locked /\ lockedUntil' < lockedUntil => loginAttempts' = 0]_vars

=============================================================================
