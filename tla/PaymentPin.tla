----------------------------- MODULE PaymentPin -----------------------------
(***************************************************************************)
(* The payment PIN of one user: setPaymentPin, verifyPaymentPin and        *)
(* changePaymentPin.  A verification reads the row, and writes it by id    *)
(* when the row has come; a change is a verification and then a write of   *)
(* the new PIN.  Requests may overlap.                                     *)
(***************************************************************************)
EXTENDS Integers

CONSTANTS
    Pins,
    Requests,
    MaxAttempts,      \* wrong entries that lock: 5
    LockTime,         \* how long: 15 minutes
    MaxTime, MaxWrong \* bounds: the clock, and wrong entries

NoPin == "none"

PinAssumption ==
    /\ NoPin \notin Pins
    /\ MaxAttempts \in Nat \ {0} /\ LockTime \in Nat \ {0}
    /\ MaxTime \in Nat /\ MaxWrong \in Nat

VARIABLES
    clock,
    pin, attempts, lockedUntil,    \* the row; 0 stands for null
    request,      \* what a request is about to write, or Idle
    failures,     \* history: wrong entries since the last reset
    proven,       \* history: the PIN that the last reset or right entry was about
    wrong,        \* history: wrong entries
    raced         \* history: did requests overlap since the last reset?

vars == <<clock, pin, attempts, lockedUntil, request, failures, proven, wrong, raced>>
row  == <<pin, attempts, lockedUntil>>

Idle   == [pc |-> "idle"]
Writes == {Idle} \cup [pc : {"fail"}, seen : 0..(MaxAttempts - 1)]
                 \cup [pc : {"pass"}, old : Pins, new : Pins \cup {NoPin}]
                 \cup [pc : {"change"}, old : Pins, new : Pins]

TypeOK ==
    /\ clock       \in 0..MaxTime
    /\ pin         \in Pins \cup {NoPin}
    /\ attempts    \in 0..(MaxAttempts - 1)
    /\ lockedUntil \in 0..(MaxTime + LockTime)
    /\ request     \in [Requests -> Writes]
    /\ failures    \in 0..MaxWrong
    /\ proven      \in Pins \cup {NoPin}
    /\ wrong       \in 0..MaxWrong
    /\ raced       \in BOOLEAN

Init ==
    /\ clock = 0
    /\ pin = NoPin /\ attempts = 0 /\ lockedUntil = 0
    /\ request = [r \in Requests |-> Idle]
    /\ failures = 0 /\ proven = NoPin /\ wrong = 0
    /\ raced = FALSE

Locked == lockedUntil > clock
Alone(r) == \A q \in Requests \ {r} : request[q] = Idle
Begins(r) == request[r] = Idle /\ raced' = (raced \/ ~Alone(r))

Tick ==
    /\ clock < MaxTime
    /\ clock' = clock + 1
    /\ UNCHANGED <<row, request, failures, proven, wrong, raced>>

\* setPaymentPin: one update that resets everything.
Set(r, p) ==
    /\ request[r] = Idle
    /\ pin' = p
    /\ attempts' = 0
    /\ lockedUntil' = 0
    /\ raced' = ~Alone(r)
    /\ failures' = 0
    /\ proven' = p
    /\ UNCHANGED <<clock, request, wrong>>

\* verifyPaymentPin reads the row: a locked or missing PIN ends it, otherwise the
\* entry is compared.  Alone (new = NoPin), or for changePaymentPin.
Enter(r, entry, new) ==
    /\ Begins(r)
    /\ ~Locked
    /\ pin # NoPin
    /\ request' = [request EXCEPT ![r] =
                     IF entry = pin THEN [pc |-> "pass", old |-> entry, new |-> new]
                                    ELSE [pc |-> "fail", seen |-> attempts]]
    /\ UNCHANGED <<clock, row, failures, proven, wrong>>

\* Mutant: the attempts are kept when the lock is set.
FailKeeping(r) ==
    /\ request[r].pc = "fail"
    /\ wrong < MaxWrong
    /\ attempts' = request[r].seen + 1
    /\ lockedUntil' = IF request[r].seen + 1 >= MaxAttempts THEN clock + LockTime ELSE 0
    /\ failures' = IF request[r].seen + 1 >= MaxAttempts THEN 0 ELSE failures + 1
    /\ wrong' = wrong + 1
    /\ request' = [request EXCEPT ![r] = Idle]
    /\ UNCHANGED <<clock, pin, proven, raced>>

\* A wrong entry: the attempts that were read, plus one, or the lock and none.
Fail(r) ==
    /\ request[r].pc = "fail"
    /\ wrong < MaxWrong
    /\ LET lock == request[r].seen + 1 >= MaxAttempts IN
         /\ attempts' = IF lock THEN 0 ELSE request[r].seen + 1
         /\ lockedUntil' = IF lock THEN clock + LockTime ELSE 0
         /\ failures' = IF lock THEN 0 ELSE failures + 1
    /\ wrong' = wrong + 1
    /\ request' = [request EXCEPT ![r] = Idle]
    /\ UNCHANGED <<clock, pin, proven, raced>>

\* Mutant: a right entry only lifts the lock.
PassForgetful(r) ==
    /\ request[r].pc = "pass"
    /\ lockedUntil' = 0
    /\ failures' = 0
    /\ proven' = request[r].old
    /\ request' = [request EXCEPT ![r] =
                     IF @.new = NoPin THEN Idle ELSE [pc |-> "change", old |-> @.old, new |-> @.new]]
    /\ raced' = (~Alone(r) \/ pin # request[r].old)
    /\ UNCHANGED <<clock, pin, attempts, wrong>>

\* A right entry: attempts and lock are reset, and a change goes on.  If it was
\* of the PIN in force and alone, whatever raced before is over.
Pass(r) ==
    /\ request[r].pc = "pass"
    /\ attempts' = 0
    /\ lockedUntil' = 0
    /\ failures' = 0
    /\ proven' = request[r].old
    /\ request' = [request EXCEPT ![r] =
                     IF @.new = NoPin THEN Idle ELSE [pc |-> "change", old |-> @.old, new |-> @.new]]
    /\ raced' = (~Alone(r) \/ pin # request[r].old)
    /\ UNCHANGED <<clock, pin, wrong>>

\* changePaymentPin: the second update.
Change(r) ==
    /\ request[r].pc = "change"
    /\ pin' = request[r].new
    /\ request' = [request EXCEPT ![r] = Idle]
    /\ UNCHANGED <<clock, attempts, lockedUntil, failures, proven, wrong, raced>>

\* An update fails, or the server restarts.
Lost(r) ==
    /\ request[r] # Idle
    /\ request' = [request EXCEPT ![r] = Idle]
    /\ UNCHANGED <<clock, row, failures, proven, wrong, raced>>

Next ==
    \/ Tick
    \/ \E r \in Requests :
         \/ Fail(r) \/ Pass(r) \/ Change(r) \/ Lost(r)
         \/ \E p \in Pins : Set(r, p)
         \/ \E entry \in Pins, new \in Pins \cup {NoPin} : Enter(r, entry, new)

Spec == Init /\ [][Next]_vars

(***************************************************************************)
(* Properties.                                                             *)
(***************************************************************************)

\* While requests come one at a time, and again after a new PIN, or a right entry of
\* the one in force, that found itself alone, the attempts are the wrong entries since the last
\* right one, lock or new PIN.
AttemptsAreExact == ~raced => attempts = failures

\* While requests come one at a time, a lock in force is lifted by a new PIN alone: entries
\* are refused until it has passed.
LockLasts ==
    [][~raced /\ ~raced' /\ Locked /\ lockedUntil' < lockedUntil => proven' = pin' /\ attempts' = 0]_vars

\* While requests come one at a time, changePaymentPin replaces the PIN that its caller
\* entered last, never another.
ChangeIsProven ==
    [][~raced /\ ~raced' /\ pin' # pin => pin = proven \/ (pin' = proven' /\ attempts' = 0)]_vars

=============================================================================
