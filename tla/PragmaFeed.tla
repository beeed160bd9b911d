----------------------------- MODULE PragmaFeed -----------------------------
(***************************************************************************)
(* The subscription to Pragma's prices: one socket after another, a timer  *)
(* that opens the next one, an interval that pings the open one, and the   *)
(* last price of each pair.  Handlers run to their end, one at a time; the *)
(* handlers of a socket use the field ws, which is the newest socket.      *)
(***************************************************************************)
EXTENDS Integers, FiniteSets

CONSTANTS Pairs, MaxSockets    \* bound: sockets opened

FeedAssumption == MaxSockets \in Nat \ {0}

VARIABLES
    state,      \* per socket, oldest first: what its readyState is
    timers,     \* reconnection timers that have yet to fire
    opened,     \* sockets opened so far; the newest one is ws
    intervals,  \* ping intervals that run, by the socket that started them
    handle,     \* pingInterval: the interval stopPing would clear, or 0
    prices,     \* pairs with a price
    destroyed   \* was onModuleDestroy called?

vars == <<state, timers, opened, intervals, handle, prices, destroyed>>

Sockets == 1..MaxSockets
States  == {"none", "connecting", "open", "closing", "closed"}

TypeOK ==
    /\ state     \in [Sockets -> States]
    /\ timers    \in Nat
    /\ opened    \in Sockets
    /\ intervals \subseteq Sockets
    /\ handle    \in Sockets \cup {0}
    /\ prices    \subseteq Pairs
    /\ destroyed \in BOOLEAN

\* onModuleInit.
Init ==
    /\ state     = [s \in Sockets |-> IF s = 1 THEN "connecting" ELSE "none"]
    /\ timers    = 0
    /\ opened    = 1
    /\ intervals = {}
    /\ handle    = 0
    /\ prices    = {}
    /\ destroyed = FALSE

\* 'open': subscribe and start to ping.
Open(s) ==
    /\ state[s] = "connecting"
    /\ state' = [state EXCEPT ![s] = "open"]
    /\ intervals' = intervals \cup {s}
    /\ handle' = s
    /\ UNCHANGED <<timers, opened, prices, destroyed>>

\* 'message' with a price; messages arrive until the closing handshake ends.
Message(s, p) ==
    /\ state[s] \in {"open", "closing"}
    /\ prices' = prices \cup {p}
    /\ UNCHANGED <<state, timers, opened, intervals, handle, destroyed>>

\* Mutant: an error reconnects at once, besides the timer that 'close' sets.
ErrorReconnecting(s) ==
    /\ state[s] \in {"connecting", "open"}
    /\ opened < MaxSockets
    /\ opened' = opened + 1
    /\ state' = [state EXCEPT ![s] = "closing", ![opened + 1] = "connecting"]
    /\ UNCHANGED <<timers, intervals, handle, prices, destroyed>>

\* 'error': ws, whichever socket that is, is closed.
Error(s) ==
    /\ state[s] \in {"connecting", "open"}
    /\ state' = [state EXCEPT ![opened] = IF @ = "closed" THEN @ ELSE "closing"]
    /\ UNCHANGED <<timers, opened, intervals, handle, prices, destroyed>>

\* Mutant: only a connection that was open is taken up again.
CloseSilent(s) ==
    /\ state[s] \notin {"none", "closed"}
    /\ state' = [state EXCEPT ![s] = "closed"]
    /\ intervals' = intervals \ {handle}
    /\ timers' = IF s \in intervals THEN timers + 1 ELSE timers
    /\ UNCHANGED <<opened, handle, prices, destroyed>>

\* 'close', after an error, at our request or at the server's: stop the pings
\* and set the timer.
Close(s) ==
    /\ state[s] \notin {"none", "closed"}
    /\ state' = [state EXCEPT ![s] = "closed"]
    /\ intervals' = intervals \ {handle}
    /\ timers' = timers + 1
    /\ UNCHANGED <<opened, handle, prices, destroyed>>

\* The timer fires: connect.
Reconnect ==
    /\ timers > 0
    /\ opened < MaxSockets
    /\ timers' = timers - 1
    /\ opened' = opened + 1
    /\ state' = [state EXCEPT ![opened + 1] = "connecting"]
    /\ UNCHANGED <<intervals, handle, prices, destroyed>>

\* onModuleDestroy: disconnect.  The 'close' that follows reconnects as any other.
Destroy ==
    /\ ~destroyed
    /\ destroyed' = TRUE
    /\ state' = [state EXCEPT ![opened] = IF @ = "closed" THEN @ ELSE "closing"]
    /\ intervals' = intervals \ {handle}
    /\ UNCHANGED <<timers, opened, handle, prices>>

Next ==
    \/ \E s \in Sockets :
         \/ Open(s) \/ Error(s) \/ Close(s)
         \/ \E p \in Pairs : Message(s, p)
    \/ Reconnect
    \/ Destroy

Spec == Init /\ [][Next]_vars

\* Timers fire, and a socket that is closing closes.
Closing(s)     == state[s] = "closing" /\ Close(s)
TimerFires     == WF_vars(Reconnect)
ClosingEnds(s) == WF_vars(Closing(s))

Fairness == TimerFires /\ \A s \in Sockets : ClosingEnds(s)

(***************************************************************************)
(* Properties.                                                             *)
(***************************************************************************)
Alive == {s \in Sockets : state[s] \in {"connecting", "open", "closing"}}

\* There is always one socket that lives or one timer that will open the next,
\* never both and never two: no order of errors and closings loses the
\* subscription or doubles it.  Until the module ends exactly the open socket is
\* pinged, and afterwards none but it.
OneSubscription ==
    /\ Cardinality(Alive) + timers = 1
    /\ intervals \subseteq Alive \cap {opened}
    /\ ~destroyed => \A s \in Sockets : state[s] = "open" => s \in intervals

\* A subscription that broke is taken up again, while sockets last.
TakenUp(s)   == state[s] = "closing" ~> state[s + 1] # "none"
Resubscribes == \A s \in Sockets \ {MaxSockets} : TakenUp(s)

=============================================================================
