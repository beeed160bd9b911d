---------------------------- MODULE AuthSessions ----------------------------
(***************************************************************************)
(* The sessions of one user: login creates one, refreshToken rotates its   *)
(* refresh token, DELETE /session/:id removes it.  A refresh token is a    *)
(* JWT without an id of its own: the tokens that are signed for a user in  *)
(* the same second are the same, so a token is modelled by its second.     *)
(* Session.token is unique.  Requests may overlap.                         *)
(***************************************************************************)
EXTENDS Integers

CONSTANTS
    Sessions,      \* ids of session rows
    Requests,
    Lifetime,      \* of a refresh token and of a session: 7 days
    MaxTime        \* bound: seconds

SessionAssumption ==
    /\ Lifetime \in Nat \ {0}
    /\ MaxTime \in Nat

VARIABLES
    clock,
    session,       \* per row: none, the token and its expiry, or removed
    request,       \* per request: where it is, for which row, with which new token
    answered,      \* history: the tokens the client was given, per session the last one
    unheard,       \* history: sessions with a write whose answer was lost
    shared         \* history: sessions that two requests were refreshing at once

vars == <<clock, session, request, answered, unheard, shared>>

Seconds   == 0..MaxTime
NoToken   == -1
NoSession == [state |-> "none", token |-> NoToken, expiresAt |-> 0]
Row(t, e) == [state |-> "row", token |-> t, expiresAt |-> e]
Gone      == [state |-> "removed", token |-> NoToken, expiresAt |-> 0]
Rows      == [state : {"none", "row", "removed"}, token : Seconds \cup {NoToken},
              expiresAt : 0..(MaxTime + Lifetime)]
Idle      == [pc |-> "idle", token |-> NoToken]
Steps     == {Idle} \cup [pc : {"create"}, token : Seconds]
                    \cup [pc : {"sign"}, id : Sessions, token : {NoToken}]
                    \cup [pc : {"update"}, id : Sessions, token : Seconds]

TypeOK ==
    /\ clock    \in Seconds
    /\ session  \in [Sessions -> Rows]
    /\ \A s \in Sessions : session[s].state = "row" <=> session[s].token # NoToken
    /\ request  \in [Requests -> Steps]
    /\ answered \in [Sessions -> Seconds \cup {NoToken}]
    /\ unheard  \subseteq Sessions
    /\ shared   \subseteq Sessions

Init ==
    /\ clock    = 0
    /\ session  = [s \in Sessions |-> NoSession]
    /\ request  = [r \in Requests |-> Idle]
    /\ answered = [s \in Sessions |-> NoToken]
    /\ unheard  = {}
    /\ shared   = {}

Refreshing(r, s) == request[r].pc \in {"sign", "update"} /\ request[r].id = s
Goes(r, to) == request' = [request EXCEPT ![r] = to]

Tick ==
    /\ clock < MaxTime
    /\ clock' = clock + 1
    /\ UNCHANGED <<session, request, answered, unheard, shared>>

\* Session.token is unique.
Unique(s, t) == \A q \in Sessions \ {s} : session[q].token # t

\* login, after validateUser and the second factor: the token is signed, ...
SignIn(r) ==
    /\ request[r] = Idle
    /\ Goes(r, [pc |-> "create", token |-> clock])
    /\ UNCHANGED <<clock, session, answered, unheard, shared>>

\* ... and a session is created with it; the client is told, or the answer is lost.
CreateSession(r, s) ==
    /\ request[r].pc = "create"
    /\ session[s] = NoSession
    /\ Unique(s, request[r].token)
    /\ session' = [session EXCEPT ![s] = Row(request[r].token, clock + Lifetime)]
    /\ \/ answered' = [answered EXCEPT ![s] = request[r].token] /\ UNCHANGED unheard
       \/ unheard' = unheard \cup {s} /\ UNCHANGED answered
    /\ Goes(r, Idle)
    /\ UNCHANGED <<clock, shared>>

\* refreshToken: a token that has not expired and that a row holds.  A row that
\* has expired would be removed here.
FindSession(r, s) ==
    /\ request[r] = Idle
    /\ session[s].state = "row"
    /\ clock < session[s].token + Lifetime
    /\ IF session[s].expiresAt < clock
         THEN session' = [session EXCEPT ![s] = Gone] /\ UNCHANGED request
         ELSE Goes(r, [pc |-> "sign", id |-> s, token |-> NoToken]) /\ UNCHANGED session
    /\ shared' = IF \E q \in Requests : Refreshing(q, s) THEN shared \cup {s} ELSE shared
    /\ UNCHANGED <<clock, answered, unheard>>

\* The user is there and active: a new token is signed.
SignNew(r) ==
    /\ request[r].pc = "sign"
    /\ Goes(r, [pc |-> "update", id |-> request[r].id, token |-> clock])
    /\ UNCHANGED <<clock, session, answered, unheard, shared>>

\* Mutant: the update puts a row back that is gone.
UpsertSession(r) ==
    /\ request[r].pc = "update"
    /\ LET s == request[r].id  t == request[r].token IN
         /\ Unique(s, t)
         /\ session' = [session EXCEPT ![s] = Row(t, clock + Lifetime)]
         /\ answered' = [answered EXCEPT ![s] = t] /\ UNCHANGED unheard
    /\ Goes(r, Idle)
    /\ UNCHANGED <<clock, shared>>

\* Mutant: the old token stays in the row.
UpdateSessionOld(r) ==
    /\ request[r].pc = "update"
    /\ LET s == request[r].id  t == request[r].token IN
         /\ session[s].state = "row"
         /\ session' = [session EXCEPT ![s].expiresAt = clock + Lifetime]
         /\ answered' = [answered EXCEPT ![s] = t] /\ UNCHANGED unheard
    /\ Goes(r, Idle)
    /\ UNCHANGED <<clock, shared>>

\* The row is updated by id, and the client is told, or the answer is lost.
UpdateSession(r) ==
    /\ request[r].pc = "update"
    /\ LET s == request[r].id  t == request[r].token IN
         /\ session[s].state = "row"
         /\ Unique(s, t)
         /\ session' = [session EXCEPT ![s] = Row(t, clock + Lifetime)]
         /\ \/ answered' = [answered EXCEPT ![s] = t] /\ UNCHANGED unheard
            \/ unheard' = unheard \cup {s} /\ UNCHANGED answered
    /\ Goes(r, Idle)
    /\ UNCHANGED <<clock, shared>>

\* Any error: the row is gone, the token is not unique, the database fails, the
\* user is not active, the server restarts.
Refused(r) ==
    /\ request[r] # Idle
    /\ Goes(r, Idle)
    /\ UNCHANGED <<clock, session, answered, unheard, shared>>

\* DELETE /session/:id.
Remove(s) ==
    /\ session[s].state = "row"
    /\ session' = [session EXCEPT ![s] = Gone]
    /\ UNCHANGED <<clock, request, answered, unheard, shared>>

Next ==
    \/ Tick
    \/ \E r \in Requests : SignIn(r) \/ SignNew(r) \/ UpdateSession(r) \/ Refused(r)
    \/ \E r \in Requests, s \in Sessions : CreateSession(r, s) \/ FindSession(r, s)
    \/ \E s \in Sessions : Remove(s)

Spec == Init /\ [][Next]_vars

(***************************************************************************)
(* Properties.                                                             *)
(***************************************************************************)

\* A session removed while a refresh is under way stays removed.
RemovedStaysRemoved ==
    [][\A s \in Sessions : session[s].state = "removed" => session'[s].state = "removed"]_vars

\* The last token a client was given for a session is the one the session holds,
\* unless an answer was lost or two requests refreshed that session at once.
AnsweredIsHeld ==
    \A s \in Sessions \ (unheard \cup shared) :
      session[s].state = "row" => session[s].token = answered[s]

=============================================================================
