----------------------------- MODULE Sessions -----------------------------
(***************************************************************************)
(* The sessions of one user: the table sessions, the extractor AuthSession *)
(* that every authenticated handler runs first, the touch it spawns, and   *)
(* the handlers that delete sessions.                                      *)
(*                                                                         *)
(* A touch is a task of its own: it reads the clock, then waits for a      *)
(* connection of the pool, and only then runs its UPDATE with the time it  *)
(* has read.  Touches of one session may run in another order than they    *)
(* read the clock.                                                         *)
(***************************************************************************)
EXTENDS Integers

CONSTANTS
    Session,    \* the session tokens that logins may draw
    Request,    \* the requests in flight that delete sessions
    Touch,      \* the touch tasks that may be in flight at one time
    Idle,       \* SESSION_IDLE_HOURS: how far a touch pushes expires_at
    Gap,        \* the hour after which a touch pushes it
    HardCap,    \* SESSION_HARD_CAP_DAYS
    Delay,      \* the longest a touch waits between the clock and its UPDATE
    Horizon,    \* the time at which the clock of the model stops
    Nil         \* no session

\* The pool gives up on a connection after 30 seconds, much less than Gap.
ASSUME TimesAssumption == /\ Idle \in Nat /\ Gap \in Nat /\ HardCap \in Nat
                          /\ Delay \in Nat /\ Horizon \in Nat
                          /\ Delay <= Gap
ASSUME NilAssumption == Nil \notin Session

VARIABLES
    now,            \* the clock of the server and of the database
    sessions,       \* the state of each session's row
    created_at,     \* the columns of sessions
    last_used_at,
    expires_at,
    handler,        \* what a request that passed the extractor will do
    session,        \* the session it was accepted with
    target,         \* the session it will delete
    touch,          \* where a touch task stands
    touched,        \* the session it touches
    read            \* the time it has read

rowVars == <<sessions, created_at, last_used_at, expires_at>>
requestVars == <<handler, session, target>>
touchVars == <<touch, touched, read>>
vars == <<now, sessions, created_at, last_used_at, expires_at,
          handler, session, target, touch, touched, read>>

Live(s) == sessions[s] = "live"
Waiting(k) == touch[k] = "waiting"

\* The lookup of the extractor, and its hard cap.  A request from another
\* network or browser than the login's is refused besides and changes nothing.
Authenticates(s) ==
    /\ Live(s)
    /\ expires_at[s] > now
    /\ now - created_at[s] <= HardCap

-----------------------------------------------------------------------------
\* login, once the password is verified.
Login(s) ==
    /\ sessions[s] = "none"
    /\ sessions' = [sessions EXCEPT ![s] = "live"]
    /\ created_at' = [created_at EXCEPT ![s] = now]
    /\ last_used_at' = [last_used_at EXCEPT ![s] = now]
    /\ expires_at' = [expires_at EXCEPT ![s] = now + Idle]
    /\ UNCHANGED <<now, requestVars, touchVars>>

\* The extractor accepts a token and spawns the touch.
SpawnTouch(k, s) ==
    /\ touch[k] = "idle"
    /\ Authenticates(s)
    /\ touch' = [touch EXCEPT ![k] = "spawned"]
    /\ touched' = [touched EXCEPT ![k] = s]
    /\ UNCHANGED read

\* A handler that leaves the sessions alone.
Use(k, s) ==
    /\ SpawnTouch(k, s)
    /\ UNCHANGED <<now, rowVars, requestVars>>

\* logout, revoke_session and revoke_all_sessions, accepted with session s.
\* revoke_session has looked its target up, and refused the current session.
Arrive(r, k, s, h, t) ==
    /\ handler[r] = "idle"
    /\ SpawnTouch(k, s)
    /\ h = "revoke_session" => t # s /\ sessions[t] = "live"
    /\ handler' = [handler EXCEPT ![r] = h]
    /\ session' = [session EXCEPT ![r] = s]
    /\ target' = [target EXCEPT ![r] = IF h = "revoke_session" THEN t ELSE Nil]
    /\ UNCHANGED <<now, rowVars>>

\* The DELETE of these handlers.
Doomed(r) ==
    CASE handler[r] = "logout" -> Session
      [] handler[r] = "revoke_session" -> {target[r]}
      [] handler[r] = "revoke_all_sessions" -> Session \ {session[r]}
Delete(r) ==
    /\ handler[r] # "idle"
    /\ sessions' = [s \in Session |-> IF s \in Doomed(r) /\ Live(s)
                                      THEN "deleted" ELSE sessions[s]]
    /\ handler' = [handler EXCEPT ![r] = "idle"]
    /\ session' = [session EXCEPT ![r] = Nil]
    /\ target' = [target EXCEPT ![r] = Nil]
    /\ UNCHANGED <<now, created_at, last_used_at, expires_at, touchVars>>

-----------------------------------------------------------------------------
(***************************************************************************)
(* touch_session.                                                          *)
(***************************************************************************)

ReadClock(k) ==
    /\ touch[k] = "spawned"
    /\ touch' = [touch EXCEPT ![k] = "waiting"]
    /\ read' = [read EXCEPT ![k] = now]
    /\ UNCHANGED <<now, rowVars, requestVars, touched>>

TouchDone(k) ==
    /\ touch' = [touch EXCEPT ![k] = "idle"]
    /\ touched' = [touched EXCEPT ![k] = Nil]
    /\ read' = [read EXCEPT ![k] = 0]

\* Mutant of TouchSession: the expiry counts from the old expiry.
TouchFromExpiry(k) ==
    LET s == touched[k] IN
    /\ Waiting(k)
    /\ IF Live(s)
       THEN /\ last_used_at' = [last_used_at EXCEPT ![s] = read[k]]
            /\ expires_at' =
                 [expires_at EXCEPT ![s] = IF last_used_at[s] < read[k] - Gap
                                           THEN @ + Idle ELSE @]
       ELSE UNCHANGED <<last_used_at, expires_at>>
    /\ TouchDone(k)
    /\ UNCHANGED <<now, sessions, created_at, requestVars>>

\* Mutant of TouchSession: each touch sets the expiry.
TouchAlways(k) ==
    LET s == touched[k] IN
    /\ Waiting(k)
    /\ IF Live(s)
       THEN /\ last_used_at' = [last_used_at EXCEPT ![s] = read[k]]
            /\ expires_at' = [expires_at EXCEPT ![s] = read[k] + Idle]
       ELSE UNCHANGED <<last_used_at, expires_at>>
    /\ TouchDone(k)
    /\ UNCHANGED <<now, sessions, created_at, requestVars>>

\* The UPDATE finds no row when the session has been deleted meanwhile.
TouchSession(k) ==
    LET s == touched[k] IN
    /\ Waiting(k)
    /\ IF Live(s)
       THEN /\ last_used_at' = [last_used_at EXCEPT ![s] = read[k]]
            /\ expires_at' =
                 [expires_at EXCEPT ![s] = IF last_used_at[s] < read[k] - Gap
                                           THEN read[k] + Idle ELSE @]
       ELSE UNCHANGED <<last_used_at, expires_at>>
    /\ TouchDone(k)
    /\ UNCHANGED <<now, sessions, created_at, requestVars>>

\* A touch that fails is only logged.
TouchFails(k) ==
    /\ touch[k] # "idle"
    /\ TouchDone(k)
    /\ UNCHANGED <<now, rowVars, requestVars>>

Tick ==
    /\ now < Horizon
    /\ \A k \in Touch : Waiting(k) => now < read[k] + Delay
    /\ now' = now + 1
    /\ UNCHANGED <<rowVars, requestVars, touchVars>>

-----------------------------------------------------------------------------
Handler == {"logout", "revoke_session", "revoke_all_sessions"}

Init ==
    /\ now = 0
    /\ sessions = [s \in Session |-> "none"]
    /\ created_at = [s \in Session |-> 0]
    /\ last_used_at = [s \in Session |-> 0]
    /\ expires_at = [s \in Session |-> 0]
    /\ handler = [r \in Request |-> "idle"]
    /\ session = [r \in Request |-> Nil]
    /\ target = [r \in Request |-> Nil]
    /\ touch = [k \in Touch |-> "idle"]
    /\ touched = [k \in Touch |-> Nil]
    /\ read = [k \in Touch |-> 0]

TouchStep(k) == ReadClock(k) \/ TouchSession(k) \/ TouchFails(k)

Next ==
    \/ \E s \in Session : Login(s)
    \/ \E k \in Touch, s \in Session : Use(k, s)
    \/ \E r \in Request, k \in Touch, s, t \in Session, h \in Handler :
         Arrive(r, k, s, h, t)
    \/ \E r \in Request : Delete(r)
    \/ \E k \in Touch : TouchStep(k)
    \/ Tick

Spec == Init /\ [][Next]_vars

-----------------------------------------------------------------------------
(***************************************************************************)
(* Properties.                                                             *)
(***************************************************************************)

\* Every variable has its type.
TypeOK ==
    /\ now \in 0 .. Horizon
    /\ sessions \in [Session -> {"none", "live", "deleted"}]
    /\ created_at \in [Session -> 0 .. Horizon]
    /\ last_used_at \in [Session -> 0 .. Horizon]
    /\ expires_at \in [Session -> 0 .. Horizon + Idle]
    /\ handler \in [Request -> Handler \cup {"idle"}]
    /\ session \in [Request -> Session \cup {Nil}]
    /\ target \in [Request -> Session \cup {Nil}]
    /\ touch \in [Touch -> {"idle", "spawned", "waiting"}]
    /\ touched \in [Touch -> Session \cup {Nil}]
    /\ read \in [Touch -> 0 .. Horizon]

\* A session expires when it has not been used for Idle: however the touches
\* of its requests are reordered, what they leave in last_used_at is at most
\* Delay behind what expires_at was computed from.
IdleTimeout ==
    \A s \in Session :
        Live(s) => expires_at[s] <= last_used_at[s] + Idle + Delay

\* A request never shortens a session: a touch that runs late, after touches
\* that have read the clock after it, does not move expires_at back.
ExpiryNeverShrinks ==
    [][\A s \in Session : Live(s) => expires_at'[s] >= expires_at[s]]_vars

\* A session that is in use stays until the hard cap ("actively-used sessions
\* refresh themselves up to 7d total"): if it was used less than Idle ago,
\* give or take the Gap between two touches, it has not expired.
ActiveSessionLives ==
    \A s \in Session :
        /\ Live(s)
        /\ now - created_at[s] <= HardCap
        /\ now + Gap < last_used_at[s] + Idle
        => expires_at[s] > now

-----------------------------------------------------------------------------
(***************************************************************************)
(* The inductive invariant behind IdleTimeout and ExpiryNeverShrinks.      *)
(***************************************************************************)

\* The clock is at most Delay ahead of a touch that waits, and the expiry at
\* most Idle ahead of the clock.
ClockInv ==
    /\ \A k \in Touch : Waiting(k) => read[k] <= now /\ now <= read[k] + Delay
    /\ \A k \in Touch : touch[k] # "idle" => touched[k] \in Session
    /\ \A s \in Session : Live(s) => expires_at[s] <= now + Idle

SessionsInv == TypeOK /\ ClockInv /\ IdleTimeout

=============================================================================
