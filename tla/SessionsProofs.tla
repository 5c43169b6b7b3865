-------------------------- MODULE SessionsProofs --------------------------
(***************************************************************************)
(* Proofs about Sessions for every number of sessions, requests and        *)
(* touches and every choice of the times.                                  *)
(***************************************************************************)
EXTENDS Sessions, TLAPS

LEMMA TypeInit == Init => TypeOK
BY TimesAssumption DEF Init, TypeOK, Handler

LEMMA TypeStep ==
    ASSUME TypeOK, ClockInv, [Next]_vars
    PROVE  TypeOK'
<1> USE TimesAssumption DEF TypeOK, Handler, rowVars, requestVars, touchVars
<1>1. ASSUME NEW s \in Session, Login(s)
      PROVE  TypeOK'
  BY <1>1 DEF Login
<1>2. ASSUME NEW k \in Touch, NEW s \in Session, Use(k, s)
      PROVE  TypeOK'
  BY <1>2 DEF Use, SpawnTouch
<1>3. ASSUME NEW r \in Request, NEW k \in Touch, NEW s \in Session,
             NEW t \in Session, NEW h \in Handler, Arrive(r, k, s, h, t)
      PROVE  TypeOK'
  BY <1>3 DEF Arrive, SpawnTouch
<1>4. ASSUME NEW r \in Request, Delete(r)
      PROVE  TypeOK'
  BY <1>4 DEF Delete
<1>5. ASSUME NEW k \in Touch, ReadClock(k)
      PROVE  TypeOK'
  BY <1>5 DEF ReadClock
<1>6. ASSUME NEW k \in Touch, TouchSession(k)
      PROVE  TypeOK'
  <2>1. touched[k] \in Session
    BY <1>6 DEF TouchSession, Waiting, ClockInv
  <2>2. read[k] \in 0 .. Horizon /\ read[k] + Idle \in 0 .. Horizon + Idle
    OBVIOUS
  <2>3. last_used_at' \in [Session -> 0 .. Horizon]
    BY <1>6, <2>1, <2>2 DEF TouchSession
  <2>4. expires_at' \in [Session -> 0 .. Horizon + Idle]
    BY <1>6, <2>1, <2>2 DEF TouchSession
  <2> QED
    BY <1>6, <2>3, <2>4 DEF TouchSession, TouchDone
<1>7. ASSUME NEW k \in Touch, TouchFails(k)
      PROVE  TypeOK'
  BY <1>7 DEF TouchFails, TouchDone
<1>8. CASE Tick
  BY <1>8 DEF Tick
<1>9. CASE UNCHANGED vars
  BY <1>9 DEF vars
<1> HIDE DEF TypeOK, Handler
<1> QED
  BY <1>1, <1>2, <1>3, <1>4, <1>5, <1>6, <1>7, <1>8, <1>9 DEF Next, TouchStep

-----------------------------------------------------------------------------
(***************************************************************************)
(* What a touch may do to a session: it leaves in last_used_at a time that *)
(* is at most Delay old, and in expires_at at most Idle after the clock.   *)
(***************************************************************************)
LEMMA TouchStepBounds ==
    ASSUME TypeOK, ClockInv, IdleTimeout, NEW k \in Touch, TouchSession(k)
    PROVE  \A s \in Session :
             Live(s)' => /\ Live(s)
                         /\ expires_at'[s] <= now + Idle
                         /\ expires_at'[s] <= last_used_at'[s] + Idle + Delay
                         /\ expires_at'[s] >= expires_at[s]
<1> SUFFICES ASSUME NEW s \in Session, Live(s)'
             PROVE  /\ Live(s)
                    /\ expires_at'[s] <= now + Idle
                    /\ expires_at'[s] <= last_used_at'[s] + Idle + Delay
                    /\ expires_at'[s] >= expires_at[s]
  OBVIOUS
<1>1. /\ touched[k] \in Session /\ read[k] <= now /\ now <= read[k] + Delay
      /\ Live(s) => expires_at[s] <= now + Idle
  BY DEF TouchSession, Waiting, ClockInv
<1>2. /\ now \in Nat /\ read[k] \in Nat /\ last_used_at[s] \in Nat
      /\ expires_at[s] \in Nat
      /\ last_used_at \in [Session -> 0 .. Horizon]
      /\ expires_at \in [Session -> 0 .. Horizon + Idle]
  BY TimesAssumption DEF TypeOK
<1>3. Live(s)
  BY DEF TouchSession, Live
<1>4. expires_at[s] <= last_used_at[s] + Idle + Delay
  BY <1>3 DEF IdleTimeout
<1>5. CASE s # touched[k]
  <2>1. expires_at'[s] = expires_at[s] /\ last_used_at'[s] = last_used_at[s]
    BY <1>2, <1>5 DEF TouchSession
  <2> QED
    BY <1>1, <1>2, <1>3, <1>4, <2>1, TimesAssumption
<1>6. CASE s = touched[k]
  <2>1. last_used_at'[s] = read[k]
    BY <1>2, <1>3, <1>6 DEF TouchSession
  <2>2. CASE last_used_at[s] < read[k] - Gap
    <3>1. expires_at'[s] = read[k] + Idle
      BY <1>2, <1>3, <1>6, <2>2 DEF TouchSession
    <3> QED
      BY <1>1, <1>2, <1>3, <1>4, <2>1, <2>2, <3>1, TimesAssumption
  <2>3. CASE ~(last_used_at[s] < read[k] - Gap)
    <3>1. expires_at'[s] = expires_at[s]
      BY <1>2, <1>3, <1>6, <2>3 DEF TouchSession
    <3> QED
      BY <1>1, <1>2, <1>3, <2>1, <3>1, TimesAssumption
  <2> QED
    BY <2>2, <2>3
<1> QED
  BY <1>5, <1>6

LEMMA SessionsInvStep == SessionsInv /\ [Next]_vars => SessionsInv'
<1> SUFFICES ASSUME TypeOK, ClockInv, IdleTimeout, [Next]_vars
             PROVE  ClockInv' /\ IdleTimeout'
  BY TypeStep DEF SessionsInv
<1> USE TimesAssumption
        DEF ClockInv, IdleTimeout, Live, Waiting, rowVars, requestVars, touchVars
<1>0. /\ now \in Nat /\ \A k \in Touch : read[k] \in Nat
      /\ \A s \in Session : expires_at[s] \in Nat /\ last_used_at[s] \in Nat
  BY DEF TypeOK
<1>1. ASSUME NEW s \in Session, Login(s)
      PROVE  ClockInv' /\ IdleTimeout'
  BY <1>0, <1>1 DEF Login, TypeOK
<1>2. ASSUME NEW k \in Touch, NEW s \in Session, Use(k, s)
      PROVE  ClockInv' /\ IdleTimeout'
  BY <1>2 DEF Use, SpawnTouch, TypeOK
<1>3. ASSUME NEW r \in Request, NEW k \in Touch, NEW s \in Session,
             NEW t \in Session, NEW h \in Handler, Arrive(r, k, s, h, t)
      PROVE  ClockInv' /\ IdleTimeout'
  BY <1>3 DEF Arrive, SpawnTouch, TypeOK
<1>4. ASSUME NEW r \in Request, Delete(r)
      PROVE  ClockInv' /\ IdleTimeout'
  BY <1>4 DEF Delete, TypeOK
<1>5. ASSUME NEW k \in Touch, ReadClock(k)
      PROVE  ClockInv' /\ IdleTimeout'
  BY <1>0, <1>5 DEF ReadClock, TypeOK
<1>6. ASSUME NEW k \in Touch, TouchSession(k)
      PROVE  ClockInv' /\ IdleTimeout'
  <2>1. now' = now
    BY <1>6 DEF TouchSession
  <2>2. \A s \in Session :
          Live(s)' => /\ expires_at'[s] <= now + Idle
                      /\ expires_at'[s] <= last_used_at'[s] + Idle + Delay
    BY <1>6, TouchStepBounds
  <2>3. \A j \in Touch :
          touch'[j] # "idle" => /\ touch'[j] = touch[j] /\ read'[j] = read[j]
                                /\ touched'[j] = touched[j]
    BY <1>6 DEF TouchSession, TouchDone, TypeOK
  <2> QED
    BY <2>1, <2>2, <2>3
<1>7. ASSUME NEW k \in Touch, TouchFails(k)
      PROVE  ClockInv' /\ IdleTimeout'
  BY <1>7 DEF TouchFails, TouchDone, TypeOK
<1>8. CASE Tick
  BY <1>0, <1>8 DEF Tick
<1>9. CASE UNCHANGED vars
  BY <1>9 DEF vars
<1> HIDE DEF ClockInv, IdleTimeout
<1> QED
  BY <1>1, <1>2, <1>3, <1>4, <1>5, <1>6, <1>7, <1>8, <1>9 DEF Next, TouchStep

LEMMA SessionsInvariant == Spec => []SessionsInv
<1>1. Init => SessionsInv
  BY TypeInit, TimesAssumption
     DEF Init, SessionsInv, ClockInv, IdleTimeout, Live, Waiting
<1> QED
  BY <1>1, SessionsInvStep, PTL DEF Spec

\* Every reachable state of the sessions is well typed.
THEOREM TypeCorrect == Spec => []TypeOK
<1>1. SessionsInv => TypeOK
  BY DEF SessionsInv
<1> QED
  BY <1>1, SessionsInvariant, PTL

\* For any number of concurrent touches, a session that is not used expires
\* Idle + Delay after the use its row names.
THEOREM IdleTimeoutCorrect == Spec => []IdleTimeout
<1>1. SessionsInv => IdleTimeout
  BY DEF SessionsInv
<1> QED
  BY <1>1, SessionsInvariant, PTL

\* For any number of concurrent touches, none of them shortens a session, as
\* long as a touch waits no longer than the hour after which touches extend.
THEOREM ExpiryNeverShrinksCorrect == Spec => ExpiryNeverShrinks
<1> DEFINE Grows == \A s \in Session : Live(s) => expires_at'[s] >= expires_at[s]
<1>1. SessionsInv /\ SessionsInv' /\ [Next]_vars => [Grows]_vars
  <2> SUFFICES ASSUME TypeOK, ClockInv, IdleTimeout, Next,
                      NEW s \in Session, Live(s)
               PROVE  expires_at'[s] >= expires_at[s]
    BY DEF SessionsInv
  <2>1. expires_at[s] \in Nat
    BY TimesAssumption DEF TypeOK
  <2>2. ASSUME NEW k \in Touch, TouchSession(k)
        PROVE  expires_at'[s] >= expires_at[s]
    <3>1. Live(s)'
      BY <2>2 DEF TouchSession, Live
    <3> QED
      BY <2>2, <3>1, TouchStepBounds
  <2>3. ASSUME NEW q \in Session, Login(q)
        PROVE  expires_at'[s] = expires_at[s]
    BY <2>3 DEF Login, Live, TypeOK
  <2>4. CASE UNCHANGED expires_at
    BY <2>1, <2>4
  <2> QED
    BY <2>1, <2>2, <2>3, <2>4
       DEF Next, TouchStep, Use, Arrive, Delete, ReadClock, TouchFails, Tick,
           rowVars
<1> QED
  BY <1>1, SessionsInvariant, PTL DEF Spec, ExpiryNeverShrinks

=============================================================================
