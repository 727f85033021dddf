---------------------------- MODULE WsAuthProofs ----------------------------
(***************************************************************************)
(* The invariants of WsAuth for any number of sockets, any timeout, any    *)
(* number of sessions closed at a time and any length of the event queue.  *)
(***************************************************************************)
EXTENDS WsAuth, TLAPS

LEMMA Emptied ==
  ASSUME NEW S, NEW q \in Seq(S), q # <<>>
  PROVE  /\ Tail(q) \in Seq(S) /\ Len(Tail(q)) <= Len(q) /\ Head(q) \in S
         /\ {q[i] : i \in 1..Len(q)} = {Head(q)} \union {Tail(q)[i] : i \in 1..Len(Tail(q))}
<1> DEFINE r == Tail(q)
<1>1. /\ r \in Seq(S) /\ Len(q) = Len(r) + 1 /\ Len(r) \in Nat /\ Head(q) = q[1] /\ q[1] \in S
      /\ \A i \in 1..Len(r) : r[i] = q[i+1]
  OBVIOUS
<1> HIDE DEF r
<1>2. ASSUME NEW i \in 1..Len(q), q[i] # Head(q) PROVE q[i] \in {r[j] : j \in 1..Len(r)}
  <2>1. i # 1
    BY <1>1, <1>2
  <2>2. i-1 \in 1..Len(r) /\ r[i-1] = q[i]
    BY <1>1, <2>1
  <2> QED BY <2>2
<1>3. \A i \in 1..Len(r) : i+1 \in 1..Len(q) /\ r[i] = q[i+1]
  BY <1>1
<1>4. 1 \in 1..Len(q) /\ Head(q) = q[1]
  BY <1>1
<1> QED BY <1>1, <1>2, <1>3, <1>4 DEF r

LEMMA Added ==
  ASSUME NEW S, NEW q \in Seq(S), NEW e \in S
  PROVE  /\ Append(q, e) \in Seq(S) /\ Len(Append(q, e)) = Len(q) + 1
         /\ {q[i] : i \in 1..Len(q)} \union {e} =
              {Append(q, e)[i] : i \in 1..Len(Append(q, e))}
<1> DEFINE r == Append(q, e)
<1>1. /\ r \in Seq(S) /\ Len(r) = Len(q) + 1 /\ Len(q) \in Nat /\ r[Len(r)] = e
      /\ \A i \in 1..Len(q) : r[i] = q[i]
  OBVIOUS
<1> HIDE DEF r
<1>2. \A i \in 1..Len(q) : i \in 1..Len(r) /\ r[i] = q[i]
  BY <1>1
<1>3. Len(r) \in 1..Len(r) /\ r[Len(r)] = e
  BY <1>1
<1>4. \A i \in 1..Len(r) : i # Len(r) => i \in 1..Len(q) /\ r[i] = q[i]
  BY <1>1
<1> QED BY <1>1, <1>2, <1>3, <1>4 DEF r

-----------------------------------------------------------------------------
(* The inductive invariant.                                                 *)

\* What the HTTP server task has already done to the session it is in the middle of.
StepsTaken ==
  /\ busy = "authenticating" => session[fd] = "authed"
  /\ busy = "closing" => session[fd] = "none"

\* A session can be hit by the disconnect event of the last one only if it was opened
\* before that was handled.
LateEvents == \A s \in Waiting : session[s] = "open" => s \in overtaken

IInv == WsTypeOK /\ UnauthenticatedWatched /\ EntriesCurrent /\ StepsTaken /\ LateEvents

LEMMA Starts == Init => IInv
<1> SUFFICES ASSUME Init PROVE IInv
  OBVIOUS
<1>1. -1 \notin Socket /\ 0 \in 0..Limit /\ 0 <= MaxEvents
  BY SocketAssumption, NumberAssumption
<1>2. <<>> \in Seq(Socket) /\ Len(<<>>) = 0
  OBVIOUS
<1>3. WsTypeOK
  BY <1>1, <1>2 DEF Init, WsTypeOK
<1>4. UnauthenticatedWatched /\ EntriesCurrent /\ StepsTaken
  BY DEF Init, UnauthenticatedWatched, EntriesCurrent, StepsTaken
<1>5. LateEvents
  <2>1. session = [s \in Socket |-> "none"] /\ Waiting \subseteq Socket
    BY <1>2, <1>3 DEF Init, WsTypeOK, Waiting
  <2> QED BY <2>1 DEF LateEvents
<1> QED BY <1>3, <1>4, <1>5 DEF IInv

LEMMA HttpdKeeps ==
  ASSUME IInv, Httpd
  PROVE  IInv'
<1> USE DEF IInv
<1>0. -1 \notin Socket /\ 0 \in 0..Limit
  BY SocketAssumption, NumberAssumption
<1>1. CASE Trusts
  <2>1. /\ busy = "authenticating" /\ busy' = "idle" /\ fd' = -1
        /\ watched' = watched \ {fd} /\ session[fd] = "authed"
        /\ UNCHANGED <<session, age, collected, works, events, overtaken, Waiting>>
    BY <1>1 DEF Trusts, timerVars, Waiting, StepsTaken
  <2>2. WsTypeOK' /\ StepsTaken'
    BY <1>0, <2>1 DEF WsTypeOK, StepsTaken
  <2> QED BY <2>1, <2>2 DEF WsTypeOK, UnauthenticatedWatched, EntriesCurrent, LateEvents
<1>2. CASE Posts
  <2>1. /\ busy = "closing" /\ Len(events) < MaxEvents /\ events' = Append(events, fd)
        /\ busy' = "idle" /\ fd' = -1 /\ fd \in Socket
        /\ UNCHANGED <<session, watched, age, collected, works, overtaken>>
    BY <1>2 DEF Posts, timerVars, WsTypeOK
  <2>2. /\ events' \in Seq(Socket) /\ Len(events') = Len(events) + 1
        /\ Waiting' = Waiting \union {fd} /\ session[fd] = "none"
    BY <2>1, Added DEF WsTypeOK, Waiting, StepsTaken
  <2>3. WsTypeOK'
    BY <1>0, <2>1, <2>2, NumberAssumption DEF WsTypeOK
  <2> QED BY <2>1, <2>2, <2>3 DEF UnauthenticatedWatched, EntriesCurrent, StepsTaken, LateEvents
<1>3. ASSUME NEW s \in Socket, Accepts(s) PROVE IInv'
  <2>1. UNCHANGED <<busy, fd, watched, age, collected, works, events, overtaken, Waiting>>
    BY <1>3 DEF Accepts, timerVars, Waiting
  <2>2. session[s] = "none" /\ session' = [session EXCEPT ![s] = "http"]
    BY <1>3 DEF Accepts, Becomes
  <2>3. busy = "idle"
    BY <1>3 DEF Accepts
  <2>4. WsTypeOK' /\ StepsTaken'
    BY <2>1, <2>2, <2>3 DEF WsTypeOK, StepsTaken
  <2>5. UnauthenticatedWatched' /\ EntriesCurrent' /\ LateEvents'
    BY <2>1, <2>2, <2>3 DEF WsTypeOK, UnauthenticatedWatched, EntriesCurrent, LateEvents
  <2> QED BY <2>4, <2>5
<1>4. ASSUME NEW s \in Socket, Upgrades(s) PROVE IInv'
  <2>1. /\ UNCHANGED <<busy, fd, collected, works, events, Waiting>>
        /\ session' = [session EXCEPT ![s] = "open"]
        /\ watched' = watched \union {s} /\ age' = [age EXCEPT ![s] = 0]
    BY <1>4 DEF Upgrades, Becomes, Waiting
  <2>2. /\ overtaken' \subseteq Socket /\ overtaken \subseteq overtaken' \union {s}
        /\ s \in Waiting => s \in overtaken'
    BY <1>4 DEF Upgrades, WsTypeOK
  <2>3. busy = "idle"
    BY <1>4 DEF Upgrades
  <2>4. WsTypeOK' /\ StepsTaken'
    BY <1>0, <2>1, <2>2, <2>3 DEF WsTypeOK, StepsTaken
  <2>5. UnauthenticatedWatched' /\ EntriesCurrent' /\ LateEvents'
    BY <2>1, <2>2, <2>3 DEF WsTypeOK, UnauthenticatedWatched, EntriesCurrent, LateEvents
  <2> QED BY <2>4, <2>5
<1>5. ASSUME NEW s \in Socket, Authenticates(s) PROVE IInv'
  <2>1. /\ UNCHANGED <<watched, age, collected, works, events, overtaken, Waiting>>
        /\ busy = "idle" /\ busy' = "authenticating" /\ fd' = s
        /\ session' = [session EXCEPT ![s] = "authed"]
    BY <1>5 DEF Authenticates, Becomes, timerVars, Waiting
  <2> QED BY <2>1 DEF WsTypeOK, UnauthenticatedWatched, EntriesCurrent, StepsTaken, LateEvents
<1>6. ASSUME NEW s \in Socket, busy = "idle", Closes(s), works' = works \/ works' = works \ {s},
             UNCHANGED collected
      PROVE  IInv'
  <2>1. /\ UNCHANGED <<watched, age, collected, events, overtaken, Waiting>>
        /\ busy' = "closing" /\ fd' = s
        /\ session' = [session EXCEPT ![s] = "none"]
    BY <1>6 DEF Closes, Becomes, timerVars, Waiting
  <2> QED BY <1>6, <2>1 DEF WsTypeOK, UnauthenticatedWatched, EntriesCurrent, StepsTaken, LateEvents
<1>7. ASSUME NEW s \in Socket, Ends(s) PROVE IInv'
  BY <1>6, <1>7 DEF Ends, Closes, timerVars
<1>8. ASSUME NEW s \in Socket, Works(s) PROVE IInv'
  <2>1. CASE session[s] # "none"
    BY <1>6, <1>8, <2>1 DEF Works, ClosingDue, Closes, timerVars
  <2>2. CASE session[s] = "none"
    <3>1. /\ UNCHANGED <<session, busy, fd, watched, age, collected, events, overtaken, Waiting>>
          /\ works' = works \ {s}
      BY <1>8, <2>2 DEF Works, ClosingDue, timerVars, Waiting
    <3> QED BY <2>2, <3>1 DEF WsTypeOK, UnauthenticatedWatched, EntriesCurrent, StepsTaken, LateEvents
  <2> QED BY <2>1, <2>2
<1> QED BY <1>1, <1>2, <1>3, <1>4, <1>5, <1>7, <1>8 DEF Httpd

LEMMA DisconnectedKeeps ==
  ASSUME IInv, Disconnected
  PROVE  IInv'
<1> USE DEF IInv
<1>1. /\ events # <<>> /\ events' = Tail(events) /\ watched' = watched \ {Head(events)}
      /\ UNCHANGED <<session, busy, fd, age, collected, works, overtaken>>
  BY DEF Disconnected, timerVars
<1>2. /\ events' \in Seq(Socket) /\ Len(events') <= Len(events)
      /\ Waiting = {Head(events)} \union Waiting'
  <2>1. events \in Seq(Socket)
    BY DEF WsTypeOK
  <2>2. /\ Tail(events) \in Seq(Socket) /\ Len(Tail(events)) <= Len(events)
        /\ Waiting = {Head(events)} \union {Tail(events)[i] : i \in 1..Len(Tail(events))}
    BY <1>1, <2>1, Emptied DEF Waiting
  <2>3. Waiting' = {Tail(events)[i] : i \in 1..Len(Tail(events))}
    BY <1>1 DEF Waiting
  <2> QED BY <1>1, <2>2, <2>3
<1>3. WsTypeOK'
  <2>1. Len(events) \in Nat /\ Len(events') \in Nat /\ MaxEvents \in Nat
    BY <1>2, NumberAssumption DEF WsTypeOK
  <2>2. Len(events') <= MaxEvents
    BY <1>2, <2>1 DEF WsTypeOK
  <2> QED BY <1>1, <1>2, <2>2 DEF WsTypeOK
<1>4. UnauthenticatedWatched'
  BY <1>1, <1>2 DEF UnauthenticatedWatched, LateEvents
<1>5. EntriesCurrent'
  BY <1>1, <1>2 DEF EntriesCurrent
<1>6. StepsTaken' /\ LateEvents'
  BY <1>1, <1>2 DEF StepsTaken, LateEvents
<1> QED BY <1>3, <1>4, <1>5, <1>6

LEMMA TimerKeeps ==
  ASSUME IInv, Timer
  PROVE  IInv'
<1> USE DEF IInv
<1>1. CASE Checks
  <2>1. /\ UNCHANGED <<session, busy, fd, works, events, overtaken, Waiting>>
        /\ collected = {} /\ collected' \subseteq watched /\ watched' = watched \ collected'
        /\ age' = [s \in Socket |-> IF s \notin watched' THEN 0
                                    ELSE IF age[s] = Limit THEN Limit ELSE age[s] + 1]
    BY <1>1 DEF Checks, FirstOf, Expired, Waiting
  <2>2. \A n \in 0..Limit : (IF n = Limit THEN Limit ELSE n + 1) \in 0..Limit /\ 0 \in 0..Limit
    BY NumberAssumption
  <2>3. age' \in [Socket -> 0..Limit]
    <3> SUFFICES ASSUME NEW s \in Socket PROVE age'[s] \in 0..Limit
      BY <2>1
    <3>1. age[s] \in 0..Limit
      BY DEF WsTypeOK
    <3> QED BY <2>1, <2>2, <3>1
  <2>4. WsTypeOK'
    BY <2>1, <2>3 DEF WsTypeOK
  <2> QED BY <2>1, <2>4 DEF WsTypeOK, UnauthenticatedWatched, EntriesCurrent, StepsTaken, LateEvents
<1>2. ASSUME NEW s \in collected, Queues(s) PROVE IInv'
  <2>1. /\ UNCHANGED <<session, busy, fd, watched, age, events, overtaken, Waiting>>
        /\ collected' = collected \ {s} /\ works' = works \union {s} /\ s \in Socket
    BY <1>2 DEF Queues, Waiting, WsTypeOK
  <2> QED BY <2>1 DEF WsTypeOK, UnauthenticatedWatched, EntriesCurrent, StepsTaken, LateEvents
<1> QED BY <1>1, <1>2 DEF Timer

LEMMA NextKeeps ==
  ASSUME IInv, [Next]_vars
  PROVE  IInv'
<1>1. CASE UNCHANGED vars
  BY <1>1 DEF vars, timerVars, IInv, WsTypeOK, UnauthenticatedWatched, EntriesCurrent, StepsTaken,
     LateEvents, Waiting
<1> QED BY <1>1, HttpdKeeps, DisconnectedKeeps, TimerKeeps DEF Next

LEMMA AlwaysIInv == Spec => []IInv
BY Starts, NextKeeps, PTL DEF Spec

-----------------------------------------------------------------------------
\* Every variable keeps its type, and the HTTP server task knows a socket exactly while
\* it is in the middle of something.
THEOREM WsTyped == Spec => []WsTypeOK
BY AlwaysIInv, PTL DEF IInv

\* Whatever clients connect, authenticate and leave, and however the three tasks meet, a
\* session escapes the timeout only on a socket that was opened too early
\* (DockApi::checkAuthTimeouts, onClientConnectionEvent).
THEOREM SessionsAreWatched == Spec => []UnauthenticatedWatched
BY AlwaysIInv, PTL DEF IInv

\* unauthenticated_fds_ names no session that has authenticated, nor for longer than an
\* event takes a socket without a session.
THEOREM EntriesAreCurrent == Spec => []EntriesCurrent
BY AlwaysIInv, PTL DEF IInv
=============================================================================
