------------------------------- MODULE WsAuth -------------------------------
(***************************************************************************)
(* The sessions of the WebSocket server and their authentication:          *)
(* components/webserver/WebServer.cpp and the handlers of DockApi           *)
(* (main/ucd_api.cpp) around unauthenticated_fds_.                          *)
(*                                                                         *)
(* Three tasks share that map: the HTTP server task, which serves one       *)
(* request after the other, the task of the default event loop, which is    *)
(* told of closed sockets, and the timer task, which closes the sessions    *)
(* that have not authenticated.  All of them know a session by its socket   *)
(* only, which the next client may get as soon as it is closed.             *)
(*                                                                         *)
(* unauthenticated_fds_mutex_ is held for a few instructions, so that its   *)
(* timeout of 200 ms is not modelled; nor is a closing that the HTTP server *)
(* drops because too many are queued (MAX_WS_CLOSE_COUNT is there to avoid  *)
(* that), or a lack of memory.                                              *)
(***************************************************************************)
EXTENDS Integers, Sequences, FiniteSets

CONSTANTS
  Socket,     \* file descriptors
  Limit,      \* the checks after which an entry is older than UNAUTHENTICATED_TIMEOUT_SEC
  MaxClose,   \* MAX_WS_CLOSE_COUNT
  MaxEvents   \* bound: disconnect events in the queue of the event loop

ASSUME SocketAssumption == Socket \subseteq Nat /\ IsFiniteSet(Socket)
ASSUME NumberAssumption ==
  /\ Limit \in Nat \ {0} /\ MaxClose \in Nat \ {0} /\ MaxEvents \in Nat \ {0}

VARIABLES
  session,    \* sessions of the HTTP server: "http", or a WebSocket, "open" or "authed"
  busy, fd,   \* what the HTTP server task is in the middle of, for which socket
  watched,    \* the sockets in unauthenticated_fds_ ...
  age,        \* ... and how many checks an entry has seen
  collected,  \* disconnected, in checkAuthTimeouts(): the sockets it is about to close
  works,      \* the sockets whose closing is queued for the HTTP server task
  events,     \* HTTP_SERVER_EVENT_DISCONNECTED, in the default event loop
  overtaken   \* history: sockets that were opened before the end of the last session
              \* on them had been handled

timerVars == <<age, collected>>
vars == <<session, busy, fd, watched, timerVars, works, events, overtaken>>

WsTypeOK ==
  /\ session \in [Socket -> {"none", "http", "open", "authed"}]
  /\ busy \in {"idle", "authenticating", "closing"} /\ fd \in Socket \union {-1}
  /\ fd \in Socket <=> busy # "idle"
  /\ watched \subseteq Socket /\ age \in [Socket -> 0..Limit]
  /\ collected \subseteq Socket /\ works \subseteq Socket /\ overtaken \subseteq Socket
  /\ events \in Seq(Socket) /\ Len(events) <= MaxEvents

Init ==
  /\ session = [s \in Socket |-> "none"] /\ busy = "idle" /\ fd = -1
  /\ watched = {} /\ age = [s \in Socket |-> 0]
  /\ collected = {} /\ works = {} /\ events = <<>> /\ overtaken = {}

Waiting == {events[i] : i \in 1..Len(events)}

-----------------------------------------------------------------------------
(* The HTTP server task                                                     *)

Becomes(s, kind) == session' = [session EXCEPT ![s] = kind]

\* A client connects; what it asks for first may not be a WebSocket.
Accepts(s) ==
  /\ busy = "idle" /\ session[s] = "none"
  /\ Becomes(s, "http")
  /\ UNCHANGED <<busy, fd, watched, timerVars, works, events, overtaken>>

\* ws_handler, WS_CONNECTED: the client is entered and asked for the token.
Upgrades(s) ==
  /\ busy = "idle" /\ session[s] = "http"
  /\ Becomes(s, "open")
  /\ watched' = watched \union {s} /\ age' = [age EXCEPT ![s] = 0]
  /\ overtaken' = IF s \in Waiting THEN overtaken \union {s} ELSE overtaken \ {s}
  /\ UNCHANGED <<busy, fd, collected, works, events>>

\* An "auth" message with the right token: setAuthenticated() ...
Authenticates(s) ==
  /\ busy = "idle" /\ session[s] \in {"open", "authed"}
  /\ Becomes(s, "authed")
  /\ busy' = "authenticating" /\ fd' = s
  /\ UNCHANGED <<watched, timerVars, works, events, overtaken>>

\* ... and then the entry is erased.
MutantTrusts ==
  /\ busy = "authenticating" /\ busy' = "idle" /\ fd' = -1
  /\ UNCHANGED <<session, watched, timerVars, works, events, overtaken>>
Trusts ==
  /\ busy = "authenticating" /\ busy' = "idle" /\ fd' = -1
  /\ watched' = watched \ {fd}
  /\ UNCHANGED <<session, timerVars, works, events, overtaken>>

Closes(s) ==
  /\ Becomes(s, "none")
  /\ busy' = "closing" /\ fd' = s
  /\ UNCHANGED <<watched, timerVars, events, overtaken>>

\* The client is gone, its request is served, or a handler returned an error.
Ends(s) ==
  /\ busy = "idle" /\ session[s] # "none"
  /\ Closes(s) /\ UNCHANGED works

\* forceCloseWs(): the session that the socket has by now is closed.
ClosingDue(s) == busy = "idle" /\ s \in works /\ works' = works \ {s}

Works(s) ==
  /\ ClosingDue(s)
  /\ \/ session[s] # "none" /\ Closes(s)
     \/ session[s] = "none" /\ UNCHANGED <<session, busy, fd, watched, timerVars, events, overtaken>>

\* The server waits for room in the event loop.
Posts ==
  /\ busy = "closing" /\ Len(events) < MaxEvents
  /\ events' = Append(events, fd)
  /\ busy' = "idle" /\ fd' = -1
  /\ UNCHANGED <<session, watched, timerVars, works, overtaken>>

Httpd == Trusts \/ Posts \/ \E s \in Socket :
           Accepts(s) \/ Upgrades(s) \/ Authenticates(s) \/ Ends(s) \/ Works(s)

-----------------------------------------------------------------------------
(* The task of the default event loop                                       *)

\* onClientConnectionEvent, WS_DISCONNECTED.
Disconnected ==
  /\ events # <<>> /\ events' = Tail(events)
  /\ watched' = watched \ {Head(events)}
  /\ UNCHANGED <<session, busy, fd, timerVars, works, overtaken>>

-----------------------------------------------------------------------------
(* The timer task                                                           *)

Expired == {s \in watched : age[s] = Limit}

\* The map is in the order of the sockets.
MutantFirstOf(S) == {s \in S : Cardinality({t \in S : t < s}) + 1 < MaxClose}
FirstOf(S) == {s \in S : Cardinality({t \in S : t < s}) < MaxClose}

\* checkAuthTimeouts(), with the mutex.
MutantChecks ==
  /\ collected = {} /\ collected' = FirstOf(Expired)
  /\ watched' = watched \ Expired
  /\ age' = [s \in Socket |-> IF s \notin watched' THEN 0 ELSE IF age[s] = Limit THEN Limit ELSE age[s] + 1]
  /\ UNCHANGED <<session, busy, fd, works, events, overtaken>>
Checks ==
  /\ collected = {} /\ collected' = FirstOf(Expired)
  /\ watched' = watched \ collected'
  /\ age' = [s \in Socket |-> IF s \notin watched' THEN 0 ELSE IF age[s] = Limit THEN Limit ELSE age[s] + 1]
  /\ UNCHANGED <<session, busy, fd, works, events, overtaken>>

\* forceCloseWs(), after the mutex has been given.
Queues(s) ==
  /\ s \in collected /\ collected' = collected \ {s}
  /\ works' = works \union {s}
  /\ UNCHANGED <<session, busy, fd, watched, age, events, overtaken>>

Timer == Checks \/ \E s \in collected : Queues(s)

-----------------------------------------------------------------------------
Next == Httpd \/ Disconnected \/ Timer

\* Each round of the HTTP server's loop takes what other tasks have queued for it,
\* whatever clients do.
Fairness ==
  /\ WF_vars(Trusts) /\ WF_vars(Posts) /\ WF_vars(Disconnected) /\ WF_vars(Timer)
  /\ \A s \in Socket : SF_vars(Works(s))

Spec == Init /\ [][Next]_vars /\ Fairness

-----------------------------------------------------------------------------
(* Properties                                                               *)

\* A WebSocket that has not authenticated is watched, or is being closed.  The one that
\* escapes got a socket whose previous session had not been handled: the late disconnect
\* event erases the entry of the new session.
UnauthenticatedWatched ==
  \A s \in Socket : session[s] = "open" => s \in watched \union collected \union works \union overtaken

\* The map names no session that has authenticated, and no socket without a session for
\* longer than its disconnect event takes: the timeout would close a stranger.
EntriesCurrent ==
  \A s \in watched :
    \/ session[s] = "open"
    \/ busy # "idle" /\ fd = s
    \/ s \in Waiting

\* A client that does not authenticate is disconnected, however many there are, or else
\* escapes as above.
UnauthenticatedClosed ==
  \A s \in Socket : session[s] = "open" ~> session[s] # "open" \/ s \in overtaken
=============================================================================
