------------------------------- MODULE DockIr -------------------------------
(***************************************************************************)
(* The infrared commands of the dock's WebSocket API (main/ucd_api.cpp),   *)
(* together with the GlobalCache server's (components/globalcache) and the *)
(* send pipeline they share (IrSend).                                      *)
(*                                                                         *)
(* The HTTP server task handles one WebSocket request at a time and closes *)
(* sessions between two requests.  A closed session is announced by an     *)
(* event on the default event loop: DockApi handles it in the event task,  *)
(* concurrently, and knows the session by its socket number only, which    *)
(* may belong to a new session by then.                                    *)
(***************************************************************************)
EXTENDS IrSend

CONSTANTS
  Httpd,        \* the HTTP server task
  EventTask,    \* the task of the default event loop
  Fd,           \* the socket numbers
  NoFd,         \* -1
  MaxSessions   \* bound: as many WebSocket sessions are opened

GcTask == Sender \ {Httpd}

\* Every task but the event loop's handles requests and may call send().
ASSUME DockTaskAssumption == /\ EventTask \in Task
                             /\ Sender = Task \ {EventTask}
                             /\ Httpd \in Sender
ASSUME FdAssumption == NoFd \notin Fd
ASSUME MaxSessionsAssumption == MaxSessions \in Nat
ASSUME NoEventAssumption == /\ None \notin [fd : Fd, session : 1..MaxSessions]
                            /\ None \notin [fd : Fd, command : {"ir_send", "ir_stop"}]

VARIABLES
  sockfdSendIR, \* sockfdSendIR_: the client that owns a continuous transmission
  session,      \* the session on each socket, 0 if the socket is closed
  sessions,     \* number of sessions opened so far
  serving,      \* what the HTTP server task works on: [fd, command]
  events,       \* the disconnect events posted: [fd, session]
  handling,     \* the one the event task works on
  keeper,       \* history: the session that became the owner last, 0 at first
  overtaken     \* history: it did while the event task was stopping another one

history  == <<keeper, overtaken>>
dockVars == <<sockfdSendIR, session, sessions, serving, events, handling, history>>
allVars  == <<vars, dockVars>>

Session == 1..MaxSessions
Event   == [fd : Fd, session : Session]

DockInit ==
  /\ Init
  /\ sockfdSendIR = NoFd
  /\ session = [fd \in Fd |-> 0]
  /\ sessions = 0
  /\ serving = None
  /\ events = <<>>
  /\ handling = None
  /\ keeper = 0 /\ overtaken = FALSE

-----------------------------------------------------------------------------
(* The HTTP server task                                                    *)

\* accept() hands out a free socket number, the one closed last included.
Connect(fd) ==
  /\ serving = None
  /\ session[fd] = 0
  /\ sessions < MaxSessions
  /\ sessions' = sessions + 1
  /\ session' = [session EXCEPT ![fd] = sessions + 1]
  /\ UNCHANGED <<vars, sockfdSendIR, serving, events, handling, history>>

\* The session is closed and HTTP_SERVER_EVENT_DISCONNECTED posted.
Disconnect(fd) ==
  /\ serving = None
  /\ session[fd] # 0
  /\ session' = [session EXCEPT ![fd] = 0]
  /\ events' = Append(events, [fd |-> fd, session |-> session[fd]])
  /\ UNCHANGED <<vars, sockfdSendIR, sessions, serving, handling, history>>

\* ir_send: send() runs in the HTTP server task.
ServeSend(fd, r) ==
  /\ serving = None
  /\ session[fd] # 0
  /\ Call(Httpd, r)
  /\ serving' = [fd |-> fd, command |-> "ir_send"]
  /\ UNCHANGED <<sockfdSendIR, session, sessions, events, handling, history>>

ServeStop(fd) ==
  /\ serving = None
  /\ session[fd] # 0
  /\ SetStop(Httpd)
  /\ serving' = [fd |-> fd, command |-> "ir_stop"]
  /\ UNCHANGED <<sockfdSendIR, session, sessions, events, handling, history>>

\* ir_receive_on and ir_receive_off
ServeLearn(fd, on) ==
  /\ serving = None
  /\ session[fd] # 0
  /\ SetLearning(Httpd, on)
  /\ UNCHANGED dockVars

\* A transmission goes on by itself if it repeats or holds.
MutantContinuous(rq) == rq.repeat > 0
Continuous(rq) == rq.repeat > 0 \/ rq.hold > 0

\* send() returned.  noResponse is the client's IR_REPEAT_NO_RESPONSE flag:
\* without it, a 202 is answered like an error and changes no owner.
FinishSend(noResponse) ==
  /\ serving # None
  /\ serving.command = "ir_send"
  /\ LET rq == call[Httpd].rq
         response == result[Httpd]
         asynchronous == response = 0 \/ (response = 202 /\ noResponse)
     IN \/ /\ asynchronous /\ Continuous(rq)
           /\ sockfdSendIR' = serving.fd
           /\ keeper' = session[serving.fd]
           /\ overtaken' = (pc[EventTask] # "idle")
        \/ /\ asynchronous /\ ~Continuous(rq) /\ response = 0
           /\ sockfdSendIR' = NoFd
           /\ UNCHANGED history
        \/ /\ ~asynchronous
           /\ UNCHANGED <<sockfdSendIR, history>>
  /\ Return(Httpd)
  /\ serving' = None
  /\ UNCHANGED <<session, sessions, events, handling>>

FinishStop ==
  /\ serving # None
  /\ serving.command = "ir_stop"
  /\ Return(Httpd)
  /\ sockfdSendIR' = NoFd
  /\ serving' = None
  /\ UNCHANGED <<session, sessions, events, handling, history>>

-----------------------------------------------------------------------------
(* The event task: WS_DISCONNECTED                                         *)

\* Is the closed socket the one that owns the transmission?
Owns(fd) == sockfdSendIR = fd

TakeEvent ==
  /\ handling = None
  /\ events # <<>>
  /\ events' = Tail(events)
  /\ handling' = Head(events)
  /\ UNCHANGED <<vars, sockfdSendIR, session, sessions, serving, history>>

StopOwned ==
  /\ handling # None
  /\ Owns(handling.fd)
  /\ SetStop(EventTask)
  /\ UNCHANGED dockVars

NotOwned ==
  /\ handling # None
  /\ pc[EventTask] = "idle"
  /\ ~Owns(handling.fd)
  /\ handling' = None
  /\ UNCHANGED <<vars, sockfdSendIR, session, sessions, serving, events, history>>

\* stopSend() returned: whoever owns a transmission by now is forgotten.
MutantRemembered == sockfdSendIR
Forgotten == NoFd

ForgetOwner ==
  /\ handling # None
  /\ Return(EventTask)
  /\ sockfdSendIR' = Forgotten
  /\ handling' = None
  /\ UNCHANGED <<session, sessions, serving, events, history>>

-----------------------------------------------------------------------------
(* The GlobalCache socket tasks                                            *)

\* sendGlobalCache accepts repeat counts from 1, and there is no hold.  Any
\* command but stop_IRL ends learning first (GcLearn), whoever started it; a
\* client that turns it on again before send() looks makes send() refuse.
GcSend(t, r) ==
  /\ r.repeat > 0 /\ r.hold = 0 /\ r.valid
  /\ Call(t, r)
  /\ UNCHANGED dockVars

GcLearn(t, on) == SetLearning(t, on) /\ UNCHANGED dockVars

GcStop(t) == SetStop(t) /\ UNCHANGED dockVars

GcReturn(t) == Return(t) /\ UNCHANGED dockVars

-----------------------------------------------------------------------------
HttpdNext == \/ \E fd \in Fd : Connect(fd) \/ Disconnect(fd) \/ ServeStop(fd)
             \/ \E fd \in Fd, r \in Request : ServeSend(fd, r)
             \/ \E fd \in Fd, on \in BOOLEAN : ServeLearn(fd, on)
             \/ \E noResponse \in BOOLEAN : FinishSend(noResponse)
             \/ FinishStop

EventNext == TakeEvent \/ StopOwned \/ NotOwned \/ ForgetOwner

GcNext == \/ \E t \in GcTask, r \in Request : GcSend(t, r)
          \/ \E t \in GcTask, on \in BOOLEAN : GcLearn(t, on)
          \/ \E t \in GcTask : GcStop(t) \/ GcReturn(t)

\* The steps inside send(), stopSend() and the send task.
ServiceNext == /\ \/ \E t \in Sender : SendStep(t)
                  \/ \E t \in Task : ClearRepeat(t)
                  \/ SendTask
               /\ UNCHANGED dockVars

DockNext == HttpdNext \/ EventNext \/ GcNext \/ ServiceNext

DockSpec == DockInit /\ [][DockNext]_allVars

\* Every task makes progress: each is a FreeRTOS task that blocks only where
\* its guard says so.  Clients promise nothing.
DockFairSpec ==
  /\ DockSpec
  /\ WF_allVars(SendTask /\ UNCHANGED dockVars)
  /\ WF_allVars(EventNext)
  /\ WF_allVars(ClearRepeat(EventTask) /\ UNCHANGED dockVars)

-----------------------------------------------------------------------------
(* Properties                                                              *)

\* ucd_api.cpp l.509-515: sockfdSendIR_ never names a socket that is closed
\* and whose disconnect event was already handled: nobody would clear it.
OwnerNotDangling ==
  sockfdSendIR # NoFd =>
    \/ session[sockfdSendIR] # 0
    \/ \E i \in 1..Len(events) : events[i].fd = sockfdSendIR
    \/ handling # None /\ handling.fd = sockfdSendIR

\* No request or disconnect is being worked on.
Settled == serving = None /\ events = <<>> /\ handling = None

Vanished(s) == s # 0 /\ \A fd \in Fd : session[fd] # s

\* ucd_api.cpp l.509-515, l.863-876: without a GlobalCache client, a
\* transmission that repeats or holds does not go on after the client that
\* started it vanished, or the one that extended it last and asked for no
\* response, whichever sockets the sessions reuse meanwhile -- unless it became
\* the owner while the event task was stopping another client's transmission,
\* and was forgotten with that one (l.514).
VanishedOwnerStopped ==
  (/\ Settled
   /\ queue # <<>> /\ Promoted(Head(queue).rq) > 0
   /\ Vanished(keeper) /\ ~overtaken) => stopBit
=============================================================================
