---------------------------- MODULE DockIrProofs ----------------------------
(***************************************************************************)
(* The dock's infrared commands only use the infrared service: whatever    *)
(* IrSendProofs proves of the service holds in the dock, for any number of *)
(* sockets, sessions and GlobalCache clients.  The owner of a transmission *)
(* is an open socket or one whose disconnect event is still to come.       *)
(***************************************************************************)
EXTENDS DockIr, IrSendProofs

USE DEF callerVars, bitVars, txVars, historyVars

-----------------------------------------------------------------------------
(* Every step of the dock is a step of the service or leaves it alone      *)

LEMMA DockInitService == DockInit => Init
  BY DEF DockInit

LEMMA DockStepService == [DockNext]_allVars => [Next]_vars
<1> SUFFICES ASSUME [DockNext]_allVars PROVE [Next]_vars
  OBVIOUS
<1> USE DockTaskAssumption, TaskAssumption DEF GcTask
<1>1. CASE HttpdNext
  <2>1. ASSUME NEW fd \in Fd, Connect(fd) \/ Disconnect(fd) PROVE UNCHANGED vars
    BY <2>1 DEF Connect, Disconnect
  <2>2. ASSUME NEW fd \in Fd, ServeStop(fd) PROVE Next
    BY <2>2 DEF ServeStop, Next
  <2>3. ASSUME NEW fd \in Fd, NEW r \in Request, ServeSend(fd, r) PROVE Next
    BY <2>3 DEF ServeSend, Next
  <2>4. ASSUME NEW fd \in Fd, NEW on \in BOOLEAN, ServeLearn(fd, on) PROVE Next
    BY <2>4 DEF ServeLearn, Next
  <2>5. ASSUME NEW noResponse \in BOOLEAN, FinishSend(noResponse) PROVE Next
    BY <2>5 DEF FinishSend, Next
  <2>6. CASE FinishStop
    BY <2>6 DEF FinishStop, Next
  <2> QED BY <1>1, <2>1, <2>2, <2>3, <2>4, <2>5, <2>6 DEF HttpdNext
<1>2. CASE EventNext
  BY <1>2 DEF EventNext, TakeEvent, StopOwned, NotOwned, ForgetOwner, Next
<1>3. CASE GcNext
  <2>1. ASSUME NEW t \in GcTask, NEW r \in Request, GcSend(t, r) PROVE Next
    BY <2>1 DEF GcSend, Next
  <2>2. ASSUME NEW t \in GcTask, NEW on \in BOOLEAN, GcLearn(t, on) PROVE Next
    BY <2>2 DEF GcLearn, Next
  <2>3. ASSUME NEW t \in GcTask, GcStop(t) \/ GcReturn(t) PROVE Next
    BY <2>3 DEF GcStop, GcReturn, Next
  <2> QED BY <1>3, <2>1, <2>2, <2>3 DEF GcNext
<1>4. CASE ServiceNext
  BY <1>4 DEF ServiceNext, Next
<1>5. CASE UNCHANGED allVars
  BY <1>5 DEF allVars, vars
<1> QED BY <1>1, <1>2, <1>3, <1>4, <1>5 DEF DockNext

\* The dock is one of the environments Spec allows for.
THEOREM DockUsesService == DockSpec => Spec
  BY DockInitService, DockStepService, PTL DEF DockSpec, Spec

\* So the dock's infrared transmitter works on one request at a time, and
\* answers each request it accepted exactly once.
THEOREM DockTransmitter == DockSpec => ImplementsTransmitter
  BY DockUsesService, Implementation, PTL

\* Whoever connects, vanishes or is a GlobalCache client: nothing but the
\* message just answered is discarded, and no request runs away.
THEOREM DockPipeline == DockSpec => [](QueueHeadOwned /\ RunawayBound)
  BY DockUsesService, QueueHeadIsOwned, NoRunaway, PTL

\* A stop by ir_stop, stopir or a disconnect ends a transmission that repeats
\* or holds within a frame, with any number of clients: only a request that
\* races with the start of that transmission can take it away ...
THEOREM DockStopIsKept == DockSpec => []StopKept
  BY DockUsesService, StopIsKept, PTL

\* ... which needs a GlobalCache client.
THEOREM DockStopIsHonoured ==
  ASSUME OneSender
  PROVE  DockSpec => []StopHonoured
  BY DockUsesService, StopIsHonoured, PTL

-----------------------------------------------------------------------------
(* The owner of a transmission                                             *)

OwnerInv ==
  /\ session \in [Fd -> 0..MaxSessions]
  /\ sessions \in 0..MaxSessions
  /\ events \in Seq(Event)
  /\ serving # None => serving.fd \in Fd /\ session[serving.fd] # 0
  /\ sockfdSendIR \in Fd \union {NoFd}
  /\ OwnerNotDangling

LEMMA OwnerInit == DockInit => OwnerInv
<1> SUFFICES ASSUME DockInit PROVE OwnerInv
  OBVIOUS
<1> USE FdAssumption, MaxSessionsAssumption DEF DockInit
<1>1. session \in [Fd -> 0..MaxSessions] /\ sessions \in 0..MaxSessions
  OBVIOUS
<1>2. events \in Seq(Event)
  OBVIOUS
<1> QED BY <1>1, <1>2 DEF OwnerInv, OwnerNotDangling

\* A disconnect event that was posted stays posted, or is the one handled.
LEMMA EventsKept ==
  ASSUME events \in Seq(Event), NEW e \in Event, NEW fd
  PROVE  /\ Append(events, e) \in Seq(Event)
         /\ (\E i \in 1..Len(events) : events[i].fd = fd)
              => \E i \in 1..Len(Append(events, e)) : Append(events, e)[i].fd = fd
         /\ \E i \in 1..Len(Append(events, e)) : Append(events, e)[i].fd = e.fd
<1>1. /\ Append(events, e) \in Seq(Event)
      /\ Len(Append(events, e)) = Len(events) + 1
      /\ Append(events, e)[Len(events) + 1] = e
      /\ \A i \in 1..Len(events) : Append(events, e)[i] = events[i]
      /\ Len(events) \in Nat
  OBVIOUS
<1> QED BY <1>1

LEMMA EventTaken ==
  ASSUME events \in Seq(Event), events # <<>>, NEW fd,
         NEW i \in 1..Len(events), events[i].fd = fd
  PROVE  \/ Head(events).fd = fd
         \/ \E j \in 1..Len(Tail(events)) : Tail(events)[j].fd = fd
<1>1. /\ Len(events) \in Nat /\ Len(events) > 0
      /\ Len(Tail(events)) = Len(events) - 1
      /\ \A j \in 1..Len(Tail(events)) : Tail(events)[j] = events[j + 1]
      /\ Head(events) = events[1]
  OBVIOUS
<1>2. CASE i = 1
  BY <1>1, <1>2
<1>3. CASE i # 1
  <2>1. i - 1 \in 1..Len(Tail(events)) /\ Tail(events)[i - 1] = events[i]
    BY <1>1, <1>3
  <2> QED BY <2>1
<1> QED BY <1>2, <1>3

LEMMA OwnerStep == OwnerInv /\ [DockNext]_allVars => OwnerInv'
<1> SUFFICES ASSUME OwnerInv, [DockNext]_allVars PROVE OwnerInv'
  OBVIOUS
<1> USE FdAssumption, MaxSessionsAssumption
<1>0. /\ session \in [Fd -> 0..MaxSessions]
      /\ sessions \in 0..MaxSessions
      /\ events \in Seq(Event)
      /\ serving # None => serving.fd \in Fd /\ session[serving.fd] # 0
      /\ sockfdSendIR \in Fd \union {NoFd}
      /\ OwnerNotDangling
  BY DEF OwnerInv
<1>1. ASSUME NEW fd \in Fd, Connect(fd) PROVE OwnerInv'
  <2>1. sessions + 1 \in 1..MaxSessions
    BY <1>0, <1>1 DEF Connect
  <2> QED BY <1>0, <1>1, <2>1 DEF Connect, OwnerInv, OwnerNotDangling
<1>2. ASSUME NEW fd \in Fd, Disconnect(fd) PROVE OwnerInv'
  <2> DEFINE e == [fd |-> fd, session |-> session[fd]]
  <2>1. e \in Event /\ e.fd = fd
    BY <1>0, <1>2 DEF Disconnect, Event, Session
  <2>2. /\ session' = [session EXCEPT ![fd] = 0]
        /\ events' = Append(events, e)
        /\ UNCHANGED <<sockfdSendIR, sessions, serving, handling>>
        /\ serving = None
    BY <1>2 DEF Disconnect
  <2> HIDE DEF e
  <2>3. events' \in Seq(Event)
    BY <1>0, <2>1, <2>2, EventsKept
  <2>4. OwnerNotDangling'
    <3> SUFFICES ASSUME sockfdSendIR # NoFd
                 PROVE  \/ session'[sockfdSendIR] # 0
                        \/ \E i \in 1..Len(events') : events'[i].fd = sockfdSendIR
                        \/ handling # None /\ handling.fd = sockfdSendIR
      BY <2>2 DEF OwnerNotDangling
    <3>1. CASE sockfdSendIR = fd
      BY <1>0, <2>1, <2>2, <3>1, EventsKept
    <3>2. CASE sockfdSendIR # fd
      BY <1>0, <2>1, <2>2, <3>2, EventsKept DEF OwnerNotDangling
    <3> QED BY <3>1, <3>2
  <2> QED BY <1>0, <2>2, <2>3, <2>4 DEF OwnerInv
<1>3. ASSUME NEW noResponse \in BOOLEAN, FinishSend(noResponse) PROVE OwnerInv'
  <2>1. sockfdSendIR' \in {sockfdSendIR, NoFd, serving.fd} /\ serving # None
    BY <1>3 DEF FinishSend
  <2>2. UNCHANGED <<session, sessions, events, handling>> /\ serving' = None
    BY <1>3 DEF FinishSend
  <2> QED BY <1>0, <2>1, <2>2 DEF OwnerInv, OwnerNotDangling
<1>4. CASE FinishStop \/ ForgetOwner
  BY <1>0, <1>4 DEF FinishStop, ForgetOwner, Forgotten, OwnerInv, OwnerNotDangling
<1>5. CASE TakeEvent
  <2>1. /\ handling = None /\ events # <<>>
        /\ events' = Tail(events) /\ handling' = Head(events)
        /\ UNCHANGED <<sockfdSendIR, session, sessions, serving>>
    BY <1>5 DEF TakeEvent
  <2>2. events' \in Seq(Event) /\ Head(events) \in Event
    BY <1>0, <2>1
  <2>3. handling' # None
    BY <2>1, <2>2, NoEventAssumption DEF Event, Session
  <2>4. OwnerNotDangling'
    <3>1. CASE \E i \in 1..Len(events) : events[i].fd = sockfdSendIR
      BY <1>0, <2>1, <2>3, <3>1, EventTaken DEF OwnerNotDangling
    <3>2. CASE ~ \E i \in 1..Len(events) : events[i].fd = sockfdSendIR
      BY <1>0, <2>1, <3>2 DEF OwnerNotDangling
    <3> QED BY <3>1, <3>2
  <2> QED BY <1>0, <2>1, <2>2, <2>4 DEF OwnerInv
<1>6. CASE NotOwned
  <2>1. sockfdSendIR # handling.fd /\ UNCHANGED <<sockfdSendIR, session, sessions, serving, events>>
    BY <1>6 DEF NotOwned, Owns
  <2> QED BY <1>0, <2>1 DEF OwnerInv, OwnerNotDangling
<1>7. ASSUME NEW fd \in Fd, \/ \E r \in Request : ServeSend(fd, r)
                            \/ ServeStop(fd)
      PROVE  OwnerInv'
  <2>1. /\ session[fd] # 0 /\ serving'.fd = fd
        /\ UNCHANGED <<sockfdSendIR, session, sessions, events, handling>>
    BY <1>7 DEF ServeSend, ServeStop
  <2> QED BY <1>0, <2>1 DEF OwnerInv, OwnerNotDangling
<1>8. ASSUME UNCHANGED dockVars PROVE OwnerInv'
  BY <1>0, <1>8 DEF dockVars, OwnerInv, OwnerNotDangling
<1>9. CASE HttpdNext
  BY <1>1, <1>2, <1>3, <1>4, <1>7, <1>8, <1>9 DEF HttpdNext, ServeLearn
<1>10. CASE EventNext
  BY <1>4, <1>5, <1>6, <1>8, <1>10 DEF EventNext, StopOwned
<1>11. CASE GcNext \/ ServiceNext
  BY <1>8, <1>11 DEF GcNext, GcSend, GcLearn, GcStop, GcReturn, ServiceNext
<1>12. CASE UNCHANGED allVars
  BY <1>8, <1>12 DEF allVars
<1> QED BY <1>9, <1>10, <1>11, <1>12 DEF DockNext

\* The owner of a transmission never names a closed socket whose disconnect
\* was handled already.
THEOREM OwnerIsKnown == DockSpec => []OwnerNotDangling
<1>1. OwnerInv => OwnerNotDangling
  BY DEF OwnerInv
<1> QED BY <1>1, OwnerInit, OwnerStep, PTL DEF DockSpec

-----------------------------------------------------------------------------
(* The transmission of a client that vanished.  With one sender only, as   *)
(* in IrSendProofs: the GlobalCache server clears the stop bit of others.  *)

\* What the HTTP server task is inside of is what it serves, and a stop it
\* serves has stopped the transmission.  A send() that returns 0 while a
\* message is queued returns for that message.
ServeOK ==
  /\ serving = None <=> pc[Httpd] = "idle"
  /\ serving # None /\ serving.command = "ir_stop" =>
       pc[Httpd] \in {"stop", "returned"} /\ (queue # <<>> => stopBit)
  /\ serving # None /\ serving.command = "ir_send" => pc[Httpd] \in InSend \union {"returned"}
  /\ handling = None => pc[EventTask] = "idle"
  /\ pc[Httpd] = "returned" /\ result[Httpd] = 0 /\ queue # <<>> => Head(queue) = call[Httpd]

\* The message on the queue is that of the call being served: its client
\* becomes the owner when it returns.
InCall == pc[Httpd] = "record" \/ (pc[Httpd] = "returned" /\ result[Httpd] = 0)

\* A transmission goes on by itself and was not stopped.
Ongoing == queue # <<>> /\ Promoted(Head(queue).rq) > 0 /\ ~stopBit

\* The owner is connected, or its disconnect will be handled and find it the
\* owner.
KeeperEvent == [fd |-> sockfdSendIR, session |-> keeper]

Tracked ==
  /\ sockfdSendIR \in Fd /\ keeper # 0
  /\ \/ session[sockfdSendIR] = keeper
     \/ \E i \in 1..Len(events) : events[i] = KeeperEvent
     \/ handling # None /\ handling = KeeperEvent /\ pc[EventTask] = "idle"

KeptOK == Ongoing /\ ~overtaken => InCall \/ Tracked

\* A transmission that started after the event task set the stop bit is not
\* stopped, and its owner will be forgotten.
RaceOK == Ongoing /\ pc[EventTask] # "idle" => InCall \/ overtaken

KeeperInv == AloneInv /\ OwnerInv /\ ServeOK /\ KeptOK /\ RaceOK

LEMMA KeeperInit == DockInit => KeeperInv
<1> SUFFICES ASSUME DockInit PROVE KeeperInv
  OBVIOUS
<1>1. AloneInv /\ OwnerInv
  BY DockInitService, InitAlone, OwnerInit
<1>2. /\ queue = <<>> /\ serving = None /\ handling = None
      /\ pc[Httpd] = "idle" /\ pc[EventTask] = "idle"
  BY DockTaskAssumption DEF DockInit, Init
<1>3. ServeOK /\ KeptOK /\ RaceOK
  BY <1>2 DEF ServeOK, KeptOK, RaceOK, Ongoing
<1> QED BY <1>1, <1>3 DEF KeeperInv

\* The tasks are the HTTP server's and the event loop's.
LEMMA OnlyHttpd ==
  ASSUME OneSender
  PROVE  /\ Sender = {Httpd} /\ GcTask = {} /\ Task = {Httpd, EventTask}
         /\ Httpd # EventTask
  BY DockTaskAssumption DEF OneSender, GcTask

\* The sequence of the disconnect events, event by event.
LEMMA EventKept ==
  ASSUME events \in Seq(Event), NEW e \in Event, NEW d
  PROVE  /\ (\E i \in 1..Len(events) : events[i] = d)
              => \E i \in 1..Len(Append(events, e)) : Append(events, e)[i] = d
         /\ \E i \in 1..Len(Append(events, e)) : Append(events, e)[i] = e
<1>1. /\ Len(Append(events, e)) = Len(events) + 1
      /\ Append(events, e)[Len(events) + 1] = e
      /\ \A i \in 1..Len(events) : Append(events, e)[i] = events[i]
      /\ Len(events) \in Nat
  OBVIOUS
<1> QED BY <1>1

LEMMA EventOut ==
  ASSUME events \in Seq(Event), events # <<>>, NEW d,
         NEW i \in 1..Len(events), events[i] = d
  PROVE  Head(events) = d \/ \E j \in 1..Len(Tail(events)) : Tail(events)[j] = d
<1>1. /\ Len(events) \in Nat /\ Len(events) > 0
      /\ Len(Tail(events)) = Len(events) - 1
      /\ \A j \in 1..Len(Tail(events)) : Tail(events)[j] = events[j + 1]
      /\ Head(events) = events[1]
  OBVIOUS
<1>2. CASE i = 1
  BY <1>1, <1>2
<1>3. CASE i # 1
  <2>1. i - 1 \in 1..Len(Tail(events)) /\ Tail(events)[i - 1] = events[i]
    BY <1>1, <1>3
  <2> QED BY <2>1
<1> QED BY <1>2, <1>3

\* A step of send() past its entry: what it does to the queue, the stop bit
\* and the call.
LEMMA SendStepCases ==
  ASSUME OneSender, AloneInv, SendStep(Httpd)
  PROVE  /\ UNCHANGED call /\ pc[Httpd] \in InSend /\ pc'[EventTask] = pc[EventTask]
         /\ pc'[Httpd] \in InSend \union {"returned"}
         /\ \/ /\ UNCHANGED <<queue, stopBit>> /\ pc[Httpd] # "record"
               /\ pc'[Httpd] # "record"
               /\ pc'[Httpd] = "returned" => result'[Httpd] # 0
            \/ /\ queue = <<>> /\ UNCHANGED queue /\ pc'[Httpd] = "enqueue"
            \/ /\ queue = <<>> /\ UNCHANGED stopBit /\ pc'[Httpd] = "record"
            \/ /\ UNCHANGED <<queue, stopBit>> /\ pc[Httpd] = "record"
               /\ pc'[Httpd] = "returned" /\ result'[Httpd] = 0
<1> USE OnlyHttpd DEF InSend, Goto, ReturnWith
<1>0. /\ TypeOK /\ SoleOK /\ IInv
      /\ pc \in [Task -> {"idle", "sending?", "compare", "extend", "clear", "enqueue",
                          "record", "stop", "returned"}]
      /\ result \in [Task -> {0, 200, 202, 400, 429, 503}]
      /\ Httpd \in Task /\ EventTask \in Task
  BY DEF AloneInv, IInv, TypeOK
<1>1. CASE CheckSending(Httpd)
  BY <1>0, <1>1 DEF CheckSending
<1>2. CASE CompareCode(Httpd)
  BY <1>0, <1>2 DEF CompareCode
<1>3. CASE Extend(Httpd)
  BY <1>0, <1>3 DEF Extend
<1>4. CASE ClearBits(Httpd)
  BY <1>0, <1>4 DEF ClearBits, SoleOK
<1>5. CASE Enqueue(Httpd)
  BY <1>0, <1>5 DEF Enqueue, SoleOK
<1>6. CASE RecordCode(Httpd)
  BY <1>0, <1>6 DEF RecordCode
<1> QED BY <1>1, <1>2, <1>3, <1>4, <1>5, <1>6 DEF SendStep

\* A step of the send task empties the queue or leaves it alone.
LEMMA SendTaskCases ==
  ASSUME SendTask
  PROVE  /\ UNCHANGED <<pc, call, result, stopBit>>
         /\ queue' = queue \/ queue' = <<>>
  BY DEF SendTask, Peek, Peeked, OutOfMemory, Frame, Callback, Rearm, Decide, Reply, Release

\* The only queued message is a request within the cap.
LEMMA HeadType ==
  ASSUME AloneInv, queue # <<>>
  PROVE  /\ Head(queue) \in Message
         /\ Head(queue).rq.repeat \in Nat /\ Head(queue).rq.hold \in Nat
  BY DEF AloneInv, IInv, QueueOK, Message, RequestType

LEMMA ServedIsSome ==
  ASSUME NEW fd \in Fd, NEW c \in {"ir_send", "ir_stop"}
  PROVE  [fd |-> fd, command |-> c] # None
  BY NoEventAssumption

LEMMA ServeStep ==
  ASSUME OneSender, KeeperInv, [DockNext]_allVars
  PROVE  ServeOK'
<1> USE OnlyHttpd DEF InSend, Goto
<1>0. /\ AloneInv /\ ServeOK /\ SoleOK
      /\ pc \in [Task -> {"idle", "sending?", "compare", "extend", "clear", "enqueue",
                          "record", "stop", "returned"}]
      /\ result \in [Task -> {0, 200, 202, 400, 429, 503}]
      /\ call \in [Task -> Message \union {None}]
      /\ events \in Seq(Event)
      /\ Httpd \in Task /\ EventTask \in Task
  BY DEF KeeperInv, AloneInv, IInv, TypeOK, OwnerInv
<1>1. ASSUME UNCHANGED <<serving, handling, pc, result, call, stopBit>>, queue' = queue \/ queue' = <<>>
      PROVE  ServeOK'
  BY <1>0, <1>1 DEF ServeOK
<1>2. ASSUME NEW fd \in Fd, Connect(fd) \/ Disconnect(fd) PROVE ServeOK'
  BY <1>1, <1>2 DEF Connect, Disconnect, vars
<1>3. ASSUME NEW fd \in Fd, NEW r \in Request, ServeSend(fd, r) PROVE ServeOK'
  <2>1. /\ serving' = [fd |-> fd, command |-> "ir_send"] /\ UNCHANGED <<handling, queue>>
        /\ pc'[Httpd] \in {"sending?", "returned"} /\ pc'[EventTask] = pc[EventTask]
        /\ pc'[Httpd] = "returned" => result'[Httpd] # 0
    BY <1>0, <1>3 DEF ServeSend, Call, ReturnWith
  <2>2. serving' # None
    BY <2>1, ServedIsSome
  <2> QED BY <1>0, <2>1, <2>2 DEF ServeOK
<1>4. ASSUME NEW fd \in Fd, ServeStop(fd) PROVE ServeOK'
  <2>1. /\ serving' = [fd |-> fd, command |-> "ir_stop"] /\ UNCHANGED <<handling, queue>>
        /\ pc'[Httpd] = "stop" /\ pc'[EventTask] = pc[EventTask] /\ stopBit'
    BY <1>0, <1>4 DEF ServeStop, SetStop
  <2>2. serving' # None
    BY <2>1, ServedIsSome
  <2> QED BY <1>0, <2>1, <2>2 DEF ServeOK
<1>5. ASSUME NEW fd \in Fd, NEW on \in BOOLEAN, ServeLearn(fd, on) PROVE ServeOK'
  BY <1>1, <1>5 DEF ServeLearn, SetLearning, dockVars
<1>6. ASSUME NEW noResponse \in BOOLEAN, FinishSend(noResponse) PROVE ServeOK'
  <2>1. /\ serving' = None /\ UNCHANGED <<handling, queue>>
        /\ pc'[Httpd] = "idle" /\ pc'[EventTask] = pc[EventTask]
    BY <1>0, <1>6 DEF FinishSend, Return
  <2> QED BY <1>0, <2>1 DEF ServeOK
<1>7. CASE FinishStop
  <2>1. /\ serving' = None /\ UNCHANGED <<handling, queue>>
        /\ pc'[Httpd] = "idle" /\ pc'[EventTask] = pc[EventTask]
    BY <1>0, <1>7 DEF FinishStop, Return
  <2> QED BY <1>0, <2>1 DEF ServeOK
<1>8. CASE TakeEvent
  <2>1. /\ handling' = Head(events) /\ events # <<>>
        /\ UNCHANGED <<serving, pc, result, call, queue, stopBit>>
    BY <1>8 DEF TakeEvent, vars
  <2>2. handling' # None
    <3>1. Head(events) \in Event
      BY <1>0, <2>1
    <3> QED BY <2>1, <3>1, NoEventAssumption DEF Event, Session
  <2> QED BY <1>0, <2>1, <2>2 DEF ServeOK
<1>9. CASE StopOwned
  <2>1. /\ UNCHANGED <<serving, handling, result, call, queue>> /\ handling # None /\ stopBit'
        /\ pc'[Httpd] = pc[Httpd]
    BY <1>0, <1>9 DEF StopOwned, SetStop, dockVars
  <2> QED BY <1>0, <2>1 DEF ServeOK
<1>10. CASE NotOwned
  BY <1>0, <1>10 DEF NotOwned, vars, ServeOK
<1>11. CASE ForgetOwner
  <2>1. /\ UNCHANGED <<serving, queue, stopBit>> /\ handling' = None
        /\ pc'[EventTask] = "idle"
        /\ pc'[Httpd] = pc[Httpd] /\ result'[Httpd] = result[Httpd] /\ call'[Httpd] = call[Httpd]
    BY <1>0, <1>11 DEF ForgetOwner, Return
  <2> QED BY <1>0, <2>1 DEF ServeOK
<1>12. CASE SendStep(Httpd) /\ UNCHANGED dockVars
  <2>1. UNCHANGED <<serving, handling>> /\ pc'[EventTask] = pc[EventTask]
    BY <1>0, <1>12, SendStepCases DEF dockVars
  <2>2. pc[Httpd] \in InSend /\ pc'[Httpd] \in InSend \union {"returned"} /\ UNCHANGED call
    BY <1>0, <1>12, SendStepCases
  <2>3. pc'[Httpd] = "returned" /\ result'[Httpd] = 0 /\ queue' # <<>> => Head(queue') = call'[Httpd]
    BY <1>0, <1>12, SendStepCases DEF SoleOK
  <2>4. serving # None /\ serving.command # "ir_stop"
    BY <1>0, <2>2 DEF ServeOK
  <2> QED BY <1>0, <2>1, <2>2, <2>3, <2>4 DEF ServeOK
<1>13. ASSUME NEW t \in Task, ClearRepeat(t), UNCHANGED dockVars PROVE ServeOK'
  <2>1. UNCHANGED <<serving, handling, queue, stopBit, call>>
    BY <1>13 DEF ClearRepeat, dockVars
  <2>2. CASE t = Httpd
    <3>1. /\ pc[Httpd] = "stop" /\ pc'[Httpd] = "returned" /\ result'[Httpd] = 200
          /\ pc'[EventTask] = pc[EventTask]
      BY <1>0, <1>13, <2>2 DEF ClearRepeat, ReturnWith
    <3> QED BY <1>0, <2>1, <3>1 DEF ServeOK
  <2>3. CASE t = EventTask
    <3>1. /\ pc[EventTask] = "stop"
          /\ pc'[Httpd] = pc[Httpd] /\ result'[Httpd] = result[Httpd]
      BY <1>0, <1>13, <2>3 DEF ClearRepeat, ReturnWith
    <3> QED BY <1>0, <2>1, <3>1 DEF ServeOK
  <2> QED BY <2>2, <2>3
<1>14. CASE SendTask /\ UNCHANGED dockVars
  BY <1>1, <1>14, SendTaskCases DEF dockVars
<1>15. CASE UNCHANGED allVars
  BY <1>1, <1>15 DEF allVars, vars, dockVars
<1>16. CASE HttpdNext
  BY <1>2, <1>3, <1>4, <1>5, <1>6, <1>7, <1>16 DEF HttpdNext
<1>17. CASE EventNext
  BY <1>8, <1>9, <1>10, <1>11, <1>17 DEF EventNext
<1>18. CASE GcNext
  BY <1>18 DEF GcNext
<1>19. CASE ServiceNext
  BY <1>12, <1>13, <1>14, <1>19 DEF ServiceNext
<1> QED BY <1>15, <1>16, <1>17, <1>18, <1>19 DEF DockNext

\* The steps that leave the owner, the sessions and the events alone.
OwnerVars == <<sockfdSendIR, session, events, handling, keeper, overtaken>>

LEMMA KeptQuiet ==
  ASSUME KeptOK, RaceOK, UNCHANGED OwnerVars, pc'[EventTask] = pc[EventTask],
         Ongoing' => Ongoing,
         Ongoing' /\ InCall => InCall'
  PROVE  KeptOK' /\ RaceOK'
<1>1. Ongoing' /\ ~overtaken => InCall' \/ Tracked
  BY DEF KeptOK, OwnerVars
<1>2. Tracked => Tracked'
  BY DEF Tracked, KeeperEvent, OwnerVars
<1>3. KeptOK'
  BY <1>1, <1>2 DEF KeptOK, OwnerVars
<1>4. RaceOK'
  BY DEF RaceOK, OwnerVars
<1> QED BY <1>3, <1>4

LEMMA KeptStep ==
  ASSUME OneSender, KeeperInv, [DockNext]_allVars
  PROVE  KeptOK' /\ RaceOK'
<1> USE OnlyHttpd DEF InSend, Goto
<1>0. /\ AloneInv /\ ServeOK /\ SoleOK /\ KeptOK /\ RaceOK /\ OwnerInv
      /\ pc \in [Task -> {"idle", "sending?", "compare", "extend", "clear", "enqueue",
                          "record", "stop", "returned"}]
      /\ result \in [Task -> {0, 200, 202, 400, 429, 503}]
      /\ call \in [Task -> Message \union {None}]
      /\ session \in [Fd -> 0..MaxSessions] /\ events \in Seq(Event)
      /\ Httpd \in Task /\ EventTask \in Task
  BY DEF KeeperInv, AloneInv, IInv, TypeOK, OwnerInv
<1>1. ASSUME UNCHANGED <<OwnerVars, pc, result, stopBit>>, queue' = queue \/ queue' = <<>>
      PROVE  KeptOK' /\ RaceOK'
  <2>1. (Ongoing' => Ongoing) /\ (InCall => InCall')
    BY <1>1 DEF Ongoing, InCall
  <2> QED BY <1>0, <1>1, <2>1, KeptQuiet
\* A socket that is handed out again does not take the place of an owner that
\* is still tracked by its event.
<1>2. ASSUME NEW fd \in Fd, Connect(fd) PROVE KeptOK' /\ RaceOK'
  <2>1. /\ session[fd] = 0 /\ session' = [session EXCEPT ![fd] = sessions + 1]
        /\ UNCHANGED <<pc, result, queue, stopBit, sockfdSendIR, events, handling, keeper, overtaken>>
    BY <1>2 DEF Connect, vars, history
  <2>2. (Ongoing' => Ongoing) /\ (InCall <=> InCall')
    BY <2>1 DEF Ongoing, InCall
  <2>3. Tracked => Tracked'
    BY <1>0, <2>1 DEF Tracked, KeeperEvent
  <2> QED BY <1>0, <2>1, <2>2, <2>3 DEF KeptOK, RaceOK
<1>3. ASSUME NEW fd \in Fd, Disconnect(fd) PROVE KeptOK' /\ RaceOK'
  <2> DEFINE e == [fd |-> fd, session |-> session[fd]]
  <2>1. /\ session[fd] # 0 /\ session' = [session EXCEPT ![fd] = 0] /\ events' = Append(events, e)
        /\ UNCHANGED <<pc, result, queue, stopBit, sockfdSendIR, handling, keeper, overtaken>>
    BY <1>3 DEF Disconnect, vars, history
  <2>2. (Ongoing' => Ongoing) /\ (InCall <=> InCall')
    BY <2>1 DEF Ongoing, InCall
  <2>3. e \in Event
    BY <1>0, <2>1, MaxSessionsAssumption DEF Event, Session
  <2>4. session[sockfdSendIR] = keeper /\ sockfdSendIR = fd => e = KeeperEvent
    BY DEF KeeperEvent
  <2>5. KeeperEvent' = KeeperEvent
    BY <2>1 DEF KeeperEvent
  <2> HIDE DEF e
  <2>6. Tracked => Tracked'
    <3>1. CASE \E i \in 1..Len(events) : events[i] = KeeperEvent
      BY <1>0, <2>1, <2>3, <2>5, <3>1, EventKept DEF Tracked
    <3>2. CASE session[sockfdSendIR] = keeper /\ sockfdSendIR = fd
      BY <1>0, <2>1, <2>3, <2>4, <2>5, <3>2, EventKept DEF Tracked
    <3>3. CASE session[sockfdSendIR] = keeper /\ sockfdSendIR # fd
      BY <1>0, <2>1, <3>3 DEF Tracked
    <3>4. CASE handling # None /\ handling = KeeperEvent /\ pc[EventTask] = "idle"
      BY <2>1, <2>5, <3>4 DEF Tracked
    <3> QED BY <3>1, <3>2, <3>3, <3>4 DEF Tracked
  <2> QED BY <1>0, <2>1, <2>2, <2>6 DEF KeptOK, RaceOK
<1>4. ASSUME NEW fd \in Fd, NEW r \in Request, ServeSend(fd, r) PROVE KeptOK' /\ RaceOK'
  <2>1. /\ UNCHANGED <<OwnerVars, queue, stopBit>> /\ pc[Httpd] = "idle"
        /\ pc'[EventTask] = pc[EventTask]
    BY <1>0, <1>4 DEF ServeSend, Call, ReturnWith, OwnerVars, history
  <2>2. (Ongoing' => Ongoing) /\ ~InCall
    BY <2>1 DEF Ongoing, InCall
  <2> QED BY <1>0, <2>1, <2>2, KeptQuiet
\* A stop leaves nothing that goes on.
<1>5. ASSUME NEW t \in Task, SetStop(t) PROVE KeptOK' /\ RaceOK'
  <2>1. ~Ongoing'
    BY <1>5 DEF SetStop, Ongoing
  <2> QED BY <2>1 DEF KeptOK, RaceOK
<1>6. ASSUME NEW fd \in Fd, NEW on \in BOOLEAN, ServeLearn(fd, on) PROVE KeptOK' /\ RaceOK'
  BY <1>1, <1>6 DEF ServeLearn, SetLearning, dockVars, OwnerVars, history
\* The call that returned 0 is that of the message, and makes its client the
\* owner; so does the 202 of an extension.
<1>7. ASSUME NEW noResponse \in BOOLEAN, FinishSend(noResponse) PROVE KeptOK' /\ RaceOK'
  <2> DEFINE rq == call[Httpd].rq
             response == result[Httpd]
             asynchronous == response = 0 \/ (response = 202 /\ noResponse)
  <2>1. /\ serving # None /\ pc[Httpd] = "returned" /\ pc'[Httpd] = "idle"
        /\ pc'[EventTask] = pc[EventTask]
        /\ UNCHANGED <<queue, stopBit, session, events, handling>>
    BY <1>0, <1>7 DEF FinishSend, Return
  <2>2. /\ \/ /\ asynchronous /\ Continuous(rq)
              /\ sockfdSendIR' = serving.fd /\ keeper' = session[serving.fd]
              /\ overtaken' = (pc[EventTask] # "idle")
           \/ asynchronous /\ ~Continuous(rq) /\ response = 0
           \/ ~asynchronous /\ UNCHANGED <<sockfdSendIR, history>>
    BY <1>7 DEF FinishSend
  <2>3. Ongoing' => Ongoing
    BY <2>1 DEF Ongoing
  <2>4. CASE ~asynchronous /\ UNCHANGED <<sockfdSendIR, history>>
    <3>1. ~InCall
      BY <2>1, <2>4 DEF InCall
    <3>2. UNCHANGED OwnerVars
      BY <2>1, <2>4 DEF OwnerVars, history
    <3> HIDE DEF asynchronous
    <3> QED BY <1>0, <2>1, <2>3, <3>1, <3>2, KeptQuiet
  <2>5. CASE asynchronous /\ ~Continuous(rq) /\ response = 0
    <3>1. queue # <<>> => Head(queue) = call[Httpd]
      BY <1>0, <2>1, <2>5 DEF ServeOK
    <3>2. ASSUME queue # <<>> PROVE Promoted(Head(queue).rq) = 0
      BY <1>0, <2>5, <3>1, <3>2, HeadType DEF Continuous, Promoted
    <3>3. ~Ongoing'
      BY <2>1, <3>2 DEF Ongoing
    <3> QED BY <3>3 DEF KeptOK, RaceOK
  <2>6. CASE sockfdSendIR' = serving.fd /\ keeper' = session[serving.fd]
             /\ overtaken' = (pc[EventTask] # "idle")
    <3>1. serving.fd \in Fd /\ session[serving.fd] # 0
      BY <1>0, <2>1 DEF OwnerInv
    <3>2. Tracked'
      BY <2>1, <2>6, <3>1 DEF Tracked
    <3>3. pc'[EventTask] # "idle" => overtaken'
      BY <2>1, <2>6
    <3> QED BY <3>2, <3>3 DEF KeptOK, RaceOK
  <2> HIDE DEF asynchronous
  <2> QED BY <2>2, <2>4, <2>5, <2>6
\* ir_stop has set the stop bit.
<1>8. CASE FinishStop
  <2>1. queue # <<>> => stopBit
    BY <1>0, <1>8 DEF FinishStop, ServeOK
  <2>2. ~Ongoing'
    BY <1>8, <2>1 DEF FinishStop, Return, Ongoing
  <2> QED BY <2>2 DEF KeptOK, RaceOK
<1>9. CASE TakeEvent
  <2>1. /\ handling = None /\ events # <<>> /\ handling' = Head(events) /\ events' = Tail(events)
        /\ UNCHANGED <<pc, result, queue, stopBit, sockfdSendIR, session, keeper, overtaken>>
    BY <1>9 DEF TakeEvent, vars, history
  <2>2. (Ongoing' => Ongoing) /\ (InCall <=> InCall')
    BY <2>1 DEF Ongoing, InCall
  <2>3. pc[EventTask] = "idle" /\ pc'[EventTask] = "idle"
    BY <1>0, <2>1 DEF ServeOK
  <2>4. KeeperEvent' = KeeperEvent
    BY <2>1 DEF KeeperEvent
  <2>5. Tracked => Tracked'
    <3>1. CASE \E i \in 1..Len(events) : events[i] = KeeperEvent
      <4>1. Head(events) = KeeperEvent \/ \E j \in 1..Len(Tail(events)) : Tail(events)[j] = KeeperEvent
        BY <1>0, <2>1, <3>1, EventOut
      <4>2. Head(events) \in Event
        BY <1>0, <2>1
      <4>3. Head(events) # None
        BY <4>2, NoEventAssumption DEF Event, Session
      <4> QED BY <2>1, <2>3, <2>4, <4>1, <4>3 DEF Tracked
    <3>2. CASE session[sockfdSendIR] = keeper
      BY <2>1, <3>2 DEF Tracked
    <3> QED BY <2>1, <3>1, <3>2 DEF Tracked
  <2> QED BY <1>0, <2>1, <2>2, <2>3, <2>5 DEF KeptOK, RaceOK
\* The owner that is still tracked is found, and stopped by StopOwned.
<1>10. CASE NotOwned
  <2>1. /\ handling.fd # sockfdSendIR
        /\ UNCHANGED <<pc, result, queue, stopBit, sockfdSendIR, session, events, keeper, overtaken>>
    BY <1>10 DEF NotOwned, Owns, vars, history
  <2>2. (Ongoing' => Ongoing) /\ (InCall <=> InCall')
    BY <2>1 DEF Ongoing, InCall
  <2>3. Tracked => Tracked'
    BY <2>1 DEF Tracked, KeeperEvent
  <2> QED BY <1>0, <2>1, <2>2, <2>3 DEF KeptOK, RaceOK
\* What the stop did not meet has overtaken it.
<1>11. CASE ForgetOwner
  <2>1. /\ pc[EventTask] = "returned" /\ pc'[EventTask] = "idle"
        /\ pc'[Httpd] = pc[Httpd] /\ result'[Httpd] = result[Httpd]
        /\ UNCHANGED <<queue, stopBit, overtaken>>
    BY <1>0, <1>11 DEF ForgetOwner, Return, history
  <2>2. (Ongoing' => Ongoing) /\ (InCall => InCall')
    BY <2>1 DEF Ongoing, InCall
  <2> QED BY <1>0, <2>1, <2>2 DEF KeptOK, RaceOK
<1>12. CASE SendStep(Httpd) /\ UNCHANGED dockVars
  <2>1. UNCHANGED OwnerVars /\ pc'[EventTask] = pc[EventTask]
    BY <1>0, <1>12, SendStepCases DEF dockVars, OwnerVars, history
  <2>2. CASE UNCHANGED <<queue, stopBit>> /\ pc[Httpd] # "record"
    <3>1. pc[Httpd] # "returned"
      BY <1>0, <1>12, SendStepCases
    <3>2. (Ongoing' => Ongoing) /\ ~InCall
      BY <2>2, <3>1 DEF Ongoing, InCall
    <3> QED BY <1>0, <2>1, <3>2, KeptQuiet
  <2>3. CASE queue = <<>> /\ UNCHANGED queue
    <3>1. ~Ongoing'
      BY <2>3 DEF Ongoing
    <3> QED BY <3>1 DEF KeptOK, RaceOK
  <2>4. CASE pc'[Httpd] = "record" \/ (pc'[Httpd] = "returned" /\ result'[Httpd] = 0)
    BY <2>4 DEF KeptOK, RaceOK, InCall
  <2> QED BY <1>0, <1>12, <2>2, <2>3, <2>4, SendStepCases
<1>13. ASSUME NEW t \in Task, ClearRepeat(t), UNCHANGED dockVars PROVE KeptOK' /\ RaceOK'
  <2>1. UNCHANGED <<OwnerVars, queue, stopBit>>
    BY <1>13 DEF ClearRepeat, dockVars, OwnerVars, history
  <2>2. Ongoing' => Ongoing
    BY <2>1 DEF Ongoing
  <2>3. CASE t = Httpd
    <3>1. pc[Httpd] = "stop" /\ pc'[EventTask] = pc[EventTask]
      BY <1>0, <1>13, <2>3 DEF ClearRepeat, ReturnWith
    <3> QED BY <1>0, <2>1, <2>2, <3>1, KeptQuiet DEF InCall
  <2>4. CASE t = EventTask
    <3>1. /\ pc[EventTask] = "stop" /\ pc'[EventTask] = "returned"
          /\ pc'[Httpd] = pc[Httpd] /\ result'[Httpd] = result[Httpd]
      BY <1>0, <1>13, <2>4 DEF ClearRepeat, ReturnWith
    <3>2. InCall => InCall'
      BY <3>1 DEF InCall
    <3> QED BY <1>0, <2>1, <2>2, <3>1, <3>2 DEF KeptOK, RaceOK, OwnerVars
  <2> QED BY <2>3, <2>4
<1>14. CASE SendTask /\ UNCHANGED dockVars
  BY <1>1, <1>14, SendTaskCases DEF dockVars, OwnerVars, history
<1>15. CASE UNCHANGED allVars
  BY <1>1, <1>15 DEF allVars, vars, dockVars, OwnerVars, history
<1>16. CASE HttpdNext
  BY <1>2, <1>3, <1>4, <1>5, <1>6, <1>7, <1>8, <1>16 DEF HttpdNext, ServeStop
<1>17. CASE EventNext
  BY <1>5, <1>9, <1>10, <1>11, <1>17 DEF EventNext, StopOwned
<1>18. CASE GcNext
  BY <1>18 DEF GcNext
<1>19. CASE ServiceNext
  BY <1>12, <1>13, <1>14, <1>19 DEF ServiceNext
<1> QED BY <1>15, <1>16, <1>17, <1>18, <1>19 DEF DockNext

LEMMA KeeperInvariance ==
  ASSUME OneSender
  PROVE  DockSpec => []KeeperInv
<1>1. KeeperInv /\ [DockNext]_allVars => KeeperInv'
  <2> SUFFICES ASSUME KeeperInv, [DockNext]_allVars PROVE KeeperInv'
    OBVIOUS
  <2>1. AloneInv'
    BY DockStepService, AloneStep DEF KeeperInv
  <2>2. OwnerInv'
    BY OwnerStep DEF KeeperInv
  <2> QED BY <2>1, <2>2, ServeStep, KeptStep DEF KeeperInv
<1> QED BY <1>1, KeeperInit, PTL DEF DockSpec

\* ucd_api.cpp l.509-515, l.863-876: a transmission that repeats or holds is
\* stopped when the client that keeps it going vanished, whatever sockets the
\* sessions reuse and whatever disconnects are still to be handled meanwhile --
\* with one sender, and unless the client was forgotten with another one.
THEOREM VanishedOwnerIsStopped ==
  ASSUME OneSender
  PROVE  DockSpec => []VanishedOwnerStopped
<1>1. KeeperInv => VanishedOwnerStopped
  <2> SUFFICES ASSUME KeeperInv, Settled, queue # <<>>, Promoted(Head(queue).rq) > 0,
                      Vanished(keeper), ~overtaken, ~stopBit
               PROVE  FALSE
    BY DEF VanishedOwnerStopped
  <2>1. pc[Httpd] = "idle" /\ events = <<>> /\ handling = None
    BY DEF KeeperInv, ServeOK, Settled
  <2>2. Tracked
    BY <2>1 DEF KeeperInv, KeptOK, Ongoing, InCall
  <2>3. session[sockfdSendIR] # keeper
    BY <2>2 DEF Vanished, Tracked
  <2> QED BY <2>1, <2>2, <2>3 DEF Tracked
<1> QED BY <1>1, KeeperInvariance, PTL
=============================================================================
