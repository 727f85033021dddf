--------------------------- MODULE DockPortProofs ---------------------------
(***************************************************************************)
(* Theorems about DockPort for any modes, clients and bridge tasks: it is  *)
(* a port as ExternalPort describes it, and as long as two tasks do not    *)
(* start or stop the bridge at once, the bridge has one task at most,      *)
(* knows its sockets, is a TcpBridge to its clients, and runs in RS232     *)
(* mode once all commands and events are handled.                          *)
(***************************************************************************)
EXTENDS DockPort, ExternalPortProofs, FiniteSetTheorems

USE BridgeTaskAssumption, ClientAssumption
USE DEF structVars, taskVars, socketVars, dockVars

-----------------------------------------------------------------------------
(* Commands and the port                                                   *)

\* What the HTTP server task is asked for, above all while it works on a command.
RequestOK ==
  /\ step \in Steps
  /\ request \in Mode \union {"AUTO", "tcp_on", "tcp_off", "none"}
  /\ step = "stopping" => request \in Requested
  /\ refused \in BOOLEAN

LEMMA RequestInitially == Init => RequestOK
BY DEF Init, RequestOK, Steps

LEMMA RequestPreserved == RequestOK /\ [Next]_vars => RequestOK'
<1> SUFFICES ASSUME RequestOK, [Next]_vars PROVE RequestOK'
  OBVIOUS
<1>1. CASE UNCHANGED dockVars
  BY <1>1 DEF RequestOK
<1>2. ASSUME NEW m \in Requested, SetPortMode(m) PROVE RequestOK'
  BY <1>2, RequestedAssumption DEF SetPortMode, RequestOK, Steps
<1>3. ASSUME NEW on \in BOOLEAN, SetSerialTcp(on) PROVE RequestOK'
  <2>1. \/ step' = "switching" /\ request' \in {"tcp_on", "tcp_off"} /\ refused' = refused
        \/ step' = step /\ request' = request /\ refused' = refused
    BY <1>3 DEF SetSerialTcp
  <2> QED BY <2>1 DEF RequestOK, Steps
<1>4. ASSUME Reject \/ ModeChanged \/ SwitchTcp PROVE RequestOK'
  <2>1. step' = "idle" /\ request' = "none"
    BY <1>4 DEF Reject, ModeChanged, SwitchTcp, Done
  <2>2. refused' \in BOOLEAN
    BY <1>4, Zenon DEF Reject, ModeChanged, SwitchTcp, RequestOK
  <2> QED BY <2>1, <2>2 DEF RequestOK, Steps
<1>5. CASE ChangeMode
  BY <1>5 DEF ChangeMode, RequestOK, Steps
<1>6. CASE DockStep
  BY <1>1, <1>2, <1>3, <1>4, <1>5, <1>6 DEF DockStep, Command, SetPortTrigger, TriggerImpulse, SendSerial
<1>7. CASE PortStep \/ HandleEvent \/ WatchdogStep \/ Reset \/ UNCHANGED vars
  BY <1>1, <1>7 DEF PortStep, HandleEvent, WatchdogStep, Reset, vars
<1>8. ASSUME NEW a \in Actor, StopperSteps(a) PROVE RequestOK'
  BY <1>1, <1>8 DEF StopperSteps
<1>9. ASSUME NEW b \in BridgeTask, BridgeSteps(b) PROVE RequestOK'
  BY <1>1, <1>9 DEF BridgeSteps
<1> QED BY <1>6, <1>7, <1>8, <1>9 DEF Next

\* Every step is a step of the port, or leaves the port alone.
LEMMA PortStepOrStutter == RequestOK /\ [Next]_vars => [PortNext]_portVars
<1> SUFFICES ASSUME RequestOK, [Next]_vars PROVE [PortNext]_portVars
  OBVIOUS
<1>1. CASE UNCHANGED portVars
  BY <1>1
<1>2. ASSUME NEW m \in Requested, SetPortMode(m) PROVE UNCHANGED portVars
  BY <1>2 DEF SetPortMode
<1>3. ASSUME NEW on \in BOOLEAN, SetPortTrigger(on) \/ SetSerialTcp(on) PROVE [PortNext]_portVars
  BY <1>3 DEF SetPortTrigger, SetSerialTcp, PortNext, PortCall
<1>4. CASE TriggerImpulse \/ SendSerial
  BY <1>4 DEF TriggerImpulse, SendSerial, PortNext, PortCall
<1>5. CASE ChangeMode
  BY <1>5 DEF ChangeMode, RequestOK, PortNext, PortCall
<1>6. CASE Reject \/ ModeChanged \/ SwitchTcp
  BY <1>6 DEF Reject, ModeChanged, SwitchTcp
<1>7. CASE DockStep
  BY <1>2, <1>3, <1>4, <1>5, <1>6, <1>7 DEF DockStep, Command
<1>8. CASE PortStep
  BY <1>8 DEF PortStep, PortNext
<1>9. CASE HandleEvent
  BY <1>9 DEF HandleEvent, PortNext, TakeEvent
<1>10. ASSUME NEW a \in Actor, StopperSteps(a) PROVE UNCHANGED portVars
  BY <1>10 DEF StopperSteps
<1>11. ASSUME NEW b \in BridgeTask, BridgeSteps(b) PROVE [PortNext]_portVars
  <2>1. CASE BridgeStep(b) /\ UNCHANGED portVars
    BY <2>1
  <2>2. CASE BridgeUartStep(b) /\ UNCHANGED <<outVars, timer, callVars, probeVars, eventVars>>
    <3>1. b \in Task \ {Httpd, TimerTask}
      OBVIOUS
    <3>2. TakeTx(b) \/ GiveTx(b) \/ UNCHANGED uartVars
      BY <2>2 DEF BridgeUartStep, BridgeWrite, BridgeWritten
    <3>3. CASE TakeTx(b) \/ GiveTx(b)
      BY <2>2, <3>1, <3>3 DEF PortNext, OtherWrites
    <3>4. CASE UNCHANGED uartVars
      BY <2>2, <3>4 DEF portVars
    <3> QED BY <3>2, <3>3, <3>4
  <2> QED BY <1>11, <2>1, <2>2 DEF BridgeSteps
<1>12. CASE WatchdogStep \/ Reset \/ UNCHANGED vars
  BY <1>12 DEF WatchdogStep, Reset, vars
<1> QED BY <1>1, <1>7, <1>8, <1>9, <1>10, <1>11, <1>12 DEF Next

\* ucd_api.cpp l.1988-2110: the commands use a port as any caller may, so that
\* what holds of ExternalPort holds in the dock.
THEOREM DockUsesPort == Spec => PortSpec
<1>1. Init => PortInit
  BY DEF Init
<1>2. Spec => []RequestOK
  BY RequestInitially, RequestPreserved, PTL DEF Spec
<1> QED BY <1>1, <1>2, PortStepOrStutter, PTL DEF Spec, PortSpec

-----------------------------------------------------------------------------
(* The bridge: types                                                       *)

LEMMA BridgeInitially == Init => BridgeTypeOK
<1> SUFFICES ASSUME Init PROVE BridgeTypeOK
  OBVIOUS
<1>1. queue \in Handle \union {None}
  BY DEF Init, PortInit
<1>2. /\ running \in BOOLEAN /\ tcpEnabled \in BOOLEAN
      /\ failed \in BOOLEAN /\ raced \in BOOLEAN
  BY Zenon DEF Init, BridgeInit
<1>3. /\ handle \in BridgeTask \union {None} /\ listenFd \in BridgeTask \union {None}
      /\ bridgeQueue \in Handle \union {None}
      /\ clients \subseteq Client /\ connected \subseteq Client
      /\ watched \subseteq BridgeTask /\ listeners \subseteq BridgeTask
      /\ halted \in {"no", "uart", "fd_set", "watchdog", "deleted"}
  BY <1>1 DEF Init, BridgeInit
<1>4. Cardinality(clients) <= MaxClients
  BY FS_EmptySet DEF Init, BridgeInit
<1>5. /\ task \in [BridgeTask -> BridgePc]
      /\ stopper \in [Actor -> StopperPc]
  BY DEF Init, BridgeInit, BridgePc, StopperPc
<1>6. tcp \in [BridgeTask -> BOOLEAN]
  BY DEF Init, BridgeInit
<1> QED BY <1>2, <1>3, <1>4, <1>5, <1>6 DEF BridgeTypeOK

LEMMA CallTypes ==
  ASSUME BridgeTypeOK, NEW a \in Actor, NEW label \in {"start", "stop"},
         NEW alone \in BOOLEAN, CallBridge(a, label, alone)
  PROVE  stopper' \in [Actor -> StopperPc] /\ raced' \in BOOLEAN
<1>1. raced' \in BOOLEAN
  BY Zenon DEF CallBridge
<1>2. stopper' \in [Actor -> StopperPc]
  BY DEF CallBridge, StopperTo, BridgeTypeOK, StopperPc
<1> QED BY <1>1, <1>2

LEMMA StopperTypes ==
  ASSUME BridgeTypeOK, NEW a \in Actor, StopperStep(a) PROVE BridgeTypeOK'
<1> USE DEF BridgeTypeOK, StopperTo, StopperAt, TaskTo, TaskAt
<1>1. CASE Start(a)
  <2>1. stopper' \in [Actor -> StopperPc]
    BY <1>1 DEF Start, StopperPc
  <2> QED BY <1>1, <2>1 DEF Start
<1>2. CASE SetRunning(a)
  <2>1. stopper' \in [Actor -> StopperPc] /\ running' \in BOOLEAN
    BY <1>2 DEF SetRunning, StopperPc
  <2>2. clients' \subseteq Client /\ Cardinality(clients') <= MaxClients
    BY <1>2, FS_EmptySet DEF SetRunning
  <2> QED BY <1>2, <2>1, <2>2 DEF SetRunning
<1>3. CASE Create(a)
  <2>1. stopper' \in [Actor -> StopperPc]
    BY <1>3 DEF Create, StopperPc
  <2>2. running' \in BOOLEAN /\ failed' \in BOOLEAN
    BY <1>3, Zenon DEF Create
  <2>3. task' \in [BridgeTask -> BridgePc] /\ handle' \in BridgeTask \union {None}
    BY <1>3 DEF Create, BridgePc
  <2> QED BY <1>3, <2>1, <2>2, <2>3 DEF Create
<1>4. CASE Stop(a)
  <2>1. stopper' \in [Actor -> StopperPc]
    BY <1>4 DEF Stop, Stopped, StopperPc
  <2> QED BY <1>4, <2>1 DEF Stop
<1>5. CASE Wait(a)
  <2>1. stopper' \in [Actor -> StopperPc]
    BY <1>5 DEF Wait, StopperPc
  <2> QED BY <1>5, <2>1 DEF Wait
<1>6. CASE ForceDelete(a)
  <2>1. stopper' \in [Actor -> StopperPc]
    BY <1>6 DEF ForceDelete, StopperPc
  <2>2. task' \in [BridgeTask -> BridgePc]
    BY <1>6 DEF ForceDelete, BridgePc
  <2> QED BY <1>6, <2>1, <2>2 DEF ForceDelete
<1>7. CASE Clean(a)
  <2>1. stopper' \in [Actor -> StopperPc]
    BY <1>7 DEF Clean, StopperPc
  <2>2. clients' \subseteq Client /\ Cardinality(clients') <= MaxClients
    BY <1>7, FS_EmptySet DEF Clean, CloseSockets
  <2> QED BY <1>7, <2>1, <2>2 DEF Clean, CloseSockets
<1> QED BY <1>1, <1>2, <1>3, <1>4, <1>5, <1>6, <1>7 DEF StopperStep

\* A client is added only while there is room for it.
LEMMA ClientsFit ==
  ASSUME BridgeTypeOK, NEW c \in Client
  PROVE  /\ ~Full => Cardinality(clients \union {c}) <= MaxClients
         /\ Cardinality(clients \ {c}) <= MaxClients
<1>1. IsFiniteSet(clients) /\ Cardinality(clients) \in Nat
  BY FS_Subset, FS_CardinalityType DEF BridgeTypeOK
<1>2. Cardinality(clients \union {c}) = Cardinality(clients) + (IF c \in clients THEN 0 ELSE 1)
  <2>1. Cardinality(clients \union {c})
          = IF c \in clients THEN Cardinality(clients) ELSE Cardinality(clients) + 1
    BY <1>1, FS_AddElement, Zenon
  <2> QED BY <1>1, <2>1
<1>3. Cardinality(clients \ {c}) = Cardinality(clients) - (IF c \in clients THEN 1 ELSE 0)
  <2>1. Cardinality(clients \ {c})
          = IF c \in clients THEN Cardinality(clients) - 1 ELSE Cardinality(clients)
    BY <1>1, FS_RemoveElement, Zenon
  <2> QED BY <1>1, <2>1
<1> DEFINE n == Cardinality(clients)
<1>4. n <= MaxClients /\ MaxClients \in Nat
  BY DEF BridgeTypeOK
<1> QED BY <1>1, <1>2, <1>3, <1>4 DEF Full

LEMMA BridgeTypes ==
  ASSUME BridgeTypeOK, NEW b \in BridgeTask, BridgeStep(b) \/ BridgeUartStep(b) \/ Watchdog
  PROVE  BridgeTypeOK'
<1> USE DEF BridgeTypeOK, TaskTo, TaskAt
<1>1. task' \in [BridgeTask -> BridgePc]
  BY DEF BridgeStep, BridgeUartStep, Begin, Loop, Serve, Drain, Cleanup, Exit, BridgeWrite,
         BridgeWritten, Watchdog, BridgePc
<1>2. running' \in BOOLEAN /\ failed' \in BOOLEAN /\ raced' \in BOOLEAN /\ tcpEnabled' \in BOOLEAN
  BY Zenon DEF BridgeStep, BridgeUartStep, Begin, Loop, Serve, Drain, Cleanup, Exit, BridgeWrite,
         BridgeWritten, Watchdog
<1>3. tcp' \in [BridgeTask -> BOOLEAN]
  BY DEF BridgeStep, BridgeUartStep, Begin, Loop, Serve, Drain, Cleanup, Exit, BridgeWrite,
         BridgeWritten, Watchdog
<1>4. /\ handle' \in BridgeTask \union {None} /\ listenFd' \in BridgeTask \union {None}
      /\ bridgeQueue' = bridgeQueue /\ stopper' = stopper
      /\ connected' \subseteq Client
      /\ watched' \subseteq BridgeTask /\ listeners' \subseteq BridgeTask
      /\ halted' \in {"no", "uart", "fd_set", "watchdog", "deleted"}
  BY DEF BridgeStep, BridgeUartStep, Begin, Loop, Serve, Drain, Cleanup, Exit, BridgeWrite,
         BridgeWritten, Watchdog, CloseSockets
<1>5. \/ clients' = clients \/ clients' = {}
      \/ \E c \in Client : ~Full /\ clients' = clients \union {c}
      \/ \E c \in Client : clients' = clients \ {c}
  BY DEF BridgeStep, BridgeUartStep, Begin, Loop, Serve, Drain, Cleanup, Exit, BridgeWrite,
         BridgeWritten, Watchdog, CloseSockets
<1>6. clients' \subseteq Client /\ Cardinality(clients') <= MaxClients
  <2>1. CASE clients' = clients
    BY <2>1
  <2>2. CASE clients' = {}
    BY <2>2, FS_EmptySet
  <2>3. ASSUME NEW c \in Client, ~Full, clients' = clients \union {c}
        PROVE  clients' \subseteq Client /\ Cardinality(clients') <= MaxClients
    BY <2>3, ClientsFit
  <2>4. ASSUME NEW c \in Client, clients' = clients \ {c}
        PROVE  clients' \subseteq Client /\ Cardinality(clients') <= MaxClients
    BY <2>4, ClientsFit
  <2> QED BY <1>5, <2>1, <2>2, <2>3, <2>4
<1> QED BY <1>1, <1>2, <1>3, <1>4, <1>6

LEMMA DockTypes ==
  ASSUME PortTypeOK, BridgeTypeOK, DockStep \/ HandleEvent PROVE BridgeTypeOK'
<1>1. ASSUME NEW a \in Actor, NEW label \in {"start", "stop"}, NEW alone \in BOOLEAN,
             CallBridge(a, label, alone) \/ UNCHANGED <<stopper, raced>>,
             bridgeQueue' \in {bridgeQueue, queue}, tcpEnabled' \in BOOLEAN,
             UNCHANGED <<running, handle, listenFd, clients, taskVars, socketVars, halted, failed>>
      PROVE  BridgeTypeOK'
  <2>1. stopper' \in [Actor -> StopperPc] /\ raced' \in BOOLEAN
    BY <1>1, CallTypes DEF BridgeTypeOK
  <2> QED BY <1>1, <2>1 DEF BridgeTypeOK, PortTypeOK
<1>2. {Httpd, EventTask} = Actor /\ {EventTaskAway, HttpdAway} \subseteq BOOLEAN
  BY DEF Actor, EventTaskAway, HttpdAway, StopperAt
<1>3. tcpEnabled \in BOOLEAN
  BY DEF BridgeTypeOK
<1>4. ASSUME NEW m \in Requested, SetPortMode(m) PROVE BridgeTypeOK'
  BY <1>1, <1>2, <1>3, <1>4 DEF SetPortMode
<1>5. ASSUME NEW on \in BOOLEAN, SetSerialTcp(on) PROVE BridgeTypeOK'
  BY <1>1, <1>2, <1>3, <1>5 DEF SetSerialTcp
<1>6. CASE ModeChanged
  BY <1>1, <1>2, <1>3, <1>6 DEF ModeChanged
<1>7. CASE SwitchTcp
  <2>1. tcpEnabled' \in BOOLEAN
    BY <1>7, Zenon DEF SwitchTcp
  <2> QED BY <1>1, <1>2, <1>7, <2>1 DEF SwitchTcp
<1>8. CASE HandleEvent
  <2>1. \/ UNCHANGED <<stopper, raced>>
        \/ CallBridge(EventTask, "start", HttpdAway)
        \/ CallBridge(EventTask, "stop", HttpdAway)
    BY <1>8 DEF HandleEvent, Sync
  <2>2. bridgeQueue' \in {bridgeQueue, queue}
    BY <1>8 DEF HandleEvent, Sync
  <2> QED BY <1>1, <1>2, <1>3, <1>8, <2>1, <2>2 DEF HandleEvent
<1>9. ASSUME NEW on \in BOOLEAN, SetPortTrigger(on) PROVE BridgeTypeOK'
  BY <1>9 DEF SetPortTrigger, bridgeVars, BridgeTypeOK
<1>10. CASE TriggerImpulse \/ SendSerial \/ Reject \/ ChangeMode
  BY <1>10 DEF TriggerImpulse, SendSerial, Reject, ChangeMode, bridgeVars, BridgeTypeOK
<1> QED BY <1>4, <1>5, <1>6, <1>7, <1>8, <1>9, <1>10 DEF DockStep, Command

LEMMA BridgeTyped == PortTypeOK /\ BridgeTypeOK /\ [Next]_vars => BridgeTypeOK'
<1> SUFFICES ASSUME PortTypeOK, BridgeTypeOK, [Next]_vars PROVE BridgeTypeOK'
  OBVIOUS
<1>1. CASE UNCHANGED bridgeVars
  BY <1>1 DEF bridgeVars, BridgeTypeOK
<1>2. CASE PortStep \/ Reset \/ UNCHANGED vars
  BY <1>1, <1>2 DEF PortStep, Reset, vars
<1>3. ASSUME NEW a \in Actor, StopperSteps(a) PROVE BridgeTypeOK'
  BY <1>3, StopperTypes DEF StopperSteps
<1>4. ASSUME NEW b \in BridgeTask, BridgeSteps(b) PROVE BridgeTypeOK'
  BY <1>4, BridgeTypes DEF BridgeSteps
<1>5. CASE WatchdogStep
  <2>1. PICK b \in watched : TRUE
    BY <1>5 DEF WatchdogStep, Watchdog
  <2>2. b \in BridgeTask
    BY <2>1 DEF BridgeTypeOK
  <2> QED BY <1>5, <2>2, BridgeTypes DEF WatchdogStep
<1> QED BY <1>2, <1>3, <1>4, <1>5, DockTypes DEF Next

\* The state of the dock stays in its domains; in particular the array of
\* clients does not overflow.
THEOREM DockTyped == Spec => []TypeOK
<1>1. Spec => []RequestOK
  BY RequestInitially, RequestPreserved, PTL DEF Spec
<1>2. Spec => []PortTypeOK
  BY DockUsesPort, PortTyped, PTL
<1>3. Spec => []BridgeTypeOK
  BY <1>2, BridgeInitially, BridgeTyped, PTL DEF Spec
<1>4. PortTypeOK /\ BridgeTypeOK /\ RequestOK => TypeOK
  BY DEF TypeOK, RequestOK
<1> QED BY <1>1, <1>2, <1>3, <1>4, PTL

-----------------------------------------------------------------------------
(* One task, and its sockets                                               *)

Alone   == \E a \in Actor : stopper[a] = "idle"
Resting == \A a \in Actor : stopper[a] \in {"idle", "start", "stop"}
Closed  == connected = {} /\ clients = {} /\ listeners = {} /\ listenFd = None

\* No task has opened a socket that nobody has closed since.
SocketsUnused ==
  /\ \A a \in Actor : stopper[a] # "clean"
  /\ \A b \in BridgeTask : task[b] \in {"none", "begin", "exit"}

\* A bridge that does not run, and is not being stopped, has no task, and none
\* is left when one is created or when the sockets of a deleted task are closed.
BridgeInv ==
  /\ Alone
  /\ Live \subseteq {handle}
  /\ Resting /\ ~running => Live = {}
  /\ \A a \in Actor : stopper[a] \in {"set", "create", "clean"} => Live = {}
  /\ \A a \in Actor : stopper[a] = "create" => running
  /\ connected = clients /\ listeners \subseteq {listenFd}
  /\ SocketsUnused => Closed

SoundBridge == Running /\ ~raced => BridgeInv

LEMMA NoneIsNoTask == None \notin BridgeTask /\ Httpd # EventTask
BY NoneAssumption

LEMMA SoundInitially == Init => SoundBridge
<1> SUFFICES ASSUME Init PROVE BridgeInv
  BY DEF SoundBridge
<1>1. /\ stopper = [a \in Actor |-> "idle"] /\ running = (mode = "RS232")
      /\ handle \in (IF running THEN BridgeTask ELSE {None})
      /\ task = [b \in BridgeTask |-> IF b = handle THEN "begin" ELSE "none"]
      /\ connected = {} /\ clients = {} /\ listeners = {} /\ listenFd = None
  BY DEF Init, BridgeInit
<1>2. Live \subseteq {handle} /\ (~running => Live = {})
  BY <1>1, NoneIsNoTask DEF Live
<1>3. Httpd \in Actor
  BY DEF Actor
<1> QED BY <1>1, <1>2, <1>3 DEF BridgeInv, Alone, Closed

\* A task that finds the other one away calls start or stop.
LEMMA CallIsSound ==
  ASSUME BridgeTypeOK, BridgeInv, NEW a \in Actor, NEW label \in {"start", "stop"},
         NEW alone \in BOOLEAN, CallBridge(a, label, alone), ~raced',
         alone => \A o \in Actor \ {a} : stopper[o] = "idle",
         UNCHANGED <<running, handle, listenFd, clients, task, socketVars>>
  PROVE  BridgeInv'
<1>1. stopper' = [stopper EXCEPT ![a] = label] /\ stopper[a] = "idle"
  BY DEF CallBridge, StopperTo, StopperAt
<1>2. alone
  BY Zenon DEF CallBridge
<1>3. PICK o \in Actor \ {a} : TRUE
  BY NoneIsNoTask DEF Actor
<1>4. stopper'[o] = "idle" /\ Alone'
  BY <1>1, <1>2, <1>3 DEF BridgeTypeOK, Alone
<1>5. \A x \in Actor : stopper[x] = stopper'[x] \/ (stopper[x] = "idle" /\ stopper'[x] \in {"start", "stop"})
  BY <1>1 DEF BridgeTypeOK
<1>6. Live' = Live
  BY DEF Live
<1>7. (Resting' => Resting) /\ (SocketsUnused' => SocketsUnused) /\ (Closed => Closed')
  BY <1>5 DEF Resting, SocketsUnused, Closed
<1> QED BY <1>4, <1>5, <1>6, <1>7 DEF BridgeInv

LEMMA StopperIsSound ==
  ASSUME BridgeTypeOK, BridgeInv, NEW a \in Actor, StopperStep(a) PROVE BridgeInv'
<1> USE NoneIsNoTask DEF StopperTo, StopperAt, TaskTo, TaskAt
<1>1. PICK o \in Actor \ {a} : Actor = {a, o}
  BY DEF Actor
<1>2. stopper[a] # "idle" => stopper[o] = "idle"
  BY <1>1 DEF BridgeInv, Alone
<1>3. CASE Start(a)
  <2>1. stopper' = [stopper EXCEPT ![a] = IF running THEN "idle" ELSE "set"]
    BY <1>3 DEF Start
  <2>2. Resting /\ Live' = Live /\ stopper[o] = "idle"
    BY <1>1, <1>2, <1>3 DEF Start, Resting, Live
  <2> QED
    BY <1>1, <1>3, <2>1, <2>2 DEF Start, BridgeTypeOK, BridgeInv, Alone, Resting, SocketsUnused, Closed
<1>4. CASE SetRunning(a)
  <2>1. Live = {} /\ Live' = {} /\ stopper[o] = "idle" /\ stopper[a] = "set"
    BY <1>2, <1>4 DEF SetRunning, BridgeInv, Live
  <2>2. Closed
    BY <1>1, <2>1 DEF BridgeInv, SocketsUnused, Live
  <2> QED
    BY <1>1, <1>4, <2>1, <2>2 DEF SetRunning, BridgeTypeOK, BridgeInv, Alone, Resting, Closed
<1>5. CASE Create(a)
  <2>1. Live = {} /\ stopper[o] = "idle" /\ stopper[a] = "create" /\ running
    BY <1>2, <1>5 DEF Create, BridgeInv
  <2>2. Closed
    BY <1>1, <2>1 DEF BridgeInv, SocketsUnused, Live
  <2>3. Closed' /\ stopper' = [stopper EXCEPT ![a] = "idle"]
    BY <1>5, <2>2 DEF Create, Closed
  <2>4. Live' \subseteq {handle'} /\ (~running' => Live' = {})
    BY <1>5, <2>1 DEF Create, Live, BridgeTypeOK
  <2> QED
    BY <1>1, <2>1, <2>3, <2>4 DEF BridgeTypeOK, BridgeInv, Alone, Resting, Closed
<1>6. CASE Stop(a)
  <2>1. stopper' = [stopper EXCEPT ![a] = IF running THEN "wait" ELSE "idle"]
    BY <1>6 DEF Stop, Stopped
  <2>2. Resting /\ Live' = Live /\ stopper[o] = "idle"
    BY <1>1, <1>2, <1>6 DEF Stop, Resting, Live
  <2> QED
    BY <1>1, <1>6, <2>1, <2>2 DEF Stop, BridgeTypeOK, BridgeInv, Alone, Resting, SocketsUnused, Closed
<1>7. CASE Wait(a)
  <2>1. stopper' = [stopper EXCEPT ![a] = IF handle = None THEN "idle" ELSE "force"]
    BY <1>7 DEF Wait
  <2>2. Live' = Live /\ stopper[o] = "idle" /\ (handle = None => Live = {})
    BY <1>2, <1>7 DEF Wait, Live, BridgeInv
  <2> QED
    BY <1>1, <1>7, <2>1, <2>2 DEF Wait, BridgeTypeOK, BridgeInv, Alone, Resting, SocketsUnused, Closed
<1>8. CASE ForceDelete(a)
  <2>1. CASE handle = None
    BY <1>8, <2>1 DEF ForceDelete, BridgeInv, Alone, Resting, SocketsUnused, Closed, Live
  <2>2. CASE handle # None
    <3>1. Live' = {} /\ stopper' = [stopper EXCEPT ![a] = "clean"] /\ stopper[o] = "idle"
      BY <1>2, <1>8, <2>2 DEF ForceDelete, Live, BridgeInv, BridgeTypeOK
    <3> QED
      BY <1>1, <1>8, <3>1 DEF ForceDelete, BridgeTypeOK, BridgeInv, Alone, Resting, SocketsUnused
  <2> QED BY <2>1, <2>2
<1>9. CASE Clean(a)
  <2>1. Live' = {} /\ stopper' = [stopper EXCEPT ![a] = "idle"] /\ stopper[o] = "idle"
    BY <1>2, <1>9 DEF Clean, Live, BridgeInv
  <2>2. Closed'
    BY <1>9 DEF Clean, CloseSockets, BridgeInv, Closed
  <2> QED
    BY <1>1, <1>9, <2>1, <2>2 DEF BridgeTypeOK, BridgeInv, Alone, Resting, Closed
<1> QED BY <1>3, <1>4, <1>5, <1>6, <1>7, <1>8, <1>9 DEF StopperStep

LEMMA TaskIsSound ==
  ASSUME BridgeTypeOK, BridgeInv, NEW b \in BridgeTask, BridgeStep(b) \/ BridgeUartStep(b)
  PROVE  BridgeInv'
<1> USE NoneIsNoTask DEF TaskTo, TaskAt
<1>1. stopper' = stopper /\ running' = running
  BY DEF BridgeStep, BridgeUartStep, Begin, Loop, Serve, Drain, Cleanup, Exit, BridgeWrite, BridgeWritten
<1>2. Live = {b} /\ handle = b /\ \A a \in Actor : stopper[a] # "clean"
  <2>1. b \in Live
    BY DEF BridgeStep, BridgeUartStep, Begin, Loop, Serve, Drain, Cleanup, Exit, BridgeWrite,
           BridgeWritten, Live
  <2> QED BY <2>1 DEF BridgeInv
<1>3. task[b] \in {"begin", "exit"} => Closed
  BY <1>2 DEF BridgeInv, SocketsUnused, Live
  \* The steps that keep the task alive, and its sockets in use.
<1>4. ASSUME handle' = handle, connected' = clients', listeners' \subseteq {listenFd'},
             \/ \E pos \in BridgePc \ {"none", "begin", "exit"} : task' = [task EXCEPT ![b] = pos]
             \/ UNCHANGED <<task, clients, connected, listeners, listenFd>>
      PROVE  BridgeInv'
  <2>1. CASE \E pos \in BridgePc \ {"none", "begin", "exit"} : task' = [task EXCEPT ![b] = pos]
    <3>1. PICK pos \in BridgePc \ {"none", "begin", "exit"} : task' = [task EXCEPT ![b] = pos]
      BY <2>1
    <3>2. Live' = Live /\ ~SocketsUnused'
      BY <1>2, <3>1 DEF BridgeTypeOK, Live, SocketsUnused
    <3> QED BY <1>1, <1>4, <3>2 DEF BridgeInv, Alone, Resting
  <2>2. CASE UNCHANGED <<task, clients, connected, listeners, listenFd>>
    <3>1. Live' = Live /\ (SocketsUnused' => SocketsUnused) /\ (Closed => Closed')
      BY <1>1, <2>2 DEF Live, SocketsUnused, Closed
    <3> QED BY <1>1, <1>4, <2>2, <3>1 DEF BridgeInv, Alone, Resting
  <2> QED BY <1>4, <2>1, <2>2
<1>5. connected = clients /\ listeners \subseteq {listenFd}
  BY DEF BridgeInv
<1>6. CASE Begin(b)
  <2>1. Closed
    BY <1>3, <1>6 DEF Begin
  <2> QED BY <1>4, <1>6, <2>1 DEF Begin, Closed, BridgePc
<1>7. CASE Loop(b)
  BY <1>4, <1>5, <1>7 DEF Loop, BridgePc
<1>8. CASE Serve(b)
  <2>1. \/ task' = task
        \/ task' = [task EXCEPT ![b] = "drain"]
        \/ task' = [task EXCEPT ![b] = "write"]
    BY <1>8 DEF Serve
  <2>2. /\ connected' = clients' /\ UNCHANGED <<handle, listeners, listenFd>>
        /\ task' = [task EXCEPT ![b] = "drain"] \/ UNCHANGED <<clients, connected>>
    BY <1>5, <1>8 DEF Serve
  <2> QED BY <1>4, <1>5, <2>1, <2>2 DEF BridgePc
<1>9. CASE Drain(b)
  BY <1>4, <1>5, <1>9 DEF Drain, BridgePc
<1>10. CASE BridgeWrite(b)
  BY <1>4, <1>5, <1>10 DEF BridgeWrite, BridgePc
<1>11. CASE BridgeWritten(b)
  BY <1>4, <1>5, <1>11 DEF BridgeWritten, BridgePc
<1>12. CASE Cleanup(b)
  <2>1. Closed' /\ handle' = handle /\ task' = [task EXCEPT ![b] = "exit"]
    BY <1>5, <1>12 DEF Cleanup, CloseSockets, Closed
  <2>2. Live' = Live
    BY <1>2, <2>1 DEF Live, BridgeTypeOK
  <2> QED BY <1>1, <2>1, <2>2 DEF BridgeInv, Closed, Alone, Resting
<1>13. CASE Exit(b)
  <2>1. Closed'
    BY <1>3, <1>13 DEF Exit, Closed
  <2>2. Live' = {}
    BY <1>2, <1>13 DEF Exit, Live, BridgeTypeOK
  <2> QED BY <1>1, <2>1, <2>2 DEF BridgeInv, Closed, Alone, Resting
<1> QED BY <1>6, <1>7, <1>8, <1>9, <1>10, <1>11, <1>12, <1>13 DEF BridgeStep, BridgeUartStep

LEMMA SoundPreserved == BridgeTypeOK /\ SoundBridge /\ [Next]_vars => SoundBridge'
<1> SUFFICES ASSUME BridgeTypeOK, SoundBridge, [Next]_vars, Running', ~raced' PROVE BridgeInv'
  BY DEF SoundBridge
<1>1. {Httpd, EventTask} = Actor /\ {EventTaskAway, HttpdAway} \subseteq BOOLEAN
  BY DEF Actor, EventTaskAway, HttpdAway, StopperAt
<1>2. /\ EventTaskAway => \A o \in Actor \ {Httpd} : stopper[o] = "idle"
      /\ HttpdAway => \A o \in Actor \ {EventTask} : stopper[o] = "idle"
  BY NoneIsNoTask DEF Actor, EventTaskAway, HttpdAway, StopperAt
<1>3. CASE UNCHANGED bridgeVars
  <2>1. BridgeInv
    BY <1>3 DEF SoundBridge, bridgeVars, Running
  <2> QED BY <1>3, <2>1 DEF bridgeVars, BridgeInv, Alone, Resting, SocketsUnused, Closed, Live
<1>4. CASE UNCHANGED vars \/ Reset \/ PortStep
  BY <1>3, <1>4 DEF vars, Reset, PortStep
<1>5. CASE WatchdogStep
  BY <1>5 DEF WatchdogStep, Watchdog, Running
<1>6. ASSUME NEW a \in Actor, StopperSteps(a) PROVE BridgeInv'
  <2>1. raced' = raced
    BY <1>6 DEF StopperSteps, StopperStep, Start, SetRunning, Create, Stop, Wait, ForceDelete, Clean
  <2> QED BY <1>6, <2>1, StopperIsSound DEF SoundBridge, StopperSteps
<1>7. ASSUME NEW b \in BridgeTask, BridgeSteps(b) PROVE BridgeInv'
  <2>1. raced' = raced
    BY <1>7 DEF BridgeSteps, BridgeStep, BridgeUartStep, Begin, Loop, Serve, Drain, Cleanup, Exit,
                BridgeWrite, BridgeWritten
  <2> QED BY <1>7, <2>1, TaskIsSound DEF SoundBridge, BridgeSteps
  \* The steps that call start or stop, or leave them alone.
<1>8. ASSUME Running, UNCHANGED <<running, handle, listenFd, clients, task, socketVars>>,
             \/ UNCHANGED <<stopper, raced>>
             \/ \E label \in {"start", "stop"} : CallBridge(Httpd, label, EventTaskAway)
             \/ \E label \in {"start", "stop"} : CallBridge(EventTask, label, HttpdAway)
      PROVE  BridgeInv'
  <2>1. CASE UNCHANGED <<stopper, raced>>
    <3>1. BridgeInv
      BY <1>8, <2>1 DEF SoundBridge
    <3> QED BY <1>8, <2>1, <3>1 DEF BridgeInv, Alone, Resting, SocketsUnused, Closed, Live
  <2>2. ASSUME NEW a \in Actor, NEW label \in {"start", "stop"}, NEW alone \in BOOLEAN,
               CallBridge(a, label, alone),
               alone => \A o \in Actor \ {a} : stopper[o] = "idle"
        PROVE  BridgeInv'
    <3>1. ~raced
      BY <2>2, Zenon DEF CallBridge
    <3> QED BY <1>8, <2>2, <3>1, CallIsSound DEF SoundBridge
  <2> QED BY <1>1, <1>2, <1>8, <2>1, <2>2
<1>9. CASE DockStep
  <2>1. ASSUME NEW m \in Requested, SetPortMode(m) PROVE BridgeInv'
    BY <1>8, <2>1 DEF SetPortMode, Ready
  <2>2. ASSUME NEW on \in BOOLEAN, SetSerialTcp(on) \/ SetPortTrigger(on) PROVE BridgeInv'
    BY <1>3, <1>8, <2>2 DEF SetSerialTcp, SetPortTrigger, Ready
  <2>3. CASE TriggerImpulse \/ SendSerial \/ Reject \/ ChangeMode
    BY <1>3, <2>3 DEF TriggerImpulse, SendSerial, Reject, ChangeMode, bridgeVars
  <2>4. CASE ModeChanged
    BY <1>8, <2>4 DEF ModeChanged
  <2>5. CASE SwitchTcp
    BY <1>8, <2>5 DEF SwitchTcp
  <2> QED BY <1>9, <2>1, <2>2, <2>3, <2>4, <2>5 DEF DockStep, Command
<1>10. CASE HandleEvent
  BY <1>8, <1>10 DEF HandleEvent, Sync
<1> QED BY <1>4, <1>5, <1>6, <1>7, <1>9, <1>10 DEF Next

LEMMA DockSound == Spec => []SoundBridge
<1>1. Spec => []PortTypeOK
  BY DockUsesPort, PortTyped, PTL
<1>2. Spec => []BridgeTypeOK
  BY <1>1, BridgeInitially, BridgeTyped, PTL DEF Spec
<1> QED BY <1>2, SoundInitially, SoundPreserved, PTL DEF Spec

\* serial_bridge.cpp l.83-145: while the HTTP server task and the event task
\* take turns, never two tasks serve one UART.
THEOREM BridgeHasOneTask == Spec => []OneTask
<1>1. SoundBridge => OneTask
  BY DEF SoundBridge, BridgeInv, OneTask
<1> QED BY <1>1, DockSound, PTL

\* serial_bridge.cpp l.90-96, l.134-145, l.348-361: and no socket is left open
\* that the bridge has forgotten, even when a task is deleted.
THEOREM BridgeKnowsItsSockets == Spec => []SocketsKnown
<1>1. SoundBridge => SocketsKnown
  BY DEF SoundBridge, BridgeInv, SocketsKnown
<1> QED BY <1>1, DockSound, PTL

\* external_port.cpp l.220-237: commands, events and the bridge included, a
\* port has no power that its mode does not have.
THEOREM DockPowerFollowsMode == Spec => []NoStrayPower
BY DockUsesPort, PowerFollowsMode, PTL

\* external_port.cpp l.224-230, l.457-495, l.520-594: nor do they get in the way of
\* its UART driver, of its timer, or of the detection.
THEOREM DockPortSound == Spec => [](UartReady /\ TimerOnlyInTrigger /\ NoBrownout)
BY DockUsesPort, UartFollowsMode, TimerFollowsMode, MonoPlugSafe, PTL
-----------------------------------------------------------------------------
(* The bridge as TCP clients see it                                        *)

USE PortTaskAssumption, NoneAssumption, SupportedAssumption, RequestedAssumption
USE DEF ModeCalls, TriggerCalls, outVars, uartVars, callVars, probeVars, eventVars

\* task_handle is a task that lives or, until its sockets are closed, lived, and
\* listen_fd is an open socket.
HandleOK ==
  /\ handle # None <=> handle \in Live \/ \E a \in Actor : stopper[a] = "clean"
  /\ listenFd # None => listenFd \in listeners

SoundHandle == Running /\ ~raced => HandleOK

serviceVars == <<handle, listeners # {}, connected>>

LEMMA HandleInitially == Init => SoundHandle /\ Service!Init
<1> SUFFICES ASSUME Init PROVE HandleOK /\ Service!Init
  BY DEF SoundHandle
<1>1. /\ handle \in BridgeTask \union {None} /\ listenFd = None /\ listeners = {} /\ connected = {}
      /\ task = [b \in BridgeTask |-> IF b = handle THEN "begin" ELSE "none"]
      /\ stopper = [a \in Actor |-> "idle"]
  BY DEF Init, BridgeInit
<1> QED BY <1>1, NoneIsNoTask DEF HandleOK, Live, Service!Init

\* TcpBridge counts as FiniteSets does.
LEMMA SameCardinality == Service!Cardinality(connected) = Cardinality(connected)
BY DEF Service!Cardinality, Cardinality

LEMMA StopperServes ==
  ASSUME BridgeTypeOK, BridgeInv, HandleOK, NEW a \in Actor, StopperStep(a)
  PROVE  (Running' => HandleOK') /\ [Service!Next]_serviceVars
<1> USE NoneIsNoTask DEF StopperTo, StopperAt, TaskTo, TaskAt, HandleOK, BridgeTypeOK
<1>1. PICK o \in Actor \ {a} : Actor = {a, o}
  BY DEF Actor
<1>2. stopper[a] # "idle" => stopper[o] = "idle"
  BY <1>1 DEF BridgeInv, Alone
  \* A step between two others leaves task and sockets as they are.
<1>3. ASSUME UNCHANGED <<handle, listenFd, task, listeners, connected>>,
             stopper[a] # "clean", \E pos \in StopperPc \ {"clean"} : stopper' = [stopper EXCEPT ![a] = pos]
      PROVE  HandleOK' /\ [Service!Next]_serviceVars
  <2>1. Live' = Live /\ \A x \in Actor : stopper[x] = "clean" <=> stopper'[x] = "clean"
    BY <1>3 DEF Live
  <2>2. UNCHANGED serviceVars
    BY <1>3 DEF serviceVars
  <2> QED BY <1>3, <2>1, <2>2
<1>4. CASE Start(a)
  BY <1>3, <1>4 DEF Start, StopperPc
<1>5. CASE SetRunning(a)
  <2>1. stopper[a] = "set" /\ Live = {}
    BY <1>5 DEF SetRunning, BridgeInv
  <2>2. handle = None
    BY <1>1, <1>2, <2>1
  <2>3. /\ handle' = None /\ listenFd' = None /\ UNCHANGED <<listeners, connected, task>>
        /\ stopper' = [stopper EXCEPT ![a] = "create"]
    BY <1>5, <2>2 DEF SetRunning
  <2>4. UNCHANGED serviceVars
    BY <2>2, <2>3 DEF serviceVars
  <2>5. HandleOK'
    BY <1>1, <1>2, <2>1, <2>3 DEF Live
  <2> QED BY <2>4, <2>5
<1>6. CASE Create(a)
  <2>1. /\ stopper[a] = "create" /\ Live = {} /\ UNCHANGED <<listenFd, listeners, connected>>
        /\ stopper' = [stopper EXCEPT ![a] = "idle"]
    BY <1>6 DEF Create, BridgeInv
  <2>2. handle = None
    BY <1>1, <1>2, <2>1
  <2>3. CASE UNCHANGED <<handle, task>>
    <3>1. UNCHANGED serviceVars
      BY <2>1, <2>3 DEF serviceVars
    <3>2. HandleOK'
      BY <1>1, <1>2, <2>1, <2>2, <2>3 DEF Live
    <3> QED BY <3>1, <3>2
  <2>4. ASSUME NEW b \in BridgeTask, task' = [task EXCEPT ![b] = "begin"], handle' = b PROVE HandleOK' /\ [Service!Next]_serviceVars
    <3>1. handle' \in Live' /\ handle' # None
      BY <2>4 DEF Live
    <3>2. Service!Starts
      BY <2>1, <2>2, <2>4 DEF Service!Starts
    <3> QED BY <2>1, <3>1, <3>2 DEF Service!Next
  <2> QED BY <1>6, <2>3, <2>4 DEF Create
<1>7. CASE Stop(a)
  BY <1>3, <1>7 DEF Stop, Stopped, StopperPc
<1>8. CASE Wait(a)
  BY <1>3, <1>8 DEF Wait, StopperPc
<1>9. CASE ForceDelete(a)
  <2>1. UNCHANGED serviceVars /\ UNCHANGED <<handle, listenFd, listeners>>
    BY <1>9 DEF ForceDelete, serviceVars
  <2>2. CASE handle = None
    BY <1>9, <2>1, <2>2 DEF ForceDelete, Running
  <2>3. CASE handle # None
    <3>1. stopper'[a] = "clean"
      BY <1>9, <2>3 DEF ForceDelete
    <3> QED BY <2>1, <2>3, <3>1
  <2> QED BY <2>2, <2>3
<1>10. CASE Clean(a)
  <2>1. /\ connected = clients /\ listeners \subseteq {listenFd} /\ handle' = None
        /\ connected' = connected \ clients /\ listeners' = listeners \ {listenFd} /\ listenFd' = None
    BY <1>10 DEF Clean, CloseSockets, BridgeInv
  <2>2. connected' = {} /\ listeners' = {}
    BY <2>1
  <2>3. stopper' = [stopper EXCEPT ![a] = "idle"] /\ stopper[a] = "clean" /\ handle # None
    BY <1>10 DEF Clean
  <2>4. HandleOK'
    BY <1>1, <1>2, <2>1, <2>3 DEF Live
  <2> QED BY <2>1, <2>2, <2>3, <2>4 DEF Service!Next, Service!Ends
<1> QED BY <1>4, <1>5, <1>6, <1>7, <1>8, <1>9, <1>10 DEF StopperStep

LEMMA TaskServes ==
  ASSUME BridgeTypeOK, BridgeInv, HandleOK, NEW b \in BridgeTask, BridgeStep(b) \/ BridgeUartStep(b)
  PROVE  HandleOK' /\ [Service!Next]_serviceVars
<1> USE NoneIsNoTask DEF TaskTo, TaskAt, HandleOK, BridgeTypeOK
<1>1. stopper' = stopper
  BY DEF BridgeStep, BridgeUartStep, Begin, Loop, Serve, Drain, Cleanup, Exit, BridgeWrite, BridgeWritten
<1>2. Live = {b} /\ handle = b /\ \A a \in Actor : stopper[a] # "clean"
  <2>1. b \in Live
    BY DEF BridgeStep, BridgeUartStep, Begin, Loop, Serve, Drain, Cleanup, Exit, BridgeWrite,
           BridgeWritten, Live
  <2> QED BY <2>1 DEF BridgeInv
<1>3. connected = clients /\ listeners \subseteq {listenFd} /\ (task[b] \in {"begin", "exit"} => Closed)
  BY <1>2 DEF BridgeInv, SocketsUnused, Live
  \* The task lives on, and holds the handle.
<1>4. ASSUME handle' = handle, listenFd' # None => listenFd' \in listeners',
             task' = task \/ \E pos \in BridgePc \ {"none"} : task' = [task EXCEPT ![b] = pos]
      PROVE  HandleOK'
  <2>1. b \in Live'
    BY <1>2, <1>4 DEF Live
  <2> QED BY <1>1, <1>2, <1>4, <2>1
<1>5. CASE Begin(b)
  <2>1. Closed /\ UNCHANGED <<handle, connected>>
    BY <1>3, <1>5 DEF Begin
  <2>2. HandleOK'
    BY <1>4, <1>5, <2>1 DEF Begin, BridgePc, Closed
  <2>3. CASE listeners' = listeners \union {b}
    BY <1>2, <2>1, <2>2, <2>3 DEF Closed, Service!Next, Service!Listens
  <2>4. CASE listeners' = listeners
    BY <2>1, <2>2, <2>4 DEF serviceVars
  <2> QED BY <1>5, <2>3, <2>4 DEF Begin
<1>6. CASE Loop(b) \/ BridgeWrite(b) \/ BridgeWritten(b)
  <2>1. HandleOK'
    BY <1>4, <1>6 DEF Loop, BridgeWrite, BridgeWritten, BridgePc
  <2>2. UNCHANGED serviceVars
    BY <1>6 DEF Loop, BridgeWrite, BridgeWritten, serviceVars
  <2> QED BY <2>1, <2>2
<1>7. CASE Serve(b)
  <2>1. HandleOK' /\ UNCHANGED <<handle, listeners>>
    BY <1>4, <1>7 DEF Serve, BridgePc
  <2>2. CASE connected' = connected
    BY <2>1, <2>2 DEF serviceVars
  <2>3. CASE ~Full /\ \E c \in Client \ connected : connected' = connected \union {c} /\ listenFd # None
    <3>1. Cardinality(connected) < MaxClients
      <4>1. IsFiniteSet(clients) /\ Cardinality(clients) \in Nat
        BY FS_Subset, FS_CardinalityType
      <4> QED BY <1>3, <2>3, <4>1 DEF Full
    <3>2. listeners # {}
      BY <2>3
    <3>3. \E c \in Client \ connected : connected' = connected \union {c}
      BY <2>3
    <3>4. handle # None /\ UNCHANGED <<handle, listeners # {}>>
      BY <1>2, <2>1
    <3>5. Service!Connects
      BY <3>1, <3>2, <3>3, <3>4, SameCardinality, Zenon DEF Service!Connects
    <3> QED BY <2>1, <3>5 DEF Service!Next
  <2>4. CASE \E c \in connected : connected' = connected \ {c}
    BY <1>2, <2>1, <2>4 DEF Service!Next, Service!Leaves
  <2>5. \/ connected' = connected
        \/ ~Full /\ \E c \in Client \ connected : connected' = connected \union {c} /\ listenFd # None
        \/ \E c \in connected : connected' = connected \ {c}
    BY <1>3, <1>7 DEF Serve
  <2> QED BY <2>1, <2>2, <2>3, <2>4, <2>5
<1>8. CASE Drain(b)
  <2>1. HandleOK' /\ UNCHANGED <<handle, listeners>>
    BY <1>4, <1>8 DEF Drain, BridgePc
  <2>2. connected' = connected \/ \E c \in connected : connected' = connected \ {c}
    BY <1>3, <1>8 DEF Drain
  <2>3. CASE connected' = connected
    BY <2>1, <2>3 DEF serviceVars
  <2>4. CASE \E c \in connected : connected' = connected \ {c}
    BY <1>2, <2>1, <2>4 DEF Service!Next, Service!Leaves
  <2> QED BY <2>1, <2>2, <2>3, <2>4
<1>9. CASE Cleanup(b)
  <2>1. /\ handle' = handle /\ listenFd' = None /\ task' = [task EXCEPT ![b] = "exit"]
        /\ connected' = connected \ clients /\ listeners' = listeners \ {listenFd}
    BY <1>9 DEF Cleanup, CloseSockets
  <2>2. HandleOK'
    BY <1>4, <2>1 DEF BridgePc
  <2>3. connected' = {} /\ listeners' = {}
    BY <1>3, <2>1
  <2> QED BY <1>2, <2>1, <2>2, <2>3 DEF Service!Next, Service!Closes
<1>10. CASE Exit(b)
  <2>1. /\ handle' = None /\ task' = [task EXCEPT ![b] = "none"] /\ Closed
        /\ UNCHANGED <<listenFd, listeners, connected>>
    BY <1>3, <1>10 DEF Exit
  <2>2. HandleOK'
    BY <1>1, <1>2, <2>1 DEF Live, Closed
  <2>3. connected' = {} /\ listeners' = {}
    BY <2>1 DEF Closed
  <2> QED BY <1>2, <2>1, <2>2, <2>3 DEF Service!Next, Service!Ends
<1> QED BY <1>5, <1>6, <1>7, <1>8, <1>9, <1>10 DEF BridgeStep, BridgeUartStep

\* A step that neither start, stop nor the task of the bridge takes.
LEMMA OthersServe ==
  ASSUME BridgeTypeOK, HandleOK,
         UNCHANGED <<handle, listenFd, task, listeners, connected>>,
         \A a \in Actor : stopper[a] = "clean" <=> stopper'[a] = "clean"
  PROVE  HandleOK' /\ UNCHANGED serviceVars
BY DEF HandleOK, Live, serviceVars

LEMMA HandlePreserved ==
  ASSUME BridgeTypeOK, SoundBridge, SoundHandle, [Next]_vars, ~raced'
  PROVE  SoundHandle' /\ [Service!Next]_serviceVars
<1> USE NoneIsNoTask
<1>1. CASE UNCHANGED <<handle, listenFd, task, listeners, connected, stopper, raced>> /\ (Running' => Running)
  <2>1. UNCHANGED serviceVars
    BY <1>1 DEF serviceVars
  <2> QED BY <1>1, <2>1, OthersServe DEF SoundHandle
<1>2. CASE PortStep \/ WatchdogStep \/ Reset \/ UNCHANGED vars
  BY <1>1, <1>2 DEF PortStep, WatchdogStep, Watchdog, Reset, vars, bridgeVars, Running
<1>3. ASSUME NEW a \in Actor, StopperSteps(a) PROVE SoundHandle' /\ [Service!Next]_serviceVars
  <2>1. raced' = raced /\ Running /\ StopperStep(a)
    BY <1>3 DEF StopperSteps, StopperStep, Start, SetRunning, Create, Stop, Wait, ForceDelete, Clean
  <2> QED BY <2>1, StopperServes DEF SoundBridge, SoundHandle
<1>4. ASSUME NEW b \in BridgeTask, BridgeSteps(b) PROVE SoundHandle' /\ [Service!Next]_serviceVars
  <2>1. raced' = raced /\ Running /\ (BridgeStep(b) \/ BridgeUartStep(b))
    BY <1>4 DEF BridgeSteps, BridgeStep, BridgeUartStep, Begin, Loop, Serve, Drain, Cleanup, Exit,
                BridgeWrite, BridgeWritten
  <2> QED BY <2>1, TaskServes DEF SoundBridge, SoundHandle
  \* The steps that call start or stop, or leave them alone.
<1>5. ASSUME Running, UNCHANGED <<handle, listenFd, task, listeners, connected>>,
             \/ UNCHANGED <<stopper, raced>>
             \/ \E a \in Actor, label \in {"start", "stop"}, alone \in BOOLEAN : CallBridge(a, label, alone)
      PROVE  SoundHandle' /\ [Service!Next]_serviceVars
  <2>1. CASE UNCHANGED <<stopper, raced>>
    BY <1>5, <2>1, OthersServe DEF SoundHandle
  <2>2. ASSUME NEW a \in Actor, NEW label \in {"start", "stop"}, NEW alone \in BOOLEAN,
               CallBridge(a, label, alone)
        PROVE  SoundHandle' /\ [Service!Next]_serviceVars
    <3>1. ~raced
      BY <2>2, Zenon DEF CallBridge
    <3>2. \A x \in Actor : stopper[x] = "clean" <=> stopper'[x] = "clean"
      BY <2>2 DEF CallBridge, StopperAt, StopperTo, BridgeTypeOK
    <3> QED BY <1>5, <3>1, <3>2, OthersServe DEF SoundHandle
  <2> QED BY <1>5, <2>1, <2>2
<1>6. {Httpd, EventTask} = Actor /\ {EventTaskAway, HttpdAway} \subseteq BOOLEAN
  BY DEF Actor, EventTaskAway, HttpdAway, StopperAt
<1>7. ASSUME NEW m \in Requested, SetPortMode(m) PROVE SoundHandle' /\ [Service!Next]_serviceVars
  BY <1>5, <1>6, <1>7 DEF SetPortMode, Ready
<1>8. ASSUME NEW on \in BOOLEAN, SetSerialTcp(on) PROVE SoundHandle' /\ [Service!Next]_serviceVars
  BY <1>5, <1>6, <1>8 DEF SetSerialTcp, Ready
<1>9. ASSUME NEW on \in BOOLEAN, SetPortTrigger(on) \/ TriggerImpulse \/ SendSerial \/ Reject \/ ChangeMode
      PROVE  SoundHandle' /\ [Service!Next]_serviceVars
  BY <1>1, <1>9 DEF SetPortTrigger, TriggerImpulse, SendSerial, Reject, ChangeMode, bridgeVars, Running
<1>10. CASE ModeChanged
  BY <1>5, <1>6, <1>10 DEF ModeChanged
<1>11. CASE SwitchTcp
  BY <1>5, <1>6, <1>11 DEF SwitchTcp
<1>12. CASE HandleEvent
  BY <1>5, <1>6, <1>12 DEF HandleEvent
<1> QED BY <1>2, <1>3, <1>4, <1>7, <1>8, <1>9, <1>10, <1>11, <1>12 DEF Next, DockStep, Command

\* serial_bridge.cpp l.83-145, l.348-361: until two tasks start and stop it at once,
\* the bridge in the dock is a TcpBridge.
THEOREM BridgeImplementation == Spec => ImplementsBridge
<1>1. Spec => []BridgeTypeOK
  <2>1. Spec => []PortTypeOK
    BY DockUsesPort, PortTyped, PTL
  <2> QED BY <2>1, BridgeInitially, BridgeTyped, PTL DEF Spec
<1>2. Spec => []SoundHandle
  <2>1. BridgeTypeOK /\ SoundBridge /\ SoundHandle /\ [Next]_vars => SoundHandle'
    <3>1. BridgeTypeOK /\ SoundBridge /\ SoundHandle /\ [Next]_vars /\ ~raced' => SoundHandle'
      BY HandlePreserved
    <3>2. raced' => SoundHandle'
      BY DEF SoundHandle
    <3> QED BY <3>1, <3>2
  <2> QED BY <1>1, <2>1, DockSound, HandleInitially, PTL DEF Spec
<1>3. /\ BridgeTypeOK /\ SoundBridge /\ SoundHandle /\ [Next]_vars
      => [~raced' => Service!Next]_<<handle, listeners # {}, connected>>
  BY HandlePreserved DEF serviceVars
<1>4. Init => Service!Init
  BY HandleInitially
<1> QED BY <1>1, <1>2, <1>3, <1>4, DockSound, PTL DEF Spec, ImplementsBridge

-----------------------------------------------------------------------------
(* The bridge and the mode: what the command under way will leave          *)

\* A change of the mode that is done, and asked for RS232.
Granted ==
  step = "changing" /\ pc[Httpd] \in {"post", "idle"} /\ result = "OK" /\ request = "RS232"

\* The call of the port is the one of the command, and a mode that was granted
\* is the mode.
CommandOK ==
  /\ pc[Httpd] \in ModeCalls => step = "changing" /\ call.mode = request
  /\ pc[Httpd] \notin ModeCalls \union {"idle"} => step = "idle"
  /\ pc[Httpd] \in {"lockMode", "release"} => call.mode # mode
  /\ pc[Httpd] = "detect" => call.mode = "AUTO"
  /\ pc[Httpd] = "post" /\ result # "OK" => mode # "RS232"
  /\ Granted => mode = "RS232"

\* In RS232 mode the bridge has the queue of the driver, or gets it next.
QueueGiven == mode = "RS232" => bridgeQueue = queue \/ Granted

CommandInv == CommandOK /\ QueueGiven

LEMMA CommandInitially == Init => CommandInv
BY DEF Init, PortInit, BridgeInit, CommandInv, CommandOK, QueueGiven, Granted

\* The steps of a change of the mode.
LEMMA ModeStepCommand ==
  ASSUME PortInv, CommandInv, ModeStep, UNCHANGED <<bridgeQueue, step, request>> PROVE CommandInv'
<1> USE DEF PortInv, PortTypeOK, CommandInv, CommandOK, QueueGiven, Granted, At, Return, Continue
<1>1. pc[Httpd] \in ModeCalls /\ step = "changing" /\ call.mode = request
  BY DEF ModeStep, Change, LockMode, Release, Detect, ConfigureDetected, Configure, ConfigureUart, PostMode
<1>2. CASE Change
  BY <1>1, <1>2 DEF Change
<1>3. CASE LockMode
  BY <1>1, <1>3 DEF LockMode
<1>4. CASE Release
  BY <1>1, <1>4 DEF Release
<1>5. CASE Detect
  BY <1>1, <1>5 DEF Detect
<1>6. ASSUME NEW m, NEW ok \in BOOLEAN, Configured(m, ok), m = "RS232" <=> ok /\ request = "RS232"
      PROVE  CommandInv'
  BY <1>1, <1>6 DEF Configured
<1>7. CASE ConfigureDetected
  <2>1. PICK m \in {"NOT_CONFIGURED", "IR_BLASTER", "IR_EMITTER"} : Configured(m, TRUE)
    BY <1>7 DEF ConfigureDetected
  <2>2. request = "AUTO"
    BY <1>1, <1>7 DEF ConfigureDetected
  <2> QED BY <1>6, <2>1, <2>2
<1>8. CASE Configure
  BY <1>1, <1>6, <1>8 DEF Configure
<1>9. CASE ConfigureUart
  <2>1. Configured("RS232", TRUE) \/ Configured("NOT_CONFIGURED", FALSE)
    BY <1>9 DEF ConfigureUart
  <2>2. request = "RS232"
    BY <1>1, <1>9 DEF ConfigureUart
  <2> QED BY <1>6, <2>1, <2>2
<1>10. CASE PostMode
  BY <1>1, <1>10 DEF PostMode
<1> QED BY <1>2, <1>3, <1>4, <1>5, <1>7, <1>8, <1>9, <1>10 DEF ModeStep

\* The other steps of a port change neither its mode nor its queue.
OtherPortStep == Impulse \/ SetTrigger(Httpd) \/ Write \/ Written \/ PortTimer

LEMMA OtherPortSteps ==
  ASSUME PortInv, OtherPortStep
  PROVE  /\ UNCHANGED <<mode, queue, events, lost>>
         /\ \/ UNCHANGED <<call, result>> /\ pc'[Httpd] = pc[Httpd]
            \/ /\ pc[Httpd] \notin ModeCalls \union {"idle"}
               /\ pc'[Httpd] \notin ModeCalls
<1> USE DEF PortInv, PortTypeOK, At, Return, Continue
<1>1. CASE Impulse
  BY <1>1 DEF Impulse
<1>2. ASSUME NEW t \in {Httpd, TimerTask}, SetTrigger(t)
      PROVE  /\ UNCHANGED <<mode, queue, events, lost>>
             /\ \/ UNCHANGED <<call, result>> /\ pc'[Httpd] = pc[Httpd]
                \/ /\ pc[Httpd] \notin ModeCalls \union {"idle"}
                   /\ pc'[Httpd] \notin ModeCalls
  BY <1>2 DEF SetTrigger, CheckTrigger, LockTrigger, Switch
<1>3. CASE Write \/ Written
  BY <1>3 DEF Write, Written, TakeTx, GiveTx
<1>4. CASE Expire
  BY <1>4 DEF Expire
<1> QED BY <1>1, <1>2, <1>3, <1>4 DEF OtherPortStep, PortTimer

LEMMA CommandPreserved == PortInv /\ RequestOK /\ CommandInv /\ [Next]_vars => CommandInv'
<1> SUFFICES ASSUME PortInv, RequestOK, CommandInv, [Next]_vars PROVE CommandInv'
  OBVIOUS
<1> USE DEF PortInv, PortTypeOK
<1>1. CASE UNCHANGED <<mode, queue, bridgeQueue, pc, call, result, step, request>>
  BY <1>1 DEF CommandInv, CommandOK, QueueGiven, Granted
<1>2. ASSUME UNCHANGED <<mode, queue, bridgeQueue>>, step = "idle", ~Granted, step' # "changing",
             pc'[Httpd] \notin ModeCalls, step' = "idle" \/ pc'[Httpd] = "idle"
      PROVE  CommandInv'
  BY <1>2 DEF CommandInv, CommandOK, QueueGiven, Granted
<1>3. CASE PortStep
  <2>1. CASE ModeStep
    BY <1>3, <2>1, ModeStepCommand DEF PortStep, bridgeVars
  <2>2. CASE OtherPortStep
    BY <1>3, <2>2, OtherPortSteps
      DEF PortStep, bridgeVars, CommandInv, CommandOK, QueueGiven, Granted
  <2> QED BY <1>3, <2>1, <2>2 DEF PortStep, PortHttpd, PortTimer, OtherPortStep
<1>4. ASSUME NEW m \in Requested, SetPortMode(m) PROVE CommandInv'
  BY <1>2, <1>4 DEF SetPortMode, Ready, Returned, PortIdle, portVars, Granted
<1>5. ASSUME NEW on \in BOOLEAN, SetSerialTcp(on) PROVE CommandInv'
  BY <1>2, <1>5 DEF SetSerialTcp, Ready, Returned, PortIdle, portVars, Granted
<1>6. ASSUME NEW on \in BOOLEAN, SetPortTrigger(on) \/ TriggerImpulse \/ SendSerial PROVE CommandInv'
  BY <1>2, <1>6 DEF SetPortTrigger, TriggerImpulse, SendSerial, CallSetTrigger, CallTriggerImpulse, CallWrite,
       CallPort, Ready, Returned, PortIdle, portVars, Granted, bridgeVars
<1>7. CASE Reject \/ SwitchTcp
  BY <1>7 DEF Reject, SwitchTcp, Done, Returned, PortIdle, portVars, bridgeVars,
       CommandInv, CommandOK, QueueGiven, Granted
<1>8. CASE ChangeMode
  BY <1>8 DEF ChangeMode, CallChangeMode, CallPort, bridgeVars,
       CommandInv, CommandOK, QueueGiven, Granted
<1>9. CASE ModeChanged
  BY <1>9 DEF ModeChanged, Done, Returned, PortIdle, portVars, CommandInv, CommandOK, QueueGiven, Granted
<1>10. CASE HandleEvent
  BY <1>10 DEF HandleEvent, Sync, CommandInv, CommandOK, QueueGiven, Granted
<1>11. ASSUME NEW a \in Actor, StopperSteps(a) PROVE CommandInv'
  BY <1>1, <1>11 DEF StopperSteps, portVars, StopperStep, Start, SetRunning, Create, Stop, Wait, ForceDelete, Clean
<1>12. ASSUME NEW b \in BridgeTask, BridgeSteps(b) PROVE CommandInv'
  <2>1. UNCHANGED <<mode, pc, call, result, step, request, queue, bridgeQueue>>
    BY <1>12 DEF BridgeSteps, portVars, BridgeStep, BridgeUartStep, Begin, Loop, Serve, Drain, Cleanup, Exit,
         BridgeWrite, BridgeWritten, TakeTx, GiveTx
  <2> QED BY <1>1, <2>1
<1>13. CASE WatchdogStep \/ Reset \/ UNCHANGED vars
  BY <1>1, <1>13 DEF WatchdogStep, Watchdog, Reset, vars, portVars, bridgeVars
<1> QED BY <1>3, <1>4, <1>5, <1>6, <1>7, <1>8, <1>9, <1>10, <1>11, <1>12, <1>13
      DEF Next, DockStep, Command

-----------------------------------------------------------------------------
(* The bridge and the mode: what the events will do                        *)

\* The events of the event loop, and the one that is about to be posted.
Announced == IF pc[Httpd] = "post" THEN Append(events, ModeEvent) ELSE events

\* The mode is about to be another one, and this one was not announced.
Changing == pc[Httpd] = "detect" \/ (pc[Httpd] = "configure" /\ call.mode # "RS232")

\* No event of q starts or stops the bridge; and the last one that does is the
\* i-th.
NoSync(q)      == \A i \in 1..Len(q) : ~Sync(q[i])
LastSync(q, i) == Sync(q[i]) /\ \A j \in (i + 1)..Len(q) : ~Sync(q[j])

\* The last event of q that starts or stops the bridge does what mode m needs.
Announces(q, m) ==
  \A i \in 1..Len(q) : LastSync(q, i) => (q[i].active = "RS232" <=> m = "RS232")

AnnouncedOK == ~lost /\ ~Changing => Announces(Announced, mode)

LEMMA AnnouncesTail ==
  ASSUME NEW q \in Seq(Event), q # <<>>, NEW m, Announces(q, m)
  PROVE  /\ Announces(Tail(q), m)
         /\ NoSync(Tail(q)) /\ ~Sync(Head(q)) => NoSync(q)
         /\ NoSync(Tail(q)) /\ Sync(Head(q)) => (Head(q).active = "RS232" <=> m = "RS232")
<1>1. /\ Len(q) \in Nat \ {0} /\ Len(Tail(q)) = Len(q) - 1 /\ Head(q) = q[1]
      /\ \A i \in 1..(Len(q) - 1) : Tail(q)[i] = q[i + 1]
  OBVIOUS
<1>2. ASSUME NEW i \in 1..Len(Tail(q)), LastSync(Tail(q), i)
      PROVE  Tail(q)[i].active = "RS232" <=> m = "RS232"
  <2>1. i + 1 \in 1..Len(q) /\ Sync(q[i + 1]) /\ Tail(q)[i] = q[i + 1]
    BY <1>1, <1>2 DEF LastSync
  <2>2. ASSUME NEW j \in (i + 1 + 1)..Len(q) PROVE ~Sync(q[j])
    <3>1. j - 1 \in (i + 1)..Len(Tail(q)) /\ Tail(q)[j - 1] = q[j]
      BY <1>1
    <3> QED BY <1>2, <3>1 DEF LastSync
  <2> QED BY <2>1, <2>2 DEF Announces, LastSync
<1>3. ASSUME NoSync(Tail(q)) PROVE \A j \in 2..Len(q) : ~Sync(q[j])
  <2> TAKE j \in 2..Len(q)
  <2>1. j - 1 \in 1..Len(Tail(q)) /\ Tail(q)[j - 1] = q[j]
    BY <1>1
  <2> QED BY <1>3, <2>1 DEF NoSync
<1>4. ASSUME NoSync(Tail(q)), ~Sync(Head(q)) PROVE NoSync(q)
  <2> SUFFICES ASSUME NEW j \in 1..Len(q) PROVE ~Sync(q[j])
    BY DEF NoSync
  <2>1. j = 1 \/ j \in 2..Len(q)
    BY <1>1
  <2> QED BY <1>1, <1>3, <1>4, <2>1
<1>5. ASSUME NoSync(Tail(q)), Sync(Head(q)) PROVE Head(q).active = "RS232" <=> m = "RS232"
  <2>1. 1 \in 1..Len(q) /\ LastSync(q, 1)
    BY <1>1, <1>3, <1>5 DEF LastSync
  <2> QED BY <1>1, <2>1 DEF Announces
<1> QED BY <1>2, <1>4, <1>5 DEF Announces

\* An event at the end that starts or stops the bridge is all that counts, any
\* other one does not.
LEMMA AnnouncesAppend ==
  ASSUME NEW q \in Seq(Event), NEW e \in Event, NEW m
  PROVE  /\ Sync(e) => /\ ~NoSync(Append(q, e))
                       /\ Announces(Append(q, e), m) <=> (e.active = "RS232" <=> m = "RS232")
         /\ ~Sync(e) => /\ NoSync(Append(q, e)) => NoSync(q)
                        /\ Announces(q, m) => Announces(Append(q, e), m)
<1> DEFINE r == Append(q, e)
<1>1. /\ Len(q) \in Nat /\ Len(r) = Len(q) + 1 /\ r[Len(q) + 1] = e
      /\ \A i \in 1..Len(q) : r[i] = q[i]
  OBVIOUS
<1> HIDE DEF r
<1>2. ASSUME Sync(e) PROVE ~NoSync(r) /\ (Announces(r, m) <=> (e.active = "RS232" <=> m = "RS232"))
  <2>1. Len(q) + 1 \in 1..Len(r) /\ LastSync(r, Len(q) + 1)
    BY <1>1, <1>2 DEF LastSync
  <2>2. ASSUME NEW i \in 1..Len(r), LastSync(r, i) PROVE i = Len(q) + 1
    <3>1. CASE i < Len(q) + 1
      <4>1. Len(q) + 1 \in (i + 1)..Len(r)
        BY <1>1, <3>1
      <4> QED BY <1>1, <1>2, <2>2, <4>1 DEF LastSync
    <3> QED BY <1>1, <3>1
  <2> QED BY <1>1, <1>2, <2>1, <2>2 DEF NoSync, Announces
<1>3. ASSUME ~Sync(e), NoSync(r) PROVE NoSync(q)
  BY <1>1, <1>3 DEF NoSync
<1>4. ASSUME ~Sync(e), Announces(q, m) PROVE Announces(r, m)
  <2> SUFFICES ASSUME NEW i \in 1..Len(r), LastSync(r, i) PROVE r[i].active = "RS232" <=> m = "RS232"
    BY DEF Announces
  <2>1. i \in 1..Len(q)
    BY <1>1, <1>4 DEF LastSync
  <2>2. LastSync(q, i)
    BY <1>1, <2>1 DEF LastSync
  <2> QED BY <1>1, <1>4, <2>1, <2>2 DEF Announces
<1> QED BY <1>2, <1>3, <1>4 DEF r

LEMMA TailAppend ==
  ASSUME NEW q \in Seq(Event), NEW e \in Event, q # <<>>
  PROVE  /\ Append(Tail(q), e) = Tail(Append(q, e)) /\ Append(q, e) \in Seq(Event)
         /\ Append(q, e) # <<>> /\ Head(Append(q, e)) = Head(q)
OBVIOUS

-----------------------------------------------------------------------------
(* The bridge and the mode: they agree                                     *)

\* The bridge runs, and nobody is about to stop it, or it is about to be started.
Will == \/ step = "switching"
        \/ \E a \in Actor : stopper[a] \in {"start", "set", "create"}
        \/ running /\ \A a \in Actor : stopper[a] # "stop"

\* Once no event is left that starts or stops it, the bridge will run in RS232
\* mode only, and will run in this mode after every command that did not leave
\* it out.
Agreed ==
  NoSync(Announced) =>
    /\ Will => mode = "RS232"
    /\ mode = "RS232" /\ step \in {"idle", "switching"} /\ ~refused /\ ~failed => Will

FollowOK == Running /\ ~raced /\ ~lost /\ ~Changing => Agreed

FollowInv == AnnouncedOK /\ FollowOK

LEMMA FollowInitially == Init => FollowInv
<1> SUFFICES ASSUME Init PROVE FollowInv
  OBVIOUS
<1>1. Announced = events /\ (Will <=> mode = "RS232")
  BY DEF Init, PortInit, BridgeInit, Announced, Will
<1>2. CASE events = <<>>
  BY <1>1, <1>2 DEF FollowInv, AnnouncedOK, Announces, FollowOK, Agreed
<1>3. CASE events = <<[state |-> "OK", active |-> mode]>>
  <2>1. Len(events) = 1 /\ events[1].active = mode
    BY <1>3
  <2> QED BY <1>1, <2>1 DEF FollowInv, AnnouncedOK, Announces, FollowOK, Agreed
<1> QED BY <1>2, <1>3 DEF Init, PortInit

\* The steps of a change of the mode: what becomes of the bridge does not
\* change, and the new mode is announced.
LEMMA ModeStepFollows ==
  ASSUME PortInv, CommandInv, FollowInv, ModeStep, UNCHANGED <<bridgeVars, dockVars>> PROVE FollowInv'
<1> USE DEF PortInv, PortTypeOK, At, Return, Continue
<1>1. /\ Will' = Will /\ Running' = Running /\ raced' = raced
      /\ UNCHANGED <<step, refused, failed>> /\ step \notin {"idle", "switching"}
  BY DEF bridgeVars, Will, Running, CommandInv, CommandOK, ModeStep, Change, LockMode, Release, Detect,
         ConfigureDetected, Configure, ConfigureUart, PostMode
<1>2. ASSUME Announced' = Announced, lost' = lost, ~Changing' => ~Changing,
             ~Changing' => (mode = "RS232" <=> mode' = "RS232")
      PROVE  FollowInv'
  <2>1. AnnouncedOK'
    BY <1>2 DEF FollowInv, AnnouncedOK, Announces
  <2>2. FollowOK'
    BY <1>1, <1>2 DEF FollowInv, FollowOK, Agreed
  <2> QED BY <2>1, <2>2 DEF FollowInv
<1>3. CASE Change \/ LockMode
  BY <1>2, <1>3 DEF Change, LockMode, Announced, Changing
<1>4. CASE Release
  <2>1. Announced' = Announced /\ lost' = lost /\ mode' = "NOT_CONFIGURED"
    BY <1>4 DEF Release, Announced
  <2>2. ~Changing /\ (~Changing' => mode # "RS232")
    BY <1>4 DEF Release, Changing, CommandInv, CommandOK
  <2> QED BY <1>2, <2>1, <2>2
<1>5. CASE Detect
  BY <1>5 DEF Detect, Changing, FollowInv, AnnouncedOK, FollowOK
  \* Success is announced, and makes older events void; the failure to get into
  \* RS232 mode leaves the port without a mode, as it was since its release.
<1>6. ASSUME NEW m \in Mode, NEW ok \in BOOLEAN, Configured(m, ok), pc[Httpd] \in {"detect", "configure"},
             ~ok => ~Changing /\ m = "NOT_CONFIGURED"
      PROVE  FollowInv'
  <2> DEFINE e == [state |-> result', active |-> mode']
  <2>1. Announced = events /\ Announced' = Append(events, e) /\ mode' = m /\ lost' = lost
    BY <1>6 DEF Announced, Configured, ModeEvent
  <2>2. e \in Event /\ (Sync(e) <=> ok) /\ e.active = m
    BY <1>6 DEF Event, Configured, Sync, Result
  <2> HIDE DEF e
  <2>3. CASE ok
    BY <2>1, <2>2, <2>3, AnnouncesAppend DEF FollowInv, AnnouncedOK, FollowOK, Agreed
  <2>4. CASE ~ok
    <3>1. ~Changing /\ mode = m
      BY <1>6, <2>4 DEF ModeKnown
    <3>2. AnnouncedOK'
      BY <2>1, <2>2, <2>4, <3>1, AnnouncesAppend DEF FollowInv, AnnouncedOK
    <3>3. NoSync(Announced') => NoSync(Announced)
      BY <2>1, <2>2, <2>4, AnnouncesAppend
    <3>4. FollowOK'
      BY <1>1, <2>1, <3>1, <3>3 DEF FollowInv, FollowOK, Agreed
    <3> QED BY <3>2, <3>4 DEF FollowInv
  <2> QED BY <2>3, <2>4
<1>7. CASE ConfigureDetected
  <2>1. PICK m \in {"NOT_CONFIGURED", "IR_BLASTER", "IR_EMITTER"} : Configured(m, TRUE)
    BY <1>7 DEF ConfigureDetected
  <2> QED BY <1>6, <1>7, <2>1 DEF ConfigureDetected, Mode
<1>8. CASE Configure
  <2>1. call.mode \in Mode /\ Configured(call.mode, TRUE)
    BY <1>8 DEF Configure, CallOK
  <2> QED BY <1>6, <1>8, <2>1 DEF Configure
<1>9. CASE ConfigureUart
  <2>1. Configured("RS232", TRUE) \/ Configured("NOT_CONFIGURED", FALSE)
    BY <1>9 DEF ConfigureUart
  <2>2. ~Changing /\ pc[Httpd] = "configure"
    BY <1>9 DEF ConfigureUart, Changing
  <2> QED BY <1>6, <2>1, <2>2 DEF Mode
<1>10. CASE PostMode
  <2>1. ~Changing /\ ~Changing' /\ mode' = mode
    BY <1>10 DEF PostMode, Changing
  <2>2. lost' \/ (Announced' = Announced /\ lost' = lost)
    BY <1>10 DEF PostMode, Announced
  <2> QED BY <1>2, <2>1, <2>2 DEF FollowInv, AnnouncedOK, FollowOK
<1> QED BY <1>3, <1>4, <1>5, <1>7, <1>8, <1>9, <1>10 DEF ModeStep

\* start and stop keep to what was decided when they were called.
LEMMA StopperKeepsWill ==
  ASSUME BridgeTypeOK, BridgeInv, NEW a \in Actor, StopperStep(a), step' = step
  PROVE  (Will' => Will) /\ (Will => Will' \/ failed') /\ (failed /\ ~failed' => Will')
<1> USE NoneIsNoTask DEF BridgeTypeOK, StopperTo, StopperAt
<1>1. PICK o \in Actor \ {a} : Actor = {a, o}
  BY DEF Actor
<1>2. stopper[a] # "idle" => stopper[o] = "idle"
  BY <1>1 DEF BridgeInv, Alone
<1>3. CASE Start(a)
  BY <1>1, <1>2, <1>3 DEF Start, Will
<1>4. CASE SetRunning(a)
  BY <1>1, <1>2, <1>4 DEF SetRunning, Will
<1>5. CASE Create(a)
  <2>1. running
    BY <1>5 DEF Create, BridgeInv
  <2> QED BY <1>1, <1>2, <1>5, <2>1 DEF Create, Will
<1>6. CASE Stop(a)
  BY <1>1, <1>2, <1>6 DEF Stop, Stopped, Will
<1>7. CASE Wait(a)
  BY <1>1, <1>2, <1>7 DEF Wait, Will
<1>8. CASE ForceDelete(a)
  BY <1>1, <1>2, <1>8 DEF ForceDelete, Will
<1>9. CASE Clean(a)
  BY <1>1, <1>2, <1>9 DEF Clean, Will
<1> QED BY <1>3, <1>4, <1>5, <1>6, <1>7, <1>8, <1>9 DEF StopperStep

\* An event that is handled while the other task is away does what the mode of
\* the port needs, if it is the last one that starts or stops the bridge.
LEMMA HandleEventFollows ==
  ASSUME PortInv, BridgeTypeOK, FollowInv, HandleEvent PROVE FollowInv'
<1> USE NoneIsNoTask DEF BridgeTypeOK, StopperTo, StopperAt
<1>1. /\ events # <<>> /\ events' = Tail(events) /\ Running
      /\ UNCHANGED <<mode, pc, call, result, lost, halted, running, failed, step, refused>>
      /\ stopper[EventTask] = "idle"
  BY DEF HandleEvent, callVars
<1>2. events \in Seq(Event) /\ ModeEvent \in Event /\ ModeEvent' = ModeEvent
  BY <1>1 DEF PortInv, PortTypeOK, ModeEvent, Event
<1>3. /\ Announced \in Seq(Event) /\ Announced # <<>> /\ Announced' = Tail(Announced)
      /\ Head(Announced) = Head(events)
  BY <1>1, <1>2, TailAppend DEF Announced
<1>4. (Changing' <=> Changing) /\ Running'
  BY <1>1 DEF Changing, Running
<1>5. AnnouncedOK'
  BY <1>1, <1>3, <1>4, AnnouncesTail DEF FollowInv, AnnouncedOK
<1>6. FollowOK'
  <2> SUFFICES ASSUME ~raced', ~lost, ~Changing, NoSync(Announced')
               PROVE  /\ Will' => mode = "RS232"
                      /\ mode = "RS232" /\ step \in {"idle", "switching"} /\ ~refused /\ ~failed => Will'
    BY <1>1, <1>4 DEF FollowOK, Agreed
  <2> DEFINE e == Head(events)
  <2>1. CASE ~Sync(e)
    <3>1. NoSync(Announced)
      BY <1>3, <2>1, AnnouncesTail DEF FollowInv, AnnouncedOK
    <3>2. UNCHANGED <<stopper, raced>>
      BY <2>1 DEF HandleEvent
    <3>3. Will' = Will
      BY <1>1, <3>2 DEF Will
    <3> QED BY <1>1, <1>4, <3>1, <3>2, <3>3 DEF FollowInv, FollowOK, Agreed
  <2>2. CASE Sync(e)
    <3>1. e.active = "RS232" <=> mode = "RS232"
      BY <1>3, <2>2, AnnouncesTail DEF FollowInv, AnnouncedOK
    <3>2. CASE e.active = "RS232"
      <4>1. stopper'[EventTask] = "start"
        BY <2>2, <3>2 DEF HandleEvent, CallBridge, Actor
      <4> QED BY <3>1, <3>2, <4>1 DEF Will, Actor
    <3>3. CASE e.active # "RS232"
      <4>1. CallBridge(EventTask, "stop", HttpdAway)
        BY <2>2, <3>3 DEF HandleEvent
      <4>2. HttpdAway
        BY <4>1, Zenon DEF CallBridge
      <4>3. stopper'[EventTask] = "stop" /\ stopper'[Httpd] = "idle" /\ step' # "switching"
        BY <1>1, <4>1, <4>2 DEF CallBridge, HttpdAway, Actor
      <4> QED BY <3>1, <3>3, <4>3 DEF Will, Actor
    <3> QED BY <3>2, <3>3
  <2> QED BY <2>1, <2>2
<1> QED BY <1>5, <1>6 DEF FollowInv

LEMMA FollowPreserved ==
  /\ PortInv /\ BridgeTypeOK /\ RequestOK /\ SoundBridge /\ CommandInv /\ FollowInv
  /\ [Next]_vars
  => FollowInv'
<1> SUFFICES ASSUME PortInv, BridgeTypeOK, RequestOK, SoundBridge, CommandInv, FollowInv, [Next]_vars
             PROVE  FollowInv'
  OBVIOUS
<1> USE NoneIsNoTask
  \* The steps that change nothing these are about.
<1>1. ASSUME UNCHANGED <<mode, pc, call, result, events, lost, running, stopper, raced, failed, step, refused>>,
             Running' => Running
      PROVE  FollowInv'
  <2>1. Announced' = Announced /\ Changing' = Changing /\ Will' = Will
    BY <1>1 DEF Announced, ModeEvent, Changing, Will
  <2> QED BY <1>1, <2>1 DEF FollowInv, AnnouncedOK, FollowOK, Agreed
  \* Those of the HTTP server task that leave the events and the mode alone.
<1>2. ASSUME UNCHANGED <<mode, events, lost, running, failed>>, Running,
             pc[Httpd] \notin {"post", "detect", "configure"}, pc'[Httpd] \notin {"post", "detect", "configure"},
             ~raced' => ~raced,
             ~raced' /\ Will' => Will \/ mode = "RS232",
             mode = "RS232" /\ step' \in {"idle", "switching"} /\ ~refused' =>
               Will' \/ ((Will => Will') /\ step \in {"idle", "switching"} /\ ~refused)
      PROVE  FollowInv'
  <2>1. Announced' = Announced /\ ~Changing /\ ~Changing'
    BY <1>2 DEF Announced, Changing
  <2>2. AnnouncedOK'
    BY <1>2, <2>1 DEF FollowInv, AnnouncedOK
  <2>3. FollowOK'
    BY <1>2, <2>1 DEF FollowInv, FollowOK, Agreed
  <2> QED BY <2>2, <2>3 DEF FollowInv
<1>3. CASE PortStep
  <2>1. CASE ModeStep
    BY <1>3, <2>1, ModeStepFollows DEF PortStep
  <2>2. CASE OtherPortStep
    <3>1. /\ UNCHANGED <<mode, events, lost>>
          /\ \/ UNCHANGED <<call, result>> /\ pc'[Httpd] = pc[Httpd]
             \/ pc[Httpd] \notin ModeCalls \union {"idle"} /\ pc'[Httpd] \notin ModeCalls
      BY <2>2, OtherPortSteps
    <3>2. UNCHANGED <<running, stopper, raced, failed, step, refused, halted>>
      BY <1>3 DEF PortStep, bridgeVars
    <3>3. Announced' = Announced /\ Changing' = Changing /\ Will' = Will /\ Running' = Running
      BY <3>1, <3>2 DEF Announced, ModeEvent, Changing, Will, Running
    <3> QED BY <3>1, <3>2, <3>3 DEF FollowInv, AnnouncedOK, FollowOK, Agreed
  <2> QED BY <1>3, <2>1, <2>2 DEF PortStep, PortHttpd, PortTimer, OtherPortStep
<1>4. ASSUME NEW m \in Requested, SetPortMode(m) PROVE FollowInv'
  <2>1. /\ UNCHANGED <<mode, events, lost, running, failed, pc, refused>> /\ Running /\ pc[Httpd] = "idle"
        /\ step' = "stopping" /\ step = "idle"
    BY <1>4 DEF SetPortMode, Ready, Returned, PortIdle, portVars
  <2>2. (~raced' => ~raced) /\ (mode = "RS232" \/ UNCHANGED stopper)
    BY <1>4, Zenon DEF SetPortMode, CallBridge
  <2>3. Will' => Will \/ mode = "RS232"
    BY <2>1, <2>2 DEF Will
  <2> QED BY <1>2, <2>1, <2>2, <2>3
<1>5. ASSUME NEW on \in BOOLEAN, SetSerialTcp(on) PROVE FollowInv'
  <2>1. /\ UNCHANGED <<mode, events, lost, running, failed, pc, refused>> /\ Running /\ pc[Httpd] = "idle"
        /\ step = "idle" /\ stopper[Httpd] = "idle"
    BY <1>5 DEF SetSerialTcp, Ready, Returned, PortIdle, portVars, StopperAt
  <2>2. CASE running
    <3>1. step' = "switching" /\ CallBridge(Httpd, "stop", EventTaskAway)
      BY <1>5, <2>2 DEF SetSerialTcp
    <3>2. Will' /\ (~raced' => ~raced)
      BY <3>1, Zenon DEF Will, CallBridge
    <3>3. ~raced' => stopper[EventTask] = "idle"
      BY <3>1, Zenon DEF CallBridge, EventTaskAway, StopperAt
    <3>4. ~raced' => Will
      BY <2>1, <2>2, <3>3 DEF Will, Actor
    <3> QED BY <1>2, <2>1, <3>1, <3>2, <3>4
  <2>3. CASE ~running
    <3>1. UNCHANGED <<step, stopper, raced>>
      BY <1>5, <2>3 DEF SetSerialTcp
    <3>2. Will' = Will
      BY <2>1, <3>1 DEF Will
    <3> QED BY <1>2, <2>1, <3>1, <3>2
  <2> QED BY <2>2, <2>3
<1>6. ASSUME NEW on \in BOOLEAN, SetPortTrigger(on) \/ TriggerImpulse \/ SendSerial PROVE FollowInv'
  <2>1. /\ UNCHANGED <<mode, events, lost, running, failed, stopper, raced, step, refused>> /\ Running
        /\ pc[Httpd] = "idle" /\ pc'[Httpd] \in {"checkTrigger", "impulse", "write"}
    BY <1>6 DEF SetPortTrigger, TriggerImpulse, SendSerial, CallSetTrigger, CallTriggerImpulse, CallWrite,
         CallPort, Ready, Returned, PortIdle, portVars, bridgeVars, PortInv, PortTypeOK
  <2>2. Will' = Will
    BY <2>1 DEF Will
  <2> QED BY <1>2, <2>1, <2>2
<1>7. CASE Reject
  <2>1. /\ UNCHANGED <<mode, events, lost, running, failed, stopper, raced, pc>> /\ Running
        /\ pc[Httpd] = "idle" /\ step = "stopping" /\ step' = "idle"
    BY <1>7 DEF Reject, Done, Returned, PortIdle, portVars, bridgeVars
  <2>2. mode = "RS232" => refused'
    BY <1>7, Zenon DEF Reject
  <2>3. Will' = Will
    BY <2>1 DEF Will
  <2> QED BY <1>2, <2>1, <2>2, <2>3
<1>8. CASE ChangeMode
  <2>1. /\ UNCHANGED <<mode, events, lost, running, failed, stopper, raced, refused>> /\ Running
        /\ pc[Httpd] = "idle" /\ pc'[Httpd] = "change" /\ step = "stopping" /\ step' = "changing"
    BY <1>8 DEF ChangeMode, CallChangeMode, CallPort, Returned, PortIdle, portVars, bridgeVars, PortInv, PortTypeOK
  <2>2. Will' = Will
    BY <2>1 DEF Will
  <2> QED BY <1>2, <2>1, <2>2
<1>9. CASE ModeChanged
  <2>1. /\ UNCHANGED <<mode, events, lost, running, failed, pc>> /\ Running
        /\ pc[Httpd] = "idle" /\ step = "changing" /\ step' = "idle"
    BY <1>9 DEF ModeChanged, Done, Returned, PortIdle, portVars
  <2>2. CASE result = "OK" /\ request = "RS232"
    <3>1. mode = "RS232"
      BY <2>1, <2>2 DEF CommandInv, CommandOK, Granted
    <3>2. CallBridge(Httpd, "start", EventTaskAway)
      BY <1>9, <2>2 DEF ModeChanged
    <3>3. ~raced' => ~raced
      BY <3>2, Zenon DEF CallBridge
    <3>4. Will'
      <4>1. stopper'[Httpd] = "start"
        BY <3>2 DEF CallBridge, StopperTo, BridgeTypeOK, Actor
      <4> QED BY <4>1 DEF Will, Actor
    <3> QED BY <1>2, <2>1, <3>1, <3>3, <3>4
  <2>3. CASE ~(result = "OK" /\ request = "RS232")
    <3>1. UNCHANGED <<stopper, raced>>
      BY <1>9, <2>3 DEF ModeChanged
    <3>2. refused' = (mode = "RS232")
      BY <1>9, <2>3, Zenon DEF ModeChanged
    <3>3. Will' = Will
      BY <2>1, <3>1 DEF Will
    <3> QED BY <1>2, <2>1, <3>1, <3>2, <3>3
  <2> QED BY <2>2, <2>3
<1>10. CASE SwitchTcp
  <2>1. /\ UNCHANGED <<mode, events, lost, running, failed, pc, refused>> /\ Running
        /\ pc[Httpd] = "idle" /\ step = "switching" /\ step' = "idle"
    BY <1>10 DEF SwitchTcp, Done, Returned, PortIdle, portVars
  <2>2. stopper'[Httpd] = "start"
    BY <1>10 DEF SwitchTcp, CallBridge, StopperTo, BridgeTypeOK, Actor
  <2>3. ~raced' => ~raced
    BY <1>10, Zenon DEF SwitchTcp, CallBridge
  <2>4. Will /\ Will'
    BY <2>1, <2>2 DEF Will, Actor
  <2> QED BY <1>2, <2>1, <2>3, <2>4
<1>11. ASSUME NEW a \in Actor, StopperSteps(a) PROVE FollowInv'
  <2>1. /\ UNCHANGED <<mode, pc, call, result, events, lost, step, refused>> /\ Running /\ StopperStep(a)
        /\ raced' = raced
    BY <1>11 DEF StopperSteps, portVars, StopperStep, Start, SetRunning, Create, Stop, Wait, ForceDelete, Clean
  <2>2. Announced' = Announced /\ Changing' = Changing
    BY <2>1 DEF Announced, ModeEvent, Changing
  <2>3. ~raced => (Will' => Will) /\ (Will => Will' \/ failed') /\ (failed /\ ~failed' => Will')
    BY <2>1, StopperKeepsWill DEF SoundBridge
  <2> QED BY <2>1, <2>2, <2>3 DEF FollowInv, AnnouncedOK, FollowOK, Agreed
<1>12. ASSUME NEW b \in BridgeTask, BridgeSteps(b) PROVE FollowInv'
  <2>1. /\ UNCHANGED <<mode, pc, call, result, events, lost, step, refused>> /\ Running
        /\ UNCHANGED <<running, stopper, raced, failed>>
    BY <1>12 DEF BridgeSteps, portVars, BridgeStep, BridgeUartStep, Begin, Loop, Serve, Drain, Cleanup, Exit,
         BridgeWrite, BridgeWritten
  <2> QED BY <1>1, <2>1
<1>13. CASE WatchdogStep \/ Reset \/ UNCHANGED vars
  BY <1>1, <1>13 DEF WatchdogStep, Watchdog, Reset, vars, portVars, bridgeVars, Running
<1>14. CASE HandleEvent
  BY <1>14, HandleEventFollows
<1> QED BY <1>3, <1>4, <1>5, <1>6, <1>7, <1>8, <1>9, <1>10, <1>11, <1>12, <1>13, <1>14
      DEF Next, DockStep, Command

\* ucd_api.cpp l.1988-2058, l.2138-2152: whatever commands and events start and
\* stop the bridge in between, when nothing is left to do it runs if the port is
\* in RS232 mode, with the queue of the driver, and does not run otherwise.
THEOREM BridgeRunsInItsMode == Spec => []BridgeFollowsMode
<1>1. Spec => []RequestOK
  BY RequestInitially, RequestPreserved, PTL DEF Spec
<1>2. Spec => []PortInv
  BY DockUsesPort, PortInvariant, PTL
<1>3. Spec => []BridgeTypeOK
  <2>1. PortInv => PortTypeOK
    BY DEF PortInv
  <2> QED BY <1>2, <2>1, BridgeInitially, BridgeTyped, PTL DEF Spec
<1>4. Spec => []CommandInv
  BY <1>1, <1>2, CommandInitially, CommandPreserved, PTL DEF Spec
<1>5. Spec => []FollowInv
  BY <1>1, <1>2, <1>3, <1>4, DockSound, FollowInitially, FollowPreserved, PTL DEF Spec
<1>6. CommandInv /\ FollowInv => BridgeFollowsMode
  <2> SUFFICES ASSUME CommandInv, FollowInv, Quiet, ~raced
               PROVE  /\ running => mode = "RS232" /\ bridgeQueue = queue
                      /\ mode = "RS232" /\ ~refused /\ ~failed => running
    BY DEF BridgeFollowsMode
  <2>1. /\ Running /\ step = "idle" /\ pc[Httpd] = "idle" /\ events = <<>> /\ ~lost
        /\ \A a \in Actor : stopper[a] = "idle"
    BY DEF Quiet, Ready, Returned, PortIdle, portVars, StopperAt
  <2>2. ~Changing /\ (Will <=> running)
    BY <2>1 DEF Changing, Will
  <2>3. NoSync(Announced)
    BY <2>1 DEF Announced, NoSync
  <2>4. mode = "RS232" => bridgeQueue = queue
    BY <2>1 DEF CommandInv, QueueGiven, Granted
  <2> QED BY <2>1, <2>2, <2>3, <2>4 DEF FollowInv, FollowOK, Agreed
<1> QED BY <1>4, <1>5, <1>6, PTL

=============================================================================
