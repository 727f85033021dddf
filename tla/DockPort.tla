------------------------------ MODULE DockPort ------------------------------
(***************************************************************************)
(* An external port and its serial bridge as the dock uses them            *)
(* (main/ucd_api.cpp): the commands set_port_mode, set_port_trigger,       *)
(* set_serial_tcp and send_serial, served one at a time by the HTTP server *)
(* task, and the handler of EXT_PORT_MODE events in the event task, which  *)
(* brings the bridge in line with the mode a second time.                  *)
(***************************************************************************)
EXTENDS SerialBridge

VARIABLES
  step,      \* how far the HTTP server task is in a command
  request,   \* the mode or the TCP setting it asks for
  refused    \* history: a command left RS232 mode without its bridge

dockVars == <<step, request, refused>>
vars     == <<portVars, bridgeVars, dockVars>>

Steps == {"idle", "stopping", "changing", "switching"}

TypeOK ==
  /\ PortTypeOK
  /\ BridgeTypeOK
  /\ step \in Steps
  /\ request \in Mode \union {"AUTO", "tcp_on", "tcp_off", "none"}
  /\ refused \in BOOLEAN

Init ==
  /\ PortInit
  /\ BridgeInit
  /\ step = "idle"
  /\ request = "none"
  /\ refused = FALSE

\* A function the HTTP server task called has returned.
Returned == PortIdle /\ StopperAt(Httpd, "idle")

\* The tasks between whose uses of the bridge the other one may use it.
EventTaskAway == StopperAt(EventTask, "idle")
HttpdAway     == StopperAt(Httpd, "idle") /\ step # "switching"

Done == step' = "idle" /\ request' = "none"

\* Between two commands.
Ready == Running /\ step = "idle" /\ Returned

-----------------------------------------------------------------------------
(* processSetPortMode                                                      *)

\* The bridge is stopped before anything else is looked at.
SetPortMode(m) ==
  /\ Ready
  /\ request' = m
  /\ step' = "stopping"
  /\ IF mode = "RS232" THEN CallBridge(Httpd, "stop", EventTaskAway) ELSE UNCHANGED <<stopper, raced>>
  /\ UNCHANGED <<portVars, structVars, taskVars, socketVars, halted, failed, refused>>

\* The UART parameters are missing or wrong, or cannot be stored.
Reject ==
  /\ Running
  /\ step = "stopping" /\ Returned
  /\ request = "RS232"
  /\ Done
  /\ refused' = (refused \/ mode = "RS232")
  /\ UNCHANGED <<portVars, bridgeVars>>

ChangeMode ==
  /\ Running
  /\ step = "stopping" /\ Returned
  /\ step' = "changing"
  /\ CallChangeMode(request)
  /\ UNCHANGED <<bridgeVars, request, refused>>

\* The bridge is started if RS232 was asked for; refused otherwise, the port
\* may still be in RS232 mode.
ModeChanged ==
  /\ Running
  /\ step = "changing" /\ Returned
  /\ Done
  /\ IF result = "OK" /\ request = "RS232"
     THEN /\ bridgeQueue' = queue
          /\ CallBridge(Httpd, "start", EventTaskAway)
          /\ refused' = FALSE
     ELSE /\ refused' = (mode = "RS232")
          /\ UNCHANGED <<bridgeQueue, stopper, raced>>
  /\ UNCHANGED <<portVars, running, handle, tcpEnabled, listenFd, clients, taskVars, socketVars, halted, failed>>

-----------------------------------------------------------------------------
(* processSetPortTrigger, set_serial_tcp and processSendSerial             *)

SetPortTrigger(on) ==
  /\ Ready
  /\ CallSetTrigger(on)
  /\ UNCHANGED <<bridgeVars, dockVars>>

TriggerImpulse ==
  /\ Ready
  /\ CallTriggerImpulse
  /\ UNCHANGED <<bridgeVars, dockVars>>

\* A running bridge is stopped, and started again with the new setting.
SetSerialTcp(enable) ==
  /\ Ready
  /\ IF running
     THEN /\ step' = "switching"
          /\ request' = IF enable THEN "tcp_on" ELSE "tcp_off"
          /\ CallBridge(Httpd, "stop", EventTaskAway)
          /\ UNCHANGED tcpEnabled
     ELSE tcpEnabled' = enable /\ UNCHANGED <<step, request, stopper, raced>>
  /\ UNCHANGED <<portVars, running, handle, bridgeQueue, listenFd, clients, taskVars, socketVars, halted, failed, refused>>

SwitchTcp ==
  /\ Running
  /\ step = "switching" /\ Returned
  /\ Done
  /\ tcpEnabled' = (request = "tcp_on")
  /\ CallBridge(Httpd, "start", EventTaskAway)
  /\ UNCHANGED <<portVars, running, handle, bridgeQueue, listenFd, clients, taskVars, socketVars, halted, failed, refused>>

SendSerial ==
  /\ Ready
  /\ mode = "RS232" /\ running
  /\ CallWrite
  /\ UNCHANGED <<bridgeVars, dockVars>>

-----------------------------------------------------------------------------
(* dockEventHandler                                                        *)

\* The event carries the mode the port had when it was posted, the queue is
\* the one it has now.
MutantSync(e) == e.state = "OK" /\ e.active = "RS232"
Sync(e) == e.state = "OK"

HandleEvent ==
  /\ Running
  /\ StopperAt(EventTask, "idle")
  /\ events # <<>>
  /\ events' = Tail(events)
  /\ LET e == Head(events)
     IN  CASE Sync(e) /\ e.active = "RS232" ->
                bridgeQueue' = queue /\ CallBridge(EventTask, "start", HttpdAway)
           [] Sync(e) /\ e.active # "RS232" ->
                CallBridge(EventTask, "stop", HttpdAway) /\ UNCHANGED bridgeQueue
           [] OTHER -> UNCHANGED <<bridgeQueue, stopper, raced>>
  /\ UNCHANGED <<outVars, timer, uartVars, callVars, probeVars, lost,
                 running, handle, tcpEnabled, listenFd, clients, taskVars, socketVars, halted, failed, dockVars>>

-----------------------------------------------------------------------------

Command == \/ \E m \in Requested : SetPortMode(m)
           \/ \E on \in BOOLEAN : SetPortTrigger(on) \/ SetSerialTcp(on)
           \/ TriggerImpulse \/ SendSerial

DockStep == \/ Command \/ Reject \/ ChangeMode \/ ModeChanged \/ SwitchTcp

PortStep == /\ Running
            /\ PortHttpd \/ PortTimer
            /\ UNCHANGED <<bridgeVars, dockVars>>

StopperSteps(a) == /\ Running
                   /\ StopperStep(a)
                   /\ UNCHANGED <<portVars, dockVars>>

BridgeSteps(b) ==
  /\ Running
  /\ \/ BridgeStep(b) /\ UNCHANGED portVars
     \/ BridgeUartStep(b) /\ UNCHANGED <<outVars, timer, callVars, probeVars, eventVars>>
  /\ UNCHANGED dockVars

WatchdogStep == Running /\ Watchdog /\ UNCHANGED <<portVars, dockVars>>

\* The mutex of uart_write_bytes() was taken by a task that does not exist any
\* more, and the HTTP server task waits for it.
Stuck ==
  /\ At(Httpd, "write")
  /\ txLock \in BridgeTask /\ ~TaskAt(txLock, "writing")

\* A dock that stopped, or serves no request any more, is reset sooner or
\* later, and starts from Init: nothing follows here.
Reset == (~Running \/ Stuck) /\ UNCHANGED vars

Next == \/ DockStep
        \/ PortStep
        \/ HandleEvent
        \/ \E a \in Actor : StopperSteps(a)
        \/ \E b \in BridgeTask : BridgeSteps(b)
        \/ WatchdogStep
        \/ Reset

Spec == Init /\ [][Next]_vars

-----------------------------------------------------------------------------
(* Properties                                                              *)

\* Nothing is under way, no event is left, and none was lost.
Quiet ==
  /\ Ready /\ At(TimerTask, "idle") /\ events = <<>> /\ ~lost
  /\ \A a \in Actor : StopperAt(a, "idle")

\* serial_bridge.cpp l.83-145: unless it is started or stopped by two tasks at
\* once, the bridge has one task at most, and task_handle is this task.
OneTask == Running /\ ~raced => Live \subseteq {handle}

\* serial_bridge.cpp l.90-96, l.348-361: every open socket is one the bridge
\* knows, and will close.
SocketsKnown ==
  Running /\ ~raced => connected = clients /\ listeners \subseteq {listenFd}

\* ucd_api.cpp l.1988-2058, l.2138-2152: in the end the bridge runs in RS232
\* mode, with the queue of the driver, and in no other mode, in whatever order
\* events and commands start and stop it.
BridgeFollowsMode ==
  Quiet /\ ~raced =>
    /\ running => mode = "RS232" /\ bridgeQueue = queue
    /\ mode = "RS232" /\ ~refused /\ ~failed => running

-----------------------------------------------------------------------------
\* The bridge as TCP clients see it.
Service == INSTANCE TcpBridge WITH
  Task <- BridgeTask,
  NoTask <- None,
  server <- handle,
  listening <- listeners # {},
  conns <- connected

\* serial_bridge.cpp l.83-145, l.348-361: one task at a time serves the clients,
\* at most MAX_CLIENTS_PER_PORT of them, and it takes over a port without sockets,
\* deleted tasks, allocations that failed and late events included.
ImplementsBridge ==
  /\ Service!Init
  /\ [][~raced' => Service!Next]_<<handle, listeners # {}, connected>>
=============================================================================
