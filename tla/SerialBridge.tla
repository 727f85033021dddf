---------------------------- MODULE SerialBridge ----------------------------
(***************************************************************************)
(* The bridge between the UART of an external port and TCP clients         *)
(* (components/serial_bridge): the functions that start and stop it, which *)
(* the HTTP server task and the event task call, and its task.             *)
(*                                                                         *)
(* Nothing protects struct serial_bridge: start and stop test and set      *)
(* "running", and what they do with "task_handle" interleaves with each    *)
(* other and with the end of a task.  The task uses the UART driver of     *)
(* the port, whose event queue it was given a handle of.                   *)
(***************************************************************************)
EXTENDS ExternalPort, FiniteSets

CONSTANTS
  EventTask,   \* the task of the default event loop
  BridgeTask,  \* tasks of the bridge; bound: as many exist at a time
  Client,      \* TCP clients
  MaxClients   \* MAX_CLIENTS_PER_PORT

Actor == {Httpd, EventTask}

ASSUME BridgeTaskAssumption ==
  /\ BridgeTask \subseteq Task /\ IsFiniteSet(BridgeTask)
  /\ EventTask \notin {Httpd, TimerTask}
  /\ BridgeTask \intersect {Httpd, EventTask, TimerTask} = {}
ASSUME ClientAssumption == IsFiniteSet(Client) /\ MaxClients \in Nat \ {0}

VARIABLES
  running,    \* bridge->running
  handle,     \* bridge->task_handle
  bridgeQueue, \* bridge->config.uart_event_queue
  tcpEnabled, \* bridge->config.tcp_enabled
  listenFd,   \* bridge->listen_fd: the task that opened it
  clients,    \* bridge->client_fds
  task,       \* what each bridge task is about to do
  tcp,        \* its tcp_active
  watched,    \* tasks the task watchdog waits for
  listeners,  \* listening sockets that are open, by the task that opened them
  connected,  \* open connections
  stopper,    \* what Httpd and EventTask are about to do in start and stop
  halted,     \* why the processor, or a task the dock needs, is gone
  failed,     \* history: the task of the last start could not be created
  raced       \* history: two tasks started or stopped the bridge at once

structVars == <<running, handle, bridgeQueue, tcpEnabled, listenFd, clients>>
taskVars   == <<task, tcp, watched>>
socketVars == <<listeners, connected>>
bridgeVars == <<structVars, taskVars, socketVars, stopper, halted, failed, raced>>

BridgePc  == {"none", "begin", "loop", "serve", "write", "writing", "drain", "cleanup", "exit"}
StopperPc == {"idle", "start", "set", "create", "stop", "wait", "force", "clean"}

BridgeTypeOK ==
  /\ running \in BOOLEAN /\ tcpEnabled \in BOOLEAN
  /\ handle \in BridgeTask \union {None} /\ listenFd \in BridgeTask \union {None}
  /\ bridgeQueue \in Handle \union {None}
  /\ clients \subseteq Client /\ Cardinality(clients) <= MaxClients
  /\ connected \subseteq Client
  /\ task \in [BridgeTask -> BridgePc] /\ tcp \in [BridgeTask -> BOOLEAN] /\ watched \subseteq BridgeTask
  /\ listeners \subseteq BridgeTask
  /\ stopper \in [Actor -> StopperPc]
  /\ halted \in {"no", "uart", "fd_set", "watchdog", "deleted"}
  /\ failed \in BOOLEAN /\ raced \in BOOLEAN

\* DockApi::init() starts the bridge of a port in RS232 mode.
BridgeInit ==
  /\ running = (mode = "RS232")
  /\ bridgeQueue = queue
  /\ handle \in (IF running THEN BridgeTask ELSE {None})
  /\ tcpEnabled \in BOOLEAN
  /\ listenFd = None
  /\ clients = {} /\ connected = {}
  /\ task = [b \in BridgeTask |-> IF b = handle THEN "begin" ELSE "none"]
  /\ tcp = [b \in BridgeTask |-> FALSE]
  /\ watched = {}
  /\ listeners = {}
  /\ stopper = [a \in Actor |-> "idle"]
  /\ halted = "no"
  /\ failed = FALSE /\ raced = FALSE

Running == halted = "no"

Live == {b \in BridgeTask : task[b] # "none"}

StopperAt(a, label) == stopper[a] = label
StopperTo(a, label) == stopper' = [stopper EXCEPT ![a] = label]
TaskAt(b, label)    == task[b] = label
TaskTo(b, label)    == task' = [task EXCEPT ![b] = label]

\* a calls start or stop; "alone" tells whether the other task leaves the
\* bridge alone.
CallBridge(a, label, alone) ==
  /\ StopperAt(a, "idle")
  /\ StopperTo(a, label)
  /\ raced' = (raced \/ ~alone)

-----------------------------------------------------------------------------
(* serial_bridge_start                                                     *)

Start(a) ==
  /\ StopperAt(a, "start")
  /\ StopperTo(a, IF running THEN "idle" ELSE "set")
  /\ UNCHANGED <<structVars, taskVars, socketVars, halted, failed, raced>>

SetRunning(a) ==
  /\ StopperAt(a, "set")
  /\ running' = TRUE
  /\ listenFd' = None
  /\ clients' = {}
  /\ StopperTo(a, "create")
  /\ UNCHANGED <<handle, bridgeQueue, tcpEnabled, taskVars, socketVars, halted, failed, raced>>

Create(a) ==
  /\ StopperAt(a, "create")
  /\ \/ \E b \in BridgeTask :
          /\ TaskAt(b, "none")
          /\ TaskTo(b, "begin")
          /\ handle' = b
          /\ failed' = FALSE
          /\ UNCHANGED running
     \/ IdfFails /\ running' = FALSE /\ failed' = TRUE /\ UNCHANGED <<handle, task>>
  /\ StopperTo(a, "idle")
  /\ UNCHANGED <<bridgeQueue, tcpEnabled, listenFd, clients, tcp, watched, socketVars, halted, raced>>

-----------------------------------------------------------------------------
(* serial_bridge_stop                                                      *)

MutantStopped(a) == StopperTo(a, "idle")
Stopped(a) == StopperTo(a, "wait")

Stop(a) ==
  /\ StopperAt(a, "stop")
  /\ running' = FALSE
  /\ IF running THEN Stopped(a) ELSE StopperTo(a, "idle")
  /\ UNCHANGED <<handle, bridgeQueue, tcpEnabled, listenFd, clients, taskVars, socketVars, halted, failed, raced>>

\* The task is given 500 ms to end.  That is enough unless it waits for a slow
\* UART, or for nothing: it was told to go on, or is gone.
Wait(a) ==
  /\ StopperAt(a, "wait")
  /\ StopperTo(a, IF handle = None THEN "idle" ELSE "force")
  /\ handle # None => running \/ task[handle] \in {"none", "write", "writing"}
  /\ UNCHANGED <<structVars, taskVars, socketVars, halted, failed, raced>>

\* vTaskDelete(bridge->task_handle): the caller deletes itself if the task has
\* reset the handle since it was tested.
ForceDelete(a) ==
  /\ StopperAt(a, "force")
  /\ IF handle = None
     THEN halted' = "deleted" /\ UNCHANGED <<stopper, task>>
     ELSE StopperTo(a, "clean") /\ TaskTo(handle, "none") /\ UNCHANGED halted
  /\ UNCHANGED <<structVars, tcp, watched, socketVars, failed, raced>>

MutantClose ==
  /\ clients' = {} /\ listenFd' = None
  /\ connected' = connected \ clients /\ UNCHANGED listeners
CloseSockets ==
  /\ clients' = {} /\ connected' = connected \ clients
  /\ listenFd' = None /\ listeners' = listeners \ {listenFd}

Clean(a) ==
  /\ StopperAt(a, "clean")
  /\ CloseSockets
  /\ handle' = None
  /\ StopperTo(a, "idle")
  /\ UNCHANGED <<running, bridgeQueue, tcpEnabled, taskVars, halted, failed, raced>>

-----------------------------------------------------------------------------
(* bridge_task                                                             *)

\* Without its TCP server the task goes on to serve the UART.
Begin(b) ==
  /\ TaskAt(b, "begin")
  /\ \/ /\ tcpEnabled
        /\ tcp' = [tcp EXCEPT ![b] = TRUE]
        /\ listenFd' = b /\ listeners' = listeners \union {b}
     \/ /\ ~tcpEnabled \/ IdfFails
        /\ tcp' = [tcp EXCEPT ![b] = FALSE]
        /\ UNCHANGED <<listenFd, listeners>>
  /\ watched' = watched \union {b}
  /\ TaskTo(b, "loop")
  /\ UNCHANGED <<running, handle, bridgeQueue, tcpEnabled, clients, connected, stopper, halted, failed, raced>>

Loop(b) ==
  /\ TaskAt(b, "loop")
  /\ TaskTo(b, IF running THEN (IF tcp[b] THEN "serve" ELSE "drain") ELSE "cleanup")
  /\ UNCHANGED <<structVars, tcp, watched, socketVars, stopper, halted, failed, raced>>

\* select(): it may time out, a client may connect, or be refused, or send, or
\* go.  FD_SET(-1) is undefined.
MutantFull == Cardinality(clients) > MaxClients
Full == Cardinality(clients) >= MaxClients

Serve(b) ==
  /\ TaskAt(b, "serve")
  /\ IF listenFd = None
     THEN halted' = "fd_set" /\ UNCHANGED <<task, clients, connected>>
     ELSE /\ UNCHANGED halted
          /\ \/ TaskTo(b, "drain") /\ UNCHANGED <<clients, connected>>
             \/ /\ ~Full
                /\ \E c \in Client \ connected :
                     clients' = clients \union {c} /\ connected' = connected \union {c}
                /\ TaskTo(b, "drain")
             \/ /\ clients # {}
                /\ TaskTo(b, "write")
                /\ UNCHANGED <<clients, connected>>
             \/ /\ \E c \in clients : clients' = clients \ {c} /\ connected' = connected \ {c}
                /\ TaskTo(b, "drain")
  /\ UNCHANGED <<running, handle, bridgeQueue, tcpEnabled, listenFd, tcp, watched, listeners, stopper, failed, raced>>

\* uart_write_bytes() of what a client sent; uart_driver_delete() during the
\* write is undefined.
BridgeWrite(b) ==
  /\ TaskAt(b, "write")
  /\ \/ TakeTx(b) /\ TaskTo(b, "writing")
     \/ driver = None /\ TaskTo(b, "drain") /\ UNCHANGED uartVars
  /\ UNCHANGED <<structVars, tcp, watched, socketVars, stopper, halted, failed, raced>>

BridgeWritten(b) ==
  /\ TaskAt(b, "writing")
  /\ IF txLock = b
     THEN GiveTx(b) /\ TaskTo(b, "drain") /\ UNCHANGED halted
     ELSE halted' = "uart" /\ UNCHANGED <<uartVars, task>>
  /\ UNCHANGED <<structVars, tcp, watched, socketVars, stopper, failed, raced>>

\* The queue is read, if there is one: it must be the driver's.  A client that
\* cannot be sent to is closed.
Drain(b) ==
  /\ TaskAt(b, "drain")
  /\ IF bridgeQueue \in {None, driver}
     THEN /\ TaskTo(b, "loop")
          /\ UNCHANGED halted
          /\ \/ UNCHANGED <<clients, connected>>
             \/ \E c \in clients : clients' = clients \ {c} /\ connected' = connected \ {c}
     ELSE halted' = "uart" /\ UNCHANGED <<task, clients, connected>>
  /\ UNCHANGED <<running, handle, bridgeQueue, tcpEnabled, listenFd, tcp, watched, listeners, stopper, failed, raced>>

Cleanup(b) ==
  /\ TaskAt(b, "cleanup")
  /\ CloseSockets
  /\ watched' = watched \ {b}
  /\ TaskTo(b, "exit")
  /\ UNCHANGED <<running, handle, bridgeQueue, tcpEnabled, tcp, stopper, halted, failed, raced>>

Exit(b) ==
  /\ TaskAt(b, "exit")
  /\ handle' = None
  /\ TaskTo(b, "none")
  /\ UNCHANGED <<running, bridgeQueue, tcpEnabled, listenFd, clients, tcp, watched, socketVars, stopper, halted, failed, raced>>

\* A task that waits for the UART for too long, or was deleted while it was
\* watched, does not reset the watchdog: CONFIG_ESP_TASK_WDT_PANIC.
Watchdog ==
  /\ \E b \in watched : task[b] \in {"none", "write", "writing"}
  /\ halted' = "watchdog"
  /\ UNCHANGED <<structVars, taskVars, socketVars, stopper, failed, raced>>

-----------------------------------------------------------------------------

\* The steps that start and stop the bridge, and those of its task.
StopperStep(a) == \/ Start(a) \/ SetRunning(a) \/ Create(a)
                  \/ Stop(a) \/ Wait(a) \/ ForceDelete(a) \/ Clean(a)

BridgeStep(b) == \/ Begin(b) \/ Loop(b) \/ Serve(b) \/ Drain(b) \/ Cleanup(b) \/ Exit(b)

BridgeUartStep(b) == BridgeWrite(b) \/ BridgeWritten(b)
=============================================================================
