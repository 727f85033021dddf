# Verification of the Dock 3 firmware

TLA+ models of the Unfolded Circle Dock 3 firmware (`src/`), TLC runs on small
instances of them, and TLAPS proofs for all instances. The firmware is a set of
FreeRTOS tasks on a dual-core ESP32-S3 that share queues, event groups and plain
C++ members; most of what can go wrong in it happens between two tasks.

## 1. The system

### Tasks

| Task | Where | Runs |
|---|---|---|
| HTTP server ("httpd") | `components/webserver` | every REST and WebSocket request, one at a time; closes sessions |
| default event loop ("event task") | ESP-IDF | `WS_DISCONNECTED`, the two `dockEventHandler`s (of `DockApi` and of the display), LED events |
| IR send, IR learn | `components/infrared/service_ir.cpp` | `send_ir_f`, `learn_ir_f` |
| GlobalCache listener, one task per client | `components/infrared/globalcache_server.cpp` | TCP port 4998 |
| network | `components/network/src/network.cpp` | the network state machine |
| log sender | `main/ucd_api.cpp` | created for the first log subscriber, ends after the last |
| serial bridge, one per port | `components/serial_bridge` | UART to TCP and WebSocket |
| BLE host | NimBLE, `components/network/src/wifi_provisioning.c` | GAP events and Improv commands of a phone |
| timer task | FreeRTOS | the display's state machine and its timers, trigger impulses, authentication timeouts, network and Improv timers |

### Components

| Component | State | Operations | Interacts with | Hard part | Correct when |
|---|---|---|---|---|---|
| Infrared sending | `m_queue` (length 1), `IR_REPEAT_BIT`, `IR_REPEAT_STOP_BIT`, `m_currentSendCode`, locals of `send_ir_f` | `send`, `sendGlobalCache`, `stopSend`, the send task | called from httpd, event task and GlobalCache tasks without a lock | check-then-act on queue and bits from several tasks; acknowledging bits | one request at a time, each answered once; a stop wins; an extension reaches its own transmission; no runaway |
| Infrared learning | `IR_LEARNING_BIT`, `IR_LEARNING_RAW_BIT`, `m_callbackOverride` | `startIrLearn`, `stopIrLearn`, the learn task | the same tasks; `send` refuses while it is on | callback replaced while in use; quick stop and start unnoticed | results reach who asked |
| IR commands of `DockApi` | `sockfdSendIR_` | `ir_send`, `ir_stop`, disconnect | calls the infrared service from two tasks | socket numbers are reused; the owner outlives its transmission | a vanished client's transmission stops, nobody else's does |
| Log streaming | `g_active`, `g_log_queue`, `log_subscribers_`, `log_queue_`, `log_sender_task_handle_` | hook, `enable_log_events`, disconnect, sender task | every task that logs | sentinel through a shared queue; start and stop from two tasks; task overlap | subscribers get logs, no task without subscribers |
| WebSocket sessions | `unauthenticated_fds_`, session context | connect, `auth`, disconnect, timeout check | timer task closes sessions | authentication races the timeout | who authenticated stays, who did not goes |
| External ports | `mode_`, lock, timer, UART driver flag | `changeMode`, `setTrigger`, `triggerImpulse` | httpd, timer task, start-up | mode read outside the lock by the timer | pins match the mode; an impulse ends |
| Serial bridge | `running`, task handle, clients, sockets | `start`, `stop`, `send_to_uart`, the task | httpd and event task start and stop it | check-then-act on `running`; forced deletion | one task per UART; stopped when the port is not RS232 |
| Serial events | `port_buffers`, subscribers | `set_serial_config`, receive callback | bridge task and httpd | buffer resized while filled | no byte outside the buffer, none lost silently |
| Network | `stateId`, event queue (length 3), one one-shot timer, `retries_`, the WiFi and the Ethernet driver | 19 events, 26 states (four superstates, four that are never entered) | event task turns driver events into events of the queue; timer task and BLE host post too; the network task calls the drivers and posts to itself | stale timer events; events of a connection that is over; a task that waits for room in the queue only it empties | every wait ends; Ethernet wins over WiFi; the state matches the connection |
| Improv provisioning | connection handle, Improv state, two timers, `improv_init_` | BLE connect, disconnect, RPC commands, `improv_set_authorized` and friends | BLE host, timer and network task write the state without a lock | clicks and clients that are gone when their event is handled | only who pressed the button provisions; the next phone finds it ready |
| GlobalCache server | client slots | accept, commands, close | infrared service | slots released on every path | at most the configured clients |
| Display | `stateId`, history, event queue (length 6), one one-shot timer, `previous_screen_`, `error_screen_` | 28 events, 32 states, screens, error screen with its own timer | event task fills the queue; timer task empties it, runs the state machine and posts the factory reset to the event task | a queue filled and emptied by tasks that wait for each other; timers and screens across interruptions by errors and the button | the screen is the one of the state; every wait ends; a reset restarts the dock |
| Firmware update, charger, LED, button, configuration, statistics | | | | mostly sequential | |

The behaviour that is hard to test is listed line by line under `hazards` in
`PROJECT.json`, with the properties that cover it.

## 2. Plan

1. **Infrared** (done): `IrTransmitter` (what the callers are promised),
   `IrSend` (the service), `DockIr` (its clients), with proofs.
2. **Log streaming** (done): `LogStream`, with its counting invariant proved.
3. **External ports and serial bridge** (done): `ExternalPort` (mode, outputs,
   trigger timer, UART driver), `SerialBridge` (start, stop, task), `DockPort` (the
   commands and the event handler that tie them), `TcpBridge` (what TCP clients are
   promised), with proofs.
4. **Network and Improv** (done): `NetworkEvents` (queue, timer task), `Improv` (the
   BLE side), `NetworkSm` (the state machine and the drivers), with all its invariants
   proved. Left: an abstract network manager (no network, Ethernet, WiFi, Improv) that
   `NetworkSm` implements, and what is live in it (a reachable network is used in the
   end).
5. **Display** (done): state machine, queue, timers and error screen.
6. **Learning** (done): `IrLearn` (start, stop, the learn task), `GcServer` (slots
   and clients), composed with the display in `DockLearn`, with proofs.
7. **Sessions** (done): `WsAuth`, with proofs. Left: an abstract server (a session is
   opened, authenticated or closed) that `WsAuth` implements while no socket is opened
   too early.
8. Not begun: the line buffers of serial events, whose hazards are about bytes and
   their bounds; the retries of the firmware update.

Every module takes its sets and bounds as CONSTANTS, has one action per access to
shared state and uses no RECURSIVE operator, so that theorems can be stated about it.

## 3. Modules

| Module | Models |
|---|---|
| `IrTransmitter` | abstract: one transmitter; accept, answer, release |
| `IrSend` | `service_ir.cpp`: `send`, `stopSend`, `send_ir_f` and its repeat callback |
| `DockIr` | extends `IrSend` by the WebSocket commands, sessions and disconnects of `ucd_api.cpp` and by the GlobalCache commands |
| `MCDockIr` | values of the constants for TLC |
| `IrSendProofs`, `DockIrProofs` | theorems |
| `LogStream` | `log_router.c` and the log part of `ucd_api.cpp` |
| `MCLogStream` | symmetry for TLC |
| `LogStreamProofs` | theorems |
| `ExternalPort` | `external_port.cpp`: `changeMode`, detection, trigger and its timer, UART driver |
| `TcpBridge` | abstract: one task at a time serves the TCP clients of a port and leaves no socket behind |
| `SerialBridge` | extends `ExternalPort` by `serial_bridge.cpp`: `serial_bridge_start`, `serial_bridge_stop`, `bridge_task` |
| `DockPort` | extends `SerialBridge` by the commands and the event handler of `ucd_api.cpp` |
| `MCExternalPort`, `MCDockPort` | symmetry and a state constraint for TLC |
| `ExternalPortProofs`, `DockPortProofs` | theorems |
| `NetworkEvents` | the event queue of `network.cpp`, the state timer and the timer task's callbacks |
| `Improv` | extends `NetworkEvents` by `wifi_provisioning.c`: BLE host task, timer callbacks, button |
| `NetworkSm` | extends `Improv` by `NetworkSm.cpp`, `NetworkSmBase.cpp` and `network_wifi.cpp`: state machine and drivers |
| `MCNetworkSm` | the instance for TLC |
| `NetworkSmProofs` | theorems |
| `Display` | `DisplaySm.cpp`, `DisplaySmBase.cpp`, `DisplayDriver.cpp` |
| `IrLearn` | `service_ir.cpp`: `startIrLearn`, `stopIrLearn`, `learn_ir_f` |
| `GcServer` | extends `IrLearn` by `globalcache_server.cpp`: slots, clients and what they do to learning |
| `DockLearn` | extends `Display` and `GcServer` by the WebSocket commands, the events between them and what the display does to learning |
| `MCDisplay`, `MCDockLearn` | inputs, sets and state constraints for TLC |
| `DockLearnProofs` | theorems about the display and about learning |
| `WsAuth` | the sessions in `WebServer.cpp` and their authentication in `ucd_api.cpp` |
| `MCWsAuth` | two sockets for TLC |
| `WsAuthProofs` | theorems |

### Infrared

`pc[t]` is the next access to shared state of calling task `t`; the actions
`Call`, `CheckSending`, `CompareCode`, `Extend`, `ClearBits`, `Enqueue`,
`RecordCode`, `Return` are `send()` from its first line to its return, `SetStop`
and `ClearRepeat` are `stopSend()`. `spc` does the same for the send task: `Peek`
takes the message and sets the callback's captured variables, `Frame` is one frame
sent by the IRremoteESP8266 library, `Callback`, `Rearm` and `Decide` are
`repeatCallback`, split where it reads and clears the event bits, `Reply` and
`Release` end the message.

Abstractions. A code is a model value; a code that does not parse is a member of
`BadCode`. `Assigning`: while another task assigns the `std::string`
`m_currentSendCode`, what a comparison meets is the old text, the new one or a mixture
that is no code. Time is counted in frames. A request that neither repeats nor holds is
sent without the callback, once, but that may be several frames: `Embedded` is what the
code or its protocol adds (the repeat field of a UC code, its protocol's minimum repeats,
the repeat of a GlobalCache code), and `rest` counts how many of them the library still
sends without asking anybody (`Uncontrolled`). The format, the outputs and the text of the answers are left
out except for their being valid or not. A memory error in a parser restarts the
dock (`OutOfMemory`).

`DockIr` adds the tasks that call: the HTTP server task (`Serve...`, `Finish...`),
the event task (`TakeEvent`, `StopOwned`, `NotOwned`, `ForgetOwner`) and the
GlobalCache tasks (`Gc...`). `sockfdSendIR` is read and written without a lock as
in the code. Socket numbers are reused; `session` tells the sessions on one socket
apart. `cleared` is history: a `send()` took the stop bit away while the message it was
meant for was in the queue. Two more history variables say who keeps a transmission going: `keeper` is the session
that was recorded last in `sockfdSendIR_`, `overtaken` whether it was recorded while the
event task was stopping the transmission of another one. The event task then clears
`sockfdSendIR_` after its `stopSend()` returned (`ucd_api.cpp:514`), whoever is in it, and the
new owner is forgotten: the case in which `VanishedOwnerStopped` claims nothing.

### Log streaming

The HTTP server task and the event task run the same steps (`pc[a]`): `Enable`,
`Disable` or `TakeEvent` change the subscribers under the mutex, `Decide` reads
`log_queue_`, then `Activate`, `Create`, `AssertHandle` start the stream, or
`Deactivate`, `PostSentinel` or `LoseSentinel`, `Unlink` stop it. `posting` are
the tasks between the hook's test of `g_active` and `xQueueSend`. `disturbed` is history:
the handlers of the two tasks overlapped, or a sender task could not be created. `task[t]` is a
sender task: `FirstRun` reads `log_queue_` (a null pointer ends in a failed
assertion of the kernel), `Receive`, `Sent`, `Drain`, `Exit`. After a failed
assertion the dock reboots.

Abstractions. An entry has no content. The mutex' timeouts (50 ms, 1 s) are not
modelled: it is held for a few instructions by tasks that inherit priority. What a
sender task sends to which socket is not modelled; the time it takes is. The queue
is created by `log_router_init` and never deleted. `DockApi` is never destroyed.

### External ports and the serial bridge

`ExternalPort` has one port. `pc` says what the HTTP server task and the timer
task are about to do in a call, `call` what was asked for. `Change`, `LockMode`,
`Release`, `Detect`, `Configure...` and `PostMode` are `changeMode()` from its
first line to the event it posts; `Impulse`, `CheckTrigger`, `LockTrigger` and
`Switch` are `triggerImpulse()` and `setTrigger()`, and `Expire` is the timer that
calls the latter. `out` is the set of outputs that are on. `Detect` steps through
the 24 settings of `detectPortType()`, three for each entry of `VECTOR`. `driver` is
the driver as ESP-IDF has it, `installed` and `queue` are what the port remembers
of it: `ConfigureUart` can fail between them, as `initUart()` can.

`SerialBridge` has the fields of `struct serial_bridge`, which no lock protects.
`stopper[a]` is where the HTTP server task or the event task is in
`serial_bridge_start` or `serial_bridge_stop`, `task[b]` where a bridge task is in
`bridge_task`. `halted` records why nothing goes on: the UART was used after its
driver was deleted, `FD_SET(-1)`, the task watchdog, or a task that deleted itself.

`DockPort` adds `processSetPortMode` (`SetPortMode`, `Reject`, `ChangeMode`,
`ModeChanged`), `set_serial_tcp` (`SetSerialTcp`, `SwitchTcp`), the other commands,
and `HandleEvent`, which is `dockEventHandler` for `EXT_PORT_MODE`. `Service` is what
all this is to the network: a `TcpBridge` whose server is the task of `task_handle`, and
whose connections are the sockets that are open, not those the bridge remembers, so that
a socket that is left open when the next task starts would be seen (`ImplementsBridge`).

Abstractions. Mono and stereo emitters drive the outputs alike and are one mode;
what is measured during detection may come out in any way. UART parameters and
bytes are left out. A bridge task that is not stuck in `uart_write_bytes()` ends
within the 500 ms that `serial_bridge_stop` waits, so that only one that is stuck,
or that was told to go on, is deleted by force. The 100 ms for which
`setTrigger()` and `changeMode()` wait for the port's lock are exceeded during
detection only. Undefined behaviour (a deleted queue, `FD_SET(-1)`) halts the model.

`raced` becomes true when the HTTP server task and the event task use the bridge
at the same time: one calls start or stop while the other is inside, or between the
stop and the start of `set_serial_tcp`. The code lets that happen (the check of
`running` and its assignment are not atomic), and after it there may be two bridge
tasks on one UART, or none. The properties of the bridge are therefore claimed up to the
first race, and the runs of `DockPort` look no further (`Unraced`): what they cover is
every order in which the two tasks start and stop it one after the other.

### Network and Improv

`queue` is `network_queue`, which the network task alone empties. A handler runs from
its event to its first post in one step (`Dispatch`, one definition per state of the
generated state machine: `EthActive`, `WifiConnecting`, `ImprovAuthorized`, ...); what
it has left to post, or the timer it still starts, is in `todo` (`TaskPosts`,
`TaskArms`). That is as fine as the code needs: the drivers' events and the callbacks
go through the queue, and what the network task shares with others without a lock, the
Improv state, is looked at and set in steps of their own (`TaskChecks`, `TaskSets`).
`Enter...` are the enter handlers with the functions of `NetworkSmBase.cpp` they call,
`Wait` is a state whose handler only starts or stops the timer, `TryAgain` the choice
point on `retries_`. An inherited transition is taken
in every state that inherits it; START, which the root state handles, in all of them.

`timer` is the one timer all states share, with the period it was started for. When it
expires (`TimerExpires`) its callback may be anywhere before its post: stopping the
timer, and setting another one, no longer takes the event back. `callback` is what the
timer task is in; the two Improv timers use the same task.

`station` and `eth` are the drivers with the part of their state the code depends on.
`left` and `ethNews` are events that were raised and that the event task has not
handled. `Leave` is every call that ends a connection: its disconnect event comes later
and is not told apart from that of a connection that was lost, as in the code. A station
that roams (`Roams`) and an address that is lost (`LostAddress`) post nothing:
`network_wifi.cpp:124` waits for the driver to connect again, and `network.cpp:395` only
logs. In WIFI_CONNECTED the dock may thus be without an address, and `WifiConnectedTrue`
speaks of the connection only.

In `Improv`, no task holds a lock: each of the three looks at the Improv state or at the
connection, does something else, and sets the state. What a task has decided on is kept
for the BLE host in `ble` (the event it posts, `BlePosts`, then the state it sets,
`BleSetsState`; `init` is `init_improv`, which looks at the connection then), for the timer
task in `callback` (`Unauthorize`, `Terminate`, `VerifySetsState`) and for the network task
in `todo` (`TaskChecks` is the test in `improv_set_authorized` or
`on_wifi_connect_timeout`, `TaskSets` the `improv_set_state` that follows). Any task can
come between, the BLE host with a disconnect and the next connect as well.
`improv_command` reads the state at the start and writes it back at the end (`Command`,
`WifiSettings`). `conn` is `dropped` between `verify_connection_cb` and the event that the
connection is over. Two variables are history: `pressed` (the button, since this client
connected) and `overtaken` (a task had looked at the state and not yet set it when STOPPED
was set: its state is the one that stays).

Left out. The states behind a CONNECT_TO_AP outside Improv and behind DELETE_WIFI
(`ETH_CONNECTING_NEW`, `WIFI_CONNECTING_NEW`, `WIFI_CONNECTING_NEW_FAILED`,
`WIFI_USER_DISCONNECTED`): nothing in the firmware posts DELETE_WIFI, and
`CredentialsInImprov`, which is proved, says that the other event is never handled
there. `isWifiPreferred()` is false in every build. Networks without a password, which
`hasWifiConfig()` does not find after the restart; failing allocations;
inside `improv_set_state`, the comparison with the old state that decides on its timer;
timers that cannot be started; advertising, LED patterns and what is read over BLE
besides the state.

### Display

All of it runs in callbacks of the one timer task, so that a callback is a step, unless
it waits: `posting` is `factoryReset()`, which waits for room in the event loop, and
`stopping` is `stopIrLearning()`, where learning may interfere. `DoHandler` and
`Dispatch` are `onEventQueueTimer` (DO, then one event; `Common`, `Connecting`,
`Learning`, `Ota`, `Running`, `Improving`, `Countdown` are the handlers of the generated
state machine, as tables where they only make a transition, and `Unhandled` is every
other event). `StateTimerExpires` and `DismissError` are the two timers. `Goto` is a
transition: `TimerAfter`, `HistoryAfter` and `ScreenAfter` are what exit and enter
handlers do to the timer, to the history and to the screen. `Raise` and `Deliver` are an
event on its way through the default event loop into the queue, or not (`Drop`).

`shown` names a screen by the state that draws it; `previous` is what will be restored
when an error is dismissed. `lost` is history: the timer expired while the queue was
full, and `xQueueSendToFront` waited in vain for the task that called it.

Abstractions. Two parameters are part of the event's name (`FATAL_ERROR`; `HELD_SHORT`
and `HELD_LONG` for a button released before or after the time of a factory reset).
Texts, icons and the LED are left out, and so are screens that a state draws again while
it lasts. The LVGL lock is obtained within its 20 s: left out is the path on which it is
not, where `showErrorScreen` takes `error_screen_` back and draws nothing
(`DisplayDriver.cpp:347-351`), and the state machine stays where it is without the error
being seen. A timer that expires is handled by
a poll before it can expire again: 50 ms against seconds.

### Learning and the GlobalCache server

`step[t]` is what a task still has to write in `startIrLearn` or `stopIrLearn`, which
write the callback and the bits one after the other, in opposite orders. `learner` is the
learn task: `Wakes`, `Checks` or `Retires`, `Hears` or `Decodes`, and then `Delivers` and
`CallsBack`, which read `m_callbackOverride` one after the other; if it became empty in
between, the call aborts (`Aborted`). `Receives` is a command of a GlobalCache client up
to the test of `isIrLearning()`; a client that is gone is the command "end".

`DockLearn` ties them to the display: the learn task's events (`Posts`) wait in the
default event loop in their order (`news`), are passed on among the others
(`Dispatches`), and the display calls `stopIrLearn()` when it leaves the learning screen
(`DisplayStops`). `missed` is history: the IR_LEARNING_STOP of the last session was lost
to a full queue.

### Sessions

`session[s]` is what the HTTP server knows of a socket. Its task is in the middle of
something where another task can come between: `authenticating` after
`setAuthenticated()` and before the entry is erased, `closing` after a session is gone
and before its event is posted. `Checks` is `checkAuthTimeouts()` as far as it holds the
mutex, `Queues` what it does to each socket afterwards, `Works` the HTTP server task
closing whatever session has the socket by then. `Disconnected` is the event task.

Time is counted in checks: an entry expires after it has seen `Limit` of them. The mutex
is held for a few instructions, so that its timeout of 200 ms is left out (in `auth` it
would leave an authenticated session in the map). `overtaken` is history: the sockets
that were opened again before the event of the last session had been handled.

## 4. Runs

| Run | Shows |
|---|---|
| `ir_one_client` | WebSocket clients on two sockets with all kinds of requests, and the event task: a transmission is stopped when the client that keeps it going has vanished, whoever got its socket meanwhile, and every accepted request is answered (under fairness). |
| `ir_mixed` | Two sessions on one socket number and a GlobalCache client: the queue's head is the message in work, no runaway, no dangling owner, a stop is lost only to a `send()` that clears the bits of a message it did not see, and the whole implements `IrTransmitter`. |
| `ir_extend` | Finding: of two clients, one extends a transmission of another code and is answered 202. |
| `log_stream` | Two clients, two sender tasks, failing allocations: subscribers have a working stream unless a request and a disconnect were handled at once, no closed socket stays subscribed, a stopped stream leaves at most one entry per logging task, and under fairness a full queue is emptied. |
| `log_assert` | Finding: `assert(log_sender_task_handle_)` fails when log events are switched off and on quickly. |
| `port_modes` | A port in all modes, with any calls, late timer callbacks and a failing driver: power, timer and driver follow the mode; detection does not short a mono plug. |
| `dock_port` | A port that is switched between RS232 and nothing by commands and events, with a bridge, two TCP clients, failing allocations and a UART that may block: one bridge task, no leaked socket, and in the end the bridge runs exactly in RS232 mode (unless a refused command or a failed allocation left it off); to TCP clients it implements `TcpBridge`. |
| `network` | The state machine with both drivers, a phone and a button, retries, failing starts and restarts: every wait has its timer, WiFi is believed in while it is connected, Ethernet wins, who provisions pressed the button, and once everybody is done with a phone that left, the dock waits for the next one. |
| `display` | The display alone with 21 of its 28 events, an event loop of one and a queue of two entries: no wait without its timer, no screen of a state that is over, errors are dismissed once, and a factory reset restarts the dock. |
| `dock_learn` | Learning started and stopped by WebSocket clients, a GlobalCache client and the display: slots add up, the callback names a client that asked, and the learning screen ends. |
| `ws_sessions` | Two sockets, of which one is closed at a time: who has not authenticated is watched and closed in the end (under fairness), who has is not in the map. |
| `net_provisioned` | Finding: the network task waits for itself and the dock does not restart after it was provisioned. |

Bounds. Infrared: two calls of `send()` (a race, a stop that is cleared, an extension and
a change of the owner need two; the finding of `ir_extend` takes three: the one that is
extended, the one that took its place, and the request that compared before), `MAX_REPEAT` 2 instead of 20 (the smallest value that stays below a repeat
count and allows for an extension), two sessions, on two socket numbers in `ir_one_client`
(two clients at once, or one that reconnects; 0.6 million states) and on one in `ir_mixed`
(every new session reuses it; 1.5 million), two codes plus one that does not parse (code `a`
is two frames when sent once, `b` has a protocol with two repeats); six requests, one
for each answer `send()` can give. A hold is two or four frames. Log streaming: a queue of two entries instead of
64 (a sentinel behind an entry, and a full queue), two sender tasks (the old and
the new one overlap), one logging task, one pending disconnect; the queue is thus
larger than what one logging task can leave behind, which `LeftoverBounded` needs
to say anything. The constraint `Undisturbed` ends a behaviour where two handlers overlap
(0.3 million states; without it more than 2.4): `StreamAlive`, `LeftoverBounded` and
`QueueDrains` claim nothing from there to the next restart, so that it takes no case from
them, and that `TypeOK` and `SubscribersConnected` hold afterwards as well is proved.
There are no counters, so the runs on `LogStream` cover behaviours of any length. External port: two queue handles (a stale one and the
driver's), two events in the queue (one is late while the next is posted, and the
queue can be full). The bridge adds two bridge tasks (an old one next to its
successor) and two clients for one slot (one is refused); its runs have RS232 and
no mode only, the modes that start and stop it, the others being covered by
`port_modes`. No counter here either.

Network: a queue of two instead of three entries in `network`, of three in
`net_provisioned`, whose counterexample is the real queue filled by three events of the
two seconds the handler sleeps. Two entries are enough for an event to be late and for
the queue to be full when the task, a callback or a driver posts; that the length
changes nothing, nor a configured Ethernet address (`EthStatic`), is what the theorems
say. The constraint `Apart` leaves out a phone while the cable is plugged in, roaming
during the one attempt Improv makes, a second click behind one in the queue, and most
states of a dock about to restart, which all lead to the same one: 2.1 million states are
left. The theorems leave out none of it. `MaxRetry` 2
instead of 10: a retry that is allowed, the last one, and `FewRetriesLeft`. There is no
other counter.

Display: a queue of two entries instead of six, which is full when a timer expires behind
an event, and an event loop of one. The events left out (`MCDisplay`) differ from one
that is kept in the screen only; the theorems have all of them and any lengths. Learning:
one GlobalCache client, one slot and queues of one: each of the other tasks (httpd, timer
task) is a second and a third one that starts and stops learning. The WebSocket client
asks for decoded codes only (the constraint `RawForClients`; raw ones are asked for by the
GlobalCache client), and nobody learns before the dock is connected (`FewScreens`), which
leaves 2.2 million states; without the constraints 4.9 million were checked. Two clients are what the theorems are for. Sessions: two sockets, three
checks, one session closed at a time instead of two, so that a check leaves one to the
next. None of the three has a counter, so they cover behaviours of any length.

`CHECK_DEADLOCK FALSE` is in the infrared configurations, where the calls are
bounded and after a memory error the dock is restarting, and in those of the network,
where the network task may wait for itself with every other task behind it (the finding).
A dock port that halted stutters (`Reset`): the dock is restarted and begins anew.

Fairness. Weak fairness of the send task, of the event task, of `log_sender` and
of the HTTP server task's steps inside a handler: each is a FreeRTOS task that
blocks only where its guard says so. Likewise the network task and the timer task, and
the event task as far as a raised disconnect event (`Left`) and the start of the Ethernet
driver are concerned. In `display`, the event task, the polls and the timers; strong
fairness only of the post in `factoryReset()`: FreeRTOS gives room in a queue to the
tasks that wait for it in the order of their priority, so that the timer task is not
overtaken for ever. In `ws_sessions`, the event task, the timer and the HTTP server task,
whose loop handles a queued closing in each round whatever clients do (strong fairness of
`Works`, since a request may be served first). Nothing is assumed of clients, phones, cables and access points, of
the tasks that log or of the GlobalCache clients.

## 5. Proofs

`IrSendProofs`. The inductive invariant `IInv` joins `TypeOK` with five parts:
`CallsOK` (a task inside `send()` holds the message it was called with), `IdsOK`
(the messages of different tasks, of the queue and of the send task have ids that
were given out, and different ones), `QueueOK` (at most one message),
`QueueHeadOwned`, `CountdownOK` (elapsed frames plus those still allowed stay
within the bound) and `AnswersOK` (answered ids were accepted; the one in the
queue is answered only between `Reply` and `Release`). From it follow type
correctness, `QueueHeadIsOwned`, `NoRunaway` and the refinement `Implementation`.

`StopIsKept` is for any number of senders: `StopOK` says that after a stop the bit is still
set, or a `send()` has taken it away (`cleared`), or the callback has seen it and counts
down to the end, and how many frames have gone out in each case. Its last part assumes
`OneSender` (one task calls `send()`), which the code does not guarantee: see Findings for
what happens without it. `AloneInv` adds that the queue is empty between the sender's check
and its `Enqueue`, so that `ClearBits` cannot hit a stop that was meant for a message in
the queue, and `StopIsHonoured` follows. Both are about transmissions that repeat or hold
(`Controlled`): nothing stops the frames of a single send.

`DockIrProofs` shows that every step of `DockIr` is a step of `IrSend` or leaves its
variables alone, hence that everything above holds for the dock, and that the owner
of a transmission is never a socket nobody will clean up (`OwnerIsKnown`). `DockPipeline`
lifts the invariants of the pipeline and `DockStopIsKept` what holds of stops;
`DockStopIsHonoured` and `VanishedOwnerIsStopped` are for one sender, which a dock without
GlobalCache clients has. The second one follows from
`KeeperInv`: a transmission that is `Ongoing` (it goes on by itself and was not stopped)
is that of the call being served, or it is `Tracked`: `sockfdSendIR_` is the socket of
`keeper`, and `keeper` is connected or its own disconnect is still to be handled, in the
queue or in the event task before it looked. `ServeOK` says what the HTTP server task's
position implies, and `RaceOK` that a transmission which is ongoing while the event task
stops one has begun since and will be forgotten, which is what `overtaken` records.

`LogStreamProofs` proves the four invariants of `LogStream`. What keeps the
stream alive is a count, `Balance`: there are at least as many live sender tasks as
sentinels in the queue, and one more while the stream is on (`Owed`), because a
start creates one task, a stop posts at most one sentinel (none when the queue is
full), and a task ends only by consuming one. `CountAppend` and `CountTail` say how
the number of sentinels changes with the queue. `LinkOK` ties `subscribers`, `linked`
and `active` at each step of a handler, and holds because handlers of the two tasks
`Alternate`; an overlap, or a task that could not be created, sets `disturbed`, and
nothing is claimed after it (what happens then is described under Findings).
`NoStaleSubscriber` needs `Connected` only, as sockets become subscribers in the handler that
finds them open and their disconnects keep their order. `LeftoverIsBounded` needs `Leftover`:
`Unserved` (no sender task that could still receive, and none about to be created) is left
only by a start, and entered by the last task's drain, when the queue is empty and the
stream off: from then on only a task that had passed the test of `g_active` can post, so
that an entry more is a posting task less. That logging tasks are finitely many
(`ProducerAssumption`) is what makes them countable.

`ExternalPortProofs` proves the type invariant and the four properties of `port_modes` from
`PortInv`. Its
heart is `LockOK` (who holds the lock at which step), `ModeKnown` (the HTTP server
task, which alone changes the mode, knows it where it relies on it) and `PowerOK`:
the timer task tests the mode before it takes the lock, so what it knows may be stale
when it switches, but then it only switches off. `MonoPlugSafe` needs `ProbeOK`, which
ties the outputs of the current setting to what was found of the plug.

`DockPortProofs` shows that every step of `DockPort` is a step of `ExternalPort` or
leaves the port alone (`DockUsesPort`), which lifts those theorems to the dock. For
the bridge, `BridgeInv` says that at most one of the two tasks is in start or stop
(`Alone`), that a bridge which does not run and is not being stopped has no task,
that none is left when one is created or the sockets of a deleted one are closed, and
that all sockets are closed where no task uses them (`SocketsUnused`, `Closed`). The
type invariant and `OneTask` alone are not inductive: a step of a stop would have to
be known not to meet a start. `SoundBridge` claims it up to the first race.

`BridgeRunsInItsMode` is about the order in which commands and events reach the bridge.
Neither the mode nor the bridge says what is to come, so the invariant has three parts.
`CommandInv`: a command that changed the mode to RS232 (`Granted`) has yet to hand the
driver's queue to the bridge, and otherwise the bridge has it. `AnnouncedOK`: unless an
event was lost or the mode is just being changed, the last event that starts or stops the
bridge, of those in the queue and the one about to be posted (`Announced`), does what the
present mode needs, so that an event that comes late is corrected by a later one.
`FollowOK`: once no such event is left, what start and stop will have made of the bridge
(`Will`) is right for the mode, unless a refused command or a failed allocation left it
off. Each step of a change, of an event and of start or stop keeps the three together.

`BridgeImplementation` maps each step of `DockPort` to one of `TcpBridge` or to a stutter,
up to the first race. Beyond `BridgeInv` it takes `HandleOK`: `task_handle` is a task that
lives, or one deleted by force whose sockets are about to be closed, and `listen_fd` is
an open socket.

`NetworkSmProofs` proves all seven invariants of `network`, for every length of the
queue, every `MaxRetry` and both kinds of Ethernet address. `DispatchMoves` and
`DispatchFrame` say once and for all which transitions the handlers make and what they
leave alone, `TaskFrame`, `TimerFrame`, `WifiFrame`, `EthFrame` and `BleFrame` what each
other task can post. Events are what the tasks know of each other, so the inductive
invariants are about the order of the queue: `Followed(a, b)` says that each `a` in it
has a `b` behind it. `EthInv`: a link-down event is followed by the address of the
present link. `WifiInv`: without a connection, an address is followed by the end of its
connection. `ButtonInv`: without a client, a connect event is followed by a disconnect,
and a click that is not of this connection is followed by the end of the one before
(`ClickStale`). `DeadlineInv` adds that only `WIFI_CONNECTING` may still have to start
its timer, `CredentialsInv` that a client needs the BLE stack, and `StartInv` that START is posted
once and nothing comes before it: without that, the root state's handler would lead out
of Improv. `RecoverInv` is about
the time between two connections, when the BLE host is done with the last one: unless the
dock is about to restart (`Restarting`), it is `BetweenClients`, which says that only a task
that had decided before the disconnect can have changed the state since, or is about to,
and to what; and that AUTHORIZED has its timer running, or the timer's callback at work.
It takes `ButtonInv` for the state machine's half: with nothing queued, a client that is
gone is one it knows to be gone.

`DockLearnProofs` proves the invariants of `display` and of `dock_learn` for any lengths of
the queues and any numbers of sockets and slots. `UiInv` joins the type with `WaitWatched`
and four parts about the screen: `ErrorOK` (one dismissal for an error that is not
fatal, none without an error), `HistoryOK`, `PreviousOK` (what would be restored is a screen
of the state, which is stronger than what is shown being one, and inductive) and
`ShownOK`. Every transition is one of a few kinds (`Goto`, `GotoError`, `Resume`), and one
lemma for each says that it keeps `UiInv`, whatever handler makes it. That the display in
the dock takes only such steps lifts them to `DockLearn` (`DisplayInDock`). `GcInv` counts:
slots, clients and the one being accepted. `CallbackInv` says that a client that has not
asked is not named by the callback, unless a stop is about to forget it. `ScreenInv` is
about order: each IR_LEARNING_START on its way to the display has a STOP behind it, or
the session it announces still lasts, or the STOP was lost; so has the learning screen.

`WsAuthProofs` proves both invariants of `ws_sessions`, for any sockets, timeout and number
of sessions closed at a time. They need `StepsTaken` (what the HTTP server task has done
to the session it is in the middle of) and `LateEvents`: a session can be hit by the event
of the last one only if its socket was opened before that was handled.

Only model-checked: the temporal properties under fairness (`AcceptedAnswered`, `QueueDrains`,
`ResetReboots`, `UnauthenticatedClosed`), which are out of the prover's reach. Every
invariant and action property that a run checks is a theorem.

## 6. Findings

Each is a run that TLC ends with a counterexample; `PROJECT.json` quotes the text
the code departs from.

* `send()` compares the code with that of the active transmission and then sets the repeat
  bit (`service_ir.cpp:243-244`). If the transmission ends in between and another task's
  message takes its place, that one is extended, and the request is answered 202 although
  its code is not sent any more. It takes two senders (httpd and a GlobalCache task).
* `assert(log_sender_task_handle_)` races the previous sender task's exit (`ucd_api.cpp:1763`, `:1915`).
* After provisioning, the network task posts REBOOT to a queue that three events have
  filled while it slept, and waits for itself (`NetworkSm.cpp:2092`, `network.cpp:146`).

Three more departures from comments were met in the models and are described here only.
A stop is lost when two tasks are in `send()` at once: both find the queue empty
(`service_ir.cpp:233`), and the second one clears the stop bit of the transmission the
first one started (`:266`) before it is refused; the comments at `:240-242` ("A stop
always takes priority") and `:279` assume otherwise. As a behaviour: httpd finds the queue
empty, a GlobalCache task enqueues a message that repeats, the event task stops it, httpd
clears both bits and is answered 429; the repeats go on to their end (TLC finds it when
`StopHonoured` is checked with two senders). `StopKept` says that there is no other way,
and with one sender there is none. A lost sentinel leaves a sender task behind
(`log_router.c:193`): it waits for ever, where the comment at `:194` says that it "will drain and eventually
idle-exit". A late `EXT_PORT_MODE` event starts the bridge between its stop and the
deletion of the driver (`ucd_api.cpp:2003`, `:2144`), which the comment at `:2002` means to
prevent; the model has the outcome (`halted`).

Met on the way, without a text that excludes them: a single send is not stopped, and the
repeat field of a GlobalCache code, which is overwritten only when the request repeats
(`service_ir.cpp:591-593`), has no cap on the WebSocket API: the comment at `:222-227` is
about the `repeat` of the request, and the parser limits the field of a UC code to 20
(`ir_codes.cpp:118`); `RunawayBound` takes both as they are (`Embedded`); `sockfdSendIR_` outlives the
transmission it was set for, so that a disconnect can stop that of somebody else
(`ucd_api.cpp:512`); a client whose `ir_send` becomes the owner between the event task's
`stopSend()` and its assignment of -1 (`ucd_api.cpp:513-514`) is forgotten, and its
transmission goes on to its end when it vanishes, which the comment at `:871-874` is
there to prevent (without `~overtaken`, TLC finds it in `ir_one_client`); a `set_port_mode` command that is refused has already stopped the
bridge of an RS232 port (`ucd_api.cpp:2003`, `:2010`); `202: extended` may extend
nothing, when the send task has asked its callback for the last time
(`service_ir.cpp:243`); the impulse timer runs before the trigger is set, and
`duration_ms * 1000` wraps at 32 bits, so that an impulse of about 71.6 minutes is a
very short one (`external_port.cpp:398`); a pending impulse ends a steady trigger set
later; when `initUart()` fails, the pin of the 5V switch stays an input
(`external_port.cpp:296`, `:322`), and the driver may stay installed, so that the next
attempt fails as well; a bridge task deleted by force stays subscribed to the task
watchdog and may keep the driver's mutex (`serial_bridge.cpp:138`).

Of log streaming: the handlers of the HTTP server task and of the event task may overlap
(`ucd_api.cpp:535`; `disturbed`), since each counts the subscribers under the mutex and
tests `log_queue_` after it. The event task finds nobody subscribed, a client subscribes
and starts the stream, and the event task stops it: the client is subscribed and gets
nothing until all have gone and one comes back. Or both handlers stop the stream: the
second sentinel stays in the queue and ends the sender task of the next session, with
subscribers and `g_active` on. `StreamAlive`, `LeftoverBounded` and `QueueDrains` claim
nothing after an overlap; without `~disturbed` TLC finds a counterexample to each of the
two invariants.

Of the serial bridge: start and stop may overlap (`serial_bridge.cpp:87`; `raced`). A start
that meets a stop finds `running` false, creates a second task beside the one that is
ending and overwrites its handle: the stop then waits for, and deletes, the wrong one, or
the start has cleared `client_fds` and `listen_fd` while the old task had sockets open. A
start from an event that comes while `set_serial_tcp` restarts the bridge finds it running
just before the stop: the bridge stays off in RS232 mode. `OneTask`, `SocketsKnown`,
`BridgeFollowsMode` and `ImplementsBridge` claim nothing after such a race; without
`~raced` TLC finds a counterexample to each of the four.

Of the display: its timers have priority in the queue (`DisplayDriver.cpp:55-57`), but when
it is full, the timer task waits a second for room that only the timer task makes, and the
TIMER is lost: BOOT_ANIMATION, IR_LEARNED_OK and the states of an update then stay until
another event ends them. A fatal error replaces one that is not, whose timer then dismisses
it as well. While RESET_COUNTDOWN or ERROR lasts, events are ignored, so that the state
they return to may be out of date, and the countdown does not end if the release of the
button is lost. The screen of IMPROV_PROVISIONING is not remembered, so that after an error
the one before it is restored. `factoryReset()` waits for the event loop with
`portMAX_DELAY` in the task it says must not be blocked (`DisplaySmBase.cpp:415-417`); what
ends the wait is that the event task gives up on the display's queue after a second, which
`ResetReboots` relies on. `holdtime` is a `uint16_t` (`button.cpp:38`), so that a button held for
65.5 s counts as held for none.

Of learning: when the display handles the IR_LEARNING_STOP of one session, or leaves the
learning screen for any other reason, it calls `stopIrLearn()` and ends the session that
has begun meanwhile (`DisplaySm.cpp:1353-1365`). Two tasks that start and stop at once can
leave learning on without the callback, so that codes meant for a GlobalCache client are
broadcast. `m_callbackOverride` is tested and then called (`service_ir.cpp:823`, `:826`), and a
stop in between empties it: the call of an empty `std::function` aborts. A stop and a start
within 20 ms are not noticed by the learn task, which keeps the format of the first.

Of the sessions: the disconnect event of an old session erases the entry of a new one on
the same socket (`ucd_api.cpp:520`), which then need not authenticate, in spite of "Auto-close
unauthenticated WebSocket connections after n seconds." (l.33); `overtaken` names exactly these. A client that
authenticates after `checkAuthTimeouts()` collected its socket, or the next client on it,
is closed with 1008.

Of the network: a TIMER event that was on the way when its timer was stopped is handled
in the next state, where it ends a wait that has just begun, or, in most Ethernet states,
restarts the dock (`NetworkSmBase.cpp:226`). WiFi that was stopped because a cable was
plugged in is not started again by `initWifi()`, which finds its interface created: every
attempt then fails until the dock restarts. With a configured address, `ETH_FALLBACK`
leads to `ETH_ACTIVE_CONNECTED` although the cable may be unplugged. The disconnect event
of a connection the code itself ended counts as a failure of the attempt that follows.
`improv_command` writes back the state it read at its start, and PROVISIONING after the
event was posted, over whatever the other tasks set in between; the phone then sees an
old state until it connects again (`wifi_provisioning.c:153`). `improv_set_authorized` tests for
AWAITING_AUTHORIZATION and sets AUTHORIZED later (`:531`, `:539`): if the phone disconnects in
between, the BLE host sets STOPPED and the network task AUTHORIZED after it, with no
client. The timer of the authorization ends it after its time, and the next connection
resets it; but if the network task comes later still, behind `init_improv` of the next
connection, that phone reads AUTHORIZED although nobody pressed the button for it. The
state machine does not follow it there (`ButtonAuthorizes`), and its WIFI_SETTINGS are
posted to a state that ignores them. `on_wifi_connect_timeout` and `on_authorized_timeout`
(`:279-290`, `:543-549`) have the same gap. `DisconnectRecovers` therefore allows what an
overtaken task leaves, and says that it is all there is and that it does not last. `verify_connection_cb`
posts its disconnect event after the connection was terminated, possibly behind the
connect event of the next client (`wifi_provisioning.c:381`). A network without a
password can be provisioned, but is not found after the restart, so that provisioning
begins again. The callback of the state timer logs the tag that `stopTimer()` may have
freed (`NetworkSmBase.cpp:32`).

Further differences between `doc/log-router.md` and the code, met on the way: the
queue is created by `log_router_init`, not by `log_router_start` (l.127, l.146);
"no new real entries are enqueued after this point" (l.180) overlooks a task that
has passed the test of `g_active`; l.69 and l.323 allow four subscribers, the
code two; `log_router.c:18` says that the oldest entries are dropped, the newest
is.

## 7. Not modelled

IRremoteESP8266, LVGL, ESP-IDF and FreeRTOS are external (`managed_components` and
vendored code are most of the repository's lines): queues, event groups, semaphores, the
event loop and the HTTP server are modelled by what the code relies on. Left out of what
is this firmware's own: the framing and parsing of commands and codes, the bytes that go
through the serial bridge and the line buffers, REST resources and static files, the
upload of a firmware, the storage of preferences, LED patterns, the charger's ADC and
statistics. They are sequential or pure, and what they show to others (the events of an
update or of the charger, a code that does not parse, a port's mode) is an input of the
modules here in every order. The
components that no module covers are listed with their reason in `PROJECT.json`.
