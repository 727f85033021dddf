------------------------------- MODULE Improv -------------------------------
(***************************************************************************)
(* WiFi provisioning over Bluetooth (components/network/                    *)
(* wifi_provisioning.c): the Improv state a phone reads, and the three      *)
(* tasks that write it -- the BLE host task, the timer task and, through    *)
(* the calls of the state machine, the network task.                        *)
(*                                                                         *)
(* None of them holds a lock: each looks at the state, and sets it later.   *)
(* What a task has decided on and not yet done is kept for the BLE host in  *)
(* ble, for the timer task in callback and for the network task in todo.    *)
(* What is read and written over BLE besides the state, advertising data    *)
(* and LED patterns are left out; that a timer cannot be started as well.   *)
(***************************************************************************)
EXTENDS NetworkEvents

VARIABLES
  started,      \* improv_init_: is the BLE stack running?
  conn,         \* no client, a client, or one whose conn_hdl was given up
  connActive,   \* conn_active: has the client read or written anything?
  status,       \* the Improv state
  ble,          \* the event the BLE host is about to post, or the state it will set
  authTimer,    \* is authorized_timer running?
  verifyTimer,  \* is conn_establish_timer running?
  pressed,      \* history: was the button pressed since the client connected?
  overtaken     \* history: was a task about to set the state when it became STOPPED?

history    == <<pressed, overtaken>>
improvVars == <<started, conn, connActive, status, ble, authTimer, verifyTimer, history>>

ImprovTypeOK ==
  /\ {started, connActive, authTimer, verifyTimer, pressed, overtaken} \subseteq BOOLEAN
  /\ conn \in {"none", "open", "dropped"}
  /\ status \in ImprovState
  /\ ble \in ImprovState \union {"idle", "init", "IMPROV_BLE_CONNECT", "IMPROV_BLE_DISCONNECT",
                               "CONNECT_TO_AP"}

ImprovInit ==
  /\ started = FALSE /\ conn = "none" /\ connActive = FALSE
  /\ status = "STOPPED" /\ ble = "idle"
  /\ authTimer = FALSE /\ verifyTimer = FALSE
  /\ pressed = FALSE /\ overtaken = FALSE

\* improv_set_state(): entering AUTHORIZED starts the timeout of the authorization.
SetState(s) ==
  /\ status' = s
  /\ authTimer' = (authTimer \/ (s = "AUTHORIZED" /\ status # "AUTHORIZED"))

\* A task that has looked at the state and is about to set it.
Decided == callback = "unauthorize" \/ (todo # <<>> /\ Head(todo) \in ImprovState)

\* The state after a disconnect, or what a callback of the BLE host decided on.
SetForClient(s) ==
  /\ SetState(s)
  /\ overtaken' = (s = "STOPPED" /\ Decided)

-----------------------------------------------------------------------------
(* The network task: its handlers put these steps into todo.                *)

\* improv_set_authorized() and the first half of on_wifi_connect_timeout(): go on only
\* if the state is the one expected.
MutantExpects(call) == TRUE
Expects(call) ==
  status = IF call = AUTHORIZE THEN "AWAITING_AUTHORIZATION" ELSE "PROVISIONING"

TaskChecks(call) ==
  /\ todo # <<>> /\ Head(todo) = call
  /\ todo' = IF Expects(call) THEN <<"AUTHORIZED">> \o Tail(todo) ELSE Tail(todo)
  /\ UNCHANGED <<queue, timer, callback, improvVars>>

\* improv_set_state(), whatever has become of the state since it was looked at.
TaskSets ==
  /\ todo # <<>> /\ Head(todo) \in ImprovState
  /\ SetState(Head(todo))
  /\ todo' = Tail(todo)
  /\ UNCHANGED <<queue, timer, callback, started, conn, connActive, ble, verifyTimer, history>>

-----------------------------------------------------------------------------
(* The BLE host task: the callback of GAP and the handler of RPC commands.  *)

\* A client connects.
Connect ==
  /\ started /\ conn = "none" /\ ble = "idle"
  /\ conn' = "open"
  /\ verifyTimer' = TRUE /\ connActive' = FALSE
  /\ ble' = "IMPROV_BLE_CONNECT"
  /\ pressed' = FALSE
  /\ UNCHANGED <<eventVars, started, status, authTimer, overtaken>>

\* A connection ends, whoever ended it.
MutantDisconnect ==
  /\ conn # "none" /\ ble = "idle"
  /\ conn' = "none"
  /\ verifyTimer' = FALSE /\ connActive' = FALSE
  /\ ble' = "STOPPED"
  /\ UNCHANGED <<eventVars, started, status, authTimer, history>>
Disconnect ==
  /\ conn # "none" /\ ble = "idle"
  /\ conn' = "none"
  /\ verifyTimer' = FALSE /\ connActive' = FALSE
  /\ ble' = "IMPROV_BLE_DISCONNECT"
  /\ UNCHANGED <<eventVars, started, status, authTimer, history>>

\* A read, or a command that leaves the state alone: the state read when the command
\* arrives is written back when it is done.
Command ==
  /\ conn # "none" /\ ble = "idle"
  /\ connActive' = TRUE
  /\ ble' = status
  /\ UNCHANGED <<eventVars, started, conn, status, authTimer, verifyTimer, history>>

\* WIFI_SETTINGS with the credentials of a network.
WifiSettings ==
  /\ conn # "none" /\ ble = "idle"
  /\ status = "AUTHORIZED"
  /\ connActive' = TRUE
  /\ ble' = "CONNECT_TO_AP"
  /\ UNCHANGED <<eventVars, started, conn, status, authTimer, verifyTimer, history>>

\* The callback posts its event, and then calls init_improv() or sets the state.
BlePosts ==
  /\ \/ ble = "IMPROV_BLE_CONNECT" /\ ble' = "init"
     \/ ble = "IMPROV_BLE_DISCONNECT" /\ ble' = "STOPPED"
     \/ ble = "CONNECT_TO_AP" /\ ble' = "PROVISIONING"
  /\ Post(ble)
  /\ UNCHANGED <<todo, timer, callback, started, conn, connActive, status, authTimer, verifyTimer,
                 history>>

\* init_improv() looks at the connection.
BleSetsState ==
  /\ ble \in ImprovState \union {"init"}
  /\ SetForClient(IF ble # "init" THEN ble
                  ELSE IF conn = "open" THEN "AWAITING_AUTHORIZATION" ELSE "STOPPED")
  /\ ble' = "idle"
  /\ UNCHANGED <<eventVars, started, conn, connActive, verifyTimer, pressed>>

BleHost == Connect \/ Disconnect \/ Command \/ WifiSettings \/ BlePosts \/ BleSetsState

-----------------------------------------------------------------------------
(* The timer task.                                                          *)

\* on_authorized_timeout(): the authorization is over, unless it was used.
AuthorizedTimeout ==
  /\ authTimer /\ callback = "none"
  /\ authTimer' = FALSE
  /\ callback' = IF status = "AUTHORIZED" THEN "unauthorize" ELSE "none"
  /\ UNCHANGED <<queue, todo, timer, started, conn, connActive, status, ble, verifyTimer, history>>

\* The rest of it, whatever has become of the state since; then it posts its event.
Unauthorize ==
  /\ callback = "unauthorize"
  /\ SetState("AWAITING_AUTHORIZATION")
  /\ callback' = "IMPROV_AUTHORIZED_TIMEOUT"
  /\ UNCHANGED <<queue, todo, timer, started, conn, connActive, ble, verifyTimer, history>>

\* verify_connection_cb(): end a connection nothing was heard of.
VerifyConnection ==
  /\ verifyTimer /\ callback = "none"
  /\ verifyTimer' = FALSE
  /\ callback' = IF conn = "open" /\ ~connActive THEN "terminate" ELSE "none"
  /\ UNCHANGED <<queue, todo, timer, started, conn, connActive, status, ble, authTimer, history>>

\* It gives up the connection there is now; that one ends when the BLE host says so.
Terminate ==
  /\ callback = "terminate"
  /\ conn' = IF conn = "open" THEN "dropped" ELSE conn
  /\ callback' = "IMPROV_BLE_DISCONNECT"
  /\ UNCHANGED <<queue, todo, timer, started, connActive, status, ble, authTimer, verifyTimer,
                 history>>

\* The rest of it, after the event was posted.
VerifySetsState ==
  /\ callback = "stop"
  /\ SetForClient("STOPPED")
  /\ callback' = "none"
  /\ UNCHANGED <<queue, todo, timer, started, conn, connActive, ble, verifyTimer, pressed>>

Timeouts == AuthorizedTimeout \/ Unauthorize \/ VerifyConnection \/ Terminate \/ VerifySetsState

-----------------------------------------------------------------------------
\* A click on the button of the dock, at any time.
ButtonClick ==
  /\ Post("BUTTON_PRESS")
  /\ pressed' = TRUE
  /\ UNCHANGED <<todo, timer, callback, started, conn, connActive, status, ble, authTimer,
                 verifyTimer, overtaken>>
=============================================================================
