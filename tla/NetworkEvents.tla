---------------------------- MODULE NetworkEvents ----------------------------
(***************************************************************************)
(* The event queue of the network task (components/network/network.cpp)    *)
(* and the FreeRTOS timer task, whose callbacks post to it.                 *)
(*                                                                         *)
(* Every task posts with xQueueSendToBack(..., portMAX_DELAY): it waits     *)
(* while the queue is full.  Where waiting is all a task does, its action   *)
(* is simply not enabled; the timer task, and the network task itself, may  *)
(* have done something else before, so what they still have to post is kept *)
(* in callback and in todo.                                                 *)
(***************************************************************************)
EXTENDS Naturals, Sequences

CONSTANT QueueLength   \* xQueueCreate(3, ...)

ASSUME QueueLengthAssumption == QueueLength \in Nat \ {0}

\* NetworkSm::EventId; DELETE_WIFI is left out, nothing in the firmware posts it.
Event == {"START", "NET_INIT_SUCCESS", "NET_INIT_FAIL", "REBOOT", "TIMER",
          "ETH_LINK_UP", "ETH_LINK_DOWN", "ETH_GOT_IP", "ETH_FALLBACK",
          "CONFIGURE_WIFI", "CONNECTED", "LOST_CONNECTION", "WIFI_GOT_IP",
          "CONNECT_TO_AP", "BUTTON_PRESS", "IMPROV_BLE_CONNECT",
          "IMPROV_BLE_DISCONNECT", "IMPROV_AUTHORIZED_TIMEOUT"}

\* improv_state_t
ImprovState == {"STOPPED", "AWAITING_AUTHORIZATION", "AUTHORIZED", "PROVISIONING", "PROVISIONED"}

\* What the timer task runs: nothing, a callback that has an event to post, the end of
\* the callback that posted IMPROV_BLE_DISCONNECT, or the rest of a callback whose check
\* of the connection or of the Improv state let it go on.
Callback == {"none", "TIMER", "IMPROV_AUTHORIZED_TIMEOUT", "IMPROV_BLE_DISCONNECT", "stop",
             "terminate", "unauthorize"}

\* The periods the one timer of the state machine is started with.
TimerTag == {"off", "link", "linkDown", "dhcp", "connected", "polling", "improv"}

VARIABLES
  queue,     \* network_queue
  todo,      \* what the handler in progress has left to do: events to post, an Improv
             \* state to set, the functions of Call
  timer,     \* state_timer_: stopped, or started with this period
  callback   \* the callback the timer task is in

eventVars == <<queue, todo, timer, callback>>

\* The last step of entering WIFI_CONNECTING_STATE, after an event was posted, and the
\* functions that look at the Improv state before they set it.
ARM       == "startWifiConnectedTimer"
AUTHORIZE == "improv_set_authorized"
TIMEOUT   == "on_wifi_connect_timeout"
Call      == {ARM, AUTHORIZE, TIMEOUT}

EventTypeOK ==
  /\ queue \in Seq(Event) /\ Len(queue) <= QueueLength
  /\ todo \in Seq(Event \union ImprovState \union Call)
  /\ timer \in TimerTag
  /\ callback \in Callback

\* xQueueSendToBack(network_queue, ...) for a task that had nothing to do before.
Post(e) ==
  /\ Len(queue) < QueueLength
  /\ queue' = Append(queue, e)

Queued(e) == \E i \in 1..Len(queue) : queue[i] = e

-----------------------------------------------------------------------------
\* The state timer expires.  Stopping or restarting it now comes too late.
TimerExpires ==
  /\ timer # "off" /\ callback = "none"
  /\ timer' = "off"
  /\ callback' = "TIMER"
  /\ UNCHANGED <<queue, todo>>

\* The callback posts its event.
CallbackPosts ==
  /\ callback \in {"TIMER", "IMPROV_AUTHORIZED_TIMEOUT", "IMPROV_BLE_DISCONNECT"}
  /\ Post(callback)
  /\ callback' = IF callback = "IMPROV_BLE_DISCONNECT" THEN "stop" ELSE "none"
  /\ UNCHANGED <<todo, timer>>

\* The handler in progress posts to the queue its own task serves.
TaskPosts ==
  /\ todo # <<>> /\ Head(todo) \in Event
  /\ Post(Head(todo))
  /\ todo' = Tail(todo)
  /\ UNCHANGED <<timer, callback>>

TaskArms ==
  /\ todo # <<>> /\ Head(todo) = ARM
  /\ todo' = Tail(todo)
  /\ timer' = "connected"
  /\ UNCHANGED <<queue, callback>>

\* xQueueReceive: the network task takes e when the last handler has returned.
Receive(e) ==
  /\ todo = <<>> /\ queue # <<>>
  /\ Head(queue) = e
  /\ queue' = Tail(queue)

\* Only the network task empties the queue: waiting for room it waits for itself.
Blocked ==
  /\ todo # <<>> /\ Head(todo) \in Event
  /\ Len(queue) = QueueLength
=============================================================================
