------------------------------- MODULE Display -------------------------------
(***************************************************************************)
(* The display: the state machine of components/display/src/DisplaySm.cpp  *)
(* with the functions of DisplaySmBase.cpp it calls, and DisplayDriver.cpp  *)
(* with its event queue, its timers and its error screen.                   *)
(*                                                                         *)
(* Three callbacks of the one FreeRTOS timer task run all of it: the poll   *)
(* of the queue every 50 ms (DO and then one event), the timer of the state *)
(* machine, and the timer that dismisses an error.  The task of the default *)
(* event loop, which other tasks post to, fills the queue.                  *)
(*                                                                         *)
(* A screen is named after the state whose enter handler draws it.  Not     *)
(* modelled: what is written on it, the LED, the boot animation (the queue  *)
(* is not polled before it has ended), and a lack of memory for a timer.    *)
(***************************************************************************)
EXTENDS Naturals, Sequences

CONSTANTS
  QueueLength,   \* xQueueCreate(6, ...)
  LoopLength,    \* the length of the default event loop's queue
  Inputs         \* the events the default event loop is asked to pass on

\* DisplaySm::EventId.  ERROR carries isFatalError(), and BUTTON_LONG_PRESS_UP whether
\* the button was held for kFactoryResetTimeoutMs: both are part of the name here.
UiEvent ==
  {"BUTTON_CLICK", "BUTTON_LONG_PRESS_START", "HELD_SHORT", "HELD_LONG", "CHARGING_OFF",
   "CHARGING_ON", "CONNECTED", "CONNECTING", "LOST_CONNECTION", "ERROR", "FATAL_ERROR",
   "EXT_PORT_MODE", "FACTORY_RESET", "IDENTIFY", "IMPROV_START", "IMPROV_AUTH_REQUIRED",
   "IMPROV_AUTHORIZED", "IMPROV_PROVISIONING", "IMPROV_END", "IR_LEARNING_START",
   "IR_LEARNING_OK", "IR_LEARNING_FAILED", "IR_LEARNING_STOP", "OTA_START", "OTA_PROGRESS",
   "OTA_SUCCESS", "OTA_FAIL", "REBOOT"}

ASSUME UiAssumption ==
  /\ QueueLength \in Nat \ {0} /\ LoopLength \in Nat \ {0}
  /\ Inputs \subseteq UiEvent

\* DisplaySm::StateId: the states the machine can stay in, by the state around them.
ConnectingUi == {"CONNECTING", "SHOW_CONNECTING", "SHOW_CONNECTED"}
LearningUi   == {"IR_LEARNING_STARTED", "IR_LEARNED_OK", "IR_LEARNED_FAILED"}
OtaUi        == {"OTA_STARTED", "OTA_PROGRESS", "OTA_SUCCESS", "OTA_FAIL"}
RunningUi    == {"RUNNING", "CHARGING_OFF", "CHARGING", "IDENTIFY", "IDLE", "INFO", "INFO_NEXT"}
ImprovUi     == {"IMPROV_STARTED", "IMPROV_AWAITING_AUTH", "IMPROV_AUTHORIZED",
                 "IMPROV_PROVISIONING", "IMPROV_PROVISIONED"}
DisplayUi    == {"BOOT_ANIMATION"} \union ConnectingUi \union LearningUi \union OtaUi
                  \union RunningUi \union ImprovUi
Ui           == DisplayUi \union {"ERROR", "FACTORY_RESET", "REBOOT", "RESET_COUNTDOWN"}

Screen   == Ui \union {"clear"}
UiTimer  == {"off", "boot", "running", "ota", "learned"}
History  == {"BOOT_ANIMATION", "RUNNING", "OTA_STARTED"} \union ConnectingUi \union ImprovUi

VARIABLES
  ui,         \* displaySm.stateId
  history,    \* DISPLAY_STATE_history
  uiQueue,    \* display_event_queue
  uiTimer,    \* state_timer_: stopped, or started by this kind of state
  lost,       \* has that timer expired while the queue was full?
  previous,   \* previous_screen_
  shown,      \* what is on the display
  errorOn,    \* error_screen_
  dismissals, \* timers started by showErrorScreen()
  loop,       \* how many events wait in the queue of the default event loop
  posting,    \* is the timer task in factoryReset(), posting UC_ACTION_RESET?
  stopping    \* is it in stopIrLearning()?

screenVars == <<previous, shown, errorOn, dismissals>>
smUiVars   == <<ui, history, uiTimer, screenVars, posting, stopping>>
uiVars     == <<smUiVars, uiQueue, lost, loop>>

DisplayTypeOK ==
  /\ ui \in Ui /\ history \in History
  /\ uiQueue \in Seq(UiEvent \union {"TIMER"}) /\ Len(uiQueue) <= QueueLength
  /\ uiTimer \in UiTimer
  /\ previous \in Screen /\ shown \in Screen \union {"error", "fatal"}
  /\ {lost, errorOn, posting, stopping} \subseteq BOOLEAN
  /\ dismissals \in 0..1
  /\ loop \in 0..LoopLength

\* DisplayDriver::init(): the state machine enters BOOT_ANIMATION_STATE.
DisplayInit ==
  /\ ui = "BOOT_ANIMATION" /\ history = "BOOT_ANIMATION" /\ uiTimer = "boot"
  /\ uiQueue = <<>> /\ loop = 0
  /\ previous = "clear" /\ shown = "clear"
  /\ lost = FALSE /\ errorOn = FALSE /\ posting = FALSE /\ stopping = FALSE
  /\ dismissals = 0

-----------------------------------------------------------------------------
(* The default event loop and the queue.                                    *)

TimerQueued == uiQueue # <<>> /\ Head(uiQueue) = "TIMER"

\* esp_event_post(UC_DOCK_EVENTS, ...) by some task; without room it gives up.  Which
\* event it is shows when the task of the loop comes to it.
Raise ==
  /\ loop < LoopLength /\ loop' = loop + 1
  /\ UNCHANGED <<smUiVars, uiQueue, lost>>

\* dockEventHandler, queue_ui_sm_event: the event is queued, or after one second without
\* room it is dropped and only a line is logged.
MutantEnqueue(e) == uiQueue' = Append(uiQueue, e)
Enqueue(e) == Len(uiQueue) < QueueLength /\ uiQueue' = Append(uiQueue, e)
Drop == Len(uiQueue) = QueueLength /\ uiQueue' = uiQueue

Deliver(e) ==
  /\ loop > 0 /\ loop' = loop - 1
  /\ Enqueue(e) \/ Drop
  /\ UNCHANGED <<smUiVars, lost>>

EventTask == \E e \in Inputs : Deliver(e)

\* The timer task is not inside another callback.
TimerTaskFree == ~posting /\ ~stopping

\* trigger_ui_timer_event() goes before all other events, but who would make room is the
\* very task that runs it.  Many polls lie between the start of the timer and its end,
\* and a TIMER that is queued is what the next of them takes.
AtFront(e) == uiQueue' = <<e>> \o uiQueue

StateTimerExpires ==
  /\ TimerTaskFree /\ uiTimer # "off" /\ ~TimerQueued
  /\ uiTimer' = "off"
  /\ IF Len(uiQueue) < QueueLength
       THEN AtFront("TIMER") /\ UNCHANGED lost
       ELSE lost' = TRUE /\ UNCHANGED uiQueue
  /\ UNCHANGED <<ui, history, screenVars, posting, stopping, loop>>

-----------------------------------------------------------------------------
(* The screens of DisplayDriver.                                            *)

\* showErrorScreen(): a fatal error replaces another error, an ordinary one does not.
MutantShowError(fatal) ==
  IF fatal THEN errorOn' = TRUE /\ shown' = "fatal" /\ UNCHANGED dismissals
           ELSE errorOn' = TRUE /\ shown' = "error"
                  /\ dismissals' = IF errorOn THEN dismissals ELSE dismissals + 1
ShowError(fatal) ==
  IF fatal THEN errorOn' = TRUE /\ shown' = "fatal" /\ UNCHANGED dismissals
  ELSE IF errorOn THEN UNCHANGED <<errorOn, shown, dismissals>>
  ELSE errorOn' = TRUE /\ shown' = "error" /\ dismissals' = dismissals + 1

\* onClearErrorScreenTimer
DismissError ==
  /\ TimerTaskFree /\ dismissals > 0
  /\ dismissals' = dismissals - 1
  /\ errorOn' = FALSE
  /\ shown' = previous
  /\ UNCHANGED <<ui, history, uiTimer, previous, posting, stopping, uiQueue, lost, loop>>

-----------------------------------------------------------------------------
(* A transition: the exit handlers of the states left, the enter handlers   *)
(* of the states on the way to t.                                           *)

\* What the state t waits for the timer with, if it does.
Deadline(t) ==
  CASE t = "BOOT_ANIMATION" -> "boot"
    [] t = "IR_LEARNED_OK" -> "learned"
    [] t \in {"OTA_STARTED", "OTA_PROGRESS"} -> "ota"
    [] t \in RunningUi \ {"IDLE"} -> "running"
    [] OTHER -> "off"

Left(states, t) == ui \in states /\ t \notin states

\* setTimer() on entry; or stopTimer(), on entry or on the exit of the state around.
TimerAfter(t) ==
  IF Deadline(t) # "off" THEN Deadline(t)
  ELSE IF \/ t \in {"OTA_FAIL", "OTA_SUCCESS"}
          \/ Left(LearningUi, t) \/ Left(OtaUi, t) \/ Left(RunningUi, t) THEN "off"
  ELSE uiTimer

HistoryAfter(t) ==
  CASE t \in RunningUi -> "RUNNING"
    [] t \in OtaUi -> "OTA_STARTED"
    [] t \in {"BOOT_ANIMATION"} \union ConnectingUi \union ImprovUi -> t
    [] OTHER -> history

\* The states whose enter handler clears the display, draws nothing, or draws a screen.
Clearing  == {"IDLE", "REBOOT"}
Silent    == {"BOOT_ANIMATION", "RUNNING"}
Drawing   == Ui \ (Clearing \union Silent \union {"IMPROV_PROVISIONING", "ERROR"})

\* showIconScreen() and clearScreen(), of the exit handlers (cleared) and then of the
\* enter handlers: remembered always, drawn when no error is shown.
\* showWifiConnectingScreen() is not remembered.
MutantScreenAfter(t, cleared) ==
  /\ previous' = CASE t \in Drawing -> t
                   [] t \in Clearing -> "clear"
                   [] OTHER -> previous
  /\ shown' = IF errorOn THEN shown
              ELSE IF t = "IMPROV_PROVISIONING" THEN t
              ELSE IF t \in Silent THEN shown
              ELSE previous'
  /\ UNCHANGED <<errorOn, dismissals>>
ScreenAfter(t, cleared) ==
  /\ previous' = CASE t \in Drawing -> t
                   [] t \in Clearing -> "clear"
                   [] OTHER -> IF cleared THEN "clear" ELSE previous
  /\ shown' = IF errorOn THEN shown
              ELSE IF t = "IMPROV_PROVISIONING" THEN t
              ELSE IF t \in Silent /\ ~cleared THEN shown
              ELSE previous'
  /\ UNCHANGED <<errorOn, dismissals>>

\* lost is about the timer last started.
Move(t) ==
  /\ ui' = t
  /\ history' = HistoryAfter(t)
  /\ uiTimer' = TimerAfter(t)
  /\ lost' = (lost /\ Deadline(t) = "off")
  /\ stopping' = Left(LearningUi, t)
  /\ posting' = (t = "FACTORY_RESET")

Goto(t) == Move(t) /\ ScreenAfter(t, Left(LearningUi, t))

\* ERROR_STATE: the exit handler has cleared the screen of learning by then.
GotoError(fatal) ==
  /\ Move("ERROR") /\ ShowError(fatal)
  /\ previous' = IF ui \in LearningUi THEN "clear" ELSE previous

\* clearScreen() and back to where the countdown interrupted.
Resume == Move(history) /\ ScreenAfter(history, TRUE)

Stay == UNCHANGED <<smUiVars, lost>>

-----------------------------------------------------------------------------
(* The event handlers.                                                      *)

\* DO, before each event: two states are left at once, so they never get an event.
Passing == {"SHOW_CONNECTED", "ERROR"}

DoHandler ==
  /\ TimerTaskFree
  /\ \/ ui = "SHOW_CONNECTED" /\ Goto("RUNNING")
     \/ ui = "ERROR" /\ Goto(history)
     \/ ui = "FACTORY_RESET" /\ Goto("REBOOT")      \* resetTimerAfter(1000)
  /\ UNCHANGED <<uiQueue, loop>>

On(states, e) == ui \in states /\ Head(uiQueue) = e

\* The states DISPLAY_STATE is around: the others do not get the common events.
MutantInterruptible == DisplayUi \union {"FACTORY_RESET"}
Interruptible == DisplayUi

Common ==
  \/ On(Interruptible, "BUTTON_LONG_PRESS_START") /\ Goto("RESET_COUNTDOWN")
  \/ On(Interruptible, "ERROR") /\ GotoError(FALSE)
  \/ On(Interruptible, "FATAL_ERROR") /\ GotoError(TRUE)
  \/ On(Interruptible, "FACTORY_RESET") /\ Goto("FACTORY_RESET")
  \/ On(DisplayUi \union {"FACTORY_RESET"}, "REBOOT") /\ Goto("REBOOT")

\* Where the events take the states of each group.
ConnectingTarget == [CONNECTED |-> "RUNNING", CONNECTING |-> "SHOW_CONNECTING",
                     IMPROV_START |-> "IMPROV_STARTED"]
MutantLearningTarget ==
  [IR_LEARNING_FAILED |-> "IR_LEARNED_FAILED", IR_LEARNING_OK |-> "IR_LEARNED_OK",
   LOST_CONNECTION |-> "CONNECTING", OTA_START |-> "OTA_STARTED"]
LearningTarget ==
  [IR_LEARNING_FAILED |-> "IR_LEARNED_FAILED", IR_LEARNING_OK |-> "IR_LEARNED_OK",
   IR_LEARNING_STOP |-> "RUNNING", LOST_CONNECTION |-> "CONNECTING", OTA_START |-> "OTA_STARTED"]
MutantOtaTarget ==
  [OTA_FAIL |-> "OTA_FAIL", OTA_PROGRESS |-> "OTA_PROGRESS", OTA_SUCCESS |-> "OTA_SUCCESS"]
OtaTarget ==
  [OTA_FAIL |-> "OTA_FAIL", OTA_PROGRESS |-> "OTA_PROGRESS", OTA_SUCCESS |-> "OTA_SUCCESS",
   TIMER |-> "OTA_FAIL"]
RunningTarget ==
  [CHARGING_OFF |-> "CHARGING_OFF", CHARGING_ON |-> "CHARGING", IDENTIFY |-> "IDENTIFY",
   IR_LEARNING_START |-> "IR_LEARNING_STARTED", LOST_CONNECTION |-> "CONNECTING",
   OTA_START |-> "OTA_STARTED", TIMER |-> "IDLE"]
ImprovTarget ==
  [CONNECTED |-> "RUNNING", IMPROV_START |-> "IMPROV_STARTED",
   IMPROV_AUTH_REQUIRED |-> "IMPROV_AWAITING_AUTH", IMPROV_AUTHORIZED |-> "IMPROV_AUTHORIZED",
   IMPROV_PROVISIONING |-> "IMPROV_PROVISIONING", IMPROV_END |-> "IMPROV_PROVISIONED"]

\* An event of the table, in one of the states.
Follows(states, target) == \E e \in DOMAIN target : On(states, e) /\ Goto(target[e])

Connecting ==
  \/ On({"BOOT_ANIMATION"}, "TIMER") /\ Goto("CONNECTING")
  \/ On({"SHOW_CONNECTING"}, "CONNECTED") /\ Goto("SHOW_CONNECTED")
  \/ ~On({"SHOW_CONNECTING"}, "CONNECTED") /\ Follows(ConnectingUi, ConnectingTarget)

Learning ==
  \/ Follows(LearningUi, LearningTarget)
  \/ On({"IR_LEARNED_FAILED"}, "BUTTON_CLICK") /\ Goto("IR_LEARNING_STARTED")
  \/ On({"IR_LEARNED_OK"}, "TIMER") /\ Goto("IR_LEARNING_STARTED")
  \/ On({"IR_LEARNING_STARTED"}, "BUTTON_CLICK") /\ Goto("RUNNING")

Ota == Follows(OtaUi, OtaTarget)

Running ==
  \/ Follows(RunningUi, RunningTarget)
  \/ On(RunningUi \ {"INFO", "INFO_NEXT"}, "BUTTON_CLICK") /\ Goto("INFO")
  \/ On({"INFO", "INFO_NEXT"}, "BUTTON_CLICK") /\ Goto("INFO_NEXT")

Improving == Follows(ImprovUi, ImprovTarget)

Countdown ==
  \/ On({"RESET_COUNTDOWN"}, "HELD_SHORT") /\ Resume
  \/ On({"RESET_COUNTDOWN"}, "HELD_LONG") /\ Goto("FACTORY_RESET")

\* dispatchEvent(): the events that make a state, or a state around it, go somewhere.
HandledInside(s) ==
  CASE s = "BOOT_ANIMATION" -> {"TIMER"}
    [] s \in ConnectingUi -> DOMAIN ConnectingTarget
    [] s = "IR_LEARNED_OK" -> DOMAIN LearningTarget \union {"TIMER"}
    [] s \in LearningUi \ {"IR_LEARNED_OK"} -> DOMAIN LearningTarget \union {"BUTTON_CLICK"}
    [] s \in OtaUi -> DOMAIN OtaTarget
    [] s \in RunningUi -> DOMAIN RunningTarget \union {"BUTTON_CLICK"}
    [] s \in ImprovUi -> DOMAIN ImprovTarget
    [] OTHER -> {}

HandledIn(s) ==
  CASE s = "RESET_COUNTDOWN" -> {"HELD_SHORT", "HELD_LONG"}
    [] s = "FACTORY_RESET" -> {"REBOOT"}
    [] s = "REBOOT" -> {}
    [] OTHER -> {"BUTTON_LONG_PRESS_START", "ERROR", "FATAL_ERROR", "FACTORY_RESET", "REBOOT"}
                  \union HandledInside(s)

Unhandled == Head(uiQueue) \notin HandledIn(ui) /\ Stay

\* onEventQueueTimer: one event is taken and dispatched.
Dispatch ==
  /\ TimerTaskFree /\ uiQueue # <<>> /\ ui \notin Passing
  /\ Common \/ Connecting \/ Learning \/ Ota \/ Running \/ Improving \/ Countdown \/ Unhandled
  /\ uiQueue' = Tail(uiQueue)
  /\ UNCHANGED loop

\* factoryReset(): the timer task waits for room in the event loop, however long.
ResetPosted ==
  /\ posting /\ loop < LoopLength
  /\ posting' = FALSE /\ loop' = loop + 1
  /\ UNCHANGED <<ui, history, uiTimer, screenVars, stopping, uiQueue, lost>>

\* stopIrLearning() returns.
LearningStopped ==
  /\ stopping /\ stopping' = FALSE
  /\ UNCHANGED <<ui, history, uiTimer, screenVars, posting, uiQueue, lost, loop>>

Poll == DoHandler \/ Dispatch
DisplayNext == \/ Raise \/ EventTask \/ StateTimerExpires \/ DismissError \/ Poll
        \/ ResetPosted \/ LearningStopped

\* Both tasks run.  A task that waits for room in a queue gets it in its turn: the timer
\* task is not overtaken for ever by others that post.
DisplayFairness ==
  /\ WF_uiVars(EventTask) /\ WF_uiVars(DoHandler) /\ WF_uiVars(Dispatch)
  /\ WF_uiVars(StateTimerExpires) /\ WF_uiVars(DismissError) /\ WF_uiVars(LearningStopped)
  /\ SF_uiVars(ResetPosted)

DisplaySpec == DisplayInit /\ [][DisplayNext]_uiVars /\ DisplayFairness

-----------------------------------------------------------------------------
(* Properties                                                               *)

\* A state that is to end by itself has its timer running or its TIMER queued, through
\* interruptions by errors and by the button, and a return to it by its history: unless
\* the timer expired while the queue was full, when its event is lost for good.
WaitWatched ==
  Deadline(ui) # "off" => uiTimer = Deadline(ui) \/ TimerQueued \/ lost

\* The screens that may still be there when nothing is drawn in RUNNING_STATE: none of
\* learning, of an update or of a reset that are over.
LeftOver == {"clear"} \union ConnectingUi \union RunningUi \union ImprovUi

ScreensOf(s) ==
  CASE s \in Drawing -> {s}
    [] s \in Clearing \union {"BOOT_ANIMATION"} -> {"clear"}
    [] OTHER -> LeftOver

\* Whatever errors are shown and dismissed in the meantime: when none is, the display
\* shows the screen of the state the machine is in, and nothing of a state that is over.
ScreenOfState == ui # "ERROR" => errorOn \/ shown \in ScreensOf(ui)

\* An error that is not fatal will be dismissed, and there is no second timer that would
\* dismiss the error after it.
ErrorDismissed ==
  /\ shown = "error" => dismissals = 1
  /\ dismissals > 0 => errorOn

\* A factory reset by the button ends in a restart.  The timer task waits for room in the
\* event loop's queue, whose task may wait for room in the display's queue, which the
\* timer task would make.
ResetReboots == ui = "FACTORY_RESET" ~> ui = "REBOOT"
=============================================================================
