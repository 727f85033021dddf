--------------------------- MODULE DockLearnProofs ---------------------------
(***************************************************************************)
(* The display keeps its invariants in any surroundings, and in those of    *)
(* DockLearn in particular; the callback and the slots of the GlobalCache   *)
(* server are kept there too.                                               *)
(***************************************************************************)
EXTENDS DockLearn, FiniteSetTheorems, TLAPS

\* The display with any event: the inputs of Display, and the news of DockLearn.
DisplayStep == DisplayNext \/ \E e \in UiEvent : Deliver(e)

-----------------------------------------------------------------------------
(* The inductive invariant of the display                                   *)

ErrorOK ==
  /\ ErrorDismissed
  /\ errorOn <=> shown \in {"error", "fatal"}

\* The history is that of the state the machine is in.
HistoryOK ==
  /\ ui \in RunningUi => history = "RUNNING"
  /\ ui \in OtaUi => history = "OTA_STARTED"
  /\ ui \in {"BOOT_ANIMATION"} \union ConnectingUi \union ImprovUi => history = ui

\* The states whose screen is not remembered.
Undrawn == {"RUNNING", "IMPROV_PROVISIONING"}

\* What is remembered, also for the way back from an error.
PreviousOK ==
  /\ ui \in Drawing => previous = ui
  /\ ui \in Clearing \union {"BOOT_ANIMATION"} => previous = "clear"
  /\ ui \in Undrawn => previous \in LeftOver
  /\ ui = "ERROR" /\ history \in Undrawn => previous \in LeftOver
  /\ ui = "ERROR" /\ history = "BOOT_ANIMATION" => previous = "clear"

ShownOK ==
  ~errorOn => shown = previous \/ (shown = "IMPROV_PROVISIONING" /\ ui \in Undrawn)

UiInv == DisplayTypeOK /\ WaitWatched /\ ErrorOK /\ HistoryOK /\ PreviousOK /\ ShownOK

\* What Goto(t) needs when the display is not cleared on the way.
MayEnter(t) ==
  \/ t \in Drawing \union Clearing
  \/ ui = "ERROR" /\ t = history
  \/ ui \in ConnectingUi \union LearningUi \union ImprovUi /\ t # "BOOT_ANIMATION"

-----------------------------------------------------------------------------
(* The states and their targets                                             *)

LEMMA StateSets ==
  /\ \A s \in Ui : s \in Drawing \union Clearing \union Undrawn \union {"BOOT_ANIMATION", "ERROR"}
  /\ Drawing \subseteq Ui /\ Clearing \subseteq Ui /\ Undrawn \subseteq Ui
  /\ Drawing \intersect (Clearing \union Undrawn \union {"BOOT_ANIMATION", "ERROR"}) = {}
  /\ Clearing \intersect (Undrawn \union {"BOOT_ANIMATION", "ERROR"}) = {}
  /\ Ui \intersect {"clear", "error", "fatal"} = {}
BY DEF Ui, DisplayUi, ConnectingUi, LearningUi, OtaUi, RunningUi, ImprovUi, Drawing, Clearing, Silent,
   Undrawn

LEMMA DrawingSets ==
  /\ ConnectingUi \subseteq Drawing \intersect LeftOver
  /\ ImprovUi \subseteq LeftOver /\ ImprovUi \ Undrawn \subseteq Drawing
  /\ RunningUi \subseteq LeftOver /\ RunningUi \ {"RUNNING", "IDLE"} \subseteq Drawing
  /\ LearningUi \subseteq Drawing /\ OtaUi \subseteq Drawing
  /\ "clear" \in LeftOver
BY DEF Ui, DisplayUi, ConnectingUi, LearningUi, OtaUi, RunningUi, ImprovUi, Drawing, Clearing, Silent,
   Undrawn, LeftOver

LEMMA HistorySets ==
  /\ History \subseteq DisplayUi
  /\ \A t \in Ui : history \in History => HistoryAfter(t) \in History
BY DEF History, HistoryAfter, DisplayUi, ConnectingUi, ImprovUi, OtaUi, RunningUi, LearningUi

LEMMA ConnectingTargets ==
  \A e \in DOMAIN ConnectingTarget :
    ConnectingTarget[e] \in {"RUNNING", "SHOW_CONNECTING", "IMPROV_STARTED"}
BY DEF ConnectingTarget

LEMMA OtaTargets ==
  \A e \in DOMAIN OtaTarget : OtaTarget[e] \in {"OTA_FAIL", "OTA_PROGRESS", "OTA_SUCCESS"}
BY DEF OtaTarget

LEMMA LearningTargets ==
  \A e \in DOMAIN LearningTarget :
    LearningTarget[e] \in {"IR_LEARNED_FAILED", "IR_LEARNED_OK", "RUNNING", "CONNECTING", "OTA_STARTED"}
BY DEF LearningTarget

LEMMA RunningTargets ==
  \A e \in DOMAIN RunningTarget :
    RunningTarget[e] \in {"CHARGING_OFF", "CHARGING", "IDENTIFY", "IR_LEARNING_STARTED",
                          "CONNECTING", "OTA_STARTED", "IDLE"}
BY DEF RunningTarget

LEMMA ImprovTargets ==
  \A e \in DOMAIN ImprovTarget : ImprovTarget[e] \in {"RUNNING"} \union ImprovUi
BY DEF ImprovTarget, ImprovUi

LEMMA TimerHandled == ASSUME NEW s \in Ui, Deadline(s) # "off" PROVE "TIMER" \in HandledIn(s)
<1>1. s = "BOOT_ANIMATION" \/ s = "IR_LEARNED_OK" \/ s \in OtaUi \/ s \in RunningUi
  BY DEF Deadline, OtaUi
<1>2. "TIMER" \in DOMAIN OtaTarget /\ "TIMER" \in DOMAIN RunningTarget
  BY DEF OtaTarget, RunningTarget
<1>3. "TIMER" \in HandledInside(s)
  <2>1. CASE s = "BOOT_ANIMATION"
    BY <2>1 DEF HandledInside, ConnectingUi, LearningUi, OtaUi, RunningUi, ImprovUi
  <2>2. CASE s = "IR_LEARNED_OK"
    BY <2>2 DEF HandledInside, ConnectingUi, LearningUi, OtaUi, RunningUi, ImprovUi
  <2>3. CASE s \in OtaUi
    BY <1>2, <2>3 DEF HandledInside, ConnectingUi, LearningUi, OtaUi, RunningUi, ImprovUi
  <2>4. CASE s \in RunningUi
    BY <1>2, <2>4 DEF HandledInside, ConnectingUi, LearningUi, OtaUi, RunningUi, ImprovUi
  <2> QED BY <1>1, <2>1, <2>2, <2>3, <2>4
<1>4. s \notin {"RESET_COUNTDOWN", "FACTORY_RESET", "REBOOT"}
  BY <1>1 DEF OtaUi, RunningUi
<1> QED BY <1>3, <1>4 DEF HandledIn

LEMMA DeadlineType == \A t : Deadline(t) \in UiTimer
BY DEF Deadline, UiTimer

-----------------------------------------------------------------------------
(* The parts of a transition                                                *)

LEMMA MoveKeeps ==
  ASSUME DisplayTypeOK, NEW t \in Ui, Move(t)
  PROVE  /\ ui' = t /\ history' \in History /\ uiTimer' \in UiTimer
         /\ {lost, posting, stopping}' \subseteq BOOLEAN
         /\ WaitWatched' /\ HistoryOK'
<1>1. ui' = t /\ history' = HistoryAfter(t) /\ history' \in History
  BY HistorySets DEF Move, DisplayTypeOK
<1>2. uiTimer' \in UiTimer
  <2>1. TimerAfter(t) \in UiTimer
    BY DeadlineType DEF TimerAfter, DisplayTypeOK, UiTimer
  <2> QED BY <2>1 DEF Move
<1>3. {lost, posting, stopping}' \subseteq BOOLEAN
  BY DEF Move, DisplayTypeOK, Left
<1>4. WaitWatched'
  <2>1. Deadline(t) # "off" => uiTimer' = Deadline(t)
    BY DEF Move, TimerAfter
  <2>2. Deadline(ui)' = Deadline(t)
    BY <1>1 DEF Deadline
  <2> QED BY <2>1, <2>2 DEF WaitWatched
<1>5. HistoryOK'
  BY <1>1 DEF HistoryOK, HistoryAfter, RunningUi, OtaUi, ConnectingUi, ImprovUi
<1> QED BY <1>1, <1>2, <1>3, <1>4, <1>5

LEMMA ScreenKeeps ==
  ASSUME UiInv, NEW t \in Ui \ {"ERROR"}, NEW cleared \in BOOLEAN, cleared \/ MayEnter(t),
         ui \in LearningUi /\ t \notin LearningUi => cleared,
         ScreenAfter(t, cleared), ui' = t
  PROVE  /\ previous' \in Screen /\ shown' \in Screen \union {"error", "fatal"}
         /\ errorOn' \in BOOLEAN /\ dismissals' \in 0..1
         /\ ErrorOK' /\ PreviousOK' /\ ShownOK'
<1> USE DEF UiInv
<1>1. errorOn' = errorOn /\ dismissals' = dismissals /\ errorOn \in BOOLEAN
  BY DEF ScreenAfter, DisplayTypeOK
<1>2. previous' = IF t \in Drawing THEN t
                  ELSE IF t \in Clearing \/ cleared THEN "clear" ELSE previous
  BY StateSets DEF ScreenAfter
<1>3. shown' = IF errorOn THEN shown
               ELSE IF t = "IMPROV_PROVISIONING" THEN t
               ELSE IF t \in Silent /\ ~cleared THEN shown ELSE previous'
  BY DEF ScreenAfter
<1>4. previous' \in Screen /\ shown' \in Screen \union {"error", "fatal"}
  BY <1>2, <1>3, StateSets DEF DisplayTypeOK, Screen
<1>5. ErrorOK'
  BY <1>1, <1>3, <1>4, StateSets DEF ErrorOK, ErrorDismissed, Screen, DisplayTypeOK
<1>6. t \in Undrawn => previous' \in LeftOver
  <2>1. CASE cleared
    BY <1>2, <2>1, StateSets, DrawingSets
  <2>2. CASE ~cleared /\ t \in Undrawn
    <3>1. previous' = previous
      BY <1>2, <2>2, StateSets
    <3>2. CASE ui = "ERROR"
      BY <2>2, <3>1, <3>2, StateSets, DrawingSets DEF MayEnter, PreviousOK, ConnectingUi, LearningUi, ImprovUi
    <3>3. CASE ui # "ERROR"
      <4>1. ui \in ConnectingUi \union ImprovUi
        BY <2>2, <3>3, StateSets, DrawingSets DEF MayEnter
      <4>2. CASE ui \in Undrawn
        BY <3>1, <4>2 DEF PreviousOK
      <4>3. CASE ui \notin Undrawn
        BY <3>1, <4>1, <4>3, DrawingSets DEF PreviousOK
      <4> QED BY <4>2, <4>3
    <3> QED BY <3>2, <3>3
  <2> QED BY <2>1, <2>2
<1>7. t = "BOOT_ANIMATION" => previous' = "clear"
  BY <1>2, StateSets DEF MayEnter, PreviousOK
<1>8. PreviousOK'
  BY <1>2, <1>6, <1>7, StateSets DEF PreviousOK
<1>9. ShownOK'
  <2>1. CASE t \in Silent /\ ~cleared
    <3>1. t = "RUNNING" \/ (t = "BOOT_ANIMATION" /\ ui = "ERROR")
      BY <2>1, StateSets DEF MayEnter, Silent
    <3>2. previous' = previous /\ (~errorOn => shown' = shown)
      BY <1>2, <1>3, <2>1, <3>1, StateSets DEF Undrawn
    <3> QED BY <1>1, <3>1, <3>2, StateSets DEF ShownOK, Undrawn
  <2>2. CASE ~(t \in Silent /\ ~cleared)
    BY <1>1, <1>3, <2>2 DEF ShownOK, Undrawn
  <2> QED BY <2>1, <2>2
<1> QED BY <1>1, <1>4, <1>5, <1>8, <1>9 DEF DisplayTypeOK

\* The queue, the timers and the calls are typed by themselves.
QueueOK ==
  /\ uiQueue \in Seq(UiEvent \union {"TIMER"}) /\ Len(uiQueue) <= QueueLength
  /\ loop \in 0..LoopLength

LEMMA GotoKeeps ==
  ASSUME UiInv, NEW t \in Ui \ {"ERROR"}, Goto(t), MayEnter(t), QueueOK'
  PROVE  UiInv'
<1> DEFINE cleared == Left(LearningUi, t)
<1>1. Move(t) /\ ScreenAfter(t, cleared) /\ ui' = t
  BY DEF Goto, Move
<1>2. cleared \in BOOLEAN /\ (ui \in LearningUi /\ t \notin LearningUi => cleared)
  BY DEF Left
<1> HIDE DEF cleared
<1>3. /\ previous' \in Screen /\ shown' \in Screen \union {"error", "fatal"}
      /\ errorOn' \in BOOLEAN /\ dismissals' \in 0..1
      /\ ErrorOK' /\ PreviousOK' /\ ShownOK'
  BY <1>1, <1>2, ScreenKeeps
<1>4. /\ history' \in History /\ uiTimer' \in UiTimer
      /\ {lost, posting, stopping}' \subseteq BOOLEAN /\ WaitWatched' /\ HistoryOK'
  BY <1>1, MoveKeeps DEF UiInv
<1> QED BY <1>1, <1>3, <1>4 DEF UiInv, DisplayTypeOK, QueueOK

LEMMA ResumeKeeps ==
  ASSUME UiInv, Resume, QueueOK'
  PROVE  UiInv'
<1>1. history \in Ui \ {"ERROR"}
  BY HistorySets DEF UiInv, DisplayTypeOK, Ui, DisplayUi, ConnectingUi, LearningUi, OtaUi, RunningUi, ImprovUi
<1>2. Move(history) /\ ScreenAfter(history, TRUE) /\ ui' = history
  BY DEF Resume, Move
<1>3. /\ previous' \in Screen /\ shown' \in Screen \union {"error", "fatal"}
      /\ errorOn' \in BOOLEAN /\ dismissals' \in 0..1
      /\ ErrorOK' /\ PreviousOK' /\ ShownOK'
  BY <1>1, <1>2, ScreenKeeps
<1>4. /\ history' \in History /\ uiTimer' \in UiTimer
      /\ {lost, posting, stopping}' \subseteq BOOLEAN /\ WaitWatched' /\ HistoryOK'
  BY <1>1, <1>2, MoveKeeps DEF UiInv
<1> QED BY <1>1, <1>2, <1>3, <1>4 DEF UiInv, DisplayTypeOK, QueueOK

LEMMA GotoErrorKeeps ==
  ASSUME UiInv, ui \in DisplayUi, NEW fatal \in BOOLEAN, GotoError(fatal), QueueOK'
  PROVE  UiInv'
<1> USE DEF UiInv
<1>1. /\ ui' = "ERROR" /\ history' = history
      /\ previous' = IF ui \in LearningUi THEN "clear" ELSE previous
      /\ ShowError(fatal)
  BY DEF GotoError, Move, HistoryAfter, RunningUi, OtaUi, ConnectingUi, ImprovUi
<1>2. "ERROR" \in Ui /\ Move("ERROR")
  BY DEF Ui, GotoError
<1>3. /\ history' \in History /\ uiTimer' \in UiTimer
      /\ {lost, posting, stopping}' \subseteq BOOLEAN /\ WaitWatched' /\ HistoryOK'
  BY <1>2, MoveKeeps
<1>4. errorOn' /\ errorOn' \in BOOLEAN /\ dismissals' \in 0..1 /\ shown' \in {"error", "fatal"} /\ ErrorOK'
  <2>1. CASE fatal
    BY <1>1, <2>1 DEF ShowError, ErrorOK, ErrorDismissed, DisplayTypeOK
  <2>2. CASE ~fatal /\ errorOn
    BY <1>1, <2>2 DEF ShowError, ErrorOK, ErrorDismissed, DisplayTypeOK
  <2>3. CASE ~fatal /\ ~errorOn
    BY <1>1, <2>3 DEF ShowError, ErrorOK, ErrorDismissed, DisplayTypeOK
  <2> QED BY <2>1, <2>2, <2>3
<1>5. PreviousOK'
  <2>1. ui \in LearningUi => previous' = "clear" /\ "clear" \in LeftOver
    BY <1>1, DrawingSets
  <2>2. ui \notin LearningUi /\ history = "BOOT_ANIMATION" => previous' = "clear"
    BY <1>1 DEF HistoryOK, PreviousOK, DisplayUi, ConnectingUi, ImprovUi, OtaUi, RunningUi
  <2>3. ui \notin LearningUi /\ history \in Undrawn => previous' \in LeftOver
    <3> SUFFICES ASSUME ui \notin LearningUi, history \in Undrawn PROVE previous \in LeftOver
      BY <1>1
    <3>1. ui \in RunningUi \/ ui = "IMPROV_PROVISIONING"
      BY DEF HistoryOK, DisplayUi, ConnectingUi, ImprovUi, OtaUi, Undrawn
    <3>2. CASE ui \in Undrawn
      BY <3>2 DEF PreviousOK
    <3>3. CASE ui = "IDLE"
      BY <3>3, DrawingSets DEF PreviousOK, Clearing
    <3>4. CASE ui \in RunningUi \ {"RUNNING", "IDLE"}
      BY <3>4, DrawingSets DEF PreviousOK
    <3> QED BY <3>1, <3>2, <3>3, <3>4 DEF Undrawn
  <2>4. ui' \notin Drawing \union Clearing \union {"BOOT_ANIMATION"} \union Undrawn
    BY <1>1 DEF Drawing, Clearing, Undrawn
  <2> QED BY <1>1, <2>1, <2>2, <2>3, <2>4 DEF PreviousOK
<1>6. ShownOK'
  BY <1>4 DEF ShownOK
<1>7. previous' \in Screen
  BY <1>1 DEF DisplayTypeOK, Screen
<1> QED BY <1>1, <1>2, <1>3, <1>4, <1>5, <1>6, <1>7 DEF DisplayTypeOK, QueueOK

-----------------------------------------------------------------------------
(* The steps of the display                                                 *)

LEMMA DispatchCases ==
  ASSUME UiInv, Dispatch
  PROVE  \/ \E t \in Ui \ {"ERROR"} : Goto(t) /\ MayEnter(t)
         \/ ui \in DisplayUi /\ \E fatal \in BOOLEAN : GotoError(fatal)
         \/ Resume
         \/ Unhandled
<1>1. CASE Common
  <2>1. {"RESET_COUNTDOWN", "FACTORY_RESET", "REBOOT"} \subseteq (Drawing \union Clearing) \intersect (Ui \ {"ERROR"})
    BY DEF Drawing, Clearing, Silent, Ui
  <2> QED BY <1>1, <2>1 DEF Common, On, Interruptible, MayEnter
<1>2. CASE Connecting
  <2>1. \/ ui = "BOOT_ANIMATION" /\ Goto("CONNECTING")
        \/ /\ ui \in ConnectingUi
           /\ \E t \in {"RUNNING", "SHOW_CONNECTED", "SHOW_CONNECTING", "IMPROV_STARTED"} : Goto(t)
    <3>1. Follows(ConnectingUi, ConnectingTarget) =>
            ui \in ConnectingUi /\ \E t \in {"RUNNING", "SHOW_CONNECTING", "IMPROV_STARTED"} : Goto(t)
      BY ConnectingTargets DEF On, Follows
    <3>2. "SHOW_CONNECTING" \in ConnectingUi
      BY DEF ConnectingUi
    <3>3. CASE ui = "BOOT_ANIMATION" /\ Goto("CONNECTING")
      BY <3>3
    <3>4. CASE ui = "SHOW_CONNECTING" /\ Goto("SHOW_CONNECTED")
      BY <3>2, <3>4
    <3>5. CASE Follows(ConnectingUi, ConnectingTarget)
      BY <3>1, <3>5
    <3> QED BY <1>2, <3>3, <3>4, <3>5 DEF Connecting, On
  <2>2. {"CONNECTING", "RUNNING", "SHOW_CONNECTED", "SHOW_CONNECTING", "IMPROV_STARTED"} \subseteq Ui \ {"ERROR"}
    BY DEF Ui, DisplayUi, ConnectingUi, RunningUi, ImprovUi
  <2>3. "CONNECTING" \in Drawing
    BY DrawingSets DEF ConnectingUi
  <2> QED BY <2>1, <2>2, <2>3 DEF MayEnter
<1>3. CASE Learning
  <2>1. ui \in LearningUi /\ \E t \in {"IR_LEARNED_FAILED", "IR_LEARNED_OK", "RUNNING", "CONNECTING", "OTA_STARTED", "IR_LEARNING_STARTED"} : Goto(t)
    BY <1>3, LearningTargets DEF Learning, On, Follows, LearningUi
  <2>2. {"IR_LEARNED_FAILED", "IR_LEARNED_OK", "RUNNING", "CONNECTING", "OTA_STARTED", "IR_LEARNING_STARTED"} \subseteq Ui \ {"ERROR"}
    BY DEF Ui, DisplayUi, ConnectingUi, RunningUi, LearningUi, OtaUi
  <2> QED BY <2>1, <2>2 DEF MayEnter
<1>4. CASE Ota
  <2>1. \E t \in {"OTA_FAIL", "OTA_PROGRESS", "OTA_SUCCESS"} : Goto(t)
    BY <1>4, OtaTargets DEF Ota, Follows
  <2>2. {"OTA_FAIL", "OTA_PROGRESS", "OTA_SUCCESS"} \subseteq Drawing /\ "ERROR" \notin Drawing
    BY DrawingSets, StateSets DEF OtaUi
  <2> QED BY <2>1, <2>2, StateSets DEF MayEnter
<1>5. CASE Running
  <2>1. \E t \in {"CHARGING_OFF", "CHARGING", "IDENTIFY", "IR_LEARNING_STARTED", "CONNECTING", "OTA_STARTED", "IDLE", "INFO", "INFO_NEXT"} : Goto(t)
    BY <1>5, RunningTargets DEF Running, Follows
  <2>2. {"CHARGING_OFF", "CHARGING", "IDENTIFY", "IR_LEARNING_STARTED", "CONNECTING", "OTA_STARTED", "INFO", "INFO_NEXT"} \subseteq Drawing
    BY DrawingSets DEF RunningUi, LearningUi, ConnectingUi, OtaUi
  <2>3. "IDLE" \in Clearing
    BY DEF Clearing
  <2> QED BY <2>1, <2>2, <2>3, StateSets DEF MayEnter
<1>6. CASE Improving
  <2>1. ui \in ImprovUi /\ \E t \in {"RUNNING"} \union ImprovUi : Goto(t)
    BY <1>6, ImprovTargets DEF Improving, On, Follows
  <2>2. {"RUNNING"} \union ImprovUi \subseteq Ui \ {"ERROR"} /\ "BOOT_ANIMATION" \notin {"RUNNING"} \union ImprovUi
    BY DEF Ui, DisplayUi, RunningUi, ImprovUi
  <2> QED BY <2>1, <2>2 DEF MayEnter
<1>7. CASE Countdown
  <2>1. "FACTORY_RESET" \in Drawing /\ "FACTORY_RESET" \in Ui
    BY DEF Drawing, Clearing, Silent, Ui
  <2> QED BY <1>7, <2>1, StateSets DEF Countdown, MayEnter
<1> QED BY <1>1, <1>2, <1>3, <1>4, <1>5, <1>6, <1>7 DEF Dispatch

LEMMA StayKeeps ==
  ASSUME UiInv, Unhandled, uiQueue # <<>>, uiQueue' = Tail(uiQueue), QueueOK'
  PROVE  UiInv'
<1>1. UNCHANGED <<smUiVars, lost>>
  BY DEF Unhandled, Stay
<1>2. UNCHANGED <<ui, history, uiTimer, previous, shown, errorOn, dismissals, posting, stopping, lost>>
  BY <1>1 DEF smUiVars, screenVars
<1>3. WaitWatched'
  <2>1. Deadline(ui) # "off" => "TIMER" \in HandledIn(ui)
    BY TimerHandled DEF UiInv, DisplayTypeOK
  <2>2. Deadline(ui) # "off" => ~TimerQueued
    BY <2>1 DEF Unhandled, TimerQueued
  <2>3. Deadline(ui)' = Deadline(ui)
    BY <1>2 DEF Deadline
  <2> QED BY <1>2, <2>2, <2>3 DEF UiInv, WaitWatched
<1> QED BY <1>2, <1>3 DEF UiInv, DisplayTypeOK, QueueOK, ErrorOK, ErrorDismissed, HistoryOK, PreviousOK, ShownOK

LEMMA DisplayStepKeeps ==
  ASSUME UiInv, [DisplayStep]_uiVars
  PROVE  UiInv'
<1> DEFINE smSame == UNCHANGED <<ui, history, previous, shown, errorOn, dismissals>>
<1>0. Deadline(ui) \in UiTimer /\ (ui' = ui => Deadline(ui)' = Deadline(ui))
  BY DeadlineType DEF Deadline
<1>1. CASE Raise
  BY <1>0, <1>1, UiAssumption DEF Raise, UiInv, DisplayTypeOK, WaitWatched, TimerQueued, ErrorOK,
     ErrorDismissed, HistoryOK, PreviousOK, ShownOK, smUiVars, screenVars
<1>2. ASSUME NEW e \in UiEvent, Deliver(e) PROVE UiInv'
  <2>1. /\ UNCHANGED <<ui, history, uiTimer, previous, shown, errorOn, dismissals, posting, stopping, lost>>
        /\ loop' \in 0..LoopLength
    BY <1>2, UiAssumption DEF Deliver, smUiVars, screenVars, UiInv, DisplayTypeOK
  <2>2. \/ uiQueue' = uiQueue
        \/ Len(uiQueue) < QueueLength /\ uiQueue' = Append(uiQueue, e)
    BY <1>2 DEF Deliver, Enqueue, Drop
  <2>3. uiQueue' \in Seq(UiEvent \union {"TIMER"}) /\ Len(uiQueue') <= QueueLength
    BY <2>2, UiAssumption DEF UiInv, DisplayTypeOK
  <2>4. TimerQueued => TimerQueued'
    BY <2>2 DEF TimerQueued, UiInv, DisplayTypeOK
  <2> QED BY <1>0, <2>1, <2>3, <2>4 DEF UiInv, DisplayTypeOK, WaitWatched, ErrorOK,
             ErrorDismissed, HistoryOK, PreviousOK, ShownOK
<1>3. CASE StateTimerExpires
  <2>1. /\ UNCHANGED <<ui, history, previous, shown, errorOn, dismissals, posting, stopping, loop>>
        /\ uiTimer' = "off"
    BY <1>3 DEF StateTimerExpires, screenVars
  <2>2. \/ /\ Len(uiQueue) < QueueLength /\ uiQueue' = <<"TIMER">> \o uiQueue /\ lost' = lost
        \/ lost' = TRUE /\ uiQueue' = uiQueue
    BY <1>3 DEF StateTimerExpires, AtFront
  <2>3. /\ uiQueue' \in Seq(UiEvent \union {"TIMER"}) /\ Len(uiQueue') <= QueueLength
        /\ lost' \in BOOLEAN /\ (lost' \/ TimerQueued')
    <3>1. CASE Len(uiQueue) < QueueLength /\ uiQueue' = <<"TIMER">> \o uiQueue /\ lost' = lost
      <4>1. <<"TIMER">> \in Seq(UiEvent \union {"TIMER"}) /\ Len(<<"TIMER">>) = 1
        OBVIOUS
      <4>2. uiQueue' \in Seq(UiEvent \union {"TIMER"}) /\ Len(uiQueue') = 1 + Len(uiQueue)
            /\ uiQueue'[1] = "TIMER"
        BY <3>1, <4>1 DEF UiInv, DisplayTypeOK
      <4> QED BY <3>1, <4>2, UiAssumption DEF TimerQueued, UiInv, DisplayTypeOK
    <3>2. CASE lost' = TRUE /\ uiQueue' = uiQueue
      BY <3>2 DEF UiInv, DisplayTypeOK
    <3> QED BY <2>2, <3>1, <3>2
  <2> QED BY <2>1, <2>3 DEF UiInv, DisplayTypeOK, UiTimer, WaitWatched, ErrorOK,
             ErrorDismissed, HistoryOK, PreviousOK, ShownOK
<1>4. CASE DismissError
  <2>1. /\ UNCHANGED <<ui, history, uiTimer, previous, posting, stopping, uiQueue, lost, loop>>
        /\ dismissals > 0 /\ dismissals' = dismissals - 1 /\ errorOn' = FALSE /\ shown' = previous
    BY <1>4 DEF DismissError
  <2>2. dismissals = 1
    BY <2>1 DEF UiInv, DisplayTypeOK
  <2>3. shown' \notin {"error", "fatal"} /\ shown' \in Screen
    BY <2>1, StateSets DEF UiInv, DisplayTypeOK, Screen
  <2>4. DisplayTypeOK'
    <3>1. {lost, errorOn, posting, stopping}' \subseteq BOOLEAN
      BY <2>1 DEF UiInv, DisplayTypeOK
    <3>2. dismissals' \in 0..1
      BY <2>1, <2>2
    <3> QED BY <2>1, <2>3, <3>1, <3>2 DEF UiInv, DisplayTypeOK
  <2>5. WaitWatched'
    BY <1>0, <2>1 DEF UiInv, WaitWatched, TimerQueued
  <2>6. ErrorOK' /\ HistoryOK' /\ PreviousOK' /\ ShownOK'
    BY <2>1, <2>2, <2>3 DEF UiInv, ErrorOK, ErrorDismissed, HistoryOK, PreviousOK, ShownOK
  <2> QED BY <2>4, <2>5, <2>6 DEF UiInv
<1>5. CASE DoHandler
  <2>1. QueueOK'
    BY <1>5 DEF DoHandler, QueueOK, UiInv, DisplayTypeOK
  <2>2. ui = "SHOW_CONNECTED" /\ Goto("RUNNING") => MayEnter("RUNNING") /\ "RUNNING" \in Ui \ {"ERROR"}
    BY DEF MayEnter, ConnectingUi, Ui, DisplayUi, RunningUi
  <2>3. ui = "ERROR" => MayEnter(history) /\ history \in Ui \ {"ERROR"}
    BY HistorySets DEF MayEnter, UiInv, DisplayTypeOK, Ui, DisplayUi, ConnectingUi, LearningUi, OtaUi, RunningUi, ImprovUi
  <2>4. MayEnter("REBOOT") /\ "REBOOT" \in Ui \ {"ERROR"}
    BY DEF MayEnter, Clearing, Ui
  <2> QED BY <1>5, <2>1, <2>2, <2>3, <2>4, GotoKeeps DEF DoHandler
<1>6. CASE Dispatch
  <2>1. QueueOK' /\ uiQueue # <<>> /\ uiQueue' = Tail(uiQueue)
    BY <1>6, UiAssumption DEF Dispatch, QueueOK, UiInv, DisplayTypeOK
  <2> QED BY <1>6, <2>1, DispatchCases, GotoKeeps, GotoErrorKeeps, ResumeKeeps, StayKeeps
<1>7. CASE ResetPosted
  <2>1. /\ UNCHANGED <<ui, history, uiTimer, previous, shown, errorOn, dismissals, stopping, uiQueue, lost>>
        /\ posting' = FALSE /\ loop < LoopLength /\ loop' = loop + 1
    BY <1>7 DEF ResetPosted, screenVars
  <2>2. loop' \in 0..LoopLength
    BY <2>1, UiAssumption DEF UiInv, DisplayTypeOK
  <2> QED BY <1>0, <2>1, <2>2 DEF UiInv, DisplayTypeOK, WaitWatched, TimerQueued, ErrorOK,
             ErrorDismissed, HistoryOK, PreviousOK, ShownOK
<1>8. CASE LearningStopped
  BY <1>0, <1>8 DEF LearningStopped, UiInv, DisplayTypeOK, WaitWatched, TimerQueued, ErrorOK,
     ErrorDismissed, HistoryOK, PreviousOK, ShownOK, screenVars
<1>9. CASE UNCHANGED uiVars
  BY <1>0, <1>9 DEF uiVars, smUiVars, UiInv, DisplayTypeOK, WaitWatched, TimerQueued, ErrorOK,
     ErrorDismissed, HistoryOK, PreviousOK, ShownOK, screenVars
<1> QED BY <1>1, <1>2, <1>3, <1>4, <1>5, <1>6, <1>7, <1>8, <1>9, UiAssumption
        DEF DisplayStep, DisplayNext, Poll, EventTask

LEMMA DisplayStarts == DisplayInit => UiInv
<1> SUFFICES ASSUME DisplayInit PROVE UiInv
  OBVIOUS
<1>1. ui = "BOOT_ANIMATION" /\ Deadline(ui) = "boot" /\ ui \in Ui /\ "clear" \in Screen
  BY DEF DisplayInit, Deadline, Ui, DisplayUi, Screen, OtaUi, RunningUi
<1>2. "BOOT_ANIMATION" \notin Drawing \union Undrawn \union RunningUi \union OtaUi
  BY DEF Drawing, Silent, Undrawn, RunningUi, OtaUi
<1>3. "clear" \notin {"error", "fatal"} /\ "boot" \in UiTimer /\ "BOOT_ANIMATION" \in History
  BY DEF UiTimer, History
<1>4. <<>> \in Seq(UiEvent \union {"TIMER"}) /\ Len(<<>>) = 0
  OBVIOUS
<1>5. DisplayTypeOK
  <2>1. {lost, errorOn, posting, stopping} \subseteq BOOLEAN
    BY DEF DisplayInit
  <2>2. 0 \in 0..1 /\ 0 \in 0..LoopLength /\ 0 <= QueueLength
    BY UiAssumption
  <2> QED BY <1>1, <1>3, <1>4, <2>1, <2>2 DEF DisplayInit, DisplayTypeOK
<1>6. WaitWatched /\ ErrorOK /\ HistoryOK
  BY <1>1, <1>2, <1>3 DEF DisplayInit, WaitWatched, ErrorOK, ErrorDismissed, HistoryOK
<1>7. PreviousOK /\ ShownOK
  BY <1>1, <1>2 DEF DisplayInit, PreviousOK, ShownOK
<1> QED BY <1>5, <1>6, <1>7 DEF UiInv

LEMMA ScreenFollows == UiInv => ScreenOfState
<1> SUFFICES ASSUME UiInv, ui # "ERROR", ~errorOn PROVE shown \in ScreensOf(ui)
  BY DEF ScreenOfState
<1>1. ui \in Ui /\ (shown = previous \/ (shown = "IMPROV_PROVISIONING" /\ ui \in Undrawn))
  BY DEF UiInv, ShownOK, DisplayTypeOK
<1>2. CASE ui \in Drawing
  BY <1>1, <1>2, StateSets DEF UiInv, PreviousOK, ScreensOf
<1>3. CASE ui \in Clearing \union {"BOOT_ANIMATION"}
  <2>1. ui \notin Drawing /\ ui \notin Undrawn
    BY <1>3 DEF Drawing, Clearing, Silent, Undrawn
  <2>2. ui \notin Drawing /\ ui \in Clearing \union {"BOOT_ANIMATION"} => ScreensOf(ui) = {"clear"}
    BY DEF ScreensOf
  <2> QED BY <1>1, <1>3, <2>1, <2>2 DEF UiInv, PreviousOK
<1>4. CASE ui \in Undrawn
  <2>1. "IMPROV_PROVISIONING" \in LeftOver
    BY DEF LeftOver, ImprovUi
  <2>2. ui \notin Drawing \union Clearing \union {"BOOT_ANIMATION"}
    BY <1>4, StateSets DEF Undrawn
  <2> QED BY <1>1, <1>4, <2>1, <2>2 DEF UiInv, PreviousOK, ScreensOf
<1> QED BY <1>1, <1>2, <1>3, <1>4, StateSets

LEMMA DisplayInvariant == DisplayInit /\ [][DisplayStep]_uiVars => []UiInv
<1>1. DisplayInit => UiInv
  BY DisplayStarts
<1>2. UiInv /\ [DisplayStep]_uiVars => UiInv'
  BY DisplayStepKeeps
<1> QED BY <1>1, <1>2, PTL

-----------------------------------------------------------------------------
(* The display in DockLearn                                                 *)

NewsOK == news \in Seq(News)

LEMMA NewsAreEvents == News \subseteq UiEvent /\ "IR_LEARNING_STOP" \in News
BY DEF News, UiEvent

LEMMA DisplayPart ==
  ASSUME NewsOK, [Next]_allVars
  PROVE  [DisplayStep]_uiVars /\ NewsOK'
<1>1. ASSUME NEW e \in News, Posts(e), UNCHANGED <<smUiVars, uiQueue, lost>>
      PROVE  [DisplayStep]_uiVars /\ NewsOK'
  <2>1. CASE loop < LoopLength /\ loop' = loop + 1 /\ news' = Append(news, e)
    <3>1. Raise
      BY <1>1, <2>1 DEF Raise
    <3>2. NewsOK'
      BY <2>1 DEF NewsOK
    <3> QED BY <3>1, <3>2 DEF DisplayStep, DisplayNext
  <2>2. CASE UNCHANGED <<loop, news>>
    BY <1>1, <2>2 DEF uiVars, NewsOK
  <2> QED BY <1>1, <2>1, <2>2 DEF Posts
<1>2. CASE LearnTask
  <2>1. Quietly /\ UNCHANGED <<smUiVars, uiQueue, lost>> => UNCHANGED uiVars /\ NewsOK'
    BY DEF Quietly, uiVars, NewsOK
  <2> QED BY <1>1, <1>2, <2>1 DEF LearnTask, News
<1>3. CASE Dispatches
  <2>1. CASE \E e \in Inputs : Deliver(e) /\ UNCHANGED news
    BY <2>1, UiAssumption DEF DisplayStep, NewsOK
  <2>2. CASE news # <<>> /\ Deliver(Head(news)) /\ news' = Tail(news)
    <3>1. Head(news) \in News /\ Tail(news) \in Seq(News)
      BY <2>2 DEF NewsOK
    <3> QED BY <2>2, <3>1, NewsAreEvents DEF DisplayStep, NewsOK
  <2> QED BY <1>3, <2>1, <2>2 DEF Dispatches
<1>4. CASE UiTask
  <2>1. DisplayStops => [DisplayStep]_uiVars
    BY DEF DisplayStops, DisplayStep, DisplayNext
  <2> QED BY <1>4, <2>1 DEF UiTask, DisplayRuns, DisplayStep, DisplayNext, NewsOK
<1>5. CASE Others
  BY <1>5 DEF Others, DisplayStep, DisplayNext, NewsOK
<1>6. CASE WsClients \/ GcClients \/ UNCHANGED allVars
  BY <1>6 DEF WsClients, GcClients, allVars, NewsOK
<1> QED BY <1>2, <1>3, <1>4, <1>5, <1>6 DEF Next, Aborted

LEMMA NewsStart == Init => DisplayInit /\ NewsOK
BY DEF Init, NewsOK

LEMMA DockDisplay == Spec => []UiInv
<1>1. Spec => [](NewsOK)
  <2>1. Init => NewsOK
    BY NewsStart
  <2>2. NewsOK /\ [Next]_allVars => NewsOK'
    BY DisplayPart
  <2> QED BY <2>1, <2>2, PTL DEF Spec
<1>2. NewsOK /\ [Next]_allVars => [DisplayStep]_uiVars
  BY DisplayPart
<1>3. Init => DisplayInit
  BY NewsStart
<1> QED BY <1>1, <1>2, <1>3, DisplayInvariant, PTL DEF Spec

-----------------------------------------------------------------------------
(* The slots and the callback                                               *)

GcInv ==
  /\ LearnTypeOK /\ GcTypeOK
  /\ SlotsConserved
  /\ \A s \in Socket : step[s] \in {"set", "setRaw"} => command[s] = "recv"

Forgetting == \E t \in Task : step[t] = "forget"

\* A callback that nobody is about to forget belongs to a client that learning is on for,
\* or which is about to set the bits: one that ends has cleared them first.
CallbackInv ==
  \A s \in Socket : override = s =>
    \/ Forgetting
    \/ /\ asked[s]
       /\ learning \/ step[s] = "setRaw"
       /\ command[s] = "end" => step[s] # "none"

ServingIn(c) == {x \in Socket : c[x] # "none"}

LEMMA ServingIs ==
  ASSUME NEW c \in [Socket -> {"none", "recv", "get_IRL", "end"}], NEW s \in Socket, NEW v
  PROVE  LET next == ServingIn([c EXCEPT ![s] = v])
         IN  /\ Cardinality(ServingIn(c)) \in Nat
             /\ c[s] # "none" /\ v # "none" => next = ServingIn(c)
             /\ c[s] = "none" /\ v # "none" => Cardinality(next) = Cardinality(ServingIn(c)) + 1
             /\ c[s] # "none" /\ v = "none" => Cardinality(next) = Cardinality(ServingIn(c)) - 1
<1> DEFINE next == ServingIn([c EXCEPT ![s] = v])
<1>1. IsFiniteSet(ServingIn(c)) /\ Cardinality(ServingIn(c)) \in Nat
  BY FS_Subset, FS_CardinalityType, ClientTaskAssumption DEF ServingIn
<1>2. c[s] # "none" /\ v # "none" => next = ServingIn(c)
  BY DEF ServingIn
<1>3. c[s] = "none" /\ v # "none" => next = ServingIn(c) \union {s} /\ s \notin ServingIn(c)
  BY DEF ServingIn
<1>4. c[s] # "none" /\ v = "none" => next = ServingIn(c) \ {s} /\ s \in ServingIn(c)
  BY DEF ServingIn
<1> HIDE DEF next
<1>5. c[s] = "none" /\ v # "none" => Cardinality(next) = Cardinality(ServingIn(c)) + 1
  BY <1>1, <1>3, FS_AddElement
<1>6. c[s] # "none" /\ v = "none" => Cardinality(next) = Cardinality(ServingIn(c)) - 1
  BY <1>1, <1>4, FS_RemoveElement
<1> QED BY <1>1, <1>2, <1>5, <1>6 DEF next

LEMMA ServingNow == Serving = ServingIn(command) /\ Serving' = ServingIn(command')
BY DEF Serving, ServingIn

\* The steps of a call, whoever makes it.
LEMMA CallKeeps ==
  ASSUME GcInv, CallbackInv, UNCHANGED gcVars, NEW t \in Task,
         \/ t \notin Socket /\ \E raw \in BOOLEAN : StartFormat(t, raw)
         \/ ClearBits(t) \/ SetBits(t) \/ Forget(t)
  PROVE  GcInv' /\ CallbackInv'
<1> USE DEF GcInv
<1>1. UNCHANGED <<slots, accepting, command, asked>> /\ GcTypeOK' /\ SlotsConserved'
  BY ServingNow DEF gcVars, GcTypeOK, SlotsConserved
<1>2. CASE t \notin Socket /\ \E raw \in BOOLEAN : StartFormat(t, raw)
  <2>1. /\ override' = NoSocket /\ UNCHANGED <<bitVars, learnerVars>>
        /\ \E v \in {"set", "setRaw"} : step' = [step EXCEPT ![t] = v]
    BY <1>2 DEF StartFormat, Goes
  <2>2. LearnTypeOK'
    BY <2>1 DEF LearnTypeOK, bitVars, learnerVars
  <2>3. \A s \in Socket : step'[s] = step[s]
    BY <1>2, <2>1 DEF LearnTypeOK
  <2> QED BY <1>1, <2>1, <2>2, <2>3, SocketAssumption DEF CallbackInv
<1>3. CASE ClearBits(t)
  <2>1. /\ learning' = FALSE /\ rawBit' = FALSE /\ UNCHANGED <<override, learner, rawMode, aborted>>
        /\ step' = [step EXCEPT ![t] = "forget"]
    BY <1>3 DEF ClearBits, Goes, learnerVars
  <2>2. LearnTypeOK'
    BY <2>1 DEF LearnTypeOK
  <2>3. Forgetting'
    BY <2>1 DEF Forgetting, LearnTypeOK
  <2>4. \A s \in Socket : step'[s] \in {"set", "setRaw"} => step[s] \in {"set", "setRaw"}
    BY <2>1 DEF LearnTypeOK
  <2> QED BY <1>1, <2>2, <2>3, <2>4 DEF CallbackInv
<1>4. CASE SetBits(t)
  <2>1. /\ step[t] \in {"set", "setRaw"} /\ learning' = TRUE /\ UNCHANGED <<override, learner, rawMode, aborted>>
        /\ step' = [step EXCEPT ![t] = "none"]
    BY <1>4 DEF SetBits, Goes, learnerVars
  <2>2. LearnTypeOK'
    <3>1. rawBit' \in BOOLEAN
      BY <1>4 DEF SetBits
    <3> QED BY <2>1, <3>1 DEF LearnTypeOK
  <2>3. Forgetting => Forgetting'
    BY <2>1 DEF Forgetting, LearnTypeOK
  <2>4. \A s \in Socket : step'[s] \in {"set", "setRaw"} => step[s] \in {"set", "setRaw"}
    BY <2>1 DEF LearnTypeOK
  <2>5. \A s \in Socket : command[s] = "end" => step'[s] = step[s]
    BY <2>1 DEF LearnTypeOK
  <2> QED BY <1>1, <2>1, <2>2, <2>3, <2>4, <2>5 DEF CallbackInv
<1>5. CASE Forget(t)
  <2>1. /\ override' = NoSocket /\ UNCHANGED <<learning, rawBit, learner, rawMode, aborted>>
        /\ step' = [step EXCEPT ![t] = "none"]
    BY <1>5 DEF Forget, Goes, bitVars, learnerVars
  <2>2. LearnTypeOK'
    BY <2>1 DEF LearnTypeOK
  <2>3. \A s \in Socket : step'[s] \in {"set", "setRaw"} => step[s] \in {"set", "setRaw"}
    BY <2>1 DEF LearnTypeOK
  <2> QED BY <1>1, <2>1, <2>2, <2>3, SocketAssumption DEF CallbackInv
<1> QED BY <1>2, <1>3, <1>4, <1>5

LEMMA ClientKeeps ==
  ASSUME GcInv, CallbackInv, NEW s \in Socket, GcClientTask(s)
  PROVE  GcInv' /\ CallbackInv'
<1> USE DEF GcInv
<1>0. s \in Task
  BY ClientTaskAssumption
<1>1. CASE \E c \in {"get_IRL", "stop_IRL", "sendir", "end"} : Receives(s, c)
  <2> PICK c \in {"get_IRL", "stop_IRL", "sendir", "end"} : Receives(s, c)
    BY <1>1
  <2> DEFINE v == IF c \in {"get_IRL", "end"} THEN c ELSE "recv"
             w == IF learning \/ c = "stop_IRL" THEN "clear" ELSE "none"
  <2>1. /\ command[s] = "recv" /\ step[s] = "none"
        /\ command' = [command EXCEPT ![s] = v] /\ step' = [step EXCEPT ![s] = w]
        /\ UNCHANGED <<learning, rawBit, override, learner, rawMode, aborted, slots, accepting, asked>>
    BY DEF Receives, Goes, bitVars, learnerVars
  <2>2. v \in {"recv", "get_IRL", "end"} /\ w \in {"none", "clear"} /\ (learning => w = "clear")
    OBVIOUS
  <2> HIDE DEF v, w
  <2>3. LearnTypeOK' /\ GcTypeOK'
    BY <2>1, <2>2 DEF LearnTypeOK, GcTypeOK
  <2>4. Serving' = Serving
    BY <2>1, <2>2, ServingIs, ServingNow DEF GcTypeOK
  <2>5. Forgetting => Forgetting'
    BY <2>1 DEF Forgetting, LearnTypeOK
  <2>6. \A x \in Socket \ {s} : step'[x] = step[x] /\ command'[x] = command[x]
    BY <2>1 DEF LearnTypeOK, GcTypeOK
  <2>7. step'[s] = w
    BY <1>0, <2>1 DEF LearnTypeOK
  <2>8. CallbackInv'
    <3> SUFFICES ASSUME NEW x \in Socket, override = x, ~Forgetting
                 PROVE  /\ asked[x] /\ (learning \/ step'[x] = "setRaw")
                        /\ command'[x] = "end" => step'[x] # "none"
      BY <2>1, <2>5 DEF CallbackInv
    <3>1. asked[x] /\ (learning \/ step[x] = "setRaw") /\ (command[x] = "end" => step[x] # "none")
      BY DEF CallbackInv
    <3> QED BY <2>1, <2>2, <2>6, <2>7, <3>1
  <2>9. \A x \in Socket : step'[x] \in {"set", "setRaw"} => command'[x] = "recv"
    BY <2>2, <2>6, <2>7
  <2> QED BY <2>1, <2>3, <2>4, <2>8, <2>9 DEF SlotsConserved
<1>2. CASE Stops(s) \/ ((SetBits(s) \/ Forget(s)) /\ UNCHANGED gcVars)
  BY <1>0, <1>2, CallKeeps DEF Stops
<1>3. CASE GetsCodes(s)
  <2>1. /\ command[s] = "get_IRL" /\ step[s] = "none" /\ override' = s
        /\ command' = [command EXCEPT ![s] = "recv"] /\ step' = [step EXCEPT ![s] = "setRaw"]
        /\ asked' = [asked EXCEPT ![s] = TRUE]
        /\ UNCHANGED <<learning, rawBit, learner, rawMode, aborted, slots, accepting>>
    BY <1>3 DEF GetsCodes, StartOverride, Goes, bitVars, learnerVars
  <2>2. LearnTypeOK' /\ GcTypeOK'
    BY <2>1 DEF LearnTypeOK, GcTypeOK
  <2>3. Serving' = Serving
    BY <2>1, ServingIs, ServingNow DEF GcTypeOK
  <2>4. \A x \in Socket \ {s} : step'[x] = step[x] /\ command'[x] = command[x]
    BY <2>1 DEF LearnTypeOK, GcTypeOK
  <2>5. step'[s] = "setRaw" /\ command'[s] = "recv" /\ asked'[s]
    BY <1>0, <2>1 DEF LearnTypeOK, GcTypeOK
  <2> QED BY <2>1, <2>2, <2>3, <2>4, <2>5 DEF CallbackInv, SlotsConserved
<1>4. CASE Closes(s)
  <2>1. /\ command[s] = "end" /\ step[s] = "none"
        /\ command' = [command EXCEPT ![s] = "none"] /\ asked' = [asked EXCEPT ![s] = FALSE]
        /\ slots' = slots + 1
        /\ UNCHANGED <<learning, rawBit, override, step, learner, rawMode, aborted, accepting>>
    BY <1>4 DEF Closes, learnVars, bitVars, learnerVars
  <2>2. Cardinality(Serving') = Cardinality(Serving) - 1 /\ Cardinality(Serving) \in Nat /\ Cardinality(Serving') \in Nat
    <3>1. command' \in [Socket -> {"none", "recv", "get_IRL", "end"}]
      BY <2>1 DEF GcTypeOK
    <3> QED BY <2>1, <3>1, ServingIs, ServingNow DEF GcTypeOK
  <2>3. slots' \in 0..MaxClients /\ SlotsConserved'
    BY <2>1, <2>2, MaxClientsAssumption DEF SlotsConserved, GcTypeOK
  <2>4. LearnTypeOK' /\ GcTypeOK'
    BY <2>1, <2>3 DEF LearnTypeOK, GcTypeOK
  <2>5. Forgetting' = Forgetting
    BY <2>1 DEF Forgetting
  <2>6. override = s => Forgetting
    BY <2>1 DEF CallbackInv
  <2>7. CallbackInv'
    BY <2>1, <2>5, <2>6 DEF CallbackInv, GcTypeOK
  <2>8. \A x \in Socket : step'[x] \in {"set", "setRaw"} => command'[x] = "recv"
    BY <2>1 DEF GcTypeOK
  <2> QED BY <2>3, <2>4, <2>7, <2>8
<1> QED BY <1>1, <1>2, <1>3, <1>4 DEF GcClientTask

LEMMA ServerKeeps ==
  ASSUME GcInv, CallbackInv, GcServerTask
  PROVE  GcInv' /\ CallbackInv'
<1> USE DEF GcInv
<1>1. UNCHANGED <<learning, rawBit, override, step, learner, rawMode, aborted, asked>>
  BY DEF GcServerTask, TakeSlot, NotAccepted, Accept, learnVars, bitVars, learnerVars
<1>2. LearnTypeOK' /\ Forgetting' = Forgetting
  BY <1>1 DEF LearnTypeOK, Forgetting
<1>3. Cardinality(Serving) \in Nat
  BY ServingNow, FS_Subset, FS_CardinalityType, ClientTaskAssumption DEF Serving
<1>4. CASE TakeSlot \/ NotAccepted
  <2>1. command' = command /\ Serving' = Serving
    BY <1>4, ServingNow DEF TakeSlot, NotAccepted
  <2>2. \/ ~accepting /\ accepting' = TRUE /\ slots > 0 /\ slots' = slots - 1
        \/ accepting /\ accepting' = FALSE /\ slots' = slots + 1
    BY <1>4 DEF TakeSlot, NotAccepted
  <2>3. SlotsConserved' /\ slots' \in 0..MaxClients
    BY <1>3, <2>1, <2>2, MaxClientsAssumption DEF SlotsConserved, GcTypeOK
  <2>4. GcTypeOK'
    BY <1>1, <2>1, <2>2, <2>3 DEF GcTypeOK
  <2> QED BY <1>1, <1>2, <2>1, <2>3, <2>4 DEF CallbackInv
<1>5. ASSUME NEW s \in Socket, Accept(s) PROVE GcInv' /\ CallbackInv'
  <2>1. /\ accepting /\ command[s] = "none" /\ accepting' = FALSE /\ slots' = slots
        /\ command' = [command EXCEPT ![s] = "recv"]
    BY <1>5 DEF Accept
  <2>2. Cardinality(Serving') = Cardinality(Serving) + 1
    BY <2>1, ServingIs, ServingNow DEF GcTypeOK
  <2>3. SlotsConserved' /\ GcTypeOK'
    <3>1. SlotsConserved'
      BY <1>3, <2>1, <2>2, MaxClientsAssumption DEF SlotsConserved, GcTypeOK
    <3>2. GcTypeOK'
      BY <1>1, <2>1 DEF GcTypeOK
    <3> QED BY <3>1, <3>2
  <2>4. \A x \in Socket : command'[x] = command[x] \/ command'[x] = "recv"
    BY <2>1 DEF GcTypeOK
  <2> QED BY <1>1, <1>2, <2>3, <2>4 DEF CallbackInv
<1> QED BY <1>4, <1>5 DEF GcServerTask

LEMMA LearnerKeeps ==
  ASSUME GcInv, CallbackInv, UNCHANGED <<bitVars, override, step, gcVars>>,
         \/ UNCHANGED learnerVars
         \/ Wakes \/ Checks \/ Hears \/ Delivers \/ CallsBack \/ Retires
         \/ \E ok \in BOOLEAN : Decodes(ok)
  PROVE  GcInv' /\ CallbackInv'
<1> USE DEF GcInv
<1>1. UNCHANGED <<learning, rawBit, override, step, slots, accepting, command, asked>>
  BY DEF bitVars, gcVars
<1>2. learner' \in {"waiting", "check", "listen", "deliver", "callback"}
  BY DEF Wakes, Checks, Hears, Delivers, CallsBack, Retires, Decodes, Reaches, learnerVars, LearnTypeOK
<1>3. rawMode' \in BOOLEAN
  BY DEF Wakes, Checks, Hears, Delivers, CallsBack, Retires, Decodes, Reaches, learnerVars, LearnTypeOK
<1>4. aborted' \in BOOLEAN
  BY DEF Wakes, Checks, Hears, Delivers, CallsBack, Retires, Decodes, Reaches, learnerVars, LearnTypeOK
<1>5. LearnTypeOK'
  BY <1>1, <1>2, <1>3, <1>4 DEF LearnTypeOK
<1> QED BY <1>1, <1>5, ServingNow DEF GcTypeOK, SlotsConserved, CallbackInv, Forgetting

LEMMA GcPart ==
  ASSUME GcInv, CallbackInv, [Next]_allVars
  PROVE  GcInv' /\ CallbackInv'
<1>1. CASE LearnTask
  <2>1. UNCHANGED <<bitVars, override, step, gcVars>>
    BY <1>1 DEF LearnTask, Wakes, Checks, Hears, Delivers, CallsBack, Retires, Decodes, Reaches
  <2> QED BY <1>1, <2>1, LearnerKeeps DEF LearnTask
<1>2. CASE WsClients
  <2>1. Httpd \in Task /\ Httpd \notin Socket
    BY LearnTaskAssumption
  <2> QED BY <1>2, <2>1, CallKeeps DEF WsClients
<1>3. CASE GcClients
  BY <1>3, ServerKeeps, ClientKeeps DEF GcClients
<1>4. CASE UiTask
  <2>1. TimerTask \in Task
    BY LearnTaskAssumption
  <2>2. CASE DisplayStops /\ UNCHANGED gcVars
    BY <2>1, <2>2, CallKeeps DEF DisplayStops
  <2>3. CASE UNCHANGED <<learnVars, gcVars>>
    BY <2>3, LearnerKeeps DEF learnVars
  <2> QED BY <1>4, <2>2, <2>3 DEF UiTask
<1>5. CASE Dispatches \/ Others \/ UNCHANGED allVars
  <2>1. UNCHANGED <<learnVars, gcVars>>
    BY <1>5 DEF Dispatches, Others, allVars
  <2> QED BY <2>1, LearnerKeeps DEF learnVars
<1> QED BY <1>1, <1>2, <1>3, <1>4, <1>5 DEF Next, Aborted

LEMMA GcStarts == Init => GcInv /\ CallbackInv
<1> SUFFICES ASSUME Init PROVE GcInv /\ CallbackInv
  OBVIOUS
<1>1. LearnTypeOK
  BY DEF Init, LearnInit, LearnTypeOK
<1>2. Serving = {}
  BY DEF Init, GcInit, Serving
<1>3. GcTypeOK /\ SlotsConserved
  <2>1. Cardinality(Serving) = 0
    BY <1>2, FS_EmptySet
  <2>2. slots = MaxClients /\ accepting = FALSE /\ command \in [Socket -> {"none"}] /\ asked \in [Socket -> {FALSE}]
    BY DEF Init, GcInit
  <2>3. SlotsConserved
    BY <2>1, <2>2, MaxClientsAssumption DEF SlotsConserved
  <2>4. /\ command \in [Socket -> {"none", "recv", "get_IRL", "end"}]
        /\ asked \in [Socket -> BOOLEAN]
    BY DEF Init, GcInit
  <2>5. accepting \in BOOLEAN
    BY <2>2
  <2>6. slots \in 0..MaxClients
    BY <2>2, MaxClientsAssumption
  <2> QED BY <2>3, <2>4, <2>5, <2>6 DEF GcTypeOK
<1>4. \A s \in Socket : step[s] = "none" /\ override # s
  BY SocketAssumption, ClientTaskAssumption DEF Init, LearnInit
<1> QED BY <1>1, <1>3, <1>4 DEF GcInv, CallbackInv

LEMMA GcInvariant == Spec => [](GcInv /\ CallbackInv)
<1>1. Init => GcInv /\ CallbackInv
  BY GcStarts
<1>2. GcInv /\ CallbackInv /\ [Next]_allVars => (GcInv /\ CallbackInv)'
  BY GcPart
<1> QED BY <1>1, <1>2, PTL DEF Spec

-----------------------------------------------------------------------------
(* The learning screen                                                      *)

Holds(q, e) == \E i \in 1..Len(q) : q[i] = e

\* Each start in the queue has a stop behind it.
Closed(q) ==
  \A i \in 1..Len(q) : q[i] = "IR_LEARNING_START" =>
    \E j \in i+1..Len(q) : q[j] = "IR_LEARNING_STOP"

\* When no session is on, whatever the display knows or is going to hear of one is
\* followed by its end.
Over ==
  /\ Closed(news)
  /\ Closed(uiQueue) \/ Holds(news, "IR_LEARNING_STOP")
  /\ ui \in LearningUi => Holds(news, "IR_LEARNING_STOP") \/ Holds(uiQueue, "IR_LEARNING_STOP")

ScreenInv == learner # "waiting" \/ missed \/ Over

LEMMA AppendFacts ==
  ASSUME NEW S, NEW q \in Seq(S), NEW e \in S
  PROVE  /\ Closed(q) /\ e # "IR_LEARNING_START" => Closed(Append(q, e))
         /\ e = "IR_LEARNING_STOP" => Closed(Append(q, e)) /\ Holds(Append(q, e), e)
         /\ Holds(q, "IR_LEARNING_STOP") => Holds(Append(q, e), "IR_LEARNING_STOP")
<1> DEFINE r == Append(q, e)
<1>1. /\ Len(r) = Len(q) + 1 /\ Len(q) \in Nat /\ r[Len(r)] = e
      /\ \A i \in 1..Len(q) : r[i] = q[i]
  OBVIOUS
<1> HIDE DEF r
<1>2. \A x : Holds(q, x) => Holds(r, x)
  BY <1>1 DEF Holds
<1>3. Closed(q) /\ e # "IR_LEARNING_START" => Closed(r)
  <2> SUFFICES ASSUME Closed(q), e # "IR_LEARNING_START", NEW i \in 1..Len(r), r[i] = "IR_LEARNING_START"
               PROVE  \E j \in i+1..Len(r) : r[j] = "IR_LEARNING_STOP"
    BY DEF Closed
  <2>1. i \in 1..Len(q) /\ q[i] = "IR_LEARNING_START"
    BY <1>1
  <2>2. PICK j \in i+1..Len(q) : q[j] = "IR_LEARNING_STOP"
    BY <2>1 DEF Closed
  <2> QED BY <1>1, <2>1, <2>2
<1>4. e = "IR_LEARNING_STOP" => Closed(r) /\ Holds(r, e)
  BY <1>1 DEF Closed, Holds
<1> QED BY <1>2, <1>3, <1>4 DEF r

LEMMA TailFacts ==
  ASSUME NEW S, NEW q \in Seq(S), q # <<>>
  PROVE  /\ Closed(q) => Closed(Tail(q))
         /\ Closed(q) /\ Head(q) = "IR_LEARNING_START" => Holds(Tail(q), "IR_LEARNING_STOP")
         /\ \A x : Holds(q, x) /\ Head(q) # x => Holds(Tail(q), x)
<1> DEFINE r == Tail(q)
<1>1. /\ Len(q) = Len(r) + 1 /\ Len(r) \in Nat /\ Head(q) = q[1]
      /\ \A i \in 1..Len(r) : r[i] = q[i+1]
  OBVIOUS
<1> HIDE DEF r
<1>2. Closed(q) => Closed(r)
  <2> SUFFICES ASSUME Closed(q), NEW i \in 1..Len(r), r[i] = "IR_LEARNING_START"
               PROVE  \E j \in i+1..Len(r) : r[j] = "IR_LEARNING_STOP"
    BY DEF Closed
  <2>1. PICK j \in i+2..Len(q) : q[j] = "IR_LEARNING_STOP"
    BY <1>1 DEF Closed
  <2>2. j-1 \in i+1..Len(r) /\ r[j-1] = "IR_LEARNING_STOP"
    BY <1>1, <2>1
  <2> QED BY <2>2
<1>3. Closed(q) /\ Head(q) = "IR_LEARNING_START" => Holds(r, "IR_LEARNING_STOP")
  <2> SUFFICES ASSUME Closed(q), q[1] = "IR_LEARNING_START" PROVE Holds(r, "IR_LEARNING_STOP")
    BY <1>1
  <2>1. PICK j \in 2..Len(q) : q[j] = "IR_LEARNING_STOP"
    BY <1>1 DEF Closed
  <2>2. j-1 \in 1..Len(r) /\ r[j-1] = "IR_LEARNING_STOP"
    BY <1>1, <2>1
  <2> QED BY <2>2 DEF Holds
<1>4. ASSUME NEW x, Holds(q, x), Head(q) # x PROVE Holds(r, x)
  <2>1. PICK j \in 1..Len(q) : q[j] = x
    BY <1>4 DEF Holds
  <2>2. j # 1
    BY <1>1, <1>4, <2>1
  <2>3. j-1 \in 1..Len(r) /\ r[j-1] = x
    BY <1>1, <2>1, <2>2
  <2> QED BY <2>3 DEF Holds
<1> QED BY <1>2, <1>3, <1>4 DEF r

LEMMA FrontFacts ==
  ASSUME NEW S, NEW q \in Seq(S), NEW e \in S, e # "IR_LEARNING_START"
  PROVE  /\ Closed(q) => Closed(<<e>> \o q)
         /\ \A x : Holds(q, x) => Holds(<<e>> \o q, x)
<1> DEFINE r == <<e>> \o q
<1>1. /\ Len(r) = Len(q) + 1 /\ Len(q) \in Nat /\ r[1] = e
      /\ \A i \in 1..Len(q) : r[i+1] = q[i]
  <2>1. <<e>> \in Seq(S) /\ Len(<<e>>) = 1 /\ <<e>>[1] = e
    OBVIOUS
  <2> QED BY <2>1
<1> HIDE DEF r
<1>2. ASSUME NEW x, Holds(q, x) PROVE Holds(r, x)
  <2>1. PICK j \in 1..Len(q) : q[j] = x
    BY <1>2 DEF Holds
  <2>2. j+1 \in 1..Len(r) /\ r[j+1] = x
    BY <1>1, <2>1
  <2> QED BY <2>2 DEF Holds
<1>3. Closed(q) => Closed(r)
  <2> SUFFICES ASSUME Closed(q), NEW i \in 1..Len(r), r[i] = "IR_LEARNING_START"
               PROVE  \E j \in i+1..Len(r) : r[j] = "IR_LEARNING_STOP"
    BY DEF Closed
  <2>1. i-1 \in 1..Len(q) /\ q[i-1] = "IR_LEARNING_START"
    <3>1. i # 1
      BY <1>1
    <3>2. i-1 \in 1..Len(q) /\ r[(i-1)+1] = q[i-1]
      BY <1>1, <3>1
    <3> QED BY <3>2
  <2>2. PICK j \in i..Len(q) : q[j] = "IR_LEARNING_STOP"
    BY <2>1 DEF Closed
  <2>3. j+1 \in i+1..Len(r) /\ r[j+1] = "IR_LEARNING_STOP"
    BY <1>1, <2>1, <2>2
  <2> QED BY <2>3
<1> QED BY <1>2, <1>3 DEF r

LEMMA StopHandled == ASSUME NEW s \in LearningUi PROVE "IR_LEARNING_STOP" \in HandledIn(s)
<1>1. "IR_LEARNING_STOP" \in DOMAIN LearningTarget
  BY DEF LearningTarget
<1>2. "IR_LEARNING_STOP" \in HandledInside(s)
  <2>1. s # "BOOT_ANIMATION" /\ s \notin ConnectingUi
    BY DEF LearningUi, ConnectingUi
  <2>2. CASE s = "IR_LEARNED_OK"
    BY <1>1, <2>1, <2>2 DEF HandledInside, ConnectingUi, LearningUi, OtaUi, RunningUi, ImprovUi
  <2>3. CASE s \in LearningUi \ {"IR_LEARNED_OK"}
    BY <1>1, <2>1, <2>3 DEF HandledInside, ConnectingUi, LearningUi, OtaUi, RunningUi, ImprovUi
  <2> QED BY <2>2, <2>3
<1>3. s \notin {"RESET_COUNTDOWN", "FACTORY_RESET", "REBOOT"}
  BY DEF LearningUi
<1> QED BY <1>2, <1>3 DEF HandledIn

LEMMA LearningEntered ==
  ASSUME UiInv, Dispatch, ui' \in LearningUi
  PROVE  \/ Head(uiQueue) = "IR_LEARNING_START"
         \/ ui \in LearningUi /\ Head(uiQueue) # "IR_LEARNING_STOP"
<1>1. \A t : Goto(t) => ui' = t
  BY DEF Goto, Move
<1>2. history \notin LearningUi
  BY DEF UiInv, DisplayTypeOK, History, ConnectingUi, ImprovUi, LearningUi
<1>3. CASE Common
  BY <1>1, <1>3 DEF Common, GotoError, Move, LearningUi
<1>4. CASE Connecting
  <2>1. \E t \in {"CONNECTING", "RUNNING", "SHOW_CONNECTED", "SHOW_CONNECTING", "IMPROV_STARTED"} : ui' = t
    BY <1>1, <1>4, ConnectingTargets DEF Connecting, Follows
  <2> QED BY <2>1 DEF LearningUi
<1>5. CASE Learning
  <2>1. CASE Follows(LearningUi, LearningTarget)
    <3>1. PICK e \in DOMAIN LearningTarget : On(LearningUi, e) /\ ui' = LearningTarget[e]
      BY <1>1, <2>1 DEF Follows
    <3>2. LearningTarget["IR_LEARNING_STOP"] = "RUNNING"
      BY DEF LearningTarget
    <3> QED BY <3>1, <3>2 DEF On, LearningUi
  <2> QED BY <1>5, <2>1 DEF Learning, On, LearningUi
<1>6. CASE Ota
  BY <1>1, <1>6, OtaTargets DEF Ota, Follows, LearningUi
<1>7. CASE Running
  <2>1. CASE Follows(RunningUi, RunningTarget)
    <3>1. PICK e \in DOMAIN RunningTarget : Head(uiQueue) = e /\ ui' = RunningTarget[e]
      BY <1>1, <2>1 DEF Follows, On
    <3>2. e # "IR_LEARNING_START" => RunningTarget[e] \notin LearningUi
      BY DEF RunningTarget, LearningUi
    <3> QED BY <3>1, <3>2
  <2> QED BY <1>1, <1>7, <2>1 DEF Running, LearningUi
<1>8. CASE Improving
  BY <1>1, <1>8, ImprovTargets DEF Improving, Follows, ImprovUi, LearningUi
<1>9. CASE Countdown
  BY <1>1, <1>2, <1>9 DEF Countdown, Resume, Move, LearningUi
<1>10. CASE Unhandled
  BY <1>10, StopHandled DEF Unhandled, Stay, smUiVars
<1> QED BY <1>3, <1>4, <1>5, <1>6, <1>7, <1>8, <1>9, <1>10 DEF Dispatch

LEMMA DisplayKeepsOver ==
  ASSUME UiInv, Over, UiTask, news' = news
  PROVE  Over'
<1> DEFINE E == UiEvent \union {"TIMER"}
<1>0. uiQueue \in Seq(E)
  BY DEF UiInv, DisplayTypeOK
<1>1. CASE UNCHANGED <<ui, uiQueue>>
  BY <1>1 DEF Over
<1>2. CASE StateTimerExpires
  <2>1. ui' = ui /\ (uiQueue' = uiQueue \/ uiQueue' = <<"TIMER">> \o uiQueue)
    BY <1>2 DEF StateTimerExpires, AtFront
  <2>2. "TIMER" \in E /\ "TIMER" # "IR_LEARNING_START"
    OBVIOUS
  <2> QED BY <1>0, <2>1, <2>2, FrontFacts DEF Over
<1>3. CASE DoHandler
  <2>1. uiQueue' = uiQueue /\ ui' \in {"RUNNING", "REBOOT", history}
    BY <1>3 DEF DoHandler, Goto, Move
  <2>2. ui' \notin LearningUi
    BY <2>1 DEF UiInv, DisplayTypeOK, History, ConnectingUi, ImprovUi, LearningUi
  <2> QED BY <2>1, <2>2 DEF Over
<1>4. CASE Dispatch
  <2>1. uiQueue # <<>> /\ uiQueue' = Tail(uiQueue)
    BY <1>4 DEF Dispatch
  <2>2. Closed(uiQueue') \/ Holds(news, "IR_LEARNING_STOP")
    BY <1>0, <2>1, TailFacts DEF Over
  <2>3. ui' \in LearningUi => Holds(news, "IR_LEARNING_STOP") \/ Holds(uiQueue', "IR_LEARNING_STOP")
    BY <1>0, <1>4, <2>1, TailFacts, LearningEntered DEF Over
  <2> QED BY <2>2, <2>3 DEF Over
<1> QED BY <1>1, <1>2, <1>3, <1>4 DEF UiTask, DisplayStops, DisplayRuns, Poll, DismissError, ResetPosted,
           LearningStopped, uiVars, smUiVars

LEMMA DeliveryKeepsOver ==
  ASSUME UiInv, NewsOK, Over, Dispatches, ui' = ui, ~missed'
  PROVE  Over'
<1> DEFINE E == UiEvent \union {"TIMER"}
<1>0. uiQueue \in Seq(E) /\ UiEvent \subseteq E
  BY DEF UiInv, DisplayTypeOK
<1> HIDE DEF E
<1>1. CASE news' = news /\ \E e \in Inputs : Deliver(e)
  <2>1. PICK e \in Inputs : Deliver(e)
    BY <1>1
  <2>2. e \in E /\ e # "IR_LEARNING_START"
    BY <1>0, UiAssumption, NewsAssumption DEF News
  <2>3. uiQueue' = uiQueue \/ uiQueue' = Append(uiQueue, e)
    BY <2>1 DEF Deliver, Enqueue, Drop
  <2>4. /\ Closed(uiQueue) => Closed(uiQueue')
        /\ Holds(uiQueue, "IR_LEARNING_STOP") => Holds(uiQueue', "IR_LEARNING_STOP")
    BY <1>0, <2>2, <2>3, AppendFacts
  <2> QED BY <1>1, <2>4 DEF Over
<1>2. CASE news # <<>> /\ Deliver(Head(news)) /\ news' = Tail(news) /\ (Head(news) = "IR_LEARNING_STOP" => uiQueue' # uiQueue)
  <2> DEFINE e == Head(news)
  <2>1. e \in News /\ e \in E
    BY <1>0, <1>2, NewsAreEvents DEF NewsOK
  <2>2. uiQueue' = uiQueue \/ uiQueue' = Append(uiQueue, e)
    BY <1>2 DEF Deliver, Enqueue, Drop
  <2>3. /\ Closed(news')
        /\ e = "IR_LEARNING_START" => Holds(news', "IR_LEARNING_STOP")
        /\ Holds(news, "IR_LEARNING_STOP") /\ e # "IR_LEARNING_STOP" => Holds(news', "IR_LEARNING_STOP")
    BY <1>2, TailFacts DEF NewsOK, Over
  <2>4. CASE e = "IR_LEARNING_STOP"
    <3>1. uiQueue' = Append(uiQueue, "IR_LEARNING_STOP")
      BY <1>2, <2>2, <2>4
    <3>2. Closed(uiQueue') /\ Holds(uiQueue', "IR_LEARNING_STOP")
      BY <1>0, <2>1, <2>4, <3>1, AppendFacts
    <3> QED BY <2>3, <3>2 DEF Over
  <2>5. CASE e = "IR_LEARNING_START"
    BY <2>3, <2>5 DEF Over
  <2>6. CASE e # "IR_LEARNING_START" /\ e # "IR_LEARNING_STOP"
    <3>1. Closed(uiQueue) => Closed(uiQueue')
      BY <1>0, <2>1, <2>2, <2>6, AppendFacts
    <3>2. Holds(uiQueue, "IR_LEARNING_STOP") => Holds(uiQueue', "IR_LEARNING_STOP")
      BY <1>0, <2>1, <2>2, AppendFacts
    <3> QED BY <2>3, <2>6, <3>1, <3>2 DEF Over
  <2> QED BY <2>4, <2>5, <2>6
<1> QED BY <1>1, <1>2 DEF Dispatches

LEMMA ScreenStep ==
  ASSUME UiInv, NewsOK, ScreenInv, [Next]_allVars
  PROVE  ScreenInv'
<1>1. CASE LearnTask
  <2>1. CASE Retires /\ Posts("IR_LEARNING_STOP")
    <3>1. CASE missed'
      BY <3>1 DEF ScreenInv
    <3>2. CASE ~missed'
      <4>1. UNCHANGED <<ui, uiQueue>>
        BY <1>1 DEF LearnTask, smUiVars
      <4>2. news' = Append(news, "IR_LEARNING_STOP")
        BY <2>1, <3>2 DEF Posts, MissedAfter
      <4>3. Closed(news') /\ Holds(news', "IR_LEARNING_STOP")
        BY <4>2, NewsAreEvents, AppendFacts DEF NewsOK
      <4> QED BY <4>1, <4>3 DEF ScreenInv, Over
    <3> QED BY <3>1, <3>2
  <2>2. CASE \/ Wakes \/ Checks \/ Hears \/ Delivers \/ CallsBack
             \/ Decodes(TRUE) \/ Decodes(FALSE)
    BY <2>2 DEF Wakes, Checks, Hears, Delivers, CallsBack, Decodes, Reaches, ScreenInv
  <2> QED BY <1>1, <2>1, <2>2 DEF LearnTask
<1>2. CASE WsClients \/ GcClients \/ Others \/ UNCHANGED allVars
  <2>1. UNCHANGED <<learner, missed, news, ui, uiQueue>>
    <3>1. CASE WsClients
      BY <3>1 DEF WsClients, StartFormat, ClearBits, SetBits, Forget, learnerVars, uiVars, smUiVars
    <3>2. CASE GcClients
      <4>1. GcServerTask => learner' = learner
        BY DEF GcServerTask, TakeSlot, Accept, NotAccepted, learnVars, learnerVars
      <4>2. ASSUME NEW s \in Socket, GcClientTask(s) PROVE learner' = learner
        BY <4>2 DEF GcClientTask, Receives, Stops, GetsCodes, Closes, StartOverride, ClearBits, SetBits, Forget, learnVars, learnerVars
      <4> QED BY <3>2, <4>1, <4>2 DEF GcClients, uiVars, smUiVars
    <3>3. CASE Others
      BY <3>3 DEF Others, Raise, learnVars, learnerVars, smUiVars
    <3>4. CASE UNCHANGED allVars
      BY <3>4 DEF allVars, uiVars, smUiVars, learnVars, learnerVars
    <3> QED BY <1>2, <3>1, <3>2, <3>3, <3>4
  <2> QED BY <2>1 DEF ScreenInv, Over
<1>3. CASE Dispatches
  <2>1. UNCHANGED <<learner, ui>>
    BY <1>3 DEF Dispatches, Deliver, learnVars, learnerVars, smUiVars
  <2>2. missed => missed'
    BY <1>3 DEF Dispatches
  <2> QED BY <1>3, <2>1, <2>2, DeliveryKeepsOver DEF ScreenInv
<1>4. CASE UiTask
  <2>1. UNCHANGED <<learner, news, missed>>
    BY <1>4 DEF UiTask, DisplayStops, ClearBits, Forget, learnVars, learnerVars
  <2> QED BY <1>4, <2>1, DisplayKeepsOver DEF ScreenInv
<1> QED BY <1>1, <1>2, <1>3, <1>4 DEF Next, Aborted

-----------------------------------------------------------------------------
(* The theorems                                                             *)

\* The display's variables keep their types, whatever events it is asked to pass on.
THEOREM DisplayTyped == DisplaySpec => []DisplayTypeOK
<1>1. DisplayNext => DisplayStep
  BY DEF DisplayStep
<1>2. UiInv => DisplayTypeOK
  BY DEF UiInv
<1> QED BY <1>1, <1>2, DisplayInvariant, PTL DEF DisplaySpec

\* A state that is to end by itself has its timer running, queued, or known to be lost.
THEOREM DisplayWaits == DisplaySpec => []WaitWatched
<1>1. DisplayNext => DisplayStep
  BY DEF DisplayStep
<1>2. UiInv => WaitWatched
  BY DEF UiInv
<1> QED BY <1>1, <1>2, DisplayInvariant, PTL DEF DisplaySpec

\* When no error is shown, the display shows the screen of its state.
THEOREM DisplayShows == DisplaySpec => []ScreenOfState
<1>1. DisplayNext => DisplayStep
  BY DEF DisplayStep
<1> QED BY <1>1, ScreenFollows, DisplayInvariant, PTL DEF DisplaySpec

\* An error that is not fatal has the one timer that dismisses it.
THEOREM ErrorsAreDismissed == DisplaySpec => []ErrorDismissed
<1>1. DisplayNext => DisplayStep
  BY DEF DisplayStep
<1>2. UiInv => ErrorDismissed
  BY DEF UiInv, ErrorOK
<1> QED BY <1>1, <1>2, DisplayInvariant, PTL DEF DisplaySpec

\* All this holds as well with the learn task, its events, and a display that stops it.
THEOREM DisplayInDock == Spec => [](WaitWatched /\ ScreenOfState /\ ErrorDismissed)
<1>1. UiInv => WaitWatched /\ ScreenOfState /\ ErrorDismissed
  BY ScreenFollows DEF UiInv, ErrorOK
<1> QED BY <1>1, DockDisplay, PTL

\* For any number of clients and slots, no slot is lost or made up.
THEOREM SlotsAreConserved == Spec => []SlotsConserved
<1>1. GcInv => SlotsConserved
  BY DEF GcInv
<1> QED BY <1>1, GcInvariant, PTL

\* The callback is that of a client that asked for it, or is about to be forgotten.
THEOREM CallbackIsOwned == Spec => []CallbackOwned
<1>1. CallbackInv => CallbackOwned
  BY DEF CallbackInv, CallbackOwned, Forgetting
<1> QED BY <1>1, GcInvariant, PTL

\* The learning screen ends with learning, unless the event that says so is lost.
THEOREM LearningScreenEnds == Spec => []LearnScreenEnds
<1>1. Spec => []NewsOK
  <2>1. Init => NewsOK
    BY NewsStart
  <2>2. NewsOK /\ [Next]_allVars => NewsOK'
    BY DisplayPart
  <2> QED BY <2>1, <2>2, PTL DEF Spec
<1>2. Init => ScreenInv
  BY DEF Init, DisplayInit, ScreenInv, Over, Closed, LearningUi
<1>3. UiInv /\ NewsOK /\ ScreenInv /\ [Next]_allVars => ScreenInv'
  BY ScreenStep
<1>4. ScreenInv => LearnScreenEnds
  BY DEF ScreenInv, Over, Holds, LearnScreenEnds, Coming
<1> QED BY <1>1, <1>2, <1>3, <1>4, DockDisplay, PTL DEF Spec
=============================================================================
