------------------------------ MODULE DockLearn ------------------------------
(***************************************************************************)
(* Infrared learning with everybody who starts, stops and watches it: the  *)
(* WebSocket commands ir_receive_on and ir_receive_off (main/ucd_api.cpp),  *)
(* the clients of the GlobalCache server, and the display, which learns of  *)
(* it by events and stops it when it leaves the learning screen.            *)
(***************************************************************************)
EXTENDS Display, GcServer

CONSTANTS
  Httpd,      \* the HTTP server task
  TimerTask   \* the FreeRTOS timer task, which runs the display

ASSUME LearnTaskAssumption ==
  /\ Task = Socket \union {Httpd, TimerTask}
  /\ Socket \intersect {Httpd, TimerTask} = {} /\ Httpd # TimerTask

VARIABLES
  news,       \* the events of the learn task that wait in the default event loop
  missed      \* was the IR_LEARNING_STOP of the last session lost?

allVars == <<uiVars, learnVars, gcVars, news, missed>>

News == {"IR_LEARNING_START", "IR_LEARNING_OK", "IR_LEARNING_FAILED", "IR_LEARNING_STOP"}

\* Nobody else posts these.
ASSUME NewsAssumption == Inputs \intersect News = {}

Init == DisplayInit /\ LearnInit /\ GcInit /\ news = <<>> /\ missed = FALSE

-----------------------------------------------------------------------------
\* esp_event_post() of the learn task: without room for 500 ms the event is lost.
MissedAfter(e, gone) == IF e = "IR_LEARNING_STOP" THEN gone ELSE missed /\ e # "IR_LEARNING_START"

Posts(e) ==
  \/ /\ loop < LoopLength /\ loop' = loop + 1
     /\ news' = Append(news, e) /\ missed' = MissedAfter(e, FALSE)
  \/ /\ loop = LoopLength /\ UNCHANGED <<loop, news>>
     /\ missed' = MissedAfter(e, TRUE)

Quietly == UNCHANGED <<loop, news, missed>>

LearnTask ==
  /\ \/ Wakes /\ Posts("IR_LEARNING_START")
     \/ (Checks \/ Hears \/ Delivers \/ CallsBack) /\ Quietly
     \/ Decodes(TRUE) /\ Posts("IR_LEARNING_OK")
     \/ Decodes(FALSE) /\ Posts("IR_LEARNING_FAILED")
     \/ Retires /\ Posts("IR_LEARNING_STOP")
  /\ UNCHANGED <<smUiVars, uiQueue, lost, gcVars>>

\* The commands of WebSocket clients, one at a time.
WsClients ==
  /\ \/ \E raw \in BOOLEAN : StartFormat(Httpd, raw)
     \/ step[Httpd] = "none" /\ ClearBits(Httpd)
     \/ SetBits(Httpd) \/ Forget(Httpd)
  /\ UNCHANGED <<uiVars, gcVars, news, missed>>

GcClients ==
  /\ GcServerTask \/ \E s \in Socket : GcClientTask(s)
  /\ UNCHANGED <<uiVars, news, missed>>

\* The event loop passes the events on in their order.
Dispatches ==
  /\ \/ /\ loop > Len(news) /\ \E e \in Inputs : Deliver(e)
        /\ UNCHANGED <<news, missed>>
     \/ /\ news # <<>> /\ Deliver(Head(news))
        /\ news' = Tail(news)
        /\ missed' = (missed \/ (Head(news) = "IR_LEARNING_STOP" /\ uiQueue' = uiQueue))
  /\ UNCHANGED <<learnVars, gcVars>>

\* stopIrLearning(), called by the display, is stopIrLearn().
DisplayStops ==
  \/ /\ stopping /\ step[TimerTask] = "none"
     /\ ClearBits(TimerTask) /\ UNCHANGED uiVars
  \/ Forget(TimerTask) /\ LearningStopped

DisplayRuns == StateTimerExpires \/ DismissError \/ Poll \/ ResetPosted

UiTask ==
  /\ \/ DisplayStops
     \/ DisplayRuns /\ UNCHANGED learnVars
  /\ UNCHANGED <<gcVars, news, missed>>

Others == Raise /\ UNCHANGED <<learnVars, gcVars, news, missed>>

\* After abort() the dock restarts: there is nothing left to say before Init.
Aborted == aborted /\ UNCHANGED allVars

Next ==
  \/ ~aborted /\ (LearnTask \/ WsClients \/ GcClients \/ Dispatches \/ UiTask \/ Others)
  \/ Aborted

Spec == Init /\ [][Next]_allVars

-----------------------------------------------------------------------------
(* Properties                                                               *)

Coming(e) == \E q \in {news, uiQueue} : \E i \in 1..Len(q) : q[i] = e

\* The learning screen does not outlive learning: while it is shown, the learn task is in
\* a session, or the end of the session is on its way to the display, behind whatever
\* commands, buttons and errors there were.  Only an event lost to a full queue breaks this.
LearnScreenEnds ==
  ui \in LearningUi => learner # "waiting" \/ Coming("IR_LEARNING_STOP") \/ missed
=============================================================================
