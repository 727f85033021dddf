------------------------------- MODULE IrLearn -------------------------------
(***************************************************************************)
(* Infrared learning (components/infrared/service_ir.cpp): startIrLearn()  *)
(* and stopIrLearn(), which any task may call, and the learn task.          *)
(*                                                                         *)
(* A call is two writes, to the callback and to the bits of the event       *)
(* group, and nothing keeps other calls out in between.  The learn task     *)
(* reads both whenever it comes by.                                         *)
(***************************************************************************)
CONSTANTS
  Task,       \* the tasks that start and stop learning
  Socket,     \* the sockets of the GlobalCache server
  NoSocket

ASSUME SocketAssumption == NoSocket \notin Socket

VARIABLES
  learning,   \* IR_LEARNING_BIT
  rawBit,     \* IR_LEARNING_RAW_BIT
  override,   \* m_callbackOverride: the socket its callback writes to
  step,       \* what is left to do of the call a task is in
  learner,    \* where the learn task is
  rawMode,    \* its local raw_mode
  aborted     \* has an empty callback been called?

bitVars     == <<learning, rawBit>>
learnerVars == <<learner, rawMode, aborted>>
learnVars   == <<bitVars, override, step, learnerVars>>

LearnTypeOK ==
  /\ {learning, rawBit, rawMode, aborted} \subseteq BOOLEAN
  /\ override \in Socket \union {NoSocket}
  /\ step \in [Task -> {"none", "set", "setRaw", "clear", "forget"}]
  /\ learner \in {"waiting", "check", "listen", "deliver", "callback"}

LearnInit ==
  /\ learning = FALSE /\ rawBit = FALSE /\ override = NoSocket
  /\ step = [t \in Task |-> "none"]
  /\ learner = "waiting" /\ rawMode = FALSE /\ aborted = FALSE

Goes(t, s) == step' = [step EXCEPT ![t] = s]

\* startIrLearn(irFormat), startIrLearn(callbackOverride): first the callback ...
StartFormat(t, raw) ==
  /\ step[t] = "none"
  /\ override' = NoSocket
  /\ Goes(t, IF raw THEN "setRaw" ELSE "set")
  /\ UNCHANGED <<bitVars, learnerVars>>

StartOverride(t, socket) ==
  /\ step[t] = "none"
  /\ override' = socket
  /\ Goes(t, "setRaw")
  /\ UNCHANGED <<bitVars, learnerVars>>

\* ... then the bits.  The raw bit of an earlier call is left set.
SetBits(t) ==
  /\ step[t] \in {"set", "setRaw"}
  /\ learning' = TRUE /\ rawBit' = (rawBit \/ step[t] = "setRaw")
  /\ Goes(t, "none")
  /\ UNCHANGED <<override, learnerVars>>

\* stopIrLearn(): first the bits, then the callback.
ClearBits(t) ==
  /\ learning' = FALSE /\ rawBit' = FALSE
  /\ Goes(t, "forget")
  /\ UNCHANGED <<override, learnerVars>>

Forget(t) ==
  /\ step[t] = "forget"
  /\ override' = NoSocket
  /\ Goes(t, "none")
  /\ UNCHANGED <<bitVars, learnerVars>>

-----------------------------------------------------------------------------
(* The learn task.  Its posts to the event loop give up after 500 ms.       *)

Reaches(pc) == learner' = pc /\ UNCHANGED <<bitVars, override, step>>

\* IR_LEARNING_BIT is set: raw_mode is read with it, and UC_EVENT_IR_LEARNING_START posted.
Wakes ==
  /\ learner = "waiting" /\ learning
  /\ rawMode' = rawBit
  /\ Reaches("check") /\ UNCHANGED aborted

Checks ==
  /\ learner = "check" /\ learning
  /\ Reaches("listen") /\ UNCHANGED <<rawMode, aborted>>

\* The bit is clear: UC_EVENT_IR_LEARNING_STOP is posted.
Retires ==
  /\ learner = "check" /\ ~learning
  /\ Reaches("waiting") /\ UNCHANGED <<rawMode, aborted>>

\* Nothing was received in these 20 ms.
Hears == learner = "listen" /\ Reaches("check") /\ UNCHANGED <<rawMode, aborted>>

\* A code was decoded (UC_EVENT_IR_LEARNING_OK) or it was not (_FAIL), which only raw
\* mode passes on.
Decodes(ok) ==
  /\ learner = "listen"
  /\ Reaches(IF ok \/ rawMode THEN "deliver" ELSE "check")
  /\ UNCHANGED <<rawMode, aborted>>

\* Without a callback the code is broadcast.
Delivers ==
  /\ learner = "deliver"
  /\ Reaches(IF override = NoSocket THEN "check" ELSE "callback")
  /\ UNCHANGED <<rawMode, aborted>>

\* The callback is read a second time: by then there may be none, and abort() is called.
CallsBack ==
  /\ learner = "callback"
  /\ aborted' = (override = NoSocket)
  /\ Reaches("check") /\ UNCHANGED rawMode
=============================================================================
