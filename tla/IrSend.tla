------------------------------- MODULE IrSend -------------------------------
(***************************************************************************)
(* The sending half of the infrared service                                *)
(* (components/infrared/service_ir.cpp).                                   *)
(*                                                                         *)
(* Callers (the HTTP server task, one task per GlobalCache socket, the     *)
(* event loop task) run send() and stopSend() in their own context.  They  *)
(* share with the "IR send" task a FreeRTOS queue of length one, two event *)
(* bits and the std::string m_currentSendCode.  No lock protects them, so  *)
(* a step of the model is one access to shared state: pc[t] is the next    *)
(* access task t makes.                                                    *)
(*                                                                         *)
(* Time is counted in frames: the IR library asks the repeat callback      *)
(* between two frames, and a frame always takes longer than the one        *)
(* millisecond a stopped hold is cut down to.                              *)
(***************************************************************************)
EXTENDS Naturals, Sequences

CONSTANTS
  Sender,      \* the tasks that call send()
  Task,        \* the tasks that call stopSend(), the senders among them
  Code,        \* the IR codes
  BadCode,     \* the codes whose text does not parse
  MinRepeats,  \* IRsend::minRepeats() of the protocol of a code
  Embedded,    \* the frames that follow the first one of a single send: the
               \* repeat field of a code or the minimum repeats of its protocol
  Request,     \* what clients ask for
  MaxRepeat,   \* MAX_REPEAT, 20 in the code
  MaxCalls,    \* bound: send() is called this often
  None         \* no code, no message

RequestType == [code : Code, repeat : Nat, hold : Nat, valid : BOOLEAN, output : BOOLEAN]

ASSUME TaskAssumption == Sender \subseteq Task
ASSUME CodeAssumption == /\ BadCode \subseteq Code
                         /\ MinRepeats \in [Code -> Nat]
                         /\ Embedded \in [Code -> Nat]
ASSUME RequestAssumption == Request \subseteq RequestType
ASSUME MaxRepeatAssumption == MaxRepeat \in Nat \ {0}
ASSUME MaxCallsAssumption == MaxCalls \in Nat
ASSUME NoneAssumption == /\ None \notin Code
                         /\ None \notin [id : Nat, rq : RequestType]
                         /\ None \notin Nat

VARIABLES
  learning,    \* IR_LEARNING_BIT
  queue,       \* m_queue: the messages in it, at most QueueDepth
  repeatBit,   \* IR_REPEAT_BIT
  stopBit,     \* IR_REPEAT_STOP_BIT
  currentCode, \* m_currentSendCode
  pc,          \* where each calling task is in send() or stopSend()
  call,        \* the arguments of each task's send(), with their message id
  result,      \* what the last finished call of each task returned
  spc,         \* where the send task is in send_ir_f
  cur,         \* pIrMsg
  repeat,      \* remaining repeats
  limit,       \* repeatLimit
  hold,        \* holdTimeLimit
  elapsed,     \* frames since startSendTimer.reset()
  rest,        \* frames the IR library still sends without asking anybody
  replies,     \* history: the asynchronous answers sent, as [id, code]
  accepted,    \* history: the message ids put on the queue
  calls,       \* number of send() calls made
  stopped,     \* history: stopSend() ran while the queued message was there
  overrun,     \* history: frames sent since then (up to 2)
  cleared      \* history: a send() took the stop bit away again

callerVars  == <<pc, call, result, calls>>
bitVars     == <<repeatBit, stopBit>>
txVars      == <<spc, cur, repeat, limit, hold, elapsed, rest>>
stopHistory == <<stopped, overrun, cleared>>
historyVars == <<replies, accepted, stopHistory>>
vars == <<learning, queue, currentCode, bitVars, callerVars, txVars, historyVars>>

Message == [id : 1..MaxCalls, rq : RequestType]

TypeOK ==
  /\ learning \in BOOLEAN
  /\ queue \in Seq(Message)
  /\ repeatBit \in BOOLEAN
  /\ stopBit \in BOOLEAN
  /\ currentCode \in Code \union {None}
  /\ pc \in [Task -> {"idle", "sending?", "compare", "extend", "clear", "enqueue",
                      "record", "stop", "returned"}]
  /\ call \in [Task -> Message \union {None}]
  /\ result \in [Task -> {0, 200, 202, 400, 429, 503}]
  /\ spc \in {"peek", "frame", "callback", "rearm", "decide", "reply", "release", "rebooting"}
  /\ cur \in Message \union {None}
  /\ repeat \in 0..MaxRepeat
  /\ limit \in 0..MaxRepeat
  /\ hold \in Nat
  /\ elapsed \in Nat
  /\ rest \in Nat
  /\ replies \subseteq [id : 1..MaxCalls, code : {200, 400}]
  /\ accepted \subseteq 1..MaxCalls
  /\ calls \in 0..MaxCalls
  /\ stopped \in BOOLEAN
  /\ overrun \in 0..2
  /\ cleared \in BOOLEAN

Init ==
  /\ learning = FALSE
  /\ queue = <<>>
  /\ repeatBit = FALSE /\ stopBit = FALSE
  /\ currentCode = None
  /\ pc = [t \in Task |-> "idle"]
  /\ call = [t \in Task |-> None]
  /\ result = [t \in Task |-> 200]
  /\ spc = "peek" /\ cur = None
  /\ repeat = 0 /\ limit = 0 /\ hold = 0 /\ elapsed = 0 /\ rest = 0
  /\ replies = {} /\ accepted = {} /\ calls = 0
  /\ stopped = FALSE /\ overrun = 0 /\ cleared = FALSE

-----------------------------------------------------------------------------
(* send() and stopSend(), in the context of the calling task               *)

Goto(t, l) == pc' = [pc EXCEPT ![t] = l]

ReturnWith(t, code) == /\ Goto(t, "returned")
                       /\ result' = [result EXCEPT ![t] = code]

\* MAX_REPEAT caps what the client asked for.
MutantNoCap(n) == n
Cap(n) == IF n > MaxRepeat THEN MaxRepeat ELSE n

Capped(r) == [code |-> r.code, repeat |-> Cap(r.repeat), hold |-> r.hold,
              valid |-> r.valid, output |-> r.output]

\* send() is entered: it refuses while learning or on an unknown format.
Call(t, r) ==
  /\ pc[t] = "idle"
  /\ calls < MaxCalls
  /\ calls' = calls + 1
  /\ call' = [call EXCEPT ![t] = [id |-> calls + 1, rq |-> Capped(r)]]
  /\ \/ learning /\ ReturnWith(t, 503)
     \/ ~learning /\ ~r.valid /\ ReturnWith(t, 400)
     \/ ~learning /\ r.valid /\ Goto(t, "sending?") /\ UNCHANGED result
  /\ UNCHANGED <<learning, queue, currentCode, bitVars, txVars, historyVars>>

\* uxQueueMessagesWaiting: decides between a new and a matching request.
Sending == queue # <<>>

CheckSending(t) ==
  /\ pc[t] = "sending?"
  /\ LET rq == call[t].rq IN
       \/ Sending /\ rq.repeat > 0 /\ Goto(t, "compare") /\ UNCHANGED result
       \/ Sending /\ rq.repeat = 0 /\ ReturnWith(t, 429)
       \/ ~Sending /\ ~rq.output /\ ReturnWith(t, 400)
       \/ ~Sending /\ rq.output /\ Goto(t, "clear") /\ UNCHANGED result
  /\ UNCHANGED <<call, calls, learning, queue, currentCode, bitVars, txVars, historyVars>>

\* m_currentSendCode is a plain std::string: while another task assigns it,
\* what is compared is the old text, the new one, or a mixture that is no code.
Assigning(t) == {u \in Task \ {t} : pc[u] = "record"}

MatchOutcomes(t) ==
  LET Same(code) == code = call[t].rq.code
  IN {Same(currentCode)} \union
       UNION {{FALSE, Same(call[u].rq.code)} : u \in Assigning(t)}

CompareCode(t) ==
  /\ pc[t] = "compare"
  /\ \E match \in MatchOutcomes(t) :
       \/ match /\ Goto(t, "extend") /\ UNCHANGED result
       \/ ~match /\ ReturnWith(t, 429)
  /\ UNCHANGED <<call, calls, learning, queue, currentCode, bitVars, txVars, historyVars>>

Extend(t) ==
  /\ pc[t] = "extend"
  /\ repeatBit' = TRUE
  /\ ReturnWith(t, 202)
  /\ UNCHANGED <<call, calls, learning, queue, currentCode, stopBit, txVars, historyVars>>

\* The queue was empty when the task looked: by now it may hold the message of
\* another sender, and stopBit the stop that is meant for it.
ClearBits(t) ==
  /\ pc[t] = "clear"
  /\ repeatBit' = FALSE
  /\ stopBit' = FALSE
  /\ cleared' = (cleared \/ stopped)
  /\ Goto(t, "enqueue")
  /\ UNCHANGED <<call, result, calls, learning, queue, currentCode, txVars,
                 replies, accepted, stopped, overrun>>

\* xQueueCreate(1, ...)
MutantDepth == 2
QueueDepth == 1

Enqueue(t) ==
  /\ pc[t] = "enqueue"
  /\ \/ /\ Len(queue) < QueueDepth
        /\ queue' = Append(queue, call[t])
        /\ accepted' = accepted \union {call[t].id}
        /\ Goto(t, "record") /\ UNCHANGED result
     \/ /\ Len(queue) >= QueueDepth
        /\ ReturnWith(t, 429)
        /\ UNCHANGED <<queue, accepted>>
  /\ UNCHANGED <<call, calls, learning, currentCode, bitVars, txVars, replies, stopHistory>>

\* Only now, with the message already visible to the send task, is its code
\* recorded.
RecordCode(t) ==
  /\ pc[t] = "record"
  /\ currentCode' = call[t].rq.code
  /\ ReturnWith(t, 0)
  /\ UNCHANGED <<call, calls, learning, queue, bitVars, txVars, historyVars>>

SetStop(t) ==
  /\ pc[t] = "idle"
  /\ stopBit' = TRUE
  /\ stopped' = (queue # <<>>)
  /\ Goto(t, "stop")
  /\ UNCHANGED <<call, result, calls, learning, queue, currentCode, repeatBit, txVars,
                 replies, accepted, overrun, cleared>>

ClearRepeat(t) ==
  /\ pc[t] = "stop"
  /\ repeatBit' = FALSE
  /\ ReturnWith(t, 200)
  /\ UNCHANGED <<call, calls, learning, queue, currentCode, stopBit, txVars, historyVars>>

\* The caller takes the result and is free for its next request.  The locals
\* of the call are dead: they are reset to keep the state space small.
Return(t) ==
  /\ pc[t] = "returned"
  /\ Goto(t, "idle")
  /\ call' = [call EXCEPT ![t] = None]
  /\ result' = [result EXCEPT ![t] = 200]
  /\ UNCHANGED <<calls, learning, queue, currentCode, bitVars, txVars, historyVars>>

\* startIrLearn and stopIrLearn, from any client at any time: nothing in
\* them looks at a transmission in progress.
SetLearning(t, on) ==
  /\ pc[t] = "idle"
  /\ learning # on
  /\ learning' = on
  /\ UNCHANGED <<queue, currentCode, bitVars, callerVars, txVars, historyVars>>

-----------------------------------------------------------------------------
(* send_ir_f, the "IR send" task                                           *)

\* A hold needs the repeat callback, which needs a repeat count.
Promoted(rq) == IF rq.hold > 0 /\ rq.repeat = 0 THEN 1 ELSE rq.repeat

\* Protocols that need several frames per command extend by more of them.
RepeatLimit(rq) == IF MinRepeats[rq.code] > 1 THEN Cap(Promoted(rq) * MinRepeats[rq.code])
                                              ELSE Promoted(rq)

HasCallback == Promoted(cur.rq) > 0

\* Without the callback the code says how often it is sent.
Uncontrolled(rq) == IF Promoted(rq) > 0 THEN 0 ELSE Embedded[rq.code]

\* The message is peeked, not received: it stays on the queue, which keeps
\* send() from accepting another one.
MutantReceived == Tail(queue)
Peeked == queue

Peek ==
  /\ spc = "peek"
  /\ queue # <<>>
  /\ queue' = Peeked
  /\ LET rq == Head(queue).rq IN
       /\ cur' = Head(queue)
       /\ repeat' = Promoted(rq)
       /\ limit' = RepeatLimit(rq)
       /\ hold' = rq.hold
       /\ rest' = Uncontrolled(rq)
       /\ spc' = IF rq.code \in BadCode THEN "reply" ELSE "frame"
  /\ elapsed' = 0
  /\ UNCHANGED <<learning, currentCode, bitVars, callerVars, historyVars>>

\* Parsing a PRONTO or GlobalCache code can fail to allocate: rebootIfMemError.
OutOfMemory ==
  /\ spc = "peek"
  /\ queue # <<>>
  /\ spc' = "rebooting"
  /\ UNCHANGED <<learning, queue, currentCode, bitVars, callerVars, historyVars,
                 cur, repeat, limit, hold, elapsed, rest>>

\* The IR library transmits one frame, and asks the callback for the next if
\* there is one.
Frame ==
  /\ spc = "frame"
  /\ elapsed' = elapsed + 1
  /\ overrun' = IF stopped /\ overrun < 2 THEN overrun + 1 ELSE overrun
  /\ \/ HasCallback /\ spc' = "callback" /\ UNCHANGED rest
     \/ ~HasCallback /\ rest > 0 /\ rest' = rest - 1 /\ UNCHANGED spc
     \/ ~HasCallback /\ rest = 0 /\ spc' = "reply" /\ UNCHANGED rest
  /\ UNCHANGED <<learning, queue, currentCode, bitVars, callerVars,
                 cur, repeat, limit, hold, replies, accepted, stopped, cleared>>

\* A stop wins over a matching request.
MutantRepeatFirst == stopBit /\ ~repeatBit
StopSeen == stopBit

\* repeatCallback between two frames, up to the read of the event bits and
\* what it changes in the lambda's captured variables.
Callback ==
  /\ spc = "callback"
  /\ \/ /\ StopSeen
        /\ repeat' = 0
        /\ hold' = IF hold > 0 THEN 1 ELSE hold
        /\ spc' = "decide"
        /\ UNCHANGED elapsed
     \/ /\ ~StopSeen /\ repeatBit
        /\ repeat' = limit
        /\ elapsed' = 0
        /\ spc' = "rearm"
        /\ UNCHANGED hold
     \/ /\ ~StopSeen /\ ~repeatBit
        /\ spc' = "decide"
        /\ UNCHANGED <<repeat, hold, elapsed>>
  /\ UNCHANGED <<learning, queue, currentCode, bitVars, callerVars, cur, limit, rest, historyVars>>

\* The callback acknowledges the request it has just acted on.
MutantAck == repeatBit
Acknowledged == FALSE

Rearm ==
  /\ spc = "rearm"
  /\ repeatBit' = Acknowledged
  /\ spc' = "decide"
  /\ UNCHANGED <<learning, queue, currentCode, stopBit, callerVars, historyVars,
                 cur, repeat, limit, hold, elapsed, rest>>

\* repeatCallback's return value: another frame, or the end of the sequence.
Decide ==
  /\ spc = "decide"
  /\ \/ /\ hold > 0
        /\ spc' = IF elapsed < hold THEN "frame" ELSE "reply"
        /\ UNCHANGED repeat
     \/ /\ hold = 0 /\ repeat > 0
        /\ repeat' = repeat - 1
        /\ spc' = "frame"
     \/ /\ hold = 0 /\ repeat = 0
        /\ spc' = "reply"
        /\ UNCHANGED repeat
  /\ UNCHANGED <<learning, queue, currentCode, bitVars, callerVars, historyVars,
                 cur, limit, hold, elapsed, rest>>

\* The asynchronous answer goes out before the queue is released.
Reply ==
  /\ spc = "reply"
  /\ replies' = replies \union
       {[id |-> cur.id, code |-> IF cur.rq.code \in BadCode THEN 400 ELSE 200]}
  /\ spc' = "release"
  /\ UNCHANGED <<learning, queue, currentCode, bitVars, callerVars, accepted, stopHistory,
                 cur, repeat, limit, hold, elapsed, rest>>

\* delete pIrMsg and xQueueReset, which empties the queue whatever is in it.
\* The task's locals are dead until the next message sets them.
Release ==
  /\ spc = "release"
  /\ queue' = <<>>
  /\ cur' = None
  /\ spc' = "peek"
  /\ stopped' = FALSE
  /\ overrun' = 0
  /\ cleared' = FALSE
  /\ repeat' = 0 /\ limit' = 0 /\ hold' = 0 /\ elapsed' = 0 /\ rest' = 0
  /\ UNCHANGED <<learning, currentCode, bitVars, callerVars, replies, accepted>>

-----------------------------------------------------------------------------
SendStep(t) == \/ CheckSending(t) \/ CompareCode(t) \/ Extend(t)
               \/ ClearBits(t) \/ Enqueue(t) \/ RecordCode(t)

SendTask == \/ Peek \/ OutOfMemory \/ Frame \/ Callback \/ Rearm
            \/ Decide \/ Reply \/ Release

Next == \/ \E t \in Sender, r \in Request : Call(t, r)
        \/ \E t \in Sender : SendStep(t)
        \/ \E t \in Sender, on \in BOOLEAN : SetLearning(t, on)
        \/ \E t \in Task : SetStop(t) \/ ClearRepeat(t) \/ Return(t)
        \/ SendTask

Spec == Init /\ [][Next]_vars

\* The send task blocks only in xQueuePeek and has a core to itself among
\* the tasks that send: once it can take a step it takes one in the end.
FairSpec == Spec /\ WF_vars(SendTask)

-----------------------------------------------------------------------------
(* Properties                                                              *)

\* send_ir_f l.480-661: while the send task works on a message, that message
\* is the one and only entry of the queue, so xQueueReset discards nothing
\* but the message just answered and pIrMsg is never freed under the task.
QueueHeadOwned == spc \notin {"peek", "rebooting"} => queue = <<cur>>

\* service_ir.cpp l.222-231: no request makes the transmitter run away.
\* Since it was started or last extended, a transmission has sent frames for
\* the requested hold time, or the capped number of repeats and the first one;
\* a single send, what its code asks for.
FrameLimit(rq) == IF rq.hold > 0          THEN rq.hold
                  ELSE IF Promoted(rq) > 0 THEN 1 + MaxRepeat
                  ELSE 1 + Embedded[rq.code]

RunawayBound == spc \notin {"peek", "rebooting"} => elapsed <= FrameLimit(cur.rq)

\* A message that repeats or holds: its callback looks at the event bits.
Controlled == queue # <<>> /\ Promoted(Head(queue).rq) > 0

\* service_ir.cpp l.240-242: a stop always takes priority.  After stopSend()
\* ran while a message that repeats or holds was queued, at most the frame in
\* progress goes out.  (A single send is not stopped, however often its code
\* is sent.)
StopHonoured == Controlled => overrun <= 1

\* service_ir.cpp l.240-242, l.265-266: with any number of senders, the stop
\* of a transmission is lost in one way only: a send() that had looked at the
\* queue before the message was there clears the event bits for its own, which
\* is then refused.
StopKept == ~cleared => StopHonoured

\* service_ir.cpp l.235-237, l.243-246: a request for the code that is active
\* extends it: what a request that is answered 202 extends is a transmission
\* of its own code.
MatchingExtend ==
  [][\A t \in Sender : Extend(t) /\ queue # <<>> => Head(queue).rq.code = call[t].rq.code]_vars

\* service_ir.cpp l.288: return value 0 promises an answer from the send task.
AcceptedAnswered ==
  \A i \in 1..MaxCalls : i \in accepted ~> \/ \E r \in replies : r.id = i
                                           \/ spc = "rebooting"

-----------------------------------------------------------------------------
\* The service as its callers see it: one transmitter, one request at a time.
Transmitter == INSTANCE IrTransmitter WITH
  Id <- 1..MaxCalls,
  NoId <- None,
  active <- IF queue = <<>> THEN None ELSE Head(queue).id,
  answered <- {r.id : r \in replies}

ImplementsTransmitter == Transmitter!Spec
=============================================================================
