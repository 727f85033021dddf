---------------------------- MODULE IrSendProofs ----------------------------
(***************************************************************************)
(* Theorems about IrSend for any number of tasks, codes and requests, any  *)
(* repeat cap and any bound on the calls.                                  *)
(***************************************************************************)
EXTENDS IrSend, TLAPS

USE DEF callerVars, bitVars, txVars, stopHistory, historyVars

-----------------------------------------------------------------------------
(* The arithmetic of repeat counts                                         *)

LEMMA CapBounded == \A n \in Nat : Cap(n) \in 0..MaxRepeat
  BY MaxRepeatAssumption DEF Cap

LEMMA ProductIsNat == \A m, n \in Nat : m * n \in Nat
  BY SMT

\* A request within the cap leads to counters within the cap.
LEMMA CountersBounded ==
  ASSUME NEW rq \in RequestType, rq.repeat <= MaxRepeat
  PROVE  /\ Promoted(rq) \in 0..MaxRepeat
         /\ RepeatLimit(rq) \in 0..MaxRepeat
         /\ Promoted(rq) <= RepeatLimit(rq)
<1>1. Promoted(rq) \in 0..MaxRepeat
  BY MaxRepeatAssumption DEF Promoted, RequestType
<1>2. MinRepeats[rq.code] \in Nat
  BY CodeAssumption DEF RequestType
<1>3. CASE ~(MinRepeats[rq.code] > 1)
  BY <1>1, <1>3 DEF RepeatLimit
<1>4. CASE MinRepeats[rq.code] > 1
  <2> DEFINE p == Promoted(rq) * MinRepeats[rq.code]
  <2>1. p \in Nat /\ Promoted(rq) <= p
    BY <1>1, <1>2, <1>4, MaxRepeatAssumption
  <2>2. RepeatLimit(rq) = Cap(p)
    BY <1>4 DEF RepeatLimit
  <2> QED BY <1>1, <2>1, <2>2, MaxRepeatAssumption DEF Cap
<1> QED BY <1>3, <1>4

-----------------------------------------------------------------------------
(* The inductive invariant                                                 *)

InSend == {"sending?", "compare", "extend", "clear", "enqueue", "record"}
Busy   == {"frame", "callback", "rearm", "decide", "reply", "release"}

\* A task inside send() is a sender and holds a capped request.
CallsOK ==
  \A t \in Task : pc[t] \in InSend =>
    /\ t \in Sender
    /\ call[t] \in Message
    /\ call[t].rq.repeat <= MaxRepeat
    /\ call[t].id <= calls

\* Message ids are never reused.
IdsOK ==
  /\ accepted \subseteq 1..calls
  /\ \A t \in Task : pc[t] \in InSend \ {"record"} => call[t].id \notin accepted
  /\ \A t, u \in Task : t # u /\ pc[t] \in InSend /\ pc[u] \in InSend => call[t].id # call[u].id

\* The queue holds one accepted message at most.
QueueOK ==
  queue # <<>> => /\ queue = <<Head(queue)>>
                  /\ Head(queue) \in Message
                  /\ Head(queue).rq.repeat <= MaxRepeat
                  /\ Head(queue).id \in accepted

\* The countdown of the message being sent.
CountdownOK ==
  spc \in Busy =>
    /\ hold <= cur.rq.hold
    /\ hold > 0 <=> cur.rq.hold > 0
    /\ hold > 0 => /\ elapsed <= cur.rq.hold
                   /\ spc = "frame" => elapsed < cur.rq.hold
    /\ hold = 0 /\ HasCallback => /\ elapsed + repeat <= 1 + MaxRepeat
                                  /\ spc = "frame" => elapsed + repeat <= MaxRepeat
    /\ ~HasCallback => /\ spc \in {"frame", "reply", "release"}
                       /\ elapsed + rest <= 1 + Embedded[cur.rq.code]
                       /\ spc = "frame" => elapsed + rest <= Embedded[cur.rq.code]

\* The message on the queue is answered exactly from "release" on.
AnswersOK ==
  /\ \A r \in replies : r.id \in accepted
  /\ queue # <<>> /\ spc # "release" => \A r \in replies : r.id # Head(queue).id
  /\ spc = "release" => \E r \in replies : r.id = Head(queue).id

IInv == /\ TypeOK
        /\ CallsOK
        /\ IdsOK
        /\ QueueOK
        /\ QueueHeadOwned
        /\ CountdownOK
        /\ AnswersOK

LEMMA InitIInv == Init => IInv
<1> SUFFICES ASSUME Init PROVE IInv
  OBVIOUS
<1> USE DEF Init
<1>1. TypeOK
  <2>1. /\ queue \in Seq(Message)
        /\ replies \subseteq [id : 1..MaxCalls, code : {200, 400}]
        /\ accepted \subseteq 1..MaxCalls
    OBVIOUS
  <2>2. calls \in 0..MaxCalls /\ repeat \in 0..MaxRepeat /\ limit \in 0..MaxRepeat
    BY MaxCallsAssumption, MaxRepeatAssumption
  <2>3. /\ pc \in [Task -> {"idle", "sending?", "compare", "extend", "clear", "enqueue",
                            "record", "stop", "returned"}]
        /\ call \in [Task -> Message \union {None}]
        /\ result \in [Task -> {0, 200, 202, 400, 429, 503}]
    OBVIOUS
  <2>4. /\ learning \in BOOLEAN /\ repeatBit \in BOOLEAN /\ stopBit \in BOOLEAN
        /\ stopped \in BOOLEAN /\ cleared \in BOOLEAN
    OBVIOUS
  <2> QED BY <2>1, <2>2, <2>3, <2>4 DEF TypeOK
<1>2. CallsOK /\ IdsOK
  BY DEF CallsOK, IdsOK, InSend
<1>3. QueueOK /\ QueueHeadOwned
  BY DEF QueueOK, QueueHeadOwned
<1>4. CountdownOK /\ AnswersOK
  BY DEF CountdownOK, AnswersOK, Busy
<1> QED BY <1>1, <1>2, <1>3, <1>4 DEF IInv

-----------------------------------------------------------------------------
(* Each action preserves the type invariant                                *)

\* What the actions of a calling task have in common.
LEMMA GotoType ==
  ASSUME TypeOK, NEW t \in Task,
         NEW l \in {"idle", "sending?", "compare", "extend", "clear", "enqueue",
                    "record", "stop", "returned"},
         Goto(t, l)
  PROVE  pc' \in [Task -> {"idle", "sending?", "compare", "extend", "clear", "enqueue",
                           "record", "stop", "returned"}]
  BY DEF TypeOK, Goto

LEMMA ReturnType ==
  ASSUME TypeOK, NEW t \in Task, NEW c \in {0, 200, 202, 400, 429, 503}, ReturnWith(t, c)
  PROVE  /\ pc' \in [Task -> {"idle", "sending?", "compare", "extend", "clear", "enqueue",
                              "record", "stop", "returned"}]
         /\ result' \in [Task -> {0, 200, 202, 400, 429, 503}]
<1>1. Goto(t, "returned") /\ result' = [result EXCEPT ![t] = c]
  BY DEF ReturnWith
<1> QED BY <1>1, GotoType DEF TypeOK

LEMMA CallerType ==
  ASSUME IInv, NEW t \in Sender, SendStep(t)
  PROVE  TypeOK'
<1> USE TaskAssumption DEF IInv
<1>0. t \in Task /\ TypeOK
  OBVIOUS
<1>1. CASE CheckSending(t)
  BY <1>0, <1>1, GotoType, ReturnType DEF CheckSending, TypeOK
<1>2. CASE CompareCode(t)
  BY <1>0, <1>2, GotoType, ReturnType DEF CompareCode, TypeOK
<1>3. CASE Extend(t)
  BY <1>0, <1>3, ReturnType DEF Extend, TypeOK
<1>4. CASE ClearBits(t)
  <2>1. Goto(t, "enqueue") /\ ~repeatBit' /\ ~stopBit'
    BY <1>4 DEF ClearBits
  <2>2. repeatBit' \in BOOLEAN /\ stopBit' \in BOOLEAN /\ cleared' \in BOOLEAN
    BY <1>0, <1>4 DEF ClearBits, TypeOK
  <2> QED BY <1>0, <1>4, <2>1, <2>2, GotoType DEF ClearBits, TypeOK
<1>5. CASE Enqueue(t)
  <2>1. call[t] \in Message
    BY <1>0, <1>5 DEF Enqueue, CallsOK, InSend
  <2>2. Append(queue, call[t]) \in Seq(Message)
    BY <1>0, <2>1 DEF TypeOK
  <2>3. call[t].id \in 1..MaxCalls
    BY <2>1 DEF Message
  <2>4. queue' \in Seq(Message)
    BY <1>0, <1>5, <2>2 DEF Enqueue, TypeOK
  <2>5. accepted' \subseteq 1..MaxCalls
    <3>1. accepted' = accepted \union {call[t].id} \/ accepted' = accepted
      BY <1>5 DEF Enqueue
    <3>2. accepted \subseteq 1..MaxCalls
      BY <1>0 DEF TypeOK
    <3> QED BY <2>3, <3>1, <3>2
  <2>6. CASE Goto(t, "record") /\ UNCHANGED result
    BY <1>0, <1>5, <2>4, <2>5, <2>6, GotoType DEF Enqueue, TypeOK
  <2>7. CASE ReturnWith(t, 429)
    BY <1>0, <1>5, <2>4, <2>5, <2>7, ReturnType DEF Enqueue, TypeOK
  <2> QED BY <1>5, <2>6, <2>7 DEF Enqueue
<1>6. CASE RecordCode(t)
  <2>1. call[t].rq.code \in Code
    BY <1>0, <1>6 DEF RecordCode, CallsOK, InSend, Message, RequestType
  <2> QED BY <1>0, <1>6, <2>1, ReturnType DEF RecordCode, TypeOK
<1> QED BY <1>1, <1>2, <1>3, <1>4, <1>5, <1>6 DEF SendStep

LEMMA CallType ==
  ASSUME IInv, NEW t \in Sender, NEW r \in Request, Call(t, r)
  PROVE  /\ TypeOK'
         /\ call'[t] \in Message
         /\ call'[t].id = calls + 1
         /\ call'[t].rq.repeat <= MaxRepeat
         /\ \A u \in Task \ {t} : call'[u] = call[u]
<1> DEFINE m == [id |-> calls + 1, rq |-> Capped(r)]
<1>0. t \in Task /\ TypeOK
  BY TaskAssumption DEF IInv
<1>1. r \in RequestType
  BY RequestAssumption
<1>2. Cap(r.repeat) \in Nat /\ Cap(r.repeat) <= MaxRepeat
  BY <1>1, CapBounded, MaxRepeatAssumption DEF RequestType
<1>3. calls + 1 \in 1..MaxCalls
  BY <1>0, MaxCallsAssumption DEF Call, TypeOK
<1>4. m.rq \in RequestType /\ m.rq.repeat <= MaxRepeat
  BY <1>1, <1>2 DEF RequestType, Capped
<1>5. m \in Message
  BY <1>3, <1>4 DEF Message
<1>6. call' = [call EXCEPT ![t] = m]
  BY DEF Call
<1>7. TypeOK'
  BY <1>0, <1>3, <1>5, <1>6, GotoType, ReturnType, MaxCallsAssumption DEF Call, TypeOK
<1> QED BY <1>0, <1>4, <1>5, <1>6, <1>7 DEF TypeOK

LEMMA OtherCallerType ==
  ASSUME IInv, NEW t \in Task,
         \/ SetStop(t) \/ ClearRepeat(t) \/ Return(t)
         \/ \E on \in BOOLEAN : SetLearning(t, on)
  PROVE  TypeOK'
<1>0. TypeOK
  BY DEF IInv
<1>1. CASE SetStop(t)
  <2>1. stopBit' \in BOOLEAN /\ stopped' \in BOOLEAN
    BY <1>1 DEF SetStop
  <2> QED BY <1>0, <1>1, <2>1, GotoType DEF SetStop, TypeOK
<1>2. CASE ClearRepeat(t)
  <2>1. repeatBit' \in BOOLEAN
    BY <1>2 DEF ClearRepeat
  <2> QED BY <1>0, <1>2, <2>1, ReturnType DEF ClearRepeat, TypeOK
<1>3. CASE Return(t)
  <2>1. /\ call' \in [Task -> Message \union {None}]
        /\ result' \in [Task -> {0, 200, 202, 400, 429, 503}]
    BY <1>0, <1>3 DEF Return, TypeOK
  <2> QED BY <1>0, <1>3, <2>1, GotoType DEF Return, TypeOK
<1>4. ASSUME NEW on \in BOOLEAN, SetLearning(t, on) PROVE TypeOK'
  <2>1. learning' \in BOOLEAN
    BY <1>4 DEF SetLearning
  <2> QED BY <1>0, <1>4, <2>1 DEF SetLearning, TypeOK
<1> QED BY <1>1, <1>2, <1>3, <1>4

LEMMA SendTaskType ==
  ASSUME IInv, SendTask
  PROVE  TypeOK'
<1>0. TypeOK /\ QueueHeadOwned /\ QueueOK
  BY DEF IInv
<1>1. CASE Peek
  <2>1. Head(queue) \in Message /\ Head(queue).rq \in RequestType
        /\ Head(queue).rq.repeat <= MaxRepeat
    BY <1>0, <1>1 DEF Peek, QueueOK, Message
  <2>2. /\ Promoted(Head(queue).rq) \in 0..MaxRepeat
        /\ RepeatLimit(Head(queue).rq) \in 0..MaxRepeat
    BY <2>1, CountersBounded
  <2>3. Head(queue).rq.hold \in Nat /\ Uncontrolled(Head(queue).rq) \in Nat
    BY <2>1, CodeAssumption DEF RequestType, Uncontrolled
  <2>4. queue' = queue /\ spc' \in {"reply", "frame"}
    BY <1>1 DEF Peek, Peeked
  <2> QED BY <1>0, <1>1, <2>1, <2>2, <2>3, <2>4 DEF Peek, TypeOK
<1>2. CASE OutOfMemory
  BY <1>0, <1>2 DEF OutOfMemory, TypeOK
<1>3. CASE Frame
  <2>1. /\ elapsed' \in Nat /\ rest' \in Nat /\ overrun' \in 0..2
        /\ spc' \in {"frame", "callback", "reply"}
    BY <1>0, <1>3 DEF Frame, TypeOK
  <2> QED BY <1>0, <1>3, <2>1 DEF Frame, TypeOK
<1>4. CASE Callback
  <2>1. /\ spc' \in {"decide", "rearm"}
        /\ repeat' \in 0..MaxRepeat
        /\ hold' \in Nat
        /\ elapsed' \in Nat
    BY <1>0, <1>4, MaxRepeatAssumption DEF Callback, TypeOK
  <2> QED BY <1>0, <1>4, <2>1 DEF Callback, TypeOK
<1>5. CASE Rearm
  <2>1. repeatBit' \in BOOLEAN
    BY <1>5 DEF Rearm, Acknowledged
  <2> QED BY <1>0, <1>5, <2>1 DEF Rearm, TypeOK
<1>6. CASE Decide
  <2>1. repeat' \in 0..MaxRepeat /\ spc' \in {"frame", "reply"}
    BY <1>0, <1>6, MaxRepeatAssumption DEF Decide, TypeOK
  <2> QED BY <1>0, <1>6, <2>1 DEF Decide, TypeOK
<1>7. CASE Reply
  <2>1. cur \in Message
    BY <1>0, <1>7 DEF Reply, QueueHeadOwned, QueueOK
  <2>2. [id |-> cur.id, code |-> IF cur.rq.code \in BadCode THEN 400 ELSE 200]
          \in [id : 1..MaxCalls, code : {200, 400}]
    BY <2>1 DEF Message
  <2>3. replies' \subseteq [id : 1..MaxCalls, code : {200, 400}]
    BY <1>0, <1>7, <2>2 DEF Reply, TypeOK
  <2> QED BY <1>0, <1>7, <2>3 DEF Reply, TypeOK
<1>8. CASE Release
  <2>0. queue' = <<>> /\ <<>> \in Seq(Message) /\ ~stopped'
    BY <1>8 DEF Release
  <2>1. queue' \in Seq(Message) /\ stopped' \in BOOLEAN /\ cleared' \in BOOLEAN
    BY <1>8, <2>0 DEF Release
  <2>2. repeat' \in 0..MaxRepeat /\ limit' \in 0..MaxRepeat
    BY <1>8, MaxRepeatAssumption DEF Release
  <2> QED BY <1>0, <1>8, <2>1, <2>2 DEF Release, TypeOK
<1> QED BY <1>1, <1>2, <1>3, <1>4, <1>5, <1>6, <1>7, <1>8 DEF SendTask

-----------------------------------------------------------------------------
(* The steps of the calling tasks other than Enqueue leave the queue, the  *)
(* send task and the history of messages alone.                            *)

CallerStep(t) ==
  \/ \E r \in Request : Call(t, r)
  \/ SendStep(t)
  \/ SetStop(t) \/ ClearRepeat(t) \/ Return(t)
  \/ \E on \in BOOLEAN : SetLearning(t, on)

LEMMA NextCases ==
  ASSUME Next
  PROVE  \/ \E t \in Sender, r \in Request : Call(t, r)
         \/ \E t \in Sender : SendStep(t)
         \/ \E t \in Task : \/ SetStop(t) \/ ClearRepeat(t) \/ Return(t)
                            \/ \E on \in BOOLEAN : SetLearning(t, on)
         \/ SendTask
  BY TaskAssumption DEF Next

LEMMA OnlyEnqueueAccepts ==
  ASSUME NEW t, CallerStep(t), ~Enqueue(t)
  PROVE  UNCHANGED <<queue, txVars, replies, accepted>>
<1>1. ASSUME NEW r \in Request, Call(t, r) PROVE UNCHANGED <<queue, txVars, replies, accepted>>
  BY <1>1 DEF Call
<1>2. CASE SendStep(t)
  BY <1>2 DEF SendStep, CheckSending, CompareCode, Extend, ClearBits, RecordCode
<1>3. CASE SetStop(t) \/ ClearRepeat(t) \/ Return(t)
  BY <1>3 DEF SetStop, ClearRepeat, Return
<1>4. ASSUME NEW on \in BOOLEAN, SetLearning(t, on)
      PROVE  UNCHANGED <<queue, txVars, replies, accepted>>
  BY <1>4 DEF SetLearning
<1> QED BY <1>1, <1>2, <1>3, <1>4 DEF CallerStep

LEMMA EnqueueEffect ==
  ASSUME IInv, NEW t \in Task, Enqueue(t)
  PROVE  /\ UNCHANGED <<txVars, replies>>
         /\ \/ /\ queue = <<>>
               /\ queue' = <<call[t]>>
               /\ accepted' = accepted \union {call[t].id}
               /\ pc' = [pc EXCEPT ![t] = "record"]
            \/ /\ UNCHANGED <<queue, accepted>>
               /\ pc' = [pc EXCEPT ![t] = "returned"]
<1>1. CASE Len(queue) < QueueDepth
  <2>1. queue # <<>> => Len(queue) = 1
    BY DEF IInv, QueueOK
  <2>2. queue = <<>>
    BY <1>1, <2>1 DEF QueueDepth
  <2>3. Append(<<>>, call[t]) = <<call[t]>>
    OBVIOUS
  <2>4. ~(Len(queue) >= QueueDepth)
    BY <2>2 DEF QueueDepth
  <2> QED BY <2>2, <2>3, <2>4 DEF Enqueue, Goto
<1>2. CASE ~(Len(queue) < QueueDepth)
  BY <1>2 DEF Enqueue, ReturnWith, Goto
<1> QED BY <1>1, <1>2

LEMMA QueueStep ==
  ASSUME IInv, Next
  PROVE  QueueOK' /\ QueueHeadOwned'
<1> USE DEF IInv
<1>1. ASSUME NEW t \in Task, CallerStep(t), ~Enqueue(t) PROVE QueueOK' /\ QueueHeadOwned'
  BY <1>1, OnlyEnqueueAccepts DEF QueueOK, QueueHeadOwned
<1>2. ASSUME NEW t \in Task, Enqueue(t) PROVE QueueOK' /\ QueueHeadOwned'
  <2>1. CASE queue = <<>> /\ queue' = <<call[t]>> /\ accepted' = accepted \union {call[t].id}
    <3>1. spc' \in {"peek", "rebooting"}
      <4>1. queue # <<cur>>
        BY <2>1
      <4> QED BY <4>1, <1>2, EnqueueEffect DEF QueueHeadOwned
    <3>2. call[t] \in Message /\ call[t].rq.repeat <= MaxRepeat
      BY <1>2 DEF Enqueue, CallsOK, InSend
    <3>3. Head(queue') = call[t]
      BY <2>1
    <3> QED BY <2>1, <3>1, <3>2, <3>3 DEF QueueOK, QueueHeadOwned
  <2>2. CASE UNCHANGED <<queue, accepted>>
    BY <1>2, <2>2, EnqueueEffect DEF QueueOK, QueueHeadOwned
  <2> QED BY <1>2, <2>1, <2>2, EnqueueEffect
<1>3. CASE SendTask
  <2>1. CASE Peek
    BY <2>1 DEF Peek, Peeked, QueueOK, QueueHeadOwned
  <2>2. CASE OutOfMemory
    BY <2>2 DEF OutOfMemory, QueueOK, QueueHeadOwned
  <2>3. CASE Frame \/ Callback \/ Rearm \/ Decide \/ Reply
    BY <2>3 DEF Frame, Callback, Rearm, Decide, Reply, QueueOK, QueueHeadOwned
  <2>4. CASE Release
    BY <2>4 DEF Release, QueueOK, QueueHeadOwned
  <2> QED BY <1>3, <2>1, <2>2, <2>3, <2>4 DEF SendTask
<1> QED BY <1>1, <1>2, <1>3, NextCases, TaskAssumption DEF CallerStep

-----------------------------------------------------------------------------
(* Calls and their message ids                                             *)

LEMMA SendTaskLeavesCallers ==
  ASSUME SendTask
  PROVE  UNCHANGED <<callerVars, accepted>>
  BY DEF SendTask, Peek, OutOfMemory, Frame, Callback, Rearm, Decide, Reply, Release

LEMMA CallEffect ==
  ASSUME IInv, NEW t \in Sender, NEW r \in Request, Call(t, r)
  PROVE  /\ calls' = calls + 1
         /\ \A u \in Task \ {t} : pc'[u] = pc[u]
         /\ UNCHANGED accepted
  BY TaskAssumption DEF IInv, TypeOK, Call, Goto, ReturnWith

\* Past its entry, a call of send() keeps its arguments and moves forward.
LEMMA StepEffect ==
  ASSUME IInv, NEW t \in Task,
         \/ t \in Sender /\ SendStep(t)
         \/ SetStop(t) \/ ClearRepeat(t) \/ Return(t)
         \/ \E on \in BOOLEAN : SetLearning(t, on)
  PROVE  /\ calls' = calls
         /\ \A u \in Task \ {t} : pc'[u] = pc[u] /\ call'[u] = call[u]
         /\ pc'[t] \in InSend => pc[t] \in InSend /\ call'[t] = call[t]
         /\ pc'[t] \in InSend \ {"record"} => pc[t] \in InSend \ {"record"}
<1> USE DEF IInv, TypeOK, InSend, Goto, ReturnWith
<1>1. CASE CheckSending(t)
  BY <1>1 DEF CheckSending
<1>2. CASE CompareCode(t)
  BY <1>2 DEF CompareCode
<1>3. CASE Extend(t)
  BY <1>3 DEF Extend
<1>4. CASE ClearBits(t)
  BY <1>4 DEF ClearBits
<1>5. CASE Enqueue(t)
  BY <1>5 DEF Enqueue
<1>6. CASE RecordCode(t)
  BY <1>6 DEF RecordCode
<1>7. CASE SetStop(t)
  BY <1>7 DEF SetStop
<1>8. CASE ClearRepeat(t)
  BY <1>8 DEF ClearRepeat
<1>9. CASE Return(t)
  BY <1>9 DEF Return
<1>10. ASSUME NEW on \in BOOLEAN, SetLearning(t, on)
       PROVE  pc' = pc /\ call' = call /\ calls' = calls
  BY <1>10 DEF SetLearning
<1> QED BY <1>1, <1>2, <1>3, <1>4, <1>5, <1>6, <1>7, <1>8, <1>9, <1>10 DEF SendStep

LEMMA CallsStep ==
  ASSUME IInv, Next
  PROVE  CallsOK'
<1>0. CallsOK /\ calls \in Nat /\ \A t \in Task : call[t] \in Message => call[t].id \in Nat
  BY MaxCallsAssumption DEF IInv, TypeOK, Message
<1>1. ASSUME NEW t \in Sender, NEW r \in Request, Call(t, r) PROVE CallsOK'
  <2>1. /\ call'[t] \in Message
        /\ call'[t].id = calls + 1
        /\ call'[t].rq.repeat <= MaxRepeat
        /\ \A u \in Task \ {t} : call'[u] = call[u]
    BY <1>1, CallType
  <2>2. calls' = calls + 1 /\ \A u \in Task \ {t} : pc'[u] = pc[u]
    BY <1>1, CallEffect
  <2> SUFFICES ASSUME NEW u \in Task, pc'[u] \in InSend
               PROVE  /\ u \in Sender /\ call'[u] \in Message
                      /\ call'[u].rq.repeat <= MaxRepeat /\ call'[u].id <= calls'
    BY DEF CallsOK, Message
  <2>3. CASE u = t
    BY <1>0, <2>1, <2>2, <2>3
  <2>4. CASE u # t
    BY <1>0, <2>1, <2>2, <2>4 DEF CallsOK
  <2> QED BY <2>3, <2>4
<1>2. ASSUME NEW t \in Task,
             \/ t \in Sender /\ SendStep(t)
             \/ SetStop(t) \/ ClearRepeat(t) \/ Return(t)
             \/ \E on \in BOOLEAN : SetLearning(t, on)
      PROVE  CallsOK'
  <2>1. /\ calls' = calls
        /\ \A u \in Task : pc'[u] \in InSend => pc[u] \in InSend /\ call'[u] = call[u]
    BY <1>2, StepEffect
  <2> QED BY <1>0, <2>1 DEF CallsOK, Message
<1>3. CASE SendTask
  BY <1>0, <1>3, SendTaskLeavesCallers DEF CallsOK, Message
<1> QED BY <1>1, <1>2, <1>3, NextCases, TaskAssumption

LEMMA IdsStep ==
  ASSUME IInv, Next
  PROVE  IdsOK'
<1>0. /\ IdsOK /\ CallsOK /\ calls \in Nat
      /\ \A t \in Task : call[t] \in Message => call[t].id \in 1..MaxCalls
  BY MaxCallsAssumption DEF IInv, TypeOK, Message
<1>1. ASSUME NEW t \in Sender, NEW r \in Request, Call(t, r) PROVE IdsOK'
  <2>1. call'[t].id = calls + 1 /\ \A u \in Task \ {t} : call'[u] = call[u]
    BY <1>1, CallType
  <2>2. calls' = calls + 1 /\ UNCHANGED accepted /\ \A u \in Task \ {t} : pc'[u] = pc[u]
    BY <1>1, CallEffect
  <2>3. \A u \in Task \ {t} : pc'[u] \in InSend => call'[u].id <= calls /\ call'[u].id \in Nat
    BY <1>0, <2>1, <2>2 DEF CallsOK
  <2>4. accepted' \subseteq 1..calls'
    BY <1>0, <2>2 DEF IdsOK
  <2>5. \A u \in Task : pc'[u] \in InSend \ {"record"} => call'[u].id \notin accepted'
    BY <1>0, <2>1, <2>2 DEF IdsOK
  <2>6. \A u, v \in Task : u # v /\ pc'[u] \in InSend /\ pc'[v] \in InSend
                             => call'[u].id # call'[v].id
    BY <1>0, <2>1, <2>2, <2>3 DEF IdsOK
  <2> QED BY <2>4, <2>5, <2>6 DEF IdsOK
<1>2. ASSUME NEW t \in Task,
             \/ t \in Sender /\ SendStep(t)
             \/ SetStop(t) \/ ClearRepeat(t) \/ Return(t)
             \/ \E on \in BOOLEAN : SetLearning(t, on)
      PROVE  IdsOK'
  <2>1. /\ calls' = calls
        /\ \A u \in Task : pc'[u] \in InSend => pc[u] \in InSend /\ call'[u] = call[u]
        /\ \A u \in Task : pc'[u] \in InSend \ {"record"} => pc[u] \in InSend \ {"record"}
    BY <1>2, StepEffect
  <2>2. \A u, v \in Task : u # v /\ pc'[u] \in InSend /\ pc'[v] \in InSend
                             => call'[u].id # call'[v].id
    BY <1>0, <2>1 DEF IdsOK
  <2>3. CASE UNCHANGED accepted
    BY <1>0, <2>1, <2>2, <2>3 DEF IdsOK, InSend
  <2>4. CASE /\ Enqueue(t)
             /\ accepted' = accepted \union {call[t].id}
             /\ pc' = [pc EXCEPT ![t] = "record"]
    <3>1. call[t].id \in 1..calls /\ pc[t] \in InSend
      BY <1>0, <2>4 DEF Enqueue, CallsOK, InSend
    <3>2. accepted' \subseteq 1..calls'
      BY <1>0, <2>1, <2>4, <3>1 DEF IdsOK
    <3>3. ASSUME NEW u \in Task, pc'[u] \in InSend \ {"record"} PROVE call'[u].id \notin accepted'
      <4>1. u # t
        BY <2>4, <3>3 DEF IInv, TypeOK
      <4>2. pc[u] \in InSend \ {"record"} /\ call'[u] = call[u]
        BY <2>1, <3>3
      <4>3. call[u].id \notin accepted /\ call[u].id # call[t].id
        BY <1>0, <3>1, <4>1, <4>2 DEF IdsOK
      <4> QED BY <2>4, <4>2, <4>3
    <3> QED BY <2>2, <3>2, <3>3 DEF IdsOK
  <2> QED BY <1>2, <2>3, <2>4, OnlyEnqueueAccepts, EnqueueEffect DEF CallerStep
<1>3. CASE SendTask
  BY <1>0, <1>3, SendTaskLeavesCallers DEF IdsOK
<1> QED BY <1>1, <1>2, <1>3, NextCases, TaskAssumption

-----------------------------------------------------------------------------
(* The countdown                                                           *)

\* What is known of the request being sent.
LEMMA CurrentRequest ==
  ASSUME QueueOK, QueueHeadOwned, spc \in Busy
  PROVE  cur.rq.hold \in Nat /\ cur.rq.repeat \in Nat /\ Embedded[cur.rq.code] \in Nat
<1>1. queue = <<cur>> /\ Head(queue) = cur
  BY DEF QueueHeadOwned, Busy
<1>2. cur.rq \in RequestType
  BY <1>1 DEF QueueOK, Message
<1> QED BY <1>2, CodeAssumption DEF RequestType

LEMMA CountdownStep ==
  ASSUME IInv, Next
  PROVE  CountdownOK'
<1>0. /\ CountdownOK /\ QueueOK /\ QueueHeadOwned
      /\ repeat \in Nat /\ limit \in Nat /\ limit <= MaxRepeat /\ hold \in Nat /\ elapsed \in Nat
      /\ rest \in Nat
      /\ MaxRepeat \in Nat
  BY MaxRepeatAssumption DEF IInv, TypeOK
<1>1. ASSUME NEW t \in Task, CallerStep(t) PROVE CountdownOK'
  <2>1. UNCHANGED txVars
    BY <1>1, OnlyEnqueueAccepts, EnqueueEffect
  <2> QED BY <1>0, <2>1 DEF CountdownOK, HasCallback
<1>2. CASE SendTask
  <2>0. spc \in Busy => /\ cur.rq.hold \in Nat /\ Embedded[cur.rq.code] \in Nat
                        /\ cur.rq.hold > 0 => HasCallback
    BY <1>0, CurrentRequest DEF HasCallback, Promoted
  <2>1. CASE Peek
    <3>1. Head(queue).rq \in RequestType /\ Head(queue).rq.repeat <= MaxRepeat
      BY <1>0, <2>1 DEF Peek, QueueOK, Message
    <3>2. Promoted(Head(queue).rq) \in Nat /\ Promoted(Head(queue).rq) <= MaxRepeat
      BY <1>0, <3>1, CountersBounded
    <3>3. Head(queue).rq.hold \in Nat /\ Embedded[Head(queue).rq.code] \in Nat
      BY <3>1, CodeAssumption DEF RequestType
    <3>4. /\ cur' = Head(queue) /\ hold' = Head(queue).rq.hold /\ elapsed' = 0
          /\ repeat' = Promoted(Head(queue).rq) /\ rest' = Uncontrolled(Head(queue).rq)
          /\ spc' \in {"frame", "reply"}
      BY <2>1 DEF Peek
    <3>5. HasCallback' <=> Promoted(Head(queue).rq) > 0
      BY <3>4 DEF HasCallback
    <3> QED BY <1>0, <3>2, <3>3, <3>4, <3>5 DEF CountdownOK, Uncontrolled
  <2>2. CASE OutOfMemory
    BY <2>2 DEF OutOfMemory, CountdownOK, Busy
  <2>3. CASE Frame
    BY <1>0, <2>0, <2>3 DEF Frame, CountdownOK, HasCallback, Busy
  <2>4. CASE Callback
    BY <1>0, <2>0, <2>4 DEF Callback, CountdownOK, HasCallback, Busy
  <2>5. CASE Rearm
    BY <1>0, <2>5 DEF Rearm, CountdownOK, HasCallback, Busy
  <2>6. CASE Decide
    BY <1>0, <2>0, <2>6 DEF Decide, CountdownOK, HasCallback, Busy
  <2>7. CASE Reply
    BY <1>0, <2>7 DEF Reply, CountdownOK, HasCallback, Busy
  <2>8. CASE Release
    BY <2>8 DEF Release, CountdownOK, Busy
  <2> QED BY <1>2, <2>1, <2>2, <2>3, <2>4, <2>5, <2>6, <2>7, <2>8 DEF SendTask
<1> QED BY <1>1, <1>2, NextCases, TaskAssumption DEF CallerStep

-----------------------------------------------------------------------------
(* The answers                                                             *)

LEMMA AnswersStep ==
  ASSUME IInv, Next
  PROVE  AnswersOK'
<1>0. AnswersOK /\ QueueOK /\ QueueHeadOwned /\ IdsOK
  BY DEF IInv
<1>1. ASSUME NEW t \in Task, CallerStep(t), ~Enqueue(t) PROVE AnswersOK'
  BY <1>0, <1>1, OnlyEnqueueAccepts DEF AnswersOK
<1>2. ASSUME NEW t \in Task, Enqueue(t) PROVE AnswersOK'
  <2>0. UNCHANGED <<txVars, replies>>
    BY <1>2, EnqueueEffect
  <2>1. CASE queue = <<>> /\ queue' = <<call[t]>> /\ accepted' = accepted \union {call[t].id}
    <3>1. Head(queue') = call[t]
      BY <2>1
    <3>2. call[t].id \notin accepted
      BY <1>0, <1>2 DEF IdsOK, Enqueue, InSend
    <3>3. spc # "release"
      BY <1>0, <2>1 DEF QueueHeadOwned
    <3> QED BY <1>0, <2>0, <2>1, <3>1, <3>2, <3>3 DEF AnswersOK
  <2>2. CASE UNCHANGED <<queue, accepted>>
    BY <1>0, <2>0, <2>2 DEF AnswersOK
  <2> QED BY <1>2, <2>1, <2>2, EnqueueEffect
<1>3. CASE SendTask
  <2>1. CASE Peek \/ OutOfMemory \/ Frame \/ Callback \/ Rearm \/ Decide
    BY <1>0, <2>1 DEF Peek, Peeked, OutOfMemory, Frame, Callback, Rearm, Decide, AnswersOK
  <2>2. CASE Reply
    <3>1. queue = <<cur>> /\ Head(queue) = cur /\ cur.id \in accepted
      BY <1>0, <2>2 DEF Reply, QueueHeadOwned, QueueOK
    <3> DEFINE answer == [id |-> cur.id, code |-> IF cur.rq.code \in BadCode THEN 400 ELSE 200]
    <3>2. answer.id = cur.id
      OBVIOUS
    <3>3. replies' = replies \union {answer} /\ UNCHANGED <<queue, accepted>> /\ spc' = "release"
      BY <2>2 DEF Reply
    <3> HIDE DEF answer
    <3> QED BY <1>0, <3>1, <3>2, <3>3 DEF AnswersOK
  <2>3. CASE Release
    BY <1>0, <2>3 DEF Release, AnswersOK
  <2> QED BY <1>3, <2>1, <2>2, <2>3 DEF SendTask
<1> QED BY <1>1, <1>2, <1>3, NextCases, TaskAssumption DEF CallerStep

-----------------------------------------------------------------------------
(* The invariant holds, and with it the invariants of IrSend               *)

LEMMA TypeStep ==
  ASSUME IInv, Next
  PROVE  TypeOK'
  BY CallType, CallerType, OtherCallerType, SendTaskType, NextCases

LEMMA IInvStep == IInv /\ [Next]_vars => IInv'
<1>1. ASSUME IInv, Next PROVE IInv'
  BY <1>1, TypeStep, CallsStep, IdsStep, QueueStep, CountdownStep, AnswersStep DEF IInv
<1>2. ASSUME IInv, UNCHANGED vars PROVE IInv'
  <2> USE <1>2 DEF vars, IInv
  <2>1. TypeOK'
    BY DEF TypeOK
  <2>2. CallsOK' /\ IdsOK'
    BY DEF CallsOK, IdsOK
  <2>3. QueueOK' /\ QueueHeadOwned' /\ AnswersOK'
    BY DEF QueueOK, QueueHeadOwned, AnswersOK
  <2>4. CountdownOK'
    BY DEF CountdownOK, HasCallback
  <2> QED BY <2>1, <2>2, <2>3, <2>4
<1> QED BY <1>1, <1>2

LEMMA Invariance == Spec => []IInv
  BY InitIInv, IInvStep, PTL DEF Spec

\* Every variable keeps its type; in particular the repeat counters never
\* leave 0..MaxRepeat, whatever the requests ask for.
THEOREM TypeCorrect == Spec => []TypeOK
<1>1. IInv => TypeOK
  BY DEF IInv
<1> QED BY <1>1, Invariance, PTL

\* The message the send task works on is the only one on the queue.
THEOREM QueueHeadIsOwned == Spec => []QueueHeadOwned
<1>1. IInv => QueueHeadOwned
  BY DEF IInv
<1> QED BY <1>1, Invariance, PTL

\* No request, and no sequence of requests that is not answered 202, keeps
\* the transmitter busy for longer than it may.
THEOREM NoRunaway == Spec => []RunawayBound
<1>1. IInv => RunawayBound
  <2> SUFFICES ASSUME IInv, spc \notin {"peek", "rebooting"}
               PROVE  elapsed <= FrameLimit(cur.rq)
    BY DEF RunawayBound
  <2>1. /\ spc \in Busy /\ repeat \in Nat /\ elapsed \in Nat /\ hold \in Nat /\ rest \in Nat
        /\ MaxRepeat \in Nat /\ CountdownOK
    BY MaxRepeatAssumption DEF IInv, TypeOK, Busy
  <2>2. cur.rq.hold \in Nat /\ Embedded[cur.rq.code] \in Nat
    BY <2>1, CurrentRequest DEF IInv
  <2>3. CASE hold > 0
    BY <2>1, <2>2, <2>3 DEF CountdownOK, FrameLimit
  <2>4. CASE hold = 0 /\ HasCallback
    BY <2>1, <2>2, <2>4 DEF CountdownOK, HasCallback, FrameLimit
  <2>5. CASE hold = 0 /\ ~HasCallback
    BY <2>1, <2>2, <2>5 DEF CountdownOK, HasCallback, FrameLimit
  <2> QED BY <2>1, <2>3, <2>4, <2>5
<1> QED BY <1>1, Invariance, PTL

-----------------------------------------------------------------------------
(* IrSend implements IrTransmitter                                         *)

active   == IF queue = <<>> THEN None ELSE Head(queue).id
answered == {r.id : r \in replies}

LEMMA RefinedInit == Init => Transmitter!Init
  BY DEF Init, Transmitter!Init

LEMMA RefinedStep == IInv /\ [Next]_vars => [Transmitter!Next]_Transmitter!vars
<1> SUFFICES ASSUME IInv, [Next]_vars PROVE [Transmitter!Next]_Transmitter!vars
  OBVIOUS
<1> USE DEF Transmitter!Next, Transmitter!vars
<1>0. TypeOK /\ AnswersOK /\ QueueOK /\ QueueHeadOwned /\ IdsOK /\ CallsOK
  BY DEF IInv
<1>1. ASSUME UNCHANGED <<queue, replies, accepted>> PROVE UNCHANGED Transmitter!vars
  BY <1>1
<1>2. ASSUME NEW t \in Task, CallerStep(t), ~Enqueue(t) PROVE UNCHANGED Transmitter!vars
  BY <1>1, <1>2, OnlyEnqueueAccepts
<1>3. ASSUME NEW t \in Task, Enqueue(t) PROVE [Transmitter!Next]_Transmitter!vars
  <2>1. CASE queue = <<>> /\ queue' = <<call[t]>> /\ accepted' = accepted \union {call[t].id}
    <3>1. active = None /\ active' = call[t].id
      BY <2>1 DEF active
    <3>2. call[t].id \in 1..MaxCalls \ accepted
      BY <1>0, <1>3 DEF Enqueue, CallsOK, IdsOK, InSend, Message
    <3>3. UNCHANGED replies
      BY <1>3, EnqueueEffect
    <3>4. Transmitter!Accept
      BY <2>1, <3>1, <3>2, <3>3 DEF Transmitter!Accept, active
    <3> QED BY <3>4
  <2>2. CASE UNCHANGED <<queue, accepted>>
    BY <1>1, <1>3, <2>2, EnqueueEffect
  <2> QED BY <1>3, <2>1, <2>2, EnqueueEffect
<1>4. CASE Peek \/ OutOfMemory \/ Frame \/ Callback \/ Rearm \/ Decide
  BY <1>1, <1>4 DEF Peek, Peeked, OutOfMemory, Frame, Callback, Rearm, Decide
<1>5. CASE Reply
  <2>1. queue = <<cur>> /\ Head(queue) = cur /\ cur \in Message
    BY <1>0, <1>5 DEF Reply, QueueHeadOwned, QueueOK
  <2> DEFINE answer == [id |-> cur.id, code |-> IF cur.rq.code \in BadCode THEN 400 ELSE 200]
  <2>2. answer.id = cur.id
    OBVIOUS
  <2>3. replies' = replies \union {answer} /\ UNCHANGED <<queue, accepted>> /\ spc # "release"
    BY <1>5 DEF Reply
  <2> HIDE DEF answer
  <2>4. active = cur.id /\ active' = active
    BY <2>1, <2>3 DEF active
  <2>5. answered' = answered \union {cur.id}
    BY <2>2, <2>3 DEF answered
  <2>6. cur.id \in 1..MaxCalls /\ cur.id \notin answered
    BY <1>0, <2>1, <2>3 DEF AnswersOK, Message, answered
  <2>7. Transmitter!Answer
    BY <2>3, <2>4, <2>5, <2>6 DEF Transmitter!Answer, active, answered
  <2> QED BY <2>7
<1>6. CASE Release
  <2>1. queue = <<cur>> /\ queue' = <<>> /\ UNCHANGED <<replies, accepted>>
    BY <1>0, <1>6 DEF Release, QueueHeadOwned
  <2>2. active \in answered /\ active' = None
    BY <1>0, <1>6, <2>1 DEF Release, AnswersOK, active, answered
  <2>3. Transmitter!Release
    BY <2>1, <2>2 DEF Transmitter!Release, active, answered
  <2> QED BY <2>3
<1>7. CASE UNCHANGED vars
  BY <1>1, <1>7 DEF vars
<1> QED BY <1>2, <1>3, <1>4, <1>5, <1>6, <1>7, NextCases, TaskAssumption DEF CallerStep, SendTask

\* The service works on one request at a time and answers each request it
\* accepts exactly once, before it accepts the next.
THEOREM Implementation == Spec => ImplementsTransmitter
  BY RefinedInit, RefinedStep, Invariance, PTL DEF Spec, ImplementsTransmitter, Transmitter!Spec
-----------------------------------------------------------------------------
(* Stops                                                                   *)

\* The stop bit of a transmission stays set until the message it met is gone
\* or a send() clears it, and the callback that sees it leaves nothing to send.
StopOK ==
  /\ stopped => queue # <<>>
  /\ stopped /\ ~cleared => stopBit
  /\ overrun # 0 => stopped
  /\ spc = "callback" => elapsed >= 1
  /\ Controlled /\ ~cleared =>
       /\ overrun <= 1
       /\ overrun = 1 => spc \in {"callback", "decide", "reply", "release"}
       /\ overrun = 1 /\ spc = "decide" => repeat = 0 /\ hold <= 1 /\ elapsed >= 1

LEMMA StopInit == Init => StopOK
  BY DEF Init, StopOK, Controlled

LEMMA StopStep ==
  ASSUME IInv, StopOK, Next
  PROVE  StopOK'
<1>0. /\ StopOK /\ TypeOK /\ QueueHeadOwned
      /\ overrun \in Nat /\ elapsed \in Nat /\ hold \in Nat /\ repeat \in Nat
  BY MaxRepeatAssumption DEF IInv, TypeOK
<1> USE TaskAssumption DEF StopOK, Controlled
<1>1. ASSUME NEW t \in Sender, NEW r \in Request, Call(t, r) PROVE StopOK'
  BY <1>0, <1>1 DEF Call
<1>2. ASSUME NEW t \in Sender, SendStep(t) PROVE StopOK'
  <2>1. CASE CheckSending(t) \/ CompareCode(t) \/ Extend(t) \/ RecordCode(t)
    BY <1>0, <2>1 DEF CheckSending, CompareCode, Extend, RecordCode
  <2>2. CASE ClearBits(t)
    <3>1. /\ UNCHANGED <<queue, txVars, stopped, overrun>>
          /\ cleared' = (cleared \/ stopped) /\ stopBit' = FALSE
      BY <2>2 DEF ClearBits
    <3>2. CASE stopped
      BY <1>0, <3>1, <3>2
    <3>3. CASE ~stopped
      BY <1>0, <3>1, <3>3
    <3> QED BY <3>2, <3>3
  <2>3. CASE Enqueue(t)
    <3>1. UNCHANGED <<txVars, stopBit, stopHistory>> /\ (queue = <<>> \/ UNCHANGED queue)
      BY <2>3, EnqueueEffect DEF Enqueue
    <3>2. queue = <<>> => overrun = 0 /\ ~stopped
      BY <1>0
    <3>3. CASE queue = <<>>
      BY <1>0, <3>1, <3>2, <3>3
    <3>4. CASE UNCHANGED queue
      BY <1>0, <3>1, <3>4
    <3> QED BY <3>1, <3>3, <3>4
  <2> QED BY <1>2, <2>1, <2>2, <2>3 DEF SendStep
<1>3. ASSUME NEW t \in Task,
             \/ SetStop(t) \/ ClearRepeat(t) \/ Return(t)
             \/ \E on \in BOOLEAN : SetLearning(t, on)
      PROVE  StopOK'
  <2>1. CASE SetStop(t)
    <3>1. /\ UNCHANGED <<queue, txVars, overrun, cleared>>
          /\ stopBit' = TRUE /\ stopped' = (queue # <<>>)
      BY <2>1 DEF SetStop
    <3> QED BY <1>0, <3>1
  <2>2. CASE ClearRepeat(t) \/ Return(t) \/ \E on \in BOOLEAN : SetLearning(t, on)
    BY <1>0, <2>2 DEF ClearRepeat, Return, SetLearning
  <2> QED BY <1>3, <2>1, <2>2
<1>4. CASE SendTask
  <2>1. CASE Peek \/ OutOfMemory
    BY <1>0, <2>1 DEF Peek, Peeked, OutOfMemory
  <2>2. CASE Frame
    <3>1. queue = <<cur>> /\ Head(queue) = cur
      BY <1>0, <2>2 DEF Frame, QueueHeadOwned
    <3>2. /\ UNCHANGED <<queue, stopBit, stopped, cleared, repeat, hold>>
          /\ elapsed' = elapsed + 1 /\ spc = "frame"
          /\ overrun' = IF stopped /\ overrun < 2 THEN overrun + 1 ELSE overrun
          /\ HasCallback => spc' = "callback"
      BY <2>2 DEF Frame
    <3>3. Controlled' <=> Controlled
      BY <3>2
    <3>4. Controlled => HasCallback
      BY <3>1 DEF HasCallback
    <3>5. overrun # 1 \/ ~(Controlled /\ ~cleared)
      BY <1>0, <3>2
    <3> HIDE DEF Controlled
    <3> QED BY <1>0, <3>2, <3>3, <3>4, <3>5
  <2>3. CASE Callback
    BY <1>0, <2>3 DEF Callback, StopSeen
  <2>4. CASE Rearm
    BY <1>0, <2>4 DEF Rearm
  <2>5. CASE Decide
    BY <1>0, <2>5 DEF Decide
  <2>6. CASE Reply
    BY <1>0, <2>6 DEF Reply
  <2>7. CASE Release
    BY <1>0, <2>7 DEF Release
  <2> QED BY <1>4, <2>1, <2>2, <2>3, <2>4, <2>5, <2>6, <2>7 DEF SendTask
<1> QED BY <1>1, <1>2, <1>3, <1>4, NextCases

LEMMA StopInvariance == Spec => [](IInv /\ StopOK)
<1>1. IInv /\ StopOK /\ [Next]_vars => StopOK'
  <2>1. ASSUME StopOK, UNCHANGED vars PROVE StopOK'
    BY <2>1 DEF StopOK, Controlled, vars
  <2> QED BY <2>1, StopStep
<1> QED BY <1>1, InitIInv, StopInit, IInvStep, PTL DEF Spec

\* Any number of tasks may send and stop: after stopSend() met a message that
\* repeats or holds, at most one more frame of it is sent, unless a send() that
\* had found the queue empty before cleared the stop bit (l.266).
THEOREM StopIsKept == Spec => []StopKept
<1>1. StopOK => StopKept
  BY DEF StopOK, StopKept, StopHonoured
<1> QED BY <1>1, StopInvariance, PTL

-----------------------------------------------------------------------------
(* One sender only, as the comments in service_ir.cpp assume.              *)

OneSender == \A t, u \in Sender : t = u

\* Between its look at the queue and xQueueSendToBack, the only sender finds
\* the queue empty; afterwards the message on it is its own.
SoleOK ==
  /\ \A t \in Task : pc[t] \in {"clear", "enqueue"} => queue = <<>>
  /\ \A t \in Task : pc[t] = "record" /\ queue # <<>> => Head(queue) = call[t]

AloneInv == IInv /\ SoleOK /\ StopOK /\ ~cleared

LEMMA InitAlone == Init => AloneInv
<1> SUFFICES ASSUME Init PROVE AloneInv
  OBVIOUS
<1>1. SoleOK /\ ~cleared
  BY DEF Init, SoleOK
<1> QED BY <1>1, InitIInv, StopInit DEF AloneInv

\* While the only sender is inside send(), no other task is.
LEMMA Alone ==
  ASSUME OneSender, IInv, NEW t \in Sender
  PROVE  \A u \in Task \ {t} : pc[u] \notin InSend
  BY DEF OneSender, IInv, CallsOK

LEMMA SoleStep ==
  ASSUME OneSender, AloneInv, Next
  PROVE  SoleOK'
<1>0. IInv /\ SoleOK /\ TypeOK /\ QueueOK
  BY DEF AloneInv, IInv
<1> USE TaskAssumption DEF InSend, Goto, ReturnWith
<1>1. ASSUME NEW t \in Sender, NEW r \in Request, Call(t, r) PROVE SoleOK'
  <2>1. UNCHANGED queue /\ pc'[t] \in {"returned", "sending?"}
    BY <1>0, <1>1 DEF Call, TypeOK
  <2>2. \A u \in Task \ {t} : pc'[u] = pc[u] /\ call'[u] = call[u]
    BY <1>0, <1>1, CallEffect, CallType
  <2> QED BY <1>0, <2>1, <2>2 DEF SoleOK
<1>2. ASSUME NEW t \in Sender, SendStep(t) PROVE SoleOK'
  <2>0. \A u \in Task \ {t} : pc[u] \notin InSend /\ pc'[u] = pc[u]
    BY <1>0, <1>2, Alone, StepEffect
  <2>1. CASE CheckSending(t) \/ CompareCode(t)
    BY <1>0, <2>0, <2>1 DEF CheckSending, CompareCode, Sending, SoleOK, TypeOK
  <2>2. CASE Extend(t) \/ ClearBits(t) \/ RecordCode(t)
    BY <1>0, <2>0, <2>2 DEF Extend, ClearBits, RecordCode, SoleOK, TypeOK
  <2>3. CASE Enqueue(t)
    <3>1. UNCHANGED call /\ pc'[t] \in {"record", "returned"}
      BY <1>0, <2>3 DEF Enqueue, TypeOK
    <3>2. CASE queue' = <<call[t]>> /\ pc'[t] = "record"
      BY <2>0, <3>1, <3>2 DEF SoleOK
    <3>3. CASE UNCHANGED queue /\ pc'[t] = "returned"
      BY <1>0, <2>0, <2>3, <3>1, <3>3 DEF Enqueue, SoleOK
    <3> QED BY <1>0, <2>3, <3>2, <3>3, EnqueueEffect DEF TypeOK
  <2> QED BY <1>2, <2>1, <2>2, <2>3 DEF SendStep
<1>3. ASSUME NEW t \in Task,
             \/ SetStop(t) \/ ClearRepeat(t) \/ Return(t)
             \/ \E on \in BOOLEAN : SetLearning(t, on)
      PROVE  SoleOK'
  <2>1. \A u \in Task : pc'[u] \in InSend => pc[u] \in InSend /\ call'[u] = call[u] /\ pc'[u] = pc[u]
    BY <1>0, <1>3, StepEffect DEF SetStop, ClearRepeat, Return, SetLearning, TypeOK
  <2>2. UNCHANGED queue
    BY <1>3 DEF SetStop, ClearRepeat, Return, SetLearning
  <2> QED BY <1>0, <2>1, <2>2 DEF SoleOK
<1>4. CASE SendTask
  <2>1. UNCHANGED callerVars /\ (queue' = queue \/ queue' = <<>>)
    BY <1>4 DEF SendTask, Peek, Peeked, OutOfMemory, Frame, Callback, Rearm, Decide, Reply, Release
  <2> QED BY <1>0, <2>1 DEF SoleOK
<1> QED BY <1>1, <1>2, <1>3, <1>4, NextCases

\* The only sender clears the event bits while the queue is empty, when no
\* stop is meant for a message.
LEMMA ClearedStep ==
  ASSUME OneSender, AloneInv, Next
  PROVE  ~cleared'
<1>0. ~cleared /\ SoleOK /\ (stopped => queue # <<>>)
  BY DEF AloneInv, StopOK
<1>1. ASSUME NEW t \in Task, ClearBits(t) PROVE ~cleared'
  BY <1>0, <1>1 DEF ClearBits, SoleOK
<1>2. ASSUME NEW t \in Task, CallerStep(t), ~ClearBits(t) PROVE ~cleared'
  BY <1>0, <1>2 DEF CallerStep, Call, SendStep, CheckSending, CompareCode, Extend, Enqueue,
                    RecordCode, SetStop, ClearRepeat, Return, SetLearning
<1>3. CASE SendTask
  BY <1>0, <1>3 DEF SendTask, Peek, OutOfMemory, Frame, Callback, Rearm, Decide, Reply, Release
<1> QED BY <1>1, <1>2, <1>3, NextCases, TaskAssumption DEF CallerStep

LEMMA AloneStep ==
  ASSUME OneSender
  PROVE  AloneInv /\ [Next]_vars => AloneInv'
<1>1. ASSUME AloneInv, Next PROVE AloneInv'
  BY <1>1, IInvStep, SoleStep, StopStep, ClearedStep DEF AloneInv
<1>2. ASSUME AloneInv, UNCHANGED vars PROVE AloneInv'
  <2>1. IInv'
    BY <1>2, IInvStep DEF AloneInv
  <2>2. SoleOK' /\ StopOK' /\ ~cleared'
    BY <1>2 DEF AloneInv, SoleOK, StopOK, Controlled, vars
  <2> QED BY <2>1, <2>2 DEF AloneInv
<1> QED BY <1>1, <1>2

LEMMA AloneInvariance ==
  ASSUME OneSender
  PROVE  Spec => []AloneInv
  BY InitAlone, AloneStep, PTL DEF Spec

\* With one sender no stop bit is cleared: stopping always ends a transmission
\* that repeats or holds within a frame.
THEOREM StopIsHonoured ==
  ASSUME OneSender
  PROVE  Spec => []StopHonoured
<1>1. AloneInv => StopHonoured
  BY DEF AloneInv, StopOK, StopHonoured
<1> QED BY <1>1, AloneInvariance, PTL
=============================================================================
