-------------------------- MODULE LogStreamProofs --------------------------
(***************************************************************************)
(* Theorems about LogStream for any number of clients, logging tasks and   *)
(* sender tasks, any queue depth and any limit of subscribers.             *)
(***************************************************************************)
EXTENDS LogStream, FiniteSetTheorems, TLAPS

USE DEF routerVars, senderVars, clientVars

-----------------------------------------------------------------------------
(* Counting sentinels                                                      *)

SentinelsOf(q) == {i \in 1..Len(q) : q[i] = Sentinel}
CountOf(q)     == Cardinality(SentinelsOf(q))

LEMMA CountType ==
  ASSUME NEW q \in Seq({Entry, Sentinel})
  PROVE  IsFiniteSet(SentinelsOf(q)) /\ CountOf(q) \in Nat
<1>1. Len(q) \in Nat /\ IsFiniteSet(1..Len(q))
  BY FS_Interval
<1>2. SentinelsOf(q) \in SUBSET (1..Len(q))
  BY DEF SentinelsOf
<1> QED BY <1>1, <1>2, FS_Subset, FS_CardinalityType DEF CountOf

LEMMA CountEmpty == CountOf(<<>>) = 0
<1>1. SentinelsOf(<<>>) = {}
  BY DEF SentinelsOf
<1> QED BY <1>1, FS_EmptySet DEF CountOf

LEMMA CountAppend ==
  ASSUME NEW q \in Seq({Entry, Sentinel})
  PROVE  /\ CountOf(Append(q, Entry)) = CountOf(q)
         /\ CountOf(Append(q, Sentinel)) = CountOf(q) + 1
<1>1. SentinelsOf(Append(q, Entry)) = SentinelsOf(q)
  BY DEF SentinelsOf, Entry, Sentinel
<1>2. SentinelsOf(Append(q, Sentinel)) = SentinelsOf(q) \union {Len(q) + 1}
  BY DEF SentinelsOf, Entry, Sentinel
<1>3. Len(q) + 1 \notin SentinelsOf(q)
  BY DEF SentinelsOf
<1> QED BY <1>1, <1>2, <1>3, CountType, FS_AddElement DEF CountOf

\* Taking the head of the queue moves every other sentinel by one position.
LEMMA CountTail ==
  ASSUME NEW q \in Seq({Entry, Sentinel}), q # <<>>
  PROVE  CountOf(Tail(q)) = CountOf(q) - (IF Head(q) = Sentinel THEN 1 ELSE 0)
<1> DEFINE A == SentinelsOf(Tail(q))
           B == SentinelsOf(q) \ {1}
           f == [i \in A |-> i + 1]
<1>1. Tail(q) \in Seq({Entry, Sentinel}) /\ Len(q) \in Nat \ {0}
  OBVIOUS
<1>2. A = {i \in 1..(Len(q) - 1) : q[i + 1] = Sentinel}
  BY <1>1 DEF SentinelsOf
<1>3. f \in Bijection(A, B)
  <2>1. f \in [A -> B]
    BY <1>1, <1>2 DEF SentinelsOf
  <2>2. \A i, j \in A : f[i] = f[j] => i = j
    BY <1>2
  <2>3. ASSUME NEW j \in B PROVE \E i \in A : f[i] = j
    <3>1. j - 1 \in A /\ f[j - 1] = j
      BY <1>1, <1>2 DEF SentinelsOf
    <3> QED BY <3>1
  <2> QED BY <2>1, <2>2, <2>3 DEF Bijection, Injection, Surjection, IsInjective
<1>4. Cardinality(A) = Cardinality(B)
  BY <1>1, <1>3, CountType, FS_Bijection DEF ExistsBijection
<1>5. 1 \in SentinelsOf(q) <=> Head(q) = Sentinel
  BY <1>1 DEF SentinelsOf
<1>6. IsFiniteSet(SentinelsOf(q))
  BY CountType
<1>7. Cardinality(B) = IF 1 \in SentinelsOf(q) THEN CountOf(q) - 1 ELSE CountOf(q)
  BY <1>6, FS_RemoveElement DEF CountOf
<1>8. CountOf(q) \in Nat
  BY CountType
<1> HIDE DEF A, B
<1> QED BY <1>4, <1>5, <1>7, <1>8 DEF CountOf, A

-----------------------------------------------------------------------------
(* The invariant                                                           *)

\* Undisturbed, the handlers of the two tasks alternate.
Alternate == ~disturbed => \E a \in Actor : pc[a] = "idle"

\* Only a request starts the stream.
HttpdStarts == pc[EventTask] \notin {"activate", "create", "assert"}

\* What subscribers, log_queue_ and g_active have to do with each other, at
\* rest and at every step of a handler.
LinkOK ==
  ~disturbed =>
    /\ (\A a \in Actor : pc[a] = "idle") => (linked <=> subscribers # {}) /\ (active <=> linked)
    /\ \A a \in Actor :
         /\ pc[a] = "decide" => /\ any[a] <=> subscribers # {}
                                /\ active <=> linked
                                /\ a = EventTask /\ any[a] => linked
         /\ pc[a] = "activate" => linked /\ ~active /\ subscribers # {}
         /\ pc[a] \in {"create", "assert"} => linked /\ active /\ subscribers # {}
         /\ pc[a] = "deactivate" => linked /\ subscribers = {}
         /\ pc[a] \in {"sentinel", "unlink"} => linked /\ ~active /\ subscribers = {}

\* A started stream owes its subscribers a task, from the creation of the
\* task until its sentinel is posted.
Owed == IF linked /\ \A a \in Actor : pc[a] \notin {"activate", "create", "unlink"} THEN 1 ELSE 0

\* Each sentinel in the queue ends one task, or none: enough are left.
Balance == ~disturbed => Cardinality(Live) >= CountOf(queue) + Owed

\* A stream without a task to serve it is stopped, but while its task is to be
\* created: nobody enters the hook, and each task in it posts one entry.
Unserved == /\ ~disturbed
            /\ \A t \in Task : task[t] \in {"none", "exit"}
            /\ pc[Httpd] # "create"

Leftover == Unserved => ~active /\ Len(queue) + Cardinality(posting) <= Cardinality(Producer)

\* Who is subscribed is connected, or its disconnect is still to be handled.
Members(q) == {q[i] : i \in 1..Len(q)}
Connected  == subscribers \subseteq open \union Members(events)

StreamInv == TypeOK /\ Alternate /\ HttpdStarts /\ LinkOK /\ Balance /\ Leftover /\ Connected

LEMMA LiveFinite == IsFiniteSet(Live) /\ Cardinality(Live) \in Nat
<1>1. Live \in SUBSET Task
  BY DEF Live
<1> QED BY <1>1, TaskAssumption, FS_Subset, FS_CardinalityType

LEMMA InitStream == Init => StreamInv
<1> SUFFICES ASSUME Init PROVE StreamInv
  OBVIOUS
<1> USE DEF Init
<1>1. TypeOK
  <2>1. /\ queue \in Seq({Entry, Sentinel}) /\ Len(queue) <= Depth
        /\ events \in Seq(Client) /\ Len(events) <= MaxEvents
    BY DepthAssumption, MaxEventsAssumption
  <2>2. task \in [Task -> TaskPc] /\ pc \in [Actor -> ActorPc] /\ any \in [Actor -> BOOLEAN]
    BY DEF TaskPc, ActorPc
  <2> QED BY <2>1, <2>2 DEF TypeOK
<1>2. Alternate /\ HttpdStarts /\ LinkOK
  BY DEF Alternate, HttpdStarts, LinkOK, Actor
<1>3. Balance
  BY CountEmpty, LiveFinite DEF Balance, Owed
<1>4. Leftover
  BY ProducerAssumption, FS_EmptySet, FS_CardinalityType DEF Leftover, Unserved
<1>5. Connected
  BY DEF Connected
<1> QED BY <1>1, <1>2, <1>3, <1>4, <1>5 DEF StreamInv

-----------------------------------------------------------------------------
(* Type correctness                                                        *)

LEMMA GotoType ==
  ASSUME TypeOK, NEW a \in Actor, NEW label \in ActorPc, Goto(a, label)
  PROVE  /\ pc' \in [Actor -> ActorPc]
         /\ pc' = [pc EXCEPT ![a] = label]
  BY DEF TypeOK, Goto

LEMMA TaskGotoType ==
  ASSUME TypeOK, NEW t \in Task, NEW label \in TaskPc, TaskGoto(t, label)
  PROVE  task' \in [Task -> TaskPc]
  BY DEF TypeOK, TaskGoto

LEMMA TailType ==
  ASSUME NEW S, NEW q \in Seq(S), NEW n \in Nat, q # <<>>, Len(q) <= n
  PROVE  Head(q) \in S /\ Tail(q) \in Seq(S) /\ Len(Tail(q)) <= n
  OBVIOUS

LEMMA AppendType ==
  ASSUME NEW S, NEW q \in Seq(S), NEW n \in Nat, NEW e \in S, Len(q) < n
  PROVE  Append(q, e) \in Seq(S) /\ Len(Append(q, e)) <= n
  OBVIOUS

LEMMA TypeStep ==
  ASSUME TypeOK, Next
  PROVE  TypeOK'
<1> USE DEF TypeOK
<1> USE DepthAssumption, MaxEventsAssumption
<1>1. ASSUME NEW p \in Producer, Log(p) PROVE TypeOK'
  BY <1>1 DEF Log
<1>2. ASSUME NEW p \in Producer, Post(p) PROVE TypeOK'
  <2>1. queue' \in Seq({Entry, Sentinel}) /\ Len(queue') <= Depth
    BY <1>2, AppendType DEF Post, Room
  <2> QED BY <1>2, <2>1 DEF Post
<1>3. ASSUME NEW p \in Producer, Drop(p) PROVE TypeOK'
  BY <1>3 DEF Drop
<1>4. ASSUME NEW c \in Client, Connect(c) PROVE TypeOK'
  BY <1>4 DEF Connect
<1>5. ASSUME NEW c \in Client, Disconnect(c) PROVE TypeOK'
  <2>1. events' \in Seq(Client) /\ Len(events') <= MaxEvents
    BY <1>5, AppendType DEF Disconnect
  <2> QED BY <1>5, <2>1 DEF Disconnect
<1>6. ASSUME NEW a \in Actor, NEW s \in SUBSET Client, Begin(a, s)
      PROVE  /\ pc' \in [Actor -> ActorPc] /\ any' \in [Actor -> BOOLEAN]
             /\ subscribers' \subseteq Client /\ disturbed' \in BOOLEAN
  <2>1. "decide" \in ActorPc
    BY DEF ActorPc
  <2> QED BY <1>6, <2>1, GotoType DEF Begin
<1>7. ASSUME NEW c \in Client, Enable(c) PROVE TypeOK'
  <2>1. Httpd \in Actor /\ subscribers \union {c} \in SUBSET Client
    BY DEF Actor
  <2>2. Begin(Httpd, subscribers \union {c})
    BY <1>7 DEF Enable
  <2> QED BY <1>6, <1>7, <2>1, <2>2 DEF Enable
<1>8. ASSUME NEW c \in Client, Disable(c) PROVE TypeOK'
  <2>1. Httpd \in Actor /\ subscribers \ {c} \in SUBSET Client
    BY DEF Actor
  <2>2. Begin(Httpd, subscribers \ {c})
    BY <1>8 DEF Disable
  <2> QED BY <1>6, <1>8, <2>1, <2>2 DEF Disable
<1>9. CASE TakeEvent
  <2>1. EventTask \in Actor /\ Remaining(Head(events)) \in SUBSET Client
    BY DEF Actor, Remaining
  <2>2. Begin(EventTask, Remaining(Head(events)))
    BY <1>9 DEF TakeEvent
  <2>3. Head(events) \in Client /\ Tail(events) \in Seq(Client) /\ Len(Tail(events)) <= MaxEvents
    BY <1>9, TailType DEF TakeEvent
  <2> QED BY <1>6, <1>9, <2>1, <2>2, <2>3 DEF TakeEvent
<1>10. ASSUME NEW a \in Actor, Finish(a)
       PROVE  pc' \in [Actor -> ActorPc] /\ handling' \in Client \union {None}
  <2>1. "idle" \in ActorPc
    BY DEF ActorPc
  <2> QED BY <1>10, <2>1, GotoType DEF Finish
<1>11. ASSUME NEW a \in Actor, Decide(a) PROVE TypeOK'
  <2>1. {"activate", "deactivate"} \subseteq ActorPc
    BY DEF ActorPc
  <2>2. /\ pc' \in [Actor -> ActorPc] /\ handling' \in Client \union {None} /\ linked' \in BOOLEAN
    BY <1>10, <1>11, <2>1, GotoType DEF Decide
  <2> QED BY <1>11, <2>2 DEF Decide
<1>12. CASE Activate
  <2>1. Httpd \in Actor /\ "create" \in ActorPc
    BY DEF Actor, ActorPc
  <2> QED BY <1>12, <2>1, GotoType DEF Activate
<1>13. ASSUME NEW t \in Task, Create(t) PROVE TypeOK'
  <2>1. Httpd \in Actor /\ "assert" \in ActorPc /\ "created" \in TaskPc
    BY DEF Actor, ActorPc, TaskPc
  <2> QED BY <1>13, <2>1, GotoType DEF Create
<1>14. CASE CreateFails
  <2>1. Httpd \in Actor /\ "assert" \in ActorPc
    BY DEF Actor, ActorPc
  <2> QED BY <1>14, <2>1, GotoType DEF CreateFails
<1>15. CASE AssertHandle
  <2>1. Httpd \in Actor /\ "idle" \in ActorPc
    BY DEF Actor, ActorPc
  <2> QED BY <1>15, <2>1, GotoType DEF AssertHandle
<1>16. ASSUME NEW a \in Actor, Deactivate(a) PROVE TypeOK'
  <2>1. "sentinel" \in ActorPc
    BY DEF ActorPc
  <2> QED BY <1>16, <2>1, GotoType DEF Deactivate
<1>17. ASSUME NEW a \in Actor, PostSentinel(a) PROVE TypeOK'
  <2>1. "unlink" \in ActorPc
    BY DEF ActorPc
  <2>2. queue' \in Seq({Entry, Sentinel}) /\ Len(queue') <= Depth
    BY <1>17, AppendType DEF PostSentinel, Room
  <2> QED BY <1>17, <2>1, <2>2, GotoType DEF PostSentinel
<1>18. ASSUME NEW a \in Actor, LoseSentinel(a) PROVE TypeOK'
  <2>1. "unlink" \in ActorPc
    BY DEF ActorPc
  <2> QED BY <1>18, <2>1, GotoType DEF LoseSentinel
<1>19. ASSUME NEW a \in Actor, Unlink(a) PROVE TypeOK'
  BY <1>10, <1>19 DEF Unlink
<1>20. ASSUME NEW t \in Task, SenderStep(t) PROVE TypeOK'
  <2>1. {"none", "receive", "send", "drain", "exit"} \subseteq TaskPc
    BY DEF TaskPc
  <2>2. CASE FirstRun(t)
    BY <2>1, <2>2, TaskGotoType DEF FirstRun
  <2>3. CASE Receive(t)
    <3>1. queue' \in Seq({Entry, Sentinel}) /\ Len(queue') <= Depth
      BY <2>3, TailType DEF Receive
    <3>2. task' \in [Task -> TaskPc]
      BY <2>1, <2>3, TaskGotoType DEF Receive
    <3> QED BY <2>3, <3>1, <3>2 DEF Receive
  <2>4. CASE Sent(t)
    BY <2>1, <2>4, TaskGotoType DEF Sent
  <2>5. CASE Drain(t)
    <3>1. CASE Drained
      BY <2>1, <2>5, <3>1, TaskGotoType DEF Drain
    <3>2. CASE ~Drained
      <4>1. queue' \in Seq({Entry, Sentinel}) /\ Len(queue') <= Depth
        BY <2>5, <3>2, TailType DEF Drain, Drained
      <4> QED BY <2>5, <3>2, <4>1 DEF Drain
    <3> QED BY <3>1, <3>2
  <2>6. CASE Exit(t)
    BY <2>1, <2>6, TaskGotoType DEF Exit
  <2> QED BY <1>20, <2>2, <2>3, <2>4, <2>5, <2>6 DEF SenderStep
<1>21. CASE Reboot
  <2>1. task' \in [Task -> TaskPc] /\ pc' \in [Actor -> ActorPc] /\ any' \in [Actor -> BOOLEAN]
    BY <1>21 DEF Reboot, ActorPc, TaskPc
  <2>2. /\ queue' \in Seq({Entry, Sentinel}) /\ Len(queue') <= Depth
        /\ events' \in Seq(Client) /\ Len(events') <= MaxEvents
    BY <1>21 DEF Reboot
  <2> QED BY <1>21, <2>1, <2>2 DEF Reboot
<1> HIDE DEF TypeOK
<1> QED BY <1>1, <1>2, <1>3, <1>4, <1>5, <1>7, <1>8, <1>9, <1>11, <1>12, <1>13, <1>14, <1>15,
           <1>16, <1>17, <1>18, <1>19, <1>20, <1>21
     DEF Next, LogStep, ClientStep, HttpdStep, EventStep, StopStep, Actor

-----------------------------------------------------------------------------
(* The handlers alternate, and keep log_queue_ and g_active in step        *)

Links == <<active, linked, subscribers>>

LEMMA ControlStep ==
  ASSUME TypeOK, Alternate, HttpdStarts, LinkOK, Next
  PROVE  Alternate' /\ HttpdStarts' /\ LinkOK'
<1> USE ActorAssumption DEF Alternate, HttpdStarts, LinkOK, Actor, Goto
<1>0. /\ pc \in [Actor -> ActorPc] /\ any \in [Actor -> BOOLEAN]
      /\ linked \in BOOLEAN /\ active \in BOOLEAN /\ disturbed \in BOOLEAN
  BY DEF TypeOK
<1>1. ASSUME UNCHANGED <<pc, any, disturbed, Links>> PROVE Alternate' /\ HttpdStarts' /\ LinkOK'
  BY <1>1 DEF Links
<1>2. CASE LogStep
  BY <1>1, <1>2 DEF LogStep, Log, Post, Drop, Links
<1>3. ASSUME NEW c \in Client, Connect(c) \/ Disconnect(c)
      PROVE  Alternate' /\ HttpdStarts' /\ LinkOK'
  BY <1>1, <1>3 DEF Connect, Disconnect, Links
<1>4. ASSUME NEW a \in Actor, NEW s, Begin(a, s), UNCHANGED <<active, linked>>,
             a = EventTask /\ s # {} => subscribers # {}
      PROVE  Alternate' /\ HttpdStarts' /\ LinkOK'
  <2>1. pc' = [pc EXCEPT ![a] = "decide"] /\ any' = [any EXCEPT ![a] = (s # {})]
    BY <1>4 DEF Begin
  <2>2. subscribers' = s /\ active' = active /\ linked' = linked
    BY <1>4 DEF Begin
  <2>3. HttpdStarts'
    BY <1>0, <2>1
  <2>4. CASE disturbed'
    BY <2>3, <2>4
  <2>5. CASE ~disturbed'
    <3>1. ~disturbed /\ \A b \in Actor : pc[b] = "idle"
      BY <1>4, <2>5 DEF Begin
    <3>2. \A b \in Actor \ {a} : pc'[b] = "idle"
      BY <1>0, <2>1, <3>1
    <3>3. pc'[a] = "decide" /\ any'[a] = (s # {})
      BY <1>0, <2>1
    <3>4. (linked <=> subscribers # {}) /\ (active <=> linked)
      BY <3>1
    <3>5. \E b \in Actor : b # a
      OBVIOUS
    <3>6. Alternate'
      BY <3>2, <3>5
    <3>7. a = EventTask /\ any'[a] => linked'
      <4>1. any'[a] <=> s # {}
        BY <3>3
      <4>2. linked' <=> subscribers # {}
        BY <2>2, <3>4
      <4>3. a = EventTask /\ s # {} => subscribers # {}
        BY <1>4
      <4> QED BY <4>1, <4>2, <4>3
    <3>8. /\ ~(\A b \in Actor : pc'[b] = "idle")
          /\ any'[a] <=> subscribers' # {}
          /\ active' <=> linked'
      BY <2>2, <3>3, <3>4
    <3> HIDE DEF Alternate, HttpdStarts, Actor
    <3>9. LinkOK'
      BY <3>2, <3>3, <3>7, <3>8
    <3> QED BY <2>3, <3>6, <3>9
  <2> QED BY <2>4, <2>5
<1>5. ASSUME NEW c \in Client, Enable(c) \/ Disable(c)
      PROVE  Alternate' /\ HttpdStarts' /\ LinkOK'
  BY <1>4, <1>5 DEF Enable, Disable
<1>6. CASE TakeEvent
  BY <1>4, <1>6 DEF TakeEvent, Remaining
<1>7. ASSUME NEW a \in Actor, Decide(a) PROVE Alternate' /\ HttpdStarts' /\ LinkOK'
  BY <1>0, <1>7 DEF Decide, Starts, Stops, Finish
<1>8. CASE Activate \/ CreateFails \/ AssertHandle
  BY <1>0, <1>8 DEF Activate, CreateFails, AssertHandle
<1>9. ASSUME NEW t \in Task, Create(t) PROVE Alternate' /\ HttpdStarts' /\ LinkOK'
  BY <1>0, <1>9 DEF Create
<1>10. ASSUME NEW a \in Actor, StopStep(a) PROVE Alternate' /\ HttpdStarts' /\ LinkOK'
  BY <1>0, <1>10 DEF StopStep, Deactivate, PostSentinel, LoseSentinel, Unlink, Finish
<1>11. ASSUME NEW t \in Task, SenderStep(t) PROVE Alternate' /\ HttpdStarts' /\ LinkOK'
  BY <1>1, <1>11 DEF SenderStep, FirstRun, Receive, Sent, Drain, Exit, Links
<1>12. CASE Reboot
  BY <1>12 DEF Reboot
<1> QED BY <1>2, <1>3, <1>5, <1>6, <1>7, <1>8, <1>9, <1>10, <1>11, <1>12
        DEF Next, ClientStep, HttpdStep, EventStep

-----------------------------------------------------------------------------
(* Enough sender tasks                                                     *)

LEMMA OwedType == Owed \in {0, 1}
  BY DEF Owed

\* Every step but those of the stream's start, its stop and the sender tasks
\* leaves all three sides of the balance alone.
LEMMA BalanceKept ==
  ASSUME Balance, UNCHANGED <<task, queue, Owed>>, disturbed => disturbed'
  PROVE  Balance'
<1>1. Live' = Live /\ CountOf(queue)' = CountOf(queue) /\ Owed' = Owed
  BY DEF Live, CountOf, SentinelsOf
<1> QED BY <1>1 DEF Balance

LEMMA HandlerBalance ==
  ASSUME StreamInv, NEW a \in Actor,
         Decide(a) \/ Deactivate(a) \/ PostSentinel(a) \/ LoseSentinel(a) \/ Unlink(a)
  PROVE  Balance'
<1> USE DEF Actor, Goto
<1>1. /\ TypeOK /\ Alternate /\ LinkOK /\ Balance
      /\ pc \in [Actor -> ActorPc] /\ queue \in Seq({Entry, Sentinel})
  BY DEF StreamInv, TypeOK
<1>2. CountOf(queue) \in Nat /\ Cardinality(Live) \in Nat /\ Owed \in {0, 1} /\ Owed' \in {0, 1}
  BY <1>1, CountType, LiveFinite, OwedType DEF Owed
<1>3. ASSUME UNCHANGED <<task, queue, disturbed>>, Owed' <= Owed PROVE Balance'
  <2>1. Live' = Live /\ CountOf(queue)' = CountOf(queue)
    BY <1>3 DEF Live, CountOf, SentinelsOf
  <2> QED BY <1>1, <1>2, <1>3, <2>1 DEF Balance
<1>4. CASE Decide(a)
  <2>1. \/ Starts(a) /\ pc'[a] = "activate"
        \/ UNCHANGED linked /\ pc'[a] \in {"deactivate", "idle"}
    BY <1>1, <1>4 DEF Decide, Finish
  <2>2. CASE pc'[a] = "activate"
    BY <1>2, <1>3, <1>4, <2>2 DEF Decide, Owed
  <2>3. CASE UNCHANGED linked /\ pc'[a] \in {"deactivate", "idle"}
    <3>1. \A b \in Actor \ {a} : pc'[b] = pc[b]
      BY <1>1, <1>4 DEF Decide, Finish
    <3>2. pc[a] = "decide"
      BY <1>4 DEF Decide
    <3>3. Owed' = Owed
      BY <2>3, <3>1, <3>2 DEF Owed
    <3> QED BY <1>2, <1>3, <1>4, <3>3 DEF Decide
  <2> QED BY <2>1, <2>2, <2>3
<1>5. CASE Deactivate(a)
  <2>1. (\A b \in Actor \ {a} : pc'[b] = pc[b]) /\ pc[a] = "deactivate" /\ pc'[a] = "sentinel"
    BY <1>1, <1>5 DEF Deactivate
  <2>2. Owed' = Owed
    BY <1>5, <2>1 DEF Owed, Deactivate
  <2> QED BY <1>2, <1>3, <1>5, <2>2 DEF Deactivate
<1>6. CASE PostSentinel(a)
  <2>1. pc[a] = "sentinel" /\ pc'[a] = "unlink" /\ UNCHANGED <<task, disturbed>>
    BY <1>1, <1>6 DEF PostSentinel
  <2>2. Live' = Live /\ CountOf(queue') = CountOf(queue) + 1
    BY <1>1, <1>6, <2>1, CountAppend DEF PostSentinel, Live
  <2>3. Owed' = 0
    BY <2>1 DEF Owed
  <2>4. ~disturbed => Owed = 1
    BY <1>1, <2>1 DEF Owed, LinkOK, Alternate
  <2> QED BY <1>1, <1>2, <2>1, <2>2, <2>3, <2>4 DEF Balance
<1>7. CASE LoseSentinel(a)
  <2>1. pc'[a] = "unlink"
    BY <1>1, <1>7 DEF LoseSentinel
  <2> QED BY <1>2, <1>3, <1>7, <2>1 DEF LoseSentinel, Owed
<1>8. CASE Unlink(a)
  BY <1>2, <1>3, <1>8 DEF Unlink, Owed
<1> QED BY <1>4, <1>5, <1>6, <1>7, <1>8

LEMMA SenderBalance ==
  ASSUME TypeOK, Balance, NEW t \in Task, SenderStep(t)
  PROVE  Balance'
<1>1. queue \in Seq({Entry, Sentinel}) /\ task \in [Task -> TaskPc]
  BY DEF TypeOK
<1>2. CountOf(queue) \in Nat /\ Cardinality(Live) \in Nat /\ IsFiniteSet(Live) /\ Owed \in {0, 1}
  BY <1>1, CountType, LiveFinite, OwedType
<1>3. Owed' = Owed /\ disturbed' = disturbed
  BY DEF SenderStep, FirstRun, Receive, Sent, Drain, Exit, Owed
<1>4. ASSUME Live' = Live, UNCHANGED queue PROVE Balance'
  <2>1. CountOf(queue)' = CountOf(queue)
    BY <1>4 DEF CountOf, SentinelsOf
  <2> QED BY <1>3, <1>4, <2>1 DEF Balance
<1>5. CASE FirstRun(t) \/ Sent(t) \/ Exit(t)
  <2>1. Live' = Live /\ UNCHANGED queue
    BY <1>1, <1>5 DEF FirstRun, Sent, Exit, TaskGoto, Live
  <2> QED BY <1>4, <2>1
<1>6. CASE Receive(t)
  <2>1. CountOf(queue') = CountOf(queue) - (IF Head(queue) = Sentinel THEN 1 ELSE 0)
    BY <1>1, <1>6, CountTail DEF Receive
  <2>2. CASE Head(queue) = Sentinel
    <3>1. Live' = Live \ {t} /\ t \in Live
      BY <1>1, <1>6, <2>2 DEF Receive, TaskGoto, Ends, Live
    <3>2. Cardinality(Live') = Cardinality(Live) - 1
      BY <1>2, <3>1, FS_RemoveElement
    <3> QED BY <1>2, <1>3, <2>1, <2>2, <3>2 DEF Balance
  <2>3. CASE Head(queue) # Sentinel
    <3>1. Live' = Live
      BY <1>1, <1>6, <2>3 DEF Receive, TaskGoto, Ends, Live
    <3> QED BY <1>2, <1>3, <2>1, <2>3, <3>1 DEF Balance
  <2> QED BY <2>2, <2>3
<1>7. CASE Drain(t)
  <2>1. Live' = Live
    BY <1>1, <1>7 DEF Drain, TaskGoto, Live
  <2>2. CASE Drained
    BY <1>4, <1>7, <2>1, <2>2 DEF Drain
  <2>3. CASE ~Drained
    <3>1. CountOf(queue') = CountOf(queue) - (IF Head(queue) = Sentinel THEN 1 ELSE 0)
      BY <1>1, <1>7, <2>3, CountTail DEF Drain, Drained
    <3> QED BY <1>2, <1>3, <2>1, <3>1 DEF Balance
  <2> QED BY <2>2, <2>3
<1> QED BY <1>5, <1>6, <1>7 DEF SenderStep

LEMMA BalanceStep ==
  ASSUME StreamInv, Next
  PROVE  Balance'
<1> USE DEF Actor, Goto
<1>1. TypeOK /\ Balance /\ HttpdStarts
  BY DEF StreamInv
<1>2. /\ queue \in Seq({Entry, Sentinel}) /\ pc \in [Actor -> ActorPc] /\ task \in [Task -> TaskPc]
      /\ CountOf(queue) \in Nat /\ Cardinality(Live) \in Nat /\ IsFiniteSet(Live) /\ Owed \in {0, 1}
  BY <1>1, CountType, LiveFinite, OwedType DEF TypeOK
<1>3. CASE LogStep
  <2>1. UNCHANGED <<task, Owed, disturbed>>
    BY <1>3 DEF LogStep, Log, Post, Drop, Owed
  <2>2. CASE UNCHANGED queue
    BY <1>1, <2>1, <2>2, BalanceKept
  <2>3. CASE queue' = Append(queue, Entry)
    <3>1. CountOf(queue') = CountOf(queue) /\ Live' = Live
      BY <1>2, <2>1, <2>3, CountAppend DEF Live
    <3> QED BY <1>1, <2>1, <3>1 DEF Balance
  <2> QED BY <1>3, <2>2, <2>3 DEF LogStep, Log, Post, Drop
<1>4. ASSUME NEW c \in Client, Connect(c) \/ Disconnect(c) PROVE Balance'
  <2>1. UNCHANGED <<task, queue, Owed, disturbed>>
    BY <1>4 DEF Connect, Disconnect, Owed
  <2> QED BY <1>1, <2>1, BalanceKept
<1>5. ASSUME NEW a \in Actor, NEW s, Begin(a, s), UNCHANGED <<task, queue, linked>> PROVE Balance'
  <2>1. (\A b \in Actor \ {a} : pc'[b] = pc[b]) /\ pc[a] = "idle" /\ pc'[a] = "decide"
    BY <1>2, <1>5 DEF Begin
  <2>2. Owed' = Owed
    BY <1>5, <2>1 DEF Owed
  <2> QED BY <1>1, <1>5, <2>2, BalanceKept DEF Begin
<1>6. CASE TakeEvent \/ \E c \in Client : Enable(c) \/ Disable(c)
  BY <1>5, <1>6 DEF TakeEvent, Enable, Disable
<1>7. CASE Activate \/ AssertHandle
  <2>1. /\ pc'[EventTask] = pc[EventTask]
        /\ \/ pc[Httpd] = "activate" /\ pc'[Httpd] = "create"
           \/ pc[Httpd] = "assert" /\ pc'[Httpd] = "idle"
    BY <1>2, <1>7, ActorAssumption DEF Activate, AssertHandle
  <2>2. UNCHANGED <<task, queue, linked, disturbed>>
    BY <1>7 DEF Activate, AssertHandle
  <2>3. Owed' = Owed
    BY <2>1, <2>2 DEF Owed
  <2> QED BY <1>1, <2>2, <2>3, BalanceKept
<1>8. ASSUME NEW t \in Task, Create(t) PROVE Balance'
  <2>1. Live' = Live \union {t} /\ t \notin Live
    BY <1>2, <1>8 DEF Create, Live
  <2>2. Cardinality(Live') = Cardinality(Live) + 1
    BY <1>2, <2>1, FS_AddElement
  <2>3. UNCHANGED <<queue, disturbed>> /\ Owed' \in {0, 1} /\ Owed = 0
    BY <1>8 DEF Create, Owed
  <2> QED BY <1>1, <1>2, <2>2, <2>3 DEF Balance
<1>9. CASE CreateFails
  BY <1>9 DEF CreateFails, Balance
<1>10. ASSUME NEW a \in Actor, Decide(a) \/ StopStep(a) PROVE Balance'
  BY <1>10, HandlerBalance DEF StopStep
<1>11. ASSUME NEW t \in Task, SenderStep(t) PROVE Balance'
  BY <1>1, <1>11, SenderBalance
<1>12. CASE Reboot
  <2>1. CountOf(queue') = 0 /\ Owed' = 0
    BY <1>12, CountEmpty DEF Reboot, Owed
  <2>2. Cardinality(Live') \in Nat
    <3>1. Live' \in SUBSET Task
      BY DEF Live
    <3> QED BY <3>1, TaskAssumption, FS_Subset, FS_CardinalityType
  <2> QED BY <2>1, <2>2 DEF Balance
<1> QED BY <1>3, <1>4, <1>6, <1>7, <1>8, <1>9, <1>10, <1>11, <1>12
        DEF Next, ClientStep, HttpdStep, EventStep

-----------------------------------------------------------------------------
(* What is left in the queue                                               *)

LEMMA PostingSize ==
  ASSUME NEW S \in SUBSET Producer
  PROVE  /\ IsFiniteSet(S) /\ Cardinality(S) \in Nat /\ Cardinality(Producer) \in Nat
         /\ Cardinality(S) <= Cardinality(Producer)
BY ProducerAssumption, FS_Subset, FS_CardinalityType

\* Without a live task nothing is owed: the stream is off.
LEMMA NoTaskInactive ==
  ASSUME TypeOK, Alternate, HttpdStarts, LinkOK, Balance,
         Live = {}, ~disturbed, pc[Httpd] # "create"
  PROVE  ~active
<1>1. Cardinality(Live) = 0 /\ CountOf(queue) \in Nat /\ Owed \in {0, 1}
  BY FS_EmptySet, CountType, OwedType DEF TypeOK
<1>2. Owed = 0
  BY <1>1 DEF Balance
<1>3. ~linked \/ \E a \in Actor : pc[a] \in {"activate", "create", "unlink"}
  BY <1>2 DEF Owed
<1>4. CASE \E a \in Actor : pc[a] \in {"activate", "create", "unlink"}
  BY <1>4 DEF LinkOK, HttpdStarts, Actor
<1>5. CASE ~linked
  <2>1. pc \in [Actor -> ActorPc]
    BY DEF TypeOK
  <2>2. \A a \in Actor : pc[a] \in {"idle", "decide"}
    BY <1>5, <2>1 DEF LinkOK, ActorPc
  <2> QED BY <1>5, <2>2 DEF LinkOK
<1> QED BY <1>3, <1>4, <1>5

LEMMA LeftoverStep ==
  ASSUME StreamInv, Next
  PROVE  Leftover'
<1> USE ActorAssumption DEF Actor, Goto
<1>1. /\ TypeOK /\ Alternate /\ HttpdStarts /\ LinkOK /\ Balance /\ Leftover
      /\ pc \in [Actor -> ActorPc] /\ task \in [Task -> TaskPc]
      /\ posting \in SUBSET Producer
      /\ queue \in Seq({Entry, Sentinel}) /\ Len(queue) \in Nat
  BY DEF StreamInv, TypeOK
<1>2. /\ IsFiniteSet(posting) /\ Cardinality(posting) \in Nat
      /\ Cardinality(posting) <= Cardinality(Producer) /\ Cardinality(Producer) \in Nat
  BY <1>1, PostingSize
<1>3. ASSUME Unserved' => Unserved, UNCHANGED routerVars PROVE Leftover'
  BY <1>1, <1>3 DEF Leftover
<1>4. ASSUME NEW p \in Producer, Log(p) PROVE Leftover'
  <2>1. Unserved' => Unserved
    BY <1>4 DEF Log, Unserved
  <2> QED BY <1>1, <1>4, <2>1 DEF Log, Leftover
<1>5. ASSUME NEW p \in Producer, Post(p) \/ Drop(p) PROVE Leftover'
  <2>1. (Unserved' => Unserved) /\ UNCHANGED active
    BY <1>5 DEF Post, Drop, Unserved
  <2>2. Cardinality(posting') = Cardinality(posting) - 1
    BY <1>2, <1>5, FS_RemoveElement DEF Post, Drop
  <2>3. Len(queue') <= Len(queue) + 1 /\ Len(queue') \in Nat
    BY <1>1, <1>5 DEF Post, Drop
  <2> QED BY <1>1, <1>2, <2>1, <2>2, <2>3 DEF Leftover
<1>6. CASE ClientStep \/ TakeEvent
  <2>1. UNCHANGED <<routerVars, task>> /\ (disturbed => disturbed')
    <3>1. ASSUME NEW c \in Client, Connect(c) \/ Disconnect(c)
          PROVE  UNCHANGED <<routerVars, task, disturbed>>
      BY <3>1 DEF Connect, Disconnect
    <3>2. ASSUME NEW c \in Client, Enable(c) \/ Disable(c)
          PROVE  UNCHANGED <<routerVars, task>> /\ (disturbed => disturbed')
      BY <3>2 DEF Enable, Disable, Begin
    <3>3. CASE TakeEvent
      BY <3>3 DEF TakeEvent, Begin
    <3> QED BY <1>6, <3>1, <3>2, <3>3 DEF ClientStep
  <2>2. pc[Httpd] = "idle" \/ pc'[Httpd] = pc[Httpd]
    BY <1>1, <1>6 DEF ClientStep, Connect, Disconnect, Enable, Disable, TakeEvent, Begin
  <2> QED BY <1>3, <2>1, <2>2 DEF Unserved
<1>7. ASSUME NEW a \in Actor, Decide(a) \/ LoseSentinel(a) \/ Unlink(a) PROVE Leftover'
  <2>1. UNCHANGED <<routerVars, task, disturbed>> /\ pc[a] \in {"decide", "sentinel", "unlink"}
    BY <1>7 DEF Decide, LoseSentinel, Unlink
  <2>2. \A b \in Actor \ {a} : pc'[b] = pc[b]
    BY <1>1, <1>7 DEF Decide, LoseSentinel, Unlink, Finish
  <2> QED BY <1>3, <2>1, <2>2 DEF Unserved
<1>8. CASE Activate
  <2>1. pc'[Httpd] = "create"
    BY <1>1, <1>8 DEF Activate
  <2> QED BY <2>1 DEF Leftover, Unserved
<1>9. ASSUME NEW t \in Task, Create(t) PROVE Leftover'
  <2>1. task'[t] = "created"
    BY <1>1, <1>9 DEF Create
  <2> QED BY <2>1 DEF Leftover, Unserved
<1>10. CASE CreateFails
  BY <1>10 DEF CreateFails, Leftover, Unserved
<1>11. CASE AssertHandle
  <2>1. UNCHANGED <<routerVars, task, disturbed>> /\ pc[Httpd] = "assert"
    BY <1>11 DEF AssertHandle
  <2> QED BY <1>3, <2>1 DEF Unserved
<1>12. ASSUME NEW a \in Actor, Deactivate(a) PROVE Leftover'
  <2>1. UNCHANGED <<queue, posting, task, disturbed>> /\ pc[a] = "deactivate" /\ ~active'
    BY <1>12 DEF Deactivate
  <2>2. \A b \in Actor \ {a} : pc'[b] = pc[b]
    BY <1>1, <1>12 DEF Deactivate
  <2> QED BY <1>1, <2>1, <2>2 DEF Leftover, Unserved
\* The stream that is stopped owes a task until its sentinel is posted.
<1>13. ASSUME NEW a \in Actor, PostSentinel(a) PROVE Leftover'
  <2>1. UNCHANGED <<task, disturbed>> /\ pc[a] = "sentinel"
    BY <1>13 DEF PostSentinel
  <2>2. ~disturbed => Owed = 1
    BY <1>1, <2>1 DEF Owed, LinkOK, Alternate
  <2>3. CountOf(queue) \in Nat /\ IsFiniteSet(Live) /\ Cardinality(Live) \in Nat
    BY <1>1, CountType, LiveFinite
  <2>4. ~disturbed => Live # {}
    BY <1>1, <2>2, <2>3, FS_EmptySet DEF Balance
  <2>5. ~Unserved'
    BY <2>1, <2>4 DEF Unserved, Live
  <2> QED BY <2>5 DEF Leftover
<1>14. ASSUME NEW t \in Task, FirstRun(t) \/ Receive(t) \/ Sent(t) PROVE Leftover'
  <2>1. task'[t] \in {"receive", "send", "drain"}
    BY <1>1, <1>14 DEF FirstRun, Receive, Sent, TaskGoto
  <2> QED BY <2>1 DEF Leftover, Unserved
\* The last task frees whatever is queued when it drains.
<1>15. ASSUME NEW t \in Task, Drain(t) PROVE Leftover'
  <2>1. CASE Drained
    <3>1. /\ UNCHANGED <<active, queue, posting, disturbed, pc, linked, subscribers, any>>
          /\ queue = <<>>
      BY <1>15, <2>1 DEF Drain, Drained
    <3>2. ASSUME Unserved' PROVE ~active
      <4>1. Live = {} /\ ~disturbed /\ pc[Httpd] # "create"
        BY <1>1, <1>15, <2>1, <3>1, <3>2 DEF Drain, TaskGoto, Live, Unserved
      <4> QED BY <1>1, <4>1, NoTaskInactive
    <3> QED BY <1>2, <3>1, <3>2 DEF Leftover
  <2>2. CASE ~Drained
    <3>1. task'[t] = "drain"
      BY <1>1, <1>15, <2>2 DEF Drain
    <3> QED BY <3>1 DEF Leftover, Unserved
  <2> QED BY <2>1, <2>2
<1>16. ASSUME NEW t \in Task, Exit(t) PROVE Leftover'
  <2>1. UNCHANGED routerVars /\ (Unserved' => Unserved)
    BY <1>1, <1>16 DEF Exit, TaskGoto, Unserved
  <2> QED BY <1>3, <2>1
<1>17. CASE Reboot
  <2>1. ~active' /\ queue' = <<>> /\ posting' = {}
    BY <1>17 DEF Reboot
  <2>2. Cardinality({}) = 0
    BY FS_EmptySet
  <2> QED BY <1>2, <2>1, <2>2 DEF Leftover
<1> QED BY <1>4, <1>5, <1>6, <1>7, <1>8, <1>9, <1>10, <1>11, <1>12, <1>13, <1>14, <1>15, <1>16, <1>17
        DEF Next, LogStep, HttpdStep, EventStep, StopStep, SenderStep

-----------------------------------------------------------------------------
(* Subscribed and connected                                                *)

LEMMA MembersAppend ==
  ASSUME NEW S, NEW q \in Seq(S), NEW e \in S
  PROVE  Members(Append(q, e)) = Members(q) \union {e}
<1>1. Len(Append(q, e)) = Len(q) + 1 /\ Len(q) \in Nat
  OBVIOUS
<1>2. \A i \in 1..Len(q) : Append(q, e)[i] = q[i]
  OBVIOUS
<1>3. Append(q, e)[Len(q) + 1] = e
  OBVIOUS
<1>4. 1..(Len(q) + 1) = (1..Len(q)) \union {Len(q) + 1}
  BY <1>1
<1> QED BY <1>1, <1>2, <1>3, <1>4 DEF Members

LEMMA MembersTail ==
  ASSUME NEW S, NEW q \in Seq(S), q # <<>>
  PROVE  Members(q) = Members(Tail(q)) \union {Head(q)}
<1>1. Len(Tail(q)) = Len(q) - 1 /\ Len(q) \in Nat \ {0}
  OBVIOUS
<1>2. \A i \in 1..(Len(q) - 1) : Tail(q)[i] = q[i + 1]
  OBVIOUS
<1>3. Head(q) = q[1]
  OBVIOUS
<1>4. ASSUME NEW i \in 1..Len(q) PROVE q[i] \in Members(Tail(q)) \union {Head(q)}
  <2>1. CASE i = 1
    BY <1>3, <2>1
  <2>2. CASE i # 1
    <3>1. i - 1 \in 1..(Len(q) - 1) /\ Tail(q)[i - 1] = q[i]
      BY <1>1, <1>2, <2>2
    <3> QED BY <1>1, <3>1 DEF Members
  <2> QED BY <2>1, <2>2
<1>5. ASSUME NEW i \in 1..Len(Tail(q)) PROVE Tail(q)[i] \in Members(q)
  <2>1. i + 1 \in 1..Len(q) /\ Tail(q)[i] = q[i + 1]
    BY <1>1, <1>2
  <2> QED BY <2>1 DEF Members
<1>6. Head(q) \in Members(q)
  BY <1>1, <1>3 DEF Members
<1> QED BY <1>4, <1>5, <1>6 DEF Members

LEMMA ConnectedStep ==
  ASSUME TypeOK, Connected, Next
  PROVE  Connected'
<1> USE DEF Connected
<1>1. events \in Seq(Client)
  BY DEF TypeOK
<1>2. ASSUME UNCHANGED <<subscribers, events>>, open \subseteq open' PROVE Connected'
  BY <1>2
<1>3. CASE LogStep
  BY <1>2, <1>3 DEF LogStep, Log, Post, Drop
<1>4. ASSUME NEW c \in Client, Connect(c) PROVE Connected'
  BY <1>2, <1>4 DEF Connect
\* A session that is closed leaves its event.
<1>5. ASSUME NEW c \in Client, Disconnect(c) PROVE Connected'
  <2>1. events' = Append(events, c) /\ open' = open \ {c} /\ UNCHANGED subscribers
    BY <1>5 DEF Disconnect
  <2>2. Members(events') = Members(events) \union {c}
    BY <1>1, <2>1, MembersAppend
  <2> QED BY <2>1, <2>2
\* Only an open session is served.
<1>6. ASSUME NEW c \in Client, Enable(c) \/ Disable(c) PROVE Connected'
  BY <1>6 DEF Enable, Disable, Begin
\* The handler of the event ends the subscription.
<1>7. CASE TakeEvent
  <2>1. /\ subscribers' = subscribers \ {Head(events)}
        /\ events' = Tail(events) /\ events # <<>> /\ UNCHANGED open
    BY <1>7 DEF TakeEvent, Begin, Remaining
  <2>2. Members(events) = Members(events') \union {Head(events)}
    BY <1>1, <2>1, MembersTail
  <2> QED BY <2>1, <2>2
<1>8. ASSUME NEW a \in Actor, Decide(a) \/ StopStep(a) PROVE Connected'
  BY <1>2, <1>8 DEF Decide, StopStep, Deactivate, PostSentinel, LoseSentinel, Unlink
<1>9. CASE Activate \/ CreateFails \/ AssertHandle
  BY <1>2, <1>9 DEF Activate, CreateFails, AssertHandle
<1>10. ASSUME NEW t \in Task, Create(t) \/ SenderStep(t) PROVE Connected'
  BY <1>2, <1>10 DEF Create, SenderStep, FirstRun, Receive, Sent, Drain, Exit
<1>11. CASE Reboot
  BY <1>11 DEF Reboot
<1> HIDE DEF Connected
<1> QED BY <1>3, <1>4, <1>5, <1>6, <1>7, <1>8, <1>9, <1>10, <1>11, ActorAssumption
        DEF Next, ClientStep, HttpdStep, EventStep, Actor

-----------------------------------------------------------------------------
(* The theorems                                                            *)

LEMMA StreamInvariance == Spec => []StreamInv
<1>1. StreamInv /\ [Next]_vars => StreamInv'
  <2> SUFFICES ASSUME StreamInv, [Next]_vars PROVE StreamInv'
    OBVIOUS
  <2>1. CASE Next
    <3>1. TypeOK /\ Alternate /\ HttpdStarts /\ LinkOK /\ Connected
      BY DEF StreamInv
    <3> QED BY <2>1, <3>1, TypeStep, ControlStep, BalanceStep, LeftoverStep, ConnectedStep
           DEF StreamInv
  <2>2. CASE UNCHANGED vars
    BY <2>2 DEF vars, StreamInv, TypeOK, Alternate, HttpdStarts, LinkOK, Balance, Owed, Live,
                CountOf, SentinelsOf, Leftover, Unserved, Connected, Members
  <2> QED BY <2>1, <2>2
<1> QED BY <1>1, InitStream, PTL DEF Spec

\* Every variable of the log stream keeps its type: the queue never exceeds
\* LOG_QUEUE_DEPTH (log_router.c l.17-19).
THEOREM LogTypeCorrect == Spec => []TypeOK
<1>1. StreamInv => TypeOK
  BY DEF StreamInv
<1> QED BY <1>1, StreamInvariance, PTL

\* ucd_api.cpp l.1757-1767: however often the stream is started and stopped,
\* however many sentinels are lost or swallowed, somebody who is subscribed
\* has a sender task that no sentinel in the queue will end.
THEOREM SubscribersAreServed == Spec => []StreamAlive
<1>1. StreamInv => StreamAlive
  <2> SUFFICES ASSUME StreamInv, Settled, ~disturbed, subscribers # {}
               PROVE  active /\ linked /\ Cardinality(Live) > Cardinality(Sentinels)
    BY DEF StreamAlive
  <2>1. active /\ linked
    BY DEF StreamInv, LinkOK, Settled
  <2>2. Owed = 1
    BY <2>1 DEF Owed, Settled
  <2>3. Sentinels = SentinelsOf(queue) /\ CountOf(queue) \in Nat /\ Cardinality(Live) \in Nat
    BY CountType, LiveFinite DEF Sentinels, SentinelsOf, StreamInv, TypeOK
  <2> QED BY <2>1, <2>2, <2>3 DEF StreamInv, Balance, CountOf
<1> QED BY <1>1, StreamInvariance, PTL

\* ucd_api.cpp l.530-532, l.1745: a closed socket is subscribed no longer than
\* its disconnect is unhandled, and then counts against MAX_WS_LOG_SUBS no more.
THEOREM NoStaleSubscriber == Spec => []SubscribersConnected
<1>1. StreamInv => SubscribersConnected
  BY DEF StreamInv, Connected, Members, SubscribersConnected
<1> QED BY <1>1, StreamInvariance, PTL

\* log_router.c l.103-133, ucd_api.cpp l.1909-1913: what a stopped stream leaves
\* in the queue is at most one entry of each task that logs, after any number
\* of starts and stops.
THEOREM LeftoverIsBounded == Spec => []LeftoverBounded
<1>1. StreamInv => LeftoverBounded
  BY DEF StreamInv, Leftover, Unserved, LeftoverBounded, Settled, Actor
<1> QED BY <1>1, StreamInvariance, PTL
=============================================================================
