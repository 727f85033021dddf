----------------------------- MODULE LogStream -----------------------------
(***************************************************************************)
(* Log streaming to WebSocket clients: the log router                      *)
(* (components/log_router), which every task that logs runs through, and   *)
(* the subscriptions and sender tasks of DockApi (main/ucd_api.cpp).       *)
(*                                                                         *)
(* Requests are served by the HTTP server task, disconnects by the event   *)
(* task; both start and stop the stream, and share log_queue_ unprotected. *)
(* The stream is stopped by a sentinel that travels through the queue of   *)
(* the log entries, which is never deleted: a sender task of an earlier    *)
(* session and one of the current session read the same queue.             *)
(*                                                                         *)
(* log_subscribers_mutex_ is held for a few instructions only, so that its *)
(* timeouts (50 ms and more) are not modelled; what a sender task writes   *)
(* to the sockets is not either, but the time it takes is.                 *)
(***************************************************************************)
EXTENDS Naturals, Sequences, FiniteSets

CONSTANTS
  Client,     \* socket numbers
  Producer,   \* tasks that log
  Task,       \* sender tasks; bound: as many exist at a time
  Httpd, EventTask,
  Depth,      \* LOG_QUEUE_DEPTH
  MaxSubs,    \* MAX_WS_LOG_SUBS
  MaxEvents,  \* bound: disconnect events in the queue of the event loop
  HeapFails,  \* may malloc() and xTaskCreate() fail?
  None        \* no task, no client

Actor == {Httpd, EventTask}

ASSUME ActorAssumption   == Httpd # EventTask
ASSUME DepthAssumption   == Depth \in Nat \ {0}
ASSUME MaxSubsAssumption == MaxSubs \in Nat \ {0}
ASSUME MaxEventsAssumption == MaxEvents \in Nat
ASSUME TaskAssumption    == IsFiniteSet(Task) /\ None \notin Task
ASSUME ProducerAssumption == IsFiniteSet(Producer)
ASSUME ClientAssumption  == IsFiniteSet(Client) /\ None \notin Client
ASSUME HeapAssumption    == HeapFails \in BOOLEAN

VARIABLES
  active,       \* g_active: the hook forwards what is logged
  queue,        \* g_log_queue
  posting,      \* the tasks in the hook, past its test of g_active
  subscribers,  \* log_subscribers_
  linked,       \* log_queue_ # nullptr
  handle,       \* log_sender_task_handle_
  task,         \* what each sender task is about to do
  pc, any,      \* what Httpd and EventTask are about to do; did any subscriber remain?
  open,         \* the clients connected
  events,       \* the disconnects to handle
  handling,     \* the one the event task works on
  halted,       \* why the processor stopped, if it did
  disturbed     \* history: two handlers ran at once, or a task was not created

routerVars == <<active, queue, posting>>
senderVars == <<handle, task>>
clientVars == <<open, events, handling>>
vars == <<routerVars, subscribers, linked, senderVars, pc, any, clientVars, halted, disturbed>>

Entry    == "entry"
Sentinel == "sentinel"

ActorPc == {"idle", "decide", "activate", "create", "assert", "deactivate", "sentinel", "unlink"}
TaskPc  == {"none", "created", "receive", "send", "drain", "exit"}

TypeOK ==
  /\ active \in BOOLEAN
  /\ queue \in Seq({Entry, Sentinel}) /\ Len(queue) <= Depth
  /\ posting \subseteq Producer
  /\ subscribers \subseteq Client
  /\ linked \in BOOLEAN
  /\ handle \in Task \union {None}
  /\ task \in [Task -> TaskPc]
  /\ pc \in [Actor -> ActorPc] /\ any \in [Actor -> BOOLEAN]
  /\ open \subseteq Client
  /\ events \in Seq(Client) /\ Len(events) <= MaxEvents
  /\ handling \in Client \union {None}
  /\ halted \in {"no", "null_queue", "assert"}
  /\ disturbed \in BOOLEAN

Init ==
  /\ active = FALSE
  /\ queue = <<>>
  /\ posting = {}
  /\ subscribers = {}
  /\ linked = FALSE
  /\ handle = None
  /\ task = [t \in Task |-> "none"]
  /\ pc = [a \in Actor |-> "idle"]
  /\ any = [a \in Actor |-> FALSE]
  /\ open = {}
  /\ events = <<>>
  /\ handling = None
  /\ halted = "no"
  /\ disturbed = FALSE

\* The sender tasks that did not receive a sentinel yet.
Live == {t \in Task : task[t] \in {"created", "receive", "send"}}

\* The sentinels in the queue, by their positions.
Sentinels == {i \in 1..Len(queue) : queue[i] = Sentinel}

\* Nothing runs once an assertion failed.
Running == halted = "no"

MutantRoom == Len(queue) <= Depth
Room == Len(queue) < Depth

-----------------------------------------------------------------------------
(* The hook: every task that logs                                          *)

Log(p) ==
  /\ Running
  /\ active
  /\ p \notin posting
  /\ posting' = posting \union {p}
  /\ UNCHANGED <<active, queue, subscribers, linked, senderVars, pc, any, clientVars, halted, disturbed>>

\* The entry is posted if there is room, and dropped otherwise.
Post(p) ==
  /\ Running
  /\ p \in posting
  /\ Room
  /\ queue' = Append(queue, Entry)
  /\ posting' = posting \ {p}
  /\ UNCHANGED <<active, subscribers, linked, senderVars, pc, any, clientVars, halted, disturbed>>

Drop(p) ==
  /\ Running
  /\ p \in posting
  /\ ~Room \/ HeapFails
  /\ posting' = posting \ {p}
  /\ UNCHANGED <<active, queue, subscribers, linked, senderVars, pc, any, clientVars, halted, disturbed>>

-----------------------------------------------------------------------------
(* Connections, and the two handlers that change the subscriptions         *)

Goto(a, label) == pc' = [pc EXCEPT ![a] = label]

\* a changed the subscriptions to s, and counts what remains.
Begin(a, s) ==
  /\ Running
  /\ pc[a] = "idle"
  /\ subscribers' = s
  /\ any' = [any EXCEPT ![a] = s # {}]
  /\ Goto(a, "decide")
  /\ disturbed' = (disturbed \/ \E b \in Actor \ {a} : pc[b] # "idle")

Connect(c) ==
  /\ Running
  /\ pc[Httpd] = "idle"
  /\ c \notin open
  /\ open' = open \union {c}
  /\ UNCHANGED <<routerVars, subscribers, linked, senderVars, pc, any, events, handling, halted, disturbed>>

\* The HTTP server closes a session and posts the event.
Disconnect(c) ==
  /\ Running
  /\ pc[Httpd] = "idle"
  /\ c \in open
  /\ Len(events) < MaxEvents
  /\ open' = open \ {c}
  /\ events' = Append(events, c)
  /\ UNCHANGED <<routerVars, subscribers, linked, senderVars, pc, any, handling, halted, disturbed>>

\* enable_log_events, enable = true; refused with a 503 if there are too many
\* subscribers already.
Enable(c) ==
  /\ c \in open
  /\ Cardinality(subscribers) < MaxSubs
  /\ Begin(Httpd, subscribers \union {c})
  /\ UNCHANGED <<routerVars, linked, senderVars, clientVars, halted>>

Disable(c) ==
  /\ c \in open
  /\ Begin(Httpd, subscribers \ {c})
  /\ UNCHANGED <<routerVars, linked, senderVars, clientVars, halted>>

\* WS_DISCONNECTED
MutantRemaining(c) == subscribers
Remaining(c) == subscribers \ {c}

TakeEvent ==
  /\ events # <<>>
  /\ Begin(EventTask, Remaining(Head(events)))
  /\ handling' = Head(events)
  /\ events' = Tail(events)
  /\ UNCHANGED <<routerVars, linked, senderVars, open, halted>>

Finish(a) ==
  /\ Goto(a, "idle")
  /\ handling' = IF a = EventTask THEN None ELSE handling

\* The first subscriber starts the stream, the last one stops it: each decides
\* by log_queue_ as it is now.
MutantStops(a) == linked
Starts(a) == a = Httpd /\ any[a] /\ ~linked
Stops(a)  == ~any[a] /\ linked

Decide(a) ==
  /\ Running
  /\ pc[a] = "decide"
  /\ \/ /\ Starts(a)
        /\ linked' = TRUE           \* log_router_start: *queue = g_log_queue
        /\ Goto(a, "activate")
        /\ UNCHANGED handling
     \/ /\ Stops(a)
        /\ Goto(a, "deactivate")
        /\ UNCHANGED <<linked, handling>>
     \/ /\ ~Starts(a) /\ ~Stops(a)
        /\ Finish(a)
        /\ UNCHANGED linked
  /\ UNCHANGED <<routerVars, subscribers, senderVars, any, open, events, halted, disturbed>>

Activate ==
  /\ Running
  /\ pc[Httpd] = "activate"
  /\ active' = TRUE
  /\ Goto(Httpd, "create")
  /\ UNCHANGED <<queue, posting, subscribers, linked, senderVars, any, clientVars, halted, disturbed>>

\* xTaskCreate stores the handle before the task can run.
Create(t) ==
  /\ Running
  /\ pc[Httpd] = "create"
  /\ task[t] = "none"
  /\ task' = [task EXCEPT ![t] = "created"]
  /\ handle' = t
  /\ Goto(Httpd, "assert")
  /\ UNCHANGED <<routerVars, subscribers, linked, any, clientVars, halted, disturbed>>

CreateFails ==
  /\ Running
  /\ pc[Httpd] = "create"
  /\ HeapFails
  /\ Goto(Httpd, "assert")
  /\ disturbed' = TRUE
  /\ UNCHANGED <<routerVars, subscribers, linked, senderVars, any, clientVars, halted>>

\* assert(log_sender_task_handle_)
AssertHandle ==
  /\ Running
  /\ pc[Httpd] = "assert"
  /\ halted' = IF handle = None THEN "assert" ELSE halted
  /\ Goto(Httpd, "idle")
  /\ UNCHANGED <<routerVars, subscribers, linked, senderVars, any, clientVars, disturbed>>

\* log_router_stop
Deactivate(a) ==
  /\ Running
  /\ pc[a] = "deactivate"
  /\ active' = FALSE
  /\ Goto(a, "sentinel")
  /\ UNCHANGED <<queue, posting, subscribers, linked, senderVars, any, clientVars, halted, disturbed>>

PostSentinel(a) ==
  /\ Running
  /\ pc[a] = "sentinel"
  /\ Room
  /\ queue' = Append(queue, Sentinel)
  /\ Goto(a, "unlink")
  /\ UNCHANGED <<active, posting, subscribers, linked, senderVars, any, clientVars, halted, disturbed>>

\* The queue stayed full for 100 ms.
LoseSentinel(a) ==
  /\ Running
  /\ pc[a] = "sentinel"
  /\ ~Room \/ HeapFails
  /\ Goto(a, "unlink")
  /\ UNCHANGED <<routerVars, subscribers, linked, senderVars, any, clientVars, halted, disturbed>>

\* log_queue_ = nullptr, whatever happened to it since Decide.
Unlink(a) ==
  /\ Running
  /\ pc[a] = "unlink"
  /\ linked' = FALSE
  /\ Finish(a)
  /\ UNCHANGED <<routerVars, subscribers, senderVars, any, open, events, halted, disturbed>>

-----------------------------------------------------------------------------
(* The sender tasks                                                        *)

TaskGoto(t, label) == task' = [task EXCEPT ![t] = label]

\* A new task reads log_queue_ when it first runs: xQueueReceive(NULL) ends
\* in a failed assertion of the kernel.
FirstRun(t) ==
  /\ Running
  /\ task[t] = "created"
  /\ TaskGoto(t, "receive")
  /\ halted' = IF linked THEN halted ELSE "null_queue"
  /\ UNCHANGED <<routerVars, subscribers, linked, handle, pc, any, clientVars, disturbed>>

MutantEnds(e) == TRUE
Ends(e) == e = Sentinel

Receive(t) ==
  /\ Running
  /\ task[t] = "receive"
  /\ queue # <<>>
  /\ queue' = Tail(queue)
  /\ TaskGoto(t, IF Ends(Head(queue)) THEN "drain" ELSE "send")
  /\ UNCHANGED <<active, posting, subscribers, linked, handle, pc, any, clientVars, halted, disturbed>>

\* sendLogToSubscribers: 100 ms for each subscriber.
Sent(t) ==
  /\ Running
  /\ task[t] = "send"
  /\ TaskGoto(t, "receive")
  /\ UNCHANGED <<routerVars, subscribers, linked, handle, pc, any, clientVars, halted, disturbed>>

\* What is in the queue is freed, sentinels included, until it is empty.
Drained == queue = <<>>

Drain(t) ==
  /\ Running
  /\ task[t] = "drain"
  /\ IF Drained THEN TaskGoto(t, "exit") /\ UNCHANGED queue
                ELSE queue' = Tail(queue) /\ UNCHANGED task
  /\ UNCHANGED <<active, posting, subscribers, linked, handle, pc, any, clientVars, halted, disturbed>>

Exit(t) ==
  /\ Running
  /\ task[t] = "exit"
  /\ TaskGoto(t, "none")
  /\ handle' = None
  /\ UNCHANGED <<routerVars, subscribers, linked, pc, any, clientVars, halted, disturbed>>

\* The panic handler restarts the dock.
Reboot ==
  /\ ~Running
  /\ active' = FALSE /\ queue' = <<>> /\ posting' = {}
  /\ subscribers' = {} /\ linked' = FALSE
  /\ handle' = None /\ task' = [t \in Task |-> "none"]
  /\ pc' = [a \in Actor |-> "idle"] /\ any' = [a \in Actor |-> FALSE]
  /\ open' = {} /\ events' = <<>> /\ handling' = None
  /\ halted' = "no" /\ disturbed' = FALSE

-----------------------------------------------------------------------------
LogStep == \E p \in Producer : Log(p) \/ Post(p) \/ Drop(p)

StopStep(a) == Deactivate(a) \/ PostSentinel(a) \/ LoseSentinel(a) \/ Unlink(a)

HttpdStep == \/ Decide(Httpd) \/ Activate \/ CreateFails \/ AssertHandle \/ StopStep(Httpd)
             \/ \E t \in Task : Create(t)

ClientStep == \E c \in Client : Connect(c) \/ Disconnect(c) \/ Enable(c) \/ Disable(c)

EventStep == TakeEvent \/ Decide(EventTask) \/ StopStep(EventTask)

SenderStep(t) == FirstRun(t) \/ Receive(t) \/ Sent(t) \/ Drain(t) \/ Exit(t)

Next == \/ LogStep \/ ClientStep \/ HttpdStep \/ EventStep
        \/ \E t \in Task : SenderStep(t)
        \/ Reboot

Spec == Init /\ [][Next]_vars

\* Every task goes on when it can: the kernel schedules them by priority, and
\* none of them computes forever.  Clients and producers promise nothing.
FairSpec ==
  /\ Spec
  /\ WF_vars(HttpdStep)
  /\ WF_vars(EventStep)
  /\ \A t \in Task : WF_vars(SenderStep(t))
  /\ WF_vars(Reboot)

-----------------------------------------------------------------------------
(* Properties                                                              *)

Settled == Running /\ \A a \in Actor : pc[a] = "idle"

\* ucd_api.cpp l.1757-1767, l.530-538: while somebody is subscribed, the hook
\* forwards, log_queue_ is set, and a sender task is left that no sentinel in
\* the queue will end, however quickly the clients subscribe and unsubscribe
\* and however many sentinels were lost -- unless a disconnect was handled
\* while a request was, or a task could not be created.
StreamAlive ==
  Settled /\ ~disturbed /\ subscribers # {} =>
    active /\ linked /\ Cardinality(Live) > Cardinality(Sentinels)

\* ucd_api.cpp l.530-532, l.1745: a closed socket is subscribed only as long as
\* its disconnect was not handled; it would count against MAX_WS_LOG_SUBS.
SubscribersConnected ==
  \A c \in subscribers : c \in open \/ \E i \in 1..Len(events) : events[i] = c

\* log_router.c l.103-133, ucd_api.cpp l.1909-1913: once the stream is stopped
\* and its tasks are gone, the queue holds what the tasks posted that were in
\* the hook at that time, one entry each: what is not freed does not add up.
LeftoverBounded ==
  (/\ Settled /\ ~disturbed /\ ~active
   /\ \A t \in Task : task[t] = "none") =>
    Len(queue) + Cardinality(posting) <= Cardinality(Producer)

\* log_router.c l.17-19, ucd_api.cpp l.1899: while the stream is on, a full
\* queue does not stay full.
QueueDrains ==
  (Settled /\ linked /\ ~Room) ~> (Room \/ ~linked \/ disturbed)

\* ucd_api.cpp l.1763: the assertion on the task's handle.
AssertHolds == halted # "assert"
=============================================================================
