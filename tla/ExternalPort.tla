---------------------------- MODULE ExternalPort ----------------------------
(***************************************************************************)
(* An external port of the dock (components/external_port): its operation  *)
(* mode, the three outputs it switches, the 5V trigger with its one-shot   *)
(* timer, and the UART driver of the RS232 mode.                           *)
(*                                                                         *)
(* The HTTP server task makes every call but one: when the trigger timer   *)
(* expires, the timer task calls setTrigger(false).  port_lock_ protects   *)
(* the outputs; mode_ is read without it.                                  *)
(***************************************************************************)
EXTENDS Naturals, Sequences

CONSTANTS
  Httpd, TimerTask,   \* the HTTP server task and the task of esp_timer
  Task,               \* the tasks that take a lock of the port, these two among them
  Supported,          \* the modes this port supports besides NOT_CONFIGURED
  Requested,          \* the modes clients ask for
  Handle,             \* addresses of a UART event queue
  EventSlots,         \* bound: EXT_PORT_MODE events in the queue of the event loop
  IdfFails,           \* may a function of ESP-IDF fail?
  None                \* no task, no handle

\* Mono and stereo emitters are driven alike: IR_EMITTER stands for both.
Mode == {"NOT_CONFIGURED", "IR_BLASTER", "IR_EMITTER", "TRIGGER_5V", "RS232"}

ASSUME PortTaskAssumption == Httpd # TimerTask /\ {Httpd, TimerTask} \subseteq Task
ASSUME NoneAssumption == None \notin Task \union Handle
ASSUME SupportedAssumption == Supported \subseteq Mode
ASSUME RequestedAssumption == Requested \subseteq Mode \union {"AUTO"}
ASSUME EventSlotsAssumption == EventSlots \in Nat \ {0}
ASSUME FailAssumption == IdfFails \in BOOLEAN

VARIABLES
  mode,       \* mode_
  lock,       \* port_lock_: the task that holds it
  out,        \* the outputs that are on: ground switch, 5V switch, TX
  extInput,   \* is the pin of the 5V switch an input?
  timer,      \* trigger_timer_: not created, created or armed
  driver,     \* the event queue of the UART driver installed, if one is
  installed,  \* uart_driver_installed_
  queue,      \* uart_event_queue_
  txLock,     \* the UART driver's mutex of uart_write_bytes()
  pc,         \* what the two tasks are about to do in a call
  call,       \* the call the HTTP server task is in
  result,     \* what changeMode() returned
  probe, mono, \* port detection: settings applied, and is a mono plug connected?
  events,     \* the EXT_PORT_MODE events posted
  lost        \* history: an event was not posted, the queue was full

outVars   == <<mode, lock, out, extInput>>
uartVars  == <<driver, installed, queue, txLock>>
callVars  == <<pc, call, result>>
probeVars == <<probe, mono>>
eventVars == <<events, lost>>
portVars  == <<outVars, timer, uartVars, callVars, probeVars, eventVars>>

Outputs == {"gnd", "ext", "tx"}
Call    == [mode : Mode \union {"AUTO"}, op : {"changeMode"}]
             \union [op : {"setTrigger", "triggerImpulse"}, on : BOOLEAN]
             \union [op : {"write", "none"}]
Result  == {"OK", "NOT_SUPPORTED", "NOT_ALLOWED", "INVALID_STATE", "NO_MEM", "FAIL"}
Event   == [state : Result, active : Mode]
PortPc  == {"idle", "change", "lockMode", "release", "detect", "configure", "post",
            "impulse", "checkTrigger", "lockTrigger", "switch", "write", "writing"}

PortTypeOK ==
  /\ mode \in Mode
  /\ lock \in {None, Httpd, TimerTask}
  /\ out \subseteq Outputs /\ extInput \in BOOLEAN
  /\ timer \in {"none", "created", "armed"}
  /\ driver \in Handle \union {None} /\ queue \in Handle \union {None}
  /\ installed \in BOOLEAN
  /\ txLock \in Task \union {None}
  /\ pc \in [{Httpd, TimerTask} -> PortPc]
  /\ call \in Call
  /\ result \in Result
  /\ probe \in 0..24 /\ mono \in BOOLEAN
  /\ events \in Seq(Event) /\ Len(events) <= EventSlots
  /\ lost \in BOOLEAN

\* The outputs of a mode once it is configured.
MutantOutputs(m) ==
  CASE m = "IR_BLASTER" -> {"gnd", "ext"}
    [] m = "IR_EMITTER" -> {"gnd", "tx"}
    [] m = "RS232"      -> {"gnd"}
    [] OTHER            -> {}
OutputsOf(m) ==
  CASE m = "IR_BLASTER" -> {"gnd", "ext"}
    [] m = "IR_EMITTER" -> {"tx"}
    [] m = "RS232"      -> {"gnd"}
    [] OTHER            -> {}

Off == OutputsOf("NOT_CONFIGURED")

NoCall == [op |-> "none"]

\* The port after ExternalPort::init(): configured as stored, and no call made.
\* The event of this change may not have been handled yet.
PortInit ==
  /\ mode \in Supported \union {"NOT_CONFIGURED"}
  /\ lock = None
  /\ out = OutputsOf(mode)
  /\ extInput = (mode = "RS232")
  /\ timer = "none"
  /\ driver \in (IF mode = "RS232" THEN Handle ELSE {None})
  /\ installed = (mode = "RS232")
  /\ queue = driver
  /\ txLock = None
  /\ pc = [t \in {Httpd, TimerTask} |-> "idle"]
  /\ call = NoCall
  /\ result = "OK"
  /\ probe = 0 /\ mono = FALSE
  /\ events \in {<<>>, <<[state |-> "OK", active |-> mode]>>}
  /\ lost = FALSE

Supports(m) == m \in Supported \union {"AUTO", "NOT_CONFIGURED"}

PortIdle == pc[Httpd] = "idle"

At(t, label) == pc[t] = label
Continue(t, label) == pc' = [pc EXCEPT ![t] = label] /\ UNCHANGED <<call, result>>

\* A call ends.  Nobody looks at what setTrigger() returns to the timer task.
Return(t, r) ==
  /\ pc' = [pc EXCEPT ![t] = "idle"]
  /\ IF t = Httpd THEN call' = NoCall /\ result' = r ELSE UNCHANGED <<call, result>>

\* The HTTP server task makes a call.
CallPort(c, label) ==
  /\ PortIdle
  /\ call' = c
  /\ result' = "OK"
  /\ pc' = [pc EXCEPT ![Httpd] = label]
  /\ UNCHANGED <<outVars, timer, uartVars, probeVars, eventVars>>

CallChangeMode(m)   == CallPort([mode |-> m, op |-> "changeMode"], "change")
CallSetTrigger(on)  == CallPort([op |-> "setTrigger", on |-> on], "checkTrigger")
CallTriggerImpulse  == CallPort([op |-> "triggerImpulse", on |-> TRUE], "impulse")
CallWrite           == CallPort([op |-> "write"], "write")

-----------------------------------------------------------------------------
(* changeMode                                                              *)

\* A mode the port is in already needs no change, but RS232 parameters may
\* have changed.
Change ==
  /\ At(Httpd, "change")
  /\ \/ ~Supports(call.mode) /\ Return(Httpd, "NOT_SUPPORTED")
     \/ /\ Supports(call.mode)
        /\ \/ call.mode = mode /\ Return(Httpd, "OK")
           \/ call.mode = mode /\ mode = "RS232" /\ IdfFails /\ Return(Httpd, "FAIL")
           \/ call.mode # mode /\ Continue(Httpd, "lockMode")
  /\ UNCHANGED <<outVars, timer, uartVars, probeVars, eventVars>>

\* The timer task has the lock for less than the 100 ms the caller waits.
LockMode ==
  /\ At(Httpd, "lockMode")
  /\ lock = None
  /\ lock' = Httpd
  /\ Continue(Httpd, "release")
  /\ UNCHANGED <<mode, out, extInput, timer, uartVars, probeVars, eventVars>>

\* deinitUart(): deleting the driver deletes its queue and its mutexes.
DeinitUart ==
  IF mode = "RS232"
  THEN /\ queue' = None
       /\ IF installed THEN driver' = None /\ txLock' = None ELSE UNCHANGED <<driver, txLock>>
       /\ installed' = FALSE
  ELSE UNCHANGED uartVars

\* The timer is deleted; a callback that is already running goes on.
MutantTimer == timer
TimerReleased == IF mode = "TRIGGER_5V" THEN "none" ELSE timer

Release ==
  /\ At(Httpd, "release")
  /\ DeinitUart
  /\ timer' = TimerReleased
  /\ out' = Off
  /\ extInput' = IF mode = "RS232" THEN FALSE ELSE extInput
  /\ mode' = "NOT_CONFIGURED"
  /\ probe' = 0 /\ mono' = FALSE
  /\ Continue(Httpd, IF call.mode = "AUTO" THEN "detect" ELSE "configure")
  /\ UNCHANGED <<lock, eventVars>>

\* VECTOR: 0 is off, 1 is on, 2 is on unless a mono plug was found.
Vector ==
  LET v(g, e, t) == [gnd |-> g, ext |-> e, tx |-> t]
  IN  <<v(0, 1, 0), v(0, 0, 0), v(1, 0, 1), v(0, 0, 1), v(0, 1, 2), v(1, 0, 0), v(2, 1, 0), v(2, 1, 1)>>

Switched(gnd, ext, tx) ==
  {o \in Outputs : (o = "gnd" /\ gnd) \/ (o = "ext" /\ ext) \/ (o = "tx" /\ tx)}

MutantApply(v, isMono) == Switched(v.gnd > 0, v.ext > 0, ~(v.tx > 0))
ApplyVector(v, isMono) ==
  LET on(level) == level = 1 \/ (level = 2 /\ ~isMono)
  IN  Switched(on(v.gnd), v.ext > 0, ~on(v.tx))

\* A vector is applied after the ground was switched on, and off again.  A mono
\* plug is recognized by what is measured under the first vector.
Probes == 3 * Len(Vector)

Detect ==
  /\ At(Httpd, "detect")
  /\ probe < Probes
  /\ out' = IF probe % 3 < 2
            THEN Switched(probe % 3 = 0, FALSE, TRUE)
            ELSE ApplyVector(Vector[probe \div 3 + 1], mono)
  /\ mono' \in (IF probe = 2 THEN BOOLEAN ELSE {mono})
  /\ probe' = probe + 1
  /\ UNCHANGED <<mode, lock, extInput, timer, uartVars, callVars, eventVars>>

\* The mode is set and announced once the lock is released; "mode" is what the
\* call asked for, or what was detected.
Configured(m, ok) ==
  /\ mode' = m
  /\ out' = OutputsOf(m)
  /\ lock' = None
  /\ pc' = [pc EXCEPT ![Httpd] = "post"]
  /\ result' = IF ok THEN "OK" ELSE "FAIL"
  /\ UNCHANGED <<call, timer, probeVars, eventVars>>

\* Detection ends early if a voltage cannot be read, and finds nothing then.
ConfigureDetected ==
  /\ At(Httpd, "detect")
  /\ \E m \in {"NOT_CONFIGURED", "IR_BLASTER", "IR_EMITTER"} :
       /\ probe = Probes \/ (probe = 3 /\ m = "NOT_CONFIGURED" /\ IdfFails)
       /\ Configured(m, TRUE)
  /\ UNCHANGED <<extInput, uartVars>>

Configure ==
  /\ At(Httpd, "configure")
  /\ call.mode # "RS232"
  /\ Configured(call.mode, TRUE)
  /\ UNCHANGED <<extInput, uartVars>>

\* uart_driver_install() stores the handle of the queue it creates.
MutantInstall(q) == driver' = q /\ queue' = IF queue = None THEN q ELSE queue
InstallDriver(q) == driver' = q /\ queue' = q

\* uart_driver_install() gives the driver an event queue, and fails if a
\* driver is installed, which is deleted then; it is left if a later step of
\* initUart() fails.
ConfigureUart ==
  /\ At(Httpd, "configure")
  /\ call.mode = "RS232"
  /\ extInput' = TRUE
  /\ \/ /\ driver = None
        /\ \E q \in Handle :
             /\ InstallDriver(q)
             /\ \/ installed' = TRUE /\ Configured("RS232", TRUE)
                \/ IdfFails /\ installed' = installed /\ Configured("NOT_CONFIGURED", FALSE)
        /\ UNCHANGED txLock
     \/ /\ driver # None \/ IdfFails
        /\ driver' = None /\ txLock' = None
        /\ Configured("NOT_CONFIGURED", FALSE)
        /\ UNCHANGED <<installed, queue>>

\* What is announced: how the change ended, and the mode the port is in.
MutantModeEvent == [state |-> result, active |-> call.mode]
ModeEvent == [state |-> result, active |-> mode]

PostMode ==
  /\ At(Httpd, "post")
  /\ IF Len(events) < EventSlots
     THEN events' = Append(events, ModeEvent) /\ UNCHANGED lost
     ELSE lost' = TRUE /\ UNCHANGED events
  /\ Return(Httpd, result)
  /\ UNCHANGED <<outVars, timer, uartVars, probeVars>>

-----------------------------------------------------------------------------
(* The 5V trigger                                                          *)

\* triggerImpulse(): the timer runs from here on, the trigger is set next.
Impulse ==
  /\ At(Httpd, "impulse")
  /\ \/ mode # "TRIGGER_5V" /\ Return(Httpd, "NOT_SUPPORTED") /\ UNCHANGED timer
     \/ /\ mode = "TRIGGER_5V"
        /\ \/ timer = "none" /\ IdfFails /\ Return(Httpd, "NO_MEM") /\ UNCHANGED timer
           \/ timer = "armed" /\ Return(Httpd, "INVALID_STATE") /\ UNCHANGED timer
           \/ timer # "armed" /\ Continue(Httpd, "checkTrigger") /\ timer' = "armed"
  /\ UNCHANGED <<outVars, uartVars, probeVars, eventVars>>

\* triggerTimerCb()
Expire ==
  /\ timer = "armed"
  /\ At(TimerTask, "idle")
  /\ timer' = "created"
  /\ Continue(TimerTask, "checkTrigger")
  /\ UNCHANGED <<outVars, uartVars, probeVars, eventVars>>

\* setTrigger()
CheckTrigger(t) ==
  /\ At(t, "checkTrigger")
  /\ IF mode = "TRIGGER_5V" THEN Continue(t, "lockTrigger") ELSE Return(t, "NOT_SUPPORTED")
  /\ UNCHANGED <<outVars, timer, uartVars, probeVars, eventVars>>

\* The lock is held for more than 100 ms while a port is detected.
LockTrigger(t) ==
  /\ At(t, "lockTrigger")
  /\ \/ lock = None /\ lock' = t /\ Continue(t, "switch")
     \/ lock # None /\ At(Httpd, "detect") /\ Return(t, "NOT_ALLOWED") /\ UNCHANGED lock
  /\ UNCHANGED <<mode, out, extInput, timer, uartVars, probeVars, eventVars>>

On(t) == t = Httpd /\ call.on

Switch(t) ==
  /\ At(t, "switch")
  /\ out' = IF On(t) THEN out \union {"gnd", "ext"} ELSE out \ {"gnd", "ext"}
  /\ lock' = None
  /\ Return(t, "OK")
  /\ UNCHANGED <<mode, extInput, timer, uartVars, probeVars, eventVars>>

-----------------------------------------------------------------------------
(* The driver's uart_write_bytes()                                         *)

\* It waits for the driver's mutex as long as it takes, and without a driver
\* it fails.
TakeTx(t) ==
  /\ driver # None /\ txLock = None
  /\ txLock' = t
  /\ UNCHANGED <<driver, installed, queue>>

GiveTx(t) ==
  /\ txLock' = IF txLock = t THEN None ELSE txLock
  /\ UNCHANGED <<driver, installed, queue>>

Write ==
  /\ At(Httpd, "write")
  /\ \/ TakeTx(Httpd) /\ Continue(Httpd, "writing")
     \/ driver = None /\ Return(Httpd, "FAIL") /\ UNCHANGED uartVars
  /\ UNCHANGED <<outVars, timer, probeVars, eventVars>>

Written ==
  /\ At(Httpd, "writing")
  /\ GiveTx(Httpd)
  /\ Return(Httpd, "OK")
  /\ UNCHANGED <<outVars, timer, probeVars, eventVars>>

-----------------------------------------------------------------------------

ModeStep == \/ Change \/ LockMode \/ Release \/ Detect \/ ConfigureDetected
            \/ Configure \/ ConfigureUart \/ PostMode

SetTrigger(t) == CheckTrigger(t) \/ LockTrigger(t) \/ Switch(t)

\* The steps of the HTTP server task in a call, and of the timer task.
PortHttpd == ModeStep \/ Impulse \/ SetTrigger(Httpd) \/ Write \/ Written
PortTimer == Expire \/ SetTrigger(TimerTask)

\* The port by itself: any call may be made when no other is in progress,
\* somebody takes the events, and other tasks write to the UART.
TakeEvent ==
  /\ events # <<>>
  /\ events' = Tail(events)
  /\ UNCHANGED <<outVars, timer, uartVars, callVars, probeVars, lost>>

PortCall == \/ \E m \in Requested : CallChangeMode(m)
            \/ \E on \in BOOLEAN : CallSetTrigger(on)
            \/ CallTriggerImpulse
            \/ CallWrite

OtherWrites ==
  /\ \E t \in Task \ {Httpd, TimerTask} : TakeTx(t) \/ GiveTx(t)
  /\ UNCHANGED <<outVars, timer, callVars, probeVars, eventVars>>

PortNext == PortCall \/ PortHttpd \/ PortTimer \/ TakeEvent \/ OtherWrites

PortSpec == PortInit /\ [][PortNext]_portVars

-----------------------------------------------------------------------------
(* Properties                                                              *)

\* external_port.cpp l.213-232, l.360-377: whatever a late callback of the
\* trigger timer does, power is on at most where the mode has it: 5V for a
\* blaster or a trigger, ground for these and RS232.
NoStrayPower ==
  lock = None =>
    /\ "ext" \in out => mode \in {"IR_BLASTER", "TRIGGER_5V"}
    /\ "gnd" \in out => mode \in {"IR_BLASTER", "TRIGGER_5V", "RS232"}

\* external_port.cpp l.90-91, l.520-524: once a mono plug is found, whose two
\* contacts are shorted, detection never switches on ground and 5V together.
NoBrownout == At(Httpd, "detect") /\ mono => ~({"gnd", "ext"} \subseteq out)

\* external_port.cpp l.223-228: the timer outlives no trigger, it could not
\* be deleted later on.
TimerOnlyInTrigger == timer # "none" => mode = "TRIGGER_5V"

\* external_port.cpp l.457-518: in RS232 mode the driver is installed, is
\* known to be, and the queue handed to the bridge is the driver's, whatever
\* attempts to install it failed before.
UartReady == mode = "RS232" => installed /\ driver # None /\ queue = driver
=============================================================================
