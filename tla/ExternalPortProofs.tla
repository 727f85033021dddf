------------------------- MODULE ExternalPortProofs -------------------------
(***************************************************************************)
(* Theorems about ExternalPort: for any set of supported modes, whatever   *)
(* is asked for, and whether or not ESP-IDF fails.                         *)
(***************************************************************************)
EXTENDS ExternalPort, TLAPS

USE PortTaskAssumption, NoneAssumption, SupportedAssumption, RequestedAssumption
USE DEF outVars, uartVars, callVars, probeVars, eventVars

-----------------------------------------------------------------------------
(* The invariant                                                           *)

ModeCalls    == {"change", "lockMode", "release", "detect", "configure", "post"}
TriggerCalls == {"impulse", "checkTrigger", "lockTrigger", "switch"}

\* What the call under way was given.
CallOK ==
  /\ pc[Httpd] \in ModeCalls => call \in [mode : Mode \union {"AUTO"}, op : {"changeMode"}]
  /\ pc[Httpd] \in TriggerCalls => call \in [op : {"setTrigger", "triggerImpulse"}, on : BOOLEAN]
  /\ pc[Httpd] = "configure" => call.mode # "AUTO"

\* The task that is between taking and giving the lock holds it.
LockOK ==
  /\ pc[TimerTask] \in {"idle", "checkTrigger", "lockTrigger", "switch"}
  /\ lock = Httpd <=> pc[Httpd] \in {"release", "detect", "configure", "switch"}
  /\ lock = TimerTask <=> pc[TimerTask] = "switch"

\* The HTTP server task changes the mode itself, and knows it.
ModeKnown ==
  /\ pc[Httpd] \in {"detect", "configure"} => mode = "NOT_CONFIGURED"
  /\ pc[Httpd] \in {"lockTrigger", "switch"} => mode = "TRIGGER_5V"

\* Except while the port is being detected, power is on at most where the mode
\* has it.
PowerOK ==
  pc[Httpd] # "detect" =>
    /\ "ext" \in out => mode \in {"IR_BLASTER", "TRIGGER_5V"}
    /\ "gnd" \in out => mode \in {"IR_BLASTER", "TRIGGER_5V", "RS232"}

PortInv == /\ PortTypeOK /\ CallOK /\ LockOK /\ ModeKnown
           /\ PowerOK /\ TimerOnlyInTrigger /\ UartReady

USE DEF ModeCalls, TriggerCalls

-----------------------------------------------------------------------------

LEMMA OutputsTyped ==
  \A m \in Mode : /\ OutputsOf(m) \subseteq Outputs
                  /\ "ext" \in OutputsOf(m) => m = "IR_BLASTER"
                  /\ "gnd" \in OutputsOf(m) => m \in {"IR_BLASTER", "RS232"}
BY DEF OutputsOf, Outputs, Mode

LEMMA OffTyped == Off = {}
BY DEF Off, OutputsOf

LEMMA PortInitially == PortInit => PortInv
<1> SUFFICES ASSUME PortInit PROVE PortInv
  OBVIOUS
<1>1. mode \in Mode
  BY DEF PortInit, Mode
<1>2. PortTypeOK
  <2>1. mode \in Mode /\ lock = None /\ out \subseteq Outputs /\ extInput \in BOOLEAN
    BY <1>1, OutputsTyped DEF PortInit
  <2>2. /\ timer = "none" /\ driver \in Handle \union {None} /\ queue \in Handle \union {None}
        /\ installed \in BOOLEAN /\ txLock = None
    BY DEF PortInit
  <2>3. pc \in [{Httpd, TimerTask} -> PortPc] /\ call \in Call /\ result \in Result
    BY DEF PortInit, PortPc, NoCall, Call, Result
  <2>4. mono \in BOOLEAN /\ lost \in BOOLEAN
    BY Zenon DEF PortInit
  <2>5. probe \in 0..24
    <3>1. probe = 0
      BY DEF PortInit
    <3> QED BY <3>1
  <2>6. events \in Seq(Event) /\ Len(events) <= EventSlots
    <3>1. [state |-> "OK", active |-> mode] \in Event
      BY <1>1 DEF Event, Result
    <3>2. events = <<>> \/ events = <<[state |-> "OK", active |-> mode]>>
      BY DEF PortInit
    <3>3. \A e \in Event : <<e>> \in Seq(Event) /\ Len(<<e>>) = 1
      OBVIOUS
    <3>4. <<>> \in Seq(Event) /\ Len(<<>>) = 0
      OBVIOUS
    <3>5. events \in Seq(Event) /\ (Len(events) = 0 \/ Len(events) = 1)
      BY <3>1, <3>2, <3>3, <3>4
    <3>6. \A n \in {0, 1} : n <= EventSlots
      BY EventSlotsAssumption
    <3>7. Len(events) <= EventSlots
      BY <3>5, <3>6, Zenon
    <3> QED BY <3>5, <3>7, Zenon
  <2> QED BY <2>1, <2>2, <2>3, <2>4, <2>5, <2>6 DEF PortTypeOK
<1>3. CallOK /\ LockOK /\ ModeKnown
  BY DEF PortInit, CallOK, LockOK, ModeKnown
<1>4. PowerOK /\ TimerOnlyInTrigger /\ UartReady
  BY <1>1, OutputsTyped DEF PortInit, PowerOK, TimerOnlyInTrigger, UartReady
<1> QED BY <1>2, <1>3, <1>4 DEF PortInv

-----------------------------------------------------------------------------
(* Every step preserves it                                                 *)

LEMMA CallTyped ==
  ASSUME PortInv, PortCall PROVE PortInv'
<1>1. ASSUME NEW c \in Call, NEW label \in PortPc, CallPort(c, label),
             \/ label = "change" /\ c \in [mode : Mode \union {"AUTO"}, op : {"changeMode"}]
             \/ /\ label \in {"checkTrigger", "impulse"}
                /\ c \in [op : {"setTrigger", "triggerImpulse"}, on : BOOLEAN]
             \/ label = "write"
      PROVE  PortInv'
  <2>1. PortTypeOK'
    BY <1>1 DEF PortInv, PortTypeOK, CallPort, Result
  <2>2. CallOK' /\ LockOK' /\ ModeKnown'
    BY <1>1 DEF PortInv, PortTypeOK, CallPort, CallOK, LockOK, ModeKnown, PortIdle
  <2>3. PowerOK' /\ TimerOnlyInTrigger' /\ UartReady'
    BY <1>1 DEF PortInv, PortTypeOK, CallPort, PowerOK, TimerOnlyInTrigger, UartReady, PortIdle
  <2> QED BY <2>1, <2>2, <2>3 DEF PortInv
<1>2. ASSUME NEW m \in Requested, CallChangeMode(m) PROVE PortInv'
  <2>1. [mode |-> m, op |-> "changeMode"] \in [mode : Mode \union {"AUTO"}, op : {"changeMode"}]
    OBVIOUS
  <2> QED BY <1>1, <1>2, <2>1 DEF CallChangeMode, Call, PortPc
<1>3. ASSUME NEW on \in BOOLEAN, CallSetTrigger(on) PROVE PortInv'
  <2>1. [op |-> "setTrigger", on |-> on] \in [op : {"setTrigger", "triggerImpulse"}, on : BOOLEAN]
    OBVIOUS
  <2> QED BY <1>1, <1>3, <2>1 DEF CallSetTrigger, Call, PortPc
<1>4. ASSUME CallTriggerImpulse PROVE PortInv'
  <2>1. [op |-> "triggerImpulse", on |-> TRUE] \in [op : {"setTrigger", "triggerImpulse"}, on : BOOLEAN]
    OBVIOUS
  <2> QED BY <1>1, <1>4, <2>1 DEF CallTriggerImpulse, Call, PortPc
<1>5. ASSUME CallWrite PROVE PortInv'
  <2>1. [op |-> "write"] \in Call
    BY DEF Call
  <2> QED BY <1>1, <1>5, <2>1 DEF CallWrite, PortPc
<1> QED BY <1>2, <1>3, <1>4, <1>5 DEF PortCall
-----------------------------------------------------------------------------

LEMMA ChangePreserves ==
  ASSUME PortInv, Change PROVE PortInv'
<1>1. PortTypeOK'
  BY DEF PortInv, PortTypeOK, Change, Return, Continue, At, PortPc, Result, NoCall, Call
<1>2. CallOK' /\ LockOK' /\ ModeKnown'
  BY DEF PortInv, PortTypeOK, Change, Return, Continue, At, CallOK, LockOK, ModeKnown
<1>3. PowerOK' /\ TimerOnlyInTrigger' /\ UartReady'
  BY DEF PortInv, PortTypeOK, Change, Return, Continue, At, PowerOK, TimerOnlyInTrigger, UartReady
<1> QED BY <1>1, <1>2, <1>3 DEF PortInv

LEMMA LockModePreserves ==
  ASSUME PortInv, LockMode PROVE PortInv'
<1>1. PortTypeOK'
  BY DEF PortInv, PortTypeOK, LockMode, Continue, At, PortPc
<1>2. CallOK' /\ LockOK' /\ ModeKnown'
  BY DEF PortInv, PortTypeOK, LockMode, Continue, At, CallOK, LockOK, ModeKnown
<1>3. PowerOK' /\ TimerOnlyInTrigger' /\ UartReady'
  BY DEF PortInv, PortTypeOK, LockMode, Continue, At, PowerOK, TimerOnlyInTrigger, UartReady
<1> QED BY <1>1, <1>2, <1>3 DEF PortInv

\* The timer goes with the trigger mode, the driver with RS232.
LEMMA ReleasePreserves ==
  ASSUME PortInv, Release PROVE PortInv'
<1>1. /\ mode' = "NOT_CONFIGURED" /\ out' = {} /\ lock' = lock
      /\ pc' = [pc EXCEPT ![Httpd] = IF call.mode = "AUTO" THEN "detect" ELSE "configure"]
      /\ call' = call
  BY OffTyped DEF Release, Continue
<1>2. PortTypeOK'
  <2>1. timer' \in {"none", "created", "armed"}
    BY DEF PortInv, PortTypeOK, Release, TimerReleased
  <2>2. /\ driver' \in Handle \union {None} /\ queue' \in Handle \union {None}
        /\ installed' \in BOOLEAN /\ txLock' \in Task \union {None}
    BY DEF PortInv, PortTypeOK, Release, DeinitUart
  <2>3. extInput' \in BOOLEAN /\ mono' \in BOOLEAN /\ lost' \in BOOLEAN
    BY Zenon DEF PortInv, PortTypeOK, Release
  <2>4. mode' \in Mode /\ pc' \in [{Httpd, TimerTask} -> PortPc]
    BY <1>1 DEF PortInv, PortTypeOK, Mode, PortPc
  <2>5. probe' \in 0..24 /\ result' = result /\ events' = events
    BY DEF Release, Continue
  <2> QED BY <1>1, <2>1, <2>2, <2>3, <2>4, <2>5 DEF PortInv, PortTypeOK
<1>3. CallOK' /\ LockOK' /\ ModeKnown'
  BY <1>1 DEF PortInv, PortTypeOK, Release, At, CallOK, LockOK, ModeKnown
<1>4. PowerOK'
  BY <1>1 DEF PowerOK
<1>5. TimerOnlyInTrigger' /\ UartReady'
  BY <1>1 DEF PortInv, PortTypeOK, Release, TimerReleased, TimerOnlyInTrigger, UartReady
<1> QED BY <1>2, <1>3, <1>4, <1>5 DEF PortInv

LEMMA DetectPreserves ==
  ASSUME PortInv, Detect PROVE PortInv'
<1>1. PortTypeOK'
  <2>1. out' \subseteq Outputs
    BY DEF Detect, ApplyVector, Switched
  <2>2. mono' \in BOOLEAN
    BY Zenon DEF Detect, PortInv, PortTypeOK
  <2>3. probe' \in 0..24
    BY DEF Detect, PortInv, PortTypeOK, Probes, Vector
  <2> QED BY <2>1, <2>2, <2>3 DEF PortInv, PortTypeOK, Detect
<1>2. CallOK' /\ LockOK' /\ ModeKnown'
  BY DEF PortInv, Detect, CallOK, LockOK, ModeKnown
<1>3. PowerOK' /\ TimerOnlyInTrigger' /\ UartReady'
  BY DEF PortInv, Detect, At, PowerOK, TimerOnlyInTrigger, UartReady
<1> QED BY <1>1, <1>2, <1>3 DEF PortInv

\* A new mode comes with its outputs.
LEMMA ConfiguredPreserves ==
  ASSUME PortInv, pc[Httpd] \in {"detect", "configure"},
         NEW m \in Mode, NEW ok \in BOOLEAN, Configured(m, ok),
         extInput' \in BOOLEAN,
         driver' \in Handle \union {None}, queue' \in Handle \union {None},
         installed' \in BOOLEAN, txLock' \in Task \union {None},
         UartReady'
  PROVE  PortInv'
<1>1. PortTypeOK'
  <2>1. mode' \in Mode /\ out' \subseteq Outputs /\ lock' = None
    BY OutputsTyped DEF Configured
  <2>2. pc' \in [{Httpd, TimerTask} -> PortPc] /\ result' \in Result
    BY DEF PortInv, PortTypeOK, Configured, PortPc, Result
  <2> QED BY <2>1, <2>2 DEF PortInv, PortTypeOK, Configured
<1>2. CallOK' /\ LockOK' /\ ModeKnown'
  BY DEF PortInv, PortTypeOK, Configured, CallOK, LockOK, ModeKnown
<1>3. PowerOK'
  BY OutputsTyped DEF Configured, PowerOK
<1>4. TimerOnlyInTrigger'
  BY DEF PortInv, Configured, ModeKnown, TimerOnlyInTrigger
<1> QED BY <1>1, <1>2, <1>3, <1>4 DEF PortInv

LEMMA ConfigureDetectedPreserves ==
  ASSUME PortInv, ConfigureDetected PROVE PortInv'
<1>1. PICK m \in {"NOT_CONFIGURED", "IR_BLASTER", "IR_EMITTER"} : Configured(m, TRUE)
  BY DEF ConfigureDetected
<1>2. m \in Mode /\ mode' = m
  BY <1>1 DEF Mode, Configured
<1>3. UartReady'
  BY <1>2 DEF UartReady
<1> QED
  BY <1>1, <1>2, <1>3, ConfiguredPreserves DEF PortInv, PortTypeOK, ConfigureDetected, At

LEMMA ConfigurePreserves ==
  ASSUME PortInv, Configure PROVE PortInv'
<1>1. call.mode \in Mode /\ mode' = call.mode
  BY DEF PortInv, Configure, At, CallOK, Configured
<1>2. UartReady'
  BY <1>1 DEF UartReady, Configure
<1> QED
  BY <1>1, <1>2, ConfiguredPreserves DEF PortInv, PortTypeOK, Configure, At

LEMMA ConfigureUartPreserves ==
  ASSUME PortInv, ConfigureUart PROVE PortInv'
<1>1. pc[Httpd] = "configure" /\ extInput' \in BOOLEAN
  BY DEF ConfigureUart, At
<1>2. CASE driver = None /\ UNCHANGED txLock /\ \E q \in Handle :
             /\ InstallDriver(q)
             /\ \/ installed' = TRUE /\ Configured("RS232", TRUE)
                \/ IdfFails /\ installed' = installed /\ Configured("NOT_CONFIGURED", FALSE)
  <2>1. PICK q \in Handle :
             /\ InstallDriver(q)
             /\ \/ installed' = TRUE /\ Configured("RS232", TRUE)
                \/ IdfFails /\ installed' = installed /\ Configured("NOT_CONFIGURED", FALSE)
    BY <1>2
  <2>2. /\ driver' \in Handle \union {None} /\ queue' \in Handle \union {None}
        /\ installed' \in BOOLEAN /\ txLock' \in Task \union {None}
    BY <1>2, <2>1 DEF PortInv, PortTypeOK, InstallDriver
  <2>3. CASE installed' = TRUE /\ Configured("RS232", TRUE)
    <3>1. UartReady'
      BY <2>1, <2>3 DEF UartReady, InstallDriver
    <3> QED BY <1>1, <2>2, <2>3, <3>1, ConfiguredPreserves DEF Mode
  <2>4. CASE Configured("NOT_CONFIGURED", FALSE)
    <3>1. UartReady'
      BY <2>4 DEF UartReady, Configured
    <3> QED BY <1>1, <2>2, <2>4, <3>1, ConfiguredPreserves DEF Mode
  <2> QED BY <2>1, <2>3, <2>4
<1>3. CASE /\ driver' = None /\ txLock' = None /\ Configured("NOT_CONFIGURED", FALSE)
           /\ UNCHANGED <<installed, queue>>
  <2>1. UartReady'
    BY <1>3 DEF UartReady, Configured
  <2> QED BY <1>1, <1>3, <2>1, ConfiguredPreserves DEF PortInv, PortTypeOK, Mode
<1> QED BY <1>2, <1>3 DEF ConfigureUart

LEMMA PostModePreserves ==
  ASSUME PortInv, PostMode PROVE PortInv'
<1>1. PortTypeOK'
  <2>1. ModeEvent \in Event
    BY DEF PortInv, PortTypeOK, ModeEvent, Event
  <2>2. events' \in Seq(Event) /\ Len(events') <= EventSlots /\ lost' \in BOOLEAN
    <3>1. CASE Len(events) < EventSlots
      BY <2>1, <3>1, EventSlotsAssumption DEF PostMode, PortInv, PortTypeOK
    <3>2. CASE ~(Len(events) < EventSlots)
      BY <3>2 DEF PostMode, PortInv, PortTypeOK
    <3> QED BY <3>1, <3>2
  <2>3. pc' \in [{Httpd, TimerTask} -> PortPc] /\ call' \in Call /\ result' = result
    BY DEF PortInv, PortTypeOK, PostMode, Return, PortPc, NoCall, Call
  <2> QED BY <2>2, <2>3 DEF PortInv, PortTypeOK, PostMode
<1>2. CallOK' /\ LockOK' /\ ModeKnown'
  BY DEF PortInv, PortTypeOK, PostMode, Return, At, CallOK, LockOK, ModeKnown
<1>3. PowerOK' /\ TimerOnlyInTrigger' /\ UartReady'
  BY DEF PortInv, PortTypeOK, PostMode, Return, At, PowerOK, TimerOnlyInTrigger, UartReady
<1> QED BY <1>1, <1>2, <1>3 DEF PortInv

LEMMA ImpulsePreserves ==
  ASSUME PortInv, Impulse PROVE PortInv'
<1>1. PortTypeOK'
  BY DEF PortInv, PortTypeOK, Impulse, Return, Continue, At, PortPc, Result, NoCall, Call
<1>2. CallOK' /\ LockOK' /\ ModeKnown'
  BY DEF PortInv, PortTypeOK, Impulse, Return, Continue, At, CallOK, LockOK, ModeKnown
<1>3. PowerOK' /\ TimerOnlyInTrigger' /\ UartReady'
  BY DEF PortInv, PortTypeOK, Impulse, Return, Continue, At, PowerOK, TimerOnlyInTrigger, UartReady
<1> QED BY <1>1, <1>2, <1>3 DEF PortInv

LEMMA ExpirePreserves ==
  ASSUME PortInv, Expire PROVE PortInv'
<1>1. PortTypeOK'
  BY DEF PortInv, PortTypeOK, Expire, Continue, At, PortPc, Result, NoCall, Call
<1>2. CallOK' /\ LockOK' /\ ModeKnown'
  BY DEF PortInv, PortTypeOK, Expire, Continue, At, CallOK, LockOK, ModeKnown
<1>3. PowerOK' /\ TimerOnlyInTrigger' /\ UartReady'
  BY DEF PortInv, PortTypeOK, Expire, Continue, At, PowerOK, TimerOnlyInTrigger, UartReady
<1> QED BY <1>1, <1>2, <1>3 DEF PortInv

LEMMA CheckTriggerPreserves ==
  ASSUME PortInv, NEW t \in {Httpd, TimerTask}, CheckTrigger(t) PROVE PortInv'
<1>1. PortTypeOK'
  BY DEF PortInv, PortTypeOK, CheckTrigger, Return, Continue, At, PortPc, Result, NoCall, Call
<1>2. CallOK' /\ LockOK' /\ ModeKnown'
  BY DEF PortInv, PortTypeOK, CheckTrigger, Return, Continue, At, CallOK, LockOK, ModeKnown
<1>3. PowerOK' /\ TimerOnlyInTrigger' /\ UartReady'
  BY DEF PortInv, PortTypeOK, CheckTrigger, Return, Continue, At, PowerOK, TimerOnlyInTrigger, UartReady
<1> QED BY <1>1, <1>2, <1>3 DEF PortInv

LEMMA LockTriggerPreserves ==
  ASSUME PortInv, NEW t \in {Httpd, TimerTask}, LockTrigger(t) PROVE PortInv'
<1>1. PortTypeOK'
  BY DEF PortInv, PortTypeOK, LockTrigger, Return, Continue, At, PortPc, Result, NoCall, Call
<1>2. CallOK' /\ LockOK' /\ ModeKnown'
  BY DEF PortInv, PortTypeOK, LockTrigger, Return, Continue, At, CallOK, LockOK, ModeKnown
<1>3. PowerOK' /\ TimerOnlyInTrigger' /\ UartReady'
  BY DEF PortInv, PortTypeOK, LockTrigger, Return, Continue, At, PowerOK, TimerOnlyInTrigger, UartReady
<1> QED BY <1>1, <1>2, <1>3 DEF PortInv

\* Only the HTTP server task switches power on, in the mode it has checked.
LEMMA SwitchPreserves ==
  ASSUME PortInv, NEW t \in {Httpd, TimerTask}, Switch(t) PROVE PortInv'
<1>1. /\ out' = out \union {"gnd", "ext"} \/ out' = out \ {"gnd", "ext"}
      /\ out' = out \ {"gnd", "ext"} \/ t = Httpd
  BY DEF Switch, On
<1>2. lock' = None /\ mode' = mode /\ pc' = [pc EXCEPT ![t] = "idle"] /\ pc[t] = "switch"
  BY DEF Switch, Return, At
<1>3. PortTypeOK'
  <2>1. out' \subseteq Outputs
    BY <1>1 DEF PortInv, PortTypeOK, Outputs
  <2>2. call' \in Call /\ result' \in Result /\ pc' \in [{Httpd, TimerTask} -> PortPc]
    BY <1>2 DEF PortInv, PortTypeOK, Switch, Return, Call, NoCall, Result, PortPc
  <2> QED BY <1>2, <2>1, <2>2 DEF PortInv, PortTypeOK, Switch
<1>4. CallOK' /\ LockOK' /\ ModeKnown'
  BY <1>2 DEF PortInv, PortTypeOK, Switch, Return, CallOK, LockOK, ModeKnown
<1>5. PowerOK'
  BY <1>1, <1>2 DEF PortInv, PortTypeOK, PowerOK, LockOK, ModeKnown
<1>6. TimerOnlyInTrigger' /\ UartReady'
  BY DEF PortInv, Switch, TimerOnlyInTrigger, UartReady
<1> QED BY <1>3, <1>4, <1>5, <1>6 DEF PortInv

LEMMA WritePreserves ==
  ASSUME PortInv, Write PROVE PortInv'
<1>1. PortTypeOK'
  BY DEF PortInv, PortTypeOK, Write, TakeTx, Return, Continue, At, PortPc, Result, NoCall, Call
<1>2. CallOK' /\ LockOK' /\ ModeKnown'
  BY DEF PortInv, PortTypeOK, Write, TakeTx, Return, Continue, At, CallOK, LockOK, ModeKnown
<1>3. PowerOK' /\ TimerOnlyInTrigger' /\ UartReady'
  BY DEF PortInv, PortTypeOK, Write, TakeTx, Return, Continue, At, PowerOK, TimerOnlyInTrigger, UartReady
<1> QED BY <1>1, <1>2, <1>3 DEF PortInv

LEMMA WrittenPreserves ==
  ASSUME PortInv, Written PROVE PortInv'
<1>1. PortTypeOK'
  BY DEF PortInv, PortTypeOK, Written, GiveTx, Return, At, PortPc, Result, NoCall, Call
<1>2. CallOK' /\ LockOK' /\ ModeKnown'
  BY DEF PortInv, PortTypeOK, Written, GiveTx, Return, At, CallOK, LockOK, ModeKnown
<1>3. PowerOK' /\ TimerOnlyInTrigger' /\ UartReady'
  BY DEF PortInv, PortTypeOK, Written, GiveTx, Return, At, PowerOK, TimerOnlyInTrigger, UartReady
<1> QED BY <1>1, <1>2, <1>3 DEF PortInv

LEMMA TakeEventPreserves ==
  ASSUME PortInv, TakeEvent PROVE PortInv'
<1>1. PortTypeOK'
  <2>1. events' \in Seq(Event) /\ Len(events') <= EventSlots
    BY EventSlotsAssumption DEF PortInv, PortTypeOK, TakeEvent
  <2> QED BY <2>1 DEF PortInv, PortTypeOK, TakeEvent
<1>2. CallOK' /\ LockOK' /\ ModeKnown'
  BY DEF PortInv, TakeEvent, CallOK, LockOK, ModeKnown
<1>3. PowerOK' /\ TimerOnlyInTrigger' /\ UartReady'
  BY DEF PortInv, TakeEvent, PowerOK, TimerOnlyInTrigger, UartReady
<1> QED BY <1>1, <1>2, <1>3 DEF PortInv

LEMMA OtherWritesPreserves ==
  ASSUME PortInv, OtherWrites PROVE PortInv'
<1>1. PICK t \in Task \ {Httpd, TimerTask} : TakeTx(t) \/ GiveTx(t)
  BY DEF OtherWrites
<1>2. UNCHANGED <<driver, installed, queue>> /\ txLock' \in Task \union {None}
  BY <1>1 DEF TakeTx, GiveTx, PortInv, PortTypeOK
<1>3. PortTypeOK'
  BY <1>2 DEF PortInv, PortTypeOK, OtherWrites
<1>4. CallOK' /\ LockOK' /\ ModeKnown'
  BY DEF PortInv, OtherWrites, CallOK, LockOK, ModeKnown
<1>5. PowerOK' /\ TimerOnlyInTrigger' /\ UartReady'
  BY <1>2 DEF PortInv, OtherWrites, PowerOK, TimerOnlyInTrigger, UartReady
<1> QED BY <1>3, <1>4, <1>5 DEF PortInv

-----------------------------------------------------------------------------
(* The theorems                                                            *)

LEMMA PortInductive == PortInv /\ [PortNext]_portVars => PortInv'
<1> SUFFICES ASSUME PortInv, [PortNext]_portVars PROVE PortInv'
  OBVIOUS
<1>1. CASE PortCall
  BY <1>1, CallTyped
<1>2. CASE ModeStep
  BY <1>2, ChangePreserves, LockModePreserves, ReleasePreserves, DetectPreserves,
     ConfigureDetectedPreserves, ConfigurePreserves, ConfigureUartPreserves,
     PostModePreserves DEF ModeStep
<1>3. ASSUME NEW t \in {Httpd, TimerTask}, SetTrigger(t) PROVE PortInv'
  BY <1>3, CheckTriggerPreserves, LockTriggerPreserves, SwitchPreserves DEF SetTrigger
<1>4. CASE PortHttpd
  BY <1>2, <1>3, <1>4, ImpulsePreserves, WritePreserves, WrittenPreserves DEF PortHttpd
<1>5. CASE PortTimer
  BY <1>3, <1>5, ExpirePreserves DEF PortTimer
<1>6. CASE TakeEvent
  BY <1>6, TakeEventPreserves
<1>7. CASE OtherWrites
  BY <1>7, OtherWritesPreserves
<1>8. CASE UNCHANGED portVars
  BY <1>8 DEF portVars, PortInv, PortTypeOK, CallOK, LockOK, ModeKnown, PowerOK,
              TimerOnlyInTrigger, UartReady
<1> QED BY <1>1, <1>4, <1>5, <1>6, <1>7, <1>8 DEF PortNext

LEMMA PortInvariant == PortSpec => []PortInv
BY PortInitially, PortInductive, PTL DEF PortSpec

\* The state of the port stays in its domains.
THEOREM PortTyped == PortSpec => []PortTypeOK
<1>1. PortInv => PortTypeOK
  BY DEF PortInv
<1> QED BY <1>1, PortInvariant, PTL

\* external_port.cpp l.220-237, l.360-377: no late callback of the trigger
\* timer, and no order of mode changes, leaves a port under power in a mode that
\* has none.
THEOREM PowerFollowsMode == PortSpec => []NoStrayPower
<1>1. PortInv => NoStrayPower
  BY DEF PortInv, PowerOK, LockOK, NoStrayPower
<1> QED BY <1>1, PortInvariant, PTL

\* external_port.cpp l.224-230: the trigger timer exists in trigger mode only.
THEOREM TimerFollowsMode == PortSpec => []TimerOnlyInTrigger
<1>1. PortInv => TimerOnlyInTrigger
  BY DEF PortInv
<1> QED BY <1>1, PortInvariant, PTL

\* external_port.cpp l.457-518: in RS232 mode the driver is installed and its
\* queue is the one the port hands out, although a failure may leave a driver
\* behind.
THEOREM UartFollowsMode == PortSpec => []UartReady
<1>1. PortInv => UartReady
  BY DEF PortInv
<1> QED BY <1>1, PortInvariant, PTL

-----------------------------------------------------------------------------
(* Port detection                                                          *)

\* Where 5V is on, a vector switches ground on for stereo plugs at most.
LEMMA VectorsSafe ==
  \A i \in 1..Len(Vector) : Vector[i].ext > 0 => Vector[i].gnd \in {0, 2}
<1> DEFINE v(g, e, t) == [gnd |-> g, ext |-> e, tx |-> t]
<1>1. /\ Vector[1] = v(0, 1, 0) /\ Vector[2] = v(0, 0, 0) /\ Vector[3] = v(1, 0, 1)
      /\ Vector[4] = v(0, 0, 1) /\ Vector[5] = v(0, 1, 2) /\ Vector[6] = v(1, 0, 0)
      /\ Vector[7] = v(2, 1, 0) /\ Vector[8] = v(2, 1, 1) /\ Len(Vector) = 8
  BY DEF Vector
<1>2. 1..Len(Vector) = {1, 2, 3, 4, 5, 6, 7, 8}
  BY <1>1
<1> QED BY <1>1, <1>2

\* The plug is known once the first vector, which leaves ground off, was applied.
ProbeOK ==
  pc[Httpd] = "detect" /\ mono => probe >= 3 /\ ~({"gnd", "ext"} \subseteq out)

LEMMA DetectIsSafe ==
  ASSUME PortInv, ProbeOK, Detect PROVE ProbeOK'
<1>1. probe \in 0..23 /\ probe' = probe + 1
  BY DEF PortInv, PortTypeOK, Detect, Probes, Vector
<1>2. CASE probe % 3 < 2
  <2>1. "ext" \notin out'
    BY <1>2 DEF Detect, Switched
  <2>2. mono' = mono /\ pc' = pc
    BY <1>1, <1>2 DEF Detect
  <2>3. ~({"gnd", "ext"} \subseteq out')
    BY <2>1
  <2>4. probe >= 3 => probe' >= 3
    BY <1>1
  <2> QED BY <2>2, <2>3, <2>4, Zenon DEF ProbeOK
<1>3. CASE ~(probe % 3 < 2)
  <2> DEFINE i == probe \div 3 + 1
  <2>1. i \in 1..8 /\ probe >= 2 /\ Len(Vector) = 8
    BY <1>1, <1>3 DEF Vector
  <2>2. out' = ApplyVector(Vector[i], mono)
    BY <1>3 DEF Detect
  <2>3. Vector[i].ext > 0 => Vector[i].gnd \in {0, 2}
    BY <2>1, VectorsSafe
  <2>4. ASSUME {"gnd", "ext"} \subseteq out'
        PROVE  Vector[i].gnd = 2 /\ ~mono
    BY <2>2, <2>3, <2>4 DEF ApplyVector, Switched
  <2>5. CASE probe = 2
    <3>1. i = 1 /\ Vector[i].gnd = 0
      BY <2>5 DEF Vector
    <3> QED BY <1>1, <2>4, <2>5, <3>1 DEF ProbeOK
  <2>6. CASE probe # 2
    <3>1. mono' = mono /\ probe' >= 3
      BY <1>1, <2>1, <2>6 DEF Detect
    <3> QED BY <2>4, <3>1 DEF ProbeOK
  <2> QED BY <2>5, <2>6
<1> QED BY <1>2, <1>3

\* The other steps of a detection, those of the timer task, switch nothing on.
LEMMA OthersAreSafe ==
  ASSUME PortInv, ProbeOK, [PortNext]_portVars, ~Detect PROVE ProbeOK'
<1>1. CASE pc'[Httpd] # "detect"
  BY <1>1 DEF ProbeOK
<1>2. CASE Release
  BY <1>2, Zenon DEF Release, ProbeOK
<1>3. ASSUME pc'[Httpd] = "detect", ~Release
      PROVE  pc[Httpd] = "detect" /\ UNCHANGED <<out, mono, probe>>
  <2> USE <1>3
  <2>1. CASE PortCall
    BY <2>1 DEF PortInv, PortTypeOK, PortCall, CallChangeMode, CallSetTrigger, CallTriggerImpulse, CallWrite, CallPort
  <2>2. CASE ModeStep
    BY <2>2 DEF PortInv, PortTypeOK, ModeStep, Change, LockMode, ConfigureDetected, Configure,
                ConfigureUart, Configured, PostMode, Return, Continue, At
  <2>3. CASE Impulse \/ Write \/ Written
    BY <2>3 DEF PortInv, PortTypeOK, Impulse, Write, Written, Return, Continue, At
  <2>4. ASSUME NEW t \in {Httpd, TimerTask}, SetTrigger(t)
        PROVE  pc[Httpd] = "detect" /\ UNCHANGED <<out, mono, probe>>
    BY <2>4 DEF PortInv, PortTypeOK, LockOK, SetTrigger, CheckTrigger, LockTrigger, Switch,
                Return, Continue, At
  <2>5. CASE Expire \/ TakeEvent \/ OtherWrites \/ UNCHANGED portVars
    BY <2>5 DEF PortInv, PortTypeOK, Expire, TakeEvent, OtherWrites, Continue, portVars
  <2> QED BY <2>1, <2>2, <2>3, <2>4, <2>5 DEF PortNext, PortHttpd, PortTimer
<1>4. CASE ~Release /\ pc'[Httpd] = "detect"
  BY <1>3, <1>4 DEF ProbeOK
<1> QED BY <1>1, <1>2, <1>4

\* external_port.cpp l.520-552: the port never supplies ground and 5V to a plug
\* that was found to be mono.
THEOREM MonoPlugSafe == PortSpec => []NoBrownout
<1>1. PortInit => ProbeOK
  BY DEF PortInit, ProbeOK
<1>2. PortInv /\ ProbeOK /\ [PortNext]_portVars => ProbeOK'
  BY DetectIsSafe, OthersAreSafe
<1>3. ProbeOK => NoBrownout
  BY DEF ProbeOK, NoBrownout, At
<1> QED BY <1>1, <1>2, <1>3, PortInvariant, PTL DEF PortSpec
=============================================================================
