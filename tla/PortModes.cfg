\* A port in all its modes, with a driver that may fail.
SPECIFICATION PortSpec
CONSTANTS
  Httpd = httpd
  TimerTask = timer
  Task = {httpd, timer, bridge}
  Supported = {"IR_BLASTER", "IR_EMITTER", "TRIGGER_5V", "RS232"}
  Requested = {"AUTO", "NOT_CONFIGURED", "IR_BLASTER", "IR_EMITTER", "TRIGGER_5V", "RS232"}
  Handle = {q1, q2}
  EventSlots = 2
  IdfFails = TRUE
  None = None
SYMMETRY Symmetry
INVARIANTS
  NoStrayPower
  NoBrownout
  TimerOnlyInTrigger
  UartReady
