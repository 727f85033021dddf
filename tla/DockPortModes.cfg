\* One port that is switched between RS232 and nothing, and its bridge.
SPECIFICATION Spec
CONSTANTS
  Httpd = httpd
  TimerTask = timer
  EventTask = event
  BridgeTask = {b1, b2}
  Task = {httpd, timer, event, b1, b2}
  Supported = {"RS232"}
  Requested = {"NOT_CONFIGURED", "RS232"}
  Handle = {q1, q2}
  EventSlots = 2
  IdfFails = TRUE
  Client = {c1, c2}
  MaxClients = 1
  None = None
SYMMETRY Symmetry
CONSTRAINT Unraced
INVARIANTS
  TypeOK
  OneTask
  SocketsKnown
  BridgeFollowsMode
PROPERTY
  ImplementsBridge
