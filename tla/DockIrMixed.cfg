\* A WebSocket client that reconnects, and a GlobalCache client.
SPECIFICATION DockSpec
CONSTANTS
  gc = gc
  a = a
  b = b
  bad = bad
  Httpd = httpd
  EventTask = event
  Sender = {httpd, gc}
  Task = {httpd, event, gc}
  Code <- MCCode
  BadCode = {bad}
  MinRepeats <- MCMinRepeats
  Embedded <- MCEmbedded
  Request <- MCFewRequests
  MaxRepeat = 2
  MaxCalls = 2
  None = None
  Fd = {f1}
  NoFd = NoFd
  MaxSessions = 2
INVARIANTS
  QueueHeadOwned
  RunawayBound
  StopKept
  OwnerNotDangling
PROPERTIES
  ImplementsTransmitter
CHECK_DEADLOCK FALSE
