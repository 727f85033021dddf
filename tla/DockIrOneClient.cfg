\* Two WebSocket clients, or one that reconnects, and the event task; no
\* GlobalCache task.
SPECIFICATION DockFairSpec
CONSTANTS
  gc = gc
  a = a
  b = b
  bad = bad
  Httpd = httpd
  EventTask = event
  Sender = {httpd}
  Task = {httpd, event}
  Code <- MCCode
  BadCode = {bad}
  MinRepeats <- MCMinRepeats
  Embedded <- MCEmbedded
  Request <- MCRequest
  MaxRepeat = 2
  MaxCalls = 2
  None = None
  Fd = {f1, f2}
  NoFd = NoFd
  MaxSessions = 2
INVARIANTS
  VanishedOwnerStopped
PROPERTIES
  AcceptedAnswered
CHECK_DEADLOCK FALSE
