\* A WebSocket client and a GlobalCache client that ask for the same code and
\* for another one.
SPECIFICATION DockSpec
CONSTANTS
  gc = gc
  a = a
  b = b
  bad = bad
  Httpd = httpd
  EventTask = event
  Sender = {httpd, gc}
  Task = {httpd, event, gc}
  Code <- MCCode
  BadCode = {bad}
  MinRepeats <- MCMinRepeats
  Embedded <- MCEmbedded
  Request <- MCFewRequests
  MaxRepeat = 2
  MaxCalls = 3
  None = None
  Fd = {f1}
  NoFd = NoFd
  MaxSessions = 1
PROPERTY
  MatchingExtend
CHECK_DEADLOCK FALSE
