\* One client that stays connected.
SPECIFICATION Spec
CONSTANTS
  Client = {c1}
  Producer = {p1}
  Task = {t1, t2}
  Httpd = httpd
  EventTask = event
  Depth = 2
  MaxSubs = 2
  MaxEvents = 0
  HeapFails = FALSE
  None = None
INVARIANT AssertHolds
