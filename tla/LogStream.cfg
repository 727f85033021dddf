\* Two clients that subscribe, unsubscribe, vanish and come back, and the fairness of
\* the tasks; up to the first overlap of handlers.
SPECIFICATION FairSpec
CONSTANTS
  Client = {c1, c2}
  Producer = {p1}
  Task = {t1, t2}
  Httpd = httpd
  EventTask = event
  Depth = 2
  MaxSubs = 2
  MaxEvents = 1
  HeapFails = TRUE
  None = None
CONSTRAINT Undisturbed
INVARIANTS
  TypeOK
  StreamAlive
  SubscribersConnected
  LeftoverBounded
PROPERTY QueueDrains
