SPECIFICATION Spec
CONSTANTS
  s1 = s1
  httpd = httpd
  timer = timer
  QueueLength = 1
  LoopLength = 1
  Inputs <- FewInputs
  Task <- Tasks
  Socket <- Sockets
  NoSocket = NoSocket
  MaxClients = 1
  Httpd = httpd
  TimerTask = timer
INVARIANTS
  SlotsConserved
  CallbackOwned
  LearnScreenEnds
CONSTRAINTS
  RawForClients
  FewScreens
