\* Every part of the network task with a short queue, with a phone or a cable.
SPECIFICATION Spec
CONSTANTS
  QueueLength = 2
  MaxRetry = 2
  EthStatic = FALSE
CONSTRAINT Apart
INVARIANTS
  NetTypeOK
  DeadlineWatched
  WifiConnectedTrue
  CredentialsInImprov
  ButtonAuthorizes
  DisconnectRecovers
  EthernetWins
CHECK_DEADLOCK FALSE
