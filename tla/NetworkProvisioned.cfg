SPECIFICATION Spec
CONSTANTS
  QueueLength = 3
  MaxRetry = 1
  EthStatic = FALSE
PROPERTY ProvisionedReboots
CHECK_DEADLOCK FALSE
