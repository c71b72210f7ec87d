SPECIFICATION FairSpec
CONSTANTS
  StaMaxRetries = 2
  MaxClients = 1
  MaxEvents = 2
  MaxCalls = 3
  MaxStarts = 2
INVARIANTS ReportsAreTrue NaptWithTask
PROPERTIES GatewayFollows Reconnects
CHECK_DEADLOCK FALSE
