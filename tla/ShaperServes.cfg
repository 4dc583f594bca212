CONSTANTS
  InitState = "IDLE"
  MaxClients = 3
  EarlyClients = FALSE
  StdinCloses = TRUE
  LateClients = FALSE
SPECIFICATION Spec
INVARIANTS TypeOK
PROPERTIES ClientsAreServed EventsNeedClients TerminateReturns
