CONSTANTS
  InitState = "IDLE"
  MaxClients = 1
  EarlyClients = TRUE
  StdinCloses = FALSE
  LateClients = FALSE
SPECIFICATION Spec
PROPERTIES ClientsAreServed
