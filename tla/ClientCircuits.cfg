SPECIFICATION Spec
CONSTANTS
  Stream = {s1}
  MaxCirc = 2
  MaxEvents = 2
  MaxCli = 1
  CircRetryAtmps = 1
  ChActive = TRUE
CONSTRAINT NotMisled
INVARIANTS TypeOK BuiltIsBuilt PendingAreAttached PostponedIsOpened ActiveHasCircuit
CHECK_DEADLOCK FALSE
