CONSTANTS
  proxy = proxy
  cli = cli
  handler = handler
  Commander = {proxy, cli}
  Handler = handler
  RingSize = 3
  MaxLines = 2
  MaxEvents = 5
  MaxCommands = 2
  MaxPerEvent = 1
SPECIFICATION Spec
INVARIANTS TypeOK RepliesMatch
PROPERTIES CommandsReturn EventsAreHandled CommandsReturnUnlessStuck
CHECK_DEADLOCK FALSE
