CONSTANTS
  c1 = c1
  c2 = c2
  Client = {c1, c2}
  KMin = {1, 2}
  DisableCircChange = FALSE
  DisableDynamicRate = TRUE
  TsMin = 5
  TsMax = 15
  MaxListenUsers = 50
  HandshakeMayFail = FALSE
  MaxRecv = 0
  MaxCtrl = 6
  ChActive = TRUE
  MaxCommands = 1
SPECIFICATION TorKSpec
INVARIANTS AgreeWhenQuiet OrdersMatchState
CHECK_DEADLOCK FALSE
PROPERTIES OrdersAreObeyed ChangeEnds
