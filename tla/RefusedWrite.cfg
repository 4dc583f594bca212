CONSTANTS
  c1 = c1
  c2 = c2
  Client = {c1, c2}
  KMin = {1}
  DisableCircChange = FALSE
  DisableDynamicRate = TRUE
  TsMin = 5
  TsMax = 15
  MaxListenUsers = 50
  HandshakeMayFail = FALSE
  MaxRecv = 1
  MaxCtrl = 2
SPECIFICATION ReuseSpec
INVARIANTS OneFrameServesOneRound
