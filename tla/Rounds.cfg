CONSTANTS
  c1 = c1
  c2 = c2
  c3 = c3
  Client = {c1, c2, c3}
  KMin <- KMinWithDefault
  DisableCircChange = FALSE
  DisableDynamicRate = FALSE
  TsMin = 5
  TsMax = 12
  MaxListenUsers = 50
  HandshakeMayFail = TRUE
  MaxRecv = 1
  MaxCtrl = 2
SYMMETRY Symmetry
SPECIFICATION SyncSpec
INVARIANTS TypeOK RoundsAreEarned HeldClientsAreCutOff RateFollowsClients ShaperRunsIffClients
PROPERTIES ExposedOnlyByChange
CHECK_DEADLOCK FALSE
