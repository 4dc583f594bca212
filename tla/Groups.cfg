CONSTANTS
  c1 = c1
  c2 = c2
  c3 = c3
  Client = {c1, c2, c3}
  KMin = {2, 3}
  DisableCircChange = TRUE
  DisableDynamicRate = TRUE
  TsMin = 5
  TsMax = 15
  MaxListenUsers = 50
  HandshakeMayFail = TRUE
  MaxRecv = 1
  MaxCtrl = 2
SYMMETRY Symmetry
SPECIFICATION Spec
INVARIANTS WaitingIsBroken ActiveIsFulfilled
CHECK_DEADLOCK FALSE
CONSTRAINT FewData
