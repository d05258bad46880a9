SPECIFICATION BridgeFairSpec
CONSTANTS
  Reqs = {m1}
  DbFails = TRUE
  MaxLosses = 3
CHECK_DEADLOCK FALSE
INVARIANTS BridgeTypeOK AckedIsAnswered RunAgainOnlyAfterLoss
PROPERTY RequestGetsAnswer
