SPECIFICATION EndSpec
CONSTANTS
  Act <- MCAct
  NoAct = NoAct
  Legal <- MCLegal
  Capture <- MCCapture
  SurvivalTurn = 1
  Retries = 0
  Hints = FALSE
  MaxFaults = 1
INVARIANTS
  HonestLedgersMatch
