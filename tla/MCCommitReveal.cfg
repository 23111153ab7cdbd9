SPECIFICATION Spec
CONSTANTS
  Act <- MCAct
  NoAct = NoAct
  Legal <- MCLegal
  Capture <- MCCapture
  SurvivalTurn = 2
  Retries = 1
  Hints = TRUE
  MaxFaults = 2
INVARIANTS
  CInv
  BothLocked
  WireMatchesLedger
  ResolvesSealedActions
  EvidenceMatchesLedger
  NoFalseRejection
  OutcomeIsShared
PROPERTIES
  ImplementsJointGame
