SPECIFICATION HintSpec
CONSTANTS
  Act <- MCAct
  NoAct = NoAct
  Legal <- MCLegal
  Capture <- MCCapture
  SurvivalTurn = 4
  Retries = 1
  Hints = TRUE
  MaxFaults = 2
  BoardSize = 7
  One = 10000
  Half <- MCHalf
  Kernel <- MCKernel
  Retain = 9000
  Epsilon = 500
  WordLimit = 3
  BankLimit = 4
  Budget = 60
  MinCall = 1
  Prior = 5000
  RMin = 500
  RMax = 9500
  ContradictionStep = 3000
  RecoveryRate = 500
INVARIANTS
  HintsKeepUp
PROPERTIES
  DecodesNewest
