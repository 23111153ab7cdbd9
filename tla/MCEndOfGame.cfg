SPECIFICATION EndFairSpec
CONSTANTS
  Act <- MCAct
  NoAct = NoAct
  Legal <- MCLegal
  Capture <- MCCapture
  SurvivalTurn = 2
  Retries = 1
  Hints = TRUE
  MaxFaults = 2
INVARIANTS
  MismatchOnlyForUnseenCommit
  BoardOutcomeStands
  JournalsTellTheGame
PROPERTIES
  PublishedIsHeard
  BothExit
  CleanEnding
