SPECIFICATION Spec
CONSTANTS
  None = None
  Unreadable = Unreadable
  BoardSize = 3
  BarrierQuota = 2
  SurvivalThreshold = 3
  CopStart <- MCCopStart
  ThiefStart <- MCThiefStart
  MinSupport = 6
  Weights <- MCWeights
  Unit <- MCUnit
  LeafMode = "adaptive"
  RelaxTurn = 1
  Certain = 10
  TruthFloor = 2
  MinLie = 1
  DangerDistance = 1
  SafeDistance = 3
  LiePool = 3
INVARIANT EnginesAgree
INVARIANT KillRangeIsForced
INVARIANT FeaturesDescribeTheBoard
INVARIANT ReplayExactUntilRace
INVARIANT DrawnHidesTheCell
INVARIANT OnlyASealHidesTheCop
CHECK_DEADLOCK FALSE
