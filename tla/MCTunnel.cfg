SPECIFICATION FairSpec
CONSTANTS
  RetryCount = 3
  MaxDrops = 3
INVARIANTS
  OneStraggler
PROPERTIES
  DropIsAnswered
