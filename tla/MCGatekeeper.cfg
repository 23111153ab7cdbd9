SPECIFICATION FairSpec
CONSTANTS
  Call = {a, b, c, d}
  SlotChoices <- MCOneOrTwo
  QueueDepth = 2
  Retries = 1
  Capacity = 1
  TokenTicks = 2
  Timeout = 1
  Backoff = 1
  Estimate = 1
  Usage = {0, 2}
  ShortPrompt = 2
  TemplateOnly = 4
INVARIANTS
  SlotsConserved
  EveryCallIsPaid
PROPERTIES
  NoOvertaking
  EveryCallEnds
