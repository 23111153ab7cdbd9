SPECIFICATION Spec
CONSTANTS
  Absent = Absent
  Torn = Torn
  Opponent = {o1, o2}
  MaxGamesPerTeam = 2
  Retries = 1
  MaxGames = 4
  MaxCrashes = 2
INVARIANTS
  NeverOverstated
  CountKept
  LedgerWithinBounds
