SPECIFICATION ReportSpec
CONSTANTS
  Absent = Absent
  Torn = Torn
  Games = 3
  Ceiling = 2
  QueueDepth = 2
  Retries = 1
  Capacity = 1
  MaxLate = 1
  MaxWindows = 1
  MaxFaults = 2
INVARIANTS
  AnswersAreTrue
  QuotaIsKept
  SeriesIsTheRecord
