SPECIFICATION MCSpec
CONSTANTS
  Timeframes = {2, 4}
  MaxTicks = 2
  MaxBars = 2
  Prices = {1, 2, 3}
  LastTime = 6
  MaxFed = 5
  Records <- MCRecords
  Windows <- MCWindows
  DayLength = 2
  NoBound = NoBound
  MaxRecords = 4
  Spacing = 2
  Limit = 2
  WindowStart = 3
  WindowEnd = 10
  Keep = 3
  Stamps = {1, 2, 4, 5, 6, 8, 10, 12}
  Entries = {0, 1}
  Hold = 3
  Target = 3
  Stop = 2
  Quotes <- MCQuotes
  Gaps = {0, 1, 3}
  MaxPath = 4
  BarLength = 2
  Clock = {2, 3, 6}
  MaxUpdates = 2
  Features <- MCFeatures
  MinMatch = 50
  MaxRuns = 2
  Dirs = {data, features}
  Recordings <- MCRecordings
  MaxCollects = 3
  MaxLiveRows = 1
  Readings <- MCReadings
  MinBars = 3
  MaxSpread = 50
  TargetDistance = 150
  MinConfidence = 35
  FlatTrend = 15
  Clients = {c1, c2}
  RateLimit = 2
  RateWindow = 1
  TokenSet = TRUE
  Horizon = 4
  Queries = {q1, q2}
  Costs = {4, 6}
  MaxCost = 5
  MaxCalls = 4
  Missing = Missing
  HalfWritten = HalfWritten
  MaxOpened = 1
  MaxFaults = 1
  MaxStarts = 2
INVARIANTS
  ComponentsTypeOK
  BarsAscend
  TimeframesAgree
  NothingOverwritten
  HonestComplete
  RequestsBounded
  NeverBothWin
  LabelsMatchBroker
  BookIsLatestOfBar
  ProvenanceFollowsRows
  RowsOnce
  OnlyWithTheTrend
  NoChasing
  RateBounded
  BilledOnce
PROPERTIES
  LabelsFinal
  PanelSettles
\* Each component's behaviours end at its bounds.
CHECK_DEADLOCK FALSE
