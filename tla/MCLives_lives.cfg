SPECIFICATION LivesSpec
CONSTANTS
  Nothing = Nothing
  Timeframes <- MCTimeframes
  MaxTicks = 2
  MaxBars = 4
  Prices <- MCPrices
  LastTime = 0
  MaxFed = 0
  Recorded <- MCRecorded
  EntryPeriod = 1
  DaySeconds = 4
  KeepDays = 1
  Wall <- MCWall
  Pnls <- MCPnls
  MaxLives = 2
  MaxTrades = 2
  NoSocket = NoSocket
  Channels = {c1, c2}
  MaxSockets = 3
INVARIANTS
  ProcessTypeOK
  LiveNeedsFourKeys
  SuccessMeansStarted
  ReportCountsOnce
  DailyCandlesAgree
  SessionTypeOK
  EveryChannelSubscribed
PROPERTY ReaderStops
\* After the last process, and after stop, the system stops.
CHECK_DEADLOCK FALSE
