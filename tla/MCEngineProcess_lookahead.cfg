SPECIFICATION ProcessSpec
CONSTANTS
  Nothing = Nothing
  Timeframes <- MCTimeframes
  MaxTicks = 2
  MaxBars = 4
  Prices <- MCPrices
  LastTime = 0
  MaxFed = 0
  Recorded <- MCRecorded
  EntryPeriod = 1
  DaySeconds = 4
  KeepDays = 1
  Wall <- MCWall
  Pnls <- MCPnls
  MaxLives = 2
  MaxTrades = 2
INVARIANTS
  ReplaySeesNoFuture
\* After the last process the system stops.
CHECK_DEADLOCK FALSE
