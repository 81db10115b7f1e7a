SPECIFICATION TickFilesSpec
CONSTANTS
  Records <- MCRecords
  Windows <- MCWindows
  DayLength = 2
  NoBound = NoBound
  MaxRecords = 3
INVARIANT EveryDayExported
CHECK_DEADLOCK FALSE
