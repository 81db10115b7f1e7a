SPECIFICATION Spec
CONSTANTS
  None = None
  MGC = MGC
  Symbols = {MGC}
  ProductionSymbols = {MGC}
  Tradable = {MGC}
  Multiplier = 1
  MinContracts = 1
  MaxContracts = 0
  StepContracts = 1
  MinSeconds = 1
  RiskPerTrade = 4
  MaxDailyLoss = 6
  MaxDailyProfit = 5
  MaxDailyTrades = 4
  MaxConsecutiveLosses = 2
  MaxOpenPositions = 1
  Cooldown = 2
  StartBalance = 50
  DayLength = 8
  CommissionPerContract = 0
  Slippage = 0
  StopSlippage = 0
  AnalystEnabled = FALSE
  AnalystInterval = 2
  Answers <- MCNoAnswers
  Calendars <- MCNoCalendars
  Currencies <- MCCurrencies
  NewsBefore = 0
  NewsAfter = 0
  Mode = "ict"
  Feed = "replay"
  ReplayStart = 8
  StopDistance = 2
  TargetDistance = 3
  MaxSpread = 1
  EvaluateEvery = 1
  BarLength = 1
  Bids = {10, 11, 12, 13}
  Spreads = {1}
  PartialQuotes = FALSE
  MaxMove = 3
  MaxTime = 8
  MaxOpens = 4
PROPERTY LossLimitStopsTheDay
CHECK_DEADLOCK FALSE
