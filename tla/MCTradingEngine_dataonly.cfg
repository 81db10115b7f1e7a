SPECIFICATION Spec
CONSTANTS
  None = None
  MGC = MGC
  XAUUSD = XAUUSD
  Symbols = {XAUUSD}
  ProductionSymbols = {MGC}
  Tradable = {}
  Multiplier = 1
  MinContracts = 1
  MaxContracts = 0
  StepContracts = 1
  MinSeconds = 1
  RiskPerTrade = 4
  MaxDailyLoss = 6
  MaxDailyProfit = 5
  MaxDailyTrades = 2
  MaxConsecutiveLosses = 2
  MaxOpenPositions = 1
  Cooldown = 2
  StartBalance = 50
  DayLength = 4
  CommissionPerContract = 0
  Slippage = 0
  StopSlippage = 0
  AnalystEnabled = FALSE
  AnalystInterval = 2
  Answers <- MCNoAnswers
  Calendars <- MCNoCalendars
  Currencies <- MCCurrencies
  NewsBefore = 0
  NewsAfter = 0
  Mode = "ema"
  Feed = "live"
  ReplayStart = 0
  StopDistance = 2
  TargetDistance = 3
  MaxSpread = 1
  EvaluateEvery = 1
  BarLength = 2
  Bids = {10, 11, 12, 13}
  Spreads = {1}
  PartialQuotes = FALSE
  MaxMove = 3
  MaxTime = 6
  MaxOpens = 3
INVARIANT OnlyTradableSymbols
CHECK_DEADLOCK FALSE
