SPECIFICATION Spec
CONSTANTS
  None = None
  MGC = MGC
  Symbols = {MGC}
  ProductionSymbols = {MGC}
  Tradable = {MGC}
  Multiplier = 2
  MinContracts = 1
  MaxContracts = 0
  StepContracts = 1
  MinSeconds = 1
  RiskPerTrade = 9
  MaxDailyLoss = 14
  MaxDailyProfit = 10
  MaxDailyTrades = 2
  MaxConsecutiveLosses = 2
  MaxOpenPositions = 1
  Cooldown = 2
  StartBalance = 50
  DayLength = 4
  CommissionPerContract = 1
  Slippage = 0
  StopSlippage = 0
  AnalystEnabled = FALSE
  AnalystInterval = 2
  Answers <- MCNoAnswers
  Calendars <- MCNoCalendars
  Currencies <- MCCurrencies
  NewsBefore = 0
  NewsAfter = 0
  Mode = "ema"
  Feed = "live"
  ReplayStart = 0
  StopDistance = 2
  TargetDistance = 3
  MaxSpread = 1
  EvaluateEvery = 1
  BarLength = 2
  Bids = {8, 11, 13}
  Spreads = {0, 1}
  PartialQuotes = FALSE
  MaxMove = 3
  MaxTime = 5
  MaxOpens = 3
INVARIANTS
  TypeOK
  DailyLossBounded
  TradeLossBounded
  LedgerAgrees
PROPERTY ImplementsPolicy
CHECK_DEADLOCK FALSE
