SPECIFICATION Spec
CONSTANTS
  None = None
  MGC = MGC
  Symbols = {MGC}
  ProductionSymbols = {MGC}
  Tradable = {MGC}
  Multiplier = 1
  MinContracts = 1
  MaxContracts = 0
  StepContracts = 1
  MinSeconds = 0
  RiskPerTrade = 2
  MaxDailyLoss = 9
  MaxDailyProfit = 9
  MaxDailyTrades = 2
  MaxConsecutiveLosses = 1
  MaxOpenPositions = 2
  Cooldown = 2
  StartBalance = 50
  DayLength = 9
  CommissionPerContract = 0
  Slippage = 0
  StopSlippage = 0
  AnalystEnabled = TRUE
  AnalystInterval = 2
  Answers <- MCAnswers
  Calendars <- MCCalendars
  Currencies <- MCCurrencies
  NewsBefore = 1
  NewsAfter = 0
  Mode = "ema"
  Feed = "live"
  ReplayStart = 0
  StopDistance = 2
  TargetDistance = 3
  MaxSpread = 1
  EvaluateEvery = 1
  BarLength = 1
  Bids = {10, 14}
  Spreads = {1}
  PartialQuotes = TRUE
  MaxMove = 4
  MaxTime = 3
  MaxOpens = 4
INVARIANTS
  CallsSpaced
  NoPositionPastStop
  TradeCapBounded
PROPERTIES
  BlackoutHonoured
  ImplementsPolicy
CHECK_DEADLOCK FALSE
