----------------------------- MODULE TradingEngine -----------------------------
(***************************************************************************)
(* core/engine.py: the tick handler and everything it calls synchronously  *)
(* (PaperBroker, RiskManager), with the threads that run beside it: the    *)
(* analyst's requests and the news refresh.                                *)
(*                                                                         *)
(* _on_tick runs on one thread and never waits, so it is split only where  *)
(* another thread, or the clock, can be seen to move: the quote arrives,   *)
(* each position it hits is closed, and then the decision is taken.        *)
(*                                                                         *)
(* Two clocks.  `wall` is datetime.now(); `moment` is the timestamp of the *)
(* tick being handled, which is the wall clock on a live feed and the      *)
(* recorded time in a replay.  Which of the two a call passes to the risk  *)
(* manager is the code's choice, call by call.                             *)
(***************************************************************************)
EXTENDS RiskManager, PaperBroker, Analyst, NewsFilter

CONSTANTS
  Mode,            (* strategy_mode: "ema" or "ict"                         *)
  Feed,            (* "live": ticks carry the wall clock; "replay": recorded time *)
  ReplayStart,     (* wall-clock time at which the process starts           *)
  Tradable,        (* symbols whose config has tradable=True                *)
  StopDistance,    (* of the symbol's config, or of the ICT signal          *)
  TargetDistance,
  MaxSpread,       (* the strategy vetoes a wider quote                     *)
  EvaluateEvery,   (* EVALUATE_EVERY_SECONDS                                *)
  BarLength,       (* ENTRY_TF: an ICT decision is taken once per bar       *)
  Bids, Spreads,   (* the quotes the feed may send                          *)
  PartialQuotes,   (* it may send one side only, as 0 for the other         *)
  MaxMove,         (* the most a bid or an ask moves from tick to tick      *)
  MaxTime,         (* bound: no clock passes this                           *)
  MaxOpens         (* bound: positions opened in a behaviour                *)

ASSUME EngineAssumption ==
  /\ Mode \in {"ema", "ict"} /\ Feed \in {"live", "replay"}
  /\ {ReplayStart, TargetDistance, MaxSpread, EvaluateEvery, MaxTime, MaxOpens}
       \subseteq Nat
  /\ {StopDistance, BarLength, MaxMove} \subseteq Nat \ {0}
  /\ PartialQuotes \in BOOLEAN
  /\ Bids \subseteq Nat \ {0} /\ Spreads \subseteq Nat

VARIABLES
  wall,            (* datetime.now(timezone.utc)                            *)
  moment,          (* timestamp of the tick in hand; in a replay, how far it got *)
  quotes,          (* SymbolState.last_tick per symbol, None before the first *)
  handling,        (* the symbol whose tick is being handled, None between ticks *)
  evaluated,       (* _last_evaluation (ema) or _ict_bucket (ict)           *)
  autotrade

engineVars == <<wall, moment, quotes, handling, evaluated, autotrade>>
vars == <<riskVars, brokerVars, analystVars, newsVars, engineVars>>

Quote == [bid : Int, ask : Int]

(* A quote whose missing side (sent as 0) is carried forward, or None when  *)
(* there is nothing to carry.                                               *)
Completed(s, bid, ask) ==
  LET last == quotes[s]
      b == IF bid = 0 /\ last # None THEN last.bid ELSE bid
      a == IF ask = 0 /\ last # None THEN last.ask ELSE ask
  IN  IF b = 0 \/ a = 0 THEN None ELSE [bid |-> b, ask |-> a]

(* The market moves at most MaxMove between two ticks.                      *)
Near(s, q) ==
  quotes[s] # None => /\ Abs(q.bid - quotes[s].bid) <= MaxMove
                      /\ Abs(q.ask - quotes[s].ask) <= MaxMove

Init ==
  /\ wall = ReplayStart
  /\ moment = 0
  /\ quotes = [s \in Symbols |-> None]
  /\ handling = None
  /\ evaluated = [s \in Symbols |-> None]
  /\ autotrade \in BOOLEAN
  /\ RiskInit(wall) /\ BrokerInit /\ AnalystInit /\ NewsInit

--------------------------------------------------------------------------------

Elapse ==
  /\ wall < MaxTime
  /\ wall' = wall + 1
  /\ UNCHANGED <<riskVars, brokerVars, analystVars, newsVars,
                 moment, quotes, handling, evaluated, autotrade>>

(* _on_tick up to the broker: the quote is completed and becomes last_tick. *)
(* An unusable quote is dropped before anything sees it.                    *)
Tick(s, bid, ask, when) ==
  LET q == Completed(s, bid, ask)
  IN  /\ handling = None
      /\ q # None
      /\ Near(s, q)
      /\ quotes' = [quotes EXCEPT ![s] = q]
      /\ moment' = when
      /\ handling' = s
      /\ UNCHANGED <<riskVars, brokerVars, analystVars, newsVars,
                     wall, evaluated, autotrade>>

(* The clock a trade's close is booked on: _on_trade_closed passes none, so *)
(* record_close reads the wall clock.                                       *)
CloseClock == wall

(* The clock a decision is taken on: _maybe_trade reads the wall clock,     *)
(* _maybe_trade_ict passes the tick's own time.                             *)
DecisionClock == IF Mode = "ict" THEN moment ELSE wall

(* PaperBroker.on_tick closes the next position the quote hits, and         *)
(* _close calls back into the risk manager before it returns.               *)
ClosePosition(p) ==
  /\ handling # None
  /\ p \in NextHit(handling, quotes[handling])
  /\ RemovePosition(p)
  /\ RecordClose(NetPnl(p, Fill(p, quotes[handling])), CloseClock, moment)
  /\ UNCHANGED <<lastTradeAt, analystVars, newsVars, engineVars>>

--------------------------------------------------------------------------------

(* The decision on the tick in hand, once the broker is done with it.       *)
Deciding == handling # None /\ HitPositions(handling, quotes[handling]) = {}

(* _on_tick returns.  On a live feed its timestamp is gone with it.         *)
EndTick ==
  /\ handling' = None
  /\ moment' = IF Feed = "live" THEN 0 ELSE moment
  /\ UNCHANGED <<wall, quotes, autotrade>>

(* The bar or second this tick would be evaluated under.                    *)
Slot(s) == IF Mode = "ict" THEN moment \div BarLength ELSE wall

(* EMA: not twice within EvaluateEvery.  ICT: on the first tick of a bar,   *)
(* except the very first, which only notes the bar.                         *)
Due(s) ==
  IF Mode = "ict" THEN evaluated[s] # None /\ Slot(s) # evaluated[s]
  ELSE evaluated[s] # None => wall - evaluated[s] >= EvaluateEvery

Evaluated(s) == evaluated' = [evaluated EXCEPT ![s] = Slot(s)]

(* The EMA strategy is free to see a signal or none here (a veto against    *)
(* the median spread, which is not kept, is one way to see none), but never *)
(* passes a quote that max_spread or the cost limit forbids.  The ICT       *)
(* generator is external.                                                   *)
SpreadOk(s) ==
  LET spread == quotes[s].ask - quotes[s].bid
  IN  Mode = "ema" =>
        /\ MaxSpread # 0 => spread <= MaxSpread
        /\ TargetDistance # 0 => 20 * spread <= 7 * TargetDistance

(* _maybe_trade does not ask whether the symbol is tradable.                *)
MayTrade(s) == Mode = "ict" => s \in Tradable

Skip ==
  /\ Deciding
  /\ ~Due(handling)
  /\ evaluated' = IF Mode = "ict" THEN [evaluated EXCEPT ![handling] = Slot(handling)]
                  ELSE evaluated
  /\ EndTick
  /\ UNCHANGED <<riskVars, brokerVars, analystVars, newsVars>>

(* No signal, a vetoed one, a data-only symbol or a disarmed engine: the    *)
(* evaluation is noted and nothing else.                                    *)
NoTrade ==
  /\ Deciding /\ Due(handling)
  /\ Evaluated(handling)
  /\ EndTick
  /\ UNCHANGED <<riskVars, brokerVars, analystVars, newsVars>>

(* A signal that got past the strategy, the arming switch and the calendar. *)
Signal(s) ==
  /\ Deciding /\ Due(s) /\ s = handling
  /\ SpreadOk(s) /\ MayTrade(s) /\ autotrade
  /\ ~Blackout(s, DecisionClock)
  /\ Evaluated(s)
  /\ RequestIfDue(s, DecisionClock)
  /\ UNCHANGED newsVars

BlockedByAnalyst(side) ==
  /\ Signal(handling)
  /\ Blocks(verdict[handling], side)
  /\ EndTick
  /\ UNCHANGED <<riskVars, brokerVars>>

MayOpen(s) ==
  Allowed(RolledDay(DecisionClock), s, StopDistance, OpenCount, DecisionClock)

(* can_trade rolls the day even when it refuses.                            *)
RefusedByRisk(side) ==
  /\ Signal(handling)
  /\ ~Blocks(verdict[handling], side)
  /\ ~MayOpen(handling)
  /\ day' = RolledDay(DecisionClock)
  /\ EndTick
  /\ UNCHANGED <<balance, lastTradeAt, history, brokerVars>>

OpenTrade(side) ==
  LET s == handling
      volume == Contracts(RolledDay(DecisionClock), StopDistance)
  IN  /\ sequence < MaxOpens
      /\ Signal(s)
      /\ ~Blocks(verdict[s], side)
      /\ MayOpen(s)
      /\ day' = RolledDay(DecisionClock)
      /\ OpenPosition(NewPosition(s, side, volume, StopDistance, TargetDistance, quotes[s]))
      /\ RecordOpen(s, DecisionClock)
      /\ EndTick
      /\ UNCHANGED <<balance, history>>

--------------------------------------------------------------------------------

TickTimes ==
  IF Feed = "live" THEN {wall} ELSE {t \in {moment, moment + 1} : t <= MaxTime}

Asks(bid) == {bid + spread : spread \in Spreads}

FeedTick ==
  \E s \in Symbols, bid \in Bids, when \in TickTimes : \E ask \in Asks(bid) :
    \/ Tick(s, bid, ask, when)
    \/ PartialQuotes /\ (Tick(s, bid, 0, when) \/ Tick(s, 0, ask, when))

BrokerStep == \E p \in positions : ClosePosition(p)

Decide ==
  \/ Skip
  \/ NoTrade
  \/ \E side \in Sides :
       BlockedByAnalyst(side) \/ RefusedByRisk(side) \/ OpenTrade(side)

AnalystThread ==
  /\ \E c \in calls : AnalystFails(c) \/ \E answer \in Answers : AnalystReplies(c, answer)
  /\ UNCHANGED <<riskVars, brokerVars, newsVars, engineVars>>

NewsThread ==
  /\ NewsUpdateFailed \/ \E calendar \in Calendars : NewsUpdate(calendar)
  /\ UNCHANGED <<riskVars, brokerVars, analystVars, engineVars>>

Next ==
  \/ Elapse
  \/ FeedTick
  \/ BrokerStep
  \/ Decide
  \/ AnalystThread
  \/ NewsThread

Spec == Init /\ [][Next]_vars

--------------------------------------------------------------------------------

Position ==
  [ id : Nat, symbol : Symbols, side : Sides, volume : Nat, entry : Int,
    stopLoss : Int, takeProfit : Int, commission : Nat ]

Trade == [at : Nat, closedAt : Nat, pnl : Int]

(* Types of every variable.                                                 *)
TypeOK ==
  /\ day \in DayStats
  /\ balance \in Int
  /\ lastTradeAt \in [Symbols -> Nat \cup {None}]
  /\ history \in Seq(Trade)
  /\ positions \in SUBSET Position
  /\ IsFiniteSet(positions)
  /\ sequence \in Nat
  /\ verdict \in [Symbols -> Verdicts]
  /\ requestedAt \in [Symbols -> Nat \cup {None}]
  /\ calls \subseteq [symbol : Symbols, at : Nat]
  /\ loaded \in BOOLEAN
  /\ wall \in Nat /\ moment \in Nat
  /\ quotes \in [Symbols -> Quote \cup {None}]
  /\ handling \in Symbols \cup {None}
  /\ evaluated \in [Symbols -> Nat \cup {None}]
  /\ autotrade \in BOOLEAN

(* The largest size the sizing can return, and what a gap past the stop     *)
(* plus commission can add to the loss of that many contracts.              *)
MaxVolume == RiskPerTrade \div PerContract(StopDistance)

GapCost == MaxVolume * (Multiplier * (MaxMove - 1 + StopSlippage) + CommissionPerContract)

(* What the configuration must grant for the loss bounds to be exact, and   *)
(* the shipped EMA defaults do: a position is opened clear of its own stop, *)
(* and one trade cannot risk more than the whole day may lose.              *)
ClearEntries ==
  Mode = "ema" /\ MaxSpread # 0 /\ MaxSpread + Slippage < StopDistance

SafeSizing == RiskPerTrade \in 0..MaxDailyLoss /\ MaxOpenPositions = 1

(* The day's loss limit holds up to the gap of the last trade: the budget   *)
(* of each trade shrinks with the day's losses (risk.py can_trade), so the  *)
(* booked loss of a day never exceeds MaxDailyLoss by more than one gap.    *)
DailyLossBounded == day.realised >= -(MaxDailyLoss + GapCost)

(* Closes counted against the daily cap lag the opens they come from; the   *)
(* cap is still exceeded by at most the positions already open when it is   *)
(* reached (risk.py counts a trade when it closes).                         *)
TradeCapBounded == day.trades + OpenCount <= MaxDailyTrades + MaxOpenPositions - 1

(* No closed trade lost more than its risk cap plus one gap: sizing, the    *)
(* bracket and the fill rule together (run.py asserts this of its selftest). *)
TradeLossBounded ==
  \A i \in DOMAIN history : history[i].pnl >= -(RiskPerTrade + GapCost)

(* Once a tick has been handled no open position is left at or past its     *)
(* stop on that quote: the broker is walked before a new decision.          *)
NoPositionPastStop ==
  handling = None => \A p \in positions : ~StopHit(p, quotes[p.symbol])

(* A contract marked tradable=False collects data but never holds a         *)
(* position (config.py SymbolConfig, _maybe_trade_ict).                     *)
OnlyTradableSymbols == \A p \in positions : p.symbol \in Tradable

(* However slow the answers are, two requests for one symbol are never      *)
(* closer than the interval (_request_analyst marks before the thread runs). *)
CallsSpaced ==
  \A c, d \in calls :
    c # d /\ c.symbol = d.symbol => Abs(c.at - d.at) >= AnalystInterval
===============================================================================
