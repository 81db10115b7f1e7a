-------------------------- MODULE TradingEngineProofs --------------------------
(***************************************************************************)
(* Theorems about TradingEngine, for every value of its constants.         *)
(***************************************************************************)
EXTENDS TradingEngine, TLAPS, FiniteSetTheorems

--------------------------------------------------------------------------------
(* The whole-contract arithmetic of SymbolSpec.                             *)

(* Integer division rounds down.                                            *)
LEMMA DivRoundsDown ==
  ASSUME NEW a \in Nat, NEW b \in Nat \ {0}
  PROVE  /\ a \div b \in Nat
         /\ (a \div b) * b <= a
         /\ \A c \in Nat : c * b <= a => c <= a \div b
OBVIOUS

LEMMA TimesMonotone ==
  ASSUME NEW a \in Int, NEW b \in Int, NEW c \in Nat, a <= b
  PROVE  a * c <= b * c
OBVIOUS

LEMMA StepPositive == Step \in Nat \ {0}
BY SpecAssumption DEF Step

(* Snapping a size never enlarges it.                                       *)
LEMMA SnapNeverEnlarges ==
  ASSUME NEW v \in Nat
  PROVE  SnapVolume(v) \in Nat /\ SnapVolume(v) <= v
<1> DEFINE snapped == (v \div Step) * Step
<1>1. snapped \in Nat /\ snapped <= v
  BY DivRoundsDown, StepPositive
<1>2. (MaxContracts \div Step) * Step \in Nat /\ (MaxContracts \div Step) * Step <= MaxContracts
  BY DivRoundsDown, StepPositive, SpecAssumption
<1> QED  BY <1>1, <1>2, SpecAssumption DEF SnapVolume

(* The money a sized position loses at its stop is within the risk it was   *)
(* sized for (SymbolSpec.volume_for_risk).                                  *)
LEMMA SizingWithinRisk ==
  ASSUME NEW risk \in Int, NEW stop \in Nat \ {0}
  PROVE  /\ VolumeForRisk(risk, stop) \in Nat
         /\ risk >= 0 => VolumeForRisk(risk, stop) * PerContract(stop) <= risk
<1>1. PerContract(stop) \in Nat \ {0}
  BY SpecAssumption DEF PerContract
<1>2. CASE risk <= 0
  BY <1>1, <1>2 DEF VolumeForRisk
<1>3. CASE risk > 0
  <2> DEFINE most == risk \div PerContract(stop)
  <2>0. risk \in Nat
    BY <1>3
  <2>1. most \in Nat /\ most * PerContract(stop) <= risk
    BY <1>1, <2>0, DivRoundsDown
  <2>2. VolumeForRisk(risk, stop) = SnapVolume(most)
    BY <1>3 DEF VolumeForRisk
  <2>3. SnapVolume(most) \in Nat /\ SnapVolume(most) <= most
    BY <2>1, SnapNeverEnlarges
  <2>4. SnapVolume(most) * PerContract(stop) <= most * PerContract(stop)
    BY <2>1, <2>3, <1>1, TimesMonotone
  <2> HIDE DEF most
  <2>5. SnapVolume(most) * PerContract(stop) \in Int /\ most * PerContract(stop) \in Int
    BY <1>1, <2>1, <2>3
  <2> QED  BY <2>1, <2>2, <2>3, <2>4, <2>5
<1> QED  BY <1>2, <1>3

--------------------------------------------------------------------------------
(* Type correctness.                                                        *)

LEMMA RolledDayType ==
  ASSUME day \in DayStats, NEW now \in Nat
  PROVE  RolledDay(now) \in DayStats
<1>1. Date(now) \in Int
  BY RiskAssumption, DivRoundsDown DEF Date
<1> QED  BY <1>1 DEF RolledDay, FreshDay, DayStats

LEMMA AfterCloseType ==
  ASSUME NEW d \in DayStats, NEW pnl \in Int, NEW now \in Nat
  PROVE  AfterClose(d, pnl, now) \in DayStats
<1>1. /\ d.realised + pnl \in Int
      /\ d.trades + 1 \in Nat /\ d.consecutiveLosses + 1 \in Nat
      /\ now + Cooldown \in Int
  BY RiskAssumption DEF DayStats
<1>2. /\ d.wins + (IF pnl >= 0 THEN 1 ELSE 0) \in Nat
      /\ d.losses + (IF pnl < 0 THEN 1 ELSE 0) \in Nat
      /\ d.grossProfit + (IF pnl >= 0 THEN pnl ELSE 0) \in Nat
      /\ d.grossLoss + (IF pnl < 0 THEN -pnl ELSE 0) \in Nat
  BY DEF DayStats
<1> QED  BY <1>1, <1>2 DEF AfterClose, ArmsCooldown, DayStats

LEMMA ContractsType ==
  ASSUME NEW d \in DayStats
  PROVE  Contracts(d, StopDistance) \in Nat
<1>1. Budget(d) \in Int
  BY RiskAssumption DEF Budget, Lesser, DayStats
<1> QED  BY <1>1, SizingWithinRisk, EngineAssumption DEF Contracts

LEMMA CompletedType ==
  ASSUME TypeOK, NEW s \in Symbols, NEW bid \in Nat, NEW ask \in Nat,
         Completed(s, bid, ask) # None
  PROVE  Completed(s, bid, ask) \in Quote
<1> DEFINE b == IF bid = 0 /\ quotes[s] # None THEN quotes[s].bid ELSE bid
           a == IF ask = 0 /\ quotes[s] # None THEN quotes[s].ask ELSE ask
<1>1. quotes[s] # None => quotes[s].bid \in Int /\ quotes[s].ask \in Int
  BY DEF TypeOK, Quote
<1>2. b \in Int /\ a \in Int
  BY <1>1
<1>3. Completed(s, bid, ask) = [bid |-> b, ask |-> a]
  BY DEF Completed
<1> QED  BY <1>2, <1>3 DEF Quote

LEMMA FillType ==
  ASSUME TypeOK, NEW p \in positions, handling # None,
         NEW q \in Quote
  PROVE  Fill(p, q) \in Int /\ NetPnl(p, Fill(p, q)) \in Int
<1>1. p \in Position
  BY DEF TypeOK
<1>2. Fill(p, q) \in Int
  BY <1>1, BrokerAssumption DEF Fill, ExitPrice, Lesser, Greater, Position, Quote
<1>3. Pnl(p.volume, p.entry, Fill(p, q), p.side = "BUY") \in Int
  <2>1. p.volume \in Int /\ p.entry \in Int
    BY <1>1 DEF Position
  <2> QED  BY <1>2, <2>1, SpecAssumption DEF Pnl
<1> QED  BY <1>1, <1>2, <1>3 DEF NetPnl, Position

(* A symbol whose tick is handled, or that is held, has been quoted.         *)
Quoted ==
  /\ handling # None => quotes[handling] # None
  /\ \A p \in positions : quotes[p.symbol] # None

TypeInv == TypeOK /\ Quoted

LEMMA HandledQuote ==
  ASSUME TypeInv, handling # None
  PROVE  handling \in Symbols /\ quotes[handling] \in Quote
BY DEF TypeInv, TypeOK, Quoted

LEMMA DecisionClockType ==
  ASSUME TypeOK
  PROVE  DecisionClock \in Nat /\ CloseClock \in Nat
BY DEF TypeOK, DecisionClock, CloseClock

LEMMA SlotType ==
  ASSUME TypeOK, NEW s
  PROVE  Slot(s) \in Nat
<1>1. moment \div BarLength \in Nat
  BY DivRoundsDown, EngineAssumption DEF TypeOK
<1> QED  BY <1>1 DEF Slot, TypeOK

(* The parts of TypeOK a step of the feed's thread may leave alone.          *)
LEMMA RequestType ==
  ASSUME TypeOK, NEW s \in Symbols, NEW now \in Nat, RequestIfDue(s, now)
  PROVE  /\ verdict' \in [Symbols -> Verdicts]
         /\ requestedAt' \in [Symbols -> Nat \cup {None}]
         /\ calls' \subseteq [symbol : Symbols, at : Nat]
<1>1. CASE NeedsRefresh(s, now)
  <2>1. [symbol |-> s, at |-> now] \in [symbol : Symbols, at : Nat]
    OBVIOUS
  <2> QED  BY <1>1, <2>1 DEF RequestIfDue, TypeOK
<1>2. CASE ~NeedsRefresh(s, now)
  BY <1>2 DEF RequestIfDue, analystVars, TypeOK
<1> QED  BY <1>1, <1>2

LEMMA TypeInit == Init => TypeInv
<1> SUFFICES ASSUME Init PROVE TypeInv
  OBVIOUS
<1> USE DEF Init
<1>1. day \in DayStats /\ history \in Seq(Trade)
  <2>1. Date(wall) \in Int
    BY DivRoundsDown, RiskAssumption, EngineAssumption DEF Date
  <2> QED  BY <2>1, SpecAssumption DEF RiskInit, FreshDay, DayStats
<1>2. IsFiniteSet(positions) /\ positions = {}
  BY FS_EmptySet DEF BrokerInit
<1>3. verdict \in [Symbols -> Verdicts]
  BY DEF AnalystInit, Verdicts, VerdictOf, NoOpinion, Actions, Biases
<1> QED
  BY <1>1, <1>2, <1>3, RiskAssumption, EngineAssumption
  DEF TypeInv, TypeOK, Quoted, RiskInit, BrokerInit, AnalystInit, NewsInit

(* A tick, reduced to what it does: a complete quote replaces the last one.  *)
LEMMA TickEffect ==
  ASSUME TypeInv, FeedTick
  PROVE  \E s \in Symbols, q \in Quote, when \in Nat :
           /\ handling = None /\ Near(s, q) /\ q # None
           /\ quotes' = [quotes EXCEPT ![s] = q] /\ moment' = when /\ handling' = s
           /\ UNCHANGED <<riskVars, brokerVars, analystVars, newsVars, wall, evaluated, autotrade>>
<1>1. PICK s \in Symbols, bid \in Nat, ask \in Nat, when \in TickTimes : Tick(s, bid, ask, when)
  <2>1. PICK s \in Symbols, bid \in Bids, when \in TickTimes :
          \E ask \in Asks(bid) :
            \/ Tick(s, bid, ask, when) \/ Tick(s, bid, 0, when) \/ Tick(s, 0, ask, when)
    BY DEF FeedTick
  <2>2. PICK ask \in Asks(bid) :
          \/ Tick(s, bid, ask, when) \/ Tick(s, bid, 0, when) \/ Tick(s, 0, ask, when)
    BY <2>1
  <2>3. bid \in Nat /\ Spreads \subseteq Nat
    BY EngineAssumption
  <2>4. ask \in Nat
    BY <2>3 DEF Asks
  <2> QED  BY <2>2, <2>3, <2>4
<1>2. when \in Nat
  BY EngineAssumption DEF TickTimes, TypeInv, TypeOK
<1>3. Completed(s, bid, ask) \in Quote
  BY <1>1, CompletedType DEF Tick, TypeInv
<1> QED  BY <1>1, <1>2, <1>3 DEF Tick

LEMMA TypeTick ==
  ASSUME TypeInv, FeedTick
  PROVE  TypeInv'
<1>1. PICK s \in Symbols, q \in Quote, when \in Nat :
        /\ q # None
        /\ quotes' = [quotes EXCEPT ![s] = q] /\ moment' = when /\ handling' = s
        /\ UNCHANGED <<riskVars, brokerVars, analystVars, newsVars, wall, evaluated, autotrade>>
  BY TickEffect
<1> USE <1>1 DEF riskVars, brokerVars, analystVars, newsVars
<1>2. TypeOK'
  BY DEF TypeInv, TypeOK
<1>3. Quoted'
  BY DEF TypeInv, TypeOK, Quoted, Position
<1> QED  BY <1>2, <1>3 DEF TypeInv

(* What closing a position does to the day it is booked on.                 *)
LEMMA CloseDay ==
  ASSUME TypeInv, NEW p \in positions, ClosePosition(p)
  PROVE  /\ NetPnl(p, Fill(p, quotes[handling])) \in Int
         /\ day'.trades = RolledDay(wall).trades + 1
         /\ day'.realised = RolledDay(wall).realised + NetPnl(p, Fill(p, quotes[handling]))
<1> DEFINE pnl == NetPnl(p, Fill(p, quotes[handling]))
<1>1. pnl \in Int
  BY HandledQuote, FillType DEF ClosePosition, TypeInv
<1> HIDE DEF pnl
<1>2. RolledDay(wall) \in DayStats
  BY RolledDayType DEF TypeInv, TypeOK
<1>3. day' = AfterClose(RolledDay(wall), pnl, wall)
  BY DEF ClosePosition, RecordClose, CloseClock, pnl
<1>4. /\ day'.trades = RolledDay(wall).trades + 1
      /\ day'.realised = RolledDay(wall).realised + pnl
  BY <1>2, <1>3 DEF AfterClose, ArmsCooldown, DayStats
<1> QED  BY <1>1, <1>4 DEF pnl

LEMMA TypeBrokerStep ==
  ASSUME TypeInv, BrokerStep
  PROVE  TypeInv'
<1>1. PICK p \in positions : ClosePosition(p)
  BY DEF BrokerStep
<1> DEFINE pnl == NetPnl(p, Fill(p, quotes[handling]))
<1>2. pnl \in Int
  BY <1>1, CloseDay
<1> HIDE DEF pnl
<1>3. RemovePosition(p) /\ RecordClose(pnl, wall, moment)
  BY <1>1 DEF ClosePosition, CloseClock, pnl
<1>4. day' \in DayStats
  <2>1. RolledDay(wall) \in DayStats
    BY RolledDayType DEF TypeInv, TypeOK
  <2>2. AfterClose(RolledDay(wall), pnl, wall) \in DayStats
    BY <1>2, <2>1, AfterCloseType DEF TypeInv, TypeOK
  <2> QED  BY <1>3, <2>2 DEF RecordClose
<1>5. balance' \in Int /\ history' \in Seq(Trade)
  <2>1. [at |-> wall, closedAt |-> moment, pnl |-> pnl] \in Trade
    BY <1>2 DEF Trade, TypeInv, TypeOK
  <2>2. history \in Seq(Trade) /\ balance \in Int
    BY DEF TypeInv, TypeOK
  <2>3. Append(history, [at |-> wall, closedAt |-> moment, pnl |-> pnl]) \in Seq(Trade)
    BY <2>1, <2>2
  <2> QED  BY <1>2, <1>3, <2>2, <2>3 DEF RecordClose
<1>6. positions' \subseteq positions /\ IsFiniteSet(positions')
  BY <1>3, FS_RemoveElement DEF RemovePosition, TypeInv, TypeOK
<1>7. UNCHANGED <<sequence, lastTradeAt, analystVars, newsVars, engineVars>>
  BY <1>1 DEF ClosePosition, RemovePosition
<1> QED
  BY <1>4, <1>5, <1>6, <1>7
  DEF TypeInv, TypeOK, Quoted, analystVars, newsVars, engineVars

LEMMA NewPositionType ==
  ASSUME NEW s \in Symbols, NEW side \in Sides, NEW volume \in Nat, NEW q \in Quote,
         sequence \in Nat
  PROVE  NewPosition(s, side, volume, StopDistance, TargetDistance, q) \in Position
<1> DEFINE entry == IF side = "BUY" THEN q.ask + Slippage ELSE q.bid - Slippage
<1>1. entry \in Int
  BY BrokerAssumption DEF Quote
<1>2. /\ (IF side = "BUY" THEN entry - StopDistance ELSE entry + StopDistance) \in Int
      /\ (IF side = "BUY" THEN entry + TargetDistance ELSE entry - TargetDistance) \in Int
  BY <1>1, EngineAssumption
<1>3. CommissionPerContract * volume \in Nat /\ sequence + 1 \in Nat
  BY BrokerAssumption
<1> QED  BY <1>1, <1>2, <1>3 DEF NewPosition, Position

(* What every decision leaves behind.                                       *)
LEMMA DecisionType ==
  ASSUME TypeOK, handling \in Symbols, EndTick,
         Evaluated(handling) \/ UNCHANGED evaluated
  PROVE  /\ wall' \in Nat /\ moment' \in Nat
         /\ quotes' = quotes /\ handling' = None
         /\ evaluated' \in [Symbols -> Nat \cup {None}]
         /\ autotrade' \in BOOLEAN
<1>1. Slot(handling) \in Nat
  BY SlotType
<1> QED  BY <1>1 DEF EndTick, Evaluated, TypeOK

LEMMA TypeOpenTrade ==
  ASSUME TypeInv, NEW side \in Sides, OpenTrade(side)
  PROVE  TypeInv'
<1> DEFINE volume == Contracts(RolledDay(DecisionClock), StopDistance)
           p == NewPosition(handling, side, volume, StopDistance, TargetDistance, quotes[handling])
<1>1. handling \in Symbols /\ quotes[handling] \in Quote
  BY HandledQuote DEF OpenTrade, Signal, Deciding
<1>2. DecisionClock \in Nat
  BY DecisionClockType DEF TypeInv
<1>3. day' \in DayStats /\ RolledDay(DecisionClock) \in DayStats
  BY <1>2, RolledDayType DEF OpenTrade, TypeInv, TypeOK
<1>4. volume \in Nat
  BY <1>3, ContractsType
<1>5. p \in Position
  BY <1>1, <1>4, NewPositionType DEF TypeInv, TypeOK
<1> HIDE DEF volume
<1>6. positions' = positions \cup {p} /\ sequence' = p.id /\ p.symbol = handling
  BY DEF OpenTrade, OpenPosition, NewPosition, volume
<1> HIDE DEF p
<1>7. positions' \in SUBSET Position /\ IsFiniteSet(positions') /\ sequence' \in Nat
  BY <1>5, <1>6, FS_AddElement DEF TypeInv, TypeOK, Position
<1>8. lastTradeAt' \in [Symbols -> Nat \cup {None}]
  BY <1>1, <1>2 DEF OpenTrade, RecordOpen, TypeInv, TypeOK
<1>9. /\ verdict' \in [Symbols -> Verdicts]
      /\ requestedAt' \in [Symbols -> Nat \cup {None}]
      /\ calls' \subseteq [symbol : Symbols, at : Nat]
  BY <1>1, <1>2, RequestType DEF OpenTrade, Signal, TypeInv
<1>10. /\ wall' \in Nat /\ moment' \in Nat
       /\ quotes' = quotes /\ handling' = None
       /\ evaluated' \in [Symbols -> Nat \cup {None}]
       /\ autotrade' \in BOOLEAN
  BY <1>1, DecisionType DEF OpenTrade, Signal, TypeInv
<1>11. UNCHANGED <<balance, history, loaded>>
  BY DEF OpenTrade, Signal, newsVars
<1>12. TypeOK'
  BY <1>3, <1>7, <1>8, <1>9, <1>10, <1>11 DEF TypeInv, TypeOK
<1>13. Quoted'
  <2>1. quotes[handling] # None
    BY DEF TypeInv, Quoted, OpenTrade, Signal, Deciding
  <2>2. \A r \in positions' : quotes[r.symbol] # None
    BY <1>6, <2>1 DEF TypeInv, Quoted
  <2> QED  BY <1>10, <2>2 DEF Quoted
<1> QED  BY <1>12, <1>13 DEF TypeInv

LEMMA TypeDecide ==
  ASSUME TypeInv, Decide
  PROVE  TypeInv'
<1> USE DEF Decide
<1>1. CASE Skip
  <2>1. handling \in Symbols
    BY <1>1, HandledQuote DEF Skip, Deciding
  <2>2. Evaluated(handling) \/ UNCHANGED evaluated
    BY <1>1 DEF Skip, Evaluated
  <2>3. EndTick /\ UNCHANGED <<riskVars, brokerVars, analystVars, newsVars>>
    BY <1>1 DEF Skip
  <2> QED
    BY <2>1, <2>2, <2>3, DecisionType
    DEF TypeInv, TypeOK, Quoted, riskVars, brokerVars, analystVars, newsVars
<1>2. CASE NoTrade
  <2>1. handling \in Symbols
    BY <1>2, HandledQuote DEF NoTrade, Deciding
  <2>2. EndTick /\ Evaluated(handling) /\ UNCHANGED <<riskVars, brokerVars, analystVars, newsVars>>
    BY <1>2 DEF NoTrade
  <2> QED
    BY <2>1, <2>2, DecisionType
    DEF TypeInv, TypeOK, Quoted, riskVars, brokerVars, analystVars, newsVars
<1>3. ASSUME NEW side \in Sides, BlockedByAnalyst(side) \/ RefusedByRisk(side)
      PROVE  TypeInv'
  <2>1. handling \in Symbols /\ Signal(handling) /\ EndTick
    BY <1>3, HandledQuote DEF BlockedByAnalyst, RefusedByRisk, Signal, Deciding
  <2>2. DecisionClock \in Nat
    BY DecisionClockType DEF TypeInv
  <2>3. /\ verdict' \in [Symbols -> Verdicts]
        /\ requestedAt' \in [Symbols -> Nat \cup {None}]
        /\ calls' \subseteq [symbol : Symbols, at : Nat]
    BY <2>1, <2>2, RequestType DEF Signal, TypeInv
  <2>4. day' \in DayStats
    BY <1>3, <2>2, RolledDayType
    DEF BlockedByAnalyst, RefusedByRisk, riskVars, TypeInv, TypeOK
  <2>5. UNCHANGED <<balance, lastTradeAt, history, brokerVars, newsVars>>
    BY <1>3, <2>1 DEF BlockedByAnalyst, RefusedByRisk, riskVars, Signal
  <2> QED
    BY <2>1, <2>3, <2>4, <2>5, DecisionType
    DEF TypeInv, TypeOK, Quoted, brokerVars, newsVars, Signal
<1> QED  BY <1>1, <1>2, <1>3, TypeOpenTrade

LEMMA TypeThreads ==
  ASSUME TypeInv, AnalystThread \/ NewsThread \/ Elapse \/ UNCHANGED vars
  PROVE  TypeInv'
<1>1. CASE AnalystThread
  <2>1. PICK c \in calls :
          AnalystFails(c) \/ \E answer \in Answers : AnalystReplies(c, answer)
    BY <1>1 DEF AnalystThread
  <2>2. verdict' \in [Symbols -> Verdicts]
    <3>1. \A a \in Answers \cup {NoOpinion} :
            VerdictOf(a, "model") \in Verdicts /\ VerdictOf(a, "unavailable") \in Verdicts
      BY AnalystAssumption DEF VerdictOf, NoOpinion, Verdicts, Actions, Biases
    <3>2. \E v \in Verdicts : verdict' = [verdict EXCEPT ![c.symbol] = v]
      BY <2>1, <3>1 DEF AnalystFails, AnalystReplies
    <3> QED  BY <3>2 DEF TypeInv, TypeOK
  <2>3. calls' \subseteq calls /\ UNCHANGED requestedAt
    BY <2>1 DEF AnalystFails, AnalystReplies
  <2> QED
    BY <1>1, <2>2, <2>3
    DEF AnalystThread, TypeInv, TypeOK, Quoted, riskVars, brokerVars, newsVars, engineVars
<1>2. CASE NewsThread
  BY <1>2
  DEF NewsThread, NewsUpdate, NewsUpdateFailed, TypeInv, TypeOK, Quoted, riskVars,
      brokerVars, analystVars, newsVars, engineVars
<1>3. CASE Elapse \/ UNCHANGED vars
  BY <1>3
  DEF Elapse, vars, TypeInv, TypeOK, Quoted, riskVars, brokerVars, analystVars, newsVars,
      engineVars
<1> QED  BY <1>1, <1>2, <1>3

LEMMA TypeStep == TypeInv /\ [Next]_vars => TypeInv'
BY TypeTick, TypeBrokerStep, TypeDecide, TypeThreads DEF Next

(* Every variable keeps its type, whatever the constants are.               *)
THEOREM TypeCorrect == Spec => []TypeOK
<1>1. TypeInv => TypeOK
  BY DEF TypeInv
<1> QED  BY <1>1, TypeInit, TypeStep, PTL DEF Spec

LEMMA TypeInvariant == Spec => []TypeInv
BY TypeInit, TypeStep, PTL DEF Spec

--------------------------------------------------------------------------------
(* The daily limits of RiskManager, as invariants of the whole engine.      *)

(* How the number of open positions changes.                                *)
LEMMA OpenCountType ==
  ASSUME TypeOK
  PROVE  OpenCount \in Nat
BY FS_CardinalityType DEF TypeOK, OpenCount

LEMMA CloseCounts ==
  ASSUME TypeOK, NEW p \in positions, RemovePosition(p)
  PROVE  OpenCount' = OpenCount - 1
BY FS_RemoveElement DEF TypeOK, OpenCount, RemovePosition

LEMMA OpenCounts ==
  ASSUME TypeOK, NEW p, OpenPosition(p)
  PROVE  OpenCount' \in Nat /\ OpenCount' <= OpenCount + 1
<1>1. Cardinality(positions \cup {p}) \in {Cardinality(positions), Cardinality(positions) + 1}
  BY FS_AddElement DEF TypeOK
<1>2. Cardinality(positions) \in Nat
  BY FS_CardinalityType DEF TypeOK
<1> QED  BY <1>1, <1>2 DEF OpenCount, OpenPosition

--------------------------------------------------------------------------------
(* The daily trade cap.                                                     *)

(* Closes are counted when they happen, so the cap alone is not inductive:  *)
(* a rollover zeroes the closes while positions stay open.  With the bound  *)
(* on open positions it is.                                                 *)
TradeCapInv == OpenCount <= MaxOpenPositions /\ TradeCapBounded

LEMMA TradeCapInit ==
  ASSUME Init, MaxDailyTrades >= 1
  PROVE  TradeCapInv
<1>1. OpenCount = 0 /\ day.trades = 0
  BY FS_EmptySet DEF Init, BrokerInit, RiskInit, FreshDay, OpenCount
<1> QED  BY <1>1, RiskAssumption DEF TradeCapInv, TradeCapBounded

LEMMA TradeCapStep ==
  ASSUME TypeInv, TradeCapInv, MaxDailyTrades >= 1, [Next]_vars
  PROVE  TradeCapInv'
<1>0. /\ OpenCount \in Nat /\ day.trades \in Nat
      /\ MaxOpenPositions \in Nat /\ MaxDailyTrades \in Nat
      /\ \A now : RolledDay(now).trades \in {0, day.trades}
  BY OpenCountType, RiskAssumption DEF TypeInv, TypeOK, DayStats, RolledDay, FreshDay
<1>1. ASSUME UNCHANGED <<day, positions>>
      PROVE  TradeCapInv'
  BY <1>1 DEF TradeCapInv, TradeCapBounded, OpenCount
<1>2. CASE Elapse \/ FeedTick \/ AnalystThread \/ NewsThread \/ UNCHANGED vars
  <2>1. UNCHANGED <<day, positions>>
    BY <1>2
    DEF Elapse, FeedTick, Tick, AnalystThread, NewsThread, vars, riskVars, brokerVars
  <2> QED  BY <1>1, <2>1
<1>3. CASE BrokerStep
  <2>1. PICK p \in positions : ClosePosition(p)
    BY <1>3 DEF BrokerStep
  <2>2. OpenCount' = OpenCount - 1
    BY <2>1, CloseCounts DEF ClosePosition, TypeInv
  <2>3. day'.trades = RolledDay(wall).trades + 1
    BY <2>1, <1>0, CloseDay
  <2> QED  BY <1>0, <2>2, <2>3 DEF TradeCapInv, TradeCapBounded
<1>4. ASSUME NEW side \in Sides, OpenTrade(side)
      PROVE  TradeCapInv'
  <2>1. OpenCount' \in Nat /\ OpenCount' <= OpenCount + 1
    BY <1>4, OpenCounts DEF OpenTrade, TypeInv
  <2>2. day' = RolledDay(DecisionClock)
    BY <1>4 DEF OpenTrade
  <2>3. OpenCount < MaxOpenPositions /\ RolledDay(DecisionClock).trades < MaxDailyTrades
    BY <1>0, <1>4 DEF OpenTrade, MayOpen, Allowed, TradeCapReached
  <2> QED  BY <1>0, <2>1, <2>2, <2>3 DEF TradeCapInv, TradeCapBounded
<1>5. ASSUME NEW side \in Sides, RefusedByRisk(side)
      PROVE  TradeCapInv'
  <2>1. day' = RolledDay(DecisionClock) /\ UNCHANGED positions
    BY <1>5 DEF RefusedByRisk, brokerVars
  <2> QED  BY <1>0, <2>1 DEF TradeCapInv, TradeCapBounded, OpenCount
<1>6. CASE Decide
  <2>1. ASSUME Skip \/ NoTrade \/ \E side \in Sides : BlockedByAnalyst(side)
        PROVE  UNCHANGED <<day, positions>>
    BY <2>1 DEF Skip, NoTrade, BlockedByAnalyst, riskVars, brokerVars
  <2> QED  BY <1>1, <1>4, <1>5, <1>6, <2>1 DEF Decide
<1> QED  BY <1>2, <1>3, <1>4, <1>6 DEF Next

(* The closes counted so far today plus the positions still open exceed the *)
(* daily cap by at most the positions a batch of opens can leave behind.    *)
THEOREM TradeCapHolds ==
  ASSUME MaxDailyTrades >= 1
  PROVE  Spec => []TradeCapBounded
<1>1. Init => TypeInv /\ TradeCapInv
  BY TypeInit, TradeCapInit
<1>2. (TypeInv /\ TradeCapInv) /\ [Next]_vars => (TypeInv /\ TradeCapInv)'
  BY TypeStep, TradeCapStep
<1>3. TradeCapInv => TradeCapBounded
  BY DEF TradeCapInv
<1> QED  BY <1>1, <1>2, <1>3, PTL DEF Spec

--------------------------------------------------------------------------------
(* What one trade, and one day, can lose.                                   *)

(* A price past the stop of a position on the side that loses, and by how   *)
(* much it can be at the moment the broker looks at it.                     *)
Overshoot(p, q) ==
  IF p.side = "BUY" THEN p.stopLoss - q.bid ELSE q.ask - p.stopLoss

(* An open position as OpenTrade made it: within the risk of one trade,     *)
(* bracketed StopDistance from its entry, and no further past its stop than *)
(* one tick can carry it; only the tick in hand can have put it there.      *)
Bracketed(p) ==
  /\ p.volume * PerContract(StopDistance) <= RiskPerTrade
  /\ p.commission = CommissionPerContract * p.volume
  /\ p.stopLoss = IF p.side = "BUY" THEN p.entry - StopDistance ELSE p.entry + StopDistance
  /\ p.takeProfit = IF p.side = "BUY" THEN p.entry + TargetDistance ELSE p.entry - TargetDistance
  /\ Overshoot(p, quotes[p.symbol]) <= MaxMove - 1
  /\ handling # p.symbol => Overshoot(p, quotes[p.symbol]) < 0

BracketInv == \A p \in positions : Bracketed(p)

LEMMA OvershootIsStopHit ==
  ASSUME NEW p \in Position, NEW q \in Quote
  PROVE  /\ Overshoot(p, q) \in Int
         /\ StopHit(p, q) <=> Overshoot(p, q) >= 0
BY DEF Overshoot, StopHit, ExitPrice, Position, Quote

(* One tick moves the overshoot by at most MaxMove.                         *)
LEMMA OvershootMoves ==
  ASSUME NEW p \in Position, NEW q \in Quote, NEW r \in Quote,
         Abs(r.bid - q.bid) <= MaxMove, Abs(r.ask - q.ask) <= MaxMove,
         Overshoot(p, q) < 0
  PROVE  Overshoot(p, r) <= MaxMove - 1
BY EngineAssumption DEF Overshoot, Abs, Position, Quote

(* Between ticks, and for every symbol but the one in hand, no position is  *)
(* at its stop.                                                             *)
LEMMA BracketedIsClear ==
  ASSUME TypeInv, BracketInv, NEW p \in positions, handling # p.symbol
  PROVE  ~StopHit(p, quotes[p.symbol])
<1>1. p \in Position /\ quotes[p.symbol] \in Quote
  BY DEF TypeInv, TypeOK, Quoted, Position
<1>2. Overshoot(p, quotes[p.symbol]) < 0
  BY DEF BracketInv, Bracketed
<1> QED  BY <1>1, <1>2, OvershootIsStopHit

(* When the broker is done with a tick, neither is any position it walked.  *)
LEMMA DecidingIsClear ==
  ASSUME TypeInv, BracketInv, Deciding, NEW p \in positions
  PROVE  Overshoot(p, quotes[p.symbol]) < 0
<1>1. p \in Position /\ quotes[p.symbol] \in Quote
  BY DEF TypeInv, TypeOK, Quoted, Position
<1>2. CASE handling # p.symbol
  BY <1>2 DEF BracketInv, Bracketed
<1>3. CASE handling = p.symbol
  BY <1>1, <1>3, OvershootIsStopHit DEF Deciding, HitPositions, Hit
<1> QED  BY <1>2, <1>3

(* A position is opened clear of its stop and sized within one trade's risk. *)
LEMMA OpenedIsBracketed ==
  ASSUME TypeInv, ClearEntries, NEW side \in Sides, OpenTrade(side),
         NEW p \in positions' \ positions
  PROVE  /\ Bracketed(p)'
         /\ p.volume * PerContract(StopDistance) <= Budget(RolledDay(DecisionClock))
<1> DEFINE d == RolledDay(DecisionClock)
           volume == Contracts(d, StopDistance)
           q == quotes[handling]
<1>1. handling \in Symbols /\ q \in Quote
  BY HandledQuote DEF OpenTrade, Signal, Deciding
<1>2. d \in DayStats
  BY DecisionClockType, RolledDayType DEF TypeInv, TypeOK
<1>3. Budget(d) \in Int /\ Budget(d) > 0 /\ Budget(d) <= RiskPerTrade
  <2>1. Budget(d) > 0
    BY DEF OpenTrade, MayOpen, Allowed
  <2> QED  BY <1>2, <2>1, RiskAssumption DEF Budget, Lesser, DayStats
<1>4. volume \in Nat /\ volume * PerContract(StopDistance) <= Budget(d)
  BY <1>3, SizingWithinRisk, EngineAssumption DEF Contracts
<1>5. PerContract(StopDistance) \in Nat
  BY SpecAssumption, EngineAssumption DEF PerContract
<1>6. volume * PerContract(StopDistance) <= RiskPerTrade
  BY <1>3, <1>4, <1>5, RiskAssumption
<1>7. q.ask - q.bid <= MaxSpread
  BY <1>1, EngineAssumption DEF OpenTrade, Signal, SpreadOk, ClearEntries, Quote
<1> HIDE DEF volume, q
<1>8. p = NewPosition(handling, side, volume, StopDistance, TargetDistance, q)
  BY DEF OpenTrade, OpenPosition, volume, q
<1>9. /\ p.symbol = handling /\ p.side = side /\ p.volume = volume
      /\ p.commission = CommissionPerContract * p.volume
      /\ p.entry = IF side = "BUY" THEN q.ask + Slippage ELSE q.bid - Slippage
      /\ p.stopLoss = IF side = "BUY" THEN p.entry - StopDistance ELSE p.entry + StopDistance
      /\ p.takeProfit = IF side = "BUY" THEN p.entry + TargetDistance ELSE p.entry - TargetDistance
  BY <1>8 DEF NewPosition
<1>10. Overshoot(p, q) < 0
  BY <1>1, <1>7, <1>9, BrokerAssumption, EngineAssumption
  DEF Overshoot, ClearEntries, Quote, Sides
<1>11. Overshoot(p, q) \in Int
  BY <1>1, <1>9, BrokerAssumption, EngineAssumption DEF Overshoot, Quote
<1>12. quotes'[p.symbol] = q
  BY <1>9 DEF OpenTrade, EndTick, q
<1>13. Overshoot(p, quotes'[p.symbol]) <= MaxMove - 1
  BY <1>10, <1>11, <1>12, EngineAssumption
<1> QED
  BY <1>4, <1>6, <1>9, <1>10, <1>12, <1>13 DEF Bracketed, Overshoot, volume

LEMMA BracketStep ==
  ASSUME TypeInv, BracketInv, ClearEntries, [Next]_vars
  PROVE  BracketInv'
<1>1. CASE FeedTick
  <2>1. PICK s \in Symbols, r \in Quote :
          /\ handling = None /\ Near(s, r) /\ handling' = s
          /\ quotes' = [quotes EXCEPT ![s] = r]
          /\ UNCHANGED positions
    BY <1>1, TickEffect DEF brokerVars
  <2> SUFFICES ASSUME NEW p \in positions PROVE Bracketed(p)'
    BY <2>1 DEF BracketInv
  <2>2. /\ p \in Position /\ quotes[p.symbol] \in Quote /\ p.symbol # None
        /\ Bracketed(p) /\ Overshoot(p, quotes[p.symbol]) < 0
    BY <2>1, SpecAssumption DEF BracketInv, Bracketed, TypeInv, TypeOK, Quoted, Position
  <2>3. CASE p.symbol = s
    <3>1. quotes'[p.symbol] = r
      BY <2>1, <2>3 DEF TypeInv, TypeOK
    <3>2. Overshoot(p, r) <= MaxMove - 1
      BY <2>1, <2>2, <2>3, OvershootMoves DEF Near, TypeInv, Quoted
    <3> QED  BY <2>1, <2>2, <2>3, <3>1, <3>2 DEF Bracketed
  <2>4. CASE p.symbol # s
    <3>1. quotes'[p.symbol] = quotes[p.symbol]
      BY <2>1, <2>2, <2>4 DEF TypeInv, TypeOK, Position
    <3> QED  BY <2>1, <2>2, <3>1 DEF Bracketed
  <2> QED  BY <2>3, <2>4
<1>2. CASE BrokerStep
  <2>1. positions' \subseteq positions /\ UNCHANGED <<quotes, handling>>
    BY <1>2 DEF BrokerStep, ClosePosition, RemovePosition, engineVars
  <2> QED  BY <2>1 DEF BracketInv, Bracketed
<1>3. CASE Decide
  <2>1. Deciding /\ UNCHANGED quotes
    BY <1>3
    DEF Decide, Skip, NoTrade, BlockedByAnalyst, RefusedByRisk, OpenTrade, Signal, EndTick
  <2>2. ASSUME NEW p \in positions PROVE Bracketed(p)'
    BY <2>1, <2>2, DecidingIsClear DEF BracketInv, Bracketed
  <2>3. ASSUME NEW p \in positions' \ positions PROVE Bracketed(p)'
    <3>1. PICK side \in Sides : OpenTrade(side)
      BY <1>3, <2>3
      DEF Decide, Skip, NoTrade, BlockedByAnalyst, RefusedByRisk, brokerVars
    <3> QED  BY <2>3, <3>1, OpenedIsBracketed
  <2> QED  BY <2>2, <2>3 DEF BracketInv
<1>4. CASE Elapse \/ AnalystThread \/ NewsThread \/ UNCHANGED vars
  <2>1. UNCHANGED <<positions, quotes, handling>>
    BY <1>4 DEF Elapse, AnalystThread, NewsThread, vars, brokerVars, engineVars
  <2> QED  BY <2>1 DEF BracketInv, Bracketed
<1> QED  BY <1>1, <1>2, <1>3, <1>4 DEF Next

(* Until a tick is being handled every open position is clear of its stop.  *)
THEOREM StopsAreHonoured ==
  ASSUME ClearEntries
  PROVE  Spec => []NoPositionPastStop
<1>1. Init => TypeInv /\ BracketInv
  BY TypeInit DEF Init, BrokerInit, BracketInv
<1>2. (TypeInv /\ BracketInv) /\ [Next]_vars => (TypeInv /\ BracketInv)'
  BY TypeStep, BracketStep
<1>3. TypeInv /\ BracketInv => NoPositionPastStop
  <2> SUFFICES ASSUME TypeInv, BracketInv, handling = None, NEW p \in positions
               PROVE  ~StopHit(p, quotes[p.symbol])
    BY DEF NoPositionPastStop
  <2>1. handling # p.symbol
    BY SpecAssumption DEF TypeInv, TypeOK, Position
  <2> QED  BY <2>1, BracketedIsClear
<1> QED  BY <1>1, <1>2, <1>3, PTL DEF Spec

(* The price a bracketed position is closed at costs it no more than its    *)
(* stop, one tick's overshoot and the slippage.                             *)
LEMMA FillIsNear ==
  ASSUME NEW p \in Position, NEW q \in Quote,
         p.stopLoss = IF p.side = "BUY" THEN p.entry - StopDistance ELSE p.entry + StopDistance,
         p.takeProfit = IF p.side = "BUY" THEN p.entry + TargetDistance ELSE p.entry - TargetDistance,
         Overshoot(p, q) <= MaxMove - 1
  PROVE  /\ Fill(p, q) \in Int
         /\ -(StopDistance + (MaxMove - 1 + StopSlippage)) <=
              IF p.side = "BUY" THEN Fill(p, q) - p.entry ELSE p.entry - Fill(p, q)
<1>1. /\ p.entry \in Int /\ p.stopLoss \in Int /\ p.takeProfit \in Int
      /\ q.bid \in Int /\ q.ask \in Int
  BY DEF Position, Quote
<1> QED
  BY <1>1, BrokerAssumption, EngineAssumption
  DEF Fill, StopHit, ExitPrice, Lesser, Greater, Overshoot

(* Distributing a loss per unit over the size and the multiplier.           *)
LEMMA LossPerContract ==
  ASSUME NEW v \in Nat, NEW m \in Nat, NEW a \in Int, NEW b \in Int, NEW gain \in Int,
         -(a + b) <= gain
  PROVE  -(v * (a * m)) - v * (m * b) <= gain * v * m
<1>1. v * m \in Nat
  OBVIOUS
<1>2. -(a + b) * (v * m) <= gain * (v * m)
  BY <1>1, TimesMonotone
<1>3. gain * (v * m) = gain * v * m
  OBVIOUS
<1>4. -(a + b) * (v * m) = -(v * (a * m)) - v * (m * b)
  OBVIOUS
<1> QED  BY <1>2, <1>3, <1>4

LEMMA RiskOfPosition ==
  ASSUME TypeInv, BracketInv, NEW p \in positions
  PROVE  /\ p.volume * PerContract(StopDistance) \in Nat
         /\ p.volume * PerContract(StopDistance) <= RiskPerTrade
<1>1. p.volume \in Nat
  BY DEF TypeInv, TypeOK, Position
<1>2. PerContract(StopDistance) \in Nat
  BY SpecAssumption, EngineAssumption DEF PerContract
<1> QED  BY <1>1, <1>2 DEF BracketInv, Bracketed

LEMMA GapCostType ==
  ASSUME RiskPerTrade \in Nat
  PROVE  GapCost \in Nat
<1>1. PerContract(StopDistance) \in Nat \ {0}
  BY SpecAssumption, EngineAssumption DEF PerContract
<1>2. MaxVolume \in Nat
  BY <1>1, DivRoundsDown DEF MaxVolume
<1>3. Multiplier * (MaxMove - 1 + StopSlippage) + CommissionPerContract \in Nat
  BY SpecAssumption, BrokerAssumption, EngineAssumption
<1> QED  BY <1>2, <1>3 DEF GapCost

LEMMA ClosedLossBounded ==
  ASSUME TypeInv, BracketInv, RiskPerTrade \in Nat, NEW p \in positions, ClosePosition(p)
  PROVE  NetPnl(p, Fill(p, quotes[handling])) >=
           -(p.volume * PerContract(StopDistance) + GapCost)
<1> DEFINE q == quotes[handling]
           gap == MaxMove - 1 + StopSlippage
           gain == IF p.side = "BUY" THEN Fill(p, q) - p.entry ELSE p.entry - Fill(p, q)
           each == Multiplier * gap + CommissionPerContract
<1>1. p \in Position /\ p.symbol = handling /\ q \in Quote /\ Bracketed(p)
  BY HandledQuote DEF ClosePosition, NextHit, HitPositions, TypeInv, TypeOK, BracketInv
<1>2. /\ p.volume \in Nat /\ StopDistance \in Nat \ {0} /\ gap \in Nat
      /\ Multiplier \in Nat \ {0} /\ CommissionPerContract \in Nat
  BY <1>1, SpecAssumption, BrokerAssumption, EngineAssumption DEF Position
<1>3. gain \in Int /\ -(StopDistance + gap) <= gain
  <2>1. p.entry \in Int
    BY <1>1 DEF Position
  <2> QED  BY <1>1, <2>1, FillIsNear DEF Bracketed
<1>4. NetPnl(p, Fill(p, q)) = gain * p.volume * Multiplier - CommissionPerContract * p.volume
  BY <1>1 DEF NetPnl, Pnl, Bracketed
<1> HIDE DEF gain, gap, q
<1>5. -(p.volume * PerContract(StopDistance)) - p.volume * (Multiplier * gap)
        <= gain * p.volume * Multiplier
  BY <1>2, <1>3, LossPerContract DEF PerContract
<1>6. p.volume <= MaxVolume /\ MaxVolume \in Nat
  <2>1. PerContract(StopDistance) \in Nat \ {0}
    BY <1>2 DEF PerContract
  <2> QED  BY <1>1, <1>2, <2>1, DivRoundsDown DEF MaxVolume, Bracketed
<1>7. each \in Nat
  BY <1>2
<1>8. p.volume * each <= GapCost
  BY <1>2, <1>6, <1>7, TimesMonotone DEF GapCost, gap
<1>9. p.volume * each = p.volume * (Multiplier * gap) + CommissionPerContract * p.volume
  BY <1>2
<1>10. /\ p.volume * PerContract(StopDistance) \in Int
       /\ p.volume * (Multiplier * gap) \in Int
       /\ gain * p.volume * Multiplier \in Int
       /\ CommissionPerContract * p.volume \in Int
       /\ p.volume * each \in Int /\ GapCost \in Int
  BY <1>2, <1>3, <1>6, <1>7 DEF PerContract, GapCost, gap
<1> HIDE DEF each
<1>11. gain * p.volume * Multiplier - CommissionPerContract * p.volume
         >= -(p.volume * PerContract(StopDistance) + GapCost)
  BY <1>5, <1>8, <1>9, <1>10
<1> QED  BY <1>4, <1>11 DEF q

TradeLossInv == BracketInv /\ TradeLossBounded

LEMMA TradeLossStep ==
  ASSUME TypeInv, TradeLossInv, ClearEntries, RiskPerTrade \in Nat, [Next]_vars
  PROVE  TradeLossInv'
<1>1. BracketInv'
  BY BracketStep DEF TradeLossInv
<1>2. CASE UNCHANGED history
  BY <1>1, <1>2 DEF TradeLossInv, TradeLossBounded
<1>3. CASE BrokerStep
  <2>1. PICK p \in positions : ClosePosition(p)
    BY <1>3 DEF BrokerStep
  <2> DEFINE pnl == NetPnl(p, Fill(p, quotes[handling]))
             trade == [at |-> wall, closedAt |-> moment, pnl |-> pnl]
  <2>2. pnl \in Int
    BY <2>1, CloseDay
  <2>3. pnl >= -(p.volume * PerContract(StopDistance) + GapCost)
    BY <2>1, ClosedLossBounded DEF TradeLossInv
  <2>4. /\ p.volume * PerContract(StopDistance) \in Int
        /\ p.volume * PerContract(StopDistance) <= RiskPerTrade
    BY RiskOfPosition DEF TradeLossInv
  <2>5. GapCost \in Int
    BY GapCostType
  <2>6. pnl >= -(RiskPerTrade + GapCost)
    BY <2>2, <2>3, <2>4, <2>5
  <2>7. history' = Append(history, trade)
    BY <2>1 DEF ClosePosition, RecordClose, CloseClock
  <2> HIDE DEF pnl
  <2>8. \A i \in DOMAIN history' :
          history'[i] = IF i \in DOMAIN history THEN history[i] ELSE trade
    BY <2>7 DEF TypeInv, TypeOK
  <2>9. TradeLossBounded'
    BY <2>6, <2>8 DEF TradeLossInv, TradeLossBounded, GapCost, MaxVolume
  <2> QED  BY <1>1, <2>9 DEF TradeLossInv
<1>4. CASE ~BrokerStep
  <2>1. UNCHANGED history
    BY <1>4
    DEF Next, Elapse, FeedTick, Tick, Decide, Skip, NoTrade, BlockedByAnalyst, RefusedByRisk,
        OpenTrade, AnalystThread, NewsThread, vars, riskVars
  <2> QED  BY <1>2, <2>1
<1> QED  BY <1>3, <1>4

(* No closed trade lost more than the risk of one trade and one gap.        *)
THEOREM TradeLossHolds ==
  ASSUME ClearEntries, RiskPerTrade \in Nat
  PROVE  Spec => []TradeLossBounded
<1>1. Init => TypeInv /\ TradeLossInv
  BY TypeInit DEF Init, BrokerInit, RiskInit, TradeLossInv, BracketInv, TradeLossBounded
<1>2. (TypeInv /\ TradeLossInv) /\ [Next]_vars => (TypeInv /\ TradeLossInv)'
  BY TypeStep, TradeLossStep
<1>3. TradeLossInv => TradeLossBounded
  BY DEF TradeLossInv
<1> QED  BY <1>1, <1>2, <1>3, PTL DEF Spec

--------------------------------------------------------------------------------
(* What one day can lose.                                                   *)

(* The open position fits in what the day may still lose.  A budget is only *)
(* computed from the closed trades, so this needs that there is no other.   *)
WithinBudget(d) ==
  \A p \in positions : p.volume * PerContract(StopDistance) <= MaxDailyLoss + d.realised

DayLossInv ==
  BracketInv /\ OpenCount <= 1 /\ WithinBudget(day) /\ DailyLossBounded

LEMMA RolloverKeepsBudget ==
  ASSUME TypeInv, DayLossInv, SafeSizing, NEW now
  PROVE  /\ WithinBudget(RolledDay(now))
         /\ RolledDay(now).realised \in Int
         /\ RolledDay(now).realised >= -(MaxDailyLoss + GapCost)
<1>1. CASE RolledDay(now) = day
  BY <1>1 DEF DayLossInv, DailyLossBounded, TypeInv, TypeOK, DayStats
<1>2. CASE RolledDay(now) # day
  <2>1. RolledDay(now).realised = 0
    BY <1>2 DEF RolledDay, FreshDay
  <2>2. \A p \in positions : /\ p.volume * PerContract(StopDistance) \in Int
                             /\ p.volume * PerContract(StopDistance) <= RiskPerTrade
    BY RiskOfPosition DEF DayLossInv
  <2>3. RiskPerTrade \in Nat /\ RiskPerTrade <= MaxDailyLoss /\ MaxDailyLoss \in Nat
    BY RiskAssumption DEF SafeSizing
  <2>4. GapCost \in Nat
    BY <2>3, GapCostType
  <2> QED  BY <2>1, <2>2, <2>3, <2>4 DEF WithinBudget
<1> QED  BY <1>1, <1>2

LEMMA DayLossStep ==
  ASSUME TypeInv, DayLossInv, ClearEntries, SafeSizing, [Next]_vars
  PROVE  DayLossInv'
<1>0. BracketInv' /\ RiskPerTrade \in Nat /\ MaxDailyLoss \in Nat
  BY BracketStep, RiskAssumption DEF DayLossInv, SafeSizing
<1>1. ASSUME UNCHANGED <<day, positions>>
      PROVE  DayLossInv'
  BY <1>0, <1>1
  DEF DayLossInv, WithinBudget, DailyLossBounded, OpenCount, GapCost, MaxVolume
<1>2. CASE Elapse \/ FeedTick \/ AnalystThread \/ NewsThread \/ UNCHANGED vars
  <2>1. UNCHANGED <<day, positions>>
    BY <1>2
    DEF Elapse, FeedTick, Tick, AnalystThread, NewsThread, vars, riskVars, brokerVars
  <2> QED  BY <1>1, <2>1
<1>3. CASE BrokerStep
  <2>1. PICK p \in positions : ClosePosition(p)
    BY <1>3 DEF BrokerStep
  <2> DEFINE d == RolledDay(wall)
             pnl == NetPnl(p, Fill(p, quotes[handling]))
             risk == p.volume * PerContract(StopDistance)
  <2>2. positions' = {}
    <3>1. OpenCount' = OpenCount - 1 /\ OpenCount \in Nat
      BY <2>1, CloseCounts, OpenCountType DEF ClosePosition, TypeInv
    <3>2. IsFiniteSet(positions')
      BY <2>1, TypeStep DEF TypeInv, TypeOK
    <3>3. Cardinality(positions') \in Nat /\ Cardinality(positions') <= 0
      BY <3>1, <3>2, FS_CardinalityType DEF DayLossInv, OpenCount
    <3> QED  BY <3>2, <3>3, FS_EmptySet
  <2>3. pnl \in Int /\ day'.realised = d.realised + pnl
    BY <2>1, CloseDay
  <2>4. risk \in Nat /\ risk <= MaxDailyLoss + d.realised /\ d.realised \in Int
    BY RiskOfPosition, RolloverKeepsBudget DEF DayLossInv, WithinBudget
  <2>5. pnl >= -(risk + GapCost) /\ GapCost \in Nat
    BY <1>0, <2>1, ClosedLossBounded, GapCostType DEF DayLossInv
  <2> HIDE DEF d, pnl, risk
  <2>6. day'.realised >= -(MaxDailyLoss + GapCost)
    BY <1>0, <2>3, <2>4, <2>5
  <2>7. OpenCount' <= 1
    BY <2>2, FS_EmptySet DEF OpenCount
  <2> QED
    BY <1>0, <2>2, <2>6, <2>7
    DEF DayLossInv, WithinBudget, DailyLossBounded, GapCost, MaxVolume
<1>4. ASSUME NEW side \in Sides, OpenTrade(side)
      PROVE  DayLossInv'
  <2> DEFINE d == RolledDay(DecisionClock)
  <2>1. day' = d /\ OpenCount < MaxOpenPositions
    BY <1>4 DEF OpenTrade, MayOpen, Allowed
  <2>2. positions = {} /\ OpenCount' <= 1
    <3>1. OpenCount \in Nat /\ OpenCount < 1
      BY <2>1, OpenCountType DEF SafeSizing, TypeInv
    <3>2. positions = {}
      BY <3>1, FS_EmptySet DEF OpenCount, TypeInv, TypeOK
    <3>3. OpenCount' \in Nat /\ OpenCount' <= OpenCount + 1
      BY <1>4, OpenCounts DEF OpenTrade, TypeInv
    <3> QED  BY <3>1, <3>2, <3>3
  <2>3. ASSUME NEW p \in positions'
        PROVE  p.volume * PerContract(StopDistance) <= MaxDailyLoss + d.realised
    <3>1. p.volume * PerContract(StopDistance) <= Budget(d)
      BY <1>4, <2>2, OpenedIsBracketed
    <3>2. Budget(d) <= MaxDailyLoss + d.realised /\ Budget(d) \in Int /\ d.realised \in Int
      BY <1>0, RolloverKeepsBudget DEF Budget, Lesser
    <3>3. p.volume \in Nat
      BY TypeStep DEF TypeInv, TypeOK, Position
    <3>4. p.volume * PerContract(StopDistance) \in Int
      BY <3>3, SpecAssumption, EngineAssumption DEF PerContract
    <3> QED  BY <1>0, <3>1, <3>2, <3>4
  <2>4. DailyLossBounded'
    BY <2>1, RolloverKeepsBudget DEF DailyLossBounded, GapCost, MaxVolume
  <2> QED  BY <1>0, <2>1, <2>2, <2>3, <2>4 DEF DayLossInv, WithinBudget
<1>5. ASSUME NEW side \in Sides, RefusedByRisk(side)
      PROVE  DayLossInv'
  <2>1. day' = RolledDay(DecisionClock) /\ UNCHANGED positions
    BY <1>5 DEF RefusedByRisk, brokerVars
  <2> QED
    BY <1>0, <2>1, RolloverKeepsBudget
    DEF DayLossInv, WithinBudget, DailyLossBounded, OpenCount, GapCost, MaxVolume
<1>6. CASE Decide
  <2>1. ASSUME Skip \/ NoTrade \/ \E side \in Sides : BlockedByAnalyst(side)
        PROVE  UNCHANGED <<day, positions>>
    BY <2>1 DEF Skip, NoTrade, BlockedByAnalyst, riskVars, brokerVars
  <2> QED  BY <1>1, <1>4, <1>5, <1>6, <2>1 DEF Decide
<1> QED  BY <1>2, <1>3, <1>4, <1>6 DEF Next

(* The loss booked on a day exceeds the daily limit by at most the gap of   *)
(* the trade that crossed it.                                               *)
THEOREM DailyLossHolds ==
  ASSUME ClearEntries, SafeSizing
  PROVE  Spec => []DailyLossBounded
<1>1. Init => TypeInv /\ DayLossInv
  <2> SUFFICES ASSUME Init PROVE DayLossInv
    BY TypeInit
  <2>1. positions = {} /\ OpenCount = 0 /\ day.realised = 0
    BY FS_EmptySet DEF Init, BrokerInit, RiskInit, FreshDay, OpenCount
  <2>2. GapCost \in Nat /\ MaxDailyLoss \in Nat
    BY GapCostType, RiskAssumption DEF SafeSizing
  <2> QED  BY <2>1, <2>2 DEF DayLossInv, BracketInv, WithinBudget, DailyLossBounded
<1>2. (TypeInv /\ DayLossInv) /\ [Next]_vars => (TypeInv /\ DayLossInv)'
  BY TypeStep, DayLossStep
<1>3. DayLossInv => DailyLossBounded
  BY DEF DayLossInv
<1> QED  BY <1>1, <1>2, <1>3, PTL DEF Spec
================================================================================
