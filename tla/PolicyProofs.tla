------------------------------ MODULE PolicyProofs ------------------------------
(***************************************************************************)
(* What stands between a signal and an open position, for every value of   *)
(* the constants: the gates in front of the risk manager, the ledger its   *)
(* limits are read from, and the policy that needs no ledger.              *)
(***************************************************************************)
EXTENDS MCTradingEngine, TradingEngineProofs, SumLemmas

(* The sequence number moves only when a position opens.                    *)
LEMMA OnlyOpensCount ==
  ASSUME [Next]_vars, sequence' # sequence
  PROVE  \E side \in Sides : OpenTrade(side)
BY DEF Next, Elapse, FeedTick, Tick, BrokerStep, ClosePosition, RemovePosition, Decide,
       Skip, NoTrade, BlockedByAnalyst, RefusedByRisk, AnalystThread, NewsThread, vars,
       brokerVars

(* Every call in flight was marked: the mark is never older than the call,  *)
(* so a new request is a full interval after each of them, however many     *)
(* there are and whatever the clock did.                                    *)
CallsMarked ==
  \A c \in calls : requestedAt[c.symbol] # None /\ c.at <= requestedAt[c.symbol]

CallsInv == CallsMarked /\ CallsSpaced

LEMMA RequestSpaced ==
  ASSUME TypeOK, CallsInv, NEW s \in Symbols, NEW now \in Nat, RequestIfDue(s, now)
  PROVE  CallsInv'
<1>0. AnalystInterval \in Nat
  BY AnalystAssumption
<1>1. CASE NeedsRefresh(s, now)
  <2> DEFINE new == [symbol |-> s, at |-> now]
  <2>1. /\ calls' = calls \cup {new}
        /\ requestedAt' = [requestedAt EXCEPT ![s] = now]
    BY <1>1 DEF RequestIfDue
  <2>2. \A c \in calls : c.symbol = s => now - c.at >= AnalystInterval
    <3> SUFFICES ASSUME NEW c \in calls, c.symbol = s
                 PROVE  now - c.at >= AnalystInterval
      OBVIOUS
    <3>1. /\ c.at \in Nat /\ requestedAt[s] \in Nat /\ c.at <= requestedAt[s]
          /\ now - requestedAt[s] >= AnalystInterval
      BY <1>1 DEF CallsInv, CallsMarked, NeedsRefresh, TypeOK
    <3> QED  BY <1>0, <3>1
  <2>3. CallsMarked'
    <3> SUFFICES ASSUME NEW c \in calls'
                 PROVE  requestedAt'[c.symbol] # None /\ c.at <= requestedAt'[c.symbol]
      BY DEF CallsMarked
    <3>1. CASE c.symbol = s
      <4>1. requestedAt'[s] = now /\ now # None
        BY <2>1, SpecAssumption DEF TypeOK
      <4>2. c.at \in Nat /\ c.at <= now
        BY <1>0, <2>1, <2>2, <3>1 DEF TypeOK
      <4> QED  BY <3>1, <4>1, <4>2
    <3>2. CASE c.symbol # s
      BY <2>1, <3>2 DEF CallsInv, CallsMarked, TypeOK
    <3> QED  BY <3>1, <3>2
  <2>4. CallsSpaced'
    <3> SUFFICES ASSUME NEW c \in calls', NEW d \in calls', c # d, c.symbol = d.symbol
                 PROVE  Abs(c.at - d.at) >= AnalystInterval
      BY DEF CallsSpaced
    <3>1. c.at \in Nat /\ d.at \in Nat
      BY <2>1 DEF TypeOK
    <3>2. CASE c \in calls /\ d \in calls
      BY <3>2 DEF CallsInv, CallsSpaced
    <3>3. CASE c = new \/ d = new
      BY <1>0, <2>1, <2>2, <3>1, <3>3 DEF Abs
    <3> QED  BY <2>1, <3>2, <3>3
  <2> QED  BY <2>3, <2>4 DEF CallsInv
<1>2. CASE ~NeedsRefresh(s, now)
  BY <1>2 DEF RequestIfDue, analystVars, CallsInv, CallsMarked, CallsSpaced
<1> QED  BY <1>1, <1>2

(* Two requests for one symbol are at least the interval apart, however     *)
(* slowly they are answered.                                                *)
THEOREM CallsAreSpaced == Spec => []CallsSpaced
<1>1. Init => TypeInv /\ CallsInv
  BY TypeInit DEF Init, AnalystInit, CallsInv, CallsMarked, CallsSpaced
<1>2. (TypeInv /\ CallsInv) /\ [Next]_vars => (TypeInv /\ CallsInv)'
  <2> SUFFICES ASSUME TypeInv, CallsInv, [Next]_vars PROVE CallsInv'
    BY TypeStep
  <2>1. CASE calls' \subseteq calls /\ UNCHANGED requestedAt
    BY <2>1 DEF CallsInv, CallsMarked, CallsSpaced
  <2>2. CASE Signal(handling)
    <3>1. handling \in Symbols /\ RequestIfDue(handling, DecisionClock)
      BY <2>2, HandledQuote DEF Signal, Deciding
    <3> QED  BY <3>1, DecisionClockType, RequestSpaced DEF TypeInv
  <2>3. CASE ~Signal(handling)
    <3>1. calls' \subseteq calls /\ UNCHANGED requestedAt
      BY <2>3
      DEF Next, Elapse, FeedTick, Tick, BrokerStep, ClosePosition, Decide, Skip, NoTrade,
          BlockedByAnalyst, RefusedByRisk, OpenTrade, AnalystThread, AnalystFails,
          AnalystReplies, NewsThread, vars, analystVars
    <3> QED  BY <2>1, <3>1
  <2> QED  BY <2>2, <2>3
<1>3. CallsInv => CallsSpaced
  BY DEF CallsInv
<1> QED  BY <1>1, <1>2, <1>3, PTL DEF Spec
--------------------------------------------------------------------------------

(* A release every calendar lists is among the events once one is loaded:   *)
(* a failed refresh keeps them.                                             *)
Listed(r) == loaded => r \in events

LEMMA ListedStep ==
  ASSUME NEW r, r.impact = "high", \A calendar \in Calendars : r \in calendar,
         Listed(r), [Next]_vars
  PROVE  Listed(r)'
<1>1. CASE UNCHANGED newsVars
  BY <1>1 DEF newsVars, Listed
<1>2. CASE NewsThread
  BY <1>2 DEF NewsThread, NewsUpdate, NewsUpdateFailed, newsVars, Listed
<1>3. CASE ~NewsThread
  <2>1. UNCHANGED newsVars
    BY <1>3
    DEF Next, Elapse, FeedTick, Tick, BrokerStep, ClosePosition, Decide, Skip, NoTrade,
        BlockedByAnalyst, RefusedByRisk, OpenTrade, Signal, AnalystThread, vars
  <2> QED  BY <1>1, <2>1
<1> QED  BY <1>2, <1>3

LEMMA ClearStep ==
  ASSUME NEW r, Listed(r), [Next]_vars
  PROVE  ~OpensInBlackout(r)
<1> SUFFICES ASSUME OpensInBlackout(r) PROVE FALSE
  OBVIOUS
<1>1. PICK side \in Sides : OpenTrade(side)
  BY OnlyOpensCount DEF OpensInBlackout
<1>2. ~Blackout(handling, DecisionClock)
  BY <1>1 DEF OpenTrade, Signal
<1> QED  BY <1>2 DEF OpensInBlackout, Listed, Blackout

(* No position opens inside the window of a high-impact release that every  *)
(* calendar lists, on a symbol it matters to.                               *)
THEOREM NoOpenInBlackout ==
  ASSUME NEW r, r.impact = "high", \A calendar \in Calendars : r \in calendar
  PROVE  Spec => [][~OpensInBlackout(r)]_vars
<1>1. Init => Listed(r)
  BY DEF Init, NewsInit, Listed
<1>2. Listed(r) /\ [Next]_vars => Listed(r)'
  BY ListedStep
<1>3. Listed(r) /\ [Next]_vars => [~OpensInBlackout(r)]_vars
  BY ClearStep
<1> QED  BY <1>1, <1>2, <1>3, PTL DEF Spec

(* ... and so the release of the runs.                                      *)
THEOREM BlackoutHolds ==
  ASSUME \A calendar \in Calendars : MCRelease \in calendar
  PROVE  Spec => BlackoutHonoured
<1>1. Init => Listed(MCRelease)
  BY DEF Init, NewsInit, Listed
<1>2. Listed(MCRelease) /\ [Next]_vars => Listed(MCRelease)'
  <2>1. MCRelease.impact = "high"
    BY DEF MCRelease
  <2> QED  BY <2>1, ListedStep
<1>3. Listed(MCRelease) /\ [Next]_vars => [~OpensInBlackout(MCRelease)]_vars
  BY ClearStep
<1> QED  BY <1>1, <1>2, <1>3, PTL DEF Spec, BlackoutHonoured

--------------------------------------------------------------------------------
(* The ledger: running counters against the history of closed trades.       *)

TradesOn(h, date) == {i \in DOMAIN h : Date(h[i].at) = date}
WonOn(h, date) == {i \in TradesOn(h, date) : h[i].pnl >= 0}

PnlIn(h, I) == SumFunctionOnSet([i \in DOMAIN h |-> h[i].pnl], I)

(* The counters d are those of the trades booked on their day.              *)
Tells(d, h) ==
  /\ d.realised = PnlIn(h, TradesOn(h, d.day))
  /\ d.trades = Cardinality(TradesOn(h, d.day))
  /\ d.wins = Cardinality(WonOn(h, d.day))
  /\ d.losses = d.trades - d.wins
  /\ d.grossProfit = PnlIn(h, WonOn(h, d.day))
  /\ d.realised = d.grossProfit - d.grossLoss

LEMMA HistoryIndices ==
  ASSUME NEW h \in Seq(Trade), NEW I \in SUBSET DOMAIN h
  PROVE  /\ DOMAIN h = 1..Len(h) /\ Len(h) \in Nat
         /\ IsFiniteSet(I) /\ Cardinality(I) \in Nat
         /\ \A i \in I : h[i] \in Trade /\ h[i].pnl \in Int /\ h[i].at \in Nat
         /\ PnlIn(h, I) \in Int
<1>1. DOMAIN h = 1..Len(h) /\ Len(h) \in Nat
  OBVIOUS
<1>2. IsFiniteSet(I) /\ Cardinality(I) \in Nat
  <2>1. I \in SUBSET (1..Len(h))
    BY <1>1
  <2>2. IsFiniteSet(1..Len(h))
    BY <1>1, FS_Interval
  <2> QED  BY <2>1, <2>2, FS_Subset, FS_CardinalityType
<1>3. \A i \in I : h[i] \in Trade /\ h[i].pnl \in Int /\ h[i].at \in Nat
  <2> SUFFICES ASSUME NEW i \in I
               PROVE  h[i] \in Trade /\ h[i].pnl \in Int /\ h[i].at \in Nat
    OBVIOUS
  <2>1. i \in 1..Len(h)
    BY <1>1
  <2>2. h[i] \in Trade
    BY <2>1
  <2> QED  BY <2>2 DEF Trade
<1>4. PnlIn(h, I) \in Int
  <2>1. IntOn([i \in DOMAIN h |-> h[i].pnl], I)
    BY <1>3 DEF IntOn
  <2> QED  BY <1>2, <2>1, SumType DEF PnlIn
<1> QED  BY <1>1, <1>2, <1>3, <1>4

(* One more trade changes no sum but those that take it in.                 *)
LEMMA OneMoreTrade ==
  ASSUME NEW h \in Seq(Trade), NEW t \in Trade, NEW I \in SUBSET DOMAIN h
  PROVE  LET e == Append(h, t)
             n == Len(h) + 1
         IN  /\ PnlIn(e, I) = PnlIn(h, I)
             /\ PnlIn(e, I \cup {n}) = PnlIn(h, I) + t.pnl
             /\ Cardinality(I \cup {n}) = Cardinality(I) + 1
<1> DEFINE e == Append(h, t)
           n == Len(h) + 1
           w == [i \in DOMAIN h |-> h[i].pnl]
           v == [i \in DOMAIN e |-> e[i].pnl]
<1>1. /\ DOMAIN h = 1..Len(h) /\ Len(h) \in Nat /\ IsFiniteSet(I)
      /\ \A i \in I : h[i].pnl \in Int
      /\ PnlIn(h, I) \in Int
  BY HistoryIndices
<1>2. /\ DOMAIN e = 1..n /\ e[n] = t /\ \A i \in DOMAIN h : e[i] = h[i]
      /\ t.pnl \in Int
  BY <1>1 DEF Trade
<1>3. n \notin I
  BY <1>1
<1> HIDE DEF e, n
<1>4. IntOn(w, I) /\ IntOn(v, I) /\ \A i \in I : v[i] = w[i]
  <2>1. ASSUME NEW i \in I
        PROVE  w[i] \in Int /\ v[i] = w[i]
    <3>1. i \in DOMAIN h /\ i \in DOMAIN e /\ e[i] = h[i]
      BY <1>1, <1>2 DEF n
    <3> QED  BY <1>1, <3>1
  <2> QED  BY <2>1 DEF IntOn
<1>5. v[n] = t.pnl
  BY <1>1, <1>2 DEF n
<1> HIDE DEF v, w
<1>6. SumFunctionOnSet(v, I) = SumFunctionOnSet(w, I)
  BY <1>1, <1>4, SumAgrees
<1>7. SumFunctionOnSet(v, I \cup {n}) = t.pnl + SumFunctionOnSet(v, I)
  BY <1>1, <1>2, <1>3, <1>4, <1>5, SumAdds
<1>8. PnlIn(e, I) = PnlIn(h, I) /\ PnlIn(e, I \cup {n}) = t.pnl + PnlIn(h, I)
  BY <1>6, <1>7 DEF PnlIn, v, w
<1>9. Cardinality(I \cup {n}) = Cardinality(I) + 1
  BY <1>1, <1>3, FS_AddElement
<1> QED  BY <1>1, <1>2, <1>8, <1>9 DEF e, n

(* The trades of a day after one more.                                      *)
LEMMA TradesWithOneMore ==
  ASSUME NEW h \in Seq(Trade), NEW t \in Trade, NEW date
  PROVE  LET e == Append(h, t)
             n == Len(h) + 1
             here == Date(t.at) = date
         IN  /\ TradesOn(e, date) = TradesOn(h, date) \cup (IF here THEN {n} ELSE {})
             /\ WonOn(e, date) =
                  WonOn(h, date) \cup (IF here /\ t.pnl >= 0 THEN {n} ELSE {})
<1> DEFINE e == Append(h, t)
           n == Len(h) + 1
<1>1. /\ DOMAIN e = DOMAIN h \cup {n} /\ n \notin DOMAIN h
      /\ e[n] = t /\ \A i \in DOMAIN h : e[i] = h[i]
  OBVIOUS
<1> HIDE DEF e, n
<1> QED  BY <1>1 DEF TradesOn, WonOn, e, n

(* Starting a later day from zero agrees with a history of earlier ones.    *)
LEMMA RolledTells ==
  ASSUME TypeOK, Tells(day, history), NEW now \in Nat, day.day <= Date(now),
         \A i \in DOMAIN history : Date(history[i].at) <= day.day
  PROVE  Tells(RolledDay(now), history) /\ RolledDay(now).day = Date(now)
<1>1. CASE Date(now) = day.day
  BY <1>1 DEF RolledDay
<1>2. CASE Date(now) # day.day
  <2>1. RolledDay(now) = FreshDay(Date(now))
    BY <1>2 DEF RolledDay
  <2>2. /\ day.day \in Int /\ Date(now) \in Int
        /\ \A i \in DOMAIN history : Date(history[i].at) \in Int
    <3>1. \A x \in Nat : Date(x) \in Int
      BY DivRoundsDown, RiskAssumption DEF Date
    <3>2. \A i \in DOMAIN history : history[i].at \in Nat
      BY HistoryIndices DEF TypeOK
    <3> QED  BY <3>1, <3>2 DEF TypeOK, DayStats
  <2>3. TradesOn(history, Date(now)) = {} /\ WonOn(history, Date(now)) = {}
    BY <1>2, <2>2 DEF TradesOn, WonOn
  <2>4. PnlIn(history, {}) = 0 /\ Cardinality({}) = 0
    BY SumOfNothing, FS_EmptySet DEF PnlIn
  <2> QED  BY <2>1, <2>3, <2>4 DEF Tells, FreshDay
<1> QED  BY <1>1, <1>2

(* record_close keeps the counters in step with the history.                *)
LEMMA CloseTells ==
  ASSUME NEW d \in DayStats, NEW h \in Seq(Trade), Tells(d, h),
         NEW pnl \in Int, NEW now \in Nat, NEW closedAt \in Nat, Date(now) = d.day
  PROVE  Tells(AfterClose(d, pnl, now),
               Append(h, [at |-> now, closedAt |-> closedAt, pnl |-> pnl]))
<1> DEFINE t == [at |-> now, closedAt |-> closedAt, pnl |-> pnl]
           e == Append(h, t)
           n == Len(h) + 1
           c == AfterClose(d, pnl, now)
           all == TradesOn(h, d.day)
           won == WonOn(h, d.day)
<1>1. t \in Trade /\ t.pnl = pnl /\ Date(t.at) = d.day
  BY DEF Trade
<1> HIDE DEF t
<1>2. /\ c.day = d.day
      /\ c.realised = d.realised + pnl /\ c.trades = d.trades + 1
      /\ c.wins = d.wins + (IF pnl >= 0 THEN 1 ELSE 0)
      /\ c.losses = d.losses + (IF pnl < 0 THEN 1 ELSE 0)
      /\ c.grossProfit = d.grossProfit + (IF pnl >= 0 THEN pnl ELSE 0)
      /\ c.grossLoss = d.grossLoss + (IF pnl < 0 THEN -pnl ELSE 0)
  BY DEF AfterClose, ArmsCooldown, DayStats
<1>3. all \in SUBSET DOMAIN h /\ won \in SUBSET DOMAIN h
  BY DEF TradesOn, WonOn
<1>4. /\ TradesOn(e, d.day) = all \cup {n}
      /\ WonOn(e, d.day) = won \cup (IF pnl >= 0 THEN {n} ELSE {})
  BY <1>1, TradesWithOneMore
<1>5. /\ PnlIn(e, all \cup {n}) = PnlIn(h, all) + pnl
      /\ Cardinality(all \cup {n}) = Cardinality(all) + 1
  BY <1>1, <1>3, OneMoreTrade
<1>6. /\ PnlIn(e, won) = PnlIn(h, won)
      /\ PnlIn(e, won \cup {n}) = PnlIn(h, won) + pnl
      /\ Cardinality(won \cup {n}) = Cardinality(won) + 1
  BY <1>1, <1>3, OneMoreTrade
<1>7. /\ PnlIn(h, all) \in Int /\ PnlIn(h, won) \in Int
      /\ Cardinality(all) \in Nat /\ Cardinality(won) \in Nat
  BY <1>3, HistoryIndices
<1>8. /\ d.realised = PnlIn(h, all) /\ d.trades = Cardinality(all)
      /\ d.wins = Cardinality(won) /\ d.losses = d.trades - d.wins
      /\ d.grossProfit = PnlIn(h, won) /\ d.realised = d.grossProfit - d.grossLoss
      /\ d.grossLoss \in Int
  BY DEF Tells, DayStats
<1> HIDE DEF e, n, c, all, won
<1>9. SUFFICES Tells(c, e)
  BY DEF c, e, t
<1>10. /\ c.realised = PnlIn(e, TradesOn(e, c.day))
       /\ c.trades = Cardinality(TradesOn(e, c.day))
       /\ c.losses = c.trades - c.wins
       /\ c.realised = c.grossProfit - c.grossLoss
  BY <1>2, <1>4, <1>5, <1>7, <1>8
<1>11. /\ c.wins = Cardinality(WonOn(e, c.day))
       /\ c.grossProfit = PnlIn(e, WonOn(e, c.day))
  <2>1. CASE pnl >= 0
    BY <1>2, <1>4, <1>6, <1>7, <1>8, <2>1
  <2>2. CASE pnl < 0
    BY <1>2, <1>4, <1>6, <1>7, <1>8, <2>2
  <2> QED  BY <2>1, <2>2
<1> QED  BY <1>10, <1>11 DEF Tells

(* Nothing is booked later than the clock says, or on a later date than the *)
(* counters stand for.                                                      *)
Booked ==
  /\ day.day <= Date(wall)
  /\ \A i \in DOMAIN history : history[i].at <= wall /\ Date(history[i].at) <= day.day

LedgerInv ==
  /\ Booked
  /\ balance = StartBalance + PnlIn(history, DOMAIN history)
  /\ Tells(day, history)

LEMMA DatesRise ==
  ASSUME NEW a \in Nat, NEW b \in Nat, a <= b
  PROVE  Date(a) \in Int /\ Date(b) \in Int /\ Date(a) <= Date(b)
<1>1. a \div DayLength \in Nat /\ (a \div DayLength) * DayLength <= a
  BY DivRoundsDown, RiskAssumption
<1>2. (a \div DayLength) * DayLength <= b
  BY <1>1, RiskAssumption
<1>3. a \div DayLength <= b \div DayLength
  BY <1>1, <1>2, DivRoundsDown, RiskAssumption
<1>4. b \div DayLength \in Nat
  BY DivRoundsDown, RiskAssumption
<1> QED  BY <1>1, <1>3, <1>4 DEF Date

LEMMA LedgerStart == Init => LedgerInv
<1> SUFFICES ASSUME Init PROVE LedgerInv
  OBVIOUS
<1>1. /\ history = <<>> /\ balance = StartBalance /\ day = FreshDay(Date(wall))
      /\ wall = ReplayStart
  BY DEF Init, RiskInit
<1>2. DOMAIN history = {} /\ TradesOn(history, day.day) = {} /\ WonOn(history, day.day) = {}
  BY <1>1 DEF TradesOn, WonOn
<1>3. PnlIn(history, {}) = 0 /\ Cardinality({}) = 0
  BY SumOfNothing, FS_EmptySet DEF PnlIn
<1>4. day.day = Date(wall) /\ Date(wall) <= Date(wall)
  BY <1>1, DatesRise, EngineAssumption DEF FreshDay
<1>5. balance = StartBalance + PnlIn(history, DOMAIN history)
  BY <1>1, <1>2, <1>3, RiskAssumption
<1>6. Tells(day, history)
  <2>1. /\ day.realised = 0 /\ day.trades = 0 /\ day.wins = 0 /\ day.losses = 0
        /\ day.grossProfit = 0 /\ day.grossLoss = 0
    BY <1>1 DEF FreshDay
  <2> QED  BY <1>2, <1>3, <2>1 DEF Tells
<1> QED  BY <1>2, <1>4, <1>5, <1>6 DEF LedgerInv, Booked

(* Closing a trade books it on the wall clock's date, which is never an     *)
(* earlier one than that of the counters.                                   *)
LEMMA LedgerClose ==
  ASSUME TypeInv, LedgerInv, NEW p \in positions, ClosePosition(p)
  PROVE  LedgerInv'
<1> DEFINE pnl == NetPnl(p, Fill(p, quotes[handling]))
           t == [at |-> wall, closedAt |-> moment, pnl |-> pnl]
<1>1. pnl \in Int
  BY CloseDay
<1> HIDE DEF pnl
<1>2. /\ day' = AfterClose(RolledDay(wall), pnl, wall)
      /\ balance' = balance + pnl
      /\ history' = Append(history, t) /\ wall' = wall
  BY DEF ClosePosition, RecordClose, CloseClock, engineVars, pnl
<1>3. /\ wall \in Nat /\ moment \in Nat /\ history \in Seq(Trade) /\ balance \in Int
      /\ day \in DayStats
  BY DEF TypeInv, TypeOK
<1>4. t \in Trade /\ t.at = wall /\ t.pnl = pnl
  BY <1>1, <1>3 DEF Trade
<1>5. /\ Tells(RolledDay(wall), history) /\ RolledDay(wall).day = Date(wall)
      /\ RolledDay(wall) \in DayStats
  BY <1>3, RolledTells, RolledDayType DEF LedgerInv, Booked, TypeInv
<1>6. Tells(day', history')
  BY <1>1, <1>2, <1>3, <1>5, CloseTells
<1>7. day'.day = Date(wall)
  BY <1>2, <1>5 DEF AfterClose, ArmsCooldown, DayStats
<1> HIDE DEF t
<1>8. balance' = StartBalance + PnlIn(history', DOMAIN history')
  <2>1. DOMAIN history' = DOMAIN history \cup {Len(history) + 1}
    BY <1>2, <1>3
  <2>2. PnlIn(history', DOMAIN history') = PnlIn(history, DOMAIN history) + pnl
    <3>1. PnlIn(Append(history, t), DOMAIN history \cup {Len(history) + 1})
            = PnlIn(history, DOMAIN history) + pnl
      BY <1>3, <1>4, OneMoreTrade
    <3> QED  BY <1>2, <2>1, <3>1
  <2>3. PnlIn(history, DOMAIN history) \in Int
    BY <1>3, HistoryIndices
  <2> QED  BY <1>1, <1>2, <2>2, <2>3, RiskAssumption DEF LedgerInv
<1>9. Booked'
  <2> SUFFICES ASSUME NEW i \in DOMAIN history'
               PROVE  history'[i].at <= wall /\ Date(history'[i].at) <= Date(wall)
    BY <1>2, <1>3, <1>7, DatesRise DEF Booked
  <2>1. CASE i = Len(history) + 1
    <3>1. history'[i] = t
      BY <1>2, <1>3, <2>1
    <3> QED  BY <1>3, <1>4, <3>1, DatesRise
  <2>2. CASE i # Len(history) + 1
    <3>1. i \in DOMAIN history /\ history'[i] = history[i]
      BY <1>2, <1>3, <2>2
    <3>2. history[i].at \in Nat /\ history[i].at <= wall
      BY <1>3, <3>1, HistoryIndices DEF LedgerInv, Booked
    <3> QED  BY <1>3, <3>1, <3>2, DatesRise
  <2> QED  BY <2>1, <2>2
<1> QED  BY <1>6, <1>8, <1>9 DEF LedgerInv

(* Where decisions read the same clock as closes, rolling the day for one   *)
(* never leaves the date of the other.                                      *)
LEMMA LedgerStep ==
  ASSUME Mode = "ema", TypeInv, LedgerInv, [Next]_vars
  PROVE  LedgerInv'
<1>0. wall \in Nat /\ day \in DayStats /\ history \in Seq(Trade)
  BY DEF TypeInv, TypeOK
<1>1. CASE BrokerStep
  BY <1>1, LedgerClose DEF BrokerStep
<1>2. CASE UNCHANGED <<day, balance, history>> /\ wall' \in {wall, wall + 1}
  <2>1. Date(wall) \in Int /\ Date(wall') \in Int /\ Date(wall) <= Date(wall')
    BY <1>0, <1>2, DatesRise
  <2>2. \A i \in DOMAIN history : history[i].at \in Nat
    BY <1>0, HistoryIndices
  <2>3. Booked'
    BY <1>0, <1>2, <2>1, <2>2 DEF LedgerInv, Booked, DayStats
  <2> QED  BY <1>2, <2>3 DEF LedgerInv
<1>3. CASE UNCHANGED <<wall, balance, history>> /\ day' = RolledDay(wall)
  <2>1. Tells(day', history') /\ day'.day = Date(wall)
    BY <1>0, <1>3, RolledTells DEF LedgerInv, Booked, TypeInv
  <2>2. \A i \in DOMAIN history : Date(history[i].at) <= Date(wall)
    <3> SUFFICES ASSUME NEW i \in DOMAIN history PROVE Date(history[i].at) <= Date(wall)
      OBVIOUS
    <3>1. history[i].at \in Nat /\ history[i].at <= wall
      BY <1>0, HistoryIndices DEF LedgerInv, Booked
    <3> QED  BY <1>0, <3>1, DatesRise
  <2>3. Booked'
    BY <1>0, <1>3, <2>1, <2>2, DatesRise DEF LedgerInv, Booked
  <2> QED  BY <1>3, <2>1, <2>3 DEF LedgerInv
<1>4. ASSUME NEW side \in Sides, OpenTrade(side) \/ RefusedByRisk(side)
      PROVE  LedgerInv'
  <2>1. UNCHANGED <<wall, balance, history>> /\ day' = RolledDay(wall)
    BY <1>4 DEF OpenTrade, RefusedByRisk, EndTick, DecisionClock
  <2> QED  BY <1>3, <2>1
<1>5. CASE ~BrokerStep /\ ~ \E side \in Sides : OpenTrade(side) \/ RefusedByRisk(side)
  <2>1. UNCHANGED <<day, balance, history>> /\ wall' \in {wall, wall + 1}
    BY <1>5
    DEF Next, Elapse, FeedTick, Tick, Decide, Skip, NoTrade, BlockedByAnalyst, EndTick,
        AnalystThread, NewsThread, vars, riskVars, engineVars
  <2> QED  BY <1>2, <2>1
<1> QED  BY <1>1, <1>4, <1>5

(* The running counters are what the history of closed trades says, at      *)
(* every state: in EMA mode, whose decisions and closes read one clock.     *)
THEOREM LedgerHolds ==
  ASSUME Mode = "ema"
  PROVE  Spec => []LedgerAgrees
<1>1. LedgerInv => LedgerAgrees
  BY DEF LedgerInv, Tells, LedgerAgrees, PnlOf, PnlIn, TodaysTrades, TradesOn, WonOn
<1>2. TypeInv /\ LedgerInv /\ [Next]_vars => LedgerInv'
  BY LedgerStep
<1> QED  BY <1>1, <1>2, LedgerStart, TypeInvariant, PTL DEF Spec

--------------------------------------------------------------------------------
(* The policy: limits and cooling, worked out afresh from the history.      *)

(* Trade i is a loss that ends a run of them within one day.                *)
EndsRun(h, i) ==
  /\ h[i].pnl < 0
  /\ i >= MaxConsecutiveLosses
  /\ \A j \in (i - MaxConsecutiveLosses + 1)..i :
       h[j].pnl < 0 /\ Date(h[j].at) = Date(h[i].at)

(* The counter of losses in a row is no less than the run the history ends  *)
(* with, and a block lasts as long as the latest run asks for.              *)
RunKept(d, h) ==
  \A k \in 0..Len(h) :
    (\A j \in (Len(h) - k + 1)..Len(h) : h[j].pnl < 0 /\ Date(h[j].at) = d.day)
      => k <= d.consecutiveLosses

CoolingKept(d, h) ==
  \A i \in TradesOn(h, d.day) :
    EndsRun(h, i) => d.blockedUntil # None /\ h[i].at + Cooldown <= d.blockedUntil

LEMMA RolledKeepsRun ==
  ASSUME TypeOK, RunKept(day, history), CoolingKept(day, history),
         NEW now \in Nat, day.day <= Date(now),
         \A i \in DOMAIN history : Date(history[i].at) <= day.day
  PROVE  RunKept(RolledDay(now), history) /\ CoolingKept(RolledDay(now), history)
<1>1. CASE Date(now) = day.day
  BY <1>1 DEF RolledDay
<1>2. CASE Date(now) # day.day
  <2>1. RolledDay(now) = FreshDay(Date(now))
    BY <1>2 DEF RolledDay
  <2>2. /\ day.day \in Int /\ Date(now) \in Int /\ Len(history) \in Nat
        /\ DOMAIN history = 1..Len(history)
    BY DatesRise DEF TypeOK, DayStats
  <2>3. \A i \in DOMAIN history : Date(history[i].at) # Date(now)
    BY <1>2, <2>2
  <2>4. RunKept(RolledDay(now), history)
    <3> SUFFICES ASSUME NEW k \in 0..Len(history),
                        \A j \in (Len(history) - k + 1)..Len(history) :
                          Date(history[j].at) = Date(now)
                 PROVE  k <= 0
      BY <2>1 DEF RunKept, FreshDay
    <3>1. k > 0 => Len(history) \in (Len(history) - k + 1)..Len(history)
                     /\ Len(history) \in DOMAIN history
      BY <2>2
    <3> QED  BY <2>2, <2>3, <3>1
  <2>5. TradesOn(history, Date(now)) = {}
    BY <2>3 DEF TradesOn
  <2> QED  BY <2>1, <2>4, <2>5 DEF CoolingKept, FreshDay
<1> QED  BY <1>1, <1>2

LEMMA CloseKeepsRun ==
  ASSUME NEW d \in DayStats, NEW h \in Seq(Trade), RunKept(d, h), CoolingKept(d, h),
         NEW pnl \in Int, NEW now \in Nat, NEW closedAt \in Nat, Date(now) = d.day,
         \A i \in DOMAIN h : h[i].at <= now
  PROVE  LET e == Append(h, [at |-> now, closedAt |-> closedAt, pnl |-> pnl])
         IN  /\ RunKept(AfterClose(d, pnl, now), e)
             /\ CoolingKept(AfterClose(d, pnl, now), e)
<1> DEFINE t == [at |-> now, closedAt |-> closedAt, pnl |-> pnl]
           e == Append(h, t)
           n == Len(h) + 1
           c == AfterClose(d, pnl, now)
           M == MaxConsecutiveLosses
<1>1. /\ Len(h) \in Nat /\ Len(e) = n /\ e[n] = t
      /\ \A i \in 1..Len(h) : e[i] = h[i] /\ h[i].at \in Nat /\ h[i].at <= now
      /\ DOMAIN h = 1..Len(h) /\ DOMAIN e = 1..n
  <2>1. \A i \in DOMAIN h : h[i].at \in Nat
    BY HistoryIndices
  <2> QED  BY <2>1
<1>2. t.pnl = pnl /\ t.at = now
  OBVIOUS
<1>3. M \in Nat /\ Cooldown \in Nat
  BY RiskAssumption
<1>4. /\ c.day = d.day /\ d.consecutiveLosses \in Nat
      /\ d.blockedUntil # None => d.blockedUntil \in Int
      /\ pnl < 0 => c.consecutiveLosses = d.consecutiveLosses + 1
      /\ c.consecutiveLosses \in Nat
      /\ c.blockedUntil = IF pnl < 0 /\ c.consecutiveLosses >= M
                          THEN now + Cooldown ELSE d.blockedUntil
  BY DEF AfterClose, ArmsCooldown, DayStats
<1> HIDE DEF e, t, c, n
<1>5. RunKept(c, e)
  <2> SUFFICES ASSUME NEW k \in 0..n,
                      \A j \in (n - k + 1)..n : e[j].pnl < 0 /\ Date(e[j].at) = d.day
               PROVE  k <= c.consecutiveLosses
    BY <1>1, <1>4 DEF RunKept
  <2>1. CASE k = 0
    BY <1>4, <2>1
  <2>2. CASE k # 0
    <3>1. n \in (n - k + 1)..n /\ k - 1 \in 0..Len(h)
      BY <1>1, <2>2 DEF n
    <3>2. pnl < 0
      BY <1>1, <1>2, <3>1
    <3>3. ASSUME NEW j \in (Len(h) - (k - 1) + 1)..Len(h)
          PROVE  h[j].pnl < 0 /\ Date(h[j].at) = d.day
      <4>1. j \in (n - k + 1)..n /\ j \in 1..Len(h)
        BY <1>1, <2>2 DEF n
      <4> QED  BY <1>1, <4>1
    <3>4. k - 1 <= d.consecutiveLosses
      BY <3>1, <3>3 DEF RunKept
    <3> QED  BY <1>1, <1>4, <3>1, <3>2, <3>4
  <2> QED  BY <2>1, <2>2
<1>6. CoolingKept(c, e)
  <2> SUFFICES ASSUME NEW i \in 1..n, Date(e[i].at) = d.day, EndsRun(e, i)
               PROVE  c.blockedUntil # None /\ e[i].at + Cooldown <= c.blockedUntil
    BY <1>1, <1>4 DEF CoolingKept, TradesOn
  <2>1. CASE i = n
    <3>1. /\ pnl < 0 /\ M \in 0..n
          /\ \A j \in (n - M + 1)..n : e[j].pnl < 0 /\ Date(e[j].at) = d.day
      BY <1>1, <1>2, <1>3, <2>1 DEF EndsRun, n
    <3>2. M <= c.consecutiveLosses
      BY <1>1, <1>4, <1>5, <3>1 DEF RunKept
    <3>3. c.blockedUntil = now + Cooldown
      BY <1>3, <1>4, <3>1, <3>2
    <3> QED  BY <1>1, <1>2, <1>3, <2>1, <3>3, SpecAssumption
  <2>2. CASE i # n
    <3>1. i \in 1..Len(h) /\ e[i] = h[i] /\ h[i].at \in Nat /\ h[i].at <= now
      BY <1>1, <2>2 DEF n
    <3>2. EndsRun(h, i)
      <4>1. i >= M /\ h[i].pnl < 0
        BY <3>1 DEF EndsRun
      <4>2. ASSUME NEW j \in (i - M + 1)..i
            PROVE  h[j].pnl < 0 /\ Date(h[j].at) = Date(h[i].at)
        <5>1. j \in 1..Len(h)
          BY <1>1, <1>3, <3>1, <4>1
        <5> QED  BY <1>1, <3>1, <5>1 DEF EndsRun
      <4> QED  BY <4>1, <4>2 DEF EndsRun
    <3>3. i \in TradesOn(h, d.day)
      BY <1>1, <3>1 DEF TradesOn
    <3>4. d.blockedUntil # None /\ h[i].at + Cooldown <= d.blockedUntil
      BY <3>2, <3>3 DEF CoolingKept
    <3> QED  BY <1>3, <1>4, <3>1, <3>4, SpecAssumption
  <2> QED  BY <2>1, <2>2
<1> QED  BY <1>5, <1>6 DEF c, e, t

(* The invariant of the refinement: the ledger, the run and the block, and  *)
(* position ids that a new position cannot share.                           *)
PolicyInv ==
  /\ LedgerInv
  /\ RunKept(day, history) /\ CoolingKept(day, history)
  /\ \A p \in positions : p.id <= sequence

LEMMA PolicyStart == Init => PolicyInv
<1> SUFFICES ASSUME Init PROVE PolicyInv
  OBVIOUS
<1>1. history = <<>> /\ positions = {} /\ day = FreshDay(Date(wall))
  BY DEF Init, RiskInit, BrokerInit
<1>2. RunKept(day, history) /\ CoolingKept(day, history)
  <2>1. Len(history) = 0 /\ TradesOn(history, day.day) = {} /\ day.consecutiveLosses = 0
    BY <1>1 DEF TradesOn, FreshDay
  <2> QED  BY <2>1 DEF RunKept, CoolingKept
<1> QED  BY <1>1, <1>2, LedgerStart DEF PolicyInv

(* The day rolled to a date that is not earlier keeps what is known of it.  *)
LEMMA RolledPolicy ==
  ASSUME TypeInv, PolicyInv
  PROVE  /\ RolledDay(wall) \in DayStats /\ RolledDay(wall).day = Date(wall)
         /\ Tells(RolledDay(wall), history)
         /\ RunKept(RolledDay(wall), history) /\ CoolingKept(RolledDay(wall), history)
<1>1. TypeOK /\ wall \in Nat /\ day \in DayStats
  BY DEF TypeInv, TypeOK
<1>2. /\ Tells(day, history) /\ RunKept(day, history) /\ CoolingKept(day, history)
      /\ day.day <= Date(wall)
      /\ \A i \in DOMAIN history : Date(history[i].at) <= day.day
  BY DEF PolicyInv, LedgerInv, Booked
<1> QED  BY <1>1, <1>2, RolledTells, RolledKeepsRun, RolledDayType

(* A position opened takes the next number.                                 *)
LEMMA NextNumber ==
  ASSUME NEW side \in Sides, OpenTrade(side)
  PROVE  \E p : /\ positions' = positions \cup {p} /\ sequence' = p.id
                /\ p.id = sequence + 1
<1> DEFINE p == NewPosition(handling, side, Contracts(RolledDay(DecisionClock), StopDistance),
                            StopDistance, TargetDistance, quotes[handling])
<1>1. positions' = positions \cup {p} /\ sequence' = p.id
  BY DEF OpenTrade, OpenPosition
<1>2. p.id = sequence + 1
  BY DEF NewPosition
<1> QED  BY <1>1, <1>2

LEMMA PolicyStep ==
  ASSUME Mode = "ema", TypeInv, PolicyInv, [Next]_vars
  PROVE  PolicyInv'
<1>0. LedgerInv'
  BY LedgerStep DEF PolicyInv
<1>1. CASE BrokerStep
  <2>1. PICK p \in positions : ClosePosition(p)
    BY <1>1 DEF BrokerStep
  <2> DEFINE pnl == NetPnl(p, Fill(p, quotes[handling]))
             t == [at |-> wall, closedAt |-> moment, pnl |-> pnl]
  <2>2. pnl \in Int
    BY <2>1, CloseDay
  <2> HIDE DEF pnl
  <2>3. /\ day' = AfterClose(RolledDay(wall), pnl, wall)
        /\ history' = Append(history, t)
        /\ positions' \subseteq positions /\ sequence' = sequence
    BY <2>1 DEF ClosePosition, RecordClose, RemovePosition, CloseClock, pnl
  <2>4. /\ wall \in Nat /\ moment \in Nat /\ history \in Seq(Trade)
        /\ \A i \in DOMAIN history : history[i].at <= wall
    BY DEF TypeInv, TypeOK, PolicyInv, LedgerInv, Booked
  <2>5. /\ RunKept(AfterClose(RolledDay(wall), pnl, wall), Append(history, t))
        /\ CoolingKept(AfterClose(RolledDay(wall), pnl, wall), Append(history, t))
    BY <2>2, <2>4, RolledPolicy, CloseKeepsRun
  <2> QED  BY <1>0, <2>3, <2>5 DEF PolicyInv
<1>2. ASSUME NEW side \in Sides, OpenTrade(side) \/ RefusedByRisk(side)
      PROVE  PolicyInv'
  <2>1. UNCHANGED history /\ day' = RolledDay(wall)
    BY <1>2 DEF OpenTrade, RefusedByRisk, DecisionClock
  <2>2. \A p \in positions' : p.id <= sequence'
    <3>1. CASE RefusedByRisk(side)
      BY <3>1 DEF RefusedByRisk, brokerVars, PolicyInv
    <3>2. CASE OpenTrade(side)
      <4>1. PICK p : /\ positions' = positions \cup {p} /\ sequence' = p.id
                     /\ p.id = sequence + 1
        BY <3>2, NextNumber
      <4>2. sequence \in Nat /\ \A q \in positions : q.id \in Nat /\ q.id <= sequence
        BY DEF TypeInv, TypeOK, Position, PolicyInv
      <4> QED  BY <4>1, <4>2
    <3> QED  BY <1>2, <3>1, <3>2
  <2> QED  BY <1>0, <2>1, <2>2, RolledPolicy DEF PolicyInv
<1>3. CASE ~BrokerStep /\ ~ \E side \in Sides : OpenTrade(side) \/ RefusedByRisk(side)
  <2>1. UNCHANGED <<day, history, positions, sequence>>
    BY <1>3
    DEF Next, Elapse, FeedTick, Tick, Decide, Skip, NoTrade, BlockedByAnalyst,
        AnalystThread, NewsThread, vars, riskVars, brokerVars
  <2> QED  BY <1>0, <2>1 DEF PolicyInv
<1> QED  BY <1>1, <1>2, <1>3

LEMMA PolicyDate ==
  ASSUME NEW t
  PROVE  Policy!Date(t) = Date(t)
BY DEF Policy!Date, Date

(* The policy is an instance: its sums and counts are those of this module. *)
LEMMA PolicySums ==
  ASSUME NEW w, NEW S
  PROVE  /\ Policy!SumFunctionOnSet(w, S) = SumFunctionOnSet(w, S)
         /\ Policy!Cardinality(S) = Cardinality(S)
<1>1. Policy!SumFunctionOnSet(w, S) = SumFunctionOnSet(w, S)
  BY DEF Policy!SumFunctionOnSet, Policy!FoldFunctionOnSet, Policy!MapThenFoldSet,
         SumFunctionOnSet, FoldFunctionOnSet, MapThenFoldSet
<1>2. Policy!Cardinality(S) = Cardinality(S)
  BY DEF Policy!Cardinality, Cardinality, Policy!IsFiniteSet, IsFiniteSet
<1> QED  BY <1>1, <1>2

LEMMA PolicyCounts ==
  ASSUME TypeInv, PolicyInv
  PROVE  /\ Policy!Today = TradesOn(history, Date(wall))
         /\ Policy!Realised = RolledDay(wall).realised
         /\ Policy!Cardinality(Policy!Today) = RolledDay(wall).trades
<1>1. Policy!Today = TradesOn(history, Date(wall))
  BY PolicyDate DEF Policy!Today, TradesOn
<1>2. Policy!Realised = PnlIn(history, TradesOn(history, Date(wall)))
  BY <1>1, PolicySums DEF Policy!Realised, PnlIn
<1> QED  BY <1>1, <1>2, PolicySums, RolledPolicy DEF Tells

(* When the code is not cooling down, no run of the history's is.           *)
LEMMA PolicyCools ==
  ASSUME TypeInv, PolicyInv, ~CoolingDown(RolledDay(wall), wall)
  PROVE  ~Policy!CoolingDown
<1> SUFFICES ASSUME NEW i \in TradesOn(history, Date(wall)), Policy!EndsLosingRun(i),
                    wall < history[i].at + Cooldown
             PROVE  FALSE
  BY PolicyCounts DEF Policy!CoolingDown
<1>1. EndsRun(history, i)
  BY PolicyDate DEF Policy!EndsLosingRun, EndsRun
<1>2. /\ RolledDay(wall).blockedUntil # None
      /\ history[i].at + Cooldown <= RolledDay(wall).blockedUntil
  BY <1>1, RolledPolicy DEF CoolingKept
<1>3. wall \in Nat /\ history[i].at \in Nat /\ RolledDay(wall).blockedUntil \in Int
  <2>1. RolledDay(wall) \in DayStats
    BY RolledPolicy
  <2>2. history \in Seq(Trade) /\ i \in DOMAIN history
    BY DEF TypeInv, TypeOK, TradesOn
  <2>3. history[i].at \in Nat
    BY <2>2, HistoryIndices
  <2> QED  BY <1>2, <2>1, <2>3 DEF TypeInv, TypeOK, DayStats
<1> QED  BY <1>2, <1>3, RiskAssumption DEF CoolingDown

LEMMA PolicyOpens ==
  ASSUME Mode = "ema", TypeInv, PolicyInv, NEW side \in Sides, OpenTrade(side)
  PROVE  Policy!Open
<1>1. /\ Allowed(RolledDay(wall), handling, StopDistance, OpenCount, wall)
      /\ UNCHANGED <<wall, history>>
  BY DEF OpenTrade, MayOpen, DecisionClock, EndTick
<1>2. /\ ~CoolingDown(RolledDay(wall), wall)
      /\ ~(RolledDay(wall).realised <= -MaxDailyLoss)
      /\ ~(RolledDay(wall).realised >= MaxDailyProfit)
      /\ ~(RolledDay(wall).trades >= MaxDailyTrades)
      /\ OpenCount < MaxOpenPositions
  BY <1>1 DEF Allowed, LossLimitHit, ProfitTargetHit, TradeCapReached
<1>3. /\ RolledDay(wall).realised \in Int /\ RolledDay(wall).trades \in Nat
      /\ {MaxDailyLoss, MaxDailyProfit, MaxDailyTrades} \subseteq Nat
  BY RolledPolicy, RiskAssumption DEF DayStats
<1>4. OpenCount' = OpenCount + 1
  <2>1. PICK p : positions' = positions \cup {p} /\ p.id = sequence + 1
    BY NextNumber
  <2>2. p \notin positions /\ IsFiniteSet(positions)
    BY <2>1 DEF TypeInv, TypeOK, Position, PolicyInv
  <2> QED  BY <2>1, <2>2, FS_AddElement DEF OpenCount
<1> QED  BY <1>1, <1>2, <1>3, <1>4, PolicyCounts, PolicyCools DEF Policy!Open

LEMMA PolicyCloses ==
  ASSUME TypeInv, NEW p \in positions, ClosePosition(p)
  PROVE  Policy!Close
<1>1. PICK t : history' = Append(history, t) /\ t.at = wall
  BY DEF ClosePosition, RecordClose, CloseClock
<1>2. history \in Seq(Trade) /\ wall' = wall
  BY DEF TypeInv, TypeOK, ClosePosition, engineVars
<1>3. /\ Len(history') = Len(history) + 1
      /\ SubSeq(history', 1, Len(history)) = history
      /\ history'[Len(history')] = t
  BY <1>1, <1>2
<1>4. OpenCount > 0 /\ OpenCount' = OpenCount - 1
  <2>1. OpenCount \in Nat /\ OpenCount # 0
    BY OpenCountType, FS_EmptySet DEF OpenCount, TypeInv, TypeOK
  <2> QED  BY <2>1, CloseCounts DEF ClosePosition, TypeInv
<1> QED  BY <1>1, <1>2, <1>3, <1>4 DEF Policy!Close

LEMMA PolicyNext ==
  ASSUME Mode = "ema", TypeInv, PolicyInv, [Next]_vars
  PROVE  [Policy!Next]_<<wall, history, OpenCount>>
<1>1. CASE BrokerStep
  BY <1>1, PolicyCloses DEF BrokerStep, Policy!Next
<1>2. CASE Elapse
  <2>1. wall' > wall /\ UNCHANGED <<history, OpenCount>>
    BY <1>2 DEF Elapse, riskVars, brokerVars, OpenCount, TypeInv, TypeOK
  <2> QED  BY <2>1 DEF Policy!Next, Policy!Advance
<1>3. ASSUME NEW side \in Sides, OpenTrade(side)
      PROVE  Policy!Next
  BY <1>3, PolicyOpens DEF Policy!Next
<1>4. CASE ~BrokerStep /\ ~Elapse /\ ~ \E side \in Sides : OpenTrade(side)
  <2>1. UNCHANGED <<wall, history, positions>>
    BY <1>4
    DEF Next, FeedTick, Tick, Decide, Skip, NoTrade, BlockedByAnalyst, RefusedByRisk, EndTick,
        AnalystThread, NewsThread, vars, riskVars, brokerVars, engineVars
  <2> QED  BY <2>1 DEF OpenCount
<1> QED  BY <1>1, <1>2, <1>3, <1>4

(* Every step of the engine in EMA mode is a step of the policy or none of  *)
(* its business: a position opens only when the history, read afresh,       *)
(* leaves room in every daily limit and no losing run is cooling.           *)
THEOREM PolicyImplemented ==
  ASSUME Mode = "ema"
  PROVE  Spec => ImplementsPolicy
<1>1. Init => Policy!Init
  BY EngineAssumption, FS_EmptySet
  DEF Init, RiskInit, BrokerInit, OpenCount, Policy!Init
<1>2. TypeInv /\ PolicyInv /\ [Next]_vars => PolicyInv'
  BY PolicyStep
<1>3. TypeInv /\ PolicyInv /\ [Next]_vars => [Policy!Next]_<<wall, history, OpenCount>>
  BY PolicyNext
<1> QED
  BY <1>1, <1>2, <1>3, PolicyStart, TypeInvariant, PTL
  DEF Spec, ImplementsPolicy, Policy!Spec, Policy!policyVars
================================================================================
