---------------------------- MODULE MCTradingEngine ----------------------------
(***************************************************************************)
(* Instances of TradingEngine for TLC, and its refinement of TradingPolicy. *)
(***************************************************************************)
EXTENDS TradingEngine, FiniteSetsExt

(* One high-impact release, and the calendars that may come back.           *)
MCRelease == [when |-> 3, currency |-> "USD", impact |-> "high"]
MCCalendars == {{MCRelease}}
MCNoCalendars == {}
MCCurrencies == [s \in Symbols |-> {"USD"}]

MCNoAnswers == {}
MCAnswers == { [action |-> "trade", bias |-> "neutral"],
               [action |-> "trade", bias |-> "bearish"],
               [action |-> "avoid", bias |-> "neutral"] }

(* Sum of the pnl of the trades with index in I.                            *)
PnlOf(I) == SumFunctionOnSet([i \in DOMAIN history |-> history[i].pnl], I)

(* The trades booked on the day the counters stand for.                     *)
TodaysTrades == {i \in DOMAIN history : Date(history[i].at) = day.day}

(* The running totals of RiskManager are what the trade history says they   *)
(* are: the balance is the whole history, the day's figures its trades of   *)
(* that date (record_close and _roll_day keep them incrementally).          *)
LedgerAgrees ==
  LET wins == {i \in TodaysTrades : history[i].pnl >= 0}
  IN  /\ balance = StartBalance + PnlOf(DOMAIN history)
      /\ day.realised = PnlOf(TodaysTrades)
      /\ day.trades = Cardinality(TodaysTrades)
      /\ day.wins = Cardinality(wins)
      /\ day.losses = day.trades - day.wins
      /\ day.grossProfit = PnlOf(wins)
      /\ day.realised = day.grossProfit - day.grossLoss

Policy == INSTANCE TradingPolicy
  WITH clock <- wall, log <- history, open <- OpenCount

(* Every step of the engine is a step the policy allows, or none of its     *)
(* business: a position opens only when the log of closed trades, read      *)
(* afresh, leaves room in every daily limit and no losing run is cooling.   *)
ImplementsPolicy == Policy!Spec

(* The daily loss limit of the calendar day a decision is taken for: no     *)
(* position is opened on a day whose closed trades have lost the limit.     *)
LossesOnDay(d) == PnlOf({i \in DOMAIN history : Date(history[i].closedAt) = d})

LossLimitStopsTheDay ==
  [][sequence' # sequence => LossesOnDay(Date(DecisionClock)) > -MaxDailyLoss]_vars

(* A position opens inside the blackout window of release r, on a symbol it *)
(* matters to, though a calendar has been loaded.                           *)
OpensInBlackout(r) ==
  /\ sequence' # sequence /\ loaded
  /\ r.currency \in Currencies[handling]
  /\ r.when - NewsBefore <= DecisionClock
  /\ DecisionClock <= r.when + NewsAfter

(* Once a calendar has been loaded no position opens inside the blackout    *)
(* window of a release it lists, however often a later refresh fails.       *)
BlackoutHonoured == [][~OpensInBlackout(MCRelease)]_vars
===============================================================================
