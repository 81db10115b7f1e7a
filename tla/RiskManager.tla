------------------------------ MODULE RiskManager ------------------------------
(***************************************************************************)
(* core/risk.py: sizing and the daily circuit breakers.  RiskManager is    *)
(* passive: its operations are actions taken by the caller's thread, with  *)
(* the caller's idea of `now` as a parameter.                              *)
(*                                                                         *)
(* Time is a natural number of ticks of some unit; Date maps it to a UTC   *)
(* day.                                                                    *)
(***************************************************************************)
EXTENDS SymbolSpec, Sequences

CONSTANTS
  ProductionSymbols,     (* the keys of settings.symbols                    *)
  MinSeconds,            (* min_seconds_between_trades of a production symbol *)
  RiskPerTrade,
  MaxDailyLoss,          (* the code takes abs() of this and the next       *)
  MaxDailyProfit,
  MaxDailyTrades,
  MaxConsecutiveLosses,
  MaxOpenPositions,
  Cooldown,              (* cooldown_after_losses_minutes                   *)
  StartBalance,
  DayLength              (* length of a UTC day                             *)

ASSUME RiskAssumption ==
  /\ RiskPerTrade \in Int
  /\ {MinSeconds, MaxDailyLoss, MaxDailyProfit, MaxDailyTrades, Cooldown} \subseteq Nat
  /\ {MaxOpenPositions, MaxConsecutiveLosses} \subseteq Nat
  /\ StartBalance \in Int
  /\ DayLength \in Nat \ {0}

VARIABLES
  day,           (* DayStats                                                *)
  balance,
  lastTradeAt,   (* _last_trade_at: symbol -> time of the last open or None *)
  history        (* one record per closed trade                             *)

riskVars == <<day, balance, lastTradeAt, history>>

Date(t) == t \div DayLength

DayStats ==
  [ day : Int, realised : Int, trades : Nat, wins : Nat, losses : Nat,
    consecutiveLosses : Nat, blockedUntil : Int \cup {None},
    grossProfit : Nat, grossLoss : Nat ]

FreshDay(d) ==
  [ day |-> d, realised |-> 0, trades |-> 0, wins |-> 0, losses |-> 0,
    consecutiveLosses |-> 0, blockedUntil |-> None,
    grossProfit |-> 0, grossLoss |-> 0 ]

RiskInit(now) ==
  /\ day = FreshDay(Date(now))
  /\ balance = StartBalance
  /\ lastTradeAt = [s \in Symbols |-> None]
  /\ history = <<>>

--------------------------------------------------------------------------------

(* A rollover that keeps the counters of the day before.                    *)
RolledDayKept(now) == [day EXCEPT !.day = Date(now)]

(* _roll_day: any change of date, forward or back, starts from zero.        *)
RolledDay(now) == IF Date(now) # day.day THEN FreshDay(Date(now)) ELSE day

CoolingDown(d, now) == d.blockedUntil # None /\ now < d.blockedUntil

(* The minimum is read from settings.symbols, whatever pool is running.     *)
MinimumWait(s) == IF s \in ProductionSymbols THEN MinSeconds ELSE 0

TooSoon(s, now) == lastTradeAt[s] # None /\ now - lastTradeAt[s] < MinimumWait(s)

(* A budget that forgets what the day has lost.                             *)
BudgetPerTrade(d) == RiskPerTrade

Budget(d) == Lesser(RiskPerTrade, MaxDailyLoss + d.realised)

Contracts(d, stop) == VolumeForRisk(Budget(d), stop)

LossLimitHit(d) == d.realised <= -MaxDailyLoss

(* A profit target that is never read.                                      *)
ProfitTargetIgnored(d) == FALSE

ProfitTargetHit(d) == d.realised >= MaxDailyProfit

(* A cap that lets one trade too many through.                              *)
TradeCapOffByOne(d) == d.trades > MaxDailyTrades

TradeCapReached(d) == d.trades >= MaxDailyTrades

(* can_trade: every gate, in the code's order, on the day it has just       *)
(* rolled to.  A refusal is the negation; its wording is left out.          *)
Allowed(d, s, stop, open, now) ==
  /\ ~CoolingDown(d, now)
  /\ ~LossLimitHit(d)
  /\ ~ProfitTargetHit(d)
  /\ ~TradeCapReached(d)
  /\ open < MaxOpenPositions
  /\ ~TooSoon(s, now)
  /\ stop > 0
  /\ Budget(d) > 0
  /\ Contracts(d, stop) > 0
  /\ 20 * RiskForVolume(Contracts(d, stop), stop) <= 21 * RiskPerTrade

RecordOpen(s, now) == lastTradeAt' = [lastTradeAt EXCEPT ![s] = now]

(* A losing run that arms the cooldown one loss too late.                   *)
ArmsCooldownLate(run) == run > MaxConsecutiveLosses

ArmsCooldown(run) == run >= MaxConsecutiveLosses

(* A close that adds a loss to grossLoss with its sign.                     *)
AfterCloseSigned(d, pnl, now) ==
  LET run == IF pnl >= 0 THEN 0 ELSE d.consecutiveLosses + 1
  IN  [ d EXCEPT
          !.realised = @ + pnl, !.trades = @ + 1,
          !.wins = @ + (IF pnl >= 0 THEN 1 ELSE 0),
          !.losses = @ + (IF pnl < 0 THEN 1 ELSE 0),
          !.grossProfit = @ + (IF pnl >= 0 THEN pnl ELSE 0),
          !.grossLoss = @ + (IF pnl < 0 THEN pnl ELSE 0),
          !.consecutiveLosses = run,
          !.blockedUntil = IF pnl < 0 /\ ArmsCooldown(run)
                           THEN now + Cooldown ELSE @ ]

(* record_close's update of the day's counters.                             *)
AfterClose(d, pnl, now) ==
  LET run == IF pnl >= 0 THEN 0 ELSE d.consecutiveLosses + 1
  IN  [ d EXCEPT
          !.realised = @ + pnl, !.trades = @ + 1,
          !.wins = @ + (IF pnl >= 0 THEN 1 ELSE 0),
          !.losses = @ + (IF pnl < 0 THEN 1 ELSE 0),
          !.grossProfit = @ + (IF pnl >= 0 THEN pnl ELSE 0),
          !.grossLoss = @ + (IF pnl < 0 THEN -pnl ELSE 0),
          !.consecutiveLosses = run,
          !.blockedUntil = IF pnl < 0 /\ ArmsCooldown(run)
                           THEN now + Cooldown ELSE @ ]

(* record_close, and the journal row of the same trade: `closedAt` is the   *)
(* time of the tick that closed it, which only the journal keeps.           *)
RecordClose(pnl, now, closedAt) ==
  /\ day' = AfterClose(RolledDay(now), pnl, now)
  /\ balance' = balance + pnl
  /\ history' = Append(history, [at |-> now, closedAt |-> closedAt, pnl |-> pnl])
===============================================================================
