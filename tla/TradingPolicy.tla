----------------------------- MODULE TradingPolicy -----------------------------
(***************************************************************************)
(* What the risk layer promises, with no counters to keep in step: the     *)
(* state is the log of closed trades and how many positions are open, and  *)
(* every limit is worked out afresh from the log.  core/risk.py keeps      *)
(* running totals that are zeroed when the date changes; that they always  *)
(* agree with this log is what TradingEngine is checked to implement.      *)
(***************************************************************************)
EXTENDS Integers, Sequences, FiniteSets, FiniteSetsExt

CONSTANTS
  DayLength, MaxDailyLoss, MaxDailyProfit, MaxDailyTrades,
  MaxConsecutiveLosses, MaxOpenPositions, Cooldown

VARIABLES
  clock,
  log,      (* the closed trades, each with its booking time `at` and `pnl`  *)
  open      (* how many positions are open                                   *)

policyVars == <<clock, log, open>>

Date(t) == t \div DayLength

Today == {i \in DOMAIN log : Date(log[i].at) = Date(clock)}

Realised == SumFunctionOnSet([i \in DOMAIN log |-> log[i].pnl], Today)

(* Trade i is a loss, and ends a run of MaxConsecutiveLosses of them within *)
(* one day.                                                                 *)
EndsLosingRun(i) ==
  /\ log[i].pnl < 0
  /\ i >= MaxConsecutiveLosses
  /\ \A j \in (i - MaxConsecutiveLosses + 1)..i :
       log[j].pnl < 0 /\ Date(log[j].at) = Date(log[i].at)

CoolingDown ==
  \E i \in Today : EndsLosingRun(i) /\ clock < log[i].at + Cooldown

Init == clock \in Nat /\ log = <<>> /\ open = 0

Advance == clock' > clock /\ UNCHANGED <<log, open>>

Open ==
  /\ -MaxDailyLoss < Realised /\ Realised < MaxDailyProfit
  /\ Cardinality(Today) < MaxDailyTrades
  /\ open < MaxOpenPositions
  /\ ~CoolingDown
  /\ open' = open + 1
  /\ UNCHANGED <<clock, log>>

Close ==
  /\ open > 0
  /\ open' = open - 1
  /\ Len(log') = Len(log) + 1
  /\ SubSeq(log', 1, Len(log)) = log
  /\ log'[Len(log')].at = clock
  /\ UNCHANGED clock

Next == Advance \/ Open \/ Close

Spec == Init /\ [][Next]_policyVars
===============================================================================
