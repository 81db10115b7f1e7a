------------------------------ MODULE SymbolSpec ------------------------------
(***************************************************************************)
(* core/symbols.py, class SymbolSpec: the whole-contract arithmetic every  *)
(* risk and P&L number of the engine goes through.  Distances and prices   *)
(* are whole ticks, money is in units of the value of one tick of a        *)
(* contract with Multiplier 1, so the floats of the code are integers here *)
(* and `round` to `digits` is exact.                                       *)
(***************************************************************************)
EXTENDS Integers

CONSTANTS
  Symbols,         (* the contracts registered for this run                *)
  None,            (* Python's None                                         *)
  Multiplier,      (* money per tick of price, per contract                 *)
  MinContracts,    (* smallest order                                        *)
  MaxContracts,    (* largest order, 0 = no local cap                       *)
  StepContracts    (* order sizes are multiples of this; 0 counts as 1      *)

ASSUME SpecAssumption ==
  /\ None \notin Int /\ None \notin Symbols
  /\ Multiplier \in Nat \ {0}
  /\ MinContracts \in Nat
  /\ MaxContracts \in Nat
  /\ StepContracts \in Nat

Abs(x) == IF x < 0 THEN -x ELSE x

Lesser(x, y)  == IF x <= y THEN x ELSE y
Greater(x, y) == IF x >= y THEN x ELSE y

Step == IF StepContracts = 0 THEN 1 ELSE StepContracts

(* Round down to the step; 0 means "below the minimum".                     *)
SnapVolume(volume) ==
  LET snapped == (volume \div Step) * Step
  IN  IF snapped < MinContracts THEN 0
      ELSE IF MaxContracts # 0 /\ snapped > MaxContracts
           THEN (MaxContracts \div Step) * Step
           ELSE snapped

PerContract(stop) == stop * Multiplier

(* Largest contract count whose loss at `stop` stays under `risk`.          *)
VolumeForRisk(risk, stop) ==
  IF stop <= 0 \/ risk <= 0 THEN 0
  ELSE SnapVolume(risk \div PerContract(stop))

RiskForVolume(volume, stop) == volume * Abs(stop) * Multiplier

Pnl(volume, entry, exit, isBuy) ==
  (IF isBuy THEN exit - entry ELSE entry - exit) * volume * Multiplier
===============================================================================
