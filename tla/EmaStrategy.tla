------------------------------ MODULE EmaStrategy ------------------------------
(***************************************************************************)
(* core/strategy.py, Strategy.evaluate and read_trend: one reading of the  *)
(* market scored against the trend of two slower timeframes.  Indicator    *)
(* values are inputs; ratios, score and confidence are in hundredths.      *)
(***************************************************************************)
EXTENDS Integers, Sequences

CONSTANTS
  Readings,          (* what the market may look like                       *)
  MinBars,           (* MIN_BARS                                            *)
  MaxSpread,         (* config.max_spread, 0 for none                       *)
  TargetDistance,    (* config.target_distance                              *)
  MinConfidence,     (* config.min_confidence                               *)
  FlatTrend          (* FLAT_TREND                                          *)

SlowFrame == [bars : Nat, gap : Int, atr : Nat]

(* ticked and bars say how much has been seen; confirms are the two slower   *)
(* timeframes; entryGap is fast less slow EMA and away price less fast EMA. *)
ReadingType ==
  [ ticked : BOOLEAN, bars : Nat, confirms : SlowFrame \X SlowFrame,
    entryGap : Int, away : Int, atr : Nat, rsi : Int, hasDepth : BOOLEAN,
    imbalance : Int, momentum : Int, spread : Nat, median : Nat ]

ASSUME StrategyAssumption ==
  /\ {MinBars, MaxSpread, TargetDistance, MinConfidence, FlatTrend} \subseteq Nat
  /\ \A r \in Readings : r \in ReadingType

VARIABLES reading, signal

strategyVars == <<reading, signal>>

NoSignal == [direction |-> "FLAT", score |-> 0, vetoes |-> {"not evaluated"}]

StrategyInit == reading \in Readings /\ signal = NoSignal

Magnitude(x) == IF x < 0 THEN -x ELSE x
AtMost(x, bound) == IF x > bound THEN bound ELSE IF x < -bound THEN -bound ELSE x

(* read_trend: the EMA gap of a timeframe in its own ATR.                   *)
Separation(tf) == IF tf.atr = 0 THEN 0 ELSE (100 * Magnitude(tf.gap)) \div tf.atr

Direction(tf) ==
  IF Separation(tf) < FlatTrend THEN 0 ELSE IF tf.gap > 0 THEN 1 ELSE -1

WarmingUp(r) == r.bars < MinBars \/ \E i \in {1, 2} : r.confirms[i].bars < MinBars
NoTrend(r)   == \E i \in {1, 2} : Direction(r.confirms[i]) = 0
Disagree(r)  == Direction(r.confirms[1]) # Direction(r.confirms[2])

Allowed(r) == Direction(r.confirms[1])
SideOf(direction) == IF direction > 0 THEN "BUY" ELSE "SELL"

(* The hard vetoes.  A spread within max_spread may still be too wide for   *)
(* its own median.                                                          *)
WideSpread(r) ==
  \/ MaxSpread # 0 /\ r.spread > MaxSpread
  \/ r.median > 0 /\ 2 * r.spread > 5 * r.median

TooQuiet(r) == r.atr > 0 /\ TargetDistance > 6 * r.atr

Costly(r) == TargetDistance # 0 /\ 100 * r.spread > 35 * TargetDistance

HardVetoes(r) ==
  {v \in {"spread", "quiet", "cost"} :
     \/ v = "spread" /\ WideSpread(r)
     \/ v = "quiet" /\ TooQuiet(r)
     \/ v = "cost" /\ Costly(r)}

(* The parts of the score.                                                  *)
Conviction(r) ==
  30 * Allowed(r) * AtMost((Separation(r.confirms[1]) + Separation(r.confirms[2])) \div 2, 100)

Stretch(r) == IF r.atr = 0 THEN 0 ELSE (100 * r.away) \div r.atr

(* A pullback that is rewarded and an extension that is not punished.       *)
PullbackOnly(r) ==
  LET stretch == Allowed(r) * Stretch(r)
  IN  IF -120 <= stretch /\ stretch <= 35 THEN 3500 * Allowed(r) ELSE 0

(* Price back near the fast EMA is rewarded, price run away from it punished. *)
Pullback(r) ==
  LET stretch == Allowed(r) * Stretch(r)
  IN  IF -120 <= stretch /\ stretch <= 35 THEN 3500 * Allowed(r)
      ELSE IF stretch > 150 THEN -2500 * Allowed(r)
      ELSE 0

Exhaustion(r) == IF r.rsi >= 75 THEN -2000 ELSE IF r.rsi <= 25 THEN 2000 ELSE 0

Pressure(r) == IF r.hasDepth THEN 10 * AtMost(r.imbalance, 100) ELSE 0

Momentum(r) == IF r.atr > 0 THEN 5 * AtMost((100 * r.momentum) \div r.atr, 100) ELSE 0

Score(r) ==
  AtMost(Conviction(r) + Pullback(r) + Exhaustion(r) + Pressure(r) + Momentum(r), 10000)

Flat(vetoes) == [direction |-> "FLAT", score |-> 0, vetoes |-> vetoes]

(* The verdict without the last check of the side.                          *)
ScoredUnchecked(r) ==
  LET score == Score(r)
  IN  IF Magnitude(score) < 3000
      THEN [Flat(HardVetoes(r) \cup {"weak"}) EXCEPT !.score = score]
      ELSE [ direction |-> SideOf(score), score |-> score,
             vetoes |-> HardVetoes(r)
               \cup {v \in {"confidence"} : Magnitude(score) < 100 * MinConfidence} ]

(* From the score on: a threshold, then the side and the confidence.        *)
Scored(r) ==
  LET score == Score(r)
  IN  IF Magnitude(score) < 3000
      THEN [Flat(HardVetoes(r) \cup {"weak"}) EXCEPT !.score = score]
      ELSE [ direction |-> SideOf(score), score |-> score,
             vetoes |-> HardVetoes(r)
               \cup {v \in {"side"} : SideOf(score) # SideOf(Allowed(r))}
               \cup {v \in {"confidence"} : Magnitude(score) < 100 * MinConfidence} ]

(* The early returns of evaluate, in order.                                 *)
Verdict(r) ==
  IF ~r.ticked THEN Flat({"no ticks"})
  ELSE IF WarmingUp(r) THEN Flat({"warming up"})
  ELSE IF NoTrend(r) THEN Flat({"no trend"})
  ELSE IF Disagree(r) THEN Flat({"disagree"})
  ELSE IF (Allowed(r) > 0) # (r.entryGap > 0) THEN Flat(HardVetoes(r) \cup {"opposed"})
  ELSE Scored(r)

Evaluate == signal' = Verdict(reading) /\ UNCHANGED reading

StrategySpec == StrategyInit /\ [][Evaluate]_strategyVars

Tradable == signal.direction # "FLAT" /\ signal.vetoes = {}

--------------------------------------------------------------------------------
(* Properties.                                                              *)

StrategyTypeOK ==
  /\ signal.direction \in {"FLAT", "BUY", "SELL"}
  /\ signal.score \in Int /\ Magnitude(signal.score) <= 10000

(* However the soft parts of the score add up (exhaustion, book and momentum *)
(* can outweigh a weak trend and turn its sign), a tradable signal goes the *)
(* way both slower timeframes and the entry timeframe do.                   *)
OnlyWithTheTrend ==
  Tradable =>
    /\ \A i \in {1, 2} : Direction(reading.confirms[i]) # 0
                         /\ signal.direction = SideOf(Direction(reading.confirms[i]))
    /\ signal.direction = SideOf(reading.entryGap)

(* A market that has run more than one and a half ATR away from its EMA is  *)
(* not chased: no sum of conviction, book and momentum makes up for the     *)
(* penalty, unless the RSI says the move is exhausted the other way.        *)
NoChasing ==
  Tradable /\ Allowed(reading) * Stretch(reading) > 150 =>
    Allowed(reading) * Exhaustion(reading) > 0
================================================================================
