----------------------------- MODULE TripleBarrier -----------------------------
(***************************************************************************)
(* triple_barrier.py: each feature row is labelled by what a trade entered *)
(* at its bar close would have met first, target, stop or time.  The ticks *)
(* keep being recorded, and labelling is run again on the longer path.     *)
(***************************************************************************)
EXTENDS Integers, Sequences, FiniteSets

CONSTANTS
  Entries,       (* bar closes: timestamps of the feature rows              *)
  Hold,          (* --max-hold                                              *)
  Target, Stop,  (* --target, --stop                                        *)
  Quotes,        (* [bid, ask] a tick may carry                             *)
  Gaps,          (* times between one tick and the next                     *)
  MaxPath        (* bound: ticks recorded                                   *)

ASSUME BarrierAssumption ==
  /\ Entries \subseteq Nat /\ Hold \in Nat /\ MaxPath \in Nat
  /\ Target \in Nat \ {0} /\ Stop \in Nat \ {0}
  /\ Gaps \subseteq Nat
  /\ \A q \in Quotes : q.bid \in Int /\ q.ask \in Int /\ q.bid <= q.ask

VARIABLE path    (* the recorded ticks: [when, bid, ask]                    *)

WIN == 1
TIMEOUT == 0
LOSS == -1
BUY == 1
WAIT == 0
SELL == -1

BarrierInit == path = <<>>

Latest(p) == IF p = <<>> THEN 0 ELSE p[Len(p)].when

Record(quote, gap) ==
  /\ Len(path) < MaxPath
  /\ path' = Append(path, [when |-> Latest(path) + gap,
                           bid |-> quote.bid, ask |-> quote.ask])

BarrierNext == \E quote \in Quotes, gap \in Gaps : Record(quote, gap)

BarrierSpec == BarrierInit /\ [][BarrierNext]_path

--------------------------------------------------------------------------------
(* The labels of a row.                                                     *)

(* searchsorted left and right: the ticks inside the time barrier.          *)
Observed(row) == {i \in DOMAIN path : row <= path[i].when /\ path[i].when <= row + Hold}

First(I) == CHOOSE i \in I : \A j \in I : i <= j
Final(I) == CHOOSE i \in I : \A j \in I : j <= i

(* _resolve that asks whether the target was met and not what came first.   *)
ResolveUnordered(targets, stops) ==
  IF targets # {} THEN WIN ELSE IF stops # {} THEN LOSS ELSE TIMEOUT

(* _resolve: whichever barrier came first; a tie is a loss, though one price *)
(* is never both above the target and below the stop.                       *)
Resolve(targets, stops) ==
  IF targets # {} /\ (stops = {} \/ First(targets) < First(stops)) THEN WIN
  ELSE IF stops # {} THEN LOSS ELSE TIMEOUT

(* The second component of _resolve: ticks until the barrier.               *)
HeldFor(targets, stops, I) ==
  IF targets \cup stops = {} THEN Cardinality(I)
  ELSE First(targets \cup stops) - First(I)

(* _pnl: a timeout exits at the market.                                     *)
PnlOf(outcome, market) ==
  CASE outcome = WIN -> Target [] outcome = LOSS -> -Stop [] OTHER -> market

Outcome(targets, stops, I, market) ==
  LET outcome == Resolve(targets, stops)
  IN  [outcome |-> outcome, ticks |-> HeldFor(targets, stops, I),
       pnl |-> PnlOf(outcome, market)]

Unseen == [outcome |-> TIMEOUT, ticks |-> 0, pnl |-> 0]

(* A stop met only by a price beyond it.                                    *)
LongStopsPassed(I) == {i \in I : path[i].bid < path[First(I)].ask - Stop}

(* A long pays the ask and is closed at the bid ...                         *)
LongTargets(I) == {i \in I : path[i].bid >= path[First(I)].ask + Target}
LongStops(I)   == {i \in I : path[i].bid <= path[First(I)].ask - Stop}

LongOf(row) ==
  LET I == Observed(row)
  IN  IF I = {} THEN Unseen
      ELSE Outcome(LongTargets(I), LongStops(I), I,
                   path[Final(I)].bid - path[First(I)].ask)

(* ... and a short the reverse.                                             *)
ShortTargets(I) == {i \in I : path[i].ask <= path[First(I)].bid - Target}
ShortStops(I)   == {i \in I : path[i].ask >= path[First(I)].bid + Stop}

ShortOf(row) ==
  LET I == Observed(row)
  IN  IF I = {} THEN Unseen
      ELSE Outcome(ShortTargets(I), ShortStops(I), I,
                   path[First(I)].bid - path[Final(I)].ask)

(* tb_truncated judged by whether the row was entered.                      *)
TruncatedByEntry(row) == row > Latest(path)

(* tb_truncated: the window runs past the end of the data.                  *)
Truncated(row) == row + Hold > Latest(path)

(* tb_label: a side wins alone.                                             *)
Label(row) ==
  LET long  == LongOf(row).outcome = WIN
      short == ShortOf(row).outcome = WIN
  IN  IF long /\ ~short THEN BUY ELSE IF short /\ ~long THEN SELL ELSE WAIT

(* tb_label_pnl: the side that made more money, if either did.              *)
LabelPnl(row) ==
  LET long  == LongOf(row).pnl
      short == ShortOf(row).pnl
  IN  IF short > 0 /\ short > long THEN SELL
      ELSE IF long > 0 /\ long >= short THEN BUY ELSE WAIT

Labelled(row) ==
  [long |-> LongOf(row), short |-> ShortOf(row),
   label |-> Label(row), byPnl |-> LabelPnl(row)]

--------------------------------------------------------------------------------
(* Properties.                                                              *)

QuotedTick == [when : Nat, bid : Int, ask : Int]

BarrierTypeOK == path \in Seq(QuotedTick)

(* A row that was observed for its whole window keeps its labels however    *)
(* much is recorded afterwards, unless a tick carries the very timestamp of *)
(* its time barrier: labels of the usable rows do not depend on when the    *)
(* script was run (the truncation test in main).                            *)
LabelsFinal ==
  [][\A row \in Entries :
       ~Truncated(row) /\ Latest(path') # row + Hold =>
         Labelled(row)' = Labelled(row)]_path

BothWin(row) == LongOf(row).outcome = WIN /\ ShortOf(row).outcome = WIN

(* For a stop no farther than the target long and short never both win, on  *)
(* any path of quotes, which is why tb_label may ignore the case.  The      *)
(* comment above tb_label asks only for a target above the spread: with a   *)
(* stop far enough away that is not sufficient.                             *)
NeverBothWin ==
  Stop <= Target =>
    \A row \in Entries : ~BothWin(row)

(* The paper broker of core/broker.py on the same ticks, free of charge.    *)
Broker == INSTANCE PaperBroker WITH
  positions <- {}, sequence <- 0, CommissionPerContract <- 0,
  Slippage <- 0, StopSlippage <- 0, Symbols <- {}, None <- "None",
  Multiplier <- 1, MinContracts <- 1, MaxContracts <- 0, StepContracts <- 1

(* What it makes of a trade entered at the row's first tick: it looks at    *)
(* later ticks only, and a stop fills at the worse of level and price.      *)
BrokerOutcome(row, side) ==
  LET I    == Observed(row)
      p    == Broker!NewPosition("row", side, 1, Stop, Target, path[First(I)])
      hits == {i \in I \ {First(I)} : Broker!Hit(p, path[i])}
  IN  IF hits = {} THEN TIMEOUT
      ELSE IF Broker!StopHit(p, path[First(hits)]) THEN LOSS ELSE WIN

(* The label says what the paper broker would have done with the trade, on  *)
(* either side, whenever the spread at the entry is less than the stop: the *)
(* model is trained on the outcomes the engine's fills produce.             *)
LabelsMatchBroker ==
  \A row \in Entries :
    LET I == Observed(row)
    IN  I # {} /\ path[First(I)].ask - path[First(I)].bid < Stop =>
          /\ LongOf(row).outcome = BrokerOutcome(row, "BUY")
          /\ ShortOf(row).outcome = BrokerOutcome(row, "SELL")
================================================================================
