------------------------------ MODULE PaperBroker ------------------------------
(***************************************************************************)
(* core/broker.py, class PaperBroker: local fills against the quote        *)
(* stream.  A quote is [bid, ask]; positions is the dict of open positions *)
(* as a set of records, in insertion order by id.                          *)
(***************************************************************************)
EXTENDS SymbolSpec, FiniteSets

CONSTANTS
  CommissionPerContract,
  Slippage,        (* slippage_price: paid on entry                         *)
  StopSlippage     (* stop_slippage_price: paid when a stop fills           *)

ASSUME BrokerAssumption ==
  {CommissionPerContract, Slippage, StopSlippage} \subseteq Nat

VARIABLES
  positions,
  sequence         (* _sequence: the number of the last position opened     *)

brokerVars == <<positions, sequence>>

Sides == {"BUY", "SELL"}

OpenCount == Cardinality(positions)

BrokerInit == positions = {} /\ sequence = 0

(* Buy pays the ask, sell receives the bid; the bracket hangs off the entry. *)
NewPosition(s, side, volume, stop, target, quote) ==
  LET buy   == side = "BUY"
      entry == IF buy THEN quote.ask + Slippage ELSE quote.bid - Slippage
  IN  [ id |-> sequence + 1, symbol |-> s, side |-> side, volume |-> volume,
        entry      |-> entry,
        stopLoss   |-> IF buy THEN entry - stop ELSE entry + stop,
        takeProfit |-> IF buy THEN entry + target ELSE entry - target,
        commission |-> CommissionPerContract * volume ]

OpenPosition(p) ==
  /\ positions' = positions \cup {p}
  /\ sequence' = p.id

(* A long is closed at the bid, a short at the ask.                         *)
ExitPrice(p, quote) == IF p.side = "BUY" THEN quote.bid ELSE quote.ask

(* A stop that is only hit by a price beyond it.                            *)
StopPassed(p, quote) ==
  IF p.side = "BUY" THEN ExitPrice(p, quote) < p.stopLoss
                    ELSE ExitPrice(p, quote) > p.stopLoss

StopHit(p, quote) ==
  IF p.side = "BUY" THEN ExitPrice(p, quote) <= p.stopLoss
                    ELSE ExitPrice(p, quote) >= p.stopLoss

TargetHit(p, quote) ==
  IF p.side = "BUY" THEN ExitPrice(p, quote) >= p.takeProfit
                    ELSE ExitPrice(p, quote) <= p.takeProfit

Hit(p, quote) == StopHit(p, quote) \/ TargetHit(p, quote)

(* The stop is tested first and fills at the worse of the level and the     *)
(* price; a target fills at its own level.                                  *)
Fill(p, quote) ==
  IF ~StopHit(p, quote) THEN p.takeProfit
  ELSE IF p.side = "BUY"
       THEN Lesser(ExitPrice(p, quote), p.stopLoss) - StopSlippage
       ELSE Greater(ExitPrice(p, quote), p.stopLoss) + StopSlippage

NetPnl(p, fill) == Pnl(p.volume, p.entry, fill, p.side = "BUY") - p.commission

(* A walk that ends at the first position the quote does not close.         *)
OldestIfHit(s, quote) ==
  {p \in positions : /\ p.symbol = s /\ Hit(p, quote)
                     /\ \A q \in positions : q.symbol = s => p.id <= q.id}

(* The positions of a symbol this quote closes, first opened first.         *)
HitPositions(s, quote) == {p \in positions : p.symbol = s /\ Hit(p, quote)}

NextHit(s, quote) ==
  {p \in HitPositions(s, quote) : \A q \in HitPositions(s, quote) : p.id <= q.id}

RemovePosition(p) ==
  /\ positions' = positions \ {p}
  /\ UNCHANGED sequence
===============================================================================
