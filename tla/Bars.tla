---------------------------------- MODULE Bars ----------------------------------
(***************************************************************************)
(* core/marketdata.py, class SymbolState: the ticks of one symbol folded   *)
(* into bars of several timeframes at once.  Every series is a deque with  *)
(* a maximal length, so the oldest bars are forgotten.                     *)
(*                                                                         *)
(* A tick is its time in seconds and its mid price.                        *)
(***************************************************************************)
EXTENDS Integers, Sequences

CONSTANTS
  Timeframes,    (* the periods, in seconds                                 *)
  MaxTicks,      (* max_ticks                                               *)
  MaxBars,       (* max_bars                                                *)
  Prices,        (* mid prices of a tick                                    *)
  LastTime,      (* bound: the clock of the feed                            *)
  MaxFed         (* bound: ticks fed in a behaviour                         *)

ASSUME BarsAssumption ==
  /\ Timeframes \subseteq Nat \ {0}
  /\ MaxTicks \in Nat \ {0} /\ MaxBars \in Nat \ {0}
  /\ Prices \subseteq Int
  /\ LastTime \in Nat /\ MaxFed \in Nat

VARIABLES
  ticks,         (* deque of ticks                                          *)
  series,        (* period -> deque of bars                                 *)
  fed            (* how many ticks have been fed                            *)

barsVars == <<ticks, series, fed>>

Tick == [when : Int, price : Int]

Bar == [start : Int, open : Int, high : Int, low : Int, close : Int, ticks : Nat]

Newest(s) == s[Len(s)]

(* A deque without a maximal length.                                        *)
AppendedAll(s, x, limit) == Append(s, x)

(* A deque(maxlen): the append that finds it full drops the oldest.         *)
Appended(s, x, limit) == IF Len(s) < limit THEN Append(s, x) ELSE Tail(Append(s, x))

Bucket(when, period) == when - (when % period)

(* Bar.update without the low.                                              *)
UpdatedHigh(bar, price) ==
  [bar EXCEPT !.high = IF price > @ THEN price ELSE @,
              !.close = price, !.ticks = @ + 1]

Updated(bar, price) ==
  [bar EXCEPT !.high = IF price > @ THEN price ELSE @,
              !.low = IF price < @ THEN price ELSE @,
              !.close = price, !.ticks = @ + 1]

FirstOf(start, price) ==
  [start |-> start, open |-> price, high |-> price, low |-> price,
   close |-> price, ticks |-> 1]

(* A roll that opens a bar for every tick with a time of its own.           *)
RolledByTime(bars, period, tick) ==
  IF bars # <<>> /\ Newest(bars).start = tick.when
  THEN [bars EXCEPT ![Len(bars)] = Updated(@, tick.price)]
  ELSE Appended(bars, FirstOf(tick.when, tick.price), MaxBars)

(* _roll: only the newest bar is ever looked at.                            *)
Rolled(bars, period, tick) ==
  LET start == Bucket(tick.when, period)
  IN  IF bars # <<>> /\ Newest(bars).start = start
      THEN [bars EXCEPT ![Len(bars)] = Updated(@, tick.price)]
      ELSE Appended(bars, FirstOf(start, tick.price), MaxBars)

AddTick(tick) ==
  /\ ticks' = Appended(ticks, tick, MaxTicks)
  /\ series' = [period \in Timeframes |-> Rolled(series[period], period, tick)]

(* __post_init__                                                            *)
BarsInit ==
  /\ ticks = <<>>
  /\ series = [period \in Timeframes |-> <<>>]
  /\ fed = 0

(* A live feed: time does not go back.                                      *)
FeedTick(tick) ==
  /\ fed < MaxFed
  /\ ticks # <<>> => Newest(ticks).when <= tick.when
  /\ AddTick(tick)
  /\ fed' = fed + 1

BarsNext ==
  \E when \in 0..LastTime, price \in Prices :
    FeedTick([when |-> when, price |-> price])

BarsSpec == BarsInit /\ [][BarsNext]_barsVars

--------------------------------------------------------------------------------
(* Properties.                                                              *)

BarsTypeOK ==
  /\ ticks \in Seq(Tick) /\ Len(ticks) <= MaxTicks
  /\ series \in [Timeframes -> Seq(Bar)]
  /\ \A period \in Timeframes : Len(series[period]) <= MaxBars
  /\ fed \in 0..MaxFed

(* On a feed whose time does not go back, each series is in strictly rising *)
(* order, its bars start on the grid of their period, and the newest bar is *)
(* the one the newest tick falls in: what every indicator assumes and       *)
(* nothing in _roll checks, since it only looks at the newest bar.          *)
BarsAscend ==
  \A period \in Timeframes :
    LET bars == series[period]
    IN  /\ \A i \in 1..Len(bars) : bars[i].start % period = 0
        /\ \A i, j \in 1..Len(bars) : i < j => bars[i].start < bars[j].start
        /\ bars # <<>> => /\ ticks # <<>>
                          /\ Newest(bars).start = Bucket(Newest(ticks).when, period)

(* The retained bars of `fast` that lie inside `bar` of period `slow`.      *)
Inside(fast, bar, slow) ==
  {i \in 1..Len(series[fast]) :
     bar.start <= series[fast][i].start /\ series[fast][i].start < bar.start + slow}

(* Nothing of this bar has been forgotten by the fast series.               *)
Covered(fast, bar) ==
  Len(series[fast]) < MaxBars \/ series[fast][1].start <= bar.start

(* The timeframes are rolled independently and forget at different rates.   *)
(* Whatever they still both hold tells the same story: a slow bar opens,    *)
(* closes and ranges as the fast bars inside it do (the entry is decided on *)
(* one and its direction on the others, core/strategy.py).                  *)
TimeframesAgree ==
  \A fast, slow \in Timeframes :
    fast < slow /\ slow % fast = 0 =>
      \A n \in 1..Len(series[slow]) :
        LET bar    == series[slow][n]
            inside == Inside(fast, bar, slow)
        IN  Covered(fast, bar) =>
              /\ \A i \in inside : series[fast][i].high <= bar.high
                                   /\ series[fast][i].low >= bar.low
              /\ \E i \in inside : series[fast][i].high = bar.high
              /\ \E i \in inside : series[fast][i].low = bar.low
              /\ \E i \in inside : /\ \A j \in inside : i <= j
                                   /\ series[fast][i].open = bar.open
              /\ \E i \in inside : /\ \A j \in inside : j <= i
                                   /\ series[fast][i].close = bar.close
=================================================================================
