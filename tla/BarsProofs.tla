------------------------------- MODULE BarsProofs -------------------------------
(***************************************************************************)
(* Proofs about the bars the engine builds from any number of ticks, for   *)
(* any periods and lengths of the deques.                                  *)
(***************************************************************************)
EXTENDS Bars, SumLemmas

--------------------------------------------------------------------------------
(* Buckets of a period.                                                     *)

LEMMA Division ==
  ASSUME NEW when \in Int, NEW period \in Nat \ {0}
  PROVE  /\ when = period * (when \div period) + (when % period)
         /\ when % period \in 0..period - 1
         /\ when \div period \in Int
OBVIOUS

(* A bucket is on the grid, and a later time has no earlier bucket.         *)
LEMMA BucketType ==
  ASSUME NEW when \in Int, NEW period \in Nat \ {0}
  PROVE  Bucket(when, period) \in Int
BY Division DEF Bucket

LEMMA BucketOnGrid ==
  ASSUME NEW when \in Int, NEW period \in Nat \ {0}
  PROVE  Bucket(when, period) % period = 0
<1> DEFINE q == when \div period
<1>1. q \in Int /\ Bucket(when, period) = period * q
  BY Division DEF Bucket
<1> HIDE DEF q
<1>2. (period * q) % period = 0
  BY <1>1
<1> QED  BY <1>1, <1>2

LEMMA BucketsRise ==
  ASSUME NEW early \in Int, NEW late \in Int, NEW period \in Nat \ {0}, early <= late
  PROVE  Bucket(early, period) <= Bucket(late, period)
<1> DEFINE p == early \div period  q == late \div period
<1>1. /\ p \in Int /\ q \in Int
      /\ Bucket(early, period) = period * p /\ Bucket(late, period) = period * q
      /\ period * p <= early /\ late < period * q + period
  BY Division DEF Bucket
<1> HIDE DEF p, q
<1>2. CASE p <= q
  <2>1. period * p <= period * q
    BY <1>1, <1>2
  <2> QED  BY <1>1, <2>1
<1>3. CASE q + 1 <= p
  <2>1. period * (q + 1) <= period * p
    BY <1>1, <1>3
  <2>2. period * (q + 1) = period * q + period
    BY <1>1
  <2> QED  BY <1>1, <2>1, <2>2
<1> QED  BY <1>1, <1>2, <1>3

--------------------------------------------------------------------------------
(* Deques.                                                                  *)

(* An append keeps the limit, puts the element last, and drops at most the  *)
(* oldest.                                                                  *)
LEMMA AppendedIsBounded ==
  ASSUME NEW S, NEW s \in Seq(S), NEW x \in S, NEW limit \in Nat \ {0}, Len(s) <= limit
  PROVE  /\ Appended(s, x, limit) \in Seq(S)
         /\ Len(Appended(s, x, limit)) \in 1..limit
<1>1. Append(s, x) \in Seq(S) /\ Len(Append(s, x)) = Len(s) + 1
  OBVIOUS
<1>2. CASE Len(s) < limit
  BY <1>1, <1>2 DEF Appended
<1>3. CASE ~(Len(s) < limit)
  BY <1>1, <1>3 DEF Appended
<1> QED  BY <1>2, <1>3

LEMMA AppendedShifts ==
  ASSUME NEW S, NEW s \in Seq(S), NEW x \in S, NEW limit \in Nat \ {0}, Len(s) <= limit
  PROVE  LET t == Appended(s, x, limit)
         IN  /\ t[Len(t)] = x
             /\ \E k \in {0, 1} :
                  /\ Len(t) = Len(s) + 1 - k
                  /\ \A i \in 1..Len(t) - 1 : i + k \in 1..Len(s) /\ t[i] = s[i + k]
<1> DEFINE a == Append(s, x)
<1>1. /\ a \in Seq(S) /\ Len(a) = Len(s) + 1 /\ a[Len(s) + 1] = x
      /\ \A i \in 1..Len(s) : a[i] = s[i]
  OBVIOUS
<1> HIDE DEF a
<1>2. CASE Len(s) < limit
  <2>1. Appended(s, x, limit) = a
    BY <1>2 DEF Appended, a
  <2> QED  BY <1>1, <2>1
<1>3. CASE ~(Len(s) < limit)
  <2>1. Appended(s, x, limit) = Tail(a)
    BY <1>3 DEF Appended, a
  <2>2. Len(Tail(a)) = Len(s) /\ \A i \in 1..Len(s) : Tail(a)[i] = a[i + 1]
    BY <1>1
  <2> QED  BY <1>1, <1>3, <2>1, <2>2
<1> QED  BY <1>2, <1>3

--------------------------------------------------------------------------------
(* One series.                                                              *)

(* A series as _roll leaves it: on the grid and strictly rising.            *)
Rising(bars, period) ==
  /\ bars \in Seq(Bar) /\ Len(bars) <= MaxBars
  /\ \A i \in 1..Len(bars) : bars[i].start % period = 0
  /\ \A i, j \in 1..Len(bars) : i < j => bars[i].start < bars[j].start

LEMMA UpdatedIsBar ==
  ASSUME NEW bar \in Bar, NEW price \in Int
  PROVE  Updated(bar, price) \in Bar /\ Updated(bar, price).start = bar.start
<1> DEFINE high == IF price > bar.high THEN price ELSE bar.high
           low == IF price < bar.low THEN price ELSE bar.low
<1>1. /\ bar.high \in Int /\ bar.low \in Int /\ bar.ticks + 1 \in Nat
      /\ bar.start \in Int /\ bar.open \in Int
  BY DEF Bar
<1>2. high \in Int /\ low \in Int
  BY <1>1
<1>3. Updated(bar, price) =
        [bar EXCEPT !.high = high, !.low = low, !.close = price, !.ticks = bar.ticks + 1]
  BY DEF Updated
<1> HIDE DEF high, low
<1> QED  BY <1>1, <1>2, <1>3 DEF Bar

LEMMA FirstIsBar ==
  ASSUME NEW start \in Int, NEW price \in Int
  PROVE  FirstOf(start, price) \in Bar /\ FirstOf(start, price).start = start
BY DEF FirstOf, Bar

(* A tick that is no earlier than the newest bar keeps a series rising, and *)
(* leaves the bar it falls in as the newest.                                *)
LEMMA RolledRises ==
  ASSUME NEW period \in Timeframes, NEW tick \in Tick, NEW bars, Rising(bars, period),
         bars # <<>> => Newest(bars).start <= Bucket(tick.when, period)
  PROVE  /\ Rising(Rolled(bars, period, tick), period)
         /\ Rolled(bars, period, tick) # <<>>
         /\ Newest(Rolled(bars, period, tick)).start = Bucket(tick.when, period)
<1> DEFINE start == Bucket(tick.when, period)
           new == FirstOf(start, tick.price)
<1>1. /\ start \in Int /\ start % period = 0
      /\ tick.price \in Int /\ MaxBars \in Nat \ {0}
  BY BucketType, BucketOnGrid, BarsAssumption DEF Tick
<1>2. CASE bars # <<>> /\ Newest(bars).start = start
  <2> DEFINE n == Len(bars)
             rolled == [bars EXCEPT ![n] = Updated(bars[n], tick.price)]
  <2>1. n \in 1..MaxBars /\ bars[n] \in Bar
    BY <1>2 DEF Rising
  <2>2. Updated(bars[n], tick.price) \in Bar /\ Updated(bars[n], tick.price).start = start
    BY <1>1, <1>2, <2>1, UpdatedIsBar DEF Newest
  <2>3. Rolled(bars, period, tick) = rolled
    BY <1>2 DEF Rolled
  <2>4. rolled \in Seq(Bar) /\ Len(rolled) = n
    BY <2>1, <2>2 DEF Rising
  <2>5. \A i \in 1..n : rolled[i].start = bars[i].start
    BY <1>2, <2>1, <2>2 DEF Rising, Newest
  <2> HIDE DEF rolled
  <2> QED  BY <1>2, <2>1, <2>3, <2>4, <2>5 DEF Rising, Newest
<1>3. CASE ~(bars # <<>> /\ Newest(bars).start = start)
  <2> DEFINE rolled == Appended(bars, new, MaxBars)
  <2>1. Rolled(bars, period, tick) = rolled
    BY <1>3 DEF Rolled
  <2>2. new \in Bar /\ new.start = start
    BY <1>1, FirstIsBar
  <2>3. rolled \in Seq(Bar) /\ Len(rolled) \in 1..MaxBars
    BY <1>1, <2>2, AppendedIsBounded DEF Rising
  <2>4. rolled[Len(rolled)] = new
    BY <1>1, <2>2, AppendedShifts DEF Rising
  <2>5. PICK k \in {0, 1} :
          /\ Len(rolled) = Len(bars) + 1 - k
          /\ \A i \in 1..Len(rolled) - 1 : i + k \in 1..Len(bars) /\ rolled[i] = bars[i + k]
    BY <1>1, <2>2, AppendedShifts DEF Rising
  <2>6. \A i \in 1..Len(bars) : bars[i].start < start
    <3> SUFFICES ASSUME NEW i \in 1..Len(bars) PROVE bars[i].start < start
      OBVIOUS
    <3>1. bars # <<>> /\ Len(bars) \in 1..Len(bars) /\ bars[Len(bars)].start < start
      <4>1. bars # <<>> /\ Len(bars) \in 1..Len(bars) /\ bars[Len(bars)] \in Bar
        BY DEF Rising
      <4>2. bars[Len(bars)].start \in Int
        BY <4>1 DEF Bar
      <4> QED  BY <1>1, <1>3, <4>1, <4>2 DEF Newest
    <3>2. bars[i].start \in Int /\ bars[Len(bars)].start \in Int
      <4>1. bars[i] \in Bar /\ bars[Len(bars)] \in Bar
        BY <3>1 DEF Rising
      <4> QED  BY <4>1 DEF Bar
    <3>3. i = Len(bars) \/ bars[i].start < bars[Len(bars)].start
      BY <3>1 DEF Rising
    <3> QED  BY <1>1, <3>1, <3>2, <3>3
  <2> HIDE DEF rolled, new
  <2>7. \A i \in 1..Len(rolled) : rolled[i].start % period = 0
    <3> SUFFICES ASSUME NEW i \in 1..Len(rolled) PROVE rolled[i].start % period = 0
      OBVIOUS
    <3>1. CASE i = Len(rolled)
      BY <1>1, <2>2, <2>4, <3>1
    <3>2. CASE i \in 1..Len(rolled) - 1
      BY <2>5, <3>2 DEF Rising
    <3> QED  BY <2>3, <3>1, <3>2
  <2>8. \A i, j \in 1..Len(rolled) : i < j => rolled[i].start < rolled[j].start
    <3> SUFFICES ASSUME NEW i \in 1..Len(rolled), NEW j \in 1..Len(rolled), i < j
                 PROVE  rolled[i].start < rolled[j].start
      OBVIOUS
    <3>1. i \in 1..Len(rolled) - 1
      BY <2>3
    <3>2. CASE j = Len(rolled)
      BY <2>2, <2>4, <2>5, <2>6, <3>1, <3>2
    <3>3. CASE j \in 1..Len(rolled) - 1
      <4>1. i + k \in 1..Len(bars) /\ j + k \in 1..Len(bars) /\ i + k < j + k
        BY <2>5, <3>1, <3>3
      <4> QED  BY <2>5, <3>1, <3>3, <4>1 DEF Rising
    <3> QED  BY <2>3, <3>2, <3>3
  <2> QED  BY <2>1, <2>2, <2>3, <2>4, <2>7, <2>8 DEF Rising, Newest
<1> QED  BY <1>2, <1>3

--------------------------------------------------------------------------------
(* The symbol.                                                              *)

(* BarsTypeOK and BarsAscend together are inductive.                        *)
BarsInv == BarsTypeOK /\ BarsAscend

LEMMA BarsStep == BarsInv /\ [BarsNext]_barsVars => BarsInv'
<1> SUFFICES ASSUME BarsInv, [BarsNext]_barsVars PROVE BarsInv'
  OBVIOUS
<1>1. CASE UNCHANGED barsVars
  BY <1>1 DEF barsVars, BarsInv, BarsTypeOK, BarsAscend
<1>2. ASSUME NEW when \in 0..LastTime, NEW price \in Prices,
             FeedTick([when |-> when, price |-> price])
      PROVE  BarsInv'
  <2> DEFINE tick == [when |-> when, price |-> price]
  <2>1. tick \in Tick /\ tick.when = when
    BY BarsAssumption DEF Tick
  <2>2. /\ fed < MaxFed /\ fed' = fed + 1
        /\ ticks # <<>> => Newest(ticks).when <= tick.when
        /\ ticks' = Appended(ticks, tick, MaxTicks)
        /\ series' = [period \in Timeframes |-> Rolled(series[period], period, tick)]
    BY <1>2 DEF FeedTick, AddTick
  <2> HIDE DEF tick
  <2>3. /\ ticks' \in Seq(Tick) /\ Len(ticks') \in 1..MaxTicks
        /\ Newest(ticks') = tick
    BY <2>1, <2>2, BarsAssumption, AppendedIsBounded, AppendedShifts
    DEF BarsInv, BarsTypeOK, Newest
  <2>4. ASSUME NEW period \in Timeframes
        PROVE  /\ Rising(series'[period], period)
               /\ series'[period] # <<>>
               /\ Newest(series'[period]).start = Bucket(tick.when, period)
    <3>1. Rising(series[period], period) /\ period \in Nat \ {0}
      BY BarsAssumption DEF BarsInv, BarsTypeOK, BarsAscend, Rising
    <3>2. series[period] # <<>> =>
            Newest(series[period]).start <= Bucket(tick.when, period)
      <4> SUFFICES ASSUME series[period] # <<>>
                   PROVE  Newest(series[period]).start <= Bucket(tick.when, period)
        OBVIOUS
      <4>1. ticks # <<>> /\ Newest(series[period]).start = Bucket(Newest(ticks).when, period)
        BY DEF BarsInv, BarsAscend
      <4>2. Newest(ticks).when \in Int /\ tick.when \in Int
        <5>1. Newest(ticks) \in Tick
          BY <4>1 DEF BarsInv, BarsTypeOK, Newest
        <5> QED  BY <2>1, <5>1 DEF Tick
      <4> QED  BY <2>2, <3>1, <4>1, <4>2, BucketsRise
    <3>3. series'[period] = Rolled(series[period], period, tick)
      BY <2>2
    <3> QED  BY <2>1, <3>1, <3>2, <3>3, RolledRises
  <2>5. BarsTypeOK'
    <3>1. series' \in [Timeframes -> Seq(Bar)]
      BY <2>2, <2>4 DEF Rising
    <3>2. fed' \in 0..MaxFed
      BY <2>2, BarsAssumption DEF BarsInv, BarsTypeOK
    <3> QED  BY <2>3, <2>4, <3>1, <3>2 DEF BarsTypeOK, Rising
  <2>6. BarsAscend'
    BY <2>3, <2>4 DEF BarsAscend, Rising
  <2> QED  BY <2>5, <2>6 DEF BarsInv
<1> QED  BY <1>1, <1>2 DEF BarsNext

LEMMA BarsStart == BarsInit => BarsInv
BY BarsAssumption DEF BarsInit, BarsInv, BarsTypeOK, BarsAscend

(* Ticks and bars keep their types and their deques their lengths           *)
(* (SymbolState.__post_init__, add_tick).                                   *)
THEOREM BarsTypeCorrect == BarsSpec => []BarsTypeOK
<1>1. BarsInv => BarsTypeOK
  BY DEF BarsInv
<1> QED  BY <1>1, BarsStart, BarsStep, PTL DEF BarsSpec

(* On a feed whose time does not go back every series of a symbol is on its *)
(* grid, strictly rising, and ends with the bar of the newest tick: the     *)
(* look at the newest bar alone is enough (_roll).  Of ticks only: rows     *)
(* given to seed_bar are appended unchecked and are no step of BarsSpec.    *)
THEOREM BarsAlwaysAscend == BarsSpec => []BarsAscend
<1>1. BarsInv => BarsAscend
  BY DEF BarsInv
<1> QED  BY <1>1, BarsStart, BarsStep, PTL DEF BarsSpec

--------------------------------------------------------------------------------
(* Two timeframes of one symbol.                                            *)

LEMMA GridApart ==
  ASSUME NEW a \in Int, NEW b \in Int, NEW period \in Nat \ {0},
         a % period = 0, b % period = 0, a < b
  PROVE  a + period <= b
<1>1. PICK p \in Int, q \in Int : a = period * p /\ b = period * q
  <2>1. a = period * (a \div period) /\ b = period * (b \div period)
    BY Division
  <2>2. a \div period \in Int /\ b \div period \in Int
    BY Division
  <2> QED  BY <2>1, <2>2
<1>2. CASE p + 1 <= q
  <2>1. period * (p + 1) <= period * q /\ period * (p + 1) = period * p + period
    BY <1>1, <1>2
  <2> QED  BY <1>1, <2>1
<1>3. CASE q <= p
  <2>1. period * q <= period * p
    BY <1>1, <1>3
  <2> QED  BY <1>1, <2>1
<1> QED  BY <1>1, <1>2, <1>3

LEMMA BucketHolds ==
  ASSUME NEW when \in Int, NEW period \in Nat \ {0}
  PROVE  Bucket(when, period) <= when /\ when < Bucket(when, period) + period
BY Division DEF Bucket

(* The fast bucket of a time lies in its slow one.                          *)
LEMMA BucketsNest ==
  ASSUME NEW when \in Int, NEW fast \in Nat \ {0}, NEW slow \in Nat \ {0}, slow % fast = 0
  PROVE  /\ Bucket(when, slow) <= Bucket(when, fast)
         /\ Bucket(when, fast) < Bucket(when, slow) + slow
<1>1. PICK m \in Int : slow = fast * m
  <2>1. slow = fast * (slow \div fast) /\ slow \div fast \in Int
    BY Division
  <2> QED  BY <2>1
<1>2. PICK q \in Int : Bucket(when, slow) = slow * q
  <2>1. Bucket(when, slow) = slow * (when \div slow) /\ when \div slow \in Int
    BY Division DEF Bucket
  <2> QED  BY <2>1
<1>3. Bucket(when, slow) % fast = 0
  <2>1. Bucket(when, slow) = fast * (m * q) /\ m * q \in Int
    BY <1>1, <1>2
  <2> DEFINE k == m * q
  <2>2. k \in Int /\ Bucket(when, slow) = fast * k
    BY <2>1
  <2> HIDE DEF k
  <2>3. (fast * k) % fast = 0
    BY <2>2
  <2> QED  BY <2>2, <2>3
<1>4. Bucket(Bucket(when, slow), fast) = Bucket(when, slow)
  BY <1>3, BucketType DEF Bucket
<1>5. /\ Bucket(when, slow) \in Int /\ Bucket(when, fast) \in Int
      /\ Bucket(when, slow) <= when /\ when < Bucket(when, slow) + slow
      /\ Bucket(when, fast) <= when
  BY BucketType, BucketHolds
<1>6. Bucket(Bucket(when, slow), fast) <= Bucket(when, fast)
  BY <1>5, BucketsRise
<1> QED  BY <1>4, <1>5, <1>6

(* The bars of R in the place of a slow bar.                                *)
Under(R, bar, slow) == {b \in R : bar.start <= b.start /\ b.start < bar.start + slow}

(* They tell of it what it says of itself.                                  *)
Tells(R, bar, slow) ==
  LET place == Under(R, bar, slow)
  IN  /\ \A b \in place : b.high <= bar.high /\ b.low >= bar.low
      /\ \E b \in place : b.high = bar.high
      /\ \E b \in place : b.low = bar.low
      /\ \E b \in place : b.open = bar.open /\ \A c \in place : b.start <= c.start
      /\ \E b \in place : b.close = bar.close /\ \A c \in place : c.start <= b.start

LEMMA BarFields ==
  ASSUME NEW bar \in Bar, NEW price \in Int
  PROVE  /\ bar.start \in Int /\ bar.open \in Int /\ bar.high \in Int
         /\ bar.low \in Int /\ bar.close \in Int /\ bar.ticks \in Nat
         /\ Updated(bar, price).start = bar.start /\ Updated(bar, price).open = bar.open
         /\ Updated(bar, price).high = (IF price > bar.high THEN price ELSE bar.high)
         /\ Updated(bar, price).low = (IF price < bar.low THEN price ELSE bar.low)
         /\ Updated(bar, price).close = price
<1>1. /\ bar.start \in Int /\ bar.open \in Int /\ bar.high \in Int
      /\ bar.low \in Int /\ bar.close \in Int /\ bar.ticks \in Nat
  BY DEF Bar
<1> DEFINE high == IF price > bar.high THEN price ELSE bar.high
           low == IF price < bar.low THEN price ELSE bar.low
           count == bar.ticks + 1
<1>2. Updated(bar, price) =
        [bar EXCEPT !.high = high, !.low = low, !.close = price, !.ticks = count]
  BY DEF Updated
<1> HIDE DEF high, low, count
<1>3. /\ Updated(bar, price).start = bar.start /\ Updated(bar, price).open = bar.open
      /\ Updated(bar, price).high = high /\ Updated(bar, price).low = low
      /\ Updated(bar, price).close = price
  BY <1>2 DEF Bar
<1> QED  BY <1>1, <1>3 DEF high, low

LEMMA TellsSame ==
  ASSUME NEW R, NEW Q, NEW bar, NEW slow, Under(R, bar, slow) = Under(Q, bar, slow),
         Tells(R, bar, slow)
  PROVE  Tells(Q, bar, slow)
BY DEF Tells

(* A slow bar just opened, with the fast bar opened by the same tick.       *)
LEMMA TellsFirst ==
  ASSUME NEW R, NEW bar, NEW slow, NEW new, NEW price \in Int,
         bar.open = price, bar.high = price, bar.low = price, bar.close = price,
         new.open = price, new.high = price, new.low = price, new.close = price,
         new.start \in Int, Under(R, bar, slow) = {new}
  PROVE  Tells(R, bar, slow)
BY DEF Tells

(* A tick that opens a fast bar inside the slow one.                        *)
LEMMA TellsAppended ==
  ASSUME NEW R \in SUBSET Bar, NEW Q, NEW bar \in Bar, NEW slow, NEW price \in Int, NEW new \in Bar,
         new.open = price, new.high = price, new.low = price, new.close = price,
         \A b \in R : b.start < new.start,
         Under(Q, bar, slow) = Under(R, bar, slow) \cup {new},
         Tells(R, bar, slow)
  PROVE  Tells(Q, Updated(bar, price), slow)
<1> DEFINE old == Under(R, bar, slow)
           all == Under(Q, bar, slow)
           late == Updated(bar, price)
<1>1. /\ bar.start \in Int /\ bar.open \in Int /\ bar.high \in Int /\ bar.low \in Int
      /\ late.start = bar.start /\ late.open = bar.open /\ late.close = price
      /\ late.high = (IF price > bar.high THEN price ELSE bar.high)
      /\ late.low = (IF price < bar.low THEN price ELSE bar.low)
  BY BarFields
<1>2. Under(Q, late, slow) = all
  BY <1>1 DEF Under
<1>3. /\ \A b \in old : b.high <= bar.high /\ b.low >= bar.low
      /\ \E b \in old : b.high = bar.high
      /\ \E b \in old : b.low = bar.low
      /\ \E b \in old : b.open = bar.open /\ \A c \in old : b.start <= c.start
  BY DEF Tells
<1>4. /\ all = old \cup {new} /\ old \in SUBSET R
      /\ \A b \in all : b.start \in Int /\ b.high \in Int /\ b.low \in Int
      /\ \A b \in old : b.start < new.start
  <2>1. old \in SUBSET R
    BY DEF Under
  <2>2. all \in SUBSET Bar
    BY <2>1
  <2> QED  BY <2>1, <2>2, BarFields
<1> HIDE DEF old, all, late
<1>5. \A b \in all : b.high <= late.high /\ b.low >= late.low
  BY <1>1, <1>3, <1>4
<1>6. \E b \in all : b.high = late.high
  BY <1>1, <1>3, <1>4
<1>7. \E b \in all : b.low = late.low
  BY <1>1, <1>3, <1>4
<1>8. \E b \in all : b.open = late.open /\ \A c \in all : b.start <= c.start
  <2>1. PICK b \in old : b.open = bar.open /\ \A c \in old : b.start <= c.start
    BY <1>3
  <2>2. b \in all /\ b.start \in Int /\ new.start \in Int /\ b.start <= new.start
    BY <1>4
  <2> QED  BY <1>1, <1>4, <2>1, <2>2
<1>9. \E b \in all : b.close = late.close /\ \A c \in all : c.start <= b.start
  BY <1>1, <1>4
<1> QED  BY <1>2, <1>5, <1>6, <1>7, <1>8, <1>9 DEF Tells, late

(* A tick that falls into the newest bar of both.                           *)
LEMMA TellsUpdated ==
  ASSUME NEW R \in SUBSET Bar, NEW Q, NEW bar \in Bar, NEW slow, NEW price \in Int, NEW new \in Bar,
         new \in Under(R, bar, slow),
         \A b \in R : b = new \/ b.start < new.start,
         Under(Q, bar, slow) = (Under(R, bar, slow) \ {new}) \cup {Updated(new, price)},
         Tells(R, bar, slow)
  PROVE  Tells(Q, Updated(bar, price), slow)
<1> DEFINE old == Under(R, bar, slow)
           all == Under(Q, bar, slow)
           late == Updated(bar, price)
           top == Updated(new, price)
<1>1. /\ bar.start \in Int /\ bar.open \in Int /\ bar.high \in Int /\ bar.low \in Int
      /\ late.start = bar.start /\ late.open = bar.open /\ late.close = price
      /\ late.high = (IF price > bar.high THEN price ELSE bar.high)
      /\ late.low = (IF price < bar.low THEN price ELSE bar.low)
  BY BarFields
<1>2. /\ new.start \in Int /\ new.open \in Int /\ new.high \in Int /\ new.low \in Int
      /\ top.start = new.start /\ top.open = new.open /\ top.close = price
      /\ top.high = (IF price > new.high THEN price ELSE new.high)
      /\ top.low = (IF price < new.low THEN price ELSE new.low)
  BY BarFields
<1>3. Under(Q, late, slow) = all
  BY <1>1 DEF Under
<1>4. /\ \A b \in old : b.high <= bar.high /\ b.low >= bar.low
      /\ \E b \in old : b.high = bar.high
      /\ \E b \in old : b.low = bar.low
      /\ \E b \in old : b.open = bar.open /\ \A c \in old : b.start <= c.start
  BY DEF Tells
<1>5. /\ all = (old \ {new}) \cup {top} /\ new \in old
      /\ \A b \in old : b.start \in Int /\ b.high \in Int /\ b.low \in Int
      /\ \A b \in old : b = new \/ b.start < new.start
  <2>1. old \in SUBSET R
    BY DEF Under
  <2>2. old \in SUBSET Bar
    BY <2>1
  <2> QED  BY <2>1, <2>2, BarFields
<1> HIDE DEF old, all, late, top
<1>6. \A b \in all : b.high <= late.high /\ b.low >= late.low
  <2>1. new.high <= bar.high /\ new.low >= bar.low
    BY <1>4, <1>5
  <2>2. top.high <= late.high /\ top.low >= late.low
    BY <1>1, <1>2, <2>1
  <2> QED  BY <1>1, <1>4, <1>5, <2>2
<1>7. \E b \in all : b.high = late.high
  <2>1. new.high <= bar.high
    BY <1>4, <1>5
  <2>2. CASE price > bar.high
    BY <1>1, <1>2, <1>5, <2>1, <2>2
  <2>3. CASE ~(price > bar.high)
    <3>1. PICK b \in old : b.high = bar.high
      BY <1>4
    <3>2. CASE b = new
      BY <1>1, <1>2, <1>5, <2>3, <3>1, <3>2
    <3> QED  BY <1>1, <1>5, <2>3, <3>1, <3>2
  <2> QED  BY <2>2, <2>3
<1>8. \E b \in all : b.low = late.low
  <2>1. new.low >= bar.low
    BY <1>4, <1>5
  <2>2. CASE price < bar.low
    BY <1>1, <1>2, <1>5, <2>1, <2>2
  <2>3. CASE ~(price < bar.low)
    <3>1. PICK b \in old : b.low = bar.low
      BY <1>4
    <3>2. CASE b = new
      BY <1>1, <1>2, <1>5, <2>3, <3>1, <3>2
    <3> QED  BY <1>1, <1>5, <2>3, <3>1, <3>2
  <2> QED  BY <2>2, <2>3
<1>9. \E b \in all : b.open = late.open /\ \A c \in all : b.start <= c.start
  <2>1. PICK b \in old : b.open = bar.open /\ \A c \in old : b.start <= c.start
    BY <1>4
  <2>2. CASE b = new
    BY <1>1, <1>2, <1>5, <2>1, <2>2
  <2>3. CASE b # new
    BY <1>1, <1>2, <1>5, <2>1, <2>3
  <2> QED  BY <2>2, <2>3
<1>10. \E b \in all : b.close = late.close /\ \A c \in all : c.start <= b.start
  BY <1>1, <1>2, <1>5
<1> QED  BY <1>3, <1>6, <1>7, <1>8, <1>9, <1>10 DEF Tells, late

(* The two things a tick does to a series, seen as sets of bars.            *)
Touched(F, G, price) ==
  /\ F # <<>> /\ Newest(F) \in Range(F)
  /\ Range(G) = (Range(F) \ {Newest(F)}) \cup {Updated(Newest(F), price)}
  /\ Len(G) = Len(F) /\ G[1].start = F[1].start
  /\ \A b \in Range(F) : b = Newest(F) \/ b.start < Newest(F).start

Extended(F, G, new) ==
  /\ new \in Range(G) /\ Range(G) \subseteq Range(F) \cup {new}
  /\ \A b \in Range(F) : b.start < new.start
  /\ \A b \in Range(F) \ Range(G) : Len(G) = MaxBars /\ b.start < G[1].start
  /\ Len(F) <= Len(G)
  /\ F # <<>> => F[1].start <= G[1].start

Ticked(F, G, start, price) ==
  \/ F # <<>> /\ Newest(F).start = start /\ Touched(F, G, price)
  \/ Extended(F, G, FirstOf(start, price))

LEMMA RisingRange ==
  ASSUME NEW period, NEW bars, Rising(bars, period)
  PROVE  /\ Range(bars) \in SUBSET Bar
         /\ Range(bars) = {bars[i] : i \in 1..Len(bars)}
         /\ Len(bars) \in Nat
         /\ \A i \in 1..Len(bars) : bars[i] \in Bar /\ bars[i].start \in Int
<1>1. bars \in Seq(Bar)
  BY DEF Rising
<1>2. \A i \in 1..Len(bars) : bars[i] \in Bar
  BY <1>1
<1>3. \A i \in 1..Len(bars) : bars[i].start \in Int
  BY <1>2 DEF Bar
<1>4. Range(bars) = {bars[i] : i \in 1..Len(bars)} /\ Len(bars) \in Nat
  BY <1>1 DEF Range
<1> QED  BY <1>2, <1>3, <1>4

LEMMA RolledEither ==
  ASSUME NEW period \in Timeframes, NEW tick \in Tick, NEW bars, Rising(bars, period),
         bars # <<>> => Newest(bars).start <= Bucket(tick.when, period)
  PROVE  Ticked(bars, Rolled(bars, period, tick), Bucket(tick.when, period), tick.price)
<1> DEFINE start == Bucket(tick.when, period)
           new == FirstOf(start, tick.price)
           n == Len(bars)
<1>1. start \in Int /\ tick.price \in Int /\ MaxBars \in Nat \ {0}
  BY BucketType, BarsAssumption DEF Tick
<1>2. /\ bars \in Seq(Bar) /\ n \in Nat /\ n <= MaxBars
      /\ Range(bars) = {bars[i] : i \in 1..n}
      /\ \A i \in 1..n : bars[i] \in Bar /\ bars[i].start \in Int
      /\ \A i, j \in 1..n : i < j => bars[i].start < bars[j].start
  BY RisingRange DEF Rising
<1>3. \A i \in 1..n : i = n \/ bars[i].start < bars[n].start
  <2> SUFFICES ASSUME NEW i \in 1..n, i # n PROVE bars[i].start < bars[n].start
    OBVIOUS
  <2>1. n \in 1..n /\ i < n
    BY <1>2
  <2> QED  BY <1>2, <2>1
<1>4. CASE bars # <<>> /\ Newest(bars).start = start
  <2> DEFINE late == Updated(bars[n], tick.price)
             rolled == [bars EXCEPT ![n] = late]
  <2>1. n \in 1..n /\ Newest(bars) = bars[n] /\ 1 \in 1..n
    BY <1>2, <1>4 DEF Newest
  <2>2. late \in Bar /\ late.start = bars[n].start
    BY <1>1, <1>2, <2>1, UpdatedIsBar
  <2>3. Rolled(bars, period, tick) = rolled
    BY <1>4 DEF Rolled
  <2> HIDE DEF late
  <2>4. /\ rolled \in Seq(Bar) /\ Len(rolled) = n /\ rolled[n] = late
        /\ \A i \in 1..n : i # n => rolled[i] = bars[i]
    BY <1>2, <2>1, <2>2
  <2>5. Range(rolled) = {rolled[i] : i \in 1..n}
    BY <2>4 DEF Range
  <2>6. Range(rolled) = (Range(bars) \ {bars[n]}) \cup {late}
    <3>1. \A i \in 1..n : i # n => bars[i] # bars[n]
      BY <1>2, <1>3, <2>1
    <3>2. \A x : x \in Range(rolled) <=> x = late \/ \E i \in 1..n : i # n /\ x = bars[i]
      BY <2>1, <2>4, <2>5
    <3>3. \A x : x \in Range(bars) \ {bars[n]} <=> \E i \in 1..n : i # n /\ x = bars[i]
      BY <1>2, <3>1
    <3> QED  BY <3>2, <3>3
  <2>7. rolled[1].start = bars[1].start
    BY <2>1, <2>2, <2>4
  <2>8. bars[n] \in Range(bars) /\ \A b \in Range(bars) : b = bars[n] \/ b.start < bars[n].start
    BY <1>2, <1>3, <2>1
  <2> HIDE DEF rolled
  <2>9. Touched(bars, rolled, tick.price)
    BY <1>4, <2>1, <2>4, <2>6, <2>7, <2>8 DEF Touched, late
  <2> QED  BY <1>4, <2>3, <2>9 DEF Ticked
<1>5. CASE ~(bars # <<>> /\ Newest(bars).start = start)
  <2> DEFINE rolled == Appended(bars, new, MaxBars)
             m == Len(rolled)
  <2>1. Rolled(bars, period, tick) = rolled
    BY <1>5 DEF Rolled
  <2>2. new \in Bar /\ new.start = start
    BY <1>1, FirstIsBar
  <2>3. rolled \in Seq(Bar) /\ m \in 1..MaxBars
    BY <1>1, <1>2, <2>2, AppendedIsBounded
  <2>4. /\ rolled[m] = new
        /\ \E k \in {0, 1} :
             /\ m = n + 1 - k
             /\ \A i \in 1..m - 1 : i + k \in 1..n /\ rolled[i] = bars[i + k]
    BY <1>1, <1>2, <2>2, AppendedShifts
  <2>5. PICK k \in {0, 1} :
          /\ m = n + 1 - k
          /\ \A i \in 1..m - 1 : i + k \in 1..n /\ rolled[i] = bars[i + k]
    BY <2>4
  <2>6. k = 1 => m = MaxBars
    BY <1>1, <1>2, <2>2, <2>3, <2>5 DEF Appended
  <2>7. \A i \in 1..n : bars[i].start < start
    <3> SUFFICES ASSUME NEW i \in 1..n PROVE bars[i].start < start
      OBVIOUS
    <3>1. bars # <<>> /\ n \in 1..n /\ bars[n].start < start
      BY <1>1, <1>2, <1>5 DEF Newest
    <3> QED  BY <1>1, <1>2, <1>3, <3>1
  <2> HIDE DEF rolled, new
  <2>8. Range(rolled) = {rolled[i] : i \in 1..m}
    BY <2>3 DEF Range
  <2>9. new \in Range(rolled) /\ Range(rolled) \subseteq Range(bars) \cup {new}
    <3>1. \A i \in 1..m : i = m \/ i \in 1..m - 1
      BY <2>3
    <3> QED  BY <1>2, <2>3, <2>4, <2>5, <2>8, <3>1
  <2>10. \A b \in Range(bars) : b.start < new.start
    BY <1>2, <2>2, <2>7
  <2>11. ASSUME NEW b \in Range(bars) \ Range(rolled)
         PROVE  m = MaxBars /\ b.start < rolled[1].start
    <3>1. PICK i \in 1..n : b = bars[i]
      BY <1>2
    <3>2. ~(i - k \in 1..m - 1)
      <4> SUFFICES ASSUME i - k \in 1..m - 1 PROVE FALSE
        OBVIOUS
      <4>1. rolled[i - k] = bars[(i - k) + k] /\ (i - k) + k = i
        BY <2>5
      <4>2. i - k \in 1..m
        BY <2>3
      <4> QED  BY <2>8, <3>1, <4>1, <4>2
    <3>3. k = 1 /\ i = 1
      BY <1>2, <2>5, <3>2
    <3>4. m = 1 => rolled[1] = new
      BY <2>4
    <3>5. m # 1 => rolled[1] = bars[2] /\ 2 \in 1..n
      BY <2>3, <2>5, <3>3
    <3> QED  BY <1>2, <2>2, <2>6, <2>7, <3>1, <3>3, <3>4, <3>5
  <2>12. bars # <<>> => bars[1].start <= rolled[1].start
    <3> SUFFICES ASSUME bars # <<>> PROVE bars[1].start <= rolled[1].start
      OBVIOUS
    <3>1. 1 \in 1..n
      BY <1>2
    <3>2. m = 1 => rolled[1] = new
      BY <2>4
    <3>3. m # 1 => rolled[1] = bars[1 + k] /\ 1 + k \in 1..n
      BY <2>3, <2>5
    <3> QED  BY <1>1, <1>2, <2>2, <2>7, <3>1, <3>2, <3>3
  <2>13. n <= m
    BY <1>2, <2>5
  <2>14. Extended(bars, rolled, new)
    BY <2>9, <2>10, <2>11, <2>12, <2>13 DEF Extended
  <2> QED  BY <2>1, <2>14 DEF Ticked, new
<1> QED  BY <1>4, <1>5

(* The fast series still has all it ever had from this time on.             *)
Reaches(F, since) == Len(F) < MaxBars \/ F[1].start <= since

LEMMA ReachedBefore ==
  ASSUME NEW F, NEW G, NEW start, NEW price, NEW since \in Int,
         Ticked(F, G, start, price), Reaches(G, since), MaxBars \in Nat,
         Len(F) \in Nat, Len(G) \in Nat, Len(<<>>) < MaxBars,
         F # <<>> => F[1].start \in Int, G[1].start \in Int
  PROVE  Reaches(F, since)
BY DEF Ticked, Touched, Extended, Reaches

(* A slow bar that was over before the tick.                                *)
LEMMA OverIsOver ==
  ASSUME NEW F, NEW G, NEW price \in Int, NEW bar \in Bar, NEW slow \in Nat,
         NEW fastStart \in Int, Range(F) \in SUBSET Bar, Range(G) \in SUBSET Bar,
         G[1].start \in Int, MaxBars \in Nat,
         Ticked(F, G, fastStart, price), bar.start + slow <= fastStart, Reaches(G, bar.start)
  PROVE  Under(Range(F), bar, slow) = Under(Range(G), bar, slow)
<1>1. \A b \in Range(F) \cup Range(G) : b.start \in Int
  BY DEF Bar
<1>2. bar.start \in Int
  BY DEF Bar
<1>3. CASE Touched(F, G, price) /\ Newest(F).start = fastStart
  <2>1. Newest(F) \in Bar /\ Updated(Newest(F), price).start = fastStart
    BY <1>3, BarFields DEF Touched
  <2>2. ASSUME NEW b, b.start \in Int, b.start < bar.start + slow
        PROVE  b \in Range(F) <=> b \in Range(G)
    BY <1>2, <1>3, <2>1, <2>2 DEF Touched
  <2> QED  BY <1>1, <2>2 DEF Under
<1>4. CASE Extended(F, G, FirstOf(fastStart, price))
  <2>1. FirstOf(fastStart, price).start = fastStart
    BY FirstIsBar
  <2>2. ASSUME NEW b \in Range(F), bar.start <= b.start PROVE b \in Range(G)
    <3> SUFFICES ASSUME b \notin Range(G) PROVE FALSE
      OBVIOUS
    <3>1. Len(G) = MaxBars /\ b.start < G[1].start
      BY <1>4 DEF Extended
    <3>2. G[1].start <= bar.start
      BY <3>1 DEF Reaches
    <3> QED  BY <1>1, <1>2, <2>2, <3>1, <3>2
  <2>3. ASSUME NEW b \in Range(G), b.start < bar.start + slow PROVE b \in Range(F)
    BY <1>2, <1>4, <2>1, <2>3 DEF Extended
  <2> QED  BY <1>1, <2>2, <2>3 DEF Under
<1> QED  BY <1>3, <1>4 DEF Ticked

(* What two series of one symbol say of each other.                         *)
Agreed(F, S, slow) ==
  \A bar \in Range(S) : Reaches(F, bar.start) => Tells(Range(F), bar, slow)

(* The newest bars of both are those of one time, the newest tick's.        *)
LEMMA AgreedStep ==
  ASSUME NEW fast \in Timeframes, NEW slow \in Timeframes, fast < slow, slow % fast = 0,
         NEW tick \in Tick, NEW last \in Int, last <= tick.when,
         NEW F, NEW S, Rising(F, fast), Rising(S, slow), F = <<>> <=> S = <<>>,
         F # <<>> => Newest(F).start = Bucket(last, fast),
         S # <<>> => Newest(S).start = Bucket(last, slow),
         Agreed(F, S, slow)
  PROVE  Agreed(Rolled(F, fast, tick), Rolled(S, slow, tick), slow)
<1> DEFINE G == Rolled(F, fast, tick)
           T == Rolled(S, slow, tick)
           when == tick.when
           price == tick.price
           fs == Bucket(when, fast)
           ss == Bucket(when, slow)
<1>0. /\ fast \in Nat \ {0} /\ slow \in Nat \ {0} /\ MaxBars \in Nat \ {0}
      /\ when \in Int /\ price \in Int
  BY BarsAssumption DEF Tick
<1>1. /\ fs \in Int /\ ss \in Int /\ ss <= fs /\ fs < ss + slow /\ ss % slow = 0
      /\ Bucket(last, fast) \in Int /\ Bucket(last, slow) \in Int
      /\ Bucket(last, fast) < Bucket(last, slow) + slow
      /\ Bucket(last, fast) <= fs /\ Bucket(last, slow) <= ss
      /\ Bucket(last, slow) % slow = 0
  BY <1>0, BucketType, BucketsNest, BucketOnGrid, BucketsRise
<1>2. /\ Rising(G, fast) /\ G # <<>> /\ Rising(T, slow) /\ T # <<>>
  BY <1>1, RolledRises
<1>3. /\ Range(F) \in SUBSET Bar /\ Range(G) \in SUBSET Bar
      /\ Range(S) \in SUBSET Bar /\ Range(T) \in SUBSET Bar
      /\ Len(F) \in Nat /\ Len(G) \in Nat
      /\ F # <<>> => F[1].start \in Int
      /\ G[1].start \in Int
  <2>1. 1 \in 1..Len(G) /\ (F # <<>> => 1 \in 1..Len(F))
    BY <1>2 DEF Rising
  <2> QED  BY <1>2, <2>1, RisingRange
<1>4. Ticked(F, G, fs, price)
  BY <1>1, RolledEither
<1>5. Ticked(S, T, ss, price)
  BY <1>1, RolledEither
<1>6. \A bar \in Range(S) : bar.start % slow = 0 /\ bar.start \in Int
  <2> SUFFICES ASSUME NEW bar \in Range(S)
               PROVE  bar.start % slow = 0 /\ bar.start \in Int
    OBVIOUS
  <2>1. PICK i \in 1..Len(S) : bar = S[i]
    BY RisingRange
  <2> QED  BY <2>1, RisingRange DEF Rising
<1> HIDE DEF G, T, fs, ss, when, price
<1> SUFFICES ASSUME NEW bar \in Range(T), Reaches(G, bar.start)
             PROVE  Tells(Range(G), bar, slow)
  BY DEF Agreed, G, T
<1>7. bar \in Bar /\ bar.start \in Int
  BY <1>3 DEF Bar
<1>8. Reaches(F, bar.start)
  <2>1. Len(<<>>) < MaxBars
    BY <1>0
  <2> QED  BY <1>0, <1>3, <1>4, <1>7, <2>1, ReachedBefore
<1>9. CASE bar \in Range(S) /\ bar.start < ss
  <2>1. bar.start + slow <= ss
    BY <1>0, <1>1, <1>6, <1>9, GridApart
  <2>2. bar.start + slow <= fs
    BY <1>0, <1>1, <1>7, <2>1
  <2>3. Under(Range(F), bar, slow) = Under(Range(G), bar, slow)
    <3>1. slow \in Nat /\ MaxBars \in Nat /\ price \in Int
      BY <1>0 DEF price
    <3>2. /\ Range(F) \in SUBSET Bar /\ Range(G) \in SUBSET Bar /\ G[1].start \in Int
          /\ fs \in Int /\ bar \in Bar
      BY <1>1, <1>3, <1>7
    <3> QED  BY <1>4, <2>2, <3>1, <3>2, OverIsOver
  <2>4. Tells(Range(F), bar, slow)
    BY <1>8, <1>9 DEF Agreed
  <2> QED  BY <2>3, <2>4, TellsSame
<1>10. CASE S # <<>> /\ Newest(S).start = ss /\ Touched(S, T, price)
  <2> DEFINE top == Newest(S)
  <2>1. CASE bar # Updated(top, price)
    <3>1. bar \in Range(S) /\ bar # top
      BY <1>10, <2>1 DEF Touched
    <3>2. bar.start < ss
      BY <1>10, <3>1 DEF Touched
    <3> QED  BY <1>9, <3>1, <3>2
  <2>2. CASE bar = Updated(top, price)
    <3>1. top \in Bar /\ top \in Range(S) /\ top.start = ss /\ bar.start = ss
      BY <1>0, <1>3, <1>10, <2>2, BarFields DEF Touched, price
    <3>2. Tells(Range(F), top, slow)
      BY <1>8, <3>1 DEF Agreed
    <3> HIDE DEF top
    <3>3. price \in Int
      BY <1>0 DEF price
    <3>4. CASE F # <<>> /\ Newest(F).start = fs /\ Touched(F, G, price)
      <4> DEFINE new == Newest(F)
      <4>1. new \in Range(F) /\ new \in Bar /\ new.start = fs /\ Updated(new, price).start = fs
        BY <1>3, <3>3, <3>4, BarFields DEF Touched
      <4>2. /\ Range(G) = (Range(F) \ {new}) \cup {Updated(new, price)}
            /\ \A b \in Range(F) : b = new \/ b.start < new.start
        BY <3>4 DEF Touched
      <4> HIDE DEF new
      <4>3. new \in Under(Range(F), top, slow)
        BY <1>1, <3>1, <4>1 DEF Under
      <4>4. Under(Range(G), top, slow)
              = (Under(Range(F), top, slow) \ {new}) \cup {Updated(new, price)}
        BY <1>1, <3>1, <4>1, <4>2 DEF Under
      <4> QED  BY <1>3, <2>2, <3>1, <3>2, <3>3, <4>1, <4>2, <4>3, <4>4, TellsUpdated
    <3>5. CASE Extended(F, G, FirstOf(fs, price))
      <4> DEFINE new == FirstOf(fs, price)
      <4>1. /\ new \in Bar /\ new.start = fs /\ new.open = price /\ new.high = price
            /\ new.low = price /\ new.close = price
        BY <1>1, <3>3, FirstIsBar DEF FirstOf
      <4>2. /\ new \in Range(G) /\ Range(G) \subseteq Range(F) \cup {new}
            /\ \A b \in Range(F) : b.start < new.start
            /\ \A b \in Range(F) \ Range(G) : Len(G) = MaxBars /\ b.start < G[1].start
        BY <3>5 DEF Extended
      <4> HIDE DEF new
      <4>3. \A b \in Range(F) : ss <= b.start => b \in Range(G)
        <5> SUFFICES ASSUME NEW b \in Range(F), ss <= b.start, b \notin Range(G) PROVE FALSE
          OBVIOUS
        <5>1. Len(G) = MaxBars /\ b.start < G[1].start
          BY <4>2
        <5>2. G[1].start <= ss /\ b.start \in Int
          BY <1>3, <3>1, <5>1 DEF Reaches, Bar
        <5> QED  BY <1>1, <1>3, <5>1, <5>2
      <4>4. Under(Range(G), top, slow) = Under(Range(F), top, slow) \cup {new}
        BY <1>1, <3>1, <4>1, <4>2, <4>3 DEF Under
      <4> QED  BY <1>3, <2>2, <3>1, <3>2, <3>3, <4>1, <4>2, <4>4, TellsAppended
    <3> QED  BY <1>4, <3>4, <3>5 DEF Ticked
  <2> QED  BY <2>1, <2>2
<1>11. CASE Extended(S, T, FirstOf(ss, price))
  <2> DEFINE late == FirstOf(ss, price)
             new == FirstOf(fs, price)
  <2>0. price \in Int
    BY <1>0 DEF price
  <2>1. /\ late.start = ss /\ late.open = price /\ late.high = price /\ late.low = price
        /\ late.close = price
    BY <1>1, <2>0 DEF FirstOf
  <2>2. CASE bar # late
    <3>1. bar \in Range(S) /\ bar.start < ss
      BY <1>11, <2>1, <2>2 DEF Extended
    <3> QED  BY <1>9, <3>1
  <2>3. CASE bar = late
    <3>1. S # <<>> => Bucket(last, fast) < ss
      <4> SUFFICES ASSUME S # <<>> PROVE Bucket(last, fast) < ss
        OBVIOUS
      <4>1. Newest(S) \in Range(S)
        <5>1. Len(S) \in 1..Len(S)
          BY DEF Rising
        <5> QED  BY <5>1, RisingRange DEF Newest
      <4>2. Bucket(last, slow) < ss
        BY <1>11, <2>1, <4>1 DEF Extended
      <4>3. Bucket(last, slow) + slow <= ss
        BY <1>0, <1>1, <4>2, GridApart
      <4> QED  BY <1>0, <1>1, <4>3
    <3>2. \A b \in Range(F) : b.start < ss
      <4> SUFFICES ASSUME NEW b \in Range(F) PROVE b.start < ss
        OBVIOUS
      <4>1. PICK i \in 1..Len(F) : b = F[i]
        BY RisingRange
      <4>2. F # <<>> /\ Len(F) \in 1..Len(F) /\ b.start \in Int
        <5>1. F \in Seq(Bar) /\ b \in Bar
          BY <1>3 DEF Rising
        <5>2. F # <<>> /\ Len(F) \in 1..Len(F)
          BY <4>1, <5>1
        <5> QED  BY <5>1, <5>2 DEF Bar
      <4>3. b.start <= Newest(F).start
        <5>1. i = Len(F) \/ b.start < F[Len(F)].start
          BY <4>1, <4>2 DEF Rising
        <5> QED  BY <1>1, <4>1, <4>2, <5>1 DEF Newest
      <4> QED  BY <1>1, <3>1, <4>2, <4>3
    <3>3. Extended(F, G, new)
      <4> SUFFICES ASSUME F # <<>>, Newest(F).start = fs PROVE FALSE
        BY <1>4 DEF Ticked
      <4>1. Bucket(last, fast) = fs /\ Bucket(last, fast) < ss
        BY <3>1
      <4> QED  BY <1>1, <4>1
    <3>4. /\ new.start = fs /\ new.open = price /\ new.high = price /\ new.low = price
          /\ new.close = price
      BY <1>1, <2>0 DEF FirstOf
    <3>5. new \in Range(G) /\ Range(G) \subseteq Range(F) \cup {new}
      BY <3>3 DEF Extended
    <3> HIDE DEF late, new
    <3>6. Under(Range(G), late, slow) = {new}
      <4>1. \A b \in Range(G) : b = new \/ b.start < ss
        BY <3>2, <3>5
      <4>2. \A b \in Range(G) : b.start \in Int
        BY <1>3 DEF Bar
      <4> QED  BY <1>1, <2>1, <3>4, <3>5, <4>1, <4>2 DEF Under
    <3> QED  BY <1>1, <2>0, <2>1, <2>3, <3>4, <3>6, TellsFirst
  <2> QED  BY <2>2, <2>3
<1> QED  BY <1>5, <1>10, <1>11 DEF Ticked

(* All series start with the first tick, and any two of them agree.         *)
StoryInv ==
  /\ \A period \in Timeframes : series[period] = <<>> <=> ticks = <<>>
  /\ \A fast, slow \in Timeframes :
       fast < slow /\ slow % fast = 0 => Agreed(series[fast], series[slow], slow)

LEMMA StoryStart == BarsInit => StoryInv
<1> SUFFICES ASSUME BarsInit PROVE StoryInv
  OBVIOUS
<1>1. ticks = <<>> /\ \A period \in Timeframes : series[period] = <<>>
  BY DEF BarsInit
<1>2. Range(<<>>) = {}
  BY DEF Range
<1> QED  BY <1>1, <1>2 DEF StoryInv, Agreed

LEMMA StoryStep == BarsInv /\ StoryInv /\ [BarsNext]_barsVars => StoryInv'
<1> SUFFICES ASSUME BarsInv, StoryInv, [BarsNext]_barsVars PROVE StoryInv'
  OBVIOUS
<1>1. CASE UNCHANGED barsVars
  BY <1>1 DEF barsVars, StoryInv
<1>2. ASSUME NEW when \in 0..LastTime, NEW price \in Prices,
             FeedTick([when |-> when, price |-> price])
      PROVE  StoryInv'
  <2> DEFINE tick == [when |-> when, price |-> price]
  <2>1. tick \in Tick /\ tick.when \in Int
    BY BarsAssumption DEF Tick
  <2>2. /\ ticks # <<>> => Newest(ticks).when <= tick.when
        /\ ticks' = Appended(ticks, tick, MaxTicks)
        /\ series' = [period \in Timeframes |-> Rolled(series[period], period, tick)]
    BY <1>2 DEF FeedTick, AddTick
  <2> HIDE DEF tick
  <2>3. ticks' # <<>>
    <3>1. ticks' \in Seq(Tick) /\ Len(ticks') \in 1..MaxTicks
      BY <2>1, <2>2, BarsAssumption, AppendedIsBounded DEF BarsInv, BarsTypeOK
    <3> QED  BY <3>1
  <2> DEFINE last == IF ticks = <<>> THEN tick.when ELSE Newest(ticks).when
  <2>4. last \in Int /\ last <= tick.when
    <3>1. CASE ticks = <<>>
      BY <2>1, <3>1
    <3>2. CASE ticks # <<>>
      <4>1. Newest(ticks) \in Tick
        BY <3>2 DEF BarsInv, BarsTypeOK, Newest
      <4> QED  BY <2>2, <3>2, <4>1 DEF Tick
    <3> QED  BY <3>1, <3>2
  <2>5. ASSUME NEW period \in Timeframes
        PROVE  /\ Rising(series[period], period)
               /\ series[period] = <<>> <=> ticks = <<>>
               /\ series[period] # <<>> => Newest(series[period]).start = Bucket(last, period)
    BY DEF BarsInv, BarsTypeOK, BarsAscend, Rising, StoryInv
  <2> HIDE DEF last
  <2>6. ASSUME NEW period \in Timeframes PROVE series'[period] # <<>>
    <3>1. period \in Nat \ {0} /\ tick.when \in Int
      BY <2>1, BarsAssumption
    <3>2. Bucket(last, period) <= Bucket(tick.when, period)
      BY <2>4, <3>1, BucketsRise
    <3> QED  BY <2>1, <2>2, <2>5, <3>2, RolledRises
  <2>7. ASSUME NEW fast \in Timeframes, NEW slow \in Timeframes, fast < slow, slow % fast = 0
        PROVE  Agreed(series'[fast], series'[slow], slow)
    <3>1. Agreed(series[fast], series[slow], slow)
      BY <2>7 DEF StoryInv
    <3>2. series[fast] = <<>> <=> series[slow] = <<>>
      BY <2>5
    <3>3. Agreed(Rolled(series[fast], fast, tick), Rolled(series[slow], slow, tick), slow)
      BY <2>1, <2>4, <2>5, <2>7, <3>1, <3>2, AgreedStep
    <3> QED  BY <2>2, <3>3
  <2> QED  BY <2>3, <2>6, <2>7 DEF StoryInv
<1> QED  BY <1>1, <1>2 DEF BarsNext

(* The bars by their places.                                                *)
LEMMA StoryTold ==
  ASSUME BarsInv, StoryInv
  PROVE  TimeframesAgree
<1> SUFFICES ASSUME NEW fast \in Timeframes, NEW slow \in Timeframes,
                    fast < slow, slow % fast = 0, NEW n \in 1..Len(series[slow]),
                    Covered(fast, series[slow][n])
             PROVE  LET bar    == series[slow][n]
                        inside == Inside(fast, bar, slow)
                    IN  /\ \A i \in inside : series[fast][i].high <= bar.high
                                             /\ series[fast][i].low >= bar.low
                        /\ \E i \in inside : series[fast][i].high = bar.high
                        /\ \E i \in inside : series[fast][i].low = bar.low
                        /\ \E i \in inside : /\ \A j \in inside : i <= j
                                             /\ series[fast][i].open = bar.open
                        /\ \E i \in inside : /\ \A j \in inside : j <= i
                                             /\ series[fast][i].close = bar.close
  BY DEF TimeframesAgree
<1> DEFINE bar == series[slow][n]
           F == series[fast]
           inside == Inside(fast, bar, slow)
           place == Under(Range(F), bar, slow)
<1>1. Rising(F, fast) /\ Rising(series[slow], slow)
  BY DEF BarsInv, BarsTypeOK, BarsAscend, Rising
<1>2. /\ Range(F) = {F[i] : i \in 1..Len(F)} /\ Len(F) \in Nat
      /\ \A i \in 1..Len(F) : F[i].start \in Int
      /\ \A i, j \in 1..Len(F) : i < j => F[i].start < F[j].start
  <2>1. \A i, j \in 1..Len(F) : i < j => F[i].start < F[j].start
    BY <1>1 DEF Rising
  <2> QED  BY <1>1, <2>1, RisingRange
<1>3. bar \in Range(series[slow])
  BY <1>1, RisingRange
<1>4. Tells(Range(F), bar, slow)
  <2>1. Agreed(F, series[slow], slow)
    BY DEF StoryInv
  <2> QED  BY <1>3, <2>1 DEF Agreed, Reaches, Covered
<1>5. /\ inside \in SUBSET (1..Len(F))
      /\ \A i \in inside : F[i] \in place
      /\ \A b \in place : \E i \in inside : b = F[i]
  BY <1>2 DEF Inside, Under
<1>6. \A i, j \in inside : F[i].start <= F[j].start => i <= j
  <2> SUFFICES ASSUME NEW i \in inside, NEW j \in inside, F[i].start <= F[j].start, j < i
               PROVE  FALSE
    BY <1>5
  <2>1. F[j].start < F[i].start /\ F[i].start \in Int /\ F[j].start \in Int
    BY <1>2, <1>5
  <2> QED  BY <2>1
<1>7. /\ \A b \in place : b.high <= bar.high /\ b.low >= bar.low
      /\ \E b \in place : b.high = bar.high
      /\ \E b \in place : b.low = bar.low
      /\ \E b \in place : b.open = bar.open /\ \A c \in place : b.start <= c.start
      /\ \E b \in place : b.close = bar.close /\ \A c \in place : c.start <= b.start
  BY <1>4 DEF Tells
<1> HIDE DEF inside, place, bar, F
<1>8. \A i \in inside : F[i].high <= bar.high /\ F[i].low >= bar.low
  BY <1>5, <1>7
<1>9. (\E i \in inside : F[i].high = bar.high) /\ \E i \in inside : F[i].low = bar.low
  BY <1>5, <1>7
<1>10. \E i \in inside : (\A j \in inside : i <= j) /\ F[i].open = bar.open
  BY <1>5, <1>6, <1>7
<1>11. \E i \in inside : (\A j \in inside : j <= i) /\ F[i].close = bar.close
  BY <1>5, <1>6, <1>7
<1> QED  BY <1>8, <1>9, <1>10, <1>11 DEF inside, bar, F

(* Whatever the prices and limits, a slow bar tells the same story as the   *)
(* fast bars of its time, as long as these are all still held: independent  *)
(* rolls of one tick stay consistent (SymbolState.add_tick).                *)
THEOREM TimeframesTellOneStory == BarsSpec => []TimeframesAgree
<1>1. BarsInv /\ StoryInv => TimeframesAgree
  BY StoryTold
<1> QED  BY <1>1, BarsStart, BarsStep, StoryStart, StoryStep, PTL DEF BarsSpec
================================================================================
