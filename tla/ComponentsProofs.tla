---------------------------- MODULE ComponentsProofs ----------------------------
(***************************************************************************)
(* Proofs about the components beside the risk path: how the data a model  *)
(* is trained on is recorded, fetched, bought, joined and labelled, what   *)
(* the EMA strategy may propose, and what the panel lets through and shows. *)
(***************************************************************************)
EXTENDS MCComponents, BarsProofs

--------------------------------------------------------------------------------
(* Paging (BitstampClient.history).                                         *)

(* Each page but the last has moved the cursor by more than Spacing.        *)
PagingInv ==
  /\ cursor \in Nat /\ requests \in Nat
  /\ venue \subseteq Stamps
  /\ paging = "on" => WindowStart + requests * (Spacing + 1) <= cursor
  /\ RequestsBounded

(* The stamps of a page are finitely many, so that it has a furthest.       *)
LEMMA FurthestIsThere ==
  ASSUME PagingInv, NEW page \in Pages
  PROVE  Furthest(page.stamps) \in Nat
<1> DEFINE P == page.stamps \cup {cursor}
<1>1. page.stamps \subseteq Stamps
  <2>1. FirstRows \subseteq Stamps
    BY DEF FirstRows, PagingInv
  <2>2. CASE honest
    BY <2>1, <2>2 DEF Pages
  <2>3. CASE ~honest
    BY <2>3 DEF Pages
  <2> QED  BY <2>2, <2>3
<1>2. P \in SUBSET Nat /\ IsFiniteSet(P) /\ P # {}
  BY <1>1, OhlcAssumption, FS_Subset, FS_AddElement DEF PagingInv
<1>3. \E m \in P : \A n \in P : n <= m
  BY <1>2, HasGreatest
<1>4. Furthest(page.stamps) \in P
  BY <1>3 DEF Furthest
<1> QED  BY <1>2, <1>4

(* One more request inside the window is within the bound.                  *)
LEMMA OneMoreRequest ==
  ASSUME PagingInv, paging = "on", cursor <= WindowEnd, requests' = requests + 1
  PROVE  RequestsBounded'
<1>1. requests * (Spacing + 1) <= WindowEnd - WindowStart
  <2>1. requests * (Spacing + 1) \in Nat
    BY OhlcAssumption DEF PagingInv
  <2> QED  BY <2>1, OhlcAssumption DEF PagingInv
<1>2. requests' - 1 = requests
  BY DEF PagingInv
<1> QED  BY <1>1, <1>2 DEF RequestsBounded

LEMMA PagesCounted == OhlcSpec => []PagingInv
<1>1. OhlcInit => PagingInv
  BY OhlcAssumption DEF OhlcInit, PagingInv, RequestsBounded
<1>2. PagingInv /\ [OhlcNext]_ohlcVars => PagingInv'
  <2> SUFFICES ASSUME PagingInv, [OhlcNext]_ohlcVars PROVE PagingInv'
    OBVIOUS
  <2>1. CASE RequestPage
    <3>1. /\ paging = "on" /\ cursor <= WindowEnd /\ requests' = requests + 1
          /\ UNCHANGED venue
      BY <2>1 DEF RequestPage
    <3>2. PICK page \in Pages :
            IF LastPage(page)
            THEN paging' = "done" /\ UNCHANGED cursor
            ELSE cursor' = Advanced(page) /\ UNCHANGED paging
      BY <2>1 DEF RequestPage
    <3>3. RequestsBounded' /\ requests' \in Nat
      BY <3>1, OneMoreRequest DEF PagingInv
    <3>4. CASE LastPage(page)
      BY <3>1, <3>2, <3>3, <3>4 DEF PagingInv
    <3>5. CASE ~LastPage(page)
      <4> DEFINE far == Furthest(page.stamps)
      <4>1. far \in Nat /\ cursor' = far + Spacing /\ ~(far <= cursor)
        BY <3>2, <3>5, FurthestIsThere DEF LastPage, Advanced
      <4> HIDE DEF far
      <4>2. requests' * (Spacing + 1) = requests * (Spacing + 1) + (Spacing + 1)
        BY <3>1, OhlcAssumption DEF PagingInv
      <4>3. requests * (Spacing + 1) \in Nat /\ Spacing \in Nat /\ WindowStart \in Nat
        BY OhlcAssumption DEF PagingInv
      <4>4. WindowStart + requests' * (Spacing + 1) <= cursor' /\ cursor' \in Nat
        BY <3>1, <4>1, <4>2, <4>3 DEF PagingInv
      <4> QED  BY <3>1, <3>3, <4>4 DEF PagingInv
    <3> QED  BY <3>4, <3>5
  <2>2. CASE RequestRaises
    <3>1. RequestsBounded' /\ requests' \in Nat
      BY <2>2, OneMoreRequest DEF RequestRaises, PagingInv
    <3> QED  BY <2>2, <3>1 DEF RequestRaises, PagingInv
  <2>3. CASE Covering
    BY <2>3 DEF Covering, PagingInv, RequestsBounded
  <2>4. CASE UNCHANGED ohlcVars
    BY <2>4 DEF ohlcVars, PagingInv, RequestsBounded
  <2> QED  BY <2>1, <2>2, <2>3, <2>4 DEF OhlcNext
<1> QED  BY <1>1, <1>2, PTL DEF OhlcSpec

(* Whatever the server answers, the number of pages asked for is bounded by *)
(* the length of the window: a page that does not move the cursor is the    *)
(* last (the loop of BitstampClient.history).                               *)
THEOREM PagingEnds == OhlcSpec => []RequestsBounded
<1>1. PagingInv => RequestsBounded
  BY DEF PagingInv
<1> QED  BY <1>1, PagesCounted, PTL

(* The bars of the window the cursor has gone past.                         *)
Passed(c) == {t \in venue \cap (WindowStart..WindowEnd) : t < c}

CompleteInv ==
  /\ venue \in SUBSET {t \in Stamps : t % Spacing = 0}
  /\ cursor \in Nat /\ cursor >= WindowStart
  /\ honest /\ paging = "on" => rows = Passed(cursor)
  /\ HonestComplete

(* Stamps a multiple of the spacing apart leave nothing between a bar and   *)
(* the place where the next page starts.                                    *)
LEMMA NothingBetween ==
  ASSUME NEW a \in Nat, NEW b \in Nat, a % Spacing = 0, b % Spacing = 0,
         a < b + Spacing
  PROVE  a <= b
<1>1. Spacing \in Nat \ {0}
  BY OhlcAssumption
<1>2. \A n \in Nat : n % Spacing = 0 => \E k \in Nat : n = Spacing * k
  <2> SUFFICES ASSUME NEW n \in Nat, n % Spacing = 0
               PROVE  n = Spacing * (n \div Spacing) /\ n \div Spacing \in Nat
    OBVIOUS
  <2> QED  BY <1>1
<1>3. PICK p \in Nat, q \in Nat : a = Spacing * p /\ b = Spacing * q
  BY <1>2
<1>4. SUFFICES ASSUME ~(p <= q) PROVE FALSE
  <2>1. p <= q => Spacing * p <= Spacing * q
    BY <1>1, <1>3
  <2> QED  BY <1>3, <2>1
<1>5. p >= q + 1
  BY <1>3, <1>4
<1>6. Spacing * p >= Spacing * (q + 1) /\ Spacing * (q + 1) = Spacing * q + Spacing
  BY <1>1, <1>3, <1>5
<1> QED  BY <1>1, <1>3, <1>6

(* The first rows are everything ahead, or a full page that leaves out only *)
(* later bars.                                                              *)
LEMMA FirstRowsAreFirst ==
  ASSUME venue \in SUBSET Nat, IsFiniteSet(venue), cursor \in Nat
  PROVE  LET ahead == {t \in venue : t >= cursor}
         IN  /\ FirstRows \subseteq ahead
             /\ \A t \in FirstRows, u \in ahead : u < t => u \in FirstRows
             /\ IsFiniteSet(FirstRows) /\ Cardinality(FirstRows) \in Nat
             /\ FirstRows = ahead \/ Cardinality(FirstRows) = Limit
<1> DEFINE ahead == {t \in venue : t >= cursor}
           before(t) == {u \in ahead : u < t}
<1>0. Limit \in Nat /\ Limit >= 2
  BY OhlcAssumption
<1>1. ahead \in SUBSET Nat /\ IsFiniteSet(ahead)
  BY FS_Subset
<1>2. FirstRows = {t \in ahead : Cardinality(before(t)) < Limit}
  BY DEF FirstRows
<1> HIDE DEF ahead
<1>2a. \A t, u : u \in before(t) <=> u \in ahead /\ u < t
  OBVIOUS
<1> HIDE DEF before
<1>3. \A S \in SUBSET ahead : IsFiniteSet(S) /\ Cardinality(S) \in Nat
  BY <1>1, FS_Subset, FS_CardinalityType
<1>4. ASSUME NEW t \in ahead, NEW u \in ahead, u < t
      PROVE  Cardinality(before(u)) <= Cardinality(before(t))
  <2>1. before(u) \in SUBSET before(t) /\ before(t) \in SUBSET ahead
    <3>1. u \in Nat /\ t \in Nat /\ \A v \in ahead : v \in Nat
      BY <1>1
    <3>2. ASSUME NEW v \in before(u) PROVE v \in before(t)
      <4>1. v \in ahead /\ v < u
        BY <1>2a
      <4>2. v < t
        BY <1>4, <3>1, <4>1
      <4> QED  BY <1>2a, <4>1, <4>2
    <3> QED  BY <1>2a, <3>2
  <2> QED  BY <1>3, <2>1, FS_Subset
<1>5. \A t \in FirstRows, u \in ahead : u < t => u \in FirstRows
  <2> SUFFICES ASSUME NEW t \in FirstRows, NEW u \in ahead, u < t
               PROVE  u \in FirstRows
    OBVIOUS
  <2>1. t \in ahead /\ Cardinality(before(t)) < Limit
    BY <1>2
  <2>2. Cardinality(before(u)) <= Cardinality(before(t))
    BY <1>4, <2>1
  <2>3. Cardinality(before(u)) \in Nat /\ Cardinality(before(t)) \in Nat
    BY <1>2a, <1>3
  <2> QED  BY <1>0, <1>2, <2>1, <2>2, <2>3
<1>6. FirstRows \in SUBSET ahead /\ IsFiniteSet(FirstRows) /\ Cardinality(FirstRows) \in Nat
  BY <1>2, <1>3
<1>7. ASSUME FirstRows # ahead PROVE Cardinality(FirstRows) = Limit
  <2>1. PICK x \in ahead \ FirstRows : \A y \in ahead \ FirstRows : x <= y
    <3>1. ahead \ FirstRows \in SUBSET Nat /\ ahead \ FirstRows # {}
      BY <1>1, <1>6, <1>7
    <3> QED  BY <3>1, HasLeast
  <2>2. FirstRows = before(x)
    <3>1. x \in Nat /\ x \in ahead /\ x \notin FirstRows /\ \A v \in ahead : v \in Nat
      BY <1>1, <2>1
    <3>2. \A v : v \in FirstRows => v \in ahead /\ v < x
      BY <1>5, <1>6, <3>1
    <3>3. \A v : v \in ahead /\ v < x => v \in FirstRows
      BY <2>1, <3>1
    <3> QED  BY <1>2a, <3>2, <3>3
  <2>3. Cardinality(FirstRows) >= Limit
    <3>1. ~(Cardinality(before(x)) < Limit)
      BY <1>2, <2>1
    <3> QED  BY <1>0, <1>6, <2>2, <3>1
  <2>4. FirstRows # {}
    BY <1>0, <2>3, FS_EmptySet
  <2>5. PICK g \in FirstRows : \A n \in FirstRows : n <= g
    BY <1>1, <1>6, <2>4, HasGreatest
  <2>6. before(g) = FirstRows \ {g}
    <3>1. g \in Nat /\ g \in ahead /\ \A v \in ahead : v \in Nat
      BY <1>1, <1>6
    <3>2. \A v : v \in FirstRows /\ v # g => v \in ahead /\ v < g
      BY <1>6, <2>5, <3>1
    <3>3. \A v : v \in ahead /\ v < g => v \in FirstRows /\ v # g
      BY <1>5, <3>1
    <3> QED  BY <1>2a, <3>2, <3>3
  <2>7. Cardinality(before(g)) = Cardinality(FirstRows) - 1
    BY <1>6, <2>5, <2>6, FS_RemoveElement
  <2>8. Cardinality(before(g)) < Limit
    BY <1>2, <2>5
  <2> QED  BY <1>0, <1>6, <2>3, <2>7, <2>8
<1> QED  BY <1>5, <1>6, <1>7 DEF ahead

(* What a page of an honest server adds.                                    *)
LEMMA HonestPage ==
  ASSUME CompleteInv, honest, paging = "on", RequestPage
  PROVE  CompleteInv'
<1> DEFINE ahead == {t \in venue : t >= cursor}
           P == FirstRows
           W == WindowStart..WindowEnd
           far == Furthest(P)
<1>1. venue \in SUBSET Nat /\ IsFiniteSet(venue) /\ \A t \in venue : t % Spacing = 0
  BY OhlcAssumption, FS_Subset DEF CompleteInv
<1>2. cursor \in Nat /\ Spacing \in Nat \ {0} /\ Limit \in Nat /\ Limit >= 2 /\ WindowStart \in Nat
  BY OhlcAssumption DEF CompleteInv
<1>3. /\ P \in SUBSET ahead /\ \A t \in P, u \in ahead : u < t => u \in P
      /\ IsFiniteSet(P) /\ Cardinality(P) \in Nat
      /\ P = ahead \/ Cardinality(P) = Limit
  BY <1>1, <1>2, FirstRowsAreFirst
<1> HIDE DEF P
<1> DEFINE page == [stamps |-> P, full |-> Cardinality(P) = Limit]
<1>4. /\ rows' = rows \cup (P \cap W) /\ UNCHANGED <<venue, honest>>
      /\ IF LastPage(page)
         THEN paging' = "done" /\ bars' = KeptOf(rows') /\ UNCHANGED cursor
         ELSE cursor' = Advanced(page) /\ UNCHANGED <<paging, bars>>
  <2>1. Pages = {page}
    BY DEF Pages, P
  <2> QED  BY <2>1 DEF RequestPage
<1>5. far \in P \cup {cursor} /\ \A u \in P \cup {cursor} : u <= far
  <2> DEFINE Q == P \cup {cursor}
  <2>1. Q \in SUBSET Nat /\ IsFiniteSet(Q) /\ Q # {}
    BY <1>1, <1>2, <1>3, FS_AddElement
  <2>2. \E m \in Q : \A n \in Q : n <= m
    BY <2>1, HasGreatest
  <2> QED  BY <2>2 DEF Furthest
<1>6. page.stamps = P /\ page.full = (Cardinality(P) = Limit) /\ Furthest(page.stamps) = far
  OBVIOUS
<1> HIDE DEF far, page
<1>7. rows = Passed(cursor)
  BY DEF CompleteInv
<1>8. CASE LastPage(page)
  <2>1. P = ahead
    <3>1. CASE P = {} \/ Cardinality(P) # Limit
      BY <1>2, <1>3, <3>1, FS_EmptySet
    <3>2. CASE far <= cursor
      <4>1. P \in SUBSET {cursor}
        BY <1>1, <1>2, <1>3, <1>5, <3>2
      <4>2. Cardinality(P) <= 1
        <5>1. IsFiniteSet({cursor}) /\ Cardinality({cursor}) = 1
          BY FS_Singleton
        <5> QED  BY <4>1, <5>1, FS_Subset
      <4> QED  BY <1>2, <1>3, <4>2
    <3> QED  BY <1>6, <1>8, <3>1, <3>2 DEF LastPage
  <2>2. rows' = venue \cap W
    BY <1>1, <1>2, <1>4, <1>7, <2>1 DEF Passed
  <2>3. bars' = KeptOf(venue' \cap W) /\ paging' = "done" /\ cursor' = cursor
    BY <1>4, <1>8, <2>2
  <2> QED  BY <1>4, <2>3 DEF CompleteInv, HonestComplete
<1>9. CASE ~LastPage(page)
  <2>1. cursor' = far + Spacing /\ paging' = "on" /\ far > cursor
    <3>1. far \in Nat
      BY <1>1, <1>2, <1>3, <1>5
    <3> QED  BY <1>2, <1>4, <1>6, <1>9, <3>1 DEF LastPage, Advanced
  <2>2. far \in P /\ far \in venue /\ far \in Nat
    BY <1>1, <1>2, <1>3, <1>5, <2>1
  <2>3. ASSUME NEW t \in venue, t \in Nat
        PROVE  t < far + Spacing <=> (t < cursor \/ t \in P)
    <3>1. t < far + Spacing => t <= far
      BY <1>1, <2>2, <2>3, NothingBetween
    <3>2. t <= far /\ ~(t < cursor) => t \in P
      BY <1>2, <1>3, <2>2, <2>3
    <3>3. t \in P => t <= far
      BY <1>5
    <3> QED  BY <1>2, <2>1, <2>2, <2>3, <3>1, <3>2, <3>3
  <2>4. rows' = Passed(far + Spacing)
    BY <1>1, <1>3, <1>4, <1>7, <2>3 DEF Passed
  <2>5. rows' = Passed(cursor)'
    BY <1>4, <2>1, <2>4 DEF Passed
  <2>6. cursor' \in Nat /\ cursor' >= WindowStart
    BY <1>2, <2>1, <2>2 DEF CompleteInv
  <2> QED  BY <1>4, <2>1, <2>5, <2>6 DEF CompleteInv, HonestComplete
<1> QED  BY <1>8, <1>9

(* From a server that answers as documented the pages put together hold     *)
(* every bar of the window, for any venue, window, page length and spacing: *)
(* none is skipped where two pages meet (BitstampClient.history).           *)
THEOREM PagesMeet == OhlcSpec => []HonestComplete
<1>1. OhlcInit => CompleteInv
  BY OhlcAssumption DEF OhlcInit, CompleteInv, HonestComplete, Passed
<1>2. CompleteInv /\ PagingInv /\ [OhlcNext]_ohlcVars => CompleteInv'
  <2> SUFFICES ASSUME CompleteInv, PagingInv, [OhlcNext]_ohlcVars PROVE CompleteInv'
    OBVIOUS
  <2>1. CASE RequestPage /\ honest
    BY <2>1, HonestPage DEF RequestPage
  <2>2. CASE RequestPage /\ ~honest
    <3>1. PICK page \in Pages :
            IF LastPage(page)
            THEN UNCHANGED cursor
            ELSE cursor' = Advanced(page)
      BY <2>2 DEF RequestPage
    <3>2. Furthest(page.stamps) \in Nat
      BY FurthestIsThere
    <3>3. cursor' \in Nat /\ cursor' >= WindowStart
      BY <3>1, <3>2, OhlcAssumption DEF CompleteInv, LastPage, Advanced
    <3>4. honest' = honest /\ venue' = venue
      BY <2>2 DEF RequestPage
    <3> QED  BY <2>2, <3>3, <3>4 DEF CompleteInv, HonestComplete
  <2>3. CASE RequestRaises
    BY <2>3 DEF RequestRaises, CompleteInv, HonestComplete
  <2>4. CASE Covering
    <3>1. honest => rows = venue \cap (WindowStart..WindowEnd)
      BY <2>4, OhlcAssumption DEF Covering, CompleteInv, Passed
    <3> QED  BY <2>4, <3>1 DEF Covering, CompleteInv, HonestComplete
  <2>5. CASE UNCHANGED ohlcVars
    BY <2>5 DEF ohlcVars, CompleteInv, HonestComplete, Passed
  <2> QED  BY <2>1, <2>2, <2>3, <2>4, <2>5 DEF OhlcNext
<1>3. CompleteInv => HonestComplete
  BY DEF CompleteInv
<1> QED  BY <1>1, <1>2, <1>3, PagesCounted, PTL DEF OhlcSpec

--------------------------------------------------------------------------------
(* Buying (fetch_depth.py).                                                 *)

PurchaseInv == PurchaseTypeOK /\ BilledOnce

LEMMA PurchasesTyped == PurchaseSpec => []PurchaseInv
<1>1. PurchaseInit => PurchaseInv
  BY PurchaseAssumption DEF PurchaseInit, PurchaseInv, PurchaseTypeOK, BilledOnce
<1>2. PurchaseInv /\ [PurchaseNext]_purchaseVars => PurchaseInv'
  <2> SUFFICES ASSUME PurchaseInv, [PurchaseNext]_purchaseVars PROVE PurchaseInv'
    OBVIOUS
  <2> USE PurchaseAssumption DEF PurchaseInv, PurchaseTypeOK, BilledOnce
  <2>1. CASE Invoke
    BY <2>1 DEF Invoke
  <2>2. CASE FindKey
    BY <2>2 DEF FindKey
  <2>3. CASE NoEstimate \/ Declined \/ VendorRefuses
    BY <2>3 DEF NoEstimate, Declined, VendorRefuses
  <2>4. CASE Order
    BY <2>4 DEF Order, MayBuy
  <2>5. CASE Downloaded
    BY <2>5 DEF Downloaded, Billed
  <2>6. CASE BrokenOff
    BY <2>6 DEF BrokenOff, Billed, Lost
  <2>7. CASE Saved
    BY <2>7 DEF Saved
  <2>8. CASE SaveBreaks
    BY <2>8 DEF SaveBreaks, Lost
  <2>9. CASE DeletePart
    BY <2>9 DEF DeletePart
  <2>10. CASE UNCHANGED purchaseVars
    BY <2>10 DEF purchaseVars
  <2> QED  BY <2>1, <2>2, <2>3, <2>4, <2>5, <2>6, <2>7, <2>8, <2>9, <2>10
           DEF PurchaseNext
<1> QED  BY <1>1, <1>2, PTL DEF PurchaseSpec

(* A query is paid for again only when the copy paid for before was lost,   *)
(* and a whole file is never bought again: for any queries, prices and      *)
(* limits, wherever downloads and writes break off (main).                  *)
THEOREM NothingBoughtTwice == PurchaseSpec => []BilledOnce
<1>1. PurchaseInv => BilledOnce
  BY DEF PurchaseInv
<1> QED  BY <1>1, PurchasesTyped, PTL

--------------------------------------------------------------------------------
(* Labels (triple_barrier.py).                                              *)

(* The recorded quotes are never crossed.                                   *)
PathInv ==
  /\ path \in Seq(QuotedTick)
  /\ \A i \in DOMAIN path : path[i].bid <= path[i].ask

LEMMA LatestType ==
  ASSUME PathInv
  PROVE  Latest(path) \in Nat
<1>1. CASE path = <<>>
  BY <1>1 DEF Latest
<1>2. CASE path # <<>>
  <2>1. Latest(path) = path[Len(path)].when /\ path[Len(path)] \in QuotedTick
    BY <1>2 DEF PathInv, Latest
  <2> QED  BY <2>1 DEF QuotedTick
<1> QED  BY <1>1, <1>2

LEMMA RecordedPath == BarrierSpec => []PathInv
<1>1. BarrierInit => PathInv
  BY DEF BarrierInit, PathInv
<1>2. PathInv /\ [BarrierNext]_path => PathInv'
  <2> SUFFICES ASSUME PathInv, [BarrierNext]_path PROVE PathInv'
    OBVIOUS
  <2>1. ASSUME NEW quote \in Quotes, NEW gap \in Gaps, Record(quote, gap)
        PROVE  PathInv'
    <3> DEFINE tick == [when |-> Latest(path) + gap, bid |-> quote.bid, ask |-> quote.ask]
    <3>1. tick \in QuotedTick /\ tick.bid <= tick.ask
      BY LatestType, BarrierAssumption DEF QuotedTick
    <3>2. path' = Append(path, tick) /\ path \in Seq(QuotedTick)
      BY <2>1 DEF Record, PathInv
    <3> HIDE DEF tick
    <3>3. path' \in Seq(QuotedTick) /\ DOMAIN path' = 1..Len(path) + 1
      BY <3>1, <3>2
    <3>4. path'[Len(path) + 1] = tick /\ \A i \in 1..Len(path) : path'[i] = path[i]
      BY <3>1, <3>2
    <3>5. \A i \in DOMAIN path' : path'[i].bid <= path'[i].ask
      BY <3>1, <3>2, <3>3, <3>4 DEF PathInv
    <3> QED  BY <3>3, <3>5 DEF PathInv
  <2>2. CASE UNCHANGED path
    BY <2>2 DEF PathInv
  <2> QED  BY <2>1, <2>2 DEF BarrierNext
<1> QED  BY <1>1, <1>2, PTL DEF BarrierSpec

(* The first and the last of a set of ticks are in it.                      *)
LEMMA FirstIsFirst ==
  ASSUME PathInv, NEW I \in SUBSET DOMAIN path, I # {}
  PROVE  First(I) \in I /\ \A j \in I : First(I) <= j
<1>1. I \in SUBSET Nat
  BY DEF PathInv
<1> QED  BY <1>1, HasLeast DEF First

LEMMA FinalIsFinal ==
  ASSUME PathInv, NEW I \in SUBSET DOMAIN path, I # {}
  PROVE  Final(I) \in I /\ \A j \in I : j <= Final(I)
<1>1. I \in SUBSET Nat /\ I \in SUBSET (1..Len(path)) /\ Len(path) \in Nat
  BY DEF PathInv
<1>2. IsFiniteSet(I)
  BY <1>1, FS_Interval, FS_Subset
<1>3. \E m \in I : \A n \in I : n <= m
  BY <1>1, <1>2, HasGreatest
<1> QED  BY <1>3 DEF Final

(* A win on one side puts an adverse tick before any on the other: they     *)
(* cannot both come first.                                                  *)
LEMMA OneSideWins ==
  ASSUME PathInv, Stop <= Target, NEW I \in SUBSET DOMAIN path, I # {},
         Resolve(LongTargets(I), LongStops(I)) = WIN,
         Resolve(ShortTargets(I), ShortStops(I)) = WIN
  PROVE  FALSE
<1> DEFINE e == path[First(I)]  i == First(LongTargets(I))  j == First(ShortTargets(I))
<1>1. e \in QuotedTick /\ e.bid <= e.ask /\ Stop \in Int /\ Target \in Int
  BY FirstIsFirst, BarrierAssumption DEF PathInv
<1>2. /\ LongTargets(I) # {}
      /\ LongStops(I) = {} \/ First(LongTargets(I)) < First(LongStops(I))
      /\ ShortTargets(I) # {}
      /\ ShortStops(I) = {} \/ First(ShortTargets(I)) < First(ShortStops(I))
  BY DEF Resolve, WIN, LOSS, TIMEOUT
<1>3. /\ LongTargets(I) \in SUBSET DOMAIN path /\ LongStops(I) \in SUBSET DOMAIN path
      /\ ShortTargets(I) \in SUBSET DOMAIN path /\ ShortStops(I) \in SUBSET DOMAIN path
  BY DEF LongTargets, LongStops, ShortTargets, ShortStops
<1>4. i \in LongTargets(I) /\ j \in ShortTargets(I)
  BY <1>2, <1>3, FirstIsFirst
<1>5. /\ path[i] \in QuotedTick /\ path[i].bid <= path[i].ask
      /\ path[j] \in QuotedTick /\ path[j].bid <= path[j].ask
      /\ i \in Nat /\ j \in Nat
  BY <1>3, <1>4 DEF PathInv
<1>6. i \in I /\ path[i].bid >= e.ask + Target /\ j \in I /\ path[j].ask <= e.bid - Target
  BY <1>4 DEF LongTargets, ShortTargets
<1> HIDE DEF e, i, j
<1>7. path[i].ask >= e.bid + Stop /\ path[j].bid <= e.ask - Stop
  BY <1>1, <1>5, <1>6 DEF QuotedTick
<1>8. i \in ShortStops(I) /\ j \in LongStops(I)
  BY <1>6, <1>7 DEF ShortStops, LongStops, e
<1>9. First(ShortStops(I)) <= i /\ First(ShortStops(I)) \in Nat
  BY <1>3, <1>8, FirstIsFirst DEF PathInv
<1>10. First(LongStops(I)) <= j /\ First(LongStops(I)) \in Nat
  BY <1>3, <1>8, FirstIsFirst DEF PathInv
<1>11. j < i /\ i < j
  BY <1>2, <1>5, <1>8, <1>9, <1>10 DEF i, j
<1> QED  BY <1>5, <1>11

(* On every path of uncrossed quotes, of any length, at most one side of a  *)
(* row wins when the stop is no farther than the target (label_row, and the *)
(* comment on tb_label in main).                                            *)
THEOREM OneWinAtMost == BarrierSpec => []NeverBothWin
<1>1. PathInv => NeverBothWin
  <2> SUFFICES ASSUME PathInv, Stop <= Target, NEW row \in Entries,
                      LongOf(row).outcome = WIN, ShortOf(row).outcome = WIN
               PROVE  FALSE
    BY DEF NeverBothWin, BothWin
  <2> DEFINE I == Observed(row)
  <2>1. I \in SUBSET DOMAIN path
    BY DEF Observed
  <2>2. I # {}
    BY DEF LongOf, Unseen, WIN, TIMEOUT
  <2>3. /\ Resolve(LongTargets(I), LongStops(I)) = WIN
        /\ Resolve(ShortTargets(I), ShortStops(I)) = WIN
    BY <2>2 DEF LongOf, ShortOf, Outcome
  <2> QED  BY <2>1, <2>2, <2>3, OneSideWins
<1> QED  BY <1>1, RecordedPath, PTL

(* Labels computed from a set of ticks do not change while these do not.    *)
LEMMA SameTicksSameLabels ==
  ASSUME PathInv, NEW row \in Entries, NEW I \in SUBSET DOMAIN path,
         I = Observed(row), I = Observed(row)',
         \A i \in DOMAIN path : path'[i] = path[i]
  PROVE  Labelled(row)' = Labelled(row)
<1>1. CASE I = {}
  <2>1. LongOf(row)' = LongOf(row) /\ ShortOf(row)' = ShortOf(row)
    BY <1>1 DEF LongOf, ShortOf
  <2> QED  BY <2>1 DEF Labelled, Label, LabelPnl
<1>2. CASE I # {}
  <2> DEFINE f == First(I)  l == Final(I)
  <2>1. f \in I /\ l \in I
    BY <1>2, FirstIsFirst, FinalIsFinal
  <2>2. /\ path'[f] = path[f] /\ path'[l] = path[l]
        /\ \A i \in I : path'[i] = path[i]
    BY <2>1
  <2>3. /\ LongTargets(I)' = LongTargets(I) /\ LongStops(I)' = LongStops(I)
        /\ ShortTargets(I)' = ShortTargets(I) /\ ShortStops(I)' = ShortStops(I)
    BY <2>2 DEF LongTargets, LongStops, ShortTargets, ShortStops
  <2>4. LongOf(row) = Outcome(LongTargets(I), LongStops(I), I, path[l].bid - path[f].ask)
    BY <1>2 DEF LongOf
  <2>5. LongOf(row)' =
          Outcome(LongTargets(I)', LongStops(I)', I, path'[l].bid - path'[f].ask)
    BY <1>2 DEF LongOf
  <2>6. ShortOf(row) = Outcome(ShortTargets(I), ShortStops(I), I, path[f].bid - path[l].ask)
    BY <1>2 DEF ShortOf
  <2>7. ShortOf(row)' =
          Outcome(ShortTargets(I)', ShortStops(I)', I, path'[f].bid - path'[l].ask)
    BY <1>2 DEF ShortOf
  <2>8. LongOf(row)' = LongOf(row) /\ ShortOf(row)' = ShortOf(row)
    BY <2>2, <2>3, <2>4, <2>5, <2>6, <2>7
  <2> QED  BY <2>8 DEF Labelled, Label, LabelPnl
<1> QED  BY <1>1, <1>2

(* The labels of a row whose whole window was recorded stay what they are   *)
(* however much is recorded afterwards, on any path, for any time barrier   *)
(* (tb_truncated, main).                                                    *)
THEOREM LabelsStay == BarrierSpec => LabelsFinal
<1> DEFINE Stay == \A row \in Entries :
                     ~Truncated(row) /\ Latest(path') # row + Hold =>
                       Labelled(row)' = Labelled(row)
<1>1. ASSUME PathInv, NEW quote \in Quotes, NEW gap \in Gaps, Record(quote, gap)
      PROVE  Stay
  <2> DEFINE tick == [when |-> Latest(path) + gap, bid |-> quote.bid, ask |-> quote.ask]
             n == Len(path)
  <2>1. /\ tick.when = Latest(path) + gap /\ Latest(path) \in Nat
        /\ gap \in Nat /\ Hold \in Nat /\ Entries \subseteq Nat
    BY <1>1, LatestType, BarrierAssumption
  <2>2. path \in Seq(QuotedTick) /\ path' = Append(path, tick)
    BY <1>1 DEF PathInv, Record
  <2> HIDE DEF tick
  <2>3. /\ DOMAIN path = 1..n /\ DOMAIN path' = (1..n) \cup {n + 1} /\ n \in Nat
        /\ path'[n + 1] = tick /\ path' # <<>> /\ Len(path') = n + 1
        /\ \A i \in 1..n : path'[i] = path[i]
    BY <2>2
  <2>4. Latest(path') = tick.when
    BY <2>3 DEF Latest
  <2> SUFFICES ASSUME NEW row \in Entries, ~Truncated(row), Latest(path') # row + Hold
               PROVE  Labelled(row)' = Labelled(row)
    OBVIOUS
  <2>5. tick.when > row + Hold
    BY <2>1, <2>4 DEF Truncated
  <2>6. ~(tick.when <= row + Hold)
    BY <2>1, <2>5
  <2> HIDE DEF n
  <2>7. Observed(row)' = Observed(row)
    BY <2>3, <2>6 DEF Observed
  <2>8. PICK I \in SUBSET DOMAIN path : I = Observed(row)
    BY DEF Observed
  <2> QED  BY <1>1, <2>3, <2>7, <2>8, SameTicksSameLabels
<1>2. PathInv /\ [BarrierNext]_path => [Stay]_path
  BY <1>1 DEF BarrierNext
<1> QED  BY <1>2, RecordedPath, PTL DEF BarrierSpec, LabelsFinal

(* What came first of two disjoint sets of ticks decides.                   *)
LEMMA FirstDecides ==
  ASSUME PathInv, NEW I \in SUBSET DOMAIN path, NEW T \in SUBSET I, NEW S \in SUBSET I,
         T \cap S = {}
  PROVE  Resolve(T, S) = IF T \cup S = {} THEN TIMEOUT
                         ELSE IF First(T \cup S) \in S THEN LOSS ELSE WIN
<1> DEFINE h == First(T \cup S)
<1>1. DOMAIN path \subseteq Nat
  BY DEF PathInv
<1>2. T # {} => First(T) \in T /\ \A j \in T : First(T) <= j
  BY FirstIsFirst
<1>3. S # {} => First(S) \in S /\ \A j \in S : First(S) <= j
  BY FirstIsFirst
<1>4. T \cup S # {} => h \in T \cup S /\ \A j \in T \cup S : h <= j
  BY FirstIsFirst
<1> HIDE DEF h
<1>5. CASE T \cup S = {}
  BY <1>5 DEF Resolve
<1>6. CASE T \cup S # {} /\ h \in S
  <2>1. S # {} /\ ~(T # {} /\ (S = {} \/ First(T) < First(S)))
    BY <1>1, <1>2, <1>3, <1>4, <1>6
  <2> QED  BY <1>6, <2>1 DEF Resolve, h
<1>7. CASE T \cup S # {} /\ h \notin S
  <2>1. T # {} /\ h \in T
    BY <1>4, <1>7
  <2>2. S # {} => First(T) < First(S)
    <3> SUFFICES ASSUME S # {} PROVE First(T) < First(S)
      OBVIOUS
    <3>1. First(T) <= h /\ h <= First(S) /\ h # First(S)
      BY <1>2, <1>3, <1>4, <1>7, <2>1
    <3>2. First(T) \in Nat /\ h \in Nat /\ First(S) \in Nat
      BY <1>1, <1>2, <1>3, <2>1
    <3> QED  BY <3>1, <3>2
  <2> QED  BY <1>7, <2>1, <2>2 DEF Resolve, h
<1> QED  BY <1>5, <1>6, <1>7

(* A row whose spread at the entry is less than the stop.                   *)
NarrowEntry(I) ==
  /\ PathInv /\ I \in SUBSET DOMAIN path /\ I # {}
  /\ path[First(I)].ask - path[First(I)].bid < Stop

LEMMA NarrowTicks ==
  ASSUME NEW I, NarrowEntry(I)
  PROVE  /\ First(I) \in I /\ Stop \in Nat \ {0} /\ Target \in Nat \ {0}
         /\ \A i \in I : path[i].bid \in Int /\ path[i].ask \in Int
                         /\ path[i].bid <= path[i].ask
<1>1. First(I) \in I
  BY FirstIsFirst DEF NarrowEntry
<1>2. ASSUME NEW i \in I
      PROVE  path[i].bid \in Int /\ path[i].ask \in Int /\ path[i].bid <= path[i].ask
  <2>1. path[i] \in QuotedTick /\ path[i].bid <= path[i].ask
    BY DEF NarrowEntry, PathInv
  <2> QED  BY <2>1 DEF QuotedTick
<1> QED  BY <1>1, <1>2, BarrierAssumption

LEMMA LongLikeTheBroker ==
  ASSUME NEW row \in Entries, NEW I, I = Observed(row), NarrowEntry(I)
  PROVE  LongOf(row).outcome = BrokerOutcome(row, "BUY")
<1> DEFINE f == First(I)
           p == Broker!NewPosition("row", "BUY", 1, Stop, Target, path[f])
           hits == {i \in I \ {f} : Broker!Hit(p, path[i])}
           T == LongTargets(I)
           S == LongStops(I)
<1>1. /\ f \in I /\ Stop \in Nat \ {0} /\ Target \in Nat \ {0}
      /\ \A i \in I : path[i].bid \in Int /\ path[i].ask \in Int
                      /\ path[i].bid <= path[i].ask
      /\ path[f].ask - path[f].bid < Stop
  BY NarrowTicks DEF NarrowEntry
<1>2. /\ p.side = "BUY" /\ p.stopLoss = path[f].ask - Stop
      /\ p.takeProfit = path[f].ask + Target
  BY <1>1 DEF Broker!NewPosition
<1> HIDE DEF p
<1>3. \A i \in I : /\ Broker!StopHit(p, path[i]) <=> i \in S
                   /\ Broker!TargetHit(p, path[i]) <=> i \in T
  BY <1>2 DEF Broker!StopHit, Broker!TargetHit, Broker!ExitPrice, LongTargets, LongStops
<1>4. T \in SUBSET I /\ S \in SUBSET I /\ T \cap S = {}
  BY <1>1 DEF LongTargets, LongStops
<1>5. f \notin T \cup S
  BY <1>1 DEF LongTargets, LongStops
<1>6. hits = T \cup S
  BY <1>3, <1>4, <1>5 DEF Broker!Hit
<1>7. LongOf(row).outcome = Resolve(T, S)
  BY DEF LongOf, Outcome, NarrowEntry
<1>8. BrokerOutcome(row, "BUY") =
        IF hits = {} THEN TIMEOUT
        ELSE IF Broker!StopHit(p, path[First(hits)]) THEN LOSS ELSE WIN
  BY DEF BrokerOutcome, p
<1>9. Resolve(T, S) = IF T \cup S = {} THEN TIMEOUT
                      ELSE IF First(T \cup S) \in S THEN LOSS ELSE WIN
  BY <1>4, FirstDecides DEF NarrowEntry
<1>10. hits # {} => First(hits) \in I
  BY <1>4, <1>6, FirstIsFirst DEF NarrowEntry
<1> QED  BY <1>3, <1>6, <1>7, <1>8, <1>9, <1>10

LEMMA ShortLikeTheBroker ==
  ASSUME NEW row \in Entries, NEW I, I = Observed(row), NarrowEntry(I)
  PROVE  ShortOf(row).outcome = BrokerOutcome(row, "SELL")
<1> DEFINE f == First(I)
           p == Broker!NewPosition("row", "SELL", 1, Stop, Target, path[f])
           hits == {i \in I \ {f} : Broker!Hit(p, path[i])}
           T == ShortTargets(I)
           S == ShortStops(I)
<1>1. /\ f \in I /\ Stop \in Nat \ {0} /\ Target \in Nat \ {0}
      /\ \A i \in I : path[i].bid \in Int /\ path[i].ask \in Int
                      /\ path[i].bid <= path[i].ask
      /\ path[f].ask - path[f].bid < Stop
  BY NarrowTicks DEF NarrowEntry
<1>2. /\ p.side = "SELL" /\ p.stopLoss = path[f].bid + Stop
      /\ p.takeProfit = path[f].bid - Target
  BY <1>1 DEF Broker!NewPosition
<1> HIDE DEF p
<1>3. \A i \in I : /\ Broker!StopHit(p, path[i]) <=> i \in S
                   /\ Broker!TargetHit(p, path[i]) <=> i \in T
  BY <1>2 DEF Broker!StopHit, Broker!TargetHit, Broker!ExitPrice, ShortTargets, ShortStops
<1>4. T \in SUBSET I /\ S \in SUBSET I /\ T \cap S = {}
  BY <1>1 DEF ShortTargets, ShortStops
<1>5. f \notin T \cup S
  BY <1>1 DEF ShortTargets, ShortStops
<1>6. hits = T \cup S
  BY <1>3, <1>4, <1>5 DEF Broker!Hit
<1>7. ShortOf(row).outcome = Resolve(T, S)
  BY DEF ShortOf, Outcome, NarrowEntry
<1>8. BrokerOutcome(row, "SELL") =
        IF hits = {} THEN TIMEOUT
        ELSE IF Broker!StopHit(p, path[First(hits)]) THEN LOSS ELSE WIN
  BY DEF BrokerOutcome, p
<1>9. Resolve(T, S) = IF T \cup S = {} THEN TIMEOUT
                      ELSE IF First(T \cup S) \in S THEN LOSS ELSE WIN
  BY <1>4, FirstDecides DEF NarrowEntry
<1>10. hits # {} => First(hits) \in I
  BY <1>4, <1>6, FirstIsFirst DEF NarrowEntry
<1> QED  BY <1>3, <1>6, <1>7, <1>8, <1>9, <1>10

(* On every path, for any barriers and holding time, a label says what the  *)
(* paper broker would have done with the trade when the spread at the entry *)
(* is less than the stop (label_row, PaperBroker.on_tick).                  *)
THEOREM LabelsAreTheBrokers == BarrierSpec => []LabelsMatchBroker
<1>1. PathInv => LabelsMatchBroker
  <2> SUFFICES ASSUME PathInv, NEW row \in Entries, Observed(row) # {},
                      path[First(Observed(row))].ask - path[First(Observed(row))].bid < Stop
               PROVE  /\ LongOf(row).outcome = BrokerOutcome(row, "BUY")
                      /\ ShortOf(row).outcome = BrokerOutcome(row, "SELL")
    BY DEF LabelsMatchBroker
  <2>1. NarrowEntry(Observed(row))
    BY DEF NarrowEntry, Observed
  <2> QED  BY <2>1, LongLikeTheBroker, ShortLikeTheBroker
<1> QED  BY <1>1, RecordedPath, PTL

--------------------------------------------------------------------------------
(* The books of the bars (depth_features.py convert, merge_depth.py).       *)

(* What convert writes: for some bars, a book recorded during each.         *)
Tables ==
  {t \in UNION {[B -> Nat] : B \in SUBSET Nat} :
     \A b \in DOMAIN t : b <= t[b] /\ t[b] < b + BarLength}

Rows == [stamp : Nat, book : Nat]

OfItsBar(r) == r.book # 0 => r.stamp <= r.book /\ r.book < r.stamp + BarLength

LEMMA EmptyTable == <<>> \in Tables
<1>1. <<>> \in [{} -> Nat]
  OBVIOUS
<1>2. DOMAIN <<>> = {}
  OBVIOUS
<1> QED  BY <1>1, <1>2 DEF Tables

LEMMA TableFields ==
  ASSUME NEW t \in Tables
  PROVE  /\ DOMAIN t \subseteq Nat
         /\ t \in [DOMAIN t -> Nat]
         /\ \A b \in DOMAIN t : t[b] \in Nat /\ b <= t[b] /\ t[b] < b + BarLength
BY DEF Tables

LEMMA Remainder ==
  ASSUME NEW ts \in Nat, NEW n \in Nat \ {0}
  PROVE  ts % n \in Nat /\ ts % n < n /\ ts % n <= ts
OBVIOUS

LEMMA StampedIsTime ==
  ASSUME NEW u \in Updates
  PROVE  /\ Stamped(u) \in Nat /\ BarStart(Stamped(u)) \in Nat
         /\ BarStart(Stamped(u)) <= Stamped(u)
         /\ Stamped(u) < BarStart(Stamped(u)) + BarLength
<1>1. Stamped(u) \in Nat
  BY DatasetAssumption DEF Stamped, Updates
<1>2. BarLength \in Nat \ {0}
  BY DatasetAssumption
<1> DEFINE ts == Stamped(u)
           rest == ts % BarLength
<1>3. rest \in Nat /\ rest < BarLength /\ rest <= ts
  BY <1>1, <1>2, Remainder
<1>4. BarStart(ts) = ts - rest
  BY DEF BarStart
<1> HIDE DEF ts, rest
<1>5. ts \in Nat
  BY <1>1 DEF ts
<1>6. BarStart(ts) \in Nat /\ BarStart(ts) <= ts /\ ts < BarStart(ts) + BarLength
  BY <1>2, <1>3, <1>4, <1>5
<1> QED  BY <1>5, <1>6 DEF ts

(* One more update read: the table still tells a book of each bar, and the  *)
(* latest of those read.                                                    *)
LEMMA KeptTable ==
  ASSUME last \in Tables, NEW u \in Updates
  PROVE  /\ Kept(u) \in Tables
         /\ DOMAIN Kept(u) = DOMAIN last \cup {BarStart(Stamped(u))}
         /\ Kept(u)[BarStart(Stamped(u))] >= Stamped(u)
         /\ \A b \in DOMAIN last : Kept(u)[b] >= last[b]
<1> DEFINE ts == Stamped(u)
           bar == BarStart(ts)
           newer == bar \notin DOMAIN last \/ ts >= last[bar]
           B == DOMAIN last \cup {bar}
<1>1. ts \in Nat /\ bar \in Nat /\ bar <= ts /\ ts < bar + BarLength
  BY StampedIsTime
<1>2. Kept(u) = [b \in B |-> IF b = bar /\ newer THEN ts ELSE last[b]]
  BY DEF Kept
<1> HIDE DEF ts, bar
<1>3. B \subseteq Nat
  BY <1>1, TableFields
<1>4. \A b \in B : b # bar \/ ~newer => b \in DOMAIN last
  OBVIOUS
<1>5. \A b \in B : Kept(u)[b] \in Nat /\ b <= Kept(u)[b] /\ Kept(u)[b] < b + BarLength
  BY <1>1, <1>2, <1>4, TableFields
<1>6. Kept(u) \in [B -> Nat] /\ DOMAIN Kept(u) = B
  BY <1>2, <1>5
<1>7. Kept(u) \in Tables
  BY <1>3, <1>5, <1>6 DEF Tables
<1>8. Kept(u)[bar] >= ts
  BY <1>1, <1>2, <1>4, TableFields
<1>9. \A b \in DOMAIN last : Kept(u)[b] >= last[b]
  <2> SUFFICES ASSUME NEW b \in DOMAIN last PROVE Kept(u)[b] >= last[b]
    OBVIOUS
  <2>1. last[b] \in Nat
    BY TableFields
  <2> QED  BY <1>1, <1>2, <2>1
<1> QED  BY <1>6, <1>7, <1>8, <1>9 DEF ts, bar

LEMMA FeatureDays ==
  /\ DOMAIN Features = 1..Len(Features) /\ Len(Features) \in Nat \ {0}
  /\ \A d \in DOMAIN Features : /\ Features[d] \in Seq(Nat)
                                /\ DOMAIN Features[d] = 1..Len(Features[d])
<1>1. Features \in Seq(Seq(Nat) \ {<<>>}) /\ Features # <<>>
  BY DatasetAssumption
<1> QED  BY <1>1

LEMMA BookOfBar ==
  ASSUME pool \in Seq(Tables), NEW bar \in Nat
  PROVE  /\ BookAt(bar) \in Nat
         /\ BookAt(bar) # 0 => bar <= BookAt(bar) /\ BookAt(bar) < bar + BarLength
<1>1. CASE InPool(bar) = {}
  BY <1>1 DEF BookAt
<1>2. CASE InPool(bar) # {}
  <2>1. InPool(bar) \subseteq 1..Len(pool) /\ Len(pool) \in Nat
    BY DEF InPool
  <2>2. IsFiniteSet(InPool(bar)) /\ InPool(bar) \in SUBSET Nat
    <3>1. IsFiniteSet(1..Len(pool))
      BY <2>1, FS_Interval
    <3> QED  BY <2>1, <3>1, FS_Subset
  <2>3. \E m \in InPool(bar) : \A n \in InPool(bar) : m >= n
    <3>1. PICK m \in InPool(bar) : \A n \in InPool(bar) : n <= m
      BY <1>2, <2>2, HasGreatest
    <3> QED  BY <2>2, <3>1
  <2>4. Max(InPool(bar)) \in InPool(bar)
    BY <2>3 DEF Max
  <2>5. PICK m \in DOMAIN pool : bar \in DOMAIN pool[m] /\ BookAt(bar) = pool[m][bar]
    BY <1>2, <2>4 DEF InPool, BookAt
  <2>6. pool[m] \in Tables
    BY <2>1
  <2> QED  BY <2>5, <2>6, TableFields
<1> QED  BY <1>1, <1>2

LEMMA JoinedRows ==
  ASSUME pool \in Seq(Tables), NEW d \in DOMAIN Features
  PROVE  /\ Joined(d) \in Seq(Rows) /\ Len(Joined(d)) = Len(Features[d])
         /\ \A i \in DOMAIN Joined(d) : OfItsBar(Joined(d)[i])
<1>1. \A i \in DOMAIN Features[d] : Features[d][i] \in Nat
  BY FeatureDays
<1>2. \A i \in DOMAIN Features[d] :
        Joined(d)[i] \in Rows /\ OfItsBar(Joined(d)[i])
  <2> SUFFICES ASSUME NEW i \in DOMAIN Features[d]
               PROVE  Joined(d)[i] \in Rows /\ OfItsBar(Joined(d)[i])
    OBVIOUS
  <2>1. Joined(d)[i] = [stamp |-> Features[d][i], book |-> BookAt(Features[d][i])]
    BY DEF Joined
  <2>2. /\ BookAt(Features[d][i]) \in Nat
        /\ BookAt(Features[d][i]) # 0 =>
             /\ Features[d][i] <= BookAt(Features[d][i])
             /\ BookAt(Features[d][i]) < Features[d][i] + BarLength
    BY <1>1, BookOfBar
  <2> QED  BY <1>1, <2>1, <2>2 DEF Rows, OfItsBar
<1> DEFINE n == Len(Features[d])
<1>3. n \in Nat /\ DOMAIN Features[d] = 1..n
  BY FeatureDays
<1>4. Joined(d) = [i \in 1..n |-> Joined(d)[i]]
  BY <1>3 DEF Joined
<1> HIDE DEF n
<1>5. Joined(d) \in [1..n -> Rows]
  BY <1>2, <1>3, <1>4
<1>6. Joined(d) \in Seq(Rows) /\ Len(Joined(d)) = n /\ DOMAIN Joined(d) = 1..n
  BY <1>3, <1>5
<1> QED  BY <1>2, <1>3, <1>6 DEF n

Outputs == [csv : Nat, whole : BOOLEAN, rows : Seq(Rows), provenance : Nat]

(* What was read is in the table, and every table and merged row tells of   *)
(* each bar a book of that bar.                                             *)
BookInv ==
  /\ download \in Seq(Updates) /\ taken \in Nat /\ taken <= Len(download)
  /\ last \in Tables /\ pool \in Seq(Tables)
  /\ task \in {"convert", "idle", "csv", "rows", "provenance"}
  /\ task \in {"csv", "rows", "provenance"} => day \in DOMAIN Features
  /\ day \in Nat /\ runs \in Nat
  /\ out \in [DOMAIN Features -> Outputs]
  /\ BookIsLatestOfBar

LEMMA NextDayIsADay ==
  ASSUME day \in DOMAIN Features, NextDay
  PROVE  /\ day' \in DOMAIN Features /\ task' \in {"csv", "idle"}
         /\ task' = "csv" => day' = day + 1
BY FeatureDays DEF NextDay

(* A step that changes nothing of a day but its stamps of CSV and           *)
(* provenance, or puts rows of their bars there, keeps the rows right.      *)
LEMMA BookStep ==
  ASSUME BookInv, [DatasetNext]_datasetVars
  PROVE  BookInv'
<1>1. CASE ReadUpdate
  <2>1. /\ task = "convert" /\ taken < Len(download) /\ taken' = taken + 1
        /\ last' = Kept(download[taken + 1])
        /\ UNCHANGED <<download, pool, task, day, runs, out>>
    BY <1>1 DEF ReadUpdate
  <2>2. taken + 1 \in 1..Len(download) /\ download[taken + 1] \in Updates
    BY <2>1 DEF BookInv
  <2> DEFINE u == download[taken + 1]
  <2>3. /\ Kept(u) \in Tables
        /\ DOMAIN Kept(u) = DOMAIN last \cup {BarStart(Stamped(u))}
        /\ Kept(u)[BarStart(Stamped(u))] >= Stamped(u)
        /\ \A b \in DOMAIN last : Kept(u)[b] >= last[b]
    BY <2>2, KeptTable DEF BookInv
  <2>4. ASSUME NEW i \in 1..taken + 1
        PROVE  /\ BarStart(Stamped(download[i])) \in DOMAIN last'
               /\ Stamped(download[i]) <= last'[BarStart(Stamped(download[i]))]
    <3>1. CASE i = taken + 1
      BY <3>1, <2>1, <2>2, <2>3, StampedIsTime, TableFields
    <3>2. CASE i \in 1..taken
      <4> DEFINE ts == Stamped(download[i])
      <4>1. BarStart(ts) \in DOMAIN last /\ ts <= last[BarStart(ts)]
        BY <3>2, <2>1 DEF BookInv, BookIsLatestOfBar
      <4>2. ts \in Nat
        <5>1. download[i] \in Updates
          BY <3>2, <2>1 DEF BookInv
        <5> QED  BY <5>1, StampedIsTime
      <4>3. last[BarStart(ts)] \in Nat /\ Kept(u)[BarStart(ts)] \in Nat
        BY <4>1, <2>3, TableFields DEF BookInv
      <4> HIDE DEF ts, u
      <4>4. ts <= Kept(u)[BarStart(ts)]
        BY <4>1, <4>2, <4>3, <2>3
      <4> QED  BY <4>1, <4>4, <2>1, <2>3 DEF ts, u
    <3> QED  BY <3>1, <3>2 DEF BookInv
  <2>5. BookIsLatestOfBar'
    BY <2>1, <2>4 DEF BookInv, BookIsLatestOfBar
  <2> QED  BY <2>1, <2>2, <2>3, <2>5 DEF BookInv
<1>2. CASE Converted
  BY <1>2 DEF Converted, BookInv, BookIsLatestOfBar
<1>3. CASE DownloadMore
  <2>1. PICK u \in Updates : download' = <<u>>
    BY <1>3 DEF DownloadMore
  <2>2. download' \in Seq(Updates) /\ Len(download') = 1
    BY <2>1
  <2>3. taken' = 0 /\ last' = <<>> /\ task' = "convert" /\ UNCHANGED <<pool, day, runs, out>>
    BY <1>3 DEF DownloadMore
  <2>4. BookIsLatestOfBar'
    BY <2>3 DEF BookInv, BookIsLatestOfBar
  <2> QED  BY <2>2, <2>3, <2>4, EmptyTable DEF BookInv
<1>4. CASE StartMerge
  BY <1>4, FeatureDays DEF StartMerge, BookInv, BookIsLatestOfBar
<1>5. CASE MergeRefused
  BY <1>5 DEF MergeRefused, BookInv, BookIsLatestOfBar
<1>6. CASE SkipDay
  <2>1. day' \in DOMAIN Features /\ task' \in {"csv", "idle"} /\ day' \in Nat
    BY <1>6, NextDayIsADay, FeatureDays DEF SkipDay, BookInv
  <2> QED  BY <1>6, <2>1 DEF SkipDay, BookInv, BookIsLatestOfBar
<1>7. CASE OpenOut
  <2>1. /\ day \in DOMAIN Features /\ task = "csv" /\ task' = "rows"
        /\ out' = [out EXCEPT ![day].csv = runs, ![day].whole = FALSE, ![day].rows = <<>>]
        /\ UNCHANGED <<download, taken, last, pool, day, runs>>
    BY <1>7 DEF OpenOut, BookInv
  <2>2. out' \in [DOMAIN Features -> Outputs]
    <3>1. out[day] \in Outputs
      BY <2>1 DEF BookInv
    <3>2. out'[day] = [out[day] EXCEPT !.csv = runs, !.whole = FALSE, !.rows = <<>>]
      BY <2>1 DEF BookInv
    <3>3. out'[day] \in Outputs
      <4>1. out'[day] = [ csv |-> runs, whole |-> FALSE, rows |-> <<>>,
                          provenance |-> out[day].provenance ]
        BY <3>1, <3>2 DEF Outputs
      <4>2. runs \in Nat /\ <<>> \in Seq(Rows) /\ out[day].provenance \in Nat
        BY <3>1 DEF BookInv, Outputs
      <4> QED  BY <4>1, <4>2 DEF Outputs
    <3>4. \A d \in DOMAIN Features \ {day} : out'[d] = out[d]
      BY <2>1 DEF BookInv
    <3>5. DOMAIN out' = DOMAIN Features /\ out' = [d \in DOMAIN out' |-> out'[d]]
      BY <2>1 DEF BookInv
    <3> QED  BY <3>3, <3>4, <3>5 DEF BookInv
  <2>3. out'[day].rows = <<>> /\ \A d \in DOMAIN Features \ {day} : out'[d] = out[d]
    BY <2>1 DEF BookInv, Outputs
  <2>4. BookIsLatestOfBar'
    BY <2>1, <2>2, <2>3 DEF BookInv, BookIsLatestOfBar
  <2> QED  BY <2>1, <2>2, <2>4 DEF BookInv
<1>8. CASE WriteRows
  <2>1. /\ day \in DOMAIN Features /\ task = "rows" /\ task' = "provenance"
        /\ out' = [out EXCEPT ![day].whole = TRUE, ![day].rows = Joined(day)]
        /\ UNCHANGED <<download, taken, last, pool, day, runs>>
    BY <1>8 DEF WriteRows, BookInv
  <2>2. /\ Joined(day) \in Seq(Rows)
        /\ \A i \in DOMAIN Joined(day) : OfItsBar(Joined(day)[i])
    BY <2>1, JoinedRows DEF BookInv
  <2>3. out' \in [DOMAIN Features -> Outputs]
    BY <2>1, <2>2 DEF BookInv, Outputs
  <2>4. out'[day].rows = Joined(day) /\ \A d \in DOMAIN Features \ {day} : out'[d] = out[d]
    BY <2>1 DEF BookInv, Outputs
  <2>5. BookIsLatestOfBar'
    BY <2>1, <2>2, <2>3, <2>4 DEF BookInv, BookIsLatestOfBar, OfItsBar
  <2> QED  BY <2>1, <2>3, <2>5 DEF BookInv
<1>9. CASE WriteProvenance
  <2>1. /\ day \in DOMAIN Features /\ task = "provenance" /\ NextDay
        /\ out' = [out EXCEPT ![day].provenance = runs]
        /\ UNCHANGED <<download, taken, last, pool, runs>>
    BY <1>9 DEF WriteProvenance, BookInv
  <2>2. day' \in DOMAIN Features /\ task' \in {"csv", "idle"} /\ day' \in Nat
    BY <2>1, NextDayIsADay, FeatureDays
  <2>3. out' \in [DOMAIN Features -> Outputs]
    BY <2>1 DEF BookInv, Outputs
  <2>4. \A d \in DOMAIN Features : out'[d].rows = out[d].rows
    BY <2>1 DEF BookInv, Outputs
  <2>5. BookIsLatestOfBar'
    BY <2>1, <2>2, <2>3, <2>4 DEF BookInv, BookIsLatestOfBar
  <2> QED  BY <2>1, <2>2, <2>3, <2>5 DEF BookInv
<1>10. CASE CutOff
  BY <1>10 DEF CutOff, BookInv, BookIsLatestOfBar
<1>11. CASE UNCHANGED datasetVars
  BY <1>11 DEF datasetVars, BookInv, BookIsLatestOfBar
<1> QED  BY <1>1, <1>2, <1>3, <1>4, <1>5, <1>6, <1>7, <1>8, <1>9, <1>10, <1>11
         DEF DatasetNext

LEMMA BookInit == DatasetInit => BookInv
<1> SUFFICES ASSUME DatasetInit PROVE BookInv
  OBVIOUS
<1>1. PICK n \in 1..MaxUpdates : download \in [1..n -> Updates]
  BY DEF DatasetInit
<1>2. n \in Nat
  BY DatasetAssumption
<1>3. download \in Seq(Updates) /\ Len(download) \in Nat
  BY <1>1, <1>2
<1>4. <<>> \in Seq(Tables)
  OBVIOUS
<1>5. Absent \in Outputs /\ Absent.rows = <<>>
  BY DEF Absent, Outputs
<1>6. out \in [DOMAIN Features -> Outputs] /\ \A d \in DOMAIN Features : out[d].rows = <<>>
  BY <1>5 DEF DatasetInit
<1>7. BookIsLatestOfBar
  BY <1>6 DEF DatasetInit, BookIsLatestOfBar
<1> QED  BY <1>3, <1>4, <1>6, <1>7, EmptyTable DEF DatasetInit, BookInv

LEMMA BooksAreTyped == DatasetSpec => []BookInv
<1>1. BookInv /\ [DatasetNext]_datasetVars => BookInv'
  BY BookStep
<1> QED  BY <1>1, BookInit, PTL DEF DatasetSpec

(* Whatever the order of the records, the number of downloads and the runs  *)
(* cut off, the book of a bar is the latest of those read for it, and a     *)
(* merged row has one of its own bar (convert, _merge_one).                 *)
THEOREM BooksAreOfTheirBars == DatasetSpec => []BookIsLatestOfBar
<1>1. BookInv => BookIsLatestOfBar
  BY DEF BookInv
<1> QED  BY <1>1, BooksAreTyped, PTL

--------------------------------------------------------------------------------
(* What is on disk when a merge is cut off (merge_depth.py _write).         *)

Settled(d) == /\ out[d].csv = runs /\ out[d].whole
              /\ Len(out[d].rows) = Len(Features[d])

(* The output of a day is of the current run from the moment its CSV is     *)
(* opened; what is there of the days to come is of earlier runs.            *)
MergeInv ==
  /\ \A d \in DOMAIN Features : out[d].csv <= runs
  /\ task \in {"csv", "rows", "provenance"} =>
       \A d \in DOMAIN Features : d > day => out[d].csv < runs
  /\ task = "csv" => out[day].csv < runs
  /\ task = "rows" => out[day].csv = runs /\ out[day].provenance < runs
  /\ task = "provenance" => Settled(day)
  /\ ProvenanceFollowsRows

LEMMA OutputFields ==
  ASSUME BookInv, NEW d \in DOMAIN Features
  PROVE  /\ out[d] \in Outputs /\ d \in Nat
         /\ out[d].csv \in Nat /\ out[d].provenance \in Nat
BY FeatureDays DEF BookInv, Outputs

LEMMA MergeStep ==
  ASSUME BookInv, BookInv', MergeInv, [DatasetNext]_datasetVars
  PROVE  MergeInv'
<1>0. day \in Nat /\ runs \in Nat /\ DOMAIN out = DOMAIN Features /\ DOMAIN out' = DOMAIN Features
  BY DEF BookInv
<1>1. CASE ReadUpdate \/ Converted \/ DownloadMore \/ CutOff \/ UNCHANGED datasetVars
  BY <1>1 DEF ReadUpdate, Converted, DownloadMore, CutOff, datasetVars, MergeInv, Settled,
              ProvenanceFollowsRows
<1>2. CASE StartMerge \/ MergeRefused
  <2>1. runs' = runs + 1 /\ out' = out /\ task' \in {"csv", "idle"}
    BY <1>2 DEF StartMerge, MergeRefused
  <2>2. task' = "csv" => day' \in DOMAIN Features
    BY DEF BookInv
  <2>3. \A d \in DOMAIN Features : out'[d].csv < runs'
    BY <1>0, <2>1, OutputFields DEF MergeInv
  <2>4. ProvenanceFollowsRows'
    BY <2>1 DEF MergeInv, ProvenanceFollowsRows
  <2>5. \A d \in DOMAIN Features : out'[d].csv <= runs'
    BY <1>0, <2>1, OutputFields DEF MergeInv
  <2> QED  BY <2>1, <2>2, <2>3, <2>4, <2>5 DEF MergeInv
<1>3. CASE SkipDay
  <2>1. /\ day \in DOMAIN Features /\ task = "csv" /\ NextDay
        /\ out' = out /\ runs' = runs
    BY <1>3 DEF SkipDay, BookInv
  <2>2. task' \in {"csv", "idle"} /\ (task' = "csv" => day' = day + 1 /\ day' \in DOMAIN Features)
    BY <2>1, NextDayIsADay
  <2>3. task' = "csv" => /\ out'[day'].csv < runs'
                         /\ \A d \in DOMAIN Features : d > day' => out'[d].csv < runs'
    BY <1>0, <2>1, <2>2, OutputFields DEF MergeInv
  <2> QED  BY <2>1, <2>2, <2>3 DEF MergeInv, ProvenanceFollowsRows
<1>4. CASE OpenOut
  <2>1. /\ day \in DOMAIN Features /\ task = "csv" /\ task' = "rows"
        /\ out' = [out EXCEPT ![day].csv = runs, ![day].whole = FALSE, ![day].rows = <<>>]
        /\ day' = day /\ runs' = runs
    BY <1>4 DEF OpenOut, BookInv
  <2>2. /\ out'[day].csv = runs /\ out'[day].provenance = out[day].provenance
        /\ \A d \in DOMAIN Features \ {day} : out'[d] = out[d]
    BY <2>1 DEF BookInv, Outputs
  <2>3. out[day].provenance < runs
    <3>1. out[day].provenance <= out[day].csv /\ out[day].csv < runs
      BY <1>0, <2>1 DEF MergeInv, ProvenanceFollowsRows
    <3> QED  BY <3>1, <1>0, <2>1, OutputFields
  <2>4. ProvenanceFollowsRows'
    <3> SUFFICES ASSUME NEW d \in DOMAIN Features
                 PROVE  /\ out'[d].provenance <= out'[d].csv
                        /\ out'[d].provenance = out'[d].csv /\ out'[d].csv > 0 =>
                             out'[d].whole /\ Len(out'[d].rows) = Len(Features[d])
      BY <1>0 DEF ProvenanceFollowsRows
    <3>1. CASE d = day
      BY <3>1, <2>1, <2>2, <2>3, <1>0, OutputFields
    <3>2. CASE d # day
      BY <3>2, <2>2, <1>0 DEF MergeInv, ProvenanceFollowsRows
    <3> QED  BY <3>1, <3>2
  <2>5. \A d \in DOMAIN Features : /\ out'[d].csv <= runs
                                   /\ d > day => out'[d].csv < runs
    BY <1>0, <2>1, <2>2 DEF MergeInv
  <2> QED  BY <2>1, <2>2, <2>3, <2>4, <2>5 DEF MergeInv
<1>5. CASE WriteRows
  <2>1. /\ day \in DOMAIN Features /\ task = "rows" /\ task' = "provenance"
        /\ out' = [out EXCEPT ![day].whole = TRUE, ![day].rows = Joined(day)]
        /\ day' = day /\ runs' = runs
    BY <1>5 DEF WriteRows, BookInv
  <2>2. /\ out'[day].csv = out[day].csv /\ out'[day].provenance = out[day].provenance
        /\ out'[day].whole /\ out'[day].rows = Joined(day)
        /\ \A d \in DOMAIN Features \ {day} : out'[d] = out[d]
    BY <2>1 DEF BookInv, Outputs
  <2>3. Len(Joined(day)) = Len(Features[day])
    BY <2>1, JoinedRows DEF BookInv
  <2>4. ProvenanceFollowsRows'
    <3> SUFFICES ASSUME NEW d \in DOMAIN Features
                 PROVE  /\ out'[d].provenance <= out'[d].csv
                        /\ out'[d].provenance = out'[d].csv /\ out'[d].csv > 0 =>
                             out'[d].whole /\ Len(out'[d].rows) = Len(Features[d])
      BY <1>0 DEF ProvenanceFollowsRows
    <3>1. CASE d = day
      BY <3>1, <2>2, <2>3, <1>0 DEF MergeInv, ProvenanceFollowsRows
    <3>2. CASE d # day
      BY <3>2, <2>2, <1>0 DEF MergeInv, ProvenanceFollowsRows
    <3> QED  BY <3>1, <3>2
  <2>5. \A d \in DOMAIN Features : out'[d].csv = out[d].csv
    BY <2>2
  <2>6. Settled(day)'
    BY <2>1, <2>2, <2>3 DEF MergeInv, Settled
  <2> QED  BY <2>1, <2>4, <2>5, <2>6 DEF MergeInv
<1>6. CASE WriteProvenance
  <2>1. /\ day \in DOMAIN Features /\ task = "provenance" /\ NextDay
        /\ out' = [out EXCEPT ![day].provenance = runs] /\ runs' = runs
    BY <1>6 DEF WriteProvenance, BookInv
  <2>2. task' \in {"csv", "idle"} /\ (task' = "csv" => day' = day + 1 /\ day' \in DOMAIN Features)
    BY <2>1, NextDayIsADay
  <2>3. /\ out'[day].provenance = runs
        /\ \A d \in DOMAIN Features : /\ out'[d].csv = out[d].csv
                                      /\ out'[d].whole = out[d].whole
                                      /\ out'[d].rows = out[d].rows
        /\ \A d \in DOMAIN Features \ {day} : out'[d] = out[d]
    BY <2>1 DEF BookInv, Outputs
  <2>4. ProvenanceFollowsRows'
    <3> SUFFICES ASSUME NEW d \in DOMAIN Features
                 PROVE  /\ out'[d].provenance <= out'[d].csv
                        /\ out'[d].provenance = out'[d].csv /\ out'[d].csv > 0 =>
                             out'[d].whole /\ Len(out'[d].rows) = Len(Features[d])
      BY <1>0 DEF ProvenanceFollowsRows
    <3>1. CASE d = day
      BY <3>1, <2>1, <2>3, <1>0 DEF MergeInv, Settled
    <3>2. CASE d # day
      BY <3>2, <2>3, <1>0 DEF MergeInv, ProvenanceFollowsRows
    <3> QED  BY <3>1, <3>2
  <2>5. task' = "csv" => /\ out'[day'].csv < runs'
                         /\ \A d \in DOMAIN Features : d > day' => out'[d].csv < runs'
    BY <1>0, <2>1, <2>2, <2>3, OutputFields DEF MergeInv
  <2> QED  BY <2>1, <2>2, <2>3, <2>4, <2>5 DEF MergeInv
<1> QED  BY <1>1, <1>2, <1>3, <1>4, <1>5, <1>6 DEF DatasetNext

LEMMA MergesKept == DatasetSpec => []MergeInv
<1>1. DatasetInit => MergeInv
  BY DEF DatasetInit, Absent, MergeInv, ProvenanceFollowsRows
<1>2. BookInv /\ BookInv' /\ MergeInv /\ [DatasetNext]_datasetVars => MergeInv'
  BY MergeStep
<1> QED  BY <1>1, <1>2, BooksAreTyped, PTL DEF DatasetSpec

(* Wherever a run is cut off, for any number of days and runs, a provenance *)
(* file is of the complete CSV beside it or of an earlier run (_write).     *)
THEOREM ProvenanceIsLast == DatasetSpec => []ProvenanceFollowsRows
<1>1. MergeInv => ProvenanceFollowsRows
  BY DEF MergeInv
<1> QED  BY <1>1, MergesKept, PTL

--------------------------------------------------------------------------------
(* Collecting (run.py, command_collect).                                    *)

FileEntries == [kind : {"tick", "row", "live"}, n : Int]

(* The numbers of a file are told apart, and a live row's is fresh.         *)
NumbersApart(file, live) ==
  /\ \A i, j \in DOMAIN file : file[i].n = file[j].n => i = j
  /\ \A i \in DOMAIN file : file[i].n >= -live

Jobs == [on : BOOLEAN, src : Dirs, out : Dirs, day : Nat, at : Nat, n : Nat]

(* What the replay has still to read of a day.                              *)
Ahead(d, i) == d > job.day \/ (d = job.day /\ i > job.at)

(* The output holds nothing of what is still to be read.                    *)
OutputBehind ==
  /\ job.src # job.out
  /\ \A d \in Days :
       \A i \in DOMAIN dirs[job.src][d], k \in DOMAIN dirs[job.out][d] :
         Ahead(d, i) => dirs[job.src][d][i].n # dirs[job.out][d][k].n

WorkspaceInv ==
  /\ dirs \in [Dirs -> [Days -> Seq(FileEntries)]]
  /\ liveRows \in Nat
  /\ job \in Jobs
  /\ \A dir \in Dirs : \A d \in Days : NumbersApart(dirs[dir][d], liveRows)
  /\ job.on => OutputBehind

(* Adding an entry with a number the file has not.                          *)
LEMMA OneMoreEntry ==
  ASSUME NEW file \in Seq(FileEntries), NEW e \in FileEntries, NEW live \in Nat,
         NumbersApart(file, live), e.n >= -live,
         \A i \in DOMAIN file : file[i].n # e.n
  PROVE  /\ Append(file, e) \in Seq(FileEntries)
         /\ NumbersApart(Append(file, e), live)
<1>1. /\ Len(file) \in Nat /\ DOMAIN file = 1..Len(file)
      /\ DOMAIN Append(file, e) = 1..(Len(file) + 1)
      /\ \A i \in 1..Len(file) : Append(file, e)[i] = file[i]
      /\ Append(file, e)[Len(file) + 1] = e
      /\ Append(file, e) \in Seq(FileEntries)
  OBVIOUS
<1>2. \A i \in 1..(Len(file) + 1) : i \in 1..Len(file) \/ i = Len(file) + 1
  BY <1>1
<1> QED  BY <1>1, <1>2 DEF NumbersApart

LEMMA FreshLater ==
  ASSUME NEW file \in Seq(FileEntries), NEW live \in Nat, NumbersApart(file, live)
  PROVE  /\ NumbersApart(file, live + 1)
         /\ \A i \in DOMAIN file : file[i].n # -(live + 1)
<1>1. \A i \in DOMAIN file : file[i] \in FileEntries
  OBVIOUS
<1>2. \A i \in DOMAIN file : file[i].n \in Int /\ file[i].n >= -live
  BY <1>1 DEF FileEntries, NumbersApart
<1> QED  BY <1>2 DEF NumbersApart

LEMMA WorkspaceStart == WorkspaceInit => WorkspaceInv
<1> SUFFICES ASSUME WorkspaceInit PROVE WorkspaceInv
  OBVIOUS
<1>1. PICK source \in Dirs :
        /\ dirs = [dir \in Dirs |-> IF dir = source THEN [d \in Days |-> TicksOf(d)]
                                                    ELSE NoFiles]
        /\ job = NoJob(source)
  BY DEF WorkspaceInit
<1>2. ASSUME NEW d \in Days
      PROVE  TicksOf(d) \in Seq(FileEntries) /\ NumbersApart(TicksOf(d), 0)
  <2>1. Recordings[d] \in Seq(Nat)
    BY WorkspaceAssumption DEF Days
  <2> DEFINE told == Recordings[d]
  <2>2. /\ TicksOf(d) = [i \in 1..Len(told) |-> [kind |-> "tick", n |-> told[i]]]
        /\ \A i \in 1..Len(told) : told[i] \in Nat
        /\ \A i, j \in 1..Len(told) : told[i] = told[j] => i = j
        /\ Len(told) \in Nat
    BY <2>1, WorkspaceAssumption DEF TicksOf, Days
  <2> HIDE DEF told
  <2>3. \A i \in 1..Len(told) : [kind |-> "tick", n |-> told[i]] \in FileEntries
    BY <2>2 DEF FileEntries
  <2>4. TicksOf(d) \in Seq(FileEntries)
    BY <2>2, <2>3
  <2> QED  BY <2>2, <2>4 DEF NumbersApart
<1>3. <<>> \in Seq(FileEntries) /\ NumbersApart(<<>>, 0)
  BY DEF NumbersApart
<1>4. \A dir \in Dirs, d \in Days :
        dirs[dir][d] \in Seq(FileEntries) /\ NumbersApart(dirs[dir][d], 0)
  BY <1>1, <1>2, <1>3 DEF NoFiles
<1>5. dirs \in [Dirs -> [Days -> Seq(FileEntries)]]
  BY <1>1, <1>4 DEF NoFiles
<1> QED  BY <1>1, <1>4, <1>5 DEF WorkspaceInit, WorkspaceInv, NoJob, Jobs

LEMMA WorkspaceStep == WorkspaceInv /\ [WorkspaceNext]_workspaceVars => WorkspaceInv'
<1> SUFFICES ASSUME WorkspaceInv, [WorkspaceNext]_workspaceVars PROVE WorkspaceInv'
  OBVIOUS
<1>0. /\ dirs \in [Dirs -> [Days -> Seq(FileEntries)]] /\ liveRows \in Nat
      /\ job.on \in BOOLEAN /\ job.src \in Dirs /\ job.out \in Dirs
      /\ job.day \in Nat /\ job.at \in Nat /\ job.n \in Nat
      /\ job \in Jobs
      /\ \A d \in Days : d \in Nat \ {0}
  BY WorkspaceAssumption DEF WorkspaceInv, Days, Jobs
<1>1. CASE CollectRefused
  BY <1>1 DEF CollectRefused, WorkspaceInv, OutputBehind, Ahead
<1>2. CASE CollectStarts
  <2>1. PICK src \in Dirs, dest \in Dirs :
          /\ ~Refused(src, dest)
          /\ job' = [on |-> TRUE, src |-> src, out |-> dest, day |-> 1, at |-> 0, n |-> 0]
    BY <1>2 DEF CollectStarts
  <2>2. /\ UNCHANGED <<dirs, liveRows>> /\ src # dest
        /\ \A d \in Days : dirs[dest][d] = <<>>
    BY <1>2, <2>1 DEF CollectStarts, Refused, HasFiles
  <2>3. OutputBehind'
    BY <2>1, <2>2 DEF OutputBehind
  <2> QED  BY <2>1, <2>2, <2>3 DEF WorkspaceInv, Jobs
<1>3. CASE ReplayEntry
  <2> DEFINE src == job.src  dest == job.out  date == job.day  pos == job.at
             e == [kind |-> "row", n |-> dirs[src][date][pos + 1].n]
             file == dirs[dest][date]
             source == dirs[src][date]
  <2>1. /\ job.on /\ date \in Days /\ pos < Len(source)
        /\ job' = [job EXCEPT !.at = @ + 1, !.n = @ + 1]
        /\ dirs' = [dirs EXCEPT ![dest][date] = Append(@, e)]
        /\ UNCHANGED liveRows
    BY <1>3 DEF ReplayEntry
  <2>2. /\ job' \in Jobs
        /\ job'.src = src /\ job'.out = dest /\ job'.day = date /\ job'.at = pos + 1
    <3> DEFINE x == pos + 1  y == job.n + 1
    <3>1. job \in Jobs /\ x \in Nat /\ y \in Nat
      BY <1>0
    <3>2. job' = [job EXCEPT !.at = x, !.n = y]
      BY <2>1
    <3>3. x = pos + 1
      OBVIOUS
    <3> HIDE DEF x, y
    <3> QED  BY <3>1, <3>2, <3>3 DEF Jobs
  <2>3. /\ source \in Seq(FileEntries) /\ file \in Seq(FileEntries)
        /\ NumbersApart(source, liveRows) /\ NumbersApart(file, liveRows)
        /\ src # dest
    BY <1>0, <2>1 DEF WorkspaceInv, OutputBehind
  <2>4. pos + 1 \in DOMAIN source /\ DOMAIN source = 1..Len(source)
    BY <1>0, <2>1, <2>3
  <2>5. e \in FileEntries /\ e.n >= -liveRows /\ e.n = source[pos + 1].n
    <3>1. source[pos + 1] \in FileEntries
      BY <2>3, <2>4
    <3>2. source[pos + 1].n \in Int /\ source[pos + 1].n >= -liveRows
      BY <2>3, <2>4, <3>1 DEF FileEntries, NumbersApart
    <3> QED  BY <3>2 DEF FileEntries
  <2>6. \A i \in DOMAIN file : file[i].n # e.n
    <3>1. Ahead(date, pos + 1)
      BY <1>0 DEF Ahead
    <3> QED  BY <2>1, <2>4, <2>5, <3>1 DEF WorkspaceInv, OutputBehind
  <2>7. /\ dirs'[dest][date] = Append(file, e)
        /\ \A dir \in Dirs, d \in Days :
             dir # dest \/ d # date => dirs'[dir][d] = dirs[dir][d]
    BY <1>0, <2>1
  <2> HIDE DEF e
  <2>8. dirs'[dest][date] \in Seq(FileEntries) /\ NumbersApart(dirs'[dest][date], liveRows)
    BY <1>0, <2>3, <2>5, <2>6, <2>7, OneMoreEntry
  <2>9. dirs' \in [Dirs -> [Days -> Seq(FileEntries)]]
    BY <1>0, <2>1, <2>7, <2>8
  <2>10. \A dir \in Dirs, d \in Days : NumbersApart(dirs'[dir][d], liveRows)
    BY <2>7, <2>8 DEF WorkspaceInv
  <2>11. ASSUME NEW d \in Days, NEW i \in DOMAIN dirs'[src][d],
                NEW k \in DOMAIN dirs'[dest][d], Ahead(d, i)'
         PROVE  dirs'[src][d][i].n # dirs'[dest][d][k].n
    <3>1. dirs'[src][d] = dirs[src][d]
      BY <1>0, <2>3, <2>7
    <3>2. dirs[src][d] \in Seq(FileEntries) /\ i \in Nat /\ d \in Nat
      BY <1>0, <3>1
    <3>3. Ahead(d, i) /\ (d = date => i > pos + 1)
      BY <1>0, <2>2, <2>11, <3>2 DEF Ahead
    <3>4. CASE k \in DOMAIN dirs[dest][d] /\ dirs'[dest][d][k] = dirs[dest][d][k]
      BY <2>1, <3>1, <3>3, <3>4 DEF WorkspaceInv, OutputBehind
    <3>5. CASE d = date /\ dirs'[dest][d][k] = e
      <4>1. i # pos + 1 /\ i \in DOMAIN source
        BY <1>0, <3>1, <3>2, <3>3, <3>5
      <4>2. source[i].n # source[pos + 1].n
        BY <2>3, <2>4, <4>1 DEF NumbersApart
      <4> QED  BY <2>5, <3>1, <3>5, <4>2
    <3>6. CASE d # date
      <4>1. dirs'[dest][d] = dirs[dest][d]
        BY <1>0, <2>7, <3>6
      <4> QED  BY <3>4, <4>1
    <3>7. CASE d = date
      <4>1. k \in DOMAIN Append(file, e)
        BY <2>7, <3>7
      <4>2. \/ k \in DOMAIN file /\ Append(file, e)[k] = file[k]
            \/ Append(file, e)[k] = e
        BY <2>3, <2>5, <4>1
      <4> QED  BY <2>7, <3>4, <3>5, <3>7, <4>2
    <3> QED  BY <3>6, <3>7
  <2> QED  BY <2>1, <2>2, <2>3, <2>9, <2>10, <2>11 DEF WorkspaceInv, OutputBehind
<1>4. CASE NextFile
  <2>1. /\ job.on /\ job' = [job EXCEPT !.day = @ + 1, !.at = 0]
        /\ UNCHANGED <<dirs, liveRows>>
    BY <1>4 DEF NextFile
  <2>2. /\ job' \in Jobs
        /\ job'.src = job.src /\ job'.out = job.out /\ job'.day = job.day + 1
    <3> DEFINE x == job.day + 1  y == 0
    <3>1. job \in Jobs /\ x \in Nat /\ y \in Nat
      BY <1>0
    <3>2. job' = [job EXCEPT !.day = x, !.at = y]
      BY <2>1
    <3>3. x = job.day + 1
      OBVIOUS
    <3> HIDE DEF x, y
    <3> QED  BY <3>1, <3>2, <3>3 DEF Jobs
  <2>3. \A d \in Days : \A i : Ahead(d, i)' => Ahead(d, i)
    BY <1>0, <2>2 DEF Ahead
  <2> QED  BY <2>1, <2>2, <2>3 DEF WorkspaceInv, OutputBehind
<1>5. CASE CollectStops \/ CollectDies
  BY <1>5 DEF CollectStops, CollectDies, WorkspaceInv, Jobs
<1>6. CASE LiveRow
  <2>1. PICK dir \in Dirs, date \in Days :
          dirs' = [dirs EXCEPT ![dir][date] = Append(@, [kind |-> "live", n |-> -liveRows'])]
    BY <1>6 DEF LiveRow
  <2> DEFINE e == [kind |-> "live", n |-> -liveRows']
             file == dirs[dir][date]
  <2>2. liveRows' = liveRows + 1 /\ job' = job
    BY <1>6 DEF LiveRow
  <2>3. file \in Seq(FileEntries) /\ NumbersApart(file, liveRows')
    BY <1>0, <2>2, FreshLater DEF WorkspaceInv
  <2>4. e \in FileEntries /\ e.n = -liveRows' /\ e.n >= -liveRows' /\ liveRows' \in Nat
    BY <1>0, <2>2 DEF FileEntries
  <2>5. \A other \in Dirs, d \in Days :
          /\ NumbersApart(dirs[other][d], liveRows')
          /\ \A i \in DOMAIN dirs[other][d] : dirs[other][d][i].n # -liveRows'
    BY <1>0, <2>2, FreshLater DEF WorkspaceInv
  <2>6. /\ dirs'[dir][date] = Append(file, e)
        /\ \A other \in Dirs, d \in Days :
             other # dir \/ d # date => dirs'[other][d] = dirs[other][d]
    BY <1>0, <2>1
  <2> HIDE DEF e
  <2>7. dirs'[dir][date] \in Seq(FileEntries) /\ NumbersApart(dirs'[dir][date], liveRows')
    BY <2>3, <2>4, <2>5, <2>6, OneMoreEntry
  <2>8. dirs' \in [Dirs -> [Days -> Seq(FileEntries)]]
    BY <1>0, <2>1, <2>6, <2>7
  <2>9. \A other \in Dirs, d \in Days : NumbersApart(dirs'[other][d], liveRows')
    BY <2>5, <2>6, <2>7
  <2>10. ASSUME job.on PROVE OutputBehind'
    <3>1. OutputBehind /\ job.src # job.out
      BY <2>10 DEF WorkspaceInv, OutputBehind
    <3> SUFFICES ASSUME NEW d \in Days, NEW i \in DOMAIN dirs'[job.src][d],
                        NEW k \in DOMAIN dirs'[job.out][d], Ahead(d, i)
                 PROVE  dirs'[job.src][d][i].n # dirs'[job.out][d][k].n
      BY <2>2, <3>1 DEF OutputBehind, Ahead
    <3>2. ASSUME NEW other \in Dirs, NEW m \in DOMAIN dirs'[other][d]
          PROVE  \/ m \in DOMAIN dirs[other][d] /\ dirs'[other][d][m] = dirs[other][d][m]
                 \/ other = dir /\ d = date /\ dirs'[other][d][m] = e
      <4>1. \/ other = dir /\ d = date /\ dirs'[other][d] = Append(file, e)
            \/ dirs'[other][d] = dirs[other][d]
        BY <2>6
      <4>2. \A p \in DOMAIN Append(file, e) :
              \/ p \in DOMAIN file /\ Append(file, e)[p] = file[p]
              \/ Append(file, e)[p] = e
        BY <2>3, <2>4
      <4> QED  BY <4>1, <4>2
    <3>3. CASE /\ i \in DOMAIN dirs[job.src][d]
               /\ dirs'[job.src][d][i] = dirs[job.src][d][i]
      <4>1. CASE /\ k \in DOMAIN dirs[job.out][d]
                 /\ dirs'[job.out][d][k] = dirs[job.out][d][k]
        BY <3>1, <3>3, <4>1 DEF OutputBehind
      <4>2. CASE dirs'[job.out][d][k] = e
        BY <1>0, <2>4, <2>5, <3>3, <4>2
      <4> QED  BY <1>0, <3>2, <4>1, <4>2
    <3>4. CASE job.src = dir /\ dirs'[job.src][d][i] = e
      <4>1. /\ k \in DOMAIN dirs[job.out][d]
            /\ dirs'[job.out][d][k] = dirs[job.out][d][k]
        BY <1>0, <3>1, <3>2, <3>4
      <4> QED  BY <1>0, <2>4, <2>5, <3>4, <4>1
    <3> QED  BY <1>0, <3>2, <3>3, <3>4
  <2> QED  BY <1>0, <2>2, <2>8, <2>9, <2>10 DEF WorkspaceInv
<1>7. CASE Cleared
  <2>1. PICK dir \in Dirs : dirs' = [dirs EXCEPT ![dir] = NoFiles]
    BY <1>7 DEF Cleared
  <2>2. ~job.on /\ UNCHANGED <<job, liveRows>>
    BY <1>7 DEF Cleared
  <2>3. NoFiles \in [Days -> Seq(FileEntries)] /\ \A d \in Days : NumbersApart(NoFiles[d], liveRows)
    BY DEF NoFiles, NumbersApart
  <2> QED  BY <1>0, <2>1, <2>2, <2>3 DEF WorkspaceInv
<1>8. CASE UNCHANGED workspaceVars
  BY <1>8 DEF workspaceVars, WorkspaceInv, OutputBehind, Ahead
<1> QED  BY <1>1, <1>2, <1>3, <1>4, <1>5, <1>6, <1>7, <1>8 DEF WorkspaceNext

(* Over any directories and recordings, and however replays are started,    *)
(* interrupted and started again beside a live feed, no tick yields two     *)
(* rows of one file (command_collect and its guard on existing files).      *)
THEOREM NoRowTwice == WorkspaceSpec => []RowsOnce
<1>1. WorkspaceInv => RowsOnce
  BY DEF WorkspaceInv, RowsOnce, NumbersApart
<1> QED  BY <1>1, WorkspaceStart, WorkspaceStep, PTL DEF WorkspaceSpec

--------------------------------------------------------------------------------
(* The daily files of a recording (read_ticks, write_daily_csvs, _csv_rows). *)

(* What is told of a record.                                                *)
TicksTold == {TickOf(r) : r \in Records}

(* As far as the file has been read, the files hold the asked records of    *)
(* their days, each in its place.                                           *)
PlacedInv ==
  /\ DOMAIN dayFiles = {RecordDay(p) : p \in Asked(at)}
  /\ FileRows = {Place(p) : p \in Asked(at)}
  /\ \A p \in Asked(at) : FileRow(Place(p)) = TickOf(scid[p])
  /\ \A date \in DOMAIN dayFiles :
       /\ dayFiles[date] \in Seq(TicksTold)
       /\ Len(dayFiles[date]) = Cardinality({p \in Asked(at) : RecordDay(p) = date})

(* The open file is that of the latest day, so that no other opens again.   *)
LatestIsOpen ==
  /\ IF Asked(at) = {} THEN current = -1
     ELSE \E p \in Asked(at) : current = RecordDay(p)
  /\ \A p \in Asked(at) : RecordDay(p) <= current

(* Having stopped, the export has met the end of the window or of the file. *)
StoppedAtTheEnd ==
  ~streaming => \A p \in (at + 1)..Len(scid) : ~InWindow(scid[p])

ReadingInv ==
  /\ scid \in Seq(Records) /\ window \in Windows /\ streaming \in BOOLEAN
  /\ at \in 0..Len(scid)
  /\ kept = Cardinality(Windowed(at))

ExportInv ==
  /\ ReadingInv
  /\ InTimeOrder(scid) => PlacedInv /\ LatestIsOpen /\ StoppedAtTheEnd

LEMMA DaysAscend ==
  ASSUME NEW a \in Nat, NEW b \in Nat, a <= b
  PROVE  DayOf(a) \in Nat /\ DayOf(b) \in Nat /\ DayOf(a) <= DayOf(b)
<1> DEFINE i == a \div DayLength
           j == b \div DayLength
<1>1. DayLength \in Nat /\ DayLength > 0
  BY TickFilesAssumption
<1>2. i \in Int /\ j \in Int /\ i >= 0 /\ j >= 0
  BY <1>1
<1>3. DayLength * i <= a /\ b < DayLength * j + DayLength
  <2>1. a = DayLength * i + (a % DayLength) /\ b = DayLength * j + (b % DayLength)
    BY <1>1
  <2>2. a % DayLength \in 0..(DayLength - 1) /\ b % DayLength \in 0..(DayLength - 1)
    BY <1>1
  <2>3. DayLength * i \in Int /\ DayLength * j \in Int
    BY <1>1, <1>2
  <2> HIDE DEF i, j
  <2> QED  BY <1>1, <2>1, <2>2, <2>3
<1>4. i <= j
  <2> HIDE DEF i, j
  <2> SUFFICES ASSUME j + 1 <= i PROVE FALSE
    BY <1>2
  <2>1. DayLength * (j + 1) <= DayLength * i
    BY <1>1, <1>2
  <2>2. DayLength * (j + 1) = DayLength * j + DayLength
    BY <1>1, <1>2
  <2>3. DayLength * j \in Int /\ DayLength * i \in Int /\ DayLength * (j + 1) \in Int
    BY <1>1, <1>2
  <2> QED  BY <1>1, <1>3, <2>1, <2>2, <2>3
<1> QED  BY <1>2, <1>4 DEF DayOf

(* The records inside the window, and those asked for, one record on.       *)
LEMMA WindowedGrows ==
  ASSUME NEW n \in Nat
  PROVE  /\ IsFiniteSet(Windowed(n)) /\ Cardinality(Windowed(n)) \in Nat
         /\ Windowed(n + 1) = IF InWindow(scid[n + 1]) THEN Windowed(n) \cup {n + 1}
                            ELSE Windowed(n)
         /\ Cardinality(Windowed(n + 1)) =
              IF InWindow(scid[n + 1]) THEN Cardinality(Windowed(n)) + 1
              ELSE Cardinality(Windowed(n))
<1>1. IsFiniteSet(1..n)
  BY FS_Interval
<1>2. IsFiniteSet(Windowed(n)) /\ Cardinality(Windowed(n)) \in Nat
  <2>1. Windowed(n) \subseteq 1..n
    BY DEF Windowed
  <2> QED  BY <1>1, <2>1, FS_Subset, FS_CardinalityType
<1>3. 1..(n + 1) = (1..n) \cup {n + 1} /\ n + 1 \notin 1..n
  OBVIOUS
<1>4. Windowed(n + 1) = IF InWindow(scid[n + 1]) THEN Windowed(n) \cup {n + 1} ELSE Windowed(n)
  BY <1>3 DEF Windowed
<1>5. n + 1 \notin Windowed(n)
  BY <1>3 DEF Windowed
<1>6. Cardinality(Windowed(n) \cup {n + 1}) = Cardinality(Windowed(n)) + 1
  BY <1>2, <1>5, FS_AddElement
<1> QED  BY <1>2, <1>4, <1>6

LEMMA AskedGrows ==
  ASSUME NEW n \in Nat
  PROVE  /\ Asked(n) \subseteq 1..n /\ IsFiniteSet(Asked(n))
         /\ Asked(n + 1) =
              IF InWindow(scid[n + 1]) /\ Cardinality(Windowed(n + 1)) % window.every = 0
              THEN Asked(n) \cup {n + 1} ELSE Asked(n)
<1>1. Asked(n) \subseteq Windowed(n) /\ Windowed(n) \subseteq 1..n
  BY DEF Asked, Windowed
<1>2. IsFiniteSet(Asked(n))
  BY <1>1, WindowedGrows, FS_Subset
<1>3. CASE InWindow(scid[n + 1])
  <2>1. Windowed(n + 1) = Windowed(n) \cup {n + 1}
    BY <1>3, WindowedGrows
  <2> QED  BY <1>1, <1>2, <1>3, <2>1 DEF Asked
<1>4. CASE ~InWindow(scid[n + 1])
  <2>1. Windowed(n + 1) = Windowed(n)
    BY <1>4, WindowedGrows
  <2> QED  BY <1>1, <1>2, <1>4, <2>1 DEF Asked
<1> QED  BY <1>3, <1>4

(* Of the records from n on none is asked for, if none is in the window.    *)
LEMMA NothingMoreAsked ==
  ASSUME NEW n \in Nat, NEW m \in Nat, n <= m,
         \A p \in (n + 1)..m : ~InWindow(scid[p])
  PROVE  Asked(m) = Asked(n)
<1>1. Windowed(m) = Windowed(n)
  <2>1. \A p \in 1..m : p \in 1..n \/ p \in (n + 1)..m
    OBVIOUS
  <2>2. 1..n \subseteq 1..m
    OBVIOUS
  <2> QED  BY <2>1, <2>2 DEF Windowed
<1> QED  BY <1>1 DEF Asked

(* Asked up to n is what of everything asked is at n or before.             *)
LEMMA AskedBefore ==
  ASSUME NEW n \in Nat, NEW m \in Nat, n <= m
  PROVE  Asked(n) = {p \in Asked(m) : p <= n}
BY DEF Asked, Windowed

LEMMA RecordsInOrder ==
  ASSUME scid \in Seq(Records), InTimeOrder(scid),
         NEW p \in DOMAIN scid, NEW q \in DOMAIN scid, p <= q
  PROVE  RecordDay(p) \in Nat /\ RecordDay(q) \in Nat /\ RecordDay(p) <= RecordDay(q)
<1>1. scid[p] \in Records /\ scid[q] \in Records
  OBVIOUS
<1>2. scid[p].when \in Nat /\ scid[q].when \in Nat
  BY <1>1, TickFilesAssumption
<1>3. p \in Int /\ q \in Int
  OBVIOUS
<1>4. CASE p = q
  BY <1>2, <1>4, DaysAscend DEF RecordDay
<1>5. CASE p < q
  <2>1. scid[p].when <= scid[q].when
    BY <1>5 DEF InTimeOrder
  <2> QED  BY <1>2, <2>1, DaysAscend DEF RecordDay
<1> QED  BY <1>3, <1>4, <1>5

(* Places keep the order of the file.                                       *)
LEMMA PlacesAscend ==
  ASSUME scid \in Seq(Records), InTimeOrder(scid),
         NEW p \in Asked(Len(scid)), NEW q \in Asked(Len(scid)), p < q
  PROVE  Precedes(Place(p), Place(q))
<1> DEFINE Of(n) == {r \in Asked(n) : RecordDay(r) = RecordDay(n)}
<1>0. Len(scid) \in Nat
  OBVIOUS
<1>1. p \in 1..Len(scid) /\ q \in 1..Len(scid)
  BY <1>0, AskedGrows
<1>2. RecordDay(p) \in Nat /\ RecordDay(q) \in Nat /\ RecordDay(p) <= RecordDay(q)
  BY <1>1, RecordsInOrder
<1>3. CASE RecordDay(p) = RecordDay(q)
  <2>1. Asked(p) = {r \in Asked(Len(scid)) : r <= p}
    BY <1>0, <1>1, AskedBefore
  <2>2. Asked(q) = {r \in Asked(Len(scid)) : r <= q}
    BY <1>0, <1>1, AskedBefore
  <2>3. Asked(Len(scid)) \subseteq Int
    <3>1. Asked(Len(scid)) \subseteq 1..Len(scid)
      BY <1>0, AskedGrows
    <3> QED  BY <1>0, <3>1
  <2>4. Of(p) \subseteq Of(q) /\ q \in Of(q) /\ q \notin Of(p)
    BY <1>1, <1>3, <2>1, <2>2, <2>3
  <2>5. IsFiniteSet(Of(q))
    <3>1. q \in Nat
      BY <1>0, <1>1
    <3>2. IsFiniteSet(Asked(q))
      BY <3>1, AskedGrows
    <3> QED  BY <3>2, FS_Subset
  <2>6. Cardinality(Of(p)) < Cardinality(Of(q))
    <3> HIDE DEF Of
    <3>1. Of(p) \subseteq Of(q) \ {q}
      BY <2>4
    <3>2. IsFiniteSet(Of(q) \ {q}) /\ Cardinality(Of(q) \ {q}) = Cardinality(Of(q)) - 1
      BY <2>4, <2>5, FS_RemoveElement
    <3>3. Cardinality(Of(p)) <= Cardinality(Of(q) \ {q}) /\ IsFiniteSet(Of(p))
      BY <3>1, <3>2, FS_Subset
    <3>4. Cardinality(Of(p)) \in Nat /\ Cardinality(Of(q)) \in Nat
      BY <2>5, <3>3, FS_CardinalityType
    <3> QED  BY <3>2, <3>3, <3>4
  <2> QED  BY <1>3, <2>6 DEF Precedes, Place
<1>4. CASE RecordDay(p) < RecordDay(q)
  BY <1>4 DEF Precedes, Place
<1> QED  BY <1>2, <1>3, <1>4

(* The bound variables of a step name the same records after it.            *)
LEMMA SameFile ==
  ASSUME scid' = scid, window' = window
  PROVE  /\ Asked(at)' = Asked(at') /\ Windowed(at)' = Windowed(at')
         /\ \A p : RecordDay(p)' = RecordDay(p) /\ Place(p)' = Place(p)
         /\ InTimeOrder(scid)' = InTimeOrder(scid)
         /\ \A p : InWindow(scid[p])' = InWindow(scid[p])
BY DEF Asked, Windowed, RecordDay, Place, InTimeOrder, InWindow, BeforeStart, AfterEnd, DayOf

LEMMA ExportStart == TickFilesInit => ExportInv
<1> SUFFICES ASSUME TickFilesInit PROVE ExportInv
  OBVIOUS
<1>1. scid \in Seq(Records)
  BY TickFilesAssumption DEF TickFilesInit, SeqOf
<1>2. at = 0 /\ kept = 0 /\ dayFiles = <<>> /\ streaming = TRUE /\ window \in Windows
  BY DEF TickFilesInit
<1>3. Windowed(at) = {} /\ Asked(at) = {}
  BY <1>2 DEF Windowed, Asked
<1>4. ReadingInv
  <2>1. kept = Cardinality(Windowed(at))
    BY <1>2, <1>3, FS_EmptySet
  <2>2. at \in 0..Len(scid)
    BY <1>1, <1>2
  <2> QED  BY <1>1, <1>2, <2>1, <2>2 DEF ReadingInv
<1>5. PlacedInv /\ LatestIsOpen /\ StoppedAtTheEnd
  <2>1. DOMAIN dayFiles = {} /\ FileRows = {}
    BY <1>2 DEF FileRows
  <2>2. PlacedInv
    BY <1>3, <2>1 DEF PlacedInv
  <2>3. LatestIsOpen
    <3>1. current = -1
      BY DEF TickFilesInit
    <3> QED  BY <1>3, <3>1 DEF LatestIsOpen
  <2>4. StoppedAtTheEnd
    BY <1>2 DEF StoppedAtTheEnd
  <2> QED  BY <2>2, <2>3, <2>4
<1> QED  BY <1>4, <1>5 DEF ExportInv

(* Reading on without a row.                                                *)
LEMMA NothingTold ==
  ASSUME PlacedInv, LatestIsOpen, scid' = scid, window' = window,
         dayFiles' = dayFiles, current' = current, Asked(at') = Asked(at)
  PROVE  PlacedInv' /\ LatestIsOpen'
<1>1. /\ Asked(at)' = Asked(at)
      /\ \A p : RecordDay(p)' = RecordDay(p) /\ Place(p)' = Place(p)
  BY SameFile
<1>2. FileRows' = FileRows /\ \A row : FileRow(row)' = FileRow(row)
  BY DEF FileRows, FileRow
<1>3. PlacedInv'
  BY <1>1, <1>2 DEF PlacedInv
<1>4. LatestIsOpen'
  BY <1>1 DEF LatestIsOpen
<1> QED  BY <1>3, <1>4

(* What the file of a record's day holds before its row: the earlier ones,  *)
(* or nothing, and then the day is a new one.                               *)
LEMMA EarlierOfTheDay ==
  ASSUME ReadingInv, InTimeOrder(scid), PlacedInv, LatestIsOpen, at < Len(scid),
         NEW old, old = IF RecordDay(at + 1) # current THEN <<>>
                        ELSE dayFiles[RecordDay(at + 1)]
  PROVE  /\ old \in Seq(TicksTold)
         /\ Len(old) = Cardinality({p \in Asked(at) : RecordDay(p) = RecordDay(at + 1)})
         /\ RecordDay(at + 1) = current <=> RecordDay(at + 1) \in DOMAIN dayFiles
         /\ \A p \in Asked(at) : RecordDay(p) <= RecordDay(at + 1)
         /\ \A p \in Asked(at) : RecordDay(p) \in Nat
<1> DEFINE date == RecordDay(at + 1)
<1>0. at \in Nat /\ at + 1 \in DOMAIN scid /\ Asked(at) \subseteq 1..at
  <2>1. at \in Nat /\ at + 1 \in DOMAIN scid
    BY DEF ReadingInv
  <2> QED  BY <2>1, AskedGrows
<1>1. ASSUME NEW p \in Asked(at)
      PROVE  RecordDay(p) \in Nat /\ date \in Nat /\ RecordDay(p) <= date
  <2>1. p \in DOMAIN scid /\ p <= at + 1
    BY <1>0 DEF ReadingInv
  <2> QED  BY <1>0, <2>1, RecordsInOrder DEF ReadingInv
<1>1a. date \in Nat
  BY <1>0, RecordsInOrder DEF ReadingInv
<1>2. date = current => date \in DOMAIN dayFiles
  <2>1. CASE Asked(at) # {}
    BY <2>1 DEF LatestIsOpen, PlacedInv
  <2>2. CASE Asked(at) = {}
    BY <1>1a, <2>2 DEF LatestIsOpen
  <2> QED  BY <2>1, <2>2
<1>3. date \in DOMAIN dayFiles => date = current
  <2> SUFFICES ASSUME date \in DOMAIN dayFiles PROVE date = current
    OBVIOUS
  <2>1. PICK p \in Asked(at) : RecordDay(p) = date
    BY DEF PlacedInv
  <2>2. PICK q \in Asked(at) : current = RecordDay(q)
    BY <2>1 DEF LatestIsOpen
  <2>3. date <= current /\ current <= date /\ current \in Nat
    <3>1. RecordDay(p) <= current
      BY DEF LatestIsOpen
    <3>2. RecordDay(q) <= date /\ RecordDay(q) \in Nat
      BY <1>1
    <3> QED  BY <2>1, <2>2, <3>1, <3>2
  <2> QED  BY <1>1a, <2>3
<1>4. /\ old \in Seq(TicksTold)
      /\ Len(old) = Cardinality({p \in Asked(at) : RecordDay(p) = date})
  <2>1. CASE date = current
    <3>1. old = dayFiles[date] /\ date \in DOMAIN dayFiles
      BY <1>2, <2>1
    <3> HIDE DEF date
    <3> QED  BY <3>1 DEF PlacedInv
  <2>2. CASE date # current
    <3>1. old = <<>> /\ date \notin DOMAIN dayFiles
      BY <1>3, <2>2
    <3>2. {p \in Asked(at) : RecordDay(p) = date} = {}
      BY <3>1 DEF PlacedInv
    <3>3. Cardinality({p \in Asked(at) : RecordDay(p) = date}) = 0
      BY <3>2, FS_EmptySet
    <3>4. Len(<<>>) = 0 /\ <<>> \in Seq(TicksTold)
      OBVIOUS
    <3> HIDE DEF date
    <3> QED  BY <3>1, <3>3, <3>4
  <2> QED  BY <2>1, <2>2
<1> QED  BY <1>1, <1>2, <1>3, <1>4

(* The row lands in the place of its record, and every other stays.         *)
LEMMA RowLands ==
  ASSUME ReadingInv, InTimeOrder(scid), PlacedInv, LatestIsOpen, WriteTick,
         NEW next, next = at + 1, NEW date, date = RecordDay(next),
         NEW tick, tick = TickOf(scid[next]),
         NEW old, old = IF date # current THEN <<>> ELSE dayFiles[date]
  PROVE  PlacedInv' /\ LatestIsOpen'
<1> DEFINE Of(d) == {p \in Asked(at) : RecordDay(p) = d}
<1>1. /\ at < Len(scid) /\ InWindow(scid[next])
      /\ (kept + 1) % window.every = 0
      /\ at' = next /\ scid' = scid /\ window' = window
  BY DEF WriteTick
<1>2. /\ at \in Nat /\ next \in Nat /\ next \in DOMAIN scid /\ scid[next] \in Records
      /\ at < next /\ Len(scid) \in Nat
  BY <1>1 DEF ReadingInv
<1>3. current' = date /\ tick.when = scid[next].when
  BY DEF WriteTick, Written, TickOf, RecordDay
<1>4. dayFiles' = [d \in DOMAIN dayFiles \cup {date} |->
                     IF d = date THEN Append(old, tick) ELSE dayFiles[d]]
  BY <1>3 DEF WriteTick, Written, RecordDay
<1>5. /\ Asked(next) = Asked(at) \cup {next} /\ next \notin Asked(at)
      /\ Asked(at) \subseteq 1..at /\ IsFiniteSet(Asked(at))
  <2>1. Cardinality(Windowed(next)) = kept + 1
    BY <1>1, <1>2, WindowedGrows DEF ReadingInv
  <2>2. Asked(at) \subseteq 1..at /\ IsFiniteSet(Asked(at))
    BY <1>2, AskedGrows
  <2>3. Asked(next) = Asked(at) \cup {next}
    BY <1>1, <1>2, <2>1, AskedGrows
  <2>4. next \notin 1..at
    BY <1>2
  <2> QED  BY <2>2, <2>3, <2>4
<1>6. /\ old \in Seq(TicksTold) /\ Len(old) = Cardinality(Of(date))
      /\ date = current <=> date \in DOMAIN dayFiles
      /\ \A p \in Asked(at) : RecordDay(p) <= date
      /\ \A p \in Asked(at) : RecordDay(p) \in Nat
  BY <1>1, EarlierOfTheDay
<1>7. /\ Asked(at)' = Asked(at) \cup {next}
      /\ \A p : RecordDay(p)' = RecordDay(p) /\ Place(p)' = Place(p)
  BY <1>1, <1>5, SameFile
<1>8. tick \in TicksTold
  BY <1>2 DEF TicksTold
<1>9. Place(next) = <<date, Len(old) + 1>>
  <2>1. {q \in Asked(next) : RecordDay(q) = date} = Of(date) \cup {next}
    BY <1>5
  <2>2. IsFiniteSet(Of(date)) /\ next \notin Of(date)
    BY <1>5, FS_Subset
  <2>3. Cardinality(Of(date) \cup {next}) = Cardinality(Of(date)) + 1
    <3> HIDE DEF Of
    <3> QED  BY <2>2, FS_AddElement
  <2> QED  BY <1>6, <2>1, <2>3 DEF Place
<1>10. /\ DOMAIN Append(old, tick) = DOMAIN old \cup {Len(old) + 1}
       /\ \A i \in DOMAIN old : Append(old, tick)[i] = old[i]
       /\ Append(old, tick)[Len(old) + 1] = tick
       /\ Append(old, tick) \in Seq(TicksTold)
       /\ Len(Append(old, tick)) = Len(old) + 1
  <2> QED  BY <1>6, <1>8
<1>11. date \in DOMAIN dayFiles => old = dayFiles[date]
  BY <1>6
<1>12. date \notin DOMAIN dayFiles => old = <<>>
  BY <1>6
<1>13. /\ FileRows' = FileRows \cup {Place(next)}
       /\ \A row \in FileRows : FileRow(row)' = FileRow(row)
       /\ FileRow(Place(next))' = tick
  <2>1. \A d \in DOMAIN dayFiles' : DOMAIN dayFiles'[d] =
          IF d = date THEN DOMAIN old \cup {Len(old) + 1} ELSE DOMAIN dayFiles[d]
    BY <1>4, <1>10
  <2>2. DOMAIN dayFiles' = DOMAIN dayFiles \cup {date}
    BY <1>4
  <2>3. date \notin DOMAIN dayFiles => DOMAIN old = {}
    BY <1>12
  <2>4. FileRows' = FileRows \cup {<<date, Len(old) + 1>>}
    <3>1. FileRows' \subseteq FileRows \cup {<<date, Len(old) + 1>>}
      BY <1>11, <2>1, <2>2, <2>3 DEF FileRows
    <3>2. FileRows \subseteq FileRows'
      BY <1>11, <2>1, <2>2 DEF FileRows
    <3>3. <<date, Len(old) + 1>> \in FileRows'
      BY <2>1, <2>2 DEF FileRows
    <3> QED  BY <3>1, <3>2, <3>3
  <2>5. ASSUME NEW row \in FileRows PROVE FileRow(row)' = FileRow(row)
    <3>1. PICK d \in DOMAIN dayFiles : row \in {d} \X DOMAIN dayFiles[d]
      BY DEF FileRows
    <3>2. row[1] = d /\ row[2] \in DOMAIN dayFiles[d] /\ row' = row
      BY <3>1
    <3>3. CASE d = date
      <4>1. dayFiles'[d] = Append(old, tick) /\ old = dayFiles[d]
        BY <1>4, <1>11, <3>3
      <4>2. dayFiles'[d][row[2]] = dayFiles[d][row[2]]
        BY <1>10, <3>2, <4>1
      <4> QED  BY <3>2, <4>2 DEF FileRow
    <3>4. CASE d # date
      <4>1. dayFiles'[d] = dayFiles[d]
        BY <1>4, <3>4
      <4> QED  BY <3>2, <4>1 DEF FileRow
    <3> QED  BY <3>3, <3>4
  <2>6. FileRow(Place(next))' = tick
    <3>1. Place(next)' = <<date, Len(old) + 1>>
      BY <1>7, <1>9
    <3>2. dayFiles'[date] = Append(old, tick)
      BY <1>4
    <3> QED  BY <1>10, <3>1, <3>2 DEF FileRow
  <2> QED  BY <1>9, <2>4, <2>5, <2>6
<1>14. PlacedInv'
  <2>1. (DOMAIN dayFiles = {RecordDay(p) : p \in Asked(at)})'
    <3>1. DOMAIN dayFiles' = DOMAIN dayFiles \cup {RecordDay(next)}
      BY <1>4
    <3> QED  BY <1>7, <3>1 DEF PlacedInv
  <2>2. (FileRows = {Place(p) : p \in Asked(at)})'
    <3> QED  BY <1>7, <1>13 DEF PlacedInv
  <2>3. (\A p \in Asked(at) : FileRow(Place(p)) = TickOf(scid[p]))'
    <3> SUFFICES ASSUME NEW p \in Asked(at)'
                 PROVE  FileRow(Place(p))' = TickOf(scid[p])
      BY <1>1 DEF TickOf
    <3>1. CASE p \in Asked(at)
      <4>1. Place(p) \in FileRows /\ FileRow(Place(p)) = TickOf(scid[p])
        BY <3>1 DEF PlacedInv
      <4> QED  BY <1>7, <1>13, <4>1 DEF FileRow
    <3>2. CASE p = next
      BY <1>13, <3>2
    <3> QED  BY <1>7, <3>1, <3>2
  <2>4. ASSUME NEW d \in DOMAIN dayFiles'
        PROVE  /\ dayFiles'[d] \in Seq(TicksTold)
               /\ Len(dayFiles'[d]) = Cardinality({p \in Asked(at)' : RecordDay(p) = d})
    <3>1. CASE d = date
      <4>1. dayFiles'[d] = Append(old, tick)
        BY <1>4, <3>1
      <4>2. {p \in Asked(at)' : RecordDay(p) = d} = Of(date) \cup {next}
        BY <1>7, <3>1
      <4>3. Cardinality(Of(date) \cup {next}) = Cardinality(Of(date)) + 1
        <5>1. IsFiniteSet(Of(date)) /\ next \notin Of(date)
          BY <1>5, FS_Subset
        <5> HIDE DEF Of
        <5> QED  BY <5>1, FS_AddElement
      <4> HIDE DEF Of
      <4> QED  BY <1>6, <1>10, <4>1, <4>2, <4>3
    <3>2. CASE d # date
      <4>1. d \in DOMAIN dayFiles /\ dayFiles'[d] = dayFiles[d]
        BY <1>4, <3>2
      <4>2. {p \in Asked(at)' : RecordDay(p) = d} = Of(d)
        BY <1>7, <3>2
      <4> QED  BY <4>1, <4>2 DEF PlacedInv
    <3> QED  BY <3>1, <3>2
  <2> HIDE DEF Of
  <2>5. TicksTold' = TicksTold
    BY DEF TicksTold, TickOf
  <2>6. \A d : {p \in Asked(at) : RecordDay(p) = d}' = {p \in Asked(at)' : RecordDay(p) = d}
    BY <1>7
  <2> QED  BY <2>1, <2>2, <2>3, <2>4, <2>5, <2>6 DEF PlacedInv
<1>15. LatestIsOpen'
  <2>1. Asked(at)' # {} /\ next \in Asked(at)' /\ current' = RecordDay(next)
    BY <1>3, <1>7
  <2>2. \A p \in Asked(at)' : RecordDay(p) <= current'
    <3>1. RecordDay(next) <= RecordDay(next)
      <4>1. RecordDay(next) \in Nat
        BY <1>2, RecordsInOrder DEF ReadingInv
      <4> QED  BY <4>1
    <3> QED  BY <1>3, <1>6, <1>7, <3>1
  <2> QED  BY <1>7, <2>1, <2>2 DEF LatestIsOpen
<1> QED  BY <1>14, <1>15

LEMMA ExportStep == ExportInv /\ [TickFilesNext]_tickFilesVars => ExportInv'
<1> SUFFICES ASSUME ExportInv, [TickFilesNext]_tickFilesVars PROVE ExportInv'
  OBVIOUS
<1>1. /\ scid \in Seq(Records) /\ window \in Windows /\ streaming \in BOOLEAN
      /\ at \in Nat /\ Len(scid) \in Nat /\ at <= Len(scid)
      /\ kept = Cardinality(Windowed(at))
  BY DEF ExportInv, ReadingInv
<1>2. scid' = scid /\ window' = window
  BY DEF TickFilesNext, tickFilesVars, SkipRecord, PastEnd, ThinOut, WriteTick, EndOfFile
<1>3. /\ Windowed(at)' = Windowed(at') /\ Asked(at)' = Asked(at')
      /\ InTimeOrder(scid)' = InTimeOrder(scid)
      /\ \A p : InWindow(scid[p])' = InWindow(scid[p])
  BY <1>2, SameFile
<1>4. CASE SkipRecord \/ ThinOut
  <2>1. /\ at < Len(scid) /\ at' = at + 1 /\ streaming /\ streaming' = streaming
        /\ dayFiles' = dayFiles /\ current' = current
    BY <1>4 DEF SkipRecord, ThinOut
  <2>2. kept' = Cardinality(Windowed(at + 1)) /\ Asked(at + 1) = Asked(at)
    <3>1. CASE SkipRecord
      <4>1. ~InWindow(scid[at + 1]) /\ kept' = kept
        BY <3>1 DEF SkipRecord, InWindow
      <4>2. Cardinality(Windowed(at + 1)) = Cardinality(Windowed(at))
        BY <1>1, <4>1, WindowedGrows
      <4>3. Asked(at + 1) = Asked(at)
        BY <1>1, <4>1, AskedGrows
      <4> QED  BY <1>1, <4>1, <4>2, <4>3
    <3>2. CASE ThinOut
      <4>1. InWindow(scid[at + 1]) /\ kept' = kept + 1 /\ (kept + 1) % window.every # 0
        BY <3>2 DEF ThinOut
      <4>2. Cardinality(Windowed(at + 1)) = Cardinality(Windowed(at)) + 1
        BY <1>1, <4>1, WindowedGrows
      <4>3. Cardinality(Windowed(at + 1)) % window.every # 0
        BY <1>1, <4>1, <4>2
      <4>4. Asked(at + 1) = Asked(at)
        BY <1>1, <4>3, AskedGrows
      <4> QED  BY <1>1, <4>1, <4>2, <4>4
    <3> QED  BY <1>4, <3>1, <3>2
  <2>3. ReadingInv'
    BY <1>1, <1>2, <1>3, <2>1, <2>2 DEF ReadingInv
  <2>4. ASSUME InTimeOrder(scid)
        PROVE  PlacedInv' /\ LatestIsOpen' /\ StoppedAtTheEnd'
    <3>1. PlacedInv /\ LatestIsOpen
      BY <2>4 DEF ExportInv
    <3>2. PlacedInv' /\ LatestIsOpen'
      BY <1>2, <2>1, <2>2, <3>1, NothingTold
    <3>3. StoppedAtTheEnd'
      BY <2>1 DEF StoppedAtTheEnd
    <3> QED  BY <3>2, <3>3
  <2> QED  BY <1>3, <2>3, <2>4 DEF ExportInv
<1>5. CASE WriteTick
  <2>1. /\ at < Len(scid) /\ InWindow(scid[at + 1]) /\ kept' = kept + 1
        /\ at' = at + 1 /\ streaming /\ streaming' = streaming
    BY <1>5 DEF WriteTick
  <2>2. Cardinality(Windowed(at + 1)) = kept + 1
    BY <1>1, <2>1, WindowedGrows
  <2>3. ReadingInv'
    BY <1>1, <1>2, <1>3, <2>1, <2>2 DEF ReadingInv
  <2>4. ASSUME InTimeOrder(scid)
        PROVE  PlacedInv' /\ LatestIsOpen' /\ StoppedAtTheEnd'
    <3>1. ReadingInv /\ PlacedInv /\ LatestIsOpen
      BY <2>4 DEF ExportInv
    <3>2. PlacedInv' /\ LatestIsOpen'
      <4>1. PICK next : next = at + 1
        OBVIOUS
      <4>2. PICK date : date = RecordDay(next)
        OBVIOUS
      <4>3. PICK tick : tick = TickOf(scid[next])
        OBVIOUS
      <4>4. PICK old : old = IF date # current THEN <<>> ELSE dayFiles[date]
        OBVIOUS
      <4> QED  BY <1>5, <2>4, <3>1, <4>1, <4>2, <4>3, <4>4, RowLands
    <3>3. StoppedAtTheEnd'
      BY <2>1 DEF StoppedAtTheEnd
    <3> QED  BY <3>2, <3>3
  <2> QED  BY <1>3, <2>3, <2>4 DEF ExportInv
<1>6. CASE PastEnd \/ EndOfFile \/ UNCHANGED tickFilesVars
  <2>1. /\ at' = at /\ kept' = kept /\ dayFiles' = dayFiles /\ current' = current
        /\ streaming' \in BOOLEAN
    BY <1>1, <1>6 DEF PastEnd, EndOfFile, tickFilesVars
  <2>2. ReadingInv'
    BY <1>1, <1>2, <1>3, <2>1 DEF ReadingInv
  <2>3. ASSUME InTimeOrder(scid)
        PROVE  PlacedInv' /\ LatestIsOpen' /\ StoppedAtTheEnd'
    <3>1. PlacedInv /\ LatestIsOpen /\ StoppedAtTheEnd
      BY <2>3 DEF ExportInv
    <3>2. PlacedInv' /\ LatestIsOpen'
      BY <1>2, <2>1, <3>1, NothingTold
    <3>3. StoppedAtTheEnd'
      <4>1. CASE PastEnd
        <5>1. at < Len(scid) /\ AfterEnd(scid[at + 1])
          BY <4>1 DEF PastEnd
        <5>2. ASSUME NEW p \in (at + 1)..Len(scid) PROVE AfterEnd(scid[p])
          <6>1. p \in DOMAIN scid /\ at + 1 \in DOMAIN scid /\ at + 1 <= p
            BY <1>1, <5>1
          <6>2. scid[p] \in Records /\ scid[at + 1] \in Records
            BY <1>1, <6>1
          <6>3. scid[p].when \in Nat /\ scid[at + 1].when \in Nat
            BY <6>2, TickFilesAssumption
          <6>4. scid[at + 1].when <= scid[p].when
            BY <1>1, <2>3, <6>1, <6>3 DEF InTimeOrder
          <6>5. window.end # NoBound /\ ParsedDay(window.end) \in Nat
            BY <1>1, <5>1, TickFilesAssumption DEF AfterEnd, ParsedDay
          <6> QED  BY <5>1, <6>3, <6>4, <6>5 DEF AfterEnd
        <5>3. \A p \in (at + 1)..Len(scid) : ~InWindow(scid[p])
          BY <5>2 DEF InWindow
        <5> QED  BY <1>2, <1>3, <2>1, <5>3 DEF StoppedAtTheEnd
      <4>2. CASE EndOfFile
        <5>1. (at + 1)..Len(scid) = {}
          BY <1>1, <4>2 DEF EndOfFile
        <5> QED  BY <1>2, <2>1, <5>1 DEF StoppedAtTheEnd
      <4>3. CASE UNCHANGED tickFilesVars
        <5>1. streaming' = streaming
          BY <4>3 DEF tickFilesVars
        <5> QED  BY <1>2, <1>3, <2>1, <3>1, <5>1 DEF StoppedAtTheEnd
      <4> QED  BY <1>6, <4>1, <4>2, <4>3
    <3> QED  BY <3>2, <3>3
  <2> QED  BY <1>3, <2>2, <2>3 DEF ExportInv
<1> QED  BY <1>4, <1>5, <1>6 DEF TickFilesNext

(* The daily files of a recording in time order, read back in the order of  *)
(* their names, are the records of the window, thinned, each in its place   *)
(* and in the order of the recording (read_ticks, write_daily_csvs and      *)
(* _csv_rows), however long the recording and whatever the window.  The     *)
(* window is the code's: it ends with the midnight at which its last day    *)
(* begins, as _parse_day has it.                                            *)
THEOREM ExportIsFaithful == TickFilesSpec => []NothingOverwritten
<1>1. TickFilesSpec => []ExportInv
  <2>1. TickFilesInit => ExportInv
    BY ExportStart
  <2>2. ExportInv /\ [TickFilesNext]_tickFilesVars => ExportInv'
    BY ExportStep
  <2> QED  BY <2>1, <2>2, PTL DEF TickFilesSpec
<1>2. ExportInv => NothingOverwritten
  <2> SUFFICES ASSUME ExportInv, ~streaming, InTimeOrder(scid)
               PROVE  NothingOverwritten
    BY DEF NothingOverwritten
  <2>1. ReadingInv /\ PlacedInv /\ StoppedAtTheEnd
    BY DEF ExportInv
  <2>2. at \in Nat /\ Len(scid) \in Nat /\ at <= Len(scid) /\ scid \in Seq(Records)
    BY <2>1 DEF ReadingInv
  <2>3. Asked(Len(scid)) = Asked(at)
    <3>1. \A p \in (at + 1)..Len(scid) : ~InWindow(scid[p])
      BY <2>1 DEF StoppedAtTheEnd
    <3> QED  BY <2>2, <3>1, NothingMoreAsked
  <2>4. /\ FileRows = {Place(p) : p \in Asked(at)}
        /\ \A p \in Asked(at) : FileRow(Place(p)) = TickOf(scid[p])
    BY <2>1 DEF PlacedInv
  <2>5. ReadBack = {Place(p) : p \in {q \in Asked(at) : Quoted(TickOf(scid[q]))}}
    BY <2>4 DEF ReadBack
  <2>6. \A p, q \in Asked(Len(scid)) : p < q => Precedes(Place(p), Place(q))
    BY <2>2, PlacesAscend
  <2> QED  BY <2>3, <2>4, <2>5, <2>6 DEF NothingOverwritten
<1> QED  BY <1>1, <1>2, PTL

--------------------------------------------------------------------------------
(* The strategy: no proposal against the trend, and none after a run.       *)

Within(bound) == {n \in Int : -bound <= n /\ n <= bound}

LEMMA Bounded ==
  ASSUME NEW x \in Int, NEW bound \in Nat
  PROVE  AtMost(x, bound) \in Within(bound)
BY DEF AtMost, Within

LEMMA TrendIsSigned ==
  ASSUME NEW tf \in SlowFrame
  PROVE  /\ Separation(tf) \in Int
         /\ Direction(tf) \in {-1, 0, 1}
BY DEF SlowFrame, Separation, Direction, Magnitude

LEMMA ReadingFields ==
  ASSUME NEW r \in ReadingType
  PROVE  /\ r.confirms[1] \in SlowFrame /\ r.confirms[2] \in SlowFrame
         /\ r.atr \in Nat /\ {r.entryGap, r.away, r.rsi, r.imbalance, r.momentum} \subseteq Int
BY DEF ReadingType

(* What each part of the score can add.                                     *)
LEMMA PartsBounded ==
  ASSUME NEW r \in ReadingType, Allowed(r) \in {-1, 1}
  PROVE  /\ Conviction(r) \in Within(3000)
         /\ Pressure(r) \in Within(1000)
         /\ Momentum(r) \in Within(500)
         /\ Exhaustion(r) \in {-2000, 0, 2000}
         /\ Stretch(r) \in Int
<1>1. Conviction(r) \in Within(3000)
  <2> DEFINE mean == (Separation(r.confirms[1]) + Separation(r.confirms[2])) \div 2
  <2>1. mean \in Int
    BY ReadingFields, TrendIsSigned
  <2> HIDE DEF mean
  <2>2. AtMost(mean, 100) \in Within(100)
    BY <2>1, 100 \in Nat, Bounded
  <2>3. Conviction(r) = 30 * Allowed(r) * AtMost(mean, 100)
    BY DEF Conviction, mean
  <2>4. CASE Allowed(r) = 1
    BY <2>2, <2>3, <2>4 DEF Within
  <2>5. CASE Allowed(r) = -1
    BY <2>2, <2>3, <2>5 DEF Within
  <2> QED  BY <2>4, <2>5
<1>2. Pressure(r) \in Within(1000)
  <2>1. r.imbalance \in Int
    BY ReadingFields
  <2>2. AtMost(r.imbalance, 100) \in Within(100)
    BY <2>1, 100 \in Nat, Bounded
  <2> QED  BY <2>2 DEF Pressure, Within
<1>3. Momentum(r) \in Within(500)
  <2>1. CASE r.atr > 0
    <3>1. (100 * r.momentum) \div r.atr \in Int
      BY <2>1, ReadingFields
    <3>2. AtMost((100 * r.momentum) \div r.atr, 100) \in Within(100)
      BY <3>1, 100 \in Nat, Bounded
    <3> QED  BY <3>2, <2>1 DEF Momentum, Within
  <2>2. CASE ~(r.atr > 0)
    BY <2>2 DEF Momentum, Within
  <2> QED  BY <2>1, <2>2
<1>4. Exhaustion(r) \in {-2000, 0, 2000}
  BY DEF Exhaustion
<1>5. Stretch(r) \in Int
  BY ReadingFields DEF Stretch
<1> QED  BY <1>1, <1>2, <1>3, <1>4, <1>5

LEMMA ScoreIsANumber ==
  ASSUME NEW r \in ReadingType, Allowed(r) \in {-1, 1}
  PROVE  Score(r) \in Int /\ Magnitude(Score(r)) <= 10000
<1> DEFINE sum == Conviction(r) + Pullback(r) + Exhaustion(r) + Pressure(r) + Momentum(r)
<1>1. Pullback(r) \in Int
  BY DEF Pullback
<1>2. sum \in Int
  <2>1. Conviction(r) \in Within(3000) /\ Pressure(r) \in Within(1000)
        /\ Momentum(r) \in Within(500)
    BY PartsBounded
  <2>2. Exhaustion(r) \in Int
    BY DEF Exhaustion
  <2> QED  BY <1>1, <2>1, <2>2 DEF Within
<1> HIDE DEF sum
<1>3. AtMost(sum, 10000) \in Within(10000)
  BY <1>2, 10000 \in Nat, Bounded
<1>4. Score(r) \in Within(10000)
  BY <1>3 DEF Score, sum
<1> QED  BY <1>4 DEF Within, Magnitude

(* The signal is the one that follows from the reading, or there is none.   *)
SignalInv == reading \in ReadingType /\ signal \in {NoSignal, Verdict(reading)}

LEMMA SignalFollows == StrategySpec => []SignalInv
<1>1. StrategyInit => SignalInv
  BY StrategyAssumption DEF StrategyInit, SignalInv
<1>2. SignalInv /\ [Evaluate]_strategyVars => SignalInv'
  BY DEF SignalInv, Evaluate, strategyVars
<1> QED  BY <1>1, <1>2, PTL DEF StrategySpec

(* A tradable signal has been through every early return.                   *)
LEMMA TradableIsScored ==
  ASSUME SignalInv, Tradable
  PROVE  /\ ~NoTrend(reading) /\ ~Disagree(reading)
         /\ (Allowed(reading) > 0) = (reading.entryGap > 0)
         /\ Magnitude(Score(reading)) >= 3000
         /\ signal.direction = SideOf(Score(reading))
         /\ SideOf(Score(reading)) = SideOf(Allowed(reading))
<1>1. signal = Verdict(reading)
  <2>1. signal # NoSignal
    <3>1. signal.direction # "FLAT"
      BY DEF Tradable
    <3>2. NoSignal.direction = "FLAT"
      BY DEF NoSignal
    <3> QED  BY <3>1, <3>2
  <2> QED  BY <2>1 DEF SignalInv
<1>2. signal = Scored(reading) /\ ~NoTrend(reading) /\ ~Disagree(reading)
      /\ (Allowed(reading) > 0) = (reading.entryGap > 0)
  BY <1>1 DEF Tradable, Verdict, Flat
<1>3. ~(Magnitude(Score(reading)) < 3000)
  BY <1>2 DEF Tradable, Scored, Flat
<1>4. Score(reading) \in Int
  BY <1>2, ReadingFields, TrendIsSigned, ScoreIsANumber DEF SignalInv, NoTrend, Allowed
<1>5. signal.direction = SideOf(Score(reading))
  BY <1>2, <1>3 DEF Scored
<1>6. "side" \notin signal.vetoes
  BY DEF Tradable
<1>7. SideOf(Score(reading)) = SideOf(Allowed(reading))
  BY <1>2, <1>3, <1>6 DEF Scored
<1> QED  BY <1>2, <1>3, <1>4, <1>5, <1>7 DEF Magnitude

(* Whatever exhaustion, book and momentum add up to, a tradable signal goes *)
(* the way all three timeframes do (Strategy.evaluate).                     *)
THEOREM SignalsFollowTheTrend == StrategySpec => []OnlyWithTheTrend
<1>1. SignalInv => OnlyWithTheTrend
  <2> SUFFICES ASSUME SignalInv, Tradable PROVE OnlyWithTheTrend
    BY DEF OnlyWithTheTrend
  <2>1. /\ Direction(reading.confirms[1]) # 0
        /\ Direction(reading.confirms[2]) = Direction(reading.confirms[1])
        /\ signal.direction = SideOf(Direction(reading.confirms[1]))
    BY TradableIsScored DEF NoTrend, Disagree, Allowed
  <2>2. (Allowed(reading) > 0) = (reading.entryGap > 0)
    BY TradableIsScored
  <2>3. SideOf(Allowed(reading)) = SideOf(reading.entryGap)
    BY <2>2 DEF SideOf
  <2> QED  BY <2>1, <2>3 DEF OnlyWithTheTrend, Allowed
<1> QED  BY <1>1, SignalFollows, PTL

(* With the penalty for a run and no help from the RSI the other parts of   *)
(* the score cannot reach the threshold on the side of the trend.           *)
LEMMA RunIsNotScored ==
  ASSUME NEW r \in ReadingType, Allowed(r) \in {-1, 1},
         Allowed(r) * Stretch(r) > 150, ~(Allowed(r) * Exhaustion(r) > 0)
  PROVE  Allowed(r) * Score(r) < 3000
<1> DEFINE sum == Conviction(r) + Pullback(r) + Exhaustion(r) + Pressure(r) + Momentum(r)
<1>1. Conviction(r) \in Within(3000) /\ Pressure(r) \in Within(1000)
      /\ Momentum(r) \in Within(500)
  BY PartsBounded
<1>2. Stretch(r) \in Int /\ Exhaustion(r) \in {-2000, 0, 2000}
  BY PartsBounded
<1>3. /\ Allowed(r) = 1 => Pullback(r) = -2500
      /\ Allowed(r) = -1 => Pullback(r) = 2500
  <2> DEFINE stretch == Allowed(r) * Stretch(r)
  <2>1. stretch \in Int /\ stretch > 150
    BY <1>2
  <2>2. Pullback(r) = -2500 * Allowed(r)
    <3>1. Pullback(r) = IF -120 <= stretch /\ stretch <= 35 THEN 3500 * Allowed(r)
                        ELSE IF stretch > 150 THEN -2500 * Allowed(r) ELSE 0
      BY DEF Pullback
    <3> HIDE DEF stretch
    <3> QED  BY <2>1, <3>1
  <2>3. Allowed(r) = 1 => Pullback(r) = -2500
    BY <2>2
  <2>4. ASSUME Allowed(r) = -1 PROVE Pullback(r) = 2500
    <3>1. Allowed(r) \in Int
      BY <2>4
    <3>2. \A a \in Int : (-2500) * a = 2500 * (-a)
      OBVIOUS
    <3>3. 2500 * (-Allowed(r)) = 2500
      BY <2>4
    <3>4. -2500 * Allowed(r) = 2500
      BY <3>1, <3>2, <3>3
    <3> QED  BY <2>2, <3>4
  <2> QED  BY <2>3, <2>4
<1>4. Allowed(r) * sum <= 2000 /\ sum \in Int
  <2>1. CASE Allowed(r) = 1
    <3>1. Exhaustion(r) \in {-2000, 0} /\ Pullback(r) = -2500
      BY <2>1, <1>2, <1>3
    <3> QED  BY <2>1, <3>1, <1>1 DEF Within
  <2>2. CASE Allowed(r) = -1
    <3>1. Pullback(r) = 2500
      BY <2>2, <1>3
    <3>2. Exhaustion(r) # -2000
      BY <2>2
    <3>3. Exhaustion(r) \in {2000, 0}
      BY <1>2, <3>2
    <3> QED  BY <2>2, <3>1, <3>3, <1>1 DEF Within
  <2> QED  BY <2>1, <2>2
<1>5. Score(r) = AtMost(sum, 10000)
  BY DEF Score
<1> HIDE DEF sum
<1>6. CASE Allowed(r) = 1
  BY <1>4, <1>5, <1>6 DEF AtMost
<1>7. CASE Allowed(r) = -1
  BY <1>4, <1>5, <1>7 DEF AtMost
<1> QED  BY <1>6, <1>7

(* No sum of conviction, book and momentum makes a tradable signal of a     *)
(* market that has run from its EMA, whatever the readings                  *)
(* (Strategy.evaluate, the extension penalty).                              *)
THEOREM RunsAreNotChased == StrategySpec => []NoChasing
<1>1. SignalInv => NoChasing
  <2> SUFFICES ASSUME SignalInv, Tradable, Allowed(reading) * Stretch(reading) > 150,
                      ~(Allowed(reading) * Exhaustion(reading) > 0)
               PROVE  FALSE
    BY DEF NoChasing
  <2>1. reading \in ReadingType
    BY DEF SignalInv
  <2>2. Allowed(reading) \in {-1, 1}
    BY <2>1, TradableIsScored, ReadingFields, TrendIsSigned DEF NoTrend, Allowed
  <2>3. Allowed(reading) * Score(reading) < 3000 /\ Score(reading) \in Int
    BY <2>1, <2>2, RunIsNotScored, ScoreIsANumber
  <2>4. Magnitude(Score(reading)) >= 3000
        /\ SideOf(Score(reading)) = SideOf(Allowed(reading))
    BY TradableIsScored
  <2>5. CASE Allowed(reading) = 1
    BY <2>3, <2>4, <2>5 DEF Magnitude, SideOf
  <2>6. CASE Allowed(reading) = -1
    BY <2>3, <2>4, <2>6 DEF Magnitude, SideOf
  <2> QED  BY <2>2, <2>5, <2>6
<1> QED  BY <1>1, SignalFollows, PTL

--------------------------------------------------------------------------------
(* The panel's rate limit.                                                  *)

(* What has been popped of a client's deque is outside the window for good. *)
PanelInv ==
  /\ monotonic \in Nat
  /\ admitted \in [Clients -> Seq(Nat)]
  /\ popped \in [Clients -> Nat]
  /\ \A c \in Clients :
       /\ popped[c] <= Len(admitted[c])
       /\ \A i \in 1..popped[c] : Stale(c, i)
  /\ RateBounded

(* A request let through is RateLimit requests after one that is stale.     *)
LEMMA AdmittedLate ==
  ASSUME PanelInv, NEW c \in Clients, NEW k \in Nat, Dropped(c, k),
         Len(admitted[c]) - k < RateLimit,
         NEW i \in 1..Len(admitted[c]), i + RateLimit = Len(admitted[c]) + 1
  PROVE  monotonic - admitted[c][i] > RateWindow
<1>1. Len(admitted[c]) \in Nat /\ RateLimit \in Nat
  BY PanelAssumption DEF PanelInv
<1>2. i <= k
  BY <1>1
<1>3. Stale(c, i)
  <2>1. CASE i <= popped[c]
    BY <2>1 DEF PanelInv
  <2>2. CASE i > popped[c]
    <3>1. i \in popped[c] + 1..k
      BY <1>2, <2>2 DEF PanelInv
    <3> QED  BY <3>1 DEF Dropped
  <2> QED  BY <2>1, <2>2 DEF PanelInv
<1> QED  BY <1>3 DEF Stale

LEMMA PanelKeepsRate ==
  ASSUME PanelInv, [PanelNext]_panelVars
  PROVE  PanelInv'
<1>1. CASE TimePasses
  <2>1. monotonic' = monotonic + 1 /\ UNCHANGED <<admitted, popped>>
    BY <1>1 DEF TimePasses
  <2>2. \A c \in Clients : \A i \in 1..popped[c] : Stale(c, i)'
    <3> SUFFICES ASSUME NEW c \in Clients, NEW i \in 1..popped[c] PROVE Stale(c, i)'
      OBVIOUS
    <3>1. i \in 1..Len(admitted[c])
      BY DEF PanelInv
    <3>2. admitted[c][i] \in Nat
      BY <3>1 DEF PanelInv
    <3> QED  BY <2>1, <3>2, PanelAssumption DEF PanelInv, Stale
  <2> QED  BY <2>1, <2>2 DEF PanelInv, RateBounded
<1>2. ASSUME NEW c \in Clients, NEW k \in 0..Len(admitted[c]), SlowDown(c, k)
      PROVE  PanelInv'
  <2>1. /\ popped' = [popped EXCEPT ![c] = k] /\ UNCHANGED <<monotonic, admitted>>
        /\ Dropped(c, k) /\ k \in Nat
    BY <1>2 DEF SlowDown, PanelInv
  <2>2. \A d \in Clients : /\ popped'[d] <= Len(admitted[d])
                           /\ \A i \in 1..popped'[d] : Stale(d, i)
    BY <1>2, <2>1 DEF PanelInv, Dropped
  <2> QED  BY <2>1, <2>2 DEF PanelInv, RateBounded, Stale
<1>3. ASSUME NEW c \in Clients, NEW k \in 0..Len(admitted[c]),
             NEW tokenRight \in BOOLEAN, Admit(c, k, tokenRight)
      PROVE  PanelInv'
  <2>1. /\ popped' = [popped EXCEPT ![c] = k]
        /\ admitted' = [admitted EXCEPT ![c] = Append(@, monotonic)]
        /\ monotonic' = monotonic
        /\ Dropped(c, k) /\ Len(admitted[c]) - k < RateLimit /\ k \in Nat
    BY <1>3 DEF Admit, PanelInv
  <2> DEFINE n == Len(admitted[c])
  <2>2. n \in Nat /\ admitted[c] \in Seq(Nat)
    BY DEF PanelInv
  <2>3. /\ admitted'[c] = Append(admitted[c], monotonic) /\ Len(admitted'[c]) = n + 1
        /\ \A i \in 1..n : admitted'[c][i] = admitted[c][i]
        /\ admitted'[c][n + 1] = monotonic
        /\ \A d \in Clients \ {c} : admitted'[d] = admitted[d]
    BY <2>1, <2>2 DEF PanelInv
  <2>4. admitted' \in [Clients -> Seq(Nat)] /\ popped' \in [Clients -> Nat]
    BY <2>1, <2>2 DEF PanelInv
  <2>5. ASSUME NEW d \in Clients
        PROVE  popped'[d] <= Len(admitted'[d]) /\ \A i \in 1..popped'[d] : Stale(d, i)'
    <3>1. CASE d = c
      <4>1. popped'[c] = k /\ k <= n
        BY <2>1, <1>3 DEF PanelInv
      <4>2. \A i \in 1..k : Stale(c, i)
        BY <2>1 DEF PanelInv, Dropped
      <4> QED  BY <3>1, <4>1, <4>2, <2>1, <2>2, <2>3 DEF Stale
    <3>2. CASE d # c
      <4>1. popped'[d] = popped[d] /\ admitted'[d] = admitted[d]
        BY <2>1, <2>3, <3>2 DEF PanelInv
      <4> QED  BY <4>1, <2>1 DEF PanelInv, Stale
    <3> QED  BY <3>1, <3>2
  <2>6. RateBounded'
    <3> SUFFICES ASSUME NEW d \in Clients, NEW i \in 1..Len(admitted'[d]),
                        i + RateLimit <= Len(admitted'[d])
                 PROVE  admitted'[d][i + RateLimit] - admitted'[d][i] > RateWindow
      BY DEF RateBounded
    <3>0. RateLimit \in Nat \ {0}
      BY PanelAssumption
    <3>1. CASE d # c
      BY <3>1, <2>3 DEF PanelInv, RateBounded
    <3>2. CASE d = c /\ i + RateLimit <= n
      <4>1. i \in 1..n /\ i + RateLimit \in 1..n
        BY <3>0, <3>2, <2>2
      <4> QED  BY <4>1, <3>2, <2>3 DEF PanelInv, RateBounded
    <3>3. CASE d = c /\ i + RateLimit = n + 1
      <4>1. i \in 1..n
        BY <3>0, <3>3, <2>2
      <4>2. monotonic - admitted[c][i] > RateWindow
        BY <4>1, <3>3, <2>1, AdmittedLate
      <4> QED  BY <4>1, <4>2, <3>3, <2>3
    <3> QED  BY <3>0, <3>1, <3>2, <3>3, <2>2, <2>3
  <2> QED  BY <2>1, <2>4, <2>5, <2>6 DEF PanelInv
<1>4. CASE UNCHANGED panelVars
  BY <1>4 DEF PanelInv, RateBounded, Stale, panelVars
<1> QED  BY <1>1, <1>2, <1>3, <1>4 DEF PanelNext, WrongMethod

LEMMA RatesKept == PanelSpec => []PanelInv
<1>1. PanelInit => PanelInv
  BY DEF PanelInit, PanelInv, RateBounded, Stale
<1>2. PanelInv /\ [PanelNext]_panelVars => PanelInv'
  BY PanelKeepsRate
<1> QED  BY <1>1, <1>2, PTL DEF PanelSpec

(* For any number of clients and any pattern of requests no interval of     *)
(* RateWindow sees more than RateLimit of one client let through            *)
(* (panel/server.py guard).                                                 *)
THEOREM RateHolds == PanelSpec => []RateBounded
<1>1. PanelInv => RateBounded
  BY DEF PanelInv
<1> QED  BY <1>1, RatesKept, PTL

--------------------------------------------------------------------------------
(* The types of the ten components.                                         *)

LEMMA ExportTyped == TickFilesSpec => []TickFilesTypeOK
<1> DEFINE TypeInv == /\ TickFilesTypeOK
                      /\ scid \in Seq(Records)
                      /\ \A d \in DOMAIN dayFiles : dayFiles[d] \in Seq(TicksTold)
<1>1. TickFilesInit => TypeInv
  BY TickFilesAssumption DEF TickFilesInit, TickFilesTypeOK, SeqOf
<1>2. TypeInv /\ [TickFilesNext]_tickFilesVars => TypeInv'
  <2> SUFFICES ASSUME TypeInv, [TickFilesNext]_tickFilesVars PROVE TypeInv'
    OBVIOUS
  <2>0. at \in Nat /\ kept \in Nat /\ Len(scid) \in Nat
    BY DEF TickFilesTypeOK
  <2>1. CASE SkipRecord \/ ThinOut
    BY <2>0, <2>1 DEF SkipRecord, ThinOut, TickFilesTypeOK, TicksTold, TickOf
  <2>2. CASE WriteTick
    <3>1. /\ at < Len(scid) /\ at' = at + 1 /\ kept' = kept + 1 /\ streaming' = streaming
          /\ scid' = scid /\ scid[at + 1] \in Records
      BY <2>0, <2>2 DEF WriteTick
    <3>2. PICK tick : tick = TickOf(scid[at + 1]) /\ tick \in TicksTold
      BY <3>1 DEF TicksTold
    <3>3. PICK date : date = DayOf(tick.when) /\ date \in Nat
      <4>1. tick.when = scid[at + 1].when /\ scid[at + 1].when \in Nat
        BY <3>1, <3>2, TickFilesAssumption DEF TickOf
      <4>2. scid[at + 1].when <= scid[at + 1].when
        BY <4>1
      <4> QED  BY <4>1, <4>2, DaysAscend
    <3>4. PICK old : old = IF date # current THEN <<>> ELSE dayFiles[date]
      OBVIOUS
    <3>5. /\ dayFiles' = [d \in DOMAIN dayFiles \cup {date} |->
                            IF d = date THEN Append(old, tick) ELSE dayFiles[d]]
          /\ current' = date
      BY <2>2, <3>2, <3>3, <3>4 DEF WriteTick, Written
    <3>6. old \in Seq(TicksTold)
      <4>1. date = current => date \in DOMAIN dayFiles
        BY <3>3 DEF TickFilesTypeOK
      <4> QED  BY <3>4, <4>1
    <3>7. Append(old, tick) \in Seq(TicksTold) /\ Append(old, tick) # <<>>
      BY <3>2, <3>6
    <3>8. \A d \in DOMAIN dayFiles' : dayFiles'[d] \in Seq(TicksTold) /\ dayFiles'[d] # <<>>
      BY <3>5, <3>7 DEF TickFilesTypeOK
    <3>9. current' \in DOMAIN dayFiles'
      BY <3>5
    <3>10. at' \in 0..Len(scid) /\ kept' \in 0..at'
      BY <2>0, <3>1 DEF TickFilesTypeOK
    <3>11. TicksTold' = TicksTold
      BY DEF TicksTold, TickOf
    <3> QED  BY <3>1, <3>8, <3>9, <3>10, <3>11 DEF TickFilesTypeOK
  <2>3. CASE PastEnd \/ EndOfFile \/ UNCHANGED tickFilesVars
    BY <2>0, <2>3 DEF PastEnd, EndOfFile, tickFilesVars, TickFilesTypeOK, TicksTold, TickOf
  <2> QED  BY <2>1, <2>2, <2>3 DEF TickFilesNext
<1> QED  BY <1>1, <1>2, PTL DEF TickFilesSpec

LEMMA PagingTyped == OhlcSpec => []OhlcTypeOK
<1> DEFINE TypeInv == /\ rows \subseteq WindowStart..WindowEnd /\ bars \subseteq rows
                      /\ paging \in {"on", "done", "raised"} /\ honest \in BOOLEAN
<1>1. OhlcInit => TypeInv
  BY DEF OhlcInit
<1>2. TypeInv /\ [OhlcNext]_ohlcVars => TypeInv'
  <2> SUFFICES ASSUME TypeInv, [OhlcNext]_ohlcVars PROVE TypeInv'
    OBVIOUS
  <2>0. \A R : KeptOf(R) \subseteq R
    BY DEF KeptOf
  <2>1. CASE RequestPage
    <3>1. PICK page \in Pages :
            /\ rows' = rows \cup (page.stamps \cap (WindowStart..WindowEnd))
            /\ \/ paging' = "done" /\ bars' = KeptOf(rows')
               \/ paging' = paging /\ bars' = bars
      BY <2>1 DEF RequestPage
    <3>2. honest' = honest
      BY <2>1 DEF RequestPage
    <3> QED  BY <2>0, <3>1, <3>2
  <2>2. CASE RequestRaises \/ Covering \/ UNCHANGED ohlcVars
    BY <2>0, <2>2 DEF RequestRaises, Covering, ohlcVars
  <2> QED  BY <2>1, <2>2 DEF OhlcNext
<1>3. TypeInv /\ PagingInv => OhlcTypeOK
  BY DEF OhlcTypeOK, PagingInv
<1> QED  BY <1>1, <1>2, <1>3, PagesCounted, PTL DEF OhlcSpec

LEMMA PathTyped == BarrierSpec => []BarrierTypeOK
<1>1. PathInv => BarrierTypeOK
  BY DEF PathInv, BarrierTypeOK
<1> QED  BY <1>1, RecordedPath, PTL

LEMMA DatasetTyped == DatasetSpec => []DatasetTypeOK
<1> DEFINE Counted == day <= Len(Features) /\ runs <= MaxRuns
<1>0. Len(Features) \in Nat /\ Len(Features) >= 1 /\ MaxRuns \in Nat
  BY DatasetAssumption, FeatureDays
<1>1. DatasetInit => Counted
  BY <1>0 DEF DatasetInit
<1>2. BookInv /\ Counted /\ [DatasetNext]_datasetVars => Counted'
  <2> SUFFICES ASSUME BookInv, Counted, [DatasetNext]_datasetVars PROVE Counted'
    OBVIOUS
  <2>1. day \in Nat /\ runs \in Nat
    BY DEF BookInv
  <2>2. NextDay => day' <= Len(Features)
    BY <1>0, <2>1 DEF NextDay
  <2>3. CASE StartMerge \/ MergeRefused
    BY <1>0, <2>1, <2>3 DEF StartMerge, MergeRefused
  <2>4. CASE SkipDay \/ WriteProvenance
    BY <2>2, <2>4 DEF SkipDay, WriteProvenance
  <2>5. CASE \/ ReadUpdate \/ Converted \/ DownloadMore \/ OpenOut \/ WriteRows \/ CutOff
             \/ UNCHANGED datasetVars
    BY <2>5 DEF ReadUpdate, Converted, DownloadMore, OpenOut, WriteRows, CutOff, datasetVars
  <2> QED  BY <2>3, <2>4, <2>5 DEF DatasetNext
<1>3. Counted /\ BookInv /\ MergeInv => DatasetTypeOK
  <2> SUFFICES ASSUME Counted, BookInv, MergeInv PROVE DatasetTypeOK
    OBVIOUS
  <2>1. \A d \in DOMAIN out : out[d].csv \in 0..runs /\ out[d].provenance \in 0..runs
    <3> SUFFICES ASSUME NEW d \in DOMAIN Features
                 PROVE  out[d].csv \in 0..runs /\ out[d].provenance \in 0..runs
      BY DEF BookInv
    <3>1. out[d].csv \in Nat /\ out[d].provenance \in Nat /\ runs \in Nat
      BY OutputFields DEF BookInv
    <3>2. out[d].csv <= runs /\ out[d].provenance <= out[d].csv
      BY DEF MergeInv, ProvenanceFollowsRows, BookInv
    <3> QED  BY <3>1, <3>2
  <2>2. taken \in 0..Len(download) /\ day \in 0..Len(Features) /\ runs \in 0..MaxRuns
    <3>1. Len(download) \in Nat
      BY DEF BookInv
    <3> QED  BY <1>0, <3>1 DEF BookInv
  <2> QED  BY <2>1, <2>2 DEF DatasetTypeOK, BookInv
<1> QED  BY <1>1, <1>2, <1>3, BooksAreTyped, MergesKept, PTL DEF DatasetSpec

LEMMA WorkspaceTyped == WorkspaceSpec => []WorkspaceTypeOK
<1> DEFINE Counted == status \in -1..2 /\ collects \in 0..MaxCollects
<1>1. WorkspaceInit => Counted
  BY WorkspaceAssumption DEF WorkspaceInit
<1>2. Counted /\ [WorkspaceNext]_workspaceVars => Counted'
  BY WorkspaceAssumption
     DEF WorkspaceNext, workspaceVars, CollectRefused, CollectStarts, ReplayEntry, NextFile,
         CollectStops, CollectDies, LiveRow, Cleared
<1>3. Counted /\ WorkspaceInv => WorkspaceTypeOK
  <2> SUFFICES ASSUME Counted, WorkspaceInv PROVE WorkspaceTypeOK
    OBVIOUS
  <2>1. ASSUME NEW dir \in Dirs, NEW d \in Days, NEW i \in DOMAIN dirs[dir][d]
        PROVE  dirs[dir][d][i].kind \in {"tick", "row", "live"}
    <3>1. dirs[dir][d] \in Seq(FileEntries)
      BY DEF WorkspaceInv
    <3>2. dirs[dir][d][i] \in FileEntries
      BY <3>1
    <3> QED  BY <3>2 DEF FileEntries
  <2> QED  BY <2>1 DEF WorkspaceTypeOK, WorkspaceInv
<1>4. WorkspaceSpec => []WorkspaceInv
  BY WorkspaceStart, WorkspaceStep, PTL DEF WorkspaceSpec
<1> QED  BY <1>1, <1>2, <1>3, <1>4, PTL DEF WorkspaceSpec

LEMMA SignalTyped == StrategySpec => []StrategyTypeOK
<1>1. SignalInv => StrategyTypeOK
  <2> SUFFICES ASSUME SignalInv PROVE StrategyTypeOK
    OBVIOUS
  <2> DEFINE Typed(s) == /\ s.direction \in {"FLAT", "BUY", "SELL"}
                         /\ s.score \in Int /\ Magnitude(s.score) <= 10000
  <2>1. Typed(NoSignal) /\ \A v : Typed(Flat(v))
    BY DEF NoSignal, Flat, Magnitude
  <2>2. ASSUME ~NoTrend(reading) PROVE Typed(Scored(reading))
    <3>1. Allowed(reading) \in {-1, 1}
      BY <2>2, ReadingFields, TrendIsSigned DEF SignalInv, NoTrend, Allowed
    <3>2. PICK score : /\ score = Score(reading)
                       /\ score \in Int /\ Magnitude(score) <= 10000
      BY <3>1, ScoreIsANumber DEF SignalInv
    <3>3. SideOf(score) \in {"BUY", "SELL"}
      BY DEF SideOf
    <3> QED  BY <3>2, <3>3 DEF Scored, Flat
  <2>3. Typed(Verdict(reading))
    <3> HIDE DEF Typed
    <3> QED  BY <2>1, <2>2 DEF Verdict
  <2>4. Typed(signal)
    <3> HIDE DEF Typed
    <3> QED  BY <2>1, <2>3 DEF SignalInv
  <2> QED  BY <2>4 DEF StrategyTypeOK
<1> QED  BY <1>1, SignalFollows, PTL

LEMMA PanelTyped == PanelSpec => []PanelTypeOK
<1> DEFINE ServedOK == served \in [Clients -> Nat]
<1>1. PanelInit => ServedOK
  BY DEF PanelInit
<1>2. ServedOK /\ [PanelNext]_panelVars => ServedOK'
  BY DEF PanelNext, panelVars, TimePasses, WrongMethod, SlowDown, Admit
<1>3. ServedOK /\ PanelInv => PanelTypeOK
  BY DEF PanelInv, PanelTypeOK
<1> QED  BY <1>1, <1>2, <1>3, RatesKept, PTL DEF PanelSpec

LEMMA PurchaseTyped == PurchaseSpec => []PurchaseTypeOK
<1>1. PurchaseInv => PurchaseTypeOK
  BY DEF PurchaseInv
<1> QED  BY <1>1, PurchasesTyped, PTL

(* Before os.replace the temporary file is a snapshot written to its end;   *)
(* what the panel has read came from the file os.replace made.              *)
EngineTyped ==
  /\ up \in {"down", "starting", "running"}
  /\ held \subseteq Trades /\ closing \subseteq Trades /\ booked \subseteq Trades

LoopTyped ==
  /\ loop \in {"ended", "wait", "status", "positions", "history", "write", "writing",
               "replace"}
  /\ begun \subseteq Trades /\ draft \in Snapshots
  /\ temporary \in Snapshots \cup {Missing, HalfWritten}
  /\ loop = "replace" => temporary \in Snapshots

PageTyped ==
  /\ stateFile \in Snapshots \cup {Missing} /\ overdue \in BOOLEAN
  /\ raw \in Snapshots \cup {Missing}
  /\ shown \in [snapshot : Snapshots \cup {Missing}, stale : BOOLEAN]

PublisherInv == EngineTyped /\ LoopTyped /\ PageTyped

LEMMA TradesAreCounted ==
  ASSUME NEW T \in SUBSET Trades
  PROVE  Cardinality(T) \in 0..MaxOpened
<1>1. MaxOpened \in Nat
  BY PublisherAssumption
<1>2. IsFiniteSet(1..MaxOpened) /\ Cardinality(1..MaxOpened) = MaxOpened
  BY <1>1, FS_Interval
<1>3. IsFiniteSet(T) /\ Cardinality(T) <= MaxOpened
  BY <1>2, FS_Subset DEF Trades
<1>4. Cardinality(T) \in Nat
  BY <1>3, FS_CardinalityType
<1> QED  BY <1>1, <1>3, <1>4

(* A snapshot with one of its fields replaced is one.                       *)
LEMMA DraftFields ==
  ASSUME NEW s \in Snapshots, NEW n \in 0..MaxOpened, NEW T \in SUBSET Trades
  PROVE  /\ [s EXCEPT !.count = n] \in Snapshots
         /\ [s EXCEPT !.positions = T] \in Snapshots
         /\ [s EXCEPT !.trades = T] \in Snapshots
<1> DEFINE Counts == 0..MaxOpened
           Sets == SUBSET Trades
<1>1. Snapshots = [count : Counts, positions : Sets, trades : Sets]
  BY DEF Snapshots
<1>2. n \in Counts /\ T \in Sets
  OBVIOUS
<1> HIDE DEF Counts, Sets
<1>3. [s EXCEPT !.count = n] \in Snapshots
  BY <1>1, <1>2
<1>4. [s EXCEPT !.positions = T] \in Snapshots
  BY <1>1, <1>2
<1>5. [s EXCEPT !.trades = T] \in Snapshots
  BY <1>1, <1>2
<1> QED  BY <1>3, <1>4, <1>5

LEMMA PublisherTyped == PublisherInit /\ [][PublisherNext]_publisherVars => []PublisherTypeOK
<1>0. MaxOpened \in Nat /\ Empty \in Snapshots
  BY PublisherAssumption DEF Empty, Snapshots
<1>1. PublisherInit => PublisherInv
  <2> SUFFICES ASSUME PublisherInit PROVE PublisherInv
    OBVIOUS
  <2>1. EngineTyped /\ LoopTyped
    BY <1>0 DEF PublisherInit, EngineTyped, LoopTyped
  <2>2. PageTyped
    BY DEF PublisherInit, PageTyped
  <2> QED  BY <2>1, <2>2 DEF PublisherInv
<1>2. PublisherInv /\ [PublisherNext]_publisherVars => PublisherInv'
  <2> SUFFICES ASSUME PublisherInv, [PublisherNext]_publisherVars PROVE PublisherInv'
    OBVIOUS
  <2>0. EngineTyped /\ LoopTyped /\ PageTyped
    BY DEF PublisherInv
  <2>1. CASE ProcessStarts \/ ProcessEnds \/ GrowsOld \/ UNCHANGED publisherVars
    <3>1. EngineTyped' /\ LoopTyped'
      BY <1>0, <2>0, <2>1 DEF ProcessStarts, ProcessEnds, GrowsOld, publisherVars, engineVars,
         loopVars, pageVars, EngineTyped, LoopTyped, Snapshots, Trades
    <3>2. PageTyped'
      BY <2>0, <2>1 DEF ProcessStarts, ProcessEnds, GrowsOld, publisherVars, engineVars,
         loopVars, pageVars, PageTyped, Snapshots, Trades
    <3> QED  BY <3>1, <3>2 DEF PublisherInv
  <2>2. CASE TradeOpens \/ TradeCloses \/ TradeBooked
    <3>1. TradeOpens => Cardinality(held \cup booked) + 1 \in Trades
      <4>1. held \cup booked \in SUBSET Trades
        BY <2>0 DEF EngineTyped
      <4>2. Cardinality(held \cup booked) \in 0..MaxOpened
        BY <4>1, TradesAreCounted
      <4> QED  BY <1>0, <4>2 DEF TradeOpens, Trades
    <3>2. EngineTyped'
      BY <2>0, <2>2, <3>1 DEF TradeOpens, TradeCloses, TradeBooked, EngineTyped, Trades
    <3>3. LoopTyped' /\ PageTyped'
      BY <2>0, <2>2 DEF TradeOpens, TradeCloses, TradeBooked, LoopTyped, PageTyped, loopVars,
         pageVars, Snapshots, Trades
    <3> QED  BY <3>2, <3>3 DEF PublisherInv
  <2>3. CASE LoopStep \/ PublishRaises
    <3>1. EngineTyped'
      BY <2>0, <2>3 DEF LoopStep, Wakes, ReadStatus, ReadPositions, PositionsRaise,
         ReadHistory, WriteBegins, WriteEnds, Publish, PublishRaises, Failed, Waits,
         engineVars, EngineTyped, Trades
    <3>2. PageTyped'
      BY <2>0, <2>3 DEF LoopStep, Wakes, ReadStatus, ReadPositions, PositionsRaise,
         ReadHistory, WriteBegins, WriteEnds, Publish, PublishRaises,
         pageVars, LoopTyped, PageTyped, Snapshots, Trades
    <3>3. LoopTyped'
      <4>1. CASE ReadStatus
        <5>1. Cardinality(booked) \in 0..MaxOpened
          BY <2>0, TradesAreCounted DEF EngineTyped
        <5>2. draft' \in Snapshots
          <6>1. draft \in Snapshots /\ {} \in SUBSET Trades
            BY <2>0 DEF LoopTyped
          <6> QED  BY <4>1, <5>1, <6>1, DraftFields DEF ReadStatus
        <5> QED  BY <2>0, <4>1, <5>2 DEF ReadStatus, LoopTyped, EngineTyped, Snapshots, Trades
      <4>2. CASE ReadPositions
        <5>1. PICK met \in SUBSET (held \cup begun) : draft' = [draft EXCEPT !.positions = met]
          BY <4>2 DEF ReadPositions
        <5>2. met \in SUBSET Trades
          BY <2>0, <5>1 DEF EngineTyped, LoopTyped
        <5>3. draft' \in Snapshots
          <6>1. draft \in Snapshots /\ 0 \in 0..MaxOpened
            BY <1>0, <2>0 DEF LoopTyped
          <6> QED  BY <5>1, <5>2, <6>1, DraftFields
        <5> QED  BY <2>0, <4>2, <5>3 DEF ReadPositions, LoopTyped, Snapshots, Trades
      <4>3. CASE ReadHistory
        <5>1. draft' \in Snapshots
          <6>1. draft \in Snapshots /\ 0 \in 0..MaxOpened /\ booked \in SUBSET Trades
            BY <1>0, <2>0 DEF EngineTyped, LoopTyped
          <6> QED  BY <4>3, <6>1, DraftFields DEF ReadHistory
        <5> QED  BY <2>0, <4>3, <5>1 DEF ReadHistory, LoopTyped, Snapshots, Trades
      <4>4. CASE Wakes \/ WriteBegins
        BY <2>0, <4>4 DEF Wakes, WriteBegins, LoopTyped, Snapshots, Trades
      <4>5. CASE PositionsRaise \/ WriteEnds \/ Publish \/ PublishRaises
        BY <1>0, <2>0, <4>5 DEF PositionsRaise, WriteEnds, Publish, PublishRaises, Failed,
           Waits, LoopTyped, Snapshots, Trades
      <4> QED  BY <2>3, <4>1, <4>2, <4>3, <4>4, <4>5 DEF LoopStep
    <3> QED  BY <3>1, <3>2, <3>3 DEF PublisherInv
  <2>4. CASE PanelStep
    <3>1. EngineTyped' /\ LoopTyped'
      BY <2>0, <2>4 DEF PanelStep, PanelReads, PanelRefuses, PanelShows, engineVars, loopVars,
         EngineTyped, LoopTyped, Snapshots, Trades
    <3>2. PageTyped'
      <4>0. PICK Seen : Seen = Snapshots \cup {Missing}
        OBVIOUS
      <4>1. /\ stateFile \in Seen /\ overdue \in BOOLEAN /\ raw \in Seen
            /\ shown \in [snapshot : Seen, stale : BOOLEAN]
        BY <2>0, <4>0 DEF PageTyped
      <4>2. /\ stateFile' \in Seen /\ overdue' \in BOOLEAN /\ raw' \in Seen
            /\ shown' \in [snapshot : Seen, stale : BOOLEAN]
        <5>1. Missing \in Seen
          BY <4>0
        <5>2. CASE PanelReads
          BY <4>1, <5>2 DEF PanelReads
        <5>3. CASE PanelRefuses
          BY <4>1, <5>3 DEF PanelRefuses
        <5>4. CASE PanelShows
          BY <4>1, <5>1, <5>4 DEF PanelShows
        <5> QED  BY <2>4, <5>2, <5>3, <5>4 DEF PanelStep
      <4>3. Seen = (Snapshots \cup {Missing})'
        BY <4>0 DEF Snapshots, Trades
      <4> QED  BY <4>2, <4>3 DEF PageTyped
    <3> QED  BY <3>1, <3>2 DEF PublisherInv
  <2> QED  BY <2>1, <2>2, <2>3, <2>4 DEF PublisherNext
<1>3. PublisherInv => PublisherTypeOK
  BY DEF PublisherInv, PublisherTypeOK, EngineTyped, LoopTyped, PageTyped
<1> QED  BY <1>1, <1>2, <1>3, PTL

(* A behaviour of the run is a behaviour of one component: of the others    *)
(* each step is a stutter, so that every component keeps its specification. *)
LEMMA EachStartsAsItself ==
  MCInit => /\ BarsInit /\ TickFilesInit /\ OhlcInit /\ BarrierInit /\ DatasetInit
            /\ WorkspaceInit /\ StrategyInit /\ PanelInit /\ PurchaseInit /\ PublisherInit
  BY DEF MCInit

LEMMA EachStepsAsItself ==
  ASSUME [MCNext]_MCVars
  PROVE  /\ [BarsNext]_barsVars /\ [TickFilesNext]_tickFilesVars /\ [OhlcNext]_ohlcVars
         /\ [BarrierNext]_path /\ [DatasetNext]_datasetVars
         /\ [WorkspaceNext]_workspaceVars /\ [Evaluate]_strategyVars
         /\ [PanelNext]_panelVars /\ [PurchaseNext]_purchaseVars
         /\ [PublisherNext]_publisherVars
<1>1. CASE UNCHANGED MCVars
  BY <1>1 DEF MCVars
<1>2. CASE MCNext
  BY <1>2 DEF MCNext, Still, Parts
<1> QED  BY <1>1, <1>2

LEMMA EachKeepsItsSpec ==
  MCSpec => /\ BarsSpec /\ TickFilesSpec /\ OhlcSpec /\ BarrierSpec /\ DatasetSpec
            /\ WorkspaceSpec /\ StrategySpec /\ PanelSpec /\ PurchaseSpec
            /\ PublisherInit /\ [][PublisherNext]_publisherVars
  BY EachStartsAsItself, EachStepsAsItself, PTL
  DEF MCSpec, BarsSpec, TickFilesSpec, OhlcSpec, BarrierSpec, DatasetSpec, WorkspaceSpec,
      StrategySpec, PanelSpec, PurchaseSpec

(* Whichever component runs, every variable of every component keeps the    *)
(* type its comment gives it; of the panel's file that is a promise of the  *)
(* code: what /api/state reads is never half a snapshot (_write_state).     *)
THEOREM ComponentsTypeCorrect == MCSpec => []ComponentsTypeOK
  BY EachKeepsItsSpec, BarsTypeCorrect, ExportTyped, PagingTyped, PathTyped, DatasetTyped,
     WorkspaceTyped, SignalTyped, PanelTyped, PurchaseTyped, PublisherTyped, PTL
  DEF ComponentsTypeOK

(* ... and every safety property of the composition is one its component    *)
(* has by itself.                                                           *)
THEOREM ComponentsAreSafe ==
  MCSpec =>
    /\ []( /\ BarsAscend /\ TimeframesAgree /\ NothingOverwritten
           /\ HonestComplete /\ RequestsBounded
           /\ NeverBothWin /\ LabelsMatchBroker
           /\ BookIsLatestOfBar /\ ProvenanceFollowsRows /\ RowsOnce
           /\ OnlyWithTheTrend /\ NoChasing /\ RateBounded /\ BilledOnce )
    /\ LabelsFinal
  BY EachKeepsItsSpec, BarsAlwaysAscend, TimeframesTellOneStory, ExportIsFaithful, PagesMeet,
     PagingEnds, OneWinAtMost, LabelsAreTheBrokers, LabelsStay, BooksAreOfTheirBars,
     ProvenanceIsLast, NoRowTwice, SignalsFollowTheTrend, RunsAreNotChased, RateHolds,
     NothingBoughtTwice, PTL

================================================================================
