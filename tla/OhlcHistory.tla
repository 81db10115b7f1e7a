------------------------------ MODULE OhlcHistory ------------------------------
(***************************************************************************)
(* core/bitstamp_client.py, BitstampClient.history: bars are fetched in    *)
(* pages from a cursor until the window is covered, the server has nothing *)
(* more, or the cursor is stuck.  A row is its timestamp.                  *)
(***************************************************************************)
EXTENDS Integers, FiniteSets

CONSTANTS
  Spacing,       (* period_seconds                                          *)
  Limit,         (* OHLC_MAX_LIMIT                                          *)
  WindowStart,
  WindowEnd,
  Keep,          (* max_bars, 0 for all                                     *)
  Stamps         (* timestamps a server may put on a row                    *)

ASSUME OhlcAssumption ==
  /\ Spacing \in Nat \ {0} /\ Limit \in Nat \ {0, 1} /\ Keep \in Nat
  /\ WindowStart \in Nat /\ WindowEnd \in Nat
  /\ Stamps \subseteq Nat /\ IsFiniteSet(Stamps)

VARIABLES
  venue,         (* the bars the venue has                                  *)
  honest,        (* the server answers with the first rows from the cursor  *)
  cursor,
  rows,          (* timestamps of the rows kept                             *)
  requests,      (* pages asked for                                         *)
  paging,        (* "on", "done" or "raised"                                *)
  bars           (* the result                                              *)

ohlcVars == <<venue, honest, cursor, rows, requests, paging, bars>>

OhlcInit ==
  /\ venue \in SUBSET {t \in Stamps : t % Spacing = 0}
  /\ honest \in BOOLEAN
  /\ cursor = WindowStart /\ rows = {} /\ requests = 0
  /\ paging = "on" /\ bars = {}

(* The first Limit rows from the cursor on.                                 *)
FirstRows ==
  LET ahead == {t \in venue : t >= cursor}
  IN  {t \in ahead : Cardinality({u \in ahead : u < t}) < Limit}

(* A page: the timestamps on it, and whether it counts Limit rows.  An odd  *)
(* server may ignore the cursor, repeat rows and leave the window.          *)
Pages ==
  IF honest
  THEN {[stamps |-> FirstRows, full |-> Cardinality(FirstRows) = Limit]}
  ELSE [stamps : {P \in SUBSET Stamps : Cardinality(P) <= Limit}, full : BOOLEAN]

(* max(cursor, every timestamp of the page)                                 *)
Furthest(P) == CHOOSE t \in P \cup {cursor} : \A u \in P \cup {cursor} : u <= t

(* The newest Keep of the rows.                                             *)
KeptOf(R) == IF Keep = 0 THEN R ELSE {t \in R : Cardinality({u \in R : u > t}) < Keep}

(* A loop that goes on while pages are full.                                *)
LastPageStubborn(page) == page.stamps = {} \/ ~page.full

(* The three ways out of the loop after a page.                             *)
LastPage(page) ==
  \/ page.stamps = {}
  \/ ~page.full
  \/ Furthest(page.stamps) <= cursor

(* An advance that forgets that the newest row has been read.               *)
AdvancedTooFar(page) == Furthest(page.stamps) + 2 * Spacing

Advanced(page) == Furthest(page.stamps) + Spacing

RequestPage ==
  /\ paging = "on" /\ cursor <= WindowEnd
  /\ requests' = requests + 1
  /\ \E page \in Pages :
       /\ rows' = rows \cup (page.stamps \cap (WindowStart..WindowEnd))
       /\ IF LastPage(page)
          THEN /\ paging' = "done" /\ bars' = KeptOf(rows')
               /\ UNCHANGED cursor
          ELSE /\ cursor' = Advanced(page)
               /\ UNCHANGED <<paging, bars>>
  /\ UNCHANGED <<venue, honest>>

(* raise_for_status, a timeout, or rows that do not parse.                  *)
RequestRaises ==
  /\ paging = "on" /\ cursor <= WindowEnd
  /\ requests' = requests + 1
  /\ paging' = "raised"
  /\ UNCHANGED <<venue, honest, cursor, rows, bars>>

Covering ==
  /\ paging = "on" /\ cursor > WindowEnd
  /\ paging' = "done" /\ bars' = KeptOf(rows)
  /\ UNCHANGED <<venue, honest, cursor, rows, requests>>

OhlcNext == RequestPage \/ RequestRaises \/ Covering

OhlcSpec == OhlcInit /\ [][OhlcNext]_ohlcVars

--------------------------------------------------------------------------------
(* Properties.                                                              *)

OhlcTypeOK ==
  /\ cursor \in Nat /\ requests \in Nat
  /\ rows \subseteq WindowStart..WindowEnd /\ bars \subseteq rows
  /\ paging \in {"on", "done", "raised"} /\ honest \in BOOLEAN

(* From a server that answers as documented, paging over gaps and pages of  *)
(* exactly the limit, the call returns the newest Keep bars of the window   *)
(* and all of them: no bar is skipped where two pages meet.                 *)
HonestComplete ==
  paging = "done" /\ honest =>
    bars = KeptOf(venue \cap (WindowStart..WindowEnd))

(* Whatever the server answers, rows from before the cursor, from after the *)
(* window or the same page for ever, the number of requests is bounded by   *)
(* the window: each page but the last moves the cursor by more than Spacing.  *)
RequestsBounded ==
  requests > 0 => (requests - 1) * (Spacing + 1) <= WindowEnd - WindowStart
================================================================================
