------------------------------ MODULE DepthDataset ------------------------------
(***************************************************************************)
(* depth_features.py and merge_depth.py: recorded book updates become one  *)
(* row per bar, the rows of several downloads are pooled, and each day's   *)
(* feature file is written out again with the depth of its bars.  A run of *)
(* either script may be cut off between any two steps and started again.   *)
(*                                                                         *)
(* A book is its time of recording; its imbalance and levels are left out. *)
(***************************************************************************)
EXTENDS Integers, Sequences, FiniteSets, FiniteSetsExt

CONSTANTS
  BarLength,     (* BAR_NS                                                  *)
  Clock,         (* times of an update                                      *)
  MaxUpdates,    (* bound: updates in a download                            *)
  Features,      (* day -> timestamps of the rows of its feature file       *)
  MinMatch,      (* --min-match, in hundredths                              *)
  MaxRuns        (* bound: runs of the merge                                *)

ASSUME DatasetAssumption ==
  /\ BarLength \in Nat \ {0} /\ MinMatch \in 0..100
  /\ MaxUpdates \in Nat /\ MaxRuns \in Nat
  /\ Clock \subseteq Nat \ {0}
  /\ Features \in Seq(Seq(Nat) \ {<<>>}) \ {<<>>}

VARIABLES
  download,      (* the updates of the file being converted, in file order  *)
  taken,         (* updates read                                            *)
  last,          (* bar -> the book kept for it                             *)
  pool,          (* converted files: a sequence of bar -> book              *)
  task,          (* "convert", "idle", or the step of a merge               *)
  day,           (* the feature file being merged                           *)
  runs,          (* runs of the merge so far                                *)
  out            (* day -> what is in the output directory for it           *)

datasetVars == <<download, taken, last, pool, task, day, runs, out>>

(* ts_event, or ts_recv where the record has none.                          *)
Stamped(u) == IF u.event = 0 THEN u.recv ELSE u.event

Updates == [event : Clock \cup {0}, recv : Clock]

Absent == [csv |-> 0, whole |-> FALSE, rows |-> <<>>, provenance |-> 0]

DatasetInit ==
  /\ download \in UNION {[1..n -> Updates] : n \in 1..MaxUpdates}
  /\ taken = 0 /\ last = <<>> /\ pool = <<>>
  /\ task = "convert" /\ day = 0 /\ runs = 0
  /\ out = [d \in DOMAIN Features |-> Absent]

BarStart(ts) == ts - (ts % BarLength)

(* A bucket that keeps whatever comes last in the file.                     *)
KeptLastRead(book) ==
  LET bar == BarStart(Stamped(book))
  IN  [b \in DOMAIN last \cup {bar} |-> IF b = bar THEN Stamped(book) ELSE last[b]]

(* convert: a bucket keeps its latest update, the last read of equal ones.  *)
Kept(book) ==
  LET bar == BarStart(Stamped(book))
      newer == bar \notin DOMAIN last \/ Stamped(book) >= last[bar]
  IN  [b \in DOMAIN last \cup {bar} |->
         IF b = bar /\ newer THEN Stamped(book) ELSE last[b]]

ReadUpdate ==
  /\ task = "convert" /\ taken < Len(download)
  /\ taken' = taken + 1
  /\ last' = Kept(download[taken + 1])
  /\ UNCHANGED <<download, pool, task, day, runs, out>>

(* The CSV of one download joins the pool.                                  *)
Converted ==
  /\ task = "convert" /\ taken = Len(download)
  /\ pool' = Append(pool, last)
  /\ task' = "idle"
  /\ UNCHANGED <<download, taken, last, day, runs, out>>

(* by_time: of two rows with one timestamp the last file's stands.          *)
InPool(bar) == {i \in DOMAIN pool : bar \in DOMAIN pool[i]}
BookAt(bar) == IF InPool(bar) = {} THEN 0 ELSE pool[Max(InPool(bar))][bar]

(* _merge_one: each feature row with the book of its timestamp, 0 for none. *)
Joined(d) == [i \in DOMAIN Features[d] |-> [stamp |-> Features[d][i],
                                            book  |-> BookAt(Features[d][i])]]

Matched(d) == Cardinality({i \in DOMAIN Features[d] : BookAt(Features[d][i]) # 0})

BelowMinMatch(d) == 100 * Matched(d) < MinMatch * Len(Features[d])

StartMerge ==
  /\ task = "idle" /\ runs < MaxRuns
  /\ task' = "csv" /\ day' = 1 /\ runs' = runs + 1
  /\ UNCHANGED <<download, taken, last, pool, out>>

(* load: an input that is not there ends the run before anything is written. *)
MergeRefused ==
  /\ task = "idle" /\ runs < MaxRuns
  /\ runs' = runs + 1
  /\ UNCHANGED <<download, taken, last, pool, task, day, out>>

NextDay ==
  IF day < Len(Features) THEN task' = "csv" /\ day' = day + 1
                         ELSE task' = "idle" /\ UNCHANGED day

(* A day with too little depth is skipped, a single one refused: either way *)
(* nothing is written, and what an earlier run wrote stays.                 *)
SkipDay ==
  /\ task = "csv" /\ BelowMinMatch(day)
  /\ NextDay
  /\ UNCHANGED <<download, taken, last, pool, runs, out>>

(* _write opens the file, which empties it, ...                             *)
OpenOut ==
  /\ task = "csv" /\ ~BelowMinMatch(day)
  /\ out' = [out EXCEPT ![day].csv = runs, ![day].whole = FALSE, ![day].rows = <<>>]
  /\ task' = "rows"
  /\ UNCHANGED <<download, taken, last, pool, day, runs>>

(* A writer that notes the provenance before the rows.                      *)
WriteRowsAfterProvenance ==
  /\ task = "rows"
  /\ out' = [out EXCEPT ![day].provenance = runs]
  /\ task' = "provenance"
  /\ UNCHANGED <<download, taken, last, pool, day, runs>>

(* ... writes the rows ...                                                  *)
WriteRows ==
  /\ task = "rows"
  /\ out' = [out EXCEPT ![day].whole = TRUE, ![day].rows = Joined(day)]
  /\ task' = "provenance"
  /\ UNCHANGED <<download, taken, last, pool, day, runs>>

(* ... and at last says where they are from.                                *)
WriteProvenance ==
  /\ task = "provenance"
  /\ out' = [out EXCEPT ![day].provenance = runs]
  /\ NextDay
  /\ UNCHANGED <<download, taken, last, pool, runs>>

CutOff ==
  /\ task \notin {"idle", "convert"}
  /\ task' = "idle"
  /\ UNCHANGED <<download, taken, last, pool, day, runs, out>>

(* Another download is converted.                                           *)
DownloadMore ==
  /\ task = "idle" /\ Len(pool) < 2
  /\ \E u \in Updates : download' = <<u>>
  /\ taken' = 0 /\ last' = <<>> /\ task' = "convert"
  /\ UNCHANGED <<pool, day, runs, out>>

DatasetNext ==
  \/ ReadUpdate \/ Converted \/ DownloadMore
  \/ StartMerge \/ MergeRefused \/ SkipDay \/ OpenOut \/ WriteRows \/ WriteProvenance \/ CutOff

DatasetSpec == DatasetInit /\ [][DatasetNext]_datasetVars

--------------------------------------------------------------------------------
(* Properties.                                                              *)

DatasetTypeOK ==
  /\ taken \in 0..Len(download) /\ day \in 0..Len(Features) /\ runs \in 0..MaxRuns
  /\ task \in {"convert", "idle", "csv", "rows", "provenance"}
  /\ \A d \in DOMAIN out : out[d].csv \in 0..runs /\ out[d].provenance \in 0..runs

(* Through records out of time order, missing exchange times and several    *)
(* downloads, the book kept for a bar is from that bar and the latest of    *)
(* those read for it; so a merged row carries a book from its bar's start   *)
(* or after, never from before.                                             *)
BookIsLatestOfBar ==
  /\ task = "convert" =>
       \A i \in 1..taken :
         LET ts == Stamped(download[i])
         IN  BarStart(ts) \in DOMAIN last /\ ts <= last[BarStart(ts)]
  /\ \A d \in DOMAIN out : \A i \in DOMAIN out[d].rows :
       LET r == out[d].rows[i]
       IN  r.book # 0 => r.stamp <= r.book /\ r.book < r.stamp + BarLength

(* Whenever a run is cut off, a provenance file never speaks of rows that   *)
(* were not written: it is of the CSV beside it, complete, or of an earlier *)
(* run (the order of the writes in _write).                                 *)
ProvenanceFollowsRows ==
  \A d \in DOMAIN out :
    /\ out[d].provenance <= out[d].csv
    /\ out[d].provenance = out[d].csv /\ out[d].csv > 0 =>
         out[d].whole /\ Len(out[d].rows) = Len(Features[d])
================================================================================
