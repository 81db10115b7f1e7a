------------------------------- MODULE TickFiles -------------------------------
(***************************************************************************)
(* core/scid_reader.py: a .scid file of time-ordered records becomes one   *)
(* CSV of ticks per UTC day, which the engine reads back in the order of   *)
(* the file names (_csv_rows of core/engine.py).                           *)
(*                                                                         *)
(* A record is its time, its open (zero marks a single trade that carries  *)
(* quotes), low, high and close.  Binary layout and header are left out.   *)
(***************************************************************************)
EXTENDS Integers, Sequences, FiniteSets, SequencesExt

CONSTANTS
  Records,       (* records a file may hold                                 *)
  Windows,       (* the (start, end, every) it is converted with, in days   *)
  DayLength,     (* length of a UTC day                                     *)
  NoBound,       (* no --start, or no --end                                 *)
  MaxRecords     (* bound: records in the file                              *)

ASSUME TickFilesAssumption ==
  /\ DayLength \in Nat \ {0} /\ MaxRecords \in Nat
  /\ \A r \in Records : r.when \in Nat
  /\ \A w \in Windows : w.every \in Nat \ {0} /\ {w.start, w.end} \subseteq Nat \cup {NoBound}

VARIABLES
  scid,          (* the file                                                *)
  window,        (* what is asked for                                       *)
  at,            (* records read                                            *)
  kept,          (* records in the window so far, before thinning           *)
  current,       (* the day whose file is open, or -1                       *)
  dayFiles,      (* day -> rows                                             *)
  streaming        (* FALSE once read_ticks has returned                      *)

tickFilesVars == <<scid, window, at, kept, current, dayFiles, streaming>>

DayOf(when) == when \div DayLength

TickFilesInit ==
  /\ scid \in SeqOf(Records, MaxRecords)
  /\ window \in Windows
  /\ at = 0 /\ kept = 0 /\ current = -1
  /\ dayFiles = <<>> /\ streaming = TRUE

(* A day given on the command line is its midnight (_parse_day).            *)
ParsedDay(day) == day * DayLength

BeforeStart(r) == window.start # NoBound /\ r.when < ParsedDay(window.start)
AfterEnd(r) == window.end # NoBound /\ r.when > ParsedDay(window.end)

(* Quotes of a single trade are in low and high; otherwise the close stands *)
(* for both sides.                                                          *)
TickOf(r) ==
  IF r.open = 0
  THEN [when |-> r.when, bid |-> r.low, ask |-> r.high]
  ELSE [when |-> r.when, bid |-> r.close, ask |-> r.close]

(* A split that opens a file and does not note its day.                     *)
WrittenForgetfully(tick) ==
  LET day == DayOf(tick.when)
      old == IF day # current THEN <<>> ELSE dayFiles[day]
  IN  /\ dayFiles' = [d \in DOMAIN dayFiles \cup {day} |->
                        IF d = day THEN Append(old, tick) ELSE dayFiles[d]]
      /\ UNCHANGED current

(* write_daily_csvs: a new date opens its file for writing, which empties it. *)
Written(tick) ==
  LET day == DayOf(tick.when)
      old == IF day # current THEN <<>> ELSE dayFiles[day]
  IN  /\ dayFiles' = [d \in DOMAIN dayFiles \cup {day} |->
                        IF d = day THEN Append(old, tick) ELSE dayFiles[d]]
      /\ current' = day

(* One turn of read_ticks on the next record.                               *)
SkipRecord ==
  /\ streaming /\ at < Len(scid) /\ BeforeStart(scid[at + 1])
  /\ at' = at + 1
  /\ UNCHANGED <<scid, window, kept, current, dayFiles, streaming>>

PastEnd ==
  /\ streaming /\ at < Len(scid)
  /\ ~BeforeStart(scid[at + 1]) /\ AfterEnd(scid[at + 1])
  /\ streaming' = FALSE
  /\ UNCHANGED <<scid, window, at, kept, current, dayFiles>>

InWindow(r) == ~BeforeStart(r) /\ ~AfterEnd(r)

ThinOut ==
  /\ streaming /\ at < Len(scid) /\ InWindow(scid[at + 1])
  /\ (kept + 1) % window.every # 0
  /\ at' = at + 1 /\ kept' = kept + 1
  /\ UNCHANGED <<scid, window, current, dayFiles, streaming>>

WriteTick ==
  /\ streaming /\ at < Len(scid) /\ InWindow(scid[at + 1])
  /\ (kept + 1) % window.every = 0
  /\ at' = at + 1 /\ kept' = kept + 1
  /\ Written(TickOf(scid[at + 1]))
  /\ UNCHANGED <<scid, window, streaming>>

EndOfFile ==
  /\ streaming /\ at = Len(scid)
  /\ streaming' = FALSE
  /\ UNCHANGED <<scid, window, at, kept, current, dayFiles>>

TickFilesNext == SkipRecord \/ PastEnd \/ ThinOut \/ WriteTick \/ EndOfFile

TickFilesSpec == TickFilesInit /\ [][TickFilesNext]_tickFilesVars

(* _csv_rows: row by row, the files in order of their names; a row is its   *)
(* day and its place in the file of that day.                               *)
FileRows == UNION {{day} \X DOMAIN dayFiles[day] : day \in DOMAIN dayFiles}

FileRow(row) == dayFiles[row[1]][row[2]]

Precedes(row, next) == row[1] < next[1] \/ (row[1] = next[1] /\ row[2] < next[2])

(* Only quotes that are positive are passed on.                             *)
Quoted(tick) == tick.bid > 0 /\ tick.ask > 0

ReadBack == {row \in FileRows : Quoted(FileRow(row))}

--------------------------------------------------------------------------------
(* Properties.                                                              *)

TickFilesTypeOK ==
  /\ at \in 0..Len(scid) /\ kept \in 0..at
  /\ current \in DOMAIN dayFiles \cup {-1}
  /\ \A day \in DOMAIN dayFiles : dayFiles[day] # <<>>
  /\ streaming \in BOOLEAN

InTimeOrder(s) == \A i, j \in DOMAIN s : i < j => s[i].when <= s[j].when

(* Of the first n records, every N-th of those the code takes to be inside  *)
(* the window: up to the midnight that opens its last day.                  *)
Windowed(n) == {p \in 1..n : InWindow(scid[p])}
Asked(n) == {p \in Windowed(n) : Cardinality(Windowed(p)) % window.every = 0}

(* Where such a record belongs: behind the earlier ones of its day.         *)
RecordDay(p) == DayOf(scid[p].when)
Place(p) ==
  <<RecordDay(p), Cardinality({q \in Asked(p) : RecordDay(q) = RecordDay(p)})>>

(* From a file in time order nothing is overwritten and nothing is left     *)
(* out up to the end's midnight: the rows the engine reads back are the     *)
(* records of the window, thinned, each in its place and in the order of    *)
(* the file.  Opening a file for writing, thinning before or after the      *)
(* window, and returning at the first record past the end would each lose   *)
(* ticks without a word (write_daily_csvs).                                 *)
NothingOverwritten ==
  ~streaming /\ InTimeOrder(scid) =>
    LET asked == Asked(Len(scid))
    IN  /\ ReadBack = {Place(p) : p \in {q \in asked : Quoted(TickOf(scid[q]))}}
        /\ \A p \in asked : Place(p) \in FileRows /\ FileRow(Place(p)) = TickOf(scid[p])
        /\ \A p, q \in asked : p < q => Precedes(Place(p), Place(q))

(* The days a caller asks for: both "--start" and "--end" are documented as *)
(* "YYYY-MM-DD, inclusive".                                                 *)
DayAskedFor(day) ==
  /\ window.start # NoBound => window.start <= day
  /\ window.end # NoBound => day <= window.end

(* An export that is not thinned has every record of the days asked for,    *)
(* the last one included (the --end of main).                               *)
EveryDayExported ==
  ~streaming /\ InTimeOrder(scid) /\ window.every = 1 =>
    \A p \in {q \in DOMAIN scid : DayAskedFor(RecordDay(q))} :
      \E row \in FileRows : FileRow(row) = TickOf(scid[p])
================================================================================
