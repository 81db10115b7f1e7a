----------------------------- MODULE StatePublisher -----------------------------
(***************************************************************************)
(* The state loop of core/engine.py (_Periodic, snapshot, _write_state) and *)
(* the panel that shows what it publishes (panel/server.py /api/state,      *)
(* panel/static/app.js tick): two processes that share one file.  The loop *)
(* has a thread of its own and reads the broker and the risk manager while  *)
(* ticks change them.                                                       *)
(***************************************************************************)
EXTENDS Integers, FiniteSets

CONSTANTS
  Missing,       (* no such file, or nothing shown yet                      *)
  HalfWritten,   (* a file cut off in the middle                            *)
  MaxOpened,     (* bound: trades opened by one process                     *)
  MaxFaults,     (* bound: writes that fail                                 *)
  MaxStarts      (* bound: processes started                                *)

ASSUME PublisherAssumption ==
  /\ {MaxOpened, MaxFaults, MaxStarts} \subseteq Nat
  /\ Missing # HalfWritten

VARIABLES
  up,            (* the engine process: "down", "starting" or "running"     *)
  held,          (* trades that are open positions of the broker            *)
  closing,       (* one taken from the broker and not yet booked            *)
  booked,        (* trades in the risk manager's history                    *)
  loop,          (* where the state loop is                                 *)
  begun,         (* the positions when their iteration began                *)
  draft,         (* the snapshot being taken                                *)
  temporary,     (* state.json.tmp                                          *)
  stateFile,     (* state.json                                              *)
  overdue,       (* state.json is older than the panel tolerates            *)
  raw,           (* what /api/state has read                                *)
  shown,         (* what the page shows: a snapshot, and the stale banner   *)
  faults, starts

engineVars == <<up, held, closing, booked, starts>>
loopVars == <<loop, begun, draft, temporary, faults>>
pageVars == <<raw, shown>>
publisherVars == <<engineVars, loopVars, stateFile, overdue, pageVars>>

Trades == 1..MaxOpened

Snapshots == [count : 0..MaxOpened, positions : SUBSET Trades, trades : SUBSET Trades]

Empty == [count |-> 0, positions |-> {}, trades |-> {}]

PublisherInit ==
  /\ up = "down" /\ held = {} /\ closing = {} /\ booked = {} /\ starts = 0
  /\ loop = "ended" /\ begun = {} /\ draft = Empty /\ temporary = Missing /\ faults = 0
  /\ stateFile = Missing /\ overdue = FALSE
  /\ raw = Missing /\ shown = [snapshot |-> Missing, stale |-> FALSE]

--------------------------------------------------------------------------------
(* The engine.                                                              *)

(* A process starts; the loop's first call is made before any tick.         *)
ProcessStarts ==
  /\ up = "down" /\ starts < MaxStarts
  /\ up' = "starting" /\ starts' = starts + 1
  /\ loop' = "status"
  /\ UNCHANGED <<held, closing, booked, begun, draft, temporary, faults, stateFile,
                 overdue, pageVars>>

(* Stopped or killed: a daemon thread ends wherever it is, and only the     *)
(* files are left.                                                          *)
ProcessEnds ==
  /\ up # "down"
  /\ up' = "down" /\ loop' = "ended"
  /\ held' = {} /\ closing' = {} /\ booked' = {}
  /\ begun' = {} /\ draft' = Empty
  /\ UNCHANGED <<starts, temporary, faults, stateFile, overdue, pageVars>>

TradeOpens ==
  /\ up = "running" /\ closing = {}
  /\ Cardinality(held \cup booked) < MaxOpened
  /\ held' = held \cup {Cardinality(held \cup booked) + 1}
  /\ UNCHANGED <<up, closing, booked, starts, loopVars, stateFile, overdue, pageVars>>

(* PaperBroker._close takes the position, then on_closed books the trade.   *)
TradeCloses ==
  /\ up = "running" /\ closing = {}
  /\ \E t \in held : held' = held \ {t} /\ closing' = {t}
  /\ UNCHANGED <<up, booked, starts, loopVars, stateFile, overdue, pageVars>>

TradeBooked ==
  /\ up = "running" /\ closing # {}
  /\ booked' = booked \cup closing /\ closing' = {}
  /\ UNCHANGED <<up, held, starts, loopVars, stateFile, overdue, pageVars>>

--------------------------------------------------------------------------------
(* The state loop.                                                          *)

(* After a call the loop waits; the engine goes on after the first.         *)
Waits ==
  /\ loop' = "wait" /\ up' = "running"
  /\ begun' = {} /\ draft' = Empty

(* A loop that an exception ends.                                           *)
FailedForGood ==
  /\ loop' = "ended" /\ up' = "running"
  /\ begun' = {} /\ draft' = Empty

(* Whatever snapshot or the write raised is logged by _write_state, and     *)
(* would be by _call: the loop goes on.                                     *)
Failed == Waits

Wakes ==
  /\ loop = "wait" /\ loop' = "status"
  /\ UNCHANGED <<engineVars, begun, draft, temporary, faults, stateFile, overdue, pageVars>>

ReadStatus ==
  /\ loop = "status"
  /\ draft' = [draft EXCEPT !.count = Cardinality(booked)]
  /\ begun' = held /\ loop' = "positions"
  /\ UNCHANGED <<engineVars, temporary, faults, stateFile, overdue, pageVars>>

(* Of positions opened or closed meanwhile the iteration may meet any.      *)
ReadPositions ==
  /\ loop = "positions" /\ Cardinality(held) = Cardinality(begun)
  /\ \E met \in SUBSET (held \cup begun) :
       /\ held \cap begun \subseteq met
       /\ draft' = [draft EXCEPT !.positions = met]
  /\ loop' = "history" /\ begun' = {}
  /\ UNCHANGED <<engineVars, temporary, faults, stateFile, overdue, pageVars>>

(* RuntimeError: dictionary changed size during iteration.                  *)
PositionsRaise ==
  /\ loop = "positions" /\ Cardinality(held) # Cardinality(begun)
  /\ Failed
  /\ UNCHANGED <<held, closing, booked, starts, temporary, faults, stateFile, overdue,
                 pageVars>>

ReadHistory ==
  /\ loop = "history"
  /\ draft' = [draft EXCEPT !.trades = booked]
  /\ loop' = "write"
  /\ UNCHANGED <<engineVars, begun, temporary, faults, stateFile, overdue, pageVars>>

(* write_text: opened and emptied, then filled.                             *)
WriteBegins ==
  /\ loop = "write" /\ loop' = "writing"
  /\ temporary' = HalfWritten
  /\ UNCHANGED <<engineVars, begun, draft, faults, stateFile, overdue, pageVars>>

WriteEnds ==
  /\ loop = "writing" /\ loop' = "replace"
  /\ temporary' = draft /\ draft' = Empty
  /\ UNCHANGED <<engineVars, begun, faults, stateFile, overdue, pageVars>>

(* A full disk, or a file that cannot be replaced.                          *)
PublishRaises ==
  /\ loop \in {"write", "writing", "replace"} /\ faults < MaxFaults
  /\ faults' = faults + 1
  /\ Failed
  /\ UNCHANGED <<held, closing, booked, starts, temporary, stateFile, overdue, pageVars>>

(* os.replace                                                               *)
Publish ==
  /\ loop = "replace"
  /\ stateFile' = temporary /\ temporary' = Missing
  /\ overdue' = FALSE
  /\ Waits
  /\ UNCHANGED <<held, closing, booked, starts, faults, pageVars>>

--------------------------------------------------------------------------------
(* The panel.                                                               *)

(* Half a minute without a new file: the refresh is every five seconds.     *)
GrowsOld ==
  /\ up = "down" /\ ~overdue /\ overdue' = TRUE
  /\ UNCHANGED <<engineVars, loopVars, stateFile, pageVars>>

PanelReads ==
  /\ raw = Missing /\ stateFile \in Snapshots
  /\ raw' = stateFile
  /\ UNCHANGED <<engineVars, loopVars, stateFile, overdue, shown>>

(* 503, for a file that is not there or does not parse: the banner.         *)
PanelRefuses ==
  /\ raw = Missing /\ stateFile \notin Snapshots
  /\ shown' = [shown EXCEPT !.stale = TRUE]
  /\ UNCHANGED <<engineVars, loopVars, stateFile, overdue, raw>>

(* The age is that of the file as it is by now.                             *)
PanelShows ==
  /\ raw # Missing /\ raw' = Missing
  /\ shown' = [snapshot |-> raw, stale |-> overdue]
  /\ UNCHANGED <<engineVars, loopVars, stateFile, overdue>>

LoopStep == Wakes \/ ReadStatus \/ ReadPositions \/ PositionsRaise \/ ReadHistory
            \/ WriteBegins \/ WriteEnds \/ Publish

PanelStep == PanelReads \/ PanelRefuses \/ PanelShows

PublisherNext ==
  \/ ProcessStarts \/ ProcessEnds \/ TradeOpens \/ TradeCloses \/ TradeBooked
  \/ LoopStep \/ PublishRaises \/ GrowsOld \/ PanelStep

(* The thread is scheduled, the page polls and time passes.                 *)
PublisherFairness ==
  /\ WF_publisherVars(LoopStep)
  /\ WF_publisherVars(PanelStep)
  /\ WF_publisherVars(GrowsOld)

PublisherSpec == PublisherInit /\ [][PublisherNext]_publisherVars /\ PublisherFairness

--------------------------------------------------------------------------------
(* Properties.                                                              *)

(* What is read and shown is a snapshot taken to its end ("atomic: readers  *)
(* never see a half file", _write_state), whenever the engine dies.         *)
PublisherTypeOK ==
  /\ up \in {"down", "starting", "running"}
  /\ held \subseteq Trades /\ closing \subseteq Trades /\ booked \subseteq Trades
  /\ loop \in {"ended", "wait", "status", "positions", "history", "write", "writing",
               "replace"}
  /\ draft \in Snapshots
  /\ temporary \in Snapshots \cup {Missing, HalfWritten}
  /\ stateFile \in Snapshots \cup {Missing}
  /\ shown \in [snapshot : Snapshots \cup {Missing}, stale : BOOLEAN]

Truth == [count |-> Cardinality(booked), positions |-> held, trades |-> booked]

(* Through snapshots that mix two moments, iterations that raise, writes    *)
(* that fail, crashes and restarts, the page ends up telling the truth once *)
(* the trading pauses: the engine's own positions and trades, or, with the  *)
(* engine gone, that what it shows is stale (_call, _write_state, tick).    *)
PanelCatchesUp ==
  \/ <>[](up = "down" /\ shown.stale)
  \/ <>[](up # "down" /\ shown = [snapshot |-> Truth, stale |-> FALSE])
================================================================================
