----------------------------- MODULE EngineProcess -----------------------------
(***************************************************************************)
(* A `run.py run` process from its start to its end, again and again under *)
(* the supervisor of deploy/trading-bot.service: load_settings (config.py), *)
(* command_run (run.py), the engine's construction, start, _bootstrap with  *)
(* its seeding, replay and stop (core/engine.py), the gates of LiveBroker  *)
(* (core/broker.py), the journal it leaves behind (core/journal.py) and the *)
(* report made from it (daily_report.py).                                  *)
(*                                                                         *)
(* The decisions of the engine are module TradingEngine; here a replayed   *)
(* tick may close a trade or attempt an order.  Only the journal survives a *)
(* process: positions, counters and the day's limits start afresh.         *)
(***************************************************************************)
EXTENDS Bars, FiniteSetsExt, SequencesExt

CONSTANTS
  Nothing,       (* Python's None                                           *)
  Recorded,      (* the ticks of the symbol's CSV files, in date order      *)
  EntryPeriod,   (* ENTRY_TF                                                *)
  DaySeconds,    (* length of a UTC day                                     *)
  KeepDays,      (* daily candles handed to the extractor: 5                *)
  Wall,          (* the dates the wall clock may show                       *)
  Pnls,          (* results of a closed trade                               *)
  MaxLives,      (* bound: processes started                                *)
  MaxTrades      (* bound: trades closed                                    *)

ASSUME ProcessAssumption ==
  /\ EntryPeriod \in Timeframes /\ DaySeconds \in Nat \ {0}
  /\ DaySeconds % EntryPeriod = 0
  /\ Recorded \in Seq(Tick) /\ Pnls \subseteq Int
  /\ Wall \subseteq Nat /\ Wall # {}
  /\ MaxLives \in Nat /\ MaxTrades \in Nat

VARIABLES
  settings,      (* what .env and config.py say                             *)
  args,          (* the command line, and what is typed at the prompt       *)
  stage,         (* where the process is                                    *)
  engine,        (* autotrade, armed (of the broker), failed, running       *)
  exitCode,
  row,           (* rows of the CSV read so far in this pass                *)
  candles,       (* day -> candle: the extractor's daily structure          *)
  liveOrder,     (* how far the last live order came                        *)
  stamp,         (* the date in the name of this process's journal          *)
  journal,       (* date -> rows of trades-<date>.csv, for files that exist *)
  pending,       (* a trade closed and not yet written                      *)
  closed,        (* every trade ever closed                                 *)
  lost,          (* those of them whose row was never written               *)
  today,         (* the wall clock's date                                   *)
  lives          (* processes started so far                                *)

processVars == <<settings, args, stage, engine, exitCode, row, candles, liveOrder,
                 stamp, journal, pending, closed, lost, today, lives>>

Settings == [mode : {"paper", "live"}, autotradeDefault : BOOLEAN,
             enabled : BOOLEAN, corrupt : BOOLEAN]

Args == [feed : {"dry", "dtc"}, arm : BOOLEAN, understand : BOOLEAN,
         typed : {"LIVE", "no"}]

Live == settings.mode = "live"

(* The four keys of a live order.                                           *)
Confirmed == Live /\ args.arm /\ args.understand /\ args.typed = "LIVE"

Idle == [autotrade |-> FALSE, armed |-> FALSE, failed |-> FALSE, running |-> FALSE]

ProcessInit ==
  /\ BarsInit
  /\ settings \in Settings
  /\ args = Nothing
  /\ stage = "down" /\ engine = Idle /\ exitCode = Nothing
  /\ row = 0 /\ candles = <<>> /\ liveOrder = "none"
  /\ stamp = Nothing /\ journal = <<>>
  /\ pending = {} /\ closed = {} /\ lost = {}
  /\ today = Min(Wall) /\ lives = 0

world == <<journal, closed, lost, today>>
market == <<ticks, series>>

--------------------------------------------------------------------------------
(* From the command line to a started engine.                               *)

(* A journal that starts its file whenever a process starts.                *)
OpenedAfresh(files, date) ==
  [d \in DOMAIN files \cup {date} |-> IF d = date THEN <<>> ELSE files[d]]

(* A journal named by the date of a clock east of Greenwich.                *)
OpenedEast(files, date) ==
  [d \in DOMAIN files \cup {date + 1} |-> IF d \in DOMAIN files THEN files[d] ELSE <<>>]

(* Journal.__init__: the file gets its header only if it is not there.      *)
Opened(files, date) ==
  [d \in DOMAIN files \cup {date} |-> IF d \in DOMAIN files THEN files[d] ELSE <<>>]

(* load_settings: live never arms itself, whatever AUTOTRADE_DEFAULT says.  *)
AutotradeAtStart == settings.autotradeDefault /\ ~Live

(* load_settings and TradingEngine.__init__, with the journal.              *)
Launch ==
  /\ stage = "down" /\ lives < MaxLives
  /\ args' \in Args
  /\ lives' = lives + 1
  /\ stage' = "gates"
  /\ engine' = [Idle EXCEPT !.autotrade = AutotradeAtStart]
  /\ ticks' = <<>> /\ series' = [period \in Timeframes |-> <<>>]
  /\ row' = 0 /\ candles' = <<>> /\ liveOrder' = "none" /\ exitCode' = Nothing
  /\ stamp' = today
  /\ journal' = Opened(journal, today)
  /\ UNCHANGED <<fed, settings, pending, closed, lost, today>>

(* Gates that take either flag for both.                                    *)
ArmLoosely ==
  /\ stage = "gates"
  /\ engine' = IF Live /\ (args.arm \/ args.understand) /\ args.typed = "LIVE"
               THEN [engine EXCEPT !.armed = TRUE, !.autotrade = TRUE]
               ELSE [engine EXCEPT !.autotrade = @ \/ (args.arm /\ ~Live)]
  /\ stage' = "start"
  /\ UNCHANGED <<market, fed, world, settings, args, exitCode, row, candles,
                 liveOrder, stamp, pending, lives>>

(* command_run: live needs both flags and the typed word; paper only --arm. *)
Arm ==
  /\ stage = "gates"
  /\ engine' = IF Live /\ args.arm /\ args.understand /\ args.typed = "LIVE"
               THEN [engine EXCEPT !.armed = TRUE, !.autotrade = TRUE]
               ELSE [engine EXCEPT !.autotrade = @ \/ (args.arm /\ ~Live)]
  /\ stage' = "start"
  /\ UNCHANGED <<market, fed, world, settings, args, exitCode, row, candles,
                 liveOrder, stamp, pending, lives>>

Exit(code) == stage' = "exited" /\ exitCode' = code

(* _fatal: the caller exits non-zero because of it.                         *)
Fatal == engine' = [engine EXCEPT !.failed = TRUE]

(* start: a feed that is not dry is refused.                                *)
FeedRefused ==
  /\ stage = "start" /\ args.feed # "dry"
  /\ Fatal
  /\ Exit(1)
  /\ UNCHANGED <<market, fed, world, settings, args, row, candles, liveOrder,
                 stamp, pending, lives>>

(* _bootstrap without an enabled contract: SystemExit, which start's        *)
(* `except Exception` does not catch.                                       *)
NothingEnabled ==
  /\ stage = "start" /\ args.feed = "dry" /\ ~settings.enabled
  /\ Exit(1)
  /\ UNCHANGED <<market, fed, world, settings, args, engine, row, candles,
                 liveOrder, stamp, pending, lives>>

Register ==
  /\ stage = "start" /\ args.feed = "dry" /\ settings.enabled
  /\ stage' = "seed"
  /\ UNCHANGED <<market, fed, world, settings, args, engine, exitCode, row,
                 candles, liveOrder, stamp, pending, lives>>

(* _csv_rows: the next recorded tick of this pass.                          *)
NextRow == row < Len(Recorded) /\ row' = row + 1

(* _seed_history                                                            *)
SeedRow ==
  /\ stage = "seed" /\ NextRow
  /\ AddTick(Recorded[row'])
  /\ UNCHANGED <<fed, world, settings, args, stage, engine, exitCode, candles,
                 liveOrder, stamp, pending, lives>>

(* A failed bootstrap that leaves like a finished one.                      *)
SeedRaisesQuietly ==
  /\ stage = "seed" /\ settings.corrupt
  /\ Exit(0)
  /\ UNCHANGED <<market, fed, world, settings, args, engine, row, candles,
                 liveOrder, stamp, pending, lives>>

(* A file that cannot be decoded ends the bootstrap.                        *)
SeedRaises ==
  /\ stage = "seed" /\ settings.corrupt
  /\ Fatal
  /\ Exit(1)
  /\ UNCHANGED <<market, fed, world, settings, args, row, candles, liveOrder,
                 stamp, pending, lives>>

DateOf(when) == when \div DaySeconds

(* _seed_ict_daily: the entry bars of a day as one candle, in series order. *)
Candle(day) ==
  LET bars == series[EntryPeriod]
      own  == {i \in 1..Len(bars) : DateOf(bars[i].start) = day}
  IN  [ open |-> bars[Min(own)].open, close |-> bars[Max(own)].close,
        high |-> Max({bars[i].high : i \in own}),
        low  |-> Min({bars[i].low : i \in own}) ]

BarDays == {DateOf(series[EntryPeriod][i].start) : i \in 1..Len(series[EntryPeriod])}

(* Every day there are bars of, today's included.                           *)
StartedDays(date) == BarDays

(* The last KeepDays of the days before today.                              *)
CompletedDays(date) ==
  LET before == {d \in BarDays : d < date}
  IN  {d \in before : Cardinality({e \in before : e > d}) < KeepDays}

DailyCandles == [d \in CompletedDays(today) |-> Candle(d)]

(* seed_daily is not called when there is nothing to seed.                  *)
Reseeded == IF CompletedDays(today) = {} THEN candles ELSE DailyCandles

(* The end of _bootstrap: daily candles (of ICT mode, the default), then    *)
(* the housekeeping loops.                                                  *)
SeedDone ==
  /\ stage = "seed" /\ row = Len(Recorded) /\ ~settings.corrupt
  /\ candles' = Reseeded
  /\ engine' = [engine EXCEPT !.running = TRUE]
  /\ stage' = "replay" /\ row' = 0
  /\ UNCHANGED <<market, fed, world, settings, args, exitCode, liveOrder, stamp,
                 pending, lives>>

--------------------------------------------------------------------------------
(* The running engine.                                                      *)

(* replay: the same rows once more, through the decision path.              *)
ReplayTick ==
  /\ stage = "replay" /\ pending = {} /\ NextRow
  /\ AddTick(Recorded[row'])
  /\ UNCHANGED <<fed, world, settings, args, stage, engine, exitCode, candles,
                 liveOrder, stamp, pending, lives>>

(* The hourly loop of ICT mode, on its own thread.                          *)
RefreshDaily ==
  /\ stage = "replay"
  /\ candles' = Reseeded
  /\ UNCHANGED <<market, fed, world, settings, args, stage, engine, exitCode, row,
                 liveOrder, stamp, pending, lives>>

(* A tick closes a paper position; the row is still to be written.          *)
CloseTrade ==
  /\ stage = "replay" /\ engine.autotrade /\ ~Live /\ row > 0 /\ pending = {}
  /\ Cardinality(closed) < MaxTrades
  /\ \E pnl \in Pnls :
       pending' = {[ id |-> Cardinality(closed) + 1, pnl |-> pnl,
                     closedAt |-> DateOf(Newest(ticks).when) ]}
  /\ closed' = closed \cup pending'
  /\ UNCHANGED <<market, fed, settings, args, stage, engine, exitCode, row, candles,
                 liveOrder, stamp, journal, lost, today, lives>>

(* Journal.trade: appended on the spot to the file named at the start ...   *)
WriteRow ==
  /\ stage = "replay" /\ pending # {}
  /\ journal' = [journal EXCEPT ![stamp] = @ \o SetToSeq(pending)]
  /\ pending' = {}
  /\ UNCHANGED <<market, fed, settings, args, stage, engine, exitCode, row, candles,
                 liveOrder, stamp, closed, lost, today, lives>>

(* ... and an OSError is logged, the row dropped.                           *)
WriteFails ==
  /\ stage = "replay" /\ pending # {}
  /\ lost' = lost \cup pending
  /\ pending' = {}
  /\ UNCHANGED <<market, fed, settings, args, stage, engine, exitCode, row, candles,
                 liveOrder, stamp, journal, closed, today, lives>>

(* LiveBroker.open: enabled holds in live mode; there is no client yet.     *)
LiveOrder ==
  /\ stage = "replay" /\ engine.autotrade /\ Live /\ row > 0
  /\ liveOrder' = IF engine.armed THEN "no client" ELSE "not armed"
  /\ UNCHANGED <<market, fed, world, settings, args, stage, engine, exitCode, row,
                 candles, stamp, pending, lives>>

(* replay returned, or Ctrl-C ended it, perhaps between a close and its row: *)
(* stop, and a clean exit.                                                  *)
Finish ==
  /\ stage = "replay"
  /\ Exit(IF engine.failed THEN 1 ELSE 0)
  /\ lost' = lost \cup pending /\ pending' = {}
  /\ UNCHANGED <<market, fed, settings, args, engine, row, candles, liveOrder,
                 stamp, journal, closed, today, lives>>

--------------------------------------------------------------------------------
(* The world.                                                               *)

(* A kill, a SIGTERM or the power: what was not written is gone.            *)
Killed ==
  /\ stage \notin {"down", "exited"}
  /\ stage' = "down"
  /\ lost' = lost \cup pending /\ pending' = {}
  /\ UNCHANGED <<market, fed, settings, args, engine, exitCode, row, candles,
                 liveOrder, stamp, journal, closed, today, lives>>

(* Restart=always: whatever the exit code.                                  *)
Supervise ==
  /\ stage = "exited" /\ lives < MaxLives
  /\ stage' = "down"
  /\ UNCHANGED <<market, fed, world, settings, args, engine, exitCode, row, candles,
                 liveOrder, stamp, pending, lives>>

Midnight ==
  /\ today + 1 \in Wall
  /\ today' = today + 1
  /\ UNCHANGED <<market, fed, settings, args, stage, engine, exitCode, row, candles,
                 liveOrder, stamp, journal, pending, closed, lost, lives>>

ProcessNext ==
  \/ Launch \/ Arm \/ FeedRefused \/ NothingEnabled \/ Register
  \/ SeedRow \/ SeedRaises \/ SeedDone
  \/ ReplayTick \/ RefreshDaily \/ CloseTrade \/ WriteRow \/ WriteFails
  \/ LiveOrder \/ Finish
  \/ Killed \/ Supervise \/ Midnight

ProcessSpec == ProcessInit /\ [][ProcessNext]_<<barsVars, processVars>>

--------------------------------------------------------------------------------
(* daily_report.py                                                          *)

(* A row is found by the date of its file and its place in it.              *)
Lines == UNION {{date} \X DOMAIN journal[date] : date \in DOMAIN journal}

RowAt(line) == journal[line[1]][line[2]]

(* load_trades: every row of every file closed since a date, if one is      *)
(* given.                                                                   *)
LoadTrades(since) == {l \in Lines : since = Nothing \/ RowAt(l).closedAt >= since}

(* by_day and stats: the rows of a date, counted and summed.                *)
OfDay(lines, date) == {l \in lines : RowAt(l).closedAt = date}

Stats(lines) ==
  [ count  |-> Cardinality(lines),
    wins   |-> Cardinality({l \in lines : RowAt(l).pnl > 0}),
    losses |-> Cardinality({l \in lines : RowAt(l).pnl < 0}),
    net    |-> SumFunctionOnSet([l \in lines |-> RowAt(l).pnl], lines) ]

--------------------------------------------------------------------------------
(* Properties.                                                              *)

ProcessTypeOK ==
  /\ settings \in Settings /\ args \in Args \cup {Nothing}
  /\ stage \in {"down", "gates", "start", "seed", "replay", "exited"}
  /\ engine \in [DOMAIN Idle -> BOOLEAN]
  /\ exitCode \in {Nothing, 0, 1}
  /\ row \in 0..Len(Recorded)
  /\ liveOrder \in {"none", "not armed", "no client"}
  /\ stamp \in Wall \cup {Nothing} /\ DOMAIN journal \subseteq Wall
  /\ pending \subseteq closed /\ lost \subseteq closed
  /\ today \in Wall /\ lives \in 0..MaxLives

(* Through settings, flags, prompt and any number of restarts: an engine in *)
(* live mode trades by itself, and an order passes the broker's arming gate, *)
(* only in a process given all four keys (config.py load_settings, run.py   *)
(* command_run, core/broker.py LiveBroker.open).                            *)
LiveNeedsFourKeys ==
  stage \notin {"down", "exited"} =>
    /\ Live /\ (engine.autotrade \/ engine.armed) => Confirmed
    /\ liveOrder # "none" => Confirmed

(* A process that reports success had a started engine, and one whose       *)
(* startup failed reports failure: what a supervisor or a script that reads *)
(* the exit code of `run` relies on (core/engine.py start, _bootstrap and   *)
(* _fatal, run.py command_run).                                             *)
SuccessMeansStarted ==
  stage = "exited" => (exitCode = 0 <=> engine.running /\ ~engine.failed)

(* The daily report counts every closed trade exactly once, whatever        *)
(* processes closed it, across restarts on one date and processes that run  *)
(* past midnight, except those whose row a crash or a full disk swallowed;  *)
(* and its per-day figures add up to the total.                             *)
ReportCountsOnce ==
  LET rows    == LoadTrades(Nothing)
      dates   == {RowAt(l).closedAt : l \in rows}
      written == closed \ (lost \cup pending)
      daily   == [d \in dates |-> Stats(OfDay(rows, d)).net]
  IN  /\ {RowAt(l) : l \in rows} = written
      /\ Cardinality(rows) = Cardinality(written)
      /\ SumFunctionOnSet(daily, dates) = Stats(rows).net
      /\ Stats(rows).net = SumFunctionOnSet([t \in written |-> t.pnl], written)

(* A recorded tick of this day has been forgotten by the entry series.      *)
Forgotten(day) ==
  \E i \in DOMAIN Recorded :
    /\ DateOf(Recorded[i].when) = day
    /\ Recorded[i].when < series[EntryPeriod][1].start

(* When replay begins, each daily candle the extractor was given is that of *)
(* a day that is over and tells the day's open, close, high and low as its  *)
(* recorded ticks do, unless the entry series, a bounded deque, has already *)
(* forgotten part of the day (_seed_ict_daily).                             *)
DailyCandlesAgree ==
  stage = "replay" /\ row = 0 =>
    \A day \in DOMAIN candles :
      LET of   == {i \in DOMAIN Recorded : DateOf(Recorded[i].when) = day}
          said == {Recorded[i].price : i \in of}
      IN  /\ day < today
          /\ ~Forgotten(day) =>
               candles[day] = [ open  |-> Recorded[Min(of)].price,
                                close |-> Recorded[Max(of)].price,
                                high  |-> Max(said), low |-> Min(said) ]

(* core/engine.py on replay: "calls `_on_tick` exactly as the DTC client    *)
(* will".  When a tick is decided no series holds a bar from after it.      *)
ReplaySeesNoFuture ==
  stage = "replay" /\ row > 0 =>
    \A period \in Timeframes : \A i \in 1..Len(series[period]) :
      series[period][i].start <= Newest(ticks).when
=================================================================================
