# A TLA+ model of cme-orderflow-engine

Specifications, model-checking runs and machine-checked proofs for the parts of
`cme-orderflow-engine` whose correctness depends on the order in which things
happen: the risk layer and paper broker behind the tick handler, the gates fed
by background threads, the order-book feed with its reseeding threads, the
life of the feed's connection, the life of an engine process with its
arming, seeding and journal, and the components beside the risk path, from the
bars to the panel.

Contents: 1 the system, 2 the modules, 3 the runs and what they show,
4 what the code does not keep, 5 the proofs, 6 limits, 7 not modelled, 8 plan.

## 1. The system

`core/engine.py` is the centre. A feed (`replay()` over recorded CSV files today,
a DTC client by design) calls `_on_tick(symbol, bid, ask, when)`. On that one
thread, without waiting for anything, the tick is stored (`core/marketdata.py`),
the paper broker closes the positions it hits (`core/broker.py`), each close
calls back into the risk manager (`core/risk.py`), and then the strategy may
propose a trade that has to pass the tradable flag (ICT mode), the arming switch,
the news blackout (`core/news.py`), the analyst's verdict (`core/analyst.py`)
and the risk gates, which also size it (`core/symbols.py`). Other threads run
beside it: one per analyst request, one per calendar fetch, and housekeeping
loops that only report.

`core/bitstamp_client.py` is the second feed, used by the collector and the
demonstration scripts. A reader thread handles messages and reconnects; every
`subscribe_depth` starts a seed thread that diffs the book against REST
snapshots for ever. Both go through `core/book_ids.py` (`LevelIds`) to turn
price-keyed levels into the id-keyed quotes `SymbolState.apply_depth` takes.

A process (`run.py run`, kept alive by `deploy/trading-bot.service`) loads its
settings, passes the live gates, bootstraps (registers the contracts, seeds every
timeframe from the recorded files, builds daily candles), replays, and stops. It
leaves two things behind: the journal, from which `daily_report.py` makes its
figures, and `state.json`, written by a loop of its own and shown by a separate
process, the panel (`panel/server.py`).

The rest is offline and meets only in files: tick files split from Sierra Chart
recordings (`core/scid_reader.py`), feature files of the collector (`run.py collect`),
OHLC pages fetched from Bitstamp, order-book downloads that cost money
(`fetch_depth.py`), turned into bars (`depth_features.py`), joined to the features
(`merge_depth.py`) and labelled (`triple_barrier.py`).

| Component | State it keeps | Operations | Hard behaviour | What makes it correct |
|---|---|---|---|---|
| Contract arithmetic | none | snap, size, risk, P&L | truncation, one-contract floor | a sizing never risks more than asked |
| Risk manager | `DayStats`, balance, last trade per symbol, history | `can_trade`, `record_open`, `record_close` | two clocks, midnight, running counters | limits hold over any sequence, counters agree with history |
| Paper broker | positions, sequence | `open`, `on_tick`, `_close` | gaps, several closes in one tick | no position survives its stop |
| Engine | last evaluation, arming, threads | `_on_tick`, `_maybe_trade*`, callbacks | order of gates, late answers | a gate can only say no |
| Analyst | verdict and request time per symbol | request, store, fail | slow, overtaking and failed calls | requests are paced; which answer is in use is not promised |
| News filter | calendar | update, fail, blackout | failed refreshes | no trade in a known blackout |
| LevelIds | `_ids`, `_live` | `translate`, `reconcile` | called from two kinds of thread | every held level can be deleted |
| Depth path | `_seeded`, `_pending`, quotes | receive, seed, replay | interleaving outside the lock, lost deltas, stale snapshots | nothing stranded, reseeds repair |
| Connection | `_running`, `_ws`, `connected`, `_channels` | start, subscribe, stop, reconnect | subscribe and stop against reconnect | nothing silently unsubscribed, the reader ends |
| Market data | ticks, one bounded series of bars per timeframe | `add_tick`, `apply_depth` (`seed_bar`: not modelled) | out-of-order ticks, different memories | bars ascend, timeframes tell one story |
| EMA strategy | none | `evaluate`, `read_trend` | soft scores against hard trend | no signal against the trend or after a run |
| Process | settings, stage, arming, journal | launch, arm, seed, replay, stop | kills, restarts, midnight, failed writes | live needs four keys, exit codes and reports tell the truth |
| State loop and panel | `state.json`, its draft, the page | snapshot, write, read, show | reads during changes, failed writes, crashes | the page settles on the truth or says it is stale |
| Panel guard | hits per client | admit, reject | sliding window | rate bounded in every interval |
| SCID reader | daily files | parse days, window, thin, split | truncating opens, the last day | nothing overwritten, nothing skipped up to the window's end |
| Collector command | directories of one file name pattern | collect, refuse, append | restarts over what is there | one row per tick and file |
| Bitstamp history | cursor, rows | page loop | odd servers, full pages | complete, and bounded |
| Depth purchase | download directory, bills | estimate, buy, save | breaks at any point, repetition | billed once |
| Depth dataset | tables, merged files, provenance | convert, pool, merge | record order, cut-off runs | right book per bar, provenance never ahead |
| Labels | none | `label_row`, `_resolve` | both barriers, short paths | agree with the broker, stay once final |

`PROJECT.json` lists every component, the parts left out and why, and each
hazard at its line with the property that covers it.

## 2. The modules

Trading engine:

* `SymbolSpec`: whole-contract arithmetic. Prices and distances are integers in
  ticks, money in the value of a tick, so rounding to the tick grid is exact.
* `RiskManager`: `core/risk.py`. `day` is the `DayStats` record; `RolledDay` is
  `_roll_day`, `Allowed` is `can_trade` gate by gate in the code's order,
  `RecordClose` is `record_close`. The caller's `now` is a parameter, because
  which clock is passed is the interesting part. `history` also carries the time
  of the tick that closed the trade, which the code writes to the journal row
  only.
* `PaperBroker`: `core/broker.py`. `positions` is a set ordered by id. `on_tick`
  is `NextHit` applied again and again: the code walks a snapshot of the dict in
  insertion order and no position is opened meanwhile.
* `Analyst`, `NewsFilter`: the caches and their refresh. The services behind them
  are external: any answer from a small set, at any time, or a failure.
* `TradingEngine`: composes the four (EXTENDS) and adds the tick handler. A tick
  is three kinds of step: it arrives (`Tick`: the missing side is carried
  forward and the quote stored), each hit position is closed (`ClosePosition`),
  and the decision is taken (`Skip`, `NoTrade`, `BlockedByAnalyst`,
  `RefusedByRisk`, `OpenTrade`). Other threads and the wall clock move between
  those steps. `wall` is `datetime.now()`, `moment` the tick's timestamp;
  `CloseClock` and `DecisionClock` say which of them the code uses where.
* `TradingPolicy`: the abstract specification of the risk layer. It has no
  counters: the state is the log of closed trades and the number of open
  positions, and each limit is computed from the log. `MCTradingEngine` states
  the refinement `clock <- wall, log <- history, open <- OpenCount`.

Depth feed:

* `LevelIds`: `core/book_ids.py`. Ids are append-only and one per level, so a
  level stands for its id. `reconcile` is two steps (compute the repair, then
  replace `_live`), because nothing keeps another thread from coming between.
* `DepthFeed`: one symbol of `core/bitstamp_client.py` with the consumer's
  `apply_depth`. The reader and each seed thread are program counters with the
  data they hold; a step is what happens between two points at which another
  thread can run: the lock blocks, the request, the callbacks. The venue changes
  one level at a time, streams it while a socket is up, and serves snapshots
  from a cache that may be behind (`CachedSnapshots`).

Connection:

* `FeedSession`: the caller's thread in `start`, `subscribe` and `stop`, the reader
  thread in `_read_loop` and `_reconnect`. Sockets are numbered; the newest
  number is the newest socket. `connected` is set in a step of its own after the
  socket is published, as in `_connect`.

Process and data:

* `Bars`: `SymbolState` of `core/marketdata.py`, ticks folded into several bounded
  series at once.
* `EngineProcess`: `EXTENDS Bars`; a process from `load_settings` to its exit code, and the
  next one under `Restart=always`. `Arm` is `command_run`'s gates, `SeedRow` and
  `SeedDone` are `_bootstrap`, `ReplayTick` is `replay`'s call of `add_tick`; the decision
  itself is `TradingEngine`'s, so here a tick may close a trade or attempt a live order
  (`LiveBroker.open`). The journal is a function from dates to rows and the only state
  that survives. `LoadTrades`, `OfDay` and `Stats` are `daily_report.py`; a line of the report is
  the position of its row in the journal, so that two equal rows count as two.
* `EmaStrategy`: `Strategy.evaluate` with its early returns, vetoes and weighted score,
  in hundredths, over free indicator values.
* `StatePublisher`: the state loop and the panel as two processes with one file between
  them. A snapshot is three reads (`ReadStatus`, `ReadPositions`, `ReadHistory`) with
  trades opening and closing in between; an iteration over a dict whose size has
  changed raises.
* `PanelGuard`: the rate limit of `guard`. The deque is kept as everything admitted and
  a count of what has been popped, so that the property can speak of all intervals.
* `TickFiles`, `OhlcHistory`, `TripleBarrier`, `DepthDataset`, `DepthPurchase`, `Workspace`:
  one offline component each. `TickFiles` starts at the days the command is given:
  `ParsedDay` is `_parse_day`, which makes of each its midnight. Where the algorithm is pure, its reference definition is
  in the same module (`Asked` and `Place`, the records a conversion should yield and where;
  `KeptOf` of the venue's bars; `BrokerOutcome`, which is the model of `core/broker.py` run
  on the same path through `INSTANCE PaperBroker`).

* `MCTickFiles`: the export by itself, for section 4.
* `MCLives`: `EngineProcess` and `FeedSession` side by side in one run; a behaviour is one
  of the two.

`MCComponents` runs the last ten side by side: a behaviour is one component's (`part`), the
others rest. They share no state in the code either.

`MC*.tla` hold the instances and the properties that need sums or instances;
`*Proofs.tla` and `SumLemmas` hold the theorems and their lemmas (section 5). Operators that no action uses and whose comment
describes a slip (`BudgetPerTrade`, `RegisterChannelLate`, ...) are faulty variants of
the definition that follows them: a run in which one replaces that definition
violates the property named in `PROJECT.json`.

## 3. The runs

| Run | Instance | Shows |
|---|---|---|
| `engine_ema` | one symbol, EMA, live; day of 4, clock to 5; bids 8/11/13, spreads 0/1, stop 2, target 3; 3 opens | `TypeOK`, `DailyLossBounded`, `TradeLossBounded`, `LedgerAgrees`, `ImplementsPolicy` |
| `engine_gates` | one symbol, EMA, live, two positions, cap of two trades, a cooldown after one loss, partial quotes, one release, three analyst answers, failing refreshes; 4 opens, clock to 3 | `CallsSpaced`, `NoPositionPastStop`, `TradeCapBounded`, `BlackoutHonoured`, `ImplementsPolicy` |
| `depth_repair` | one level of size 0 or 1, two seed threads, cached snapshots, 2 changes, 1 failure, 1 drop | `TypeOK`, `NothingStranded`, `HeldLevelsHaveIds`, `Repaired` |
| `lives` | a process: two dates, two lives, two trades; six recorded ticks over two days, series of 4 bars. A connection: two channels, three sockets | `ProcessTypeOK`, `LiveNeedsFourKeys`, `SuccessMeansStarted`, `ReportCountsOnce`, `DailyCandlesAgree`, `SessionTypeOK`, `EveryChannelSubscribed`, `ReaderStops` |
| `components` | ten components, bounds below | `ComponentsTypeOK`, `BarsAscend`, `TimeframesAgree`, `NothingOverwritten`, `HonestComplete`, `RequestsBounded`, `NeverBothWin`, `LabelsMatchBroker`, `LabelsFinal`, `BookIsLatestOfBar`, `ProvenanceFollowsRows`, `RowsOnce`, `OnlyWithTheTrend`, `NoChasing`, `RateBounded`, `BilledOnce`, `PanelSettles` |
| `engine_replay`, `engine_dataonly`, `depth_replay`, `depth_wedge`, `session_stop`, `replay_lookahead`, `export_end` | as above, smaller | section 4 |

What the main properties say:

* `DailyLossBounded`: the day's booked result never falls below the limit by more
  than the gap of one trade. `GapCost` is the largest size times what a move of
  `MaxMove` can add past a stop, plus commission. It relies on the shrinking
  budget of `can_trade`, on truncation in the sizing and on the order of fills.
  It is a statement about one position at a time: with more, each is sized against the
  whole budget and nothing in the code keeps their sum below it (hazard list).
* `TradeCapBounded`: `trades` counts closes, so the cap is compared with a lagging
  number; it is nevertheless passed by at most the positions already open. In `engine_gates`
  two positions may be open, so the bound is reached.
* `NoPositionPastStop`: between ticks no position is past its stop, with two
  positions hit by one tick and quotes of which one side is carried forward.
* `LedgerAgrees`: the incremental counters, zeroed at each change of date, are what
  the history says, at every state.
* `ImplementsPolicy`: a position opens only if the log of closed trades, read afresh,
  leaves room in every daily limit and no losing run is cooling. In `engine_ema` the
  money limits and the cap decide, on either side of a midnight; in `engine_gates` one loss
  starts the cooling while a second position may be open or about to close. In EMA mode
  decisions and closes read one clock; section 4 is what happens where they do not.
* `CallsSpaced`: a request is marked before its thread starts, so slow answers never
  cause a second call within the interval. Which answer is then in use is another
  matter (section 4, last list).
* `BlackoutHonoured`: after one good calendar, failed refreshes do not reopen a
  blackout. The run is in EMA mode, where the engine itself asks the filter; in ICT mode
  it hands the answer to the withheld generator. Nothing is claimed before the first
  calendar: the filter fails open.
* `Repaired`: once the venue's book stops changing, `_live` becomes the venue's set
  of levels and all of those have their right size. It deliberately says nothing
  of levels outside `_live` (`depth_wedge`).
* `EveryChannelSubscribed`: whenever the reader receives on a working socket and no
  `subscribe` is half-way, each registered channel is on that socket.

* `LiveNeedsFourKeys`: over settings, flags, prompt, kills and restarts, live mode arms
  itself or passes an order only with the mode, both flags and the typed word.
* `SuccessMeansStarted`: exit code 0 if and only if the bootstrap went all the way.
* `ReportCountsOnce`: two processes on one date share a file, a process past midnight
  writes the old date's; the report nevertheless counts each trade once, except rows
  a crash or a full disk swallowed.
* `DailyCandlesAgree`: a candle seeded at the start is that of a finished day, as its ticks
  tell it, unless the bounded series had forgotten part of the day. The exception
  matters: 400 five-minute bars are some 33 hours, so of the "last five" days the code
  asks for at most two can be there, and the older of them is partial.
* `BarsAscend`, `TimeframesAgree`: for a feed in time order. `replay` after seeding is not
  one (`replay_lookahead`).
* `LabelsMatchBroker`: the label of a row is what the paper broker would have made of that
  trade. `LabelsFinal`: a label changes only while its window is cut short.
* `NeverBothWin`: for a stop no farther than the target, as shipped, a path is never a win
  for both sides. The comment in the code claims more (section 4, last list).
* `NothingOverwritten`: the rows read back are the records of the window, thinned, each in
  its place. The window is the code's, to the midnight its last day begins with
  (`export_end` is about the rest of that day).
* `HonestComplete`, `RequestsBounded`: nothing is lost where two full pages meet, and no
  server can keep the loop going.
* `BookIsLatestOfBar`, `ProvenanceFollowsRows`: see below for what the join means.
* `BilledOnce`: a query is paid for again only when the copy paid for was lost.
* `OnlyWithTheTrend`, `NoChasing`: whatever the soft parts of the score add up to.
* `PanelSettles`: once trading pauses, the page shows the engine's own positions and
  trades, or says that it is stale, through mixed snapshots, raising iterations,
  failed writes, crashes and restarts.

Bounds and why they suffice. `engine_ema`: a clock of 5 with a day of 4 has one
midnight, with a cooldown of 2 on either side; three opens exceed the cap of 2 and
the losing run of 2; bids 11 to 8 gap through the stop of 2 by one tick and 11 to
13 reaches the target from the ask at zero spread; a risk of 9 with a limit of 14
makes the second trade's budget smaller than the first. `engine_gates`: the clock
values 0 to 3 lie before and inside the blackout and more than one analyst interval
apart; a move of 4 takes every position to its stop, through a gap, or to its target, and
partial quotes leave a side behind; four opens exceed the cap of two by more than the one
trade the bound allows. `depth_wedge`: one thread of each kind and a single change of the venue's book, so
that no second delta can be what goes wrong. `depth_repair`: races are per level, so one level suffices for ordering and
two seed threads are the least that overlap; the proofs cover any number.
`lives`, the connection: three sockets give two reconnects, so a subscribe can overlap one
reconnect and be repaired by the next. The process: two lives give a restart on the same
date and one on the next; a series of 4 bars forgets part of the first recorded day,
as the real one does; two trades can be closed by one process or by two, on either
side of midnight. `components`: two timeframes that nest, with series of two bars that
forget at different rates; four SCID records on and beside midnights, in order
or not, over three days of which the last lies beyond the window's end, with and without
thinning by 2; pages of two over stamps with gaps, one outside the window on each
side; paths of four quotes with both barriers within one step, ties and gaps; two
downloads of up to two updates, two days of features, two runs of the merge; two
directories, three collections; every mix of four gradients with the soft factors on
either side of their thresholds, and the spread on either side of `max_spread` and of the
multiple of its median, together and apart; four purchases of two queries on either side of the
maximal cost; one trade, one failed write and two processes for the publisher (a
second trade makes its state space too large, and already one can open or close
between any two reads). Counters without a natural limit
(`MaxOpens`, `MaxTime`, `MaxChanges`, `MaxFailures`, `MaxDrops`, `MaxSockets`, `MaxLives`, `MaxTrades`, `MaxFed`,
`MaxRecords`, `MaxPath`, `MaxUpdates`, `MaxRuns`, `MaxCollects`, `MaxLiveRows`, `MaxCalls`,
`MaxOpened`, `MaxFaults`, `MaxStarts`, `Horizon`) are bounds of the model only. `CHECK_DEADLOCK FALSE` stands where the model stops at a bound
(engine) or the program really ends (session); `depth_repair` checks deadlock.

Fairness. The engine's specification has none and no liveness is claimed of it:
ticks may stop. `DepthFeed` assumes that its threads run, requests end (they
carry a timeout of 10 s) and the endpoint's cache catches up; it assumes nothing
of how often the book changes, requests fail or the socket drops. `FeedSession`
assumes that the reader runs (a receive and a connection attempt time out after
10 s) and that a `stop` once begun finishes. `StatePublisher` assumes that the loop's thread
runs while its process does, that the page polls (it does, on a timer), and that time
passes: a file nobody replaces grows older than the panel tolerates. It assumes
nothing of when processes start, die or trade.

## 4. What the code does not keep

Each is a run that TLC refutes, with the line that states the opposite quoted in
`PROJECT.json`.

* `engine_replay`: decisions use the tick's time, closes the wall clock, so a
  replayed day's loss limit stops nothing (`core/engine.py:963`).
* `engine_dataonly`: EMA mode ignores `tradable=False` (`core/engine.py:764`; the
  default mode is ICT, which asks).
* `depth_replay`: held deltas are replayed outside the lock, so a newer delta can be
  overtaken by an older one (`core/bitstamp_client.py:279`).
* `depth_wedge`: the reader translates a delete and delivers it between a reseed's
  replacement of `_live` and its callback, which then brings the level back into the
  consumer's book; `_live` has it no more and no later reseed removes it
  (`core/book_ids.py:124`). With a single change of the venue's book no held delta is
  replayed in the run, so this is not the race of `depth_replay`.
* `session_stop`: a reconnect in flight publishes its socket after `stop`
  (`core/bitstamp_client.py:158`).
* `replay_lookahead`: `_bootstrap` has folded the whole recording into every series before
  `replay` decides its first tick, and each tick is then folded in again
  (`core/engine.py:446`). A live tick finds nothing from after it.
* `export_end`: `--end` is documented as inclusive and compared as that day's midnight, so
  the day itself is left out (`core/scid_reader.py:129`, `203-206`, `217`).

Met while modelling, without a run of its own, because no line of the repository says
otherwise or the code says so itself:

* A failed analyst call stores a permissive verdict over one that blocked
  (`core/engine.py:1007`, which calls itself failing open). Of two calls under way the one
  that ends last wins, so an older call's failure can lift the newest veto. The code's own
  comment promises no more than a possibly stale verdict.
* The join of `merge_depth.py` gives a feature row stamped T the last book of [T, T + 5 min).
  Whether that is from the row's future depends on what a row's timestamp means:
  `triple_barrier.py` treats it as the moment the row is known.
* In the SCID reader, a read that ends inside a record, because the recorder is still writing,
  drops the bytes it has and
  starts the next read in the middle of the record.
* The comment at `triple_barrier.py:219-220` says that both sides cannot win with a target
  above the spread. With a stop farther than the target plus the spread they can, and the
  row is labelled WAIT; the shipped stop is no farther than the target (`NeverBothWin`).
* `merge_depth.py` leaves an earlier run's output where a day is skipped for too few
  matches. With `--min-match 0` an empty feature file ends a directory merge with an
  IndexError.
* A download cut off while it is written leaves a partial `.dbn.zst` that blocks the
  next attempt until somebody deletes it.
* The bot's service restarts a finished dry replay, which journals the same trades
  again; to the report they are different trades, and so they are to the model.
* A restart gives the day its loss, profit and trade limits back: they live in memory.
* An hourly refresh during a replay builds daily candles from bars that each tick was
  folded into twice.

## 5. The proofs

`tlapm` checks the following for every value of the constants allowed by the
named assumptions of the modules (`SpecAssumption`, `RiskAssumption`, ...). A
theorem with a further hypothesis states it after ASSUME. Every invariant of the
passing runs is stated by a theorem; so is every action property and the refinement.

Sums and extremes. The prover has no induction over data, but it has sets. A false
statement about a number has a least counterexample: `BelowIsWellFounded`,
`HasLeast` and `HasGreatest` in `SumLemmas` give that from well-foundedness.
The community modules define a sum over a set by CHOOSE and a recursive function;
`FoldsUpTo` shows, by a least cardinality at which two such functions differ, that
the order of picking does not matter, and from it follow the laws used elsewhere:
a sum unfolds by one element (`SumUnfolds`), splits (`SumSplits`), passes through a
bijection (`SumThrough`) and adds up by groups (`SumByGroups`).

* `TradingEngineProofs`, the engine and its limits.
  `TypeCorrect`: the invariant is `TypeInv`, the types plus "the symbol being handled
  has a quote", without which the broker's exit price is not a number. The lemmas on
  `SnapVolume` and `VolumeForRisk` (natural, and never above the budget) are stated there.
  `TradeCapHolds` (from a cap of at least 1): the bound itself is inductive, since
  an open needs room in both the cap and the position limit.
  `StopsAreHonoured`: the invariant `BracketInv` says that a position's stop lies on
  the right side of its entry and that, between ticks, no position is past its
  stop; it needs `ClearEntries`, i.e. EMA mode with `max_spread` (plus slippage)
  below the stop distance, as the shipped symbols have it. In ICT mode the stop
  is the withheld generator's choice.
  `TradeLossHolds`: each open position's worst loss is bounded by its size, its stop
  and one move, carried from open to close.
  `DailyLossHolds`: the day's result minus the risk still open stays above the limit;
  needs `SafeSizing` (`0 <= risk_per_trade <= max_daily_loss`, one position at a
  time), which the defaults satisfy and nothing in the code enforces.
* `PolicyProofs`, the engine against its history and its gates.
  `LedgerHolds`: in EMA mode the day's counters, zeroed at each rollover and added to by
  each close, are the count, sum and wins of the history's trades of that date, and the
  balance is the start plus them all. The invariant `LedgerInv` adds that nothing is
  booked after the clock or on a date after the counters' own; without it a rollover
  could zero counters of a day that still has trades to come. In ICT mode, where decisions
  and closes read different clocks, it is false in a replay (`engine_replay`).
  `PolicyImplemented`: every step of the engine is a step of `TradingPolicy` or a stutter.
  Beyond the ledger, `PolicyInv` says that `consecutive_losses` is no less than any run of
  losses that ends the day's history, that `blocked_until` is no earlier than the cooling
  of any loss of the day that ended a run, and that position ids are fresh, so that the
  number of open positions is what the policy counts.
  `CallsAreSpaced`: its invariant relates each outstanding call to the time marked for its
  symbol.
  `NoOpenInBlackout`: for any high-impact release that every calendar served lists;
  `BlackoutHolds` is that of the runs. A release that the service drops from a later
  calendar is not protected, and rightly so.
* `DepthFeedProofs`: `FeedTypeCorrect`, and `HeldDeltasAreTaken` and
  `DeletesReachTheConsumer`, for any number of levels and seed threads. The last needs
  ids not only for what is held but for every update still in some thread's hands.
* `FeedSessionProofs`: `SessionTypeCorrect` and `ChannelsSubscribed`. The invariant relates the
  channels still to be resubscribed by a reconnect, the one the caller is half-way
  through, and the newest socket.
* `BarsProofs`: `BarsTypeCorrect`, `BarsAlwaysAscend` and `TimeframesTellOneStory`. The first
  invariant adds that no tick is newer than the feed's clock, so that a bar is opened
  only after the newest. All three are of ticks in time order: rows given to `seed_bar`,
  which appends unchecked, are no step of `BarsSpec`. The third compares two independently rolled series: `StoryInv`
  states it for every pair of nested periods, and its step splits on whether the tick
  opens a bar in neither series, in the fast one only, or in both.
* `OperationsProofs`, the process. `FourKeys` and `ExitCodeTells`: what is armed, ordered or
  failed at each stage. `ProcessTypeCorrect`. `ReportIsExact`: `BooksInv` says that a trade
  closed is in a journal row, lost, or the one still to be written, that rows of different
  files are different trades, and that a running process has a file; the report's sums
  over lines are then sums over trades (`ReportOfJournal`).
  `DailyCandlesTell`, for a recording in time order (`RecordedInOrder`): `DailyInv` says that
  while a process seeds, the entry series is the fold of the ticks read so far, each bar
  with the open, close, high and low of its ticks (`FoldOfTicks`); a candle of such bars is
  that of the day's ticks unless the oldest bar of the day has been forgotten.
* `ComponentsProofs`, the components beside the risk path.
  `PagingEnds`: while paging, the cursor is past the window's start by more than `Spacing`
  per request made; needs `IsFiniteSet(Stamps)`, since a page is a finite list.
  `PagesMeet`: `CompleteInv` says that the rows of an honest server are exactly the bars
  behind the cursor; no bar fits between the last of a full page and the next start.
  `NothingBoughtTwice`: an order under way implies that no whole file is there.
  `OneWinAtMost`, `LabelsStay`, `LabelsAreTheBrokers`: from the path's order in time, the first
  of several hits is well defined (`FirstIsFirst`), and the broker's walk and the label's
  two arrays find the same one.
  `BooksAreOfTheirBars`: every table, pooled or being built, tells of a bar a book from
  within it. `ProvenanceIsLast`: during a run the days to come are of earlier runs, and
  the day in hand has no provenance of this run before its rows are whole.
  `NoRowTwice`: `WorkspaceInv` says that no file has two rows of a number, that live rows
  have numbers of their own below zero, no further than were written, and that what a replay has still to read is not yet in
  the directory it writes to.
  `ExportIsFaithful`, up to the midnight with which the window's last day begins: `ExportInv` says that the files hold exactly the asked records among
  those read, each in its place (`PlacedInv`), and that the open file is the latest day's,
  so that no file is opened, and emptied, a second time.
  `SignalsFollowTheTrend` and `RunsAreNotChased`: bounds on each part of the score
  (`PartsBounded`) make the sum miss the threshold. `RateHolds`: what has been popped from a
  client's deque stays outside the window.
  `ComponentsTypeCorrect`: each component's types under its own specification, carried to the
  composition because the step of another component leaves its variables alone
  (`EachStepsAsItself`). For the publisher the invariant (`PublisherInv`) adds that before
  `os.replace` the temporary file is a finished snapshot.
  `ComponentsAreSafe`: so are the theorems of this module and of `BarsProofs`, for `MCSpec`.

Only model-checked: the liveness properties `Repaired`, `ReaderStops` and `PanelSettles`
(fairness and ENABLED are out of the prover's reach), and the seven properties of
section 4, which are false.

## 6. Limits of the model

* `Feed = "live"` is the contract of the DTC client, which the repository declares but
  does not implement: ticks carry the current time. `Feed = "replay"` is what runs
  today; it is modelled for one symbol's file (the code replays symbols one after
  another).
* The choice of a signal is free in `TradingEngine`: any side, at any evaluation that passes
  `max_spread` and the cost limit (EMA). The veto against the median spread belongs to that
  free choice there; `EmaStrategy` has it. The ICT package is not in the repository; that its generator
  honours the `news_blocked` it is handed is assumed.
* The decision of one tick is one step. An analyst answer may land before or after
  it, not between its lines.
* `apply_depth` is one step; the reader and a seed thread may both be about to call
  it.
* Each channel is subscribed once, and a client is not started again after `stop`.
* Floats are exact: amounts are integers in ticks, ratios and scores in hundredths.
* `EngineProcess` replays one symbol; its ticks are a fixed recording of two days. Ctrl-C
  and the end of the replay are one action (`Finish`). Daily candles exist in ICT mode,
  the default.
* The passing engine runs are in EMA mode, as the theorems about stops, losses and the
  ledger are; `TypeCorrect`, `TradeCapHolds` and `CallsAreSpaced` hold in ICT mode too.
* `DepthPurchase`: a query is bought for one path; the same query with another `--out` is
  another file, and is bought again. `DepthDataset` takes the exchange's time, the default of
  `--timestamp`.
* `PanelGuard` handles one request at a time, as the server's event loop does.
* Two processes that write the same files at once (two collectors, two merges) are not
  modelled.

## 7. Not modelled

* The ICT package (`ict/`): not in the repository; its signals are a free choice, its
  collector is external to `Workspace`.
* `core/dtc_client.py`: a blueprint whose every operation raises; `core/ctrader_DEPRECATED.py`:
  archived and imported by nothing.
* `seed_bar` (`core/marketdata.py:108`): nothing in the repository calls it, the engine seeds
  through `add_tick`.
* The arithmetic of the indicators (`core/indicators.py`), a book's imbalance and levels,
  and of the median spread: floating point over windows, inputs of the models here.
* `reporter.py`, which words verified numbers. Its past days include the earlier rows of
  the latest day, and the number of days it prints is one more than those.
* The status and contract-roll loops, `events-*.jsonl`, the panel's lists and rendering:
  they read and print.
* `inspect_*.py`, `feature_separation.py`, `compare_presets.py`, `verify_book.py`, `demo_live_book.py`,
  `probe_ohlc.py`: scripts that compute and print once.
* Layouts: the binary format of SCID records, CSV columns, JSON, `.env` syntax.

## 8. Plan

1. Done: the engine and its risk layer, gates and policy; depth path and connection;
   processes, bars, strategy, publisher, panel guard and the offline components; a theorem
   for every safety property of a passing run (section 5).
2. What would come next: an abstract specification of the state file (the page shows some
   past state of the engine) with `StatePublisher` as its refinement; the safety half of
   `Repaired` (what a completed reseed leaves in `_live`) and of `ReaderStops` as invariants
   with proofs; a run of the policy with several symbols.
3. Further off: `on_connected` as a place to subscribe from, in `FeedSession`; two collectors
   at once; the ICT engine at midnight, where a decision is taken on a clock that lags the
   closes'.
