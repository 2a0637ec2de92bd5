# TLA+ models of the crypto research platform

The platform collects and records market data, turns signals into paper trades,
guards the positions, accounts for them and learns from their outcomes; offline,
it replays the analyst over histories and studies signals on them. Its agents are
asyncio processes that talk over Kafka and keep what must survive in
PostgreSQL. These modules model the agents' control: every state change, guard,
early return and error path of the functions `PROJECT.json` maps, with prices,
sizes and messages reduced to what the properties tell apart. TLC checks small
instances; TLAPS proves the theorems of the `*Proofs` modules for every instance.

All paths below are relative to `src/`.

## 1. Inventory

### How the parts interact

    collectors --market.*--> recorder --rows--> PostgreSQL
        |                                          ^
        +--candles, books--> analyst               | (each agent its tables)
                                |  agent.signals   |
                                v                  |
           +-------------> decision engine --------+
           |                    |  decision.trades
           |                    v
           |              risk manager <---- portfolio.snapshots ----+
           |                    |  risk.orders                       |
           |                    v                                    |
           |              paper broker --exec.fills--> portfolio manager
           |                    ^             \              |
           |   reduce-only exits|              v             | portfolio.closures
           |                position monitor <-- snapshots   v
           +---learning.outcomes----------------------- outcome recorder

A process takes one event at a time from its topics (`BaseAgent.run`), changes
its memory in `handle`, awaits the database inside `handle`, and publishes what
`handle` returned. Topics are ordered per partition; nothing orders two topics.
Offsets are committed in the background (`libs/kafka_client/consumer.py:78`),
whether or not the event has been handled. An exception of `handle` goes to
`on_error`, which logs it and returns nothing. A signal runs `stop` in a task of
its own, beside the loop and whatever it awaits; the loop, when it notices, stops
once more.

### Components

| Component | State | Operations | What is hard | What makes it correct |
|---|---|---|---|---|
| Recorder (`services/data_ingestion/recorder.py`) | four lists of rows, throttle times, tables | take, flush (batch, timer, stop), write, retry, stop | three flushes interleave at every await; outages; stop while writing; crash with committed offsets | no row lost but by a crash, a stop or a full buffer; bounded lists; a quiet stream reaches the database |
| Agent life cycle (`common/base_agent.py`) | started, stopping, consumer, producer | start, run, stop, main | `stop` from the signal task and from `run` at once | one drain after the last event |
| Kafka client | positions, committed offsets | consume, publish, commit | redelivery, loss, order of two topics | at least once, in order within a topic |
| Position monitor (`services/execution/position_monitor.py`) | records by symbol, pending orders, table | order, fill, snapshot, tick, exit, restart | stale snapshots, partial fills, a tick before a fill, a crash between persist and publish | one exit for a breach; stops never loosen and survive a restart; what is held is guarded |
| Portfolio manager (`portfolio_manager/tracker.py`) | cash, positions, counters, day baseline, three tables | fill, book, order, snapshot, persist, stop, restart | three statements without a transaction, a stop between them; replay; the roll of the day | positions net; equity is cash plus marks; tables rebuild the tracker; a baseline stands all day; one fill counts once |
| Risk manager (`risk_manager/agent.py`) | last snapshot | decide | stale snapshot, missing stop, zero and boundary values | loss at the stop within the budget; exposure within limits |
| Paper broker (`execution/paper_broker.py`) | last book by symbol | book, order | stale or thin book, rounding | best fill the book allows, never better for more |
| Decision engine (`decision_engine/`) | last decision by symbol, window of scores by agent | signal, outcome | cooldown, feedback through trust | trust follows the record |
| Outcome recorder (`learning/outcome_recorder.py`) | three bounded indexes, signal table, ledger | signal, decision, closure, start without a database | eviction while a position is open, failing inserts, redelivery, several closures of a correlation | outcomes only for the signals behind the trade, each backed by the ledger |
| Persistence (`libs/persistence/`) | tables, pool | statements, migrations | a statement that fails after it committed; closing the pool | single statements are atomic |
| Market analyst (`agents/market_analyst/`) | none: a function of the context | indicators, scores, confluence, confidence, levels, stop and target | thresholds, signs and weights that interact; levels at the price itself | stop and target bracket the price; full confidence needs unanimity; a trend is not faded |
| Context builder (`agents/common/context.py`) | windows of candles and trades, a book | candle, book, trade, build | repeated, late and open candles; eviction at the window | a window is the end of the topic |
| Collectors (`data_ingestion/market_data/`) | connection, the open candle by interval, the time of the last book | reconnect, time out, parse, roll over, throttle, poll | reconnects, silence, late updates, a publish that raises, a restart | a closed candle is closed once and never spoken of again; feeds recover |
| Candle and funding history (`hyperliquid_history.py`, `hyperliquid_funding.py`, `research/data.py`) | cursor, rows by time, the cache file | walk, retry, write, load | empty windows, broken rows, the end of a range, a crash while writing | no row missing between the first and the last |
| Backtest (`services/backtest/`) | one open trade, trades | replay a bar, close at the end | lookahead, several levels in one bar | the windows of the live agent; the exit at the first touch |
| Research (`services/research/`, `scripts/research/`) | none | signals, sampling, rebalances, corrections, statistics | overlapping samples, signs and thresholds, ties | independent samples; consistent signals; supported discoveries |

### Modules and the code

| Module | Models | State and actions |
|---|---|---|
| `Recorder` | recorder.py in the life cycle of base_agent.py | `buffer`, `rows`, `target` are the Python lists by owner; `stage` the write a flush awaits; `pc` the run loop, the signal's task and the timer. `Take`, `Tick`, `WriteOk`, `WriteFail`, the stop as `BeginStop`, `Drain`, `Close`, `Leave`, `Finish`, then `AutoCommit`, `Crash`, `Start` |
| `PositionMonitor` | position_monitor.py | `positions`, `pendingOrders`, the table `store`, the exits `outbox` that `handle` returned. One operator per branch of `handle`; `Persist` may fail and keeps the memory's change, as `on_error` does |
| `PortfolioManager` | tracker.py, the account's repository | `account`, `holdings`, `orders`; `todo` holds the statements of `_persist_after_fill`, or of `on_start`, still to run, so that a crash, a failure or a `stop` falls between any two; `stopping` and `looping` are the two tasks that stop, `connected` whether a database answered at start |
| `RiskManager`, `PaperBroker` | agent.py, paper_broker.py | the last snapshot and the last books; the answer to a decision or an order is a function of them (`Approves`, `OrderFor`, `Fills`, `FillOf`) |
| `Trading` | the four agents above over their topics | `INSTANCE`s of the four modules; `inbox[c][t]` is what consumer c has yet to take from topic t |
| `DecisionEngine`, `OutcomeRecorder` | engine.py and trust.py, outcome_recorder.py and its repositories | the handlers, as actions on the state of one process; `connected` says whether the recorder has its repositories |
| `LearningLoop` | both over their topics, with the trading chain between decision and closure reduced to its outcome, of which a decision may have several | topics are logs, consumers have positions and committed offsets |
| `WebSocketClient` | hyperliquid_ws.py | `conn` is where `messages()` waits, `wire` the frames under way; a drop, silence and its timeout, the backoff |
| `MarketFeed` | hyperliquid_collector.py and the candle side of `SignalAgent` | `held` is `_open_candles`, `candles` the topic, `builder` the agent's context; the exchange, external, trades in slots and sends the candle of every interval, late or garbled at times |
| `CandleTopic` | what `market.candles` promises | the abstract specification: a candle is closed once, in order, and not mentioned afterwards. `MarketFeed` implements it with `topic <- candles` |
| `BookFeed`, `MetricsPoller` | hyperliquid_orderbook.py, hyperliquid_perp_metrics.py | the throttle against a clock; the polling loop |
| `MarketContext` | context.py | operators on a builder record, used by `MarketFeed`, `MarketAnalyst` and, as the yardstick, `Replay` |
| `HistoryStore`, `CandleHistory`, `FundingHistory` | research/data.py and the two history clients | one load: ask the cache, walk page by page, write the file, with every failure; `listed` is what the exchange keeps |
| `Replay` | backtest/replay.py | one action per bar: manage the open trade, else show the windows to the analyst, whose answer is a free choice. `live`, a history variable, is the builder of a live agent that has heard the same candles |
| `Indicators`, `Ranks`, `PriceLevels`, `MarketAnalyst` | indicators.py, levels.py, agent.py | pure operators from candles to signal, in integers: prices scaled by `Fixed`, scores in thousandths; comparisons of ratios are multiplied out; what Python accumulates in a loop is a recursive function; `Ranks` is what `sorted()` makes of values |
| `ResearchSignals` | research/signals.py, the signals of long_horizon.py | one operator per signal, giving its direction |
| `ResearchStudy`, `Discoveries` | study.py, basis.py, cross-sectional momentum; statistics.py and the verdicts of two scripts | which bars an observation reads, which observations are independent, which cells are rejected |
| `MC*` | instances for TLC | sets of prices, messages and levels |
| `Sums` | `SumOf`: Python's `sum` over a mapping or a sequence, of a function so that facts about it can be cited |
| `RecorderProofs`, `PositionMonitorProofs`, `PortfolioManagerProofs`, `LearningLoopProofs`, `MarketFeedProofs`, `SumsProofs` | theorems or lemmas about the module of that name |
| `AlgorithmProofs`, `MarketDataProofs` | theorems about the risk manager, the broker, the replay, the analyst and the corrections; about the throttle of books and both histories |

The definitions named "Seeded fault" are plausible slips in the code next to
them; `PROJECT.json` pairs each with the property that detects it when it
takes the definition's place.

## 2. Runs

Passing runs; every bound is a constant named in the cfg.

| Run | Question and answer | Bounds, and why they are enough |
|---|---|---|
| `RecorderSafety` | Can flushes that interleave lose rows or grow without bound? Not while nothing stops: rows are lost only through a failed write whose list was swapped away, or full (`StreamIsolation`, `RetryKeepsRows`, `BufferBounded`) | five rows on three streams, three of them in one; batch 2, retry buffer 1: two flushes under way and a third of a stop; two failures: one to fill a list, one more while it is full; two starts: one crash with redelivery |
| `RecorderLive` | Does a quiet stream reach the database? (`QuietStreamReachesDb`) | an outage of two writes, books at the throttle's boundary, an open candle, and a last row that leaves the batch unfilled |
| `MonitorGuard` | Exits at most once, stops that never loosen, a table never behind (`AtMostOneExit`, `PendingExitWasSent`, `StopNeverLoosens`, `DurableStop`) | one symbol, as symbols share no state but the dict; five prices give a trail two moves on either side; one order id, size 2 for adding and partial exits; one failure and one crash, at any point |
| `Portfolio` | Does the average-entry arithmetic agree with the sum of the fills; do the tables rebuild the tracker; does the loss baseline survive restarts? (`NetsPerSymbol`, `EquityIsMarkToMarket`, `CashIdentity`, `TablesFollow`, `SavedBaselineStands`) | four fills of sizes 1 and 2 reach open, add, reduce, close, flip and open again; prices are multiples of 2520, so that the averages are exact; one midnight, one failed statement, one crash or stop between any two statements, one restart with or without the database. The constraint `Explored` keeps the third and fourth fill apart from day change, faults, stops and protective levels, which the accounting of fills does not read. 1.2 million states |
| `TradingGuard` | Is what is held guarded, in its direction and size, once messages are through? (`GuardsWhatIsHeld`) | two decisions on one symbol, in any directions, so that the second adds, reduces, closes or flips; four orders: both openings and two exits, which is what a second exit for the same position takes; one price, at the stop of a long; a book of one level that fills an order in full or in part. Nothing orders the topics (`CausalDelivery` is false): snapshots come older and newer than the fills taken, fills ahead of their orders. Symbols that such a snapshot misled are set aside, and not explored further (`Unmistaken`): see below. The orders of two kinds of events that commute are left out (`InTime`): books that change while no order waits at the broker, and what the risk manager reads after the last decision. 0.6 million states |
| `TradingExit` | Is an exit answered? (`ExitIsAnswered`) | one decision, two orders (the opening and the exit), a clock of one unit within the age a book may have, a book that may fill partly |
| `Algorithms` | Do the pure computations keep their promises on every input of a grid? (the thirteen invariants below) | see below |
| `MarketData` | Is a closed candle final, is the window the end of the topic, are books spaced and not starved, are histories without holes, and does every feed recover? (`ClosedIsFinal`, `TopicKeepsPromise`, `WindowEndsTopic`, `ThrottleSpacesAndPasses`, `HistoryIsComplete`, `FeedsRecover`) | the processes share no state, so a behaviour shows one of them. Three trades in three slots on intervals of one and two slots: an interval rolls while the other does not; two outages, one crash of collector or agent. An interval of two for books against five units of time. Histories of seven rows in windows of three and pages of two, two empty windows in a row, a broken row, two loads so that the second meets the file of the first |
| `Learning` | Is trust moved by the right signals, and only by ledgered ones? (`LedgerBacksOutcomes`, `AttributedToContributors`, `TrustMatchesLedger`, `TrustFollowsTrackRecord`) | four signals of three agents: the analyst's two forecasts, another's opposing view of the first and a third's failure, late, of that correlation; indexes of one entry, so that each decision evicts and the table answers; two closures, of one decision or of two; one failed statement, one crash (with both, one closure: `Explored`), a recorder that starts with or without its database. 1.5 million states |

`Algorithms` first picks a job, then an input of it:

| Job | Inputs | Invariants |
|---|---|---|
| sizing | grids around every threshold of the risk manager: equity below, at and above the daily loss limit, exposure up to and past the leverage limit, stops on either side and too near; books of up to two levels, one side possibly empty | `RiskWithinBudget`, `ExposureWithinLimits`, `StopIsALoss`, `WalkIsBest`, `SizeIsNeverRewarded` |
| replay | six bars, three of them warm-up, of six shapes (flat, touching a stop, a target, both), every choice of signal at every bar, a slower interval of two bars, windows of two, two bars held at most | `ReplaySeesLiveWindow`, `ExitsAtFirstTouch` |
| market | every series of six closes at three prices, four volume profiles, four surroundings of funding, book and open interest; lookbacks of one to three, so that each signal warms up and crosses its thresholds | `SignalsAreConsistent` |
| timeframe, context, composites | the same series for one timeframe; contexts with a rising, a falling and a barely begun minute, priced by book, tape or close, also a hair off a level with another beyond it; composites at and beside every threshold on up to three intervals | `TrendIsNotFaded`, `LevelsBracketPrice`, `ConvictionIsUnanimous` |
| firing, carry, universe | every set of eight bars at which a signal fires; five hours of rates and premiums; two symbols listed from any day on or with a gap | `SamplesAreIndependent` |
| grid | up to three cells with p-values at, below and above the levels of one, two and three tests, testable or not | `DiscoveriesAreCoherent` |

Runs that find a disagreement between code and text, one property each:

| Run | Text | Code |
|---|---|---|
| `RecorderRetry` | `recorder.py:222`: rows that fail to write are put back to be retried on the next flush | the list may belong to nobody by then |
| `PortfolioReplay` | `repositories.py:6`: a replayed fill must not be double-counted | `apply_fill` books every fill it is handed |
| `TradingReduceOnly` | `trading.py:156`: whether the order may only reduce | nobody enforces it; a stale snapshot makes the monitor exit a position that is gone, which opens the opposite one |

Deadlock is checked except in the runs of the recorder, whose process exits,
in `Learning` and `MarketData`, where everything is consumed in the end, and in
`Algorithms`, where an answer ends the behaviour.

### Fairness

`RecorderLive` assumes weak fairness of the timer and of the completion of each
write: the event loop runs every ready task and the driver answers every
statement, with an error if need be. Nothing makes a message arrive.
`DataFairness` of `MarketData` assumes weak fairness of the collector's read of
the next frame, of a start after a crash (the supervisor's), of the reconnection
steps that are not themselves an outage, and of the poller's own steps. Each is
an await with a timeout or a ready task of the event loop; nothing makes the
exchange trade, and outages, failing polls and crashes are never fair.
`TradingExit` assumes weak fairness of each consumer's next message and of the
publication of an exit. It assumes nothing about decisions, books, ticks or
the clock; the depth of the book may fill an exit partly.

### Assumptions of the compositions

- `CausalDelivery` holds in `TradingExit`, `TradingReduceOnly` and `Learning`, not
  in `TradingGuard`: a consumer takes an order before its fill, a fill before the
  snapshot that follows from it, a signal and decision before their closure. Kafka
  does not promise this for two topics. Where it fails the code leaves an opening
  fill to the next snapshot, adopts a position with the fill still to come, and so
  counts it twice, or leaves a closure unattributed.
- `GuardsWhatIsHeld` sets two kinds of symbols aside. `late`: a fill that the
  monitor leaves to reconciliation (`position_monitor.py:364-368`, 381-386) waits
  for a snapshot of the fills it has taken. `misled`: a snapshot of other fills,
  older or newer, made `_reconcile` drop or adopt the symbol, or a second fill came
  before the first was reconciled. `_reconcile` compares symbols, never sizes or
  sides (422, 428), so that no later snapshot corrects what these leave behind;
  section 4 records it. Mistaken snapshots that change nothing, such as a stale one
  of a symbol that is held anyway, are not set aside.
- In `Learning`, faults leave two promises: attribution to signals of the right
  correlation only (`AttributedToContributors`), and a row for whatever a recorder
  with a database publishes (`LedgerBacksOutcomes`). That attribution is complete
  and trust agrees with the ledger is said of behaviours without a fault, the
  latter of agents none of whose signals was scored twice.
- `stop` is modelled statement by statement in `Recorder` and `PortfolioManager`;
  the other modules have crashes only.
- One partition per topic.
- `Trading` has no crashes and no persistence; `PositionMonitor` and
  `PortfolioManager` do. Slippage and fees are zero in `Trading` and non-zero
  in `Algorithms`; rounding to a quantum is part of `PaperBroker`.

### Refinement

`TopicKeepsPromise` is the specification of `CandleTopic` with `topic` replaced
by `candles`: every step of collector, exchange and agents appends to the topic
what the abstract step allows, or nothing. It is checked across reconnections,
late updates and restarts of the collector, which forgets its open candles, and
proved as `TopicRefined` (section 3).

## 3. Proofs

Eight modules hold 34 theorems and the lemmas under them. Each EXTENDS the
modules it is about and starts with the invariant; every action has a lemma, one
lemma combines them, and the temporal step is last. Each property below is also an
invariant or property of a run, where TLC checks it on an instance; the theorem
holds for every value of the constants that the assumptions of the modules admit.
Those are types and ranges (`LogAssumption`, `BoundsAssumption`,
`MonitorAssumption`, `PortfolioAssumption`, `RiskAssumption`, `BrokerAssumption`,
`ReplayAssumption`, `AnalystAssumption`, `FixedAssumption`, `LevelsAssumption`, `ContextAssumption`, `RecorderAssumption`, `EngineAssumption`,
`LoopAssumption`, `FeedAssumption`, `BookAssumption`, `StoreAssumption`,
`CandleAssumption`, `FundingAssumption`, `StudyAssumption`, `DiscoveriesAssumption`): no theorem bounds the number of
messages, faults, crashes or restarts, which appear only as arbitrary constants.
What a theorem assumes beyond them is in the last column.

| Module | Theorem | Property | Assumes |
|---|---|---|---|
| `RecorderProofs` | `TypeCorrect`, `MemoryBounded` | `TypeOK`, `BufferBounded` | |
| | `RowsRetained`, `StreamsIsolated` | `RetryKeepsRows`, `StreamIsolation` | |
| `PositionMonitorProofs` | `OneExitInFlight`, `PendingIsSent`, `StopIsDurable` | `AtMostOneExit`, `PendingExitWasSent`, `DurableStop` | |
| | `StopRatchets` | `StopNeverLoosens`, an action property | |
| `PortfolioManagerProofs` | `CashIsNet`, `TablesRebuild` | `CashIdentity`, `TablesFollow` | |
| | `PositionsNet` | `NetsPerSymbol` | |
| | `EquityIsWhatFillsMake` | `EquityIsMarkToMarket` | `AveragesAreExact` |
| | `BaselineStands` | `SavedBaselineStands`, an action property | |
| `AlgorithmProofs` | `BudgetKept`, `ExposureKept`, `StopLoses` | `RiskWithinBudget`, `ExposureWithinLimits`, `StopIsALoss` | |
| | `WalkTakesBest`, `SizeNeverPays` | `WalkIsBest`, `SizeIsNeverRewarded` | |
| | `ReplayTakesFirstTouch` | `ExitsAtFirstTouch` | |
| | `ReplayShowsLiveWindow` | `ReplaySeesLiveWindow` | |
| | `TrendHolds` | `TrendIsNotFaded` | |
| | `LevelsHold` | `LevelsBracketPrice` | |
| | `SamplesHold` | `SamplesAreIndependent` | `2 <= MinSymbols` |
| | `DiscoveriesHold` | `DiscoveriesAreCoherent` | |
| | `ConvictionNeedsAgreement` | `ConvictionIsUnanimous` | `MinAbsScore < 1000`, `50 <= FullConviction` |
| `LearningLoopProofs` | `LedgerFirst`, `RightSignalsScored` | `LedgerBacksOutcomes`, `AttributedToContributors` | the second: `CausalDelivery` |
| | `TrustIsOfTheLedger` | `TrustMatchesLedger` | |
| | `TrackRecordCounts` | `TrustFollowsTrackRecord`, an action property | |
| `MarketFeedProofs` | `ClosedStaysFinal` | `ClosedIsFinal` | |
| | `WindowIsEndOfTopic` | `WindowEndsTopic` | |
| | `TopicRefined` | `TopicKeepsPromise`, the refinement of `CandleTopic` | |
| `MarketDataProofs` | `BooksSpaced` | `ThrottleSpacesAndPasses` | |
| | `HistoriesComplete` | `HistoryIsComplete` | |

The extra assumptions are conditions the code meets or states.
`AveragesAreExact`: no fill that adds to a position has an average entry price
that is rounded; the database's numeric columns round, so without it the equity
is only approximately what the fills made. The bounds of
`ConvictionNeedsAgreement` hold of the shipped settings (0.15 and 0.45).

`SumsProofs` holds the lemmas about sums that the other modules cite, and the
induction they rest on. The library's induction theorems take an operator as a
parameter, which the provers here do not instantiate; `Upwards` and `LeastSubset`
state the same for a set (a set of numbers with 0 that is closed under successor
is all of them; of the finite sets outside a family there is a least), so that
each use defines the set of the cases that hold. A recursive function is unfolded
once by its defining equation, proved to have a solution the same way (`Recursion`, `StepsExist`).

### Why each invariant is needed

- **Recorder.** `BufferBounded` is not inductive: a list at its bound would admit
  one more row. `Inv` adds that a list the recorder still appends to (`buffer`)
  is one short of the bound, whereas a list a flush holds (`rows`) may be at it:
  the append that reaches a full batch swaps the list away in the same step, as
  the code does not await in between. `RetryKeepsRows` speaks of rows that are
  held somewhere, not of whether they will be written. `Retaining` adds that a
  flush holds rows only of streams it has yet to reach, that a write under way
  sends the whole list, and that the list a failed write puts its rows back in
  belongs to the recorder, to a flush that is not over, or to nobody, in which
  case the stream is marked as displaced. It holds while the process serves; a
  stop gives the promise up, as the property does. `StreamIsolation` follows, as
  a stream is marked only by a failure of its own.
- **Position monitor.** `AtMostOneExit` says nothing of the symbol that may fire
  next. `Armed` adds that a record that is not waiting for an exit, in memory or
  in the table that a restart reads, has none in flight. The ratchet of
  the stop is proved for the effective stop of all kinds of record (`Follows`):
  the extreme only moves with the price, and the trailing stop is monotone in it.
  For the restart it needs `DurableStop`: the row has the stop of the record lost.
- **Portfolio manager.** `TablesFollow` speaks of the moments at which no statement
  waits. `Waiting` says what separates the tables from the tracker at every point
  of the list of statements, of a fill and of `on_start`, while none has failed or
  been refused (`Clean`); `Announced` what separates the closures recorded from
  those published. `Dated` is what `SavedBaselineStands` needs: the day of the row
  is never ahead of the account's, and on the same day the baselines agree, except
  before `restore`. `CashIdentity` is kept by the account and by the row in the
  table at once, so that a restart at any point finds a sound one. `PositionsNet`
  follows each branch of `apply_fill` by its sign: what is added to the sum of the
  fills is what is added to the position. `EquityIsWhatFillsMake` adds that cash
  made and net value differ from realized profit and open positions by nothing,
  symbol by symbol, of which the sum changes only in the symbol filled.
- **Risk manager.** The properties hold of every typed snapshot that may have
  been the latest (`RiskSpec`); they rest on the size being the least of its caps
  and on an integer quotient times its divisor not exceeding the dividend.
- **Paper broker.** Levels are sorted (`Booked`). What the walk takes of a level is
  all that the levels before left to take (`Left`, `Taken`), so that it is a prefix
  of the book (`Prefix`); any other choice of as many units is no cheaper, as each
  unit moved to an earlier level is. A larger order is the smaller one and more at
  levels that are no better, so that its average is no better, and slippage and
  rounding are monotone.
- **Replay.** An open trade has met no level since its entry, and its extreme is
  the best price of the bars it was open (`Alive`); a finished one is the story the
  property tells (`Told`). For the windows, the live builder holds the last
  `WindowBars` candles of each interval up to the clock (`Held`), which are those
  the two cursors of the replay cut out.
- **Analyst's conviction.** The composite of all timeframes lies where the
  timeframes' do, as an average by positive weights; confidence 1000 is a minimum
  that only a full agreement and a full conviction reach, and agreement is full
  only if no timeframe is in the other camp.
- **Analyst's trend.** Each average, ratio, root and clamp of a timeframe is typed
  and bounded, the recursive ones by a lemma that they have a value and one that
  any two agree. Then the weights decide: reversion has only the room the trend
  leaves (`Gated`), so that with full volume against it 60 of 100 of an
  established trend still outweigh the 30 left.
- **Analyst's levels.** A rank is taken once (`RankOrders`), so the levels reported
  are the nearest ones in order; the clusters are typed by induction over the
  pivots. A stop or target by the nearest level is used only where the 0.1 % leaves
  it on its side of the price; otherwise it is off the price by a positive buffer.
  A target before the nearest level is before all farther ones.
- **Samples.** Of the first `k` observations, those taken are a horizon apart and
  each of the others lies within a horizon of the last one taken before it
  (`Greedy`). Two of a non-overlapping choice never belong to the same one taken,
  so that no such choice is larger. Ranked symbols are a listing by rising return
  (`RankedIs`), which is transitive as a comparison of products, and two parts of a
  listing that do not overlap share nobody. Of carry, what the trades taken so far
  collected is the sum of all rates up to the earliest next one (`Collects`).
  `SamplesHold` assumes that a rebalance takes two symbols (the default is six): of
  one alone, the same symbol is bought and sold.
- **Corrections.** The tests of a rank up to that of test `i` are `UpTo(p, i)`
  (`RankOrders`), so that the discoveries are the tests up to the largest hit, as
  many as its rank. A set that its own size justifies lies within the tests up to
  its last one, which is then a hit itself.
- **Learning loop.** The outcomes waiting to be published have their rows too, if
  the recorder that made them was connected (`Backed`); under a correlation the
  indexes hold only signals of that correlation, whatever failed or restarted, and
  without faults the table has every signal that was taken (`Indexing`), so that an
  evicted index is answered by the table. Hence each outcome is of the correlation
  of its closure (`Due`), and a closure that was taken has its outcome where the
  correlation has one signal (`Answered`). For `TrustIsOfTheLedger` every outcome
  has its row and every row an outcome, with the row's verdict if the agent was
  scored once (`Rows`), and the window holds the scores of the outcomes heard, or
  is full (`Trusted`). `TrackRecordCounts` needs only that windows are
  bounded sequences of integers (`Adapting`): what enters replaces the oldest, and
  the mean, the quotient and the clamp are monotone.
- **Book feed.** The throttle measures from the last book published (`Measured`).
- **Candle feed.** Per interval, no candle is closed at or beyond the one that is
  held back (`Ordered`), and a candle that is held, closed or under way has its
  final content, or has missed an update, or the update is under way (`Content`).
  `TopicRefined` maps every step of exchange, connection, collector and agent to a
  step of `CandleTopic` or to a stutter. `WindowIsEndOfTopic` speaks of positions:
  the closed candles of an interval stand in the topic in the order of their open
  times (`Rising`), so that the check for a repeated or older candle never drops
  one, and the builder's window are the last of those read since its start
  (`Reading`).
- **Histories.** The cache file, the answer and the rows collected so far have no
  hole (`Gapless`), also when a crash leaves only the oldest rows of a file
  (`OldestIsGapless`). The walk over candles has collected all there is before its
  cursor (`Walked`), and is at the cursor for one of three reasons (`Following`):
  only empty windows so far, just past a candle, or nothing left to come. From
  that follows that it does not end early under `NoLongGap`. The walk over
  settlements is an hour past its newest one (`Ahead`), which is where the
  exception in `FundingComplete` comes from. The theorem is about `DataSpec`, the
  specification of the run, whose other services do not touch a history.

### Model-checked only, and why

- Liveness: `QuietStreamReachesDb`, `ExitIsAnswered`, `FeedsRecover`. Fairness and
  ENABLED are beyond the prover here.
- `SignalsAreConsistent`: it compares averages that are rounded to the fixed scale, and
  a tie is decided by the last digit; it holds of a scale that is fine enough for the
  inputs, as the run's is, not of every value of the constants.
- `GuardsWhatIsHeld` of `Trading`: an invariant has to relate four queues, the fills
  and orders under way and snapshots of any age, for symbols that are neither
  `late` nor `misled`.

## 4. Divergences met without a run

- `recorder.py:229` says the oldest rows are dropped from a full retry buffer;
  `del buffer[max_retry_buffer:]` drops the newest.
- `recorder.py:31` says an orderly stop loses nothing; a stop during the timer's
  write cancels it, and the rows it had swapped out are gone (`CancelTimer`).
- `README.md:174` speaks of manual offsets; the consumer auto-commits.
- `libs/config.py:271-275` describes the cooldown as between two decisions of a
  symbol; the engine only suppresses a repeat of the same direction.
- `libs/config.py:278-292`: `reconcile_adopts_unguarded` is read by nothing.
- `repositories.py:349-350` promises that the tracker is rebuilt exactly; the three
  statements after a fill are not one transaction, and marks and the rolled
  baseline are saved only with the next fill. A roll that a crash loses is made
  again by the next process, with the equity of that moment.
- The same lines, and an orderly stop: the task of the signal saves the account and
  closes the pool while a handler is between its statements
  (`base_agent.py:146-155`, `tracker.py:538-543`). The next statement is refused,
  and with a healthy database a closure is neither recorded nor published
  (`StatementRefused`). If `on_start` still waits for `load_state`, the account that
  is saved is the fresh one, over the row (`StopSaves` while `Loading`).
- `base_agent.py:166` leaves the loop with a message in its hands, which the
  consumer commits when it stops: a clean shutdown loses a fill (`LeaveLoop`, `Exit`).
- Without a database at start (`database.py:136-137`), agents go on: the outcome
  recorder publishes outcomes that have no row (`outcome_recorder.py:119`, 265-270), so
  that trust moves by more than the ledger holds; the position monitor starts with
  nothing tracked, whatever its table has (282-288), until a snapshot comes; the
  portfolio manager starts with a fresh account and saves nothing.
- `repositories.py:602-604` says that a redelivered closure cannot score a signal
  twice and skew the mean. The row is indeed written once, but the outcome is
  published again, and trust follows the outcomes. No redelivery is needed: an exit
  carries the correlation of its position (`position_monitor.py:475`), so that one
  that comes late opens a position under the old correlation (`tracker.py:178`),
  whose closure scores the signals of the first anew (`Close` may repeat).
- A rejected exit order, or a crash between the persisted `exit_pending` and its
  publication, leaves a position that fires no exit any more.
- Trust is not restored when the engine restarts, although the ledger holds it;
  an agent whose weight sank below the risk manager's floor produces no trades,
  hence no outcomes, and stays there.
- `hyperliquid_history.py:152` marks the last candle of a range closed although
  its interval may still be running.
- `research/data.py:59` accepts a cache by its first row only, so an old file, or
  one cut short by a crash, answers with an earlier end than was asked for.
- `hyperliquid_funding.py:213` begins the next page a whole hour after the newest
  settlement: one stamped earlier in its hour is stepped over (`FundingComplete`
  names the exception), and `CarryStudy` counts points as hours.
- `context.py:91` takes the newest close of the first interval that has one;
  the docstring says the most recent close.
- `replay.py:302` fills a stop at its level even when the bar gapped past it, and
  its hit rate counts the forced closes that lines 30-31 report separately.
- `market_analyst/agent.py:455` falls back to a stop of 1.5 %; the docstring
  (440-441) speaks of the configured default. Where the true range is two thirds
  of the price, a long's stop by the ATR is not positive. A level within 0.1 % of the
  price is passed over for the ATR (461-472), and farther levels with it: the target
  may lie beyond the next one, although the docstring prefers the nearest level.
- `agent.py:295`: volume is to confirm a view only, but a trend of exactly zero
  counts as bullish, and the slope of the on-balance volume creates a view.
- `agent.py:401-404`: agreement counts the larger camp of timeframes, also when the
  weights decide for the smaller one.
- `research/signals.py:354`: two unconfirmed extremes in one window are always
  called short. `long_horizon.py:311-314`: a pinned funding rate is called short
  at full conviction.
- `scripts/research/long_horizon.py:579` prints "profitable after costs" of cells
  chosen by their mean gross excess (572). `long_horizon.py:750`: the null
  probability of shorts counts zero returns as wins.
- `position_monitor.py:20-24` says that snapshots are not trusted for what is
  tracked but only reconcile it. Yet one from before a closing fill re-adopts the
  position, or one from after a fill not yet taken adopts it with that fill, which
  then counts twice; and 422 and 428 look for the symbol only. So the monitor may
  guard a size or a side that is not held, or a position that is gone, with no
  later snapshot to correct it: after two decisions of one direction as much as
  after opposite ones, whose flip leaves its rest to a snapshot as well. The risk
  manager refuses duplicate exposure by its last snapshot only, so two decisions in
  quick succession suffice. `GuardsWhatIsHeld` sets such symbols aside (`misled`),
  and `ReduceOnlyReduces` is refuted by one.
- `scripts/migrate.py` applies a migration and records it in two statements.

## 5. Not modelled, and why

- Statistics over reals and random numbers: t-tests, bootstraps, the power
  analysis (`power.py`), the calibration buckets (`calibration.py`), the returns
  and costs of studies and replays, `volatility_regime` (logarithms). TLC has no
  reals, and none of them keeps state or decides about another part.
- The last digits of floats. Indicators, scores and trust weights are integers at
  a fixed scale; where a comparison of ratios decides, it is multiplied out and
  exact, where a value is divided, the rest is dropped symmetrically.
- Parsing beyond whether a payload can be used, SQL text, logging, settings files,
  topic provisioning, the connectivity check, migrations: I/O. The heartbeat of
  the websocket sends and keeps nothing.
- The scripts' loading and printing; of their logic, the verdicts are modelled.
- The verdicts of the risk manager and the registry's own snapshots, which no
  agent consumes; the strength of price levels, evidence and rationale of a
  signal; the figures inside a closure.
- Several symbols in one process: they share no state but the dictionary (the
  portfolio, which sums over them, has the symbols as a constant).
- Overflow, which Python's integers and Decimals do not have.

## 6. Plan

1. Done: all modules above, and a theorem for each safety property whose
   definitions the provers can unfold (section 3), one refinement among them.
2. Abstract specifications still to state and to prove implemented: a guard that
   exits at most once and only tightens, refined by `PositionMonitor`; a recorder
   that stores each accepted row, short of displaced or dropped ones; an account
   rebuilt from its tables, refined by `PortfolioManager` across restarts.
3. Theorems about `Trading`: a fill never precedes its order, and what the monitor
   holds was filled.
4. Several symbols in `Trading`, for the limits that a stale snapshot lets pass;
   `stop` and a start without a database in `PositionMonitor`.
