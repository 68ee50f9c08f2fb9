# TradeDash, specified

TLA+ modules for the Dashboard-API back end (`src/`): a FastAPI process that takes
Chartink webhooks, opens paper trades, watches them once a minute and closes them,
scans and screens stocks, and shows the results. The modules are model-checked with TLC
on small instances and most of their safety properties are proved with TLAPS for all
values of the constants.

## 1. The system

One process, one event loop, no threads but the executor that fetches prices. Every
HTTP request and every scheduled job is a coroutine with a database session of its
own; any two can overtake one another at an `await`. State that outlives a coroutine
is in PostgreSQL, in Redis (Upstash over REST, or a stub that stores nothing) and in
a few module globals.

| Component | State | Operations | Talks to |
|---|---|---|---|
| Webhook intake (`routers/webhook.py`, `services/signal_service.py`) | locals of the request, `traded_today:<date>` in Redis | for each symbol: duplicate check, price, guards, `generate_signal_id`, mark, commit, `open_trade` | price source, Redis, database, Telegram |
| Trade entry and exit (`services/trade_service.py`, `routers/trades.py`) | rows of `trades`, the status of the linked `signals` row, `open_trade:<id>` hashes | `generate_trade_id`, `open_trade`, `close_trade`, `exit_trade`, `update_trade`, `cancel_trade` | database, Redis, Telegram |
| Scheduler (`core/scheduler.py`) | jobs in memory | `monitor_open_trades` (second 0 of every minute), `force_exit_all` (15:12), `weekly_cleanup` (Sunday 23:00), `eod_summary`, `ema_scan_job` | `close_trade`, WebSocket hub |
| Exit rules and charges (`scheduler.py`, `signal_service.py`, `utils/charges.py`) | none | levels, quantity, guards, verdicts, P&L | - |
| Trailing stop (`services/dynamic_tsl_monitor.py`, `strategy_engine.py`) | `trades.trailing_sl`, never written | one tick; nothing schedules it | `close_trade` |
| Redis client (`core/redis_client.py`) | a lazily created global client | REST calls, or a stub | Upstash |
| Database (`database.py`, `models/`, `alembic/`) | tables, a pool of 3+2 connections | sessions, commits, migrations | PostgreSQL |
| EMA scanner (`services/ema_scanner.py`) | semaphore, shared executor, cached results | scan, advance/decline trend | price source, Redis |
| Screener and backtest (`services/screener_service.py`, `routers/screener.py`) | none | supertrend and other indicators, conditions over them, on today's bar and on a history | price source |
| WebSocket hub (`routers/websocket.py`) | the set of connections | connect, disconnect, broadcast | clients |
| Startup and strategies (`main.py`, `routers/strategies.py`, `routers/webhook.py`) | schema, strategies, their webhook tokens | migrate, seed, administer, find the strategy of a webhook | database |
| Users and login (`routers/users.py`, `auth.py`, `core/deps.py`, `core/security.py`) | `users` rows, tokens of clients | login, create, change, delete | database |
| Risk engine (`services/risk_engine.py`) | none | `is_market_open_ist`; limits nobody asks for | - |
| Analytics and reports (`services/analytics_service.py`, `routers/reports.py`) | none | metrics, equity curve, monthly P&L | database |
| Broker adapter, audit, Telegram | none | output | - |

What is hard here: every pass of a job closes trades from rows it read *before* it
awaited their prices; two coroutines compute "the next number" from a count; the
duplicate mark and the signal are written to two stores; a Redis call that fails ends
the caller's loop half-way; the process may die between any two awaits; the same fact
(an hour, a date, a level, a profit, an indicator) is computed in two places by two
formulas.

What makes each component correct:

* **Intake** - a symbol is entered once a day; a signal gets its trade; a webhook is
  answered; a symbol that is skipped stays free for a later webhook; what fails half-way
  leaves no contradiction behind.
* **Ledger** - a trade is opened once, never reopened, deleted only with all the
  others; a signal shows the outcome of its trade.
* **Exits** - nobody closes the same trade twice, an outcome is final, a sweep leaves
  nothing open of what it read, the weekly wipe takes nothing its net had read open.
* **Exit rules** - a verdict means money, the budget is kept, what is shown is what
  is acted on and what is booked.
* **Clocks** - the jobs, the guards and the keys of a trading day agree on the day.
* **Scanner** - no slot is lost, the executor's queue stays short, cached keys expire,
  the gate moves with the market.
* **Screener** - a trend turns at the line it showed; of two sides whose bar before is at
  hand a crossing is reported where it happened.
* **Dashboard** - a strategy's drawdown is its deepest fall; curve and bars, which are over
  all strategies, tell one story.
* **Hub** - who stays connected misses nothing. **Strategies** - a webhook's URL leads
  to its strategy and to no other. **Users** - whoever acts has the right to, and a right
  that was taken away stays away.

## 2. Modules

| Module | What it is |
|---|---|
| `TradeBook` | The abstract promise: a position is unborn, open, closed or gone. `Open`, `Close` and `Wipe` are all that can happen to it. |
| `TradeStore` | The tables and the transactions the code commits, with uniqueness and the foreign key. `Book` instantiates `TradeBook` under `Position`. |
| `Calls` | The outcomes of one call to a backend. |
| `Backends` | Those of PostgreSQL and Redis as the trading code meets them, and the two Redis key spaces. |
| `SignalIntake` | `receive_webhook`, `POST /trades`, `DELETE /signals/cleanup`. |
| `PositionExits` | The three jobs on positions and `PUT /trades/{id}/exit`, through `close_trade`. |
| `TradeDash` | Intake and exits over one store and one Redis, and restarts. |
| `ExitRules` | The money of one trade: sizing, levels, both monitors, edits, P&L with charges. |
| `MarketClock` | The minutes of weeks as the scheduler, the risk engine, the cron jobs and the dated keys see them. |
| `ScanPool` | `run_ema_scanner` and `get_price` on the default executor, and the scanner's two Redis keys. |
| `MarketTrend` | The advance/decline count and the side of the signals it silences. |
| `Supertrend` | The bands and the direction of `_supertrend`, bar by bar. |
| `Screener` | `_evaluate_condition` on the snapshot of the live screener or of the backtest, each of its own download. |
| `Tally` | The metrics of one strategy, and the equity curve and monthly P&L of all, over closed trades. |
| `Accounts` | Login, the dependencies that admit a call, and the administration of users. |
| `Strategies` | The start of the process over its predecessor, the administration of strategies, and the two lookups of a webhook. |
| `Hub` | The WebSocket hub. |
| `MCTradeDash`, `MCWeek` | Values for TLC; the second puts a weekday and a Sunday into one instance. |
| `MCSums`, `MCService` | Several small machines side by side, for one run each. |
| `TradeStoreProofs`, `TradeDashProofs`, `EntryProofs`, `ExitRulesProofs`, `MarketProofs`, `TallyProofs`, `ScanPoolProofs`, `ServiceProofs` | The theorems. |

A definition named `X_Y` is `X` with a plausible bug `Y`. No specification uses it;
put in the place of `X` it makes the property it is listed with (`PROJECT.json`,
`mutants`) fail, so each property is known to notice something.

### State and actions against the code

Trading:

* `trades`, `signals`: one record per primary key, "unborn" before its row exists and
  "deleted" after. Only columns that steer the program are kept: status, daily number,
  link, symbol. All rows are of one day. No code path sets a trade's status to
  `pending`, so `cancel_trade` never finds anything to cancel and is no action.
* `tradedToday`, `openCache`: the members of `traded_today:<date>`, and the numbers of
  the `open_trade:` hashes.
* `req[r]`: where a request stands and its locals (`todo` = symbols left, `sid`, `sig`,
  `tid`, `trade`, `priced`, `tries` = numbers it has found taken; `broken` = its session
  failed a flush and refuses the next query). One action of `SignalIntake` is the code
  between two awaits that others can tell apart: `CheckDuplicate`, `FetchPrice`,
  `CountSignals` and `PickSignalId` (the two queries of `generate_signal_id`, again while
  the number is taken), `MarkTraded`, `CommitSignal`, `RefreshSignal`, then `PickTradeId`, `CommitTrade`, `CacheTrade` of
  `open_trade`. An error in `open_trade` is noted and the loop goes on (`OpenRaises`);
  any other ends the request.
* `exit[c]`: a job or an exit request; `read` is the list of rows it read, `todo` what
  is left of it. `CommitExit` is `close_trade` up to its commit. It looks at no status,
  as the code does not; only a row that is gone stops it. `Leaves` is both the normal
  end and the end by an exception, since the `try` is around the whole loop.
* `closedBy` is a history variable for `OverwrittenByAnother`; no action reads it.
* `Crash` stops every coroutine. A run-once job may have been missed while the process
  was down, because APScheduler keeps its jobs in memory here.
* A call's outcome is `Ok`, `Refused` (not applied, raises), `Unacked` (applied,
  raises) or `Ignored` (the stub).
* `ExitRules` counts whole paise. `round(x, 2)` of a binary float may go either way at
  half a paisa; `Rounded` gives both. `calc_charges` is kept in fixed point, with its
  last units of uncertainty given to the rounding. The trailing tick is in the model
  although nothing schedules it; its stop starts anew from the initial one on every tick,
  because nobody stores `trailing_sl`. No property is about that level: it would be
  about code that never runs.
* `MarketClock`: `now` is a minute since 0:00 UTC of a Monday. `Today` is `date.today()`
  of a process in UTC, which names keys and numbers; `IstDate` is the scheduler's.

Market data:

* `ScanPool`: `scan[s]` and `price[p]` are where a scan and a lookup stand, `fetch` the
  coroutines of `_scan_one_async`, `free` the value of `_SEM`. A job in `queue` or
  `running` is awaited by somebody; `GiveUp` (`wait_for`) discards a queued job and turns
  a running one into a `stray` thread (`Cancelled`, `Abandoned`). The 15 seconds are not
  counted: a fetch may time out at any moment or never. `key` says whether a Redis key is
  absent, without a time to live (`bare`) or `dated`; the values stored, and what a fetch
  answers, are left out.
* `MarketTrend`: one stock of the sample is counted per step; the ratio is compared in
  whole numbers.
* `Supertrend`: one bar per step, bands doubled, so that the middle `(high + low) / 2` is
  whole. The carried bands and the direction are the state, as in the loop that overwrites
  its own series. `reach` stands for twice the multiplier times ATR; of the average only
  its least value for a bar of that height is used (`LongEnough`: the newest true range
  has the weight 2/11).
* `Screener`: a behavior is of one `reader`, live screener or backtest, and of the bars of
  its own download; `bar` and `before` hold the values of the two sides of one condition at
  the last bar and the one before, `NaN` where there are too few. The two readers download
  three months and a year, and most indicators depend on the first bar, so nothing compares
  them with one another. `Keys` and `Previous` are what the reader's snapshot holds; where it
  has no previous value the last one stands in, as the code's `dict.get` does. Values are
  counted in thirds of the second digit; `Show` is a value as the reader hands it on: rounded
  by the live screener (`Round`), with 0.0 for a missing one by the backtest. `cased` says
  that `compare_to` was typed in capitals.
* `Tally`: one closed trade per step goes into the equity curve and the months, and, if it
  is of the strategy asked for (`own`), into the metrics. `curve` and `mine` are history
  variables.

The service around them:

* `Accounts`: `users` is the table, `tokens` what was issued, `calls[c]` a call of an
  admin between its awaits: `Authorize` (`get_current_user`, `require_role`),
  `FindTarget`, and the commit of the one of three operations. `own` and `loaded` are the
  rows as the session read them; SQLAlchemy's UPDATE sets only what differs from them.
* `Strategies`: `boot` is where the start of the process is, `posts[p]` a webhook between
  the lookup by token and the one by name. `issued`, `moved` are history. A migration or
  a seeding that fails is logged and the start goes on.
* `Hub`: `active` is the set of connections, `sending` and `dead` the locals of the one
  broadcast under way, `since` and `heard` history.

The machines of `MCSums`, and those of `MCService`, share no state: a behavior picks one
`part` and leaves the others at rest, so that one run checks them all and their state
spaces add up instead of multiplying. In `MCService` they also share their sets of keys,
of which only equality is asked; so one symmetry holds for all parts.

## 3. Runs

| Run | Instance | Shows |
|---|---|---|
| `week` | a weekday: 1 webhook, 1 manual trade, monitor and force exit; or a Sunday: the same with 1 manual exit, the weekly cleanup and 1 restart. 2 trade keys, 1 signal key; every Redis and database call may fail; test signals cleared at any time; all price outcomes | types; `SignalFollowsTrade`; `OverwrittenByAnother`; `SweepLeavesNothingOpen`; the book (with `Wipe`); `WipeSparesRead` |
| `overlap` | 3 webhooks of one or two symbols, two of which may be under way at once, 1 restart; Redis up, any database call may fail; test signals cleared at any time | `SignalsBoundedByOverlap`; `LostOnlyUnsaved` |
| `live` | 2 webhooks of one or two symbols, one after the other, both jobs; backends up, no failures, fairness | `SignalGetsTrade`; `OpenTradeCached`; `ForcedOut`; `WebhookEnds` |
| `sums` | 1 trade, 13 prices where rounding and guards turn (50 paise to Rs. 10100), real capital, both monitors; two weeks of minutes; supertrend over 5 levels and 6 band widths; the two crossings over 5 indicators and a number, both readers, missing values; 4 closed trades of one strategy or others over 3 dates of 2 months; a sample of 12 stocks | `VerdictHasItsSign`, `BudgetRespected`, `RiskBounded`, `ShownLevelsHold`, `BookedAsShown`; `ClocksDifferAtTheClose`, `OneTradingDate`, `CleanupReachesTheWeek`; `PriceBesideItsLine`, `LineRatchets`, `TurnsAtItsLine`; `CrossingsAreReal`; `DrawdownIsDeepestFall`, `BarsFollowThePoints`, `MonthsAreSlices`; `TrendFollowsTheCount` |
| `scan` | a scheduled and a manual scan of 2 symbols, repeated without end, 1 slot, 1 thread; 1 batched and 1 single lookup; timeouts at any time, fairness | `NobodyWaitsForNothing`; `SlotsAddUp`; `QueueBounded`; `BareIsBeingDated`; `ScanEnds`; `PriceArrives` |
| `service` | 2 admins, a third account, 2 calls at once; 2 default strategies, a third name, 4 keys, 2 tokens, 1 webhook, restarts at any time; 3 connections, 3 broadcasts | `RevokedIsRefused`, `RevocationSticks`, `LastAdminFallsToAStaleCall`; `TokenKeepsItsRow`, `CreditedAsPosted`; `NothingMissed` |
| `crossover` | conditions over RSI and one EMA | **violated**: `CrossingsAreSeen` |
| `stuck_trend` | 1 scan again and again, a Redis of which any call may fail | **violated**: `TrendLapses` |
| `double_entry` | 2 webhooks of the same symbol at once | **violated**: `OneSignalPerSymbol` |
| `orphan_signal` | 2 webhooks of two symbols at once, no Redis | **violated**: `SignalGetsTrade` |
| `force_recloses` | monitor and force exit on the same second | **violated**: `ClosedIsFinal` |
| `force_aborts` | force exit with a Redis that refuses one call | **violated**: `ForcedOut` |

### Bounds, and why they are enough

* Trading: two trades are the least that lets one closer be in the middle of its loop,
  and two signals the least that lets numbers collide. `MaxInFlight` bounds overlapping
  webhooks, `MaxCrashes` restarts. In `overlap` two webhooks that overlap and a third that
  comes later are the least that could make the signals of a symbol more than
  `MaxInFlight`, and a list of two symbols lets a session that failed meet the second.
  `SidTries`, 20 in the code, is 2: a number that is taken is met, counted again, and
  given up for the timestamp. The proofs of section 4 need none of these bounds.
* Money: prices lie around every place where a rounding or a guard turns; `MaxMove`
  keeps amounts within TLC's integers.
* `LastMinute` is two weeks: every pair of a weekday and a time of day in both zones, and
  a Sunday cleanup with a whole week before it.
* `Level`, `Reach`: enough for the bands to cross, coincide and be carried over a turn.
  `Value` has values that the rounding of the live snapshot merges and some it does not;
  `Indicator` has one of each kind: recalled by both readers, by one, by none, and known to
  one only.
* `MaxTrades = 4` lets the curve rise, fall, recover and fall deeper, over two days of a
  month and one of the next. `Sample = 12` reaches both sides of the ratios 1.2 and 0.8.
* Scanner: with one slot, one thread and two symbols every scan has a fetch that waits, and
  a given-up fetch blocks the only thread.
* Service: `Id` has one key more than the admins at the start, so that an account can be
  created beside them; a token of `Strategies` is never issued twice, so two are enough
  for one migration and a second that would issue again. `MaxMessages` lets a client come
  during one broadcast, hear the next and go during a third.
* Symmetry on the keys is used in runs without liveness only.

### Deadlock

Deadlock checking is off where the system may stop: requests and run-once jobs come to
an end, a closed trade stays closed, the clock and the histories reach their bounds, and
the hub is over when each connection has been used.

### Fairness

Weak fairness for each step of a request under way (an event loop resumes a ready
coroutine), for the start of each job (the scheduler fires it) and for the loops of
the run-once jobs. None for clients, for the monitor's verdicts (no price has to reach
a level), for restarts. `ForcedOut` and `WebhookEnds` are checked without failures:
with them the code does not have the property, as `force_aborts` shows.

In `ScanPool` threads take queued jobs in order and their downloads end (yfinance sets a
timeout of its own), and Redis lets dated keys lapse. `EnterSlot` has strong fairness:
`asyncio.Semaphore` serves its waiters in order, which the model does not spell out.
Nobody has to start a scan or a lookup and nothing has to time out.

The hub and the administration have no fairness and no liveness: a send has no timeout,
and nobody has to call.

## 4. Proofs

Assumptions are those stated with the constants: finite pools of keys; `None` is no
key and no symbol; a fallback number is not a daily number; payloads are lists of
symbols; webhooks, manual trades, jobs and exit requests have different names; prices
and quantities are positive; the bots are default strategies.

* **Store** (`TradeStoreProofs`). The inductive invariant is
  `StoreInv == StoreTypeOK /\ LinksSound /\ SignalFollowsTrade`. The foreign key
  (`LinksSound`) is what makes the agreement inductive: a key that gets its row now must
  have no trades yet. `StoreAgreement` and `StoreKeepsTheBook` follow for *any*
  sequence of transactions, under the refinement mapping `Position`.
* **Program** (`TradeDashProofs`). `DashImplementsStore`: every step of every request,
  job and restart is a transaction of the store or leaves the rows alone. It needs
  `TypeInv`: the types, and that a webhook in mid-turn has a symbol at hand.
  `DashAgreement` and `DashKeepsTheBook` then follow from the store's theorems;
  `TypeCorrect` comes from the same invariant.
* **Closers** (`TradeDashProofs`). `CloserInv` says who has closed what (`NeverClosed`),
  what a closer has read was born (`ReadsAreRows`), that nobody has a trade on his list
  that he closed before (`NoRepeatExit`), with `SweepLeavesNothingOpen` itself. It holds
  because a row that has been read can never become open again (`RowsAge`), and everything
  a closer does besides committing an exit or starting a pass only narrows its pass
  (`NarrowingKeeps`). `NobodyRepeats`, `SweepsHold` and `WipeIsSafe` follow; the last
  because only `WipeTrades` deletes rows (`OnlyWipeDeletes`) and only after a loop without
  anything left to do. `WhoOverwrites` adds that a closed row has somebody who closed it
  (`ClosedBySomebody`) and what a step can do to one row that lives (`RowStep`,
  `RowsLive`). From it `OneCloserKeepsOutcomes`: what `force_recloses` shows takes two
  closers; with one, outcomes are final.
* **Entries** (`EntryProofs`). Each holds under the conditions its theorem assumes.
  `OverlapBoundsEntries` (Redis up, no weekly cleanup): a live signal's symbol is marked,
  and the live signals of a symbol and the webhooks that have passed its check and not
  made theirs are together at most `MaxInFlight` (`OverlapInv`). A webhook passes the check only while no mark is
  there, so that all of the others are still under way (`OverlapBounded`); only
  `CommitSignal` makes a signal (`OnlyCommitSignals`), one for one decision
  (`CommitCounts`), and no mark is taken back (`MarksStay`). `OneSignalWithoutOverlap` is
  its case `MaxInFlight = 1`, and `double_entry` shows that it needs that.
  `EverySignalGetsTrade` (database answering, `MaxInFlight = 1`, no POST /trades, no price
  of zero, no weekly cleanup; `orphan_signal` drops the second of these): live trades are
  numbered up to their count, so that the number a webhook has picked is free when it
  commits (`HookInv`, `TradesCounted`), and whatever drops a signal finds it no longer
  pending (`MoverKeeps`). `OpenTradesAreCached` (Redis and database answering, anything
  overlapping): live numbers differ (`NumbersDiffer`), so that the hash of a closed trade
  is never an open one's (`HashesStay`). `SymbolsAreLostUnsaved` needs no condition: only
  the mark of a webhook adds to the symbols of the day (`OnlyMarksAdd`), and a webhook that
  has marked stores its signal, or ends (`SavingEnds`).
* **Progress** (`EntryProofs`). Liveness needs fairness, which the prover does not reach;
  that no step is wasted does not. `RequestsAreWorkedOff`: each step of a request
  brings it `Nearer`: fewer symbols are left to it, or of as many less of the turn
  (`TurnLeft`: two steps for each number it may yet try, one for everything else,
  `TurnsShorten`); nobody else's step takes it back. `PassesAreWorkedOff`: the same of `StepsToGo` for a pass that a job or an
  exit request has begun. With the weak fairness of the steps these are what `WebhookEnds`
  and `ForcedOut` rest on; that a step can be taken, TLC shows.
* **Rules** (`ExitRulesProofs`). `HeldWithinOnePercent`, from the distance of a rounded
  level to the exact one (`LevelsNear`). `StoredLevelsAreActedOn` needs `LevelsStored`,
  what the webhook wrote by direction, and that two roundings of one level are a paisa
  apart at most. `WebhookSpendsItsCapital` is arithmetic (`SharesSpendHalf`) and that no
  step after the entry touches price or quantity; `ProfitIsBookedAsShown` compares the
  formulas of `close_trade` and of the live display. `VerdictsPay` bounds the charges of a
  trade that moved by 1% (`ChargesSmall`: a sixth of the gain, plus rounding) and needs
  that a level, rounded, is a paisa from the entry price at least. `RulesKeepTheBook`: the
  one trade of `ExitRules`, under `StageOf`, implements `TradeBook` as the whole program
  does (`StageSteps`).
* **Clocks** (`MarketProofs`). Every property is arithmetic on one minute, proved for all
  minutes: `ClocksAgree`, `OneDatePerTradingDay`, `NoKeySurvivesTheWeek`.
* **Indicators** (`MarketProofs`). A bar's own bands contain its close
  (`BandsContainBar`), so that a close is never beyond both carried bands
  (`CloseBeyondOneBand`). With it `TrendInv`, the types and `PriceBesideItsLine`, is
  inductive, and `LineBesidePrice`, `LineNeverRetreats`, `TrendEndsAtItsLine` follow.
  `GateFollowsTheCount` is the monotony of the ratio. `ReportedCrossingsAreReal` comes
  from what each snapshot holds and from the rounding being monotone; it says nothing of a
  condition with a side that has moved and whose bar before the snapshot does not hold,
  because there the code does report crossings that did not happen (section 5).
  `SilentWithoutThePrevious` is why `crossover` is violated: where the live snapshot has the
  bar before of neither side it compares a bar with itself, and no crossing is shown,
  whatever the values.
* **Dashboard** (`TallyProofs`). `TallyInv` adds to the properties that the running figures
  are those of the histories, the strategy's for the metrics and that of all for the curve
  (`SoFar`), that the peak is the strategy's highest level (`RisingPeak`), and that the
  latest point is the sum so far and the only one of its date (`LastPoint`). A trade then
  moves only the bar of its month and the last point, by the same amount (`BarsKept`).
  `DrawdownIsRight`, `ChartsAgree`, `BarsAreSlices` hold for histories of any length. The
  metrics are one strategy's and the charts are over all, so nothing relates their sums.
* **Scanner** (`ScanPoolProofs`). `ScanInv` adds to `SlotsAddUp` that a job sits in one
  place of the queue or in one thread and is awaited by the coroutine it belongs to
  (`PoolInv`), and that a scan has fetches only while it gathers (`CoroutineInv`). The
  executor's five moves are lemmas (`PoolAccepts`, `PoolTakes`, `PoolReleases`,
  `PoolCancels`, `PoolRests`); every action is one of them plus the move of one coroutine.
  `PoolIsTyped` and `NoSlotIsLost` are parts of it, `QueueStaysShort` is the injection of
  the queue into the awaited jobs, of which there are few (`FewAwaited`).
  `NobodyIsForgotten` is the converse of `PoolInv`: `WaitInv` says that every job a
  coroutine waits for is in the queue or in a thread, and that a scan which gathers has a
  fetch for every symbol; slots and threads that nobody holds are free by `ScanInv`. `QueueIsFair`
  (`NobodyOvertakes`): a queued job only moves up, is taken or is given up. They are the
  safety halves of `ScanEnds` and `PriceArrives`.
  `BareKeysAreDated` assumes a Redis that is up.
* **Service** (`ServiceProofs`). The hub's `HubInv` says what is due to whom: every open
  connection is active, and one that waits for its send lacks exactly the message under way
  (`HubDelivers`). `AdmittedInv` says what was true of a call when it was admitted; that a
  table change is the completion of one admitted call (`ChangeCompletes`, `Completer`) gives
  `OnlyAdminsChangeUsers`, `NoAdminDeletesTheLast` and `RevokedRightsStayRevoked`.
  `OneCallKeepsAnAdmin`: without overlapping calls (`FreshWhileAlone`: what a call was
  admitted by is still so) no deletion removes the last admin.
  `StrategiesInv` says that names are unique, that no token was given before there was a
  column for it, and that a webhook's name is that of the row it found unless that was
  moved; `UrlsLeadHome` and `NamesCreditTheToken` follow.

Only model-checked:

* liveness (`ForcedOut`, `WebhookEnds`, `ScanEnds`, `PriceArrives`), which with `ENABLED`
  is outside the prover's reach; the theorems named above prove that steps towards it are
  never undone, not that they are taken.

`PoolIsTyped`, `QueueIsFair`, `RequestsAreWorkedOff`, `PassesAreWorkedOff` and
`NobodyRepeats` are proved and have no run of their own. `OverwrittenByAnother`, which the
run `week` checks, fails where a closer would repeat itself.

## 5. Findings

1. `double_entry` - the duplicate check (`signal_service.py:101`) and the mark (`:161`)
   have awaits between them; overlapping webhooks enter a symbol twice.
2. `orphan_signal` - `generate_trade_id` (`trade_service.py:16`) counts rows; two
   requests get one number, the later insert fails, its signal stays pending.
3. `force_recloses` - at 15:12:00 monitor and force exit run together; the second
   `close_trade` overwrites the outcome of the first.
4. `force_aborts` - one failing `redis.delete` ends `force_exit_all`.
5. `stuck_trend` - the trend is stored (`ema_scanner.py:250`) and dated (`:251`) by two
   calls; when the second fails the trend stays for good and gates every later scan.
6. `crossover` - the live snapshot has previous values of six indicators only; a crossing
   of any other (`rsi14 crosses_above 30`) is compared with itself
   (`screener_service.py:272`) and never shown, while the backtest has a value for it.

Also met while reading: the scheduled monitor computes its levels from the entry price
and ignores what `PUT /trades/{id}/update` stores (`RiskBounded` holds *because* of
that, `ShownLevelsHold` only until an edit); the trailing tick treats a SELL like a BUY
and forgets its ratchet; with the default capital of Rs. 10000 the min-profit guard skips
nothing, since more than half of the capital is always spent; a market in which no stock
declines, or of which no data arrives per stock, is BULLISH (`ema_scanner.py:220`);
a crossing of which the snapshot recalls one side only (`close crosses_above bb_upper`)
compares the bar before with today's other side and can be shown without having happened
(`screener_service.py:273`); the backtest puts 0.0 for a missing value (`:385`), which a
price is always above; a stock with ten to nineteen bars passes the check of the length
(`:188`), but `int()` of its missing average volume raises (`:224`) and fails the whole
screen; `compare_to` in capitals is folded for the last bar and not for the bar before
(`:273`); the tokens are given to the strategies that exist when the
column is added, so that on a fresh database, seeded afterwards, no strategy gets one
(`main.py:76`); two admins who delete one another at once leave none, and an admin may
demote or deactivate himself; with more than 16 cores the executor has more threads than
the scanner has slots, and fetches that timed out run on beside 20 new ones.

## 6. Not modelled

* **Broker adapter, Telegram, audit log**: pure output, or a table that is only appended
  to and read; nothing decides by them. `evaluate_pre_trade_risk` is called by nobody.
* **The connection pool** (3+2, ten seconds): the code never waits for one session while
  it holds another, so the pool delays requests and cannot lock them. A request that gets
  none fails as any database call may.
* **`get_redis`**: its lazy creation, and the stub it falls back to, are outcomes of every
  call (`RedisMode`), not actions.
* **Contents of a scan**: the EMA crossover of one symbol is a library computation on
  float series, and so are the screener's indicators other than the supertrend, its
  candlestick patterns and its data download. What `ema_scan:latest` holds is only shown.
* **Ratios of the reports** (win rate, profit factor), filters and layouts.
* **HTTP parsing, JSON, password hashes, signatures and expiry of tokens**: taken as done;
  `Accounts` starts from a token that is accepted.
* **Alembic's chain**: the `Procfile` runs `alembic upgrade head` before the program, which
  then migrates once more by itself (`Strategies`). On the way to a database with the token
  column the chain's 0004 does what `Migrate` does; without `IF NOT EXISTS` it fails, and
  the program is not started, if the program has added the column before the chain got
  there. The program's 0005, which the chain lacks, adds a column that no model has.
* **A blocked event loop**: the screener's endpoints download synchronously, which may make
  the scheduler miss a firing. The models have no time, so `ForcedOut` assumes that the
  job fires.
