# Make Money Easy: TLA+ models, checks and proofs

Make Money Easy is a paper-trading workspace for Taiwan stocks: a FastAPI
backend (`src/app`) on SQLite or PostgreSQL, a scheduler inside the same
process, and a React frontend (`src/frontend`). This directory holds the TLA+
models of its core, the TLC configurations that check them, and the proofs
TLAPS checks. `PROJECT.json` maps every definition to the lines it models.

Run one check with `tlc -config MCTradingLock.cfg MCTrading`, one proof module
with `tlapm TradingProofs.tla`.

## 1. Inventory

| Component | Code | State it keeps | Operations |
|---|---|---|---|
| Trading core | `services/strategy_service.py`, `order_service.py`, `automation_service.py`, `portfolio_service.py`, `jobs/run_automation.py`, `db/session.py` | account, positions, orders, trades, strategy runs; per session: loaded objects, pending writes, locks | daily automation, run a strategy, place a market order, bootstrap a portfolio |
| Fees and sizing | `utils/fees.py`, `services/position_sizing_service.py` | none | fee, tax, quantity of a buy |
| History synchronisation | `services/market_data_service.py`, `trading_calendar_service.py`, `jobs/sync_workspace_data.py`, `db/repositories/stock_repository.py` | `daily_prices`, the holiday cache, the batch in progress | 14:10 job, manual batches, coverage, upsert |
| Backtests | `services/backtest_service.py` | cash, positions, queued orders, equity curve of one simulation | portfolio and single-code engines, two execution timings |
| Quote client | `services/twstock_client.py` | request times, quote cache, last priced quote | quote with retries and fallbacks, history months, limiter |
| Sync progress | `services/sync_progress_service.py`, `api/routes/jobs.py`, `SetupPage.tsx`, `storage.ts` | in-memory progress by run id; the page's run id and what it shows | start, advance, finish, fail, poll, forget |
| Workspace | `services/user_service.py`, `watchlist_service.py`, `automation_service.py` (config), `portfolio_service.py` (user), `db/repositories/user_repository.py`, `stock_repository.py` | user, account, config, watchlist and stock rows; per session: what it looked at, pending rows, locks | create a user, bootstrap for a user, read or save the config, add or remove an item |
| Strategies | `strategies/*.py`, `strategy_service.py` (entry date) | none; they read bars, the position and the latest BUY trade | signal from a price series and a position: entry filters, exits |
| Stock universe | `jobs/sync_stocks.py` | `stocks` | upsert and commit code by code |
| Job log, scheduler | `services/job_logging_service.py`, `jobs/scheduler.py` | JSON lines; cron table | append, list, fire |
| Queries, schemas, wiring, frontend views, deployment | the rest | none of their own | reads, validation, routing, rendering |

### How they interact

* A request, or a job of the scheduler, opens one SQLAlchemy session. Automation
  runs all codes of all users in ONE session with one commit at its end; a
  strategy request runs one code; a bootstrap replaces the portfolio. Sessions
  share only the database: what they have loaded is not refreshed.
* Inside a session the strategy service evaluates a strategy on cached bars,
  flushes a run row (which takes the SQLite write lock), then asks the quote
  client twice: once to size the buy, once to fill it. The second answer is
  mostly the first one, cached for 15 seconds.
* History batches commit code by code. The coverage check asks the calendar
  service, whose cache lives as long as the process.
* The strategies' exits count the days since the latest BUY trade of the code. A
  bootstrap replaces positions and writes no trade.
* The workspace's requests look whether a row is there and insert it when it is not,
  each in a session of its own. Only the unique constraints stand between two that
  look at the same time. The watchlist, a bootstrap and the universe synchronisation
  all insert into `stocks`.
* Backtests read the bars the batches stored and use the same sizing and fees
  as the trading core.
* The frontend posts a batch and polls its progress by a run id of its own, which
  it keeps in the browser's storage; the registry it polls is in the memory of
  the server process.
* The quote client is the only way to the exchange: threads of requests and jobs
  share its limiter and its two caches.

### Which behaviours are hard

* **Stale objects.** Cash and quantities are written as absolute values computed
  from objects loaded before network calls (`order_service.py:139`,
  `portfolio_service.py:89`), and a column is written only when it differs from
  what was loaded.
* **Check then act.** Position limit, held position and cash are checked some
  calls before the buy (`strategy_service.py:247`, `:274`); users, items, configs and
  stocks are looked for before they are inserted (`user_service.py:18`).
* **Partial failure.** An order is flushed as FILLED before the cash is checked
  (`order_service.py:72`); an exception in the automation drops the user's
  remaining codes and still commits.
* **Waiting.** A session holds SQLite's write lock from its first flush, through
  rate-limited network calls, to its commit.
* **Boundaries.** The fee has a floor of one dollar; coverage ends yesterday
  before 18:00 (`market_data_service.py:395`); the job asks for the current
  month only.
* **Caches.** A blank holiday answer is cached for the life of the process. Two
  fetches of a quote write its cache in either order; a snapshot without a price
  is completed with the last price known.
* **Sequences.** Buy, sale and import of the same code, a change of the strategy and
  late bars between runs decide which entry date and which bars an exit sees.
* **Polling.** Answers, a 404 after a restart, the grace period and the batch's
  own end reach the page in any order.

`PROJECT.json` lists every hazard at its line with the properties that cover it,
or the reason why none does yet.

### What makes each component correct

* Trading: the account and positions are what the committed trades say; nobody
  overdraws; runs, orders and trades agree; no double buy, no buy past the
  limit, a sale closes its position; a failed session leaves nothing; every
  session ends.
* Sizing: the quantity is the largest that fits the budget, fee included.
* History: what a batch fetched and reported is stored; a code is skipped by the
  calendar only when no published bar of a past day is missing, so a hole that an
  incomplete answer of the exchange left is asked for again; one failing code takes no
  other with it.
* Backtests: no overdraft, no position past the limit, no look-ahead, and an
  equity curve the trades explain.
* Quotes: at most three requests in five seconds; a price once known is served
  and says of when it is; every call ends. Sync progress: what is shown is
  committed and never goes back, and no card stays running for ever.
* Strategies: a position is neither kept past its holding days and its stop nor sold
  for the days of another one.
* Workspace: at most one row per key; a user has its account, an item its stock, a
  config its values; a request that ends before its commit leaves nothing, and one that
  has committed all it was asked for.

## 2. Modules

| Module | Extends | What it is |
|---|---|---|
| `Charges` | | fee, tax, cost, proceeds and sizing as integer operators |
| `Sizing` | `Charges` | the count-down loop of `resolve_buy_quantity`, one iteration a step |
| `Ledger` | `Charges` | abstract specification: a portfolio changes by booking whole sets of trades, or is replaced; `Trading` and `Backtest` implement it |
| `Trading` | `Charges` | the trading core: interleaved sessions on one account |
| `HistorySync` | | daily bars, calendar cache, coverage and batches |
| `Backtest` | `Charges` | the two portfolio engines and the two for one code |
| `Workspace` | | the sessions that look for and insert users, accounts, configs, items and stocks |
| `SyncProgress` | | the registry of progress, the batch threads that fill it and the page that polls it |
| `SyncedHistory` | `HistorySync`, `SyncProgress` | the two composed: a run of the page is the batch of the same name, from the button to the bars |
| `Quotes` | | the limiter, the retries and the caches of the quote client, shared by threads |
| `ExitRules` | | the life of a position under a strategy: exits, entry date, late bars, import |
| `MCSizing`, `MCTrading`, `MCHistory`, `MCBacktest`, `MCProgress`, `MCSynced`, `MCQuotes`, `MCExitRules`, `MCWorkspace` | the above | small instances for TLC |
| `ChargesProofs`, `SizingProofs` | `Charges`, `Sizing` | lemmas on the arithmetic and on sums over finite sets; correctness of the loop |
| `TradingProofs` | `Trading` | type correctness; ledger, overdraft, and what runs, orders and trades say; what a commit may not do; the value of the account; the refinement of `Ledger` |
| `SyncProofs` | `SyncedHistory` | invariants of the synchronisation, of the card the page shows of it, and of the two together |
| `QuotesProofs` | `Quotes` | the window of the limiter; what the caches serve |
| `ExitRulesProofs` | `ExitRules` | the exits of a position a strategy bought |
| `BacktestProofs` | `Backtest` | cash, limit, look-ahead, sales and equity of all four engines; the refinement of `Ledger` |
| `WorkspaceProofs` | `Workspace` | unique and whole rows; all or nothing of each request |

Definitions named as mutants in a comment are wrong variants kept beside the
right ones: substituting one for the definition that follows it must break the
property it is listed with, which shows that the property can fail.

### Trading and the code

A session's `pc` follows the calls of `run_strategy`: `Evaluate` (signal),
`Record` (run row flushed, lock taken), `Check` (the skips of
`_apply_signal_to_portfolio`), `Size` (account loaded, preview quote), `Place`
(second quote, order row), `Find` (the cash compared and the position selected again,
or the fill refused), `FillBuy` / `FillSell` (the flush of position, cash,
trade and metrics), then the next code or `CommitRun`. A bootstrap is
`LoadAccount`, `Reset`, `Import`, `CommitImport`. `Abandon` is the automation's
catch-all handler, `Fail` everything that ends in a rollback, the death of the
process included.

`txn[s]` holds the uncommitted writes of a session, column by column, `Keep`
where nothing was written; `exe[s]` holds its local variables and the loaded
objects. Reading is `Col` (own write, else committed), flushing is `Write`
(nothing when the new value equals the loaded one). `WriteLock` chooses between
SQLite, where the first flush takes the one write lock, and PostgreSQL at READ
COMMITTED, where only updated rows are locked. `tally`, `book` and `capital` are
history variables that add up the trades independently of the stored columns.

`Find` is where the two databases differ most. A row that is still the loaded one comes
back as the object, stale columns included; on PostgreSQL a bootstrap may have replaced
it, which gives a fresh object, or deleted it: a buy then inserts a new row, a sale is
refused, and the session goes on to commit an order that says FILLED next to a run that
says FAILED (`Found`, `Refused`). If the row goes between the selection and the flush
only `Fail` is left. The cost of a row that is sold in part is rounded down to a unit;
sales of the strategies are of whole positions.

A strategy may give any signal and the exchange any quote or none. One user, so
one account, as the workspace supports one. A session runs once; a retry is
another session.

### HistorySync and the code

A bar is its day. `Cover` is `_has_complete_trading_day_coverage` with the
effective end of the window and the calendar's cache; `Fetch` and `Store` are
the download, which returns any part of the published bars (an answer without tables or
with short rows is no error, `twstock_client.py:119`), and the upsert with its commit; `Fail` is the per-code exception
handler, for an exception of the coverage check as well as one of the download or the
upsert; `StartClose` the 14:10 job with the calendar check in front of it;
`Restart` a new process with an empty cache, in which batches that were going on are
gone and those that were done keep their answers. `Tick` and `Publish` are the
world's. `due` and `served` are history variables: the bars a batch has answered for.
A skip on the word of the calendar answers for every published bar of the window, a
download only for what it got.

### Backtest and the code

One turn of the date loop is a handful of steps: `DecideNow` (same_close) or
`TakeQueued` (next_open), `Sell` (one turn of the loop over the sales) until
`EndSales`, `Buy` (one turn of the loop over the buys) until `EndBuys`, for next_open `QueueNext`, then `Mark`
(the equity point). The engine is sequential: the steps are separate so that the
invariants hold inside the loops too. `told` records the sales the strategy
decided; a trade carries its quantity, from which `MovesByTrades` computes what cash
and positions must have become. The engines for one code are loops of their own in the code and in the
module: one turn is one `OneTurn` (skipped where the fill has no price), the last
equity is `OneEnd`. They fill a next_open signal at once, at the open of the next
bar, so their equity point of the current bar already holds the position; and
they do not compare a fixed number of shares with the cash, which
`CashNeverNegative` therefore excepts by name.

### SyncProgress and the code

`thread[r]` is the thread of the request that runs `r`: `Begin` (`start_run`),
`Work` and `Mark` (one code's commit and then its mark in the registry), `Refuse`
(an error before `start_run`, which `fail_run` cannot record), `Break` and `Abort`
(errors that leave the loop), `Complete`. `registry` is the class variable of the
service, which `RestartServer` empties. The page is `active` (the browser's storage),
`young` (less than 15 seconds old), `view` (the data of the query), `missed` (its
error inside the grace period) and `reply` (the answer under way): `Start`, `Poll`,
`Show`, `Unknown` (a 404), `LosePoll`, `Dismiss`, `Reload`. The query library is
modelled by the options the page gives it: one fetch at a time, data kept on an
error, a new key starts empty. `committed` is a history variable. Names that
`HistorySync` also needs carry a prefix (`ProgressSpec`), so that both can be extended.

### SyncedHistory and the code

The loop of `sync_history_range_batch` is one loop, and both parts model it: `HistorySync`
what it does to the bars, `SyncProgress` what it tells the registry. The composition
takes their steps together. `BeginRun` is `StartManual` and `Begin` in one step (the targets
are chosen and `start_run` is told their number); `GoOn` a comparison or a download after
which the registry is told nothing yet; `WorkOn` the commit, skip or failure of a code
(`AnswerCode`), which is also what the thread will mark (`MarkedAs`), and `Mark` follows
as a step of its own; `CompleteRun` is the end of both. An error that leaves the loop
(`Break`, `Abort`) leaves the batch where it is. `RestartProcess` ends the batches and empties the registry at
once: they are one process. Time, the exchange and the 14:10 job go on beside (`Elsewhere`), the page
(`OnPage`) sees the registry only. Every run is one of histories, as a run of
the stock universe touches no bars. `overdue` (the bars of past days that were
published when a run began) and `guessed` (the codes skipped while the calendar could not be fetched) are
history variables.

### Quotes and the code

`thread[t]` is a call and its local variables: `Start` (with the look-up in the
cache), `Acquire` (`_acquire_twse_slot`, one pass of its loop under the lock),
`Ask` (the request and what the loop makes of it), `ReadLast` and `Store` (the
fallback, each under the cache lock on its own, so other threads come between).
A history call takes the same slots, one a month. Time is kept as ages of the
slots and of the cache entry, which `Tick` increases. A quote has the number of
the snapshot its price was traded in, so an old price is told from a new one.
`granted` and a call's `known` are history variables.

### ExitRules and the code

A run is one step: `Reason` is the strategies' `evaluate` (the exits in the order of
`Ladder`, each decided by `Applies`), `Execute` what `_apply_signal_to_portfolio`
makes of it, failed and skipped orders included. `lastBuy` is the date
`_build_position_context` finds, from which `HoldingDays` and `HighestClose` count.
`Automation` is the job of 9:30, `ManualRun` the request, at any hour; `Sync` stores
the published bars or misses today's; `Configure` changes the strategy and leaves the
position; `Import` is the bootstrap. `Close` and `NextDay` are the world's. Closes,
cost, dates and stops are kept because the exits compare them; averages, RSI and the
entry filters are any, and the average true range any of two. `since` and `bought`
are history variables of the position, `run` is the last run.

### Workspace and the code

A request is asked one operation and follows its statements. `Locate` to `Adopt` are
`create_user` and the part of `bootstrap_portfolio` that chooses or makes the user;
`LookStock` and `InsertStock` are `upsert_stock`, shared by the watchlist, the
bootstrap and the universe job, which commits each code (`CommitStock`); `Check`,
`InsertItem` and `Remove` are the watchlist; `Look`, `Upsert`, `InsertConfig` and
`UpdateConfig` are the config. A failed check is a refusal (a 400), a unique
constraint or a foreign key an error no route handles (a 500); both roll back, as does
`Fail`, which may strike anywhere. `Commit` and `Answer` are two steps, because POST
/users reads its rows again after the commit (`users.py:20-26`) and any process may stop
there: a `Fail` between them leaves the rows and no answer ("lost"). `locks` and `txn` are the database's: on SQLite the
first write takes the one lock, on PostgreSQL a write waits for an uncommitted write of
the same key. A unique key is compared with the rows of the others when it is written,
not when it was looked for. `NewId` is the highest rowid plus one or the next value of
the sequence. `UpdateConfig` writes the columns that differ from what was loaded.

Two paths of this code are in the models, and no property can exclude them:

* A first read of the config finds none; a save commits in between; the upsert of the
  read (`user_repository.py:77`) reads again, finds that row and overwrites it with the
  defaults. The user's settings are lost although both requests succeed.
* A bootstrap loads the account before any lock (`portfolio_service.py:89`, in
  `Trading`). If a fill commits in between and the form asks for the cash that was
  loaded, the ORM writes nothing and the cash of the fill stays.

## 3. Runs

| Run | Checks | Shows |
|---|---|---|
| `sizing` | `LargestAffordable`, `RaisesOnlyWhenNothingFits`, `Terminates` | the loop ends and returns exactly the largest affordable quantity |
| `trading_lock` | `LedgerBalanced`, `ValueConserved`, `EquityConsistent`, `NoOverdraft`, `RunsTellTheTruth`, `NoDoubleBuy`, `OpensWithinLimit`, `SaleCloses`, `LedgerSpec`, `SessionsEnd` | under SQLite a job, a request and a bootstrap interleaved in every way keep the ledger, overdraw nothing, leave runs, orders and trades that agree, implement `Ledger`, and end once they began; until a bootstrap, the stored market value and equity match positions and cash |
| `history_days` | `NothingOverdue`, `EveryCodeAnswered` | a code is skipped by the calendar only over a complete past, what was fetched and reported is stored, and a batch answers each of its codes when one of them fails |
| `backtest` | `CashNeverNegative`, `WithinLimit`, `EquityExplained`, `NoLookAhead`, `SalesHonoured`, `MovesByTrades` | backtests are accounted for, move cash and positions by their trades only, and do not look ahead |
| `progress` | `ShownIsCommitted`, `NeverBackwards`, `SettlesOrForgets` | what the page shows of a synchronisation is committed, never goes back, and ends or is forgotten |
| `synced` | `CountsAreAnswers`, `ShownIsStored` | the numbers on the card are those of the batch's answers, and a card that shows a run completed without a failure leaves out no bar of a past day that was there to fetch when it began, but for what the exchange kept back from it or the gap fallback passed over |
| `quotes` | `WindowBound`, `KnownPriceServed`, `PricesAreDated`, `CallsEnd` | the window is kept, a known price is served and dated, every call ends |
| `exits` | `KeptRightly`, `BoughtHeldThatLong` | a position a strategy bought is kept only within its days and its stop, and not sold for its days too early |
| `workspace` | `UniqueRows`, `WholeWorkspaces`, `AllOrNothing` | any three of fourteen requests, statement by statement, on either database: rows stay unique and whole, and a request leaves nothing before its commit and everything after it |
| `trading_limit` | `AtMostConfigured`, violated | finding 1 |
| `exits_import` | `HeldThatLong`, violated | finding 2 |
| `history_latest` | `LatestForTomorrow`, violated | finding 3 |

The runs of `HistorySync`, `Backtest`, `ExitRules` and `Workspace` also check their `TypeOK`;
that of `Trading`, `Quotes` and `SyncProgress` is proved and no longer run.

PostgreSQL's row locks are run for finding 1 only. `NoOverdraft` and `RunsTellTheTruth`
need no write lock: their theorems hold of the model of either database (`NoOverdraft`
under `OrdinaryCharges`), and the run shows them on SQLite. The other properties of
`trading_lock` are claimed for SQLite alone.

### Findings

1. **Position limit on PostgreSQL.** The dashboard promises at most N stocks at
   the same time; two automation runs (scheduled and manual) both pass the check
   before either commits, and together exceed it.
2. **An imported position can have the date of an old one.** The entry date is that of
   the latest BUY trade of the code, and a bootstrap keeps the trades. A position
   imported after another one of the same code was sold is sold for its holding days
   at the first run. (A position imported with no trade before it has no entry date:
   it has no holding limit and no trailing stop at all.)
3. **The 14:10 job skips the day's bar.** Coverage ends yesterday before 18:00,
   so a code with its earlier bars cached is not fetched although the README
   says the job makes the latest data available for the next day. The last
   trading day of a month is not fetched by the job at all.

Not a finding but worth knowing: a percentage buy is sized on one quote and filled on
the next, and the fill is compared with the whole cash, not with the budget. The two
quotes are mostly one, cached for 15 seconds.

### Bounds

* Trading: a job, a request and a bootstrap (two jobs for finding 1), two codes,
  prices 10 and 20, cash 30. This is the least in which every pair of kinds of
  session meets, a job holds one code while it trades the other, the second buy
  is too expensive, and a fill is dearer than its preview. A lot of one share
  suffices, as lots are not compared with anything but each other. The limits
  are 2 for jobs and 1 for requests, so both are reached. Sessions run once. The
  locked instance, which also carries the liveness, sizes with sixty percent of the
  cash: one share at 10 and none at 20, then one more at 10 whose fill at 20 is too
  expensive. The instance of finding 1 has a fixed lot and all the cash.
* Sizing: money in tenths of a dollar; prices below a dollar, the minimum fee, a
  fee above it, a first guess that fits, and every kind of invalid argument.
* History: four days in two months with a weekend day and a holiday next to each
  other, a `MaxGap` of one day, one manual batch beside the job over both months. Two
  codes, so that one can fail and leave the other to do; one of them is suspended and has
  no bars, which keeps the states few (a constraint, not a change of the model). Every
  part of the published bars is tried as an answer. Finding 3 needs one code. The
  theorems of `SyncProofs` hold for any number of codes with any bars. Longer months repeat these cases: a
  day matters only as trading day, holiday, weekend, month end, today or past.
* Backtest: cash for one lot of each code, so that both are held and one day sells
  both; two codes, three dates after one of history, bars with missing open
  or close, codes missing different days and the same day. The smallest in which
  a queued order waits over a date of the simulation.
* Progress: two runs, so that one started after a reload meets one still working;
  two codes in the first, so that a run is seen in the middle, and one in the other; two faults (restarts, lost
  polls, reloads), so that each meets every other. Time is the grace period only,
  which may end at any moment.
* Synced: one code, a trading day and the weekend day after it, one fault. The state is the product of both parts, so the bounds
  are below theirs; what the composition adds is how one code's answer, mark and poll
  interleave with the day's end, the publication, a failure, an unknown calendar and a restart, and
  that is there with one code. Several codes and runs are covered by the theorems.
* Quotes: two threads and three calls; a window of two ticks with two requests,
  which one call with its two attempts can fill; two snapshots, so that a price is
  old or new; a cache entry that outlives one tick and not two. Ages stop growing
  when they no longer matter.
* Workspace: three requests, the least in which a third one meets the outcome of a
  race; fourteen operations, so that each pair that writes a common table meets and a
  setup, a bootstrap of the old and of a new user and a universe run can overlap; names
  that collide in one column only; both databases; with and without a user at the
  start. Requests are interchangeable, which the symmetry uses.
* Exits: five days with a weekend day among them, so that a holding limit of one or
  two passes with a day to spare, over the weekend too; closes that fall under the
  stops of one true range and not of the other; a fee in the cost. The limits 2, 20
  and 30 of the code are small because the days are only counted.

`CHECK_DEADLOCK FALSE` is set, except for `Quotes`, because the systems may stop:
sessions and requests run once, the last day ends, a loop returns, every run was
started and dismissed. That nothing stops early is what
the liveness properties check.

### Fairness

* Trading: weak fairness of the steps of each ACTIVE session. Such a session is a
  running thread; it waits only for a lock. Nothing makes a session begin, and no
  fairness is assumed of failures, quotes or commits of others.
* Sizing: weak fairness of the loop.
* Progress: weak fairness of each batch thread, of the polls of the open page
  (`refetchInterval`), of their answers and of the end of the grace period. Nothing
  makes the user start, dismiss or reload, nor the server restart.
* Quotes: weak fairness of each thread's call and of time. A waiting thread wakes
  when its sleep is over, which the tick brings about; no fairness of the limiter
  is assumed. The calls end because their number is bounded: `CallsEnd` excludes
  a slot or a wait that is lost, not that others overtake a thread for ever under
  an endless load, which nothing in the code excludes.

## 4. Proofs

All theorems hold for every value of the constants under the modules' ASSUMEs
(`ChargesAssumption`, `SizingAssumption`, `TradingAssumption`,
`HistoryAssumption`, `ProgressAssumption`, `SyncedAssumption`, `BacktestAssumption`, `QuotesAssumption`, `ExitAssumption`,
`WorkspaceAssumption`), which state what the configuration and the request schemas
validate.

| Theorem | Says |
|---|---|
| `SizingProofs!SizingLargest`, `SizingRaises`, `SizingClosedForm` | the loop's result is the largest affordable quantity for any cash, price and percentage, so `Trading` and `Backtest` may use the closed form in one step |
| `TradingProofs!TradingTypeOK` | type correctness of the trading core |
| `TradingProofs!TradingLedgerBalanced` | with a write lock the tables equal the trades, for any number of sessions and codes |
| `TradingProofs!TradingNoOverdraft` | with ordinary charges nobody overdraws, with or without a write lock |
| `TradingProofs!TradingRunsTellTheTruth` | runs, orders and trades agree with or without a write lock, refused fills and failed sessions included |
| `TradingProofs!TradingNoDoubleBuy`, `TradingSaleCloses`, `TradingOpensWithinLimit` | with a write lock a commit buys only what is not held, sells whole positions, and stays within its limit |
| `TradingProofs!TradingValueConserved`, `TradingEquityConsistent` | with a write lock no money is made or lost, and the stored metrics are those of the positions |
| `TradingProofs!TradingImplementsLedger` | with a write lock and ordinary charges the trading core implements `Ledger` |
| `BacktestProofs!BacktestTypeOK`, `BacktestNoLookAhead`, `BacktestWithinLimit`, `BacktestCashNeverNegative`, `BacktestSalesHonoured`, `BacktestEquityExplained` | the safety of the four engines for any bars, codes, sizings, limits and strategy |
| `BacktestProofs!BacktestImplementsLedger` | with ordinary prices and rates each engine's steps are steps of `Ledger`, one new trade each (`MovesByTrades`) |
| `WorkspaceProofs!WorkspaceTypes`, `RowsAreUnique`, `WorkspacesAreWhole`, `RequestsAreAllOrNothing` | the safety of the workspace for any number of requests and any payloads |
| `SyncProofs!HistoryTypeOK`, `HistoryNothingOverdue`, `HistoryEveryCodeAnswered` | the safety of the synchronisation for any calendar, days, codes and batches |
| `SyncProofs!ProgressTyped`, `ProgressShownIsCommitted`, `ProgressNeverBackwards` | what the page shows of a run, for any runs, numbers of codes and faults |
| `SyncProofs!SyncedIsHistory`, `SyncedIsProgress` | the composition implements each of its parts, so their theorems hold of it |
| `SyncProofs!SyncedCountsAreAnswers`, `SyncedShownIsStored` | what the card stands for, for any codes, days, calendar, runs and faults |
| `QuotesProofs!QuotesWindowBound` | at most `MaxRequests` requests in any window, for any number of threads |
| `QuotesProofs!QuotesTypeOK`, `QuotesKnownPriceServed`, `QuotesPricesAreDated` | what the caches serve, for any number of threads, calls and snapshots |
| `ExitRulesProofs!ExitTypeOK`, `ExitKeptRightly`, `ExitBoughtHeldThatLong` | the exits of a position a strategy bought, for any days, prices, stops and limits |

* **Ledger.** `LedgerBalanced` is not inductive: a commit is right only if what
  the session loaded is still there. `LockedLedger` adds that at most one session
  holds the write lock, that whoever has pending writes or is past its first
  flush holds it, and that such a session's view equals the committed tables plus
  its own trades (`Undisturbed`). Each action is proved by a lemma of its own;
  steps that commit nothing share `LockedStep`. The theorem assumes `WriteLock`:
  with the locks PostgreSQL takes (the variant `AcquireRowsOnly`) `LedgerBalanced`
  is broken.
* **Overdraft.** `Solvent` says that the committed cash, every pending one and every
  loaded one is not negative, each on its own, and that a buy about to be flushed fits
  the cash its session has loaded. So it does not matter how old that cash is, nor which
  row the fill finds: a commit can overwrite, but not overdraw. It assumes `OrdinaryCharges`
  (a price of at least two dollars, fee and tax rates that sum to at most one, a tax of at
  most one half): below, the minimum fee can make the proceeds of a tiny sale negative,
  which the code does not prevent and no run tries.
* **Runs, orders, trades.** `Story` says of every session which runs, orders and trades
  its transaction holds at each place of its code: those of the codes done, and of the
  code at hand what has been flushed. A commit moves them into the tables whole, so they
  agree there; no lock is needed. A refused fill leaves its order and says so in its run,
  whatever the position looked like when it was selected again. `Deals` relates what a session flushed to what was
  committed when it looked: a pending buy is of a code whose committed row it saw
  unheld, a pending sale of the whole row it saw. With the write lock (`LockedLedger`)
  nothing is committed between the look and the commit, which gives the three action
  properties.
* **Value and metrics.** Both are sums over the codes. `Books` says of what each
  session sees what the properties say of the tables: its cash and rows are worth the
  capital (`Whole`), its metrics are those of its rows (`Valued`), and what it read
  of the metrics before a fill is still there. A fill changes one summand and the cash
  by the same amount. `ChargesProofs` has the facts about sums (`SumWith`,
  `SumWithout`, `SumChanged`); they are proved from the fold's recursion, with least
  elements in the place of an induction.
* **Refinement.** The trades of a transaction are moved into the tables whole, so only
  `CommitRun` and `CommitImport` change the ledger (`LedgerStep`). That what they move
  is the sum over the trades, in whatever order, is `Tallies`: a session's tally is
  the sum over its uncommitted trades, because a fill adds a trade that is not there
  yet (`Story`). A commit without trades is a stutter. Cash and quantities stay
  non-negative by `NoOverdraft`, hence `OrdinaryCharges`.
* **History.** `HInv` adds to `NothingOverdue` that bars exist on trading days
  only, that what a batch has fetched was published, and that codes are answered or
  still to do. The
  skip without a fetch is the case that needs the coverage check to be right.
* **Progress.** Neither property is inductive: an answer under way can be old. `PInv` says
  that whatever was sent, an answer under way or the card itself, was true when it was
  sent and still is (commits and marks only go up), that the registry is at or after
  it, that the commit is at most one code ahead of the mark, and that at most one answer is under
  way. So an answer that arrives is at or after the card it replaces.
* **Card and bars.** The composition implements its parts step by step (`StepOfHistory`,
  `StepOfProgress`), and those proofs do not use `SyncedAssumption`, so `HInv` and
  `PInv` hold in it. `SInv` adds what neither part can say. `Coupled`: a batch begins with its thread, and
  the registry counts its answers but for the one still to be marked. `Owed`: what was
  overdue when the run began is in what a code's comparison saw, and once the code is
  answered without a failure, without a guess and without a gap in the exchange's answer,
  among the bars the batch answered for, which `NothingOverdue` says are stored. `Card`: what was sent counts answers that
  still stand, as answers are never taken back while the run is followed. The counts are cardinalities of the
  codes answered each way (`Counted`).
* **Quotes.** `WindowBound` speaks of requests, the limiter of its slots.
  `LimiterInv` says that the slots are the newest requests, that ages fall along
  the sequence, and that every older request has left the window; `ExpiredFirst`
  shows that counting the expired slots is the same as cutting them from the
  front. `QuotesInv` says of the caches and of a call at each of its steps what
  the properties say of an answer: a last price is always of its own snapshot, so
  a fallback made of it is dated right, and it is never lost once known.
* **Exits.** `EntryDated`, a part of `TypeOK`, says that the latest BUY trade of a
  position a strategy bought is of the day it was bought or of the day before (the
  database's clock). So the bars from the entry date are those of the position and at
  most one more (`Age`), the days counted are off by at most one, and a stop above the
  last close would have been found (`ReasonIsDue`). An imported position has no such
  fact, which is finding 2.
* **Backtest.** `Inv` adds to `TypeOK` what holds inside a turn (`Places`), that a
  queued order was decided on the bar of its code before the one it waits for
  (`Orders`), and that trades carry the price of their bar (`Traded`). A decided sale is
  still to do, queued, or its position is gone (`SaleOK`). That the engines implement `Ledger`
  rests on `Booking`: a trade is dated and decided so that it cannot be among the
  earlier ones, so each step adds one and moves cash and position by what that one says. The equity is explained
  because cash and entry costs move with the booked profit at every fill (`Accounted`)
  and a point is the cash and the worth of the positions (`Pointed`). `CashNeverNegative` assumes
  `OrdinaryBars`: a price is zero or at least two dollars, and the rates are those of
  `OrdinaryCharges`, for the same reason as there.
* **Workspace.** `UniqueRows` is not inductive: a commit is right only if the key is
  still free. `Held` says that every pending key is locked, `LocksApart` that locks are
  not shared, and a session's pending keys are not those of stored rows (`Fresh`), because
  they were compared under the lock. A new user is pending with its account, and no two
  pending users have one id (`NewUser`, `UsersApart`): on SQLite because of the lock, on
  PostgreSQL because of the sequence. `AllOrNothing` has two sides. That nothing is left
  of a request that has not committed is part of `Inv`. That a committed one has left
  everything is a second invariant over it (`Promises`): of each code the stock is
  stored, among the writes, or still to come, and at its commit a request has its own row
  stored or among its writes (`Complete`); keys other than watchlist items are never deleted.

Only model-checked: everything under fairness (`SessionsEnd`, `Terminates`,
`SettlesOrForgets`, `CallsEnd`), which is out of the prover's reach. Every safety property a
passing run checks is a theorem.

## 5. Not modelled, and why

* Strategies: floating-point indicators over price series. `ExitRules` lets them
  find any trend, the other models give any signal, so what is shown holds for all
  of them.
* Bar values, the list of target codes, network retries and request formats:
  every answer, or none, is possible.
* Metrics, default codes and saving of backtests; in `Trading`, a payload that names a
  code twice (`Workspace` has it).
* The metadata of a stock: it comes from one table of a library, so writing it again
  changes nothing.
* A second server process: its memory would have its own limiter, caches and
  progress, which a page that reaches it sees as a restart. The Docker image
  starts one.
* Job log, scheduler table, read-only endpoints, schemas, routing, frontend
  views, deployment: no state of their own that a step of another part can race
  with.

## 6. Plan

Order of work; all steps but the tenth are done, the ninth in part.

1. `Charges`, `Sizing`: the arithmetic everything rests on, with proofs.
2. `Trading`, `Ledger`: the core, its abstract specification, type correctness
   and its safety theorems.
3. `HistorySync`: synchronisation, with proofs of its invariants.
4. `Backtest`: the portfolio engines, with proofs.
5. `SyncProgress`: the progress registry, the batch threads and the page, with proofs.
6. `SyncedHistory`: the progress and the batches as one system, with proofs that it
   implements both and of what a card stands for.
7. `Quotes`: the limiter and the caches shared by threads, with proofs.
8. `Workspace`: the check-then-insert races of users, configs, watchlist and stocks
   against the unique constraints, on both databases, with proofs.
9. The backtest engines for one code in `Backtest`, with their missing cash check
   and their early equity point, and the refinement of `Ledger` by all engines. Left: to
   relate them to the portfolio engine run on one code, and the saving of a backtest.
10. A composition of `Quotes` with `Trading`: the two quotes of a buy from the
    client's caches instead of any two.
11. `ExitRules`: the exits of the strategies (stop, trailing stop, holding days) and
    the entry date of a bought and of an imported position, with proofs.

To be modelled: the read of a price history that fetches what is missing
(`market_data_service.py`), with the batches of `HistorySync`.
