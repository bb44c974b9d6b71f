# Repuestos Radar in TLA+

Repuestos Radar watches the prices of phone parts in a dozen web shops. A daily
job asks every store for every tracked item and keeps one snapshot per product
and day; a dashboard and a few command lines read the snapshots, edit the
watchlist and search the stores on demand. This directory holds TLA+ models of
the program, their TLC configurations and machine-checked proofs. Paths below are
relative to `src/repuestos_radar/`.

## 1. Inventory

| part | code | state | operations | what is hard |
|---|---|---|---|---|
| snapshot storage | `storage.py`, `models.py`, `schema.py` | `listings`, unique per (item, source, external id, day) | `save_classified_listings`: chunks of 500 rows, `ON CONFLICT DO NOTHING`, counted by `RETURNING` | several statements per batch, other writers between them, repeated keys, last short chunk |
| daily run | `ingest.py` | its report, the ORM session, one adapter per source | `main`, `run_ingestion`, `_select_sources`, `RunReport.ok` | failures at each step of a pair, lost commit answers, kills and reruns, midnight, a kind edited meanwhile |
| quick search | `dashboard/quicksearch.py`, `clock.py` | `quick_search_runs`, the module lock, a thread pool | `quick_search`, `runs_today`, `main` | sessions of one process, other processes, check-then-record, exits by exception, script interruptions, two calendars |
| watchlist | `tracked.py` | `tracked_items` (active, kind) | add, pause, resume, kind, reclassify | reclassify is one long read-compute-write beside the other writers |
| adapters | `adapters/` | catalog and page budget of a crawl, token, skipped | `fetch` | budget and stop conditions, pagination of stores that clamp or ignore it |
| polite client | `adapters/politeness.py` | last request made, cached robots.txt | `get`, `post`, `allows`, `site_maps` | delay and backoff in one loop, redirects, robots failure |
| relevance, tiers | `relevance.py`, `quality.py` | none | label and tier of a title | rules that leave early, in an order |
| analysis, margin | `analysis.py`, `margin.py` | none (reads rows) | tiers, outliers, median, trends, margins | boundaries, ties, empty groups |
| price list | `services.py`, `dashboard/admin.py` | `service_prices` | add, set-price, remove | two writers, rounding |
| database set-up | `db.py` | the schema | `init_db` | processes that start together |
| login | `dashboard/auth.py`, `dashboard/app.py` | throttle (failures, lock), session flags, cookie | `wait`, `record`, login, logout | a sleeper holding the lock, asynchronous cookie |
| demo | `dashboard/demo.py` | a SQLite file | `refresh_if_stale`, `seed` | reseed races at midnight |
| pages, report, texts | `dashboard/*.py`, `report.py` | session state of a browser tab | rendering, geolocation opt-in | answers that arrive reruns later |

The parts meet in the database: the daily run (a GitHub Actions job), the
dashboard (one Streamlit process, a thread per browser session) and the command
lines are separate processes and share no other state. PostgreSQL in production
(read committed), SQLite in development. Inside the dashboard, sessions share
the quick search's lock and the login throttle.

`PROJECT.json` lists the components with their status and the hazards with the
properties that cover them. What makes the parts correct:

* storage: a day's snapshot is written once; no price ever changes, no row
  disappears; a batch is stored whole or not at all;
* daily run: exit code 0 means that some source answered for every item and all
  of it is stored; the report agrees with the table; a failing source is left
  alone and costs no other source; the run ends;
* quick search: the daily cap, paid visits, one visitor per store, a truthful
  report, a lock that comes free;
* watchlist: what reclassify cleaned stays clean while the kind stays;
* adapters and client: a bounded number of requests, attempts spaced, only where
  robots.txt lets them; what a budget cuts off matters least; a crawl that was not cut short,
  and a search that was not given up, hold every product;
* analysis: a group is never all outliers, the fair price is a median, a margin rests
  on a sure title at a sane price, a trend compares with the nearest day that has one;
* login: a logout sticks, answers to wrong passwords are spaced however many tabs
  guess, a right password gets in;
* price list: a change is told by the edit that made it, and gives what the edit was given;
* set-up: who has started finds the whole schema, and every start ends.

## 2. Modules

| module | models |
|---|---|
| `Storage` | keys, cells and rows of the table; `InsertRows`, `Chunk` as operators |
| `SnapshotStore` | abstract: what the table promises its readers |
| `Stores` | the stores as the callers of `fetch` see them |
| `Lists` | filter, slice and sort, in forms the prover can reason about |
| `Watchlist` | `tracked_items` and the commands that edit it |
| `Ingest` | the daily run, a state machine over `table` and `watch` |
| `QuickSearch` | the quick searches of all sessions and processes |
| `Reclassify` | `tracked reclassify` |
| `Radar` | the three writers together over one database and calendar |
| `PoliteClient` | the HTTP client: delay, backoff, retries, robots.txt kept |
| `Adapter` | what the adapters share: a fetch begins, returns, raises |
| `Crawl` | the Tiendanube adapter: discovery and the crawl on a budget |
| `Paging` | the WooCommerce and Wix adapters: search by pages, the Wix token |
| `Adapters` | each adapter over its client and a store |
| `Throttle`, `Login` | the brake on wrong passwords; login, logout and the cookie |
| `Titles` | `relevance.py` and `quality.py`: what a title says |
| `Analysis`, `Prices` | the analysis of one day; tables that grow day by day, and what pages compute of them |
| `SetUp`, `PriceList`, `Dashboard` | `init_db`; the repair price list; both, with stops of processes |
| `StorageProofs`, `IngestProofs`, `QuickSearchProofs`, `RadarProofs`, `AdaptersProofs`, `AnalysisProofs`, `LoginProofs`, `DashboardProofs` | theorems |
| `MC_Ingest`, `MC_QuickSearch`, `MC_Radar`, `MC_Adapters`, `MC_Login`, `MC_Prices`, `MC_Dashboard` | values for the constants |

`Storage` is extended by `Stores` and `Watchlist`; `Ingest` and `QuickSearch`
extend both; `Crawl`, `Paging` and `Analysis` use `Lists`; `Radar` extends `Reclassify` and instantiates `Ingest` (as `Daily`)
and `QuickSearch` (as `Quick`) over the same `table`, `watch` and `today`.
`Adapter` extends `PoliteClient`; `Crawl` and `Paging` extend `Adapter`;
`Adapters` extends both. `Login` extends `Throttle`, `Prices` extends `Titles` and
`Analysis`, `Dashboard` extends `PriceList`, which extends `SetUp`. These five
groups share no state with the writers but the table that `Prices` reads: the
writers see the adapters as `Stores`, and labels as the constant `Classify`.

### Storage, Stores, Watchlist

The table is a function from the stored snapshot keys to their cells (price and
label). Title, currency, condition and url travel with the price and decide
nothing here. `InsertRows(table, pending, rows)` is one INSERT inside an open
transaction: it skips keys that are committed or in the transaction, and keeps
the first of two rows with one key. A store may be selling any catalog of
`Offers[source]`; a listing carries the host's day on which its page was parsed,
so a fetch across midnight can return two days. The relevance filter is the
constant `Classify`: label by item, kind and product. A watchlist command is one
short transaction, hence one action; ids grow with creation, as in the database.

### Ingest

One variable per thing the run holds: `queue` the items it loaded, `stores` and
`todo` what is left of the two loops, `kind` the kind loaded with the current
item, `rows`, `sent` and `pending` the batch and its open transaction, `crawl`
the catalogs kept by crawl-based adapters, `report` the `SourceReport`s.

| code | action |
|---|---|
| `main`, head of `run_ingestion` | `StartRun` (with or without `--source`) |
| `adapter.fetch(item.query)` begins; the expired item is re-read | `BeginFetch` |
| the fetch returns | `SearchAnswers`, `CrawlAnswers` (first item), `CatalogAnswers` (the catalog kept) |
| one chunk of `_insert_rows` | `SaveChunk` |
| `session.commit()` and the counters | `Commit` |
| the two `except` branches | `FetchFails`, `DatabaseFails` (re-read, INSERT or COMMIT) |
| COMMIT done, answer lost, then `except` | `CommitAnswerLost` |
| timeout of the job, crash | `Kill`; then `StartRun` again |

`Midnight`, `EditWatchlist` and `OtherWriter` (rows or labels committed by
others) are the environment. One daily run at a time: the workflow puts runs in
a concurrency group so that they never overlap (`.github/workflows/ingest.yml`,
lines 16-20). Three variables are history: `answers`, `asks`, `mine`.

### QuickSearch

Every session's call has a program counter; `Call` takes the lock of its
process, then `CheckCap`, `Build`, `Record`, `Launch`; every worker thread is a
little machine of its own (`Answer`, `FetchFails`), and the caller's thread takes
finished answers in any order: `TakeFailed`, `TakeAnswered`, `SaveChunk`,
`Commit`. After each store the app's progress callback may be where Streamlit
interrupts the script; that, and an exception while saving, lead to `drain`,
where the pool waits for its workers before the `finally` releases the lock.
`RecordAnswerLost`, `FailsEarly`, `SaveFails` and `Kill` are the failures.
A call that finds the lock taken raises and changes nothing, so it is no step.
`today` is the host's day (UTC) and `arToday` Argentina's, three hours behind.

### Reclassify and Radar

`LoadItems` reads the kinds, `ScanItem` reads and relabels one item's rows in
memory, `CommitLabels` writes the labels that differ; `RollBackLabels` is a dry
run, an error or a crash. One reclassify runs at a time: it is a maintenance
command its operator starts by hand. In `Radar` an INSERT of a key that another
open transaction inserted waits (`HeldFrom`, `QuickHeld`); a transaction that
relabels rows conflicts with nothing the others do.

### PoliteClient, Adapter, Crawl, Paging, Adapters

A store is a record that says what it serves: which URLs fail or are disallowed,
and its pages. The client is `at` work on one `url`: `Send` waits what the last
request demands, `Answered`, `Retry`, `OutOfRetries`, `TooManyRedirects` and
`ResponseTooLarge` are the ways out of an attempt of `_request`; `LoadRobots` keeps
the answer for the adapter's life. Every request is a step: the hops of a redirect,
which httpx follows inside one attempt and without any pause, are `Redirected`, up
to `MAX_REDIRECTS` of them. Where a redirect leads is up to the store; the code does
not ask robots.txt about it, and the model does not follow it there.

| code | action |
|---|---|
| `fetch` with a catalog kept | `CacheHit` |
| `_crawl_catalog`, discovery | `StartCrawl`, `ReadRobots`, `ReadSitemap`, `ReadHome` |
| order of the categories | `Prioritized`, `Candidates` (operators) |
| the loop over categories and pages | `ReadPage`, with `CategoryEnds`, `GoOn`, `Finish` |
| `fetch` of WooCommerce, of Wix | `StartSearch`, `CheckRobots`, `ReadToken`, `ReadWooPage`, `ReadWixPage` |
| an `AdapterError` on the way | `ClientGaveUp`, `BadResponse`, `TooMany` |

A page is a set of product blocks, each on sale, sold out or malformed; parsing is
no more than that.

### Throttle, Login

`wait()` is two actions, `BeginWait` (takes the lock, drops what is old, reckons the
delay) and `EndWait` (the sleep over, the lock freed); `record` is `RecordOk` or
`RecordWrong`. Time stamps are kept as ages. A tab goes from `form` through
`Submit` to `Admit`, or to `Wait`, `Awake`, `Refuse`; `CookieAdmits` and `Logout`
are the other ways in and out. The cookie component writes later, or never
(`CookieWritten`), and a reload is a new session (`Reload`). `free`, `quiet` and
`left` are history.

### Titles, Analysis, Prices

A title and a query are sequences of words; the word lists are constants, and so
is which words the fuzzy comparison takes for one another (`Alike`). `Classify` has
the rules of `relevance.py` in their order, `LabelTier` those of `quality.py`;
signals of several words and scores are not told apart. `Analysis` has the
operators of `analysis.py` and `margin.py` over one day's rows, with medians
doubled, since they fall between two prices. Where the query states no order, the
operator returns the set of what may come first; where a sort leaves ties, any
order of them is a sort (`Sorted`). A list comprehension with a condition is the
positions it keeps (`Contributing`, `Trustworthy`), and `next()` the first of them.
`Prices` fills the table a store a day (`StoreAnswers`) and lets days pass.

### SetUp, PriceList, Dashboard

`init_db` is `LookForTables`, `CreateTables`, `LookForColumn`, `AddColumn`,
`CommitColumn`, and on an exception `LookAgain`; PostgreSQL's lock on the table is
`altering`. An edit of the price list is a transaction of three steps: look at
the row (`Look`), decide (`Add`, `SetPrice`, `Remove`, or the page's `TapRemove`,
`TapYes`, `TapNo`), write (`Insert`, `UpdateBoth`, `UpdatePrice`, `Delete`, then
`Commit`). The ORM writes only the columns that differ from what it read
(`Written`), which is where two edits can mix. `Dashboard` adds `Stop`: a process
goes, with whatever its writers had not committed.

## 3. Runs

| run | instance | what it shows |
|---|---|---|
| `ingest` | 2 items, a search-based store and a crawled one (blocked for the daily run, so it runs when named), 2 runs, 2 days, 2 rows per statement, one foreign row | batches of two statements with a repeated key, reruns over stored rows, a second day, every failure: 206,000 states |
| `quick_search` | 2 sessions in one process, 2 stores, cap 2, both midnights | the cap and the other promises hold in the app: 60,000 states |
| `radar` | 1 item, 1 store, 2 prices, 2 kinds, 1 daily run, 1 quick search per Argentine day, 1 reclassify, 2 days | the writers together keep the table's promise and reclassify's: 1,542,000 states |
| `adapters` | Tiendanube stores of three categories, WooCommerce and Wix APIs of up to five products; 2 fetches, page budget 4, caps 2, 1 retry, 1 redirect | courtesy in numbers and time, and what "whole" means, against stores that fail, redirect, disallow, repeat, clamp or ignore the paging: 1,664,000 states |
| `login` | 2 tabs of one browser, 4 passwords typed, window 3 s, 1 free failure, cap 3 s | the brake holds side by side, logouts stick, right passwords enter: 336,000 states |
| `prices` | 4 stores, 4 days, 1 item, window of 2 days, tolerance 1, outliers from 4 stores | what pages compute from every such table: 59,000 states |
| `dashboard` | the app with 2 admin pages, a shell with a command; 3 edits; PostgreSQL, empty or old | starts that race, and edits that race: 595,000 states |
| `quick_search_two_processes` | 1 session in the app, 1 command line, cap 1 | finding: the cap is exceeded |
| `quick_search_store_error` | as `quick_search` | finding: one store's save error drops the answers of the others |
| `ingest_crawl_full` | as `ingest` | finding: a crawl that failed is reported as full |
| `adapters_homepage` | as `adapters` | finding: the homepage is fetched against robots.txt |
| `login_queue` | as `login` | finding: the right password waits for a lock that a guesser sleeps with |

Properties of `ingest`:

* `SuccessIsComplete` - exit code 0 (with something to do) means a source answered
  for every item of the run, and every row of its answers is in the table;
* `ReportMatchesTable` - `inserted` is exactly the rows this run committed, and
  less only when the answer to COMMIT was lost, and then the source is failed;
* `PairStoredWhole` - no partial batch, whatever fails between its statements;
* `OneCrawlPerRun` - one crawl prices every item: one product, one price, one day;
* `FailedSourceLeftAlone` - a failed source is not asked again in the run;
* `RunEnds` - a run that is not killed ends;
* `KeepsSnapshots` - the run and its environment implement `SnapshotStore`: no
  stored price changes, no row is removed, a commit adds rows of one pair.

Properties of `quick_search`: `CapHolds`, `VisitsAreCharged` (no visit without a
recorded run, on the day it is charged to), `OneVisitorPerStore`, `ReportIsTrue`
(what a returned report calls stored is in the table), `LockComesFree`. Of
`radar`: `RelabelSticks` (while an item's kind stays, a row relabelled under it
keeps that label whatever a stale run still stores) and `KeepsSnapshots`.

Properties of `adapters`: `RequestsBounded` (redirects, retries, page budget and caps
bound what a store is sent, over all fetches of an adapter), `AttemptsSpaced` (no
attempt goes out less than the courtesy delay after the request before it, a retry, a
hop or an earlier fetch; the hops themselves are not spaced, see the findings),
`PagesAllowed`, `BestFirst` (what the budget or the cap on categories left out
ranks behind everything crawled), `FullCrawlIsWhole` (a crawl that says it was
not cut short has every product of the categories that page as the platform
does), `SkipsReportedOnce`, `SearchIsWhole` (every match, once and in order,
also from a Wix store that clamps its pages).

Properties of `login`: `LogoutSticks`, `FreeAnswersAreFew`, `AnswersSpaced` (between two
answers to wrong passwords lies the delay the later one was due, whichever tabs
typed them), `RightPasswordEnters`.

Properties of `prices`: `NeverAllOutliers` (`report.py` takes the first offer that is no
outlier without asking), `FairPriceIsMedian`, `MarginRestsOnSure`, `PhoneIsStricter`
(making an item a phone raises no listing's standing), `TrendIsNearest`.

Properties of `dashboard`: `StartsWhole` (who is up has the schema; on a database that
has its tables nobody is kept out by another one's migration), `StartEnds`,
`ChangesAreTold` (a row changes only with the edit that says so, and only to what that
edit was given: "added" takes nobody's place and gives the part and the price asked
for, "updated" leaves no column that the edit wanted changed, "changed" leaves the part
alone, a removed row never comes back). It is about changes: that an answer still fits
the row when nothing changed is not promised (findings).

### Bounds

In `ingest`, two items, two stores, two days and two runs are the least that shows a second
item after a failed or crawled first, a source after a failed source, a day's
rerun and a batch across midnight. Chunks hold 1 or 2 rows instead of 500; the
batch of three rows has a full and a short chunk. Two sessions and cap 2 allow a
full cap, a refused call and both orders of any race. `MaxRuns`, `Passes` and
`LastDay` bound the runs, the reclassify commands and the calendar, in the guards
of `StartRun`, `LoadItems` and the midnights; the watchlist bounds itself.

In `adapters`, three categories are the least with one that matches a slug, one
below another and one neither; two fetches show the catalog kept; five products
are two full pages and a short one, and more than the cap on pages lets through.
In `login` the window is longer than the first delay and shorter than two, so that
failures grow old while tabs sleep, and two answers without delay, two with one
fit into four attempts. In `prices` four stores are `MIN_STORES_FOR_OUTLIERS` and four days
put a day of no rows beside the day a trend looks for. One redirect is the least with
a hop that is followed and one that is too many. `MaxFetches`, `MaxAttempts`,
`LastDay` and `MaxEdits` are the bounds in the guards.
`CHECK_DEADLOCK FALSE` everywhere: once those bounds are used up and the callers
are idle the system really rests.

### Fairness

`Ingest!Fairness` is weak fairness of `BeginFetch`, of the fetch ending (answer
or failure), of each statement and of COMMIT: the process runs one thread, the
HTTP client bounds attempts and waits, and the database answers. `QuickSearch`
has weak fairness of each call's own threads, for the same reasons. `Login` has
weak fairness of the scripts of the sessions and of time. `Dashboard` has weak
fairness of the steps of a start, and strong fairness of `AddColumn`, which other
processes disable again and again while they hold the table: PostgreSQL queues
requests for a lock. Failures, kills, stops, midnights, edits, new calls, typed
passwords and logouts are never fair: nothing relies on them.

### Findings

1. `quicksearch.py` calls the cap hard and the module lock "the whole story", but
   the cap is checked in one transaction and charged in another, and the module
   is also a command line: two processes can each take the last run.
2. The dashboard's design says that a failure for one store never aborts the
   others; an exception while saving one answer leaves `quick_search` at once.
3. The repository's README reads `crawl=full` as "the whole catalog was
   crawled"; a crawl that failed half-way prints it too.
4. `adapters/base.py` says that robots.txt is checked before fetching; when no sitemap
   names a category, the Tiendanube adapter gets the homepage without asking.
5. `LoginThrottle` and the README say that the right password never waits;
   `record(ok=True)` takes the lock that a guesser's `wait` sleeps with. The trace
   ends with one tab past the comparison and another asleep for two seconds.

Three more have no run of their own. They show in the actions named, and are why
two properties say no more than they do:

6. The policy says one second between successive requests. The hops of a redirect,
   up to five, follow each other without it (`Redirected`, `Pause`): `AttemptsSpaced`.
7. `services.py` says that an upsert sets price and item to the given values. The ORM
   writes only the columns that differ from what was read, so two upserts of one row,
   one with a new price and one with a new part, both say "updated" and leave a pair
   that nobody gave (`Written`, `UpdateBoth`).
8. `admin.py` says that "Guardado." would be a lie about a row deleted elsewhere. An
   edit of the price that the page already shows is "unchanged" without a look at the
   table, and the page shows that text also when the row has gone or has another price
   since (`SetPrice`, `Done`).

## 4. Proofs

Every invariant and action property of the runs that pass, and both refinements, are
theorems. TLAPS checks them for every value of the constants that satisfies the
assumptions named in the modules. Those that say more than a type: sources and
items of a run are listed once and a foreign commit adds one pair's rows
(`IngestAssumption`, `RadarAssumption`); there are finitely many categories,
no two of one path, and a store's lists are lists (`CrawlAssumption`,
`SitesAssumption`); the client's delay, retries and redirects are naturals (`ClientAssumption`); an answer is finite,
names a listing once and every price is positive (`PricesAssumption`). Hypotheses
of a single theorem are in its statement and named below.

`StorageProofs`: `InsertRowsThm`, what an INSERT keeps and adds, from the lemmas
`OverTables`, `ChunkOfRows` and `CellForIsCell` (the first row with a key exists
by well-foundedness of `<` on the naturals); `ToRowsAreRows` and
`ClassifiedAreRows` type what a fetch becomes; `EditTyped`: a command leaves a
watchlist.

`IngestProofs`, for any registry, catalogs, items, days,
number of runs, and whatever other writers commit within `Elsewhere`:

* `IngestIsTyped` - `Spec => []TypeOK`. The strengthening `IngestTyped` adds that
  kept catalogs are catalogs, that a run at work has a store and an item in
  hand (`Head` of an empty list would be no store), and that no rows are in hand
  outside a pair's transaction;
* `IngestKeepsSnapshots` - `Spec => KeepsSnapshots`, the refinement of
  `SnapshotStore`. A commit lays the open transaction over the table, so nothing
  may be in both: `OwnRows` says so, and that the transaction's rows all belong
  to the pair in hand. It holds because INSERT skips stored keys and because
  other writers stay clear of keys that the transaction holds;
* `BatchesStoredWhole` - `PairStoredWhole`. What was sent of a batch is in the
  table or in the transaction (`BatchOK`), and the pairs whose rows are committed
  lie behind the pair in hand (`BehindOK`). The second makes the invariant
  inductive: otherwise a new answer for a pair already stored could list keys
  that are not in the table. It rests on the lists of a run naming no source
  and no item twice (`ListsOK`), which for the sources is an assumption on the
  registry;
* `FailedSourceIsLeftAlone` - `FailedSourceLeftAlone`: no source still ahead has
  failed (`ReportOK`);
* `SuccessMeansComplete` - `SuccessIsComplete`. `ProgressOK` says how far a run is:
  the sources behind it are whole (asked for every item) or failed, the one in
  hand is counted for the items behind, those ahead are unasked. With
  `PairStoredWhole` a source that is whole has all its answers in the table;
* `ReportIsTheTable` - `ReportMatchesTable`. `CountsOK` says that a source's counter is
  the number of its rows this run committed; for a commit to add to both alike
  the open transaction must be finite and hold none of them (`OwnRows` again);
* `OneCrawl` - `OneCrawlPerRun`. All that is on its way from a crawled source, in
  hand, in the transaction or committed by this run, is in the catalog kept
  (`CatalogInv`). It assumes that a catalog names a product once (`ListedOnce`),
  which the crawl's set of seen ids makes true.

`QuickSearchProofs`, each for any number of sessions, stores, processes and days:

* `QuickSearchTyped` - `Spec => []TypeOK`, one step per action;
* `OneCallPerProcess` - a call that is past `Call` and not yet gone has the lock
  of its process taken, and is the only one there. This is the invariant the next
  two rest on;
* `CapIsHard` - with one process, `CapHolds`. The cap alone is not inductive: a
  call between the check and the record still has to be covered. The
  strengthening says that while the caller is there the day it checked has room,
  and that no later day has any run yet, so a midnight between check and record
  only makes more room. The assumption `SingleProcess` is needed: without it the
  run `quick_search_two_processes` refutes the statement;
* `VisitsArePaid` - `VisitsAreCharged`, for any number of processes: the visits
  of a day plus the calls that have recorded and not yet launched never exceed
  the recorded runs;
* `OneVisitor` - with one process, `OneVisitorPerStore`: workers fetch only
  while their call is inside;
* `ReportsAreTrue` - `ReportIsTrue`, for any number of processes. Rows of stores called
  stored are in the table; of the store being saved, those sent are there or in
  the open transaction (`SavedOK`). Tables only grow, whoever commits;
* `QuickSearchKeepsSnapshots` - the quick searches implement `SnapshotStore`, too.

`RadarProofs` composes. `DailyRunsAmongThem` and `QuickSearchRunsAmongThem` show step
by step that the writers together implement `Ingest`'s and `QuickSearch`'s own
specifications, what the others do to the table being a step of the environment
there. What was proved of the parts then holds of the whole
(`DailyPromisesAmongThem`, `QuickPromisesAmongThem`; for the cap and the one visitor
with all callers in one process, as before). Proved of the whole:

* `RadarIsTyped` - `TypeOK`;
* `RelabelledRowsStay` - `RelabelSticks`: a row relabelled under a kind keeps that label
  while the kind stays. What the command has read has, or is about to get, the label
  of the kind it loaded (`ReadOK`), and the other writers only add rows;
* `RadarKeepsSnapshots` - `KeepsSnapshots`, the refinement of `SnapshotStore`. It needs
  to know whose rows are whose: no key waits both in the daily run's transaction
  and in a quick search's (`HeldApart`).

`AdaptersProofs`, for any store, budget, caps, number of retries and of fetches. The
inductive invariant `AdaptersInv` (`AdaptersInductive`) has three parts. `CallOK`: the
call in hand is the one its stage waits for, so that an answer is read as what it
is. `SentOK`: the requests sent, hops included, fit the calls begun. And, by platform, `CrawlInv`
(the categories visited are the first of the plan, and what of their pages was
read is in the catalog) or `SearchInv` (what was got is what lies before the cursor).

* `TypesCorrect` - `TypeOK`; `RequestsStayBounded` - `RequestsBounded`;
* `OnlyAllowedPages` - `PagesAllowed`: the plan holds only categories that robots.txt
  allowed when it was made;
* `BestCategoriesFirst` - `BestFirst`. It rests on `CandidatesAre`, what sorting, slug after
  slug of moving to the front, the cut at the cap and the filter make of any set of
  categories: they are in order of rank and all that was cut off ranks behind;
* `FullCrawlsAreWhole` - `FullCrawlIsWhole`; `SkipsReported` - `SkipsReportedOnce`;
* `SearchesAreWhole` - `SearchIsWhole`, for a store that pages as its API says (`Paginates`), at
  whatever size it clamps the pages to;
* `EveryAttemptIsSpaced` - `AttemptsSpaced`, an action property: once a request was sent
  (`made`) the pause of an attempt has the courtesy delay in it, and backoff comes on
  top. Hops are requests, so the attempt after them is as far behind the last hop.

Lists of any length need an induction, which the library's theorems, with their
operator parameter, do not give here. It is made of what they do give: a set of
naturals that has zero and all successors is `Nat`, since a least counterexample
would have none (`AllNaturals`, `Smallest`, from `WFMin` and `NatLessThanWellFounded`).

`AnalysisProofs`, for any word lists, titles, stores, prices, days and windows. The
invariant of the tables is short (`PricesInv`: finitely many rows, each with a
positive price and the label its title gets); the work is in the operators.

* `PricesAreTyped` - `TypeOK`: one row for each store, listing and day;
* `PhonesAreStricter` - `PhoneIsStricter`, from `WaysToLabel`;
* `GroupKeepsAnOffer`, and from it `NoGroupIsAllOutliers` - `NeverAllOutliers`. The upper
  middle offer lies within half and double of the median (`UpperMiddleStays`), as it
  is at least, and at most twice, the mean of the two in the middle. It is why
  `next()` in `report.py` finds one. That a group can be sorted by price, ties and
  all, is `SortedExists`, by a least counterexample again;
* `FairPricesAreMedians` - `FairPriceIsMedian`: positions below and above are counted by
  naming them with the numbers of an interval (`AtMost`);
* `MarginsRestOnSure` - `MarginRestsOnSure`: from `MatchIsSure`, what the label "match"
  says of a title, and from the row a page's offer comes from (`RowsOfADay`);
* `TrendsAreNearest` - `TrendIsNearest`: the days in reach sorted by distance have the
  nearest day with a price before every other one (`NearestFirstIs`); for the arrow it
  matters that a fair price is never zero (`FairPriceOnIs`).

`LoginProofs`, for any number of tabs and browsers, any window, cap and number of free
failures:

* `GuessesAreSpaced` - `AnswersSpaced`. What a sleeper has slept and what is left of its
  sleep cover its delay (`SleepCovers`), and the failures the delay was reckoned
  from stay as they are while it has the lock; only one sleeps (`OneSleeper`);
* `LogoutIsKept` - `LogoutSticks`: who was logged out and has not been let in since still
  has the flag that makes the session ignore the cookie (`LeftOut`);
* `LoginIsTyped` - `TypeOK`: the recorded failures are in order of time, which pruning
  relies on, and a delay is between none and the cap. That a power of two is
  positive is proved by counting the subsets of a set (`PowersArePositive`);
* `GuessesAreFew` - `FreeAnswersAreFew`, for finitely many sessions, at least one, and a
  positive cap. The bound is not inductive as it stands: in every stretch of time the
  answers without delay are at most the recorded failures and the sessions that are
  between their wait and their record (`Backed`).

`DashboardProofs`, for any number of processes:

* `EveryoneStartsWhole` - `StartsWhole`. The schema only moves forward, each stage of a
  start says what the database has by then, and one that lost the race for the
  column finds it (`SetUpInv`);
* `DashboardIsTyped` - `TypeOK`, and `NoChangeUntold` - `ChangesAreTold`, for finitely many
  writers. Both rest on `DashboardInv`: who edits has started, a row has its table,
  what an edit holds is what it read, and every id given out or still to come is
  paid for by an edit begun, which is what bounds the ids.

Only model-checked: liveness under fairness (`RunEnds`, `LockComesFree`, `StartEnds`,
`RightPasswordEnters`), which is out of the prover's reach, as is ENABLED. The
properties the violation runs refute are of course not proved. No module
declares a RECURSIVE operator.

## 5. Not modelled, and what is left

* Demo data (`dashboard/demo.py`): a generator of sample rows into a SQLite file of
  its own. Two sessions that reseed it at midnight can collide; no other part
  reads it.
* Pages, report and texts: rendering, distances, formatting, translations. What they
  show is `Analysis` and `Prices`. The geolocation opt-in of the detail page is a
  flag of one tab, until its browser answers.
* YAML validation of the registry; JSON, HTML and gzip parsing; the signature of the
  cookie and the comparison of passwords; scores, reasons and the fuzzy ratio of
  the relevance filter; engine URLs and TLS arguments.
* `save_listings`, rows without a label: no caller outside the tests.

Limits of what is modelled: a Wix store's `totalCount` is the same on all pages of a
search, so `SearchIsWhole` says nothing of a catalog that grows between two pages;
`MarginRestsOnSure` says that the part of a margin is sure and sane, not that it is
the store's cheapest sure one, which a cheaper doubtful listing of that store hides.

Left for later, none of which adds a component: two reclassify commands at once;
`Radar` with liveness (two transactions that wait for each other, which PostgreSQL
ends by aborting one).
