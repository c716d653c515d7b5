# Overage in TLA+

Overage is a FastAPI proxy between an application and its LLM provider. It
forwards each call, gives the answer back, and afterwards records the call,
estimates independently how many reasoning tokens it took, and raises an alert
when the provider's reports drift from the estimates. This directory specifies
it, checks the specifications with TLC on small instances, and proves the
central facts with TLAPS for all values of the parameters.

Paths are relative to the repository. "Task" is the background task
`_record_and_estimate` of one proxied call.

## The system

| Component | Code | State it keeps | Operations | What makes it correct |
|---|---|---|---|---|
| Rate limiter | `proxy/api/auth.py:25-54` | instants per key, in memory | check a request | at most `limit` admissions in any 60 s; a refusal costs nothing |
| API key check | `proxy/api/auth.py:57-115` | `api_keys.last_used_at` | authenticate | answered requests touch the key, those that end in an error raised do not |
| Sessions, engine | `proxy/storage/database.py` | the pool, one transaction per session | begin, commit, roll back | what is taken is given back on every path |
| Proxy route | `proxy/api/routes.py:94-173` | none | forward, answer, queue the task | an unserved call is never recorded, a served one is unless its own recording fails |
| Background recording | `routes.py:695-791`, `estimation/alert_persistence.py` | calls, estimates, alerts | store, estimate, raise an alert | all of it or nothing; one active alert per user |
| Aggregator | `estimation/aggregator.py` | per user, 100 discrepancies, in memory | combine two signals, record, detect | the window is the user's latest calls; signals tell one story |
| Alerts | `routes.py:587-633` | `discrepancy_alerts` | list, acknowledge | acknowledged once, by its own user |
| Timing estimator | `estimation/timing.py` | per model, 1000 points, in memory | estimate, update | each model's own latest points; the fit takes over for good |
| PALACE estimator | `estimation/palace.py` | the loaded model | load, predict | the interval holds the estimate |
| Provider adapters | `providers/*.py` | a connection pool | forward, forward a stream | what is recorded is what was last reported; the client gets the provider's events |
| Read API | `routes.py:182-583` | none | list, detail, summary, timeseries, report | pages and totals agree with the rows |
| Accounts | `routes.py:642-687` | `users`, `api_keys` | register, issue a key | e-mails unique; a key works once it is shown |
| Lifecycle | `main.py`, `middleware/`, `config.py` | the engine, the estimators | start, stop, map errors to statuses | nothing is used before it exists or after it is closed |
| Schema, migrations | `storage/models.py`, `storage/migrations/` | the tables, the revision | upgrade | all of a revision or nothing |
| Reports | `reporting/`, `scripts/generate_report.py` | none | aggregate, lay out a PDF | parts agree with totals |
| Dashboard | `dashboard/app.py` | results cached for all sessions | fetch, show, refresh | everybody sees their own data, recent enough |
| SDK client | `sdk/overage/client.py` | none | rewrite URLs and headers | |
| Scripts | `scripts/` | none | fill or drive the service | |

How they interact. A request enters through `validate_api_key`, which opens a
session, consults the rate limiter and writes `last_used_at`. The route runs in
the same session and transaction, and awaits the provider inside it. It queues
the task, which runs after the response in a session of its own, reads and fills
the timing window and the aggregator's window (memory shared by all tasks of the
process), and reads and writes the alert table, which `acknowledge_alert` also
writes. Readers of all this are other requests of the same kind, the report
script and, over HTTP, the dashboard. The lifespan of the process creates engine
and schema before the first request and closes the engine after the last.
Everything in memory dies with the process; what was committed does not.

What is hard here: tasks that interleave at every `await`; a transaction that
spans the call to a third party; memory updated before the transaction whose
work it reflects; exceptions that a task logs and drops; a restart between any
two steps; several statements that should see one state; a cache shared by
sessions with different settings; and two databases, SQLite and Postgres, and
two FastAPI behaviours, under which the same code waits, and fails, differently.
The list, each at its line, is `hazards` in `PROJECT.json`.

## The modules

Where the same code runs in several surroundings, one model has them all: a
variable is chosen by `Init` and never changes (`deployment` in `ProxyRequest`
and `Accounts`, `backend` in `Reading`, `settings` in `Lifecycle`, `world` in
`Dashboard`). Definitions marked *Variant* are slips the code could have made in
place of the definition that follows; each is refuted by a property of some run
(`mutants` in `PROJECT.json`), and nothing else uses them. A variable marked
*history* is read by properties and bounds only.

**`RateLimiter`** is `_check_rate_limit`. `windows` is `_rate_limit_windows`; the
order of a list never matters to the code, so a window is a set of admissions.
`CheckAdmits` and `CheckRaises` are the two ways out of the function, both of
which store the eviction first; `Tick` moves the monotonic clock; `Restart`
empties the windows. **`Quota`** is its promise: admit exactly when fewer than
`Limit` requests of the key were admitted in the last `Window` of this process's
life. It keeps no window; `KeepsQuota` says that the code implements it, with
`admitted` and `verdict` for its variables and `windows` hidden.

**`Recording`** is the task, the aggregator's window, the alert table and
`acknowledge_alert`. An action is what runs between two `await`s that really
suspend (the asyncio locks of the estimators are never held over a suspension,
so taking one is no step):

| Action | Code |
|---|---|
| `Schedule` | `add_task` in `proxy_request` |
| `Insert` | `session.add(call_log)`, `flush` |
| `Estimate` | from the return of `predict` to the next statement: estimate added to the session, `record_discrepancy`, `detect_sustained_discrepancy` |
| `CountActive` | the `SELECT count` of active alerts, and the alert added to the session |
| `Commit` | `session.commit()` |
| `TaskFails` | a statement, or the work between two, raises; `except Exception` logs |
| `AckBegin` | the `UPDATE` in `validate_api_key` starts the request's transaction |
| `AckFinds`, `AckNotFound` | the `SELECT` by id and user, and the 404 |
| `AckCommit` | the write unless already acknowledged, and `get_db`'s commit |
| `AckFails` | a statement raises, `get_db` rolls back |
| `Restart` | the process dies and comes back |

`window[u]` holds the calls whose discrepancies are in the user's deque, and
`disc[c]` the discrepancy, so that an alert can be traced to the calls it counts.
A discrepancy is any of `Discrepancies`; how it comes about is `Signals`. An
alert is identified by the call whose task inserted it. Every write takes the
locks of `Backend`: on a SQLite file the first `INSERT` or `UPDATE` of a
transaction takes the database to the end of the transaction; on Postgres an
`UPDATE` takes its row, an `INSERT` nothing that matters here. **`AlertBook`** is
the promise of the alert table: raised only for a user with none outstanding,
acknowledged once and by its own user, never reopened or removed.
`Recording!KeepsBook` maps the table to it.

**`ProxyRequest`** is a request from authentication to the end of its session and
of its task: the pool (`conns`), the locks, the client's `status`, what the
provider `billed`, which `last_used_at` updates are committed (`touched`), which
calls are `stored`. Every early return and error of `validate_api_key`,
`proxy_request` and `get_db` is an action or a branch: `Refuse` (401, 429),
`PoolTimeout`, `LockTimeout`, `CommitFails`, and `HandlerFails` for what a handler
raises (400, 500, 502, 504 of `proxy_request`; 404, 422 and 500 of other routes).
`get_db` rolls back what is raised and commits what is returned, so the 404 that
`get_call_detail` returns (`routes.py:252`) is a branch of `Read`; `answer` is the
status the handler left the request with. `Invalid` is FastAPI's own 422, for
which the session is committed up to 0.117 and rolled back afterwards. The task
is reduced to connect, insert, commit, give up (`TaskGivesUp`: pool, lock, COMMIT)
or raise (`TaskRaises`: `linregress` on equal latencies, a count that is null);
its inside is `Recording`. `ExitOrder` is FastAPI's: up to 0.117 it leaves a
dependency with `yield` before it sends the response, from 0.118 on after the
response and its background tasks, and `pyproject.toml:32` admits both.

**`Accounts`** is `register_user` and `generate_api_key`, statement by statement:
the `SELECT` by e-mail (`RegisterChecks`), the `INSERT` at flush that the unique
index may refuse (`RegisterInserts`), the use of a key (`UseKey`), and the end of
the session before the answer (`CommitFirst`) or after it (`CommitLast`). `shown`
is what clients know, `users` and `keys` what is committed.

**`Timing`** is the timing estimator: windows, the table of default rates with its
prefix lookup, and the least-squares fit, in exact arithmetic. Where an exact
quotient is whole, `int()` of the floating point one may be a token less;
`Truncated` admits both. `EstimateAndUpdate` is one action because nothing
between `estimate` and `profile_update` suspends. `RegressionRaises` is
`linregress` on equal latencies, which gives up the task.

**`Signals`** is the estimate of one call: `LoadModel`, the placeholder,
`PredictModel` (the parser of the model's text, the interval), `PredictFails`, and
`aggregate_single_call` with discrepancy, price and dollars. The number a model
would produce is an input. Numbers whose product binary floating point puts just
below a whole one are given to the module as `ShortSums` and `ShortHighs`: they
are what Python computes.

**`StreamUsage`** is one exchange with a provider, through either adapter. A line
of a stream is what the parser tells apart; `ReadLine` reads one, `StreamEnds`
replays what was kept, and `PlainAnswer`, `PlainFails`, `StreamFails` are the other
ways an exchange ends, with the status each error becomes; a line of JSON that is
no object, or a null message or usage, raises what nothing translates (500). A
count may be missing, a number or `Null`, and only the reasoning count turns a
null into 0. An event has one data line, as both providers send it
(`MayFollow`); one of several would be split by the blank line of `openai.py:210`.

**`Reading`** has readers, whose requests are sequences of statements (`Plan`), and
tasks that insert and commit between them. On SQLite a request's own `UPDATE` of
`last_used_at` keeps everyone else from writing until it ends; on Postgres each
statement sees what is committed when it starts. `Left` drops the statements that
are not sent (the estimation of a call that is not there, the estimations of an
empty page); `Valid` has the requests that are refused before the first. Sums,
groups, pages and the discrepancy of an aggregate are computed as in `routes.py`
and `reporting/data.py`.

**`Lifecycle`** is the process: the start in the order of `lifespan`, alembic's
runs (one statement at a time; one transaction on Postgres, each statement
committed on SQLite; the stamp last), whoever else migrates, `demo_data.py` as it
looks for tables (`DemoChecks`) and creates them (`DemoCreates`), the drain at
shutdown, kills and outages, and per request the status, the body and whether it
has an `X-Request-ID`.

**`Dashboard`** is the script as Streamlit runs it: `Begins` (from the top, at an
interaction or when `AutoRefresh` wakes up), `Fetch` (one cached fetcher), `Panels`,
and `Tick` for 30 seconds. A fetcher takes its query from the sidebar and not from
its arguments, which only say what the cache tells apart: `Asked` and `Args` are
therefore two definitions. `fetch_calls` stands for the two fetchers declared,
called and read as it is (`fetch_timeseries`, `fetch_call_detail`).

The `MC` modules name the instances for TLC; `RateLimiter` and `Quota` need none.
The theorems are in seven modules `...Proofs` and in `DataTheorems`:
`EstimationProofs` is about `Timing` and `Signals`, `ForwardingProofs` about
`ProxyRequest` and `StreamUsage`, `ViewProofs` about `Reading` and `Dashboard`, each
other one about the module it is named for. Where one proof module extends two
models, the second has names of its own for `Init`, `Next` and `Spec`
(`EstimateSpec`, `ExchangeSpec`, `ReadingSpec`).

## The runs

| Run | Instance | Shows |
|---|---|---|
| `rate_limiter` | 2 keys, limit 2, window 3, clock to 5, 1 restart | `TypeOK`, `WindowBound`, `KeepsQuota`: the boundary instant, bursts over two windows, refusals and a restart |
| `recording` | SQLite, 2 calls of one user and 1 of another, 2 acknowledgements with one key, window 2, failing statements, 1 restart, fairness | `TypeOK`, `OneActiveAlert`, `AlertsAreBacked`, `AlertsCountStoredCalls`, `KeepsBook`, `AckIsFinal`, `EveryTaskEnds`, `DriftIsRaised` |
| `request` | 5 requests (2 proxied, 1 for a call's detail, 2 for other routes, one of them with a bad key), fairness, in three deployments: SQLite, sessions closed first, pool 2, failing commits; SQLite, closed last, pool 3, failing commits; Postgres, closed last, pool 10 | `TypeOK`, `StoredWasServed`, `NothingLeaks`, `TouchedIffAnswered`, `EveryRequestEnds`, `ServedIsStored` |
| `timing` | 2 models (one found by prefix, one not in the table), window 3, fitted from 2 points, up to 4 points, 1 restart | `WindowIsRecent`, `FittedOnceLearned`, `SteadyIsReproduced` |
| `signals` | 3 prompts, 4 outputs, 6 reports, 6 timing estimates, 2 models of two providers | `IntervalHoldsEstimate`, `CombinedIsBetween`, `OneStory` |
| `streams` | streams of up to 8 lines, from 9 kinds per provider, nulls among the counts, and every plain exchange | `UsageIsLastReported`, `ReplayKeepsEvents` |
| `accounts` | 4 requests, 2 e-mails, failing commits, 1 restart, in two deployments: SQLite closed first, Postgres closed last | `TypeOK`, `EmailsAreUnique`, `ShownKeyWorks`, `AccountsCanBeEntered` |
| `reading` | 4 calls (one of another user, one without an estimate), 1 reader, pages of 2, 12 queries (every `group_by`, and three that are refused), both backends | `PartsAddUp`, `AggregateIsBetween`, `NothingSkipped`, `DetailIsWhole` |
| `lifecycle` | 6 configurations, 2 tables, 2 requests, 2 starts and an operator who migrates | `SchemaWhenServing`, `MigrationIsWhole`, `StopLosesNoCall` |
| `dashboard` | 3 worlds: one session whose proxy comes and goes; one whose data changes; two sessions on one cache; long life 3 ticks | `ShownIsAsAsked`, `AutoIsRecent`, `AutoShowsLatest`, `FailureExpires` |
| `alert_race` | 2 calls of one user on Postgres | violates `OneActiveAlert` |
| `self_block` | 1 request on SQLite, session closed last | violates `TaskStoresCall` |

Why the bounds are enough. A breach of the rate limit needs limit + 1 requests
within a window, and one older entry to evict: two ticks past a window of three,
with the limit at two, have both. A second alert needs two drifting calls of one
user with or without an acknowledgement between them, and a mistaken user a
third; a window of two is full with both, and discrepancies of -20 and 10 stay
below the threshold beside each other, their magnitudes do not. On SQLite no task
can push into a window between another's examination and its count, and that
window is not evicted from: Postgres and longer windows are the theorem
`EvidenceIsReal`. With a pool of three,
three requests hold every connection while one of them has the lock the others
wait for and its own task finds no connection; once another has given up, the
task connects and waits for that lock in its turn. A window of three, fitted from
two points, is fitted, filled and evicted from by four reports. A stream of eight
lines has four events, enough to report a usage, part of another, none, and break
off. Two e-mails and four requests let two registrations race while a third uses
what the first was shown. Three calls of a user fill one page and begin the next
while the third commits out of order. Two tables have a first statement, a last
one, and two between which a run may be cut off; two starts and an operator are
three migrators. A long life of three ticks has an age that is too old for a page
that refreshes itself and not for another. `MaxNow`, `MaxBoots`, `MaxPoints`,
`MaxLines`, `MaxTop` and `MaxPeriod` (both in the code), `changes` of a world and the sets of
inputs are all the bounds; `Threshold` 15 is the default, with discrepancies on
both sides of it; windows are scaled from 100 and 1000 to 2 and 3.

Properties that hold only in part say so in their own formula:

- `AlertsCountStoredCalls` excepts calls whose own task failed after the window
  had counted them: those stay in the window until they are evicted.
- `AckIsFinal` is checked on SQLite. On Postgres, with two keys of one user, no
  lock covers the read, and the later request overwrites `acknowledged_at`.
- `TouchedIffAnswered` needs `CleanExit`: where a COMMIT may fail after the
  response, the client has its answer and the use of the key is lost.
- `ServedIsStored` is for `Roomy` deployments (Postgres, a connection for every
  session, no COMMIT that fails) and excepts tasks whose own work raises, which
  the code logs and drops (`routes.py:790-791`) on any database.
- `ShownKeyWorks` is for sessions that end before the response, and
  `AccountsCanBeEntered` for sessions that end after it: each order has what the
  other excludes, an account whose key nobody saw, or a key with no row.
- `PartsAddUp` is for SQLite. On Postgres a call that commits between two
  statements of one summary is in the groups and not in the total.
- `AggregateIsBetween` is for users whose calls are all estimated, none of them at 0
  tokens: such a row has discrepancy 0 whatever it reports (`aggregator.py:151-157`),
  while its report counts in the aggregate, which may then lie above every row.
- `MigrationIsWhole` excepts demo data, and on SQLite runs that are cut off.
- `AutoShowsLatest` is for a proxy that keeps answering, and `StopLosesNoCall` for
  a process that is not killed and a database that stays in reach. It says that a
  shutdown cuts off no task, not that every task stores: `stage` is `failed` when
  the task ends by itself, by its own request's lock (`self_block`) or its own
  exception.

Fairness. In `Recording`, weak fairness for what tasks and begun requests do when
no statement fails; in `ProxyRequest`, for each begun request and each task;
in `Lifecycle`, for the answer and the two steps of the task; in `Dashboard`, for
the script, its sleep and the passing of time. The reasons: asyncio runs every
ready callback, every wait for SQLite's lock or the pool has a limit of 30 s,
Postgres grants a row lock when its holder ends, `httpx` ends a call to a provider
with an answer or a timeout, and Streamlit runs a script to its end. No client or
user is obliged to do anything, no statement is obliged to fail, and nobody is
obliged to start, stop or migrate. Weak fairness suffices where a waiter may give
up (`TaskGivesUp`, `LockTimeout`); where none may (Postgres' row lock in
`EveryRequestEnds`), the finitely many requests that can hold the lock end before it.

## What the violated runs show

- `alert_race`: on Postgres two tasks of a user both count zero active alerts and
  both insert one. `proxy/estimation/alert_persistence.py:5-6` says it inserts "a
  row exactly once per active alert". SQLite's single writer hides it.
- `self_block`: with FastAPI 0.118 or later on a SQLite file, a task waits for the
  lock of its own request, times out, and the call is never stored, where
  `proxy/api/routes.py:703` says "store call log, run estimation, store result".

Further places where a document, comment or test and the code differ, met while
modelling. They are part of the models; no run is spent on them.

| Said | Done |
|---|---|
| `proxy/api/auth.py:109`: the update of `last_used_at` is "fire-and-forget, don't block the response" | it is awaited, and its lock is held through the provider's call: requests with one key (Postgres), or of anyone (SQLite), wait for each other |
| `ARCHITECTURE.md:430`: tokens are latency times a rate | once fitted (`timing.py:188`), the line is that of the provider's own reports; a provider that pads by one factor is reproduced with its padding |
| `proxy/tests/test_timing.py:71`: a dated name takes the rate of its base model | the first row that is a prefix counts (`timing.py:230`): a dated `o3-mini` takes the rate of `o3` |
| `ARCHITECTURE.md:446`: a weighted average | truncated by `int` (`aggregator.py:145`), at most a token below both signals |
| `aggregator.py:69`: signals agree within 20 % | a signal of 0 agrees with anything (`aggregator.py:167`) |
| `aggregator.py:298`: a call without an estimate is honoring | the summary's SQL (`routes.py:313`) does not count it |
| `PRD.md:448`: 502 for an error of the provider | for a stream, reading the body in the handler raises `ResponseNotRead` (`openai.py:239`, `anthropic.py:229`): 500 |
| `base.py:139`: usage is taken from the final chunk | from whichever event reported it last; a stream that ends early is recorded with what it had said, or zeros |
| `ARCHITECTURE.md:193`: responses are passed on unmodified | a stream of OpenAI's gets a second blank line after each data line; clients see the same events (`ReplayKeepsEvents`) |
| `docs/API.md:36`: 409 for an e-mail that is taken | when two registrations race, the second gets 500, from the flush at `routes.py:660` |
| `docs/API.md:34`: a key is shown once, to be kept | where sessions close last, it was shown before its row was committed, and may be refused |
| `routes.py:703`: the task stores the call, runs the estimation, stores its result | a null count (`anthropic.py:252`, `routes.py:743`) or latencies that are all equal (`timing.py:184`) raise inside it, and the call is lost with its estimate |
| `routes.py:451`: aggregates with a breakdown | two statements: on Postgres they may not add up |
| `README.md:111-118`: `make demo`, then `make run` | `demo_data.py:297` creates the tables without a revision, and the start's alembic fails on them |
| `ARCHITECTURE.md:712`: 503 when the database is down | 200 with `degraded` (`main.py:211`), or 500 when asyncpg's `OSError` is not caught |
| `proxy/tests/test_api.py:46`: `X-Request-ID` on every response | not on a 500 of the handler at `main.py:201`, which answers outside of the middleware |
| `dashboard/app.py:137`: refreshes every 30 seconds | alerts are cached for 60 s, the report for 300 s, and after a failure (`app.py:322`) it stops |
| `dashboard/app.py:546`: "No calls recorded yet" | also shown for a failure that is cached (`app.py:220`) |

## What is proved

Each theorem holds for every value of the constants that satisfies the module's
`...Assumption`. Each but those of `DataTheorems` comes from an inductive invariant,
kept by every action, that implies the property. Every invariant and every action
property of a passing run is proved.

`RateLimiterProofs`: `TypeCorrect`, `NeverOverLimit`, `ImplementsQuota`, from
`WindowInv`. `WindowBound` alone is not inductive, since it does not mention the
list the code counts; `ListInv` ties the list to the history: everything it holds
was admitted in this life, and everything of this life that is recent enough to
matter is in it. Then `Kept(k)` is exactly what `Quota` counts (`KeptIsRecent`), and
the refinement follows step by step.

`RecordingProofs`, with failing statements and restarts: `TypeCorrect` and
`StoredTogether` (a call and its estimate are stored together) on either backend,
from `BaseInv`, which adds that a row exists only after its task's commit and is
unacknowledged exactly while active, and that a row a request has found stays its
user's. `NeverTwoActive` and `ImplementsBook` on SQLite, where `alert_race` cannot
happen: by mutual exclusion (`LockInv`: a transaction is open exactly while its
owner holds the database), a count of zero is still zero when the alert is
inserted (`CountInv`), and a status that was read is still the status when it is
written (`ReadInv`).

Also there: `EvidenceIsReal` (`AlertsAreBacked`, on either backend, for windows of
any size), from `EvidenceInv`: windows hold distinct estimated calls of their user
(`WindowInv`), a task that detected a drift has kept the window that showed it
(`DriftInv`), and its alert rests on that window (`AlertInv`). The lemma
`PushedHolds` is the step of a full window. `AlertsRestOnTheTrail`
(`AlertsCountStoredCalls`, on SQLite), from `TrailInv`: what a window counts is
stored, being stored by the one open transaction, or of a task that failed.
`AcknowledgedOnce` (`AckIsFinal`, on SQLite).

`ForwardingProofs`, with commits that may fail: `TypeCorrect`, `NoUnservedCall`,
`NeverLeaks`, and under `CleanExit` `TouchedByAnswered`. `ServedInv` relates the stage
of a request to that of its task (a task is due only after the response, and its
answer is then final); `ConnectedInv` adds that a session about to write has its
connection and one left before the response has returned it; `TouchInv` says at
every stage whether the update is committed.

Its second part is `StreamUsage`, for streams of any lines and any length.
`HoldsLastUsage` (`UsageIsLastReported`) follows a line at a time: the last line that
said something of a field is the new one, if it says it, and else the one before
(`SaidLast`). `ReplaysEveryEvent` (`ReplayKeepsEvents`) is not inductive, since it
speaks of ended streams only. `ReplayInv` says what holds before every line: what is
kept makes the client dispatch what the provider's lines would, except that
OpenAI's adapter is one blank line ahead after a data line. What a client makes of a
sequence is a recursive function; `OneMoreLine` is its step, and `BlankTwice` says
that a second blank line is none. `ExchangeTypeCorrect` is the type invariant: every
exchange ends with a status the proxy knows and three counts, whole or null.

`AccountsProofs`, with failing commits and restarts: `TypeCorrect`, `NeverTwice`
(a writer for an e-mail is alone with it, `WritersInv`), `ShownIsStored`
(`KeysInv`: a session that ended first has its key stored when it answers),
`NobodyIsLockedOut` (`EntryInv`: one that ends last has shown its key before it
commits).

`EstimationProofs`: `KeepsTheLatest` (`WindowIsRecent`) and `NeverUnlearned`
(`FittedOnceLearned`), for windows of any size; the lemma `LastNStep` says that the
last n of a longer history are the last n of the old last n with the new point.
`SteadyIsNeverFlagged` (`SteadyIsReproduced`) is about the least-squares line. If every
point has tokens · L = T · latency, the sums over the window do too
(`SumCombines`), so the predicted quotient, whatever its denominator, is exactly T
(`PredictsTheLine`), and `int()` takes off a token at most. The window that was
fitted is among the reports the property speaks of, also when the new one has
evicted the oldest (`WindowAmongSeen`). `TypeCorrect`: an estimate is a natural number,
a fitted window having whole sums and a denominator that is not 0 (`PredictedIsInt`).

In `Signals` a row is computed from the call and PALACE's result in one step, so the
invariant needed is what that result may be (`PalaceInv`). `HonestIsHonored` rests on
`IntervalIs` (0.85 e, truncated, is at most e, and 1.15 e, truncated and perhaps one
less, is at least e), `CombinesBetween` on `WeightedIs`, and `TellsOneStory` on
`NearestIs`: rounding keeps the sign of a quotient and keeps it above a whole bound.
`EstimateTypeCorrect` is the type of what is stored.

`ViewProofs`, for any calls, data, readers and lengths of pages. `ReadInv` is the type
invariant and the shape of a request: its plan is a whole one or what is left of one,
and nothing was got before a whole one. From it:

- `DetailsAreWhole` (`DetailIsWhole`), on either database: a call that was found, by
  itself or on a page, is committed, and its estimate with it (`DetailInv`).
- `PagesSkipNothing` (`NothingSkipped`): of the calls that were there at the first
  page, one not seen yet has at least as many newer rows as the offset has passed
  (`PageInv`). A commit only adds rows, wherever its timestamp falls
  (`RowsGrow`), so that number never shrinks; and a page that is not full leaves
  nobody behind it (`PageLength`).
- `PartsMakeTheWhole` (`PartsAddUp`), on SQLite: a request is alone while it lasts
  (`AloneInv`), so all it has got is about the rows there are (`Current`); groups
  by any key add up to the whole (`GroupsAddUp`, from `SumOfParts`).
- `AggregatesLieBetween` (`AggregateIsBetween`): a rounded discrepancy is at least d
  exactly if 2·10000·(reported − estimated) is at least (2d − 1)·estimated
  (`DiscrepancyAtLeast`), which is linear in the row and so carries over to the sums
  (`SumCombines`, `SumSign`).

The same module, for the dashboard and any number of sessions: `TypeCorrect`,
`ShowsItsOwn` (`EntriesAnswer`: an entry answers the query of every session that would
find it, because `Args` tells apart whatever `Asked` does), `NeverTooOld`
(`EntriesAreFresh`: no entry outlives the ttl its fetcher was last declared with, and
another ttl starts an empty cache).

`DataTheorems` has what these proofs need of sums over finite sets (`SumRemoves`,
`SumCombines`, `SumSign`, `SumOfParts`, `CountIsSum`), of whole division, of the
smallest and largest members of finite sets, and `PageLength`. The library's
induction theorems take an operator, which the provers cannot instantiate; here
induction is over a set instead (`NatInd`, `FiniteInd`: a set that holds every number,
or subset, whose predecessors it holds, holds all), and the sum of the community
modules is unfolded to a recursive function first (`SumUnfolds`, `AddsExists`,
`AddsUnique`).

`LifecycleProofs`: `TypeCorrect`, `ServesOnSchema` (`SchemaInv`: a stamp, and a start
that went on, mean the whole schema) and `MigratesWhole` (`LeaderInv`: on SQLite
what is there was created by one migrator that is still at it, and every other
one fails at its first statement; on Postgres it is all or nothing), for any
tables and any number of starts.

Model-checked only: the seven liveness properties, `EveryTaskEnds`, `DriftIsRaised`,
`EveryRequestEnds`, `ServedIsStored`, `StopLosesNoCall`, `AutoShowsLatest` and
`FailureExpires`. They rest on fairness, hence on `ENABLED`, which is out of the
prover's reach.

## What is not modelled, and the plan

Left out, with the reason:

- The SDK client: it rewrites one call at a time and keeps nothing.
- Page layout, PDF, charts, widgets and texts: no behaviour depends on them.
- Logging, Sentry, CORS, measured times, R² and confidence: nothing reads them back.
- Tokenising and inference of the PALACE model: external; its number is an input.
- Hashing and generation of keys: random keys are taken never to collide.
- Widths and indexes of columns, and the daily series' time zone (`func.date`):
  properties of the databases, which SQLite and Postgres decide differently.
- The request's header choice for Anthropic and the prompt's text.
- The scripts that drive the service as a client would, or measure it.

What is left of the plan: a module `Service` that composes `ProxyRequest` and
`Recording`, with the former's task stages implemented by the latter's; `Recording`
with two keys on Postgres, to bound by how much an acknowledgement can move.
