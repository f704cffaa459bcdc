# A TLA+ model of the EON backend

EON is the backend of an EV-charging map: a FastAPI process (several under
Gunicorn) in front of PostgreSQL/PostGIS and Redis, which asks two external
services, Nominatim (reverse geocoding) and the KEPCO API (stations and
chargers). This directory holds TLA+ models of the parts of it where handlers
interleave, share rows, caches and connections, and where external services
fail, of the scripts that write the same tables, and of the migrations that make
them; TLC configurations that check the models; and machine-checked proofs.

References such as `main.py:514` are to `src/app/main.py`; `README.md:54` is the
repository's own README.

## Inventory

| Part | State | Operations | Interacts with |
| --- | --- | --- | --- |
| Station search, `GET /api/v1/stations` (`main.py:180-584`) | L1 and L2 cache entries; rows of `stations`; the session of each request | geocode, read L1, read L2, count chargers, spatial query, KEPCO call, upsert each item, commit, fill L1 and L2 | Redis, PostGIS, connection pool, Nominatim, KEPCO |
| Charger detail, `GET /api/v1/station/{id}/chargers` (`main.py:912-1281`) | L3 cache entries; rows of `stations` and `chargers`; the session of each request | station query, read L3, freshness test, charger query, KEPCO call, find or insert the station, upsert each charger, commit, fill L3 | Redis, PostgreSQL, KEPCO |
| Sessions and pool (`app/db/database.py`) | open transactions, pooled connections | commit after a response, rollback after an exception, close | both endpoints |
| Redis client (`app/redis_client.py`) | the global `redis_pool` | create and ping at startup, close at shutdown, hand out | both endpoints, `/health`, `/redis-test` |
| Health and diagnostics (`main.py:108-129`, `787-909`) | the key `infra:test:key` | one query, one ping, a scan, one write and read of a fixed key | Redis, PostgreSQL |
| Subsidy lookup (`main.py:132-178`) | none | one read-only query | PostgreSQL |
| Authentication (`app/auth.py`, `app/api/v1/auth.py`) | the `users` table | look up a user, issue and verify a token | PostgreSQL |
| Migrations (`alembic/`) | the schema, `alembic_version` | 19 revisions, several branches and merges | deployment |
| Synchronisation scripts (`scripts/sync_incremental.py`, `backfill_kepco.py`, `seed_stations.py`) | `stations`, `chargers` | fetch from KEPCO and write row by row | PostgreSQL, KEPCO, next to running handlers |
| Maintenance scripts (`find_fix_duplicate_stations.py`, `clear_redis_cache.py`) | the same tables and keys | list and delete duplicates, delete keys | PostgreSQL, Redis |
| Subsidy data tools (`normalize_`, `repair_`, `generate_*`) | a CSV file | text conversion | none |

Code no mounted router reaches is not a component of the running system: the
`*.disabled` files, `main_backup_broken.py`, `temp_new_function.py`, the legacy,
simple and subsidy routers with `app/services/subsidy_service.py`, and `app/repository/station_repository.py`.

### What is hard about it

* **Interleaving.** A handler awaits between every two of its steps: geocoding,
  each cache read and write, each statement, the KEPCO call. Handlers of one
  process and of several share rows, cache keys and, within a process, the pool.
* **Partial failure.** Almost every step has its own `try/except` that swallows
  the error and goes on with what it has, so each combination of failures is a
  path; some of them roll back work other steps did.
* **Ordering.** A KEPCO answer is written item by item under row locks; two
  answers may list the same rows in opposite orders, and a handler that fetched
  earlier may commit later.
* **Staleness.** Three caches and a freshness rule each allow old data, and they
  are stacked: a cache entry repeats a list that was old when it was cached.
* **Rows written by many.** Handlers and scripts look a row up and insert it in two
  statements, hold row locks over a whole listing, and are killed in the middle.
* **Sharing a key.** A search cache key stands for many requests: all positions
  of a cell and all radii of a bucket.

`PROJECT.json` lists each hazard at its line with the properties that cover it.

### What makes each part correct

* Search: answers lie within the radius asked for, whoever cached them; cache
  entries stay within their key's bucket and are never empty; handlers do not
  deadlock on rows or connections; sessions do not leak; every request is
  answered.
* Detail: an answer is as recent as the freshness window, the cache and the
  latency allow; an older fetch overwrites a newer one only within that latency
  and never removes a row; lists belong to the station asked for; no deadlock;
  every request is answered.
* Migrations: one head to upgrade to, every upgrade finds the schema it expects,
  the schema does not depend on the order of the branches, a downgrade removes
  what its upgrade made and nothing else but what is known, and it is known which of the handlers' statements the
  schema accepts.
* Scripts: rows are made once, an address's listing is stored as a whole or not at
  all, a run that ends without an error has stored what it was told of, and every
  run ends.
* Redis client and diagnostics: one ping decides whether a process uses Redis; what
  `/health` says was so; `/redis-test` does not fail because it is called twice.
* All writers of the tables: they take no row away, store no charger without its
  station, and store nothing older than their own latency (`StationStore`).

## Plan

Done, in this order: `StationSearch` with its proofs; `ChargerDetail`;
`AlembicRevisions` and `Migrations`; the abstract `StationStore`; `StationSync`,
which implements it, with its proofs; `Infrastructure` with its proofs;
`ChargerDetailProofs`, with the proof that the detail endpoint implements
`StationStore` too; `MigrationsProofs` and `MigrationOrderProofs`; the abstract
`NearbySearch`, with the proof that `StationSearch` implements it; `DowngradeProofs`.

Left, should the project go on:

1. A composition of the handlers and the scripts over one set of rows. Each model
   now has the other writers as `LoadStation`, and both implement the same abstract
   store; what a composition would add are lock cycles between a script, which
   locks a whole listing, and a handler.

## Modules

### `StationSearch`

One action per await of the handler. A handler is a process in `Workers`; its
local variables are `pc`, `req`, `source`, `found`, `items`, its session is
`rows` (upserted, uncommitted, locked) and `conn` (occupies a pooled
connection). `stored` is the committed `stations` table, `l1` and `l2` the two
caches, `answer` the last response.

| Actions | Code |
| --- | --- |
| `StartRequest`, `Geocoded`, `GeocodingFails` | the request and Nominatim, `main.py:181-216`, `581-584` |
| `ReadL1`, `ReadL2`, `CacheReadFails`, `CountChargers` | `main.py:233-341` |
| `Checkout`, `QueryStations`, `QueryFails` | the spatial query, the fallback query that always raises (its parameters `:limit` and `:offset` are missing), `main.py:343-458` |
| `KepcoAnswers`, `KepcoFails` | `main.py:460-491` |
| `SkipItem`, `TakeItem`, `Upsert`, `UpsertFails`, `UpsertTimesOut` | one item of the answer: the rollback, the `INSERT ... ON CONFLICT`, `main.py:492-541` |
| `CommitItems`, `CommitFails` | the commit after the loop, `main.py:543-546` |
| `FillL1`, `FillL2`, `FillFails`, `Reply` | `main.py:431-453`, `556-579` |
| `Expire`, `RedisFailsOrRecovers`, `LoadStation` | the environment |

Abstractions: a station is its `cs_id`; distances are a constant function, so
rounding to metres is not visible; `CellOf` is the rounding of coordinates in the
key; the set union in `TakeItem` is the deduplication by id; charger counts and
the address are left out, since no property speaks of them, but the statement that
reads the counts and the connection it needs are there. `Miss` stands for an
absent key. `UpsertAccepted = FALSE` is a schema that rejects the INSERT, as all do
that the migrations build (`HandlersOnlyRead` in `Migrations`). `TRUE` is a database whose tables were changed by hand so
that KEPCO calls update it, as `README.md:54` says they do. The safety runs use
`TRUE` and let every statement fail, which includes all behaviours of `FALSE`; the
theorems hold for both.

### `NearbySearch`

The abstract specification of the search: what a client can rely on, whatever
fails, without transactions, connections or the order of the awaits. A request
finds its stations in one place only (`origin`: a cache tier, the stored stations,
or KEPCO) and is answered with exactly those, all within its reach; it ends in an
error only while it has found nothing. A list is cached under its own request's
key, and only one that came from the database or KEPCO: hits are not written back,
so that an entry dies at the end of its life however often it is hit. Of what KEPCO
lists for a request one station at a time becomes stored, if any.

`StationSearch` implements it (`SearchKeepsItsPromises`) under this mapping:

| `NearbySearch` | `StationSearch` |
| --- | --- |
| `serving` | the handlers with `pc[w] # "idle"` |
| `origin`, `list`, `answer`, `req`, `stored` | `source`, `found`, `answer`, `req`, `stored` |
| `cache` | `l1` and `l2`, by the label with which their hits are answered |
| `Reach[r]`, `KeyFor[r]` | `Within(r.pos, r.radius, Stations)`, `KeyOf(r)` |
| `Listed` | the stations of all `Payloads` |

`Checkout`, `Geocoded`, `Upsert`, the failures that the handler swallows, and the
change of `redisUp` are stutters. The entry under a key may have been filled for
another position of the cell and another radius of the bucket; the abstract hit
cuts it to the requester's reach, as `main.py:243` and `main.py:313` do.

### `ChargerDetail`

The handler's locals and its session are one record, `job[w]`. A status is the
time it was fetched at, so `status` is the `chargers` table, a list is a function
from chargers to times, and ages are differences. `clock` advances by `Tick`,
which leaves no handler running for longer than `MaxLatency`.

| Actions | Code |
| --- | --- |
| `StartRequest`, `QueryStation`, `QueryStationFails` | `main.py:912-990` |
| `AnswerFromCache`, `MissCache` | the detail cache and the 30-minute test, `main.py:992-1037` |
| `QueryChargers`, `QueryChargersFails` | `main.py:1039-1062` |
| `KepcoAnswers`, `KepcoFails` | `main.py:1064-1096` |
| `SkipItem`, `TakeItem` | the item loop and its bookkeeping of `provider_ts`, `main.py:1097-1153` |
| `FindStation`, `FindStationFails`, `AddStation`, `AddStationFails` | `_ensure_station_db_id`, `main.py:636-689` |
| `WriteCharger`, `WriteStation`, `WriteFails` | `main.py:1141-1210` |
| `Commit`, `CommitFails`, `Reply` | `main.py:1214-1276` |
| `Tick`, `Expire`, `RedisFailsOrRecovers`, `LoadStation` | the environment |

`ToWrite` is the code between knowing the `station_db_id` and the INSERT: the
rollback, and the skipped item when `provider_ts` is unbound. `id = "pending"` is
the key of a station row the session inserted and has not committed; the rollback
leaves it dangling (`HasParent`). The pool is not repeated here: a failed
statement stands for a statement without a connection too.

### `AlembicRevisions` and `Migrations`

`AlembicRevisions` holds the revisions as data. A schema is a function from the
tables, columns, indexes and constraints there are to the revision whose definition
of them is in force; `Rev_<id>` is the revision `<id>`, its `upgrade` and its
`downgrade` each a record of what the statements name (`needs`), drop, create,
create only if missing (`tables`, `ensures`) and alter. `Apply` is the effect of
such a record, `Fits` says that none of its statements is an error. `Models` is
what `create_all` creates.

| Actions of `Migrations` | Code |
| --- | --- |
| `UpgradeHeads`, `StampDaa5` | `scripts/run_migrations.sh:53-56` |
| `UpgradeHead` | `scripts/migrate.py:31-34`, `start.sh:36`, `docker-compose.yml:28` |
| `UpgradeTo`, `DowngradeTo`, `DowngradeBase` | Alembic's commands, by hand |
| `InitDb` | `app/db/init_db.py:38-40` |
| `RunUpgrade`, `RunDowngrade`, `RevisionFails` | one revision of the command, `alembic/env.py:91-99` |
| `Interrupted`, `Commit` | the end of the one transaction `env.py:156-157` opens |

Abstractions: `tx` is the command under way with its copy of the database; its
revisions run in any order that respects `down_revision`, of which Alembic picks
one. `Interrupted` is also a data error, such as rows that violate a unique index.
`ran` and `touched` record history, to tell a database that only upgrades (and
stamps that lag behind) have changed from the others.

`SchemaIsWhatRan` compares the database with the schema that running the same
revisions once, by date, builds: neither the order of the branches nor a repeated
upgrade matters, although `IF NOT EXISTS` keeps whichever definition came first.
`UpgradesFit` has two exceptions, both in the code: `60afb71f58fe` uses the type
`GEOMETRY` before `aa1b2c3d4e5f` creates the extension, so that an upgrade of a
plain PostgreSQL fails; and `20251028_convert_kepco_ts_to_timestamptz` trims a text
column that is a timestamp once it has run, so that a second run of
`run_migrations.sh`, which stamps an old revision first, fails. The properties
speak of databases to which `init_db` and downgrades have done nothing where these
are known to break the chain: `create_all` before the first upgrade makes
`a22583938b64` fail (it drops columns the models do not have); its downgrade never
succeeds (`spatial_ref_sys` exists); and that of `9508604ce511` drops every table,
which `daa5cac943ac` then tries again. `DowngradesLeaveNothing`, `ServedSurvive` and
`DowngradesSpareOthers` hold with all of them.

`DowngradesSpareOthers` compares what a downgrade removes with what
`alembic_version` says is still applied. Its exceptions are `DropAll`, two revisions
that drop every table, and `DropsOfOthers`, three that create with `IF NOT EXISTS`
what an earlier revision has made and drop it with `IF EXISTS`: after them the
database lacks indexes and columns of a revision it counts as applied.

What the handlers need of the schema is in `Reads` and `Upserts`. `Accepts` says that
a schema has every name of a statement, the index of its `ON CONFLICT` from a
revision that makes it unique, a text column for KEPCO's time (which `main.py:1126`
passes as a string), and no column that is NOT NULL without a default and not
given. A driver may refuse a statement for further reasons (both tables have
TIMESTAMP columns that are given a datetime with a time zone), so that what is
refused here is refused there, and for the upserts the property is about refusing.
`HandlersOnlyRead`: a migrated database answers all reads and refuses all upserts,
of the station because `20251023_add_additional_kepco_fields.py:28` makes the index on
`cs_id` a plain one (`models.py:36` says unique), and of a charger because
`a22583938b64` makes `charger_code` NOT NULL, before there is a `cp_id`. The handlers
catch these errors and answer from KEPCO's list.

### `StationStore`

The abstract specification of what a writer of `stations` and `chargers` promises:
a step stores one of `Batches` as a whole, with a fetch time at most `Lag` ago; no
row goes away, and no charger is there without its station. `ChargerDetail` and
`StationSync` each instantiate it (`Store`) with the identity on `clock`,
`stationRow` and `status`, that is, their committed rows: uncommitted ones are not
visible in it. For a handler a batch is rows of one station and the lag
`MaxLatency`; for a script it is a listing, or a station another writer commits,
and the lag is not bounded by anything in the code (`MaxClock`).

### `StationSync`

A process per script, which it runs again and again; `Incremental` are those that
run `sync_incremental.py`, the others run `backfill_kepco.py`. `job[p]` is the run's
local state and its transaction: `stations` and `chargers` are the rows it has
written, which stay locked; `newStations` and `newChargers` those it inserted.

| Actions | Code (`sync_incremental.py`; `backfill_kepco.py`) |
| --- | --- |
| `Start` | `170-201`; `215-248`, with and without `--commit` |
| `FetchAnswers`, `FetchFails` | `41-54`, `203-212`; `172-202`: the incremental sync ends with the error, the backfill asks three times and then takes the address for empty |
| `TakeItem` | `58-60`; `47-49` |
| `Compare` | `75-85`; the backfill has no comparison |
| `UpdateStation`, `InsertStation` | `87-124`; `83-121` |
| `UpdateCharger`, `InsertCharger` | `126-164`; `123-166` |
| `InsertCollides`, `StatementFails`, `DeadlockDetected` | an exception in the transaction: the incremental sync ends; the backfill goes on with the next address, `254-261` |
| `Commit` | the end of `engine.begin()`, `213-219`; `204-212` |
| `Killed`, `Tick`, `LoadStation` | the environment |

Abstractions: a status is the time its listing was fetched; the scripts store their
own clock in `stat_update_datetime`, which is left out, and so are the sleeps. The
scripts leave `chargers.cs_id` NULL, by which the detail endpoint selects, so that
it never reads the rows they insert: the models share the abstract store, not the
rows. The handlers' writes are `LoadStation`. An inserted row is unique by the
migrations' `ix_stations_station_code`, since the scripts store the `cs_id` as
`station_code`, and `_station_charger_uc`; without such an index two runs would
store a station twice, which is the mutant of `OneRowEach`. `CompareRaises` is the
comparison of line 83, see `sync_incremental` below.

### `Infrastructure`

`server` is the process, `client` its `redis_pool`, `up` the services that answer,
`key` whose data `infra:test:key` holds, `call[c]` a call under way with its locals.
`pinged`, the fields `seen` and `lost` of a call, and `answer` record history for the
properties: what the startup ping decided, which values `up` had during the call,
whether the key went away in it, and the response of the last step.

| Actions | Code |
| --- | --- |
| `StartServer`, `PingAtStart`, `InfoAtStart` | `main.py:35-39`, `redis_client.py:9-27` |
| `StopServer` | `redis_client.py:46-50`; uvicorn waits for the calls under way |
| `Call`, `Refuse` | the dependency `get_redis_client`, and the 503 without a client |
| `SelectOne`, `Ping` | `/health`, `main.py:108-129` |
| `SetKey`, `GetKey` | `/redis-test`, `main.py:895-909` |
| `ScanKeys`, `DebugPing`, `DebugInfo` | `/admin/redis/keys`, `/admin/redis/debug`, `main.py:787-848` |
| `Query` | `/subsidy`, `/subsidy/by`, `/db-test` |
| `Crash`, `Fails`, `Returns`, `KeyExpires` | the environment |

A call is one that passed authentication. The `redisUp` of `StationSearch` and
`ChargerDetail` means that the process has a client and that Redis answers: they
let it go up and down at any time, which includes what `PingDecides` allows.

### Proof modules and MC modules

`StationSearchProofs`, `ChargerDetailProofs`, `StationSyncProofs`,
`InfrastructureProofs` and `MigrationsProofs` extend the module they are about;
`MigrationOrderProofs` and `DowngradeProofs` extend `MigrationsProofs`. `MCStationSearch`,
`MCChargerDetail` and `MCStationSync` only define the values the `.cfg` files
give to the constants, and the symmetry set.

## Runs

| Run | Bounds | Shows |
| --- | --- | --- |
| `search_safety` | 2 handlers, 2 stations, 2 positions in one cell, radii 9.8 and 10 km (one bucket), for each position one station inside the bucket and one beyond it, 1 connection, every failure; symmetric handlers | `TypeOK`, `CachedWithinBucket`, `AnswersWithinRadius`, `SessionsDoNotLeak`, and the inductive invariant `SearchInv` |
| `search_locks` | 2 handlers, 2 connections, two KEPCO answers with the stations in opposite orders | `NoDeadlockedSet`, the refinement `SearchKeepsItsPromises`, `EveryRequestAnswered` under fairness |
| `detail_timing` | 2 handlers, 1 station, 2 chargers, windows, cache life and latency of one tick, 4 ticks | `TypeOK`, `NewestIsRecent`, `StatusGoesBackLittle`, the refinement `WritesKeepTheStore` |
| `detail_locks` | 2 handlers, 2 stations, 2 chargers in both orders, one item without a provider time, every statement may fail | `NoDeadlockedSet`, `ListsAreOfTheirStation`, `EveryRequestAnswered` under fairness |
| `migrations` | all 19 revisions, from an empty database with and without PostGIS; any number of upgrades, at most 2 other commands | `TypeOK`, `SchemaIsWhatRan`, `UpgradesFit`, `HandlersOnlyRead`, `DowngradesLeaveNothing`, `ServedSurvive`, `DowngradesSpareOthers` |
| `sync` | 1 incremental sync and 1 backfill over the same 2 addresses, 2 stations with a charger each, listings in both orders, 2 retries, 1 tick; every request and statement may fail, every run be killed | `TypeOK`, `OneRowEach`, `DoneMeansStored`, the refinement `ListingsAreStoredWhole`, `EveryRunEnds` under fairness |
| `infrastructure` | 2 callers; Redis and the database come and go, the process crashes and restarts without bound | `TypeOK`, `PingDecides`, `HealthWasSo`, `SteadyRedisPassesTest` |

`migrations` has one constant, `MaxRepairs`, the number of downgrades, stamps and
`init_db` runs; two of them suffice to stamp after a downgrade, to downgrade what a
stamp repeated, or to create tables between two partial upgrades. The revisions
themselves are not bounded: they are the repository's.

Why the bounds are enough to be interesting: in `search_safety` moving from one
position to the other changes which station is inside the bucket and which inside
the smaller radius, so a list cached by one requester is wrong for the other unless
it is filtered again, and an unfiltered list of KEPCO's must not be cached by either;
positions that far apart share a cell where `CACHE_COORD_ROUND_DECIMALS` is small
(`main.py:227` falls back to 2, the default of `app/core/config.py` is finer), and
nothing but that they share it matters. One connection makes the handlers exhaust
the pool. In the lock runs two handlers
and two rows are the smallest instance of a lock cycle. In `detail_timing` the age
bounds are reached exactly: with either bound one tick smaller TLC finds a
violation (a status as old as the window when it is cached, served at the end of
the entry's life; a write delayed by a whole latency that overwrites a newer one). In `detail_locks` a
handler that asks for the second station is listed the first one's chargers. In
`sync` one address lists two stations' chargers in either order, which makes the
two scripts deadlock, and two addresses let the backfill go on after an error. In
`infrastructure` two callers are enough for one to overwrite the other's key.

The remaining runs each show one statement of the documents that the code does
not keep; their counterexamples are real executions.

| Run | Statement | What happens |
| --- | --- | --- |
| `search_upserts` | `README.md:54` | only the last item of a KEPCO answer is committed: each item starts with a rollback |
| `search_bucket` | `README.md:104` | a 6 km list is cached for the whole 10 km bucket |
| `detail_freshness` | `main.py:920` | one recent charger makes the database answer with all of them |
| `detail_insert` | `main.py:637` | the inserted station is rolled back before its charger refers to it |
| `sync_incremental` | `sync_incremental.py:4` | a datetime with a time zone is compared with one without: the script ends with a `TypeError` at the first dated item of a station that has been synced before |

Other statements that the code does not keep are visible in the models and have no
run:

* The detail endpoint loses all but the last charger of a KEPCO answer for the same
  reason as in `search_upserts` (`main.py:1143`).
* The KEPCO path of the search ignores `page` and `limit` (`main.py:492`).
* A Nominatim timeout is a 500 although `README.md:89` promises a fallback
  (`GeocodingFails`), and a KEPCO failure of the detail endpoint is an error although
  `README.md:111` promises the stored data (`KepcoFails`, `main.py:1083`).
* The database of `README.md:54`, which KEPCO calls update, is none the migrations
  build: it refuses the upserts for which `20251025_add_cp_fields_migration.py:26`
  creates its index (`HandlersOnlyRead`).
* The downgrades of `20251025_add_station_api_compat`, whose comment (line 42) says it
  drops indexes "if they were created by this migration", and of two other revisions
  drop what an earlier revision made, which stays applied (`DropsOfOthers`).
* The revisions have three heads, so that `alembic upgrade head` (`README.md:201`,
  `docker-compose.yml:28`) fails with "Multiple head revisions" (`UpgradeHead`).
* `sync_incremental.py` updates rows that have not changed (lines 4-5 and 15 say
  otherwise; the branch is `pass`), and has no `--dry-run` (line 9).
  `backfill_kepco.py` does not use the `INSERT ... ON CONFLICT` of lines 11-12.

## Fairness

In `StationSearch` and `ChargerDetail`, `Progress(w)` is weakly fair: every await
of a handler ends, because the HTTP calls have timeouts (10 s and 30 s), the pool
has one, PostgreSQL answers or raises, and the event loop runs a ready task. That
Redis answers or raises is an assumption the code does nothing for: its client has
no timeout (`redis_client.py:12`), so that the runs say nothing of a Redis that
accepts a command and stays silent. Statements that fail are not in it: no property
relies on a failure happening, except those that are certain (`~UpsertAccepted`, a
dangling foreign key, an exhausted pool's timeout). Writes that wait for row locks
are strongly fair: PostgreSQL queues the waiters of a row. Starting a request,
Redis going up or down, expiry, other writers and the clock have no fairness.

`StationSync` has the same for a running script: `Progress(p)` weakly (requests
have timeouts of 20 to 60 s), `Write(p)` strongly. In addition PostgreSQL finds a
deadlock after `deadlock_timeout` and aborts one of its transactions
(`DeadlockDetected`); which one is not promised, so the fairness is about the
existence of one. Starting a run, killing one and failing statements are not
fair. That retries are bounded is in the code: `FetchFails` belongs to
`Progress`, and still every run ends.

`Infrastructure` has no fairness: all its properties are about what a step may do.

## Proofs

`StationSearchProofs` proves for every value of the constants allowed by
`SearchConstants` (any finite set of handlers; any stations, positions, radii,
pool size and KEPCO answers; with and without failures):

* `SearchTypeCorrect`: `Spec => []TypeOK`;
* `SearchInvariant`: `Spec => []SearchInv`;
* `AnswersStayWithinRadius`, `CachesStayWithinBuckets`, `NoSessionLeaks`: the
  three safety invariants;
* `SearchNeverDeadlocks`: `Spec => []NoDeadlockedSet`;
* `SearchImplementsNearby`: `Spec => SearchKeepsItsPromises`, the refinement of
  `NearbySearch`.

None of the safety properties is inductive alone. `SearchInv` adds what a handler
holds between its awaits: `FoundWithinRadius` (the list that is about to be
answered or cached is within the request's radius, and not empty when it is about
to be cached), `RowsHeldBetweenItems` (rows stay locked only from an upsert to the
next item or the commit) and `IdleHasNothing`. A cache entry is within its bucket
because the filler's list was within its radius and `Bucket(radius)` is at least
the radius (`BucketCovers`). The absence of deadlock follows from
`RowsHeldBetweenItems`: a handler that waits for a row holds none, so whoever
holds the row is not waiting; and a set of handlers that wait for connections and
holds all of them has a member with a connection, which waits for nothing in it.

The refinement needs a second invariant, `OriginInv`: where a handler stands tells
its source (none before it has found something, KEPCO while it takes items, the
database or KEPCO while it fills the caches), what it has still to take is KEPCO's,
and its transaction holds at most one row, of a station it will be answered with.
The last is what makes a commit an abstract `Save` of one station. Every step of a
handler is then a step of the same handler in `NearbySearch`, or a stutter.

`ChargerDetailProofs`, for every value that `DetailConstants` allows (any stations
and chargers, window, cache life, latency and bound on time):

* `DetailTypeCorrect` and `DetailInvariant`: `TypeOK` and the inductive `DetailInv`;
* `AnswersAreRecent`, `ListsStayWithTheirStation`, `StatusesGoBackLittle`: how old
  the newest status of an answer is, whose chargers it lists, and how far a status
  may go back;
* `HandlersDoNotDeadlock`: `Spec => []NoDeadlockedSet`;
* `HandlersStoreAStation`: `Spec => Store!Spec`, the refinement of `StationStore`.

`DetailInv` says of each handler what its code assumes between two awaits: its
lists are timely, fit the station asked for and were judged by the 30-minute test
when they are about to be answered from the database; what is cached is cacheable
at that time; and the committed rows have their stations. The age bounds follow
from counting back to the moment a request began: a list that passes the test is at
most the window older than that, a handler runs for at most the latency, and an
entry lives for its TTL on top. The absence of deadlock follows from the rollback
before each item: a handler that waits for a station's row holds nothing, one that
waits for a charger's row holds at most its station's, and one that holds a
charger's row waits for nothing. So in a set of waiting handlers nobody waits for a
charger, hence nobody has a station somebody waits for.

`StationSyncProofs`, for every value that `SyncConstants` allows (any number of
scripts, any routes, listings and retries):

* `SyncTypeCorrect` and `SyncInvariant`;
* `RowsAreMadeOnce`, `DoneRunsHaveStored`: `OneRowEach` and `DoneMeansStored`;
* `ScriptsStoreListings`: `Spec => Store!Spec`.

`SyncInv` has two parts that matter. Transactions are apart: no row is written by
two of them, and a row inserted by one is in no table. And a transaction is whole:
the rows it has written together with those its remaining items ask for are exactly
the rows of one listing of KEPCO; so when no item is left, what it commits is that
listing. Neither holds for a script that catches errors item by item, which is the
mutant of `DoneMeansStored`.

`InfrastructureProofs`, for any set of callers: `InfrastructureTypeCorrect`,
`InfrastructureInvariant`, and the three safety properties `PingDecidesForGood`,
`HealthSpeaksTrue` and `SharedKeyPassesTest`. `InfraInv` says that a call has seen
the present value of `up`, that each reading it has made was of a value it has
seen, and that between the write and the read of `/redis-test` the key is there
unless it expired or Redis went away.

The migrations are proved about in three modules, for the repository's revisions and
every `MaxRepairs`: the run explores at most two stamps, downgrades and `init_db`s,
the theorems any number of them, mixed with upgrades in any way. `MigrationsProofs`
has what holds whatever was done to the database:

* `MigrationsTypeCorrect`: `TypeOK`, of which the point is that no table, column or
  index stays without what it depends on, and that no row of `alembic_version`
  comes after another one;
* `UpgradesKeepServed`: `ServedSurvive`;
* `DowngradesAreClean`: `DowngradesLeaveNothing`.

The order in which the revisions descend is derived, not assumed: `Ancestors` is a
recursive function, whose values follow from the parents one revision after the
other, by date. `VersionInv` relates the command under way to its version rows (an
upgrade has still to run revisions that are not applied, each behind its parents; a
downgrade, applied ones, each with all that come after it), which keeps
`alembic_version` right after every revision. `SchemaInv` says which definers a
schema can have and that it is closed under dependencies. `KeptInv` says that the
copy of an upgrade still has what is served of the database it started from; only
three of the upgrades matter for it, since the others drop nothing. `LeftInv` says
whose definitions the database and the copy of a command may hold while it is under
way, in terms of `ran` and of the version rows.

`MigrationOrderProofs` has what holds of a database that only upgrades have changed,
and stamps that lag behind:

* `FailuresAreKnown`: `UpgradesFit`;
* `MigratedHandlersOnlyRead`: `HandlersOnlyRead`;
* `SchemasDoNotDependOnOrder`: `SchemaIsWhatRan`.

Its inductive invariant `OrderInv` describes the schema that a set of revisions
closed under `down_revision` builds without mentioning an order: each object has the
definition of the one revision that owns it (`Own`), unless another one of the set
has replaced it (`Replaced`: `a22583938b64` drops and alters what the first revision
made, and the conversion to TIMESTAMPTZ replaces a column). The three revisions of
`Repeats` own nothing: all that they make sure of is there by the time they can run,
because of what they follow. With `IsOf(schema, S)` for this description, the
work is in `FirstRunLeads`, that the upgrade of a revision whose parents are in `S`
fits such a schema and leads to `IsOf(..., S \cup {r})`, and in `AgainLeads`, that
the upgrade of a revision in `S` leads back to the same schema. The latter holds of
the revisions a stamp can make run again only (`Reruns`); so `OrderInv` also says
that what ran and is not recorded is among these: stamping `daa5cac943ac` forgets
nothing else. `SchemasDoNotDependOnOrder` then follows because `Built`, revision by
revision, builds a schema of the same description (`BuiltByDate`), and there is only
one (`OneSchema`).

`DowngradeProofs` has `DowngradesSpareWhatStays`, that `DowngradesSpareOthers` holds
whatever was done to the database. What a schema has of a revision, the upgrade of
that revision defines, so `CutsAndDefinitions` compares what each downgrade cuts with
what each upgrade defines: where they meet, the upgrade is the same revision's, or
that of one that comes after it (and was undone before), or the pair is among the
exceptions. One pair is left: `60afb71f58fe` and `82564d70969d` both make
`api_logs.response_msg`, which `a22583938b64` drops in between; `MessageInv` says
that, once the latter is applied, the column is not the first revision's, unless a
stamp said so.

What is only model-checked: liveness (`EveryRequestAnswered`, `EveryRunEnds`),
which the prover does not do, and the counterexamples of the
violated statements. Every other property of the passing runs is a theorem.

## Not modelled

* The contents of answers that no property is about: names, addresses, status
  texts, charger counts, metrics counters.
* Authentication: cryptography and a single query, without shared state; which rows
  a subsidy lookup returns.
* `seed_stations.py`: it cannot be run, for it imports `app.repository.station`, which
  does not exist (line 23).
* `find_fix_duplicate_stations.py`: both statements that look at duplicates name
  `stations.stat_update_datetime`, a column no revision creates, so it fails before
  it changes anything. `clear_redis_cache.py` deletes keys, as `Expire` does.
* The subsidy data tools (`normalize_`, `repair_`, `generate_*`): text conversion of
  one file, without state or interaction.
* `app/repository/station_repository.py`, the unmounted routers, and the
  configuration of Nginx, the containers and the load tests.
* In the migrations: rows (the data revision `20251031_subsidy_data_migration` only
  needs its table) and comments of columns; whether an index is unique is in the
  properties only, as who defined it.
* The haversine formula and coordinate rounding, which are real arithmetic: any
  distance function and any partition into cells is covered by the constants.
