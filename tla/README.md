# Verification of graphql-schema-registry

TLA+ specifications of the schema registry (`src/`), the TLC runs that check
them on small instances and the TLAPS proofs about them.

## 1. The system

The registry stores the GraphQL schemas of federated services.  A service pushes
its schema with a version; the registry validates that the latest schemas of all
services still compose, stores it, and serves the set to gateways, which compose
it into one supergraph.  One or more node processes answer HTTP requests over a
shared Postgres and Redis; a worker process counts how queries use the schemas,
and a web page shows what it counted.

| Component | Source | State | Operations | What is hard |
|---|---|---|---|---|
| schema registration | `src/src/database/schema.ts`, `controller/schema.ts`, `router/schema.ts` | tables `services`, `schema`, `container_schema` | push, validate, activate, deactivate, latest, compose, diff | eleven statements and as many awaits in one READ COMMITTED transaction; requests of several processes overlap |
| service deletion | `controller/service.ts`, `database/services.ts` | the same tables | one cascading DELETE outside any transaction | lands between two statements of a push, or deadlocks with it |
| transactions | `database/index.ts` | connections | begin, commit, rollback | lost answers, exhausted pool |
| composition | `helpers/federation.ts` | none | compose, validate | which sets compose is up to a library |
| supergraph cache | `helpers/middleware.ts`, `router/index.ts` | `app.locals.cache` | fill, hit, invalidate | a fill that races an invalidation; several processes |
| usage counters | `database/schema_hits.ts`, `operation_hits.ts`, `subscription_metrics.ts` | in-memory caches, hourly tables, answers in Redis | add, sync, prune, read | entries added while a sync awaits; overlapping syncs; hours that are deleted and answers that are kept |
| client tracking | `database/clients.ts` | nested in-memory map, tables | add, sync | the map is reset after a snapshot of it was stored |
| persisted queries | `database/persisted_queries.ts`, `router/persisted-queries.ts` | table, Redis keys | get, set | the two stores disagree; a write to Redis lands late |
| Redis wrapper | `redis/index.ts` | connection, locks, subscriptions | get, set, delete, lock, publish, subscribe | timeouts that race answers |
| query analyzer | `worker/` | loaded schema, subscriptions | start, process request, reload | start-up failures, reloads in the background |
| service health | `graphql/service-health.ts` | TTL cache, checks in flight | probe, read | single flight against expiry |
| subscription registry | `database/subscriptions.ts`, `router/subscriptions.ts` | two tables | push, list | two reads that see different pushes |
| change log | `helpers/schema-change-log.ts`, `database/schema.ts` | none | diff of two schemas, pages of the log | many cases; pages cut from a log that changes |
| start-up and shutdown | `index.ts`, `schema-registry.ts` | flags, server | create, warm up, listen, terminate | retries, signals |
| GraphQL reads | `graphql/` | a dataloader per request | queries of the UI; two mutations that call the controller | one query answers several keys |
| web UI | `client/` | what a page fetched, and what its reader chose | open, search, sort, cut | the same rows are summed up in several ways, and never fetched again |
| migrations, logging, configuration | `migrations/`, `logger.ts`, `config.ts` | | | not part of the core |

How they interact.  `router/` parses a request and calls `controller/`, which
opens a transaction (`transact`) and calls `database/`.  A push publishes its
answer to Redis after the commit.  `GET /schema/supergraph` goes through the
cache middleware; pushes and deletions over HTTP go through its counterpart that
invalidates.  The worker reads the latest schemas from the registry's database,
receives queries over a Redis channel and adds to the counters, which timers
store.  `PROJECT.json` lists the hazards of this code line by line.

## 2. Modules

| Module | Models |
|---|---|
| `RegistryTables` | the rows of the three tables and `getSchemaLastUpdated`, the query that picks the latest schema of each service |
| `Registry` | push, validate, (de)activation and deletion, one action per statement, any number of them interleaved |
| `SchemaCatalog` | abstract: what a released version stands for is written once |
| `RegistryInvariant` | the inductive invariants of `Registry`: of its rows, and of what a push relies on |
| `RegistrySerial` | further ones, of behaviours in which one request is open at a time, from which follows what is served |
| `Registry_proofs` | the theorems and their proofs |
| `MCRegistry` | small instances and mixes of requests for TLC |
| `SupergraphCache` | the cache of the composed supergraph in every process, its invalidation, and the writes that reach it or not |
| `HitBuffer`, `HitBuffer_proofs`, `MCHitBuffer` | hits kept in the worker's memory and stored by a timer, one transaction per row, and deleted when they are old |
| `ClientUsage`, `ClientUsage_proofs`, `MCClientUsage` | which client uses which persisted query: the nested object in memory and the timer that stores it |
| `ServiceHealth`, `MCServiceHealth` | checks that share a request to a service, its abort, and the cache of what it found |
| `Caches_proofs` | the theorems about these two caches and their proofs |
| `PersistedQueries` | registering and looking up a query, in a table with Redis in front of it |
| `QueryAnalyzer`, `QueryAnalyzer_proofs`, `MCQueryAnalyzer` | the worker: its start, its reloads, and what it makes of an event; extends `PersistedQueries`, whose lookup it calls |
| `SchemaChangeLog` | what the log says of two versions of a schema, and what a reader can make of it |
| `SchemaHistory`, `SchemaHistory_proofs` | the log, its pages, the previous schema and the batched reads, while services push and are deleted; extends `SchemaChangeLog` |
| `MCReaders` | small instances of the readers of what pushes leave: `SupergraphCache` and `SchemaHistory` |
| `Lifecycle` | a process from its warm-up to its exit |
| `Subscriptions`, `Subscriptions_proofs`, `MCSubscriptions` | pushes and listings of subscriptions; extends `Lifecycle`, whose open requests they are |
| `UsageMetrics` | the counters of operations and subscription sessions, their tables, and the reads with their cache |
| `Analytics`, `Analytics_proofs`, `MCAnalytics` | the page that shows them; extends `UsageMetrics`, which it asks |

`Registry` is the core.  `SupergraphCache` is what is in front of it and stands
alone: of a registration it needs only that it commits at one moment and is
answered later.  `HitBuffer` and `ClientUsage` run in the worker and share
nothing but the database; `QueryAnalyzer` is what calls them, and of a call it
keeps which counter counted which event.  `ServiceHealth` answers the UI and
shares nothing.  `SchemaHistory` sees of a registration the three moments a
reader can tell apart: its clock, its insert and its commit.  `UsageMetrics` is
beside `HitBuffer`: both have stores that overlap, the single statements of a row
are left to `HitBuffer`, and the reads are in `UsageMetrics` only.

### Registry

State.  `db` is what is committed: three sets of rows, each row a record with an
id from a sequence (`nextId`).  `work[t]` holds the row versions the transaction
of request `t` wrote; `View(t)` lays them over `db`, which is what a statement
sees at READ COMMITTED.  `pc[t]` is the statement request `t` runs next, `req[t]`
its parsed body and `local[t]` the variables of its handler (`service` and
`schema` are `serviceId` and `schemaId`, `time` is `addedTime`, `names` the
result of `getActiveServices`, `answer` the row that is returned).

Actions.  `registerSchema` is `GetService`, `InsertService` or `UpdateUrl`,
`FindSchema`, `VersionExists`, `WriteSchema` (`TouchSchema` or `InsertSchema`),
`FindContainer`, `SwitchContainer` or `InsertContainer`, then `ReadResult`,
`ReadExact` and `Fallback` for `getSchemaByServiceVersions`.  `ReadActive` and
`Validate` are `getAndValidateSchema` (and `validateSchema`, whose candidate
takes the place of its service).  `Toggle` is `toggleSchema`, `DeleteService` the
DELETE, which takes the row of its service (`LockService`) and then all that refers
to it (`Cascade`), `Begin`, `Commit` and `Rollback` are `transact`.
`Fail` is any statement that fails, or a process that dies, and
`CommitUnanswered` a commit whose answer is lost.

Postgres is external and is modelled by what these statements need of it.  An
UPDATE waits for the transaction that wrote the row.  An INSERT waits for an
uncommitted row with the same unique key and fails on a committed one.  A foreign
key must point at a row that is visible; its key-share lock does not wait for an
UPDATE that leaves the key alone but holds off a DELETE.  A DELETE of a service
takes its row first, and from then on whatever inserts a row of the service waits;
its cascade waits for every transaction that wrote such a row.  A push that has
touched a schema (line 291) and now inserts a container (line 344) and a DELETE
that has taken the service wait for one another: `Deadlock` fails either of the
two.  The cascade itself is one step, since a request that holds one of its rows
waits for no other of them.

Data.  A type definition is a model value and stands for its normalised text, so
that `uuid`, an MD5 of that text, is the definition itself; collisions are
ignored.  Whether a set of schemas composes is the constant `Composable`, any
set of sets.  A service's `is_active` is left out since nothing writes it.
`added_time` in a request is refused by the parser, so the time is the clock's.

### SupergraphCache

State.  The tables are one number, `version`, that every committed write
increases; which versions do not compose is the constant `Broken`.  `made[p]` says
whether process `p` has an `app.locals.cache`, which the first read makes, and
`stored[p]` what it holds for the supergraph.  A request `h` has a process, a
`pc`, and what it has seen: the versions its two queries found.  `hooked[h]` says
whether `invalidate` replaced its `res.end`, which it does only when there is a
cache.

Actions.  A read is `Hit` or `Miss`, then `ReadNames` and `ReadRows` (the names
of the services and their schemas come from two queries) or `FailRead`, then
`Respond`, which stores what `res.send` is called with, errors included.  A write
over HTTP is `StartWrite`, `CommitWrite` or `Refuse`, `Invalidate` (the hook, run
when the response is sent) and `AnswerWrite`; a mutation over GraphQL goes past
the hook (`StartMutation`).  `Restart` empties a process.

Every process has a cache of its own and invalidates no other, so that nothing
bounds how old another process's answer is.  `FreshUnlessRaced` is therefore
about one process: what it has cached is as new as every write it answered
itself, with two exceptions that the code has and the property names, a read
that was under way when the write was answered, and a write without a hook.
After either, the old supergraph is served until the next write the process
answers, although a test (`src/router/index.itest.ts:14`) says that a push
updates the supergraph; it reads nothing while the push runs.

### HitBuffer

State.  `schema_hits.ts` keeps an array of rows and replaces it when it has been
stored; a loop that is still on its way keeps the old one.  `array` is the heap
of these arrays, `current` the one of the cache, `ref[s]` the one loop `s` goes
over; the loop is live, so that rows appended to the array it goes over are
stored too.  `stored` holds the rows of the two tables, by hour and by day.
`overlapped` records that a loop started while another ran.

Actions.  `Add` is `add` with its limit on old hits; `StartSync`, `Count`,
`Write`, `NextRow` the loop of `syncUniqueClientsToDb` with one transaction per
table and row (`storeInDb`: count what is there, then update, or insert `on
conflict`; the write and its commit are one step since nothing else of it is
visible before); `PruneDays` and `PruneHours` the two DELETEs of
`deleteOlderThan`; `Tick` the clock; `Crash` a rejected promise that nobody
handles, which ends a node process, or a kill.

`operation_hits.ts` has the same code with one table and
`subscription_metrics.ts` with four more sums.

What is promised.  A hit that comes in while its array is being stored may be
wiped with the array: `NextRow` replaces the array at the end.  `Accounting`
therefore counts as `calm` the hits that came in while no store ran.  When a
store takes longer than the 30 seconds of the timer the next one overlaps it and
both store the same rows; then nothing holds of the counts, and `OneRowPerClient`
holds all the same.

### ClientUsage

State.  `internalCache` is a nested object: `cached` are the clients (a name and
a version) it has an entry for, `noted[c]` the queries in the list of the entry.
A store copies the entries but not the lists: `shared[s]` are the clients whose
list is the cache's own, `held[s]` the lists that are no longer.  `rel` is
`clients_persisted_queries_rel`.

Actions.  `Add` and `AddThrows` are `add`; `StartSync`, `SaveClient`,
`SaveQuery`, `NextClient`, `Finish` are `syncUniqueClientsToDb` with
`getFlatClients`, `addClientVersion` and `savePQClientMapping`, one statement
each; `Register` is the registration of a query, which the foreign key asks for;
`Crash` is as above.

Paths.  The entry is looked up with lodash's `get` and the path `name.version`,
which is split at every dot unless it is itself a key.  `Dotted` are the clients
with a dot of their own, `SpelledBy[c]` those whose name is the path of `c`:
which they are is a parameter, and characters are left out.  Since the order of
the entries is of no consequence, the loop takes them in any.

### ServiceHealth

State.  `healthCache[u]` is the entry of service `u`; `probe[u]` is its request in
`inFlightChecks`, if there is one, and how far it has come.  A check is a call of
`getServiceHealthStatus`, which ends at once or waits for a probe; it keeps what
it was answered and when that had been seen (`finding`).

Actions.  A check is a `HitStatus`, a `Join` or a `Start`; a request ends with
`ServiceAnswers` or `Abort`; `Store` and `Settle` are the microtasks of `then` and
`finally`, between which other checks may come in but no time passes.  `Tick` is
the clock; timers are taken to be on time, since a late one only makes a request
longer.  `BadUrl` are the urls that cannot be parsed, or are empty.

### PersistedQueries and QueryAnalyzer

State.  `rows[k]` is the table, `cache[k]` what Redis holds, `late` the writes it
was sent whose caller gave up waiting (`redis/index.ts` races every call with a
timer), so that they land at any later moment.  A call `c` has a `pc`, a key and
a query.  Of the worker there is what it is at (`worker`), the version of the
registry it knows (`typeInfo`), and for each event the step of `processRequest`
(`stage`), what the event says, the fields it still has to add and those it has
added, and which counters counted it.

Actions.  `Create`, `Insert`, `SetCache` are `set`: the row is inserted unless
there is one, and the cache is set to the query passed all the same, so that the
two may disagree.  `Get`, `Hit`, `Miss`, `Select`, `SetCache` are `get`; a `Miss`
is also an error or a timeout of Redis.  `Land` and `Expire` are Redis, `Fail` a
statement that fails.  `Start`, `Load`, `StartFails`, `Subscribe` are the start
of the worker and its timer of reloads, which are not awaited and may overlap and
end in any order.  An event is `Malformed`, or goes through `FindQuery` and the
lookup, `Track`, `CountOperation`, `Extract` and one `AddField` for each field,
an await apart; `Rejects` is an error outside the `try` block, which ends the
process as a rejected promise does, and `Crash` a reload that fails.

A worker whose first load or whose subscription fails stays up and deaf: nothing
starts it again.

### SchemaChangeLog and SchemaHistory

`ParseSchema` reads a document into a map of types, definition by definition and
extension by extension, each laid over what was there (`Overlay`, the `set` of a
`Map`); `DiffSchemaTypeDefs` compares two such maps.  A row is
what changed, how, and the path of names to it.  A name keeps the kind of its first
definition (`ensureType`), and what one of another kind brings in is kept in the
map and never compared.  Such documents get registered: a schema pushed as `latest`
after a released version is not composed (`schema.ts:120`).  So the properties
speak of what belongs to the kind of each type (`AsTold`).  `AsTold` and `Replay`
are not of the code: they are what the log promises to tell, and what a reader can
conclude from the rows.

`SchemaHistory` has the rows of `schema`, pushes with a clock, an insert and a
commit, deletions of services, and a reader who asks for one page after another.
`ChangeLog` orders by time and id, while `SchemaBefore`, the previous schema of
the page of a version, knows the time only.  `LoadSchemas` is the dataloader: one
query with the limit and offset of its first key for all of them, in whichever
order rows of one time come; an answer is kept as the set of its rows.  A service
that pushes definitions it had before adds nothing to the log, and does not change
its latest entry.

### Lifecycle and Subscriptions

`Lifecycle` has what a process is at (`phase`), whether its health check answers
503 (`terminated`), the timers of 19 s (`closers`) and the last second
(`exiting`).  `Signal` is both handlers of SIGTERM: that of the router is there
from the first moment, that of the server once it listens.  A signal before that
moment has no other effect than the 503: the process listens later, answers 503
from then on and never exits.

`Close` is `server.close` of Node 25, which `package.json:7` asks for: nothing is accepted any more,
connections without a request are dropped, and the callback waits for the event
that the last connection has ended.  A second signal closes a closed server, which
drops idle connections again and adds a callback that waits for the same event
(Node calls it with `ERR_SERVER_NOT_RUNNING`, which the code does not look at).
Until then a request may come on a connection that is kept alive (`idle`,
`Arrives`), and its answer may keep it alive again; each request of the model is
sent once, which bounds that.  A client may hang up (`HangUp`), and then its
request runs on without a connection to wait for.  `killed` records a kill.

A push of subscriptions is `Receive`, `Select`, `Update` and `Delete` or `Insert`,
`Define`, `Commit`, one action per statement, with `push[r]` what its transaction
wrote and nobody else sees.  A statement about a source waits while another
transaction has written it (`Blocked`); both unique keys are there.  A row of a
source keeps its id for ever, so that the source stands for it.  A listing is
`ListSources` and `ListDefinitions`.  Which version of a name is the latest depends
on `added_time`, the clock of the process a version was first pushed to, and no two
of these clocks agree; so any version of a name may be the one that is listed
(`Latest`).  A listing that finds no source asks for the
definitions of an empty list of sources, which the code takes for no condition,
and may so find those of a push that came in between.  `Stop` takes the open
requests of a process with it.  The page of subscriptions reads the definitions of
all versions over GraphQL and finds them by the name of the source; it is left
out, and no property speaks of it.

### UsageMetrics and Analytics

State.  `buffer` is the two arrays `internalCache` by their keys, `stored` the two
tables, `cache[d]` the answer Redis keeps for read `d` and since when.  `stores[l]`
is a run of `syncUniqueClientsToDb`: its array and the rows of it that it has
stored.  The timer does not wait for the last run: a store that lasts longer than
30 seconds overlaps the next one of the same array, the first to end replaces the
array, and the others go on with the one they have (`live` says which it is).
`received` is all that ever came in, `lossy` whether some of it may be lost: by a
crash, or because it was added to a row that a store had passed; `overlapped` are
the arrays of which two stores ran at a time.

Actions.  `AddOperation`, `StartSession`, `EndSession` are what the worker calls;
`StartStore`, `StoreRow`, `EndStore` the timers; `Prune` the deletions; `Read` a
page that asks.  `Metrics`, `ClientHits`, `EntityHits`, `Fields` and
`TopOperations` are the queries, with their groups, sums, windows and rounding;
`SchemaHits` are the rows that `HitBuffer` stores, here a parameter.

Two orders.  The page breaks ties by `localeCompare` of `TYPE name`, a label; the
API by the name alone, in the order of the database (`NameRank`), and operations of
one name and different types are in no order there.  So `TopOperations` is the set
of the answers there may be, and what the page lists first and what the API lists
may differ, though in operations with as many hits only (`TopAreShown`).

The page asks once (`Open`).  Its five tabs are operators over what it was
answered: `EntityRows`, `PropertyRows`, `OperationRows`, `ClientRows` and
`SubscriptionRows` are the tables, searched, sorted (`Precedes`) and cut (`Cut`),
`Points` the charts above them, each made of its own copy of the code.  `Search`, `ChooseTab`,
`ChooseLimit`, `SortBy` are what its reader does, and `Wait` is time that passes:
the tables are computed anew with the clock of that moment and the old rows.

What the page does not promise, and no property says: "Hits (1h)" has only the
hours that began within the last one; a client that calls itself `unknown` has
one series and one row with all that have no name; a read may go back 720 hours
although five days are kept.  When stores
overlap, both store what came in before (`CountedOnce` excepts it by name).  The
cards, the sampled column, which row is highlighted and which measure a chart
shows are left out, and so is the usage chart of one field, with its read
(`schema_hits.ts:291`).

### Where the code does less than one might expect

A run shows each of the first three; `findings` in `PROJECT.json` quotes the lines
of the documentation and the tests.  The others are behaviours of the modules that their
properties exclude by name, or that no property mentions:

- two overlapping pushes of two services validate without seeing one another and
  leave a set that does not compose (`registry_write_skew`);
- two pods of one service that push the same new version at the same moment do not
  see one another's rows; the second insert fails on a unique key and is answered
  500.  The title of a test (`test/functional/schema/push.test.ts:101`, which pushes
  one after the other) and `CHANGELOG.md:208` promise that both are accepted
  (`registry_pods`);
- the latest schema is the one with the last container, not the one that was
  updated last: a repeated push sets `updated_time` and changes nothing of what is
  served, as `README.md:456` says and `README.md:510` denies (`registry_latest`);
- a version pushed again with definitions another version registered passes
  `versionExists` unasked and fails on the unique key;
- after a released version, a new schema pushed as `latest` is registered, but
  neither validated nor served, since its container keeps its id and its time;
- a deletion is not validated, and what is left may refuse every later push;
- the message of a failed composition is cached and answered with status 200;
- pushes invalidate the cache of the process that answers them and no other, and
  publish to gateways after their commit, so in any order;
- a client whose version has a dot (`1.0.2`) has its entry replaced at every use
  and keeps only the last query;
- a worker that fails to start is not started again, and a process that is told
  to terminate before it listens never exits.

## 3. Runs

Model values: services `A` and `B`; definitions `Base`, `Ext` (which needs a
`Base` in another service or its own) and `Clash` (which does not go with
`Base`); two released versions and `latest`.  Requests are handled once, so the
number of requests bounds a behaviour; symmetry permutes them.

- `registry_race`: three requests, two connections.  Two connections make every
  pair of statements interleave; the third request runs after either and sees
  what they left (a service deleted and registered anew needs it), or waits for
  rows that they did not give back (`NoStandstill`).  Symmetry is
  used in a run with action properties: they quantify over all requests alike.
  The clock stands still (`Ticks`): none of the properties is about time.
- `registry_serial`: four requests one at a time.  Three registrations (an older
  row reused by a newer version needs three) and a deactivation or a validation
  fit.  Deletions are left out: `deleteService` validates nothing, and what is
  left may not compose.  The clock advances by a millisecond per request.  A push
  is sent again when its answer was lost or another version came in between, and
  is accepted (`RepeatAccepted`); that requests of other services may overlap it
  is proved (section 4), and that pods of one service must not is the next run.
- `registry_pods`: three requests, two connections, and pods that push one version
  at the same time: `RepeatAccepted` is refuted.
- `registry_latest`: four pushes of one service, one at a time, of two versions;
  the shortest refutation pushes both and then the first again.
- `readers`: two models that share nothing, so that a behaviour is one of either
  (`MCReaders`); together since both are about what is read while services push.
  Of the cache: two processes, four requests of which one may be a mutation, two
  writes, and one version that does not compose.  A stale entry takes a read
  that stores it, a write it missed and a read that is served it; the fourth
  request lets a second read or write come between.  Of the history: four documents
  that differ in each of the ways the log tells apart, two of which define a name as
  two kinds, two services, three pushes, two times (so that two schemas may have
  one), pages of two entries.  Three schemas of one service are the least whose
  middle one has another predecessor by time than by id.  Services and pushes are
  symmetric, and stand for processes and requests in the cache.
- `hits`: two clients, one without a name (whose rows no unique key guards), two
  loops that may overlap, two hits of up to two rows, three hours in two days and
  a retention of one hour, so that a deletion reaches a day only in part.
- `clients`: two versions of one name, a client whose name spells the path of the
  first, two queries, two stores, three uses.
- `health`: a service that may answer, fail or hang and a url no request can be
  made to, three checks (one to start a request, one to share it, one after it
  has expired), a time to live and a timeout of two, so that each can end before
  the other.  The behaviour stops when the last check is answered.
- `events`: one key, two requests to register or read it and one event that names
  it or a query of its own; three versions of the registry, of which the second
  exchanges a field of the query and the third does not compose.  A lookup must
  race a registration, a late write and a reload at once, which takes one of
  each.  A query and a subscription, since they are counted differently; one
  message for each branch of `processRequest`.  Nothing is asked of the worker
  after its last event.
- `subscriptions`: two versions of one name, two documents and one that Postgres
  refuses, two pushes, one listing, one process that warms up, may be told to
  terminate twice or be killed, clients that may hang up.  A listing that sees two
  pushes needs both between its two reads.  The second signal comes before the
  first has closed the server, or after, while requests are open, while their
  connections are idle, or when they have all ended.  Under `FairSpec`.
- `analytics`: two operations, one subscription, clock units of one hour, a
  window and a retention of two, two events, two stores at a time, rows from before,
  and up to two clicks of the reader.  The clock starts at two: rows from before
  are of hours that are about to leave the window.  An hour is accepted, stored,
  read, kept by Redis, left behind by the window and deleted within the bound.  The
  two stores are symmetric.  Bounds by name: the statements of a row are one step
  (`HitBuffer` has them one by one), a write to Redis lands within its minute
  (`PersistedQueries` has late ones), reads are by hour, pages before this one ask
  after the last event, and this one opens when the arrays are empty.  The run has
  a view: once the page is open nothing it shows depends on the tables any more, so
  that states are told apart by the page and the clock; whatever the properties
  about the tables can see was seen before the page opened.
- `registry_write_skew`: two requests, the smallest instance that shows it.

A run checks what it alone can show.  The type invariants (`TypeOK`) and the
inductive invariants of section 4 are proved for every instance, so that no run
checks them, but `IInv` and `UseInv`, the largest, which the runs of their
modules check too; they contain `ContainersOwnTheirSchema` and `LinksAreTrue`.
All of them were model-checked before they were proved.

Deadlock is checked in the runs of `Registry`, `HitBuffer` and `ClientUsage`:
`Finished` stutters when all requests are answered, and the worker may always be
restarted.  Requests of the registry that wait for each other are no deadlock to
TLC, since a failure may always end one; `NoStandstill` asks for more.  In the
other runs the system really stops: when the last page is read, the last check
answered, the last event processed, the last process has exited, or the clock has
reached its bound.

Fairness.  Of the safety properties none needs any, and `NoStandstill` is one: some
open request can always take a step of its own (`ENABLED Step(t)`), with no help of
arrivals (`Begin`), of failures (`Fail`), or of lost answers, and each takes
finitely many, so that all end if the database answers each statement whose locks
are free.  `FairSpec` of `ServiceHealth` makes time pass, timers fire and microtasks run, as node does; a
service need never answer.  `FairSpec` of `QueryAnalyzer` makes a call go on
(statements are answered, and a wait for Redis ends, if only by its timer) and
the event loop take up what is ready; Redis itself need do nothing.  That of
`Subscriptions` makes statements be answered unless they wait for a row, timers
fire, that of a connection kept alive among them, and the event of a server whose
last connection has ended be emitted.

## 4. Proofs

`Registry_proofs` proves, for any sets of requests, services, versions and
definitions, any number of connections and any relation `Composable`:

- `Invariance`: `IInv` holds throughout;
- `TypeCorrectness`: `TypeOK`;
- `OwnSchemas`: a committed container names a schema of its own service;
- `Immutability`: a released version never changes its definitions;
- `Refinement`: `Registry` implements `SchemaCatalog` under
  `catalog <- Catalog(db)`;
- `PushRegistered`: a push that is committed has registered what it was sent;
- `AnswerPushed`: the answer of a push of a released version is what it pushed.

Why an invariant is needed.  None of these follows from the committed tables
alone: what a commit publishes was written while other requests ran, on what the
handler read even earlier.  `IInv` therefore speaks of all row versions at once,
committed or open: an id stands for one name (`ServicesInv`), one definition of
one service (`SchemasInv`), one version of one service and back
(`ContainersInv`); a row refers to rows that are committed or of its own
transaction, and a container and its schema have one service (`ReferencesInv`);
a handler before its container statement has written none, and the schema it
found is of the service it found (`HandlerInv`).  Each statement is one lemma:
inserting keeps an id fresh, or the unique key waits; updates keep what
identifies a row; a deletion takes every row that refers to the service, and
waits while an open transaction has one.  A deadlock is one way for a statement to
fail (`DeadlockFails`).  `Immutability` and `Refinement` then
follow from `IInv`: a step that changes the tables is a commit or a deletion, and
a committed version of a container differs from the one it replaces only when
its version is `latest`.

The last two rest on a second invariant, `PushInv` (`PushInvariance`).  Between
two statements of a push its service may be deleted, and registered anew under
another id, so that its updates match no row.  `PushInv` therefore says
what a handler may rely on at each statement.  The id it found is of the service
it names, and once that is gone no row ever has the id again.  While the service
is there, the schema it found or made is visible, and once written it is of its
own transaction, so that a deletion of the service waits for it (`CommittedStay`).
From the container statement on the service must be there, and with it a container
that binds the version to that schema, which nobody else rebinds: a released
version has one schema, and the row of `latest` is held by the transaction.  One
lemma says this of the steps of the other requests (`OthersKeepPush`), four of the
push's own statements.  A push whose service is gone before its schema is written
finds no container, and the insert of one fails on a foreign key, which is why it
never commits unregistered.  That a deletion takes its service long before it
takes the rest needs an invariant of its own, `TakenInv` (`TakenInvariance`): the
row it holds is of the service it names and no open transaction has written it.

`RepeatsAccepted` is `SpecApart => RepeatAccepted`, for any number of connections.
Its hypothesis, `ServicesApart`, is that the pushes and the deletion of one service
do not overlap; those of other services, (de)activations and validations may
overlap them at every statement.  The code needs it: pods that start together and
push the same version are refused (`registry_pods`).  It follows from
`SearchInvariance` (`Spec /\ []ServicesApart => []SearchInv`).  `SearchInv` says
that what a handler looked for and did not find is not there when it writes, that
the service it found is there until its end, and that no one else writes rows of
its service, but new versions of schemas that are committed (`OwnRows`).

What is served is another matter: two overlapping pushes may leave a set that
does not compose (`registry_write_skew`), so that the theorems about it have the
hypothesis that requests do not overlap, `[]OneAtATime`.  `OneConnection` says
that a pool of one connection meets it, however many requests there are; it is
the instance `registry_serial` checks.  Two further hypotheses are named where
they are needed: `[]NoDeletion`, since a deletion is not validated, and
`ClockAdvances`, that two requests do not begin in the same millisecond, since
`getSchemaLastUpdated` tells containers apart by time.

- `ServedInvariance`: `ServedComposes`, from `ComposedInvariance`;
- `PushServed`: `PushIsServed`, `RepeatServes`: `RepeatKeepsServed`, and
  `ValidatePredicts`: `ValidatePredictsPush`, from `HistoryInvariance`.

`RegistrySerial` has the invariants.  `ComposedInv`: the set that was
validated is the one that the commit serves, since the names of the services
cannot change in between.  `TimesInv`: times follow the ids of the containers,
a schema is no newer than a container that binds it, and a request that runs has
a later time than all that is committed; so the latest schema of a service is the
one its last container binds (`LastBinding`).  `WrittenInv`: what a push has
written at each statement is one schema, new or found, and at most one container,
which is new or the development version's.

The proof of `ValidatePredicts` failed at first, and TLC then found why (four
requests of the serial run do not reach it): when an inactive schema is pushed for
`latest`, which was bound to an active one, the version is taken from the schema
it stood for, and an older schema of the service takes its place in the set.
`POST /schema/validate` judged the definition that was sent.  The property now
names the exception.

Of the cache, for any number of processes and requests:

- `CacheInvariance`: `CacheInv`, and from it `CacheTypes`: `TypeOK`, and
  `CacheFreshness`: `FreshUnlessRaced`.

What is cached says nothing of the reads that will store their answer later, so
`CacheInv` speaks of them too: unless the process is marked as raced, what each
of its reads in flight has seen so far is as new as the last write it answered.
No version seen or answered is newer than the tables, and a process with an
entry, or with a read that is to make one, has a cache that a write can hook.

Of the hits, for any clients, any number of loops and hits:

- `RowsInvariance`, and from it `HitTypes`: `TypeOK`, and `OneRow`:
  `OneRowPerClient`;
- `SumsInvariance`, and from it `HitsAccounted`: `Accounting`, and
  `DaysCoverHours`: `DayCoversHours`.

The types need that there always is an array which no other loop goes over
(`SpareArray`, by counting: one array more than loops; `SyncAssumption`).  One
row per client needs the row a loop has at hand to be one of the cache's rows
(`TakenRows`), and that an insert of a client with a name meets the row that is
there.

The sums hold until one store overlaps another (`overlapped`).  `SerialInv` says
what is so until then: the only loop goes over the array hits are added to, has
the row at its place, and what it counted in a table is still so when it writes,
but for rows that are deleted by then.  `AccountInv` follows a hit on its way: of
each client and hour that is kept, what is stored, with what the loop has at hand
or what is ahead of it in the array, is what came in.  `DayInv` says the same of
a day and its hours, and that a loop between its two writes has put the row into
the day already.  The sum over the hours of a day is a fold over a finite set.
What a fold yields is proved here without induction over data: of the subsets of
a finite set for which a claim fails there would be a smallest one
(`SmallestSet`, from the well-foundedness of the strict subset order), and that
one, less an element, is no counterexample.  So `SumUnfold`, `SumRemove` (the
order does not matter), `SumBound` and `SumGrowth`.

Of the clients, for any clients, queries, stores and uses:

- `UseInvariance`: `UseInv`, and from it `UseTypes`: `TypeOK`, `UsesKept`:
  `CalmUsesKept`, and `TrueLinks`: `LinksAreTrue`.

That the first store to end may reset the cache for all is not seen from the
cache alone.  `CalmInv` says why: a use from before the stores, if no store has
stored it, is on the list of every one of them, and all those lists are the
cache's own, since an entry without a dot is found and never replaced.  So a
store that has gone over its list (`DoneStored`) leaves none of them behind.

Of the health checks, for any services, checks and times:

- `HealthInvariance`: `HealthInv`, and from it `HealthTypes`: `HealthTypeOK`, and
  `Recency`: `RecentAnswer`.

`AnswersInv` ties what was answered to the entry it came from, or a later one;
`ProbesInv` says that a probe is made only when the entry has expired, so that
what it stores was seen later than all that was answered before.

Of the worker, for any events, messages, queries and versions:

- `AnalyzerInvariance`: `AnalyzerInv`, and from it `AnalyzerTypes`: `TypeOK`,
  `CacheRegistered`: `CachedIsRegistered`, `RegisteredIsFound`: `CreatedIsFound`,
  `RegisteredIsCounted`: `RegisteredQueryIsCounted`, `OneSchema`:
  `UsageIsOfOneSchema`, and `RowsStay`: `FirstQueryStays`.

What a lookup finds is decided by writes that are still on their way, so
`QueriesInv` speaks of every call that is about to write to Redis: it has a
query, and the table has a row for its key.  `WorkerInv` says why an event never
meets a worker without a schema: only a subscribed worker has events at hand, and
it subscribed after its first load.  `FieldsInv` keeps, while the fields of an
event are added one by one, the version they were all taken from, whatever
`typeInfo` has become.

Of the subscriptions, for any sources, documents, requests and processes:

- `SubscriptionsInvariance`: `SubscriptionsInv`, and from it
  `SubscriptionsTypes`: `TypeOK`, `SourcesMatch`: `DefinitionsMatchSource`,
  `WholeListings`: `ListingIsWhole`, and `Drained`: `DrainedBeforeExit`.

`DefinitionsMatchSource` is about the committed tables, while a push wrote what it
commits at six earlier moments.  `TransactionsInv` says that no other push can
have come in between: whoever wrote a source is alone with it until its end, and
what it deleted is all there was (`Left(r) = {}`).  `ListingInv` keeps that a row
that was listed is still there, which holds since sources are never deleted.
`ProcessInv` says why an exit finds nobody waiting: the last second starts when
neither a request with a client nor an idle connection is left, and a closing
server accepts requests on an idle connection only.

Of the counters, for any events and any retention not shorter than the window:

- `MeasuresInvariance`: `MeasuresInv`, the types of what is summed up;
- `TotalsInvariance`: `TotalsInv`, and from it `EventsCountedOnce`: `CountedOnce`;
- `FreshInvariance`: `FreshInv`, and from it `FreshPages`: `PageIsFresh`;
- `EndedInvariance`: `EndedInv`, and from it and `TotalsInv` `AveragesExact`:
  `AverageIsExact`;
- `ShownInvariance`: `ShownInv`, and from it `TopRowsShown`: `TopAreShown`, and
  `ChartsAgree`: `ChartMatchesTable`.

Nothing here rests on stores that wait for each other.  `TotalsInv` speaks of the
arrays of which no two stores have overlapped (`overlapped` has the others, which
`CountedOnce` excepts as well): what came in of a name and hour is what its rows
have in the table and in the array ahead of the one store.  It adds that each row, of an
array or a table, belongs to a name and an hour of which something came in, and
that there are finitely many; several clients may share a row of the table, and
then the row is the total of theirs.  Rows only grow but for `Prune`.  Totals are folds of records with three
sums, about which the same is proved as about the sums of hits (`TotalRemove`,
`TotalSame`, `TotalAdded`).

What a page shows was read by another one up to a minute before, so that
`FreshInv` speaks of what Redis keeps: it was read at this moment of the clock or
at the one before, and each of its rows has an hour that a read went back to then
and no more hits than are stored (`CacheFresh`), which stays so because rows only
grow while the hour is in the window.

The page has rounded averages only.  One is wrong by half a hundredth at most
(`RoundIsNear`), so that, times the sessions it is of, it is off by half of these;
errors add up no faster than sessions do (`SumIsNear`), and the rows of a label
are parts of what the tables hold of it (`TotalOfParts`, `MetricsTotal`).
An hour without ended sessions has the average 0, which is right as their seconds
are 0 then (`EndedInv`).

That the first rows are the highest rests on the order of a table being strict and
total: fractions with positive denominators are compared transitively
(`LessOrders`), rows with equal values are told apart by their labels, and of one
label there is one row (`IsTable`).  Ranks, the numbers of rows that come before,
then count from 0 without gaps (`CutFromTop`, by the pigeonhole principle), so that
a cut has as many rows as it should.  The list that the API returns is cut in the
same way, by another order, from sums that are computed otherwise
(`OperationTable`): two cuts of one size by orders that agree on the hits can differ
in rows with as many hits only (`TopIsCut`).  `ChartMatchesTable` compares two
copies of one sum: the rows of a label that the table adds up are the points of its
series (`ChartIsTable`), whichever of the tabs it is (`ChartsMatch`).

Of the change log, for any documents, pushes, deletions and sizes of pages:

- `HistoryInvariance`: `HistoryInv`, and from it `LogTellsNames`: `LogReplays`,
  `NoChangeIsSilent`: `NoSilentChange`, `PagesAreWhole`: `PagesMissNothing`,
  `PreviousIsInLog`: `PreviousAgrees`, and `BatchesAreNewest`: `BatchIsNewest`.

The documents are a parameter, and what they have to be is what the grammar sees to
(`DocumentAssumption`): definitions have fields and members only if their kind has
any, and there are finitely many of everything.  Definitions of one name may differ
in kind.  What belongs to the kind of a type has the shape of it again
(`ToldIsType`), and a comparison of two types looks at nothing else
(`ComparedByKind`), which is why the two theorems about the log speak of `AsTold`.

`ParseSchema` is a fold over a sequence.  A fold that is known at one argument
only cannot be reasoned about step by step, so it is first shown to be one
recursive function of the places read so far (`ParseIsFold`); that its entries fit
together (`ParsedAreEntries`) follows from one definition keeping them so
(`ConsumeKeepsTypes`), by a smallest set of places for which it would fail.

What the log says of two versions is finite (`DiffIsFinite`) and is nothing only
if they read the same (`NoEntryChanges`, `DiffTellsDifference`, for `NoSilentChange`).
The reader of `LogReplays` knows names, which are paths of one to three steps: a path of the old
version that stays, or of the new that is there, is told by the row of its
length or by one of a prefix of it (`ToldByPath`, `ToldOfEntries`, `DiffReplays`).

For a finite set of rows the order by time and id exists and is unique
(`SortedExists`, `SortedIsUnique`), so a row newer than all others comes first and
leaves the rest in order (`NewestFirstCons`), and the log of one schema more is its
entries and then the log as it was (`LogOfNewer`).  That is `ReaderInv`: as long as
only newer rows are committed, what the reader found at its start and has not read
is at a place of the log that its next pages still come to.  A deletion moves
entries the other way and a late commit puts some where the reader has been,
which is why the property excepts both.  The other part, `RowsInv`, says that rows
and pushes that have inserted one have ids of their own, below the sequence.

A query for several services is a cut of any order by time: what the cut has is as
new as what it leaves out (`SliceHas`, `SliceHasOnly`), and how many it has is
arithmetic (`PageSize`).

The assumptions are the named `ASSUME`s of the modules, which TLC evaluates in the
runs: bounds are numbers, the values that stand for nothing are no values,
`Composable` is a set of sets, what maps queries or documents to fields is such a
map, the rows that are there at first are finitely many and, like all others, have
seconds only of sessions that ended, there are finitely many schema hits, the
label of a field tells its entity, and `Window <= Retention`.

Model-checked only: the liveness properties (`EveryCheckEnds`, `EventsEnd`,
`TerminationEnds`) and `NoStandstill`, which asks what is `ENABLED`; they are out of
the prover's reach.  `RepeatAccepted` is proved for more behaviours than are
checked, those of `SpecApart`, in which one connection is one case.

## 5. How the project was planned

The registry came first, since every other part reads what it wrote, and with it
the abstract catalog it implements; then what is in front of it (the cache) and
what counts its use (`HitBuffer`, `ClientUsage`, `ServiceHealth`), each as a
module of its own, since they share nothing but the database.  The second half
composed: the worker with the store it asks, the log with the history, the
requests with the life of their process, and the counters with the page that
shows them.  A run is kept for each question; where a later module asks a stronger
one, the weaker is gone.

## 6. Not modelled

The algorithm of Apollo's composition, which is a library (`Composable` stands
for it); the other pages of the web UI, of which the graph of the supergraph, the
schema browser and the list of services only render what the API answers, the page
of subscriptions shows the definitions of all versions of a source by its name, and
a chart of one field has a read of its own (`schema_hits.ts:291`); the plain lists for the UI (containers, clients, services); `POST /schema/diff` and
`compose`, which change nothing; logging, configuration, static files; the SQL of
the migrations, whose tables are the rows of the modules; and the script that
copies a MySQL database once.
