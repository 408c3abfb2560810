------------------------------ MODULE UsageMetrics ------------------------------
(***************************************************************************)
(* The hourly counters of operations and of subscription sessions          *)
(* (src/database/operation_hits.ts, src/database/subscription_metrics.ts): *)
(* two arrays in the worker's memory, two timers that store them, two      *)
(* tables and two timers that prune them, and the reads over the last      *)
(* hours, which Redis keeps for a minute.  The reads of the schema hits    *)
(* (src/database/schema_hits.ts) are alike; HitBuffer is how those are     *)
(* written.                                                                *)
(*                                                                         *)
(* A store that outlasts the timer overlaps the next one of its array.     *)
(*                                                                         *)
(* Bounds: the statements that store a row are one step (HitBuffer has     *)
(* them one by one), a write to Redis lands within its minute              *)
(* (PersistedQueries has late ones), and granularity HOUR, the only one    *)
(* the page asks for.                                                      *)
(***************************************************************************)
EXTENDS Integers, FiniteSets, Functions

CONSTANTS
  Operation, Subscription,  \* labels: numbers in the order of localeCompare
  NameRank,      \* NameRank[o]: where the database sorts the name in label o
  Client,        \* who asks for operations, however it calls itself
  Identified,    \* the clients with a name and a version, also of earlier rows
  NoClient,      \* NULL
  ClientLabel,   \* ClientLabel[c]: the label of name@version
  SchemaHits,    \* the rows that schema_hit_hourly gets, each in its hour
  Before,        \* the rows the two tables have at first
  Multiplier, Amount,  \* what a session may stand for, and last
  Loop,          \* bound: the stores that may run at a time
  UnitsPerHour,  \* the clock's units
  FirstTime, MaxTime,  \* bounds
  MaxEvents,     \* bound
  Window,        \* the hours a read goes back
  Retention      \* the hours that are kept

Time == 0..MaxTime
HourOf(time) == time \div UnitsPerHour
StartOf(hour) == hour * UnitsPerHour
Hour == {HourOf(time) : time \in Time}

ASSUME ClientAssumption ==
  /\ NoClient \notin Client \cup Identified
  /\ ClientLabel \in [Identified \cup {NoClient} -> Nat]
  /\ Operation \cup Subscription \subseteq Nat
  /\ NameRank \in [Operation -> Nat]

\* The label of a field begins with the name of its entity.
ASSUME HitAssumption ==
  /\ IsFiniteSet(SchemaHits)
  /\ SchemaHits \subseteq [client: Identified \cup {NoClient}, entity: Nat,
                           field: Nat, hour: Hour, hits: Nat \ {0}]
  /\ \A g, h \in SchemaHits : g.field = h.field => g.entity = h.entity

ASSUME SessionAssumption == Multiplier \cup Amount \subseteq Nat

ASSUME BoundAssumption ==
  /\ UnitsPerHour \in Nat \ {0} /\ FirstTime \in Time /\ MaxTime \in Nat /\ MaxEvents \in Nat
  /\ Window \in Nat \ {0} /\ Retention \in Nat /\ Window <= Retention

VARIABLES
  now,
  buffer,   \* buffer[k]: the rows of the two arrays internalCache
  stores,   \* stores[l]: a store that runs, its array and the rows it has stored
  stored,   \* stored[k]: the rows of the two tables
  cache,    \* cache[d]: the answer Redis keeps for read d
  left,     \* bound: the events that may still come in
  received, \* history: the sums of what came in, by series, name and hour
  lossy,    \* history: a crash, or an event added to a row already stored
  overlapped \* history: the series of which two stores ran at a time

worker == <<buffer, stores>>
history == <<received, lossy, overlapped>>
metricVars == <<now, worker, stored, cache, left, history>>

Series == {"operation", "subscription"}

\* A row of an array is found by all but its measures; that of a table has the
\* id of the client, and NULL when the client has no name or no version.
Row(clients) ==
  [series: {"operation"}, name: Operation, client: clients, hour: Hour]
    \cup [series: {"subscription"}, name: Subscription, client: {NoClient},
          hour: Hour]
Key == Row(Client)
StoredKey == Row(Identified \cup {NoClient})

StoredAs(k) == [k EXCEPT !.client = IF @ \in Identified THEN @ ELSE NoClient]

\* hits: an operation's, or how many subscriptions a session stands for;
\* completed: the sessions that ended; amount: their seconds, or their events
Measure == [hits: Nat, completed: Nat, amount: Nat]
Nothing == [hits |-> 0, completed |-> 0, amount |-> 0]

Plus(m, n) == [hits |-> m.hits + n.hits, completed |-> m.completed + n.completed,
               amount |-> m.amount + n.amount]

Of(rows, k) == IF k \in DOMAIN rows THEN rows[k] ELSE Nothing

Added(rows, k, m) ==
  [j \in DOMAIN rows \cup {k} |-> IF j = k THEN Plus(Of(rows, k), m) ELSE rows[j]]

Total(rows, keys) == FoldFunctionOnSet(Plus, Nothing, rows, keys)

NoRows == [k \in {} |-> Nothing]
NoStore == [series |-> "none", live |-> FALSE, rows |-> NoRows, done |-> {}]
NoAnswer == [at |-> -1, rows |-> {}]
CachedRead == {"operations", "clients", "subscriptions", "entities"}
Group == [series: Series, name: Operation \cup Subscription, hour: Hour]
GroupOf(k) == [series |-> k.series, name |-> k.name, hour |-> k.hour]

\* Seconds and events are those of sessions that ended.
ASSUME BeforeAssumption ==
  /\ DOMAIN Before \subseteq StoredKey /\ IsFiniteSet(DOMAIN Before)
  /\ Range(Before) \subseteq Measure \ {Nothing}
  /\ \A m \in Range(Before) : m.completed = 0 => m.amount = 0

MetricInit ==
  /\ now = FirstTime
  /\ buffer = NoRows /\ stores = [l \in Loop |-> NoStore]
  /\ stored = Before
  /\ cache = [d \in CachedRead |-> NoAnswer]
  /\ left = MaxEvents
  /\ received = [g \in {GroupOf(k) : k \in DOMAIN Before} |->
                   Total(Before, {k \in DOMAIN Before : GroupOf(k) = g})]
  /\ lossy = FALSE /\ overlapped = {}

------------------------------------------------------------------------------
(* The worker: add, the store of an array, and the end of the process      *)

Add(k, m) ==
  /\ left > 0 /\ left' = left - 1
  /\ buffer' = Added(buffer, k, m)
  /\ received' = Added(received, GroupOf(k), m)
  /\ lossy' = (lossy \/ \E l \in Loop : stores[l].live /\ k \in stores[l].done)
  /\ UNCHANGED <<now, stores, stored, cache, overlapped>>

AddOperation(operation, client) ==
  Add([series |-> "operation", name |-> operation, client |-> client,
       hour |-> HourOf(now)],
      [Nothing EXCEPT !.hits = 1])

\* A session stands for one over the rate at which sessions are sampled.
StartSession(subscription, multiplier) ==
  Add([series |-> "subscription", name |-> subscription, client |-> NoClient,
       hour |-> HourOf(now)],
      [Nothing EXCEPT !.hits = multiplier])

EndSession(subscription, amount) ==
  Add([series |-> "subscription", name |-> subscription, client |-> NoClient,
       hour |-> HourOf(now)],
      [Nothing EXCEPT !.completed = 1, !.amount = amount])

RowsOf(series) == {k \in DOMAIN buffer : k.series = series}

\* The timer, which does not look whether the last store is over; an empty array
\* is stored at once.
StartStore(l, series) ==
  /\ stores[l] = NoStore /\ RowsOf(series) # {}
  /\ stores' = [stores EXCEPT ![l] = [NoStore EXCEPT !.series = series, !.live = TRUE]]
  /\ overlapped' = IF \E m \in Loop : stores[m].series = series
                   THEN overlapped \cup {series} ELSE overlapped
  /\ UNCHANGED <<now, buffer, stored, cache, left, received, lossy>>

\* The rows of the array that store l goes through: those that come in are among
\* them until the array is replaced.
ArrayOf(l) ==
  IF stores[l].live THEN [k \in RowsOf(stores[l].series) |-> buffer[k]]
  ELSE stores[l].rows

\* storeInDb of the next row, read once.  A hit that is added to the row
\* afterwards is lost whether or not its statements have run by then.
StoreRow(l, k) ==
  /\ k \in DOMAIN ArrayOf(l) \ stores[l].done
  /\ stored' = Added(stored, StoredAs(k), ArrayOf(l)[k])
  /\ stores' = [stores EXCEPT ![l].done = @ \cup {k}]
  /\ UNCHANGED <<now, buffer, cache, left, history>>

\* Faulty: the array is not replaced.
EndStoreKept(l) ==
  /\ stores[l] # NoStore /\ DOMAIN ArrayOf(l) \subseteq stores[l].done
  /\ stores' = [stores EXCEPT ![l] = NoStore]
  /\ UNCHANGED <<now, buffer, stored, cache, left, history>>

\* The array of this moment is replaced, whichever the store went through, and
\* the other stores of it go on with the one they have.
EndStore(l) ==
  LET series == stores[l].series
  IN  /\ stores[l] # NoStore /\ DOMAIN ArrayOf(l) \subseteq stores[l].done
      /\ buffer' = [k \in DOMAIN buffer \ RowsOf(series) |-> buffer[k]]
      /\ stores' = [m \in Loop |->
           IF m = l THEN NoStore
           ELSE IF stores[m].series # series THEN stores[m]
           ELSE [stores[m] EXCEPT !.live = FALSE, !.rows = ArrayOf(m)]]
      /\ UNCHANGED <<now, stored, cache, left, history>>

Crash ==
  /\ buffer' = NoRows /\ stores' = [l \in Loop |-> NoStore]
  /\ lossy' = (lossy \/ buffer # NoRows)
  /\ UNCHANGED <<now, stored, cache, left, received, overlapped>>

Prune(series) ==
  /\ stored' = [k \in {j \in DOMAIN stored : j.series = series =>
                         StartOf(j.hour) >= now - Retention * UnitsPerHour}
                  |-> stored[k]]
  /\ UNCHANGED <<now, worker, cache, left, history>>

------------------------------------------------------------------------------
(* The reads                                                               *)

InWindow(hour, hours) == StartOf(hour) >= now - hours * UnitsPerHour

\* ROUND(amount / completed, 2), in hundredths
Round(amount, per) == (2 * amount + per) \div (2 * per)

\* getHits: the sums by name and hour
Metrics(series) ==
  LET keys == {k \in DOMAIN stored : k.series = series /\ InWindow(k.hour, Window)}
      Sums(g) == Total(stored, {k \in keys : GroupOf(k) = g})
  IN  {[key |-> g.name, label |-> g.name, hour |-> g.hour, hits |-> Sums(g).hits,
        completed |-> Sums(g).completed,
        average |-> IF Sums(g).completed = 0 THEN 0
                    ELSE Round(100 * Sums(g).amount, Sums(g).completed)]
       : g \in {GroupOf(k) : k \in keys}}

HitRows == {h \in SchemaHits : h.hour <= HourOf(now)}
HitsIn(rows) == SumFunction([h \in rows |-> h.hits])

\* getClientHits: the sums by client and hour.  A client without a name is
\* called unknown, and so may be one that says so.
ClientHits ==
  LET rows == {h \in HitRows : InWindow(h.hour, Window)}
  IN  {[key |-> h.client, label |-> ClientLabel[h.client], hour |-> h.hour,
        hits |-> HitsIn({g \in rows : g.client = h.client /\ g.hour = h.hour}),
        completed |-> 0, average |-> 0] : h \in rows}

\* getEntityHits: the sums by entity and hour
EntityHits ==
  LET rows == {h \in HitRows : InWindow(h.hour, Window)}
  IN  {[key |-> h.entity, label |-> h.entity, hour |-> h.hour,
        hits |-> HitsIn({g \in rows : g.entity = h.entity /\ g.hour = h.hour}),
        completed |-> 0, average |-> 0] : h \in rows}

\* listFields, which nobody caches: all hits of a field, those of the last
\* hour, and those of the window
Fields ==
  LET Hits(h, hours) ==
        HitsIn({g \in HitRows : g.entity = h.entity /\ g.field = h.field
                                /\ InWindow(g.hour, hours)})
  IN  {[label |-> h.field, entity |-> h.entity, hits1h |-> Hits(h, 1),
        hits24h |-> Hits(h, Window), hitsSum |-> Hits(h, MaxTime)] : h \in HitRows}

\* getTopOperations, of which limit are asked for: the answers there may be, since
\* operations with as many hits and one name are in no order.
TopOperations(limit) ==
  LET keys == {k \in DOMAIN stored : k.series = "operation"
                                     /\ InWindow(k.hour, Window)}
      Hits(o) == Total(stored, {k \in keys : k.name = o}).hits
      names == {k.name : k \in keys}
      Above(o, p) == \/ Hits(o) > Hits(p)
                     \/ Hits(o) = Hits(p) /\ NameRank[o] < NameRank[p]
  IN  {top \in SUBSET names :
         /\ Cardinality(top) = (IF Cardinality(names) < limit THEN Cardinality(names)
                                ELSE limit)
         /\ \A o \in top, p \in names \ top : ~Above(p, o)}

Answer(d) == CASE d = "operations"    -> Metrics("operation")
               [] d = "subscriptions" -> Metrics("subscription")
               [] d = "clients"       -> ClientHits
               [] d = "entities"      -> EntityHits

\* The rows a read returns: those Redis keeps, and those of the tables when it
\* keeps none or does not say so in time.
Returned(d, redis) ==
  IF redis /\ cache[d] # NoAnswer THEN cache[d].rows ELSE Answer(d)

\* Another page asks, the tables answer and Redis keeps what they say.  Bound:
\* no page asks before the last event.
Read ==
  /\ left = 0
  /\ cache' = [d \in CachedRead |-> [at |-> now, rows |-> Answer(d)]]
  /\ UNCHANGED <<now, worker, stored, left, history>>

\* Faulty: answers are kept for good.
TickKeeping ==
  /\ now < MaxTime /\ now' = now + 1
  /\ UNCHANGED <<worker, stored, cache, left, history>>

\* A minute is less than a unit: what was kept before the last one is gone.
Tick ==
  /\ now < MaxTime /\ now' = now + 1
  /\ cache' = [d \in CachedRead |-> IF cache[d].at < now THEN NoAnswer ELSE cache[d]]
  /\ UNCHANGED <<worker, stored, left, history>>

MetricNext ==
  \/ \E o \in Operation, c \in Client : AddOperation(o, c)
  \/ \E s \in Subscription : \/ \E multiplier \in Multiplier : StartSession(s, multiplier)
                             \/ \E amount \in Amount : EndSession(s, amount)
  \/ \E series \in Series : Prune(series) \/ \E l \in Loop : StartStore(l, series)
  \/ \E l \in Loop : EndStore(l) \/ \E k \in DOMAIN ArrayOf(l) : StoreRow(l, k)
  \/ Read \/ Crash

------------------------------------------------------------------------------
(* Properties.                                                             *)

AtMost(m, n) ==
  m.hits <= n.hits /\ m.completed <= n.completed /\ m.amount <= n.amount

\* The rows that are stored already and still in the arrays.
Done == UNION {stores[l].done : l \in {m \in Loop : stores[m].live}}

\* An event is counted once unless two stores of its array overlap: the tables
\* and what is still to be stored of the arrays hold no more than came in, and all
\* of it unless the worker crashed or the event came in during a store
\* (src/src/database/operation_hits.ts:37).
CountedOnce ==
  \A g \in DOMAIN received :
    StartOf(g.hour) >= now - Retention * UnitsPerHour /\ g.series \notin overlapped =>
      LET counted == Plus(Total(stored, {k \in DOMAIN stored : GroupOf(k) = g}),
                          Total(buffer, {k \in DOMAIN buffer \ Done : GroupOf(k) = g}))
      IN  /\ AtMost(counted, received[g])
          /\ ~lossy => counted = received[g]

=============================================================================
