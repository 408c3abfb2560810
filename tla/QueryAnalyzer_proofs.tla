------------------------- MODULE QueryAnalyzer_proofs -------------------------
(***************************************************************************)
(* Proofs about QueryAnalyzer, and the PersistedQueries it extends, for any *)
(* keys, queries, calls, events and versions.                              *)
(***************************************************************************)
EXTENDS QueryAnalyzer, TLAPS

USE DEF store, calls, pqVars, At, Goto

LEMMA InitAnalyzer == Init => AnalyzerInv
<1> SUFFICES ASSUME Init PROVE AnalyzerInv
  OBVIOUS
<1> USE EventAssumption, QueryAssumption DEF Init, PQInit
<1>1. TypeOK
  <2>1. PQTypeOK
    BY DEF PQTypeOK
  <2>2. /\ version \in Version
        /\ typeInfo \in Version \cup {NoVersion}
    BY DEF Version, NoVersion
  <2>3. /\ stage \in [Event -> {"unsent", "lost", "done"} \cup InProgress]
        /\ message \in [Event -> Message \cup {Silence}]
        /\ fields \in [Event -> SUBSET Field] /\ used \in [Event -> SUBSET Field]
        /\ counted \in [Counter -> SUBSET Event]
    OBVIOUS
  <2> QED
    BY <2>1, <2>2, <2>3 DEF TypeOK
<1>2. QueriesInv
  BY DEF QueriesInv, CachedIsRegistered, CreatedIsFound
<1>3. WorkerInv
  BY DEF WorkerInv, InProgress
<1>4. FieldsInv /\ UsageIsOfOneSchema /\ RegisteredQueryIsCounted
  BY DEF FieldsInv, UsageIsOfOneSchema, RegisteredQueryIsCounted
<1> QED
  BY <1>1, <1>2, <1>3, <1>4 DEF AnalyzerInv

------------------------------------------------------------------------------
(* The store of queries                                                    *)

LEMMA CreateQueries ==
  ASSUME PQTypeOK, QueriesInv, NEW c \in Call, NEW q \in Query, Create(c, q)
  PROVE  PQTypeOK' /\ QueriesInv'
<1> USE QueryAssumption DEF Create
<1>1. PQTypeOK'
  BY DEF PQTypeOK
<1>2. CachedIsRegistered'
  BY DEF PQTypeOK, QueriesInv, CachedIsRegistered
<1>3. CreatedIsFound'
  BY DEF PQTypeOK, QueriesInv, CreatedIsFound
<1> QED
  BY <1>1, <1>2, <1>3 DEF PQTypeOK, QueriesInv

\* The row that is there stays, and the one that is not is the call's.
LEMMA InsertQueries ==
  ASSUME PQTypeOK, QueriesInv, NEW c \in Call, Insert(c)
  PROVE  PQTypeOK' /\ QueriesInv'
<1> USE QueryAssumption DEF Insert
<1>1. PQTypeOK'
  BY DEF PQTypeOK
<1>2. /\ \A k \in Key : rows[k] # NoQuery => rows'[k] = rows[k]
      /\ \A k \in Key : rows'[k] = rows[k] \/ (k = key[c] /\ rows'[k] = query[c])
  <2>1. rows \in [Key -> Query \cup {NoQuery}] /\ key[c] \in Key
    BY DEF PQTypeOK
  <2> QED
    BY <2>1
<1>3. query[c] \in pushed[key[c]] /\ rows'[key[c]] # NoQuery
  BY DEF PQTypeOK, QueriesInv, CachedIsRegistered
<1>4. CachedIsRegistered'
  <2>1. \A k \in Key : rows'[k] \in pushed[k] \cup {NoQuery}
    BY <1>2, <1>3 DEF QueriesInv, CachedIsRegistered
  <2> QED
    BY <1>2, <2>1 DEF PQTypeOK, QueriesInv, CachedIsRegistered
<1>5. CreatedIsFound'
  BY <1>2 DEF PQTypeOK, QueriesInv, CreatedIsFound
<1> QED
  <2>1. \A d \in Call : pc'[d] \in {"insert", "cacheNew", "cacheFound"} =>
                         query'[d] # NoQuery
    BY DEF PQTypeOK, QueriesInv
  <2>2. \A d \in Call : pc'[d] \in {"cacheNew", "cacheFound"} =>
                         rows'[key'[d]] # NoQuery
    <3>1. \A d \in Call \ {c} : pc'[d] = pc[d] /\ key[d] \in Key
      BY DEF PQTypeOK
    <3> QED
      BY <1>2, <1>3, <3>1 DEF QueriesInv
  <2> QED
    BY <1>1, <1>4, <1>5, <2>1, <2>2 DEF QueriesInv

LEMMA ReadQueries ==
  ASSUME PQTypeOK, QueriesInv, NEW c \in Call, Get(c) \/ Miss(c) \/ Fail(c)
  PROVE  PQTypeOK' /\ QueriesInv'
<1> USE QueryAssumption DEF Get, LookUp, Miss, Fail
<1>1. PQTypeOK'
  <2>1. pc' \in [Call -> {"idle", "insert", "cacheNew", "get", "select",
                         "cacheFound", "done", "failed"}]
    BY DEF PQTypeOK
  <2>2. sure' \subseteq Call
    BY DEF PQTypeOK
  <2> QED
    BY <2>1, <2>2 DEF PQTypeOK
<1>2. CachedIsRegistered'
  BY DEF QueriesInv, CachedIsRegistered
<1>3. CreatedIsFound'
  BY DEF PQTypeOK, QueriesInv, CreatedIsFound
<1> QED
  BY <1>1, <1>2, <1>3 DEF PQTypeOK, QueriesInv

\* What Redis answers was pushed for the key.
LEMMA HitQueries ==
  ASSUME PQTypeOK, QueriesInv, NEW c \in Call, Hit(c)
  PROVE  PQTypeOK' /\ QueriesInv'
<1>1. /\ key[c] \in Key /\ cache[key[c]] \in Query \cup {NoQuery}
      /\ cache[key[c]] # NoQuery /\ cache[key[c]] \in pushed[key[c]]
  BY DEF PQTypeOK, Hit, QueriesInv, CachedIsRegistered
<1>2. query \in [Call -> Query \cup {NoQuery}]
  BY DEF PQTypeOK
<1>3. /\ query' \in [Call -> Query \cup {NoQuery}]
      /\ \A d \in Call : query'[d] = query[d]
                         \/ (d = c /\ query'[d] = cache[key[d]] /\ query'[d] # NoQuery)
  BY <1>1, <1>2 DEF Hit
<1>4. /\ pc' \in [Call -> {"idle", "insert", "cacheNew", "get", "select",
                           "cacheFound", "done", "failed"}]
      /\ \A d \in Call : pc'[d] = pc[d] \/ (d = c /\ pc'[d] = "done")
  BY DEF PQTypeOK, Hit
<1>5. query'[c] # NoQuery /\ UNCHANGED <<store, key, pushed, created, sure>>
  BY <1>1, <1>2 DEF Hit
<1>6. PQTypeOK'
  BY <1>3, <1>4, <1>5 DEF PQTypeOK
<1>7. CachedIsRegistered'
  BY <1>1, <1>3, <1>5 DEF QueriesInv, CachedIsRegistered
<1>8. CreatedIsFound'
  BY <1>1, <1>3, <1>4, <1>5 DEF PQTypeOK, QueriesInv, CreatedIsFound
<1>9. \A d \in Call : pc'[d] \in {"insert", "cacheNew", "cacheFound"} =>
                       query'[d] # NoQuery
  BY <1>3, <1>4, <1>5 DEF QueriesInv
<1>10. \A d \in Call : pc'[d] \in {"cacheNew", "cacheFound"} => rows'[key'[d]] # NoQuery
  BY <1>4, <1>5 DEF QueriesInv
<1> QED
  BY <1>5, <1>6, <1>7, <1>8, <1>9, <1>10 DEF QueriesInv

\* A lookup that began after the registration was answered finds the row.
LEMMA SelectQueries ==
  ASSUME PQTypeOK, QueriesInv, NEW c \in Call, Select(c)
  PROVE  PQTypeOK' /\ QueriesInv'
<1>1. /\ key[c] \in Key /\ rows[key[c]] \in pushed[key[c]] \cup {NoQuery}
      /\ rows[key[c]] \in Query \cup {NoQuery}
  BY DEF PQTypeOK, QueriesInv, CachedIsRegistered
<1>2. query \in [Call -> Query \cup {NoQuery}]
  BY DEF PQTypeOK
<1>3. /\ query' \in [Call -> Query \cup {NoQuery}]
      /\ \A d \in Call : query'[d] = IF d = c THEN rows[key[c]] ELSE query[d]
  BY <1>1, <1>2 DEF Select
<1>4. /\ pc' \in [Call -> {"idle", "insert", "cacheNew", "get", "select",
                           "cacheFound", "done", "failed"}]
      /\ \A d \in Call \ {c} : pc'[d] = pc[d]
      /\ pc'[c] = IF rows[key[c]] = NoQuery THEN "done" ELSE "cacheFound"
  BY DEF PQTypeOK, Select
<1>5. UNCHANGED <<store, key, pushed, created, sure>>
  BY DEF Select
<1>6. PQTypeOK'
  BY <1>3, <1>4, <1>5 DEF PQTypeOK
<1>7. CachedIsRegistered'
  BY <1>1, <1>3, <1>5 DEF QueriesInv, CachedIsRegistered
<1>8. CreatedIsFound'
  BY <1>1, <1>3, <1>4, <1>5 DEF PQTypeOK, QueriesInv, CreatedIsFound
<1>9. \A d \in Call : pc'[d] \in {"insert", "cacheNew", "cacheFound"} =>
                       query'[d] # NoQuery
  BY <1>3, <1>4, <1>5 DEF QueriesInv
<1>10. \A d \in Call : pc'[d] \in {"cacheNew", "cacheFound"} => rows'[key'[d]] # NoQuery
  BY <1>4, <1>5 DEF QueriesInv
<1> QED
  BY <1>5, <1>6, <1>7, <1>8, <1>9, <1>10 DEF QueriesInv

\* Who writes to Redis has a query, and its row is there.
LEMMA CacheQueries ==
  ASSUME PQTypeOK, QueriesInv, NEW c \in Call, SetCache(c)
  PROVE  PQTypeOK' /\ QueriesInv'
<1> USE QueryAssumption DEF SetCache
<1>1. /\ key[c] \in Key /\ query[c] \in Query
      /\ query[c] \in pushed[key[c]] /\ rows[key[c]] # NoQuery
  BY DEF PQTypeOK, QueriesInv, CachedIsRegistered
<1>2. /\ \A k \in Key : cache'[k] = cache[k] \/ (k = key[c] /\ cache'[k] = query[c])
      /\ cache' \in [Key -> Query \cup {NoQuery}]
      /\ late' \subseteq late \cup {<<key[c], query[c]>>}
  <2> USE <1>1
  <2> DEFINE C == [Key -> Query \cup {NoQuery}]
  <2>0. cache \in C
    BY DEF PQTypeOK
  <2>1. CASE cache' = [cache EXCEPT ![key[c]] = query[c]] /\ late' = late
    BY <2>0, <2>1
  <2>2. CASE late' = late \cup {<<key[c], query[c]>>} /\ cache' = cache
    BY <2>0, <2>2
  <2>3. CASE UNCHANGED <<cache, late>>
    BY <2>0, <2>3
  <2> QED
    BY <2>1, <2>2, <2>3
<1>3. created' \subseteq created \cup {key[c]} /\ created \subseteq created'
  OBVIOUS
<1>4. PQTypeOK'
  <2>1. late' \subseteq Key \X Query /\ created' \subseteq Key
    <3>1. <<key[c], query[c]>> \in Key \X Query
      BY <1>1
    <3> QED
      BY <1>1, <1>2, <1>3, <3>1 DEF PQTypeOK
  <2> QED
    BY <1>2, <2>1 DEF PQTypeOK
<1>5. CachedIsRegistered'
  <2>1. \A write \in late' : write[2] \in pushed[write[1]] /\ rows[write[1]] # NoQuery
    <3> SUFFICES ASSUME NEW write \in late'
                 PROVE  write[2] \in pushed[write[1]] /\ rows[write[1]] # NoQuery
      OBVIOUS
    <3>1. write \in late \/ write = <<key[c], query[c]>>
      BY <1>2
    <3>2. CASE write = <<key[c], query[c]>>
      <4>1. write[1] = key[c] /\ write[2] = query[c]
        BY <3>2
      <4> QED
        BY <1>1, <4>1
    <3> QED
      BY <3>1, <3>2 DEF QueriesInv, CachedIsRegistered
  <2>2. \A k \in Key : cache'[k] # NoQuery => cache'[k] \in pushed[k] /\ rows[k] # NoQuery
    BY <1>1, <1>2 DEF QueriesInv, CachedIsRegistered
  <2> QED
    BY <2>1, <2>2 DEF QueriesInv, CachedIsRegistered
<1>6. CreatedIsFound'
  BY <1>1, <1>3 DEF PQTypeOK, QueriesInv, CreatedIsFound
<1> QED
  BY <1>3, <1>4, <1>5, <1>6 DEF PQTypeOK, QueriesInv

\* Whatever lands late was pushed for its key.
LEMMA RedisQueries ==
  ASSUME PQTypeOK, QueriesInv, External
  PROVE  PQTypeOK' /\ QueriesInv'
<1> USE QueryAssumption
<1>1. /\ cache' \in [Key -> Query \cup {NoQuery}] /\ late' \subseteq late
      /\ \A k \in Key : cache'[k] # NoQuery =>
           cache'[k] = cache[k] \/ <<k, cache'[k]>> \in late
      /\ UNCHANGED <<rows, calls>>
  <2>1. CASE Land
    <3>1. PICK write \in late : /\ cache' = [cache EXCEPT ![write[1]] = write[2]]
                                /\ late' = late \ {write}
                                /\ UNCHANGED <<rows, calls>>
      BY <2>1 DEF Land
    <3>2. /\ write[1] \in Key /\ write[2] \in Query
          /\ write = <<write[1], write[2]>>
      <4>1. write \in Key \X Query
        BY DEF PQTypeOK
      <4> QED
        BY <4>1
    <3> QED
      BY <3>1, <3>2 DEF PQTypeOK
  <2>2. CASE \E k \in Key : Expire(k)
    BY <2>2 DEF PQTypeOK, Expire
  <2> QED
    BY <2>1, <2>2 DEF External
<1>2. PQTypeOK'
  BY <1>1 DEF PQTypeOK
<1>3. \A k \in Key : \A q : <<k, q>> \in late => q \in pushed[k] /\ rows[k] # NoQuery
  BY DEF PQTypeOK, QueriesInv, CachedIsRegistered
<1>4. CachedIsRegistered'
  BY <1>1, <1>3 DEF QueriesInv, CachedIsRegistered
<1>5. CreatedIsFound'
  BY <1>1 DEF QueriesInv, CreatedIsFound
<1> QED
  BY <1>1, <1>2, <1>4, <1>5 DEF QueriesInv

------------------------------------------------------------------------------
(* The worker                                                              *)

USE DEF process, events, vars

\* A step of the store moves an event only while it is being looked up, and it
\* stays one that began when it did.
LEMMA StoreMoves ==
  ASSUME AnalyzerInv,
         \/ \E c \in Request : Get(c) \/ \E q \in Query : Create(c, q)
         \/ \E c \in Call : Advance(c) \/ Fail(c)
         \/ External,
         NEW e \in Event
  PROVE  /\ (e \in sure' <=> e \in sure)
         /\ \/ pc'[e] = pc[e] /\ query'[e] = query[e]
            \/ /\ stage[e] = "lookup"
               /\ pc'[e] \in {"select", "cacheFound", "done", "failed"}
<1> USE EventAssumption DEF AnalyzerInv, TypeOK, PQTypeOK
<1>1. ASSUME NEW c \in Call, Advance(c) \/ Fail(c)
      PROVE  /\ sure' = sure
             /\ pc[c] \in {"insert", "get", "select", "cacheNew", "cacheFound"}
             /\ \A d \in Call \ {c} : pc'[d] = pc[d] /\ query'[d] = query[d]
             /\ pc[c] \in {"insert", "cacheNew"}
                  \/ pc'[c] \in {"select", "cacheFound", "done", "failed"}
  BY <1>1 DEF Advance, Insert, Hit, Miss, Select, SetCache, Fail
<1>2. CASE \E c \in Call : Advance(c) \/ Fail(c)
  BY <1>1, <1>2 DEF WorkerInv
<1>3. CASE \E c \in Request : Get(c) \/ \E q \in Query : Create(c, q)
  BY <1>3 DEF Request, Get, LookUp, Create
<1>4. CASE External
  BY <1>4 DEF External, Land, Expire
<1> QED
  BY <1>2, <1>3, <1>4

LEMMA StoreAnalyzer ==
  ASSUME AnalyzerInv,
         \/ \E c \in Request : Get(c) \/ \E q \in Query : Create(c, q)
         \/ \E c \in Call : Advance(c) \/ Fail(c)
         \/ External,
         UNCHANGED <<process, events>>
  PROVE  AnalyzerInv'
<1> USE EventAssumption DEF AnalyzerInv
<1>1. PQTypeOK' /\ QueriesInv'
  <2>1. PQTypeOK /\ QueriesInv
    BY DEF TypeOK
  <2> QED
    BY <2>1, CreateQueries, InsertQueries, ReadQueries, HitQueries, SelectQueries, CacheQueries,
       RedisQueries DEF Advance, Request
<1>2. TypeOK'
  BY <1>1 DEF TypeOK
<1>3. WorkerInv'
  BY StoreMoves DEF WorkerInv
<1>4. \A e \in Event : stage[e] # "lookup" => QueryOf(e)' = QueryOf(e)
  BY StoreMoves DEF QueryOf
<1>5. \A e \in Event : used[e] # {} => stage[e] # "lookup"
  BY DEF FieldsInv
<1>6. FieldsInv'
  BY <1>4, <1>5 DEF FieldsInv
<1>7. UsageIsOfOneSchema'
  BY <1>4, <1>5 DEF UsageIsOfOneSchema
<1>8. RegisteredQueryIsCounted'
  BY StoreMoves DEF RegisteredQueryIsCounted
<1> QED
  BY <1>1, <1>2, <1>3, <1>6, <1>7, <1>8

\* The process: what it knows composes, and no version is forgotten.
LEMMA ProcessAnalyzer ==
  ASSUME AnalyzerInv, RegistryChanges \/ Start \/ Load \/ StartFails \/ Subscribe
  PROVE  AnalyzerInv'
<1> USE EventAssumption
    DEF AnalyzerInv, RegistryChanges, Start, Load, StartFails, Subscribe, NoVersion,
        Version
<1>1. version' \in Nat /\ version <= version' /\ version' <= MaxVersion
  BY DEF TypeOK
<1>2. TypeOK'
  <2>1. PQTypeOK'
    BY DEF TypeOK, PQTypeOK
  <2>2. /\ version' \in Version
        /\ worker' \in {"down", "loading", "loaded", "subscribed", "deaf"}
        /\ typeInfo' \in Version \cup {NoVersion}
    BY <1>1 DEF TypeOK
  <2> QED
    BY <2>1, <2>2 DEF TypeOK
<1>3. QueriesInv'
  BY DEF QueriesInv, CachedIsRegistered, CreatedIsFound
<1>4. WorkerInv'
  <2>1. /\ typeInfo' # NoVersion => typeInfo' \in (1..version') \ Broken
        /\ worker' \in {"loaded", "subscribed"} => typeInfo' # NoVersion
    <3>1. CASE Load
      BY <3>1 DEF TypeOK, WorkerInv
    <3>2. CASE RegistryChanges
      BY <1>1, <3>2 DEF TypeOK, WorkerInv
    <3>3. CASE Start \/ StartFails \/ Subscribe
      BY <3>3 DEF TypeOK, WorkerInv
    <3> QED
      BY <3>1, <3>2, <3>3
  <2>2. worker = "subscribed" => worker' = "subscribed"
    BY DEF TypeOK, WorkerInv
  <2> QED
    BY <2>1, <2>2 DEF WorkerInv
<1>5. (1..version) \ Broken \subseteq (1..version') \ Broken
  BY <1>1 DEF TypeOK
<1>6. FieldsInv'
  BY <1>5 DEF FieldsInv, QueryOf
<1>7. UsageIsOfOneSchema'
  BY <1>5 DEF UsageIsOfOneSchema, QueryOf
<1>8. RegisteredQueryIsCounted'
  BY DEF RegisteredQueryIsCounted
<1> QED
  BY <1>2, <1>3, <1>4, <1>6, <1>7, <1>8

\* The process goes, and the events it had at hand with it.
LEMMA EndAnalyzer ==
  ASSUME AnalyzerInv, Ends
  PROVE  AnalyzerInv'
<1> USE EventAssumption DEF AnalyzerInv, Ends
<1>1. TypeOK'
  BY DEF TypeOK, PQTypeOK, NoVersion, InProgress
<1>2. QueriesInv'
  <2>1. CreatedIsFound'
    BY DEF TypeOK, PQTypeOK, QueriesInv, CreatedIsFound
  <2> QED
    BY <2>1 DEF TypeOK, PQTypeOK, QueriesInv, CachedIsRegistered
<1>3. WorkerInv'
  BY DEF TypeOK, PQTypeOK, WorkerInv, InProgress
<1>4. FieldsInv'
  BY DEF TypeOK, FieldsInv, InProgress, QueryOf
<1>5. UsageIsOfOneSchema'
  BY DEF TypeOK, UsageIsOfOneSchema, InProgress, QueryOf
<1>6. RegisteredQueryIsCounted'
  BY DEF TypeOK, RegisteredQueryIsCounted, InProgress
<1> QED
  BY <1>1, <1>2, <1>3, <1>4, <1>5, <1>6

------------------------------------------------------------------------------
(* Events                                                                  *)

\* A step of an event that leaves the queries and the process alone keeps what
\* is said of them.
LEMMA EventTypes ==
  ASSUME AnalyzerInv, NEW e \in Event, NEW to, UNCHANGED <<pqVars, process, message>>,
         to \in {"unsent", "lost", "done"} \cup InProgress,
         stage[e] \in InProgress, to # "lookup",
         stage[e] = "lookup" => pc[e] \in {"done", "failed"},
         to \notin {"unsent", "received"},
         stage' = [stage EXCEPT ![e] = to]
  PROVE  /\ PQTypeOK' /\ QueriesInv' /\ WorkerInv'
         /\ stage' \in [Event -> {"unsent", "lost", "done"} \cup InProgress]
         /\ \A d \in Event : QueryOf(d)' = QueryOf(d)
<1> USE DEF AnalyzerInv
<1>1. PQTypeOK'
  BY DEF TypeOK, PQTypeOK
<1>2. QueriesInv'
  BY DEF QueriesInv, CachedIsRegistered, CreatedIsFound
<1>3. stage' \in [Event -> {"unsent", "lost", "done"} \cup InProgress]
  BY DEF TypeOK
<1>4. WorkerInv'
  BY DEF TypeOK, WorkerInv
<1>5. \A d \in Event : QueryOf(d)' = QueryOf(d)
  BY DEF QueryOf
<1> QED
  BY <1>1, <1>2, <1>3, <1>4, <1>5

LEMMA PublishAnalyzer ==
  ASSUME AnalyzerInv, NEW e \in Event, NEW m \in Message, Publish(e, m)
  PROVE  AnalyzerInv'
<1> USE EventAssumption DEF AnalyzerInv, Publish, Move
<1>1. /\ pc[e] = "idle" /\ used[e] = {}
      /\ \A d \in Event \ {e} : stage'[d] = stage[d] /\ message'[d] = message[d]
      /\ stage'[e] = "received"
  BY DEF TypeOK, WorkerInv, FieldsInv
<1>2. TypeOK'
  <2>1. /\ stage' \in [Event -> {"unsent", "lost", "done"} \cup InProgress]
        /\ message' \in [Event -> Message \cup {Silence}]
    BY DEF TypeOK, InProgress
  <2>2. sure' \subseteq Call
    BY DEF TypeOK, PQTypeOK
  <2>3. PQTypeOK'
    BY <2>2 DEF TypeOK, PQTypeOK
  <2> QED
    BY <2>1, <2>3 DEF TypeOK
<1>3. QueriesInv'
  <2>1. CreatedIsFound'
    BY <1>1 DEF QueriesInv, CreatedIsFound
  <2> QED
    BY <2>1 DEF QueriesInv, CachedIsRegistered
<1>4. WorkerInv'
  BY <1>1 DEF WorkerInv
<1>5. \A d \in Event \ {e} : QueryOf(d)' = QueryOf(d)
  BY <1>1 DEF QueryOf
<1>6. FieldsInv'
  BY <1>1, <1>5 DEF FieldsInv
<1>7. UsageIsOfOneSchema'
  BY <1>1, <1>5 DEF UsageIsOfOneSchema
<1>8. RegisteredQueryIsCounted'
  BY <1>1 DEF RegisteredQueryIsCounted
<1> QED
  BY <1>2, <1>3, <1>4, <1>6, <1>7, <1>8

LEMMA FindAnalyzer ==
  ASSUME AnalyzerInv, NEW e \in Event, FindQuery(e)
  PROVE  AnalyzerInv'
<1> USE EventAssumption DEF AnalyzerInv, FindQuery, Move
<1>1. /\ pc[e] = "idle" /\ used[e] = {} /\ worker = "subscribed"
      /\ \A d \in Event \ {e} : stage'[d] = stage[d]
      /\ \A d \in Call \ {e} : pc'[d] = pc[d]
      /\ stage'[e] = "lookup" /\ pc'[e] = "get"
  BY DEF TypeOK, PQTypeOK, WorkerInv, FieldsInv, InProgress
<1>2. TypeOK'
  <2>1. stage' \in [Event -> {"unsent", "lost", "done"} \cup InProgress]
    BY DEF TypeOK, InProgress
  <2>2. pc' \in [Call -> {"idle", "insert", "cacheNew", "get", "select",
                         "cacheFound", "done", "failed"}]
    BY DEF TypeOK, PQTypeOK
  <2>3. PQTypeOK'
    BY <2>2 DEF TypeOK, PQTypeOK
  <2> QED
    BY <2>1, <2>3 DEF TypeOK
<1>3. QueriesInv'
  <2>1. CreatedIsFound'
    BY <1>1 DEF TypeOK, PQTypeOK, QueriesInv, CreatedIsFound
  <2> QED
    BY <1>1, <2>1 DEF TypeOK, PQTypeOK, QueriesInv, CachedIsRegistered
<1>4. WorkerInv'
  BY <1>1 DEF WorkerInv
<1>5. FieldsInv'
  BY <1>1 DEF FieldsInv, QueryOf
<1>6. UsageIsOfOneSchema'
  BY <1>1 DEF UsageIsOfOneSchema, QueryOf
<1>7. RegisteredQueryIsCounted'
  BY <1>1 DEF RegisteredQueryIsCounted
<1> QED
  BY <1>2, <1>3, <1>4, <1>5, <1>6, <1>7

LEMMA MalformedAnalyzer ==
  ASSUME AnalyzerInv, NEW e \in Event, Malformed(e)
  PROVE  AnalyzerInv'
<1> USE DEF Malformed, Move
<1>1. /\ PQTypeOK' /\ QueriesInv' /\ WorkerInv'
      /\ stage' \in [Event -> {"unsent", "lost", "done"} \cup InProgress]
      /\ \A d \in Event : QueryOf(d)' = QueryOf(d)
  BY EventTypes DEF InProgress
<1>2. TypeOK'
  BY <1>1 DEF AnalyzerInv, TypeOK
<1>3. FieldsInv' /\ UsageIsOfOneSchema'
  BY <1>1 DEF AnalyzerInv, FieldsInv, UsageIsOfOneSchema
<1>4. RegisteredQueryIsCounted'
  BY DEF AnalyzerInv, RegisteredQueryIsCounted, NeedsLookup
<1> QED
  BY <1>1, <1>2, <1>3, <1>4 DEF AnalyzerInv

\* A registered query has been found by the time its event is counted.
LEMMA TrackAnalyzer ==
  ASSUME AnalyzerInv, NEW e \in Event, Track(e)
  PROVE  AnalyzerInv'
<1> USE EventAssumption DEF Track
<1> DEFINE next == IF QueryOf(e) # NoQuery /\ message[e].time = "recent"
                   THEN "operation" ELSE "done"
<1>1. /\ stage[e] \in {"received", "lookup"}
      /\ stage[e] = "lookup" => pc[e] = "done"
  BY DEF Ready
<1>2. /\ PQTypeOK' /\ QueriesInv' /\ WorkerInv'
      /\ stage' \in [Event -> {"unsent", "lost", "done"} \cup InProgress]
      /\ \A d \in Event : QueryOf(d)' = QueryOf(d)
  <2>1. /\ next \in {"operation", "done"} /\ stage' = [stage EXCEPT ![e] = next]
        /\ UNCHANGED <<pqVars, process, message>>
    OBVIOUS
  <2> HIDE DEF next
  <2> QED
    BY <1>1, <2>1, EventTypes DEF InProgress
<1>3. /\ \A d \in Event \ {e} : stage'[d] = stage[d]
      /\ stage'[e] = next
      /\ used[e] = {}
  BY <1>1 DEF AnalyzerInv, TypeOK, FieldsInv
<1>4. /\ counted' \in [Counter -> SUBSET Event]
      /\ counted'["operation"] = counted["operation"]
  BY DEF AnalyzerInv, TypeOK, Counter
<1>5. TypeOK'
  BY <1>2, <1>4 DEF AnalyzerInv, TypeOK
<1>6. FieldsInv'
  BY <1>2, <1>3, <1>4 DEF AnalyzerInv, FieldsInv
<1>7. UsageIsOfOneSchema'
  BY <1>2, <1>3, <1>4 DEF AnalyzerInv, UsageIsOfOneSchema
<1>8. RegisteredQueryIsCounted'
  <2>1. NeedsLookup(message[e]) /\ e \in sure => QueryOf(e) # NoQuery
    BY DEF Ready, AnalyzerInv, QueriesInv, CreatedIsFound, QueryOf
  <2> QED
    BY <1>3, <1>4, <2>1 DEF AnalyzerInv, RegisteredQueryIsCounted
<1> QED
  BY <1>2, <1>5, <1>6, <1>7, <1>8 DEF AnalyzerInv

LEMMA CountAnalyzer ==
  ASSUME AnalyzerInv, NEW e \in Event, CountOperation(e)
  PROVE  AnalyzerInv'
<1> USE DEF CountOperation, Move
<1>1. /\ PQTypeOK' /\ QueriesInv' /\ WorkerInv'
      /\ stage' \in [Event -> {"unsent", "lost", "done"} \cup InProgress]
      /\ \A d \in Event : QueryOf(d)' = QueryOf(d)
  BY EventTypes DEF InProgress
<1>2. /\ \A d \in Event \ {e} : stage'[d] = stage[d]
      /\ stage'[e] \in {"extract", "done"}
      /\ used[e] = {} /\ QueryOf(e) # NoQuery
  BY DEF AnalyzerInv, TypeOK, FieldsInv
<1>3. /\ counted' \in [Counter -> SUBSET Event]
      /\ counted["operation"] \subseteq counted'["operation"]
      /\ e \in counted'["operation"]
  BY DEF AnalyzerInv, TypeOK, Counter
<1>4. TypeOK'
  BY <1>1, <1>3 DEF AnalyzerInv, TypeOK
<1>5. FieldsInv'
  BY <1>1, <1>2, <1>3 DEF AnalyzerInv, FieldsInv
<1>6. UsageIsOfOneSchema'
  BY <1>1, <1>2, <1>3 DEF AnalyzerInv, UsageIsOfOneSchema
<1>7. RegisteredQueryIsCounted'
  BY <1>2, <1>3 DEF AnalyzerInv, RegisteredQueryIsCounted
<1> QED
  BY <1>1, <1>4, <1>5, <1>6, <1>7 DEF AnalyzerInv

\* The fields are taken from what the worker knows at this moment, all at once.
LEMMA ExtractAnalyzer ==
  ASSUME AnalyzerInv, NEW e \in Event, Extract(e)
  PROVE  AnalyzerInv'
<1> USE DEF Extract, Move
<1>1. /\ PQTypeOK' /\ QueriesInv' /\ WorkerInv'
      /\ stage' \in [Event -> {"unsent", "lost", "done"} \cup InProgress]
      /\ \A d \in Event : QueryOf(d)' = QueryOf(d)
  BY EventTypes DEF InProgress
<1>2. /\ \A d \in Event \ {e} : stage'[d] = stage[d] /\ fields'[d] = fields[d]
      /\ stage'[e] = "fields" /\ fields'[e] = FieldsOf[QueryOf(e)][typeInfo]
      /\ used[e] = {} /\ QueryOf(e) # NoQuery /\ e \in counted["operation"]
  BY DEF AnalyzerInv, TypeOK, FieldsInv
<1>3. typeInfo \in (1..version) \ Broken /\ typeInfo \in Version
  BY DEF AnalyzerInv, WorkerInv, InProgress, TypeOK, NoVersion, Version
<1>4. TypeOK'
  <2>1. QueryOf(e) \in Query
    <3>1. message[e].query \in Query \cup {NoQuery}
      BY MessageAssumption DEF AnalyzerInv, TypeOK, Silence
    <3>2. query[e] \in Query \cup {NoQuery}
      BY EventAssumption DEF AnalyzerInv, TypeOK, PQTypeOK
    <3> QED
      BY <1>2, <3>1, <3>2 DEF QueryOf
  <2>2. FieldsOf[QueryOf(e)][typeInfo] \in SUBSET Field
    BY <1>3, <2>1, DataAssumption
  <2>3. fields' \in [Event -> SUBSET Field]
    BY <2>2 DEF AnalyzerInv, TypeOK
  <2> QED
    BY <1>1, <2>3 DEF AnalyzerInv, TypeOK
<1>5. FieldsInv'
  BY <1>1, <1>2, <1>3 DEF AnalyzerInv, FieldsInv
<1>6. UsageIsOfOneSchema'
  BY <1>1, <1>2 DEF AnalyzerInv, UsageIsOfOneSchema
<1>7. RegisteredQueryIsCounted'
  BY <1>2 DEF AnalyzerInv, RegisteredQueryIsCounted
<1> QED
  BY <1>1, <1>4, <1>5, <1>6, <1>7 DEF AnalyzerInv

\* What moves from one set to the other stays in their union.
LEMMA AddAnalyzer ==
  ASSUME AnalyzerInv, NEW e \in Event, AddField(e)
  PROVE  AnalyzerInv'
<1> USE DEF AddField
<1>1. PICK v \in (1..version) \ Broken :
        used[e] \cup fields[e] = FieldsOf[QueryOf(e)][v]
  BY DEF AnalyzerInv, FieldsInv
<1>2. stage[e] = "fields" /\ e \in counted["operation"] /\ QueryOf(e) # NoQuery
  BY DEF AnalyzerInv, FieldsInv
<1>3. /\ PQTypeOK' /\ QueriesInv'
      /\ \A d \in Event : QueryOf(d)' = QueryOf(d)
  BY DEF AnalyzerInv, TypeOK, PQTypeOK, QueriesInv, CachedIsRegistered,
         CreatedIsFound, QueryOf
<1>4. CASE fields[e] = {} /\ stage' = [stage EXCEPT ![e] = "done"]
           /\ UNCHANGED <<fields, used>>
  <2>1. /\ \A d \in Event \ {e} : stage'[d] = stage[d]
        /\ stage'[e] = "done"
        /\ WorkerInv'
        /\ stage' \in [Event -> {"unsent", "lost", "done"} \cup InProgress]
    BY <1>2, <1>4, EventTypes DEF AnalyzerInv, TypeOK, InProgress
  <2>2. TypeOK'
    BY <1>3, <1>4, <2>1 DEF AnalyzerInv, TypeOK
  <2>3. FieldsInv'
    BY <1>2, <1>3, <1>4, <2>1 DEF AnalyzerInv, FieldsInv
  <2>4. UsageIsOfOneSchema'
    BY <1>1, <1>2, <1>3, <1>4, <2>1 DEF AnalyzerInv, UsageIsOfOneSchema
  <2>5. RegisteredQueryIsCounted'
    BY <1>2, <2>1 DEF AnalyzerInv, RegisteredQueryIsCounted
  <2> QED
    BY <1>3, <2>1, <2>2, <2>3, <2>4, <2>5 DEF AnalyzerInv
<1>5. CASE \E f \in fields[e] : /\ fields' = [fields EXCEPT ![e] = @ \ {f}]
                               /\ used' = [used EXCEPT ![e] = @ \cup {f}]
                               /\ stage' = stage
  <2>1. PICK f \in fields[e] : /\ fields' = [fields EXCEPT ![e] = @ \ {f}]
                               /\ used' = [used EXCEPT ![e] = @ \cup {f}]
                               /\ stage' = stage
    BY <1>5
  <2>2. /\ \A d \in Event \ {e} : fields'[d] = fields[d] /\ used'[d] = used[d]
        /\ fields'[e] = fields[e] \ {f} /\ used'[e] = used[e] \cup {f}
        /\ used'[e] \cup fields'[e] = FieldsOf[QueryOf(e)][v]
    BY <1>1, <2>1 DEF AnalyzerInv, TypeOK
  <2>3. TypeOK'
    <3>1. f \in Field
      BY DEF AnalyzerInv, TypeOK
    <3>2. fields' \in [Event -> SUBSET Field] /\ used' \in [Event -> SUBSET Field]
      BY <2>1, <3>1 DEF AnalyzerInv, TypeOK
    <3> QED
      BY <1>3, <2>1, <3>2 DEF AnalyzerInv, TypeOK
  <2>4. WorkerInv'
    BY <2>1 DEF AnalyzerInv, WorkerInv
  <2>5. FieldsInv'
    BY <1>2, <1>3, <2>1, <2>2 DEF AnalyzerInv, FieldsInv
  <2>6. UsageIsOfOneSchema'
    <3>1. used'[e] \subseteq FieldsOf[QueryOf(e)][v]
      BY <2>2
    <3> QED
      BY <1>2, <1>3, <2>1, <2>2, <3>1 DEF AnalyzerInv, UsageIsOfOneSchema
  <2>7. RegisteredQueryIsCounted'
    BY <2>1 DEF AnalyzerInv, RegisteredQueryIsCounted
  <2> QED
    BY <1>3, <2>3, <2>4, <2>5, <2>6, <2>7 DEF AnalyzerInv
<1> QED
  BY <1>4, <1>5

------------------------------------------------------------------------------
\* One lemma for each action.
LEMMA NextAnalyzer ==
  ASSUME AnalyzerInv, [Next]_vars
  PROVE  AnalyzerInv'
<1>1. CASE /\ \/ \E c \in Request : Get(c) \/ \E q \in Query : Create(c, q)
              \/ \E c \in Call : Advance(c) \/ Fail(c)
              \/ External
           /\ UNCHANGED <<process, events>>
  BY <1>1, StoreAnalyzer
<1>2. CASE RegistryChanges \/ Start \/ Load \/ StartFails \/ Subscribe
  BY <1>2, ProcessAnalyzer
<1>3. CASE Crash
  BY <1>3, EndAnalyzer DEF Crash
<1>4. CASE \E e \in Event : Process(e) \/ \E m \in Message : Publish(e, m)
  <2>1. PICK e \in Event : Process(e) \/ \E m \in Message : Publish(e, m)
    BY <1>4
  <2>2. CASE \E m \in Message : Publish(e, m)
    BY <2>2, PublishAnalyzer
  <2>3. CASE Process(e)
    BY <2>3, MalformedAnalyzer, FindAnalyzer, TrackAnalyzer, EndAnalyzer,
       CountAnalyzer, ExtractAnalyzer, AddAnalyzer DEF Process, Rejects
  <2> QED
    BY <2>1, <2>2, <2>3
<1>5. CASE UNCHANGED vars
  BY <1>5 DEF AnalyzerInv, TypeOK, PQTypeOK, QueriesInv, CachedIsRegistered,
              CreatedIsFound, WorkerInv, FieldsInv, QueryOf, UsageIsOfOneSchema,
              RegisteredQueryIsCounted
<1> QED
  BY <1>1, <1>2, <1>3, <1>4, <1>5 DEF Next

\* The invariant holds throughout
\* (src/src/worker/analyzeQueries/index.ts:78).
THEOREM AnalyzerInvariance == Spec => []AnalyzerInv
<1>1. Init => AnalyzerInv
  BY InitAnalyzer
<1>2. AnalyzerInv /\ [Next]_vars => AnalyzerInv'
  BY NextAnalyzer
<1> QED
  BY <1>1, <1>2, PTL DEF Spec

\* Every variable holds a value of its kind
\* (src/src/worker/analyzeQueries/index.ts:78).
THEOREM AnalyzerTypes == Spec => []TypeOK
<1>1. AnalyzerInv => TypeOK
  BY DEF AnalyzerInv
<1> QED
  BY <1>1, AnalyzerInvariance, PTL

\* Redis never holds, and never will hold, a query that has no row, or that was
\* pushed for another key (src/src/database/persisted_queries.ts:60).
THEOREM CacheRegistered == Spec => []CachedIsRegistered
<1>1. AnalyzerInv => CachedIsRegistered
  BY DEF AnalyzerInv, QueriesInv
<1> QED
  BY <1>1, AnalyzerInvariance, PTL

\* A query whose registration was answered is found ever after, whatever Redis
\* does (src/src/redis/index.ts:98).
THEOREM RegisteredIsFound == Spec => []CreatedIsFound
<1>1. AnalyzerInv => CreatedIsFound
  BY DEF AnalyzerInv, QueriesInv
<1> QED
  BY <1>1, AnalyzerInvariance, PTL

\* Its events are counted (src/src/worker/analyzeQueries/index.ts:137).
THEOREM RegisteredIsCounted == Spec => []RegisteredQueryIsCounted
<1>1. AnalyzerInv => RegisteredQueryIsCounted
  BY DEF AnalyzerInv
<1> QED
  BY <1>1, AnalyzerInvariance, PTL

\* The fields of an event are those of one version, through any reloads
\* (src/src/worker/analyzeQueries/index.ts:290).
THEOREM OneSchema == Spec => []UsageIsOfOneSchema
<1>1. AnalyzerInv => UsageIsOfOneSchema
  BY DEF AnalyzerInv
<1> QED
  BY <1>1, AnalyzerInvariance, PTL

\* No step replaces a row (src/src/database/persisted_queries.ts:63).
THEOREM RowsStay == Spec => FirstQueryStays
<1>1. ASSUME TypeOK, [Next]_vars, NEW k \in Key, rows[k] # NoQuery
      PROVE  rows'[k] = rows[k]
  <2>1. CASE \E c \in Call : Insert(c)
    BY <1>1, <2>1 DEF Insert, TypeOK, PQTypeOK
  <2>2. CASE UNCHANGED rows
    BY <2>2
  <2>3. (\E c \in Call : Insert(c)) \/ UNCHANGED rows
    <3>1. CASE \E c \in Request : Get(c) \/ \E q \in Query : Create(c, q)
      BY <3>1 DEF Get, LookUp, Create
    <3>2. CASE \E c \in Call : Advance(c) \/ Fail(c)
      BY <3>2 DEF Advance, Hit, Miss, Select, SetCache, Fail
    <3>3. CASE External
      BY <3>3 DEF External, Land, Expire
    <3>4. CASE RegistryChanges \/ Start \/ Load \/ StartFails \/ Subscribe \/ Crash
      BY <3>4 DEF RegistryChanges, Start, Load, StartFails, Subscribe, Crash, Ends
    <3>5. CASE \E e \in Event : Process(e) \/ \E m \in Message : Publish(e, m)
      BY <3>5 DEF Process, Malformed, FindQuery, Track, Rejects, Ends, CountOperation,
                  Extract, AddField, Publish
    <3>6. CASE UNCHANGED vars
      BY <3>6
    <3> QED
      BY <1>1, <3>1, <3>2, <3>3, <3>4, <3>5, <3>6 DEF Next
  <2> QED
    BY <2>1, <2>2, <2>3
<1>2. TypeOK /\ [Next]_vars =>
        [\A k \in Key : rows[k] # NoQuery => rows'[k] = rows[k]]_pqVars
  BY <1>1
<1> QED
  BY <1>2, AnalyzerTypes, PTL DEF Spec, FirstQueryStays

=============================================================================
