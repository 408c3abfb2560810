---------------------------- MODULE PersistedQueries ----------------------------
(***************************************************************************)
(* Persisted queries: a table that is the truth and Redis in front of it   *)
(* (src/database/persisted_queries.ts, src/redis/index.ts).  Redis may be  *)
(* silent or gone: a read that is not answered in time goes to the table,  *)
(* a write that is not is left behind and may land at any later moment.    *)
(*                                                                         *)
(* A call is a request over HTTP, or a lookup of the worker, which         *)
(* QueryAnalyzer adds.  A call is made once.                               *)
(***************************************************************************)
CONSTANTS
  Key,
  Query,
  NoQuery,   \* null
  Call

ASSUME QueryAssumption == NoQuery \notin Query

VARIABLES
  rows,      \* rows[k]: the query in the table
  cache,     \* cache[k]: what Redis holds under k
  late,      \* the writes it was sent whose caller did not wait
  pc,        \* pc[c]: the step call c does next
  key,       \* key[c]: the key it is about
  query,     \* query[c]: the query it brings or has found
  pushed,    \* history: pushed[k]: the queries that came in for k
  created,   \* history: the keys whose registration was answered
  sure       \* history: the lookups that began after such an answer

store == <<rows, cache, late>>
calls == <<pc, key, query, pushed, created, sure>>
pqVars == <<store, calls>>

PQInit ==
  /\ rows = [k \in Key |-> NoQuery]
  /\ cache = [k \in Key |-> NoQuery]
  /\ late = {}
  /\ pc = [c \in Call |-> "idle"]
  /\ key \in [Call -> Key]
  /\ query = [c \in Call |-> NoQuery]
  /\ pushed = [k \in Key |-> {}]
  /\ created = {}
  /\ sure = {}

At(c, step) == pc[c] = step
Goto(c, step) == pc' = [pc EXCEPT ![c] = step]

------------------------------------------------------------------------------
(* set, of a request to register a query                                   *)

\* Faulty: Redis is written first.
CreateCacheFirst(c, q) ==
  /\ At(c, "idle") /\ Goto(c, "insert")
  /\ query' = [query EXCEPT ![c] = q]
  /\ pushed' = [pushed EXCEPT ![key[c]] = @ \cup {q}]
  /\ cache' = [cache EXCEPT ![key[c]] = q]
  /\ UNCHANGED <<rows, late, key, created, sure>>

Create(c, q) ==
  /\ At(c, "idle") /\ Goto(c, "insert")
  /\ query' = [query EXCEPT ![c] = q]
  /\ pushed' = [pushed EXCEPT ![key[c]] = @ \cup {q}]
  /\ UNCHANGED <<store, key, created, sure>>

\* The first query of a key stays; the cache is set to the one passed all the
\* same.
Insert(c) ==
  /\ At(c, "insert") /\ Goto(c, "cacheNew")
  /\ rows' = [rows EXCEPT ![key[c]] = IF @ = NoQuery THEN query[c] ELSE @]
  /\ UNCHANGED <<cache, late, key, query, pushed, created, sure>>

------------------------------------------------------------------------------
(* get                                                                     *)

LookUp(c) ==
  /\ Goto(c, "get")
  /\ sure' = IF key[c] \in created THEN sure \cup {c} ELSE sure
  /\ UNCHANGED <<store, key, query, pushed, created>>

\* A request to read a query.
Get(c) == At(c, "idle") /\ LookUp(c)

Hit(c) ==
  /\ At(c, "get") /\ Goto(c, "done")
  /\ cache[key[c]] # NoQuery
  /\ query' = [query EXCEPT ![c] = cache[key[c]]]
  /\ UNCHANGED <<store, key, pushed, created, sure>>

\* Faulty: an error of Redis is the answer.
MissIsFinal(c) ==
  /\ At(c, "get") /\ Goto(c, "done")
  /\ UNCHANGED <<store, key, query, pushed, created, sure>>

\* Faulty: nobody stops waiting for Redis.
MissUnheard(c) == At(c, "get") /\ UNCHANGED pqVars

\* Redis holds nothing, or does not say so in time.
Miss(c) ==
  /\ At(c, "get") /\ Goto(c, "select")
  /\ UNCHANGED <<store, key, query, pushed, created, sure>>

Select(c) ==
  /\ At(c, "select")
  /\ Goto(c, IF rows[key[c]] = NoQuery THEN "done" ELSE "cacheFound")
  /\ query' = [query EXCEPT ![c] = rows[key[c]]]
  /\ UNCHANGED <<store, key, pushed, created, sure>>

------------------------------------------------------------------------------
(* Redis, and failures                                                     *)

\* The write is done in time, or is on its way when its caller goes on, or is
\* not made at all.
SetCache(c) ==
  LET write == <<key[c], query[c]>>
  IN  /\ pc[c] \in {"cacheNew", "cacheFound"} /\ Goto(c, "done")
      /\ created' = IF At(c, "cacheNew") THEN created \cup {key[c]} ELSE created
      /\ \/ /\ cache' = [cache EXCEPT ![key[c]] = query[c]]
            /\ late' = late
         \/ /\ late' = late \cup {write}
            /\ cache' = cache
         \/ UNCHANGED <<cache, late>>
      /\ UNCHANGED <<rows, key, query, pushed, sure>>

Land ==
  \E write \in late :
    /\ cache' = [cache EXCEPT ![write[1]] = write[2]]
    /\ late' = late \ {write}
    /\ UNCHANGED <<rows, calls>>

Expire(k) ==
  /\ cache[k] # NoQuery
  /\ cache' = [cache EXCEPT ![k] = NoQuery]
  /\ UNCHANGED <<rows, late, calls>>

\* A statement fails.
Fail(c) ==
  /\ pc[c] \in {"insert", "select"} /\ Goto(c, "failed")
  /\ UNCHANGED <<store, key, query, pushed, created, sure>>

Advance(c) == Insert(c) \/ Hit(c) \/ Miss(c) \/ Select(c) \/ SetCache(c)

External == Land \/ \E k \in Key : Expire(k)

------------------------------------------------------------------------------
(* Properties.                                                             *)

PQTypeOK ==
  /\ rows \in [Key -> Query \cup {NoQuery}]
  /\ cache \in [Key -> Query \cup {NoQuery}]
  /\ late \subseteq Key \X Query
  /\ pc \in [Call -> {"idle", "insert", "cacheNew", "get", "select",
                      "cacheFound", "done", "failed"}]
  /\ key \in [Call -> Key]
  /\ query \in [Call -> Query \cup {NoQuery}]
  /\ pushed \in [Key -> SUBSET Query]
  /\ created \subseteq Key
  /\ sure \subseteq Call

\* What Redis holds for a key, or will when a late write lands, and what a
\* lookup has found, was pushed for that very key, and the table has a row for
\* it: a cached query never outlives, or precedes, its registration
\* (src/src/database/persisted_queries.ts:60).
CachedIsRegistered ==
  /\ \A k \in Key :
       /\ rows[k] \in pushed[k] \cup {NoQuery}
       /\ cache[k] # NoQuery => cache[k] \in pushed[k] /\ rows[k] # NoQuery
  /\ \A write \in late :
       write[2] \in pushed[write[1]] /\ rows[write[1]] # NoQuery
  /\ \A c \in Call : query[c] # NoQuery => query[c] \in pushed[key[c]]

\* A query whose registration was answered is found by every lookup that begins
\* afterwards, whatever Redis does meanwhile: no timeout, error or late write
\* turns it into null (src/src/redis/index.ts:98, README.md:626).
CreatedIsFound ==
  /\ \A k \in created : rows[k] # NoQuery
  /\ \A c \in sure : pc[c] = "done" => query[c] # NoQuery

\* A query in the table is never replaced, though Redis may serve another one
\* that was pushed for its key (src/src/database/persisted_queries.ts:63).
FirstQueryStays ==
  [][\A k \in Key : rows[k] # NoQuery => rows'[k] = rows[k]]_pqVars

=============================================================================
