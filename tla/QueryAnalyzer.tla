------------------------------ MODULE QueryAnalyzer ------------------------------
(***************************************************************************)
(* The worker that counts how queries use the schemas                      *)
(* (src/worker/analyzeQueries/index.ts).  Gateways publish an event for    *)
(* each query on a Redis channel, which reaches whoever is subscribed.     *)
(* The worker looks up the query if the event has only its hash, and adds  *)
(* to four counters in its memory, of which HitBuffer and ClientUsage are  *)
(* two.  Meanwhile it reloads the schema of the registry.                  *)
(*                                                                         *)
(* The worker handles events concurrently, one await at a time.  A promise *)
(* that is rejected and handled by nobody ends it.                         *)
(***************************************************************************)
EXTENDS PersistedQueries, Naturals

CONSTANTS
  Event,       \* the calls that are lookups of the worker
  Message,     \* what events may say, see MessageAssumption
  Field,       \* an entity and a property
  MaxVersion,  \* bound: the writes of the registry
  Broken,      \* the versions of the registry that do not compose
  OperationType,  \* OperationType[q]
  FieldsOf     \* FieldsOf[q][v]: the fields of version v that q asks for

Headers == [{"name", "origin", "agent", "version"} -> {"none", "blank", "given"}]

Version == 1..MaxVersion
NoVersion == 0

ASSUME EventAssumption ==
  Event \subseteq Call /\ MaxVersion \in Nat \ {0} /\ Broken \subseteq Version

ASSUME MessageAssumption ==
  Message \subseteq [wellFormed: BOOLEAN,  \* the payload is JSON
                     headers: BOOLEAN,
                     client: Headers,      \* what they tell of who asks
                     query: Query \cup {NoQuery},
                     hash: BOOLEAN,        \* key[e] is the hash it names
                     time: {"recent", "old", "noDate"},
                     session: BOOLEAN]     \* a subscription starts or ends

ASSUME DataAssumption ==
  /\ OperationType \in [Query -> {"QUERY", "SUBSCRIPTION", "UNPARSABLE"}]
  /\ FieldsOf \in [Query -> [Version -> SUBSET Field]]

VARIABLES
  version,   \* the version of the registry
  worker,    \* what the process is at
  typeInfo,  \* the version the worker knows
  stage,     \* stage[e]: the step processRequest does next for event e
  message,   \* message[e]: what it says
  fields,    \* fields[e]: the fields still to be added
  used,      \* used[e]: the fields that were added
  counted    \* counted[t]: the events that were added to counter t

process == <<version, worker, typeInfo>>
events  == <<stage, message, fields, used, counted>>
vars == <<pqVars, process, events>>

Silence == [wellFormed |-> FALSE, headers |-> FALSE, query |-> NoQuery,
            client |-> [x \in {"name", "origin", "agent", "version"} |-> "none"],
            hash |-> FALSE, time |-> "recent", session |-> FALSE]
Counter == {"client", "session", "operation"}

Init ==
  /\ PQInit
  /\ version = 1 /\ worker = "down" /\ typeInfo = NoVersion
  /\ stage = [e \in Event |-> "unsent"]
  /\ message = [e \in Event |-> Silence]
  /\ fields = [e \in Event |-> {}]
  /\ used = [e \in Event |-> {}]
  /\ counted = [t \in Counter |-> {}]

------------------------------------------------------------------------------
(* The process: start, loadSchema, subscribe, and its end                  *)

InProgress == {"received", "lookup", "operation", "extract", "fields"}

\* Bound: nothing more is asked of the worker after its last event.
Pending == \E e \in Event : stage[e] \notin {"done", "lost"}

RegistryChanges ==
  /\ Pending /\ version < MaxVersion /\ version' = version + 1
  /\ UNCHANGED <<pqVars, worker, typeInfo, events>>

Start ==
  /\ Pending /\ worker = "down" /\ worker' = "loading"
  /\ UNCHANGED <<pqVars, version, typeInfo, events>>

\* The timer of reloads is set after the first load.  It waits for none of
\* them, so that they may overlap and end in any order, with what they read at
\* any earlier moment.
Load ==
  /\ Pending
  /\ worker = "loading" \/ typeInfo # NoVersion
  /\ typeInfo' \in (1..version) \ Broken
  /\ worker' = IF worker = "loading" THEN "loaded" ELSE worker
  /\ UNCHANGED <<pqVars, version, events>>

\* The schemas cannot be read, or do not compose.  Nothing that start was to do
\* afterwards is done, now or later.
StartFails ==
  /\ worker = "loading" /\ worker' = "deaf"
  /\ UNCHANGED <<pqVars, version, typeInfo, events>>

\* A subscription that fails is not tried again.
Subscribe ==
  /\ worker = "loaded"
  /\ worker' \in {"subscribed", "deaf"}
  /\ UNCHANGED <<pqVars, version, typeInfo, events>>

Ends ==
  /\ worker' = "down" /\ typeInfo' = NoVersion
  /\ stage' = [e \in Event |-> IF stage[e] \in InProgress THEN "lost" ELSE stage[e]]
  /\ fields' = [e \in Event |-> {}]
  /\ pc' = [c \in Call |->
              IF c \in Event /\ pc[c] \in {"get", "select", "cacheFound"}
              THEN "failed" ELSE pc[c]]
  /\ UNCHANGED <<store, key, query, pushed, created, sure, version, message,
                 used, counted>>

\* A reload that fails, whose promise nobody handles, or a kill.
Crash == Pending /\ worker # "down" /\ Ends

------------------------------------------------------------------------------
(* processRequest                                                          *)

Move(e, from, to) == stage[e] = from /\ stage' = [stage EXCEPT ![e] = to]

\* The gateway's request-logger.  An event that finds nobody subscribed is gone,
\* which is as if it had not been sent.
Publish(e, m) ==
  /\ Move(e, "unsent", "received") /\ worker = "subscribed"
  /\ message' = [message EXCEPT ![e] = m]
  /\ sure' = IF key[e] \in created THEN sure \cup {e} ELSE sure
  /\ UNCHANGED <<store, pc, key, query, pushed, created, process, fields, used,
                 counted>>

Malformed(e) ==
  /\ Move(e, "received", "done") /\ ~message[e].wellFormed
  /\ UNCHANGED <<pqVars, process, message, fields, used, counted>>

NeedsLookup(m) == m.wellFormed /\ m.headers /\ m.query = NoQuery

FindQuery(e) ==
  /\ Move(e, "received", "lookup")
  /\ NeedsLookup(message[e]) /\ message[e].hash
  /\ Goto(e, "get")
  /\ UNCHANGED <<store, key, query, pushed, created, sure, process, message,
                 fields, used, counted>>

\* What is known of the query when it need not be looked up, or has been.
Ready(e) ==
  \/ /\ stage[e] = "received" /\ message[e].wellFormed
     /\ ~NeedsLookup(message[e])
  \/ stage[e] = "lookup" /\ At(e, "done")

QueryOf(e) == IF message[e].query # NoQuery THEN message[e].query
              ELSE IF NeedsLookup(message[e]) THEN query[e] ELSE NoQuery

\* A client without a name of its own goes by the site it comes from, or is a
\* browser; one without a version has an unknown one.  A name or a version that
\* is blank is not replaced, and then it is no client.
Identified(m) ==
  /\ m.headers
  /\ \/ m.client.name = "given"
     \/ m.client.name = "none" /\ "given" \in {m.client.origin, m.client.agent}
  /\ m.client.version # "blank"

\* Who asked, and the sessions of subscriptions, are counted whether or not
\* there is a query; allowNewHitWithTime refuses an old one.
Track(e) ==
  LET m == message[e]
      toCount == QueryOf(e) # NoQuery /\ m.time = "recent"
  IN  /\ Ready(e) /\ m.time # "noDate"
      /\ stage' = [stage EXCEPT ![e] = IF toCount THEN "operation" ELSE "done"]
      /\ counted' = [counted EXCEPT
           !["client"] = IF Identified(m) THEN @ \cup {e} ELSE @,
           !["session"] = IF m.session THEN @ \cup {e} ELSE @]
      /\ UNCHANGED <<pqVars, process, message, fields, used>>

\* A lookup without a hash, a statement that failed and a time that is no date
\* are errors outside the try block.
Rejects(e) ==
  /\ \/ /\ stage[e] = "received"
        /\ NeedsLookup(message[e]) /\ ~message[e].hash
     \/ stage[e] = "lookup" /\ At(e, "failed")
     \/ Ready(e) /\ message[e].time = "noDate"
  /\ Ends

\* The operation the event names, or the first one.
IsQuery(q) == OperationType[q] = "QUERY"

\* Subscriptions have no fields in the federated schema, and a query that
\* cannot be parsed is counted and its error logged.
CountOperation(e) ==
  /\ Move(e, "operation",
          IF IsQuery(QueryOf(e)) THEN "extract" ELSE "done")
  /\ counted' = [counted EXCEPT !["operation"] = @ \cup {e}]
  /\ UNCHANGED <<pqVars, process, message, fields, used>>

\* extractQueryFields visits the whole query with the schema of this moment.
Extract(e) ==
  /\ Move(e, "extract", "fields")
  /\ fields' = [fields EXCEPT ![e] = FieldsOf[QueryOf(e)][typeInfo]]
  /\ UNCHANGED <<pqVars, process, message, used, counted>>

\* Faulty: a field is looked up when it is added.
AddFieldOfTheMoment(e) ==
  LET now == FieldsOf[QueryOf(e)][typeInfo] \ used[e]
  IN  /\ stage[e] = "fields"
      /\ used' = [used EXCEPT ![e] = @ \cup (IF now = {} THEN {} ELSE {CHOOSE f \in now : TRUE})]
      /\ stage' = [stage EXCEPT ![e] = IF now = {} THEN "done" ELSE @]
      /\ UNCHANGED <<pqVars, process, message, fields, counted>>

AddField(e) ==
  /\ stage[e] = "fields"
  /\ \/ \E f \in fields[e] :
          /\ fields' = [fields EXCEPT ![e] = @ \ {f}]
          /\ used' = [used EXCEPT ![e] = @ \cup {f}]
          /\ stage' = stage
     \/ /\ fields[e] = {}
        /\ stage' = [stage EXCEPT ![e] = "done"]
        /\ UNCHANGED <<fields, used>>
  /\ UNCHANGED <<pqVars, process, message, counted>>

Process(e) ==
  \/ Malformed(e) \/ FindQuery(e) \/ Track(e) \/ Rejects(e)
  \/ CountOperation(e) \/ Extract(e) \/ AddField(e)

------------------------------------------------------------------------------
Request == Call \ Event

Next ==
  \/ /\ \/ \E c \in Request : Get(c) \/ \E q \in Query : Create(c, q)
        \/ \E c \in Call : Advance(c) \/ Fail(c)
        \/ External
     /\ UNCHANGED <<process, events>>
  \/ RegistryChanges \/ Start \/ Load \/ StartFails \/ Subscribe \/ Crash
  \/ \E e \in Event : Process(e) \/ \E m \in Message : Publish(e, m)

Spec == Init /\ [][Next]_vars

\* Statements are answered, the waits for Redis end and the event loop goes on.
FairSpec ==
  /\ Spec
  /\ \A c \in Call : WF_vars(Advance(c) /\ UNCHANGED <<process, events>>)
  /\ \A e \in Event : WF_vars(Process(e))

------------------------------------------------------------------------------
(* Properties.                                                             *)

\* Every variable holds a value of its kind
\* (src/src/worker/analyzeQueries/index.ts, src/src/database/persisted_queries.ts).
TypeOK ==
  /\ PQTypeOK
  /\ version \in Version
  /\ worker \in {"down", "loading", "loaded", "subscribed", "deaf"}
  /\ typeInfo \in Version \cup {NoVersion}
  /\ stage \in [Event -> {"unsent", "lost", "done"} \cup InProgress]
  /\ message \in [Event -> Message \cup {Silence}]
  /\ fields \in [Event -> SUBSET Field]
  /\ used \in [Event -> SUBSET Field]
  /\ counted \in [Counter -> SUBSET Event]

\* An event that names the hash of a query registered before it was published
\* is counted as an operation once it has been processed, though Redis fails,
\* answers late or holds nothing (src/src/worker/analyzeQueries/index.ts:137).
RegisteredQueryIsCounted ==
  \A e \in Event :
    stage[e] = "done" /\ NeedsLookup(message[e]) /\ e \in sure
      /\ message[e].time = "recent" => e \in counted["operation"]

\* The fields an event has used are those its query has in one version of the
\* registry, which composed, whatever reloads come between two of them; an
\* event with fields is counted as an operation too
\* (src/src/worker/analyzeQueries/index.ts:290).
UsageIsOfOneSchema ==
  \A e \in Event : used[e] # {} =>
    /\ e \in counted["operation"]
    /\ \E v \in (1..version) \ Broken :
         /\ used[e] \subseteq FieldsOf[QueryOf(e)][v]
         /\ stage[e] = "done" => used[e] = FieldsOf[QueryOf(e)][v]

\* A call that is about to write to Redis has a query, and the table has a row for
\* its key; what was sure when a lookup began stays so
\* (src/src/database/persisted_queries.ts:60).
QueriesInv ==
  /\ CachedIsRegistered /\ CreatedIsFound
  /\ \A c \in Call :
       /\ pc[c] \in {"insert", "cacheNew", "cacheFound"} => query[c] # NoQuery
       /\ pc[c] \in {"cacheNew", "cacheFound"} => rows[key[c]] # NoQuery
       /\ c \in sure => key[c] \in created

\* Only a subscribed worker has events at hand, and it knows a version that
\* composes; an event is looked up at one step only
\* (src/src/worker/analyzeQueries/index.ts:47).
WorkerInv ==
  /\ typeInfo # NoVersion => typeInfo \in (1..version) \ Broken
  /\ worker \in {"loaded", "subscribed"} => typeInfo # NoVersion
  /\ \A e \in Event :
       /\ stage[e] \in InProgress => worker = "subscribed"
       /\ pc[e] \notin {"insert", "cacheNew"}
       /\ stage[e] \in {"unsent", "received"} => pc[e] = "idle"
       /\ stage[e] # "lookup" => pc[e] \in {"idle", "done", "failed"}
       /\ stage[e] = "lookup" => NeedsLookup(message[e])

\* An event is counted before its fields are looked at, and those it still has
\* to add and those it has added are those of one version
\* (src/src/worker/analyzeQueries/index.ts:271).
FieldsInv ==
  \A e \in Event :
    /\ stage[e] \in {"operation", "extract", "fields"} => QueryOf(e) # NoQuery
    /\ stage[e] \in {"extract", "fields"} \/ used[e] # {} => e \in counted["operation"]
    /\ stage[e] \in {"unsent", "received", "lookup", "operation", "extract"} =>
         used[e] = {}
    /\ stage[e] = "fields" =>
         \E v \in (1..version) \ Broken :
           used[e] \cup fields[e] = FieldsOf[QueryOf(e)][v]

\* The queries, the worker and its events fit together: an inductive invariant
\* (src/src/worker/analyzeQueries/index.ts, src/src/database/persisted_queries.ts).
AnalyzerInv ==
  TypeOK /\ QueriesInv /\ WorkerInv /\ FieldsInv
    /\ UsageIsOfOneSchema /\ RegisteredQueryIsCounted

\* An event the worker received is processed, or goes down with it, even when
\* Redis never answers (src/src/worker/analyzeQueries/index.ts:78,
\* src/src/redis/index.ts:101).
EventsEnd ==
  \A e \in Event : stage[e] = "received" ~> stage[e] \in {"done", "lost"}

=============================================================================
