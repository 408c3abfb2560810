------------------------------- MODULE Registry -------------------------------
(***************************************************************************)
(* The requests that write the registry: POST /schema/push, the            *)
(* (de)activation of a schema, DELETE of a service, and the read-only      *)
(* POST /schema/validate.  Each runs in one database transaction at READ   *)
(* COMMITTED, spread over many awaits: one action below is one statement,  *)
(* and any number of requests, of one process or of several, interleave    *)
(* between statements.                                                     *)
(*                                                                         *)
(* The database is external and modelled by what these statements need of  *)
(* it: a statement sees the committed rows overlaid with those of its own  *)
(* transaction; an UPDATE waits for the transaction that holds the row;    *)
(* an INSERT waits for an uncommitted row with the same unique key and     *)
(* fails on a committed one; a foreign key must point at a visible row and *)
(* keeps it from being deleted; a DELETE takes its row first and then      *)
(* waits for the rows its cascade reaches; of two transactions that wait   *)
(* for each other the database fails one.                                  *)
(***************************************************************************)
EXTENDS RegistryTables

CONSTANTS
  Txn,        \* the requests of a behaviour, each handled once
  Requests,   \* what they may ask for
  PoolSize,   \* how many transactions the connection pools allow at once
  Ticks       \* milliseconds that may pass before a request starts

PushRequest     == [kind: {"push"}, name: Name, version: Version,
                    def: TypeDefs, url: Url \cup {NoUrl}]
ToggleRequest   == [kind: {"toggle"}, schema: Id, active: BOOLEAN]
DeleteRequest   == [kind: {"delete"}, name: Name]
ValidateRequest == [kind: {"validate"}, name: Name, def: TypeDefs]
Request == PushRequest \cup ToggleRequest \cup DeleteRequest
             \cup ValidateRequest

ASSUME RequestAssumption == Requests \subseteq Request
ASSUME BoundsAssumption  == PoolSize \in Nat /\ Ticks \subseteq Nat

VARIABLES
  db,        \* the committed tables
  work,      \* work[t]: the row versions transaction t wrote and still holds
  nextId,    \* the sequences of the three tables
  clock,     \* milliseconds, as new Date() reads them
  pc,        \* pc[t]: the statement request t runs next
  req,       \* req[t]: what request t asks for
  local      \* local[t]: what its handler remembers between statements

vars == <<db, work, nextId, clock, pc, req, local>>

Statements ==
  {"getService", "insertService", "updateUrl", "findSchema", "versionExists",
   "writeSchema", "findContainer", "switchContainer", "insertContainer",
   "readResult", "readExact", "fallback", "toggle", "readActive", "validate", "commit",
   "delete", "cascade"}

\* A request that failed, before its rollback.  conflict and invalid answer 400;
\* constraint (the database refused a statement) and error (the connection or
\* the process was lost) answer 500.
Refusals == {"conflict", "invalid", "constraint", "error"}

NoRequest == [kind |-> "none"]

NoLocal == [service |-> None, schema |-> None, container |-> None, time |-> 0,
            names |-> {}, answer |-> {}]

Open(t) == pc[t] \in Statements \cup Refusals

View(t) == OverlayTables(db, work[t])

------------------------------------------------------------------------------
(* What a statement of t waits for in the transactions of the others.      *)

Others(t) == Txn \ {t}

\* The row of the service is taken by a DELETE that has not ended.
ServiceGoing(t, id) ==
  \E u \in Others(t) : req[u].kind = "delete" /\ local[u].service = id

ServiceHeld(t, id) ==
  ServiceGoing(t, id) \/ \E u \in Others(t) : id \in Ids(work[u].services)
SchemaHeld(t, id)    == \E u \in Others(t) : id \in Ids(work[u].schema)
ContainerHeld(t, id) == \E u \in Others(t) : id \in Ids(work[u].container)

NamePending(t, name) ==
  \/ \E u \in Others(t) : \E s \in work[u].services : s.name = name
  \/ \E s \in db.services : s.name = name /\ ServiceGoing(t, s.id)

BindingPending(t, service, version) ==
  \E u \in Others(t) : \E c \in work[u].container :
     c.service = service /\ c.version = version

\* The row of the service is kept by the foreign key of a row just inserted.
ServiceShared(t, id) ==
  \E u \in Others(t) :
     \/ \E s \in work[u].schema : s.service = id /\ s.id \notin Ids(db.schema)
     \/ \E c \in work[u].container :
          c.service = id /\ c.id \notin Ids(db.container)

\* A row the deletion of the service cascades to is another transaction's.
CascadeHeld(t, id) ==
  \E u \in Others(t) :
     \E r \in work[u].schema \cup work[u].container : r.service = id

------------------------------------------------------------------------------
Init ==
  /\ db = NoRows
  /\ work = [t \in Txn |-> NoRows]
  /\ nextId = [services |-> 1, schema |-> 1, container |-> 1]
  /\ clock = 0
  /\ pc = [t \in Txn |-> "idle"]
  /\ req = [t \in Txn |-> NoRequest]
  /\ local = [t \in Txn |-> NoLocal]

Goto(t, from, to) ==
  /\ pc[t] = from
  /\ pc' = [pc EXCEPT ![t] = to]

\* A throw inside the callback of transact, whose catch rolls back.
Throw(t, from, why) ==
  /\ Goto(t, from, why)
  /\ UNCHANGED <<db, work, nextId, clock, req, local>>

\* The request is answered and its handler is gone.
Answer(t, from) ==
  /\ Goto(t, from, "done")
  /\ req' = [req EXCEPT ![t] = NoRequest]
  /\ local' = [local EXCEPT ![t] = NoLocal]

FirstStatement(r) ==
  CASE r.kind = "push"     -> "getService"
    [] r.kind = "toggle"   -> "toggle"
    [] r.kind = "delete"   -> "delete"
    [] r.kind = "validate" -> "readActive"

\* transact takes a connection; registerSchema reads the clock first of all.
Begin(t) ==
  /\ Cardinality({u \in Txn : Open(u)}) < PoolSize
  /\ \E r \in Requests, d \in Ticks :
       /\ Goto(t, "idle", FirstStatement(r))
       /\ req' = [req EXCEPT ![t] = r]
       /\ clock' = clock + d
       /\ local' = [local EXCEPT ![t].time = clock + d]
  /\ UNCHANGED <<db, work, nextId>>

------------------------------------------------------------------------------
(* registerSchema: the service.                                            *)

\* The row read has no url, so a request that names one always updates.
GetService(t) ==
  /\ pc[t] = "getService"
  /\ \/ \E s \in View(t).services :
          /\ s.name = req[t].name
          /\ local' = [local EXCEPT ![t].service = s.id]
          /\ Goto(t, "getService",
                  IF req[t].url = NoUrl THEN "findSchema" ELSE "updateUrl")
     \/ /\ req[t].name \notin ActiveNames(View(t))
        /\ Goto(t, "getService", "insertService")
        /\ UNCHANGED local
  /\ UNCHANGED <<db, work, nextId, clock, req>>

InsertService(t) ==
  /\ pc[t] = "insertService"
  /\ ~NamePending(t, req[t].name)
  /\ \/ /\ req[t].name \in ActiveNames(View(t))
        /\ Throw(t, "insertService", "constraint")
     \/ /\ req[t].name \notin ActiveNames(View(t))
        /\ work' = [work EXCEPT ![t].services = Overlay(@,
             {[id |-> nextId.services, name |-> req[t].name,
               url |-> req[t].url]})]
        /\ nextId' = [nextId EXCEPT !.services = @ + 1]
        /\ local' = [local EXCEPT ![t].service = nextId.services]
        /\ Goto(t, "insertService", "findSchema")
        /\ UNCHANGED <<db, clock, req>>

\* An UPDATE of a row deleted in the meantime changes nothing.
UpdateUrl(t) ==
  /\ pc[t] = "updateUrl"
  /\ ~ServiceHeld(t, local[t].service)
  /\ work' = [work EXCEPT ![t].services = Overlay(@,
       {[s EXCEPT !.url = req[t].url] :
          s \in {s \in View(t).services : s.id = local[t].service}})]
  /\ Goto(t, "updateUrl", "findSchema")
  /\ UNCHANGED <<db, nextId, clock, req, local>>

------------------------------------------------------------------------------
(* registerSchema: the schema row.                                         *)

\* Faulty: the uuid is taken of the service's raw text, which no row has.
FindNone(t) == {}

\* Faulty: the uuid is looked up in all services.
FindAnywhere(t) == {s \in View(t).schema : s.def = req[t].def}

\* findExistingSchema: the rows it may return, in no order.
FindExisting(t) == {s \in View(t).schema : /\ s.service = local[t].service
                                           /\ s.def = req[t].def}

FindSchema(t) ==
  LET found == FindExisting(t)
  IN  /\ pc[t] = "findSchema"
      /\ \/ \E s \in found :
              /\ local' = [local EXCEPT ![t].schema = s.id]
              /\ Goto(t, "findSchema", "writeSchema")
         \/ /\ found = {}
            /\ Goto(t, "findSchema",
                    IF IsDev(req[t].version) THEN "writeSchema"
                                            ELSE "versionExists")
            /\ UNCHANGED local
      /\ UNCHANGED <<db, work, nextId, clock, req>>

\* The containers that bind this service and version.
Bound(t) == {c \in View(t).container : /\ c.service = local[t].service
                                       /\ c.version = req[t].version}

VersionExists(t) ==
  \/ /\ Throw(t, "versionExists", "conflict")
     /\ Bound(t) # {}
  \/ /\ Goto(t, "versionExists", "writeSchema")
     /\ Bound(t) = {}
     /\ UNCHANGED <<db, work, nextId, clock, req, local>>

TouchSchema(t) ==
  /\ pc[t] = "writeSchema"
  /\ local[t].schema # None
  /\ ~SchemaHeld(t, local[t].schema)
  /\ work' = [work EXCEPT ![t].schema = Overlay(@,
       {[s EXCEPT !.updated = local[t].time] :
          s \in {s \in View(t).schema : s.id = local[t].schema}})]
  /\ Goto(t, "writeSchema", "findContainer")
  /\ UNCHANGED <<db, nextId, clock, req, local>>

InsertSchema(t) ==
  /\ pc[t] = "writeSchema"
  /\ local[t].schema = None
  /\ ~ServiceGoing(t, local[t].service)
  /\ \/ /\ local[t].service \notin Ids(View(t).services)
        /\ Throw(t, "writeSchema", "constraint")
     \/ /\ local[t].service \in Ids(View(t).services)
        /\ work' = [work EXCEPT ![t].schema = Overlay(@,
             {[id |-> nextId.schema, service |-> local[t].service,
               def |-> req[t].def, active |-> TRUE,
               added |-> local[t].time, updated |-> local[t].time]})]
        /\ nextId' = [nextId EXCEPT !.schema = @ + 1]
        /\ local' = [local EXCEPT ![t].schema = nextId.schema]
        /\ Goto(t, "writeSchema", "findContainer")
        /\ UNCHANGED <<db, clock, req>>

WriteSchema(t) == TouchSchema(t) \/ InsertSchema(t)

------------------------------------------------------------------------------
(* registerSchema: the container, which binds a version to a schema.       *)

FindContainer(t) ==
  LET found == {c \in Bound(t) : \/ IsDev(req[t].version)
                                 \/ c.schema = local[t].schema}
  IN  /\ pc[t] = "findContainer"
      /\ \/ \E c \in found :
              /\ local' = [local EXCEPT ![t].container = c.id]
              /\ Goto(t, "findContainer",
                      IF IsDev(req[t].version) THEN "switchContainer"
                                              ELSE "readResult")
         \/ /\ found = {}
            /\ Goto(t, "findContainer", "insertContainer")
            /\ UNCHANGED local
      /\ UNCHANGED <<db, work, nextId, clock, req>>

\* Faulty: the update of schema_id is lost.
KeepSchema(c, schema) == c

\* Only the schema is switched: the container keeps its id and its time.
Rebound(c, schema) == [c EXCEPT !.schema = schema]

SwitchContainer(t) ==
  /\ pc[t] = "switchContainer"
  /\ \A c \in Bound(t) : ~ContainerHeld(t, c.id)
  /\ \/ /\ local[t].schema \notin Ids(View(t).schema)
        /\ Bound(t) # {}
        /\ Throw(t, "switchContainer", "constraint")
     \/ /\ local[t].schema \in Ids(View(t).schema) \/ Bound(t) = {}
        /\ work' = [work EXCEPT ![t].container = Overlay(@,
             {Rebound(c, local[t].schema) : c \in Bound(t)})]
        /\ Goto(t, "switchContainer", "readResult")
        /\ UNCHANGED <<db, nextId, clock, req, local>>

InsertContainer(t) ==
  LET refused == \/ Bound(t) # {}
                 \/ local[t].service \notin Ids(View(t).services)
                 \/ local[t].schema \notin Ids(View(t).schema)
  IN  /\ pc[t] = "insertContainer"
      /\ ~BindingPending(t, local[t].service, req[t].version)
      /\ ~ServiceGoing(t, local[t].service)
      /\ \/ refused /\ Throw(t, "insertContainer", "constraint")
         \/ /\ ~refused
            /\ work' = [work EXCEPT ![t].container = Overlay(@,
                 {[id |-> nextId.container, service |-> local[t].service,
                   schema |-> local[t].schema, version |-> req[t].version,
                   added |-> local[t].time]})]
            /\ nextId' = [nextId EXCEPT !.container = @ + 1]
            /\ local' = [local EXCEPT ![t].container = nextId.container]
            /\ Goto(t, "insertContainer", "readResult")
            /\ UNCHANGED <<db, clock, req>>

------------------------------------------------------------------------------
(* registerSchema: the answer, the first row of getSchemaByServiceVersions *)
(* for the pushed service and every active one.                            *)

\* Faulty: the version is looked up in all services.
ExactAnywhere(v, name, version) ==
  {b \in v.container \X v.schema :
     ~IsDev(version) /\ b[1].version = version /\ b[2].id = b[1].schema}

\* The rows of exactly the requested version, which the dev version never has.
Exact(v, name, version) ==
  {b \in v.container \X v.schema :
     /\ ~IsDev(version)
     /\ b[1].version = version /\ b[2].id = b[1].schema
     /\ \E s \in v.services : s.id = b[1].service /\ s.name = name}

FirstRow(rows) ==
  {r \in rows : \A o \in rows : r.service <= o.service}

ReadResult(t) ==
  /\ pc[t] = "readResult"
  /\ local' = [local EXCEPT ![t].names =
                 {req[t].name} \cup ActiveNames(View(t))]
  /\ Goto(t, "readResult", "readExact")
  /\ UNCHANGED <<db, work, nextId, clock, req>>

ReadExact(t) ==
  /\ pc[t] = "readExact"
  /\ local' = [local EXCEPT ![t].answer =
       {[name |-> req[t].name, def |-> b[2].def] :
          b \in Exact(View(t), req[t].name, req[t].version)}]
  /\ Goto(t, "readExact", "fallback")
  /\ UNCHANGED <<db, work, nextId, clock, req>>

\* A row of the exact version precedes the latest rows of the other services;
\* without one, the service itself is among those that fall back.
Fallback(t) ==
  /\ pc[t] = "fallback"
  /\ \/ local[t].answer # {} /\ UNCHANGED local
     \/ /\ local[t].answer = {}
        /\ local' = [local EXCEPT ![t].answer =
             PartsOf(FirstRow(LastUpdated(View(t), local[t].names)))]
  /\ Goto(t, "fallback", "readActive")
  /\ UNCHANGED <<db, work, nextId, clock, req>>

------------------------------------------------------------------------------
(* toggleSchema, getAndValidateSchema, validateSchema, deleteService.      *)

Toggle(t) ==
  /\ pc[t] = "toggle"
  /\ ~SchemaHeld(t, req[t].schema)
  /\ work' = [work EXCEPT ![t].schema = Overlay(@,
       {[s EXCEPT !.active = req[t].active] :
          s \in {s \in View(t).schema : s.id = req[t].schema}})]
  /\ Goto(t, "toggle", "readActive")
  /\ UNCHANGED <<db, nextId, clock, req, local>>

ReadActive(t) ==
  /\ local' = [local EXCEPT ![t].names = ActiveNames(View(t))]
  /\ Goto(t, "readActive", "validate")
  /\ UNCHANGED <<db, work, nextId, clock, req>>

\* Faulty: the committed tables are validated, not the transaction's own.
ComposedOutside(t) == PartsOf(LastUpdated(db, local[t].names))

\* Faulty: the pushed service is left out of the set.
ComposedWithout(t) ==
  {p \in PartsOf(LastUpdated(View(t), local[t].names)) :
     req[t].kind # "push" \/ p.name # req[t].name}

\* The set this request composes, with the candidate of POST /schema/validate.
Composed(t) ==
  LET latest == PartsOf(LastUpdated(View(t), local[t].names))
  IN  IF req[t].kind = "validate"
      THEN {p \in latest : p.name # req[t].name}
             \cup {[name |-> req[t].name, def |-> req[t].def]}
      ELSE latest

Validate(t) ==
  \/ /\ Throw(t, "validate", "invalid")
     /\ ~Composes(Composed(t))
  \/ /\ Goto(t, "validate", "commit")
     /\ Composes(Composed(t))
     /\ UNCHANGED <<db, work, nextId, clock, req, local>>

Without(d, id) ==
  [services  |-> {s \in d.services : s.id # id},
   schema    |-> {s \in d.schema : s.service # id},
   container |-> {c \in d.container : c.service # id}]

\* deleteService is one statement outside any transaction.  It takes the row of
\* the service first ...
LockService(t) ==
  LET found == {s \in db.services : s.name = req[t].name}
  IN  /\ pc[t] = "delete"
      /\ \/ \E s \in found :
               /\ ~ServiceHeld(t, s.id) /\ ~ServiceShared(t, s.id)
               /\ local' = [local EXCEPT ![t].service = s.id]
               /\ Goto(t, "delete", "cascade")
               /\ UNCHANGED req
         \/ found = {} /\ Answer(t, "delete")
      /\ UNCHANGED <<db, work, nextId, clock>>

\* Faulty: the statement lost its WHERE.
CascadeEverywhere(t) ==
  /\ Answer(t, "cascade")
  /\ ~CascadeHeld(t, local[t].service)
  /\ db' = NoRows
  /\ UNCHANGED <<work, nextId, clock>>

\* ... and then the rows the foreign keys cascade to.  They are taken at once:
\* a request that holds one of them waits for no other of them.
Cascade(t) ==
  /\ Answer(t, "cascade")
  /\ ~CascadeHeld(t, local[t].service)
  /\ db' = Without(db, local[t].service)
  /\ UNCHANGED <<work, nextId, clock>>

DeleteService(t) == LockService(t) \/ Cascade(t)

\* The DELETE that took the service waits for a schema the push has touched, and
\* the container of that push waits for the service.
Deadlocked(d, p) ==
  /\ pc[d] = "cascade" /\ pc[p] = "insertContainer"
  /\ local[p].service = local[d].service
  /\ \E s \in work[p].schema : s.service = local[d].service

------------------------------------------------------------------------------
(* transact.                                                               *)

Publish(t) ==
  /\ db' = View(t)
  /\ work' = [work EXCEPT ![t] = NoRows]
  /\ UNCHANGED <<nextId, clock>>

Commit(t) == Answer(t, "commit") /\ Publish(t)

\* The database commits but its answer is lost: the request fails all the same.
CommitUnanswered(t) ==
  /\ Goto(t, "commit", "error")
  /\ Publish(t)
  /\ UNCHANGED <<req, local>>

\* Faulty: the error is rethrown with the transaction still open.
RollbackForgotten(t) ==
  /\ pc[t] \in Refusals
  /\ Answer(t, pc[t])
  /\ UNCHANGED <<db, work, nextId, clock>>

Rollback(t) ==
  /\ pc[t] \in Refusals
  /\ Answer(t, pc[t])
  /\ work' = [work EXCEPT ![t] = NoRows]
  /\ UNCHANGED <<db, nextId, clock>>

\* The database finds the deadlock and fails either of the two.
Deadlock(t) ==
  /\ \E u \in Others(t) : Deadlocked(t, u) \/ Deadlocked(u, t)
  /\ Throw(t, pc[t], "error")

\* The connection or the process is lost, or a statement fails for a reason
\* of the database's own; it ends the transaction either way.
Fail(t) ==
  /\ pc[t] \in Statements
  /\ Throw(t, pc[t], "error")

Step(t) ==
  \/ GetService(t) \/ InsertService(t) \/ UpdateUrl(t)
  \/ FindSchema(t) \/ VersionExists(t) \/ WriteSchema(t)
  \/ FindContainer(t) \/ SwitchContainer(t) \/ InsertContainer(t)
  \/ ReadResult(t) \/ ReadExact(t) \/ Fallback(t)
  \/ Toggle(t) \/ ReadActive(t) \/ Validate(t) \/ DeleteService(t)
  \/ Deadlock(t) \/ Commit(t) \/ Rollback(t)

\* Every request has been answered.
Finished == (\A t \in Txn : pc[t] = "done") /\ UNCHANGED vars

Next == \/ \E t \in Txn : \/ Begin(t) \/ Step(t)
                         \/ Fail(t) \/ CommitUnanswered(t)
        \/ Finished

Spec == Init /\ [][Next]_vars

\* The pushes and the deletion of one service come one after another, whatever
\* is pushed, switched, validated and deleted meanwhile of the others.
ServicesApart ==
  \A t, u \in Txn :
    /\ Open(t) /\ Open(u) /\ t # u
    /\ req[t].kind \in {"push", "delete"} /\ req[u].kind \in {"push", "delete"}
    => req[t].name # req[u].name

SpecApart == Init /\ [][Next /\ ServicesApart']_vars

------------------------------------------------------------------------------
(* Properties.                                                             *)

Local == [service: Nat, schema: Nat, container: Nat, time: Nat,
          names: SUBSET Name, answer: SUBSET Part]

\* Every variable holds a value of its kind (src/src/database/schema.ts).
TypeOK ==
  /\ db \in Tables
  /\ work \in [Txn -> Tables]
  /\ nextId \in [services: Id, schema: Id, container: Id]
  /\ clock \in Nat
  /\ pc \in [Txn -> Statements \cup Refusals \cup {"idle", "done"}]
  /\ req \in [Txn -> Requests \cup {NoRequest}]
  /\ local \in [Txn -> Local]

\* A committed container names a schema of its own service, and that service
\* exists.  The foreign keys alone allow a schema of another service; that the
\* two ids agree is the work of registerSchema, under any interleaving of
\* pushes with deletions and new registrations of the same name.
ContainersOwnTheirSchema ==
  \A c \in db.container :
    /\ c.service \in Ids(db.services)
    /\ \E s \in db.schema : s.id = c.schema /\ s.service = c.service

\* What the version of a service stands for.
Catalog(d) ==
  {[service |-> b[1].service, version |-> b[1].version, def |-> b[2].def] :
     b \in {b \in d.container \X d.schema : b[2].id = b[1].schema}}

\* A released version never changes its type definitions: not by two pushes
\* that both found the version free, nor by a push that reuses a schema row.
VersionsImmutable ==
  [][\A p \in Catalog(db), q \in Catalog(db') :
       p.service = q.service /\ p.version = q.version /\ p.version # Dev
         => p.def = q.def]_vars

\* The binding a push asks for, in these tables.
Registered(d, r) ==
  \E s \in d.services :
    /\ s.name = r.name
    /\ [service |-> s.id, version |-> r.version, def |-> r.def] \in Catalog(d)

\* A push that is committed has registered what it was sent, even when the
\* service was deleted, or deleted and registered anew, while it ran and its
\* updates matched no row.
PushIsRegistered ==
  [][\A t \in Txn :
       req[t].kind = "push" /\ pc[t] = "commit" /\ pc'[t] = "done"
         => Registered(db', req[t])]_vars

\* The committed tables implement the catalog of SchemaCatalog: whatever
\* overlaps or fails, a commit adds or rebinds at most one version, and a
\* deletion withdraws one service.
Promise == INSTANCE SchemaCatalog WITH Service <- Id, catalog <- Catalog(db)

ImplementsCatalog == Promise!Spec

\* The set of schemas the registry serves can be composed.
ServedComposes == Composes(Served(db))

\* A push of a new version is what the registry serves for its service from
\* then on, also when an older schema row was reused for it: its container is
\* the last one, whatever the times of the rows.
PushIsServed ==
  [][\A t \in Txn :
       /\ req[t].kind = "push" /\ pc[t] = "commit" /\ pc'[t] = "done"
       /\ local[t].container \notin Ids(db.container)
       /\ \E s \in db'.schema : s.id = local[t].schema /\ s.active
       => [name |-> req[t].name, def |-> req[t].def] \in Served(db')]_vars

\* A push of what is registered already is never refused: several pods of a
\* service push the same schema, and a push whose answer was lost is sent again
\* (test/functional/schema/push.test.ts:101).  It takes pushes of the service
\* that come one after another.  When two pods start at the same time the later
\* may not find yet what the earlier has registered when its INSERT fails on it.
RepeatAccepted ==
  [][\A t \in Txn :
       /\ req[t].kind = "push"
       /\ pc[t] \in Statements /\ pc'[t] \in {"conflict", "constraint"}
       => ~Registered(db, req[t])]_vars

\* The answer of a push of a released version, which gateways are sent as well,
\* is the schema it pushed, whatever the other services do meanwhile.
AnswerIsPushed ==
  [][\A t \in Txn :
       /\ req[t].kind = "push" /\ req[t].version # Dev
       /\ pc[t] = "commit" /\ pc'[t] = "done"
       => local[t].answer = {[name |-> req[t].name, def |-> req[t].def]}]_vars

\* The latest schema of a service is the one that was added or updated last
\* (README.md:510).
LatestIsHighest ==
  \A s \in db.services : \A b \in LatestOf(db, s.id), o \in Bindings(db, s.id) :
    Max({o[2].added, o[2].updated}) <= Max({b[2].added, b[2].updated})

\* A push of a version that is registered already changes nothing of what is
\* served: an older pod that registers its schema again does not make it the
\* latest (README.md:456-459), although its row is marked as updated.
RepeatKeepsServed ==
  [][\A t \in Txn :
       /\ req[t].kind = "push" /\ req[t].version # Dev
       /\ pc[t] = "commit" /\ pc'[t] = "done"
       /\ Registered(db, req[t])
       => Served(db') = Served(db)]_vars

\* A schema that POST /schema/validate would accept is not refused as
\* incompatible when it is pushed instead.  Except a deactivated one, pushed for
\* the development version: the version is taken from the schema it stood for,
\* and an older schema comes back in its place.
ValidatePredictsPush ==
  \A t \in Txn :
    LET candidate == [name |-> req[t].name, def |-> req[t].def]
        others    == {p \in Served(db) : p.name # req[t].name}
    IN  /\ pc[t] = "validate" /\ req[t].kind = "push"
        /\ ServedComposes /\ Composes(others \cup {candidate})
        /\ \/ req[t].version # Dev
           \/ \E s \in View(t).schema : s.id = local[t].schema /\ s.active
        => Composes(Composed(t))

\* While a request is open, some open request can go on, without anything that
\* has to arrive or fail: each takes finitely many statements, so that every one
\* ends.  Only a deletion and a push of its service ever wait for each other,
\* which the database notices and fails one of them
\* (src/src/database/schema.ts:344), no other requests wait in a circle, and
\* none that was refused keeps rows that a later one waits for.
NoStandstill ==
  (\E t \in Txn : Open(t)) => \E t \in Txn : Open(t) /\ ENABLED Step(t)

=============================================================================
