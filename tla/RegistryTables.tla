---------------------------- MODULE RegistryTables ----------------------------
(***************************************************************************)
(* The three tables a registration touches (migrations/00_init.sql) and    *)
(* the queries over them (src/database/schema.ts): which schema of each    *)
(* service is the latest one, the set that is validated, composed into the *)
(* supergraph and served to gateways.                                      *)
(*                                                                         *)
(* A table is a set of rows.  A row is named by its id, which a sequence   *)
(* assigns from 1 up and never gives twice; 0 stands for a missing id.     *)
(***************************************************************************)
EXTENDS Integers, FiniteSetsExt

CONSTANTS
  Name,        \* service names
  Version,     \* version strings a service can send, Dev among them
  Dev,         \* the development version, "latest"
  TypeDefs,    \* normalised type definitions; a schema's uuid is their hash
  Url,         \* service urls
  NoUrl,       \* the url of a service that sent none
  Composable   \* the sets of [name, def] that federation can compose

Part == [name: Name, def: TypeDefs]

ASSUME NameAssumption == NoUrl \notin Url
ASSUME ComposableAssumption == Composable \subseteq SUBSET Part

None == 0
Id   == Nat \ {None}

ServiceRow   == [id: Id, name: Name, url: Url \cup {NoUrl}]
SchemaRow    == [id: Id, service: Id, def: TypeDefs, active: BOOLEAN,
                 added: Nat, updated: Nat]
ContainerRow == [id: Id, service: Id, schema: Id, version: Version, added: Nat]

Tables == [services: SUBSET ServiceRow, schema: SUBSET SchemaRow,
           container: SUBSET ContainerRow]

\* Faulty: every version is a development version.
IsDevAlways(version) == TRUE

\* isDevVersion
IsDev(version) == version = Dev

NoRows == [services |-> {}, schema |-> {}, container |-> {}]

Ids(rows) == {r.id : r \in rows}

\* Row versions `own` laid over the rows `base`: what a transaction sees of a
\* table while it is open, and what the table becomes when it commits.
Overlay(base, own) == {r \in base : r.id \notin Ids(own)} \cup own

OverlayTables(base, own) ==
  [services  |-> Overlay(base.services, own.services),
   schema    |-> Overlay(base.schema, own.schema),
   container |-> Overlay(base.container, own.container)]

ActiveNames(db) == {s.name : s \in db.services}

------------------------------------------------------------------------------
\* getSchemaLastUpdated, for one service.  Bindings of inactive schemas do not
\* count, not even for the two maxima.
Bindings(db, service) ==
  {b \in db.container \X db.schema :
     /\ b[1].service = service
     /\ b[2].id = b[1].schema
     /\ b[2].active}

\* Faulty: only the time decides.
NewestOnly(db, service) ==
  {b \in Bindings(db, service) :
     b[2].added = Max({o[1].added : o \in Bindings(db, service)})}

\* Faulty: the schema touched last, as README.md:510 describes it.
LastTouched(db, service) ==
  {b \in Bindings(db, service) :
     b[2].updated = Max({o[2].updated : o \in Bindings(db, service)})}

\* The WHERE of the query: the schema is as new as the newest container, or the
\* container is the last inserted.
Candidates(db, service) ==
  LET all     == Bindings(db, service)
      maxTime == Max({b[1].added : b \in all})
      maxId   == Max({b[1].id : b \in all})
  IN  {b \in all : b[2].added = maxTime \/ b[1].id = maxId}

\* The reduction of the candidates: a greater schema.added_time wins; among
\* equals the first in the query's order stays, the one of the newest and then
\* of the last inserted container (two Date objects are never ===).
Before(b, o) ==
  \/ b[2].added > o[2].added
  \/ b[2].added = o[2].added /\ b[1].added > o[1].added
  \/ b[2].added = o[2].added /\ b[1].added = o[1].added /\ b[1].id >= o[1].id

LatestOf(db, service) ==
  {b \in Candidates(db, service) :
     \A o \in Candidates(db, service) : Before(b, o)}

\* getSchemaLastUpdated for the named services: at most one row of each.
LastUpdated(db, names) ==
  UNION {{[service |-> s.id, name |-> s.name, def |-> b[2].def] :
            b \in LatestOf(db, s.id)} :
         s \in {s \in db.services : s.name \in names}}

PartsOf(rows) == {[name |-> r.name, def |-> r.def] : r \in rows}

\* What the registry serves from these tables.
Served(db) == PartsOf(LastUpdated(db, ActiveNames(db)))

\* An empty set of schemas is not composed at all.
Composes(parts) == parts = {} \/ parts \in Composable

=============================================================================
