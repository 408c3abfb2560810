--------------------------- MODULE Registry_proofs ---------------------------
(***************************************************************************)
(* Proofs about Registry, for any number of requests, services, versions   *)
(* and definitions, and for every relation Composable: first for any       *)
(* interleaving, then for requests that do not overlap, first those for    *)
(* one service and then all of them.                                       *)
(***************************************************************************)
EXTENDS RegistrySerial, FiniteSetTheorems, WellFoundedInduction, TLAPS

\* A transaction sees row versions that are committed or its own, and an id is
\* visible to it exactly when a committed row or a row of its own has it.
LEMMA ViewFacts ==
  ASSUME NEW t \in Txn
  PROVE  /\ View(t).services \subseteq db.services \cup work[t].services
         /\ View(t).schema \subseteq db.schema \cup work[t].schema
         /\ View(t).container \subseteq db.container \cup work[t].container
         /\ Ids(View(t).services) = Ids(db.services) \cup Ids(work[t].services)
         /\ Ids(View(t).schema) = Ids(db.schema) \cup Ids(work[t].schema)
         /\ Ids(View(t).container)
              = Ids(db.container) \cup Ids(work[t].container)
  BY DEF View, OverlayTables, Overlay, Ids

\* What a transaction sees is a set of tables.
LEMMA ViewType ==
  ASSUME TypeOK, NEW t \in Txn
  PROVE  View(t) \in Tables
<1>1. db \in Tables /\ work[t] \in Tables
  BY DEF TypeOK
<1> QED
  BY <1>1 DEF View, OverlayTables, Overlay, Tables

\* An empty registry without requests satisfies the invariant.
LEMMA InitInv == Init => IInv
<1> SUFFICES ASSUME Init PROVE IInv
  OBVIOUS
<1> USE DEF Init, NoRows, NoLocal, None
<1>1. TypeOK
  BY DEF TypeOK, Tables, Local, Id
<1>2. AllServices = {} /\ AllSchemas = {} /\ AllContainers = {}
  BY DEF AllServices, AllSchemas, AllContainers
<1>3. ServicesInv /\ SchemasInv /\ ContainersInv
  BY <1>2 DEF ServicesInv, SchemasInv, ContainersInv
<1>4. ReferencesInv
  BY <1>2 DEF ReferencesInv
<1>5. HandlerInv
  BY <1>2 DEF HandlerInv
<1>6. RequestInv
  BY DEF RequestInv, PushStatements
<1> QED
  BY <1>1, <1>3, <1>4, <1>5, <1>6 DEF IInv

------------------------------------------------------------------------------
(* Types.                                                                  *)

\* Laying rows of the right kind over others gives rows of that kind.
LEMMA OverlayType ==
  ASSUME NEW S, NEW base \in SUBSET S, NEW own \in SUBSET S
  PROVE  Overlay(base, own) \in SUBSET S
  BY DEF Overlay

\* A statement that writes rows of the right kind into one table of its own
\* transaction leaves work well typed.
LEMMA WorkType ==
  ASSUME TypeOK, NEW t \in Txn
  PROVE  /\ \A rows \in SUBSET ServiceRow :
              [work EXCEPT ![t].services = Overlay(@, rows)]
                \in [Txn -> Tables]
         /\ \A rows \in SUBSET SchemaRow :
              [work EXCEPT ![t].schema = Overlay(@, rows)] \in [Txn -> Tables]
         /\ \A rows \in SUBSET ContainerRow :
              [work EXCEPT ![t].container = Overlay(@, rows)]
                \in [Txn -> Tables]
<1>1. work \in [Txn -> Tables] /\ work[t] \in Tables
  BY DEF TypeOK
<1>2. \A rows \in SUBSET ServiceRow :
        Overlay(work[t].services, rows) \in SUBSET ServiceRow
  BY <1>1 DEF Overlay, Tables
<1>3. \A rows \in SUBSET SchemaRow :
        Overlay(work[t].schema, rows) \in SUBSET SchemaRow
  BY <1>1 DEF Overlay, Tables
<1>4. \A rows \in SUBSET ContainerRow :
        Overlay(work[t].container, rows) \in SUBSET ContainerRow
  BY <1>1 DEF Overlay, Tables
<1>5. \A rows \in SUBSET ServiceRow :
        [work EXCEPT ![t].services = Overlay(@, rows)] \in [Txn -> Tables]
  BY <1>1, <1>2 DEF Tables
<1>6. \A rows \in SUBSET SchemaRow :
        [work EXCEPT ![t].schema = Overlay(@, rows)] \in [Txn -> Tables]
  BY <1>1, <1>3 DEF Tables
<1>7. \A rows \in SUBSET ContainerRow :
        [work EXCEPT ![t].container = Overlay(@, rows)] \in [Txn -> Tables]
  BY <1>1, <1>4 DEF Tables
<1> QED
  BY <1>5, <1>6, <1>7

\* What a handler remembers keeps its type when one field gets a value of its.
LEMMA LocalType ==
  ASSUME TypeOK, NEW t \in Txn
  PROVE  /\ \A n \in Nat :
              /\ [local EXCEPT ![t].service = n] \in [Txn -> Local]
              /\ [local EXCEPT ![t].schema = n] \in [Txn -> Local]
              /\ [local EXCEPT ![t].container = n] \in [Txn -> Local]
              /\ [local EXCEPT ![t].time = n] \in [Txn -> Local]
         /\ \A ns \in SUBSET Name :
              [local EXCEPT ![t].names = ns] \in [Txn -> Local]
         /\ \A ps \in SUBSET Part :
              [local EXCEPT ![t].answer = ps] \in [Txn -> Local]
         /\ [local EXCEPT ![t] = NoLocal] \in [Txn -> Local]
<1>1. local \in [Txn -> Local] /\ local[t] \in Local
  BY DEF TypeOK
<1>2. NoLocal \in Local
  BY DEF NoLocal, Local, None
<1> QED
  BY <1>1, <1>2 DEF Local

\* The program counter stays typed.
LEMMA PcType ==
  ASSUME TypeOK, NEW t \in Txn, NEW from,
         NEW to \in Statements \cup Refusals \cup {"idle", "done"},
         Goto(t, from, to)
  PROVE  pc' \in [Txn -> Statements \cup Refusals \cup {"idle", "done"}]
  BY DEF TypeOK, Goto

\* What the queries return is made of names and definitions in the tables.
LEMMA QueryTypes ==
  ASSUME NEW d \in Tables, NEW ns
  PROVE  /\ ActiveNames(d) \in SUBSET Name
         /\ PartsOf(LastUpdated(d, ns)) \in SUBSET Part
         /\ PartsOf(FirstRow(LastUpdated(d, ns))) \in SUBSET Part
<1>1. ActiveNames(d) \in SUBSET Name
  BY DEF Tables, ServiceRow, ActiveNames
<1>2. \A i : \A b \in LatestOf(d, i) : b[2] \in SchemaRow
  <2>1. \A i : \A b \in LatestOf(d, i) : b \in d.container \X d.schema
    BY DEF LatestOf, Candidates, Bindings
  <2> QED
    BY <2>1 DEF Tables
<1>3. \A r \in LastUpdated(d, ns) : r.name \in Name /\ r.def \in TypeDefs
  BY <1>2 DEF LastUpdated, Tables, ServiceRow, SchemaRow
<1> QED
  BY <1>1, <1>3 DEF PartsOf, FirstRow, Part

\* A deadlock is one way for a statement to fail.
LEMMA DeadlockFails == \A t \in Txn : Deadlock(t) => Fail(t)
  BY DEF Deadlock, Deadlocked, Fail, Throw, Goto, Statements

\* One step of one request keeps every variable in its type and every handler
\* with a request of its kind.
LEMMA BeginType ==
  ASSUME TypeOK, RequestInv, NEW t \in Txn, Begin(t)
  PROVE  TypeOK' /\ RequestInv'
<1>1. PICK r \in Requests, d \in Ticks :
        /\ Goto(t, "idle", FirstStatement(r))
        /\ req' = [req EXCEPT ![t] = r]
        /\ clock' = clock + d
        /\ local' = [local EXCEPT ![t].time = clock + d]
        /\ UNCHANGED <<db, work, nextId>>
  BY DEF Begin
<1>2. r \in Request /\ d \in Nat /\ clock + d \in Nat
  BY RequestAssumption, BoundsAssumption DEF TypeOK
<1>3. /\ FirstStatement(r) \in {"getService", "toggle", "delete", "readActive"}
      /\ FirstStatement(r) = "getService" => r \in PushRequest
      /\ FirstStatement(r) = "toggle" => r \in ToggleRequest
      /\ FirstStatement(r) = "delete" => r \in DeleteRequest
  BY <1>2 DEF Request, PushRequest, ToggleRequest, DeleteRequest,
              ValidateRequest, FirstStatement
<1>4. pc' \in [Txn -> Statements \cup Refusals \cup {"idle", "done"}]
  BY <1>1, <1>3, PcType DEF Statements
<1>5. local' \in [Txn -> Local]
  BY <1>1, <1>2, LocalType
<1>6. req' \in [Txn -> Requests \cup {NoRequest}]
  BY <1>1 DEF TypeOK
<1>7. TypeOK'
  BY <1>1, <1>2, <1>4, <1>5, <1>6 DEF TypeOK
<1>8. \A u \in Txn : u # t => pc'[u] = pc[u] /\ req'[u] = req[u]
  BY <1>1 DEF TypeOK, Goto
<1>9. pc'[t] = FirstStatement(r) /\ req'[t] = r
  BY <1>1 DEF TypeOK, Goto
<1> QED
  BY <1>3, <1>7, <1>8, <1>9 DEF RequestInv, PushStatements

\* A step within the statements of a push.
LEMMA PushPcStep ==
  ASSUME TypeOK, RequestInv, NEW t \in Txn,
         NEW from \in PushStatements,
         NEW to \in Statements \cup Refusals \cup {"done"},
         Goto(t, from, to), to \notin {"toggle", "delete", "cascade"},
         to = "switchContainer" => req[t].version = Dev,
         req' = req
  PROVE  /\ pc' \in [Txn -> Statements \cup Refusals \cup {"idle", "done"}]
         /\ req[t] \in PushRequest
         /\ RequestInv'
  BY DEF TypeOK, RequestInv, Goto

\* A refusal keeps every variable in its type.
LEMMA ThrowType ==
  ASSUME TypeOK, RequestInv, NEW t \in Txn, NEW from, NEW why \in Refusals,
         Throw(t, from, why)
  PROVE  TypeOK' /\ RequestInv'
<1>1. pc' \in [Txn -> Statements \cup Refusals \cup {"idle", "done"}]
  BY PcType DEF Throw
<1> QED
  BY <1>1 DEF Throw, Goto, TypeOK, RequestInv, PushStatements, Refusals

\* Every statement, commit and rollback keeps every variable in its type and
\* every handler with a request of its kind.
LEMMA StepType ==
  ASSUME TypeOK, RequestInv, NEW t \in Txn,
         Step(t) \/ Fail(t) \/ CommitUnanswered(t)
  PROVE  TypeOK' /\ RequestInv'
<1> USE DEF PushStatements
<1>v. View(t) \in Tables /\ work[t] \in Tables
  BY ViewType DEF TypeOK
<1>l. local[t] \in Local /\ local \in [Txn -> Local]
  BY DEF TypeOK
<1>i. nextId.services \in Id /\ nextId.schema \in Id /\ nextId.container \in Id
  BY DEF TypeOK
<1>1. CASE GetService(t)
  <2>1. /\ \E to \in {"insertService", "findSchema", "updateUrl"} :
              Goto(t, "getService", to)
        /\ local' \in [Txn -> Local]
        /\ UNCHANGED <<db, work, nextId, clock, req>>
    <3>1. \A s \in View(t).services : s.id \in Nat
      BY <1>v DEF Tables, ServiceRow, Id
    <3>2. \E to \in {"insertService", "findSchema", "updateUrl"} :
            Goto(t, "getService", to)
      BY <1>1 DEF GetService
    <3>3. ASSUME NEW r \in View(t).services,
                 local' = [local EXCEPT ![t].service = r.id]
          PROVE  local' \in [Txn -> Local]
      BY <3>1, <3>3, LocalType
    <3>4. local' \in [Txn -> Local]
      BY <1>1, <1>l, <3>3 DEF GetService
    <3> QED
      BY <1>1, <3>2, <3>4 DEF GetService
  <2> QED
    BY <2>1, PushPcStep DEF TypeOK, Statements
<1>2. CASE InsertService(t)
  <2>1. CASE Throw(t, "insertService", "constraint")
    BY <2>1, ThrowType DEF Refusals
  <2>2. CASE ~Throw(t, "insertService", "constraint")
    <3>1. /\ Goto(t, "insertService", "findSchema")
          /\ UNCHANGED <<db, clock, req>>
          /\ work' = [work EXCEPT ![t].services = Overlay(@,
               {[id |-> nextId.services, name |-> req[t].name,
                 url |-> req[t].url]})]
          /\ nextId' = [nextId EXCEPT !.services = @ + 1]
          /\ local' = [local EXCEPT ![t].service = nextId.services]
      BY <1>2, <2>2 DEF InsertService
    <3>2. /\ pc' \in [Txn -> Statements \cup Refusals \cup {"idle", "done"}]
          /\ req[t] \in PushRequest
          /\ RequestInv'
      BY <3>1, PushPcStep DEF Statements
    <3>3. {[id |-> nextId.services, name |-> req[t].name,
            url |-> req[t].url]} \in SUBSET ServiceRow
      BY <3>2, <1>i DEF ServiceRow, PushRequest
    <3>4. work' \in [Txn -> Tables]
      BY <3>1, <3>3, WorkType
    <3>5. nextId' \in [services: Id, schema: Id, container: Id]
      BY <3>1, <1>i DEF TypeOK, Id, None
    <3>6. local' \in [Txn -> Local]
      BY <3>1, <1>i, LocalType DEF Id
    <3> QED
      BY <3>1, <3>2, <3>4, <3>5, <3>6 DEF TypeOK
  <2> QED
    BY <2>1, <2>2
<1>3. CASE UpdateUrl(t)
  <2>1. /\ Goto(t, "updateUrl", "findSchema")
        /\ UNCHANGED <<db, nextId, clock, req, local>>
    BY <1>3 DEF UpdateUrl
  <2>2. /\ pc' \in [Txn -> Statements \cup Refusals \cup {"idle", "done"}]
        /\ req[t] \in PushRequest
        /\ RequestInv'
    BY <2>1, PushPcStep DEF Statements
  <2>3. {[s EXCEPT !.url = req[t].url] :
          s \in {s \in View(t).services : s.id = local[t].service}}
            \in SUBSET ServiceRow
    BY <2>2, <1>v DEF Tables, ServiceRow, PushRequest
  <2>4. work' \in [Txn -> Tables]
    BY <1>3, <2>3, WorkType DEF UpdateUrl
  <2> QED
    BY <2>1, <2>2, <2>4 DEF TypeOK
<1>4. CASE FindSchema(t)
  <2>1. /\ \E to \in {"writeSchema", "versionExists"} :
              Goto(t, "findSchema", to)
        /\ local' \in [Txn -> Local]
        /\ UNCHANGED <<db, work, nextId, clock, req>>
    <3>1. \A s \in FindExisting(t) : s.id \in Nat
      BY <1>v DEF Tables, SchemaRow, Id, FindExisting
    <3>2. \E to \in {"writeSchema", "versionExists"} :
            Goto(t, "findSchema", to)
      BY <1>4 DEF FindSchema
    <3>3. ASSUME NEW r \in FindExisting(t),
                 local' = [local EXCEPT ![t].schema = r.id]
          PROVE  local' \in [Txn -> Local]
      BY <3>1, <3>3, LocalType
    <3>4. local' \in [Txn -> Local]
      BY <1>4, <1>l, <3>3 DEF FindSchema
    <3> QED
      BY <1>4, <3>2, <3>4 DEF FindSchema
  <2> QED
    BY <2>1, PushPcStep DEF TypeOK, Statements
<1>5. CASE VersionExists(t)
  <2>1. CASE Throw(t, "versionExists", "conflict")
    BY <2>1, ThrowType DEF Refusals
  <2>2. CASE /\ Goto(t, "versionExists", "writeSchema")
             /\ UNCHANGED <<db, work, nextId, clock, req, local>>
    BY <2>2, PushPcStep DEF TypeOK, Statements
  <2> QED
    BY <1>5, <2>1, <2>2 DEF VersionExists
<1>6. CASE TouchSchema(t)
  <2>1. /\ Goto(t, "writeSchema", "findContainer")
        /\ UNCHANGED <<db, nextId, clock, req, local>>
    BY <1>6 DEF TouchSchema
  <2>2. /\ pc' \in [Txn -> Statements \cup Refusals \cup {"idle", "done"}]
        /\ RequestInv'
    BY <2>1, PushPcStep DEF Statements
  <2>3. {[s EXCEPT !.updated = local[t].time] :
          s \in {s \in View(t).schema : s.id = local[t].schema}}
            \in SUBSET SchemaRow
    BY <1>v, <1>l DEF Tables, SchemaRow, Local
  <2>4. work' \in [Txn -> Tables]
    BY <1>6, <2>3, WorkType DEF TouchSchema
  <2> QED
    BY <2>1, <2>2, <2>4 DEF TypeOK
<1>7. CASE InsertSchema(t)
  <2>1. CASE Throw(t, "writeSchema", "constraint")
    BY <2>1, ThrowType DEF Refusals
  <2>2. CASE ~Throw(t, "writeSchema", "constraint")
    <3>1. /\ Goto(t, "writeSchema", "findContainer")
          /\ UNCHANGED <<db, clock, req>>
          /\ local[t].service \in Ids(View(t).services)
          /\ work' = [work EXCEPT ![t].schema = Overlay(@,
               {[id |-> nextId.schema, service |-> local[t].service,
                 def |-> req[t].def, active |-> TRUE,
                 added |-> local[t].time, updated |-> local[t].time]})]
          /\ nextId' = [nextId EXCEPT !.schema = @ + 1]
          /\ local' = [local EXCEPT ![t].schema = nextId.schema]
      BY <1>7, <2>2 DEF InsertSchema
    <3>2. /\ pc' \in [Txn -> Statements \cup Refusals \cup {"idle", "done"}]
          /\ req[t] \in PushRequest
          /\ RequestInv'
      BY <3>1, PushPcStep DEF Statements
    <3>3. local[t].service \in Id
      BY <3>1, <1>v DEF Ids, Tables, ServiceRow
    <3>4. {[id |-> nextId.schema, service |-> local[t].service,
            def |-> req[t].def, active |-> TRUE,
            added |-> local[t].time, updated |-> local[t].time]}
              \in SUBSET SchemaRow
      BY <3>2, <3>3, <1>i, <1>l DEF SchemaRow, PushRequest, Local
    <3>5. work' \in [Txn -> Tables]
      BY <3>1, <3>4, WorkType
    <3>6. nextId' \in [services: Id, schema: Id, container: Id]
      BY <3>1, <1>i DEF TypeOK, Id, None
    <3>7. local' \in [Txn -> Local]
      BY <3>1, <1>i, LocalType DEF Id
    <3> QED
      BY <3>1, <3>2, <3>5, <3>6, <3>7 DEF TypeOK
  <2> QED
    BY <2>1, <2>2
<1>8. CASE FindContainer(t)
  <2>1. /\ \E to \in {"switchContainer", "readResult", "insertContainer"} :
              /\ Goto(t, "findContainer", to)
              /\ to = "switchContainer" => req[t].version = Dev
        /\ local' \in [Txn -> Local]
        /\ UNCHANGED <<db, work, nextId, clock, req>>
    <3>1. \A c \in Bound(t) : c.id \in Nat
      BY <1>v DEF Tables, ContainerRow, Id, Bound
    <3>2. \E to \in {"switchContainer", "readResult", "insertContainer"} :
            /\ Goto(t, "findContainer", to)
            /\ to = "switchContainer" => req[t].version = Dev
      BY <1>8 DEF FindContainer, IsDev
    <3>3. ASSUME NEW r \in Bound(t),
                 local' = [local EXCEPT ![t].container = r.id]
          PROVE  local' \in [Txn -> Local]
      BY <3>1, <3>3, LocalType
    <3>4. local' \in [Txn -> Local]
      BY <1>8, <1>l, <3>3 DEF FindContainer
    <3> QED
      BY <1>8, <3>2, <3>4 DEF FindContainer
  <2> QED
    BY <2>1, PushPcStep DEF TypeOK, Statements
<1>9. CASE SwitchContainer(t)
  <2>1. CASE Throw(t, "switchContainer", "constraint")
    BY <2>1, ThrowType DEF Refusals
  <2>2. CASE ~Throw(t, "switchContainer", "constraint")
    <3>1. /\ Goto(t, "switchContainer", "readResult")
          /\ UNCHANGED <<db, nextId, clock, req, local>>
          /\ local[t].schema \in Ids(View(t).schema) \/ Bound(t) = {}
          /\ work' = [work EXCEPT ![t].container = Overlay(@,
               {Rebound(c, local[t].schema) : c \in Bound(t)})]
      BY <1>9, <2>2 DEF SwitchContainer
    <3>2. /\ pc' \in [Txn -> Statements \cup Refusals \cup {"idle", "done"}]
          /\ RequestInv'
      BY <3>1, PushPcStep DEF Statements
    <3>3. Bound(t) # {} => local[t].schema \in Id
      BY <3>1, <1>v DEF Ids, Tables, SchemaRow
    <3>4. {Rebound(c, local[t].schema) : c \in Bound(t)}
            \in SUBSET ContainerRow
      BY <3>3, <1>v DEF Rebound, Bound, Tables, ContainerRow
    <3>5. work' \in [Txn -> Tables]
      BY <3>1, <3>4, WorkType
    <3> QED
      BY <3>1, <3>2, <3>5 DEF TypeOK
  <2> QED
    BY <2>1, <2>2
<1>10. CASE InsertContainer(t)
  <2>1. CASE Throw(t, "insertContainer", "constraint")
    BY <2>1, ThrowType DEF Refusals
  <2>2. CASE ~Throw(t, "insertContainer", "constraint")
    <3>1. /\ Goto(t, "insertContainer", "readResult")
          /\ UNCHANGED <<db, clock, req>>
          /\ local[t].service \in Ids(View(t).services)
          /\ local[t].schema \in Ids(View(t).schema)
          /\ work' = [work EXCEPT ![t].container = Overlay(@,
               {[id |-> nextId.container, service |-> local[t].service,
                 schema |-> local[t].schema, version |-> req[t].version,
                 added |-> local[t].time]})]
          /\ nextId' = [nextId EXCEPT !.container = @ + 1]
          /\ local' = [local EXCEPT ![t].container = nextId.container]
      BY <1>10, <2>2 DEF InsertContainer
    <3>2. /\ pc' \in [Txn -> Statements \cup Refusals \cup {"idle", "done"}]
          /\ req[t] \in PushRequest
          /\ RequestInv'
      BY <3>1, PushPcStep DEF Statements
    <3>3. local[t].service \in Id /\ local[t].schema \in Id
      BY <3>1, <1>v DEF Ids, Tables, ServiceRow, SchemaRow
    <3>4. {[id |-> nextId.container, service |-> local[t].service,
            schema |-> local[t].schema, version |-> req[t].version,
            added |-> local[t].time]} \in SUBSET ContainerRow
      BY <3>2, <3>3, <1>i, <1>l DEF ContainerRow, PushRequest, Local
    <3>5. work' \in [Txn -> Tables]
      BY <3>1, <3>4, WorkType
    <3>6. nextId' \in [services: Id, schema: Id, container: Id]
      BY <3>1, <1>i DEF TypeOK, Id, None
    <3>7. local' \in [Txn -> Local]
      BY <3>1, <1>i, LocalType DEF Id
    <3> QED
      BY <3>1, <3>2, <3>5, <3>6, <3>7 DEF TypeOK
  <2> QED
    BY <2>1, <2>2
<1>11. CASE ReadResult(t)
  <2>1. /\ Goto(t, "readResult", "readExact")
        /\ UNCHANGED <<db, work, nextId, clock, req>>
    BY <1>11 DEF ReadResult
  <2>2. /\ pc' \in [Txn -> Statements \cup Refusals \cup {"idle", "done"}]
        /\ req[t] \in PushRequest
        /\ RequestInv'
    BY <2>1, PushPcStep DEF Statements
  <2>3. {req[t].name} \cup ActiveNames(View(t)) \in SUBSET Name
    BY <2>2, <1>v, QueryTypes DEF PushRequest
  <2>4. local' \in [Txn -> Local]
    BY <1>11, <2>3, LocalType DEF ReadResult
  <2> QED
    BY <2>1, <2>2, <2>4 DEF TypeOK
<1>12. CASE ReadExact(t)
  <2>1. /\ Goto(t, "readExact", "fallback")
        /\ UNCHANGED <<db, work, nextId, clock, req>>
    BY <1>12 DEF ReadExact
  <2>2. /\ pc' \in [Txn -> Statements \cup Refusals \cup {"idle", "done"}]
        /\ req[t] \in PushRequest
        /\ RequestInv'
    BY <2>1, PushPcStep DEF Statements
  <2> DEFINE exact == Exact(View(t), req[t].name, req[t].version)
             own   == {[name |-> req[t].name, def |-> b[2].def] : b \in exact}
  <2>3. own \in SUBSET Part
    <3>1. \A b \in exact : b[2] \in View(t).schema
      BY DEF Exact
    <3> QED
      BY <3>1, <2>2, <1>v DEF Part, PushRequest, Tables, SchemaRow
  <2>4. local' = [local EXCEPT ![t].answer = own]
    BY <1>12 DEF ReadExact
  <2>5. local' \in [Txn -> Local]
    <3> HIDE DEF exact, own
    <3> QED
      BY <2>3, <2>4, LocalType
  <2> QED
    BY <2>1, <2>2, <2>5 DEF TypeOK
<1>12a. CASE Fallback(t)
  <2>1. /\ Goto(t, "fallback", "readActive")
        /\ UNCHANGED <<db, work, nextId, clock, req>>
    BY <1>12a DEF Fallback
  <2>2. /\ pc' \in [Txn -> Statements \cup Refusals \cup {"idle", "done"}]
        /\ RequestInv'
    BY <2>1, PushPcStep DEF Statements
  <2> DEFINE first == PartsOf(FirstRow(LastUpdated(View(t), local[t].names)))
  <2>3. first \in SUBSET Part
    BY <1>v, QueryTypes
  <2>4. UNCHANGED local \/ local' = [local EXCEPT ![t].answer = first]
    BY <1>12a DEF Fallback
  <2>5. local' \in [Txn -> Local]
    <3> HIDE DEF first
    <3>1. CASE UNCHANGED local
      BY <3>1 DEF TypeOK
    <3>2. CASE local' = [local EXCEPT ![t].answer = first]
      BY <2>3, <3>2, LocalType
    <3> QED
      BY <2>4, <3>1, <3>2
  <2> QED
    BY <2>1, <2>2, <2>5 DEF TypeOK
<1>13. CASE Toggle(t)
  <2>1. /\ Goto(t, "toggle", "readActive")
        /\ UNCHANGED <<db, nextId, clock, req, local>>
    BY <1>13 DEF Toggle
  <2>2. req[t] \in ToggleRequest
    BY <2>1 DEF RequestInv, Goto
  <2>3. {[s EXCEPT !.active = req[t].active] :
          s \in {s \in View(t).schema : s.id = req[t].schema}}
            \in SUBSET SchemaRow
    BY <1>v, <2>2 DEF Tables, SchemaRow, ToggleRequest
  <2>4. work' \in [Txn -> Tables]
    BY <1>13, <2>3, WorkType DEF Toggle
  <2>5. pc' \in [Txn -> Statements \cup Refusals \cup {"idle", "done"}]
    BY <2>1, PcType DEF Statements
  <2> QED
    BY <2>1, <2>4, <2>5 DEF TypeOK, RequestInv, Goto
<1>14. CASE ReadActive(t)
  <2>1. /\ Goto(t, "readActive", "validate")
        /\ UNCHANGED <<db, work, nextId, clock, req>>
    BY <1>14 DEF ReadActive
  <2>2. local' \in [Txn -> Local]
    BY <1>14, <1>v, QueryTypes, LocalType DEF ReadActive
  <2>3. pc' \in [Txn -> Statements \cup Refusals \cup {"idle", "done"}]
    BY <2>1, PcType DEF Statements
  <2> QED
    BY <2>1, <2>2, <2>3 DEF TypeOK, RequestInv, Goto
<1>15. CASE Validate(t)
  <2>1. CASE Throw(t, "validate", "invalid")
    BY <2>1, ThrowType DEF Refusals
  <2>2. CASE /\ Goto(t, "validate", "commit")
             /\ UNCHANGED <<db, work, nextId, clock, req, local>>
    <3>1. pc' \in [Txn -> Statements \cup Refusals \cup {"idle", "done"}]
      BY <2>2, PcType DEF Statements
    <3> QED
      BY <2>2, <3>1 DEF TypeOK, RequestInv, Goto
  <2> QED
    BY <1>15, <2>1, <2>2 DEF Validate
<1>16. CASE Fail(t)
  BY <1>16, ThrowType DEF Fail, Refusals
<1>a. ASSUME NEW from, Answer(t, from)
      PROVE  /\ pc' \in [Txn -> Statements \cup Refusals \cup {"idle", "done"}]
             /\ req' \in [Txn -> Requests \cup {NoRequest}]
             /\ local' \in [Txn -> Local]
             /\ RequestInv'
  <2>1. pc' \in [Txn -> Statements \cup Refusals \cup {"idle", "done"}]
    BY <1>a, PcType DEF Answer
  <2>2. req' \in [Txn -> Requests \cup {NoRequest}]
    BY <1>a DEF Answer, TypeOK
  <2>3. local' \in [Txn -> Local]
    BY <1>a, LocalType DEF Answer
  <2>4. RequestInv'
    BY <1>a DEF Answer, Goto, RequestInv, TypeOK
  <2> QED
    BY <2>1, <2>2, <2>3, <2>4
<1>w. [work EXCEPT ![t] = NoRows] \in [Txn -> Tables]
  BY DEF TypeOK, NoRows, Tables
<1>17. CASE DeleteService(t)
  <2>1. CASE Cascade(t)
    <3>1. \A id : Without(db, id) \in Tables
      BY DEF TypeOK, Without, Tables
    <3>2. /\ Answer(t, "cascade") /\ UNCHANGED <<work, nextId, clock>>
          /\ db' \in Tables
      BY <2>1, <3>1 DEF Cascade
    <3> QED
      BY <1>a, <3>2 DEF TypeOK
  <2>2. CASE LockService(t) /\ Answer(t, "delete")
    BY <1>a, <2>2 DEF LockService, TypeOK
  <2>3. CASE LockService(t) /\ ~Answer(t, "delete")
    <3>1. PICK s \in db.services :
            /\ local' = [local EXCEPT ![t].service = s.id]
            /\ Goto(t, "delete", "cascade")
            /\ UNCHANGED <<db, work, nextId, clock, req>>
      BY <2>3 DEF LockService
    <3>2. s.id \in Nat
      BY DEF TypeOK, Tables, ServiceRow, Id
    <3>3. local' \in [Txn -> Local]
      BY <3>1, <3>2, LocalType
    <3>4. pc' \in [Txn -> Statements \cup Refusals \cup {"idle", "done"}]
      BY <3>1, PcType DEF Statements
    <3>5. RequestInv'
      BY <3>1 DEF RequestInv, Goto, TypeOK
    <3> QED
      BY <3>1, <3>3, <3>4, <3>5 DEF TypeOK
  <2> QED
    BY <1>17, <2>1, <2>2, <2>3 DEF DeleteService
<1>18. CASE Commit(t)
  BY <1>18, <1>a, <1>v, <1>w DEF Commit, Publish, TypeOK
<1>19. CASE CommitUnanswered(t)
  <2>1. Goto(t, "commit", "error") /\ UNCHANGED <<req, local, nextId, clock>>
    BY <1>19 DEF CommitUnanswered, Publish
  <2>2. pc' \in [Txn -> Statements \cup Refusals \cup {"idle", "done"}]
    BY <2>1, PcType DEF Refusals
  <2>3. db' \in Tables /\ work' \in [Txn -> Tables]
    BY <1>19, <1>v, <1>w DEF CommitUnanswered, Publish
  <2> QED
    BY <2>1, <2>2, <2>3 DEF TypeOK, RequestInv, Goto
<1>20. CASE Rollback(t)
  BY <1>20, <1>a, <1>w DEF Rollback, TypeOK
<1> QED
  BY <1>1, <1>2, <1>3, <1>4, <1>5, <1>6, <1>7, <1>8, <1>9, <1>10, <1>11, <1>12,
     <1>12a, <1>13, <1>14, <1>15, <1>16, <1>17, <1>18, <1>19, <1>20, DeadlockFails
     DEF Step, WriteSchema

------------------------------------------------------------------------------
(* How the row versions of all transactions change.                        *)

\* A statement that writes service rows adds at most those rows to the versions
\* there are, and takes away at most older versions of its own.
LEMMA WriteServices ==
  ASSUME TypeOK, NEW t \in Txn, NEW rows \in SUBSET ServiceRow, db' = db,
         work' = [work EXCEPT ![t].services = Overlay(@, rows)]
  PROVE  /\ AllServices' \subseteq AllServices \cup rows
         /\ AllSchemas' = AllSchemas /\ AllContainers' = AllContainers
         /\ Ids(work'[t].services) = Ids(work[t].services) \cup Ids(rows)
         /\ work'[t].schema = work[t].schema
         /\ work'[t].container = work[t].container
         /\ \A u \in Txn \ {t} : work'[u] = work[u]
<1>1. work \in [Txn -> Tables] /\ work[t] \in Tables
  BY DEF TypeOK
<1>2. /\ work'[t].services = Overlay(work[t].services, rows)
      /\ work'[t].schema = work[t].schema
      /\ work'[t].container = work[t].container
      /\ \A u \in Txn \ {t} : work'[u] = work[u]
  BY <1>1 DEF Tables
<1>3. Ids(work'[t].services) = Ids(work[t].services) \cup Ids(rows)
  BY <1>2 DEF Overlay, Ids
<1>4. \A u \in Txn : work'[u].services \subseteq work[u].services \cup rows
  BY <1>2 DEF Overlay
<1>5. AllServices' \subseteq AllServices \cup rows
  BY <1>4 DEF AllServices
<1>6. \A u \in Txn : /\ work'[u].schema = work[u].schema
                     /\ work'[u].container = work[u].container
  BY <1>2
<1>7. AllSchemas' = AllSchemas /\ AllContainers' = AllContainers
  BY <1>6 DEF AllSchemas, AllContainers
<1> QED
  BY <1>2, <1>3, <1>5, <1>7

\* The same for a statement that writes schema rows.
LEMMA WriteSchemas ==
  ASSUME TypeOK, NEW t \in Txn, NEW rows \in SUBSET SchemaRow, db' = db,
         work' = [work EXCEPT ![t].schema = Overlay(@, rows)]
  PROVE  /\ AllSchemas' \subseteq AllSchemas \cup rows
         /\ AllServices' = AllServices /\ AllContainers' = AllContainers
         /\ Ids(work'[t].schema) = Ids(work[t].schema) \cup Ids(rows)
         /\ work'[t].schema \subseteq work[t].schema \cup rows
         /\ work'[t].services = work[t].services
         /\ work'[t].container = work[t].container
         /\ \A u \in Txn \ {t} : work'[u] = work[u]
<1>1. work \in [Txn -> Tables] /\ work[t] \in Tables
  BY DEF TypeOK
<1>2. /\ work'[t].schema = Overlay(work[t].schema, rows)
      /\ work'[t].services = work[t].services
      /\ work'[t].container = work[t].container
      /\ \A u \in Txn \ {t} : work'[u] = work[u]
  BY <1>1 DEF Tables
<1>3. Ids(work'[t].schema) = Ids(work[t].schema) \cup Ids(rows)
  BY <1>2 DEF Overlay, Ids
<1>4. \A u \in Txn : work'[u].schema \subseteq work[u].schema \cup rows
  BY <1>2 DEF Overlay
<1>5. AllSchemas' \subseteq AllSchemas \cup rows
  BY <1>4 DEF AllSchemas
<1>6. \A u \in Txn : /\ work'[u].services = work[u].services
                     /\ work'[u].container = work[u].container
  BY <1>2
<1>7. AllServices' = AllServices /\ AllContainers' = AllContainers
  BY <1>6 DEF AllServices, AllContainers
<1> QED
  BY <1>2, <1>3, <1>4, <1>5, <1>7

\* The same for a statement that writes container rows.
LEMMA WriteContainers ==
  ASSUME TypeOK, NEW t \in Txn, NEW rows \in SUBSET ContainerRow, db' = db,
         work' = [work EXCEPT ![t].container = Overlay(@, rows)],
         work[t].container = {}
  PROVE  /\ AllContainers' = AllContainers \cup rows
         /\ AllServices' = AllServices /\ AllSchemas' = AllSchemas
         /\ work'[t].container = rows
         /\ work'[t].services = work[t].services
         /\ work'[t].schema = work[t].schema
         /\ \A u \in Txn \ {t} : work'[u] = work[u]
<1>1. work \in [Txn -> Tables] /\ work[t] \in Tables
  BY DEF TypeOK
<1>2. /\ work'[t].container = rows
      /\ work'[t].services = work[t].services
      /\ work'[t].schema = work[t].schema
      /\ \A u \in Txn \ {t} : work'[u] = work[u]
  BY <1>1 DEF Tables, Overlay
<1>3. AllContainers' = AllContainers \cup rows
  BY <1>2 DEF AllContainers
<1>4. \A u \in Txn : /\ work'[u].services = work[u].services
                     /\ work'[u].schema = work[u].schema
  BY <1>2
<1>5. AllServices' = AllServices /\ AllSchemas' = AllSchemas
  BY <1>4 DEF AllServices, AllSchemas
<1> QED
  BY <1>2, <1>3, <1>5

\* A commit publishes the rows of one transaction, and adds none.
LEMMA PublishRows ==
  ASSUME TypeOK, NEW t \in Txn, Publish(t)
  PROVE  /\ AllServices' \subseteq AllServices
         /\ AllSchemas' \subseteq AllSchemas
         /\ AllContainers' \subseteq AllContainers
         /\ Ids(db'.services) = Ids(db.services) \cup Ids(work[t].services)
         /\ Ids(db'.schema) = Ids(db.schema) \cup Ids(work[t].schema)
         /\ db'.schema \subseteq db.schema \cup work[t].schema
         /\ db'.container \subseteq db.container \cup work[t].container
         /\ work'[t] = NoRows
         /\ \A u \in Txn \ {t} : work'[u] = work[u]
<1>1. work \in [Txn -> Tables] /\ db' = View(t)
  BY DEF TypeOK, Publish
<1>2. work'[t] = NoRows /\ \A u \in Txn \ {t} : work'[u] = work[u]
  BY <1>1 DEF Publish
<1>3. \A u \in Txn : /\ work'[u].services \subseteq work[u].services
                     /\ work'[u].schema \subseteq work[u].schema
                     /\ work'[u].container \subseteq work[u].container
  BY <1>2 DEF NoRows
<1> QED
  BY <1>1, <1>2, <1>3, ViewFacts DEF AllServices, AllSchemas, AllContainers

\* A rollback takes the rows of one transaction away.
LEMMA DropRows ==
  ASSUME TypeOK, NEW t \in Txn, db' = db, work' = [work EXCEPT ![t] = NoRows]
  PROVE  /\ AllServices' \subseteq AllServices
         /\ AllSchemas' \subseteq AllSchemas
         /\ AllContainers' \subseteq AllContainers
         /\ work'[t] = NoRows
         /\ \A u \in Txn \ {t} : work'[u] = work[u]
<1>1. work'[t] = NoRows /\ \A u \in Txn \ {t} : work'[u] = work[u]
  BY DEF TypeOK
<1>2. \A u \in Txn : /\ work'[u].services \subseteq work[u].services
                     /\ work'[u].schema \subseteq work[u].schema
                     /\ work'[u].container \subseteq work[u].container
  BY <1>1 DEF NoRows
<1> QED
  BY <1>1, <1>2 DEF AllServices, AllSchemas, AllContainers

------------------------------------------------------------------------------
(* Every step keeps the invariant.                                         *)

\* A step that reads, or refuses, moves no row: only what its own handler
\* remembers has to be looked at.
LEMMA QuietInv ==
  ASSUME IInv, TypeOK', RequestInv', UNCHANGED <<db, work, nextId>>,
         HandlerInv'
  PROVE  IInv'
<1>1. /\ AllServices' = AllServices
      /\ AllSchemas' = AllSchemas
      /\ AllContainers' = AllContainers
  BY DEF AllServices, AllSchemas, AllContainers
<1> QED
  BY <1>1 DEF IInv, ServicesInv, SchemasInv, ContainersInv, ReferencesInv

\* A quiet step that keeps the schema its handler remembers.
LEMMA QuietStep ==
  ASSUME IInv, NEW t \in Txn, NEW from, NEW to, Goto(t, from, to),
         TypeOK', RequestInv', UNCHANGED <<db, work, nextId>>,
         \A u \in Txn : /\ local'[u].schema = local[u].schema
                        /\ local'[u].service = local[u].service,
         to \in {"idle", "delete", "cascade"} => work[t] = NoRows,
         to \in {"idle", "delete", "cascade", "getService", "insertService",
                 "updateUrl", "findSchema"} => local[t].schema = None,
         to \in {"getService", "insertService", "updateUrl", "findSchema",
                 "versionExists", "writeSchema", "findContainer",
                 "switchContainer", "insertContainer", "toggle"}
           => work[t].container = {}
  PROVE  IInv'
<1>1. AllSchemas' = AllSchemas
  BY DEF AllSchemas
<1>2. \A u \in Txn : pc'[u] = IF u = t THEN to ELSE pc[u]
  BY DEF IInv, TypeOK, Goto
<1>3. HandlerInv'
  BY <1>1, <1>2 DEF IInv, HandlerInv
<1> QED
  BY <1>3, QuietInv

\* A refused statement writes nothing and keeps what the handler remembers.
LEMMA ThrowInv ==
  ASSUME IInv, NEW t \in Txn, NEW from, NEW why \in Refusals,
         Throw(t, from, why)
  PROVE  IInv'
<1>1. TypeOK' /\ RequestInv'
  BY ThrowType DEF IInv
<1> QED
  BY <1>1, QuietStep DEF Throw, Refusals

\* A request begins with nothing written and nothing found.
LEMMA BeginInv ==
  ASSUME IInv, NEW t \in Txn, Begin(t)
  PROVE  IInv'
<1>1. TypeOK' /\ RequestInv'
  BY BeginType DEF IInv
<1>2. PICK r \in Requests, d \in Ticks :
        /\ Goto(t, "idle", FirstStatement(r))
        /\ local' = [local EXCEPT ![t].time = clock + d]
        /\ UNCHANGED <<db, work, nextId>>
  BY DEF Begin
<1>3. \A u \in Txn : /\ local'[u].schema = local[u].schema
                     /\ local'[u].service = local[u].service
  BY <1>2 DEF IInv, TypeOK, Local
<1>4. work[t] = NoRows /\ local[t].schema = None
  BY <1>2 DEF IInv, HandlerInv, Goto
<1> QED
  BY <1>1, <1>2, <1>3, <1>4, QuietStep DEF NoRows

\* The statements that only read.
LEMMA ReadInv ==
  ASSUME IInv, NEW t \in Txn,
         \/ GetService(t) \/ FindSchema(t) \/ FindContainer(t)
         \/ VersionExists(t) \/ ReadResult(t) \/ ReadExact(t) \/ Fallback(t)
         \/ ReadActive(t) \/ Validate(t) \/ Fail(t)
  PROVE  IInv'
<1>1. TypeOK' /\ RequestInv'
  BY StepType DEF IInv, Step
<1>2. local \in [Txn -> Local]
  BY DEF IInv, TypeOK
<1>h. /\ pc[t] \in PushStatements \ {"readResult", "readExact", "fallback"}
           => work[t].container = {}
      /\ pc[t] = "getService" => local[t].schema = None
  BY DEF IInv, HandlerInv, PushStatements
<1>3. CASE GetService(t)
  <2>1. UNCHANGED <<db, work, nextId>> /\ pc[t] = "getService"
    BY <1>3 DEF GetService
  <2>2. /\ \A u \in Txn : local'[u].schema = local[u].schema
        /\ \A u \in Txn \ {t} : local'[u].service = local[u].service
        /\ \A u \in Txn : pc'[u] = IF u = t THEN pc'[t] ELSE pc[u]
        /\ pc'[t] \in {"insertService", "updateUrl", "findSchema"}
    <3>1. CASE UNCHANGED local
      BY <1>3, <3>1 DEF GetService, Goto, IInv, TypeOK
    <3>2. ASSUME NEW s \in View(t).services,
                 local' = [local EXCEPT ![t].service = s.id]
          PROVE  /\ \A u \in Txn : local'[u].schema = local[u].schema
                 /\ \A u \in Txn \ {t} : local'[u].service = local[u].service
      BY <1>2, <3>2 DEF Local
    <3>3. /\ \A u \in Txn : pc'[u] = IF u = t THEN pc'[t] ELSE pc[u]
          /\ pc'[t] \in {"insertService", "updateUrl", "findSchema"}
      BY <1>3 DEF GetService, Goto, IInv, TypeOK
    <3> QED
      BY <1>3, <3>1, <3>2, <3>3 DEF GetService
  <2>3. AllSchemas' = AllSchemas
    BY <2>1 DEF AllSchemas
  <2>4. \A s \in AllSchemas : s.id \in Id
    BY DEF IInv, TypeOK, AllSchemas, Tables, SchemaRow
  <2>5. HandlerInv'
    BY <1>h, <2>1, <2>2, <2>3, <2>4
       DEF IInv, HandlerInv, PushStatements, Id
  <2> QED
    BY <1>1, <2>1, <2>5, QuietInv
<1>4. CASE FindSchema(t)
  <2>1. UNCHANGED <<db, work, nextId>> /\ pc[t] = "findSchema"
    BY <1>4 DEF FindSchema
  <2>2. CASE UNCHANGED local
    <3>1. \E to \in {"writeSchema", "versionExists"} :
            Goto(t, "findSchema", to)
      BY <1>4, <2>2 DEF FindSchema
    <3> QED
      BY <1>1, <1>h, <2>1, <2>2, <3>1, QuietStep DEF PushStatements
  <2>3. CASE local' # local
    <3>1. PICK s \in FindExisting(t) :
            /\ local' = [local EXCEPT ![t].schema = s.id]
            /\ Goto(t, "findSchema", "writeSchema")
      BY <1>4, <2>3 DEF FindSchema
    <3>2. s \in AllSchemas /\ s.service = local[t].service
      BY ViewFacts DEF FindExisting, AllSchemas
    <3>3. /\ local'[t].schema = s.id /\ local'[t].service = local[t].service
          /\ \A u \in Txn \ {t} : local'[u] = local[u]
      BY <1>2, <3>1 DEF Local
    <3>4. AllSchemas' = AllSchemas
      BY <2>1 DEF AllSchemas
    <3>5. \A u \in Txn : pc'[u] = IF u = t THEN "writeSchema" ELSE pc[u]
      BY <3>1 DEF Goto, IInv, TypeOK
    <3>6. HandlerInv'
      BY <1>h, <2>1, <3>2, <3>3, <3>4, <3>5
         DEF IInv, HandlerInv, SchemasInv, PushStatements
    <3> QED
      BY <1>1, <2>1, <3>6, QuietInv
  <2> QED
    BY <2>2, <2>3
<1>5. CASE FindContainer(t)
  <2>1. UNCHANGED <<db, work, nextId>> /\ pc[t] = "findContainer"
    BY <1>5 DEF FindContainer
  <2>2. \A u \in Txn : /\ local'[u].schema = local[u].schema
                       /\ local'[u].service = local[u].service
    <3>1. ASSUME NEW c \in Bound(t),
                 local' = [local EXCEPT ![t].container = c.id]
          PROVE  \A u \in Txn : /\ local'[u].schema = local[u].schema
                                /\ local'[u].service = local[u].service
      BY <1>2, <3>1 DEF Local
    <3> QED
      BY <1>5, <3>1 DEF FindContainer
  <2>3. \E to \in {"switchContainer", "readResult", "insertContainer"} :
          Goto(t, "findContainer", to)
    BY <1>5 DEF FindContainer
  <2> QED
    BY <1>1, <1>h, <2>1, <2>2, <2>3, QuietStep DEF PushStatements
<1>6. CASE VersionExists(t)
  <2>1. CASE Throw(t, "versionExists", "conflict")
    BY <2>1, ThrowInv DEF Refusals
  <2>2. CASE /\ Goto(t, "versionExists", "writeSchema")
             /\ UNCHANGED <<db, work, nextId, clock, req, local>>
    <3>1. work[t].container = {}
      BY <1>h, <2>2 DEF Goto, PushStatements
    <3> QED
      BY <1>1, <2>2, <3>1, QuietStep
  <2> QED
    BY <1>6, <2>1, <2>2 DEF VersionExists
<1>7. CASE ReadResult(t)
  <2>1. Goto(t, "readResult", "readExact") /\ UNCHANGED <<db, work, nextId>>
    BY <1>7 DEF ReadResult
  <2>2. \A u \in Txn : /\ local'[u].schema = local[u].schema
                       /\ local'[u].service = local[u].service
    BY <1>2, <1>7 DEF ReadResult, Local
  <2> QED
    BY <1>1, <2>1, <2>2, QuietStep
<1>8. CASE ReadExact(t)
  <2>1. Goto(t, "readExact", "fallback") /\ UNCHANGED <<db, work, nextId>>
    BY <1>8 DEF ReadExact
  <2>2. \A u \in Txn : /\ local'[u].schema = local[u].schema
                       /\ local'[u].service = local[u].service
    BY <1>2, <1>8 DEF ReadExact, Local
  <2> QED
    BY <1>1, <2>1, <2>2, QuietStep
<1>8a. CASE Fallback(t)
  <2>1. Goto(t, "fallback", "readActive") /\ UNCHANGED <<db, work, nextId>>
    BY <1>8a DEF Fallback
  <2>2. \A ps : local' = [local EXCEPT ![t].answer = ps] =>
          \A u \in Txn : /\ local'[u].schema = local[u].schema
                         /\ local'[u].service = local[u].service
    BY <1>2 DEF Local
  <2>3. UNCHANGED local \/ \E ps : local' = [local EXCEPT ![t].answer = ps]
    BY <1>8a DEF Fallback
  <2> QED
    BY <1>1, <2>1, <2>2, <2>3, QuietStep
<1>9. CASE ReadActive(t)
  <2>1. Goto(t, "readActive", "validate") /\ UNCHANGED <<db, work, nextId>>
    BY <1>9 DEF ReadActive
  <2>2. \A u \in Txn : /\ local'[u].schema = local[u].schema
                       /\ local'[u].service = local[u].service
    BY <1>2, <1>9 DEF ReadActive, Local
  <2> QED
    BY <1>1, <2>1, <2>2, QuietStep
<1>10. CASE Validate(t)
  <2>1. CASE Throw(t, "validate", "invalid")
    BY <2>1, ThrowInv DEF Refusals
  <2>2. CASE /\ Goto(t, "validate", "commit")
             /\ UNCHANGED <<db, work, nextId, clock, req, local>>
    BY <1>1, <2>2, QuietStep
  <2> QED
    BY <1>10, <2>1, <2>2 DEF Validate
<1>11. CASE Fail(t)
  BY <1>11, ThrowInv DEF Fail, Refusals
<1> QED
  BY <1>3, <1>4, <1>5, <1>6, <1>7, <1>8, <1>8a, <1>9, <1>10, <1>11

\* The statements that write a service row.
LEMMA ServiceWriteInv ==
  ASSUME IInv, NEW t \in Txn, InsertService(t) \/ UpdateUrl(t)
  PROVE  IInv'
<1>1. TypeOK' /\ RequestInv'
  BY StepType DEF IInv, Step
<1>2. TypeOK
  BY DEF IInv
<1>3. work[t].container = {} /\ local[t].schema = None
  BY DEF IInv, HandlerInv, InsertService, UpdateUrl, Goto
<1>s. \A s \in AllSchemas : s.id \in Id
  BY <1>2 DEF TypeOK, AllSchemas, Tables, SchemaRow
<1>4. CASE Throw(t, "insertService", "constraint")
  BY <1>4, ThrowInv DEF Refusals
<1>5. CASE InsertService(t) /\ ~Throw(t, "insertService", "constraint")
  <2> DEFINE row == [id |-> nextId.services, name |-> req[t].name,
                     url |-> req[t].url]
  <2>1. /\ ~NamePending(t, req[t].name)
        /\ req[t].name \notin ActiveNames(View(t))
        /\ Goto(t, "insertService", "findSchema")
        /\ db' = db
        /\ work' = [work EXCEPT ![t].services = Overlay(@, {row})]
        /\ nextId' = [nextId EXCEPT !.services = @ + 1]
        /\ local' = [local EXCEPT ![t].service = nextId.services]
    BY <1>5 DEF InsertService
  <2>2. req[t] \in PushRequest /\ nextId.services \in Id
    BY <1>2, <2>1 DEF IInv, RequestInv, PushStatements, Goto, TypeOK
  <2>3. {row} \in SUBSET ServiceRow
    BY <2>2 DEF ServiceRow, PushRequest
  <2>4. /\ AllServices' \subseteq AllServices \cup {row}
        /\ AllSchemas' = AllSchemas /\ AllContainers' = AllContainers
        /\ Ids(work'[t].services) = Ids(work[t].services) \cup Ids({row})
        /\ work'[t].schema = work[t].schema
        /\ work'[t].container = work[t].container
        /\ \A u \in Txn \ {t} : work'[u] = work[u]
    <3> HIDE DEF row
    <3> QED
      BY <1>2, <2>1, <2>3, WriteServices
  <2>5. nextId'.services = nextId.services + 1
        /\ nextId'.schema = nextId.schema
        /\ nextId'.container = nextId.container
    BY <1>2, <2>1 DEF TypeOK
  <2>6. \A s \in AllServices : s.name # req[t].name
    <3>1. \A s \in db.services \cup work[t].services : s.name # req[t].name
      <4>1. \A s \in db.services \cup work[t].services :
              \E r \in View(t).services : r.id = s.id
        BY ViewFacts DEF Ids
      <4>2. \A r \in View(t).services : r \in AllServices
        BY ViewFacts DEF AllServices
      <4>3. db.services \cup work[t].services \subseteq AllServices
        BY DEF AllServices
      <4>4. \A r \in View(t).services : r.name # req[t].name
        BY <2>1 DEF ActiveNames
      <4> QED
        BY <4>1, <4>2, <4>3, <4>4 DEF IInv, ServicesInv
    <3> QED
      BY <2>1, <3>1 DEF NamePending, Others, AllServices
  <2>7. ServicesInv'
    <3>1. \A s \in AllServices : s.id \in Id /\ s.id < nextId.services
      BY <1>2 DEF IInv, ServicesInv, TypeOK, AllServices, Tables, ServiceRow
    <3>2. row.id = nextId.services /\ row.name = req[t].name
      OBVIOUS
    <3>3. nextId.services \in Nat
      BY <2>2 DEF Id
    <3>4. \A s \in AllServices' : s \in AllServices \/ s = row
      BY <2>4
    <3>5. \A s, r \in AllServices : s.id = r.id <=> s.name = r.name
      BY DEF IInv, ServicesInv
    <3> HIDE DEF row
    <3>6. \A s \in AllServices' : s.id < nextId'.services
      BY <2>5, <3>1, <3>2, <3>3, <3>4 DEF Id
    <3>7. \A s \in AllServices : s.id # row.id /\ s.name # row.name
      BY <2>6, <3>1, <3>2, <3>3 DEF Id
    <3>8. \A s, r \in AllServices' : s.id = r.id <=> s.name = r.name
      BY <3>4, <3>5, <3>7
    <3> QED
      BY <3>6, <3>8 DEF ServicesInv
  <2>8. SchemasInv' /\ ContainersInv'
    <3>1. \A u \in Txn : work'[u].container = work[u].container
      BY <2>4
    <3> QED
      BY <2>1, <2>4, <2>5, <3>1 DEF IInv, SchemasInv, ContainersInv
  <2>9. ReferencesInv'
    <3> HIDE DEF row
    <3>1. \A u \in Txn : /\ work'[u].schema = work[u].schema
                         /\ work'[u].container = work[u].container
                         /\ Ids(work[u].services) \subseteq Ids(work'[u].services)
      BY <2>4
    <3> QED
      BY <2>1, <2>4, <3>1 DEF IInv, ReferencesInv
  <2>10. HandlerInv'
    <3>1. /\ \A u \in Txn \ {t} : local'[u] = local[u]
          /\ local'[t].schema = None
      BY <1>2, <1>3, <2>1 DEF TypeOK, Local
    <3>2. \A u \in Txn : pc'[u] = IF u = t THEN "findSchema" ELSE pc[u]
      BY <1>2, <2>1 DEF Goto, TypeOK
    <3>3. work'[t].container = {}
      BY <1>3, <2>4
    <3>4. \A s \in AllSchemas : s.id # None
      BY <1>s DEF Id
    <3>5. None < nextId.schema
      BY <1>3 DEF IInv, HandlerInv
    <3> HIDE DEF row
    <3> QED
      BY <2>4, <2>5, <3>1, <3>2, <3>3, <3>4, <3>5 DEF IInv, HandlerInv
  <2> QED
    BY <1>1, <2>7, <2>8, <2>9, <2>10 DEF IInv
<1>6. CASE UpdateUrl(t)
  <2> DEFINE rows == {[s EXCEPT !.url = req[t].url] :
                        s \in {s \in View(t).services : s.id = local[t].service}}
  <2>1. /\ Goto(t, "updateUrl", "findSchema")
        /\ work' = [work EXCEPT ![t].services = Overlay(@, rows)]
        /\ UNCHANGED <<db, nextId, local>>
    BY <1>6 DEF UpdateUrl
  <2>2. View(t).services \subseteq AllServices
    BY ViewFacts DEF AllServices
  <2>3. /\ rows \in SUBSET ServiceRow
        /\ \A r \in rows : \E s \in AllServices : s.id = r.id /\ s.name = r.name
    <3>1. req[t] \in PushRequest
      BY <1>6 DEF IInv, RequestInv, PushStatements, UpdateUrl
    <3>2. View(t) \in Tables
      BY <1>2, ViewType
    <3> QED
      BY <2>2, <3>1, <3>2 DEF PushRequest, Tables, ServiceRow
  <2> HIDE DEF rows
  <2>4. /\ AllServices' \subseteq AllServices \cup rows
        /\ AllSchemas' = AllSchemas /\ AllContainers' = AllContainers
        /\ Ids(work'[t].services) = Ids(work[t].services) \cup Ids(rows)
        /\ work'[t].schema = work[t].schema
        /\ work'[t].container = work[t].container
        /\ \A u \in Txn \ {t} : work'[u] = work[u]
    BY <1>2, <2>1, <2>3, WriteServices
  <2>5. ServicesInv'
    <3>1. \A r \in AllServices' :
            \E s \in AllServices : s.id = r.id /\ s.name = r.name
      BY <2>3, <2>4
    <3> QED
      BY <2>1, <3>1 DEF IInv, ServicesInv
  <2>6. \A u \in Txn : /\ work'[u].schema = work[u].schema
                       /\ work'[u].container = work[u].container
                       /\ Ids(work[u].services) \subseteq Ids(work'[u].services)
    BY <2>4
  <2>7. SchemasInv' /\ ContainersInv'
    BY <2>1, <2>4, <2>6 DEF IInv, SchemasInv, ContainersInv
  <2>8. ReferencesInv'
    BY <2>1, <2>4, <2>6 DEF IInv, ReferencesInv
  <2>9. HandlerInv'
    <3>1. \A u \in Txn : pc'[u] = IF u = t THEN "findSchema" ELSE pc[u]
      BY <1>2, <2>1 DEF Goto, TypeOK
    <3> QED
      BY <1>3, <2>1, <2>4, <3>1 DEF IInv, HandlerInv
  <2> QED
    BY <1>1, <2>5, <2>7, <2>8, <2>9 DEF IInv
<1> QED
  BY <1>4, <1>5, <1>6

\* The updates of a schema row keep its id, its service and its definition.
LEMMA SchemaUpdateInv ==
  ASSUME IInv, NEW t \in Txn, TouchSchema(t) \/ Toggle(t)
  PROVE  IInv'
<1>1. TypeOK' /\ RequestInv'
  BY StepType DEF IInv, Step, WriteSchema
<1>2. TypeOK /\ View(t) \in Tables /\ View(t).schema \subseteq AllSchemas
  BY ViewType, ViewFacts DEF IInv, AllSchemas
<1>3. work[t].container = {}
  BY DEF IInv, HandlerInv, TouchSchema, Toggle
<1>4. PICK rows \in SUBSET SchemaRow :
        /\ work' = [work EXCEPT ![t].schema = Overlay(@, rows)]
        /\ \A r \in rows : \E s \in View(t).schema :
             s.id = r.id /\ s.service = r.service /\ s.def = r.def
  <2>1. CASE TouchSchema(t)
    <3> DEFINE rows == {[s EXCEPT !.updated = local[t].time] :
                  s \in {s \in View(t).schema : s.id = local[t].schema}}
    <3>1. rows \in SUBSET SchemaRow
      BY <1>2 DEF TypeOK, Tables, SchemaRow, Local
    <3>2. \A r \in rows : \E s \in View(t).schema :
             s.id = r.id /\ s.service = r.service /\ s.def = r.def
      BY <1>2 DEF Tables, SchemaRow
    <3>3. work' = [work EXCEPT ![t].schema = Overlay(@, rows)]
      BY <2>1 DEF TouchSchema
    <3> HIDE DEF rows
    <3> QED
      BY <3>1, <3>2, <3>3
  <2>2. CASE Toggle(t)
    <3> DEFINE rows == {[s EXCEPT !.active = req[t].active] :
                  s \in {s \in View(t).schema : s.id = req[t].schema}}
    <3>1. req[t] \in ToggleRequest
      BY <2>2 DEF IInv, RequestInv, Toggle
    <3>2. rows \in SUBSET SchemaRow
      BY <1>2, <3>1 DEF Tables, SchemaRow, ToggleRequest
    <3>3. \A r \in rows : \E s \in View(t).schema :
             s.id = r.id /\ s.service = r.service /\ s.def = r.def
      BY <1>2 DEF Tables, SchemaRow
    <3>4. work' = [work EXCEPT ![t].schema = Overlay(@, rows)]
      BY <2>2 DEF Toggle
    <3> HIDE DEF rows
    <3> QED
      BY <3>2, <3>3, <3>4
  <2> QED
    BY <2>1, <2>2
<1>5. UNCHANGED <<db, nextId, local>>
  BY DEF TouchSchema, Toggle
<1>6. /\ AllSchemas' \subseteq AllSchemas \cup rows
      /\ AllServices' = AllServices /\ AllContainers' = AllContainers
      /\ Ids(work'[t].schema) = Ids(work[t].schema) \cup Ids(rows)
      /\ work'[t].schema \subseteq work[t].schema \cup rows
      /\ work'[t].services = work[t].services
      /\ work'[t].container = work[t].container
      /\ \A u \in Txn \ {t} : work'[u] = work[u]
  BY <1>2, <1>4, <1>5, WriteSchemas
<1>7. \A r \in AllSchemas' : \E s \in AllSchemas :
        s.id = r.id /\ s.service = r.service /\ s.def = r.def
  BY <1>2, <1>4, <1>6
<1>8. \A u \in Txn : /\ work'[u].services = work[u].services
                     /\ work'[u].container = work[u].container
                     /\ Ids(work[u].schema) \subseteq Ids(work'[u].schema)
  BY <1>6
<1>9. ServicesInv' /\ SchemasInv' /\ ContainersInv'
  BY <1>5, <1>6, <1>7, <1>8 DEF IInv, ServicesInv, SchemasInv, ContainersInv
<1>10. ReferencesInv'
  <2>1. \A r \in rows :
          r.service \in Ids(db.services) \cup Ids(work[t].services)
    <3>1. \A s \in View(t).schema :
            s.service \in Ids(db.services) \cup Ids(work[t].services)
      BY ViewFacts DEF IInv, ReferencesInv
    <3> QED
      BY <1>4, <3>1
  <2>2. \A c \in AllContainers', s \in AllSchemas' :
          s.id = c.schema => s.service = c.service
    BY <1>6, <1>7 DEF IInv, ReferencesInv
  <2>3. \A u \in Txn : \A s \in work'[u].schema :
          s.service \in Ids(db.services) \cup Ids(work[u].services)
    BY <1>6, <2>1 DEF IInv, ReferencesInv
  <2> QED
    BY <1>5, <1>8, <2>2, <2>3 DEF IInv, ReferencesInv
<1>11. HandlerInv'
  <2>1. \A u \in Txn : u # t => pc'[u] = pc[u]
    BY <1>2 DEF TouchSchema, Toggle, Goto, TypeOK
  <2>2. pc'[t] \in {"findContainer", "readActive"}
    BY <1>2 DEF TouchSchema, Toggle, Goto, TypeOK
  <2>3. \A u \in Txn : \A s \in AllSchemas' :
          s.id = local'[u].schema => s.service = local'[u].service
    BY <1>5, <1>7 DEF IInv, HandlerInv
  <2>4. work'[t].container = {}
    BY <1>3, <1>6
  <2> QED
    BY <1>5, <1>6, <2>1, <2>2, <2>3, <2>4 DEF IInv, HandlerInv
<1> QED
  BY <1>1, <1>9, <1>10, <1>11 DEF IInv

\* A schema row is inserted with an id of its own, for the service its handler
\* found or inserted, or the foreign key refuses it.
LEMMA InsertSchemaInv ==
  ASSUME IInv, NEW t \in Txn, InsertSchema(t)
  PROVE  IInv'
<1>1. TypeOK' /\ RequestInv'
  BY StepType DEF IInv, Step, WriteSchema
<1>2. TypeOK /\ View(t) \in Tables
  BY ViewType DEF IInv
<1>3. CASE Throw(t, "writeSchema", "constraint")
  BY <1>3, ThrowInv DEF Refusals
<1>4. CASE ~Throw(t, "writeSchema", "constraint")
  <2> DEFINE row == [id |-> nextId.schema, service |-> local[t].service,
                     def |-> req[t].def, active |-> TRUE,
                     added |-> local[t].time, updated |-> local[t].time]
  <2>1. /\ local[t].service \in Ids(View(t).services)
        /\ Goto(t, "writeSchema", "findContainer")
        /\ db' = db
        /\ work' = [work EXCEPT ![t].schema = Overlay(@, {row})]
        /\ nextId' = [nextId EXCEPT !.schema = @ + 1]
        /\ local' = [local EXCEPT ![t].schema = nextId.schema]
    BY <1>4 DEF InsertSchema
  <2>2. req[t] \in PushRequest /\ nextId.schema \in Id
    BY <1>2, <2>1 DEF IInv, RequestInv, PushStatements, Goto, TypeOK
  <2>3. local[t].service \in Ids(db.services) \cup Ids(work[t].services)
        /\ local[t].service \in Id
    BY <1>2, <2>1, ViewFacts DEF Ids, Tables, ServiceRow
  <2>4. {row} \in SUBSET SchemaRow
    BY <1>2, <2>2, <2>3 DEF SchemaRow, PushRequest, TypeOK, Local
  <2>5. row.id = nextId.schema /\ row.service = local[t].service
    OBVIOUS
  <2> HIDE DEF row
  <2>6. /\ AllSchemas' \subseteq AllSchemas \cup {row}
        /\ AllServices' = AllServices /\ AllContainers' = AllContainers
        /\ Ids(work'[t].schema) = Ids(work[t].schema) \cup Ids({row})
        /\ work'[t].schema \subseteq work[t].schema \cup {row}
        /\ work'[t].services = work[t].services
        /\ work'[t].container = work[t].container
        /\ \A u \in Txn \ {t} : work'[u] = work[u]
    BY <1>2, <2>1, <2>4, WriteSchemas
  <2>7. nextId'.schema = nextId.schema + 1
        /\ nextId'.services = nextId.services
        /\ nextId'.container = nextId.container
    BY <1>2, <2>1 DEF TypeOK
  <2>8. \A u \in Txn : /\ work'[u].services = work[u].services
                       /\ work'[u].container = work[u].container
                       /\ Ids(work[u].schema) \subseteq Ids(work'[u].schema)
    BY <2>6
  <2>9. \A s \in AllSchemas : s.id \in Nat /\ s.id < nextId.schema
    BY <1>2 DEF IInv, SchemasInv, TypeOK, AllSchemas, Tables, SchemaRow, Id
  <2>10. nextId.schema \in Nat
    BY <2>2 DEF Id
  <2>11. \A s \in AllSchemas : s.id # row.id
    BY <2>5, <2>9, <2>10
  <2>12. ServicesInv' /\ ContainersInv'
    BY <2>1, <2>6, <2>7, <2>8 DEF IInv, ServicesInv, ContainersInv
  <2>13. SchemasInv'
    <3>1. \A s \in AllSchemas' : s.id < nextId'.schema
      BY <2>5, <2>6, <2>7, <2>9, <2>10
    <3>2. \A s, r \in AllSchemas' :
            s.id = r.id => s.service = r.service /\ s.def = r.def
      BY <2>6, <2>11 DEF IInv, SchemasInv
    <3> QED
      BY <3>1, <3>2 DEF SchemasInv
  <2>14. \A c \in AllContainers : c.schema \in Nat /\ c.schema < nextId.schema
    <3>1. \A u \in Txn : \A c \in work[u].container :
            c.schema \in Ids(AllSchemas)
      BY DEF IInv, ReferencesInv, AllSchemas, Ids
    <3>2. \A c \in db.container : c.schema \in Ids(AllSchemas)
      BY DEF IInv, ReferencesInv, AllSchemas, Ids
    <3> QED
      BY <2>9, <3>1, <3>2 DEF AllContainers, Ids
  <2>15. ReferencesInv'
    <3>1. \A c \in AllContainers', s \in AllSchemas' :
            s.id = c.schema => s.service = c.service
      <4>1. \A c \in AllContainers : c.schema # row.id
        BY <2>5, <2>10, <2>14
      <4> QED
        BY <2>6, <4>1 DEF IInv, ReferencesInv
    <3>2. \A u \in Txn : \A s \in work'[u].schema :
            s.service \in Ids(db.services) \cup Ids(work[u].services)
      BY <2>3, <2>5, <2>6 DEF IInv, ReferencesInv
    <3> QED
      BY <2>1, <2>8, <3>1, <3>2 DEF IInv, ReferencesInv
  <2>16. HandlerInv'
    <3>1. /\ \A u \in Txn \ {t} : local'[u] = local[u]
          /\ local'[t].schema = nextId.schema
          /\ local'[t].service = local[t].service
      BY <1>2, <2>1 DEF TypeOK, Local
    <3>2. \A u \in Txn : pc'[u] = IF u = t THEN "findContainer" ELSE pc[u]
      BY <1>2, <2>1 DEF Goto, TypeOK
    <3>3. work'[t].container = {}
      BY <2>1, <2>6 DEF IInv, HandlerInv, Goto
    <3>4. \A u \in Txn : local'[u].schema \in Nat
                         /\ local'[u].schema < nextId'.schema
      <4>1. \A u \in Txn : local[u].schema \in Nat
                           /\ local[u].schema < nextId.schema
        BY <1>2 DEF IInv, HandlerInv, TypeOK, Local
      <4> QED
        BY <2>7, <2>10, <3>1, <4>1
    <3>5. \A u \in Txn : \A s \in AllSchemas' :
            s.id = local'[u].schema => s.service = local'[u].service
      <4>1. \A u \in Txn : local[u].schema # row.id
        BY <1>2, <2>5, <2>10 DEF IInv, HandlerInv, TypeOK, Local
      <4>2. \A s \in AllSchemas : s.id # local'[t].schema
        BY <2>5, <2>11, <3>1
      <4> QED
        BY <2>5, <2>6, <3>1, <4>1, <4>2 DEF IInv, HandlerInv
    <3> QED
      BY <2>6, <3>1, <3>2, <3>3, <3>4, <3>5 DEF IInv, HandlerInv
  <2> QED
    BY <1>1, <2>12, <2>13, <2>15, <2>16 DEF IInv
<1> QED
  BY <1>3, <1>4

\* The development container is pointed at a schema of its own service.
LEMMA SwitchContainerInv ==
  ASSUME IInv, NEW t \in Txn, SwitchContainer(t)
  PROVE  IInv'
<1>1. TypeOK' /\ RequestInv'
  BY StepType DEF IInv, Step
<1>2. TypeOK /\ View(t) \in Tables
  BY ViewType DEF IInv
<1>3. CASE Throw(t, "switchContainer", "constraint")
  BY <1>3, ThrowInv DEF Refusals
<1>4. CASE ~Throw(t, "switchContainer", "constraint")
  <2> DEFINE rows == {Rebound(c, local[t].schema) : c \in Bound(t)}
  <2>1. /\ local[t].schema \in Ids(View(t).schema) \/ Bound(t) = {}
        /\ Goto(t, "switchContainer", "readResult")
        /\ work' = [work EXCEPT ![t].container = Overlay(@, rows)]
        /\ UNCHANGED <<db, nextId, local>>
    BY <1>4 DEF SwitchContainer
  <2>2. work[t].container = {} /\ req[t].version = Dev
    BY <2>1 DEF IInv, HandlerInv, RequestInv, Goto
  <2>3. /\ Bound(t) \subseteq db.container
        /\ \A c \in Bound(t) : c \in ContainerRow /\ c.service = local[t].service
                               /\ c.version = Dev
    BY <1>2, <2>2, ViewFacts DEF Bound, Tables
  <2>4. \A c, d \in Bound(t) : c = d
    <3>1. db.container \subseteq AllContainers
      BY DEF AllContainers
    <3> QED
      BY <2>3, <3>1 DEF IInv, ContainersInv
  <2>5. \A c \in Bound(t) :
          /\ local[t].schema \in Ids(db.schema) \cup Ids(work[t].schema)
          /\ local[t].schema \in Id
    BY <1>2, <2>1, ViewFacts DEF Ids, Tables, SchemaRow
  <2>6. /\ rows \in SUBSET ContainerRow
        /\ \A r \in rows : \E c \in Bound(t) :
             /\ r.id = c.id /\ r.service = c.service /\ r.version = c.version
             /\ r.schema = local[t].schema
        /\ \A r, q \in rows : r = q
    BY <2>3, <2>4, <2>5 DEF Rebound, ContainerRow
  <2> HIDE DEF rows
  <2>7. /\ AllContainers' = AllContainers \cup rows
        /\ AllServices' = AllServices /\ AllSchemas' = AllSchemas
        /\ work'[t].container = rows
        /\ work'[t].services = work[t].services
        /\ work'[t].schema = work[t].schema
        /\ \A u \in Txn \ {t} : work'[u] = work[u]
    BY <1>2, <2>1, <2>2, <2>6, WriteContainers
  <2>8. \A u \in Txn : /\ work'[u].services = work[u].services
                       /\ work'[u].schema = work[u].schema
    BY <2>7
  <2>9. ServicesInv' /\ SchemasInv'
    BY <2>1, <2>7 DEF IInv, ServicesInv, SchemasInv
  <2>10. ContainersInv'
    <3>1. \A r \in AllContainers' :
            \/ r \in AllContainers
            \/ \E c \in AllContainers :
                 /\ r.id = c.id /\ r.service = c.service
                 /\ r.version = c.version /\ r.version = Dev
      BY <2>3, <2>6, <2>7 DEF AllContainers
    <3>2. \A c \in AllContainers' : c.id < nextId'.container
      BY <2>1, <3>1 DEF IInv, ContainersInv
    <3>3. \A c, d \in AllContainers' :
            c.id = d.id <=> c.service = d.service /\ c.version = d.version
      BY <3>1 DEF IInv, ContainersInv
    <3>4. \A c, d \in AllContainers' :
            c.id = d.id /\ c.version # Dev => c.schema = d.schema
      <4>1. \A c \in AllContainers' : c.version # Dev => c \in AllContainers
        BY <3>1
      <4> QED
        BY <3>3, <4>1 DEF IInv, ContainersInv
    <3>5. \A u \in Txn : \A c, d \in work'[u].container : c = d
      BY <2>6, <2>7 DEF IInv, ContainersInv
    <3> QED
      BY <2>1, <3>2, <3>3, <3>4, <3>5 DEF IInv, ContainersInv
  <2>11. ReferencesInv'
    <3>1. \A c \in rows :
            /\ c.service \in Ids(db.services)
            /\ c.schema \in Ids(db.schema) \cup Ids(work[t].schema)
            /\ \A s \in AllSchemas : s.id = c.schema => s.service = c.service
      <4>1. \A s \in AllSchemas :
              s.id = local[t].schema => s.service = local[t].service
        BY DEF IInv, HandlerInv
      <4>2. \A c \in Bound(t) : c.service \in Ids(db.services)
        BY <2>3 DEF IInv, ReferencesInv
      <4> QED
        BY <2>3, <2>5, <2>6, <4>1, <4>2
    <3>2. \A c \in AllContainers', s \in AllSchemas' :
            s.id = c.schema => s.service = c.service
      BY <2>7, <3>1 DEF IInv, ReferencesInv
    <3>3. \A u \in Txn : \A c \in work'[u].container :
            /\ c.service \in Ids(db.services) \cup Ids(work[u].services)
            /\ c.schema \in Ids(db.schema) \cup Ids(work[u].schema)
      BY <2>7, <3>1 DEF IInv, ReferencesInv
    <3> QED
      BY <2>1, <2>8, <3>2, <3>3 DEF IInv, ReferencesInv
  <2>12. HandlerInv'
    <3>1. \A u \in Txn : pc'[u] = IF u = t THEN "readResult" ELSE pc[u]
      BY <1>2, <2>1 DEF Goto, TypeOK
    <3> QED
      BY <2>1, <2>7, <3>1 DEF IInv, HandlerInv
  <2> QED
    BY <1>1, <2>9, <2>10, <2>11, <2>12 DEF IInv
<1> QED
  BY <1>3, <1>4

\* A container is inserted only when no row version, committed or open, binds
\* the same version of the same service.
LEMMA InsertContainerInv ==
  ASSUME IInv, NEW t \in Txn, InsertContainer(t)
  PROVE  IInv'
<1>1. TypeOK' /\ RequestInv'
  BY StepType DEF IInv, Step
<1>2. TypeOK /\ View(t) \in Tables
  BY ViewType DEF IInv
<1>3. CASE Throw(t, "insertContainer", "constraint")
  BY <1>3, ThrowInv DEF Refusals
<1>4. CASE ~Throw(t, "insertContainer", "constraint")
  <2> DEFINE row == [id |-> nextId.container, service |-> local[t].service,
                     schema |-> local[t].schema, version |-> req[t].version,
                     added |-> local[t].time]
  <2>1. /\ ~BindingPending(t, local[t].service, req[t].version)
        /\ Bound(t) = {}
        /\ local[t].service \in Ids(View(t).services)
        /\ local[t].schema \in Ids(View(t).schema)
        /\ Goto(t, "insertContainer", "readResult")
        /\ db' = db
        /\ work' = [work EXCEPT ![t].container = Overlay(@, {row})]
        /\ nextId' = [nextId EXCEPT !.container = @ + 1]
        /\ local' = [local EXCEPT ![t].container = nextId.container]
    BY <1>4 DEF InsertContainer
  <2>2. /\ req[t] \in PushRequest /\ nextId.container \in Id
        /\ work[t].container = {}
    BY <1>2, <2>1 DEF IInv, RequestInv, HandlerInv, PushStatements, Goto, TypeOK
  <2>3. /\ local[t].service \in Ids(db.services) \cup Ids(work[t].services)
        /\ local[t].schema \in Ids(db.schema) \cup Ids(work[t].schema)
        /\ local[t].service \in Id /\ local[t].schema \in Id
    BY <1>2, <2>1, ViewFacts DEF Ids, Tables, ServiceRow, SchemaRow
  <2>4. {row} \in SUBSET ContainerRow
    BY <1>2, <2>2, <2>3 DEF ContainerRow, PushRequest, TypeOK, Local
  <2>5. /\ row.id = nextId.container /\ row.service = local[t].service
        /\ row.schema = local[t].schema /\ row.version = req[t].version
    OBVIOUS
  <2> HIDE DEF row
  <2>6. /\ AllContainers' = AllContainers \cup {row}
        /\ AllServices' = AllServices /\ AllSchemas' = AllSchemas
        /\ work'[t].container = {row}
        /\ work'[t].services = work[t].services
        /\ work'[t].schema = work[t].schema
        /\ \A u \in Txn \ {t} : work'[u] = work[u]
    BY <1>2, <2>1, <2>2, <2>4, WriteContainers
  <2>7. nextId'.container = nextId.container + 1
        /\ nextId'.services = nextId.services
        /\ nextId'.schema = nextId.schema
    BY <1>2, <2>1 DEF TypeOK
  <2>8. \A u \in Txn : /\ work'[u].services = work[u].services
                       /\ work'[u].schema = work[u].schema
    BY <2>6
  <2>9. ServicesInv' /\ SchemasInv'
    BY <2>6, <2>7 DEF IInv, ServicesInv, SchemasInv
  <2>10. \A c \in AllContainers : c.id \in Nat /\ c.id < nextId.container
    BY <1>2 DEF IInv, ContainersInv, TypeOK, AllContainers, Tables,
                ContainerRow, Id
  <2>11. nextId.container \in Nat
    BY <2>2 DEF Id
  <2>12. \A c \in AllContainers :
           ~(c.service = row.service /\ c.version = row.version)
    <3>1. View(t).container = db.container
      BY <2>2 DEF View, OverlayTables, Overlay, Ids
    <3>2. \A c \in db.container :
            ~(c.service = row.service /\ c.version = row.version)
      BY <2>1, <2>5, <3>1 DEF Bound
    <3> QED
      BY <2>1, <2>2, <2>5, <3>2 DEF BindingPending, Others, AllContainers
  <2>13. ContainersInv'
    <3>1. \A c \in AllContainers' : c.id < nextId'.container
      BY <2>5, <2>6, <2>7, <2>10, <2>11
    <3>2. \A c \in AllContainers : c.id # row.id
      BY <2>5, <2>10, <2>11
    <3>3. \A c, d \in AllContainers' :
            /\ c.id = d.id <=> c.service = d.service /\ c.version = d.version
            /\ c.id = d.id /\ c.version # Dev => c.schema = d.schema
      BY <2>6, <2>12, <3>2 DEF IInv, ContainersInv
    <3>4. \A u \in Txn : \A c, d \in work'[u].container : c = d
      BY <2>6 DEF IInv, ContainersInv
    <3> QED
      BY <2>1, <3>1, <3>3, <3>4 DEF IInv, ContainersInv
  <2>14. ReferencesInv'
    <3>1. \A s \in AllSchemas : s.id = row.schema => s.service = row.service
      BY <2>5 DEF IInv, HandlerInv
    <3>2. \A c \in AllContainers', s \in AllSchemas' :
            s.id = c.schema => s.service = c.service
      BY <2>6, <3>1 DEF IInv, ReferencesInv
    <3>3. \A u \in Txn : \A c \in work'[u].container :
            /\ c.service \in Ids(db.services) \cup Ids(work[u].services)
            /\ c.schema \in Ids(db.schema) \cup Ids(work[u].schema)
      BY <2>3, <2>5, <2>6 DEF IInv, ReferencesInv
    <3> QED
      BY <2>1, <2>8, <3>2, <3>3 DEF IInv, ReferencesInv
  <2>15. HandlerInv'
    <3>1. \A u \in Txn : pc'[u] = IF u = t THEN "readResult" ELSE pc[u]
      BY <1>2, <2>1 DEF Goto, TypeOK
    <3>2. \A u \in Txn : /\ local'[u].schema = local[u].schema
                         /\ local'[u].service = local[u].service
      BY <1>2, <2>1 DEF TypeOK, Local
    <3> QED
      BY <2>6, <2>7, <3>1, <3>2 DEF IInv, HandlerInv
  <2> QED
    BY <1>1, <2>9, <2>13, <2>14, <2>15 DEF IInv
<1> QED
  BY <1>3, <1>4

\* The end of a request: what its handler remembered is gone.
LEMMA EndHandler ==
  ASSUME IInv, NEW t \in Txn, NEW from, Answer(t, from),
         AllSchemas' \subseteq AllSchemas, nextId' = nextId,
         \A u \in Txn \ {t} : work'[u] = work[u]
  PROVE  HandlerInv'
<1>1. TypeOK
  BY DEF IInv
<1>2. /\ local'[t].schema = None
      /\ \A u \in Txn \ {t} : local'[u] = local[u]
      /\ \A u \in Txn : pc'[u] = IF u = t THEN "done" ELSE pc[u]
  BY <1>1 DEF Answer, Goto, TypeOK, NoLocal
<1>3. \A s \in AllSchemas : s.id # None
  BY <1>1 DEF TypeOK, AllSchemas, Tables, SchemaRow, Id
<1>4. None < nextId.schema
  BY <1>1 DEF TypeOK, Id, None
<1> QED
  BY <1>2, <1>3, <1>4 DEF IInv, HandlerInv

\* A commit leaves one committed version of every row.
LEMMA PublishInv ==
  ASSUME IInv, NEW t \in Txn, Publish(t)
  PROVE  ServicesInv' /\ SchemasInv' /\ ContainersInv' /\ ReferencesInv'
<1>1. TypeOK /\ nextId' = nextId
  BY DEF IInv, Publish
<1>2. /\ AllServices' \subseteq AllServices
      /\ AllSchemas' \subseteq AllSchemas
      /\ AllContainers' \subseteq AllContainers
      /\ Ids(db'.services) = Ids(db.services) \cup Ids(work[t].services)
      /\ Ids(db'.schema) = Ids(db.schema) \cup Ids(work[t].schema)
      /\ db'.schema \subseteq db.schema \cup work[t].schema
      /\ db'.container \subseteq db.container \cup work[t].container
      /\ work'[t] = NoRows
      /\ \A u \in Txn \ {t} : work'[u] = work[u]
  BY <1>1, PublishRows
<1>3. \A u \in Txn : /\ work'[u].container \subseteq work[u].container
                     /\ work'[u].schema \subseteq work[u].schema
  BY <1>2 DEF NoRows
<1>4. \A c, d \in db'.container : c.id = d.id => c = d
  <2>1. db'.container = Overlay(db.container, work[t].container)
    BY DEF Publish, View, OverlayTables
  <2> QED
    BY <2>1 DEF Overlay, Ids, IInv, ContainersInv
<1>5. ServicesInv' /\ SchemasInv'
  BY <1>1, <1>2 DEF IInv, ServicesInv, SchemasInv
<1>6. ContainersInv'
  BY <1>1, <1>2, <1>3, <1>4 DEF IInv, ContainersInv
<1>7. ReferencesInv'
  <2>1. /\ \A s \in db'.schema : s.service \in Ids(db'.services)
        /\ \A c \in db'.container : /\ c.service \in Ids(db'.services)
                                    /\ c.schema \in Ids(db'.schema)
    BY <1>2 DEF IInv, ReferencesInv
  <2>2. \A u \in Txn :
          /\ \A s \in work'[u].schema :
               s.service \in Ids(db'.services) \cup Ids(work'[u].services)
          /\ \A c \in work'[u].container :
               /\ c.service \in Ids(db'.services) \cup Ids(work'[u].services)
               /\ c.schema \in Ids(db'.schema) \cup Ids(work'[u].schema)
    BY <1>2 DEF IInv, ReferencesInv, NoRows
  <2>3. \A c \in AllContainers', s \in AllSchemas' :
          s.id = c.schema => s.service = c.service
    BY <1>2 DEF IInv, ReferencesInv
  <2> QED
    BY <2>1, <2>2, <2>3 DEF ReferencesInv
<1> QED
  BY <1>5, <1>6, <1>7

\* A commit, with or without its answer, and a rollback end the transaction.
LEMMA EndInv ==
  ASSUME IInv, NEW t \in Txn,
         Commit(t) \/ CommitUnanswered(t) \/ Rollback(t)
  PROVE  IInv'
<1>1. TypeOK' /\ RequestInv' /\ TypeOK
  BY StepType DEF IInv, Step
<1>2. CASE Commit(t)
  <2>1. HandlerInv'
    BY <1>1, <1>2, EndHandler, PublishRows DEF Commit, Publish
  <2> QED
    BY <1>1, <1>2, <2>1, PublishInv DEF Commit, IInv
<1>3. CASE CommitUnanswered(t)
  <2>1. /\ AllSchemas' \subseteq AllSchemas
        /\ work'[t] = NoRows
        /\ \A u \in Txn \ {t} : work'[u] = work[u]
        /\ UNCHANGED <<nextId, local>>
    BY <1>1, <1>3, PublishRows DEF CommitUnanswered, Publish
  <2>2. \A u \in Txn : pc'[u] = IF u = t THEN "error" ELSE pc[u]
    BY <1>1, <1>3 DEF CommitUnanswered, Goto, TypeOK
  <2>3. HandlerInv'
    BY <2>1, <2>2 DEF IInv, HandlerInv
  <2> QED
    BY <1>1, <1>3, <2>3, PublishInv DEF CommitUnanswered, IInv
<1>4. CASE Rollback(t)
  <2>1. Answer(t, pc[t]) /\ UNCHANGED <<db, nextId>>
        /\ work' = [work EXCEPT ![t] = NoRows]
    BY <1>4 DEF Rollback
  <2>2. /\ AllServices' \subseteq AllServices
        /\ AllSchemas' \subseteq AllSchemas
        /\ AllContainers' \subseteq AllContainers
        /\ work'[t] = NoRows
        /\ \A u \in Txn \ {t} : work'[u] = work[u]
    BY <1>1, <2>1, DropRows
  <2>3. HandlerInv'
    BY <2>1, <2>2, EndHandler
  <2>4. \A u \in Txn : work'[u] = work[u] \/ work'[u] = NoRows
    BY <2>2
  <2>5. ServicesInv' /\ SchemasInv' /\ ContainersInv'
    BY <2>1, <2>2, <2>4
       DEF IInv, ServicesInv, SchemasInv, ContainersInv, NoRows
  <2>6. ReferencesInv'
    BY <2>1, <2>2, <2>4 DEF IInv, ReferencesInv, NoRows
  <2> QED
    BY <1>1, <2>3, <2>5, <2>6 DEF IInv
<1> QED
  BY <1>2, <1>3, <1>4

\* The cascade takes a service with every row that refers to it; the rows the
\* open transactions hold belong to other services.
LEMMA CascadeInv ==
  ASSUME IInv, NEW t \in Txn, Cascade(t)
  PROVE  IInv'
<1> DEFINE gone == local[t].service
<1>1. TypeOK' /\ RequestInv' /\ TypeOK
  BY StepType DEF IInv, Step, DeleteService
<1>2. /\ pc[t] = "cascade"
      /\ ~CascadeHeld(t, gone)
      /\ db' = Without(db, gone)
      /\ Answer(t, "cascade")
      /\ UNCHANGED <<work, nextId>>
  BY DEF Cascade, Answer, Goto
<1> HIDE DEF gone
<1>3. work[t] = NoRows
  BY <1>2 DEF IInv, HandlerInv
<1>4. \A u \in Txn :
        \A r \in work[u].schema \cup work[u].container : r.service # gone
  BY <1>2, <1>3 DEF CascadeHeld, Others, NoRows
<1>5. /\ db'.services = {s \in db.services : s.id # gone}
      /\ db'.schema = {s \in db.schema : s.service # gone}
      /\ db'.container = {c \in db.container : c.service # gone}
  BY <1>2 DEF Without
<1>6. /\ AllServices' \subseteq AllServices
      /\ AllSchemas' \subseteq AllSchemas
      /\ AllContainers' \subseteq AllContainers
  BY <1>2, <1>5 DEF AllServices, AllSchemas, AllContainers
<1>7. ServicesInv' /\ SchemasInv' /\ ContainersInv'
  BY <1>2, <1>5, <1>6 DEF IInv, ServicesInv, SchemasInv, ContainersInv
<1>8. \A i : i \in Ids(db.services) /\ i # gone => i \in Ids(db'.services)
  BY <1>5 DEF Ids
<1>9. \A u \in Txn : \A c \in db.container \cup work[u].container :
        c.service # gone /\ c.schema \in Ids(db.schema)
          => c.schema \in Ids(db'.schema)
  BY <1>5 DEF Ids, IInv, ReferencesInv, AllContainers, AllSchemas
<1>10. ReferencesInv'
  <2>1. /\ \A s \in db'.schema : s.service \in Ids(db'.services)
        /\ \A c \in db'.container : /\ c.service \in Ids(db'.services)
                                    /\ c.schema \in Ids(db'.schema)
    BY <1>5, <1>8, <1>9 DEF IInv, ReferencesInv
  <2>2. \A u \in Txn :
          /\ \A s \in work'[u].schema :
               s.service \in Ids(db'.services) \cup Ids(work'[u].services)
          /\ \A c \in work'[u].container :
               /\ c.service \in Ids(db'.services) \cup Ids(work'[u].services)
               /\ c.schema \in Ids(db'.schema) \cup Ids(work'[u].schema)
    BY <1>2, <1>4, <1>8, <1>9 DEF IInv, ReferencesInv
  <2>3. \A c \in AllContainers', s \in AllSchemas' :
          s.id = c.schema => s.service = c.service
    BY <1>6 DEF IInv, ReferencesInv
  <2> QED
    BY <2>1, <2>2, <2>3 DEF ReferencesInv
<1>11. HandlerInv'
  BY <1>2, <1>6, EndHandler
<1> QED
  BY <1>1, <1>7, <1>10, <1>11 DEF IInv

\* Taking the row of the service, or finding none, moves no row.
LEMMA LockInv ==
  ASSUME IInv, NEW t \in Txn, LockService(t)
  PROVE  IInv'
<1>1. TypeOK' /\ RequestInv' /\ TypeOK
  BY StepType DEF IInv, Step, DeleteService
<1>2. UNCHANGED <<db, work, nextId>> /\ AllSchemas' = AllSchemas
  BY DEF LockService, AllSchemas
<1>3. CASE Answer(t, "delete")
  <2>1. HandlerInv'
    BY <1>2, <1>3, EndHandler
  <2> QED
    BY <1>1, <1>2, <2>1, QuietInv
<1>4. CASE ~Answer(t, "delete")
  <2>1. PICK s \in db.services :
          /\ local' = [local EXCEPT ![t].service = s.id]
          /\ Goto(t, "delete", "cascade")
    BY <1>4 DEF LockService
  <2>2. /\ \A u \in Txn : local'[u].schema = local[u].schema
        /\ \A u \in Txn \ {t} : local'[u].service = local[u].service
        /\ \A u \in Txn : pc'[u] = IF u = t THEN "cascade" ELSE pc[u]
    BY <1>1, <2>1 DEF TypeOK, Local, Goto
  <2>3. work[t] = NoRows /\ local[t].schema = None
    BY <2>1 DEF IInv, HandlerInv, Goto
  <2>4. \A r \in AllSchemas : r.id # None
    <3>1. db.schema \in SUBSET SchemaRow /\ \A v \in Txn : work[v].schema \in SUBSET SchemaRow
      BY <1>1 DEF TypeOK, Tables
    <3> QED
      BY <3>1 DEF AllSchemas, SchemaRow, Id, None
  <2>5. HandlerInv'
    BY <1>2, <2>2, <2>3, <2>4 DEF IInv, HandlerInv
  <2> QED
    BY <1>1, <1>2, <2>5, QuietInv
<1> QED
  BY <1>3, <1>4

\* The invariant is inductive.
LEMMA NextInv == IInv /\ [Next]_vars => IInv'
<1> SUFFICES ASSUME IInv, [Next]_vars PROVE IInv'
  OBVIOUS
<1>1. CASE UNCHANGED vars
  BY <1>1 DEF vars, IInv, TypeOK, RequestInv, ServicesInv, SchemasInv,
              ContainersInv, ReferencesInv, HandlerInv, AllServices,
              AllSchemas, AllContainers
<1>2. ASSUME NEW t \in Txn, Begin(t) PROVE IInv'
  BY <1>2, BeginInv
<1>3. ASSUME NEW t \in Txn, Step(t) \/ Fail(t) \/ CommitUnanswered(t)
      PROVE  IInv'
  BY <1>3, ReadInv, ServiceWriteInv, SchemaUpdateInv, InsertSchemaInv,
     SwitchContainerInv, InsertContainerInv, EndInv, LockInv, CascadeInv, DeadlockFails
     DEF Step, WriteSchema, DeleteService
<1> QED
  BY <1>1, <1>2, <1>3 DEF Next, Finished

\* The invariant holds throughout (src/src/database/schema.ts, registerSchema):
\* whatever requests overlap, fail or are cut off.
THEOREM Invariance == Spec => []IInv
  BY InitInv, NextInv, PTL DEF Spec

\* Every variable keeps its type.
THEOREM TypeCorrectness == Spec => []TypeOK
<1>1. IInv => TypeOK
  BY DEF IInv
<1> QED
  BY <1>1, Invariance, PTL

\* Committed containers refer to a service and to a schema of that service.
THEOREM OwnSchemas == Spec => []ContainersOwnTheirSchema
<1>1. IInv => ContainersOwnTheirSchema
  BY DEF IInv, ReferencesInv, ContainersOwnTheirSchema, Ids, AllContainers,
         AllSchemas
<1> QED
  BY <1>1, Invariance, PTL

------------------------------------------------------------------------------
(* Versions, and the catalog they make up.                                 *)

\* The committed tables change by a commit or by a deletion only.
LEMMA DbSteps ==
  ASSUME IInv, [Next]_vars
  PROVE  \/ db' = db
         \/ \E t \in Txn : Publish(t)
         \/ \E t \in Txn : db' = Without(db, local[t].service)
<1>1. CASE UNCHANGED vars
  BY <1>1 DEF vars
<1>2. ASSUME NEW t \in Txn,
             Begin(t) \/ Step(t) \/ Fail(t) \/ CommitUnanswered(t)
      PROVE  \/ db' = db
             \/ Publish(t)
             \/ db' = Without(db, local[t].service)
  <2>1. CASE Begin(t) \/ GetService(t) \/ InsertService(t) \/ UpdateUrl(t)
             \/ FindSchema(t) \/ VersionExists(t) \/ WriteSchema(t)
    BY <2>1 DEF Begin, GetService, InsertService, UpdateUrl, FindSchema,
                VersionExists, WriteSchema, TouchSchema, InsertSchema, Throw
  <2>2. CASE FindContainer(t) \/ SwitchContainer(t) \/ InsertContainer(t)
             \/ ReadResult(t) \/ ReadExact(t) \/ Fallback(t) \/ Toggle(t) \/ ReadActive(t)
             \/ Validate(t) \/ Rollback(t) \/ Fail(t)
    BY <2>2 DEF FindContainer, SwitchContainer, InsertContainer, ReadResult, ReadExact,
                Fallback, Toggle, ReadActive, Validate, Rollback, Fail, Throw
  <2>3. CASE Commit(t) \/ CommitUnanswered(t) \/ DeleteService(t)
    BY <2>3 DEF Commit, CommitUnanswered, DeleteService, LockService, Cascade
  <2> QED
    BY <1>2, <2>1, <2>2, <2>3, DeadlockFails DEF Step
<1> QED
  BY <1>1, <1>2 DEF Next, Finished

\* What is committed next is a row version that exists already.
LEMMA DbRows ==
  ASSUME IInv, [Next]_vars
  PROVE  /\ db.schema \subseteq AllSchemas /\ db'.schema \subseteq AllSchemas
         /\ db.container \subseteq AllContainers
         /\ db'.container \subseteq AllContainers
<1>1. CASE db' = db
  BY <1>1 DEF AllSchemas, AllContainers
<1>2. ASSUME NEW t \in Txn, Publish(t)
      PROVE  /\ db'.schema \subseteq AllSchemas
             /\ db'.container \subseteq AllContainers
  BY <1>2, ViewFacts DEF Publish, AllSchemas, AllContainers
<1>3. ASSUME NEW t \in Txn, db' = Without(db, local[t].service)
      PROVE  /\ db'.schema \subseteq AllSchemas
             /\ db'.container \subseteq AllContainers
  BY <1>3 DEF Without, AllSchemas, AllContainers
<1> QED
  BY <1>1, <1>2, <1>3, DbSteps DEF AllSchemas, AllContainers

\* One step changes the definitions of no released version.
LEMMA VersionsStep ==
  ASSUME IInv, [Next]_vars, NEW p \in Catalog(db), NEW q \in Catalog(db'),
         p.service = q.service, p.version = q.version, p.version # Dev
  PROVE  p.def = q.def
<1>1. PICK c \in db.container, s \in db.schema :
        /\ s.id = c.schema
        /\ p = [service |-> c.service, version |-> c.version, def |-> s.def]
  BY DEF Catalog
<1>2. PICK d \in db'.container, r \in db'.schema :
        /\ r.id = d.schema
        /\ q = [service |-> d.service, version |-> d.version, def |-> r.def]
  BY DEF Catalog
<1>3. /\ c \in AllContainers /\ d \in AllContainers
      /\ s \in AllSchemas /\ r \in AllSchemas
  BY <1>1, <1>2, DbRows
<1>4. c.id = d.id /\ c.version # Dev
  BY <1>1, <1>2, <1>3 DEF IInv, ContainersInv
<1>5. s.id = r.id
  BY <1>1, <1>2, <1>3, <1>4 DEF IInv, ContainersInv
<1> QED
  BY <1>1, <1>2, <1>3, <1>5 DEF IInv, SchemasInv

\* A released version never changes its type definitions
\* (src/src/database/schema.ts, the version check of registerSchema and the
\* unique key it relies on).
THEOREM Immutability == Spec => VersionsImmutable
<1>1. IInv /\ [Next]_vars =>
        [\A p \in Catalog(db), q \in Catalog(db') :
           p.service = q.service /\ p.version = q.version /\ p.version # Dev
             => p.def = q.def]_vars
  BY VersionsStep
<1> QED
  BY <1>1, Invariance, PTL DEF Spec, VersionsImmutable

\* A commit leaves the catalog alone, or puts one binding in the place of what
\* its version stood for.
LEMMA PublishCatalog ==
  ASSUME IInv, IInv', [Next]_vars, NEW t \in Txn, Publish(t)
  PROVE  \/ Catalog(db') = Catalog(db)
         \/ \E c \in work[t].container : \E s \in db'.schema :
              /\ c \in db'.container /\ s.id = c.schema
              /\ Catalog(db')
                   = {q \in Catalog(db) : ~(/\ q.service = c.service
                                            /\ q.version = c.version)}
                     \cup {[service |-> c.service, version |-> c.version,
                            def |-> s.def]}
<1>1. /\ Ids(db.schema) \subseteq Ids(db'.schema)
      /\ db'.container = Overlay(db.container, work[t].container)
  BY ViewFacts DEF Publish, View, OverlayTables
<1>2. \A r \in db.schema \cup db'.schema, s \in db.schema \cup db'.schema :
        r.id = s.id => r.def = s.def
  BY DbRows DEF IInv, SchemasInv
<1>3. \A c \in db.container :
        /\ c.schema \in Ids(db.schema)
        /\ c.schema \in Ids(db'.schema)
  BY <1>1 DEF IInv, ReferencesInv
<1>4. \A d \in db.container, s \in db'.schema :
        s.id = d.schema
          => [service |-> d.service, version |-> d.version, def |-> s.def]
               \in Catalog(db)
  <2> SUFFICES ASSUME NEW d \in db.container, NEW s \in db'.schema,
                      s.id = d.schema
               PROVE  [service |-> d.service, version |-> d.version,
                       def |-> s.def] \in Catalog(db)
    OBVIOUS
  <2>1. PICK r \in db.schema : r.id = d.schema
    BY <1>3 DEF Ids
  <2>2. r.def = s.def
    BY <1>2, <2>1
  <2> DEFINE b == <<d, r>>
  <2>3. b \in {x \in db.container \X db.schema : x[2].id = x[1].schema}
    BY <2>1
  <2>4. b[1] = d /\ b[2] = r
    OBVIOUS
  <2> HIDE DEF b
  <2> QED
    BY <2>2, <2>3, <2>4 DEF Catalog
<1>5. \A q \in Catalog(db) :
        \E d \in db.container, s \in db'.schema :
          /\ s.id = d.schema
          /\ q = [service |-> d.service, version |-> d.version, def |-> s.def]
  <2> SUFFICES ASSUME NEW q \in Catalog(db)
               PROVE  \E d \in db.container, s \in db'.schema :
                        /\ s.id = d.schema
                        /\ q = [service |-> d.service, version |-> d.version,
                                def |-> s.def]
    OBVIOUS
  <2>1. PICK d \in db.container, r \in db.schema :
          /\ r.id = d.schema
          /\ q = [service |-> d.service, version |-> d.version, def |-> r.def]
    BY DEF Catalog
  <2>2. PICK s \in db'.schema : s.id = d.schema
    BY <1>3 DEF Ids
  <2> QED
    BY <1>2, <2>1, <2>2
<1>6. \A q : q \in Catalog(db') <=>
        \E d \in db'.container, s \in db'.schema :
          /\ s.id = d.schema
          /\ q = [service |-> d.service, version |-> d.version, def |-> s.def]
  <2>1. ASSUME NEW q \in Catalog(db')
        PROVE  \E d \in db'.container, s \in db'.schema :
                 /\ s.id = d.schema
                 /\ q = [service |-> d.service, version |-> d.version,
                         def |-> s.def]
    BY DEF Catalog
  <2>2. ASSUME NEW d \in db'.container, NEW s \in db'.schema,
               s.id = d.schema
        PROVE  [service |-> d.service, version |-> d.version, def |-> s.def]
                 \in Catalog(db')
    <3> DEFINE b == <<d, s>>
    <3>1. b \in {x \in db'.container \X db'.schema : x[2].id = x[1].schema}
      BY <2>2
    <3>2. b[1] = d /\ b[2] = s
      OBVIOUS
    <3> HIDE DEF b
    <3> QED
      BY <3>1, <3>2 DEF Catalog
  <2> QED
    BY <2>1, <2>2
<1>7. CASE work[t].container = {}
  <2>1. db'.container = db.container
    BY <1>1, <1>7 DEF Overlay, Ids
  <2> QED
    BY <1>4, <1>5, <1>6, <2>1
<1>8. CASE work[t].container # {}
  <2>1. PICK c \in work[t].container : TRUE
    BY <1>8
  <2>2. work[t].container = {c}
    BY <2>1 DEF IInv, ContainersInv
  <2>3. db'.container = {d \in db.container : d.id # c.id} \cup {c}
    BY <1>1, <2>2 DEF Overlay, Ids
  <2>4. PICK s \in db'.schema : s.id = c.schema
    BY <2>3 DEF IInv, ReferencesInv, Ids
  <2>5. \A d \in db.container :
          d.id = c.id <=> d.service = c.service /\ d.version = c.version
    BY <2>1 DEF IInv, ContainersInv, AllContainers
  <2> DEFINE p    == [service |-> c.service, version |-> c.version,
                      def |-> s.def]
             kept == {q \in Catalog(db) : ~(/\ q.service = c.service
                                            /\ q.version = c.version)}
  <2>6. \A q \in Catalog(db') : q \in kept \cup {p}
    <3> SUFFICES ASSUME NEW q \in Catalog(db') PROVE q \in kept \cup {p}
      OBVIOUS
    <3>1. PICK d \in db'.container, r \in db'.schema :
            /\ r.id = d.schema
            /\ q = [service |-> d.service, version |-> d.version,
                    def |-> r.def]
      BY <1>6
    <3>2. CASE d = c
      BY <1>2, <2>4, <3>1, <3>2
    <3>3. CASE d # c
      BY <1>4, <2>3, <2>5, <3>1, <3>3
    <3> QED
      BY <3>2, <3>3
  <2>7. \A q \in kept : q \in Catalog(db')
    BY <1>5, <1>6, <2>3, <2>5
  <2>8. p \in Catalog(db')
    BY <1>6, <2>3, <2>4
  <2>9. Catalog(db') = kept \cup {p}
    BY <2>6, <2>7, <2>8
  <2> QED
    BY <2>3, <2>4, <2>9
<1> QED
  BY <1>7, <1>8

\* A deletion withdraws one service from the catalog, or none.
LEMMA DeleteCatalog ==
  ASSUME IInv, NEW gone, db' = Without(db, gone)
  PROVE  \/ Catalog(db') = Catalog(db)
         \/ \E p \in Catalog(db) :
              Catalog(db') = {q \in Catalog(db) : q.service # p.service}
<1>1. /\ db'.schema = {s \in db.schema : s.service # gone}
      /\ db'.container = {c \in db.container : c.service # gone}
  BY DEF Without
<1>2. \A c \in db.container, s \in db.schema :
        s.id = c.schema => s.service = c.service
  BY DEF IInv, ReferencesInv, AllContainers, AllSchemas
<1>3. Catalog(db') = {q \in Catalog(db) : q.service # gone}
  <2>1. \A q \in Catalog(db') : q \in Catalog(db) /\ q.service # gone
    BY <1>1 DEF Catalog
  <2>2. ASSUME NEW q \in Catalog(db), q.service # gone
        PROVE  q \in Catalog(db')
    <3>1. PICK b \in {b \in db.container \X db.schema : b[2].id = b[1].schema} :
            q = [service |-> b[1].service, version |-> b[1].version,
                 def |-> b[2].def]
      BY DEF Catalog
    <3>2. b \in db'.container \X db'.schema
      BY <1>1, <1>2, <2>2, <3>1
    <3> QED
      BY <3>1, <3>2 DEF Catalog
  <2> QED
    BY <2>1, <2>2
<1>4. CASE \A q \in Catalog(db) : q.service # gone
  BY <1>3, <1>4
<1>5. CASE \E p \in Catalog(db) : p.service = gone
  BY <1>3, <1>5
<1> QED
  BY <1>4, <1>5

\* Every step is one of the catalog, or leaves it as it is.
LEMMA CatalogStep ==
  ASSUME IInv, IInv', [Next]_vars
  PROVE  [Promise!Next]_(Catalog(db))
<1> USE DEF Promise!Next, Promise!Register, Promise!Rebind, Promise!Withdraw,
            Promise!Of
<1>1. CASE db' = db
  BY <1>1
<1>2. ASSUME NEW t \in Txn, Publish(t)
      PROVE  [Promise!Next]_(Catalog(db))
  <2>1. CASE Catalog(db') = Catalog(db)
    BY <2>1
  <2>2. ASSUME NEW c \in work[t].container, NEW s \in db'.schema,
               c \in db'.container, s.id = c.schema,
               Catalog(db')
                 = {q \in Catalog(db) : ~(/\ q.service = c.service
                                          /\ q.version = c.version)}
                   \cup {[service |-> c.service, version |-> c.version,
                          def |-> s.def]}
        PROVE  [Promise!Next]_(Catalog(db))
    <3> DEFINE p == [service |-> c.service, version |-> c.version,
                     def |-> s.def]
    <3>1. c \in ContainerRow /\ s \in SchemaRow
      BY <2>2 DEF IInv, TypeOK, Tables
    <3>2. p \in Promise!Binding /\ p \in Catalog(db')
      BY <2>2, <3>1 DEF ContainerRow, SchemaRow, Promise!Binding
    <3>3. p.service = c.service /\ p.version = c.version /\ p.def = s.def
      OBVIOUS
    <3>4. Catalog(db') = {q \in Catalog(db) : ~(/\ q.service = p.service
                                               /\ q.version = p.version)}
                         \cup {p}
      BY <2>2
    <3> HIDE DEF p
    <3>5. CASE Promise!Of(p.service, p.version) = {}
      <4>1. Promise!Register(p)
        BY <3>4, <3>5
      <4> QED
        BY <3>2, <4>1
    <3>6. CASE Promise!Of(p.service, p.version) # {} /\ p.version = Dev
      <4>1. Promise!Rebind(p)
        BY <3>4, <3>6
      <4> QED
        BY <3>2, <4>1
    <3>7. CASE Promise!Of(p.service, p.version) # {} /\ p.version # Dev
      <4>1. \A q \in Promise!Of(p.service, p.version) : q.def = p.def
        BY <3>2, <3>7, VersionsStep
      <4>2. \A q \in Promise!Of(p.service, p.version) : q = p
        <5>1. \A q \in Catalog(db) :
                q = [service |-> q.service, version |-> q.version,
                     def |-> q.def]
          BY DEF Catalog
        <5>2. p = [service |-> p.service, version |-> p.version,
                   def |-> p.def]
          BY DEF p
        <5> QED
          BY <4>1, <5>1, <5>2
      <4>3. Catalog(db') = Catalog(db)
        BY <3>4, <3>7, <4>2
      <4> QED
        BY <4>3
    <3> QED
      BY <3>5, <3>6, <3>7
  <2> QED
    BY <1>2, <2>1, <2>2, PublishCatalog
<1>3. ASSUME NEW t \in Txn, db' = Without(db, local[t].service)
      PROVE  [Promise!Next]_(Catalog(db))
  BY <1>3, DeleteCatalog
<1> QED
  BY <1>1, <1>2, <1>3, DbSteps

\* The registry implements the catalog it promises
\* (src/src/controller/schema.ts, pushAndValidateSchema).
THEOREM Refinement == Spec => ImplementsCatalog
<1>1. Init => Promise!Init
  BY DEF Init, NoRows, Promise!Init, Catalog
<1>2. IInv /\ IInv' /\ [Next]_vars => [Promise!Next]_(Catalog(db))
  BY CatalogStep
<1> QED
  BY <1>1, <1>2, Invariance, PTL DEF Spec, ImplementsCatalog, Promise!Spec

------------------------------------------------------------------------------
(* What a push that gets through has registered.                           *)

Acts(t) == Begin(t) \/ Step(t) \/ Fail(t) \/ CommitUnanswered(t)

\* A step writes one table of its own transaction, publishes or drops what it
\* wrote, deletes, or moves no row.  What it writes has a new id or is a new
\* version of a row, of the same name or the same definition.
LEMMA StepKinds ==
  ASSUME IInv, NEW u \in Txn, Acts(u)
  PROVE  \/ UNCHANGED <<db, work, nextId>>
         \/ \E rows \in SUBSET ServiceRow :
              /\ work' = [work EXCEPT ![u].services = Overlay(@, rows)]
              /\ \A s \in rows :
                   \/ s.id = nextId.services
                   \/ \E r \in AllServices : r.id = s.id /\ r.name = s.name
              /\ db' = db
         \/ \E rows \in SUBSET SchemaRow :
              /\ work' = [work EXCEPT ![u].schema = Overlay(@, rows)]
              /\ \A s \in rows :
                   \/ s.id = nextId.schema
                   \/ \E r \in AllSchemas : r.id = s.id /\ r.def = s.def
              /\ db' = db
         \/ \E rows \in SUBSET ContainerRow :
              /\ work' = [work EXCEPT ![u].container = Overlay(@, rows)]
              /\ work[u].container = {}
              /\ db' = db
         \/ Publish(u)
         \/ db' = db /\ work' = [work EXCEPT ![u] = NoRows]
         \/ Cascade(u)
<1>1. TypeOK /\ RequestInv /\ View(u) \in Tables /\ local[u] \in Local
      /\ nextId.services \in Id /\ nextId.schema \in Id /\ nextId.container \in Id
  BY ViewType DEF IInv, TypeOK
<1>2. /\ View(u).services \subseteq AllServices /\ View(u).services \subseteq ServiceRow
      /\ View(u).schema \subseteq AllSchemas /\ View(u).schema \subseteq SchemaRow
      /\ View(u).container \subseteq ContainerRow
  BY <1>1, ViewFacts DEF AllServices, AllSchemas, Tables
<1>3. /\ pc[u] \in PushStatements => req[u] \in PushRequest
      /\ pc[u] = "toggle" => req[u] \in ToggleRequest
      /\ pc[u] \in {"switchContainer", "insertContainer"} => work[u].container = {}
  BY DEF IInv, RequestInv, HandlerInv
<1>4. CASE Begin(u) \/ GetService(u) \/ FindSchema(u) \/ VersionExists(u)
           \/ FindContainer(u) \/ ReadResult(u) \/ ReadExact(u) \/ Fallback(u)
           \/ ReadActive(u) \/ Validate(u) \/ Fail(u)
  BY <1>4 DEF Begin, GetService, FindSchema, VersionExists, FindContainer,
              ReadResult, ReadExact, Fallback, ReadActive, Validate, Fail, Throw
<1>5. CASE InsertService(u)
  <2>1. CASE Throw(u, "insertService", "constraint")
    BY <2>1 DEF Throw
  <2>2. CASE ~Throw(u, "insertService", "constraint")
    <3> DEFINE row == [id |-> nextId.services, name |-> req[u].name, url |-> req[u].url]
    <3>1. /\ work' = [work EXCEPT ![u].services = Overlay(@, {row})]
          /\ db' = db /\ pc[u] = "insertService"
      BY <1>5, <2>2 DEF InsertService, Goto
    <3>2. {row} \in SUBSET ServiceRow /\ \A s \in {row} : s.id = nextId.services
      BY <1>1, <1>3, <3>1 DEF ServiceRow, PushRequest, PushStatements
    <3> HIDE DEF row
    <3> QED
      BY <3>1, <3>2
  <2> QED
    BY <2>1, <2>2
<1>6. CASE UpdateUrl(u)
  <2> DEFINE rows == {[s EXCEPT !.url = req[u].url] :
                        s \in {s \in View(u).services : s.id = local[u].service}}
  <2>1. /\ work' = [work EXCEPT ![u].services = Overlay(@, rows)]
        /\ db' = db /\ pc[u] = "updateUrl"
    BY <1>6 DEF UpdateUrl
  <2>2. rows \in SUBSET ServiceRow
    BY <1>2, <1>3, <2>1 DEF ServiceRow, PushRequest, PushStatements
  <2>3. \A s \in rows : \E r \in AllServices : r.id = s.id /\ r.name = s.name
    BY <1>2 DEF ServiceRow
  <2> HIDE DEF rows
  <2> QED
    BY <2>1, <2>2, <2>3
<1>7. CASE TouchSchema(u)
  <2> DEFINE rows == {[s EXCEPT !.updated = local[u].time] :
                        s \in {s \in View(u).schema : s.id = local[u].schema}}
  <2>1. work' = [work EXCEPT ![u].schema = Overlay(@, rows)] /\ db' = db
    BY <1>7 DEF TouchSchema
  <2>2. rows \in SUBSET SchemaRow
    BY <1>1, <1>2 DEF SchemaRow, Local
  <2>3. \A s \in rows : \E r \in AllSchemas : r.id = s.id /\ r.def = s.def
    BY <1>2 DEF SchemaRow
  <2> HIDE DEF rows
  <2> QED
    BY <2>1, <2>2, <2>3
<1>8. CASE Toggle(u)
  <2> DEFINE rows == {[s EXCEPT !.active = req[u].active] :
                        s \in {s \in View(u).schema : s.id = req[u].schema}}
  <2>1. work' = [work EXCEPT ![u].schema = Overlay(@, rows)] /\ db' = db
        /\ pc[u] = "toggle"
    BY <1>8 DEF Toggle
  <2>2. rows \in SUBSET SchemaRow
    BY <1>2, <1>3, <2>1 DEF SchemaRow, ToggleRequest
  <2>3. \A s \in rows : \E r \in AllSchemas : r.id = s.id /\ r.def = s.def
    BY <1>2 DEF SchemaRow
  <2> HIDE DEF rows
  <2> QED
    BY <2>1, <2>2, <2>3
<1>9. CASE InsertSchema(u)
  <2>1. CASE Throw(u, "writeSchema", "constraint")
    BY <2>1 DEF Throw
  <2>2. CASE ~Throw(u, "writeSchema", "constraint")
    <3> DEFINE row == [id |-> nextId.schema, service |-> local[u].service,
                       def |-> req[u].def, active |-> TRUE,
                       added |-> local[u].time, updated |-> local[u].time]
    <3>1. /\ work' = [work EXCEPT ![u].schema = Overlay(@, {row})]
          /\ db' = db /\ pc[u] = "writeSchema"
          /\ local[u].service \in Ids(View(u).services)
      BY <1>9, <2>2 DEF InsertSchema, Goto
    <3>2. local[u].service \in Id
      BY <1>2, <3>1 DEF Ids, ServiceRow
    <3>3. {row} \in SUBSET SchemaRow /\ \A s \in {row} : s.id = nextId.schema
      BY <1>1, <1>3, <3>1, <3>2 DEF SchemaRow, PushRequest, PushStatements, Local
    <3> HIDE DEF row
    <3> QED
      BY <3>1, <3>3
  <2> QED
    BY <2>1, <2>2
<1>10. CASE SwitchContainer(u)
  <2>1. CASE Throw(u, "switchContainer", "constraint")
    BY <2>1 DEF Throw
  <2>2. CASE ~Throw(u, "switchContainer", "constraint")
    <3> DEFINE rows == {Rebound(c, local[u].schema) : c \in Bound(u)}
    <3>1. /\ work' = [work EXCEPT ![u].container = Overlay(@, rows)]
          /\ db' = db /\ pc[u] = "switchContainer"
          /\ local[u].schema \in Ids(View(u).schema) \/ Bound(u) = {}
      BY <1>10, <2>2 DEF SwitchContainer, Goto
    <3>2. Bound(u) # {} => local[u].schema \in Id
      BY <1>2, <3>1 DEF Ids, SchemaRow
    <3>3. rows \in SUBSET ContainerRow
      BY <1>2, <3>2 DEF Rebound, Bound, ContainerRow
    <3> HIDE DEF rows
    <3> QED
      BY <1>3, <3>1, <3>3
  <2> QED
    BY <2>1, <2>2
<1>11. CASE InsertContainer(u)
  <2>1. CASE Throw(u, "insertContainer", "constraint")
    BY <2>1 DEF Throw
  <2>2. CASE ~Throw(u, "insertContainer", "constraint")
    <3> DEFINE row == [id |-> nextId.container, service |-> local[u].service,
                       schema |-> local[u].schema, version |-> req[u].version,
                       added |-> local[u].time]
    <3>1. /\ work' = [work EXCEPT ![u].container = Overlay(@, {row})]
          /\ db' = db /\ pc[u] = "insertContainer"
          /\ local[u].service \in Ids(View(u).services)
          /\ local[u].schema \in Ids(View(u).schema)
      BY <1>11, <2>2 DEF InsertContainer, Goto
    <3>2. local[u].service \in Id /\ local[u].schema \in Id
      BY <1>2, <3>1 DEF Ids, ServiceRow, SchemaRow
    <3>3. {row} \in SUBSET ContainerRow
      BY <1>1, <1>3, <3>1, <3>2 DEF ContainerRow, PushRequest, PushStatements, Local
    <3> HIDE DEF row
    <3> QED
      BY <1>3, <3>1, <3>3
  <2> QED
    BY <2>1, <2>2
<1>12. CASE Commit(u) \/ CommitUnanswered(u) \/ Rollback(u) \/ DeleteService(u)
  BY <1>12 DEF Commit, CommitUnanswered, Rollback, DeleteService, LockService
<1> QED
  BY <1>4, <1>5, <1>6, <1>7, <1>8, <1>9, <1>10, <1>11, <1>12, DeadlockFails
     DEF Acts, Step, WriteSchema

\* The rows of a service or a schema keep its name or its definition, and those
\* of a new one have a new id.
LEMMA RowsKeep ==
  ASSUME IInv, NEW u \in Txn, Acts(u)
  PROVE  /\ \A s \in AllServices' :
              \/ s.id = nextId.services
              \/ \E r \in AllServices : r.id = s.id /\ r.name = s.name
         /\ \A s \in AllSchemas' :
              \/ s.id = nextId.schema
              \/ \E r \in AllSchemas : r.id = s.id /\ r.def = s.def
         /\ AllContainers' \subseteq AllContainers \cup work'[u].container
<1>1. TypeOK
  BY DEF IInv
<1>2. CASE UNCHANGED <<db, work, nextId>>
  BY <1>2 DEF AllServices, AllSchemas, AllContainers
<1>3. ASSUME NEW rows \in SUBSET ServiceRow, db' = db,
             work' = [work EXCEPT ![u].services = Overlay(@, rows)],
             \A s \in rows : \/ s.id = nextId.services
                             \/ \E r \in AllServices : r.id = s.id /\ r.name = s.name
      PROVE  /\ \A s \in AllServices' :
                  \/ s.id = nextId.services
                  \/ \E r \in AllServices : r.id = s.id /\ r.name = s.name
             /\ AllSchemas' = AllSchemas /\ AllContainers' = AllContainers
  BY <1>1, <1>3, WriteServices
<1>4. ASSUME NEW rows \in SUBSET SchemaRow, db' = db,
             work' = [work EXCEPT ![u].schema = Overlay(@, rows)],
             \A s \in rows : \/ s.id = nextId.schema
                             \/ \E r \in AllSchemas : r.id = s.id /\ r.def = s.def
      PROVE  /\ \A s \in AllSchemas' :
                  \/ s.id = nextId.schema
                  \/ \E r \in AllSchemas : r.id = s.id /\ r.def = s.def
             /\ AllServices' = AllServices /\ AllContainers' = AllContainers
  BY <1>1, <1>4, WriteSchemas
<1>5. ASSUME NEW rows \in SUBSET ContainerRow, db' = db,
             work' = [work EXCEPT ![u].container = Overlay(@, rows)],
             work[u].container = {}
      PROVE  /\ AllContainers' \subseteq AllContainers \cup work'[u].container
             /\ AllServices' = AllServices /\ AllSchemas' = AllSchemas
  <2>1. /\ AllContainers' = AllContainers \cup rows
        /\ work'[u].container = rows
        /\ AllServices' = AllServices /\ AllSchemas' = AllSchemas
    BY <1>1, <1>5, WriteContainers
  <2> QED
    BY <2>1
<1>6. CASE Publish(u) \/ (db' = db /\ work' = [work EXCEPT ![u] = NoRows])
  BY <1>1, <1>6, PublishRows, DropRows
<1>7. CASE Cascade(u)
  BY <1>7 DEF Cascade, Without, AllServices, AllSchemas, AllContainers
<1> QED
  BY <1>2, <1>3, <1>4, <1>5, <1>6, <1>7, StepKinds

\* A step of one request leaves the handler and the rows of another alone, and
\* the sequences never go back.
LEMMA Bystander ==
  ASSUME IInv, NEW u \in Txn, Acts(u), NEW t \in Txn \ {u}
  PROVE  /\ pc'[t] = pc[t] /\ req'[t] = req[t] /\ local'[t] = local[t]
         /\ work'[t] = work[t]
         /\ nextId'.services >= nextId.services
<1>1. TypeOK
  BY DEF IInv
<1>2. pc'[t] = pc[t] /\ req'[t] = req[t]
  <2>1. CASE Begin(u) \/ GetService(u) \/ InsertService(u) \/ UpdateUrl(u)
             \/ FindSchema(u) \/ VersionExists(u) \/ WriteSchema(u)
    BY <1>1, <2>1 DEF Begin, GetService, InsertService, UpdateUrl, FindSchema,
                      VersionExists, WriteSchema, TouchSchema, InsertSchema, Throw, Goto, TypeOK
  <2>2. CASE FindContainer(u) \/ SwitchContainer(u) \/ InsertContainer(u)
             \/ ReadResult(u) \/ ReadExact(u) \/ Fallback(u) \/ Toggle(u) \/ ReadActive(u)
             \/ Validate(u) \/ Fail(u)
    BY <1>1, <2>2 DEF FindContainer, SwitchContainer, InsertContainer, ReadResult, ReadExact,
                      Fallback, Toggle, ReadActive, Validate, Fail, Throw, Goto, TypeOK
  <2>3. CASE Commit(u) \/ CommitUnanswered(u) \/ Rollback(u) \/ DeleteService(u)
    BY <1>1, <2>3 DEF Commit, CommitUnanswered, Rollback, DeleteService, LockService, Cascade,
       Answer, Goto, TypeOK
  <2> QED
    BY <2>1, <2>2, <2>3, DeadlockFails DEF Acts, Step
<1>3. local'[t] = local[t]
  <2>1. CASE Begin(u) \/ GetService(u) \/ InsertService(u) \/ UpdateUrl(u)
             \/ FindSchema(u) \/ VersionExists(u) \/ WriteSchema(u)
    BY <1>1, <2>1 DEF Begin, GetService, InsertService, UpdateUrl, FindSchema,
                      VersionExists, WriteSchema, TouchSchema, InsertSchema, Throw, TypeOK
  <2>2. CASE FindContainer(u) \/ SwitchContainer(u) \/ InsertContainer(u)
             \/ ReadResult(u) \/ ReadExact(u) \/ Fallback(u) \/ Toggle(u) \/ ReadActive(u)
             \/ Validate(u) \/ Fail(u)
    BY <1>1, <2>2 DEF FindContainer, SwitchContainer, InsertContainer, ReadResult, ReadExact,
                      Fallback, Toggle, ReadActive, Validate, Fail, Throw, TypeOK
  <2>3. CASE Commit(u) \/ CommitUnanswered(u) \/ Rollback(u) \/ DeleteService(u)
    BY <1>1, <2>3 DEF Commit, CommitUnanswered, Rollback, DeleteService, LockService, Cascade,
       Answer, TypeOK
  <2> QED
    BY <2>1, <2>2, <2>3, DeadlockFails DEF Acts, Step
<1>4. work'[t] = work[t]
  BY <1>1, StepKinds, PublishRows, DropRows DEF TypeOK, Cascade
<1>5. nextId'.services >= nextId.services
  <2>0. nextId \in [services: Nat, schema: Nat, container: Nat]
    BY <1>1 DEF TypeOK, Id
  <2>1. CASE Begin(u) \/ GetService(u) \/ InsertService(u) \/ UpdateUrl(u)
             \/ FindSchema(u) \/ VersionExists(u) \/ WriteSchema(u)
    BY <2>0, <2>1 DEF Begin, GetService, InsertService, UpdateUrl, FindSchema,
                      VersionExists, WriteSchema, TouchSchema, InsertSchema, Throw
  <2>2. CASE FindContainer(u) \/ SwitchContainer(u) \/ InsertContainer(u)
             \/ ReadResult(u) \/ ReadExact(u) \/ Fallback(u) \/ Toggle(u) \/ ReadActive(u)
             \/ Validate(u) \/ Fail(u)
    BY <2>0, <2>2 DEF FindContainer, SwitchContainer, InsertContainer, ReadResult, ReadExact,
                      Fallback, Toggle, ReadActive, Validate, Fail, Throw
  <2>3. CASE Commit(u) \/ CommitUnanswered(u) \/ Rollback(u) \/ DeleteService(u)
    BY <2>0, <2>3 DEF Commit, CommitUnanswered, Rollback, DeleteService, LockService, Cascade,
       Publish
  <2> QED
    BY <2>1, <2>2, <2>3, DeadlockFails DEF Acts, Step
<1> QED
  BY <1>2, <1>3, <1>4, <1>5

\* The row of a new schema.
NewSchema(t) ==
  [id |-> nextId.schema, service |-> local[t].service, def |-> req[t].def, active |-> TRUE,
   added |-> local[t].time, updated |-> local[t].time]

\* The end of a transaction, or a deletion.
Ends(t) == Commit(t) \/ CommitUnanswered(t) \/ Rollback(t) \/ Cascade(t)

\* Until it ends, a request writes one table of its own at a time.
LEMMA OneTable ==
  ASSUME IInv, NEW u \in Txn, Acts(u), ~Ends(u)
  PROVE  /\ db' = db
         /\ \/ UNCHANGED work
            \/ /\ InsertService(u) \/ UpdateUrl(u)
               /\ \E X : work' = [work EXCEPT ![u].services = X]
            \/ /\ TouchSchema(u) \/ InsertSchema(u) \/ Toggle(u)
               /\ \E X : work' = [work EXCEPT ![u].schema = X]
            \/ /\ SwitchContainer(u) \/ InsertContainer(u)
               /\ \E X : work' = [work EXCEPT ![u].container = X]
<1>1. CASE \/ Begin(u) \/ GetService(u) \/ FindSchema(u) \/ VersionExists(u)
           \/ FindContainer(u) \/ ReadResult(u) \/ ReadExact(u) \/ Fallback(u)
           \/ ReadActive(u) \/ Validate(u) \/ Fail(u) \/ LockService(u)
  BY <1>1 DEF Begin, GetService, FindSchema, VersionExists, FindContainer,
              ReadResult, ReadExact, Fallback, ReadActive, Validate, Fail, Throw,
              LockService
<1>2. CASE InsertService(u)
  <2> DEFINE X == Overlay(work[u].services, {[id |-> nextId.services, name |-> req[u].name,
                                               url |-> req[u].url]})
  <2>1. db' = db /\ (work' = [work EXCEPT ![u].services = X] \/ UNCHANGED work)
    BY <1>2 DEF InsertService, Throw
  <2> HIDE DEF X
  <2> QED
    BY <1>2, <2>1
<1>3. CASE UpdateUrl(u)
  <2> DEFINE X == Overlay(work[u].services, {[s EXCEPT !.url = req[u].url] :
                    s \in {s \in View(u).services : s.id = local[u].service}})
  <2>1. db' = db /\ work' = [work EXCEPT ![u].services = X]
    BY <1>3 DEF UpdateUrl
  <2> HIDE DEF X
  <2> QED
    BY <1>3, <2>1
<1>4. CASE TouchSchema(u)
  <2> DEFINE X == Overlay(work[u].schema, {[s EXCEPT !.updated = local[u].time] :
                    s \in {s \in View(u).schema : s.id = local[u].schema}})
  <2>1. db' = db /\ work' = [work EXCEPT ![u].schema = X]
    BY <1>4 DEF TouchSchema
  <2> HIDE DEF X
  <2> QED
    BY <1>4, <2>1
<1>5. CASE Toggle(u)
  <2> DEFINE X == Overlay(work[u].schema, {[s EXCEPT !.active = req[u].active] :
                    s \in {s \in View(u).schema : s.id = req[u].schema}})
  <2>1. db' = db /\ work' = [work EXCEPT ![u].schema = X]
    BY <1>5 DEF Toggle
  <2> HIDE DEF X
  <2> QED
    BY <1>5, <2>1
<1>6. CASE InsertSchema(u)
  <2> DEFINE X == Overlay(work[u].schema, {NewSchema(u)})
  <2>1. db' = db /\ (work' = [work EXCEPT ![u].schema = X] \/ UNCHANGED work)
    BY <1>6 DEF InsertSchema, Throw, NewSchema
  <2> HIDE DEF X
  <2> QED
    BY <1>6, <2>1
<1>7. CASE SwitchContainer(u)
  <2> DEFINE X == Overlay(work[u].container, {Rebound(c, local[u].schema) : c \in Bound(u)})
  <2>1. db' = db /\ (work' = [work EXCEPT ![u].container = X] \/ UNCHANGED work)
    BY <1>7 DEF SwitchContainer, Throw
  <2> HIDE DEF X
  <2> QED
    BY <1>7, <2>1
<1>8. CASE InsertContainer(u)
  <2> DEFINE X == Overlay(work[u].container,
                    {[id |-> nextId.container, service |-> local[u].service,
                      schema |-> local[u].schema, version |-> req[u].version,
                      added |-> local[u].time]})
  <2>1. db' = db /\ (work' = [work EXCEPT ![u].container = X] \/ UNCHANGED work)
    BY <1>8 DEF InsertContainer, Throw
  <2> HIDE DEF X
  <2> QED
    BY <1>8, <2>1
<1> QED
  BY <1>1, <1>2, <1>3, <1>4, <1>5, <1>6, <1>7, <1>8, DeadlockFails DEF Acts, Step,
     DeleteService, WriteSchema, Ends

\* A statement that writes one table leaves the others alone.
LEMMA OtherTables ==
  ASSUME IInv, NEW u \in Txn, Acts(u), ~Ends(u), NEW t \in Txn
  PROVE  /\ ~InsertService(u) /\ ~UpdateUrl(u) => work'[t].services = work[t].services
         /\ ~TouchSchema(u) /\ ~InsertSchema(u) /\ ~Toggle(u) => work'[t].schema = work[t].schema
         /\ ~SwitchContainer(u) /\ ~InsertContainer(u) => work'[t].container = work[t].container
<1>1. work \in [Txn -> Tables]
  BY DEF IInv, TypeOK
<1>2. ASSUME NEW X, work' = [work EXCEPT ![u].services = X]
      PROVE  work'[t].schema = work[t].schema /\ work'[t].container = work[t].container
  BY <1>1, <1>2 DEF Tables
<1>3. ASSUME NEW X, work' = [work EXCEPT ![u].schema = X]
      PROVE  work'[t].services = work[t].services /\ work'[t].container = work[t].container
  BY <1>1, <1>3 DEF Tables
<1>4. ASSUME NEW X, work' = [work EXCEPT ![u].container = X]
      PROVE  work'[t].services = work[t].services /\ work'[t].schema = work[t].schema
  BY <1>1, <1>4 DEF Tables
<1> QED
  BY <1>2, <1>3, <1>4, OneTable

\* The services a request writes are its own, new, or of nobody else.
LEMMA ServicesWritten ==
  ASSUME IInv, NEW u \in Txn, Acts(u), NEW s \in work'[u].services
  PROVE  \/ s.id \in Ids(work[u].services)
         \/ s.id = nextId.services
         \/ ~ServiceHeld(u, s.id)
<1>1. TypeOK
  BY DEF IInv
<1>2. CASE InsertService(u)
  <2> DEFINE row == [id |-> nextId.services, name |-> req[u].name, url |-> req[u].url]
  <2>1. \/ work' = work
        \/ work' = [work EXCEPT ![u].services = Overlay(@, {row})]
    BY <1>2 DEF InsertService, Throw
  <2>2. row.id = nextId.services
    OBVIOUS
  <2> HIDE DEF row
  <2> QED
    BY <1>1, <2>1, <2>2 DEF TypeOK, Tables, Overlay, Ids
<1>3. CASE UpdateUrl(u)
  <2> DEFINE rows == {[r EXCEPT !.url = req[u].url] :
                        r \in {r \in View(u).services : r.id = local[u].service}}
  <2>1. /\ work' = [work EXCEPT ![u].services = Overlay(@, rows)]
        /\ ~ServiceHeld(u, local[u].service)
    BY <1>3 DEF UpdateUrl
  <2>2. \A r \in rows : r.id = local[u].service
    BY <1>1, ViewType DEF Tables, ServiceRow
  <2> HIDE DEF rows
  <2> QED
    BY <1>1, <2>1, <2>2 DEF TypeOK, Tables, Overlay, Ids
<1>4. CASE ~InsertService(u) /\ ~UpdateUrl(u) /\ ~Ends(u)
  BY <1>4, OtherTables DEF Ids
<1>5. CASE Ends(u)
  BY <1>1, <1>5 DEF Ends, Commit, CommitUnanswered, Rollback, Publish, DeleteService,
     LockService, Cascade, TypeOK, NoRows, Ids
<1> QED
  BY <1>2, <1>3, <1>4, <1>5

\* What a DELETE has taken stays its own until it is answered.
LEMMA TakenStep == IInv /\ IInv' /\ TakenInv /\ [Next]_vars => TakenInv'
<1> SUFFICES ASSUME IInv, IInv', TakenInv, [Next]_vars, NEW t \in Txn
             PROVE  /\ pc'[t] \in {"idle", "delete"} => local'[t].service = None
                    /\ req'[t].kind = "delete" =>
                         /\ local'[t].service < nextId'.services
                         /\ \A s \in AllServices' :
                              s.id = local'[t].service => s.name = req'[t].name
                         /\ \A v \in Others(t) :
                              local'[t].service \notin Ids(work'[v].services)
  BY DEF TakenInv, Others
<1>1. /\ TypeOK /\ TypeOK' /\ RequestInv
      /\ nextId.services \in Nat \ {0} /\ nextId'.services \in Nat
      /\ local[t] \in Local
  BY DEF IInv, TypeOK, Id, None
<1>2. CASE UNCHANGED vars
  <2>1. AllServices' = AllServices
    BY <1>2 DEF vars, AllServices
  <2> QED
    BY <1>2, <2>1 DEF vars, TakenInv
<1>3. ASSUME NEW u \in Txn \ {t}, Acts(u)
      PROVE  /\ pc'[t] \in {"idle", "delete"} => local'[t].service = None
             /\ req'[t].kind = "delete" =>
                  /\ local'[t].service < nextId'.services
                  /\ \A s \in AllServices' :
                       s.id = local'[t].service => s.name = req'[t].name
                  /\ \A v \in Others(t) :
                       local'[t].service \notin Ids(work'[v].services)
  <2>1. /\ pc'[t] = pc[t] /\ req'[t] = req[t] /\ local'[t] = local[t]
        /\ nextId'.services >= nextId.services
        /\ \A v \in Txn \ {u} : work'[v] = work[v]
    BY <1>3, Bystander
  <2>2. SUFFICES ASSUME req[t].kind = "delete"
                 PROVE  /\ local[t].service < nextId'.services
                        /\ \A s \in AllServices' :
                             s.id = local[t].service => s.name = req[t].name
                        /\ \A v \in Others(t) :
                             local[t].service \notin Ids(work'[v].services)
    BY <2>1 DEF TakenInv
  <2>3. /\ local[t].service < nextId.services /\ local[t].service \in Nat
        /\ \A s \in AllServices : s.id = local[t].service => s.name = req[t].name
        /\ \A v \in Others(t) : local[t].service \notin Ids(work[v].services)
    BY <1>1, <2>2 DEF TakenInv, Local
  <2>4. local[t].service < nextId'.services
    BY <1>1, <2>1, <2>3
  <2>5. \A s \in AllServices' : s.id = local[t].service => s.name = req[t].name
    BY <1>1, <1>3, <2>3, RowsKeep
  <2>6. ASSUME NEW v \in Others(t), NEW s \in work'[v].services, s.id = local[t].service
        PROVE  FALSE
    <3>1. CASE v # u
      BY <2>1, <2>3, <2>6, <3>1 DEF Others, Ids
    <3>2. CASE v = u
      <4>1. ServiceHeld(u, s.id)
        BY <1>3, <2>2, <2>6 DEF ServiceHeld, ServiceGoing, Others
      <4> QED
        BY <1>1, <1>3, <2>3, <2>6, <3>2, <4>1, ServicesWritten
    <3> QED
      BY <3>1, <3>2
  <2> QED
    BY <2>4, <2>5, <2>6 DEF Ids
<1>4. ASSUME Acts(t)
      PROVE  /\ pc'[t] \in {"idle", "delete"} => local'[t].service = None
             /\ req'[t].kind = "delete" =>
                  /\ local'[t].service < nextId'.services
                  /\ \A s \in AllServices' :
                       s.id = local'[t].service => s.name = req'[t].name
                  /\ \A v \in Others(t) :
                       local'[t].service \notin Ids(work'[v].services)
  <2>1. \A v \in Others(t) : work'[v] = work[v]
    BY <1>4, Bystander DEF Others
  <2>2. /\ \A s \in AllServices : s.id \in Nat \ {0} /\ s.id < nextId.services
        /\ \A s, r \in AllServices : s.id = r.id => s.name = r.name
    <3>1. db.services \in SUBSET ServiceRow /\ \A v \in Txn : work[v].services \in SUBSET ServiceRow
      BY <1>1 DEF TypeOK, Tables
    <3>2. AllServices \subseteq ServiceRow
      BY <3>1 DEF AllServices
    <3> QED
      BY <3>2 DEF IInv, ServicesInv, ServiceRow, Id, None
  <2>3. CASE Begin(t)
    <3>1. pc[t] = "idle" /\ UNCHANGED <<db, work, nextId>>
          /\ local'[t].service = local[t].service
      BY <1>1, <2>3 DEF Begin, Goto, TypeOK, Local
    <3>2. local'[t].service = 0
      BY <3>1 DEF TakenInv, None
    <3>3. AllServices' = AllServices
      BY <3>1 DEF AllServices
    <3> QED
      BY <1>1, <2>2, <3>1, <3>2, <3>3 DEF None, Ids, AllServices, Others
  <2>4. CASE LockService(t)
    <3>1. CASE Answer(t, "delete")
      BY <1>1, <3>1 DEF Answer, Goto, NoRequest, TypeOK
    <3>2. CASE ~Answer(t, "delete")
      <4>1. PICK s \in db.services :
              /\ s.name = req[t].name /\ ~ServiceHeld(t, s.id)
              /\ local' = [local EXCEPT ![t].service = s.id]
              /\ Goto(t, "delete", "cascade")
              /\ UNCHANGED <<db, work, nextId, req>>
        BY <2>4, <3>2 DEF LockService
      <4>2. local'[t].service = s.id /\ pc'[t] = "cascade" /\ s \in AllServices
            /\ AllServices' = AllServices
        BY <1>1, <4>1 DEF Goto, TypeOK, Local, AllServices
      <4> QED
        BY <2>2, <4>1, <4>2 DEF ServiceHeld
    <3> QED
      BY <3>1, <3>2
  <2>5. CASE Commit(t) \/ Cascade(t) \/ Rollback(t)
    BY <1>1, <2>5 DEF Commit, Cascade, Rollback, Answer, Goto, NoRequest, TypeOK
  <2>6. CASE pc[t] \in PushStatements \cup {"toggle"} /\ ~Begin(t)
    <3>1. req[t].kind # "delete"
      BY <1>1, <2>6 DEF RequestInv, PushRequest, ToggleRequest
    <3>2. req' = req /\ pc'[t] \notin {"idle", "delete"}
      <4>1. CASE \/ GetService(t) \/ InsertService(t) \/ UpdateUrl(t)
                 \/ FindSchema(t) \/ VersionExists(t) \/ WriteSchema(t)
        BY <1>1, <4>1 DEF GetService, InsertService, UpdateUrl, FindSchema, VersionExists,
             WriteSchema, TouchSchema, InsertSchema, Throw, Goto, TypeOK
      <4>2. CASE FindContainer(t) \/ SwitchContainer(t) \/ InsertContainer(t)
                 \/ ReadResult(t) \/ ReadExact(t) \/ Fallback(t) \/ Toggle(t)
                 \/ ReadActive(t) \/ Validate(t) \/ Fail(t)
        BY <1>1, <4>2 DEF FindContainer, SwitchContainer, InsertContainer, ReadResult,
             ReadExact, Fallback, Toggle, ReadActive, Validate, Fail, Throw, Goto, TypeOK
      <4>3. ~Ends(t) /\ ~LockService(t)
        BY <2>6 DEF Ends, Commit, CommitUnanswered, Rollback, DeleteService, LockService,
             Cascade, Answer, Goto, PushStatements, Refusals
      <4> QED
        BY <1>4, <2>6, <4>1, <4>2, <4>3, DeadlockFails DEF Acts, Step, DeleteService, Ends
    <3> QED
      BY <3>1, <3>2
  <2>7. CASE /\ ReadActive(t) \/ Validate(t) \/ Fail(t) \/ CommitUnanswered(t)
             /\ pc[t] \notin PushStatements \cup {"toggle"}
    <3>1. /\ req' = req /\ pc'[t] \notin {"idle", "delete"} /\ nextId' = nextId
          /\ local'[t].service = local[t].service
      BY <1>1, <2>7 DEF ReadActive, Validate, Fail, CommitUnanswered, Publish, Throw, Goto,
         TypeOK, Local
    <3>2. AllServices' \subseteq AllServices
      <4>1. CASE UNCHANGED <<db, work>>
        BY <4>1 DEF AllServices
      <4>2. CASE Publish(t)
        BY <1>1, <4>2, PublishRows
      <4> QED
        BY <2>7, <4>1, <4>2
           DEF ReadActive, Validate, Fail, CommitUnanswered, Throw
    <3> QED
      BY <2>1, <3>1, <3>2 DEF TakenInv
  <2>8. CASE ~Begin(t) /\ pc[t] \notin PushStatements \cup {"toggle"}
    <3>1. /\ ~GetService(t) /\ ~InsertService(t) /\ ~UpdateUrl(t) /\ ~FindSchema(t)
          /\ ~VersionExists(t) /\ ~WriteSchema(t) /\ ~FindContainer(t)
          /\ ~SwitchContainer(t) /\ ~InsertContainer(t) /\ ~ReadResult(t)
          /\ ~ReadExact(t) /\ ~Fallback(t) /\ ~Toggle(t)
      BY <2>8 DEF GetService, InsertService, UpdateUrl, FindSchema, VersionExists,
         WriteSchema, TouchSchema, InsertSchema, FindContainer, SwitchContainer,
         InsertContainer, ReadResult, ReadExact, Fallback, Toggle, Throw, Goto,
         PushStatements
    <3> QED
      BY <1>4, <2>4, <2>5, <2>7, <2>8, <3>1, DeadlockFails DEF Acts, Step, DeleteService
  <2> QED
    BY <2>3, <2>6, <2>8
<1> QED
  BY <1>2, <1>3, <1>4 DEF Next, Acts, Finished

\* A DELETE keeps the row it has taken to itself (src/src/database/services.ts,
\* deleteService).
LEMMA TakenInvariance == Spec => []TakenInv
<1>1. Init => TakenInv
  BY DEF Init, TakenInv, NoLocal, NoRequest
<1>2. IInv /\ IInv' /\ TakenInv /\ [Next]_vars => TakenInv'
  BY TakenStep
<1> QED
  BY <1>1, <1>2, Invariance, PTL DEF Spec

\* A committed row leaves the tables only with its service, which then is gone
\* for good and of which no other transaction has a row, or for a newer version.
LEMMA CommittedStay ==
  ASSUME IInv, TakenInv, NEW u \in Txn, Acts(u), NEW t \in Txn \ {u}
  PROVE  /\ \A i \in Ids(db.services) :
              \/ i \in Ids(db'.services)
              \/ /\ i \notin Ids(AllServices')
                 /\ \A r \in work[t].schema : r.service # i
         /\ \A s \in db.schema :
              s.id \in Ids(db'.schema) \/ s.service \notin Ids(AllServices')
         /\ \A c \in db.container :
              \/ c.service \notin Ids(AllServices')
              \/ \E d \in db'.container :
                   d.id = c.id /\ (d = c \/ d \in work[u].container)
<1>1. TypeOK
  BY DEF IInv
<1>2. CASE db' = db
  BY <1>2 DEF Ids
<1>3. CASE Publish(u)
  <2>1. /\ Ids(db'.services) = Ids(db.services) \cup Ids(work[u].services)
        /\ Ids(db'.schema) = Ids(db.schema) \cup Ids(work[u].schema)
    BY <1>1, <1>3, PublishRows
  <2>2. db'.container = Overlay(db.container, work[u].container)
    BY <1>3 DEF Publish, View, OverlayTables
  <2> QED
    BY <2>1, <2>2 DEF Overlay, Ids
<1>4. CASE Cascade(u)
  <2> DEFINE i == local[u].service
  <2>1. /\ pc[u] = "cascade" /\ ~CascadeHeld(u, i)
        /\ db' = Without(db, i)
        /\ work' = work
    BY <1>4 DEF Cascade, Answer, Goto
  <2>2. work[u] = NoRows /\ req[u].kind = "delete"
    BY <2>1 DEF IInv, HandlerInv, RequestInv, DeleteRequest
  <2> HIDE DEF i
  <2>3. \A v \in Txn : /\ i \notin Ids(work[v].services)
                     /\ \A r \in work[v].schema : r.service # i
    BY <2>1, <2>2 DEF TakenInv, CascadeHeld, Others, NoRows, Ids, i
  <2>4. i \notin Ids(AllServices')
    BY <2>1, <2>3 DEF Without, AllServices, Ids
  <2> QED
    BY <2>1, <2>3, <2>4 DEF Without, Ids
<1> QED
  BY <1>2, <1>3, <1>4, StepKinds

\* The steps of other requests do not disturb what a push has found or made,
\* but for a deletion of its service, which fails it.
LEMMA OthersKeepPush ==
  ASSUME IInv, IInv', TakenInv, NEW u \in Txn, Acts(u), NEW t \in Txn \ {u},
         PushServiceInv(t), PushSchemaInv(t), PushContainerInv(t), PushAnswerInv(t)
  PROVE  PushServiceInv(t)' /\ PushSchemaInv(t)' /\ PushContainerInv(t)' /\ PushAnswerInv(t)'
<1> DEFINE service == local[t].service
           schema  == local[t].schema
<1>1. /\ pc'[t] = pc[t] /\ req'[t] = req[t] /\ local'[t] = local[t]
      /\ work'[t] = work[t]
      /\ nextId'.services >= nextId.services
      /\ nextId.services \in Nat /\ nextId'.services \in Nat
      /\ local[t] \in Local
  BY Bystander DEF IInv, TypeOK, Id
<1>2. /\ Ids(db.services) \subseteq Ids(AllServices)
      /\ \A v \in Txn : Ids(work[v].services) \subseteq Ids(AllServices)
      /\ Ids(db'.services) \subseteq Ids(AllServices')
      /\ Ids(work'[t].services) \subseteq Ids(AllServices')
  BY DEF AllServices, Ids
<1>3. ASSUME pc[t] \in AfterService, service \in Ids(AllServices')
      PROVE  /\ service \in Ids(AllServices)
             /\ ServiceSeen(t) /\ ServiceSeen(t)'
  <2>1. service < nextId.services /\ service \in Nat
    BY <1>1, <1>3 DEF PushServiceInv, Local
  <2>2. service \in Ids(AllServices)
    BY <1>1, <1>3, <2>1, RowsKeep DEF Ids
  <2>3. ServiceSeen(t)
    BY <1>3, <2>2 DEF PushServiceInv
  <2>4. ServiceSeen(t)'
    BY <1>1, <1>3, <2>3, CommittedStay DEF ServiceSeen
  <2> QED
    BY <2>2, <2>3, <2>4
<1>4. PushServiceInv(t)'
  <2> SUFFICES ASSUME pc[t] \in AfterService
               PROVE  /\ service < nextId'.services
                      /\ \A s \in AllServices' : s.id = service => s.name = req[t].name
                      /\ service \in Ids(AllServices') => ServiceSeen(t)'
    BY <1>1 DEF PushServiceInv
  <2>1. service < nextId.services /\ service \in Nat
    BY <1>1 DEF PushServiceInv, Local
  <2>2. \A s \in AllServices' : s.id = service => s.name = req[t].name
    BY <1>1, <2>1, RowsKeep DEF PushServiceInv
  <2> QED
    BY <1>1, <1>3, <2>1, <2>2
<1>5. ServiceSeen(t)' => service \in Ids(AllServices')
  BY <1>1, <1>2 DEF ServiceSeen
<1>6. PushSchemaInv(t)'
  <2>1. pc[t] \in AfterService => \A s \in AllSchemas' : s.id = schema => s.def = req[t].def
    <3>1. schema < nextId.schema /\ schema \in Nat /\ nextId.schema \in Nat
      BY <1>1 DEF IInv, HandlerInv, TypeOK, Id, Local
    <3> QED
      BY <3>1, RowsKeep DEF PushSchemaInv
  <2>2. ASSUME pc[t] \in {"versionExists", "writeSchema"}, schema # None, ServiceSeen(t)'
        PROVE  schema \in Ids(db'.schema) \cup Ids(work[t].schema)
    <3>1. ServiceSeen(t) /\ service \in Ids(AllServices')
      BY <1>3, <1>5, <2>2 DEF AfterService
    <3>2. schema \in Ids(db.schema) \cup Ids(work[t].schema)
      BY <2>2, <3>1 DEF PushSchemaInv
    <3>3. \A s \in db.schema : s.id = schema => s.service = service
      BY DEF IInv, HandlerInv, AllSchemas
    <3> QED
      BY <3>1, <3>2, <3>3, CommittedStay DEF Ids
  <2>3. ASSUME pc[t] \in AfterSchema, ServiceSeen(t)'
        PROVE  schema \in Ids(work[t].schema)
    BY <1>3, <1>5, <2>3 DEF PushSchemaInv, AfterService
  <2> QED
    BY <1>1, <2>1, <2>2, <2>3 DEF PushSchemaInv
<1>7. ASSUME pc[t] \in AfterSchema, ServiceSeen(t)
      PROVE  ServiceSeen(t)' /\ service \in Ids(AllServices')
  <2>1. \E r \in work[t].schema : r.service = service
    <3>1. PICK r \in work[t].schema : r.id = schema
      BY <1>7 DEF PushSchemaInv, Ids
    <3> QED
      BY <3>1 DEF IInv, HandlerInv, AllSchemas
  <2>2. ServiceSeen(t)'
    BY <1>1, <1>7, <2>1, CommittedStay DEF ServiceSeen
  <2> QED
    BY <1>5, <2>2
<1>8. ASSUME NEW c \in Bound(t), service \in Ids(AllServices')
      PROVE  \E d \in Bound(t)' : /\ req[t].version # Dev => d.schema = c.schema
                                  /\ c \in work[t].container => d = c
  <2>1. /\ View(t).container = Overlay(db.container, work[t].container)
        /\ View(t)'.container = Overlay(db'.container, work[t].container)
    BY <1>1 DEF View, OverlayTables
  <2>2. c.service = service /\ c.version = req[t].version
    BY DEF Bound
  <2>3. CASE c \in work[t].container
    <3>1. c \in Bound(t)'
      BY <1>1, <2>1, <2>2, <2>3 DEF Bound, Overlay
    <3> QED
      BY <3>1
  <2>4. CASE c \notin work[t].container
    <3>1. c \in db.container /\ c.id \notin Ids(work[t].container)
      BY <2>1, <2>4 DEF Overlay, Bound
    <3>2. PICK d \in db'.container : d.id = c.id /\ (d = c \/ d \in work[u].container)
      BY <1>8, <2>2, <3>1, CommittedStay
    <3>3. d \in AllContainers /\ c \in AllContainers
      BY <3>1, <3>2 DEF AllContainers
    <3>4. /\ d.service = service /\ d.version = req[t].version
          /\ req[t].version # Dev => d.schema = c.schema
      BY <2>2, <3>2, <3>3 DEF IInv, ContainersInv
    <3>5. d \in Bound(t)'
      BY <1>1, <2>1, <3>1, <3>2, <3>4 DEF Bound, Overlay
    <3> QED
      BY <2>4, <3>4, <3>5
  <2> QED
    BY <2>3, <2>4
<1>9. PushContainerInv(t)'
  <2>1. ASSUME pc[t] = "switchContainer"
        PROVE  ServiceSeen(t)' /\ Bound(t)' # {}
    <3>1. ServiceSeen(t) /\ Bound(t) # {} /\ pc[t] \in AfterSchema
      BY <2>1 DEF PushContainerInv, AfterSchema
    <3> QED
      BY <1>7, <1>8, <3>1
  <2>2. ASSUME pc[t] \in AfterContainer
        PROVE  /\ ServiceSeen(t)'
               /\ \E d \in Bound(t)' : /\ d.schema = schema
                                       /\ req[t].version = Dev => d \in work[t].container
    <3>1. PICK c \in Bound(t) : /\ c.schema = schema
                                /\ req[t].version = Dev => c \in work[t].container
      BY <2>2 DEF PushContainerInv
    <3>2. ServiceSeen(t) /\ pc[t] \in AfterSchema
      BY <2>2 DEF PushContainerInv, AfterSchema
    <3> QED
      BY <1>7, <1>8, <3>1, <3>2
  <2> QED
    BY <1>1, <2>1, <2>2 DEF PushContainerInv
<1>10. PushAnswerInv(t)'
  BY <1>1 DEF PushAnswerInv
<1> QED
  BY <1>4, <1>6, <1>9, <1>10

\* A push that does not go on from a service has nothing to keep.
LEMMA OutsidePush ==
  ASSUME NEW t \in Txn, pc'[t] \notin AfterService
  PROVE  PushServiceInv(t)' /\ PushSchemaInv(t)' /\ PushContainerInv(t)' /\ PushAnswerInv(t)'
  BY DEF PushServiceInv, PushSchemaInv, PushContainerInv, PushAnswerInv,
         AfterService, AfterSchema, AfterContainer, Answered

\* Finding, making or updating the service.
LEMMA ServiceStepPush ==
  ASSUME IInv, IInv', NEW t \in Txn, req[t].kind = "push", req' = req,
         GetService(t) \/ InsertService(t) \/ UpdateUrl(t),
         PushServiceInv(t), pc'[t] \in AfterService
  PROVE  PushServiceInv(t)' /\ PushSchemaInv(t)' /\ PushContainerInv(t)' /\ PushAnswerInv(t)'
<1>1. TypeOK /\ local \in [Txn -> Local] /\ nextId.services \in Nat
      /\ pc \in [Txn -> Statements \cup Refusals \cup {"idle", "done"}]
  BY DEF IInv, TypeOK, Id
<1>2. /\ pc[t] \in {"getService", "insertService", "updateUrl"}
      /\ pc'[t] \in {"updateUrl", "findSchema"}
  BY <1>1 DEF GetService, InsertService, UpdateUrl, Goto, Throw, AfterService, AfterSchema,
              AfterContainer, Answered
<1>3. local[t].schema = None /\ local'[t].schema = None
  BY <1>2 DEF IInv, HandlerInv
<1>4. PushSchemaInv(t)'
  <2>1. \A s \in AllSchemas' : s.id # None
    BY DEF IInv, TypeOK, AllSchemas, Tables, SchemaRow, Id
  <2> QED
    BY <1>2, <1>3, <2>1 DEF PushSchemaInv, AfterSchema, AfterContainer, Answered
<1>5. PushContainerInv(t)' /\ PushAnswerInv(t)'
  BY <1>2 DEF PushContainerInv, PushAnswerInv, AfterContainer, Answered
<1>6. PushServiceInv(t)'
  <2>1. CASE GetService(t)
    <3>1. UNCHANGED <<db, work, nextId>>
      BY <2>1 DEF GetService
    <3>2. PICK s \in View(t).services :
            s.name = req[t].name /\ local' = [local EXCEPT ![t].service = s.id]
      BY <1>1, <1>2, <2>1 DEF GetService, Goto
    <3>3. local'[t].service = s.id
      BY <1>1, <3>2 DEF Local
    <3>4. s \in AllServices /\ s.id \in Ids(db.services) \cup Ids(work[t].services)
      BY ViewFacts DEF AllServices, Ids
    <3>5. AllServices' = AllServices
      BY <3>1 DEF AllServices
    <3> QED
      BY <3>1, <3>2, <3>3, <3>4, <3>5 DEF IInv, ServicesInv, PushServiceInv, ServiceSeen
  <2>2. CASE InsertService(t)
    <3> DEFINE row == [id |-> nextId.services, name |-> req[t].name, url |-> req[t].url]
    <3>1. /\ work' = [work EXCEPT ![t].services = Overlay(@, {row})]
          /\ nextId' = [nextId EXCEPT !.services = @ + 1]
          /\ local' = [local EXCEPT ![t].service = nextId.services]
          /\ db' = db
      BY <1>1, <1>2, <2>2 DEF InsertService, Throw, Goto
    <3>2. {row} \in SUBSET ServiceRow
      BY <1>1, <2>2 DEF InsertService, Goto, Throw, IInv, RequestInv, TypeOK, ServiceRow,
                        PushRequest, PushStatements
    <3>3. row.id = nextId.services /\ row.name = req[t].name
      OBVIOUS
    <3> HIDE DEF row
    <3>4. /\ AllServices' \subseteq AllServices \cup {row}
          /\ Ids(work'[t].services) = Ids(work[t].services) \cup Ids({row})
      BY <1>1, <3>1, <3>2, WriteServices
    <3>5. nextId.services \in Ids(work'[t].services)
      BY <3>3, <3>4 DEF Ids
    <3>6. local'[t].service = nextId.services /\ nextId'.services = nextId.services + 1
      BY <1>1, <3>1 DEF Local, TypeOK
    <3>7. \A s \in AllServices : s.id # nextId.services
      BY <1>1 DEF IInv, ServicesInv
    <3> QED
      BY <1>1, <3>3, <3>4, <3>5, <3>6, <3>7 DEF PushServiceInv, ServiceSeen
  <2>3. CASE UpdateUrl(t)
    <3> DEFINE rows == {[s EXCEPT !.url = req[t].url] :
                          s \in {s \in View(t).services : s.id = local[t].service}}
    <3>1. /\ work' = [work EXCEPT ![t].services = Overlay(@, rows)]
          /\ UNCHANGED <<db, nextId, local>> /\ pc[t] = "updateUrl"
      BY <2>3 DEF UpdateUrl
    <3>2. View(t).services \subseteq ServiceRow /\ req[t] \in PushRequest
      BY <1>1, <3>1, ViewType DEF Tables, IInv, RequestInv, PushStatements
    <3>3. rows \in SUBSET ServiceRow
      BY <3>2 DEF ServiceRow, PushRequest
    <3> HIDE DEF rows
    <3>10. Ids(work'[t].services) = Ids(work[t].services) \cup Ids(rows)
      BY <1>1, <3>1, <3>3, WriteServices
    <3>4. Ids(work[t].services) \subseteq Ids(work'[t].services)
      BY <3>10
    <3>5. local[t].service < nextId.services /\ local[t].service \in Nat
      BY <1>1, <3>1 DEF PushServiceInv, AfterService, Local
    <3>6. \A s \in AllServices' : s.id = local[t].service =>
            \E r \in AllServices : r.id = s.id /\ r.name = s.name
      BY <1>1, <2>3, <3>5, RowsKeep, DeadlockFails DEF Acts, Step
    <3>7. \A s \in AllServices : s.id = local[t].service => s.name = req[t].name
      BY <3>1 DEF PushServiceInv, AfterService
    <3>8. local[t].service \in Ids(AllServices') => local[t].service \in Ids(AllServices)
      BY <3>6 DEF Ids
    <3>9. local[t].service \in Ids(AllServices) =>
            local[t].service \in Ids(db.services) \cup Ids(work[t].services)
      BY <3>1 DEF PushServiceInv, AfterService, ServiceSeen
    <3> QED
      BY <3>1, <3>4, <3>5, <3>6, <3>7, <3>8, <3>9 DEF PushServiceInv, ServiceSeen
  <2> QED
    BY <2>1, <2>2, <2>3
<1> QED
  BY <1>4, <1>5, <1>6

\* Finding, making or updating the schema.
LEMMA SchemaStepPush ==
  ASSUME IInv, IInv', NEW t \in Txn, req[t].kind = "push", req' = req,
         FindSchema(t) \/ VersionExists(t) \/ WriteSchema(t),
         PushServiceInv(t), PushSchemaInv(t), pc'[t] \in AfterService
  PROVE  PushServiceInv(t)' /\ PushSchemaInv(t)' /\ PushContainerInv(t)' /\ PushAnswerInv(t)'
<1>1. TypeOK /\ local \in [Txn -> Local] /\ nextId.schema \in Nat /\ local[t] \in Local
      /\ pc \in [Txn -> Statements \cup Refusals \cup {"idle", "done"}]
  BY DEF IInv, TypeOK, Id
<1>2. /\ pc[t] \in {"findSchema", "versionExists", "writeSchema"}
      /\ pc'[t] \in {"versionExists", "writeSchema", "findContainer"}
  BY <1>1 DEF FindSchema, VersionExists, WriteSchema, TouchSchema, InsertSchema, Goto, Throw,
              AfterService, AfterSchema, AfterContainer, Answered
<1>3. local'[t].service = local[t].service /\ nextId'.services = nextId.services
  BY <1>1 DEF FindSchema, VersionExists, WriteSchema, TouchSchema, InsertSchema, Throw,
              Local, TypeOK
<1>4. CASE FindSchema(t) \/ VersionExists(t)
  <2>1. UNCHANGED <<db, work, nextId>>
    BY <1>4 DEF FindSchema, VersionExists, Throw
  <2>2. AllServices' = AllServices /\ AllSchemas' = AllSchemas
    BY <2>1 DEF AllServices, AllSchemas
  <2>3. PushServiceInv(t)'
    BY <1>2, <1>3, <2>1, <2>2 DEF PushServiceInv, ServiceSeen, AfterService, AfterSchema
  <2>4. CASE FindSchema(t)
    <3>1. CASE local' = local
      <4>1. local[t].schema = None
        BY <2>4 DEF IInv, HandlerInv, FindSchema
      <4>2. \A s \in AllSchemas : s.id # None
        BY <1>1 DEF TypeOK, AllSchemas, Tables, SchemaRow, Id
      <4>3. pc'[t] \in {"versionExists", "writeSchema"}
        BY <1>1, <2>4 DEF FindSchema, Goto
      <4> QED
        BY <2>2, <2>3, <3>1, <4>1, <4>2, <4>3
           DEF PushSchemaInv, PushContainerInv, PushAnswerInv, AfterSchema, AfterContainer,
              Answered
    <3>2. ASSUME NEW s \in FindExisting(t), local' = [local EXCEPT ![t].schema = s.id],
                 Goto(t, "findSchema", "writeSchema")
          PROVE  /\ PushSchemaInv(t)' /\ PushContainerInv(t)' /\ PushAnswerInv(t)'
      <4>1. local'[t].schema = s.id /\ pc'[t] = "writeSchema"
        BY <1>1, <3>2 DEF Local, Goto
      <4>2. /\ s \in View(t).schema /\ s.def = req[t].def
            /\ s \in AllSchemas /\ s.id \in Ids(db.schema) \cup Ids(work[t].schema)
        BY <3>2, ViewFacts DEF FindExisting, AllSchemas, Ids
      <4>3. \A r \in AllSchemas : r.id = s.id => r.def = s.def
        BY <4>2 DEF IInv, SchemasInv
      <4> QED
        BY <2>1, <2>2, <4>1, <4>2, <4>3
           DEF PushSchemaInv, PushContainerInv, PushAnswerInv, AfterSchema, AfterContainer,
              Answered
    <3> QED
      BY <2>3, <2>4, <3>1, <3>2 DEF FindSchema
  <2>5. CASE VersionExists(t)
    <3>1. local' = local /\ pc[t] = "versionExists" /\ pc'[t] = "writeSchema"
      BY <1>1, <1>2, <2>5 DEF VersionExists, Throw, Goto
    <3> QED
      BY <2>1, <2>2, <2>3, <3>1
         DEF PushSchemaInv, PushContainerInv, PushAnswerInv, ServiceSeen, AfterService,
             AfterSchema, AfterContainer, Answered
  <2> QED
    BY <1>4, <2>4, <2>5
<1>5. ASSUME NEW rows \in SUBSET SchemaRow, db' = db, pc'[t] = "findContainer",
             work' = [work EXCEPT ![t].schema = Overlay(@, rows)],
             \A s \in AllSchemas \cup rows : s.id = local'[t].schema => s.def = req[t].def,
             ServiceSeen(t) => local'[t].schema \in Ids(rows)
      PROVE  PushServiceInv(t)' /\ PushSchemaInv(t)' /\ PushContainerInv(t)' /\ PushAnswerInv(t)'
  <2>1. /\ AllSchemas' \subseteq AllSchemas \cup rows
        /\ AllServices' = AllServices
        /\ Ids(work'[t].schema) = Ids(work[t].schema) \cup Ids(rows)
        /\ work'[t].services = work[t].services
    BY <1>1, <1>5, WriteSchemas
  <2>2. ServiceSeen(t)' <=> ServiceSeen(t)
    BY <1>3, <1>5, <2>1 DEF ServiceSeen
  <2>3. PushServiceInv(t)'
    BY <1>2, <1>3, <2>1, <2>2 DEF PushServiceInv, AfterService, AfterSchema
  <2>4. \A s \in AllSchemas' : s.id = local'[t].schema => s.def = req[t].def
    BY <1>5, <2>1
  <2>5. PushSchemaInv(t)'
    BY <1>5, <2>1, <2>2, <2>4 DEF PushSchemaInv
  <2> QED
    BY <1>5, <2>3, <2>5 DEF PushContainerInv, PushAnswerInv, AfterContainer, Answered
<1>6. CASE TouchSchema(t)
  <2> DEFINE rows == {[s EXCEPT !.updated = local[t].time] :
                        s \in {s \in View(t).schema : s.id = local[t].schema}}
  <2>1. /\ work' = [work EXCEPT ![t].schema = Overlay(@, rows)] /\ db' = db
        /\ local' = local /\ pc'[t] = "findContainer"
        /\ pc[t] = "writeSchema" /\ local[t].schema # None
    BY <1>1, <1>6 DEF TouchSchema, Goto
  <2>2. View(t).schema \subseteq SchemaRow /\ View(t).schema \subseteq AllSchemas
    BY <1>1, ViewType, ViewFacts DEF Tables, AllSchemas
  <2>3. rows \in SUBSET SchemaRow
    BY <1>1, <2>2 DEF SchemaRow, Local
  <2>4. \A s \in rows : \E r \in AllSchemas : r.id = s.id /\ r.def = s.def
    BY <2>2 DEF SchemaRow
  <2>5. \A s \in AllSchemas : s.id = local[t].schema => s.def = req[t].def
    BY <2>1 DEF PushSchemaInv, AfterService
  <2>6. ASSUME ServiceSeen(t) PROVE local[t].schema \in Ids(rows)
    <3>1. local[t].schema \in Ids(View(t).schema)
      BY <2>1, <2>6, ViewFacts DEF PushSchemaInv
    <3>2. PICK s \in View(t).schema : s.id = local[t].schema
      BY <3>1 DEF Ids
    <3>3. [s EXCEPT !.updated = local[t].time] \in rows
      BY <3>2
    <3>4. [s EXCEPT !.updated = local[t].time].id = local[t].schema
      BY <2>2, <3>2 DEF SchemaRow
    <3> QED
      BY <3>3, <3>4 DEF Ids
  <2> HIDE DEF rows
  <2>7. \A s \in AllSchemas \cup rows : s.id = local'[t].schema => s.def = req[t].def
    BY <2>1, <2>4, <2>5
  <2> QED
    BY <1>5, <2>1, <2>3, <2>6, <2>7
<1>7. CASE InsertSchema(t)
  <2> DEFINE row == [id |-> nextId.schema, service |-> local[t].service,
                     def |-> req[t].def, active |-> TRUE,
                     added |-> local[t].time, updated |-> local[t].time]
  <2>1. /\ work' = [work EXCEPT ![t].schema = Overlay(@, {row})]
        /\ db' = db /\ pc'[t] = "findContainer" /\ pc[t] = "writeSchema"
        /\ local[t].service \in Ids(View(t).services)
        /\ local' = [local EXCEPT ![t].schema = nextId.schema]
    BY <1>1, <1>2, <1>7 DEF InsertSchema, Throw, Goto
  <2>2. local[t].service \in Id /\ nextId.schema \in Id /\ req[t] \in PushRequest
    BY <1>1, <2>1, ViewType DEF Ids, Tables, ServiceRow, IInv, TypeOK, RequestInv, PushStatements
  <2>3. {row} \in SUBSET SchemaRow
    BY <1>1, <2>2 DEF SchemaRow, PushRequest, Local
  <2>4. row.id = nextId.schema /\ row.def = req[t].def /\ local'[t].schema = nextId.schema
    BY <1>1, <2>1 DEF Local
  <2> HIDE DEF row
  <2>5. \A s \in AllSchemas : s.id # nextId.schema
    BY <1>1 DEF IInv, SchemasInv
  <2>6. local'[t].schema \in Ids({row})
    BY <2>4 DEF Ids
  <2> QED
    BY <1>5, <2>1, <2>3, <2>4, <2>5, <2>6
<1> QED
  BY <1>4, <1>6, <1>7 DEF WriteSchema

\* Finding, making or rebinding the container.
LEMMA ContainerStepPush ==
  ASSUME IInv, IInv', NEW t \in Txn, req[t].kind = "push", req' = req,
         FindContainer(t) \/ SwitchContainer(t) \/ InsertContainer(t),
         PushServiceInv(t), PushSchemaInv(t), PushContainerInv(t), pc'[t] \in AfterService
  PROVE  PushServiceInv(t)' /\ PushSchemaInv(t)' /\ PushContainerInv(t)' /\ PushAnswerInv(t)'
<1>1. TypeOK /\ local \in [Txn -> Local] /\ local[t] \in Local /\ db \in Tables
      /\ pc \in [Txn -> Statements \cup Refusals \cup {"idle", "done"}]
  BY DEF IInv, TypeOK
<1>2. /\ pc[t] \in {"findContainer", "switchContainer", "insertContainer"}
      /\ pc'[t] \in {"switchContainer", "insertContainer", "readResult"}
  BY <1>1 DEF FindContainer, SwitchContainer, InsertContainer, Goto, Throw,
              AfterService, AfterSchema, AfterContainer, Answered
<1>3. /\ local'[t].service = local[t].service /\ local'[t].schema = local[t].schema
      /\ nextId'.services = nextId.services
      /\ db' = db
  BY <1>1 DEF FindContainer, SwitchContainer, InsertContainer, Throw, Local, TypeOK
<1>4. ASSUME AllServices' = AllServices, AllSchemas' = AllSchemas,
             work'[t].services = work[t].services, work'[t].schema = work[t].schema
      PROVE  PushServiceInv(t)' /\ PushSchemaInv(t)' /\ (ServiceSeen(t)' <=> ServiceSeen(t))
  <2>1. ServiceSeen(t)' <=> ServiceSeen(t)
    BY <1>3, <1>4 DEF ServiceSeen
  <2>2. pc[t] \in AfterSchema /\ pc[t] \in AfterService
    BY <1>2 DEF AfterSchema, AfterService, AfterContainer
  <2>3. PushServiceInv(t)'
    BY <1>3, <1>4, <2>1, <2>2 DEF PushServiceInv
  <2>4. PushSchemaInv(t)'
    BY <1>2, <1>3, <1>4, <2>1, <2>2 DEF PushSchemaInv
  <2> QED
    BY <2>1, <2>3, <2>4
<1>5. PushAnswerInv(t)'
  BY <1>2 DEF PushAnswerInv, Answered
<1>6. CASE FindContainer(t)
  <2>1. UNCHANGED <<db, work>>
    BY <1>6 DEF FindContainer
  <2>2. AllServices' = AllServices /\ AllSchemas' = AllSchemas
    BY <2>1 DEF AllServices, AllSchemas
  <2>3. Bound(t)' = Bound(t)
    BY <1>3, <2>1 DEF Bound, View
  <2>4. \A c \in Bound(t) : ServiceSeen(t)
    <3>1. \A c \in View(t).container : c.service \in Ids(db.services) \cup Ids(work[t].services)
      BY ViewFacts DEF IInv, ReferencesInv
    <3> QED
      BY <3>1 DEF Bound, ServiceSeen
  <2>5. CASE pc'[t] = "insertContainer"
    BY <1>4, <1>5, <2>1, <2>2, <2>5 DEF PushContainerInv, AfterContainer, Answered
  <2>6. CASE pc'[t] # "insertContainer"
    <3>1. PICK c \in Bound(t) :
             /\ IsDev(req[t].version) \/ c.schema = local[t].schema
             /\ pc'[t] = IF IsDev(req[t].version) THEN "switchContainer" ELSE "readResult"
      BY <1>1, <1>6, <2>6 DEF FindContainer, Goto
    <3>2. PushContainerInv(t)'
      BY <1>3, <1>4, <2>1, <2>2, <2>3, <2>4, <3>1
         DEF PushContainerInv, AfterContainer, Answered, IsDev
    <3> QED
      BY <1>4, <1>5, <2>1, <2>2, <3>2
  <2> QED
    BY <2>5, <2>6
<1>7. ASSUME NEW rows \in SUBSET ContainerRow, pc'[t] = "readResult", ServiceSeen(t),
             work' = [work EXCEPT ![t].container = Overlay(@, rows)],
             NEW c \in rows, c.service = local[t].service, c.version = req[t].version,
             c.schema = local[t].schema
      PROVE  PushServiceInv(t)' /\ PushSchemaInv(t)' /\ PushContainerInv(t)' /\ PushAnswerInv(t)'
  <2>1. work[t].container = {}
    BY <1>2 DEF IInv, HandlerInv
  <2>2. /\ AllServices' = AllServices /\ AllSchemas' = AllSchemas
        /\ work'[t].container = rows
        /\ work'[t].services = work[t].services /\ work'[t].schema = work[t].schema
    BY <1>1, <1>3, <1>7, <2>1, WriteContainers
  <2>3. c \in View(t)'.container
    BY <1>7, <2>2 DEF View, OverlayTables, Overlay
  <2>4. c \in Bound(t)'
    BY <1>3, <1>7, <2>3 DEF Bound
  <2>5. PushContainerInv(t)'
    BY <1>3, <1>4, <1>7, <2>2, <2>4 DEF PushContainerInv
  <2> QED
    BY <1>4, <1>5, <2>2, <2>5
<1>8. CASE SwitchContainer(t)
  <2> DEFINE rows == {Rebound(c, local[t].schema) : c \in Bound(t)}
  <2>1. /\ work' = [work EXCEPT ![t].container = Overlay(@, rows)]
        /\ pc'[t] = "readResult" /\ pc[t] = "switchContainer"
        /\ local[t].schema \in Ids(View(t).schema) \/ Bound(t) = {}
    BY <1>1, <1>2, <1>8 DEF SwitchContainer, Throw, Goto
  <2>2. ServiceSeen(t) /\ Bound(t) # {}
    BY <2>1 DEF PushContainerInv
  <2>3. PICK c \in Bound(t) : TRUE
    BY <2>2
  <2>4. View(t).container \subseteq ContainerRow /\ local[t].schema \in Id
    BY <1>1, <2>1, <2>2, ViewType DEF Tables, Ids, SchemaRow
  <2>5. rows \in SUBSET ContainerRow
    BY <2>4 DEF Rebound, Bound, ContainerRow
  <2>6. Rebound(c, local[t].schema) \in rows
    BY <2>3
  <2>7. LET d == Rebound(c, local[t].schema)
        IN  d.service = local[t].service /\ d.version = req[t].version /\ d.schema = local[t].schema
    BY <2>3, <2>4 DEF Rebound, Bound, ContainerRow
  <2> HIDE DEF rows
  <2> QED
    BY <1>7, <2>1, <2>2, <2>5, <2>6, <2>7
<1>9. CASE InsertContainer(t)
  <2> DEFINE row == [id |-> nextId.container, service |-> local[t].service,
                     schema |-> local[t].schema, version |-> req[t].version,
                     added |-> local[t].time]
  <2>1. /\ work' = [work EXCEPT ![t].container = Overlay(@, {row})]
        /\ pc'[t] = "readResult" /\ pc[t] = "insertContainer"
        /\ local[t].service \in Ids(View(t).services)
        /\ local[t].schema \in Ids(View(t).schema)
    BY <1>1, <1>2, <1>9 DEF InsertContainer, Throw, Goto
  <2>2. /\ local[t].service \in Id /\ local[t].schema \in Id
        /\ nextId.container \in Id /\ req[t] \in PushRequest
    BY <1>1, <2>1, ViewType DEF Ids, Tables, ServiceRow, SchemaRow, IInv, TypeOK, RequestInv,
                                PushStatements
  <2>3. {row} \in SUBSET ContainerRow
    BY <1>1, <2>2 DEF ContainerRow, PushRequest, Local
  <2>4. ServiceSeen(t)
    BY <2>1, ViewFacts DEF ServiceSeen
  <2>5. row.service = local[t].service /\ row.version = req[t].version
        /\ row.schema = local[t].schema
    OBVIOUS
  <2> HIDE DEF row
  <2> QED
    BY <1>7, <2>1, <2>3, <2>4, <2>5
<1> QED
  BY <1>6, <1>8, <1>9

\* The statements that read the answer and the set that is composed.
LEMMA ReadStepPush ==
  ASSUME IInv, IInv', NEW t \in Txn, req[t].kind = "push", req' = req,
         \/ ReadResult(t) \/ ReadExact(t) \/ Fallback(t) \/ ReadActive(t) \/ Validate(t),
         PushServiceInv(t), PushSchemaInv(t), PushContainerInv(t), PushAnswerInv(t),
         pc'[t] \in AfterService
  PROVE  PushServiceInv(t)' /\ PushSchemaInv(t)' /\ PushContainerInv(t)' /\ PushAnswerInv(t)'
<1>1. TypeOK /\ local \in [Txn -> Local] /\ local[t] \in Local
      /\ pc \in [Txn -> Statements \cup Refusals \cup {"idle", "done"}]
  BY DEF IInv, TypeOK
<1>2. /\ UNCHANGED <<db, work, nextId>>
      /\ local'[t].service = local[t].service /\ local'[t].schema = local[t].schema
  BY <1>1 DEF ReadResult, ReadExact, Fallback, ReadActive, Validate, Throw, Local
<1>3. /\ pc[t] \in {"readResult", "readExact", "fallback", "readActive", "validate"}
      /\ pc'[t] \in {"readExact"} \cup Answered
      /\ pc'[t] \in Answered /\ pc[t] \notin Answered => ReadExact(t)
  BY <1>1 DEF ReadResult, ReadExact, Fallback, ReadActive, Validate, Goto, Throw,
              AfterService, AfterSchema, AfterContainer, Answered
<1>4. /\ pc[t] \in AfterContainer /\ pc'[t] \in AfterContainer
      /\ pc[t] \in AfterSchema /\ pc'[t] \in AfterSchema
      /\ pc[t] \in AfterService /\ pc[t] # "switchContainer" /\ pc'[t] # "switchContainer"
      /\ pc'[t] \notin {"versionExists", "writeSchema"}
  BY <1>3 DEF AfterService, AfterSchema, AfterContainer, Answered
<1>5. /\ AllServices' = AllServices /\ AllSchemas' = AllSchemas
      /\ Bound(t)' = Bound(t) /\ (ServiceSeen(t)' <=> ServiceSeen(t))
  BY <1>2 DEF AllServices, AllSchemas, Bound, View, ServiceSeen
<1>6. PushServiceInv(t)' /\ PushSchemaInv(t)'
  BY <1>2, <1>4, <1>5 DEF PushServiceInv, PushSchemaInv
<1>7. PushContainerInv(t)'
  BY <1>2, <1>4, <1>5 DEF PushContainerInv
<1>8. PushAnswerInv(t)'
  <2> SUFFICES ASSUME pc'[t] \in Answered, req[t].version # Dev
               PROVE  local'[t].answer = {[name |-> req[t].name, def |-> req[t].def]}
    BY DEF PushAnswerInv
  <2>1. CASE pc[t] \in Answered
    <3>1. local[t].answer = {[name |-> req[t].name, def |-> req[t].def]}
      BY <2>1 DEF PushAnswerInv
    <3>2. local'[t].answer = local[t].answer
      BY <1>1, <2>1, <3>1 DEF ReadResult, ReadExact, Fallback, ReadActive, Validate, Goto, Throw,
                             Answered, Local
    <3> QED
      BY <3>1, <3>2
  <2>2. CASE pc[t] \notin Answered
    <3> DEFINE rows == Exact(View(t), req[t].name, req[t].version)
               answer == {[name |-> req[t].name, def |-> b[2].def] : b \in rows}
    <3>1. local'[t].answer = answer
      BY <1>1, <1>3, <2>2 DEF ReadExact, Local
    <3>2. /\ View(t).container \subseteq AllContainers /\ View(t).schema \subseteq AllSchemas
          /\ View(t).services \subseteq AllServices
      BY ViewFacts DEF AllContainers, AllSchemas, AllServices
    <3>3. PICK c \in Bound(t) : c.schema = local[t].schema
      BY <1>4 DEF PushContainerInv
    <3>4. c \in View(t).container /\ c.service = local[t].service /\ c.version = req[t].version
      BY <3>3 DEF Bound
    <3>12. local[t].service \in Ids(View(t).services)
      BY <1>4, ViewFacts DEF PushContainerInv, ServiceSeen
    <3>5. PICK v \in View(t).services : v.id = local[t].service
      BY <3>12 DEF Ids
    <3>6. v.name = req[t].name
      BY <1>4, <3>2, <3>5 DEF PushServiceInv
    <3>7. PICK s \in View(t).schema : s.id = local[t].schema
      BY <1>4, ViewFacts DEF PushContainerInv, PushSchemaInv, Ids
    <3>8. <<c, s>> \in rows
      BY <3>3, <3>4, <3>5, <3>6, <3>7 DEF Exact, IsDev
    <3>9. ASSUME NEW b \in rows PROVE b[2].def = req[t].def
      <4>1. /\ b[1] \in AllContainers /\ b[2] \in AllSchemas
            /\ b[1].version = req[t].version /\ b[2].id = b[1].schema
            /\ \E r \in AllServices : r.id = b[1].service /\ r.name = req[t].name
        BY <3>2 DEF Exact
      <4>2. b[1].service = local[t].service
        BY <3>2, <3>5, <3>6, <4>1 DEF IInv, ServicesInv
      <4>3. b[1].schema = c.schema
        BY <2>2, <3>2, <3>4, <4>1, <4>2 DEF IInv, ContainersInv
      <4> QED
        BY <1>4, <3>3, <4>1, <4>3 DEF PushSchemaInv
    <3>10. s.def = req[t].def
      BY <3>8, <3>9
    <3> HIDE DEF rows
    <3>11. answer = {[name |-> req[t].name, def |-> req[t].def]}
      BY <3>8, <3>9
    <3> QED
      BY <3>1, <3>11
  <2> QED
    BY <2>1, <2>2
<1> QED
  BY <1>6, <1>7, <1>8

\* Every step keeps what the pushes that go on have found or made.
LEMMA PushStep == IInv /\ IInv' /\ TakenInv /\ PushInv /\ [Next]_vars => PushInv'
<1> SUFFICES ASSUME IInv, IInv', TakenInv, PushInv, [Next]_vars, NEW t \in Txn, req'[t].kind = "push"
             PROVE  /\ PushServiceInv(t)' /\ PushSchemaInv(t)'
                    /\ PushContainerInv(t)' /\ PushAnswerInv(t)'
  BY DEF PushInv
<1>1. TypeOK
  BY DEF IInv
<1>2. req[t].kind = "push" =>
        PushServiceInv(t) /\ PushSchemaInv(t) /\ PushContainerInv(t) /\ PushAnswerInv(t)
  BY DEF PushInv
<1>3. CASE UNCHANGED vars
  BY <1>2, <1>3 DEF vars, PushServiceInv, PushSchemaInv, PushContainerInv, PushAnswerInv,
                    ServiceSeen, Bound, View, AllServices, AllSchemas
<1>4. ASSUME NEW u \in Txn \ {t}, Acts(u)
      PROVE  /\ PushServiceInv(t)' /\ PushSchemaInv(t)'
             /\ PushContainerInv(t)' /\ PushAnswerInv(t)'
  <2>1. req'[t] = req[t] /\ t \in Txn \ {u} /\ u \in Txn
    BY <1>4, Bystander
  <2> QED
    BY <1>2, <1>4, <2>1, OthersKeepPush
<1>5. ASSUME Acts(t)
      PROVE  /\ PushServiceInv(t)' /\ PushSchemaInv(t)'
             /\ PushContainerInv(t)' /\ PushAnswerInv(t)'
  <2>1. CASE pc'[t] \notin AfterService
    BY <2>1, OutsidePush
  <2>2. CASE pc'[t] \in AfterService
    <3>1. ~Begin(t)
      BY <1>1, <2>2 DEF Begin, Goto, FirstStatement, TypeOK, AfterService, AfterSchema,
                        AfterContainer, Answered
    <3>2. /\ ~Commit(t) /\ ~Rollback(t) /\ ~DeleteService(t)
          /\ ~Fail(t) /\ ~CommitUnanswered(t)
      BY <1>1, <2>2 DEF Commit, Rollback, DeleteService, LockService, Cascade, Fail,
         CommitUnanswered, Answer, Throw,
                        Goto, TypeOK, AfterService, AfterSchema, AfterContainer, Answered
    <3>3. ~Toggle(t)
      BY DEF Toggle, IInv, RequestInv, ToggleRequest
    <3>4. req' = req
      BY <1>5, <3>1, <3>2, <3>3, DeadlockFails
         DEF Acts, Step, GetService, InsertService, UpdateUrl, FindSchema, VersionExists,
             WriteSchema, TouchSchema, InsertSchema, FindContainer, SwitchContainer,
             InsertContainer, ReadResult, ReadExact, Fallback, ReadActive, Validate, Throw
    <3> QED
      BY <1>2, <1>5, <2>2, <3>1, <3>2, <3>3, <3>4, ServiceStepPush, SchemaStepPush,
         ContainerStepPush, ReadStepPush, DeadlockFails DEF Acts, Step
  <2> QED
    BY <2>1, <2>2
<1> QED
  BY <1>3, <1>4, <1>5 DEF Next, Acts, Finished

\* What a push that gets through has found or made is what it was sent
\* (src/src/database/schema.ts, registerSchema).
THEOREM PushInvariance == Spec => []PushInv
<1>1. Init => PushInv
  BY DEF Init, PushInv, NoRequest
<1>2. IInv /\ IInv' /\ TakenInv /\ PushInv /\ [Next]_vars => PushInv'
  BY PushStep
<1> QED
  BY <1>1, <1>2, Invariance, TakenInvariance, PTL DEF Spec

\* A push is answered by its commit only.
LEMMA PushEnds ==
  ASSUME IInv, [Next]_vars, NEW t \in Txn, pc[t] = "commit", pc'[t] = "done"
  PROVE  Commit(t)
<1>1. TypeOK
  BY DEF IInv
<1>2. ~ UNCHANGED vars
  BY DEF vars
<1>3. PICK u \in Txn : Acts(u)
  BY <1>2 DEF Next, Acts, Finished
<1>4. u = t
  BY <1>3, Bystander
<1>5. CASE Begin(t) \/ GetService(t) \/ InsertService(t) \/ UpdateUrl(t)
           \/ FindSchema(t) \/ VersionExists(t) \/ WriteSchema(t)
  BY <1>5 DEF Begin, GetService, InsertService, UpdateUrl, FindSchema,
              VersionExists, WriteSchema, TouchSchema, InsertSchema, Throw, Goto
<1>6. CASE FindContainer(t) \/ SwitchContainer(t) \/ InsertContainer(t)
           \/ ReadResult(t) \/ ReadExact(t) \/ Fallback(t) \/ Toggle(t) \/ ReadActive(t)
           \/ Validate(t) \/ Fail(t)
  BY <1>1, <1>6 DEF FindContainer, SwitchContainer, InsertContainer, ReadResult, ReadExact,
                    Fallback, Toggle, ReadActive, Validate, Fail, Throw, Goto, TypeOK
<1>7. CASE CommitUnanswered(t) \/ Rollback(t) \/ DeleteService(t)
  BY <1>1, <1>7 DEF CommitUnanswered, Rollback, DeleteService, LockService, Cascade, Answer,
                    Refusals, Goto, TypeOK
<1> QED
  BY <1>3, <1>4, <1>5, <1>6, <1>7, DeadlockFails DEF Acts, Step

\* What a push commits binds its version to the definition it was sent.
LEMMA PushRegisters ==
  ASSUME IInv, PushInv, NEW t \in Txn, req[t].kind = "push", pc[t] = "commit", Publish(t)
  PROVE  Registered(db', req[t])
<1>1. PushServiceInv(t) /\ PushSchemaInv(t) /\ PushContainerInv(t)
  BY DEF PushInv
<1>2. pc[t] \in AfterContainer /\ pc[t] \in AfterSchema /\ pc[t] \in AfterService
  BY DEF AfterService, AfterSchema, AfterContainer, Answered
<1>3. db' = View(t)
  BY DEF Publish
<1>4. /\ local[t].service \in Ids(View(t).services)
      /\ local[t].schema \in Ids(View(t).schema)
      /\ \E c \in Bound(t) : c.schema = local[t].schema
  BY <1>1, <1>2, ViewFacts DEF PushContainerInv, PushSchemaInv, ServiceSeen
<1>5. PICK v \in View(t).services : v.id = local[t].service
  BY <1>4 DEF Ids
<1>6. PICK s \in View(t).schema : s.id = local[t].schema
  BY <1>4 DEF Ids
<1>7. PICK c \in View(t).container : /\ c.service = local[t].service
                                     /\ c.version = req[t].version
                                     /\ c.schema = local[t].schema
  BY <1>4 DEF Bound
<1>8. v.name = req[t].name /\ s.def = req[t].def
  BY <1>1, <1>2, <1>5, <1>6, ViewFacts DEF PushServiceInv, PushSchemaInv, AllServices, AllSchemas
<1>9. [service |-> v.id, version |-> req[t].version, def |-> req[t].def] \in Catalog(View(t))
  <2> DEFINE b == <<c, s>>
  <2>1. b \in {x \in View(t).container \X View(t).schema : x[2].id = x[1].schema}
    BY <1>6, <1>7
  <2>2. b[1].service = v.id /\ b[1].version = req[t].version /\ b[2].def = req[t].def
    BY <1>5, <1>7, <1>8
  <2> HIDE DEF b
  <2> QED
    BY <2>1, <2>2 DEF Catalog
<1> QED
  BY <1>3, <1>5, <1>8, <1>9 DEF Registered

\* A push that is committed has registered what it was sent, for any number of
\* requests that overlap, fail or delete services in any way
\* (src/src/database/schema.ts, registerSchema).
THEOREM PushRegistered == Spec => PushIsRegistered
<1>1. IInv /\ PushInv /\ [Next]_vars =>
        [\A t \in Txn : req[t].kind = "push" /\ pc[t] = "commit" /\ pc'[t] = "done"
           => Registered(db', req[t])]_vars
  BY PushEnds, PushRegisters DEF Commit
<1> QED
  BY <1>1, Invariance, PushInvariance, PTL DEF Spec, PushIsRegistered

\* The answer of a push of a released version is what it pushed
\* (src/src/controller/schema.ts, pushAndValidateSchema).
THEOREM AnswerPushed == Spec => AnswerIsPushed
<1>1. PushInv /\ [Next]_vars =>
        [\A t \in Txn :
           /\ req[t].kind = "push" /\ req[t].version # Dev
           /\ pc[t] = "commit" /\ pc'[t] = "done"
           => local[t].answer = {[name |-> req[t].name, def |-> req[t].def]}]_vars
  BY DEF PushInv, PushAnswerInv, Answered
<1> QED
  BY <1>1, PushInvariance, PTL DEF Spec, AnswerIsPushed

------------------------------------------------------------------------------
(* Requests of one service that do not overlap.                            *)

\* A request that acts is open, unless it begins.
LEMMA ActsOpen ==
  ASSUME NEW u \in Txn, Acts(u), ~Begin(u)
  PROVE  Open(u)
<1>1. CASE \/ GetService(u) \/ InsertService(u) \/ UpdateUrl(u)
           \/ FindSchema(u) \/ VersionExists(u) \/ WriteSchema(u)
  BY <1>1 DEF GetService, InsertService, UpdateUrl, FindSchema, Statements, Open,
              VersionExists, WriteSchema, TouchSchema, InsertSchema, Throw, Goto
<1>2. CASE FindContainer(u) \/ SwitchContainer(u) \/ InsertContainer(u)
           \/ ReadResult(u) \/ ReadExact(u) \/ Fallback(u) \/ Toggle(u) \/ ReadActive(u)
           \/ Validate(u) \/ Fail(u)
  BY <1>2 DEF FindContainer, SwitchContainer, InsertContainer, ReadResult, ReadExact,
              Fallback, Toggle, ReadActive, Validate, Fail, Throw, Goto, Statements, Open, Refusals
<1>3. CASE Commit(u) \/ CommitUnanswered(u) \/ Rollback(u) \/ DeleteService(u)
  BY <1>3 DEF Commit, CommitUnanswered, Rollback, DeleteService, LockService, Cascade, Answer,
     Goto, Statements, Open, Refusals
<1> QED
  BY <1>1, <1>2, <1>3, DeadlockFails DEF Acts, Step

\* While one request runs a statement, no other is open.
LEMMA Alone ==
  ASSUME IInv, OneAtATime, OneAtATime', NEW u \in Txn, Acts(u), NEW t \in Txn \ {u}
  PROVE  ~Open(t) /\ ~Open(t)'
<1>1. pc \in [Txn -> Statements \cup Refusals \cup {"idle", "done"}]
  BY DEF IInv, TypeOK
<1>2. ~Open(t)' <=> ~Open(t)
  BY Bystander DEF Open
<1>3. CASE Begin(u)
  <2>1. PICK r \in Requests : Goto(u, "idle", FirstStatement(r))
    BY <1>3 DEF Begin
  <2>2. FirstStatement(r) \in Statements
    BY <2>1, RequestAssumption DEF FirstStatement, Statements, Request, PushRequest,
       ToggleRequest,
                   DeleteRequest, ValidateRequest
  <2>3. Open(u)'
    BY <1>1, <2>1, <2>2 DEF Goto, Open
  <2> QED
    BY <1>2, <2>3 DEF OneAtATime
<1>4. CASE ~Begin(u)
  <2>1. Open(u)
    BY <1>4, ActsOpen
  <2> QED
    BY <1>2, <2>1 DEF OneAtATime
<1> QED
  BY <1>3, <1>4

\* Only the request that runs has row versions of its own.
LEMMA OnlyOwnRows ==
  ASSUME IInv, AtRest, OneAtATime, OneAtATime', NEW u \in Txn, Acts(u)
  PROVE  /\ AllServices = db.services \cup work[u].services
         /\ AllSchemas = db.schema \cup work[u].schema
         /\ AllContainers = db.container \cup work[u].container
         /\ \A t \in Txn \ {u} : work[t] = NoRows /\ work'[t] = NoRows
<1>1. \A t \in Txn \ {u} : work[t] = NoRows /\ work'[t] = NoRows
  BY Alone, Bystander DEF AtRest
<1> QED
  BY <1>1 DEF AllServices, AllSchemas, AllContainers, NoRows

\* A request that is answered gives up its rows.
LEMMA AtRestStep ==
  ASSUME IInv, AtRest, NEW u \in Txn, Acts(u)
  PROVE  AtRest'
<1>1. pc \in [Txn -> Statements \cup Refusals \cup {"idle", "done"}] /\ TypeOK
  BY DEF IInv, TypeOK
<1>2. SUFFICES ASSUME NEW t \in Txn, ~Open(t)'
               PROVE  work'[t] = NoRows
  BY DEF AtRest
<1>3. CASE t # u
  BY <1>2, <1>3, Bystander DEF AtRest, Open
<1>4. CASE t = u
  <2>1. CASE Begin(u)
    <3>1. work[u] = NoRows
      BY <1>1, <2>1 DEF Begin, Goto, AtRest, Open, Statements, Refusals
    <3> QED
      BY <1>4, <2>1, <3>1 DEF Begin
  <2>2. CASE \/ GetService(u) \/ InsertService(u) \/ UpdateUrl(u)
             \/ FindSchema(u) \/ VersionExists(u) \/ WriteSchema(u)
    BY <1>1, <1>2, <1>4, <2>2 DEF GetService, InsertService, UpdateUrl, FindSchema, Statements,
         Open, Refusals, VersionExists, WriteSchema, TouchSchema, InsertSchema, Throw, Goto
  <2>3. CASE FindContainer(u) \/ SwitchContainer(u) \/ InsertContainer(u)
             \/ ReadResult(u) \/ ReadExact(u) \/ Fallback(u) \/ Toggle(u) \/ ReadActive(u)
             \/ Validate(u) \/ Fail(u)
    BY <1>1, <1>2, <1>4, <2>3 DEF FindContainer, SwitchContainer, InsertContainer, ReadResult,
         Fallback, Toggle, ReadActive, Validate, Fail, Throw, Goto, Statements, Open, Refusals,
         ReadExact
  <2>4. CASE Commit(u) \/ CommitUnanswered(u) \/ Rollback(u)
    BY <1>1, <1>4, <2>4 DEF Commit, CommitUnanswered, Rollback, Publish, TypeOK
  <2>5. CASE DeleteService(u)
    BY <1>1, <1>4, <2>5 DEF DeleteService, LockService, Cascade, Answer, Goto, IInv, HandlerInv
  <2> QED
    BY <2>1, <2>2, <2>3, <2>4, <2>5, DeadlockFails DEF Acts, Step
<1> QED
  BY <1>3, <1>4

\* A request that writes no schema row leaves those there are.
LEMMA SchemasStay ==
  ASSUME IInv, NEW u \in Txn, Acts(u), ~TouchSchema(u), ~InsertSchema(u), ~Toggle(u)
  PROVE  AllSchemas' \subseteq AllSchemas
<1>1. TypeOK
  BY DEF IInv
<1>2. CASE ~Ends(u)
  <2>1. db' = db /\ \A t \in Txn : work'[t].schema = work[t].schema
    BY <1>2, OneTable, OtherTables
  <2> QED
    BY <2>1 DEF AllSchemas
<1>3. CASE Commit(u) \/ CommitUnanswered(u) \/ Rollback(u)
  BY <1>1, <1>3, PublishRows, DropRows DEF Commit, CommitUnanswered, Rollback
<1>4. CASE Cascade(u)
  BY <1>4 DEF Cascade, Without, AllSchemas
<1> QED
  BY <1>2, <1>3, <1>4 DEF Ends

\* An update of a schema row changes its flag or its time of update.
LEMMA SchemaUpdate ==
  ASSUME IInv, NEW t \in Txn, TouchSchema(t) \/ Toggle(t)
  PROVE  \E rows \in SUBSET SchemaRow :
           /\ db' = db
           /\ work' = [work EXCEPT ![t].schema = Overlay(@, rows)]
           /\ \A r \in rows : \E s \in View(t).schema :
                /\ s.id = r.id /\ s.service = r.service /\ s.def = r.def /\ s.added = r.added
                /\ TouchSchema(t) => s.active = r.active
           /\ TouchSchema(t) => \A r \in rows : r.id = local[t].schema
           /\ TouchSchema(t) /\ local[t].schema \in Ids(View(t).schema) => rows # {}
           /\ (\A s, r \in View(t).schema : s.id = r.id => s = r)
                => \A s, r \in rows : s.id = r.id => s = r
<1>1. TypeOK /\ View(t) \in Tables
  BY ViewType DEF IInv
<1>2. CASE TouchSchema(t)
  <2> DEFINE rows == {[s EXCEPT !.updated = local[t].time] :
                        s \in {s \in View(t).schema : s.id = local[t].schema}}
  <2>1. rows \in SUBSET SchemaRow
    BY <1>1 DEF TypeOK, Tables, SchemaRow, Local
  <2>2. \A r \in rows : \E s \in View(t).schema :
           /\ s.id = r.id /\ s.service = r.service /\ s.def = r.def /\ s.added = r.added
           /\ s.active = r.active /\ s.id = local[t].schema
    BY <1>1 DEF Tables, SchemaRow
  <2>4. (\A s, r \in View(t).schema : s.id = r.id => s = r)
          => \A s, r \in rows : s.id = r.id => s = r
    BY <1>1 DEF Tables, SchemaRow
  <2>5. local[t].schema \in Ids(View(t).schema) => rows # {}
    BY DEF Ids
  <2>3. work' = [work EXCEPT ![t].schema = Overlay(@, rows)] /\ db' = db
    BY <1>2 DEF TouchSchema
  <2> HIDE DEF rows
  <2>6. /\ \A r \in rows : \E s \in View(t).schema :
             /\ s.id = r.id /\ s.service = r.service /\ s.def = r.def /\ s.added = r.added
             /\ TouchSchema(t) => s.active = r.active
        /\ \A r \in rows : r.id = local[t].schema
    BY <2>2
  <2> QED
    BY <2>1, <2>3, <2>4, <2>5, <2>6
<1>3. CASE Toggle(t) /\ ~TouchSchema(t)
  <2> DEFINE rows == {[s EXCEPT !.active = req[t].active] :
                        s \in {s \in View(t).schema : s.id = req[t].schema}}
  <2>1. req[t] \in ToggleRequest
    BY <1>3 DEF IInv, RequestInv, Toggle
  <2>2. rows \in SUBSET SchemaRow
    BY <1>1, <2>1 DEF Tables, SchemaRow, ToggleRequest
  <2>3. \A r \in rows : \E s \in View(t).schema :
          s.id = r.id /\ s.service = r.service /\ s.def = r.def /\ s.added = r.added
    BY <1>1 DEF Tables, SchemaRow
  <2>4. work' = [work EXCEPT ![t].schema = Overlay(@, rows)] /\ db' = db
    BY <1>3 DEF Toggle
  <2>5. (\A s, r \in View(t).schema : s.id = r.id => s = r)
          => \A s, r \in rows : s.id = r.id => s = r
    BY <1>1 DEF Tables, SchemaRow
  <2> HIDE DEF rows
  <2> QED
    BY <1>3, <2>2, <2>3, <2>4, <2>5
<1> QED
  BY <1>2, <1>3

\* A schema is inserted for a service that is there, or refused.
LEMMA SchemaInsert ==
  ASSUME IInv, NEW t \in Txn, InsertSchema(t)
  PROVE  \/ Throw(t, "writeSchema", "constraint") /\ local[t].service \notin Ids(View(t).services)
         \/ /\ {NewSchema(t)} \in SUBSET SchemaRow
            /\ db' = db /\ req' = req /\ clock' = clock
            /\ work' = [work EXCEPT ![t].schema = Overlay(@, {NewSchema(t)})]
            /\ local' = [local EXCEPT ![t].schema = nextId.schema]
            /\ Goto(t, "writeSchema", "findContainer")
            /\ nextId' = [nextId EXCEPT !.schema = @ + 1]
<1>1. CASE local[t].service \notin Ids(View(t).services)
  BY <1>1 DEF InsertSchema
<1>2. CASE local[t].service \in Ids(View(t).services)
  <2>1. /\ work' = [work EXCEPT ![t].schema = Overlay(@, {NewSchema(t)})]
        /\ db' = db /\ req' = req /\ clock' = clock
        /\ local' = [local EXCEPT ![t].schema = nextId.schema]
        /\ Goto(t, "writeSchema", "findContainer")
        /\ nextId' = [nextId EXCEPT !.schema = @ + 1]
    BY <1>2 DEF InsertSchema, NewSchema
  <2>2. /\ View(t).services \in SUBSET ServiceRow /\ local[t] \in Local
        /\ nextId.schema \in Id /\ req[t] \in PushRequest
    BY ViewType
       DEF IInv, TypeOK, Tables, RequestInv, PushStatements, InsertSchema
  <2>3. local[t].service \in Id
    BY <1>2, <2>2 DEF Ids, ServiceRow
  <2>4. NewSchema(t) \in SchemaRow
    BY <2>2, <2>3 DEF SchemaRow, PushRequest, Local, NewSchema
  <2> QED
    BY <2>1, <2>4
<1> QED
  BY <1>1, <1>2

\* A schema row is a newer version of another or that of a new schema.
LEMMA SchemasKeep ==
  ASSUME IInv, NEW u \in Txn, Acts(u)
  PROVE  \/ \A s \in AllSchemas' : \E r \in AllSchemas :
              r.id = s.id /\ r.service = s.service /\ r.def = s.def
         \/ /\ InsertSchema(u) /\ pc[u] = "writeSchema" /\ local[u].schema = None
            /\ AllSchemas' \subseteq AllSchemas \cup {NewSchema(u)}
<1>1. TypeOK
  BY DEF IInv
<1>2. CASE ~TouchSchema(u) /\ ~InsertSchema(u) /\ ~Toggle(u)
  BY <1>2, SchemasStay
<1>3. CASE TouchSchema(u) \/ Toggle(u)
  <2>1. PICK rows \in SUBSET SchemaRow :
           /\ db' = db
           /\ work' = [work EXCEPT ![u].schema = Overlay(@, rows)]
           /\ \A r \in rows : \E s \in View(u).schema :
                /\ s.id = r.id /\ s.service = r.service /\ s.def = r.def /\ s.added = r.added
                /\ TouchSchema(u) => s.active = r.active
           /\ TouchSchema(u) => \A r \in rows : r.id = local[u].schema
           /\ TouchSchema(u) /\ local[u].schema \in Ids(View(u).schema) => rows # {}
           /\ (\A s, r \in View(u).schema : s.id = r.id => s = r)
                => \A s, r \in rows : s.id = r.id => s = r
    BY <1>3, SchemaUpdate
  <2>2. AllSchemas' \subseteq AllSchemas \cup rows
    BY <1>1, <2>1, WriteSchemas
  <2>3. View(u).schema \subseteq AllSchemas
    BY ViewFacts DEF AllSchemas
  <2> QED
    BY <2>1, <2>2, <2>3
<1>4. CASE InsertSchema(u)
  <2>1. CASE Throw(u, "writeSchema", "constraint")
    BY <2>1 DEF Throw, AllSchemas
  <2>2. CASE ~Throw(u, "writeSchema", "constraint")
    <3>1. /\ {NewSchema(u)} \in SUBSET SchemaRow
          /\ work' = [work EXCEPT ![u].schema = Overlay(@, {NewSchema(u)})]
          /\ db' = db
      BY <1>4, <2>2, SchemaInsert
    <3>2. AllSchemas' \subseteq AllSchemas \cup {NewSchema(u)}
      BY <1>1, <3>1, WriteSchemas
    <3> QED
      BY <1>4, <3>2 DEF InsertSchema
  <2> QED
    BY <2>1, <2>2
<1> QED
  BY <1>2, <1>3, <1>4

\* What is committed is seen, or a newer version of it.
LEMMA SeenAgain ==
  ASSUME IInv, NEW t \in Txn
  PROVE  /\ \A r \in db.schema : \E s \in View(t).schema :
              s.id = r.id /\ s.service = r.service /\ s.def = r.def
         /\ \A c \in db.container : \E d \in View(t).container :
              d.id = c.id /\ d.service = c.service /\ d.version = c.version
<1>1. ASSUME NEW r \in db.schema
      PROVE  \E s \in View(t).schema : s.id = r.id /\ s.service = r.service /\ s.def = r.def
  <2>1. r.id \in Ids(View(t).schema)
    BY ViewFacts DEF Ids
  <2>2. PICK s \in View(t).schema : s.id = r.id
    BY <2>1 DEF Ids
  <2>3. s \in AllSchemas /\ r \in AllSchemas
    BY ViewFacts DEF AllSchemas
  <2> QED
    BY <2>2, <2>3 DEF IInv, SchemasInv
<1>2. ASSUME NEW c \in db.container
      PROVE  \E d \in View(t).container :
               d.id = c.id /\ d.service = c.service /\ d.version = c.version
  <2>1. c.id \in Ids(View(t).container)
    BY ViewFacts DEF Ids
  <2>2. PICK d \in View(t).container : d.id = c.id
    BY <2>1 DEF Ids
  <2>3. d \in AllContainers /\ c \in AllContainers
    BY ViewFacts DEF AllContainers
  <2> QED
    BY <2>2, <2>3 DEF IInv, ContainersInv
<1> QED
  BY <1>1, <1>2

\* Of a service that one push has found no other open request has a row version,
\* but for new versions of schemas that are committed.
LEMMA OthersRows ==
  ASSUME IInv, PushInv, SearchInv, ServicesApart,
         NEW t \in Txn, req[t].kind = "push", pc[t] \in AfterService, NEW v \in Txn \ {t}
  PROVE  /\ \A r \in work[v].schema : r.service = local[t].service =>
              \E q \in db.schema : q.id = r.id /\ q.service = r.service /\ q.def = r.def
         /\ \A c \in work[v].container : c.service # local[t].service
<1>1. Open(t)
  BY DEF Open, AfterService, AfterSchema, AfterContainer, Answered, Statements
<1>2. OwnRows(v) /\ PushServiceInv(t) /\ (work[v] # NoRows => Open(v))
  BY DEF SearchInv, AtRest, PushInv
<1>3. CASE req[v].kind = "push"
  <2>1. SUFFICES ASSUME NEW r \in work[v].schema \cup work[v].container,
                        r.service = local[t].service
                 PROVE  FALSE
    OBVIOUS
  <2>2. Open(v)
    BY <1>2, <2>1 DEF NoRows
  <2>3. req[v].name # req[t].name
    BY <1>1, <1>3, <2>2 DEF ServicesApart
  <2>4. r.service \in Ids(db.services) \cup Ids(work[v].services)
    BY DEF IInv, ReferencesInv
  <2>5. PICK s \in AllServices : s.id = r.service
    BY <2>4 DEF Ids, AllServices
  <2> QED
    BY <1>2, <1>3, <2>1, <2>3, <2>5 DEF OwnRows, PushServiceInv
<1>4. CASE req[v].kind # "push"
  <2>1. ASSUME NEW r \in work[v].schema
        PROVE  \E q \in db.schema : q.id = r.id /\ q.service = r.service /\ q.def = r.def
    <3>1. r.id \in Ids(db.schema)
      BY <1>2, <1>4 DEF OwnRows, Ids
    <3>2. PICK q \in db.schema : q.id = r.id
      BY <3>1 DEF Ids
    <3>3. q \in AllSchemas /\ r \in AllSchemas
      BY DEF AllSchemas
    <3> QED
      BY <3>2, <3>3 DEF IInv, SchemasInv
  <2> QED
    BY <1>2, <1>4, <2>1 DEF OwnRows
<1> QED
  BY <1>3, <1>4

\* A service has no second schema of one definition.
LEMMA OneSchemaStep ==
  ASSUME IInv, PushInv, SearchInv, ServicesApart, NEW u \in Txn, Acts(u)
  PROVE  OneSchemaPerDef'
<1>1. CASE \A s \in AllSchemas' : \E r \in AllSchemas :
             r.id = s.id /\ r.service = s.service /\ r.def = s.def
  BY <1>1 DEF SearchInv, OneSchemaPerDef
<1>2. CASE /\ pc[u] = "writeSchema" /\ local[u].schema = None
           /\ AllSchemas' \subseteq AllSchemas \cup {NewSchema(u)}
  <2>1. FindExisting(u) = {}
    BY <1>2 DEF SearchInv, StillMissing
  <2>2. req[u].kind = "push" /\ pc[u] \in AfterService
    BY <1>2 DEF IInv, RequestInv, PushStatements, PushRequest, AfterService
  <2>3. \A r \in AllSchemas : ~(r.service = local[u].service /\ r.def = req[u].def)
    <3>1. SUFFICES ASSUME NEW r \in AllSchemas,
                          r.service = local[u].service, r.def = req[u].def
                   PROVE  FALSE
      OBVIOUS
    <3>2. PICK q \in db.schema \cup work[u].schema :
            q.id = r.id /\ q.service = r.service /\ q.def = r.def
      BY <2>2, <3>1, OthersRows DEF AllSchemas
    <3>3. r.id \in Ids(View(u).schema)
      BY <3>2, ViewFacts DEF Ids
    <3>4. PICK s \in View(u).schema : s.id = r.id
      BY <3>3 DEF Ids
    <3>5. s \in AllSchemas
      BY ViewFacts DEF AllSchemas
    <3>6. s.service = r.service /\ s.def = r.def
      BY <3>4, <3>5 DEF IInv, SchemasInv
    <3> QED
      BY <2>1, <3>1, <3>6 DEF FindExisting
  <2>4. NewSchema(u).service = local[u].service /\ NewSchema(u).def = req[u].def
    BY DEF NewSchema
  <2> QED
    BY <1>2, <2>3, <2>4 DEF SearchInv, OneSchemaPerDef
<1> QED
  BY <1>1, <1>2, SchemasKeep

\* Where a handler that acts goes.
LEMMA Goes ==
  ASSUME IInv, NEW u \in Txn, Acts(u),
         ~GetService(u), ~FindSchema(u), ~VersionExists(u), ~FindContainer(u)
  PROVE  pc'[u] \notin {"insertService", "versionExists", "writeSchema", "switchContainer",
                        "insertContainer"}
<1>1. pc \in [Txn -> Statements \cup Refusals \cup {"idle", "done"}]
  BY DEF IInv, TypeOK
<1>2. CASE Begin(u)
  <2>1. PICK r \in Requests : Goto(u, "idle", FirstStatement(r))
    BY <1>2 DEF Begin
  <2>2. FirstStatement(r) \in {"getService", "toggle", "delete", "readActive"}
    BY <2>1, RequestAssumption DEF FirstStatement, Request, PushRequest, ToggleRequest,
                   DeleteRequest, ValidateRequest
  <2> QED
    BY <1>1, <2>1, <2>2 DEF Goto
<1>3. CASE InsertService(u) \/ UpdateUrl(u) \/ WriteSchema(u) \/ SwitchContainer(u)
           \/ InsertContainer(u) \/ ReadResult(u) \/ ReadExact(u) \/ Fallback(u) \/ Toggle(u)
  BY <1>1, <1>3 DEF InsertService, UpdateUrl, WriteSchema, TouchSchema, InsertSchema, Throw, Goto,
                    SwitchContainer, InsertContainer, ReadResult, ReadExact, Fallback, Toggle
<1>4. CASE \/ ReadActive(u) \/ Validate(u) \/ Fail(u)
           \/ Commit(u) \/ CommitUnanswered(u) \/ Rollback(u) \/ DeleteService(u)
  BY <1>1, <1>4 DEF ReadActive, Validate, Fail, Throw, Goto, Commit, CommitUnanswered, Rollback,
                    DeleteService, LockService, Cascade, Answer
<1> QED
  BY <1>2, <1>3, <1>4, DeadlockFails DEF Acts, Step

\* What a handler looked for and did not find, nobody else adds.
LEMMA StillMissingStep ==
  ASSUME IInv, SearchInv, NEW u \in Txn, Acts(u)
  PROVE  StillMissing(u)'
<1>1. /\ pc \in [Txn -> Statements \cup Refusals \cup {"idle", "done"}]
      /\ local \in [Txn -> Local] /\ StillMissing(u)
  BY DEF IInv, TypeOK, SearchInv
<1>2. CASE ~GetService(u) /\ ~FindSchema(u) /\ ~VersionExists(u) /\ ~FindContainer(u)
  BY <1>2, Goes DEF StillMissing
<1>3. CASE GetService(u)
  <2>1. View(u)' = View(u) /\ req'[u] = req[u]
    BY <1>3 DEF GetService, View
  <2>2. \/ pc'[u] \in {"findSchema", "updateUrl"}
        \/ pc'[u] = "insertService" /\ req[u].name \notin ActiveNames(View(u))
    BY <1>1, <1>3 DEF GetService, Goto
  <2> QED
    BY <2>1, <2>2 DEF StillMissing
<1>4. CASE FindSchema(u)
  <2>1. View(u)' = View(u) /\ req'[u] = req[u]
    BY <1>4 DEF FindSchema, View
  <2>2. CASE \E s \in FindExisting(u) : local' = [local EXCEPT ![u].schema = s.id]
                                        /\ Goto(u, "findSchema", "writeSchema")
    <3>1. View(u).schema \in SUBSET SchemaRow
      BY ViewType DEF Tables, IInv
    <3>2. local'[u].schema # None /\ pc'[u] = "writeSchema"
      BY <1>1, <2>2, <3>1 DEF FindExisting, SchemaRow, Id, Goto, Local
    <3> QED
      BY <3>2 DEF StillMissing
  <2>3. CASE FindExisting(u) = {} /\ local' = local
    <3>1. local[u].schema = None
      BY <1>4 DEF IInv, HandlerInv, FindSchema
    <3>2. FindExisting(u)' = {}
      BY <2>1, <2>3 DEF FindExisting
    <3>3. pc'[u] \in {"writeSchema", "versionExists"}
      BY <1>1, <1>4 DEF FindSchema, Goto
    <3> QED
      BY <2>3, <3>1, <3>2, <3>3 DEF StillMissing
  <2> QED
    BY <1>4, <2>2, <2>3 DEF FindSchema
<1>5. CASE VersionExists(u)
  <2>1. View(u)' = View(u) /\ req'[u] = req[u] /\ local' = local
    BY <1>5 DEF VersionExists, View, Throw
  <2>2. pc[u] = "versionExists" /\ pc'[u] \in {"conflict", "writeSchema"}
    BY <1>1, <1>5 DEF VersionExists, Throw, Goto
  <2>3. FindExisting(u)' = FindExisting(u)
    BY <2>1 DEF FindExisting
  <2> QED
    BY <1>1, <2>1, <2>2, <2>3 DEF StillMissing
<1>6. CASE FindContainer(u)
  <2>1. View(u)' = View(u) /\ req'[u] = req[u]
    BY <1>6 DEF FindContainer, View
  <2>2. CASE pc'[u] \in {"switchContainer", "readResult"}
    BY <2>2 DEF StillMissing
  <2>3. CASE pc'[u] \notin {"switchContainer", "readResult"}
    <3>1. /\ {c \in Bound(u) : IsDev(req[u].version) \/ c.schema = local[u].schema} = {}
          /\ pc'[u] = "insertContainer" /\ local' = local
      BY <1>1, <1>6, <2>3 DEF FindContainer, Goto
    <3>2. Bound(u)' = Bound(u)
      BY <2>1, <3>1 DEF Bound
    <3> QED
      BY <2>1, <3>1, <3>2 DEF StillMissing, IsDev
  <2> QED
    BY <2>2, <2>3
<1> QED
  BY <1>2, <1>3, <1>4, <1>5, <1>6

\* The service of a push stays until its end.
LEMMA StillThereStep ==
  ASSUME IInv, SearchInv, NEW u \in Txn, Acts(u)
  PROVE  StillThere(u)'
<1>1. /\ TypeOK /\ RequestInv /\ StillThere(u)
      /\ pc \in [Txn -> Statements \cup Refusals \cup {"idle", "done"}]
      /\ local \in [Txn -> Local]
  BY DEF IInv, TypeOK, SearchInv
<1>2. SUFFICES ASSUME req'[u].kind = "push", pc'[u] \in AfterService
               PROVE  ServiceSeen(u)'
  BY DEF StillThere
<1>3. CASE Begin(u)
  <2>1. PICK r \in Requests : Goto(u, "idle", FirstStatement(r)) /\ req' = [req EXCEPT ![u] = r]
    BY <1>3 DEF Begin
  <2>2. r.kind = "push"
    BY <1>1, <1>2, <2>1 DEF TypeOK
  <2>3. pc'[u] = "getService"
    BY <1>1, <2>1, <2>2 DEF Goto, FirstStatement
  <2> QED
    BY <1>2, <2>3 DEF AfterService, AfterSchema, AfterContainer, Answered
<1>4. CASE GetService(u)
  <2>1. PICK s \in View(u).services : local' = [local EXCEPT ![u].service = s.id]
    BY <1>1, <1>2, <1>4 DEF GetService, Goto, AfterService, AfterSchema, AfterContainer, Answered
  <2>2. local'[u].service \in Ids(View(u).services)
    BY <1>1, <2>1 DEF Ids, Local
  <2>3. db' = db /\ work' = work
    BY <1>4 DEF GetService
  <2> QED
    BY <2>2, <2>3, ViewFacts DEF ServiceSeen
<1>5. CASE InsertService(u)
  <2> DEFINE row == [id |-> nextId.services, name |-> req[u].name, url |-> req[u].url]
  <2>1. /\ work' = [work EXCEPT ![u].services = Overlay(@, {row})]
        /\ local'[u].service = nextId.services /\ db' = db
    BY <1>1, <1>2, <1>5 DEF InsertService, Throw, Goto, AfterService, AfterSchema,
                            AfterContainer, Answered, Local
  <2>2. {row} \in SUBSET ServiceRow
    BY <1>1, <1>5 DEF InsertService, TypeOK, RequestInv, PushStatements, PushRequest, ServiceRow
  <2>3. Ids({row}) = {nextId.services}
    BY DEF Ids
  <2> HIDE DEF row
  <2>4. Ids(work'[u].services) = Ids(work[u].services) \cup Ids({row})
    BY <1>1, <2>1, <2>2, WriteServices
  <2> QED
    BY <2>1, <2>3, <2>4 DEF ServiceSeen
<1>6. CASE UpdateUrl(u)
  <2> DEFINE rows == {[s EXCEPT !.url = req[u].url] :
                        s \in {s \in View(u).services : s.id = local[u].service}}
  <2>1. /\ work' = [work EXCEPT ![u].services = Overlay(@, rows)]
        /\ local' = local /\ db' = db /\ req' = req /\ pc[u] = "updateUrl"
    BY <1>6 DEF UpdateUrl, Goto
  <2>2. rows \in SUBSET ServiceRow
    BY <1>1, <2>1, ViewType DEF RequestInv, PushStatements, PushRequest, ServiceRow, Tables
  <2> HIDE DEF rows
  <2>3. Ids(work'[u].services) = Ids(work[u].services) \cup Ids(rows)
    BY <1>1, <2>1, <2>2, WriteServices
  <2>4. ServiceSeen(u)
    BY <1>1, <1>2, <2>1 DEF StillThere, AfterService
  <2> QED
    BY <2>1, <2>3, <2>4 DEF ServiceSeen
<1>7. CASE ~Begin(u) /\ ~GetService(u) /\ ~InsertService(u) /\ ~UpdateUrl(u)
  <2>1. pc[u] \in AfterService /\ req'[u] = req[u] /\ db' = db
        /\ local'[u].service = local[u].service
    <3>1. CASE \/ FindSchema(u) \/ VersionExists(u) \/ WriteSchema(u)
      BY <1>1, <3>1 DEF FindSchema, VersionExists, WriteSchema, TouchSchema, InsertSchema, Throw,
             Goto, AfterService, Local
    <3>2. CASE FindContainer(u) \/ SwitchContainer(u) \/ InsertContainer(u)
               \/ ReadResult(u) \/ ReadExact(u) \/ Fallback(u) \/ Validate(u)
      BY <1>1, <3>2 DEF FindContainer, SwitchContainer, InsertContainer, ReadResult,
             ReadExact, Fallback, Validate, Throw, Goto, AfterService, AfterSchema,
             AfterContainer, Answered, Local
    <3>3. CASE Toggle(u)
      BY <1>2, <3>3 DEF Toggle, RequestInv, IInv, ToggleRequest
    <3>4. CASE ReadActive(u)
      BY <1>1, <3>4 DEF ReadActive, Goto, AfterService, AfterSchema, AfterContainer, Answered,
             Local
    <3>5. CASE Commit(u) \/ CommitUnanswered(u) \/ Rollback(u) \/ DeleteService(u) \/ Fail(u)
      BY <1>1, <1>2, <3>5 DEF Commit, CommitUnanswered, Rollback, DeleteService, LockService,
         Cascade, Fail, Throw,
             Answer, Goto, AfterService, AfterSchema, AfterContainer, Answered
    <3> QED
      BY <1>7, <3>1, <3>2, <3>3, <3>4, <3>5, DeadlockFails DEF Acts, Step
  <2>2. ServiceSeen(u)
    BY <1>1, <1>2, <2>1 DEF StillThere
  <2>3. work'[u].services = work[u].services
    <3>1. ~Ends(u)
      BY <1>1, <1>2 DEF Ends, Commit, CommitUnanswered, Rollback, Cascade, Answer, Goto,
             AfterService, AfterSchema, AfterContainer, Answered
    <3> QED
      BY <1>7, <3>1, OtherTables
  <2> QED
    BY <2>1, <2>2, <2>3 DEF ServiceSeen
<1> QED
  BY <1>3, <1>4, <1>5, <1>6, <1>7

\* A step is taken by one request, or changes nothing.
LEMMA WhoActs ==
  ASSUME [Next]_vars, ~UNCHANGED vars
  PROVE  \E u \in Txn : Acts(u)
  BY DEF Next, Acts, Finished

\* What a commit adds is what one request had written, and nothing else adds rows.
LEMMA CommittedFrom ==
  ASSUME IInv, NEW u \in Txn, Acts(u)
  PROVE  /\ db'.services \subseteq db.services \cup work[u].services
         /\ db'.schema \subseteq db.schema \cup work[u].schema
         /\ db'.container \subseteq db.container \cup work[u].container
<1>1. CASE db' = db
  BY <1>1
<1>2. CASE Publish(u)
  BY <1>2, ViewFacts DEF Publish
<1>3. CASE Cascade(u)
  BY <1>3 DEF Cascade, Without
<1> QED
  BY <1>1, <1>2, <1>3, StepKinds

\* What a handler looked for and did not find is not committed by another.
LEMMA StillMissingOther ==
  ASSUME IInv, PushInv, SearchInv, ServicesApart, NEW u \in Txn, Acts(u), NEW t \in Txn \ {u}
  PROVE  StillMissing(t)'
<1>1. /\ pc'[t] = pc[t] /\ req'[t] = req[t] /\ local'[t] = local[t] /\ work'[t] = work[t]
      /\ TypeOK
  BY Bystander DEF IInv
<1>2. /\ View(t)'.services \subseteq db.services \cup work[u].services \cup work[t].services
      /\ View(t)'.schema \subseteq db.schema \cup work[u].schema \cup work[t].schema
      /\ View(t)'.container \subseteq db.container \cup work[u].container \cup work[t].container
  BY <1>1, CommittedFrom DEF View, OverlayTables, Overlay
<1>3. ASSUME pc[t] = "insertService"
      PROVE  req[t].name \notin ActiveNames(View(t)')
  <2>1. req[t].kind = "push" /\ Open(t)
    BY <1>3 DEF IInv, RequestInv, PushStatements, PushRequest, Open, Statements
  <2>2. SUFFICES ASSUME NEW s \in View(t)'.services, s.name = req[t].name
                 PROVE  FALSE
    BY DEF ActiveNames
  <2>3. CASE s \in db.services \cup work[t].services
    <3>1. s.id \in Ids(View(t).services)
      BY <2>3, ViewFacts DEF Ids
    <3>2. PICK r \in View(t).services : r.id = s.id
      BY <3>1 DEF Ids
    <3>3. r \in AllServices /\ s \in AllServices
      BY <2>3, ViewFacts DEF AllServices
    <3>4. r.name = s.name
      BY <3>2, <3>3 DEF IInv, ServicesInv
    <3> QED
      BY <1>3, <2>2, <3>4 DEF SearchInv, StillMissing, ActiveNames
  <2>4. CASE s \in work[u].services
    <3>1. req[u].kind = "push" /\ s.name = req[u].name
      BY <2>4 DEF SearchInv, OwnRows
    <3>2. Open(u)
      BY <2>4 DEF SearchInv, AtRest, NoRows
    <3> QED
      BY <2>1, <2>2, <3>1, <3>2 DEF ServicesApart
  <2> QED
    BY <1>2, <2>3, <2>4
<1>4. ASSUME pc[t] \in {"versionExists", "writeSchema"}, local[t].schema = None
      PROVE  FindExisting(t)' = {}
  <2>1. req[t].kind = "push" /\ pc[t] \in AfterService
    BY <1>4 DEF IInv, RequestInv, PushStatements, PushRequest, AfterService
  <2>2. SUFFICES ASSUME NEW s \in View(t)'.schema, s.service = local[t].service,
                        s.def = req[t].def
                 PROVE  FALSE
    BY <1>1 DEF FindExisting
  <2>3. PICK q \in db.schema \cup work[t].schema :
          q.service = s.service /\ q.def = s.def
    BY <1>2, <2>1, <2>2, OthersRows
  <2>4. q.id \in Ids(View(t).schema)
    BY <2>3, ViewFacts DEF Ids
  <2>5. PICK r \in View(t).schema : r.id = q.id
    BY <2>4 DEF Ids
  <2>6. r \in AllSchemas /\ q \in AllSchemas
    BY <2>3, ViewFacts DEF AllSchemas
  <2>7. r.service = q.service /\ r.def = q.def
    BY <2>5, <2>6 DEF IInv, SchemasInv
  <2> QED
    BY <1>4, <2>2, <2>3, <2>7 DEF FindExisting, SearchInv, StillMissing
<1>5. ASSUME pc[t] = "insertContainer"
      PROVE  \A c \in Bound(t)' : req[t].version # Dev /\ c.schema # local[t].schema
  <2>1. req[t].kind = "push" /\ pc[t] \in AfterService /\ work[t].container = {}
    BY <1>5 DEF IInv, RequestInv, HandlerInv, PushStatements, PushRequest, AfterService,
                AfterSchema
  <2>2. View(t).container = db.container
    BY <2>1 DEF View, OverlayTables, Overlay, Ids
  <2>3. ASSUME NEW c \in Bound(t)'
        PROVE  c \in Bound(t)
    <3>1. c \in db.container
      BY <1>1, <1>2, <2>1, <2>3, OthersRows DEF Bound
    <3> QED
      BY <1>1, <2>2, <2>3, <3>1 DEF Bound
  <2> QED
    BY <1>5, <2>3 DEF SearchInv, StillMissing
<1>6. pc[t] = "versionExists" => local[t].schema = None
  BY DEF SearchInv, StillMissing
<1> QED
  BY <1>1, <1>3, <1>4, <1>5, <1>6 DEF StillMissing

\* The service of a push is not deleted by another.
LEMMA StillThereOther ==
  ASSUME IInv, TakenInv, PushInv, SearchInv, ServicesApart,
         NEW u \in Txn, Acts(u), NEW t \in Txn \ {u}
  PROVE  StillThere(t)'
<1>1. pc'[t] = pc[t] /\ req'[t] = req[t] /\ local'[t] = local[t] /\ work'[t] = work[t]
  BY Bystander
<1>2. SUFFICES ASSUME req[t].kind = "push", pc[t] \in AfterService
               PROVE  local[t].service \in Ids(db'.services) \cup Ids(work[t].services)
  BY <1>1 DEF StillThere, ServiceSeen
<1>3. local[t].service \in Ids(db.services) \cup Ids(work[t].services)
  BY <1>2 DEF SearchInv, StillThere, ServiceSeen
<1>4. CASE db' = db
  BY <1>3, <1>4
<1>5. CASE Publish(u)
  BY <1>3, <1>5, PublishRows DEF IInv
<1>6. CASE Cascade(u)
  <2>1. req[u].kind = "delete" /\ Open(u) /\ Open(t)
    BY <1>2, <1>6 DEF IInv, RequestInv, DeleteRequest, Cascade, Answer, Goto, Open, Statements,
       AfterService, AfterSchema, AfterContainer, Answered
  <2>2. req[u].name # req[t].name
    BY <1>2, <2>1 DEF ServicesApart
  <2>3. PICK s \in AllServices : s.id = local[t].service
    BY <1>3 DEF Ids, AllServices
  <2>4. s.name = req[t].name
    BY <1>2, <2>3 DEF PushInv, PushServiceInv
  <2>5. local[u].service # local[t].service
    BY <2>1, <2>2, <2>3, <2>4 DEF TakenInv
  <2>6. db'.services = {r \in db.services : r.id # local[u].service}
    BY <1>6 DEF Cascade, Without
  <2> QED
    BY <1>3, <2>5, <2>6 DEF Ids
<1> QED
  BY <1>4, <1>5, <1>6, StepKinds

\* The name of a service that a row refers to does not change.
LEMMA NameKept ==
  ASSUME IInv, NEW u \in Txn, Acts(u), NEW i \in Ids(AllServices),
         NEW s \in AllServices', s.id = i
  PROVE  \E r \in AllServices : r.id = i /\ r.name = s.name
<1>1. PICK r \in AllServices : r.id = i
  BY DEF Ids
<1>2. i < nextId.services /\ nextId.services \in Nat
  BY <1>1 DEF IInv, ServicesInv, TypeOK, Id
<1> QED
  BY <1>2, RowsKeep

\* What others have written stays their own.
LEMMA OwnRowsOther ==
  ASSUME IInv, IInv', TakenInv, SearchInv, NEW u \in Txn, Acts(u), NEW t \in Txn \ {u}
  PROVE  OwnRows(t)'
<1>1. req'[t] = req[t] /\ work'[t] = work[t] /\ OwnRows(t)
  BY Bystander DEF SearchInv
<1>2. ASSUME NEW r \in work[t].schema \cup work[t].container
      PROVE  r.service \in Ids(AllServices) /\ r.service \in Ids(AllServices')
  <2>1. r.service \in Ids(db.services) \cup Ids(work[t].services)
    BY <1>2 DEF IInv, ReferencesInv
  <2>2. r.service \in Ids(db'.services) \cup Ids(work'[t].services)
    BY <1>1, <1>2 DEF IInv, ReferencesInv
  <2> QED
    BY <2>1, <2>2 DEF Ids, AllServices
<1>3. ASSUME req[t].kind = "push", NEW r \in work[t].schema \cup work[t].container,
             NEW s \in AllServices', s.id = r.service
      PROVE  s.name = req[t].name
  <2>1. PICK w \in AllServices : w.id = r.service /\ w.name = s.name
    BY <1>2, <1>3, NameKept
  <2> QED
    BY <1>1, <1>3, <2>1 DEF OwnRows
<1>4. ASSUME req[t].kind # "push"
      PROVE  Ids(work[t].schema) \subseteq Ids(db'.schema)
  <2>1. SUFFICES ASSUME NEW r \in work[t].schema
                 PROVE  r.id \in Ids(db'.schema)
    BY DEF Ids
  <2>2. PICK q \in db.schema : q.id = r.id
    BY <1>1, <1>4 DEF OwnRows, Ids
  <2>3. q.service = r.service
    BY <2>2 DEF IInv, SchemasInv, AllSchemas
  <2> QED
    BY <1>2, <2>2, <2>3, CommittedStay
<1> QED
  BY <1>1, <1>3, <1>4 DEF OwnRows

\* What a request writes is of the service it names.
LEMMA OwnRowsStep ==
  ASSUME IInv, PushInv, SearchInv, NEW u \in Txn, Acts(u)
  PROVE  OwnRows(u)'
<1>1. /\ TypeOK /\ RequestInv /\ OwnRows(u) /\ work \in [Txn -> Tables]
      /\ req \in [Txn -> Requests \cup {NoRequest}]
  BY DEF IInv, TypeOK, SearchInv
<1>2. CASE work'[u] = NoRows
  BY <1>2 DEF OwnRows, NoRows, Ids
<1>3. CASE work' = work /\ db' = db /\ req'[u] = req[u]
  BY <1>1, <1>3 DEF OwnRows, AllServices
<1>4. ASSUME req[u].kind = "push", pc[u] \in AfterService, NEW s \in AllServices,
             s.id = local[u].service
      PROVE  s.name = req[u].name
  BY <1>4 DEF PushInv, PushServiceInv
<1>5. CASE InsertService(u)
  <2>1. CASE Throw(u, "insertService", "constraint")
    BY <1>3, <2>1 DEF Throw
  <2>2. CASE ~Throw(u, "insertService", "constraint")
    <3> DEFINE row == [id |-> nextId.services, name |-> req[u].name, url |-> req[u].url]
    <3>1. /\ work' = [work EXCEPT ![u].services = Overlay(@, {row})]
          /\ db' = db /\ req' = req /\ pc[u] = "insertService"
      BY <1>5, <2>2 DEF InsertService, Goto
    <3>2. row.name = req[u].name
      OBVIOUS
    <3> HIDE DEF row
    <3>3. req[u].kind = "push"
      BY <1>1, <3>1 DEF RequestInv, PushStatements, PushRequest
    <3>4. /\ \A s \in work'[u].services : s = row \/ s \in work[u].services
          /\ work'[u].schema = work[u].schema /\ work'[u].container = work[u].container
      BY <1>1, <3>1 DEF Tables, Overlay
    <3>5. ASSUME NEW r \in work[u].schema \cup work[u].container,
                 NEW s \in AllServices', s.id = r.service
          PROVE  s.name = req[u].name
      <4>1. r.service \in Ids(db.services) \cup Ids(work[u].services)
        BY <3>5 DEF IInv, ReferencesInv
      <4>2. r.service \in Ids(AllServices)
        BY <4>1 DEF Ids, AllServices
      <4>3. PICK w \in AllServices : w.id = r.service /\ w.name = s.name
        BY <3>5, <4>2, NameKept
      <4> QED
        BY <1>1, <3>3, <3>5, <4>3 DEF OwnRows
    <3> QED
      BY <1>1, <3>1, <3>2, <3>3, <3>4, <3>5 DEF OwnRows
  <2> QED
    BY <2>1, <2>2
<1>6. CASE UpdateUrl(u)
  <2> DEFINE rows == {[s EXCEPT !.url = req[u].url] :
                        s \in {s \in View(u).services : s.id = local[u].service}}
  <2>1. /\ work' = [work EXCEPT ![u].services = Overlay(@, rows)]
        /\ db' = db /\ req' = req /\ pc[u] = "updateUrl"
    BY <1>6 DEF UpdateUrl, Goto
  <2>2. req[u] \in PushRequest /\ req[u].kind = "push" /\ pc[u] \in AfterService
    BY <1>1, <2>1 DEF RequestInv, PushStatements, PushRequest, AfterService
  <2>3. View(u).services \subseteq AllServices /\ View(u).services \in SUBSET ServiceRow
    BY <1>1, ViewFacts, ViewType DEF AllServices, Tables
  <2>4. \A s \in rows : s.name = req[u].name
    BY <1>4, <2>2, <2>3 DEF ServiceRow
  <2>5. rows \in SUBSET ServiceRow
    BY <2>2, <2>3 DEF ServiceRow, PushRequest
  <2> HIDE DEF rows
  <2>6. /\ \A s \in work'[u].services : s \in rows \/ s \in work[u].services
        /\ work'[u].schema = work[u].schema /\ work'[u].container = work[u].container
    BY <1>1, <2>1 DEF Tables, Overlay
  <2>7. ASSUME NEW r \in work[u].schema \cup work[u].container,
               NEW s \in AllServices', s.id = r.service
        PROVE  s.name = req[u].name
    <3>1. r.service \in Ids(db.services) \cup Ids(work[u].services)
      BY <2>7 DEF IInv, ReferencesInv
    <3>2. r.service \in Ids(AllServices)
      BY <3>1 DEF Ids, AllServices
    <3>3. PICK w \in AllServices : w.id = r.service /\ w.name = s.name
      BY <2>7, <3>2, NameKept
    <3> QED
      BY <1>1, <2>2, <2>7, <3>3 DEF OwnRows
  <2> QED
    BY <1>1, <2>1, <2>2, <2>4, <2>6, <2>7 DEF OwnRows
<1>7. ASSUME NEW rows \in SUBSET SchemaRow, db' = db, req' = req,
             work' = [work EXCEPT ![u].schema = Overlay(@, rows)],
             req[u].kind = "push", pc[u] \in AfterService,
             \A r \in rows : r.service = local[u].service
      PROVE  OwnRows(u)'
  <2>1. /\ AllServices' = AllServices
        /\ work'[u].schema \subseteq work[u].schema \cup rows
        /\ work'[u].services = work[u].services /\ work'[u].container = work[u].container
    BY <1>1, <1>7, WriteSchemas
  <2> QED
    BY <1>1, <1>4, <1>7, <2>1 DEF OwnRows
<1>8. ASSUME NEW rows \in SUBSET ContainerRow, db' = db, req' = req,
             work' = [work EXCEPT ![u].container = Overlay(@, rows)],
             work[u].container = {}, req[u].kind = "push", pc[u] \in AfterService,
             \A c \in rows : c.service = local[u].service
      PROVE  OwnRows(u)'
  <2>1. /\ AllServices' = AllServices /\ work'[u].container = rows
        /\ work'[u].services = work[u].services /\ work'[u].schema = work[u].schema
    BY <1>1, <1>8, WriteContainers
  <2> QED
    BY <1>1, <1>4, <1>8, <2>1 DEF OwnRows
<1>9. CASE TouchSchema(u)
  <2>1. PICK rows \in SUBSET SchemaRow :
           /\ db' = db
           /\ work' = [work EXCEPT ![u].schema = Overlay(@, rows)]
           /\ \A r \in rows : \E s \in View(u).schema : s.id = r.id /\ s.service = r.service
           /\ \A r \in rows : r.id = local[u].schema
    <3>1. PICK rows \in SUBSET SchemaRow :
             /\ db' = db
             /\ work' = [work EXCEPT ![u].schema = Overlay(@, rows)]
             /\ \A r \in rows : \E s \in View(u).schema :
                  /\ s.id = r.id /\ s.service = r.service /\ s.def = r.def /\ s.added = r.added
                  /\ TouchSchema(u) => s.active = r.active
             /\ TouchSchema(u) => \A r \in rows : r.id = local[u].schema
             /\ TouchSchema(u) /\ local[u].schema \in Ids(View(u).schema) => rows # {}
             /\ (\A s, r \in View(u).schema : s.id = r.id => s = r)
                  => \A s, r \in rows : s.id = r.id => s = r
      BY <1>9, SchemaUpdate
    <3> QED
      BY <1>9, <3>1
  <2>2. req' = req /\ req[u].kind = "push" /\ pc[u] \in AfterService
    BY <1>1, <1>9 DEF TouchSchema, RequestInv, PushStatements, PushRequest, AfterService
  <2>3. \A s \in View(u).schema : s.id = local[u].schema => s.service = local[u].service
    BY ViewFacts DEF IInv, HandlerInv, AllSchemas
  <2>4. \A r \in rows : r.service = local[u].service
    BY <2>1, <2>3
  <2> QED
    BY <1>7, <2>1, <2>2, <2>4
<1>10. CASE InsertSchema(u)
  <2>1. CASE Throw(u, "writeSchema", "constraint")
    BY <1>3, <2>1 DEF Throw
  <2>2. CASE ~Throw(u, "writeSchema", "constraint")
    <3>1. /\ {NewSchema(u)} \in SUBSET SchemaRow /\ db' = db /\ req' = req
          /\ work' = [work EXCEPT ![u].schema = Overlay(@, {NewSchema(u)})]
      BY <1>10, <2>2, SchemaInsert
    <3>2. req[u].kind = "push" /\ pc[u] \in AfterService
      BY <1>1, <1>10 DEF InsertSchema, RequestInv, PushStatements, PushRequest, AfterService
    <3>3. \A r \in {NewSchema(u)} : r.service = local[u].service
      BY DEF NewSchema
    <3> QED
      BY <1>7, <3>1, <3>2, <3>3
  <2> QED
    BY <2>1, <2>2
<1>11. CASE SwitchContainer(u) \/ InsertContainer(u)
  <2>1. /\ req[u] \in PushRequest /\ req[u].kind = "push" /\ pc[u] \in AfterService
        /\ work[u].container = {} /\ req' = req
    BY <1>1, <1>11 DEF SwitchContainer, InsertContainer, RequestInv, PushStatements, PushRequest,
       AfterService, AfterSchema, IInv, HandlerInv, Goto, Throw
  <2>2. \/ work' = work /\ db' = db
        \/ \E rows \in SUBSET ContainerRow :
             /\ work' = [work EXCEPT ![u].container = Overlay(@, rows)]
             /\ db' = db /\ \A c \in rows : c.service = local[u].service
    <3>1. CASE SwitchContainer(u)
      <4> DEFINE rows == {Rebound(c, local[u].schema) : c \in Bound(u)}
      <4>1. \/ work' = work /\ db' = db
            \/ /\ work' = [work EXCEPT ![u].container = Overlay(@, rows)] /\ db' = db
               /\ local[u].schema \in Ids(View(u).schema) \/ Bound(u) = {}
        BY <3>1 DEF SwitchContainer, Throw
      <4>2. View(u).container \in SUBSET ContainerRow /\ View(u).schema \in SUBSET SchemaRow
        BY <1>1, ViewType DEF Tables
      <4>3. local[u].schema \in Ids(View(u).schema) \/ Bound(u) = {} =>
              rows \in SUBSET ContainerRow
        BY <4>2 DEF Rebound, Bound, ContainerRow, SchemaRow, Ids
      <4>4. \A c \in rows : c.service = local[u].service
        BY <4>2 DEF Rebound, Bound, ContainerRow
      <4> HIDE DEF rows
      <4> QED
        BY <4>1, <4>3, <4>4
    <3>2. CASE InsertContainer(u)
      <4> DEFINE row == [id |-> nextId.container, service |-> local[u].service,
                         schema |-> local[u].schema, version |-> req[u].version,
                         added |-> local[u].time]
      <4>1. \/ work' = work /\ db' = db
            \/ /\ work' = [work EXCEPT ![u].container = Overlay(@, {row})] /\ db' = db
               /\ local[u].service \in Ids(View(u).services)
               /\ local[u].schema \in Ids(View(u).schema)
        BY <3>2 DEF InsertContainer, Throw
      <4>2. /\ View(u).services \in SUBSET ServiceRow /\ View(u).schema \in SUBSET SchemaRow
            /\ nextId.container \in Id /\ local[u] \in Local
        BY <1>1, ViewType DEF Tables, TypeOK
      <4>3. /\ local[u].service \in Ids(View(u).services)
            /\ local[u].schema \in Ids(View(u).schema)
            => {row} \in SUBSET ContainerRow
        <5>1. SUFFICES ASSUME local[u].service \in Ids(View(u).services),
                              local[u].schema \in Ids(View(u).schema)
                       PROVE  row \in ContainerRow
          OBVIOUS
        <5>2. local[u].service \in Id /\ local[u].schema \in Id
          BY <4>2, <5>1 DEF Ids, ServiceRow, SchemaRow
        <5> QED
          BY <2>1, <4>2, <5>2 DEF ContainerRow, PushRequest, Local
      <4>4. \A c \in {row} : c.service = local[u].service
        OBVIOUS
      <4> HIDE DEF row
      <4> QED
        BY <4>1, <4>3, <4>4
    <3> QED
      BY <1>11, <3>1, <3>2
  <2> QED
    BY <1>3, <1>8, <2>1, <2>2
<1>12. CASE Toggle(u) /\ ~TouchSchema(u)
  <2>1. PICK rows \in SUBSET SchemaRow :
           /\ db' = db
           /\ work' = [work EXCEPT ![u].schema = Overlay(@, rows)]
           /\ \A r \in rows : \E s \in View(u).schema : s.id = r.id
    <3>1. PICK rows \in SUBSET SchemaRow :
             /\ db' = db
             /\ work' = [work EXCEPT ![u].schema = Overlay(@, rows)]
             /\ \A r \in rows : \E s \in View(u).schema :
                  /\ s.id = r.id /\ s.service = r.service /\ s.def = r.def /\ s.added = r.added
                  /\ TouchSchema(u) => s.active = r.active
             /\ TouchSchema(u) => \A r \in rows : r.id = local[u].schema
             /\ TouchSchema(u) /\ local[u].schema \in Ids(View(u).schema) => rows # {}
             /\ (\A s, r \in View(u).schema : s.id = r.id => s = r)
                  => \A s, r \in rows : s.id = r.id => s = r
      BY <1>12, SchemaUpdate
    <3> QED
      BY <3>1
  <2>2. req' = req /\ req[u].kind = "toggle"
    BY <1>1, <1>12 DEF Toggle, RequestInv, ToggleRequest
  <2>3. /\ Ids(work'[u].schema) = Ids(work[u].schema) \cup Ids(rows)
        /\ work'[u].services = work[u].services /\ work'[u].container = work[u].container
    BY <1>1, <2>1, WriteSchemas
  <2>4. Ids(rows) \subseteq Ids(db.schema) \cup Ids(work[u].schema)
    BY <2>1, ViewFacts DEF Ids
  <2> QED
    BY <1>1, <2>1, <2>2, <2>3, <2>4 DEF OwnRows
<1>13. CASE Begin(u)
  <2>1. pc[u] = "idle" /\ work' = work
    BY <1>13 DEF Begin, Goto
  <2>2. work[u] = NoRows
    BY <2>1 DEF IInv, HandlerInv
  <2> QED
    BY <1>2, <2>1, <2>2
<1>14. CASE Commit(u) \/ CommitUnanswered(u) \/ Rollback(u)
  BY <1>1, <1>2, <1>14 DEF Commit, CommitUnanswered, Rollback, Publish
<1>15. CASE DeleteService(u)
  <2>1. pc[u] \in {"delete", "cascade"} /\ work' = work
    BY <1>15 DEF DeleteService, LockService, Cascade, Answer, Goto
  <2>2. work[u] = NoRows
    BY <2>1 DEF IInv, HandlerInv
  <2> QED
    BY <1>2, <2>1, <2>2
<1>16. CASE \/ GetService(u) \/ FindSchema(u) \/ VersionExists(u) \/ FindContainer(u)
            \/ ReadResult(u) \/ ReadExact(u) \/ Fallback(u) \/ ReadActive(u) \/ Validate(u)
            \/ Fail(u)
  BY <1>3, <1>16 DEF GetService, FindSchema, VersionExists, FindContainer, ReadResult,
     ReadExact, Fallback, ReadActive, Validate, Fail, Throw
<1> QED
  BY <1>5, <1>6, <1>9, <1>10, <1>11, <1>12, <1>13, <1>14, <1>15, <1>16, DeadlockFails
     DEF Acts, Step, WriteSchema

\* What a handler found missing stays missing, and what it found stays.
LEMMA SearchStep ==
  IInv /\ IInv' /\ TakenInv /\ PushInv /\ SearchInv /\ ServicesApart /\ [Next]_vars
    => SearchInv'
<1>1. SUFFICES ASSUME IInv, IInv', TakenInv, PushInv, SearchInv, ServicesApart, [Next]_vars
               PROVE  SearchInv'
  OBVIOUS
<1>2. CASE UNCHANGED vars
  BY <1>1, <1>2 DEF vars, SearchInv, AtRest, OneSchemaPerDef, StillMissing, StillThere, OwnRows,
       Open, View, AllSchemas, AllServices, FindExisting, Bound, ServiceSeen
<1>3. ASSUME NEW u \in Txn, Acts(u)
      PROVE  SearchInv'
  <2>1. AtRest'
    BY <1>1, <1>3, AtRestStep DEF SearchInv
  <2>2. OneSchemaPerDef'
    BY <1>1, <1>3, OneSchemaStep
  <2>3. ASSUME NEW t \in Txn
        PROVE  StillMissing(t)' /\ StillThere(t)' /\ OwnRows(t)'
    <3>1. CASE t = u
      BY <1>1, <1>3, <3>1, StillMissingStep, StillThereStep, OwnRowsStep
    <3>2. CASE t # u
      <4>1. t \in Txn \ {u}
        BY <3>2
      <4> QED
        BY <1>1, <1>3, <4>1, StillMissingOther, StillThereOther, OwnRowsOther
    <3> QED
      BY <3>1, <3>2
  <2> QED
    BY <2>1, <2>2, <2>3 DEF SearchInv
<1> QED
  BY <1>1, <1>2, <1>3, WhoActs

\* While the pushes and the deletion of one service do not overlap, nothing a
\* handler looked for comes or goes before it uses what it found, whatever else
\* goes on (src/src/database/schema.ts, registerSchema).
THEOREM SearchInvariance == Spec /\ []ServicesApart => []SearchInv
<1>1. Init => SearchInv
  <2>1. SUFFICES ASSUME Init PROVE SearchInv
    OBVIOUS
  <2>2. AllSchemas = {}
    BY <2>1 DEF Init, AllSchemas, NoRows
  <2>3. \A t \in Txn : OwnRows(t)
    BY <2>1 DEF Init, NoRows, OwnRows, Ids
  <2> QED
    BY <2>1, <2>2, <2>3 DEF Init, SearchInv, AtRest, OneSchemaPerDef, StillMissing, StillThere,
         NoRequest
<1>2. IInv /\ IInv' /\ TakenInv /\ PushInv /\ SearchInv /\ ServicesApart /\ [Next]_vars
        => SearchInv'
  BY SearchStep
<1> QED
  BY <1>1, <1>2, Invariance, TakenInvariance, PushInvariance, PTL DEF Spec

\* Requests that do not overlap leave those of one service apart.
LEMMA OneApart == OneAtATime => ServicesApart
  BY DEF OneAtATime, ServicesApart

\* So it is while requests do not overlap at all.
LEMMA SearchAlone == Spec /\ []OneAtATime => []SearchInv
  BY OneApart, SearchInvariance, PTL

\* With one connection in the pool requests do not overlap.
THEOREM OneConnection == PoolSize = 1 => (Spec => []OneAtATime)
<1>1. Init => OneAtATime
  BY DEF Init, OneAtATime, Open, Statements, Refusals
<1>2. ASSUME PoolSize = 1, IInv, OneAtATime, [Next]_vars
      PROVE  OneAtATime'
  <2>1. CASE UNCHANGED vars
    BY <1>2, <2>1 DEF vars, OneAtATime, Open
  <2>2. ASSUME NEW u \in Txn, Acts(u)
        PROVE  OneAtATime'
    <3>1. \A t \in Txn \ {u} : Open(t)' <=> Open(t)
      BY <1>2, <2>2, Bystander DEF Open
    <3>2. CASE Begin(u)
      <4>1. Cardinality({t \in Txn : Open(t)}) < 1
        BY <1>2, <3>2 DEF Begin
      <4>2. \A t \in Txn : ~Open(t)
        <5>1. SUFFICES ASSUME NEW t \in Txn, Open(t)
                       PROVE  FALSE
          OBVIOUS
        <5>2. {v \in Txn : Open(v)} = {t}
          BY <1>2, <5>1 DEF OneAtATime
        <5>3. Cardinality({t}) = 1
          BY FS_Singleton
        <5> QED
          BY <4>1, <5>2, <5>3
      <4> QED
        BY <3>1, <4>2 DEF OneAtATime
    <3>3. CASE ~Begin(u)
      <4>1. Open(u)
        BY <1>2, <2>2, <3>3, ActsOpen
      <4> QED
        BY <1>2, <3>1, <4>1 DEF OneAtATime
    <3> QED
      BY <3>2, <3>3
  <2> QED
    BY <1>2, <2>1, <2>2, WhoActs
<1>3. CASE PoolSize = 1
  <2>1. IInv /\ OneAtATime /\ [Next]_vars => OneAtATime'
    BY <1>2, <1>3
  <2> QED
    BY <1>1, <2>1, Invariance, PTL DEF Spec
<1> QED
  BY <1>3

\* Who moves a request's handler.
LEMMA WhoMoves ==
  ASSUME IInv, [Next]_vars, NEW t \in Txn, pc'[t] # pc[t]
  PROVE  Acts(t)
<1>1. ~UNCHANGED vars
  BY DEF vars
<1>2. PICK u \in Txn : Acts(u)
  BY <1>1, WhoActs
<1>3. u = t
  BY <1>2, Bystander
<1> QED
  BY <1>2, <1>3

\* A refused statement of a push is one that found what it must not find.
LEMMA RefusedStatement ==
  ASSUME IInv, NEW t \in Txn, Acts(t), req[t].kind = "push", pc[t] \in Statements,
         pc'[t] \in {"conflict", "constraint"}
  PROVE  \/ pc[t] = "insertService" /\ req[t].name \in ActiveNames(View(t))
         \/ pc[t] = "versionExists" /\ Bound(t) # {}
         \/ /\ pc[t] = "writeSchema" /\ local[t].schema = None
            /\ local[t].service \notin Ids(View(t).services)
         \/ pc[t] = "switchContainer" /\ local[t].schema \notin Ids(View(t).schema)
         \/ /\ pc[t] = "insertContainer"
            /\ \/ Bound(t) # {}
               \/ local[t].service \notin Ids(View(t).services)
               \/ local[t].schema \notin Ids(View(t).schema)
<1>1. pc \in [Txn -> Statements \cup Refusals \cup {"idle", "done"}]
  BY DEF IInv, TypeOK
<1>2. CASE InsertService(t) \/ VersionExists(t)
  BY <1>1, <1>2 DEF InsertService, VersionExists, Throw, Goto
<1>3. CASE WriteSchema(t) \/ SwitchContainer(t)
  BY <1>1, <1>3 DEF WriteSchema, TouchSchema, InsertSchema, SwitchContainer, Throw, Goto
<1>4. CASE InsertContainer(t)
  BY <1>1, <1>4 DEF InsertContainer, Throw, Goto
<1>5. CASE Begin(t)
  BY <1>5 DEF Begin, Goto, Statements
<1>6. CASE GetService(t) \/ UpdateUrl(t) \/ FindSchema(t)
           \/ FindContainer(t) \/ ReadResult(t) \/ ReadExact(t) \/ Fallback(t) \/ Toggle(t)
  BY <1>1, <1>6 DEF GetService, UpdateUrl, FindSchema, FindContainer,
                    ReadResult, ReadExact, Fallback, Toggle, Goto
<1>7. CASE \/ ReadActive(t) \/ Validate(t) \/ Fail(t) \/ Ends(t) \/ LockService(t)
  BY <1>1, <1>7 DEF ReadActive, Validate, Fail, Throw, Goto, Commit, CommitUnanswered, Rollback,
                    DeleteService, LockService, Cascade, Answer, Ends
<1> QED
  BY <1>2, <1>3, <1>4, <1>5, <1>6, <1>7, DeadlockFails DEF Acts, Step, DeleteService, Ends

\* The binding a push asks for is of the service and the schema it has found.
LEMMA FoundWhatIsRegistered ==
  ASSUME IInv, PushInv, SearchInv, NEW t \in Txn, req[t].kind = "push",
         pc[t] \in AfterService, Registered(db, req[t])
  PROVE  \E c \in db.container, r \in db.schema :
           /\ c.service = local[t].service /\ c.version = req[t].version
           /\ c.schema = r.id /\ r.service = local[t].service /\ r.def = req[t].def
<1>1. PICK s \in db.services :
        /\ s.name = req[t].name
        /\ [service |-> s.id, version |-> req[t].version, def |-> req[t].def] \in Catalog(db)
  BY DEF Registered
<1>2. PICK b \in db.container \X db.schema :
        /\ b[2].id = b[1].schema
        /\ b[1].service = s.id /\ b[1].version = req[t].version /\ b[2].def = req[t].def
  BY <1>1 DEF Catalog
<1>3. s.id = local[t].service
  <2>1. /\ local[t].service \in Ids(db.services) \cup Ids(work[t].services)
        /\ \A v \in AllServices : v.id = local[t].service => v.name = req[t].name
    BY DEF PushInv, PushServiceInv, SearchInv, StillThere, ServiceSeen
  <2>2. PICK v \in AllServices : v.id = local[t].service
    BY <2>1 DEF Ids, AllServices
  <2>3. s \in AllServices /\ v.name = s.name
    BY <1>1, <2>1, <2>2 DEF AllServices
  <2> QED
    BY <2>2, <2>3 DEF IInv, ServicesInv
<1>4. b[1] \in db.container /\ b[2] \in db.schema
  OBVIOUS
<1>5. b[2].service = b[1].service
  BY <1>2, <1>4 DEF IInv, ReferencesInv, AllSchemas, AllContainers
<1> QED
  BY <1>2, <1>3, <1>4, <1>5

\* A push of what is registered is not refused.
LEMMA RepeatPasses ==
  ASSUME IInv, PushInv, SearchInv, [Next]_vars, NEW t \in Txn, req[t].kind = "push",
         pc[t] \in Statements, pc'[t] \in {"conflict", "constraint"}
  PROVE  ~Registered(db, req[t])
<1>1. Acts(t)
  <2>1. pc'[t] # pc[t]
    BY DEF Statements
  <2> QED
    BY <2>1, WhoMoves
<1>2. /\ pc[t] \in AfterService => local[t].service \in Ids(View(t).services)
      /\ pc[t] \in AfterSchema => local[t].schema \in Ids(View(t).schema)
  <2>1. pc[t] \in AfterService => ServiceSeen(t)
    BY DEF SearchInv, StillThere
  <2>2. pc[t] \in AfterSchema => pc[t] \in AfterService
    BY DEF AfterService
  <2> QED
    BY <2>1, <2>2, ViewFacts DEF ServiceSeen, PushInv, PushSchemaInv
<1>3. SUFFICES ASSUME Registered(db, req[t])
               PROVE  FALSE
  OBVIOUS
<1>4. CASE pc[t] = "insertService"
  BY <1>1, <1>4, RefusedStatement DEF SearchInv, StillMissing
<1>5. CASE pc[t] \in AfterService
  <2>1. PICK c \in db.container, r \in db.schema :
           /\ c.service = local[t].service /\ c.version = req[t].version
           /\ c.schema = r.id /\ r.service = local[t].service /\ r.def = req[t].def
    BY <1>3, <1>5, FoundWhatIsRegistered
  <2>2. CASE pc[t] = "versionExists"
    <3>1. FindExisting(t) = {}
      BY <2>2 DEF SearchInv, StillMissing
    <3>2. PICK s \in View(t).schema : s.id = r.id /\ s.service = r.service /\ s.def = r.def
      BY SeenAgain
    <3> QED
      BY <2>1, <3>1, <3>2 DEF FindExisting
  <2>3. CASE pc[t] = "insertContainer"
    <3>1. PICK d \in Bound(t) : req[t].version # Dev /\ d.schema # local[t].schema
      <4>1. Bound(t) # {}
        BY <1>1, <1>2, <2>3, RefusedStatement DEF AfterService, AfterSchema
      <4> QED
        BY <2>3, <4>1 DEF SearchInv, StillMissing
    <3>2. d \in AllContainers /\ c \in AllContainers
          /\ d.service = c.service /\ d.version = c.version
      BY <2>1, <3>1, ViewFacts DEF Bound, AllContainers
    <3>3. d.schema = c.schema
      BY <2>1, <3>1, <3>2 DEF IInv, ContainersInv
    <3>4. PICK w \in View(t).schema : w.id = local[t].schema
      BY <1>2, <2>3 DEF AfterSchema, Ids
    <3>5. w \in AllSchemas /\ r \in AllSchemas
      BY ViewFacts DEF AllSchemas
    <3>6. w.service = local[t].service /\ w.def = req[t].def
      BY <1>5, <3>4, <3>5 DEF IInv, HandlerInv, PushInv, PushSchemaInv
    <3>7. w.id = r.id
      BY <2>1, <3>5, <3>6 DEF SearchInv, OneSchemaPerDef
    <3> QED
      BY <2>1, <3>1, <3>3, <3>4, <3>7
  <2>4. CASE pc[t] \notin {"versionExists", "insertContainer"}
    BY <1>1, <1>2, <1>5, <2>4, RefusedStatement DEF AfterService, AfterSchema,
         AfterContainer, Answered
  <2> QED
    BY <2>2, <2>3, <2>4
<1>6. pc[t] = "insertService" \/ pc[t] \in AfterService
  BY <1>1, RefusedStatement DEF AfterService, AfterSchema
<1> QED
  BY <1>4, <1>5, <1>6

\* While the pushes and the deletion of a service come one after another, a push
\* of what is registered already is never refused, whatever is pushed, switched
\* and deleted of the other services meanwhile (src/src/database/schema.ts,
\* registerSchema).
THEOREM RepeatsAccepted == SpecApart => RepeatAccepted
<1>1. IInv /\ PushInv /\ SearchInv /\ [Next]_vars =>
        [\A t \in Txn :
           /\ req[t].kind = "push"
           /\ pc[t] \in Statements /\ pc'[t] \in {"conflict", "constraint"}
           => ~Registered(db, req[t])]_vars
  BY RepeatPasses
<1>2. Init => ServicesApart
  BY DEF Init, ServicesApart, Open, Statements, Refusals
<1>3. ServicesApart /\ [Next /\ ServicesApart']_vars => ServicesApart' /\ [Next]_vars
  BY DEF vars, ServicesApart, Open
<1>4. SpecApart => Spec /\ []ServicesApart
  BY <1>2, <1>3, PTL DEF SpecApart, Spec
<1> QED
  BY <1>1, <1>4, Invariance, PushInvariance, SearchInvariance, PTL DEF Spec, RepeatAccepted

------------------------------------------------------------------------------
(* What is served composes.                                                *)

\* A transaction that wrote nothing sees what is committed.
LEMMA NothingWritten ==
  ASSUME NEW d \in Tables
  PROVE  OverlayTables(d, NoRows) = d
<1>1. \A base : Overlay(base, {}) = base
  BY DEF Overlay, Ids
<1>2. d = [services |-> d.services, schema |-> d.schema, container |-> d.container]
  BY DEF Tables
<1> QED
  BY <1>1, <1>2 DEF OverlayTables, NoRows

\* A transaction that is committed serves a set that composes.
LEMMA CommitComposes ==
  ASSUME IInv, ServedInv, NEW t \in Txn, pc[t] = "commit"
  PROVE  Composes(Served(View(t)))
<1>1. /\ local[t].names = ActiveNames(View(t)) /\ Composes(Composed(t))
      /\ req[t].kind = "validate" => work[t] = NoRows
  BY DEF ServedInv, ComposedInv
<1>2. CASE req[t].kind = "validate"
  <2>1. View(t) = db
    BY <1>1, <1>2, NothingWritten DEF View, IInv, TypeOK
  <2> QED
    BY <2>1 DEF ServedInv, ServedComposes
<1>3. CASE req[t].kind # "validate"
  BY <1>1, <1>3 DEF Composed, Served
<1> QED
  BY <1>2, <1>3

\* A handler commits the set it has read and validated.
LEMMA ComposedStep ==
  ASSUME IInv, AtRest, ComposedInv, OneAtATime, OneAtATime', NEW u \in Txn, Acts(u)
  PROVE  ComposedInv'
<1>1. /\ pc \in [Txn -> Statements \cup Refusals \cup {"idle", "done"}]
      /\ local \in [Txn -> Local] /\ req \in [Txn -> Requests \cup {NoRequest}]
      /\ RequestInv
  BY DEF IInv, TypeOK
<1>2. \A t \in Txn \ {u} : pc'[t] \notin Statements
  BY Alone DEF Open
<1>3. SUFFICES
        /\ pc'[u] \in {"validate", "commit"} => local'[u].names = ActiveNames(View(u)')
        /\ pc'[u] = "commit" => Composes(Composed(u)')
        /\ pc'[u] \in {"readActive", "validate", "commit"} /\ req'[u].kind = "validate"
             => work'[u] = NoRows
  BY <1>2 DEF ComposedInv, Statements
<1>4. CASE Begin(u)
  <2>1. PICK r \in Requests : Goto(u, "idle", FirstStatement(r))
    BY <1>4 DEF Begin
  <2>2. FirstStatement(r) \in {"getService", "toggle", "delete", "readActive"}
    BY <2>1, RequestAssumption DEF FirstStatement, Request, PushRequest, ToggleRequest,
                   DeleteRequest, ValidateRequest
  <2>3. work'[u] = NoRows
    BY <1>1, <1>4, <2>1 DEF Begin, Goto, AtRest, Open, Statements, Refusals
  <2> QED
    BY <1>1, <2>1, <2>2, <2>3 DEF Goto
<1>5. CASE ReadActive(u)
  <2>1. pc[u] = "readActive" /\ pc'[u] = "validate"
    BY <1>1, <1>5 DEF ReadActive, Goto
  <2>2. View(u)' = View(u) /\ req' = req /\ work' = work
    BY <1>5 DEF ReadActive, View
  <2>3. local'[u].names = ActiveNames(View(u))
    BY <1>1, <1>5 DEF ReadActive, Local
  <2> QED
    BY <2>1, <2>2, <2>3 DEF ComposedInv
<1>6. CASE Validate(u)
  <2>1. View(u)' = View(u) /\ req' = req /\ work' = work /\ local' = local
    BY <1>6 DEF Validate, Throw, View
  <2>2. pc[u] = "validate" /\ (pc'[u] = "invalid" \/ (pc'[u] = "commit" /\ Composes(Composed(u))))
    BY <1>1, <1>6 DEF Validate, Throw, Goto
  <2>3. Composed(u)' = Composed(u)
    BY <2>1 DEF Composed
  <2> QED
    BY <2>1, <2>2, <2>3 DEF ComposedInv
<1>7. CASE Fallback(u) \/ Toggle(u)
  <2>1. pc'[u] = "readActive" /\ req' = req /\ pc[u] \in {"fallback", "toggle"}
    BY <1>1, <1>7 DEF Fallback, Toggle, Goto
  <2>2. req[u].kind # "validate"
    BY <1>1, <2>1 DEF RequestInv, PushStatements, PushRequest, ToggleRequest
  <2> QED
    BY <2>1, <2>2
<1>8. CASE ~Begin(u) /\ ~ReadActive(u) /\ ~Validate(u) /\ ~Fallback(u) /\ ~Toggle(u)
  <2>1. pc'[u] \notin {"readActive", "validate", "commit"}
    <3>1. CASE \/ GetService(u) \/ InsertService(u) \/ UpdateUrl(u)
               \/ FindSchema(u) \/ VersionExists(u) \/ WriteSchema(u)
      BY <1>1, <3>1 DEF GetService, InsertService, UpdateUrl, FindSchema, Throw, Goto,
           VersionExists, WriteSchema, TouchSchema, InsertSchema
    <3>2. CASE FindContainer(u) \/ SwitchContainer(u) \/ InsertContainer(u)
               \/ ReadResult(u) \/ ReadExact(u) \/ Fail(u)
      BY <1>1, <3>2 DEF FindContainer, SwitchContainer, InsertContainer, Throw, Goto,
                        ReadResult, ReadExact, Fail
    <3>3. CASE Ends(u) \/ LockService(u)
      BY <1>1, <3>3 DEF Ends, Commit, CommitUnanswered, Rollback, LockService, Cascade,
                        Answer, Goto
    <3> QED
      BY <1>8, <3>1, <3>2, <3>3, DeadlockFails DEF Acts, Step, DeleteService, Ends
  <2> QED
    BY <2>1
<1> QED
  BY <1>4, <1>5, <1>6, <1>7, <1>8

\* Each commit serves what it validated, and nothing else changes what is served.
LEMMA ServedStep ==
  IInv /\ ServedInv /\ OneAtATime /\ OneAtATime' /\ NoDeletion /\ [Next]_vars => ServedInv'
<1>1. SUFFICES ASSUME IInv, ServedInv, OneAtATime, OneAtATime', NoDeletion, [Next]_vars
               PROVE  ServedInv'
  OBVIOUS
<1>2. CASE UNCHANGED vars
  BY <1>1, <1>2 DEF vars, ServedInv, AtRest, ComposedInv, ServedComposes, Open, View, Composed
<1>3. ASSUME NEW u \in Txn, Acts(u)
      PROVE  ServedInv'
  <2>1. AtRest' /\ ComposedInv'
    BY <1>1, <1>3, AtRestStep, ComposedStep DEF ServedInv
  <2>2. CASE ~Ends(u) \/ Rollback(u)
    <3>1. db' = db
      BY <1>1, <1>3, <2>2, OneTable DEF Rollback
    <3> QED
      BY <1>1, <2>1, <3>1 DEF ServedInv, ServedComposes
  <2>3. CASE Commit(u) \/ CommitUnanswered(u)
    <3>1. pc[u] = "commit" /\ db' = View(u)
      BY <2>3 DEF Commit, CommitUnanswered, Publish, Answer, Goto
    <3>2. Composes(Served(View(u)))
      BY <1>1, <3>1, CommitComposes
    <3> QED
      BY <2>1, <3>1, <3>2 DEF ServedInv, ServedComposes
  <2>4. ~Cascade(u)
    BY <1>1 DEF NoDeletion, Cascade, Answer, Goto
  <2> QED
    BY <2>2, <2>3, <2>4 DEF Ends
<1> QED
  BY <1>1, <1>2, <1>3, WhoActs

\* An empty registry serves nothing, which composes.
LEMMA ServedInit == Init => ServedInv
<1>1. SUFFICES ASSUME Init PROVE ServedInv
  OBVIOUS
<1>2. AtRest /\ ComposedInv
  BY <1>1 DEF Init, AtRest, ComposedInv
<1>3. Served(db) = {}
  BY <1>1 DEF Init, NoRows, Served, LastUpdated, PartsOf
<1> QED
  BY <1>2, <1>3 DEF ServedInv, ServedComposes, Composes

\* While requests do not overlap and no service is deleted, the set of schemas
\* that is served composes (src/src/helpers/federation.ts, validateSchema, called
\* before each commit).
THEOREM ServedInvariance == Spec /\ []OneAtATime /\ []NoDeletion => []ServedComposes
<1>1. Init => ServedInv
  BY ServedInit
<1>2. IInv /\ ServedInv /\ OneAtATime /\ OneAtATime' /\ NoDeletion /\ [Next]_vars => ServedInv'
  BY ServedStep
<1>3. ServedInv => ServedComposes
  BY DEF ServedInv
<1> QED
  BY <1>1, <1>2, <1>3, Invariance, PTL DEF Spec

------------------------------------------------------------------------------
(* The latest schema of a service.                                         *)

\* Among finite sets there is one with no other inside.
LEMMA MinimalSet ==
  ASSUME NEW S, NEW T, T \subseteq FiniteSubsetsOf(S), T # {}
  PROVE  \E x \in T : \A y \in T : ~(y \subseteq x /\ y # x)
<1>1. IsWellFoundedOn(StrictSubsetOrdering(S), FiniteSubsetsOf(S))
  BY FS_StrictSubsetOrderingWellFounded
<1>2. \E x \in T : \A y \in T : ~ (<<y, x>> \in StrictSubsetOrdering(S))
  BY <1>1, WFMin
<1> QED
  BY <1>2 DEF StrictSubsetOrdering, FiniteSubsetsOf

\* Bounded naturals have a greatest one.
LEMMA Greatest ==
  ASSUME NEW S \in SUBSET Nat, S # {}, NEW n \in Nat, \A x \in S : x < n
  PROVE  \E m \in S : \A x \in S : x <= m
<1> DEFINE T == {x .. n : x \in S}
<1>1. T \subseteq FiniteSubsetsOf(Nat) /\ T # {}
  <2>1. \A x \in S : IsFiniteSet(x .. n) /\ x .. n \subseteq Nat
    BY FS_Interval
  <2> QED
    BY <2>1 DEF FiniteSubsetsOf
<1>2. \E r \in T : \A y \in T : ~(y \subseteq r /\ y # r)
  <2> HIDE DEF T
  <2> QED
    BY <1>1, MinimalSet
<1>3. PICK m \in S : \A y \in T : ~(y \subseteq m .. n /\ y # m .. n)
  BY <1>2
<1>4. ASSUME NEW x \in S
      PROVE  x <= m
  <2>1. SUFFICES ASSUME x > m
                 PROVE  FALSE
    OBVIOUS
  <2>2. x .. n \subseteq m .. n /\ m \in m .. n /\ m \notin x .. n
    BY <2>1
  <2> QED
    BY <1>3, <2>2
<1> QED
  BY <1>4

\* The greatest of naturals is what Max chooses.
LEMMA MaxIs ==
  ASSUME NEW S \in SUBSET Nat, NEW m \in S, \A x \in S : x <= m
  PROVE  Max(S) = m
<1> DEFINE k == Max(S)
<1>1. \A x \in S : m >= x
  OBVIOUS
<1>2. k \in S /\ \A x \in S : k >= x
  BY <1>1 DEF Max
<1> HIDE DEF k
<1>3. k = m
  BY <1>2
<1> QED
  BY <1>3 DEF k

\* A service's schemas are bound by containers of its own.
Owned(d) ==
  \A c \in d.container, s \in d.schema : s.id = c.schema => s.service = c.service

\* While times follow the order of the containers, the two maxima of the query
\* pick the binding of the last container (getSchemaLastUpdated).
LEMMA LatestIsLast ==
  ASSUME NEW d \in Tables, NEW i, NEW n \in Nat, \A c \in d.container : c.id < n,
         InOrder(d), Owned(d)
  PROVE  LatestOf(d, i) = LastBinding(d, i)
<1> DEFINE B == Bindings(d, i)
<1>1. \A b \in B : /\ b[1] \in d.container /\ b[2] \in d.schema /\ b = <<b[1], b[2]>>
                   /\ b[1].service = i /\ b[2].id = b[1].schema /\ b[2].service = i
                   /\ b[1].id \in Nat /\ b[1].added \in Nat /\ b[2].added \in Nat
  BY DEF Bindings, Tables, ContainerRow, SchemaRow, Id, Owned
<1>2. CASE B = {}
  BY <1>2 DEF LatestOf, Candidates, LastBinding
<1>3. CASE B # {}
  <2>1. PICK m \in B : \A b \in B : b[1].id <= m[1].id
    <3>1. {b[1].id : b \in B} \in SUBSET Nat /\ {b[1].id : b \in B} # {}
          /\ \A x \in {b[1].id : b \in B} : x < n
      BY <1>1, <1>3
    <3> QED
      BY <3>1, Greatest
  <2>2. \A b \in B : b[1].id = m[1].id => b = m
    <3>1. \A b \in B : b[1].id = m[1].id => b[1] = m[1] /\ b[2] = m[2]
      BY <1>1 DEF InOrder
    <3> QED
      BY <1>1, <3>1
  <2>3. \A b \in B : b # m => b[1].id < m[1].id /\ b[1].added < m[1].added
    BY <1>1, <2>1, <2>2 DEF InOrder
  <2>4. LastBinding(d, i) = {m}
    BY <2>1, <2>3, <1>1 DEF LastBinding
  <2>5. Max({b[1].id : b \in B}) = m[1].id /\ Max({b[1].added : b \in B}) = m[1].added
    <3>1. \A b \in B : b[1].added <= m[1].added
      BY <1>1, <2>3
    <3>2. Max({b[1].id : b \in B}) = m[1].id
      <4> DEFINE S == {b[1].id : b \in B}
      <4>1. S \in SUBSET Nat /\ m[1].id \in S /\ \A x \in S : x <= m[1].id
        BY <1>1, <2>1
      <4> HIDE DEF S
      <4>2. Max(S) = m[1].id
        BY <4>1, MaxIs
      <4> QED
        BY <4>2 DEF S
    <3>3. Max({b[1].added : b \in B}) = m[1].added
      <4> DEFINE S == {b[1].added : b \in B}
      <4>1. S \in SUBSET Nat /\ m[1].added \in S /\ \A x \in S : x <= m[1].added
        BY <1>1, <2>1, <3>1
      <4> HIDE DEF S
      <4>2. Max(S) = m[1].added
        BY <4>1, MaxIs
      <4> QED
        BY <4>2 DEF S
    <3> QED
      BY <3>2, <3>3
  <2>6. Candidates(d, i) = {b \in B : b[2].added = m[1].added \/ b[1].id = m[1].id}
    BY <2>5 DEF Candidates
  <2>7. ASSUME NEW b \in Candidates(d, i), b # m
        PROVE  Before(m, b) /\ ~Before(b, m)
    <3>1. b \in B /\ b[2].added = m[1].added /\ b[1].added < m[1].added /\ b[1].id < m[1].id
      BY <2>2, <2>3, <2>6, <2>7
    <3>2. b[1].version = Dev
      BY <1>1, <3>1 DEF InOrder
    <3>3. m[1].version # Dev
      BY <1>1, <3>1, <3>2 DEF InOrder
    <3>4. m[2] = b[2]
      BY <1>1, <3>1, <3>3 DEF InOrder
    <3> QED
      BY <1>1, <3>1, <3>4 DEF Before
  <2>8. m \in Candidates(d, i) /\ Before(m, m)
    BY <1>1, <2>6 DEF Before
  <2>9. LatestOf(d, i) = {m}
    BY <2>7, <2>8 DEF LatestOf
  <2> QED
    BY <2>4, <2>9
<1> QED
  BY <1>2, <1>3

------------------------------------------------------------------------------
(* What a statement writes, and what its transaction sees of it.           *)

\* What is written twice is seen once.
LEMMA OverlayTwice ==
  ASSUME NEW base, NEW own, NEW rows
  PROVE  Overlay(base, Overlay(own, rows)) = Overlay(Overlay(base, own), rows)
<1>1. \A r : r.id \in Ids(Overlay(own, rows)) => r.id \in Ids(own) \cup Ids(rows)
  BY DEF Ids, Overlay
<1>2. Ids(Overlay(own, rows)) = Ids(own) \cup Ids(rows)
  BY DEF Ids, Overlay
<1> QED
  BY <1>2 DEF Overlay

\* A transaction sees the rows it writes in the place of those they are versions of.
LEMMA ViewWrites ==
  ASSUME TypeOK, NEW t \in Txn, NEW rows, db' = db
  PROVE  /\ work' = [work EXCEPT ![t].services = Overlay(@, rows)]
              => /\ View(t)'.services = Overlay(View(t).services, rows)
                 /\ View(t)'.schema = View(t).schema /\ View(t)'.container = View(t).container
         /\ work' = [work EXCEPT ![t].schema = Overlay(@, rows)]
              => /\ View(t)'.schema = Overlay(View(t).schema, rows)
                 /\ View(t)'.services = View(t).services /\ View(t)'.container = View(t).container
         /\ work' = [work EXCEPT ![t].container = Overlay(@, rows)]
              => /\ View(t)'.container = Overlay(View(t).container, rows)
                 /\ View(t)'.services = View(t).services /\ View(t)'.schema = View(t).schema
<1>1. work \in [Txn -> Tables]
  BY DEF TypeOK
<1>2. /\ View(t).services = Overlay(db.services, work[t].services)
      /\ View(t).schema = Overlay(db.schema, work[t].schema)
      /\ View(t).container = Overlay(db.container, work[t].container)
      /\ View(t)'.services = Overlay(db.services, work'[t].services)
      /\ View(t)'.schema = Overlay(db.schema, work'[t].schema)
      /\ View(t)'.container = Overlay(db.container, work'[t].container)
  BY DEF View, OverlayTables
<1>3. ASSUME work' = [work EXCEPT ![t].services = Overlay(@, rows)]
      PROVE  /\ work'[t].services = Overlay(work[t].services, rows)
             /\ work'[t].schema = work[t].schema /\ work'[t].container = work[t].container
  BY <1>1, <1>3 DEF Tables
<1>4. ASSUME work' = [work EXCEPT ![t].schema = Overlay(@, rows)]
      PROVE  /\ work'[t].schema = Overlay(work[t].schema, rows)
             /\ work'[t].services = work[t].services /\ work'[t].container = work[t].container
  BY <1>1, <1>4 DEF Tables
<1>5. ASSUME work' = [work EXCEPT ![t].container = Overlay(@, rows)]
      PROVE  /\ work'[t].container = Overlay(work[t].container, rows)
             /\ work'[t].services = work[t].services /\ work'[t].schema = work[t].schema
  BY <1>1, <1>5 DEF Tables
<1>6. ASSUME work' = [work EXCEPT ![t].services = Overlay(@, rows)]
      PROVE  /\ View(t)'.services = Overlay(View(t).services, rows)
             /\ View(t)'.schema = View(t).schema /\ View(t)'.container = View(t).container
  BY <1>2, <1>3, <1>6, OverlayTwice
<1>7. ASSUME work' = [work EXCEPT ![t].schema = Overlay(@, rows)]
      PROVE  /\ View(t)'.schema = Overlay(View(t).schema, rows)
             /\ View(t)'.services = View(t).services /\ View(t)'.container = View(t).container
  BY <1>2, <1>4, <1>7, OverlayTwice
<1>8. ASSUME work' = [work EXCEPT ![t].container = Overlay(@, rows)]
      PROVE  /\ View(t)'.container = Overlay(View(t).container, rows)
             /\ View(t)'.services = View(t).services /\ View(t)'.schema = View(t).schema
  BY <1>2, <1>5, <1>8, OverlayTwice
<1> QED
  BY <1>6, <1>7, <1>8

\* The row of a new container.
NewContainer(t) ==
  [id |-> nextId.container, service |-> local[t].service, schema |-> local[t].schema,
   version |-> req[t].version, added |-> local[t].time]

\* A container is inserted for a version that is free, or refused.
LEMMA ContainerInsert ==
  ASSUME IInv, NEW t \in Txn, InsertContainer(t)
  PROVE  \/ Throw(t, "insertContainer", "constraint")
         \/ /\ {NewContainer(t)} \in SUBSET ContainerRow
            /\ db' = db /\ req' = req /\ clock' = clock /\ Bound(t) = {}
            /\ work' = [work EXCEPT ![t].container = Overlay(@, {NewContainer(t)})]
            /\ local' = [local EXCEPT ![t].container = nextId.container]
            /\ Goto(t, "insertContainer", "readResult")
<1>1. CASE Throw(t, "insertContainer", "constraint")
  BY <1>1
<1>2. CASE ~Throw(t, "insertContainer", "constraint")
  <2>1. /\ db' = db /\ req' = req /\ clock' = clock /\ Bound(t) = {}
        /\ work' = [work EXCEPT ![t].container = Overlay(@, {NewContainer(t)})]
        /\ local' = [local EXCEPT ![t].container = nextId.container]
        /\ Goto(t, "insertContainer", "readResult")
        /\ local[t].service \in Ids(View(t).services)
        /\ local[t].schema \in Ids(View(t).schema)
    BY <1>2 DEF InsertContainer, NewContainer
  <2>2. /\ View(t).services \in SUBSET ServiceRow /\ View(t).schema \in SUBSET SchemaRow
        /\ local[t] \in Local /\ nextId.container \in Id /\ req[t] \in PushRequest
    BY ViewType DEF IInv, TypeOK, Tables, RequestInv, PushStatements, InsertContainer
  <2>3. local[t].service \in Id /\ local[t].schema \in Id
    BY <2>1, <2>2 DEF Ids, ServiceRow, SchemaRow
  <2>4. NewContainer(t) \in ContainerRow
    BY <2>2, <2>3 DEF ContainerRow, PushRequest, Local, NewContainer
  <2> QED
    BY <2>1, <2>4
<1> QED
  BY <1>1, <1>2

\* A development version is bound to another schema, or the statement is refused.
LEMMA ContainerSwitch ==
  ASSUME IInv, NEW t \in Txn, SwitchContainer(t)
  PROVE  \/ Throw(t, "switchContainer", "constraint")
         \/ \E rows \in SUBSET ContainerRow :
              /\ rows = {Rebound(c, local[t].schema) : c \in Bound(t)}
              /\ db' = db /\ req' = req /\ clock' = clock /\ local' = local
              /\ work' = [work EXCEPT ![t].container = Overlay(@, rows)]
              /\ Goto(t, "switchContainer", "readResult")
<1>1. CASE Throw(t, "switchContainer", "constraint")
  BY <1>1
<1>2. CASE ~Throw(t, "switchContainer", "constraint")
  <2> DEFINE rows == {Rebound(c, local[t].schema) : c \in Bound(t)}
  <2>1. /\ db' = db /\ req' = req /\ clock' = clock /\ local' = local
        /\ work' = [work EXCEPT ![t].container = Overlay(@, rows)]
        /\ Goto(t, "switchContainer", "readResult")
        /\ local[t].schema \in Ids(View(t).schema) \/ Bound(t) = {}
    BY <1>2 DEF SwitchContainer
  <2>2. /\ View(t).schema \in SUBSET SchemaRow /\ View(t).container \in SUBSET ContainerRow
    BY ViewType DEF IInv, Tables
  <2>3. Bound(t) # {} => local[t].schema \in Id
    BY <2>1, <2>2 DEF Ids, SchemaRow
  <2>4. rows \in SUBSET ContainerRow
    BY <2>2, <2>3 DEF Rebound, Bound, ContainerRow
  <2> QED
    BY <2>1, <2>4
<1> QED
  BY <1>1, <1>2

\* The service rows a push writes are those of the service it names.
LEMMA ServiceWrite ==
  ASSUME IInv, PushInv, NEW t \in Txn, req[t].kind = "push", InsertService(t) \/ UpdateUrl(t)
  PROVE  \/ UNCHANGED work
         \/ \E rows \in SUBSET ServiceRow :
              /\ \A s \in rows : s.name = req[t].name
              /\ work' = [work EXCEPT ![t].services = Overlay(@, rows)]
<1>1. /\ TypeOK /\ RequestInv /\ View(t).services \in SUBSET ServiceRow
      /\ PushServiceInv(t) /\ nextId.services \in Id
  BY ViewType DEF IInv, PushInv, Tables, TypeOK
<1>2. CASE InsertService(t)
  <2> DEFINE rows == {[id |-> nextId.services, name |-> req[t].name, url |-> req[t].url]}
  <2>1. work' = work \/ work' = [work EXCEPT ![t].services = Overlay(@, rows)]
    BY <1>2 DEF InsertService, Throw
  <2>2. rows \in SUBSET ServiceRow /\ \A s \in rows : s.name = req[t].name
    BY <1>1, <1>2 DEF InsertService, RequestInv, PushStatements, PushRequest, ServiceRow
  <2> HIDE DEF rows
  <2> QED
    BY <2>1, <2>2
<1>3. CASE UpdateUrl(t)
  <2> DEFINE rows == {[s EXCEPT !.url = req[t].url] :
                        s \in {s \in View(t).services : s.id = local[t].service}}
  <2>1. work' = [work EXCEPT ![t].services = Overlay(@, rows)] /\ pc[t] = "updateUrl"
    BY <1>3 DEF UpdateUrl
  <2>2. rows \in SUBSET ServiceRow
    BY <1>1, <2>1 DEF RequestInv, PushStatements, PushRequest, ServiceRow
  <2>3. \A s \in View(t).services : s.id = local[t].service => s.name = req[t].name
    BY <1>1, <2>1, ViewFacts DEF PushServiceInv, AfterService, AllServices
  <2>4. \A s \in rows : s.name = req[t].name
    BY <1>1, <2>3 DEF ServiceRow
  <2> HIDE DEF rows
  <2> QED
    BY <2>1, <2>2, <2>4
<1> QED
  BY <1>2, <1>3

------------------------------------------------------------------------------
(* Rows that keep the order of times.                                      *)

\* Fewer rows are in order as well.
LEMMA InOrderPart ==
  ASSUME NEW d, NEW e, InOrder(d), e.schema \subseteq d.schema, e.container \subseteq d.container
  PROVE  InOrder(e)
  BY DEF InOrder

\* A newer version of a schema row has the time of the row.
LEMMA InOrderUpdate ==
  ASSUME NEW d, NEW e, NEW rows, InOrder(d), e.container = d.container,
         e.schema = Overlay(d.schema, rows),
         \A r \in rows : \E s \in d.schema :
           s.id = r.id /\ s.service = r.service /\ s.added = r.added,
         \A s, r \in rows : s.id = r.id => s = r
  PROVE  InOrder(e)
<1>1. \A r \in e.schema : \E s \in d.schema :
        s.id = r.id /\ s.service = r.service /\ s.added = r.added
  BY DEF Overlay
<1>2. \A s, r \in e.schema : s.id = r.id => s = r
  BY DEF InOrder, Overlay, Ids
<1> QED
  BY <1>1, <1>2 DEF InOrder

\* A new schema is newer than every container and not bound yet.
LEMMA InOrderNewSchema ==
  ASSUME NEW d \in Tables, NEW e, NEW s \in SchemaRow, InOrder(d), e.container = d.container,
         e.schema = Overlay(d.schema, {s}), s.id \notin Ids(d.schema),
         \A c \in d.container : c.schema # s.id /\ c.added < s.added
  PROVE  InOrder(e)
<1>1. e.schema = d.schema \cup {s}
  BY DEF Overlay, Ids
<1>2. \A r \in d.schema : r.id # s.id
  BY DEF Ids
<1>3. \A c \in d.container : c.added # s.added
  BY DEF Tables, ContainerRow, SchemaRow
<1>4. \A r, q \in e.schema : r.id = q.id => r = q
  BY <1>1, <1>2 DEF InOrder
<1>5. \A c \in e.container, r \in e.schema : c.version # Dev =>
        /\ c.schema = r.id => r.added <= c.added
        /\ c.service = r.service /\ c.added = r.added => c.schema = r.id
  BY <1>1, <1>3 DEF InOrder
<1>6. \A c, b \in e.container :
        /\ c.id = b.id => c = b
        /\ c.service = b.service /\ c.version = b.version => c = b
        /\ c.id < b.id => c.added < b.added
  BY DEF InOrder
<1> QED
  BY <1>4, <1>5, <1>6 DEF InOrder

\* A container that is rebound keeps its place.
LEMMA InOrderSwitch ==
  ASSUME NEW d, NEW e, NEW rows, InOrder(d), e.schema = d.schema,
         e.container = Overlay(d.container, rows),
         \A r \in rows : r.version = Dev /\ \E c \in d.container :
           c.id = r.id /\ c.service = r.service /\ c.version = r.version /\ c.added = r.added,
         \A r, q \in rows : r.id = q.id => r = q
  PROVE  InOrder(e)
<1>1. \A r \in e.container : \E c \in d.container :
        c.id = r.id /\ c.service = r.service /\ c.version = r.version /\ c.added = r.added
  BY DEF Overlay
<1>2. \A r, q \in e.container : r.id = q.id => r = q
  BY DEF InOrder, Overlay, Ids
<1>3. \A r \in e.container : r.version # Dev => r \in d.container
  BY DEF Overlay
<1>4. \A r, q \in e.container : r.service = q.service /\ r.version = q.version => r = q
  <2>1. SUFFICES ASSUME NEW r \in e.container, NEW q \in e.container,
                        r.service = q.service, r.version = q.version
                 PROVE  r.id = q.id
    BY <1>2
  <2>2. PICK c \in d.container :
          c.id = r.id /\ c.service = r.service /\ c.version = r.version /\ c.added = r.added
    BY <1>1
  <2>3. PICK b \in d.container :
          b.id = q.id /\ b.service = q.service /\ b.version = q.version /\ b.added = q.added
    BY <1>1
  <2> QED
    BY <2>1, <2>2, <2>3 DEF InOrder
<1>5. \A r, q \in e.container : r.id < q.id => r.added < q.added
  BY <1>1 DEF InOrder
<1> QED
  BY <1>2, <1>3, <1>4, <1>5 DEF InOrder

\* A new container is the last, and newer than every schema but the one it binds.
LEMMA InOrderNewContainer ==
  ASSUME NEW d \in Tables, NEW e, NEW c \in ContainerRow, InOrder(d), e.schema = d.schema,
         e.container = Overlay(d.container, {c}),
         \A b \in d.container : /\ b.id < c.id /\ b.added < c.added
                                /\ ~(b.service = c.service /\ b.version = c.version),
         \A s \in d.schema : /\ s.added <= c.added
                             /\ c.service = s.service /\ c.added = s.added => c.schema = s.id
  PROVE  InOrder(e)
<1>1. e.container \subseteq d.container \cup {c}
  BY DEF Overlay
<1>2. \A b \in d.container : b.id \in Nat /\ b.added \in Nat
  BY DEF Tables, ContainerRow, Id
<1>3. c.id \in Nat /\ c.added \in Nat
  BY DEF ContainerRow, Id
<1>4. \A b \in d.container : b.id # c.id /\ ~(c.id < b.id)
  BY <1>2, <1>3
<1>5. ~(c.id < c.id)
  BY <1>3
<1>6. \A r, q \in e.schema : r.id = q.id => r = q
  BY DEF InOrder
<1>7. \A a, b \in e.container : a.id = b.id => a = b
  BY <1>1, <1>4 DEF InOrder
<1>8. \A a, b \in e.container : a.service = b.service /\ a.version = b.version => a = b
  BY <1>1 DEF InOrder
<1>9. \A a, b \in e.container : a.id < b.id => a.added < b.added
  BY <1>1, <1>4, <1>5 DEF InOrder
<1>10. \A a \in e.container, s \in e.schema : a.version # Dev =>
         /\ a.schema = s.id => s.added <= a.added
         /\ a.service = s.service /\ a.added = s.added => a.schema = s.id
  <2>1. SUFFICES ASSUME NEW a \in e.container, NEW s \in d.schema, a.version # Dev
                 PROVE  /\ a.schema = s.id => s.added <= a.added
                        /\ a.service = s.service /\ a.added = s.added => a.schema = s.id
    OBVIOUS
  <2>2. CASE a \in d.container
    BY <2>1, <2>2 DEF InOrder
  <2>3. CASE a = c
    BY <2>3
  <2> QED
    BY <1>1, <2>2, <2>3
<1> QED
  BY <1>6, <1>7, <1>8, <1>9, <1>10 DEF InOrder

------------------------------------------------------------------------------
(* What a push has written.                                                *)

\* The schema a push found is written anew and is the only one it writes.
LEMMA TouchWritten ==
  ASSUME IInv, PushInv, SearchInv, NEW t \in Txn, req[t].kind = "push", TouchSchema(t),
         InOrder(View(t)), work[t].schema = {}
  PROVE  SchemaWritten(t)'
<1>1. TypeOK /\ pc[t] = "writeSchema" /\ local[t].schema # None
      /\ local' = local /\ req' = req /\ db' = db
  BY DEF IInv, TouchSchema, Goto
<1>2. PICK rows \in SUBSET SchemaRow :
           /\ db' = db
           /\ work' = [work EXCEPT ![t].schema = Overlay(@, rows)]
           /\ \A r \in rows : \E s \in View(t).schema :
                /\ s.id = r.id /\ s.service = r.service /\ s.def = r.def /\ s.added = r.added
                /\ TouchSchema(t) => s.active = r.active
           /\ TouchSchema(t) => \A r \in rows : r.id = local[t].schema
           /\ TouchSchema(t) /\ local[t].schema \in Ids(View(t).schema) => rows # {}
           /\ (\A s, r \in View(t).schema : s.id = r.id => s = r)
                => \A s, r \in rows : s.id = r.id => s = r
  BY SchemaUpdate
<1>3. local[t].schema \in Ids(View(t).schema)
  <2>1. ServiceSeen(t)
    BY <1>1 DEF SearchInv, StillThere, AfterService
  <2> QED
    BY <1>1, <2>1, ViewFacts DEF PushInv, PushSchemaInv
<1>4. work'[t].schema = rows
  BY <1>1, <1>2 DEF TypeOK, Tables, Overlay
<1>5. PICK s \in rows : rows = {s} /\ s.id = local[t].schema
  BY <1>2, <1>3 DEF InOrder
<1>6. PICK r \in View(t).schema :
        /\ r.id = s.id /\ r.service = s.service /\ r.def = s.def /\ r.added = s.added
        /\ r.active = s.active
  BY <1>2
<1>7. r \in db.schema /\ r \in AllSchemas
  BY ViewFacts DEF AllSchemas
<1>8. r.service = local[t].service /\ r.def = req[t].def
  BY <1>1, <1>5, <1>6, <1>7 DEF IInv, HandlerInv, PushInv, PushSchemaInv, AfterService
<1> QED
  BY <1>1, <1>4, <1>5, <1>6, <1>7, <1>8 DEF SchemaWritten, SameSchema

\* A schema that is inserted is the only one its push writes.
LEMMA InsertWritten ==
  ASSUME IInv, NEW t \in Txn, req[t].kind = "push", InsertSchema(t),
         pc'[t] # "constraint", work[t].schema = {}
  PROVE  SchemaWritten(t)'
<1>1. TypeOK /\ nextId.schema \in Id /\ local \in [Txn -> Local]
      /\ pc \in [Txn -> Statements \cup Refusals \cup {"idle", "done"}]
  BY DEF IInv, TypeOK
<1>2. /\ {NewSchema(t)} \in SUBSET SchemaRow
      /\ db' = db /\ req' = req /\ clock' = clock
      /\ work' = [work EXCEPT ![t].schema = Overlay(@, {NewSchema(t)})]
      /\ local' = [local EXCEPT ![t].schema = nextId.schema]
  BY <1>1, SchemaInsert DEF Throw, Goto
<1>3. work'[t].schema = {NewSchema(t)}
  BY <1>1, <1>2 DEF TypeOK, Tables, Overlay
<1>4. local'[t].schema = nextId.schema /\ local'[t].service = local[t].service
  BY <1>1, <1>2 DEF Local
<1>5. nextId.schema \notin Ids(db.schema)
  <2>1. \A s \in db.schema : s.id \in Nat /\ s.id < nextId.schema
    BY <1>1 DEF IInv, SchemasInv, AllSchemas, TypeOK, Tables, SchemaRow, Id
  <2> QED
    BY <1>1, <2>1 DEF Ids, Id
<1> DEFINE s == NewSchema(t)
<1>6. /\ s.id = nextId.schema /\ s.service = local[t].service /\ s.def = req[t].def
      /\ s.active = TRUE
  BY DEF NewSchema
<1> HIDE DEF s
<1>7. work'[t].schema = {s}
  BY <1>3 DEF s
<1>8. s.id \notin Ids(db'.schema) /\ s.active
  BY <1>2, <1>5, <1>6
<1> QED
  BY <1>2, <1>4, <1>6, <1>7, <1>8 DEF SchemaWritten

\* The development version a push rebinds is the only container it writes.
LEMMA SwitchWritten ==
  ASSUME IInv, PushInv, NEW t \in Txn, req[t].kind = "push", SwitchContainer(t),
         pc'[t] # "constraint", InOrder(View(t)), work[t].container = {},
         \A c \in Bound(t) : c.id = local[t].container
  PROVE  ContainerWritten(t)'
<1>1. TypeOK /\ pc \in [Txn -> Statements \cup Refusals \cup {"idle", "done"}]
      /\ pc[t] = "switchContainer" /\ req[t].version = Dev /\ View(t) \in Tables
  BY ViewType DEF IInv, TypeOK, RequestInv, SwitchContainer
<1>2. PICK rows \in SUBSET ContainerRow :
              /\ rows = {Rebound(c, local[t].schema) : c \in Bound(t)}
              /\ db' = db /\ req' = req /\ clock' = clock /\ local' = local
              /\ work' = [work EXCEPT ![t].container = Overlay(@, rows)]
              /\ Goto(t, "switchContainer", "readResult")
  BY <1>1, ContainerSwitch DEF Throw, Goto
<1>3. PICK e \in Bound(t) : TRUE
  BY <1>1 DEF PushInv, PushContainerInv
<1>4. Bound(t) = {e} /\ e \in View(t).container /\ e \in db.container /\ e \in ContainerRow
  BY <1>1, ViewFacts DEF Bound, InOrder, Tables
<1> DEFINE c == Rebound(e, local[t].schema)
<1>5. /\ c.id = e.id /\ c.service = e.service /\ c.version = e.version
      /\ c.schema = local[t].schema
  BY <1>4 DEF Rebound, ContainerRow
<1>6. rows = {c}
  BY <1>2, <1>4
<1>7. work'[t].container = {c}
  BY <1>1, <1>2, <1>6 DEF TypeOK, Tables, Overlay
<1>8. c \in View(t)'.container
  BY <1>7 DEF View, OverlayTables, Overlay
<1>9. c \in Bound(t)'
  BY <1>2, <1>4, <1>5, <1>8 DEF Bound
<1>10. c.id = local[t].container
  BY <1>4, <1>5
<1>11. \E f \in db'.container : c = Rebound(f, local'[t].schema)
  BY <1>2, <1>4
<1>12. c.schema = local'[t].schema /\ c.id = local'[t].container /\ req'[t].version = Dev
  BY <1>1, <1>2, <1>5, <1>10
<1> HIDE DEF c
<1> QED
  BY <1>7, <1>9, <1>11, <1>12 DEF ContainerWritten

\* A container that is inserted is the only one its push writes.
LEMMA NewWritten ==
  ASSUME IInv, NEW t \in Txn, req[t].kind = "push", InsertContainer(t),
         pc'[t] # "constraint", work[t].container = {}
  PROVE  ContainerWritten(t)'
<1>1. TypeOK /\ nextId.container \in Id /\ local \in [Txn -> Local]
      /\ pc \in [Txn -> Statements \cup Refusals \cup {"idle", "done"}]
  BY DEF IInv, TypeOK
<1>2. /\ {NewContainer(t)} \in SUBSET ContainerRow
      /\ db' = db /\ req' = req /\ clock' = clock /\ Bound(t) = {}
      /\ work' = [work EXCEPT ![t].container = Overlay(@, {NewContainer(t)})]
      /\ local' = [local EXCEPT ![t].container = nextId.container]
      /\ Goto(t, "insertContainer", "readResult")
  BY <1>1, ContainerInsert DEF Throw, Goto
<1>3. work'[t].container = {NewContainer(t)}
  BY <1>1, <1>2 DEF TypeOK, Tables, Overlay
<1>4. /\ local'[t].container = nextId.container /\ local'[t].service = local[t].service
      /\ local'[t].schema = local[t].schema
  BY <1>1, <1>2 DEF Local
<1>5. \A c \in db.container : c.id < nextId.container
  BY DEF IInv, ContainersInv, AllContainers
<1>6. NewContainer(t) \in View(t)'.container
  BY <1>3 DEF View, OverlayTables, Overlay
<1>7. NewContainer(t) \in Bound(t)'
  BY <1>2, <1>4, <1>6 DEF Bound, NewContainer
<1> DEFINE c == NewContainer(t)
<1>8. c.id = nextId.container /\ c.schema = local[t].schema
  BY DEF NewContainer
<1>9. c.schema = local'[t].schema /\ c.id = local'[t].container
  BY <1>4, <1>8
<1>10. \A e \in db'.container : e.id < c.id
  BY <1>2, <1>5, <1>8
<1>11. work'[t].container = {c} /\ c \in Bound(t)'
  BY <1>3, <1>7
<1> HIDE DEF c
<1> QED
  BY <1>9, <1>10, <1>11 DEF ContainerWritten

\* A push has written one schema and at most one container, its own.
LEMMA WrittenStep ==
  ASSUME IInv, PushInv, SearchInv, NEW t \in Txn, Acts(t), InOrder(View(t)), AtRest,
         req[t].kind = "push" => PushWritten(t), req'[t].kind = "push"
  PROVE  PushWritten(t)'
<1>1. /\ TypeOK /\ RequestInv /\ local \in [Txn -> Local] /\ work \in [Txn -> Tables]
      /\ pc \in [Txn -> Statements \cup Refusals \cup {"idle", "done"}]
      /\ req \in [Txn -> Requests \cup {NoRequest}]
  BY DEF IInv, TypeOK
<1>2. CASE pc'[t] \notin Statements
  BY <1>2 DEF PushWritten, AfterSchema, AfterContainer, Answered, Statements
<1>3. CASE Begin(t)
  <2>1. PICK r \in Requests : Goto(t, "idle", FirstStatement(r)) /\ req' = [req EXCEPT ![t] = r]
    BY <1>3 DEF Begin
  <2>2. r.kind = "push"
    BY <1>1, <2>1
  <2>3. pc'[t] = "getService"
    BY <1>1, <2>1, <2>2 DEF Goto, FirstStatement
  <2>4. work'[t] = NoRows
    BY <1>1, <1>3, <2>1 DEF Begin, Goto, AtRest, Open, Statements, Refusals
  <2> QED
    BY <2>3, <2>4 DEF PushWritten, NoRows, AfterSchema, AfterContainer, Answered
<1>4. CASE pc'[t] \in Statements /\ ~Begin(t)
  <2>1. ~Ends(t) /\ ~Fail(t)
    BY <1>1, <1>4 DEF Ends, Commit, CommitUnanswered, Rollback, Cascade, Fail, Throw,
         Answer, Goto, Statements
  <2>2. db' = db
    BY <2>1, OneTable
  <2>3. CASE InsertService(t) \/ UpdateUrl(t)
    <3>1. req' = req /\ pc[t] \in {"insertService", "updateUrl"} /\ pc'[t] = "findSchema"
      BY <1>1, <1>4, <2>3 DEF InsertService, UpdateUrl, Throw, Goto, Statements
    <3>2. PushWritten(t)
      BY <3>1
    <3>3. work'[t].schema = work[t].schema /\ work'[t].container = work[t].container
      <4>1. ~TouchSchema(t) /\ ~InsertSchema(t) /\ ~Toggle(t)
            /\ ~SwitchContainer(t) /\ ~InsertContainer(t)
        BY <3>1 DEF TouchSchema, InsertSchema, Toggle, SwitchContainer, InsertContainer, Goto
      <4> QED
        BY <2>1, <4>1, OtherTables
    <3>4. \A s \in work'[t].services : s.name = req[t].name
      <4>1. \A s \in work[t].services : s.name = req[t].name
        BY <3>1, <3>2 DEF PushWritten, Statements
      <4>2. CASE UNCHANGED work
        BY <4>1, <4>2
      <4>3. ASSUME NEW rows \in SUBSET ServiceRow, \A s \in rows : s.name = req[t].name,
                   work' = [work EXCEPT ![t].services = Overlay(@, rows)]
            PROVE  \A s \in work'[t].services : s.name = req[t].name
        <5>1. work'[t].services = Overlay(work[t].services, rows)
          BY <1>1, <4>3 DEF Tables
        <5> QED
          BY <4>1, <4>3, <5>1 DEF Overlay
      <4> QED
        BY <2>3, <3>1, <4>2, <4>3, ServiceWrite
    <3> QED
      BY <3>1, <3>2, <3>3, <3>4
         DEF PushWritten, Statements, AfterSchema, AfterContainer, Answered
  <2>4. CASE GetService(t) \/ FindSchema(t) \/ VersionExists(t)
    <3>1. req' = req /\ work' = work
          /\ pc[t] \in {"getService", "findSchema", "versionExists"}
          /\ pc'[t] \in {"insertService", "updateUrl", "findSchema", "versionExists", "writeSchema"}
      BY <1>1, <1>4, <2>4 DEF GetService, FindSchema, VersionExists, Throw, Goto, Statements
    <3>2. PushWritten(t)
      BY <3>1
    <3> QED
      BY <3>1, <3>2 DEF PushWritten, Statements, AfterSchema, AfterContainer, Answered
  <2>5. CASE WriteSchema(t)
    <3>1. req' = req /\ pc[t] = "writeSchema" /\ pc'[t] = "findContainer"
      BY <1>1, <1>4, <2>5
         DEF WriteSchema, TouchSchema, InsertSchema, Throw, Goto, Statements
    <3>2. PushWritten(t) /\ work[t].schema = {}
      BY <3>1 DEF PushWritten, Statements, AfterSchema, AfterContainer, Answered
    <3>3. work'[t].services = work[t].services /\ work'[t].container = work[t].container
      <4>1. ~InsertService(t) /\ ~UpdateUrl(t) /\ ~SwitchContainer(t) /\ ~InsertContainer(t)
        BY <3>1 DEF InsertService, UpdateUrl, SwitchContainer, InsertContainer
      <4> QED
        BY <2>1, <4>1, OtherTables
    <3>4. SchemaWritten(t)'
      <4>1. req[t].kind = "push" /\ pc'[t] # "constraint"
        BY <3>1
      <4> QED
        BY <2>5, <3>2, <4>1, TouchWritten, InsertWritten DEF WriteSchema
    <3> QED
      BY <3>1, <3>2, <3>3, <3>4
         DEF PushWritten, Statements, AfterSchema, AfterContainer, Answered
  <2>6. CASE FindContainer(t)
    <3>1. /\ req' = req /\ work' = work /\ pc[t] = "findContainer" /\ View(t)' = View(t)
          /\ pc'[t] \in {"switchContainer", "readResult", "insertContainer"}
          /\ local'[t].service = local[t].service /\ local'[t].schema = local[t].schema
      BY <1>1, <2>6 DEF FindContainer, Goto, View, Local
    <3>2. PushWritten(t)
      BY <3>1
    <3>3. work[t].container = {} /\ SchemaWritten(t)
      BY <3>1, <3>2 DEF PushWritten, Statements, AfterSchema, AfterContainer, Answered
    <3>4. Bound(t)' = Bound(t)
      BY <3>1 DEF Bound
    <3>5. SchemaWritten(t)'
      BY <2>2, <3>1, <3>3 DEF SchemaWritten, SameSchema
    <3>6. CASE pc'[t] = "insertContainer"
      BY <3>1, <3>2, <3>3, <3>5, <3>6
         DEF PushWritten, Statements, AfterSchema, AfterContainer, Answered
    <3>7. CASE pc'[t] # "insertContainer"
      <4>1. PICK c \in Bound(t) : /\ IsDev(req[t].version) \/ c.schema = local[t].schema
                                  /\ local' = [local EXCEPT ![t].container = c.id]
                                  /\ pc'[t] = IF IsDev(req[t].version) THEN "switchContainer"
                                              ELSE "readResult"
        BY <1>1, <2>6, <3>7 DEF FindContainer, Goto
      <4>2. local'[t].container = c.id
        BY <1>1, <4>1 DEF Local
      <4>3. CASE IsDev(req[t].version)
        <5>1. \A e \in Bound(t) : e = c
          BY DEF Bound, InOrder
        <5> QED
          BY <3>1, <3>2, <3>3, <3>4, <3>5, <4>1, <4>2, <4>3, <5>1
             DEF PushWritten, Statements, AfterSchema, AfterContainer, Answered
      <4>4. CASE ~IsDev(req[t].version)
        <5>1. c \in db.container
          BY <3>3, ViewFacts DEF Bound
        <5>2. ContainerWritten(t)'
          BY <2>2, <3>1, <3>3, <3>4, <4>1, <4>2, <4>4, <5>1 DEF ContainerWritten
        <5> QED
          BY <3>1, <3>2, <3>3, <3>5, <4>1, <4>4, <5>2
             DEF PushWritten, Statements, AfterSchema, AfterContainer, Answered
      <4> QED
        BY <4>3, <4>4
    <3> QED
      BY <3>6, <3>7
  <2>7. CASE SwitchContainer(t) \/ InsertContainer(t)
    <3>1. /\ req' = req /\ pc[t] \in {"switchContainer", "insertContainer"}
          /\ pc'[t] = "readResult"
          /\ local'[t].service = local[t].service /\ local'[t].schema = local[t].schema
      BY <1>1, <1>4, <2>7
         DEF SwitchContainer, InsertContainer, Throw, Goto, Statements, Local
    <3>2. PushWritten(t)
      BY <3>1
    <3>3. /\ work[t].container = {} /\ SchemaWritten(t)
          /\ pc[t] = "switchContainer" => \A c \in Bound(t) : c.id = local[t].container
      BY <3>1, <3>2 DEF PushWritten, Statements, AfterSchema, AfterContainer, Answered
    <3>4. work'[t].services = work[t].services /\ work'[t].schema = work[t].schema
      <4>1. /\ ~InsertService(t) /\ ~UpdateUrl(t)
            /\ ~TouchSchema(t) /\ ~InsertSchema(t) /\ ~Toggle(t)
        BY <3>1 DEF InsertService, UpdateUrl, TouchSchema, InsertSchema, Toggle, Goto
      <4> QED
        BY <2>1, <4>1, OtherTables
    <3>5. SchemaWritten(t)'
      BY <2>2, <3>1, <3>3, <3>4 DEF SchemaWritten, SameSchema
    <3>6. ContainerWritten(t)'
      <4>1. CASE SwitchContainer(t)
        BY <3>1, <3>3, <4>1, SwitchWritten DEF SwitchContainer
      <4>2. CASE InsertContainer(t)
        BY <3>1, <3>3, <4>2, NewWritten
      <4> QED
        BY <2>7, <4>1, <4>2
    <3> QED
      BY <3>1, <3>2, <3>4, <3>5, <3>6
         DEF PushWritten, Statements, AfterSchema, AfterContainer, Answered
  <2>8. CASE ReadResult(t) \/ ReadExact(t) \/ Fallback(t) \/ ReadActive(t) \/ Validate(t)
    <3>1. /\ req' = req /\ work' = work /\ View(t)' = View(t)
          /\ pc[t] \in AfterContainer /\ pc'[t] \in AfterContainer
          /\ local'[t].service = local[t].service /\ local'[t].schema = local[t].schema
          /\ local'[t].container = local[t].container
      <4>1. CASE ReadResult(t) \/ ReadExact(t)
        BY <1>1, <4>1 DEF ReadResult, ReadExact, Goto, View, Local, AfterContainer, Answered
      <4>2. CASE Fallback(t) \/ ReadActive(t)
        BY <1>1, <4>2 DEF Fallback, ReadActive, Goto, View, Local, AfterContainer, Answered
      <4>3. CASE Validate(t)
        BY <1>1, <1>4, <4>3
           DEF Validate, Throw, Goto, View, AfterContainer, Answered, Statements
      <4> QED
        BY <2>8, <4>1, <4>2, <4>3
    <3>2. PushWritten(t) /\ SchemaWritten(t) /\ ContainerWritten(t)
      BY <3>1 DEF PushWritten, AfterSchema
    <3>3. Bound(t)' = Bound(t)
      BY <3>1 DEF Bound
    <3>4. SchemaWritten(t)' /\ ContainerWritten(t)'
      BY <2>2, <3>1, <3>2, <3>3 DEF SchemaWritten, SameSchema, ContainerWritten
    <3> QED
      BY <3>1, <3>2, <3>4 DEF PushWritten, Statements, AfterSchema, AfterContainer, Answered
  <2>9. CASE Toggle(t) \/ LockService(t)
    <3>1. req[t] \in ToggleRequest \cup DeleteRequest /\ req' = req
      BY <1>1, <1>4, <2>9 DEF RequestInv, Toggle, LockService, Answer, Goto, Statements
    <3> QED
      BY <3>1 DEF ToggleRequest, DeleteRequest
  <2> QED
    BY <1>4, <2>1, <2>3, <2>4, <2>5, <2>6, <2>7, <2>8, <2>9, DeadlockFails DEF Acts, Step,
       DeleteService, Ends
<1> QED
  BY <1>2, <1>3, <1>4

------------------------------------------------------------------------------
(* Times follow the order of the containers.                               *)

\* What a transaction sees stays in order, and nothing it writes is later than now.
LEMMA TimesWrite ==
  ASSUME IInv, TimesInv, NEW t \in Txn, Acts(t), ~Ends(t),
         req[t].kind = "push" => PushWritten(t)
  PROVE  /\ InOrder(View(t))'
         /\ \A r \in work'[t].schema \cup work'[t].container : r.added <= clock
<1>1. /\ TypeOK /\ RequestInv /\ local[t] \in Local /\ work \in [Txn -> Tables] /\ clock \in Nat
      /\ View(t) \in Tables /\ db \in Tables
      /\ pc \in [Txn -> Statements \cup Refusals \cup {"idle", "done"}]
      /\ nextId.schema \in Id /\ nextId.container \in Id
  BY ViewType DEF IInv, TypeOK
<1>2. /\ InOrder(View(t)) /\ db' = db
      /\ \A r \in db.schema \cup db.container : r.added <= clock
      /\ \A r \in work[t].schema \cup work[t].container : r.added <= clock
  BY OneTable DEF TimesInv
<1>3. /\ \A r \in View(t).schema \cup View(t).container : r.added <= clock
      /\ pc[t] \in Statements =>
           /\ local[t].time = clock
           /\ \A r \in db.schema \cup db.container : r.added < clock
  BY <1>2, ViewFacts DEF TimesInv
<1>4. CASE UNCHANGED work
  BY <1>2, <1>4 DEF View
<1>5. CASE InsertService(t) \/ UpdateUrl(t)
  <2>1. work'[t].schema = work[t].schema /\ work'[t].container = work[t].container
    <3>1. /\ ~TouchSchema(t) /\ ~InsertSchema(t) /\ ~Toggle(t)
          /\ ~SwitchContainer(t) /\ ~InsertContainer(t)
      BY <1>5 DEF InsertService, UpdateUrl, TouchSchema, InsertSchema, Toggle, SwitchContainer,
           InsertContainer, Goto
    <3> QED
      BY <3>1, OtherTables
  <2>2. View(t)'.schema = View(t).schema /\ View(t)'.container = View(t).container
    BY <1>2, <2>1 DEF View, OverlayTables
  <2> QED
    BY <1>2, <2>1, <2>2, InOrderPart
<1>6. CASE TouchSchema(t) \/ Toggle(t)
  <2>1. PICK rows \in SUBSET SchemaRow :
           /\ db' = db
           /\ work' = [work EXCEPT ![t].schema = Overlay(@, rows)]
           /\ \A r \in rows : \E s \in View(t).schema :
                /\ s.id = r.id /\ s.service = r.service /\ s.def = r.def /\ s.added = r.added
                /\ TouchSchema(t) => s.active = r.active
           /\ TouchSchema(t) => \A r \in rows : r.id = local[t].schema
           /\ TouchSchema(t) /\ local[t].schema \in Ids(View(t).schema) => rows # {}
           /\ (\A s, r \in View(t).schema : s.id = r.id => s = r)
                => \A s, r \in rows : s.id = r.id => s = r
    BY <1>6, SchemaUpdate
  <2>2. /\ View(t)'.schema = Overlay(View(t).schema, rows)
        /\ View(t)'.container = View(t).container
    BY <1>1, <2>1, ViewWrites
  <2>3. \A s, r \in rows : s.id = r.id => s = r
    BY <1>2, <2>1 DEF InOrder
  <2>4. \A r \in rows : \E s \in View(t).schema :
          s.id = r.id /\ s.service = r.service /\ s.added = r.added
    BY <2>1
  <2>5. InOrder(View(t)')
    BY <1>2, <2>2, <2>3, <2>4, InOrderUpdate
  <2>6. work'[t].schema \subseteq work[t].schema \cup rows
        /\ work'[t].container = work[t].container
    BY <1>1, <2>1, WriteSchemas
  <2> QED
    BY <1>2, <1>3, <2>4, <2>5, <2>6
<1>7. CASE InsertSchema(t) /\ ~UNCHANGED work
  <2> DEFINE s == NewSchema(t)
  <2>1. /\ {s} \in SUBSET SchemaRow /\ pc[t] = "writeSchema"
        /\ work' = [work EXCEPT ![t].schema = Overlay(@, {s})]
    BY <1>7, SchemaInsert DEF Throw, InsertSchema, Goto
  <2>2. s.id = nextId.schema /\ s.added = clock
    BY <1>3, <2>1 DEF NewSchema, Statements
  <2> HIDE DEF s
  <2>3. /\ View(t)'.schema = Overlay(View(t).schema, {s})
        /\ View(t)'.container = View(t).container
    BY <1>1, <1>2, <2>1, ViewWrites
  <2>4. s.id \notin Ids(View(t).schema)
    <3>1. \A r \in View(t).schema : r.id \in Nat /\ r.id < nextId.schema
      BY <1>1, ViewFacts DEF IInv, SchemasInv, AllSchemas, Tables, SchemaRow, Id
    <3> QED
      BY <1>1, <2>2, <3>1 DEF Ids, Id
  <2>5. \A c \in View(t).container : c.schema # s.id /\ c.added < s.added
    <3>1. work[t].container = {}
      BY <2>1 DEF IInv, HandlerInv
    <3>2. \A c \in View(t).container : c \in db.container
      BY <3>1, ViewFacts
    <3>3. \A c \in db.container : \E r \in db.schema : r.id = c.schema
      BY DEF IInv, ReferencesInv, Ids
    <3>4. \A r \in db.schema : r.id \in Nat /\ r.id < nextId.schema
      BY <1>1 DEF IInv, SchemasInv, AllSchemas, Tables, SchemaRow, Id
    <3>5. \A r \in db.schema : r.id # nextId.schema
      BY <1>1, <3>4 DEF Id
    <3>6. \A c \in db.container : c.added < clock
      BY <1>3, <2>1 DEF Statements
    <3> QED
      BY <2>2, <3>2, <3>3, <3>5, <3>6
  <2>6. InOrder(View(t)')
    BY <1>1, <1>2, <2>1, <2>3, <2>4, <2>5, InOrderNewSchema
  <2>7. work'[t].schema \subseteq work[t].schema \cup {s}
        /\ work'[t].container = work[t].container
    BY <1>1, <1>2, <2>1, WriteSchemas
  <2> QED
    BY <1>1, <1>2, <2>2, <2>6, <2>7
<1>8. CASE SwitchContainer(t) /\ ~UNCHANGED work
  <2>1. PICK rows \in SUBSET ContainerRow :
              /\ rows = {Rebound(c, local[t].schema) : c \in Bound(t)}
              /\ db' = db /\ req' = req /\ clock' = clock /\ local' = local
              /\ work' = [work EXCEPT ![t].container = Overlay(@, rows)]
              /\ Goto(t, "switchContainer", "readResult")
    BY <1>8, ContainerSwitch DEF Throw
  <2>2. /\ View(t)'.container = Overlay(View(t).container, rows)
        /\ View(t)'.schema = View(t).schema
    BY <1>1, <2>1, ViewWrites
  <2>3. req[t].version = Dev
    BY <1>1, <1>8 DEF RequestInv, SwitchContainer
  <2>4. \A r \in rows : r.version = Dev /\ \E c \in View(t).container :
           c.id = r.id /\ c.service = r.service /\ c.version = r.version /\ c.added = r.added
    BY <1>1, <2>1, <2>3 DEF Bound, Rebound, Tables, ContainerRow
  <2>5. \A r, q \in rows : r.id = q.id => r = q
    <3>1. \A c, e \in Bound(t) : c = e
      BY <1>2 DEF Bound, InOrder
    <3> QED
      BY <2>1, <3>1
  <2>6. InOrder(View(t)')
    BY <1>2, <2>2, <2>4, <2>5, InOrderSwitch
  <2>7. work'[t].container = rows /\ work'[t].schema = work[t].schema
    <3>1. work[t].container = {}
      BY <1>8 DEF IInv, HandlerInv, SwitchContainer
    <3> QED
      BY <1>1, <1>2, <2>1, <3>1, WriteContainers
  <2> QED
    BY <1>2, <1>3, <2>4, <2>6, <2>7
<1>9. CASE InsertContainer(t) /\ ~UNCHANGED work
  <2> DEFINE c == NewContainer(t)
  <2>1. /\ {c} \in SUBSET ContainerRow /\ pc[t] = "insertContainer" /\ Bound(t) = {}
        /\ work' = [work EXCEPT ![t].container = Overlay(@, {c})]
    BY <1>9, ContainerInsert DEF Throw, InsertContainer, Goto
  <2>2. /\ c.id = nextId.container /\ c.added = clock /\ c.service = local[t].service
        /\ c.schema = local[t].schema /\ c.version = req[t].version
    BY <1>3, <2>1 DEF NewContainer, Statements
  <2> HIDE DEF c
  <2>3. /\ View(t)'.container = Overlay(View(t).container, {c})
        /\ View(t)'.schema = View(t).schema
    BY <1>1, <1>2, <2>1, ViewWrites
  <2>4. work[t].container = {}
    BY <2>1 DEF IInv, HandlerInv
  <2>5. \A b \in View(t).container : /\ b.id < c.id /\ b.added < c.added
                                     /\ ~(b.service = c.service /\ b.version = c.version)
    <3>1. \A b \in View(t).container : b \in db.container
      BY <2>4, ViewFacts
    <3>2. \A b \in db.container : b.id < nextId.container /\ b.added < clock
      BY <1>3, <2>1 DEF IInv, ContainersInv, AllContainers, Statements
    <3> QED
      BY <2>1, <2>2, <3>1, <3>2 DEF Bound
  <2>6. \A s \in View(t).schema : /\ s.added <= c.added
                                  /\ c.service = s.service /\ c.added = s.added => c.schema = s.id
    <3>1. \A s \in db.schema : s.added \in Nat /\ s.added < clock
      BY <1>1, <1>3, <2>1 DEF Statements, Tables, SchemaRow
    <3>2. \A s \in db.schema : s.added # clock
      BY <1>1, <3>1
    <3>3. \A s \in work[t].schema : s.id = local[t].schema
      <4>1. req[t].kind = "push"
        BY <1>1, <2>1 DEF RequestInv, PushStatements, PushRequest
      <4> QED
        BY <2>1, <4>1 DEF PushWritten, SchemaWritten, AfterSchema
    <3> QED
      BY <1>3, <2>2, <3>2, <3>3, ViewFacts
  <2>7. InOrder(View(t)')
    BY <1>1, <1>2, <2>1, <2>3, <2>5, <2>6, InOrderNewContainer
  <2>8. work'[t].container = {c} /\ work'[t].schema = work[t].schema
    BY <1>1, <1>2, <2>1, <2>4, WriteContainers
  <2> QED
    BY <1>1, <1>2, <2>2, <2>7, <2>8
<1> QED
  BY <1>4, <1>5, <1>6, <1>7, <1>8, <1>9, OneTable

\* A handler that runs keeps the time it read when it began.
LEMMA TimeKept ==
  ASSUME IInv, NEW u \in Txn, Acts(u), ~Begin(u), pc'[u] \in Statements
  PROVE  /\ pc[u] \in Statements /\ ~Ends(u)
         /\ local'[u].time = local[u].time /\ clock' = clock
<1>1. /\ pc \in [Txn -> Statements \cup Refusals \cup {"idle", "done"}]
      /\ local \in [Txn -> Local]
  BY DEF IInv, TypeOK
<1>2. CASE \/ GetService(u) \/ InsertService(u) \/ UpdateUrl(u)
           \/ FindSchema(u) \/ VersionExists(u) \/ WriteSchema(u)
  BY <1>1, <1>2 DEF GetService, InsertService, UpdateUrl, FindSchema, Statements, Local,
              VersionExists, WriteSchema, TouchSchema, InsertSchema, Throw, Goto, Ends,
              Commit, CommitUnanswered, Rollback, Cascade, Answer, Refusals
<1>3. CASE FindContainer(u) \/ SwitchContainer(u) \/ InsertContainer(u)
           \/ ReadResult(u) \/ ReadExact(u)
  BY <1>1, <1>3 DEF FindContainer, SwitchContainer, InsertContainer, ReadResult, ReadExact,
              Throw, Goto, Statements, Local, Ends,
              Commit, CommitUnanswered, Rollback, Cascade, Answer, Refusals
<1>4. CASE Fallback(u) \/ Toggle(u) \/ ReadActive(u) \/ Validate(u)
  BY <1>1, <1>4 DEF Fallback, Toggle, ReadActive, Validate,
              Throw, Goto, Statements, Local, Ends,
              Commit, CommitUnanswered, Rollback, Cascade, Answer, Refusals
<1>5. CASE Fail(u) \/ Ends(u)
  BY <1>1, <1>5 DEF Fail, Throw, Ends, Commit, CommitUnanswered, Rollback, DeleteService,
     LockService, Cascade,
              Answer, Goto, Statements
<1>6. CASE LockService(u)
  <2>1. /\ pc[u] = "delete" /\ pc'[u] \in {"cascade", "done"} /\ clock' = clock
        /\ pc'[u] = "cascade" => local'[u].time = local[u].time
    BY <1>1, <1>6 DEF LockService, Answer, Goto, Local
  <2> QED
    BY <2>1 DEF Ends, Commit, CommitUnanswered, Rollback, Cascade, Answer, Goto, Statements,
                Refusals
<1> QED
  BY <1>2, <1>3, <1>4, <1>5, <1>6, DeadlockFails DEF Acts, Step, DeleteService, Ends

\* The end of a transaction leaves nothing uncommitted, and rows that are in order.
LEMMA TimesEnd ==
  ASSUME IInv, IInv', TimesInv, AtRest, OneAtATime, OneAtATime', NEW u \in Txn, Acts(u), Ends(u)
  PROVE  /\ \A t \in Txn : work'[t] = NoRows
         /\ InOrder(db)'
         /\ \A r \in db'.schema \cup db'.container : r.added <= clock
         /\ clock' = clock /\ pc'[u] \notin Statements
<1>1. TypeOK /\ pc \in [Txn -> Statements \cup Refusals \cup {"idle", "done"}]
  BY DEF IInv, TypeOK
<1>2. \A t \in Txn \ {u} : work'[t] = NoRows
  BY OnlyOwnRows
<1>3. clock' = clock /\ pc'[u] \notin Statements
  BY <1>1 DEF Ends, Commit, CommitUnanswered, Rollback, Cascade, Publish, Answer, Goto,
       Statements
<1>4. CASE Commit(u) \/ CommitUnanswered(u)
  <2>1. Publish(u) /\ db' = View(u) /\ work'[u] = NoRows
    BY <1>1, <1>4 DEF Commit, CommitUnanswered, Publish, TypeOK
  <2>2. \A r \in View(u).schema \cup View(u).container : r.added <= clock
    BY ViewFacts DEF TimesInv
  <2> QED
    BY <1>2, <1>3, <2>1, <2>2 DEF TimesInv
<1>5. CASE Rollback(u)
  <2>1. db' = db /\ work'[u] = NoRows
    BY <1>1, <1>5 DEF Rollback, TypeOK
  <2> QED
    BY <1>2, <1>3, <2>1 DEF TimesInv
<1>6. CASE Cascade(u)
  <2>1. work'[u] = NoRows
    BY <1>6 DEF Cascade, Answer, Goto, IInv, HandlerInv
  <2>2. db'.schema \subseteq db.schema /\ db'.container \subseteq db.container
    BY <1>6 DEF Cascade, Without
  <2>3. InOrder(db')
    BY <2>2, InOrderPart DEF TimesInv
  <2> QED
    BY <1>2, <1>3, <2>1, <2>2, <2>3 DEF TimesInv
<1> QED
  BY <1>4, <1>5, <1>6 DEF Ends

\* Times keep to the order of the containers while the clock moves on between
\* requests.
LEMMA TimesStep ==
  ASSUME ClockAdvances, IInv, IInv', TimesInv, WrittenInv, AtRest, OneAtATime, OneAtATime',
         NEW u \in Txn, Acts(u)
  PROVE  TimesInv'
<1>1. /\ db' \in Tables /\ db \in Tables /\ clock \in Nat
      /\ local \in [Txn -> Local] /\ req \in [Txn -> Requests \cup {NoRequest}]
      /\ pc \in [Txn -> Statements \cup Refusals \cup {"idle", "done"}]
  BY DEF IInv, TypeOK
<1>2. \A t \in Txn \ {u} : pc'[t] \notin Statements /\ work[t] = NoRows /\ work'[t] = NoRows
  BY Alone, OnlyOwnRows DEF Open
<1>3. \A t \in Txn : work'[t] = NoRows => View(t)' = db'
  BY <1>1, NothingWritten DEF View
<1>4. CASE Ends(u)
  <2>1. /\ \A t \in Txn : work'[t] = NoRows
        /\ InOrder(db)'
        /\ \A r \in db'.schema \cup db'.container : r.added <= clock
        /\ clock' = clock /\ pc'[u] \notin Statements
    BY <1>4, TimesEnd
  <2> QED
    BY <1>2, <1>3, <2>1 DEF TimesInv, NoRows
<1>5. CASE Begin(u)
  <2>1. PICK q \in Requests, d \in Ticks :
          clock' = clock + d /\ local' = [local EXCEPT ![u].time = clock + d]
    BY <1>5 DEF Begin
  <2>2. db' = db /\ work' = work
    BY <1>5 DEF Begin
  <2>3. clock < clock' /\ clock' \in Nat /\ local'[u].time = clock'
    BY <1>1, <2>1, BoundsAssumption DEF ClockAdvances, Local
  <2>4. \A r \in db.schema \cup db.container : r.added \in Nat /\ r.added < clock'
    BY <1>1, <2>3 DEF TimesInv, Tables, SchemaRow, ContainerRow
  <2>5. \A t \in Txn : \A r \in work[t].schema \cup work[t].container :
          r.added \in Nat /\ r.added <= clock'
    BY <1>1, <2>3 DEF IInv, TypeOK, TimesInv, Tables, SchemaRow, ContainerRow
  <2>6. \A t \in Txn : View(t)' = View(t)
    BY <2>2 DEF View
  <2> QED
    BY <1>2, <2>2, <2>3, <2>4, <2>5, <2>6 DEF TimesInv
<1>6. CASE ~Ends(u) /\ ~Begin(u)
  <2>1. req[u].kind = "push" => PushWritten(u)
    BY DEF WrittenInv
  <2>2. /\ InOrder(View(u))'
        /\ \A r \in work'[u].schema \cup work'[u].container : r.added <= clock
    BY <1>6, <2>1, TimesWrite
  <2>3. db' = db /\ clock' = clock
    <3>1. db' = db
      BY <1>6, OneTable
    <3>2. clock' = clock
      <4>1. CASE \/ GetService(u) \/ InsertService(u) \/ UpdateUrl(u)
                 \/ FindSchema(u) \/ VersionExists(u) \/ WriteSchema(u)
        BY <4>1 DEF GetService, InsertService, UpdateUrl, FindSchema, VersionExists, WriteSchema,
             TouchSchema, InsertSchema, Throw
      <4>2. CASE FindContainer(u) \/ SwitchContainer(u) \/ InsertContainer(u)
                 \/ ReadResult(u) \/ ReadExact(u)
        BY <4>2 DEF FindContainer, SwitchContainer, InsertContainer, ReadResult, ReadExact, Throw
      <4>3. CASE \/ Fallback(u) \/ Toggle(u) \/ ReadActive(u) \/ Validate(u) \/ Fail(u)
                 \/ LockService(u)
        BY <4>3 DEF Fallback, Toggle, ReadActive, Validate, Fail, LockService, Throw
      <4> QED
        BY <1>6, <4>1, <4>2, <4>3, DeadlockFails DEF Acts, Step, DeleteService, Ends
    <3> QED
      BY <3>1, <3>2
  <2>4. pc'[u] \in Statements =>
          /\ local'[u].time = clock
          /\ \A r \in db.schema \cup db.container : r.added < clock
    BY <1>6, TimeKept DEF TimesInv
  <2>5. InOrder(db)'
    BY <2>3 DEF TimesInv
  <2>6. \A t \in Txn : InOrder(View(t))'
    BY <1>2, <1>3, <2>2, <2>5
  <2>7. \A t \in Txn : \A r \in work'[t].schema \cup work'[t].container : r.added <= clock'
    BY <1>2, <2>2, <2>3 DEF NoRows
  <2> QED
    BY <1>2, <2>3, <2>4, <2>5, <2>6, <2>7 DEF TimesInv
<1> QED
  BY <1>4, <1>5, <1>6

\* The rows of a push are its own, and in order.
LEMMA HistoryStep ==
  ClockAdvances /\ IInv /\ IInv' /\ PushInv /\ SearchInv /\ TimesInv /\ WrittenInv
    /\ OneAtATime /\ OneAtATime' /\ [Next]_vars => TimesInv' /\ WrittenInv'
<1>1. SUFFICES ASSUME ClockAdvances, IInv, IInv', PushInv, SearchInv, TimesInv, WrittenInv,
                      OneAtATime, OneAtATime', [Next]_vars
               PROVE  TimesInv' /\ WrittenInv'
  OBVIOUS
<1>2. CASE UNCHANGED vars
  <2>1. \A t \in Txn : /\ View(t)' = View(t) /\ Bound(t)' = Bound(t)
    BY <1>2 DEF vars, View, Bound
  <2> QED
    BY <1>1, <1>2, <2>1 DEF vars, TimesInv, WrittenInv, PushWritten, SchemaWritten, SameSchema,
       ContainerWritten
<1>3. ASSUME NEW u \in Txn, Acts(u)
      PROVE  TimesInv' /\ WrittenInv'
  <2>1. TimesInv'
    BY <1>1, <1>3, TimesStep DEF SearchInv
  <2>2. ASSUME NEW t \in Txn, req'[t].kind = "push"
        PROVE  PushWritten(t)'
    <3>1. CASE t = u
      <4>1. /\ InOrder(View(u)) /\ AtRest
            /\ req[u].kind = "push" => PushWritten(u)
        BY <1>1 DEF TimesInv, SearchInv, WrittenInv
      <4> QED
        BY <1>1, <1>3, <2>2, <3>1, <4>1, WrittenStep
    <3>2. CASE t # u
      <4>1. pc'[t] \notin Statements
        BY <1>1, <1>3, <3>2, Alone DEF Open
      <4> QED
        BY <4>1 DEF PushWritten, Statements, AfterSchema, AfterContainer, Answered
    <3> QED
      BY <3>1, <3>2
  <2> QED
    BY <2>1, <2>2 DEF WrittenInv
<1> QED
  BY <1>1, <1>2, <1>3, WhoActs

\* While requests do not overlap and no two begin in one millisecond, a push has
\* written one schema and at most one container of its own, and times follow the
\* order of the containers (src/src/database/schema.ts, registerSchema).
THEOREM HistoryInvariance ==
  ClockAdvances => (Spec /\ []OneAtATime => [](TimesInv /\ WrittenInv))
<1>1. Init => TimesInv /\ WrittenInv
  <2>1. SUFFICES ASSUME Init PROVE TimesInv /\ WrittenInv
    OBVIOUS
  <2>2. \A t \in Txn : View(t) = NoRows
    <3>1. NoRows \in Tables
      BY DEF NoRows, Tables
    <3> QED
      BY <2>1, <3>1, NothingWritten DEF Init, View
  <2>3. InOrder(NoRows)
    BY DEF InOrder, NoRows
  <2>4. TimesInv
    BY <2>1, <2>2, <2>3 DEF Init, TimesInv, NoRows, Statements
  <2>5. WrittenInv
    BY <2>1 DEF Init, WrittenInv, NoRequest
  <2> QED
    BY <2>4, <2>5
<1>2. CASE ClockAdvances
  <2>1. IInv /\ IInv' /\ PushInv /\ SearchInv /\ TimesInv /\ WrittenInv
          /\ OneAtATime /\ OneAtATime' /\ [Next]_vars => TimesInv' /\ WrittenInv'
    BY <1>2, HistoryStep
  <2> QED
    BY <1>1, <2>1, Invariance, PushInvariance, SearchAlone, PTL DEF Spec
<1> QED
  BY <1>2

------------------------------------------------------------------------------
(* What a push changes of what is served.                                  *)

\* What is served of a table: the latest schema of each service.
LEMMA InServed ==
  ASSUME NEW d, NEW p
  PROVE  p \in Served(d) <=> \E v \in d.services : \E b \in LatestOf(d, v.id) :
                               p = [name |-> v.name, def |-> b[2].def]
<1> DEFINE row(v, b) == [service |-> v.id, name |-> v.name, def |-> b[2].def]
           rows == LastUpdated(d, ActiveNames(d))
<1>1. \A v \in d.services : v.name \in ActiveNames(d)
  BY DEF ActiveNames
<1>2. rows = UNION {{row(v, b) : b \in LatestOf(d, v.id)} : v \in d.services}
  <2>1. {s \in d.services : s.name \in ActiveNames(d)} = d.services
    BY <1>1
  <2> QED
    BY <2>1 DEF LastUpdated
<1>3. \A r : r \in rows <=> \E v \in d.services : \E b \in LatestOf(d, v.id) : r = row(v, b)
  BY <1>2
<1> HIDE DEF rows
<1>4. p \in Served(d) <=> \E r \in rows : p = [name |-> r.name, def |-> r.def]
  BY DEF Served, PartsOf, rows
<1>5. \A v, b : row(v, b).name = v.name /\ row(v, b).def = b[2].def
  OBVIOUS
<1> HIDE DEF row
<1>6. ASSUME p \in Served(d)
      PROVE  \E v \in d.services : \E b \in LatestOf(d, v.id) :
               p = [name |-> v.name, def |-> b[2].def]
  <2>1. PICK r \in rows : p = [name |-> r.name, def |-> r.def]
    BY <1>4, <1>6
  <2>2. PICK v \in d.services : \E b \in LatestOf(d, v.id) : r = row(v, b)
    BY <1>3, <2>1
  <2> QED
    BY <1>5, <2>1, <2>2
<1>7. ASSUME NEW v \in d.services, NEW b \in LatestOf(d, v.id),
             p = [name |-> v.name, def |-> b[2].def]
      PROVE  p \in Served(d)
  <2>1. row(v, b) \in rows
    BY <1>3
  <2> QED
    BY <1>4, <1>5, <1>7, <2>1
<1> QED
  BY <1>6, <1>7

\* Two tables whose later bindings of a service agree serve the same for it.
LEMMA SameDefs ==
  ASSUME NEW d \in Tables, NEW e \in Tables, NEW i, NEW k \in Nat,
         \A b \in Bindings(e, i) : b[1].id > k =>
           \E o \in Bindings(d, i) : o[1].id = b[1].id /\ o[2].def = b[2].def,
         \A b \in Bindings(d, i) : b[1].id > k =>
           \E o \in Bindings(e, i) : o[1].id = b[1].id /\ o[2].def = b[2].def,
         \/ \E b \in Bindings(e, i) : b[1].id > k
         \/ \A b \in Bindings(d, i) \cup Bindings(e, i) : b[1].id > k
  PROVE  /\ \A b \in LastBinding(e, i) : \E o \in LastBinding(d, i) : o[2].def = b[2].def
         /\ \A o \in LastBinding(d, i) : \E b \in LastBinding(e, i) : o[2].def = b[2].def
<1>1. \A b \in Bindings(d, i) \cup Bindings(e, i) : b[1].id \in Nat
  BY DEF Bindings, Tables, ContainerRow, Id
<1>2. ASSUME NEW b \in LastBinding(e, i)
      PROVE  \E o \in LastBinding(d, i) : o[2].def = b[2].def
  <2>1. b \in Bindings(e, i) /\ \A q \in Bindings(e, i) : q[1].id <= b[1].id
    BY DEF LastBinding
  <2>2. b[1].id > k
    BY <1>1, <2>1
  <2>3. PICK o \in Bindings(d, i) : o[1].id = b[1].id /\ o[2].def = b[2].def
    BY <2>1, <2>2
  <2>4. \A q \in Bindings(d, i) : q[1].id <= o[1].id
    <3>1. SUFFICES ASSUME NEW q \in Bindings(d, i)
                   PROVE  q[1].id <= b[1].id
      BY <2>3
    <3>2. CASE q[1].id > k
      BY <2>1, <3>2
    <3>3. CASE ~(q[1].id > k)
      BY <1>1, <2>1, <2>2, <3>3
    <3> QED
      BY <3>2, <3>3
  <2> QED
    BY <2>3, <2>4 DEF LastBinding
<1>3. ASSUME NEW o \in LastBinding(d, i)
      PROVE  \E b \in LastBinding(e, i) : o[2].def = b[2].def
  <2>1. o \in Bindings(d, i) /\ \A q \in Bindings(d, i) : q[1].id <= o[1].id
    BY DEF LastBinding
  <2>2. o[1].id > k
    <3>1. CASE \E b \in Bindings(e, i) : b[1].id > k
      <4>1. PICK q \in Bindings(d, i) : q[1].id > k
        BY <3>1
      <4> QED
        BY <1>1, <2>1, <4>1
    <3> QED
      BY <2>1, <3>1
  <2>3. PICK b \in Bindings(e, i) : b[1].id = o[1].id /\ b[2].def = o[2].def
    BY <2>1, <2>2
  <2>4. \A q \in Bindings(e, i) : q[1].id <= b[1].id
    <3>1. SUFFICES ASSUME NEW q \in Bindings(e, i)
                   PROVE  q[1].id <= o[1].id
      BY <2>3
    <3>2. CASE q[1].id > k
      BY <2>1, <3>2
    <3>3. CASE ~(q[1].id > k)
      BY <1>1, <2>1, <2>2, <3>3
    <3> QED
      BY <3>2, <3>3
  <2> QED
    BY <2>3, <2>4 DEF LastBinding
<1> QED
  BY <1>2, <1>3

\* What a committed container binds, a push that rewrites the schema leaves bound.
LEMMA Carried ==
  ASSUME IInv, NEW t \in Txn, InOrder(db), SchemaWritten(t), NEW c \in db.container
  PROVE  /\ \A s \in View(t).schema : s.id = c.schema /\ s.active =>
              \E r \in db.schema : r.id = c.schema /\ r.active /\ r.def = s.def
         /\ \A r \in db.schema : r.id = c.schema /\ r.active =>
              \E s \in View(t).schema : s.id = c.schema /\ s.active /\ s.def = r.def
<1>1. PICK w \in work[t].schema :
        /\ work[t].schema = {w}
        /\ \/ \E r \in db.schema : SameSchema(w, r)
           \/ w.id \notin Ids(db.schema)
  BY DEF SchemaWritten
<1>2. /\ \A s \in View(t).schema : s \in db.schema \/ s = w
      /\ \A r \in db.schema : r.id # w.id => r \in View(t).schema
      /\ w \in View(t).schema
  BY <1>1 DEF View, OverlayTables, Overlay, Ids
<1>3. c.schema \in Ids(db.schema)
  BY DEF IInv, ReferencesInv
<1>4. ASSUME w.id = c.schema
      PROVE  \E r \in db.schema : SameSchema(w, r) /\ \A q \in db.schema : q.id = w.id => q = r
  <2>1. PICK r \in db.schema : SameSchema(w, r)
    BY <1>1, <1>3, <1>4
  <2> QED
    BY <2>1 DEF SameSchema, InOrder
<1>5. ASSUME NEW s \in View(t).schema, s.id = c.schema, s.active
      PROVE  \E r \in db.schema : r.id = c.schema /\ r.active /\ r.def = s.def
  BY <1>2, <1>4, <1>5 DEF SameSchema
<1>6. ASSUME NEW r \in db.schema, r.id = c.schema, r.active
      PROVE  \E s \in View(t).schema : s.id = c.schema /\ s.active /\ s.def = r.def
  BY <1>2, <1>4, <1>6 DEF SameSchema
<1> QED
  BY <1>5, <1>6

\* What is served is told by the last containers.
LEMMA ServedByLast ==
  ASSUME IInv, TimesInv, NEW t \in Txn, NEW p
  PROVE  /\ p \in Served(View(t)) <=>
              \E v \in View(t).services : \E b \in LastBinding(View(t), v.id) :
                p = [name |-> v.name, def |-> b[2].def]
         /\ p \in Served(db) <=>
              \E v \in db.services : \E b \in LastBinding(db, v.id) :
                p = [name |-> v.name, def |-> b[2].def]
<1>1. View(t) \in Tables /\ db \in Tables /\ nextId.container \in Nat
  BY ViewType DEF IInv, TypeOK, Id
<1>2. /\ \A c \in View(t).container : c.id < nextId.container
      /\ \A c \in db.container : c.id < nextId.container
  BY ViewFacts DEF IInv, ContainersInv, AllContainers
<1>3. Owned(View(t)) /\ Owned(db)
  BY ViewFacts DEF IInv, ReferencesInv, AllContainers, AllSchemas, Owned
<1>4. InOrder(View(t)) /\ InOrder(db)
  BY DEF TimesInv
<1>5. \A i : LatestOf(View(t), i) = LastBinding(View(t), i)
  BY <1>1, <1>2, <1>3, <1>4, LatestIsLast
<1>6. \A i : LatestOf(db, i) = LastBinding(db, i)
  BY <1>1, <1>2, <1>3, <1>4, LatestIsLast
<1> DEFINE d == View(t)
<1>7. p \in Served(d) <=> \E v \in d.services : \E b \in LastBinding(d, v.id) :
                               p = [name |-> v.name, def |-> b[2].def]
  <2> HIDE DEF d
  <2>1. \A i : LatestOf(d, i) = LastBinding(d, i)
    BY <1>5 DEF d
  <2> QED
    BY <2>1, InServed
<1>8. p \in Served(db) <=> \E v \in db.services : \E b \in LastBinding(db, v.id) :
                               p = [name |-> v.name, def |-> b[2].def]
  BY <1>6, InServed
<1> QED
  BY <1>7, <1>8

\* A push leaves the bindings of the other services alone.
LEMMA OtherBindings ==
  ASSUME IInv, NEW t \in Txn, SchemaWritten(t), ContainerWritten(t),
         NEW j, j # local[t].service
  PROVE  LastBinding(View(t), j) = LastBinding(db, j)
<1>1. PICK s \in work[t].schema : work[t].schema = {s} /\ s.service = local[t].service
  BY DEF SchemaWritten
<1>2. \A c \in work[t].container : c.service = local[t].service
  BY DEF ContainerWritten, Bound
<1>3. \A b : b \in Bindings(View(t), j) => b \in Bindings(db, j)
  <2>1. SUFFICES ASSUME NEW b \in Bindings(View(t), j)
                 PROVE  b \in Bindings(db, j)
    OBVIOUS
  <2>2. /\ b = <<b[1], b[2]>> /\ b[1] \in View(t).container /\ b[2] \in View(t).schema
        /\ b[1].service = j /\ b[2].id = b[1].schema /\ b[2].active
    BY DEF Bindings
  <2>3. b[2].service = j
    BY <2>2, ViewFacts DEF IInv, ReferencesInv, AllSchemas, AllContainers
  <2>4. b[1] \in db.container /\ b[2] \in db.schema
    BY <1>1, <1>2, <2>2, <2>3, ViewFacts
  <2> QED
    BY <2>2, <2>4 DEF Bindings
<1>4. \A b : b \in Bindings(db, j) => b \in Bindings(View(t), j)
  <2>1. SUFFICES ASSUME NEW b \in Bindings(db, j)
                 PROVE  b \in Bindings(View(t), j)
    OBVIOUS
  <2>2. /\ b = <<b[1], b[2]>> /\ b[1] \in db.container /\ b[2] \in db.schema
        /\ b[1].service = j /\ b[2].id = b[1].schema /\ b[2].active
    BY DEF Bindings
  <2>3. b[2].service = j
    BY <2>2 DEF IInv, ReferencesInv, AllSchemas, AllContainers
  <2>4. b[2].id # s.id
    BY <1>1, <2>2, <2>3 DEF IInv, SchemasInv, AllSchemas
  <2>5. \A c \in work[t].container : c.id # b[1].id
    BY <1>2, <2>2 DEF IInv, ContainersInv, AllContainers
  <2>6. b[1] \in View(t).container /\ b[2] \in View(t).schema
    BY <1>1, <2>2, <2>4, <2>5 DEF View, OverlayTables, Overlay, Ids
  <2> QED
    BY <2>2, <2>6 DEF Bindings
<1>5. Bindings(View(t), j) = Bindings(db, j)
  BY <1>3, <1>4 DEF Bindings
<1> QED
  BY <1>5 DEF LastBinding

\* The services a push sees: the others as they are committed, and its own.
LEMMA PushServices ==
  ASSUME IInv, PushInv, SearchInv, WrittenInv, NEW t \in Txn, req[t].kind = "push",
         pc[t] \in AfterContainer
  PROVE  /\ \A v : v.name # req[t].name => (v \in View(t).services <=> v \in db.services)
         /\ \E v \in View(t).services : v.id = local[t].service /\ v.name = req[t].name
         /\ \A v \in View(t).services \cup db.services :
              v.name = req[t].name <=> v.id = local[t].service
<1>1. pc[t] \in Statements /\ pc[t] \in AfterService
  BY DEF AfterContainer, Answered, AfterService, AfterSchema, Statements
<1>2. \A v \in work[t].services : v.name = req[t].name
  BY <1>1 DEF WrittenInv, PushWritten
<1>3. \A v \in View(t).services \cup db.services : v \in AllServices
  BY ViewFacts DEF AllServices
<1>4. \E v \in View(t).services : v.id = local[t].service /\ v.name = req[t].name
  <2>1. local[t].service \in Ids(View(t).services)
    BY <1>1, ViewFacts DEF SearchInv, StillThere, ServiceSeen
  <2> QED
    BY <1>1, <1>3, <2>1 DEF PushInv, PushServiceInv, Ids
<1>5. \A v \in View(t).services \cup db.services :
        v.name = req[t].name <=> v.id = local[t].service
  BY <1>3, <1>4 DEF IInv, ServicesInv
<1>6. \A v \in db.services : v.name # req[t].name => v \in View(t).services
  <2>1. \A v \in db.services : v.name # req[t].name => v.id \notin Ids(work[t].services)
    BY <1>2 DEF IInv, ServicesInv, AllServices, Ids
  <2> QED
    BY <2>1 DEF View, OverlayTables, Overlay
<1> QED
  BY <1>2, <1>4, <1>5, <1>6, ViewFacts

\* What a push changes of what is served is its own part.
LEMMA PushServes ==
  ASSUME IInv, PushInv, SearchInv, TimesInv, WrittenInv, NEW t \in Txn,
         req[t].kind = "push", pc[t] \in AfterContainer
  PROVE  /\ \A n, x : n # req[t].name =>
              ([name |-> n, def |-> x] \in Served(View(t)) <=> [name |-> n, def |-> x] \in Served(db))
         /\ \A x : [name |-> req[t].name, def |-> x] \in Served(View(t)) <=>
              \E b \in LastBinding(View(t), local[t].service) : b[2].def = x
         /\ \A x : [name |-> req[t].name, def |-> x] \in Served(db) <=>
              \E b \in LastBinding(db, local[t].service) : b[2].def = x
<1>1. SchemaWritten(t) /\ ContainerWritten(t)
  BY DEF WrittenInv, PushWritten, AfterSchema
<1> DEFINE d == View(t)
           i == local[t].service
           own == req[t].name
<1>2. /\ \A v : v.name # own => (v \in d.services <=> v \in db.services)
      /\ \E v \in d.services : v.id = i /\ v.name = own
      /\ \A v \in d.services \cup db.services : v.name = own <=> v.id = i
  BY PushServices
<1>3. \A j : j # i => LastBinding(d, j) = LastBinding(db, j)
  BY <1>1, OtherBindings
<1>4. \A p : p \in Served(d) <=>
              \E v \in d.services : \E b \in LastBinding(d, v.id) :
                p = [name |-> v.name, def |-> b[2].def]
  BY ServedByLast
<1>5. \A p : p \in Served(db) <=>
              \E v \in db.services : \E b \in LastBinding(db, v.id) :
                p = [name |-> v.name, def |-> b[2].def]
  BY ServedByLast
<1>6. \A b \in LastBinding(db, i) : \E v \in db.services : v.id = i
  BY DEF LastBinding, Bindings, IInv, ReferencesInv, Ids
<1> HIDE DEF d, i, own
<1>7. \A n, x : [name |-> n, def |-> x] \in Served(d) <=>
              \E v \in d.services : v.name = n /\ \E b \in LastBinding(d, v.id) : b[2].def = x
  BY <1>4
<1>8. \A n, x : [name |-> n, def |-> x] \in Served(db) <=>
              \E v \in db.services : v.name = n /\ \E b \in LastBinding(db, v.id) : b[2].def = x
  BY <1>5
<1>9. \A n, x : n # own =>
              ([name |-> n, def |-> x] \in Served(d) <=> [name |-> n, def |-> x] \in Served(db))
  BY <1>2, <1>3, <1>7, <1>8
<1>10. \A x : [name |-> own, def |-> x] \in Served(d) <=>
              \E b \in LastBinding(d, i) : b[2].def = x
  BY <1>2, <1>7
<1>11. \A x : [name |-> own, def |-> x] \in Served(db) <=>
              \E b \in LastBinding(db, i) : b[2].def = x
  BY <1>2, <1>6, <1>8
<1> QED
  BY <1>9, <1>10, <1>11 DEF d, i, own

\* A part that is served names a service and a definition.
LEMMA PartsServed ==
  ASSUME NEW d, NEW p \in Served(d)
  PROVE  \E n, x : p = [name |-> n, def |-> x]
BY InServed

\* A push whose own part is the same leaves what is served as it is.
LEMMA ServesTheSame ==
  ASSUME IInv, PushInv, SearchInv, TimesInv, WrittenInv, NEW t \in Txn,
         req[t].kind = "push", pc[t] \in AfterContainer,
         \A b \in LastBinding(View(t), local[t].service) :
           \E o \in LastBinding(db, local[t].service) : o[2].def = b[2].def,
         \A o \in LastBinding(db, local[t].service) :
           \E b \in LastBinding(View(t), local[t].service) : o[2].def = b[2].def
  PROVE  Served(View(t)) = Served(db)
<1>1. \A n, x : [name |-> n, def |-> x] \in Served(View(t))
                  <=> [name |-> n, def |-> x] \in Served(db)
  <2>1. SUFFICES ASSUME NEW n, NEW x
                 PROVE  [name |-> n, def |-> x] \in Served(View(t))
                          <=> [name |-> n, def |-> x] \in Served(db)
    OBVIOUS
  <2>2. CASE n = req[t].name
    <3>1. [name |-> req[t].name, def |-> x] \in Served(View(t)) <=>
              \E b \in LastBinding(View(t), local[t].service) : b[2].def = x
      BY PushServes
    <3>2. [name |-> req[t].name, def |-> x] \in Served(db) <=>
              \E b \in LastBinding(db, local[t].service) : b[2].def = x
      BY PushServes
    <3>3. (\E b \in LastBinding(View(t), local[t].service) : b[2].def = x)
            <=> (\E b \in LastBinding(db, local[t].service) : b[2].def = x)
      OBVIOUS
    <3> QED
      BY <2>2, <3>1, <3>2, <3>3
  <2>3. CASE n # req[t].name
    BY <2>3, PushServes
  <2> QED
    BY <2>2, <2>3
<1>2. \A p \in Served(View(t)) : p \in Served(db)
  BY <1>1, PartsServed
<1>3. \A p \in Served(db) : p \in Served(View(t))
  BY <1>1, PartsServed
<1> QED
  BY <1>2, <1>3

\* A push whose own part is one definition adds it to the others.
LEMMA ServesTheCandidate ==
  ASSUME IInv, PushInv, SearchInv, TimesInv, WrittenInv, NEW t \in Txn,
         req[t].kind = "push", pc[t] \in AfterContainer,
         \E b \in LastBinding(View(t), local[t].service) : TRUE,
         \A b \in LastBinding(View(t), local[t].service) : b[2].def = req[t].def
  PROVE  Served(View(t)) = {p \in Served(db) : p.name # req[t].name}
                             \cup {[name |-> req[t].name, def |-> req[t].def]}
<1> DEFINE own == req[t].name
           new == [name |-> own, def |-> req[t].def]
<1>1. \A x : [name |-> own, def |-> x] \in Served(View(t)) <=> x = req[t].def
  <2>1. \A x : [name |-> req[t].name, def |-> x] \in Served(View(t)) <=>
              \E b \in LastBinding(View(t), local[t].service) : b[2].def = x
    BY PushServes
  <2> QED
    BY <2>1
<1>2. \A n, x : n # own =>
         ([name |-> n, def |-> x] \in Served(View(t)) <=> [name |-> n, def |-> x] \in Served(db))
  BY PushServes
<1>3. ASSUME NEW p \in Served(View(t))
      PROVE  p \in {q \in Served(db) : q.name # own} \cup {new}
  <2>1. PICK n, x : p = [name |-> n, def |-> x]
    BY PartsServed
  <2>2. CASE n = own
    BY <1>1, <2>1, <2>2
  <2>3. CASE n # own
    BY <1>2, <2>1, <2>3
  <2> QED
    BY <2>2, <2>3
<1>4. ASSUME NEW p \in Served(db), p.name # own
      PROVE  p \in Served(View(t))
  <2>1. PICK n, x : p = [name |-> n, def |-> x]
    BY PartsServed
  <2> QED
    BY <1>2, <1>4, <2>1
<1>5. new \in Served(View(t))
  BY <1>1
<1> QED
  BY <1>3, <1>4, <1>5

\* A push whose container is the last of its service serves its schema.
LEMMA LastIsCandidate ==
  ASSUME IInv, PushInv, TimesInv, NEW t \in Txn, req[t].kind = "push", pc[t] \in AfterContainer,
         NEW c \in Bound(t), c.schema = local[t].schema,
         NEW s \in View(t).schema, s.id = local[t].schema, s.active,
         \A b \in Bindings(View(t), local[t].service) : b[1].id <= c.id
  PROVE  /\ \E b \in LastBinding(View(t), local[t].service) : TRUE
         /\ \A b \in LastBinding(View(t), local[t].service) : b[2].def = req[t].def
<1>1. c \in View(t).container /\ c.service = local[t].service
  BY DEF Bound
<1>2. <<c, s>> \in Bindings(View(t), local[t].service)
  BY <1>1 DEF Bindings
<1>3. <<c, s>> \in LastBinding(View(t), local[t].service)
  BY <1>2 DEF LastBinding
<1>4. ASSUME NEW b \in LastBinding(View(t), local[t].service)
      PROVE  b[2].def = req[t].def
  <2>1. b \in Bindings(View(t), local[t].service) /\ c.id <= b[1].id
    BY <1>2 DEF LastBinding
  <2>2. b[1] \in View(t).container /\ b[2] \in View(t).schema /\ b[2].id = b[1].schema
    BY <2>1 DEF Bindings
  <2>3. b[1].id = c.id
    <3>1. b[1].id \in Nat /\ c.id \in Nat
      BY <1>1, <2>2, ViewType DEF IInv, Tables, ContainerRow, Id
    <3> QED
      BY <2>1, <3>1
  <2>4. b[1] = c
    BY <1>1, <2>2, <2>3 DEF TimesInv, InOrder
  <2>5. b[2] \in AllSchemas /\ pc[t] \in AfterService
    BY <2>2, ViewFacts DEF AllSchemas, AfterService, AfterSchema
  <2> QED
    BY <2>2, <2>4, <2>5 DEF PushInv, PushSchemaInv
<1> QED
  BY <1>3, <1>4

\* A push whose later containers were there before serves what was served.
LEMMA CarriedOn ==
  ASSUME IInv, PushInv, SearchInv, TimesInv, WrittenInv, NEW t \in Txn,
         req[t].kind = "push", pc[t] \in AfterContainer, NEW k \in Nat,
         \A b \in Bindings(View(t), local[t].service) : b[1].id > k => b[1] \in db.container,
         \A c \in db.container : c.id > k => c \in View(t).container,
         \/ \E b \in Bindings(View(t), local[t].service) : b[1].id > k
         \/ k = 0
  PROVE  Served(View(t)) = Served(db)
<1> DEFINE d == View(t)
           i == local[t].service
<1>1. db \in Tables /\ d \in Tables
  BY ViewType DEF IInv, TypeOK
<1>2. ASSUME NEW c \in db.container
      PROVE  /\ \A s \in d.schema : s.id = c.schema /\ s.active =>
                  \E r \in db.schema : r.id = c.schema /\ r.active /\ r.def = s.def
             /\ \A r \in db.schema : r.id = c.schema /\ r.active =>
                  \E s \in d.schema : s.id = c.schema /\ s.active /\ s.def = r.def
  <2>1. SchemaWritten(t) /\ InOrder(db)
    BY DEF WrittenInv, PushWritten, AfterSchema, TimesInv
  <2> QED
    BY <2>1, Carried
<1>3. \A b \in Bindings(d, i) : b[1].id > k => b[1] \in db.container
  OBVIOUS
<1>4. \A c \in db.container : c.id > k => c \in d.container
  OBVIOUS
<1>5. (\E b \in Bindings(d, i) : b[1].id > k) \/ k = 0
  OBVIOUS
<1> HIDE DEF d, i
<1>6. \A b \in Bindings(d, i) : b[1].id > k =>
           \E o \in Bindings(db, i) : o[1].id = b[1].id /\ o[2].def = b[2].def
  <2>1. SUFFICES ASSUME NEW b \in Bindings(d, i), b[1].id > k
                 PROVE  \E o \in Bindings(db, i) : o[1].id = b[1].id /\ o[2].def = b[2].def
    OBVIOUS
  <2>2. /\ b[1] \in db.container /\ b[2] \in d.schema
        /\ b[1].service = i /\ b[2].id = b[1].schema /\ b[2].active
    BY <1>3, <2>1 DEF Bindings
  <2>3. PICK r \in db.schema : r.id = b[1].schema /\ r.active /\ r.def = b[2].def
    BY <1>2, <2>2
  <2>4. <<b[1], r>> \in Bindings(db, i)
    BY <2>2, <2>3 DEF Bindings
  <2> QED
    BY <2>3, <2>4
<1>7. \A o \in Bindings(db, i) : o[1].id > k =>
           \E b \in Bindings(d, i) : b[1].id = o[1].id /\ b[2].def = o[2].def
  <2>1. SUFFICES ASSUME NEW o \in Bindings(db, i), o[1].id > k
                 PROVE  \E b \in Bindings(d, i) : b[1].id = o[1].id /\ b[2].def = o[2].def
    OBVIOUS
  <2>2. /\ o[1] \in db.container /\ o[1] \in d.container /\ o[2] \in db.schema
        /\ o[1].service = i /\ o[2].id = o[1].schema /\ o[2].active
    BY <1>4, <2>1 DEF Bindings
  <2>3. PICK s \in d.schema : s.id = o[1].schema /\ s.active /\ s.def = o[2].def
    BY <1>2, <2>2
  <2>4. <<o[1], s>> \in Bindings(d, i)
    BY <2>2, <2>3 DEF Bindings
  <2> QED
    BY <2>3, <2>4
<1>8. \/ \E b \in Bindings(d, i) : b[1].id > k
      \/ \A b \in Bindings(db, i) \cup Bindings(d, i) : b[1].id > k
  <2>1. \A b \in Bindings(db, i) \cup Bindings(d, i) : b[1].id \in Nat /\ b[1].id # 0
    BY <1>1 DEF Bindings, Tables, ContainerRow, Id, None
  <2> QED
    BY <1>5, <2>1
<1>9. /\ \A b \in LastBinding(d, i) : \E o \in LastBinding(db, i) : o[2].def = b[2].def
      /\ \A o \in LastBinding(db, i) : \E b \in LastBinding(d, i) : o[2].def = b[2].def
  BY <1>1, <1>6, <1>7, <1>8, SameDefs
<1> QED
  BY <1>9, ServesTheSame DEF d, i

------------------------------------------------------------------------------
(* What a push of each kind serves.                                        *)

\* What a push has written of containers, and the schema they bind.
LEMMA ContainerCases ==
  ASSUME IInv, PushInv, SearchInv, TimesInv, WrittenInv, NEW t \in Txn,
         req[t].kind = "push", pc[t] \in AfterContainer
  PROVE  \E c \in Bound(t), s \in View(t).schema :
           /\ c.schema = local[t].schema /\ c.id = local[t].container
           /\ s.id = local[t].schema
           /\ s.active \/ s.id \in Ids(db.schema)
           /\ \/ View(t).container = db.container /\ c \in db.container
              \/ /\ View(t).container = db.container \cup {c}
                 /\ \A e \in db.container : e.id < c.id
              \/ /\ req[t].version = Dev /\ c.id \in Ids(db.container)
                 /\ View(t).container = {e \in db.container : e.id # c.id} \cup {c}
<1>1. SchemaWritten(t) /\ ContainerWritten(t)
  BY DEF WrittenInv, PushWritten, AfterSchema
<1>2. PICK s \in work[t].schema :
        /\ s.id = local[t].schema /\ (s.active \/ s.id \in Ids(db.schema))
  BY <1>1 DEF SchemaWritten, SameSchema, Ids
<1>3. s \in View(t).schema
  BY DEF View, OverlayTables, Overlay
<1>4. PICK c \in Bound(t) :
        /\ c.schema = local[t].schema /\ c.id = local[t].container
        /\ \/ work[t].container = {} /\ c \in db.container
           \/ work[t].container = {c} /\ \A e \in db.container : e.id < c.id
           \/ /\ work[t].container = {c} /\ req[t].version = Dev
              /\ \E e \in db.container : c = Rebound(e, local[t].schema)
  BY <1>1 DEF ContainerWritten
<1>5. View(t).container
        = {e \in db.container : e.id \notin Ids(work[t].container)} \cup work[t].container
  BY DEF View, OverlayTables, Overlay
<1>6. CASE work[t].container = {} /\ c \in db.container
  <2>1. View(t).container = db.container
    BY <1>5, <1>6 DEF Ids
  <2> QED
    BY <1>2, <1>3, <1>4, <1>6, <2>1
<1>7. CASE work[t].container = {c} /\ \A e \in db.container : e.id < c.id
  <2>1. \A e \in db.container : e.id # c.id
    <3>1. \A e \in db.container : e.id \in Nat
      BY DEF IInv, TypeOK, Tables, ContainerRow, Id
    <3>2. c.id \in Nat
      BY ViewType DEF IInv, Tables, ContainerRow, Id, Bound
    <3> QED
      BY <1>7, <3>1, <3>2
  <2>2. View(t).container = db.container \cup {c}
    BY <1>5, <1>7, <2>1 DEF Ids
  <2> QED
    BY <1>2, <1>3, <1>4, <1>7, <2>2
<1>8. ASSUME work[t].container = {c}, req[t].version = Dev,
             NEW e \in db.container, c = Rebound(e, local[t].schema)
      PROVE  /\ req[t].version = Dev /\ c.id \in Ids(db.container)
             /\ View(t).container = {f \in db.container : f.id # c.id} \cup {c}
  <2>1. c.id = e.id
    BY <1>8 DEF Rebound, IInv, TypeOK, Tables, ContainerRow
  <2>2. Ids(work[t].container) = {c.id}
    BY <1>8 DEF Ids
  <2> QED
    BY <1>5, <1>8, <2>1, <2>2 DEF Ids
<1> QED
  BY <1>2, <1>3, <1>4, <1>6, <1>7, <1>8

\* A push either serves what was served before or its own definition with the
\* rest; the latter when its container is new and its schema active.
LEMMA PushOutcome ==
  ASSUME IInv, PushInv, SearchInv, TimesInv, WrittenInv, NEW t \in Txn,
         req[t].kind = "push", pc[t] \in AfterContainer,
         NEW active, active = \E r \in View(t).schema : r.id = local[t].schema /\ r.active
  PROVE  /\ local[t].container \notin Ids(db.container) /\ active
              => Served(View(t)) = {p \in Served(db) : p.name # req[t].name}
                             \cup {[name |-> req[t].name, def |-> req[t].def]}
         /\ req[t].version # Dev /\ local[t].container \in Ids(db.container)
              => Served(View(t)) = Served(db)
         /\ req[t].version # Dev \/ active
              => \/ Served(View(t)) = {p \in Served(db) : p.name # req[t].name}
                             \cup {[name |-> req[t].name, def |-> req[t].def]}
                 \/ Served(View(t)) = Served(db)
<1> DEFINE d == View(t)
           i == local[t].service
           Adds == Served(d) = {p \in Served(db) : p.name # req[t].name}
                             \cup {[name |-> req[t].name, def |-> req[t].def]}
           Keeps == Served(d) = Served(db)
<1>1. PICK c \in Bound(t), s \in d.schema :
           /\ c.schema = local[t].schema /\ c.id = local[t].container
           /\ s.id = local[t].schema
           /\ s.active \/ s.id \in Ids(db.schema)
           /\ \/ d.container = db.container /\ c \in db.container
              \/ /\ d.container = db.container \cup {c}
                 /\ \A e \in db.container : e.id < c.id
              \/ /\ req[t].version = Dev /\ c.id \in Ids(db.container)
                 /\ d.container = {e \in db.container : e.id # c.id} \cup {c}
  BY ContainerCases
<1>2. /\ \A r, q \in d.schema : r.id = q.id => r = q
      /\ \A e, f \in d.container : e.id = f.id => e = f
      /\ \A e \in d.container \cup db.container : e.id \in Nat
      /\ c \in d.container
  BY ViewType DEF TimesInv, InOrder, IInv, TypeOK, Tables, ContainerRow, Id, Bound
<1>3. active <=> s.active
  BY <1>1, <1>2
<1>4. \A b \in Bindings(d, i) : /\ b[1] \in d.container /\ b[2] \in d.schema
                                /\ b[2].id = b[1].schema /\ b[2].active
  BY DEF Bindings
<1>5. ASSUME s.active, \A b \in Bindings(d, i) : b[1].id <= c.id
      PROVE  Adds
  BY <1>1, <1>5, LastIsCandidate, ServesTheCandidate
<1>6. CASE d.container = db.container /\ c \in db.container
  <2>1. Keeps
    BY <1>4, <1>6, CarriedOn
  <2>2. c.id \in Ids(db.container)
    BY <1>6 DEF Ids
  <2> QED
    BY <1>1, <2>1, <2>2
<1>7. CASE d.container = db.container \cup {c} /\ \A e \in db.container : e.id < c.id
  <2>1. local[t].container \notin Ids(db.container)
    BY <1>1, <1>2, <1>7 DEF Ids
  <2>2. CASE s.active
    <3>1. \A b \in Bindings(d, i) : b[1].id <= c.id
      BY <1>2, <1>4, <1>7
    <3> QED
      BY <1>5, <2>1, <2>2, <3>1
  <2>3. CASE ~s.active
    <3>1. \A b \in Bindings(d, i) : b[1] # c
      BY <1>1, <1>2, <1>4, <2>3
    <3>2. \A b \in Bindings(d, i) : b[1] \in db.container
      BY <1>4, <1>7, <3>1
    <3>3. Keeps
      BY <1>7, <3>2, CarriedOn
    <3> QED
      BY <1>3, <2>1, <2>3, <3>3
  <2> QED
    BY <2>2, <2>3
<1>8. CASE /\ req[t].version = Dev /\ c.id \in Ids(db.container)
           /\ d.container = {e \in db.container : e.id # c.id} \cup {c}
  <2>1. ASSUME s.active
        PROVE  Adds \/ Keeps
    <3>1. CASE \A b \in Bindings(d, i) : b[1].id <= c.id
      BY <1>5, <2>1, <3>1
    <3>2. CASE \E b \in Bindings(d, i) : b[1].id > c.id
      <4>1. \A b \in Bindings(d, i) : b[1].id > c.id => b[1] \in db.container
        BY <1>2, <1>4, <1>8
      <4>2. \A e \in db.container : e.id > c.id => e \in d.container
        BY <1>2, <1>8
      <4>3. c.id \in Nat
        BY <1>2
      <4> QED
        BY <3>2, <4>1, <4>2, <4>3, CarriedOn
    <3>3. \A b \in Bindings(d, i) : b[1].id \in Nat
      BY <1>2, <1>4
    <3> QED
      BY <1>2, <3>1, <3>2, <3>3
  <2> QED
    BY <1>1, <1>3, <1>8, <2>1
<1> QED
  BY <1>1, <1>6, <1>7, <1>8

------------------------------------------------------------------------------
(* The theorems about what is served after a push.                         *)

\* The set a request validates is what its transaction sees.
THEOREM ComposedInvariance == Spec /\ []OneAtATime => []ComposedInv
<1>1. Init => ComposedInv
  BY DEF Init, ComposedInv
<1>2. IInv /\ SearchInv /\ ComposedInv /\ OneAtATime /\ OneAtATime' /\ [Next]_vars
        => ComposedInv'
  <2>1. SUFFICES ASSUME IInv, SearchInv, ComposedInv, OneAtATime, OneAtATime', [Next]_vars
                 PROVE  ComposedInv'
    OBVIOUS
  <2>2. CASE UNCHANGED vars
    BY <2>1, <2>2 DEF vars, ComposedInv, View, Composed
  <2>3. ASSUME NEW u \in Txn, Acts(u)
        PROVE  ComposedInv'
    BY <2>1, <2>3, ComposedStep DEF SearchInv
  <2> QED
    BY <2>1, <2>2, <2>3, WhoActs
<1> QED
  BY <1>1, <1>2, Invariance, SearchAlone, PTL DEF Spec

\* While requests do not overlap and no two begin in one millisecond, a push that
\* adds an active version is what is served for its service once it is committed
\* (src/src/database/schema.ts, getSchemaLastUpdated).
THEOREM PushServed == ClockAdvances => (Spec /\ []OneAtATime => PushIsServed)
<1>1. ASSUME IInv, PushInv, SearchInv, TimesInv, WrittenInv, [Next]_vars, NEW t \in Txn,
             req[t].kind = "push", pc[t] = "commit", pc'[t] = "done",
             local[t].container \notin Ids(db.container),
             \E s \in db'.schema : s.id = local[t].schema /\ s.active
      PROVE  [name |-> req[t].name, def |-> req[t].def] \in Served(db')
  <2>1. Commit(t)
    BY <1>1, PushEnds
  <2>2. db' = View(t)
    BY <2>1 DEF Commit, Publish
  <2>3. pc[t] \in AfterContainer
    BY <1>1 DEF AfterContainer, Answered
  <2>4. Served(View(t)) = {p \in Served(db) : p.name # req[t].name}
                             \cup {[name |-> req[t].name, def |-> req[t].def]}
    BY <1>1, <2>2, <2>3, PushOutcome
  <2> QED
    BY <2>2, <2>4
<1>2. IInv /\ PushInv /\ SearchInv /\ TimesInv /\ WrittenInv /\ [Next]_vars =>
        [\A t \in Txn :
           /\ req[t].kind = "push" /\ pc[t] = "commit" /\ pc'[t] = "done"
           /\ local[t].container \notin Ids(db.container)
           /\ \E s \in db'.schema : s.id = local[t].schema /\ s.active
           => [name |-> req[t].name, def |-> req[t].def] \in Served(db')]_vars
  BY <1>1
<1>3. CASE ClockAdvances
  <2>1. Spec /\ []OneAtATime => [](TimesInv /\ WrittenInv)
    BY <1>3, HistoryInvariance
  <2> QED
    BY <1>2, <2>1, Invariance, PushInvariance, SearchAlone, PTL DEF Spec, PushIsServed
<1> QED
  BY <1>3

\* A repeated push of a released version binds no container.
LEMMA RepeatBindsNothing ==
  ASSUME IInv, PushInv, SearchInv, TimesInv, WrittenInv, NEW t \in Txn,
         req[t].kind = "push", req[t].version # Dev, pc[t] \in AfterContainer,
         Registered(db, req[t])
  PROVE  local[t].container \in Ids(db.container)
<1>1. PICK c \in db.container : c.service = local[t].service /\ c.version = req[t].version
  <2>1. pc[t] \in AfterService
    BY DEF AfterService, AfterSchema
  <2> QED
    BY <2>1, FoundWhatIsRegistered
<1>2. PICK e \in Bound(t) : e.id = local[t].container
  BY ContainerCases
<1>3. e \in AllContainers /\ c \in AllContainers
      /\ e.service = c.service /\ e.version = c.version
  BY <1>1, <1>2, ViewFacts DEF Bound, AllContainers
<1>4. e.id = c.id
  BY <1>3 DEF IInv, ContainersInv
<1> QED
  BY <1>1, <1>2, <1>4 DEF Ids

\* While requests do not overlap and no two begin in one millisecond, a push of a
\* released version that is registered already changes nothing of what is served
\* (src/src/database/schema.ts, getSchemaLastUpdated).
THEOREM RepeatServes == ClockAdvances => (Spec /\ []OneAtATime => RepeatKeepsServed)
<1>1. ASSUME IInv, PushInv, SearchInv, TimesInv, WrittenInv, [Next]_vars, NEW t \in Txn,
             req[t].kind = "push", req[t].version # Dev,
             pc[t] = "commit", pc'[t] = "done", Registered(db, req[t])
      PROVE  Served(db') = Served(db)
  <2>1. Commit(t)
    BY <1>1, PushEnds
  <2>2. db' = View(t)
    BY <2>1 DEF Commit, Publish
  <2>3. pc[t] \in AfterContainer
    BY <1>1 DEF AfterContainer, Answered
  <2>4. local[t].container \in Ids(db.container)
    BY <1>1, <2>3, RepeatBindsNothing
  <2>5. Served(View(t)) = Served(db)
    BY <1>1, <2>3, <2>4, PushOutcome
  <2> QED
    BY <2>2, <2>5
<1>2. IInv /\ PushInv /\ SearchInv /\ TimesInv /\ WrittenInv /\ [Next]_vars =>
        [\A t \in Txn :
           /\ req[t].kind = "push" /\ req[t].version # Dev
           /\ pc[t] = "commit" /\ pc'[t] = "done"
           /\ Registered(db, req[t])
           => Served(db') = Served(db)]_vars
  BY <1>1
<1>3. CASE ClockAdvances
  <2>1. Spec /\ []OneAtATime => [](TimesInv /\ WrittenInv)
    BY <1>3, HistoryInvariance
  <2> QED
    BY <1>2, <2>1, Invariance, PushInvariance, SearchAlone, PTL DEF Spec, RepeatKeepsServed
<1> QED
  BY <1>3

\* While requests do not overlap and no two begin in one millisecond, a schema
\* that POST /schema/validate would accept is not refused as incompatible when it
\* is pushed, but for a deactivated one pushed for the development version
\* (src/src/controller/schema.ts, validateSchema and pushAndValidateSchema).
THEOREM ValidatePredicts ==
  ClockAdvances => (Spec /\ []OneAtATime => []ValidatePredictsPush)
<1>1. ASSUME IInv, PushInv, SearchInv, TimesInv, WrittenInv, ComposedInv
      PROVE  ValidatePredictsPush
  <2>1. SUFFICES ASSUME NEW t \in Txn, pc[t] = "validate", req[t].kind = "push",
                        ServedComposes,
                        Composes({p \in Served(db) : p.name # req[t].name}
                             \cup {[name |-> req[t].name, def |-> req[t].def]}),
                        \/ req[t].version # Dev
                        \/ \E s \in View(t).schema : s.id = local[t].schema /\ s.active
                 PROVE  Composes(Composed(t))
    BY DEF ValidatePredictsPush
  <2>2. Composed(t) = Served(View(t))
    BY <1>1, <2>1 DEF ComposedInv, Composed, Served
  <2>3. pc[t] \in AfterContainer
    BY <2>1 DEF AfterContainer, Answered
  <2>4. \/ Served(View(t)) = {p \in Served(db) : p.name # req[t].name}
                             \cup {[name |-> req[t].name, def |-> req[t].def]}
        \/ Served(View(t)) = Served(db)
    BY <1>1, <2>1, <2>3, PushOutcome
  <2> QED
    BY <2>1, <2>2, <2>4 DEF ServedComposes
<1>2. CASE ClockAdvances
  <2>1. Spec /\ []OneAtATime => [](TimesInv /\ WrittenInv)
    BY <1>2, HistoryInvariance
  <2> QED
    BY <1>1, <2>1, Invariance, PushInvariance, SearchAlone, ComposedInvariance, PTL
<1> QED
  BY <1>2

=============================================================================
