-------------------------- MODULE RegistryInvariant --------------------------
(***************************************************************************)
(* An inductive invariant of Registry.  It speaks of all row versions at   *)
(* once, committed or not: a row keeps what identifies it through every    *)
(* version, so it does not matter whose version is seen, or committed, or  *)
(* rolled back.                                                            *)
(***************************************************************************)
EXTENDS Registry

AllServices   == db.services \cup UNION {work[t].services : t \in Txn}
AllSchemas    == db.schema \cup UNION {work[t].schema : t \in Txn}
AllContainers == db.container \cup UNION {work[t].container : t \in Txn}

\* The statements of registerSchema.
PushStatements ==
  {"getService", "insertService", "updateUrl", "findSchema", "versionExists",
   "writeSchema", "findContainer", "switchContainer", "insertContainer",
   "readResult", "readExact", "fallback"}

\* A handler runs the statements of its own kind of request.
RequestInv ==
  \A t \in Txn :
    /\ pc[t] \in PushStatements => req[t] \in PushRequest
    /\ pc[t] = "switchContainer" => req[t].version = Dev
    /\ pc[t] = "toggle" => req[t] \in ToggleRequest
    /\ pc[t] \in {"delete", "cascade"} => req[t] \in DeleteRequest

\* An id stands for one name and a name for one id.
ServicesInv ==
  /\ \A s \in AllServices : s.id < nextId.services
  /\ \A s, r \in AllServices : s.id = r.id <=> s.name = r.name

\* An id stands for one definition of one service.
SchemasInv ==
  /\ \A s \in AllSchemas : s.id < nextId.schema
  /\ \A s, r \in AllSchemas :
       s.id = r.id => s.service = r.service /\ s.def = r.def

\* An id stands for one version of one service and back; only a development
\* version has row versions with different schemas.  A transaction writes one
\* container at most.
ContainersInv ==
  /\ \A c \in AllContainers : c.id < nextId.container
  /\ \A c, d \in AllContainers :
       /\ c.id = d.id <=> c.service = d.service /\ c.version = d.version
       /\ c.id = d.id /\ c.version # Dev => c.schema = d.schema
  /\ \A c, d \in db.container : c.id = d.id => c = d
  /\ \A t \in Txn : \A c, d \in work[t].container : c = d

\* What a row refers to is committed or of the same transaction.
ReferencesInv ==
  /\ \A s \in db.schema : s.service \in Ids(db.services)
  /\ \A c \in db.container : /\ c.service \in Ids(db.services)
                             /\ c.schema \in Ids(db.schema)
  /\ \A t \in Txn :
       /\ \A s \in work[t].schema :
            s.service \in Ids(db.services) \cup Ids(work[t].services)
       /\ \A c \in work[t].container :
            /\ c.service \in Ids(db.services) \cup Ids(work[t].services)
            /\ c.schema \in Ids(db.schema) \cup Ids(work[t].schema)
  /\ \A c \in AllContainers, s \in AllSchemas :
       s.id = c.schema => s.service = c.service

\* A handler has written no container before it looks for one, and the schema
\* it found is one of the service it found.
HandlerInv ==
  \A t \in Txn :
    /\ pc[t] \in {"idle", "delete", "cascade"} => work[t] = NoRows
    /\ pc[t] \in {"idle", "delete", "cascade", "getService", "insertService",
                  "updateUrl", "findSchema"} => local[t].schema = None
    /\ pc[t] \in {"getService", "insertService", "updateUrl", "findSchema",
                  "versionExists", "writeSchema", "findContainer",
                  "switchContainer", "insertContainer", "toggle"}
         => work[t].container = {}
    /\ local[t].schema < nextId.schema
    /\ \A s \in AllSchemas :
         s.id = local[t].schema => s.service = local[t].service

\* The tables, the open transactions and the handlers fit together
\* (src/src/database/schema.ts, registerSchema).
IInv == /\ TypeOK
        /\ RequestInv
        /\ ServicesInv
        /\ SchemasInv
        /\ ContainersInv
        /\ ReferencesInv
        /\ HandlerInv

------------------------------------------------------------------------------
(* What a push that gets through has registered.                           *)

\* The statements of a push after the one that found or made ...
Answered       == {"fallback", "readActive", "validate", "commit"}
AfterContainer == {"readResult", "readExact"} \cup Answered
AfterSchema    == {"findContainer", "switchContainer", "insertContainer"}
                    \cup AfterContainer
AfterService   == {"updateUrl", "findSchema", "versionExists", "writeSchema"}
                    \cup AfterSchema

\* The service is still there: committed, or made by the push itself.
ServiceSeen(t) ==
  local[t].service \in Ids(db.services) \cup Ids(work[t].services)

\* The id is of the service the push names; once deleted it never comes back.
PushServiceInv(t) ==
  pc[t] \in AfterService =>
    /\ local[t].service < nextId.services
    /\ \A s \in AllServices : s.id = local[t].service => s.name = req[t].name
    /\ local[t].service \in Ids(AllServices) => ServiceSeen(t)

\* The schema is the one that was pushed.  It is written as long as its service
\* is there, and a deletion of the service waits for it from then on.
PushSchemaInv(t) ==
  /\ pc[t] \in AfterService =>
       \A s \in AllSchemas : s.id = local[t].schema => s.def = req[t].def
  /\ pc[t] \in {"versionExists", "writeSchema"} /\ local[t].schema # None /\ ServiceSeen(t)
       => local[t].schema \in Ids(db.schema) \cup Ids(work[t].schema)
  /\ pc[t] \in AfterSchema /\ ServiceSeen(t)
       => local[t].schema \in Ids(work[t].schema)

\* The container that binds the version to the schema is there, and nobody else
\* can rebind it.
PushContainerInv(t) ==
  /\ pc[t] = "switchContainer" => ServiceSeen(t) /\ Bound(t) # {}
  /\ pc[t] \in AfterContainer =>
       /\ ServiceSeen(t)
       /\ \E c \in Bound(t) :
            /\ c.schema = local[t].schema
            /\ req[t].version = Dev => c \in work[t].container

\* The answer of a released version is what was pushed.
PushAnswerInv(t) ==
  pc[t] \in Answered /\ req[t].version # Dev
    => local[t].answer = {[name |-> req[t].name, def |-> req[t].def]}

\* The row a DELETE has taken is of the service it names.  It is not new, and no
\* other transaction has written it.
TakenInv ==
  \A t \in Txn :
    /\ pc[t] \in {"idle", "delete"} => local[t].service = None
    /\ req[t].kind = "delete" =>
         /\ local[t].service < nextId.services
         /\ \A s \in AllServices : s.id = local[t].service => s.name = req[t].name
         /\ \A u \in Others(t) : local[t].service \notin Ids(work[u].services)

\* What a handler of a push has found or made is what it was sent, and stays
\* there, or the push fails (src/src/database/schema.ts, registerSchema).
PushInv ==
  \A t \in Txn : req[t].kind = "push" =>
    PushServiceInv(t) /\ PushSchemaInv(t) /\ PushContainerInv(t) /\ PushAnswerInv(t)

=============================================================================
