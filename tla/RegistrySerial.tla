----------------------------- MODULE RegistrySerial -----------------------------
(***************************************************************************)
(* What holds of Registry while the requests for one service, and then     *)
(* while all requests, do not overlap, and what follows for the set of     *)
(* schemas that is served: inductive invariants of such behaviours,        *)
(* however many connections there are.                                     *)
(***************************************************************************)
EXTENDS RegistryInvariant

\* No two requests are open at once.
OneAtATime == \A t, u \in Txn : Open(t) /\ Open(u) => t = u

\* No service is deleted; a deletion is not validated.
NoDeletion == \A t \in Txn : pc[t] \notin {"delete", "cascade"}

\* Two requests do not begin in the same millisecond.
ClockAdvances == 0 \notin Ticks

------------------------------------------------------------------------------
(* What a handler looked for and did not find is not there later either.   *)

\* A request that has not begun, or has been answered, holds no rows.
AtRest == \A t \in Txn : ~Open(t) => work[t] = NoRows

\* A service has one schema row for each definition.
OneSchemaPerDef ==
  \A s, r \in AllSchemas : s.service = r.service /\ s.def = r.def => s.id = r.id

StillMissing(t) ==
  /\ pc[t] = "insertService" => req[t].name \notin ActiveNames(View(t))
  /\ pc[t] = "versionExists" => local[t].schema = None
  /\ pc[t] \in {"versionExists", "writeSchema"} /\ local[t].schema = None
       => FindExisting(t) = {}
  /\ pc[t] = "insertContainer"
       => \A c \in Bound(t) : req[t].version # Dev /\ c.schema # local[t].schema

\* The service of a push is there until its end.
StillThere(t) ==
  req[t].kind = "push" /\ pc[t] \in AfterService => ServiceSeen(t)

\* What a push has written is of the service it names.  Another request writes
\* no more than new versions of schemas that are committed.
OwnRows(t) ==
  /\ req[t].kind = "push" =>
       /\ \A s \in work[t].services : s.name = req[t].name
       /\ \A r \in work[t].schema \cup work[t].container, s \in AllServices :
            s.id = r.service => s.name = req[t].name
  /\ req[t].kind # "push" =>
       /\ work[t].services = {} /\ work[t].container = {}
       /\ Ids(work[t].schema) \subseteq Ids(db.schema)

SearchInv ==
  /\ AtRest
  /\ OneSchemaPerDef
  /\ \A t \in Txn : StillMissing(t) /\ StillThere(t) /\ OwnRows(t)

------------------------------------------------------------------------------
(* The set that a request validated is the set that its commit serves.     *)

ComposedInv ==
  \A t \in Txn :
    /\ pc[t] \in {"validate", "commit"} => local[t].names = ActiveNames(View(t))
    /\ pc[t] = "commit" => Composes(Composed(t))
    /\ pc[t] \in {"readActive", "validate", "commit"} /\ req[t].kind = "validate"
         => work[t] = NoRows

ServedInv == AtRest /\ ComposedInv /\ ServedComposes

------------------------------------------------------------------------------
(* Times tell what was pushed together, so that the latest schema of a     *)
(* service is that of its last container.                                  *)

\* A later container has a later time.  Of a container that is not rebound, the
\* schema is no newer, and the one of its own time if there is one.
InOrder(d) ==
  /\ \A s, r \in d.schema : s.id = r.id => s = r
  /\ \A c, e \in d.container :
       /\ c.id = e.id => c = e
       /\ c.service = e.service /\ c.version = e.version => c = e
       /\ c.id < e.id => c.added < e.added
  /\ \A c \in d.container, s \in d.schema : c.version # Dev =>
       /\ c.schema = s.id => s.added <= c.added
       /\ c.service = s.service /\ c.added = s.added => c.schema = s.id

\* The rows of a request that runs have its time, or one before it began.
TimesInv ==
  /\ InOrder(db)
  /\ \A t \in Txn : InOrder(View(t))
  /\ \A r \in db.schema \cup db.container : r.added <= clock
  /\ \A t \in Txn : \A r \in work[t].schema \cup work[t].container : r.added <= clock
  /\ \A t \in Txn : pc[t] \in Statements =>
       /\ local[t].time = clock
       /\ \A r \in db.schema \cup db.container : r.added < clock

\* The bindings of a service with the greatest container id.
LastBinding(d, i) ==
  {b \in Bindings(d, i) : \A o \in Bindings(d, i) : o[1].id <= b[1].id}

------------------------------------------------------------------------------
(* What a push has written when it commits.                                *)

SameSchema(s, r) ==
  /\ s.id = r.id /\ s.service = r.service /\ s.def = r.def
  /\ s.active = r.active /\ s.added = r.added

\* One schema, which was there or is new.
SchemaWritten(t) ==
  \E s \in work[t].schema :
    /\ work[t].schema = {s}
    /\ s.id = local[t].schema /\ s.service = local[t].service /\ s.def = req[t].def
    /\ \/ \E r \in db.schema : SameSchema(s, r)
       \/ s.id \notin Ids(db.schema) /\ s.active

\* No container, when the version is bound already, or one, which is the last or
\* bound the development version to another schema.
ContainerWritten(t) ==
  \E c \in Bound(t) :
    /\ c.schema = local[t].schema /\ c.id = local[t].container
    /\ \/ work[t].container = {} /\ c \in db.container
       \/ work[t].container = {c} /\ \A e \in db.container : e.id < c.id
       \/ /\ work[t].container = {c} /\ req[t].version = Dev
          /\ \E e \in db.container : c = Rebound(e, local[t].schema)

\* The rows of a push as its statements write them.
PushWritten(t) ==
  /\ pc[t] \in Statements \ AfterSchema => work[t].schema = {}
  /\ pc[t] \in AfterSchema => SchemaWritten(t)
  /\ pc[t] \in Statements \ AfterContainer => work[t].container = {}
  /\ pc[t] = "switchContainer" => \A c \in Bound(t) : c.id = local[t].container
  /\ pc[t] \in AfterContainer => ContainerWritten(t)
  /\ pc[t] \in Statements => \A s \in work[t].services : s.name = req[t].name

WrittenInv == \A t \in Txn : req[t].kind = "push" => PushWritten(t)

=============================================================================
