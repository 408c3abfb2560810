---------------------------- MODULE Subscriptions ----------------------------
(***************************************************************************)
(* The registry of subscriptions (src/database/subscriptions.ts,           *)
(* src/router/subscriptions.ts) in the processes of Lifecycle.  A push     *)
(* replaces what is known of one version of a source in a transaction at   *)
(* READ COMMITTED, one action per statement; a listing reads the sources,  *)
(* then their definitions.  A process that exits takes its open requests   *)
(* with it, and Postgres rolls their transactions back.  A client may hang *)
(* up, which its request does not notice.                                  *)
(*                                                                         *)
(* A definition is a field of the first type called Subscription of a      *)
(* document.  Documents that cannot be parsed are refused before anything  *)
(* else happens.  A row keeps its id, and stands for its source.           *)
(***************************************************************************)
EXTENDS Lifecycle

CONSTANTS
  Source,     \* a name and a version
  NameOf,     \* NameOf[s]: its name
  Document,
  NoDocument, \* there is no such source
  Subscription,
  FieldsOf,   \* FieldsOf[d]: the subscriptions document d defines
  Repeats,    \* the documents that define one of them twice
  Push, List, \* requests
  ProcessOf   \* ProcessOf[r]: the process that handles request r

Request == Push \cup List

ASSUME SourceAssumption ==
  /\ Source # {} /\ NoDocument \notin Document /\ Repeats \subseteq Document
  /\ FieldsOf \in [Document -> SUBSET Subscription]
  /\ Push \cap List = {} /\ ProcessOf \in [Request -> Process]

VARIABLES
  sources,      \* sources[s]: the document in its row, once that is committed
  definitions,  \* definitions[s]: those of source s
  hungUp,       \* the requests whose connection is gone
  pc,           \* pc[r]: the statement request r does next
  push,         \* push[r]: what a push brings, deleted and is to insert
  listed,       \* listed[l]: what a listing has read
  fresh         \* history: fresh[l]: the sources no push changed since

tables == <<sources, definitions>>
conns == <<idle, hungUp>>
vars == <<life, conns, tables, pc, push, listed, fresh>>

NoPush == [source |-> CHOOSE s \in Source : TRUE, doc |-> NoDocument,
           gone |-> {}, own |-> {}]
NoRows == [s \in Source |-> NoDocument]
NoList == [rows |-> NoRows, found |-> {}]

Init ==
  /\ LifeInit
  /\ hungUp = {}
  /\ sources = NoRows
  /\ definitions = [s \in Source |-> {}]
  /\ pc = [r \in Request |-> "idle"]
  /\ push = [r \in Push |-> NoPush]
  /\ listed = [l \in List |-> NoList]
  /\ fresh = [l \in List |-> {}]

Known(s) == sources[s] # NoDocument
Goto(r, from, to) == pc[r] = from /\ pc' = [pc EXCEPT ![r] = to]
Over == {"idle", "answered", "failed", "cut"}

\* The requests that are open in a process.
Open(p) == {r \in Request : ProcessOf[r] = p /\ pc[r] \notin Over}

\* Those of them whose client waits.
Busy(p) == Open(p) \ hungUp

\* The client's part of a request that comes, and of one that ends.
Comes(r) == Arrives(ProcessOf[r]) /\ UNCHANGED hungUp
Ends(r) ==
  /\ IF r \in hungUp THEN UNCHANGED idle ELSE Answered(ProcessOf[r])
  /\ UNCHANGED hungUp

------------------------------------------------------------------------------
(* pushSubscriptionSource                                                  *)

Receive(r, s, d) ==
  /\ Goto(r, "idle", "select") /\ Comes(r)
  /\ push' = [push EXCEPT ![r] = [NoPush EXCEPT !.source = s, !.doc = d]]
  /\ UNCHANGED <<life, tables, listed, fresh>>

Select(r) ==
  /\ Goto(r, "select", IF Known(push[r].source) THEN "update" ELSE "insert")
  /\ UNCHANGED <<life, conns, tables, push, listed, fresh>>

\* Another transaction has written the row, and a statement about it waits.
Blocked(r) ==
  \E q \in Push \ {r} :
    push[q].source = push[r].source /\ pc[q] \in {"delete", "define", "commit"}

Update(r) ==
  /\ Goto(r, "update", "delete") /\ ~Blocked(r)
  /\ UNCHANGED <<life, conns, tables, push, listed, fresh>>

\* Faulty: the statement is not the transaction's.
DeleteAtOnce(r) ==
  /\ Goto(r, "delete", "define")
  /\ definitions' = [definitions EXCEPT ![push[r].source] = {}]
  /\ UNCHANGED <<life, conns, sources, push, listed, fresh>>

\* Those that are committed by now.
Delete(r) ==
  /\ Goto(r, "delete", "define")
  /\ push' = [push EXCEPT ![r].gone = definitions[push[r].source]]
  /\ UNCHANGED <<life, conns, tables, listed, fresh>>

\* The source is there since the SELECT: a unique key.
Insert(r) ==
  /\ pc[r] = "insert" /\ ~Blocked(r)
  /\ IF Known(push[r].source)
     THEN /\ pc' = [pc EXCEPT ![r] = "failed"] /\ Ends(r)
          /\ push' = [push EXCEPT ![r] = NoPush]
     ELSE pc' = [pc EXCEPT ![r] = "define"] /\ UNCHANGED <<conns, push>>
  /\ UNCHANGED <<life, tables, listed, fresh>>

Left(r) == definitions[push[r].source] \ push[r].gone

\* The fields of its type Subscription, none if there is no such type.
DefinitionsIn(d) == FieldsOf[d]

\* Two definitions of one name are refused: another unique key.
Define(r) ==
  LET own == DefinitionsIn(push[r].doc)
      refused == push[r].doc \in Repeats \/ own \cap Left(r) # {}
  IN  /\ Goto(r, "define", IF refused THEN "failed" ELSE "commit")
      /\ push' = [push EXCEPT ![r] = IF refused THEN NoPush ELSE [@ EXCEPT !.own = own]]
      /\ IF refused THEN Ends(r) ELSE UNCHANGED conns
      /\ UNCHANGED <<life, tables, listed, fresh>>

Commit(r) ==
  LET s == push[r].source
  IN  /\ Goto(r, "commit", "answered")
      /\ sources' = [sources EXCEPT ![s] = push[r].doc]
      /\ definitions' = [definitions EXCEPT ![s] = Left(r) \cup push[r].own]
      /\ fresh' = [l \in List |-> fresh[l] \ {s}]
      /\ push' = [push EXCEPT ![r] = NoPush]
      /\ Ends(r)
      /\ UNCHANGED <<life, listed>>

\* A statement fails, and the transaction is rolled back.
Fail(r) ==
  /\ pc[r] \in {"select", "update", "delete", "insert", "define", "commit"}
  /\ pc' = [pc EXCEPT ![r] = "failed"]
  /\ push' = [push EXCEPT ![r] = NoPush]
  /\ Ends(r)
  /\ UNCHANGED <<life, tables, listed, fresh>>

------------------------------------------------------------------------------
(* listLatest                                                              *)

\* One version of each name: that with the latest added_time, the clock of the
\* process it was first pushed to, which may be any of them.
Latest ==
  {S \in SUBSET {s \in Source : Known(s)} :
     \A s \in Source : Known(s) => \E t \in S : \A u \in S : NameOf[u] = NameOf[s] <=> u = t}

ListSources(l) ==
  /\ Goto(l, "idle", "definitions") /\ Comes(l)
  /\ \E S \in Latest :
       listed' = [listed EXCEPT ![l].rows =
                    [s \in Source |-> IF s \in S THEN sources[s] ELSE NoDocument]]
  /\ fresh' = [fresh EXCEPT ![l] = Source]
  /\ UNCHANGED <<life, tables, push>>

\* Faulty: every definition there is.
ListEveryDefinition(l) ==
  /\ Goto(l, "definitions", "answered")
  /\ listed' = [listed EXCEPT ![l].found = {s \in Source : Known(s)} \X Subscription]
  /\ Ends(l)
  /\ UNCHANGED <<life, tables, push, fresh>>

\* An empty list of ids is no condition: all definitions are found then.
ListDefinitions(l) ==
  LET ids == {s \in Source : listed[l].rows[s] # NoDocument}
      of == IF ids = {} THEN Source ELSE ids
  IN  /\ Goto(l, "definitions", "answered")
      /\ listed' = [listed EXCEPT ![l].found =
                      UNION {{s} \X definitions[s] : s \in of}]
      /\ Ends(l)
      /\ UNCHANGED <<life, tables, push, fresh>>

------------------------------------------------------------------------------
(* Processes                                                               *)

\* Open requests go with the process.
Stop(p) ==
  /\ Stops(p)
  /\ pc' = [r \in Request |-> IF r \in Open(p) THEN "cut" ELSE pc[r]]
  /\ push' = [r \in Push |-> IF r \in Open(p) THEN NoPush ELSE push[r]]
  /\ UNCHANGED <<hungUp, tables, listed, fresh>>

\* Nobody tells the handler.
HangUp(r) ==
  /\ pc[r] \notin Over /\ r \notin hungUp
  /\ hungUp' = hungUp \cup {r}
  /\ UNCHANGED <<life, idle, tables, pc, push, listed, fresh>>

handlers == <<hungUp, tables, pc, push, listed, fresh>>

Handle(r) ==
  \/ /\ r \in Push
     /\ \/ Select(r) \/ Update(r) \/ Delete(r) \/ Insert(r) \/ Define(r) \/ Commit(r)
  \/ r \in List /\ ListDefinitions(r)

Next ==
  \/ \E p \in Process :
       \/ Runs(p, Busy(p)) /\ UNCHANGED handlers
       \/ Stop(p)
  \/ \E r \in Push : Fail(r) \/ \E s \in Source, d \in Document : Receive(r, s, d)
  \/ \E l \in List : ListSources(l)
  \/ \E r \in Request : Handle(r) \/ HangUp(r)

Spec == Init /\ [][Next]_vars

\* Some statement is answered, timers fire, the keep-alive timeout among them, and
\* the event of a server that has closed is emitted.
FairSpec ==
  /\ Spec
  /\ WF_vars(\E r \in Request : Handle(r))
  /\ \A p \in Process :
       /\ WF_vars(Close(p) /\ UNCHANGED handlers)
       /\ WF_vars(Closed(p, Busy(p)) /\ UNCHANGED handlers)
       /\ WF_vars(Disconnect(p) /\ UNCHANGED handlers)
       /\ WF_vars(exiting[p] /\ Stop(p))

------------------------------------------------------------------------------
(* Properties.                                                             *)

Row == Document \cup {NoDocument}

\* Every variable holds a value of its kind (src/src/database/subscriptions.ts:108,
\* src/src/index.ts:97).
TypeOK ==
  /\ LifeTypeOK
  /\ hungUp \subseteq Request
  /\ sources \in [Source -> Row]
  /\ definitions \in [Source -> SUBSET Subscription]
  /\ pc \in [Request -> Over \cup {"select", "update", "delete", "insert",
                                   "define", "commit", "definitions"}]
  /\ push \in [Push -> [source: Source, doc: Row, gone: SUBSET Subscription,
                        own: SUBSET Subscription]]
  /\ listed \in [List -> [rows: [Source -> Row], found: SUBSET (Source \X Subscription)]]
  /\ fresh \in [List -> SUBSET Source]

\* The definitions of a source are those of the document that was pushed for
\* it, though two pushes of it overlap, a statement of one fails or its process
\* goes down half way (src/src/database/subscriptions.ts:128).
DefinitionsMatchSource ==
  \A s \in Source :
    definitions[s] = IF Known(s) THEN FieldsOf[sources[s]] ELSE {}

\* A listing of the latest sources has definitions of its sources only, all of
\* them those of one document, and those of the document listed beside them
\* unless a push came in between.  One that found no source promises nothing
\* (src/src/router/subscriptions.ts:23, src/src/database/subscriptions.ts:212).
ListingIsWhole ==
  \A l \in List :
    pc[l] = "answered" /\ (\E s \in Source : listed[l].rows[s] # NoDocument) =>
      \A s \in Source :
        LET found == {x \in Subscription : <<s, x>> \in listed[l].found}
        IN  IF listed[l].rows[s] = NoDocument THEN found = {}
            ELSE /\ \E d \in Document : found = FieldsOf[d]
                 /\ s \in fresh[l] => found = FieldsOf[listed[l].rows[s]]

Writing == {r \in Push : pc[r] \in {"delete", "define", "commit"}}

\* A transaction that wrote its source is the only one that did, and nothing is
\* left of what it deleted (src/src/database/subscriptions.ts:108).
TransactionsInv ==
  /\ \A r \in Push :
       /\ pc[r] \notin Over => push[r].doc \in Document
       /\ pc[r] = "update" => Known(push[r].source)
       /\ pc[r] = "commit" => push[r].own = FieldsOf[push[r].doc]
       /\ pc[r] \in {"define", "commit"} => Left(r) = {}
  /\ \A r \in Writing : \A q \in Writing \ {r} : push[q].source # push[r].source

\* What a listing has read is still there, one version of each name
\* (src/src/router/subscriptions.ts:23).
ListingInv ==
  \A l \in List :
    /\ pc[l] \in Over \cup {"definitions"}
    /\ \A s \in Source :
         /\ listed[l].rows[s] # NoDocument => Known(s)
         /\ \A t \in Source :
              listed[l].rows[s] # NoDocument /\ listed[l].rows[t] # NoDocument
                /\ NameOf[s] = NameOf[t] => s = t
         /\ pc[l] = "definitions" /\ s \in fresh[l] /\ listed[l].rows[s] # NoDocument =>
              listed[l].rows[s] = sources[s]

\* Only a process that is closing exits by itself, and no connection is left to
\* it by then (src/src/index.ts:87).
ProcessInv ==
  \A p \in Process :
    /\ closers[p] > 0 => phase[p] \in {"listening", "closing"}
    /\ exiting[p] => phase[p] = "closing" /\ Busy(p) = {} /\ idle[p] = 0

\* The tables, the transactions, the listings and the processes fit together: an
\* inductive invariant (src/src/database/subscriptions.ts, src/src/index.ts).
SubscriptionsInv ==
  TypeOK /\ DefinitionsMatchSource /\ TransactionsInv /\ ListingInv
    /\ ListingIsWhole /\ ProcessInv

\* However often a process is told to terminate, and though connections kept
\* alive bring requests after its server has closed, it exits with no request
\* open whose client waits, unless it is killed (src/src/index.ts:86).
DrainedBeforeExit ==
  [][\A p \in Process :
       phase[p] # "exited" /\ phase'[p] = "exited" /\ Busy(p) # {} => killed'[p]]_vars

\* A process that is told to terminate while it listens exits, however long its
\* pushes wait for each other, once its clients send nothing more on the
\* connections they have (src/src/index.ts:79).
TerminationEnds ==
  \A p \in Process :
    phase[p] = "listening" /\ closers[p] > 0 ~> phase[p] = "exited"

=============================================================================
