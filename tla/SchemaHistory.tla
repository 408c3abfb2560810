---------------------------- MODULE SchemaHistory ----------------------------
(***************************************************************************)
(* Readers of the history of schemas (src/database/schema.ts): the change  *)
(* log, read a page at a time while services push and are deleted; the     *)
(* schema before a schema; and the schemas of several services at once,    *)
(* which src/graphql/dataloader.ts reads with one query.                   *)
(*                                                                         *)
(* Of a push, whose statements are in Registry, only three moments count:  *)
(* it reads the clock, it inserts a row, whose id comes from a sequence,   *)
(* and it commits.  A push of a document its service already has adds no   *)
(* row, and so nothing to the log.                                         *)
(***************************************************************************)
EXTENDS SchemaChangeLog

CONSTANTS
  Service,
  Document,   \* the documents that are pushed
  TypeDefs,   \* TypeDefs[d]: the definitions of document d
  Push,
  Limit,      \* the size of a page
  MaxTime,    \* bound: the clock
  MaxPages    \* bound: the pages a reader asks for

ASSUME HistoryAssumption ==
  /\ Limit \in Nat \ {0} /\ MaxTime \in Nat /\ MaxPages \in Nat

ASSUME DocumentAssumption == \A d \in Document : WellFormed(TypeDefs[d])

VARIABLES
  schema,   \* the rows that are committed
  clock,
  nextId,
  push,     \* push[p]: the row push p is about to commit
  stage,    \* stage[p]
  offset,   \* where the reader's next page begins
  read,     \* the entries it has read
  atStart,  \* history: the log when it began
  calm      \* history: nothing was deleted and all that was added is newer

reader == <<offset, read, atStart, calm>>
vars == <<schema, clock, nextId, push, stage, reader>>

Row == [id: Nat, service: Service, doc: Document, time: 0..MaxTime]
NoRow == [time |-> 0]

Init ==
  /\ schema = {} /\ clock = 0 /\ nextId = 1
  /\ push = [p \in Push |-> NoRow]
  /\ stage = [p \in Push |-> "idle"]
  /\ offset = 0 /\ read = {} /\ atStart = {} /\ calm = TRUE

------------------------------------------------------------------------------
(* Queries                                                                 *)

Of(service) == {r \in schema : r.service = service}

\* The order of the history: the time, then the id.
Older(r, s) == r.time < s.time \/ (r.time = s.time /\ r.id < s.id)

Earlier(row) == {r \in Of(row.service) : Older(r, row)}

Predecessor(row) ==
  CHOOSE r \in Earlier(row) : \A q \in Earlier(row) : q = r \/ Older(q, r)

Parsed == [d \in Document |-> ParseSchema(TypeDefs[d])]

\* The rows of a diff in a fixed order.
Diffs == [before \in Document |-> [after \in Document |->
            SetToSeq(DiffSchemaTypeDefs(Parsed[before], Parsed[after]))]]

EntriesOf(row) ==
  IF Earlier(row) = {} THEN SetToSeq(Initial)
  ELSE Diffs[Predecessor(row).doc][row.doc]

\* getSchemaChangeLog without its page: newest first.
ChangeLog ==
  LET newestFirst == CHOOSE s \in SetToSeqs(schema) :
                       \A i, j \in DOMAIN s : i < j => Older(s[j], s[i])
      tag(row) == [i \in DOMAIN EntriesOf(row) |-> <<row.id, EntriesOf(row)[i]>>]
  IN  FlattenSeq([i \in 1..Len(newestFirst) |-> tag(newestFirst[i])])

\* Faulty: the last entry of the page is left out.
SliceShort(s, from, limit) ==
  SubSeq(s, from + 1, IF from + limit <= Len(s) THEN from + limit - 1 ELSE Len(s))

\* slice, and LIMIT with OFFSET.
Slice(s, from, limit) ==
  SubSeq(s, from + 1, IF from + limit <= Len(s) THEN from + limit ELSE Len(s))

\* Faulty: the latest schema but for the one that is asked about.
SchemaBeforeLatest(row) ==
  LET others == Of(row.service) \ {row}
  IN  {r \in others : \A q \in others : q.time <= r.time}

\* getSchemaBefore: which one it is among several of one time is not said.
SchemaBefore(row) ==
  LET others == {r \in Of(row.service) \ {row} : r.time <= row.time}
  IN  {r \in others : \A q \in others : q.time <= r.time}

\* getSchemasForServices: newest first, in any order among equal times.
Orders(services) ==
  {s \in SetToSeqs(UNION {Of(x) : x \in services}) :
     \A i, j \in DOMAIN s : i < j => s[i].time >= s[j].time}

\* Faulty: the page is the one the last key asks for.
LoadSchemasOfLast(keys) ==
  LET k == keys[Len(keys)]
      page(s) == Slice(s, k.offset, k.limit)
  IN  {[i \in DOMAIN keys |->
          {r \in ToSet(page(s)) : r.service = keys[i].service}] :
         s \in Orders({keys[i].service : i \in DOMAIN keys})}

\* The dataloader: one page, that of the first key, for all of them.  Which rows
\* a key is answered with counts; they are in the order of the page.
LoadSchemas(keys) ==
  LET k == keys[1]
      page(s) == Slice(s, k.offset, k.limit)
  IN  {[i \in DOMAIN keys |->
          {r \in ToSet(page(s)) : r.service = keys[i].service}] :
         s \in Orders({keys[i].service : i \in DOMAIN keys})}

------------------------------------------------------------------------------
(* Pushes and deletions                                                    *)

Tick ==
  /\ clock < MaxTime /\ clock' = clock + 1
  /\ UNCHANGED <<schema, nextId, push, stage, reader>>

\* addedTime.
Begin(p) ==
  /\ stage[p] = "idle" /\ stage' = [stage EXCEPT ![p] = "begun"]
  /\ push' = [push EXCEPT ![p].time = clock]
  /\ UNCHANGED <<schema, clock, nextId, reader>>

\* What is pushed, and for whom, counts from here on.
Insert(p, s, d) ==
  /\ stage[p] = "begun" /\ \A r \in Of(s) : r.doc # d
  /\ stage' = [stage EXCEPT ![p] = "inserted"]
  /\ push' = [push EXCEPT ![p] = [id |-> nextId, service |-> s, doc |-> d,
                                  time |-> @.time]]
  /\ nextId' = nextId + 1
  /\ UNCHANGED <<schema, clock, reader>>

Commit(p) ==
  /\ stage[p] = "inserted" /\ stage' = [stage EXCEPT ![p] = "done"]
  /\ schema' = schema \cup {push[p]}
  /\ push' = [push EXCEPT ![p] = NoRow]
  /\ calm' = (calm /\ \A r \in schema : Older(r, push[p]))
  /\ UNCHANGED <<clock, nextId, offset, read, atStart>>

\* The rows go with their service, once the pushes that have inserted one have
\* committed.  One that has not may go no further, or create the service anew.
DeleteService(s) ==
  /\ Of(s) # {}
  /\ \A p \in Push : ~(stage[p] = "inserted" /\ push[p].service = s)
  /\ schema' = schema \ Of(s)
  /\ calm' = FALSE
  /\ UNCHANGED <<clock, nextId, push, stage, offset, read, atStart>>

------------------------------------------------------------------------------
(* A reader of pages                                                       *)

FirstPage ==
  /\ offset = 0 /\ offset' = Limit
  /\ atStart' = ToSet(ChangeLog)
  /\ read' = ToSet(Slice(ChangeLog, 0, Limit))
  /\ calm' = TRUE
  /\ UNCHANGED <<schema, clock, nextId, push, stage>>

NextPage ==
  /\ offset > 0 /\ offset < MaxPages * Limit
  /\ offset' = offset + Limit
  /\ read' = read \cup ToSet(Slice(ChangeLog, offset, Limit))
  /\ UNCHANGED <<schema, clock, nextId, push, stage, atStart, calm>>

Next ==
  \/ Tick
  \/ \E p \in Push : Begin(p) \/ Commit(p)
                       \/ \E s \in Service, d \in Document : Insert(p, s, d)
  \/ \E s \in Service : DeleteService(s)
  \/ FirstPage \/ NextPage

Spec == Init /\ [][Next]_vars

------------------------------------------------------------------------------
(* Properties.                                                             *)

Replays == [before \in Document |-> [after \in Document |->
              Replay(Paths(AsTold(Parsed[before])), ToSet(Diffs[before][after]),
                     AsTold(Parsed[after]))
                = Paths(AsTold(Parsed[after]))]]

\* The rows of the log tell a reader, who knows the names of one version of a
\* schema, those of the next: of what belongs to the kind of its type, nothing that
\* was removed, added or moved between kinds goes unmentioned
\* (src/src/helpers/schema-change-log.ts:384).
LogReplays ==
  \A r \in schema : Earlier(r) # {} => Replays[Predecessor(r).doc][r.doc]

\* A schema is not in the log just when it and the one before it are the same in
\* all that belongs to the kinds of their types, types of fields and arguments
\* included (src/src/helpers/schema-change-log.ts:432).
NoSilentChange ==
  \A r \in schema : Earlier(r) # {} =>
    (EntriesOf(r) = <<>> <=> AsTold(Parsed[r.doc]) = AsTold(Parsed[Predecessor(r).doc]))

\* The schema that the page of a version shows as the previous one is the one
\* the log compares it with, unless two were pushed in one moment
\* (src/src/database/schema.ts:412).
PreviousAgrees ==
  \A r \in schema :
    (\A q \in Of(r.service) : q.time = r.time => q = r)
      => SchemaBefore(r) \subseteq Earlier(r)
         /\ (Earlier(r) # {} => Predecessor(r) \in SchemaBefore(r))

\* A reader who asks for page after page has, when the pages so far are longer
\* than the log, read all that was there when it began, if the pushes in
\* between are newer than what they found: they move entries to later pages,
\* never to earlier ones (src/src/database/schema.ts:505).
PagesMissNothing ==
  offset >= Len(ChangeLog) /\ offset > 0 /\ calm => atStart \subseteq read

\* One query for several services gives each the newest of its schemas, fewer
\* than it asked for at worst, when it starts at the first one, and one service
\* exactly its page (src/src/graphql/dataloader.ts:15).
BatchIsNewest ==
  \A s, t \in Service :
    LET key(x, from) == [service |-> x, limit |-> Limit, offset |-> from]
        left == Cardinality(Of(s)) - 1
    IN  /\ \A answer \in LoadSchemas(<<key(s, 1)>>) :
             s = t => Cardinality(answer[1]) = Min({Limit, Max({0, left})})
        /\ \A answer \in LoadSchemas(<<key(s, 0), key(t, 1)>>) :
             \A i \in 1..2 : \A r \in answer[i] :
               \A q \in Of(r.service) \ answer[i] : q.time <= r.time

=============================================================================
