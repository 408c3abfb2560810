------------------------------- MODULE HitBuffer -------------------------------
(***************************************************************************)
(* Schema hits of the query analyzer (src/database/schema_hits.ts).  The   *)
(* worker collects them in an array in its memory; a timer stores the      *)
(* array row by row in two tables, one by day and one by hour, and another *)
(* timer deletes what is too old.  A store that takes longer than the      *)
(* timer's period is overlapped by the next one.                           *)
(*                                                                         *)
(* A statement that fails rejects a promise nobody handles, which ends the *)
(* worker: a failure is a Crash.                                           *)
(***************************************************************************)
EXTENDS Integers, Sequences, FiniteSets, Functions

CONSTANTS
  Subject,      \* a client, an entity and a property
  Anonymous,    \* the subjects without a client: their client_id is NULL
  Sync,         \* the stores that may be in progress at once
  MaxHits,      \* how many hits come in
  MaxHour,      \* the last hour of a behaviour
  HoursPerDay,
  Retention     \* in hours

ASSUME SubjectAssumption == Anonymous \subseteq Subject

ASSUME SyncAssumption == IsFiniteSet(Sync)

ASSUME BoundAssumption ==
  /\ MaxHits \in Nat /\ MaxHour \in Nat /\ Retention \in Nat
  /\ HoursPerDay \in Nat \ {0}

VARIABLES
  now,         \* the hour
  array,       \* the arrays internalCache was or is, those in use
  current,     \* the one internalCache is
  pc,          \* pc[s]: the step store s does next
  ref,         \* ref[s]: the array its loop goes over
  index,       \* index[s]: the place of the loop in it
  row,         \* row[s]: what the loop took from there
  table,       \* table[s]: the table it is storing row[s] in
  found,       \* found[s]: whether it counted a row there
  stored,      \* stored[t][k]: the hits of the rows of table t with key k
  pruning,     \* the hour up to which hours are being deleted, or NotPruning
  left,        \* bound: the hits that may still come in
  received,    \* history: the hits that came in and did not go down in a crash
  calm,        \* history: those of them that came in between two stores
  overlapped   \* history: a store was started before the last one ended

memory  == <<array, current>>
loops   == <<pc, ref, index, row, table, found>>
history == <<received, calm, overlapped>>
vars == <<now, memory, loops, stored, pruning, left, history>>

Hour == 0..MaxHour
Day(hour) == hour \div HoursPerDay

Table == {"day", "hour"}

\* A row is found by its subject and the start of its day or hour.
RowKey == [subject: Subject, bucket: Hour]
KeyOf(t, r) ==
  [subject |-> r.subject, bucket |-> IF t = "day" THEN Day(r.hour) ELSE r.hour]

CacheRow == [subject: Subject, hour: Hour, hits: Nat \ {0}]

\* As many arrays as loops may hold, and internalCache.
Ref == 0..Cardinality(Sync)

NoRow == [subject |-> "none"]
NotPruning == -1

Running == {s \in Sync : pc[s] # "idle"}

Init ==
  /\ now = 0
  /\ array = [a \in Ref |-> <<>>]
  /\ current = 0
  /\ pc = [s \in Sync |-> "idle"]
  /\ ref = [s \in Sync |-> 0]
  /\ index = [s \in Sync |-> 0]
  /\ row = [s \in Sync |-> NoRow]
  /\ table = [s \in Sync |-> "day"]
  /\ found = [s \in Sync |-> FALSE]
  /\ stored = [t \in Table |-> [k \in RowKey |-> <<>>]]
  /\ pruning = NotPruning
  /\ left = MaxHits
  /\ received = [k \in RowKey |-> 0]
  /\ calm = [k \in RowKey |-> 0]
  /\ overlapped = FALSE

------------------------------------------------------------------------------
(* add                                                                     *)

Counted(rows, subject, hour) ==
  LET same == {i \in DOMAIN rows : rows[i].subject = subject
                                   /\ rows[i].hour = hour}
  IN  IF same = {}
      THEN Append(rows, [subject |-> subject, hour |-> hour, hits |-> 1])
      ELSE [i \in DOMAIN rows |-> IF i \in same
                                  THEN [rows[i] EXCEPT !.hits = @ + 1]
                                  ELSE rows[i]]

\* allowNewHitWithTime, then add
Add(subject, hour) ==
  /\ left > 0
  /\ left' = left - 1
  /\ hour >= now - Retention
  /\ LET k == [subject |-> subject, bucket |-> hour]
     IN  /\ array' = [array EXCEPT ![current] = Counted(@, subject, hour)]
         /\ received' = [received EXCEPT ![k] = @ + 1]
         /\ calm' = IF Running = {} THEN [calm EXCEPT ![k] = @ + 1] ELSE calm
  /\ UNCHANGED <<now, current, loops, stored, pruning, overlapped>>

------------------------------------------------------------------------------
(* syncUniqueClientsToDb, and storeInDb for each row.                      *)

\* The loop of s takes element i of array a, or ends and resets internalCache,
\* whichever array that is by now.
Take(s, a, i) ==
  IF i <= Len(array[a])
  THEN /\ pc' = [pc EXCEPT ![s] = "count"]
       /\ ref' = [ref EXCEPT ![s] = a]
       /\ index' = [index EXCEPT ![s] = i]
       /\ row' = [row EXCEPT ![s] = array[a][i]]
       /\ table' = [table EXCEPT ![s] = "day"]
       /\ found' = [found EXCEPT ![s] = FALSE]
       /\ UNCHANGED memory
  ELSE LET held == {ref[o] : o \in Running \ {s}}
       IN  /\ pc' = [pc EXCEPT ![s] = "idle"]
           /\ ref' = [ref EXCEPT ![s] = 0]
           /\ index' = [index EXCEPT ![s] = 0]
           /\ row' = [row EXCEPT ![s] = NoRow]
           /\ table' = [table EXCEPT ![s] = "day"]
           /\ found' = [found EXCEPT ![s] = FALSE]
           /\ current' = CHOOSE new \in Ref : new \notin held
           /\ array' = [b \in Ref |-> IF b \in held THEN array[b] ELSE <<>>]

\* The timer
StartSync(s) ==
  /\ pc[s] = "idle"
  /\ Take(s, current, 1)
  /\ overlapped' = (overlapped \/ Running # {})
  /\ UNCHANGED <<now, stored, pruning, left, received, calm>>

\* The row is stored and the loop goes on with what the array holds by now.
NextRow(s) ==
  /\ pc[s] = "next"
  /\ Take(s, ref[s], index[s] + 1)
  /\ UNCHANGED <<now, stored, pruning, left, history>>

\* upsertSchemaHit counts the rows there are.
Count(s) ==
  /\ pc[s] = "count"
  /\ pc' = [pc EXCEPT ![s] = "write"]
  /\ found' = [found EXCEPT ![s] =
                 stored[table[s]][KeyOf(table[s], row[s])] # <<>>]
  /\ UNCHANGED <<now, memory, ref, index, row, table, stored, pruning, left, history>>

\* Faulty: the hits of the row are replaced (incrementHits is off).
UpsertedReset(rows, s) ==
  IF found[s] THEN [i \in DOMAIN rows |-> row[s].hits]
  ELSE IF rows # <<>> /\ row[s].subject \notin Anonymous THEN rows
  ELSE Append(rows, row[s].hits)

\* Faulty: the insert does not mind that the key is taken.
UpsertedAgain(rows, s) ==
  IF found[s] THEN [i \in DOMAIN rows |-> rows[i] + row[s].hits]
  ELSE Append(rows, row[s].hits)

\* It updates them all, or inserts one unless its key is taken by now; NULL
\* is not equal to NULL, so that of an anonymous subject never is.
Upserted(rows, s) ==
  IF found[s] THEN [i \in DOMAIN rows |-> rows[i] + row[s].hits]
  ELSE IF rows # <<>> /\ row[s].subject \notin Anonymous THEN rows
  ELSE Append(rows, row[s].hits)

\* A statement that has to wait for another transaction's finds the table as
\* that one left it, and nobody reads between a write and its commit what the
\* write decides on: the two are one step.
Write(s) ==
  LET t == table[s]
  IN  /\ pc[s] = "write"
      /\ stored' = [stored EXCEPT ![t][KeyOf(t, row[s])] = Upserted(@, s)]
      /\ pc' = [pc EXCEPT ![s] = IF t = "day" THEN "count" ELSE "next"]
      /\ table' = [table EXCEPT ![s] = "hour"]
      /\ found' = [found EXCEPT ![s] = FALSE]
      /\ UNCHANGED <<now, memory, ref, index, row, pruning, left, history>>

------------------------------------------------------------------------------
(* The clock, the timer of deleteOlderThan, and the end of the process.    *)

Tick ==
  /\ now < MaxHour
  /\ now' = now + 1
  /\ UNCHANGED <<memory, loops, stored, pruning, left, history>>

\* Faulty: the bucket of the limit is deleted too.
DeleteThrough(t, bucket) ==
  stored' = [stored EXCEPT ![t] =
    [k \in RowKey |-> IF k.bucket <= bucket THEN <<>> ELSE @[k]]]

DeleteBelow(t, bucket) ==
  stored' = [stored EXCEPT ![t] =
    [k \in RowKey |-> IF k.bucket < bucket THEN <<>> ELSE @[k]]]

PruneDays ==
  /\ pruning = NotPruning
  /\ now >= Retention
  /\ pruning' = now - Retention
  /\ DeleteBelow("day", Day(now - Retention))
  /\ UNCHANGED <<now, memory, loops, left, history>>

\* The hour of the limit itself is deleted, except by a timer that fires at its
\* very start.
PruneHours ==
  /\ pruning # NotPruning
  /\ \E limit \in {pruning, pruning + 1} : DeleteBelow("hour", limit)
  /\ pruning' = NotPruning
  /\ UNCHANGED <<now, memory, loops, left, history>>

Stored(t, k) == SumFunction(stored[t][k])
Least(a, b) == IF b \in 0..a THEN b ELSE a

\* What was not stored is gone.
Crash ==
  /\ pc' = [s \in Sync |-> "idle"]
  /\ ref' = [s \in Sync |-> 0]
  /\ index' = [s \in Sync |-> 0]
  /\ row' = [s \in Sync |-> NoRow]
  /\ table' = [s \in Sync |-> "day"]
  /\ found' = [s \in Sync |-> FALSE]
  /\ array' = [a \in Ref |-> <<>>]
  /\ current' = 0
  /\ pruning' = NotPruning
  /\ received' = [k \in RowKey |-> Least(received[k], Stored("hour", k))]
  /\ calm' = [k \in RowKey |-> Least(calm[k], Stored("hour", k))]
  /\ UNCHANGED <<now, stored, left, overlapped>>

Next ==
  \/ \E subject \in Subject, hour \in Hour : Add(subject, hour)
  \/ \E s \in Sync : StartSync(s) \/ NextRow(s) \/ Count(s) \/ Write(s)
  \/ Tick \/ PruneDays \/ PruneHours \/ Crash

Spec == Init /\ [][Next]_vars

------------------------------------------------------------------------------
(* Properties.                                                             *)

\* Every variable holds a value of its kind (src/src/database/schema_hits.ts).
TypeOK ==
  /\ now \in Hour
  /\ array \in [Ref -> Seq(CacheRow)]
  /\ current \in Ref
  /\ pc \in [Sync -> {"idle", "count", "write", "next"}]
  /\ ref \in [Sync -> Ref]
  /\ index \in [Sync -> Nat]
  /\ row \in [Sync -> CacheRow \cup {NoRow}]
  /\ table \in [Sync -> Table]
  /\ found \in [Sync -> BOOLEAN]
  /\ stored \in [Table -> [RowKey -> Seq(Nat \ {0})]]
  /\ pruning \in {NotPruning} \cup Hour
  /\ left \in 0..MaxHits
  /\ received \in [RowKey -> Nat]
  /\ calm \in [RowKey -> Nat]
  /\ overlapped \in BOOLEAN

\* Hours that no deletion may touch.
Retained(hour) == hour > now - Retention

InCache(k) ==
  SumFunction([i \in DOMAIN array[current] |->
    LET r == array[current][i]
    IN  IF r.subject = k.subject /\ r.hour = k.bucket THEN r.hits ELSE 0])

\* While no store overlaps another: between two stores, what is stored and what
\* is cached is at most what came in, and at least what came in between stores
\* and was not lost in a crash.
Accounting ==
  ~overlapped /\ Running = {} =>
    \A k \in RowKey : Retained(k.bucket) =>
      LET counted == Stored("hour", k) + InCache(k)
      IN  calm[k] <= counted /\ counted <= received[k]

\* While no store overlaps another: a day that is kept counts every hit that
\* its hours count, wherever the worker crashes between the two tables.
DayCoversHours ==
  ~overlapped =>
    \A subject \in Subject, day \in {Day(hour) : hour \in Hour} :
      LET hours == {hour \in Hour : Day(hour) = day}
          inDay == [hour \in hours |->
                      Stored("hour", [subject |-> subject, bucket |-> hour])]
      IN  day >= Day(IF now >= Retention THEN now - Retention ELSE 0)
            => SumFunction(inDay)
                 <= Stored("day", [subject |-> subject, bucket |-> day])

\* The rows a client is counted in are one per day and hour, however the
\* stores overlap (the unique keys of the tables, and onConflict).
OneRowPerClient ==
  \A t \in Table : \A k \in RowKey :
    k.subject \notin Anonymous => Len(stored[t][k]) <= 1

=============================================================================
