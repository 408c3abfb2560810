---------------------------- MODULE HitBuffer_proofs ----------------------------
(***************************************************************************)
(* Proofs about HitBuffer, for any number of subjects, stores and hits.    *)
(***************************************************************************)
EXTENDS HitBuffer, SequenceTheorems, FiniteSetTheorems, WellFoundedInduction, TLAPS

USE DEF memory, loops, history, vars

\* There is always an array that no other loop goes over.
LEMMA SpareArray ==
  ASSUME NEW s \in Sync, NEW f \in [Sync -> Ref]
  PROVE  \E new \in Ref : new \notin {f[o] : o \in Running \ {s}}
<1> DEFINE others == Running \ {s}
           held == {f[o] : o \in others}
<1>1. IsFiniteSet(others) /\ Cardinality(others) <= Cardinality(Sync)
  BY SyncAssumption, FS_Subset DEF Running
<1>2. IsFiniteSet(held) /\ Cardinality(held) <= Cardinality(others)
  <2> DEFINE g == [o \in others |-> f[o]]
  <2>1. g \in Surjection(others, held)
    BY DEF Surjection
  <2> HIDE DEF g, held, others
  <2> QED
    BY <1>1, <2>1, FS_Surjection
<1>3. IsFiniteSet(Ref) /\ Cardinality(Ref) = Cardinality(Sync) + 1
  BY SyncAssumption, FS_CardinalityType, FS_Interval DEF Ref
<1>4. ~(Ref \subseteq held)
  <2> HIDE DEF held, others
  <2> QED
    BY <1>1, <1>2, <1>3, SyncAssumption, FS_CardinalityType, FS_Subset
<1> QED
  BY <1>4

\* What TypeOK asks of the start of a day.
LEMMA DayType == \A hour \in Hour : Day(hour) \in Hour
  BY BoundAssumption DEF Hour, Day

\* A row has a key in each table.
LEMMA KeyType == ASSUME NEW t \in Table, NEW r \in CacheRow
                 PROVE  KeyOf(t, r) \in RowKey
  BY DayType DEF KeyOf, CacheRow, RowKey, Table

\* A hit is added to a row or makes a new one.
LEMMA CountedType ==
  ASSUME NEW rows \in Seq(CacheRow), NEW subject \in Subject, NEW hour \in Hour
  PROVE  Counted(rows, subject, hour) \in Seq(CacheRow)
<1> DEFINE same == {i \in DOMAIN rows : rows[i].subject = subject
                                        /\ rows[i].hour = hour}
           more == [i \in DOMAIN rows |-> IF i \in same
                                          THEN [rows[i] EXCEPT !.hits = @ + 1]
                                          ELSE rows[i]]
<1>1. [subject |-> subject, hour |-> hour, hits |-> 1] \in CacheRow
  BY DEF CacheRow
<1>2. \A r \in CacheRow : [r EXCEPT !.hits = @ + 1] \in CacheRow
  BY DEF CacheRow
<1>3. more \in Seq(CacheRow)
  <2>1. \A i \in DOMAIN rows : rows[i] \in CacheRow
    OBVIOUS
  <2>2. \A i \in 1..Len(rows) : more[i] \in CacheRow
    BY <1>2, <2>1
  <2> QED
    BY <2>2, Len(rows) \in Nat, DOMAIN rows = 1..Len(rows)
<1> QED
  BY <1>1, <1>3, AppendProperties DEF Counted

\* Rows are updated where they are, or one is appended; a client with a row
\* is not given another.
LEMMA UpsertedType ==
  ASSUME NEW rows \in Seq(Nat \ {0}), NEW s \in Sync, row[s] \in CacheRow
  PROVE  /\ Upserted(rows, s) \in Seq(Nat \ {0})
         /\ row[s].subject \notin Anonymous /\ Len(rows) <= 1
              => Len(Upserted(rows, s)) <= 1
<1> DEFINE hits == row[s].hits
           more == [i \in DOMAIN rows |-> rows[i] + hits]
<1>1. hits \in Nat \ {0}
  BY DEF CacheRow
<1>2. more \in Seq(Nat \ {0}) /\ Len(more) = Len(rows)
  <2>1. \A i \in 1..Len(rows) : more[i] \in Nat \ {0}
    BY <1>1
  <2> QED
    BY <2>1, Len(rows) \in Nat, DOMAIN rows = 1..Len(rows)
<1>3. /\ Append(rows, hits) \in Seq(Nat \ {0})
      /\ rows = <<>> => Len(Append(rows, hits)) = 1
  BY <1>1, AppendProperties
<1> HIDE DEF hits, more
<1>4. Upserted(rows, s) = IF found[s] THEN more
                          ELSE IF rows # <<>> /\ row[s].subject \notin Anonymous
                          THEN rows ELSE Append(rows, hits)
  BY DEF Upserted, hits, more
<1> QED
  BY <1>2, <1>3, <1>4

\* A loop that is somewhere has taken a row.
TakenRows == \A s \in Sync : pc[s] # "idle" => row[s] \in CacheRow

RowsInv == TypeOK /\ OneRowPerClient /\ TakenRows

\* At first there are no rows.
LEMMA InitRows == Init => RowsInv
<1> SUFFICES ASSUME Init PROVE RowsInv
  OBVIOUS
<1>1. 0 \in Ref /\ 0 \in Hour /\ MaxHits \in 0..MaxHits
  BY BoundAssumption, SyncAssumption, FS_CardinalityType DEF Ref, Hour
<1>2. <<>> \in Seq(CacheRow) /\ <<>> \in Seq(Nat \ {0}) /\ Len(<<>>) = 0
  OBVIOUS
<1>3. TypeOK
  BY <1>1, <1>2 DEF Init, TypeOK, Table
<1>4. OneRowPerClient
  BY <1>2 DEF Init, OneRowPerClient
<1> QED
  BY <1>3, <1>4 DEF Init, RowsInv, TakenRows

\* Taking a row, or ending and resetting the cache.
LEMMA TakeRows ==
  ASSUME RowsInv, NEW s \in Sync, NEW a \in Ref, NEW i \in Nat \ {0},
         Take(s, a, i),
         UNCHANGED <<now, stored, pruning, left, received, calm>>,
         overlapped' \in BOOLEAN
  PROVE  RowsInv'
<1> USE DEF RowsInv
<1>1. stored' = stored /\ OneRowPerClient'
  BY DEF OneRowPerClient
<1>2. CASE i <= Len(array[a])
  <2>1. array[a][i] \in CacheRow
    BY <1>2 DEF TypeOK
  <2>2. /\ pc' = [pc EXCEPT ![s] = "count"]
        /\ ref' = [ref EXCEPT ![s] = a]
        /\ index' = [index EXCEPT ![s] = i]
        /\ row' = [row EXCEPT ![s] = array[a][i]]
        /\ table' = [table EXCEPT ![s] = "day"]
        /\ found' = [found EXCEPT ![s] = FALSE]
        /\ UNCHANGED memory
    BY <1>2 DEF Take
  <2>3. TypeOK'
    BY <2>1, <2>2 DEF TypeOK, Table
  <2>4. TakenRows'
    BY <2>1, <2>2 DEF TypeOK, TakenRows
  <2> QED
    BY <1>1, <2>3, <2>4
<1>3. CASE ~(i <= Len(array[a]))
  <2> DEFINE held == {ref[o] : o \in Running \ {s}}
  <2>1. /\ pc' = [pc EXCEPT ![s] = "idle"]
        /\ ref' = [ref EXCEPT ![s] = 0]
        /\ index' = [index EXCEPT ![s] = 0]
        /\ row' = [row EXCEPT ![s] = NoRow]
        /\ table' = [table EXCEPT ![s] = "day"]
        /\ found' = [found EXCEPT ![s] = FALSE]
        /\ current' = CHOOSE new \in Ref : new \notin held
        /\ array' = [b \in Ref |-> IF b \in held THEN array[b] ELSE <<>>]
    BY <1>3 DEF Take
  <2>2. 0 \in Ref
    BY SyncAssumption, FS_CardinalityType DEF Ref
  <2>3. current' \in Ref
    BY <2>1, SpareArray DEF TypeOK
  <2>4. array' \in [Ref -> Seq(CacheRow)]
    <3>1. <<>> \in Seq(CacheRow) /\ \A b \in Ref : array[b] \in Seq(CacheRow)
      BY DEF TypeOK
    <3> HIDE DEF held
    <3> QED
      BY <2>1, <3>1
  <2> HIDE DEF held
  <2>5. TypeOK'
    BY <2>1, <2>2, <2>3, <2>4 DEF TypeOK, Table
  <2>6. TakenRows'
    BY <2>1 DEF TypeOK, TakenRows
  <2> QED
    BY <1>1, <2>5, <2>6
<1> QED
  BY <1>2, <1>3

\* A hit changes the cache alone.
LEMMA AddRows ==
  ASSUME RowsInv, NEW subject \in Subject, NEW hour \in Hour, Add(subject, hour)
  PROVE  RowsInv'
<1> USE DEF RowsInv
<1> DEFINE k == [subject |-> subject, bucket |-> hour]
<1>1. /\ left' = left - 1 /\ left' \in 0..MaxHits
      /\ array' = [array EXCEPT ![current] = Counted(@, subject, hour)]
      /\ received' = [received EXCEPT ![k] = @ + 1]
      /\ calm' = [calm EXCEPT ![k] = @ + 1] \/ calm' = calm
      /\ UNCHANGED <<now, current, loops, stored, pruning, overlapped>>
  BY BoundAssumption DEF Add, TypeOK
<1>2. array' \in [Ref -> Seq(CacheRow)]
  BY <1>1, CountedType DEF TypeOK
<1>3. received' \in [RowKey -> Nat] /\ calm' \in [RowKey -> Nat]
  <2>1. ASSUME NEW f \in [RowKey -> Nat]
        PROVE  [f EXCEPT ![k] = @ + 1] \in [RowKey -> Nat]
    <3> k \in RowKey
      BY DEF RowKey
    <3> HIDE DEF k
    <3> QED
      OBVIOUS
  <2> HIDE DEF k
  <2> QED
    BY <1>1, <2>1 DEF TypeOK
<1> HIDE DEF k
<1>4. TypeOK'
  BY <1>1, <1>2, <1>3 DEF TypeOK
<1> QED
  BY <1>1, <1>4 DEF OneRowPerClient, TakenRows

\* A count changes no row.
LEMMA CountRows == ASSUME RowsInv, NEW s \in Sync, Count(s) PROVE RowsInv'
<1> USE DEF RowsInv
<1>1. TypeOK'
  BY DEF Count, TypeOK
<1>2. TakenRows'
  BY DEF Count, TypeOK, TakenRows
<1> QED
  BY <1>1, <1>2 DEF Count, OneRowPerClient

\* One row is updated or added.
LEMMA WriteRows == ASSUME RowsInv, NEW s \in Sync, Write(s) PROVE RowsInv'
<1> USE DEF RowsInv
<1> DEFINE t == table[s]
           k == KeyOf(t, row[s])
<1>1. /\ pc[s] = "write"
      /\ stored' = [stored EXCEPT ![t][k] = Upserted(@, s)]
      /\ pc' = [pc EXCEPT ![s] = IF t = "day" THEN "count" ELSE "next"]
      /\ table' = [table EXCEPT ![s] = "hour"]
      /\ found' = [found EXCEPT ![s] = FALSE]
      /\ UNCHANGED <<now, memory, ref, index, row, pruning, left, history>>
  BY DEF Write
<1>2. row[s] \in CacheRow /\ t \in Table
  BY <1>1 DEF TypeOK, TakenRows
<1>3. k \in RowKey
  BY <1>2, KeyType
<1>4. k.subject = row[s].subject
  BY DEF KeyOf
<1>5. stored[t][k] \in Seq(Nat \ {0})
  BY <1>2, <1>3 DEF TypeOK
<1>6. /\ Upserted(stored[t][k], s) \in Seq(Nat \ {0})
      /\ k.subject \notin Anonymous => Len(Upserted(stored[t][k], s)) <= 1
  BY <1>2, <1>3, <1>4, <1>5, UpsertedType DEF OneRowPerClient
<1> HIDE DEF t, k
<1>7. \A u \in Table, j \in RowKey :
        stored'[u][j] = IF u = t /\ j = k THEN Upserted(stored[t][k], s)
                                         ELSE stored[u][j]
  BY <1>1, <1>2, <1>3 DEF TypeOK
<1>8. stored' \in [Table -> [RowKey -> Seq(Nat \ {0})]]
  BY <1>1, <1>2, <1>3, <1>6 DEF TypeOK
<1>9. TypeOK'
  BY <1>1, <1>8 DEF TypeOK, Table
<1>10. OneRowPerClient'
  BY <1>6, <1>7 DEF OneRowPerClient
<1>11. TakenRows'
  BY <1>1 DEF TypeOK, TakenRows
<1> QED
  BY <1>9, <1>10, <1>11

\* A deletion empties some keys.
LEMMA DeleteRows ==
  ASSUME RowsInv, NEW t \in Table, NEW bucket, DeleteBelow(t, bucket)
  PROVE  /\ stored' \in [Table -> [RowKey -> Seq(Nat \ {0})]]
         /\ OneRowPerClient'
<1> DEFINE kept == [k \in RowKey |-> IF k.bucket < bucket THEN <<>>
                                     ELSE stored[t][k]]
<1>1. stored' = [stored EXCEPT ![t] = kept]
  BY DEF DeleteBelow
<1>2. <<>> \in Seq(Nat \ {0}) /\ Len(<<>>) = 0
  OBVIOUS
<1>3. kept \in [RowKey -> Seq(Nat \ {0})]
  BY <1>2 DEF RowsInv, TypeOK
<1>4. \A k \in RowKey : kept[k] = <<>> \/ kept[k] = stored[t][k]
  OBVIOUS
<1> HIDE DEF kept
<1>5. \A u \in Table : stored'[u] = IF u = t THEN kept ELSE stored[u]
  BY <1>1 DEF RowsInv, TypeOK
<1>6. OneRowPerClient'
  BY <1>2, <1>4, <1>5 DEF RowsInv, OneRowPerClient
<1> QED
  BY <1>1, <1>3, <1>6 DEF RowsInv, TypeOK

\* Time passes, and old rows are deleted.
LEMMA TimeRows == ASSUME RowsInv, Tick \/ PruneDays \/ PruneHours
                  PROVE  RowsInv'
<1> USE DEF RowsInv
<1>1. CASE Tick
  <2>1. TypeOK'
    BY <1>1, BoundAssumption DEF Tick, TypeOK, Hour
  <2> QED
    BY <1>1, <2>1 DEF Tick, OneRowPerClient, TakenRows
<1>2. CASE PruneDays \/ PruneHours
  <2>1. PICK t \in Table, bucket \in Int : DeleteBelow(t, bucket)
    <3>1. CASE PruneDays
      <4>1. Day(now - Retention) \in Int
        BY BoundAssumption DEF TypeOK, Hour, Day
      <4> QED
        BY <3>1, <4>1 DEF PruneDays, Table
    <3>2. CASE PruneHours
      BY <3>2 DEF PruneHours, Table, TypeOK, Hour, NotPruning
    <3> QED
      BY <1>2, <3>1, <3>2
  <2>2. pruning' \in {NotPruning} \cup Hour
    BY <1>2, BoundAssumption DEF PruneDays, PruneHours, TypeOK, Hour
  <2>3. UNCHANGED <<now, memory, loops, left, history>>
    BY <1>2 DEF PruneDays, PruneHours
  <2>4. TypeOK'
    BY <2>1, <2>2, <2>3, DeleteRows DEF TypeOK
  <2> QED
    BY <2>1, <2>3, <2>4, DeleteRows DEF TakenRows
<1> QED
  BY <1>1, <1>2

\* A crash empties the memory.
LEMMA CrashRows == ASSUME RowsInv, Crash PROVE RowsInv'
<1> USE DEF RowsInv
<1>1. 0 \in Ref /\ <<>> \in Seq(CacheRow)
  BY SyncAssumption, FS_CardinalityType DEF Ref
<1>2. \A a \in Nat : \A b : Least(a, b) \in Nat
  BY DEF Least
<1>3. received' \in [RowKey -> Nat] /\ calm' \in [RowKey -> Nat]
  BY <1>2 DEF Crash, TypeOK
<1>4. TypeOK'
  BY <1>1, <1>3 DEF Crash, TypeOK, Table
<1> QED
  BY <1>4 DEF Crash, OneRowPerClient, TakenRows

\* The types, the rows and what the loops have taken hold throughout
\* (src/src/database/schema_hits.ts).
THEOREM RowsInvariance == Spec => []RowsInv
<1>1. RowsInv /\ [Next]_vars => RowsInv'
  <2> SUFFICES ASSUME RowsInv, [Next]_vars PROVE RowsInv'
    OBVIOUS
  <2>1. CASE UNCHANGED vars
    BY <2>1 DEF RowsInv, TypeOK, OneRowPerClient, TakenRows
  <2>2. ASSUME NEW subject \in Subject, NEW hour \in Hour, Add(subject, hour)
        PROVE  RowsInv'
    BY <2>2, AddRows
  <2>3. ASSUME NEW s \in Sync, StartSync(s) PROVE RowsInv'
    <3>1. current \in Ref /\ overlapped' \in BOOLEAN
      BY <2>3 DEF StartSync, RowsInv, TypeOK
    <3> QED
      BY <2>3, <3>1, TakeRows DEF StartSync
  <2>4. ASSUME NEW s \in Sync, NextRow(s) PROVE RowsInv'
    <3>1. ref[s] \in Ref /\ index[s] + 1 \in Nat \ {0}
      BY DEF RowsInv, TypeOK
    <3>2. overlapped' \in BOOLEAN
      BY <2>4 DEF NextRow, RowsInv, TypeOK
    <3> QED
      BY <2>4, <3>1, <3>2, TakeRows DEF NextRow
  <2> QED
    BY <2>1, <2>2, <2>3, <2>4, CountRows, WriteRows, TimeRows, CrashRows
       DEF Next
<1> QED
  BY <1>1, InitRows, PTL DEF Spec

\* Every variable of the counter keeps its type, the array a loop holds on to
\* among them (src/src/database/schema_hits.ts).
THEOREM HitTypes == Spec => []TypeOK
<1>1. RowsInv => TypeOK
  BY DEF RowsInv
<1> QED
  BY <1>1, RowsInvariance, PTL

\* However many stores overlap, a client has one row per day and hour.
THEOREM OneRow == Spec => []OneRowPerClient
<1>1. RowsInv => OneRowPerClient
  BY DEF RowsInv
<1> QED
  BY <1>1, RowsInvariance, PTL

------------------------------------------------------------------------------
(* Sums of numbers over finite sets.                                       *)

\* Of some finite sets there is one with no other inside: what fails for a finite
\* set fails for a smallest one, which is how the lemmas below go on.
LEMMA SmallestSet ==
  ASSUME NEW S, IsFiniteSet(S), NEW T \in SUBSET SUBSET S, T # {}
  PROVE  \E s \in T : \A u \in T : u \subseteq s => u = s
<1>1. FiniteSubsetsOf(S) = SUBSET S
  BY FS_FiniteSubsetsOfFinite
<1>2. IsWellFoundedOn(StrictSubsetOrdering(S), SUBSET S)
  BY <1>1, FS_StrictSubsetOrderingWellFounded
<1>3. \E s \in T : \A u \in T : ~(<<u, s>> \in StrictSubsetOrdering(S))
  BY <1>2, WFMin
<1> QED
  BY <1>3 DEF StrictSubsetOrdering

\* The function by which a fold is defined: the sums of f over the subsets of S.
IsSum(g, f, S) ==
  g = [s \in SUBSET S |-> IF s = {} THEN 0
                          ELSE LET x == CHOOSE x \in s : TRUE IN f[x] + g[s \ {x}]]

\* What it is for one set.
LEMMA SumStep ==
  ASSUME NEW g, NEW f, NEW S, IsSum(g, f, S), NEW s \in SUBSET S
  PROVE  /\ s = {} => g[s] = 0
         /\ s # {} => LET x == CHOOSE x \in s : TRUE IN g[s] = f[x] + g[s \ {x}]
  BY DEF IsSum

\* There is at most one, also when it is defined on more sets.
LEMMA SumUnique ==
  ASSUME NEW f, NEW S, IsFiniteSet(S), NEW R \in SUBSET S, NEW g, NEW h,
         IsSum(g, f, S), IsSum(h, f, R)
  PROVE  \A s \in SUBSET R : g[s] = h[s]
<1> DEFINE T == {s \in SUBSET R : g[s] # h[s]}
<1>1. SUFFICES ASSUME T # {} PROVE FALSE
  OBVIOUS
<1>2. T \in SUBSET SUBSET R /\ IsFiniteSet(R)
  BY FS_Subset
<1>3. \E s \in T : \A u \in T : u \subseteq s => u = s
  <2> HIDE DEF T
  <2> QED
    BY <1>1, <1>2, SmallestSet
<1>4. PICK s \in T : \A u \in T : u \subseteq s => u = s
  BY <1>3
<1>5. s \in SUBSET R /\ s \in SUBSET S /\ g[s] # h[s]
  OBVIOUS
<1>6. s # {}
  BY <1>5, SumStep
<1> DEFINE x == CHOOSE x \in s : TRUE
<1>7. x \in s
  BY <1>6
<1>8. g[s \ {x}] = h[s \ {x}]
  BY <1>4, <1>5, <1>7
<1>9. g[s] = f[x] + g[s \ {x}] /\ h[s] = f[x] + h[s \ {x}]
  BY <1>5, <1>6, SumStep
<1> QED
  BY <1>5, <1>8, <1>9

\* There is one.
LEMMA SumExists ==
  ASSUME NEW f, NEW S, IsFiniteSet(S)
  PROVE  \E g : IsSum(g, f, S)
<1> DEFINE T == {s \in SUBSET S : ~\E g : IsSum(g, f, s)}
<1>1. SUFFICES ASSUME T # {} PROVE FALSE
  OBVIOUS
<1>2. \E s \in T : \A u \in T : u \subseteq s => u = s
  <2>1. T \in SUBSET SUBSET S
    OBVIOUS
  <2> HIDE DEF T
  <2> QED
    BY <1>1, <2>1, SmallestSet
<1>3. PICK s \in T : \A u \in T : u \subseteq s => u = s
  BY <1>2
<1>4. s \in SUBSET S /\ ~\E g : IsSum(g, f, s)
  OBVIOUS
<1> DEFINE sum(u) == CHOOSE g : IsSum(g, f, u)
           h == [u \in SUBSET s |-> IF u = {} THEN 0
                   ELSE LET x == CHOOSE x \in u : TRUE IN f[x] + sum(u \ {x})[u \ {x}]]
<1>5. \A u \in SUBSET s : u # s => IsSum(sum(u), f, u)
  BY <1>3, <1>4
<1>6. ASSUME NEW u \in SUBSET s, u # s
      PROVE  h[u] = sum(u)[u]
  <2>1. IsSum(sum(u), f, u)
    BY <1>5, <1>6
  <2>2. CASE u = {}
    <3>1. sum(u)[u] = 0
      BY <2>1, <2>2, SumStep
    <3> QED
      BY <2>2, <3>1
  <2>3. CASE u # {}
    <3> DEFINE x == CHOOSE x \in u : TRUE
    <3>1. x \in u
      BY <2>3
    <3>2. u \ {x} \in SUBSET s /\ u \ {x} # s /\ u \ {x} \in SUBSET u
      BY <3>1
    <3>3. IsSum(sum(u \ {x}), f, u \ {x})
      BY <1>5, <3>2
    <3>4. sum(u)[u] = f[x] + sum(u)[u \ {x}]
      BY <2>1, <2>3, SumStep
    <3>5. sum(u)[u \ {x}] = sum(u \ {x})[u \ {x}]
      <4>1. IsFiniteSet(u)
        BY <1>4, FS_Subset
      <4> HIDE DEF sum, x
      <4> QED
        BY <2>1, <3>2, <3>3, <4>1, SumUnique
    <3>6. h[u] = f[x] + sum(u \ {x})[u \ {x}]
      BY <2>3
    <3> QED
      BY <3>4, <3>5, <3>6
  <2> QED
    BY <2>2, <2>3
<1>7. \A u \in SUBSET s : u # {} =>
        LET x == CHOOSE x \in u : TRUE
        IN  h[u \ {x}] = sum(u \ {x})[u \ {x}]
  <2> SUFFICES ASSUME NEW u \in SUBSET s, u # {}
               PROVE  LET x == CHOOSE x \in u : TRUE
                      IN  h[u \ {x}] = sum(u \ {x})[u \ {x}]
    OBVIOUS
  <2> DEFINE x == CHOOSE x \in u : TRUE
  <2>1. x \in u
    OBVIOUS
  <2>2. u \ {x} \in SUBSET s /\ u \ {x} # s
    BY <2>1
  <2> HIDE DEF h, sum, x
  <2>3. h[u \ {x}] = sum(u \ {x})[u \ {x}]
    BY <1>6, <2>2
  <2> QED
    BY <2>3 DEF x
<1>8. IsSum(h, f, s)
  <2>1. h = [u \in SUBSET s |-> IF u = {} THEN 0
               ELSE LET x == CHOOSE x \in u : TRUE IN f[x] + h[u \ {x}]]
    <3>1. ASSUME NEW u \in SUBSET s
          PROVE  h[u] = IF u = {} THEN 0
               ELSE LET x == CHOOSE x \in u : TRUE IN f[x] + h[u \ {x}]
      <4>1. h[u] = IF u = {} THEN 0
              ELSE LET x == CHOOSE x \in u : TRUE IN f[x] + sum(u \ {x})[u \ {x}]
        OBVIOUS
      <4>2. u # {} => LET x == CHOOSE x \in u : TRUE
                      IN  h[u \ {x}] = sum(u \ {x})[u \ {x}]
        BY <1>7
      <4> HIDE DEF h, sum
      <4> QED
        BY <4>1, <4>2
    <3>2. h = [u \in SUBSET s |-> h[u]]
      OBVIOUS
    <3> HIDE DEF h
    <3> QED
      BY <3>1, <3>2
  <2> HIDE DEF h
  <2> QED
    BY <2>1 DEF IsSum
<1> QED
  BY <1>4, <1>8

\* The sum of f over S.
SumOver(f, S) == SumFunctionOnSet(f, S)

\* The sum over no elements.
LEMMA SumEmpty ==
  ASSUME NEW f
  PROVE  SumOver(f, {}) = 0
<1> DEFINE g == CHOOSE g : IsSum(g, f, {})
<1>1. SumOver(f, {}) = g[{}]
  BY DEF SumOver, SumFunctionOnSet, FoldFunctionOnSet, MapThenFoldSet, IsSum
<1>2. IsSum(g, f, {})
  BY FS_EmptySet, SumExists
<1> HIDE DEF g
<1>3. {} \in SUBSET {}
  OBVIOUS
<1>4. g[{}] = 0
  BY <1>2, <1>3, SumStep
<1> QED
  BY <1>1, <1>4

\* A sum takes the elements in the order in which CHOOSE picks them ...
LEMMA SumUnfold ==
  ASSUME NEW f, NEW S, IsFiniteSet(S), S # {}
  PROVE  LET x == CHOOSE x \in S : TRUE
         IN  SumOver(f, S) = f[x] + SumOver(f, S \ {x})
<1> DEFINE sum(s) == CHOOSE g : IsSum(g, f, s)
<1>1. \A s : SumOver(f, s) = sum(s)[s]
  BY DEF SumOver, SumFunctionOnSet, FoldFunctionOnSet, MapThenFoldSet, IsSum
<1>2. \A s \in SUBSET S : IsFiniteSet(s) /\ IsSum(sum(s), f, s)
  BY FS_Subset, SumExists
<1> HIDE DEF sum
<1> DEFINE x == CHOOSE x \in S : TRUE
<1>3. sum(S)[S] = f[x] + sum(S)[S \ {x}]
  BY <1>2, SumStep
<1> HIDE DEF x
<1> DEFINE R == S \ {x}
<1>4. R \in SUBSET S /\ S \in SUBSET S /\ R \in SUBSET R
  OBVIOUS
<1> HIDE DEF R
<1>5. IsSum(sum(S), f, S) /\ IsSum(sum(R), f, R)
  BY <1>2, <1>4
<1>6. sum(S)[S \ {x}] = sum(S \ {x})[S \ {x}]
  <2> DEFINE g == sum(S)
             h == sum(R)
  <2>1. IsSum(g, f, S) /\ IsSum(h, f, R)
    BY <1>5
  <2> HIDE DEF g, h
  <2>2. g[R] = h[R]
    BY <1>4, <2>1, SumUnique
  <2> QED
    BY <2>2 DEF g, h, R
<1>7. SumOver(f, S) = f[x] + SumOver(f, S \ {x})
  BY <1>1, <1>3, <1>6
<1> QED
  BY <1>7 DEF x

\* ... but any order gives it, if its terms are numbers.
LEMMA SumRemove ==
  ASSUME NEW f, NEW S, IsFiniteSet(S), \A x \in S : f[x] \in Nat
  PROVE  /\ SumOver(f, S) \in Nat
         /\ \A x \in S : SumOver(f, S) = f[x] + SumOver(f, S \ {x})
<1> DEFINE Holds(s) == /\ SumOver(f, s) \in Nat
                       /\ \A x \in s : SumOver(f, s) = f[x] + SumOver(f, s \ {x})
           T == {s \in SUBSET S : ~Holds(s)}
<1>1. SUFFICES ASSUME T # {} PROVE FALSE
  OBVIOUS
<1>2. \E s \in T : \A u \in T : u \subseteq s => u = s
  <2>1. T \in SUBSET SUBSET S
    OBVIOUS
  <2> HIDE DEF T
  <2> QED
    BY <1>1, <2>1, SmallestSet
<1>3. PICK s \in T : \A u \in T : u \subseteq s => u = s
  BY <1>2
<1>4. /\ s \in SUBSET S /\ ~Holds(s)
      /\ \A u \in SUBSET s : u # s => Holds(u)
  BY <1>3
<1> HIDE DEF T
<1>5. \A u \in SUBSET s : IsFiniteSet(u)
  BY <1>4, FS_Subset
<1>6. s # {}
  <2> SUFFICES ASSUME s = {} PROVE FALSE
    OBVIOUS
  <2>1. SumOver(f, s) = 0
    BY SumEmpty
  <2>2. Holds(s)
    BY <2>1
  <2> HIDE DEF Holds
  <2> QED
    BY <1>4, <2>2
<1> DEFINE c == CHOOSE x \in s : TRUE
<1>7. c \in s
  BY <1>6
<1>8. SumOver(f, s) = f[c] + SumOver(f, s \ {c})
  BY <1>5, <1>6, SumUnfold
<1> HIDE DEF c
<1>9. Holds(s \ {c})
  BY <1>4, <1>7
<1>10. f[c] \in Nat /\ SumOver(f, s \ {c}) \in Nat
  BY <1>4, <1>7, <1>9
<1>11. SumOver(f, s) \in Nat
  BY <1>8, <1>10
<1>12. ASSUME NEW x \in s, x # c
       PROVE  SumOver(f, s) = f[x] + SumOver(f, s \ {x})
  <2>1. Holds(s \ {x})
    BY <1>4
  <2>2. (s \ {x}) \ {c} = (s \ {c}) \ {x}
    OBVIOUS
  <2>3. SumOver(f, s \ {c}) = f[x] + SumOver(f, (s \ {c}) \ {x})
    BY <1>9, <1>12
  <2>4. SumOver(f, s \ {x}) = f[c] + SumOver(f, (s \ {c}) \ {x})
    BY <1>7, <1>12, <2>1, <2>2
  <2>5. SumOver(f, (s \ {c}) \ {x}) \in Nat
    <3>1. (s \ {c}) \ {x} \in SUBSET s /\ (s \ {c}) \ {x} # s
      BY <1>7
    <3> QED
      BY <1>4, <3>1
  <2>6. f[x] \in Nat
    BY <1>4
  <2> QED
    BY <1>8, <1>10, <2>3, <2>4, <2>5, <2>6
<1> QED
  BY <1>4, <1>8, <1>11, <1>12

\* A sum of smaller terms is smaller, and one term more may be greater by n.
LEMMA SumBound ==
  ASSUME NEW f, NEW g, NEW S, IsFiniteSet(S),
         \A x \in S : f[x] \in Nat /\ g[x] \in Nat /\ f[x] <= g[x]
  PROVE  SumOver(f, S) <= SumOver(g, S)
<1> DEFINE T == {s \in SUBSET S : ~(SumOver(f, s) <= SumOver(g, s))}
<1>1. SUFFICES ASSUME T # {} PROVE FALSE
  OBVIOUS
<1>2. \E s \in T : \A u \in T : u \subseteq s => u = s
  <2>1. T \in SUBSET SUBSET S
    OBVIOUS
  <2> HIDE DEF T
  <2> QED
    BY <1>1, <2>1, SmallestSet
<1>3. PICK s \in T : \A u \in T : u \subseteq s => u = s
  BY <1>2
<1>4. /\ s \in SUBSET S /\ ~(SumOver(f, s) <= SumOver(g, s))
      /\ \A u \in SUBSET s : u # s => SumOver(f, u) <= SumOver(g, u)
  BY <1>3
<1> HIDE DEF T
<1>5. s # {}
  <2> SUFFICES ASSUME s = {} PROVE FALSE
    OBVIOUS
  <2>1. SumOver(f, s) = 0 /\ SumOver(g, s) = 0
    BY SumEmpty
  <2>2. SumOver(f, s) <= SumOver(g, s)
    BY <2>1
  <2> QED
    BY <1>4, <2>2
<1>6. PICK x \in s : TRUE
  BY <1>5
<1>7. IsFiniteSet(s) /\ IsFiniteSet(s \ {x})
  BY <1>4, FS_Subset
<1>8. /\ SumOver(f, s) = f[x] + SumOver(f, s \ {x}) /\ SumOver(f, s \ {x}) \in Nat
      /\ SumOver(g, s) = g[x] + SumOver(g, s \ {x}) /\ SumOver(g, s \ {x}) \in Nat
  BY <1>4, <1>7, SumRemove
<1>9. SumOver(f, s \ {x}) <= SumOver(g, s \ {x})
  BY <1>4
<1>10. f[x] \in Nat /\ g[x] \in Nat /\ f[x] <= g[x]
  BY <1>4
<1> QED
  BY <1>4, <1>8, <1>9, <1>10

\* A sum grows by n at most when one term does and no other grows.
LEMMA SumGrowth ==
  ASSUME NEW f, NEW g, NEW S, IsFiniteSet(S), NEW x \in S, NEW n \in Nat,
         \A y \in S : f[y] \in Nat /\ g[y] \in Nat,
         \A y \in S \ {x} : g[y] <= f[y], g[x] <= f[x] + n
  PROVE  SumOver(g, S) <= SumOver(f, S) + n
<1>1. IsFiniteSet(S \ {x})
  BY FS_Subset
<1>2. /\ SumOver(f, S) = f[x] + SumOver(f, S \ {x}) /\ SumOver(f, S \ {x}) \in Nat
      /\ SumOver(g, S) = g[x] + SumOver(g, S \ {x}) /\ SumOver(g, S \ {x}) \in Nat
  BY <1>1, SumRemove
<1>3. SumOver(g, S \ {x}) <= SumOver(f, S \ {x})
  BY <1>1, SumBound
<1>4. f[x] \in Nat /\ g[x] \in Nat
  OBVIOUS
<1> QED
  BY <1>2, <1>3, <1>4

\* A sum whose terms are zero is zero, and one with one other term is that term.
LEMMA SumOfOne ==
  ASSUME NEW f, NEW S, IsFiniteSet(S), \A x \in S : f[x] \in Nat
  PROVE  /\ (\A x \in S : f[x] = 0) => SumOver(f, S) = 0
         /\ \A x \in S : (\A y \in S \ {x} : f[y] = 0) => SumOver(f, S) = f[x]
<1>1. ASSUME NEW s \in SUBSET S, \A x \in s : f[x] = 0
      PROVE  SumOver(f, s) = 0
  <2> DEFINE T == {u \in SUBSET s : SumOver(f, u) # 0}
  <2>1. SUFFICES ASSUME T # {} PROVE FALSE
    OBVIOUS
  <2>2. \E u \in T : \A v \in T : v \subseteq u => v = u
    <3>1. T \in SUBSET SUBSET s /\ IsFiniteSet(s)
      BY FS_Subset
    <3> HIDE DEF T
    <3> QED
      BY <2>1, <3>1, SmallestSet
  <2>3. PICK u \in T : \A v \in T : v \subseteq u => v = u
    BY <2>2
  <2>4. u \in SUBSET s /\ SumOver(f, u) # 0 /\ \A v \in SUBSET u : v # u => SumOver(f, v) = 0
    BY <2>3
  <2> HIDE DEF T
  <2>5. PICK x \in u : TRUE
    BY <2>4, SumEmpty
  <2>6. IsFiniteSet(u) /\ \A y \in u : f[y] \in Nat
    BY <2>4, FS_Subset
  <2>7. SumOver(f, u) = f[x] + SumOver(f, u \ {x})
    BY <2>6, SumRemove
  <2> QED
    BY <1>1, <2>4, <2>7
<1>2. ASSUME NEW x \in S, \A y \in S \ {x} : f[y] = 0
      PROVE  SumOver(f, S) = f[x]
  <2>1. SumOver(f, S) = f[x] + SumOver(f, S \ {x})
    BY SumRemove
  <2>2. SumOver(f, S \ {x}) = 0
    BY <1>1, <1>2
  <2>3. f[x] \in Nat
    OBVIOUS
  <2> QED
    BY <2>1, <2>2, <2>3
<1> QED
  BY <1>1, <1>2

------------------------------------------------------------------------------
(* While no store overlaps another.                                        *)

IsOf(k, r) == r.subject = k.subject /\ r.hour = k.bucket

\* A subject has one row per hour in an array.
DistinctRows ==
  \A a \in Ref : \A i, j \in DOMAIN array[a] :
    /\ array[a][i].subject = array[a][j].subject
    /\ array[a][i].hour = array[a][j].hour
    => i = j

\* The loop goes over internalCache, and has taken the row at its place.
InPlace ==
  \A s \in Running :
    /\ \A o \in Running : o = s
    /\ ref[s] = current
    /\ index[s] \in DOMAIN array[current]
    /\ row[s].subject = array[current][index[s]].subject
    /\ row[s].hour = array[current][index[s]].hour

\* Days that no deletion may touch.
KeptDay(day) == day >= Day(IF now >= Retention THEN now - Retention ELSE 0)

Kept(t, bucket) == IF t = "day" THEN KeptDay(bucket) ELSE Retained(bucket)

\* What the loop counted is still so, except for what is deleted.
CountHolds ==
  \A s \in Running : pc[s] = "write" =>
    LET k == KeyOf(table[s], row[s])
    IN  IF found[s] THEN Kept(table[s], k.bucket) => stored[table[s]][k] # <<>>
        ELSE stored[table[s]][k] = <<>>

\* One row per key, also of anonymous subjects.
OneRowEach == \A t \in Table : \A k \in RowKey : Len(stored[t][k]) <= 1

\* The hours that are being deleted are not retained.
PruningPast == pruning # NotPruning => pruning <= now - Retention

SerialInv == ~overlapped => InPlace /\ CountHolds /\ OneRowEach

\* What is stored under k and n more is what came in.
Accounts(k, n) ==
  /\ calm[k] <= Stored("hour", k) + n
  /\ Stored("hour", k) + n <= received[k]

\* The loop has the row of k and has not stored it.
InHand(s, k) == s \in Running /\ pc[s] # "next" /\ IsOf(k, row[s])

\* The row of k is at place i and the loop has not come to it.
Ahead(i, k) ==
  /\ i \in DOMAIN array[current]
  /\ IsOf(k, array[current][i])
  /\ \A s \in Running : index[s] < i

\* What is neither lost nor stored is in one of the two places.
AccountsFor(k) ==
  /\ \A s \in Sync : InHand(s, k) => Accounts(k, row[s].hits)
  /\ \A i \in DOMAIN array[current] : Ahead(i, k) => Accounts(k, array[current][i].hits)
  /\ (\A s \in Sync : ~InHand(s, k)) /\ (\A i \in DOMAIN array[current] : ~Ahead(i, k))
       => Accounts(k, 0)

AccountInv == ~overlapped => \A k \in RowKey : Retained(k.bucket) => AccountsFor(k)

HoursOf(day) == {hour \in Hour : Day(hour) = day}
InDay(subject, day) ==
  [hour \in HoursOf(day) |-> Stored("hour", [subject |-> subject, bucket |-> hour])]

\* The loop has stored the row in the day and not yet in the hour.
Between(s, subject, day) ==
  /\ s \in Running /\ pc[s] # "next" /\ table[s] = "hour"
  /\ row[s].subject = subject /\ Day(row[s].hour) = day

DayInv ==
  ~overlapped =>
    \A subject \in Subject, day \in {Day(hour) : hour \in Hour} : KeptDay(day) =>
      LET inDay == SumOver(InDay(subject, day), HoursOf(day))
          atDay == Stored("day", [subject |-> subject, bucket |-> day])
      IN  /\ inDay <= atDay
          /\ \A s \in Sync : Between(s, subject, day) => inDay + row[s].hits <= atDay

SumsInv == RowsInv /\ DistinctRows /\ PruningPast /\ SerialInv /\ AccountInv /\ DayInv

------------------------------------------------------------------------------
(* What the operators do.                                                  *)

\* The rows of a key add up to a number: none to 0, one to its hits.
LEMMA RowsSum ==
  ASSUME NEW rows \in Seq(Nat \ {0})
  PROVE  /\ SumFunction(rows) \in Nat
         /\ rows = <<>> => SumFunction(rows) = 0
         /\ Len(rows) = 1 => SumFunction(rows) = rows[1]
<1>1. SumFunction(rows) = SumOver(rows, DOMAIN rows)
  BY DEF SumFunction, SumOver
<1>2. DOMAIN rows = 1..Len(rows) /\ Len(rows) \in Nat /\ \A i \in DOMAIN rows : rows[i] \in Nat
  OBVIOUS
<1>3. IsFiniteSet(DOMAIN rows)
  BY <1>2, FS_Interval
<1>4. SumOver(rows, DOMAIN rows) \in Nat
  BY <1>2, <1>3, SumRemove
<1>5. ASSUME rows = <<>> PROVE SumOver(rows, DOMAIN rows) = 0
  <2>1. DOMAIN rows = {}
    BY <1>5
  <2> QED
    BY <2>1, SumEmpty
<1>6. ASSUME Len(rows) = 1 PROVE SumOver(rows, DOMAIN rows) = rows[1]
  <2>1. 1 \in DOMAIN rows /\ \A i \in DOMAIN rows \ {1} : rows[i] = 0
    BY <1>2, <1>6
  <2> QED
    BY <1>2, <1>3, <2>1, SumOfOne
<1> QED
  BY <1>1, <1>4, <1>5, <1>6

\* With one row at most, a row that is still there or still missing gets the hits;
\* one that was deleted after it was counted stays away.
LEMMA UpsertedSum ==
  ASSUME NEW rows \in Seq(Nat \ {0}), Len(rows) <= 1, NEW s \in Sync,
         row[s] \in CacheRow, ~found[s] => rows = <<>>
  PROVE  LET new == Upserted(rows, s)
         IN  /\ new \in Seq(Nat \ {0}) /\ Len(new) <= 1
             /\ found[s] /\ rows = <<>> => new = <<>>
             /\ (found[s] => rows # <<>>)
                  => SumFunction(new) = SumFunction(rows) + row[s].hits
<1> DEFINE hits == row[s].hits
           more == [i \in DOMAIN rows |-> rows[i] + hits]
           new == Upserted(rows, s)
<1>1. hits \in Nat \ {0}
  BY DEF CacheRow
<1>2. new = IF found[s] THEN more ELSE Append(rows, hits)
  BY DEF Upserted
<1>3. /\ DOMAIN rows = 1..Len(rows) /\ Len(rows) \in Nat
      /\ \A i \in DOMAIN rows : rows[i] \in Nat \ {0}
  OBVIOUS
<1>4. more \in Seq(Nat \ {0}) /\ Len(more) = Len(rows)
  <2>1. \A i \in 1..Len(rows) : more[i] \in Nat \ {0}
    BY <1>1, <1>3
  <2> QED
    BY <1>3, <2>1
<1>5. CASE found[s] /\ rows = <<>>
  <2>1. new = more /\ more = <<>>
    BY <1>2, <1>4, <1>5
  <2> QED
    BY <1>5, <2>1
<1>6. CASE found[s] /\ rows # <<>>
  <2>1. Len(rows) = 1
    BY <1>3, <1>6
  <2>2. new = more /\ more[1] = rows[1] + hits
    BY <1>2, <1>3, <1>6, <2>1
  <2> HIDE DEF more
  <2>3. SumFunction(rows) = rows[1] /\ SumFunction(more) = more[1]
    BY <1>4, <2>1, RowsSum
  <2> QED
    BY <1>4, <1>6, <2>1, <2>2, <2>3
<1>7. CASE ~found[s]
  <2>1. rows = <<>> /\ new = <<hits>>
    <3>1. rows = <<>>
      BY <1>7
    <3>2. new = Append(rows, hits)
      BY <1>2, <1>7
    <3>3. Append(<<>>, hits) = <<hits>>
      BY <1>1
    <3> HIDE DEF new, hits
    <3> QED
      BY <3>1, <3>2, <3>3
  <2>2. <<hits>> \in Seq(Nat \ {0}) /\ Len(<<hits>>) = 1 /\ <<hits>>[1] = hits
    BY <1>1
  <2>3. SumFunction(rows) = 0 /\ SumFunction(new) = hits
    BY <2>1, <2>2, RowsSum
  <2>4. /\ new \in Seq(Nat \ {0}) /\ Len(new) <= 1
        /\ SumFunction(new) = SumFunction(rows) + row[s].hits
    <3> HIDE DEF new
    <3> QED
      BY <1>1, <2>1, <2>2, <2>3
  <2> QED
    BY <1>7, <2>4
<1> QED
  BY <1>5, <1>6, <1>7

\* The row of a hit has one more, and no other row changes; there is one if there
\* was none.
LEMMA CountedRow ==
  ASSUME NEW rows \in Seq(CacheRow), NEW subject \in Subject, NEW hour \in Hour
  PROVE  LET new == Counted(rows, subject, hour)
             k == [subject |-> subject, bucket |-> hour]
         IN  /\ DOMAIN rows \subseteq DOMAIN new
             /\ \A i \in DOMAIN rows :
                  /\ new[i].subject = rows[i].subject /\ new[i].hour = rows[i].hour
                  /\ new[i].hits = IF IsOf(k, rows[i]) THEN rows[i].hits + 1
                                   ELSE rows[i].hits
             /\ \A i \in DOMAIN new \ DOMAIN rows :
                  /\ i = Len(rows) + 1 /\ IsOf(k, new[i]) /\ new[i].hits = 1
                  /\ \A j \in DOMAIN rows : ~IsOf(k, rows[j])
             /\ \E i \in DOMAIN new : IsOf(k, new[i])
<1> DEFINE k == [subject |-> subject, bucket |-> hour]
           same == {i \in DOMAIN rows : rows[i].subject = subject
                                        /\ rows[i].hour = hour}
           one == [subject |-> subject, hour |-> hour, hits |-> 1]
           more == [i \in DOMAIN rows |-> IF i \in same
                                          THEN [rows[i] EXCEPT !.hits = @ + 1]
                                          ELSE rows[i]]
           new == Counted(rows, subject, hour)
<1>1. new = IF same = {} THEN Append(rows, one) ELSE more
  BY DEF Counted
<1>2. \A i \in DOMAIN rows : i \in same <=> IsOf(k, rows[i])
  BY DEF IsOf
<1>3. DOMAIN rows = 1..Len(rows) /\ Len(rows) \in Nat /\ \A i \in DOMAIN rows : rows[i] \in CacheRow
  OBVIOUS
<1>4. one \in CacheRow /\ IsOf(k, one) /\ one.hits = 1
  BY DEF CacheRow, IsOf
<1>5. CASE same = {}
  <2>1. /\ new = Append(rows, one)
        /\ DOMAIN new = 1..(Len(rows) + 1)
        /\ \A i \in DOMAIN rows : new[i] = rows[i]
        /\ new[Len(rows) + 1] = one
    <3>1. new = Append(rows, one)
      BY <1>1, <1>5
    <3> HIDE DEF one, new, same, more
    <3>2. /\ Len(Append(rows, one)) = Len(rows) + 1
          /\ Append(rows, one) \in Seq(CacheRow)
          /\ \A i \in 1..Len(rows) : Append(rows, one)[i] = rows[i]
          /\ Append(rows, one)[Len(rows) + 1] = one
      BY <1>4, AppendProperties
    <3> QED
      BY <1>3, <3>1, <3>2
  <2>2. \A i \in DOMAIN rows : ~IsOf(k, rows[i])
    BY <1>2, <1>5
  <2>3. \A i \in DOMAIN new \ DOMAIN rows : i = Len(rows) + 1
    BY <1>3, <2>1
  <2> HIDE DEF new, same, one, more, k
  <2>4. Len(rows) + 1 \in DOMAIN new
    BY <1>3, <2>1
  <2>5. DOMAIN rows \subseteq DOMAIN new
    BY <1>3, <2>1
  <2> QED
    BY <1>4, <2>1, <2>2, <2>3, <2>4, <2>5 DEF new, k
<1>6. CASE same # {}
  <2>1. new = more /\ DOMAIN more = DOMAIN rows
    BY <1>1, <1>6
  <2>2. ASSUME NEW i \in DOMAIN rows
        PROVE  /\ more[i].subject = rows[i].subject /\ more[i].hour = rows[i].hour
               /\ more[i].hits = IF IsOf(k, rows[i]) THEN rows[i].hits + 1
                                 ELSE rows[i].hits
    BY <1>2, <1>3 DEF CacheRow
  <2>3. PICK i \in DOMAIN rows : IsOf(k, rows[i])
    BY <1>2, <1>6
  <2>4. IsOf(k, more[i])
    BY <2>2, <2>3 DEF IsOf
  <2> HIDE DEF new, same, one, more, k
  <2> QED
    BY <2>1, <2>2, <2>4 DEF new, k
<1> QED
  BY <1>5, <1>6

------------------------------------------------------------------------------
(* The steps of a loop that no other overlaps.                             *)

\* The loop takes the row at place i of internalCache, or ends and leaves an
\* empty one.
LEMMA TakeSteps ==
  ASSUME RowsInv, NEW s \in Sync, NEW i \in Nat \ {0}, Take(s, current, i),
         Running \subseteq {s}
  PROVE  \/ /\ i \in DOMAIN array[current] /\ Running' = {s}
            /\ pc'[s] = "count" /\ ref'[s] = current /\ index'[s] = i
            /\ row'[s] = array[current][i] /\ table'[s] = "day"
            /\ array' = array /\ current' = current
         \/ /\ i \notin DOMAIN array[current] /\ Running' = {}
            /\ current' \in Ref /\ array' = [a \in Ref |-> <<>>]
<1>1. /\ array[current] \in Seq(CacheRow) /\ Len(array[current]) \in Nat
      /\ DOMAIN array[current] = 1..Len(array[current])
  BY DEF RowsInv, TypeOK
<1>2. CASE i <= Len(array[current])
  <2>1. /\ pc' = [pc EXCEPT ![s] = "count"] /\ ref' = [ref EXCEPT ![s] = current]
        /\ index' = [index EXCEPT ![s] = i]
        /\ row' = [row EXCEPT ![s] = array[current][i]]
        /\ table' = [table EXCEPT ![s] = "day"] /\ UNCHANGED memory
    BY <1>2 DEF Take
  <2>2. /\ pc'[s] = "count" /\ ref'[s] = current /\ index'[s] = i
        /\ row'[s] = array[current][i] /\ table'[s] = "day"
    BY <2>1 DEF RowsInv, TypeOK
  <2>3. Running' = {s}
    BY <2>1 DEF RowsInv, TypeOK, Running
  <2>4. i \in DOMAIN array[current]
    BY <1>1, <1>2
  <2> QED
    BY <2>1, <2>2, <2>3, <2>4
<1>3. CASE ~(i <= Len(array[current]))
  <2> DEFINE held == {ref[o] : o \in Running \ {s}}
  <2>1. /\ pc' = [pc EXCEPT ![s] = "idle"]
        /\ current' = CHOOSE new \in Ref : new \notin held
        /\ array' = [b \in Ref |-> IF b \in held THEN array[b] ELSE <<>>]
    BY <1>3 DEF Take
  <2>2. held = {}
    OBVIOUS
  <2> HIDE DEF held
  <2>7. i \notin DOMAIN array[current]
    BY <1>1, <1>3
  <2>3. 0 \in Ref
    BY SyncAssumption, FS_CardinalityType DEF Ref
  <2>4. current' \in Ref
    BY <2>1, <2>2, <2>3
  <2>5. array' = [a \in Ref |-> <<>>]
    BY <2>1, <2>2
  <2>6. Running' = {}
    BY <2>1 DEF RowsInv, TypeOK, Running
  <2> QED
    BY <2>4, <2>5, <2>6, <2>7
<1> QED
  BY <1>2, <1>3

\* Which is what a timer's start does, and the end of a row.
LEMMA TakeCases ==
  ASSUME RowsInv, SerialInv, ~overlapped', NEW s \in Sync, StartSync(s) \/ NextRow(s)
  PROVE  /\ ~overlapped /\ Running \subseteq {s} /\ \A o \in Running : pc[o] = "next"
         /\ UNCHANGED <<now, stored, pruning, left, received, calm>>
         /\ \E i \in Nat \ {0} :
              /\ Take(s, current, i)
              /\ \A j \in Nat \ {0} : (\A o \in Running : index[o] < j) <=> j >= i
<1>1. CASE StartSync(s)
  <2>1. ~overlapped /\ Running = {}
    BY <1>1 DEF StartSync, RowsInv, TypeOK
  <2>2. \A j \in Nat \ {0} : (\A o \in Running : index[o] < j) <=> j >= 1
    BY <2>1
  <2>3. Take(s, current, 1)
    BY <1>1 DEF StartSync
  <2>4. UNCHANGED <<now, stored, pruning, left, received, calm>>
    BY <1>1 DEF StartSync
  <2> QED
    BY <2>1, <2>2, <2>3, <2>4
<1>2. CASE NextRow(s)
  <2>1. ~overlapped /\ s \in Running
    BY <1>2 DEF NextRow, Running
  <2>2. Running = {s} /\ ref[s] = current
    BY <2>1 DEF SerialInv, InPlace
  <2>3. index[s] \in Nat
    BY DEF RowsInv, TypeOK
  <2>4. \A j \in Nat \ {0} : (\A o \in Running : index[o] < j) <=> j >= index[s] + 1
    BY <2>2, <2>3
  <2>5. index[s] + 1 \in Nat \ {0}
    BY <2>3
  <2>6. Take(s, current, index[s] + 1) /\ pc[s] = "next"
    BY <1>2, <2>2 DEF NextRow
  <2>7. UNCHANGED <<now, stored, pruning, left, received, calm>>
    BY <1>2 DEF NextRow
  <2> QED
    BY <2>1, <2>2, <2>4, <2>5, <2>6, <2>7
<1> QED
  BY <1>1, <1>2

------------------------------------------------------------------------------
(* One row per subject and hour.                                           *)

\* A hit of a row that is there makes no other.
LEMMA DistinctAdd ==
  ASSUME RowsInv, DistinctRows, NEW subject \in Subject, NEW hour \in Hour,
         Add(subject, hour)
  PROVE  DistinctRows'
<1> DEFINE rows == array[current]
           new == Counted(rows, subject, hour)
           k == [subject |-> subject, bucket |-> hour]
<1>1. rows \in Seq(CacheRow) /\ current \in Ref
  BY DEF RowsInv, TypeOK
<1>2. \A a \in Ref : array'[a] = IF a = current THEN new ELSE array[a]
  BY <1>1 DEF Add, RowsInv, TypeOK
<1>3. /\ \A i \in DOMAIN rows :
           new[i].subject = rows[i].subject /\ new[i].hour = rows[i].hour
      /\ \A i \in DOMAIN new \ DOMAIN rows :
           /\ i = Len(rows) + 1 /\ IsOf(k, new[i])
           /\ \A j \in DOMAIN rows : ~IsOf(k, rows[j])
  BY <1>1, CountedRow
<1>4. \A i, j \in DOMAIN rows : rows[i].subject = rows[j].subject /\ rows[i].hour = rows[j].hour
        => i = j
  BY <1>1 DEF DistinctRows
<1> HIDE DEF rows, new, k
<1>5. ASSUME NEW i \in DOMAIN new, NEW j \in DOMAIN new,
             new[i].subject = new[j].subject, new[i].hour = new[j].hour
      PROVE  i = j
  BY <1>3, <1>4, <1>5 DEF IsOf
<1> QED
  BY <1>2, <1>5 DEF DistinctRows

\* Arrays are added to or emptied.
LEMMA DistinctStep ==
  ASSUME RowsInv, DistinctRows, [Next]_vars
  PROVE  DistinctRows'
<1>1. ASSUME \A a \in Ref : array'[a] = array[a] \/ array'[a] = <<>>
      PROVE  DistinctRows'
  BY <1>1 DEF DistinctRows
<1>2. ASSUME NEW s \in Sync, NEW a, NEW i, Take(s, a, i) PROVE DistinctRows'
  <2> DEFINE held == {ref[o] : o \in Running \ {s}}
  <2>1. \/ array' = array
        \/ array' = [b \in Ref |-> IF b \in held THEN array[b] ELSE <<>>]
    BY <1>2 DEF Take
  <2> HIDE DEF held
  <2> QED
    BY <1>1, <2>1
<1>3. ASSUME NEW s \in Sync, StartSync(s) \/ NextRow(s) PROVE DistinctRows'
  BY <1>2, <1>3 DEF StartSync, NextRow
<1>4. CASE Crash
  BY <1>1, <1>4 DEF Crash
<1>5. CASE UNCHANGED array
  BY <1>1, <1>5
<1>6. ASSUME NEW s \in Sync, Count(s) \/ Write(s) PROVE UNCHANGED array
  BY <1>6 DEF Count, Write
<1>7. ASSUME Tick \/ PruneDays \/ PruneHours PROVE UNCHANGED array
  BY <1>7 DEF Tick, PruneDays, PruneHours
<1> QED
  BY <1>3, <1>4, <1>5, <1>6, <1>7, DistinctAdd DEF Next

\* The limit of a deletion is past, and more so later.
LEMMA PruningStep ==
  ASSUME RowsInv, PruningPast, [Next]_vars
  PROVE  PruningPast'
<1>1. now \in Nat /\ pruning \in Int /\ Retention \in Nat
  BY BoundAssumption DEF RowsInv, TypeOK, Hour, NotPruning
<1>2. CASE UNCHANGED <<now, pruning>>
  BY <1>2 DEF PruningPast
<1>3. CASE Tick
  BY <1>1, <1>3 DEF Tick, PruningPast
<1>4. CASE PruneDays
  BY <1>1, <1>4 DEF PruneDays, PruningPast
<1>5. CASE PruneHours \/ Crash
  BY <1>1, <1>5 DEF PruneHours, Crash, PruningPast
<1>6. ASSUME NEW subject \in Subject, NEW hour \in Hour, Add(subject, hour)
      PROVE  PruningPast'
  BY <1>2, <1>6 DEF Add
<1>7. ASSUME NEW s \in Sync, StartSync(s) \/ NextRow(s) \/ Count(s) \/ Write(s)
      PROVE  UNCHANGED <<now, pruning>>
  BY <1>7 DEF StartSync, NextRow, Count, Write
<1> QED
  BY <1>2, <1>3, <1>4, <1>5, <1>6, <1>7 DEF Next

------------------------------------------------------------------------------
(* The loop that nothing overlaps has its place, and its count holds.      *)

\* A later hour is of no earlier day.
LEMMA DayGrows == \A a, b \in Nat : a <= b => Day(a) \in Nat /\ Day(a) <= Day(b)
  BY BoundAssumption DEF Day

\* What is kept later is kept now.
LEMMA KeptBefore ==
  ASSUME now \in Nat /\ now' \in Nat /\ now <= now', NEW bucket \in Nat
  PROVE  /\ KeptDay(bucket)' => KeptDay(bucket)
         /\ Retained(bucket)' => Retained(bucket)
         /\ \A t \in Table : Kept(t, bucket)' => Kept(t, bucket)
<1>1. \A a, b \in Nat : a <= b =>
        /\ bucket > b - Retention => bucket > a - Retention
        /\ LET first(hour) == IF hour >= Retention THEN hour - Retention ELSE 0
           IN  first(a) \in Nat /\ first(b) \in Nat /\ first(a) <= first(b)
  BY BoundAssumption
<1>2. \A a, b \in Nat : a <= b =>
        LET first(hour) == IF hour >= Retention THEN hour - Retention ELSE 0
        IN  bucket >= Day(first(b)) => bucket >= Day(first(a))
  <2> SUFFICES ASSUME NEW a \in Nat, NEW b \in Nat, a <= b
               PROVE  LET first(hour) == IF hour >= Retention THEN hour - Retention ELSE 0
                      IN  bucket >= Day(first(b)) => bucket >= Day(first(a))
    OBVIOUS
  <2> DEFINE first(hour) == IF hour >= Retention THEN hour - Retention ELSE 0
  <2>1. first(a) \in Nat /\ first(b) \in Nat /\ first(a) <= first(b)
    BY <1>1
  <2> HIDE DEF first
  <2>2. Day(first(a)) \in Nat /\ Day(first(b)) \in Nat /\ Day(first(a)) <= Day(first(b))
    BY <2>1, DayGrows
  <2>3. bucket >= Day(first(b)) => bucket >= Day(first(a))
    BY <2>2
  <2> QED
    BY <2>3 DEF first
<1>3. Retained(bucket)' => Retained(bucket)
  BY <1>1 DEF Retained
<1>4. KeptDay(bucket)' => KeptDay(bucket)
  BY <1>2 DEF KeptDay, Day
<1> QED
  BY <1>3, <1>4 DEF Kept

\* The next row is where the loop is, and was not counted yet.
LEMMA SerialTake ==
  ASSUME RowsInv, SerialInv, NEW s \in Sync, StartSync(s) \/ NextRow(s)
  PROVE  SerialInv'
<1> SUFFICES ASSUME ~overlapped' PROVE InPlace' /\ CountHolds' /\ OneRowEach'
  BY DEF SerialInv
<1>1. ~overlapped /\ Running \subseteq {s} /\ UNCHANGED <<now, stored>>
  BY TakeCases
<1>2. PICK i \in Nat \ {0} : Take(s, current, i)
  BY TakeCases
<1>3. OneRowEach'
  BY <1>1 DEF SerialInv, OneRowEach
<1>4. CASE /\ i \in DOMAIN array[current] /\ Running' = {s}
           /\ pc'[s] = "count" /\ ref'[s] = current /\ index'[s] = i
           /\ row'[s] = array[current][i]
           /\ array' = array /\ current' = current
  <2>1. InPlace'
    BY <1>4 DEF InPlace
  <2>2. CountHolds'
    BY <1>4 DEF CountHolds
  <2> QED
    BY <1>3, <2>1, <2>2
<1>5. CASE Running' = {}
  BY <1>3, <1>5 DEF InPlace, CountHolds
<1> QED
  BY <1>1, <1>2, <1>4, <1>5, TakeSteps

\* A hit moves no row.
LEMMA SerialAdd ==
  ASSUME RowsInv, SerialInv, NEW subject \in Subject, NEW hour \in Hour, Add(subject, hour)
  PROVE  SerialInv'
<1> SUFFICES ASSUME ~overlapped' PROVE InPlace' /\ CountHolds' /\ OneRowEach'
  BY DEF SerialInv
<1> DEFINE rows == array[current]
           new == Counted(rows, subject, hour)
<1>1. /\ ~overlapped /\ UNCHANGED <<now, current, loops, stored, pruning>>
      /\ array' = [array EXCEPT ![current] = new]
  BY DEF Add
<1>2. rows \in Seq(CacheRow) /\ current \in Ref /\ array'[current] = new
  BY <1>1 DEF RowsInv, TypeOK
<1>3. /\ DOMAIN rows \subseteq DOMAIN new
      /\ \A i \in DOMAIN rows :
           new[i].subject = rows[i].subject /\ new[i].hour = rows[i].hour
  <2> DEFINE k == [subject |-> subject, bucket |-> hour]
  <2>1. /\ DOMAIN rows \subseteq DOMAIN new
        /\ \A i \in DOMAIN rows :
             /\ new[i].subject = rows[i].subject /\ new[i].hour = rows[i].hour
             /\ new[i].hits = IF IsOf(k, rows[i]) THEN rows[i].hits + 1
                              ELSE rows[i].hits
    BY <1>2, CountedRow
  <2> HIDE DEF new, rows
  <2> QED
    BY <2>1
<1> HIDE DEF new
<1>4. InPlace'
  BY <1>1, <1>2, <1>3 DEF SerialInv, InPlace, Running
<1>5. CountHolds'
  BY <1>1 DEF SerialInv, CountHolds, Running, Kept, KeptDay, Retained
<1>6. OneRowEach'
  BY <1>1 DEF SerialInv, OneRowEach
<1> QED
  BY <1>4, <1>5, <1>6

\* The count is what is stored.
LEMMA SerialCount ==
  ASSUME RowsInv, SerialInv, NEW s \in Sync, Count(s)
  PROVE  SerialInv'
<1> SUFFICES ASSUME ~overlapped' PROVE InPlace' /\ CountHolds' /\ OneRowEach'
  BY DEF SerialInv
<1>1. /\ ~overlapped /\ pc[s] = "count" /\ pc' = [pc EXCEPT ![s] = "write"]
      /\ found' = [found EXCEPT ![s] = stored[table[s]][KeyOf(table[s], row[s])] # <<>>]
      /\ UNCHANGED <<now, memory, ref, index, row, table, stored>>
  BY DEF Count
<1>2. Running' = Running /\ s \in Running
  BY <1>1 DEF Running, RowsInv, TypeOK
<1>3. InPlace'
  BY <1>1, <1>2 DEF SerialInv, InPlace
<1>4. \A o \in Running : o = s
  BY <1>1, <1>2 DEF SerialInv, InPlace
<1>5. found'[s] <=> stored[table[s]][KeyOf(table[s], row[s])] # <<>>
  BY <1>1 DEF RowsInv, TypeOK
<1>6. CountHolds'
  BY <1>1, <1>2, <1>4, <1>5 DEF CountHolds
<1>7. OneRowEach'
  BY <1>1 DEF SerialInv, OneRowEach
<1> QED
  BY <1>3, <1>6, <1>7

\* What a store that nothing overlaps writes.
LEMMA WriteSteps ==
  ASSUME RowsInv, SerialInv, ~overlapped, NEW s \in Sync, Write(s),
         NEW t, t = table[s], NEW k, k = KeyOf(t, row[s])
  PROVE  /\ t \in Table /\ k \in RowKey /\ row[s] \in CacheRow
         /\ Running = {s} /\ Running' = {s} /\ pc[s] = "write"
         /\ pc'[s] = (IF t = "day" THEN "count" ELSE "next") /\ table'[s] = "hour"
         /\ UNCHANGED <<now, memory, ref, index, row, pruning, left, history>>
         /\ \A u \in Table, j \in RowKey :
              u # t \/ j # k => stored'[u][j] = stored[u][j]
         /\ stored'[t][k] \in Seq(Nat \ {0}) /\ Len(stored'[t][k]) <= 1
         /\ Stored(t, k) \in Nat /\ Stored(t, k)' \in Nat
         /\ Stored(t, k)' <= Stored(t, k) + row[s].hits
         /\ Kept(t, k.bucket) => Stored(t, k)' = Stored(t, k) + row[s].hits
<1> DEFINE rows == stored[t][k]
           new == Upserted(rows, s)
<1>1. /\ pc[s] = "write"
      /\ stored' = [stored EXCEPT ![t][k] = Upserted(@, s)]
      /\ pc' = [pc EXCEPT ![s] = IF t = "day" THEN "count" ELSE "next"]
      /\ table' = [table EXCEPT ![s] = "hour"]
      /\ UNCHANGED <<now, memory, ref, index, row, pruning, left, history>>
  BY DEF Write
<1>2. row[s] \in CacheRow /\ t \in Table /\ s \in Running
  BY <1>1 DEF RowsInv, TypeOK, TakenRows, Running
<1>3. k \in RowKey
  BY <1>2, KeyType
<1>4. Running = {s}
  BY <1>2 DEF SerialInv, InPlace
<1>5. Running' = {s}
  <2>1. \A o \in Sync : pc'[o] # "idle" <=> pc[o] # "idle"
    BY <1>1 DEF RowsInv, TypeOK
  <2> QED
    BY <1>4, <2>1 DEF Running
<1>6. pc'[s] = (IF t = "day" THEN "count" ELSE "next") /\ table'[s] = "hour"
  BY <1>1 DEF RowsInv, TypeOK
<1>7. rows \in Seq(Nat \ {0}) /\ Len(rows) <= 1
  BY <1>2, <1>3 DEF RowsInv, TypeOK, SerialInv, OneRowEach
<1>8. IF found[s] THEN Kept(t, k.bucket) => rows # <<>> ELSE rows = <<>>
  BY <1>1, <1>2 DEF SerialInv, CountHolds
<1>9. stored'[t][k] = new
  BY <1>1, <1>2, <1>3 DEF RowsInv, TypeOK
<1>10. \A u \in Table, j \in RowKey : u # t \/ j # k => stored'[u][j] = stored[u][j]
  BY <1>1, <1>2, <1>3 DEF RowsInv, TypeOK
<1>11. row[s].hits \in Nat
  BY <1>2 DEF CacheRow
<1>12. Stored(t, k) = SumFunction(rows) /\ Stored(t, k)' = SumFunction(new)
  BY <1>9 DEF Stored
<1> HIDE DEF rows
<1>13. /\ new \in Seq(Nat \ {0}) /\ Len(new) <= 1
       /\ found[s] /\ rows = <<>> => new = <<>>
       /\ (found[s] => rows # <<>>) => SumFunction(new) = SumFunction(rows) + row[s].hits
  BY <1>2, <1>7, <1>8, UpsertedSum
<1> HIDE DEF new
<1>14. SumFunction(rows) \in Nat /\ (rows = <<>> => SumFunction(rows) = 0)
  BY <1>7, RowsSum
<1>15. SumFunction(new) \in Nat /\ (new = <<>> => SumFunction(new) = 0)
  BY <1>13, RowsSum
<1>16. /\ Stored(t, k)' <= Stored(t, k) + row[s].hits
       /\ Kept(t, k.bucket) => Stored(t, k)' = Stored(t, k) + row[s].hits
  BY <1>8, <1>11, <1>12, <1>13, <1>14, <1>15
<1> QED
  BY <1>1, <1>2, <1>3, <1>4, <1>5, <1>6, <1>9, <1>10, <1>12, <1>13, <1>14, <1>15, <1>16

\* What was counted is written.
LEMMA SerialWrite ==
  ASSUME RowsInv, SerialInv, NEW s \in Sync, Write(s)
  PROVE  SerialInv'
<1> SUFFICES ASSUME ~overlapped' PROVE InPlace' /\ CountHolds' /\ OneRowEach'
  BY DEF SerialInv
<1>1. ~overlapped
  BY DEF Write
<1>2. PICK t : t = table[s]
  OBVIOUS
<1>3. PICK k : k = KeyOf(t, row[s])
  OBVIOUS
<1>4. /\ Running = {s} /\ Running' = {s}
      /\ pc'[s] # "write" /\ UNCHANGED <<memory, ref, index, row>>
      /\ \A u \in Table, j \in RowKey : u # t \/ j # k => stored'[u][j] = stored[u][j]
      /\ Len(stored'[t][k]) <= 1
  BY <1>1, <1>2, <1>3, WriteSteps
<1>5. InPlace'
  BY <1>1, <1>4 DEF SerialInv, InPlace
<1>6. CountHolds'
  BY <1>4 DEF CountHolds
<1>7. OneRowEach'
  BY <1>1, <1>4 DEF SerialInv, OneRowEach
<1> QED
  BY <1>5, <1>6, <1>7

\* What is deleted is not kept.
LEMMA DeleteSteps ==
  ASSUME RowsInv, PruningPast, PruneDays \/ PruneHours
  PROVE  /\ UNCHANGED <<now, memory, loops, left, history>>
         /\ \A t \in Table, k \in RowKey :
              /\ stored'[t][k] = stored[t][k] \/ stored'[t][k] = <<>>
              /\ Kept(t, k.bucket) => stored'[t][k] = stored[t][k]
              /\ Stored(t, k) \in Nat /\ Stored(t, k)' \in Nat
              /\ Stored(t, k)' <= Stored(t, k)
              /\ Kept(t, k.bucket) => Stored(t, k)' = Stored(t, k)
         /\ PruneHours => \A k \in RowKey : stored'["day"][k] = stored["day"][k]
<1>1. UNCHANGED <<now, memory, loops, left, history>>
  BY DEF PruneDays, PruneHours
<1>2. now \in Nat /\ pruning \in Int /\ Retention \in Nat /\ \A k \in RowKey : k.bucket \in Nat
  BY BoundAssumption DEF RowsInv, TypeOK, Hour, NotPruning, RowKey
<1>3. /\ \A t \in Table, k \in RowKey :
           /\ stored'[t][k] = stored[t][k] \/ stored'[t][k] = <<>>
           /\ Kept(t, k.bucket) => stored'[t][k] = stored[t][k]
      /\ PruneHours => \A k \in RowKey : stored'["day"][k] = stored["day"][k]
  <2>1. ASSUME NEW b, NEW u \in Table, DeleteBelow(u, b)
        PROVE  \A t \in Table, k \in RowKey :
                 stored'[t][k] = IF t = u /\ k.bucket < b THEN <<>> ELSE stored[t][k]
    BY <2>1 DEF DeleteBelow, RowsInv, TypeOK
  <2>2. CASE PruneDays
    <3>1. now >= Retention /\ DeleteBelow("day", Day(now - Retention)) /\ pruning = NotPruning
      BY <2>2 DEF PruneDays
    <3>2. \A t \in Table, k \in RowKey :
            stored'[t][k] = IF t = "day" /\ k.bucket < Day(now - Retention) THEN <<>>
                            ELSE stored[t][k]
      BY <2>1, <3>1 DEF Table
    <3>3. \A k \in RowKey : Kept("day", k.bucket) <=> k.bucket >= Day(now - Retention)
      BY <3>1 DEF Kept, KeptDay
    <3>4. now - Retention \in Nat
      BY <1>2, <3>1
    <3>5. Day(now - Retention) \in Nat
      BY <3>4, DayGrows
    <3>6. ~PruneHours
      BY <3>1 DEF PruneHours
    <3> QED
      BY <1>2, <3>2, <3>3, <3>5, <3>6
  <2>3. CASE PruneHours
    <3>1. PICK limit \in {pruning, pruning + 1} : DeleteBelow("hour", limit)
      BY <2>3 DEF PruneHours
    <3>2. pruning <= now - Retention
      BY <2>3 DEF PruneHours, PruningPast
    <3>3. \A t \in Table, k \in RowKey :
            stored'[t][k] = IF t = "hour" /\ k.bucket < limit THEN <<>> ELSE stored[t][k]
      BY <2>1, <3>1 DEF Table
    <3>4. \A k \in RowKey : Kept("hour", k.bucket) => ~(k.bucket < limit)
      BY <1>2, <3>1, <3>2 DEF Kept, Retained
    <3> QED
      BY <3>3, <3>4 DEF Table
  <2> QED
    BY <2>2, <2>3
<1>4. ASSUME NEW t \in Table, NEW k \in RowKey
      PROVE  /\ Stored(t, k) \in Nat /\ Stored(t, k)' \in Nat
             /\ Stored(t, k)' <= Stored(t, k)
             /\ Kept(t, k.bucket) => Stored(t, k)' = Stored(t, k)
  <2>1. Stored(t, k) = SumFunction(stored[t][k]) /\ Stored(t, k)' = SumFunction(stored'[t][k])
    BY DEF Stored
  <2>2. stored[t][k] \in Seq(Nat \ {0})
    BY DEF RowsInv, TypeOK
  <2>3. Stored(t, k) \in Nat
    BY <2>1, <2>2, RowsSum
  <2>4. <<>> \in Seq(Nat \ {0}) /\ <<>> = <<>>
    OBVIOUS
  <2>5. stored'[t][k] = <<>> => Stored(t, k)' = 0
    BY <2>1, <2>4, RowsSum
  <2>6. stored'[t][k] = stored[t][k] => Stored(t, k)' = Stored(t, k)
    BY <2>1
  <2> QED
    BY <1>3, <2>3, <2>5, <2>6
<1> QED
  BY <1>1, <1>3, <1>4

\* What is counted as stored is deleted only when it is not kept.
LEMMA SerialPrune ==
  ASSUME RowsInv, PruningPast, SerialInv, PruneDays \/ PruneHours
  PROVE  SerialInv'
<1> SUFFICES ASSUME ~overlapped' PROVE InPlace' /\ CountHolds' /\ OneRowEach'
  BY DEF SerialInv
<1>1. UNCHANGED <<now, memory, loops, left, history>>
  BY DeleteSteps
<1>2. InPlace /\ CountHolds /\ OneRowEach /\ Running' = Running
  BY <1>1 DEF SerialInv, Running
<1>3. InPlace'
  BY <1>1, <1>2 DEF InPlace
<1>4. \A t \in Table, k \in RowKey :
        /\ stored'[t][k] = stored[t][k] \/ stored'[t][k] = <<>>
        /\ Kept(t, k.bucket) => stored'[t][k] = stored[t][k]
  BY DeleteSteps
<1>5. \A t, b : Kept(t, b)' <=> Kept(t, b)
  BY <1>1 DEF Kept, KeptDay, Retained, Day
<1>6. CountHolds'
  <2> SUFFICES ASSUME NEW s \in Running, pc[s] = "write"
               PROVE  LET k == KeyOf(table[s], row[s])
                      IN  IF found[s]
                          THEN Kept(table[s], k.bucket) => stored'[table[s]][k] # <<>>
                          ELSE stored'[table[s]][k] = <<>>
    BY <1>1, <1>2, <1>5 DEF CountHolds, KeyOf, Day
  <2> DEFINE k == KeyOf(table[s], row[s])
  <2>1. table[s] \in Table /\ row[s] \in CacheRow
    BY DEF RowsInv, TypeOK, TakenRows, Running
  <2>2. k \in RowKey
    BY <2>1, KeyType
  <2>3. IF found[s] THEN Kept(table[s], k.bucket) => stored[table[s]][k] # <<>>
        ELSE stored[table[s]][k] = <<>>
    BY <1>2 DEF CountHolds
  <2> HIDE DEF k
  <2>4. /\ stored'[table[s]][k] = stored[table[s]][k] \/ stored'[table[s]][k] = <<>>
        /\ Kept(table[s], k.bucket) => stored'[table[s]][k] = stored[table[s]][k]
    BY <1>4, <2>1, <2>2
  <2>5. IF found[s] THEN Kept(table[s], k.bucket) => stored'[table[s]][k] # <<>>
        ELSE stored'[table[s]][k] = <<>>
    BY <2>3, <2>4
  <2> QED
    BY <2>5 DEF k
<1>7. OneRowEach'
  <2>1. Len(<<>>) <= 1
    OBVIOUS
  <2> QED
    BY <1>2, <1>4, <2>1 DEF OneRowEach
<1> QED
  BY <1>3, <1>6, <1>7

\* A loop that nothing overlaps stays in its place.
LEMMA SerialStep ==
  ASSUME RowsInv, RowsInv', PruningPast, SerialInv, [Next]_vars
  PROVE  SerialInv'
<1>1. CASE UNCHANGED vars
  BY <1>1 DEF SerialInv, InPlace, CountHolds, OneRowEach, Running, Kept, KeptDay, Retained, Day,
              KeyOf
<1>2. CASE Tick
  <2> SUFFICES ASSUME ~overlapped' PROVE InPlace' /\ CountHolds' /\ OneRowEach'
    BY DEF SerialInv
  <2>1. now \in Nat /\ now' \in Nat /\ now <= now' /\ UNCHANGED <<memory, loops, stored, history>>
    BY <1>2, BoundAssumption DEF Tick, RowsInv, TypeOK, Hour
  <2>2. InPlace /\ CountHolds /\ OneRowEach /\ Running' = Running
    BY <2>1 DEF SerialInv, Running
  <2>3. InPlace' /\ OneRowEach'
    BY <2>1, <2>2 DEF InPlace, OneRowEach
  <2>4. \A b \in Nat : \A t \in Table : Kept(t, b)' => Kept(t, b)
    BY <2>1, KeptBefore
  <2>5. \A s \in Running : table[s] \in Table /\ KeyOf(table[s], row[s]) \in RowKey
    BY KeyType DEF RowsInv, TypeOK, TakenRows, Running
  <2>6. \A k \in RowKey : k.bucket \in Nat
    BY DEF RowKey, Hour
  <2>7. \A t, r : KeyOf(t, r)' = KeyOf(t, r)
    BY DEF KeyOf, Day
  <2>8. CountHolds'
    BY <2>1, <2>2, <2>4, <2>5, <2>6, <2>7 DEF CountHolds
  <2> QED
    BY <2>3, <2>8
<1>3. CASE Crash
  <2>1. Running' = {} /\ stored' = stored /\ overlapped' = overlapped
    BY <1>3 DEF Crash, Running
  <2> QED
    BY <2>1 DEF SerialInv, InPlace, CountHolds, OneRowEach
<1> QED
  BY <1>1, <1>2, <1>3, SerialTake, SerialAdd, SerialCount, SerialWrite, SerialPrune DEF Next

------------------------------------------------------------------------------
(* What came in is stored, in hand or ahead.                               *)

\* Counts are numbers.
LEMMA CountsType ==
  ASSUME RowsInv, NEW k \in RowKey
  PROVE  /\ calm[k] \in Nat /\ received[k] \in Nat /\ Stored("hour", k) \in Nat
         /\ \A i \in DOMAIN array[current] : array[current][i].hits \in Nat
         /\ \A s \in Running : row[s].hits \in Nat
<1>1. stored["hour"][k] \in Seq(Nat \ {0})
  BY DEF RowsInv, TypeOK, Table
<1>2. Stored("hour", k) \in Nat
  BY <1>1, RowsSum DEF Stored
<1>3. \A i \in DOMAIN array[current] : array[current][i] \in CacheRow
  BY DEF RowsInv, TypeOK
<1>4. \A s \in Running : row[s] \in CacheRow
  BY DEF RowsInv, TakenRows, Running
<1> QED
  BY <1>2, <1>3, <1>4 DEF CacheRow, RowsInv, TypeOK

\* A row is of one key.
LEMMA OneKey ==
  ASSUME NEW k \in RowKey, NEW j \in RowKey, NEW r, IsOf(k, r), IsOf(j, r)
  PROVE  k = j
<1>1. k.subject = j.subject /\ k.bucket = j.bucket
  BY DEF IsOf
<1>2. \A i \in RowKey : i = [subject |-> i.subject, bucket |-> i.bucket]
  BY DEF RowKey
<1> QED
  BY <1>1, <1>2

\* A row that was ahead is in hand; at the end none is ahead.
LEMMA AccountTake ==
  ASSUME RowsInv, SerialInv, AccountInv, NEW s \in Sync, StartSync(s) \/ NextRow(s)
  PROVE  AccountInv'
<1> SUFFICES ASSUME ~overlapped', NEW k \in RowKey, Retained(k.bucket)'
             PROVE  AccountsFor(k)'
  BY DEF AccountInv
<1>1. /\ ~overlapped /\ Running \subseteq {s} /\ \A o \in Running : pc[o] = "next"
      /\ UNCHANGED <<now, stored, received, calm>>
  BY TakeCases
<1>2. AccountsFor(k)
  BY <1>1 DEF AccountInv, Retained
<1>3. \A n : Accounts(k, n)' <=> Accounts(k, n)
  BY <1>1 DEF Accounts, Stored
<1>4. PICK i \in Nat \ {0} :
        /\ Take(s, current, i)
        /\ \A j \in Nat \ {0} : (\A o \in Running : index[o] < j) <=> j >= i
  BY TakeCases
<1>5. \A o \in Sync : ~InHand(o, k)
  BY <1>1 DEF InHand
<1>6. DOMAIN array[current] \subseteq Nat \ {0}
  BY DEF RowsInv, TypeOK
<1>7. \A j \in DOMAIN array[current] : Ahead(j, k) <=> IsOf(k, array[current][j]) /\ j >= i
  BY <1>4, <1>6 DEF Ahead
<1>8. CASE /\ i \in DOMAIN array[current] /\ Running' = {s}
           /\ pc'[s] = "count" /\ index'[s] = i
           /\ row'[s] = array[current][i]
           /\ array' = array /\ current' = current
  <2>1. \A o \in Sync : InHand(o, k)' <=> o = s /\ IsOf(k, array[current][i])
    BY <1>8 DEF InHand, IsOf
  <2>2. \A j \in DOMAIN array[current] :
          Ahead(j, k)' <=> IsOf(k, array[current][j]) /\ j > i
    BY <1>6, <1>8 DEF Ahead, IsOf
  <2>3. IsOf(k, array[current][i]) => Ahead(i, k)
    BY <1>7, <1>8
  <2>4. \A j \in DOMAIN array[current] : Ahead(j, k)' => Ahead(j, k)
    BY <1>6, <1>7, <2>2
  <2>5. ASSUME ~IsOf(k, array[current][i]), NEW j \in DOMAIN array[current], ~Ahead(j, k)'
        PROVE  ~Ahead(j, k)
    BY <1>6, <1>7, <2>2, <2>5
  <2>6. \A o \in Sync : InHand(o, k)' => Accounts(k, row[o].hits)'
    <3>1. \A o \in Sync : InHand(o, k)' => Accounts(k, array[current][i].hits)
      BY <1>2, <1>8, <2>1, <2>3 DEF AccountsFor
    <3>2. \A o \in Sync : InHand(o, k)' => Accounts(k, row'[o].hits)
      BY <1>8, <2>1, <3>1
    <3> QED
      BY <1>1, <3>2 DEF Accounts, Stored
  <2>7. \A j \in DOMAIN array'[current'] : Ahead(j, k)' => Accounts(k, array[current][j].hits)'
    <3>1. \A j \in DOMAIN array[current] : Ahead(j, k)' => Accounts(k, array[current][j].hits)
      BY <1>2, <2>4 DEF AccountsFor
    <3> QED
      BY <1>1, <1>8, <3>1 DEF Accounts, Stored
  <2>8. (\A o \in Sync : ~InHand(o, k)') /\ (\A j \in DOMAIN array'[current'] : ~Ahead(j, k)')
          => Accounts(k, 0)'
    <3> SUFFICES ASSUME \A o \in Sync : ~InHand(o, k)',
                        \A j \in DOMAIN array[current] : ~Ahead(j, k)'
                 PROVE  Accounts(k, 0)'
      BY <1>8
    <3>1. ~IsOf(k, array[current][i])
      BY <2>1
    <3>2. \A j \in DOMAIN array[current] : ~Ahead(j, k)
      BY <2>5, <3>1
    <3> QED
      BY <1>2, <1>3, <1>5, <3>2 DEF AccountsFor
  <2> QED
    BY <2>6, <2>7, <2>8 DEF AccountsFor
<1>9. CASE /\ i \notin DOMAIN array[current] /\ Running' = {}
           /\ current' \in Ref /\ array' = [a \in Ref |-> <<>>]
  <2>1. \A j \in DOMAIN array[current] : ~Ahead(j, k)
    <3>1. \A j \in DOMAIN array[current] : j < i
      BY <1>9 DEF RowsInv, TypeOK
    <3> QED
      BY <1>6, <1>7, <3>1
  <2>2. Accounts(k, 0)'
    BY <1>2, <1>3, <1>5, <2>1 DEF AccountsFor
  <2>3. array'[current'] = <<>> /\ DOMAIN <<>> = {}
    BY <1>9
  <2>4. \A o \in Sync : ~InHand(o, k)'
    BY <1>9 DEF InHand
  <2> QED
    BY <2>2, <2>3, <2>4 DEF AccountsFor
<1> QED
  BY <1>1, <1>4, <1>8, <1>9, TakeSteps

\* A hit is ahead, or nobody promises it.
LEMMA AccountAdd ==
  ASSUME RowsInv, SerialInv, AccountInv, NEW subject \in Subject, NEW hour \in Hour,
         Add(subject, hour)
  PROVE  AccountInv'
<1> SUFFICES ASSUME ~overlapped', NEW k \in RowKey, Retained(k.bucket)'
             PROVE  AccountsFor(k)'
  BY DEF AccountInv
<1> DEFINE rows == array[current]
           new == Counted(rows, subject, hour)
           hit == [subject |-> subject, bucket |-> hour]
<1>1. /\ ~overlapped /\ UNCHANGED <<now, current, loops, stored>>
      /\ array' = [array EXCEPT ![current] = new]
      /\ received' = [received EXCEPT ![hit] = @ + 1]
      /\ calm' = IF Running = {} THEN [calm EXCEPT ![hit] = @ + 1] ELSE calm
  BY DEF Add
<1>2. AccountsFor(k)
  BY <1>1 DEF AccountInv, Retained
<1>3. hit \in RowKey
  BY DEF RowKey
<1>4. rows \in Seq(CacheRow) /\ array'[current'] = new
  BY <1>1 DEF RowsInv, TypeOK
<1>5. /\ DOMAIN rows \subseteq DOMAIN new
      /\ \A i \in DOMAIN rows :
           /\ new[i].subject = rows[i].subject /\ new[i].hour = rows[i].hour
           /\ new[i].hits = IF IsOf(hit, rows[i]) THEN rows[i].hits + 1 ELSE rows[i].hits
      /\ \A i \in DOMAIN new \ DOMAIN rows :
           /\ IsOf(hit, new[i]) /\ new[i].hits = 1
           /\ \A j \in DOMAIN rows : ~IsOf(hit, rows[j])
      /\ \E i \in DOMAIN new : IsOf(hit, new[i])
  BY <1>4, CountedRow
<1> HIDE DEF new
<1>6. Running' = Running /\ \A s \in Sync : InHand(s, k)' <=> InHand(s, k)
  BY <1>1 DEF Running, InHand, IsOf
<1>7. \A i \in DOMAIN rows : Ahead(i, k)' <=> Ahead(i, k)
  BY <1>1, <1>4, <1>5, <1>6 DEF Ahead, IsOf
<1>8. \A i \in DOMAIN rows : rows[i].hits \in Nat
  BY CountsType
<1>9. /\ calm[k] \in Nat /\ received[k] \in Nat /\ Stored("hour", k) \in Nat
      /\ \A s \in Running : row[s].hits \in Nat
  BY CountsType
<1>10. Stored("hour", k)' = Stored("hour", k)
  BY <1>1 DEF Stored
<1> HIDE DEF rows
<1>11. CASE k # hit
  <2>1. calm'[k] = calm[k] /\ received'[k] = received[k]
    BY <1>1, <1>11 DEF RowsInv, TypeOK
  <2>2. \A n : Accounts(k, n)' <=> Accounts(k, n)
    BY <1>10, <2>1 DEF Accounts
  <2>3. \A i \in DOMAIN new \ DOMAIN rows : ~Ahead(i, k)'
    BY <1>3, <1>4, <1>5, <1>11, OneKey DEF Ahead, IsOf
  <2>4. \A i \in DOMAIN rows : Ahead(i, k) => new[i].hits = rows[i].hits
    BY <1>3, <1>5, <1>11, OneKey DEF Ahead, rows
  <2>5. \A s \in Sync : InHand(s, k)' => Accounts(k, row'[s].hits)
    BY <1>1, <1>2, <1>6 DEF AccountsFor
  <2>6. \A i \in DOMAIN new : Ahead(i, k)' => Accounts(k, new[i].hits)
    BY <1>2, <1>7, <2>3, <2>4 DEF AccountsFor, rows
  <2>7. (\A s \in Sync : ~InHand(s, k)') /\ (\A i \in DOMAIN new : ~Ahead(i, k)')
          => Accounts(k, 0)
    BY <1>2, <1>5, <1>6, <1>7 DEF AccountsFor, rows
  <2> QED
    BY <1>4, <1>10, <2>1, <2>5, <2>6, <2>7 DEF AccountsFor, Accounts
<1>12. CASE k = hit
  <2>1. /\ received'[k] = received[k] + 1
        /\ calm'[k] = IF Running = {} THEN calm[k] + 1 ELSE calm[k]
    BY <1>1, <1>3, <1>12 DEF RowsInv, TypeOK
  <2>2. ASSUME NEW n \in Nat, Accounts(k, n)
        PROVE  /\ Running # {} => /\ calm'[k] <= Stored("hour", k)' + n
                                  /\ Stored("hour", k)' + n <= received'[k]
               /\ calm'[k] <= Stored("hour", k)' + (n + 1)
               /\ Stored("hour", k)' + (n + 1) <= received'[k]
    BY <1>9, <1>10, <2>1, <2>2 DEF Accounts
  <2>3. \A s \in Sync : InHand(s, k)' =>
          /\ calm'[k] <= Stored("hour", k)' + row'[s].hits
          /\ Stored("hour", k)' + row'[s].hits <= received'[k]
    <3> SUFFICES ASSUME NEW s \in Sync, InHand(s, k)
                 PROVE  /\ calm'[k] <= Stored("hour", k)' + row'[s].hits
                        /\ Stored("hour", k)' + row'[s].hits <= received'[k]
      BY <1>6
    <3>1. s \in Running /\ Accounts(k, row[s].hits) /\ row[s].hits \in Nat
      BY <1>2, <1>9 DEF AccountsFor, InHand
    <3>2. row' = row
      BY <1>1
    <3> QED
      BY <2>2, <3>1, <3>2
  <2>4. ASSUME NEW i \in DOMAIN new, Ahead(i, k)'
        PROVE  /\ calm'[k] <= Stored("hour", k)' + new[i].hits
               /\ Stored("hour", k)' + new[i].hits <= received'[k]
    <3>1. CASE i \in DOMAIN rows
      <4>1. Ahead(i, k) /\ Accounts(k, rows[i].hits) /\ rows[i].hits \in Nat
        BY <1>2, <1>7, <1>8, <2>4, <3>1 DEF AccountsFor, rows
      <4>2. new[i].hits = rows[i].hits + 1
        BY <1>5, <1>12, <3>1, <4>1 DEF Ahead, rows
      <4> QED
        BY <2>2, <4>1, <4>2
    <3>2. CASE i \notin DOMAIN rows
      <4>1. new[i].hits = 1 /\ \A j \in DOMAIN rows : ~IsOf(k, rows[j])
        BY <1>5, <1>12, <3>2
      <4>2. \A j \in DOMAIN rows : ~Ahead(j, k)
        BY <4>1 DEF Ahead, rows
      <4>3. \A s \in Sync : ~InHand(s, k)
        BY <1>1, <4>1 DEF InHand, SerialInv, InPlace, IsOf, rows
      <4>4. Accounts(k, 0)
        BY <1>2, <4>2, <4>3 DEF AccountsFor, rows
      <4> QED
        BY <2>2, <4>1, <4>4
    <3> QED
      BY <3>1, <3>2
  <2>5. ASSUME \A s \in Sync : ~InHand(s, k)', \A i \in DOMAIN new : ~Ahead(i, k)'
        PROVE  /\ calm'[k] <= Stored("hour", k)' + 0
               /\ Stored("hour", k)' + 0 <= received'[k]
    <3>1. PICK i \in DOMAIN new : IsOf(k, new[i])
      BY <1>5, <1>12
    <3>2. Running # {}
      BY <1>4, <1>6, <2>5, <3>1 DEF Ahead, IsOf
    <3>3. Accounts(k, 0)
      BY <1>2, <1>5, <1>6, <1>7, <2>5 DEF AccountsFor, rows
    <3> QED
      BY <2>2, <3>2, <3>3
  <2> QED
    BY <1>4, <2>3, <2>4, <2>5 DEF AccountsFor, Accounts
<1> QED
  BY <1>11, <1>12

\* A row that was in hand is stored.
LEMMA AccountWrite ==
  ASSUME RowsInv, SerialInv, DistinctRows, AccountInv, NEW s \in Sync, Write(s)
  PROVE  AccountInv'
<1> SUFFICES ASSUME ~overlapped', NEW k \in RowKey, Retained(k.bucket)'
             PROVE  AccountsFor(k)'
  BY DEF AccountInv
<1>1. ~overlapped
  BY DEF Write
<1>2. PICK t : t = table[s]
  OBVIOUS
<1>3. PICK own : own = KeyOf(t, row[s])
  OBVIOUS
<1>4. /\ t \in Table /\ own \in RowKey /\ row[s] \in CacheRow
      /\ Running = {s} /\ Running' = {s} /\ pc[s] = "write"
      /\ pc'[s] = (IF t = "day" THEN "count" ELSE "next")
      /\ UNCHANGED <<now, array, current, ref, index, row, received, calm, overlapped>>
      /\ \A u \in Table, j \in RowKey : u # t \/ j # own => stored'[u][j] = stored[u][j]
      /\ Stored(t, own) \in Nat
      /\ Kept(t, own.bucket) => Stored(t, own)' = Stored(t, own) + row[s].hits
  BY <1>1, <1>2, <1>3, WriteSteps
<1>5. Retained(k.bucket) /\ AccountsFor(k)
  BY <1>1, <1>4 DEF AccountInv, Retained
<1>6. \A i : Ahead(i, k)' <=> Ahead(i, k)
  BY <1>4 DEF Ahead, IsOf
<1>7. CASE t = "day" \/ own # k
  <2>1. Stored("hour", k)' = Stored("hour", k)
    BY <1>4, <1>7 DEF Stored, Table
  <2>2. IsOf(k, row[s]) => pc'[s] # "next"
    <3> SUFFICES ASSUME IsOf(k, row[s]), t # "day" PROVE FALSE
      BY <1>4
    <3>1. IsOf(own, row[s])
      BY <1>3 DEF KeyOf, IsOf
    <3> QED
      BY <1>4, <1>7, <3>1, OneKey
  <2>3. \A o \in Sync : InHand(o, k)' <=> InHand(o, k)
    BY <1>4, <2>2 DEF InHand, IsOf
  <2>4. \A n : Accounts(k, n)' <=> Accounts(k, n)
    BY <1>4, <2>1 DEF Accounts
  <2>5. \A o \in Sync : InHand(o, k)' => Accounts(k, row[o].hits)
    BY <1>5, <2>3 DEF AccountsFor
  <2>6. \A i \in DOMAIN array[current] : Ahead(i, k)' => Accounts(k, array[current][i].hits)
    BY <1>5, <1>6 DEF AccountsFor
  <2>7. (\A o \in Sync : ~InHand(o, k)') /\ (\A i \in DOMAIN array[current] : ~Ahead(i, k)')
          => Accounts(k, 0)
    BY <1>5, <1>6, <2>3 DEF AccountsFor
  <2> QED
    BY <1>4, <2>1, <2>5, <2>6, <2>7 DEF AccountsFor, Accounts
<1>8. CASE t # "day" /\ own = k
  <2>1. t = "hour" /\ IsOf(k, row[s]) /\ pc'[s] = "next"
    BY <1>3, <1>4, <1>8 DEF Table, KeyOf, IsOf
  <2>2. InHand(s, k)
    BY <1>4, <2>1 DEF InHand
  <2>3. Accounts(k, row[s].hits)
    BY <1>5, <2>2 DEF AccountsFor
  <2>4. Stored("hour", k)' = Stored("hour", k) + row[s].hits
    BY <1>4, <1>5, <1>8, <2>1 DEF Kept
  <2>5. Stored("hour", k)' \in Nat
    BY <1>4, <1>8, <2>1, <2>4 DEF CacheRow
  <2>6. Accounts(k, 0)'
    BY <1>4, <2>3, <2>4, <2>5 DEF Accounts
  <2>7. \A o \in Sync : ~InHand(o, k)'
    BY <1>4, <2>1 DEF InHand
  <2>8. \A i \in DOMAIN array[current] : ~Ahead(i, k)
    <3> SUFFICES ASSUME NEW i \in DOMAIN array[current], Ahead(i, k) PROVE FALSE
      OBVIOUS
    <3>1. /\ index[s] \in DOMAIN array[current]
          /\ row[s].subject = array[current][index[s]].subject
          /\ row[s].hour = array[current][index[s]].hour
      BY <1>1, <1>4 DEF SerialInv, InPlace
    <3>2. IsOf(k, array[current][i]) /\ index[s] < i
      BY <1>4 DEF Ahead
    <3>3. i = index[s]
      BY <2>1, <3>1, <3>2 DEF DistinctRows, IsOf, RowsInv, TypeOK
    <3>4. i \in Nat
      BY DEF RowsInv, TypeOK
    <3> QED
      BY <3>2, <3>3, <3>4
  <2> QED
    BY <1>4, <1>6, <2>6, <2>7, <2>8 DEF AccountsFor
<1> QED
  BY <1>7, <1>8

\* What was in hand or ahead is lost, and came in no more.
LEMMA AccountCrash ==
  ASSUME RowsInv, AccountInv, Crash
  PROVE  AccountInv'
<1> SUFFICES ASSUME ~overlapped', NEW k \in RowKey, Retained(k.bucket)'
             PROVE  AccountsFor(k)'
  BY DEF AccountInv
<1>1. /\ ~overlapped /\ UNCHANGED <<now, stored>> /\ current' = 0
      /\ array' = [a \in Ref |-> <<>>] /\ pc' = [s \in Sync |-> "idle"]
      /\ received'[k] = Least(received[k], Stored("hour", k))
      /\ calm'[k] = Least(calm[k], Stored("hour", k))
  BY DEF Crash
<1>2. AccountsFor(k)
  BY <1>1 DEF AccountInv, Retained
<1>3. /\ calm[k] \in Nat /\ received[k] \in Nat /\ Stored("hour", k) \in Nat
      /\ \A i \in DOMAIN array[current] : array[current][i].hits \in Nat
      /\ \A s \in Running : row[s].hits \in Nat
  BY CountsType
<1>4. PICK n \in Nat : Accounts(k, n)
  BY <1>2, <1>3 DEF AccountsFor, InHand
<1>5. Stored("hour", k) <= received[k]
  BY <1>3, <1>4 DEF Accounts
<1>6. Stored("hour", k)' = Stored("hour", k)
  BY <1>1 DEF Stored
<1>7. Accounts(k, 0)'
  BY <1>1, <1>3, <1>5, <1>6 DEF Accounts, Least
<1>8. 0 \in Ref
  BY SyncAssumption, FS_CardinalityType DEF Ref
<1>9. array'[current'] = <<>>
  BY <1>1, <1>8
<1>10. \A s \in Sync : ~InHand(s, k)'
  BY <1>1 DEF InHand, Running
<1> QED
  BY <1>7, <1>9, <1>10 DEF AccountsFor

\* A step that leaves the loop, the cache and the retained hours alone.
LEMMA AccountElse ==
  ASSUME RowsInv, AccountInv,
         UNCHANGED <<array, current, index, row, received, calm, overlapped>>,
         Running' = Running, \A s \in Running : pc'[s] = "next" <=> pc[s] = "next",
         \A k \in RowKey : Retained(k.bucket)' =>
           Retained(k.bucket) /\ Stored("hour", k)' = Stored("hour", k)
  PROVE  AccountInv'
<1> SUFFICES ASSUME ~overlapped', NEW k \in RowKey, Retained(k.bucket)'
             PROVE  AccountsFor(k)'
  BY DEF AccountInv
<1>1. AccountsFor(k)
  BY DEF AccountInv
<1>2. Stored("hour", k)' = Stored("hour", k)
  OBVIOUS
<1>3. \A s \in Sync : InHand(s, k)' <=> InHand(s, k)
  BY DEF InHand, IsOf
<1>4. \A i : Ahead(i, k)' <=> Ahead(i, k)
  BY DEF Ahead, IsOf
<1>5. \A s \in Sync : InHand(s, k)' => Accounts(k, row[s].hits)
  BY <1>1, <1>3 DEF AccountsFor
<1>6. \A i \in DOMAIN array[current] : Ahead(i, k)' => Accounts(k, array[current][i].hits)
  BY <1>1, <1>4 DEF AccountsFor
<1>7. (\A s \in Sync : ~InHand(s, k)') /\ (\A i \in DOMAIN array[current] : ~Ahead(i, k)')
        => Accounts(k, 0)
  BY <1>1, <1>3, <1>4 DEF AccountsFor
<1> QED
  BY <1>2, <1>5, <1>6, <1>7 DEF AccountsFor, Accounts

\* Every step keeps the account.
LEMMA AccountStep ==
  ASSUME RowsInv, RowsInv', PruningPast, DistinctRows, SerialInv, AccountInv, [Next]_vars
  PROVE  AccountInv'
<1>1. ASSUME UNCHANGED <<now, stored>>
      PROVE  \A k \in RowKey : Retained(k.bucket)' =>
               Retained(k.bucket) /\ Stored("hour", k)' = Stored("hour", k)
  BY <1>1 DEF Retained, Stored
<1>2. CASE UNCHANGED vars
  <2>1. Running' = Running
    BY <1>2 DEF Running
  <2> QED
    BY <1>1, <1>2, <2>1, AccountElse
<1>3. ASSUME NEW s \in Sync, Count(s) PROVE AccountInv'
  <2>1. /\ UNCHANGED <<now, memory, ref, index, row, table, stored, history>>
        /\ pc[s] = "count" /\ pc' = [pc EXCEPT ![s] = "write"]
    BY <1>3 DEF Count
  <2>2. Running' = Running
    BY <2>1 DEF Running, RowsInv, TypeOK
  <2>3. \A o \in Running : pc'[o] = "next" <=> pc[o] = "next"
    BY <2>1 DEF Running, RowsInv, TypeOK
  <2> QED
    BY <1>1, <2>1, <2>2, <2>3, AccountElse
<1>4. CASE PruneDays \/ PruneHours
  <2>1. /\ UNCHANGED <<now, memory, loops, left, history>>
        /\ \A k \in RowKey :
             Kept("hour", k.bucket) => Stored("hour", k)' = Stored("hour", k)
    BY <1>4, DeleteSteps DEF Table
  <2>2. \A k \in RowKey : Retained(k.bucket)' =>
          Retained(k.bucket) /\ Stored("hour", k)' = Stored("hour", k)
    BY <2>1 DEF Retained, Kept
  <2>3. Running' = Running
    BY <2>1 DEF Running
  <2> QED
    BY <2>1, <2>2, <2>3, AccountElse
<1>5. CASE Tick
  <2>1. now \in Nat /\ now' \in Nat /\ now <= now' /\ UNCHANGED <<memory, loops, stored, history>>
    BY <1>5, BoundAssumption DEF Tick, RowsInv, TypeOK, Hour
  <2>2. \A k \in RowKey : k.bucket \in Nat
    BY DEF RowKey, Hour
  <2>3. \A k \in RowKey : Retained(k.bucket)' => Retained(k.bucket)
    BY <2>1, <2>2, KeptBefore
  <2>4. \A k \in RowKey : Stored("hour", k)' = Stored("hour", k)
    BY <2>1 DEF Stored
  <2>5. Running' = Running
    BY <2>1 DEF Running
  <2> QED
    BY <2>1, <2>3, <2>4, <2>5, AccountElse
<1> QED
  BY <1>2, <1>3, <1>4, <1>5, AccountTake, AccountAdd, AccountWrite, AccountCrash DEF Next

\* What the cache has of a key is the one row it has of it.
LEMMA CachedRow ==
  ASSUME RowsInv, DistinctRows, NEW k \in RowKey
  PROVE  /\ \A i \in DOMAIN array[current] :
              IsOf(k, array[current][i]) => InCache(k) = array[current][i].hits
         /\ (\A i \in DOMAIN array[current] : ~IsOf(k, array[current][i])) => InCache(k) = 0
<1> DEFINE rows == array[current]
           S == DOMAIN rows
           f == [i \in S |-> LET r == rows[i]
                             IN  IF r.subject = k.subject /\ r.hour = k.bucket
                                 THEN r.hits ELSE 0]
<1>1. InCache(k) = SumOver(f, S)
  BY DEF InCache, SumFunction, SumOver
<1>2. rows \in Seq(CacheRow) /\ current \in Ref
  BY DEF RowsInv, TypeOK
<1>3. IsFiniteSet(S)
  BY <1>2, FS_Interval, Len(rows) \in Nat, DOMAIN rows = 1..Len(rows)
<1>4. \A i \in S : rows[i].hits \in Nat
  BY CountsType
<1>5. \A i \in S : f[i] = IF IsOf(k, rows[i]) THEN rows[i].hits ELSE 0
  BY DEF IsOf
<1>6. \A i, j \in S : IsOf(k, rows[i]) /\ IsOf(k, rows[j]) => i = j
  BY <1>2 DEF DistinctRows, IsOf
<1> HIDE DEF f, S
<1>7. \A i \in S : f[i] \in Nat
  BY <1>4, <1>5
<1>8. (\A i \in S : ~IsOf(k, rows[i])) => SumOver(f, S) = 0
  BY <1>3, <1>5, <1>7, SumOfOne
<1>9. ASSUME NEW i \in S, IsOf(k, rows[i]) PROVE SumOver(f, S) = rows[i].hits
  <2>1. \A j \in S \ {i} : f[j] = 0
    BY <1>5, <1>6, <1>9
  <2>2. SumOver(f, S) = f[i]
    BY <1>3, <1>7, <2>1, SumOfOne
  <2> QED
    BY <1>5, <1>9, <2>2
<1> QED
  BY <1>1, <1>8, <1>9 DEF S

\* Between two stores all rows of the cache are ahead.
LEMMA InvAccounts ==
  ASSUME RowsInv, DistinctRows, AccountInv
  PROVE  Accounting
<1> SUFFICES ASSUME ~overlapped, Running = {}, NEW k \in RowKey, Retained(k.bucket)
             PROVE  Accounts(k, InCache(k))
  BY DEF Accounting, Accounts
<1>1. AccountsFor(k)
  BY DEF AccountInv
<1>2. \A s \in Sync : ~InHand(s, k)
  BY DEF InHand
<1>3. \A i \in DOMAIN array[current] : Ahead(i, k) <=> IsOf(k, array[current][i])
  BY DEF Ahead
<1>4. CASE \E i \in DOMAIN array[current] : IsOf(k, array[current][i])
  BY <1>1, <1>3, <1>4, CachedRow DEF AccountsFor
<1>5. CASE \A i \in DOMAIN array[current] : ~IsOf(k, array[current][i])
  BY <1>1, <1>2, <1>3, <1>5, CachedRow DEF AccountsFor
<1> QED
  BY <1>4, <1>5

------------------------------------------------------------------------------
(* A day has what its hours have.                                          *)

\* The terms and the key of a day.
LEMMA DayTerms ==
  ASSUME RowsInv, NEW subject \in Subject, NEW day \in {Day(hour) : hour \in Hour}
  PROVE  /\ IsFiniteSet(HoursOf(day)) /\ HoursOf(day) \subseteq Hour
         /\ \A hour \in HoursOf(day) :
              /\ [subject |-> subject, bucket |-> hour] \in RowKey
              /\ InDay(subject, day)[hour]
                   = Stored("hour", [subject |-> subject, bucket |-> hour])
              /\ InDay(subject, day)[hour] \in Nat
         /\ [subject |-> subject, bucket |-> day] \in RowKey /\ day \in Nat
         /\ SumOver(InDay(subject, day), HoursOf(day)) \in Nat
         /\ Stored("day", [subject |-> subject, bucket |-> day]) \in Nat
<1>1. IsFiniteSet(Hour)
  BY BoundAssumption, FS_Interval DEF Hour
<1>2. IsFiniteSet(HoursOf(day)) /\ HoursOf(day) \subseteq Hour
  BY <1>1, FS_Subset DEF HoursOf
<1>3. day \in Hour /\ day \in Nat
  BY DayType DEF Hour
<1>4. \A hour \in Hour : [subject |-> subject, bucket |-> hour] \in RowKey
  BY DEF RowKey
<1>5. \A t \in Table, k \in RowKey : Stored(t, k) \in Nat
  BY RowsSum DEF RowsInv, TypeOK, Stored
<1>6. \A hour \in HoursOf(day) :
        InDay(subject, day)[hour] = Stored("hour", [subject |-> subject, bucket |-> hour])
  BY DEF InDay
<1>7. \A hour \in HoursOf(day) : InDay(subject, day)[hour] \in Nat
  BY <1>2, <1>4, <1>5, <1>6 DEF Table
<1>8. SumOver(InDay(subject, day), HoursOf(day)) \in Nat
  BY <1>2, <1>7, SumRemove
<1> QED
  BY <1>2, <1>3, <1>4, <1>5, <1>6, <1>7, <1>8 DEF Table

\* What is counted in the hours of a day grows with one of them.
LEMMA DayGrowth ==
  ASSUME RowsInv, RowsInv', NEW subject \in Subject, NEW day \in {Day(hour) : hour \in Hour},
         NEW n \in Nat, NEW grown,
         \A hour \in HoursOf(day) :
           LET k == [subject |-> subject, bucket |-> hour]
           IN  Stored("hour", k)' <= Stored("hour", k) + (IF hour = grown THEN n ELSE 0)
  PROVE  /\ SumOver(InDay(subject, day), HoursOf(day))' \in Nat
         /\ SumOver(InDay(subject, day), HoursOf(day))'
              <= SumOver(InDay(subject, day), HoursOf(day))
                   + (IF grown \in HoursOf(day) THEN n ELSE 0)
<1> DEFINE S == HoursOf(day)
           f == InDay(subject, day)
           g == [hour \in S |->
                   SumFunction(stored'["hour"][[subject |-> subject, bucket |-> hour]])]
<1>1. IsFiniteSet(S) /\ \A hour \in S : f[hour] \in Nat
  BY DayTerms
<1>2. SumOver(InDay(subject, day), HoursOf(day))' = SumOver(g, S)
  BY DEF SumOver, InDay, HoursOf, Stored, Hour, Day
<1>3. \A hour \in S : g[hour] \in Nat
  <2>1. \A hour \in S : [subject |-> subject, bucket |-> hour] \in RowKey
    BY DayTerms
  <2>2. \A k \in RowKey : SumFunction(stored'["hour"][k]) \in Nat
    BY RowsSum DEF RowsInv, TypeOK, Table
  <2> QED
    BY <2>1, <2>2
<1>4. \A hour \in S : g[hour] <= f[hour] + (IF hour = grown THEN n ELSE 0)
  BY DEF Stored, InDay
<1> HIDE DEF S, f, g
<1>7. SumOver(g, S) \in Nat
  BY <1>1, <1>3, SumRemove
<1>5. CASE grown \in S
  <2>1. \A hour \in S \ {grown} : g[hour] <= f[hour]
    BY <1>1, <1>4
  <2>2. g[grown] <= f[grown] + n
    BY <1>4, <1>5
  <2>3. SumOver(g, S) <= SumOver(f, S) + n
    BY <1>1, <1>3, <1>5, <2>1, <2>2, SumGrowth
  <2> QED
    BY <1>2, <1>5, <1>7, <2>3 DEF S, f
<1>6. CASE grown \notin S
  <2>1. \A hour \in S : g[hour] <= f[hour]
    BY <1>1, <1>4, <1>6
  <2>2. SumOver(g, S) <= SumOver(f, S) /\ SumOver(f, S) \in Nat
    BY <1>1, <1>3, <2>1, SumBound, SumRemove
  <2> QED
    BY <1>2, <1>6, <1>7, <2>2 DEF S, f
<1> QED
  BY <1>5, <1>6

\* It does not grow when none of them does.
LEMMA DayNoGrowth ==
  ASSUME RowsInv, RowsInv', NEW subject \in Subject, NEW day \in {Day(hour) : hour \in Hour},
         \A hour \in HoursOf(day) :
           LET k == [subject |-> subject, bucket |-> hour]
           IN  Stored("hour", k)' <= Stored("hour", k)
  PROVE  /\ SumOver(InDay(subject, day), HoursOf(day))' \in Nat
         /\ SumOver(InDay(subject, day), HoursOf(day))'
              <= SumOver(InDay(subject, day), HoursOf(day))
<1>1. ASSUME NEW hour \in HoursOf(day)
      PROVE  LET k == [subject |-> subject, bucket |-> hour]
             IN  Stored("hour", k)' <= Stored("hour", k) + (IF hour = {} THEN 0 ELSE 0)
  <2> DEFINE k == [subject |-> subject, bucket |-> hour]
  <2>1. Stored("hour", k)' <= Stored("hour", k)
    OBVIOUS
  <2>2. Stored("hour", k) \in Nat
    BY DayTerms
  <2> HIDE DEF k
  <2>3. Stored("hour", k)' <= Stored("hour", k) + (IF hour = {} THEN 0 ELSE 0)
    BY <2>1, <2>2
  <2> QED
    BY <2>3 DEF k
<1>2. /\ SumOver(InDay(subject, day), HoursOf(day))' \in Nat
      /\ SumOver(InDay(subject, day), HoursOf(day))'
           <= SumOver(InDay(subject, day), HoursOf(day))
                + (IF {} \in HoursOf(day) THEN 0 ELSE 0)
  BY <1>1, DayGrowth
<1>3. SumOver(InDay(subject, day), HoursOf(day)) \in Nat
  BY DayTerms
<1> QED
  BY <1>2, <1>3

\* A step that counts no hour and leaves the days that are kept alone.
LEMMA DayElse ==
  ASSUME RowsInv, RowsInv', DayInv, ~overlapped' => ~overlapped,
         \A k \in RowKey : Stored("hour", k)' <= Stored("hour", k),
         \A k \in RowKey : KeptDay(k.bucket)' =>
           KeptDay(k.bucket) /\ Stored("day", k)' = Stored("day", k),
         ~overlapped' => \A s \in Sync : \A subject, day :
           Between(s, subject, day)' => Between(s, subject, day) /\ row'[s] = row[s]
  PROVE  DayInv'
<1> SUFFICES ASSUME ~overlapped', NEW subject \in Subject,
                    NEW day \in {Day(hour) : hour \in Hour}, KeptDay(day)'
             PROVE  LET inDay == SumOver(InDay(subject, day), HoursOf(day))'
                        atDay == Stored("day", [subject |-> subject, bucket |-> day])'
                    IN  /\ inDay <= atDay
                        /\ \A s \in Sync :
                             Between(s, subject, day)' => inDay + row'[s].hits <= atDay
  BY DEF DayInv, Hour, Day
<1> DEFINE inDay == SumOver(InDay(subject, day), HoursOf(day))
           later == SumOver(InDay(subject, day), HoursOf(day))'
           k == [subject |-> subject, bucket |-> day]
<1>1. k \in RowKey /\ inDay \in Nat /\ Stored("day", k) \in Nat
  BY DayTerms
<1>2. later \in Nat /\ later <= inDay
  <2>1. \A hour \in HoursOf(day) :
          LET j == [subject |-> subject, bucket |-> hour]
          IN  Stored("hour", j)' <= Stored("hour", j)
    BY DayTerms
  <2> QED
    BY <2>1, DayNoGrowth
<1>3. KeptDay(day) /\ Stored("day", k)' = Stored("day", k)
  BY <1>1
<1>4. /\ inDay <= Stored("day", k)
      /\ \A s \in Sync : Between(s, subject, day) => inDay + row[s].hits <= Stored("day", k)
  BY <1>3 DEF DayInv
<1>5. \A s \in Sync : Between(s, subject, day) => row[s].hits \in Nat
  BY DEF Between, RowsInv, TakenRows, CacheRow, Running
<1>6. \A s \in Sync : Between(s, subject, day)' => Between(s, subject, day) /\ row'[s] = row[s]
  OBVIOUS
<1> HIDE DEF inDay, later, k
<1>7. /\ later <= Stored("day", k)
      /\ \A s \in Sync : Between(s, subject, day)' => later + row'[s].hits <= Stored("day", k)
  BY <1>1, <1>2, <1>4, <1>5, <1>6
<1> QED
  BY <1>3, <1>7 DEF later, k

\* A row goes into its day, and then into its hour.
LEMMA DayWrite ==
  ASSUME RowsInv, RowsInv', SerialInv, DayInv, NEW s \in Sync, Write(s)
  PROVE  DayInv'
<1> SUFFICES ASSUME ~overlapped', NEW subject \in Subject,
                    NEW day \in {Day(hour) : hour \in Hour}, KeptDay(day)'
             PROVE  LET inDay == SumOver(InDay(subject, day), HoursOf(day))'
                        atDay == Stored("day", [subject |-> subject, bucket |-> day])'
                    IN  /\ inDay <= atDay
                        /\ \A o \in Sync :
                             Between(o, subject, day)' => inDay + row'[o].hits <= atDay
  BY DEF DayInv, Hour, Day
<1> DEFINE inDay == SumOver(InDay(subject, day), HoursOf(day))
           later == SumOver(InDay(subject, day), HoursOf(day))'
           k == [subject |-> subject, bucket |-> day]
<1>1. ~overlapped
  BY DEF Write
<1>2. PICK t : t = table[s]
  OBVIOUS
<1>3. PICK own : own = KeyOf(t, row[s])
  OBVIOUS
<1>4. /\ t \in Table /\ own \in RowKey /\ row[s] \in CacheRow
      /\ Running = {s} /\ Running' = {s} /\ pc[s] = "write"
      /\ pc'[s] = (IF t = "day" THEN "count" ELSE "next") /\ table'[s] = "hour"
      /\ UNCHANGED <<now, array, current, ref, index, row, overlapped>>
      /\ \A u \in Table, j \in RowKey : u # t \/ j # own => stored'[u][j] = stored[u][j]
      /\ Stored(t, own) \in Nat /\ Stored(t, own)' <= Stored(t, own) + row[s].hits
      /\ Kept(t, own.bucket) => Stored(t, own)' = Stored(t, own) + row[s].hits
  BY <1>1, <1>2, <1>3, WriteSteps
<1>5. k \in RowKey /\ inDay \in Nat /\ Stored("day", k) \in Nat
  BY DayTerms
<1>6. KeptDay(day)
  BY <1>4 DEF KeptDay, Day
<1>7. /\ inDay <= Stored("day", k)
      /\ \A o \in Sync : Between(o, subject, day) => inDay + row[o].hits <= Stored("day", k)
  BY <1>1, <1>6 DEF DayInv
<1>8. row[s].hits \in Nat
  BY <1>4 DEF CacheRow
<1>9. \A u \in Table, j \in RowKey : u # t \/ j # own => Stored(u, j)' = Stored(u, j)
  BY <1>4 DEF Stored
<1>10. \A o \in Sync : Between(o, subject, day)' <=>
         o = s /\ t = "day" /\ row[s].subject = subject /\ Day(row[s].hour) = day
  BY <1>4 DEF Between, Day, Table
<1>11. \A hour \in HoursOf(day) :
         [subject |-> subject, bucket |-> hour] \in RowKey
         /\ Stored("hour", [subject |-> subject, bucket |-> hour]) \in Nat
  BY DayTerms
<1>12. CASE t = "day"
  <2>1. \A hour \in HoursOf(day) :
          LET j == [subject |-> subject, bucket |-> hour]
          IN  Stored("hour", j)' <= Stored("hour", j)
    BY <1>9, <1>11, <1>12 DEF Table
  <2>2. later \in Nat /\ later <= inDay
    BY <2>1, DayNoGrowth
  <2>4. own = [subject |-> row[s].subject, bucket |-> Day(row[s].hour)]
    BY <1>3, <1>12 DEF KeyOf
  <2>5. CASE row[s].subject = subject /\ Day(row[s].hour) = day
    <3>1. own = k
      BY <2>4, <2>5
    <3>2. Stored("day", k)' = Stored("day", k) + row[s].hits
      BY <1>4, <1>6, <1>12, <3>1 DEF Kept
    <3> HIDE DEF inDay, later, k
    <3>3. /\ later <= Stored("day", k)'
          /\ later + row[s].hits <= Stored("day", k)'
      BY <1>5, <1>7, <1>8, <2>2, <3>2
    <3> QED
      BY <1>4, <1>10, <3>3 DEF later, k
  <2>6. CASE ~(row[s].subject = subject /\ Day(row[s].hour) = day)
    <3>1. own # k
      BY <2>4, <2>6
    <3>2. Stored("day", k)' = Stored("day", k)
      BY <1>5, <1>9, <3>1 DEF Table
    <3>3. \A o \in Sync : ~Between(o, subject, day)'
      BY <1>10, <2>6
    <3> HIDE DEF inDay, later, k
    <3>4. later <= Stored("day", k)'
      BY <1>5, <1>7, <2>2, <3>2
    <3> QED
      BY <3>3, <3>4 DEF later, k
  <2> QED
    BY <2>5, <2>6
<1>13. CASE t = "hour"
  <2>1. Stored("day", k)' = Stored("day", k)
    BY <1>5, <1>9, <1>13 DEF Table
  <2>2. \A o \in Sync : ~Between(o, subject, day)'
    BY <1>10, <1>13
  <2>3. own = [subject |-> row[s].subject, bucket |-> row[s].hour]
    BY <1>3, <1>13 DEF KeyOf
  <2>4. CASE row[s].subject = subject /\ Day(row[s].hour) = day
    <3>1. Between(s, subject, day)
      BY <1>2, <1>4, <1>13, <2>4 DEF Between
    <3>2. row[s].hour \in HoursOf(day)
      BY <1>4, <2>4 DEF HoursOf, CacheRow
    <3>3. \A hour \in HoursOf(day) :
            LET j == [subject |-> subject, bucket |-> hour]
            IN  Stored("hour", j)'
                  <= Stored("hour", j) + (IF hour = row[s].hour THEN row[s].hits ELSE 0)
      <4> SUFFICES ASSUME NEW hour \in HoursOf(day)
                   PROVE  LET j == [subject |-> subject, bucket |-> hour]
                          IN  Stored("hour", j)'
                                <= Stored("hour", j)
                                     + (IF hour = row[s].hour THEN row[s].hits ELSE 0)
        OBVIOUS
      <4> DEFINE j == [subject |-> subject, bucket |-> hour]
      <4>1. j \in RowKey /\ Stored("hour", j) \in Nat
        BY <1>11
      <4>2. j = own <=> hour = row[s].hour
        BY <2>3, <2>4
      <4>3. j # own => Stored("hour", j)' = Stored("hour", j)
        BY <1>9, <4>1 DEF Table
      <4>4. j = own => Stored("hour", j)' <= Stored("hour", j) + row[s].hits
        BY <1>4, <1>13
      <4> HIDE DEF j
      <4>5. Stored("hour", j)'
              <= Stored("hour", j) + (IF hour = row[s].hour THEN row[s].hits ELSE 0)
        BY <4>1, <4>2, <4>3, <4>4
      <4> QED
        BY <4>5 DEF j
    <3> DEFINE n == row[s].hits
               grown == row[s].hour
    <3>4. later \in Nat /\ later <= inDay + (IF grown \in HoursOf(day) THEN n ELSE 0)
      <4> HIDE DEF n, grown
      <4>1. n \in Nat
        BY <1>8 DEF n
      <4>2. \A hour \in HoursOf(day) :
              LET j == [subject |-> subject, bucket |-> hour]
              IN  Stored("hour", j)' <= Stored("hour", j) + (IF hour = grown THEN n ELSE 0)
        BY <3>3 DEF n, grown
      <4> QED
        BY <4>1, <4>2, DayGrowth
    <3>5. inDay + row[s].hits <= Stored("day", k)
      BY <1>7, <3>1
    <3> HIDE DEF inDay, later, k
    <3>6. later <= Stored("day", k)'
      BY <1>5, <1>8, <2>1, <3>2, <3>4, <3>5
    <3> QED
      BY <2>2, <3>6 DEF later, k
  <2>5. CASE ~(row[s].subject = subject /\ Day(row[s].hour) = day)
    <3>1. \A hour \in HoursOf(day) :
            LET j == [subject |-> subject, bucket |-> hour]
            IN  Stored("hour", j)' <= Stored("hour", j)
      <4>1. \A hour \in HoursOf(day) : [subject |-> subject, bucket |-> hour] # own
        BY <2>3, <2>5 DEF HoursOf
      <4> QED
        BY <1>9, <1>11, <4>1 DEF Table
    <3>2. later \in Nat /\ later <= inDay
      BY <3>1, DayNoGrowth
    <3> HIDE DEF inDay, later, k
    <3>3. later <= Stored("day", k)'
      BY <1>5, <1>7, <2>1, <3>2
    <3> QED
      BY <2>2, <3>3 DEF later, k
  <2> QED
    BY <2>4, <2>5
<1> QED
  BY <1>4, <1>12, <1>13 DEF Table

\* Every step keeps the days ahead of their hours.
LEMMA DayStep ==
  ASSUME RowsInv, RowsInv', PruningPast, SerialInv, DayInv, [Next]_vars
  PROVE  DayInv'
<1>1. \A t \in Table, k \in RowKey : Stored(t, k) \in Nat
  BY RowsSum DEF RowsInv, TypeOK, Stored
<1>2. now \in Nat /\ \A k \in RowKey : k.bucket \in Nat
  BY DEF RowsInv, TypeOK, RowKey, Hour
<1>3. ASSUME UNCHANGED <<now, stored>>, ~overlapped' => ~overlapped,
             ~overlapped' => \A s \in Sync : \A subject, day :
               Between(s, subject, day)' => Between(s, subject, day) /\ row'[s] = row[s]
      PROVE  DayInv'
  <2>1. \A k \in RowKey : Stored("hour", k)' <= Stored("hour", k)
    BY <1>1, <1>3 DEF Stored, Table
  <2>2. \A k \in RowKey : KeptDay(k.bucket)' =>
          KeptDay(k.bucket) /\ Stored("day", k)' = Stored("day", k)
    BY <1>3 DEF Stored, KeptDay, Day
  <2> QED
    BY <1>3, <2>1, <2>2, DayElse
<1>4. ASSUME UNCHANGED loops
      PROVE  \A s \in Sync : \A subject, day :
               Between(s, subject, day)' => Between(s, subject, day) /\ row'[s] = row[s]
  BY <1>4 DEF Between, Running, Day
<1>5. CASE UNCHANGED vars
  BY <1>3, <1>4, <1>5
<1>6. ASSUME NEW subject \in Subject, NEW hour \in Hour, Add(subject, hour)
      PROVE  DayInv'
  <2>1. UNCHANGED <<now, stored, loops, overlapped>>
    BY <1>6 DEF Add
  <2> QED
    BY <1>3, <1>4, <2>1
<1>7. ASSUME NEW s \in Sync, StartSync(s) \/ NextRow(s) PROVE DayInv'
  <2> SUFFICES ASSUME ~overlapped' PROVE DayInv'
    BY DEF DayInv
  <2>1. ~overlapped /\ Running \subseteq {s} /\ UNCHANGED <<now, stored>>
    BY <1>7, TakeCases
  <2>2. PICK i \in Nat \ {0} : Take(s, current, i)
    BY <1>7, TakeCases
  <2>3. \/ Running' = {s} /\ table'[s] = "day"
        \/ Running' = {}
    BY <2>1, <2>2, TakeSteps
  <2>4. \A o \in Sync : \A subject, day : ~Between(o, subject, day)'
    BY <2>3 DEF Between
  <2> QED
    BY <1>3, <2>1, <2>4
<1>8. ASSUME NEW s \in Sync, Count(s) PROVE DayInv'
  <2>1. /\ UNCHANGED <<now, row, table, stored, overlapped>>
        /\ pc[s] = "count" /\ pc' = [pc EXCEPT ![s] = "write"]
    BY <1>8 DEF Count
  <2>2. \A o \in Sync : /\ o \in Running' <=> o \in Running
                        /\ pc'[o] = "next" <=> pc[o] = "next"
    BY <2>1 DEF Running, RowsInv, TypeOK
  <2>3. \A o \in Sync : \A subject, day :
          Between(o, subject, day)' => Between(o, subject, day) /\ row'[o] = row[o]
    BY <2>1, <2>2 DEF Between, Day
  <2> QED
    BY <1>3, <2>1, <2>3
<1>9. CASE Tick
  <2>1. now' \in Nat /\ now <= now' /\ UNCHANGED <<loops, stored, overlapped>>
    BY <1>2, <1>9 DEF Tick
  <2>2. \A k \in RowKey : KeptDay(k.bucket)' => KeptDay(k.bucket)
    BY <1>2, <2>1, KeptBefore
  <2>3. \A t, k : Stored(t, k)' = Stored(t, k)
    BY <2>1 DEF Stored
  <2>4. \A k \in RowKey : Stored("hour", k)' <= Stored("hour", k)
    BY <1>1, <2>3 DEF Table
  <2> QED
    BY <1>4, <2>1, <2>2, <2>3, <2>4, DayElse
<1>10. CASE PruneDays \/ PruneHours
  <2>1. /\ UNCHANGED <<now, memory, loops, left, history>>
        /\ \A t \in Table, k \in RowKey :
             /\ Stored(t, k)' <= Stored(t, k)
             /\ Kept(t, k.bucket) => Stored(t, k)' = Stored(t, k)
    BY <1>10, DeleteSteps
  <2>2. \A k \in RowKey : Stored("hour", k)' <= Stored("hour", k)
    BY <2>1 DEF Table
  <2>3. \A k \in RowKey : KeptDay(k.bucket)' =>
          KeptDay(k.bucket) /\ Stored("day", k)' = Stored("day", k)
    BY <2>1 DEF KeptDay, Kept, Table, Day
  <2> QED
    BY <1>4, <2>1, <2>2, <2>3, DayElse
<1>11. CASE Crash
  <2>1. UNCHANGED <<now, stored, overlapped>> /\ pc' = [s \in Sync |-> "idle"]
    BY <1>11 DEF Crash
  <2>2. \A o \in Sync : \A subject, day : ~Between(o, subject, day)'
    BY <2>1 DEF Between, Running
  <2> QED
    BY <1>3, <2>1, <2>2
<1> QED
  BY <1>5, <1>6, <1>7, <1>8, <1>9, <1>10, <1>11, DayWrite DEF Next

------------------------------------------------------------------------------
(* The theorems.                                                           *)

\* At first all sums are zero.
LEMMA InitSums == Init => SumsInv
<1> SUFFICES ASSUME Init PROVE SumsInv
  OBVIOUS
<1>1. RowsInv
  BY InitRows
<1>2. 0 \in Ref
  BY SyncAssumption, FS_CardinalityType DEF Ref
<1>3. /\ Running = {} /\ array[current] = <<>> /\ \A a \in Ref : array[a] = <<>>
      /\ \A t \in Table, k \in RowKey : stored[t][k] = <<>>
      /\ \A k \in RowKey : calm[k] = 0 /\ received[k] = 0
  BY <1>2 DEF Init, Running
<1>4. DistinctRows /\ PruningPast
  BY <1>3 DEF DistinctRows, PruningPast, Init
<1>5. SerialInv
  BY <1>3 DEF SerialInv, InPlace, CountHolds, OneRowEach
<1>6. \A t \in Table, k \in RowKey : Stored(t, k) = 0
  <2>1. <<>> \in Seq(Nat \ {0})
    OBVIOUS
  <2> QED
    BY <1>3, <2>1, RowsSum DEF Stored
<1>7. AccountInv
  <2>1. \A k \in RowKey : Accounts(k, 0)
    BY <1>3, <1>6 DEF Accounts, Table
  <2> QED
    BY <1>3, <2>1 DEF AccountInv, AccountsFor, InHand
<1>8. DayInv
  <2> SUFFICES ASSUME NEW subject \in Subject, NEW day \in {Day(hour) : hour \in Hour}
               PROVE  /\ SumOver(InDay(subject, day), HoursOf(day))
                           <= Stored("day", [subject |-> subject, bucket |-> day])
                      /\ \A s \in Sync : ~Between(s, subject, day)
    BY DEF DayInv
  <2>1. /\ IsFiniteSet(HoursOf(day))
        /\ [subject |-> subject, bucket |-> day] \in RowKey
        /\ \A hour \in HoursOf(day) :
             /\ [subject |-> subject, bucket |-> hour] \in RowKey
             /\ InDay(subject, day)[hour]
                  = Stored("hour", [subject |-> subject, bucket |-> hour])
    BY <1>1, DayTerms
  <2>2. \A hour \in HoursOf(day) : InDay(subject, day)[hour] = 0
    BY <1>6, <2>1 DEF Table
  <2>3. SumOver(InDay(subject, day), HoursOf(day)) = 0
    BY <2>1, <2>2, SumOfOne
  <2>4. Stored("day", [subject |-> subject, bucket |-> day]) = 0
    BY <1>6, <2>1 DEF Table
  <2> QED
    BY <1>3, <2>3, <2>4 DEF Between
<1> QED
  BY <1>1, <1>4, <1>5, <1>7, <1>8 DEF SumsInv

\* The sums hold throughout.
THEOREM SumsInvariance == Spec => []SumsInv
<1>1. SumsInv /\ RowsInv' /\ [Next]_vars => SumsInv'
  BY DistinctStep, PruningStep, SerialStep, AccountStep, DayStep DEF SumsInv
<1> QED
  BY <1>1, InitSums, RowsInvariance, PTL DEF Spec

\* While no store overlaps another, between two stores what is stored and what is
\* cached is no more than what came in, and no less than what came in between
\* stores and did not go down in a crash (syncUniqueClientsToDb,
\* src/src/database/schema_hits.ts).
THEOREM HitsAccounted == Spec => []Accounting
<1>1. SumsInv => Accounting
  BY InvAccounts DEF SumsInv
<1> QED
  BY <1>1, SumsInvariance, PTL

\* While no store overlaps another, a day that is kept has all that its hours
\* have: the day is stored first (storeInDb, src/src/database/schema_hits.ts).
THEOREM DaysCoverHours == Spec => []DayCoversHours
<1>1. SumsInv => DayCoversHours
  <2> SUFFICES ASSUME SumsInv, ~overlapped, NEW subject \in Subject,
                      NEW day \in {Day(hour) : hour \in Hour}, KeptDay(day)
               PROVE  SumFunction(InDay(subject, day))
                        <= Stored("day", [subject |-> subject, bucket |-> day])
    BY DEF DayCoversHours, KeptDay, InDay, HoursOf
  <2>1. SumFunction(InDay(subject, day)) = SumOver(InDay(subject, day), HoursOf(day))
    BY DEF SumFunction, SumOver, InDay
  <2> QED
    BY <2>1 DEF SumsInv, DayInv
<1> QED
  BY <1>1, SumsInvariance, PTL

=============================================================================
