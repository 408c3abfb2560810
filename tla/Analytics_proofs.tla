--------------------------- MODULE Analytics_proofs ---------------------------
(***************************************************************************)
(* Proofs about UsageMetrics and the page that reads it, for any labels    *)
(* and clients, any number of events and any retention that is not shorter *)
(* than the window of a read.                                              *)
(*                                                                         *)
(* MeasuresInv is the type invariant of the counters.  TotalsInv is what   *)
(* CountedOnce needs: the totals of a name and an hour are those of what   *)
(* came in, and stores of one array are told apart.  To it FreshInv adds   *)
(* what Redis keeps, EndedInv that seconds and events are those of         *)
(* sessions that ended, and ShownInv what the page holds.  The properties  *)
(* of the page follow from these with what is proved of totals, of rounded *)
(* averages and of ranks.  A total is a fold over a set of rows; what is   *)
(* known of one is proved with a smallest set of which it would not hold.  *)
(***************************************************************************)
EXTENDS Analytics, FiniteSetTheorems, WellFoundedInduction, TLAPS

USE DEF metricVars, worker, history

StoreType ==
  [series: Series \cup {"none"}, live: BOOLEAN,
   rows: UNION {[keys -> Measure] : keys \in SUBSET Key}, done: SUBSET Key]

\* The rows are measures that can be added, and their hours can be compared.
MeasuresInv ==
  /\ now \in Time
  /\ \A k \in DOMAIN buffer : k \in Key /\ buffer[k] \in Measure
  /\ \A k \in DOMAIN stored : k \in StoredKey /\ stored[k] \in Measure
  /\ stores \in [Loop -> StoreType]

------------------------------------------------------------------------------
(* Adding to a row                                                         *)

LEMMA PlusFacts ==
  ASSUME NEW m \in Measure, NEW n \in Measure
  PROVE  Plus(m, n) \in Measure /\ AtMost(m, Plus(m, n)) /\ AtMost(m, m)
  BY DEF Measure, Plus, AtMost

\* The rows stay what they are but for one, which is there afterwards and has
\* not become less.
LEMMA AddedFacts ==
  ASSUME NEW rows, NEW k, NEW m \in Measure,
         \A j \in DOMAIN rows : rows[j] \in Measure
  PROVE  /\ DOMAIN Added(rows, k, m) = DOMAIN rows \cup {k}
         /\ \A j \in DOMAIN Added(rows, k, m) : Added(rows, k, m)[j] \in Measure
         /\ \A j \in DOMAIN rows : AtMost(rows[j], Added(rows, k, m)[j])
<1>1. Of(rows, k) \in Measure
  BY DEF Of, Nothing, Measure
<1>2. Plus(Of(rows, k), m) \in Measure /\ AtMost(Of(rows, k), Plus(Of(rows, k), m))
  BY <1>1, PlusFacts
<1>3. \A j \in DOMAIN rows : AtMost(rows[j], rows[j])
  BY PlusFacts
<1> QED
  BY <1>2, <1>3 DEF Added, Of

------------------------------------------------------------------------------
(* The invariant                                                           *)

LEMMA NoStoreIsTyped == NoStore \in StoreType
<1>1. NoRows \in [{} -> Measure]
  BY DEF NoRows
<1> QED
  BY <1>1 DEF NoStore, StoreType

LEMMA InitMeasures == Init => MeasuresInv
<1> SUFFICES ASSUME Init PROVE MeasuresInv
  OBVIOUS
<1>1. now \in Time
  BY BoundAssumption DEF Init, MetricInit
<1>2. DOMAIN buffer = {}
  BY DEF Init, MetricInit, NoRows
<1>3. \A k \in DOMAIN stored : k \in StoredKey /\ stored[k] \in Measure
  BY BeforeAssumption DEF Init, MetricInit, Range
<1>4. stores \in [Loop -> StoreType]
  BY NoStoreIsTyped DEF Init, MetricInit
<1> QED
  BY <1>1, <1>2, <1>3, <1>4 DEF MeasuresInv

LEMMA AddMeasures ==
  ASSUME MeasuresInv, NEW k \in Key, NEW m \in Measure, Add(k, m)
  PROVE  MeasuresInv'
<1>1. /\ DOMAIN buffer' = DOMAIN buffer \cup {k}
      /\ \A j \in DOMAIN buffer' : buffer'[j] \in Measure
  BY AddedFacts DEF MeasuresInv, Add
<1> QED
  BY <1>1 DEF MeasuresInv, Add

\* What a store goes through are rows of its series.
LEMMA ArrayMeasures ==
  ASSUME MeasuresInv, NEW l \in Loop
  PROVE  /\ \A k \in DOMAIN ArrayOf(l) : k \in Key /\ ArrayOf(l)[k] \in Measure
         /\ ArrayOf(l) \in UNION {[keys -> Measure] : keys \in SUBSET Key}
<1>1. CASE stores[l].live
  <2>1. ArrayOf(l) = [k \in RowsOf(stores[l].series) |-> buffer[k]]
    BY <1>1 DEF ArrayOf
  <2>2. RowsOf(stores[l].series) \in SUBSET Key
    BY DEF RowsOf, MeasuresInv
  <2>3. ArrayOf(l) \in [RowsOf(stores[l].series) -> Measure]
    BY <2>1 DEF RowsOf, MeasuresInv
  <2> QED
    BY <2>2, <2>3
<1>2. CASE ~stores[l].live
  <2>1. ArrayOf(l) = stores[l].rows
    BY <1>2 DEF ArrayOf
  <2>2. stores[l].rows \in UNION {[keys -> Measure] : keys \in SUBSET Key}
    BY DEF MeasuresInv, StoreType
  <2> QED
    BY <2>1, <2>2
<1> QED
  BY <1>1, <1>2

\* What a timer stores lands in a row of the tables.
LEMMA StoreMeasures ==
  ASSUME MeasuresInv, NEW l \in Loop, NEW k \in DOMAIN ArrayOf(l), StoreRow(l, k)
  PROVE  MeasuresInv'
<1>1. k \in Key /\ ArrayOf(l)[k] \in Measure
  BY ArrayMeasures
<1>2. StoredAs(k) \in StoredKey
  BY <1>1 DEF StoredAs, Key, StoredKey, Row
<1>3. stored' = Added(stored, StoredAs(k), ArrayOf(l)[k])
  BY DEF StoreRow
<1>4. /\ DOMAIN stored' = DOMAIN stored \cup {StoredAs(k)}
      /\ \A j \in DOMAIN stored' : stored'[j] \in Measure
  BY <1>1, <1>3, AddedFacts DEF MeasuresInv
<1>5. stores' \in [Loop -> StoreType]
  BY <1>1 DEF StoreRow, MeasuresInv, StoreType
<1> QED
  BY <1>2, <1>4, <1>5 DEF MeasuresInv, StoreRow

\* What goes on with an array of its own has it from this moment.
LEMMA EndMeasures ==
  ASSUME MeasuresInv, NEW l \in Loop, EndStore(l)
  PROVE  MeasuresInv'
<1> DEFINE series == stores[l].series
<1>1. ASSUME NEW m \in Loop
      PROVE  [stores[m] EXCEPT !.live = FALSE, !.rows = ArrayOf(m)] \in StoreType
  BY <1>1, ArrayMeasures DEF MeasuresInv, StoreType
<1>2. stores' = [m \in Loop |->
         IF m = l THEN NoStore
         ELSE IF stores[m].series # series THEN stores[m]
         ELSE [stores[m] EXCEPT !.live = FALSE, !.rows = ArrayOf(m)]]
  BY DEF EndStore
<1>3. stores' \in [Loop -> StoreType]
  BY <1>1, <1>2, NoStoreIsTyped DEF MeasuresInv
<1> QED
  BY <1>3 DEF EndStore, MeasuresInv

\* The measures of the three events.
LEMMA EventMeasures ==
  ASSUME NEW n \in Nat
  PROVE  /\ [Nothing EXCEPT !.hits = n] \in Measure
         /\ [Nothing EXCEPT !.completed = 1, !.amount = n] \in Measure
  BY DEF Nothing, Measure

LEMMA EventKeys ==
  /\ \A o \in Operation, c \in Client :
       HourOf(now) \in Hour =>
         [series |-> "operation", name |-> o, client |-> c, hour |-> HourOf(now)] \in Key
  /\ \A s \in Subscription : HourOf(now) \in Hour =>
       [series |-> "subscription", name |-> s, client |-> NoClient,
        hour |-> HourOf(now)] \in Key
  BY DEF Key, Row

LEMMA WorkerMeasures ==
  ASSUME MeasuresInv, MetricNext
  PROVE  MeasuresInv'
<1>h. now \in Time /\ HourOf(now) \in Hour
  BY DEF MeasuresInv, Hour
<1>1. ASSUME NEW o \in Operation, NEW c \in Client, AddOperation(o, c)
      PROVE  MeasuresInv'
  BY <1>h, <1>1, EventKeys, EventMeasures, AddMeasures DEF AddOperation
<1>2. ASSUME NEW s \in Subscription, NEW multiplier \in Multiplier,
             StartSession(s, multiplier)
      PROVE  MeasuresInv'
  BY <1>h, <1>2, SessionAssumption, EventKeys, EventMeasures, AddMeasures
     DEF StartSession
<1>3. ASSUME NEW s \in Subscription, NEW amount \in Amount, EndSession(s, amount)
      PROVE  MeasuresInv'
  BY <1>h, <1>3, SessionAssumption, EventKeys, EventMeasures, AddMeasures
     DEF EndSession
<1>4. ASSUME NEW l \in Loop, NEW series \in Series, StartStore(l, series)
      PROVE  MeasuresInv'
  <2>1. [NoStore EXCEPT !.series = series, !.live = TRUE] \in StoreType
    BY NoStoreIsTyped DEF StoreType
  <2> QED
    BY <1>4, <2>1 DEF StartStore, MeasuresInv
<1>6. ASSUME NEW series \in Series, Prune(series)
      PROVE  MeasuresInv'
  BY <1>6 DEF Prune, MeasuresInv
<1>8. CASE Read
  BY <1>8 DEF Read, MeasuresInv
<1>9. CASE Crash
  BY <1>9, NoStoreIsTyped DEF Crash, MeasuresInv, NoRows
<1> QED
  BY <1>1, <1>2, <1>3, <1>4, <1>6, <1>8, <1>9, StoreMeasures, EndMeasures DEF MetricNext

\* The page leaves the rows alone; only the clock goes on.
LEMMA PageMeasures ==
  ASSUME MeasuresInv,
         \/ Tick \/ Open \/ Wait \/ ChooseTab \/ Search \/ ChooseLimit
         \/ \E column \in UNION {Column[t] : t \in DOMAIN Column} : SortBy(column)
         \/ UNCHANGED vars
  PROVE  MeasuresInv'
<1>1. UNCHANGED <<buffer, stored, stores>>
  BY DEF Tick, Open, Wait, ChooseTab, Search, ChooseLimit, SortBy, vars, view, pageVars
<1>2. now' \in Time
  BY BoundAssumption DEF MeasuresInv, Time, Tick, Open, Wait, ChooseTab, Search,
     ChooseLimit, SortBy, vars
<1> QED
  BY <1>1, <1>2 DEF MeasuresInv

\* The measures add up and the hours compare, whatever the worker and the page do
\* (src/src/database/operation_hits.ts, src/src/database/subscription_metrics.ts).
THEOREM MeasuresInvariance == Spec => []MeasuresInv
<1>1. MeasuresInv /\ [Next]_vars => MeasuresInv'
  BY WorkerMeasures, PageMeasures DEF Next
<1> QED
  BY <1>1, InitMeasures, PTL DEF Spec

------------------------------------------------------------------------------
(* Totals of measures over finite sets.                                    *)

\* Of some finite sets there is one with no other inside: what fails for a finite
\* set fails for a smallest one, which is how the lemmas below go on.
LEMMA SmallestSet ==
  ASSUME NEW S, IsFiniteSet(S), NEW T \in SUBSET SUBSET S, T # {}
  PROVE  \E s \in T : \A u \in T : u \subseteq s => u = s
<1>1. FiniteSubsetsOf(S) = SUBSET S
  BY FS_FiniteSubsetsOfFinite
<1>2. IsWellFoundedOn(StrictSubsetOrdering(S), SUBSET S)
  BY <1>1, FS_StrictSubsetOrderingWellFounded
<1>3. \E s \in T : \A u \in T : ~(<<u, s>> \in StrictSubsetOrdering(S))
  BY <1>2, WFMin
<1> QED
  BY <1>3 DEF StrictSubsetOrdering

\* The order in which measures are added does not matter.
LEMMA PlusSwaps ==
  ASSUME NEW l \in Measure, NEW m \in Measure, NEW n \in Measure
  PROVE  /\ Plus(l, Plus(m, n)) = Plus(m, Plus(l, n))
         /\ Plus(Plus(l, m), n) = Plus(l, Plus(m, n))
         /\ Plus(l, m) = Plus(m, l) /\ Plus(l, Nothing) = l /\ Plus(Nothing, l) = l
  BY DEF Plus, Measure, Nothing

\* Nothing is a measure.
LEMMA NothingMeasured == Nothing \in Measure
  BY DEF Measure, Nothing

\* The function by which a fold is defined: the totals of f over the subsets of S.
IsTotal(g, f, S) ==
  g = [s \in SUBSET S |-> IF s = {} THEN Nothing
                          ELSE LET x == CHOOSE x \in s : TRUE IN Plus(f[x], g[s \ {x}])]

\* What it is for one set.
LEMMA TotalStep ==
  ASSUME NEW g, NEW f, NEW S, IsTotal(g, f, S), NEW s \in SUBSET S
  PROVE  /\ s = {} => g[s] = Nothing
         /\ s # {} => LET x == CHOOSE x \in s : TRUE IN g[s] = Plus(f[x], g[s \ {x}])
  BY DEF IsTotal

\* There is at most one, also when it is defined on more sets.
LEMMA TotalUnique ==
  ASSUME NEW f, NEW S, IsFiniteSet(S), NEW R \in SUBSET S, NEW g, NEW h,
         IsTotal(g, f, S), IsTotal(h, f, R)
  PROVE  \A s \in SUBSET R : g[s] = h[s]
<1> DEFINE T == {s \in SUBSET R : g[s] # h[s]}
<1>1. SUFFICES ASSUME T # {} PROVE FALSE
  OBVIOUS
<1>2. T \in SUBSET SUBSET R /\ IsFiniteSet(R)
  BY FS_Subset
<1>3. \E s \in T : \A u \in T : u \subseteq s => u = s
  <2> HIDE DEF T
  <2> QED
    BY <1>1, <1>2, SmallestSet
<1>4. PICK s \in T : \A u \in T : u \subseteq s => u = s
  BY <1>3
<1>5. s \in SUBSET R /\ s \in SUBSET S /\ g[s] # h[s]
  OBVIOUS
<1>6. s # {}
  BY <1>5, TotalStep
<1> DEFINE x == CHOOSE x \in s : TRUE
<1>7. x \in s
  BY <1>6
<1>8. g[s \ {x}] = h[s \ {x}]
  BY <1>4, <1>5, <1>7
<1>9. g[s] = Plus(f[x], g[s \ {x}]) /\ h[s] = Plus(f[x], h[s \ {x}])
  <2>1. g[s] = Plus(f[x], g[s \ {x}])
    BY <1>5, <1>6, TotalStep
  <2>2. h[s] = Plus(f[x], h[s \ {x}])
    BY <1>5, <1>6, TotalStep
  <2> QED
    BY <2>1, <2>2
<1> QED
  BY <1>5, <1>8, <1>9

\* There is one.
LEMMA TotalExists ==
  ASSUME NEW f, NEW S, IsFiniteSet(S)
  PROVE  \E g : IsTotal(g, f, S)
<1> DEFINE T == {s \in SUBSET S : ~\E g : IsTotal(g, f, s)}
<1>1. SUFFICES ASSUME T # {} PROVE FALSE
  OBVIOUS
<1>2. \E s \in T : \A u \in T : u \subseteq s => u = s
  <2>1. T \in SUBSET SUBSET S
    OBVIOUS
  <2> HIDE DEF T
  <2> QED
    BY <1>1, <2>1, SmallestSet
<1>3. PICK s \in T : \A u \in T : u \subseteq s => u = s
  BY <1>2
<1>4. s \in SUBSET S /\ ~\E g : IsTotal(g, f, s)
  OBVIOUS
<1> DEFINE total(u) == CHOOSE g : IsTotal(g, f, u)
           h == [u \in SUBSET s |-> IF u = {} THEN Nothing
                   ELSE LET x == CHOOSE x \in u : TRUE IN Plus(f[x], total(u \ {x})[u \ {x}])]
<1>5. \A u \in SUBSET s : u # s => IsTotal(total(u), f, u)
  BY <1>3, <1>4
<1>6. ASSUME NEW u \in SUBSET s, u # s
      PROVE  h[u] = total(u)[u]
  <2>1. IsTotal(total(u), f, u)
    BY <1>5, <1>6
  <2>2. CASE u = {}
    <3>1. total(u)[u] = Nothing
      BY <2>1, <2>2, TotalStep
    <3> QED
      BY <2>2, <3>1
  <2>3. CASE u # {}
    <3> DEFINE x == CHOOSE x \in u : TRUE
    <3>1. x \in u
      BY <2>3
    <3>2. u \ {x} \in SUBSET s /\ u \ {x} # s /\ u \ {x} \in SUBSET u
      BY <3>1
    <3>3. IsTotal(total(u \ {x}), f, u \ {x})
      BY <1>5, <3>2
    <3>4. total(u)[u] = Plus(f[x], total(u)[u \ {x}])
      BY <2>1, <2>3, TotalStep
    <3>5. total(u)[u \ {x}] = total(u \ {x})[u \ {x}]
      <4>1. IsFiniteSet(u)
        BY <1>4, FS_Subset
      <4> HIDE DEF total, x
      <4> QED
        BY <2>1, <3>2, <3>3, <4>1, TotalUnique
    <3>6. h[u] = Plus(f[x], total(u \ {x})[u \ {x}])
      BY <2>3
    <3> QED
      BY <3>4, <3>5, <3>6
  <2> QED
    BY <2>2, <2>3
<1>7. \A u \in SUBSET s : u # {} =>
        LET x == CHOOSE x \in u : TRUE
        IN  h[u \ {x}] = total(u \ {x})[u \ {x}]
  <2> SUFFICES ASSUME NEW u \in SUBSET s, u # {}
               PROVE  LET x == CHOOSE x \in u : TRUE
                      IN  h[u \ {x}] = total(u \ {x})[u \ {x}]
    OBVIOUS
  <2> DEFINE x == CHOOSE x \in u : TRUE
  <2>1. x \in u
    OBVIOUS
  <2>2. u \ {x} \in SUBSET s /\ u \ {x} # s
    BY <2>1
  <2> HIDE DEF h, total, x
  <2>3. h[u \ {x}] = total(u \ {x})[u \ {x}]
    BY <1>6, <2>2
  <2> QED
    BY <2>3 DEF x
<1>8. IsTotal(h, f, s)
  <2>1. h = [u \in SUBSET s |-> IF u = {} THEN Nothing
               ELSE LET x == CHOOSE x \in u : TRUE IN Plus(f[x], h[u \ {x}])]
    <3>1. ASSUME NEW u \in SUBSET s
          PROVE  h[u] = IF u = {} THEN Nothing
               ELSE LET x == CHOOSE x \in u : TRUE IN Plus(f[x], h[u \ {x}])
      <4>1. h[u] = IF u = {} THEN Nothing
              ELSE LET x == CHOOSE x \in u : TRUE IN Plus(f[x], total(u \ {x})[u \ {x}])
        OBVIOUS
      <4>2. u # {} => LET x == CHOOSE x \in u : TRUE
                      IN  h[u \ {x}] = total(u \ {x})[u \ {x}]
        BY <1>7
      <4> HIDE DEF h, total
      <4> QED
        BY <4>1, <4>2
    <3>2. h = [u \in SUBSET s |-> h[u]]
      OBVIOUS
    <3> HIDE DEF h
    <3> QED
      BY <3>1, <3>2
  <2> HIDE DEF h
  <2> QED
    BY <2>1 DEF IsTotal
<1> QED
  BY <1>4, <1>8

\* The total of no rows.
LEMMA TotalEmpty ==
  ASSUME NEW f
  PROVE  Total(f, {}) = Nothing
<1> DEFINE g == CHOOSE g : IsTotal(g, f, {})
<1>1. Total(f, {}) = g[{}]
  BY DEF Total, FoldFunctionOnSet, MapThenFoldSet, IsTotal
<1>2. IsTotal(g, f, {})
  BY FS_EmptySet, TotalExists
<1> HIDE DEF g
<1>3. {} \in SUBSET {}
  OBVIOUS
<1>4. g[{}] = Nothing
  BY <1>2, <1>3, TotalStep
<1> QED
  BY <1>1, <1>4

\* A total takes the rows in the order in which CHOOSE picks them ...
LEMMA TotalUnfold ==
  ASSUME NEW f, NEW S, IsFiniteSet(S), S # {}
  PROVE  LET x == CHOOSE x \in S : TRUE
         IN  Total(f, S) = Plus(f[x], Total(f, S \ {x}))
<1> DEFINE total(s) == CHOOSE g : IsTotal(g, f, s)
<1>1. \A s : Total(f, s) = total(s)[s]
  BY DEF Total, FoldFunctionOnSet, MapThenFoldSet, IsTotal
<1>2. \A s \in SUBSET S : IsFiniteSet(s) /\ IsTotal(total(s), f, s)
  BY FS_Subset, TotalExists
<1> HIDE DEF total
<1> DEFINE x == CHOOSE x \in S : TRUE
<1>3. total(S)[S] = Plus(f[x], total(S)[S \ {x}])
  BY <1>2, TotalStep
<1> HIDE DEF x
<1> DEFINE R == S \ {x}
<1>4. R \in SUBSET S /\ S \in SUBSET S /\ R \in SUBSET R
  OBVIOUS
<1> HIDE DEF R
<1>5. IsTotal(total(S), f, S) /\ IsTotal(total(R), f, R)
  BY <1>2, <1>4
<1>6. total(S)[S \ {x}] = total(S \ {x})[S \ {x}]
  <2> DEFINE g == total(S)
             h == total(R)
  <2>1. IsTotal(g, f, S) /\ IsTotal(h, f, R)
    BY <1>5
  <2> HIDE DEF g, h
  <2>2. g[R] = h[R]
    BY <1>4, <2>1, TotalUnique
  <2> QED
    BY <2>2 DEF g, h, R
<1>7. Total(f, S) = Plus(f[x], Total(f, S \ {x}))
  BY <1>1, <1>3, <1>6
<1> QED
  BY <1>7 DEF x

\* ... but any order gives it, if its rows are measures.
LEMMA TotalRemove ==
  ASSUME NEW f, NEW S, IsFiniteSet(S), \A x \in S : f[x] \in Measure
  PROVE  /\ Total(f, S) \in Measure
         /\ \A x \in S : Total(f, S) = Plus(f[x], Total(f, S \ {x}))
<1> DEFINE Holds(s) == /\ Total(f, s) \in Measure
                       /\ \A x \in s : Total(f, s) = Plus(f[x], Total(f, s \ {x}))
           T == {s \in SUBSET S : ~Holds(s)}
<1>1. SUFFICES ASSUME T # {} PROVE FALSE
  OBVIOUS
<1>2. \E s \in T : \A u \in T : u \subseteq s => u = s
  <2>1. T \in SUBSET SUBSET S
    OBVIOUS
  <2> HIDE DEF T
  <2> QED
    BY <1>1, <2>1, SmallestSet
<1>3. PICK s \in T : \A u \in T : u \subseteq s => u = s
  BY <1>2
<1>4. /\ s \in SUBSET S /\ ~Holds(s)
      /\ \A u \in SUBSET s : u # s => Holds(u)
  BY <1>3
<1> HIDE DEF T
<1>5. \A u \in SUBSET s : IsFiniteSet(u)
  BY <1>4, FS_Subset
<1>6. s # {}
  <2> SUFFICES ASSUME s = {} PROVE FALSE
    OBVIOUS
  <2>1. Total(f, s) = Nothing
    BY TotalEmpty
  <2>2. Holds(s)
    BY <2>1, NothingMeasured
  <2> HIDE DEF Holds
  <2> QED
    BY <1>4, <2>2
<1> DEFINE c == CHOOSE x \in s : TRUE
<1>7. c \in s
  BY <1>6
<1>8. Total(f, s) = Plus(f[c], Total(f, s \ {c}))
  BY <1>5, <1>6, TotalUnfold
<1> HIDE DEF c
<1>9. Holds(s \ {c})
  BY <1>4, <1>7
<1>10. f[c] \in Measure /\ Total(f, s \ {c}) \in Measure
  BY <1>4, <1>7, <1>9
<1>11. Total(f, s) \in Measure
  BY <1>8, <1>10, PlusFacts
<1>12. ASSUME NEW x \in s, x # c
       PROVE  Total(f, s) = Plus(f[x], Total(f, s \ {x}))
  <2>1. Holds(s \ {x})
    BY <1>4
  <2>2. (s \ {x}) \ {c} = (s \ {c}) \ {x}
    OBVIOUS
  <2>3. Total(f, s \ {c}) = Plus(f[x], Total(f, (s \ {c}) \ {x}))
    BY <1>9, <1>12
  <2>4. Total(f, s \ {x}) = Plus(f[c], Total(f, (s \ {c}) \ {x}))
    BY <1>7, <1>12, <2>1, <2>2
  <2>5. Total(f, (s \ {c}) \ {x}) \in Measure
    <3>1. (s \ {c}) \ {x} \in SUBSET s /\ (s \ {c}) \ {x} # s
      BY <1>7
    <3> QED
      BY <1>4, <3>1
  <2>6. f[x] \in Measure
    BY <1>4
  <2> QED
    BY <1>8, <1>10, <2>3, <2>4, <2>5, <2>6, PlusSwaps
<1> QED
  BY <1>4, <1>8, <1>11, <1>12

\* Rows that are alike have the same total.
LEMMA TotalSame ==
  ASSUME NEW f, NEW g, NEW S, IsFiniteSet(S), \A x \in S : f[x] \in Measure /\ g[x] = f[x]
  PROVE  Total(g, S) = Total(f, S)
<1> DEFINE T == {s \in SUBSET S : Total(g, s) # Total(f, s)}
<1>1. SUFFICES ASSUME T # {} PROVE FALSE
  OBVIOUS
<1>2. \E s \in T : \A u \in T : u \subseteq s => u = s
  <2>1. T \in SUBSET SUBSET S
    OBVIOUS
  <2> HIDE DEF T
  <2> QED
    BY <1>1, <2>1, SmallestSet
<1>3. PICK s \in T : \A u \in T : u \subseteq s => u = s
  BY <1>2
<1>4. /\ s \in SUBSET S /\ Total(g, s) # Total(f, s)
      /\ \A u \in SUBSET s : u # s => Total(g, u) = Total(f, u)
  BY <1>3
<1> HIDE DEF T
<1>5. s # {}
  <2> SUFFICES ASSUME s = {} PROVE FALSE
    OBVIOUS
  <2>1. Total(f, s) = Nothing /\ Total(g, s) = Nothing
    BY TotalEmpty
  <2> QED
    BY <1>4, <2>1
<1>6. PICK x \in s : TRUE
  BY <1>5
<1>7. IsFiniteSet(s) /\ \A y \in s : f[y] \in Measure /\ g[y] \in Measure
  BY <1>4, FS_Subset
<1>8. Total(f, s) = Plus(f[x], Total(f, s \ {x}))
  BY <1>7, TotalRemove
<1>9. Total(g, s) = Plus(g[x], Total(g, s \ {x}))
  BY <1>7, TotalRemove
<1>10. Total(g, s \ {x}) = Total(f, s \ {x})
  BY <1>4
<1> QED
  BY <1>4, <1>8, <1>9, <1>10

\* What is added to a row changes no total of others ...
LEMMA TotalOfOthers ==
  ASSUME NEW rows, \A j \in DOMAIN rows : rows[j] \in Measure,
         NEW keys \in SUBSET DOMAIN rows, IsFiniteSet(keys), NEW k, NEW m \in Measure,
         k \notin keys
  PROVE  Total(Added(rows, k, m), keys) = Total(rows, keys)
<1> DEFINE new == Added(rows, k, m)
<1>1. \A j \in keys : rows[j] \in Measure /\ new[j] = rows[j]
  BY DEF Added
<1> HIDE DEF new
<1>2. Total(new, keys) = Total(rows, keys)
  BY <1>1, TotalSame
<1> QED
  BY <1>2 DEF new

\* ... but is added to that of some rows when it is one of them or a new one.
LEMMA TotalAdded ==
  ASSUME NEW rows, \A j \in DOMAIN rows : rows[j] \in Measure,
         NEW keys \in SUBSET DOMAIN rows, IsFiniteSet(keys), NEW k, NEW m \in Measure,
         k \in keys \/ k \notin DOMAIN rows
  PROVE  Total(Added(rows, k, m), keys \cup {k}) = Plus(Total(rows, keys), m)
<1> DEFINE new == Added(rows, k, m)
<1>1. /\ DOMAIN new = DOMAIN rows \cup {k}
      /\ \A j \in DOMAIN new : new[j] \in Measure
  BY AddedFacts
<1>2. \A j \in DOMAIN rows \ {k} : new[j] = rows[j]
  BY DEF Added
<1>3. new[k] = Plus(Of(rows, k), m)
  BY DEF Added
<1>4. Of(rows, k) = IF k \in DOMAIN rows THEN rows[k] ELSE Nothing
  BY DEF Of
<1> HIDE DEF new
<1> DEFINE others == keys \ {k}
<1>5. IsFiniteSet(others) /\ IsFiniteSet(keys \cup {k})
  BY FS_Subset, FS_AddElement
<1>6. Total(new, others) = Total(rows, others) /\ Total(rows, others) \in Measure
  <2>1. \A j \in others : rows[j] \in Measure /\ new[j] = rows[j]
    BY <1>2
  <2> HIDE DEF others
  <2> QED
    BY <1>5, <2>1, TotalSame, TotalRemove
<1>7. Total(new, keys \cup {k}) = Plus(new[k], Total(new, others))
  <2>1. \A j \in keys \cup {k} : new[j] \in Measure
    BY <1>1
  <2>2. others = (keys \cup {k}) \ {k} /\ k \in keys \cup {k}
    OBVIOUS
  <2> HIDE DEF others
  <2> QED
    BY <1>5, <2>1, <2>2, TotalRemove
<1>8. CASE k \in keys
  <2>1. Total(rows, keys) = Plus(rows[k], Total(rows, others))
    BY <1>8, TotalRemove
  <2>2. new[k] = Plus(rows[k], m) /\ rows[k] \in Measure
    BY <1>3, <1>4, <1>8
  <2> HIDE DEF others
  <2>3. Plus(Plus(rows[k], m), Total(rows, others)) = Plus(rows[k], Plus(m, Total(rows, others)))
    BY <1>6, <2>2, PlusSwaps
  <2>4. Plus(Plus(rows[k], Total(rows, others)), m) = Plus(rows[k], Plus(Total(rows, others), m))
    BY <1>6, <2>2, PlusSwaps
  <2>5. Plus(m, Total(rows, others)) = Plus(Total(rows, others), m)
    BY <1>6, PlusSwaps
  <2>6. Total(new, keys \cup {k}) = Plus(Total(rows, keys), m)
    BY <1>6, <1>7, <2>1, <2>2, <2>3, <2>4, <2>5
  <2> QED
    BY <1>8, <2>6 DEF new
<1>9. CASE k \notin keys
  <2>1. others = keys
    BY <1>9
  <2>2. Total(new, keys) = Total(rows, keys) /\ Total(rows, keys) \in Measure
    BY <1>6, <2>1
  <2>3. new[k] = m
    BY <1>3, <1>4, <1>9, PlusSwaps
  <2> HIDE DEF others
  <2>4. Plus(m, Total(rows, keys)) = Plus(Total(rows, keys), m)
    BY <2>2, PlusSwaps
  <2>5. Total(new, keys \cup {k}) = Plus(Total(rows, keys), m)
    BY <1>7, <2>1, <2>2, <2>3, <2>4
  <2> QED
    BY <2>5 DEF new
<1> QED
  BY <1>8, <1>9

------------------------------------------------------------------------------
(* What came in is counted once.                                           *)

StoredOf(g) == {k \in DOMAIN stored : GroupOf(k) = g}
WaitingOf(g) == {k \in DOMAIN buffer \ Done : GroupOf(k) = g}

Counted(g) == Plus(Total(stored, StoredOf(g)), Total(buffer, WaitingOf(g)))

\* What came in of g, which may be nothing yet.
Exact(g, sum) ==
  /\ AtMost(Counted(g), sum)
  /\ ~lossy => Counted(g) = sum

IsRetained(hour) == StartOf(hour) >= now - Retention * UnitsPerHour

\* There are finitely many rows, of names and hours of which something came in.
GroupsInv ==
  /\ IsFiniteSet(DOMAIN stored) /\ IsFiniteSet(DOMAIN buffer)
  /\ \A g \in DOMAIN received : received[g] \in Measure /\ g.hour \in Hour
  /\ \A k \in DOMAIN stored \cup DOMAIN buffer : GroupOf(k) \in DOMAIN received

\* What a store has done and what it goes through are rows of its series.  Unless
\* stores of a series have overlapped there is one of it, which goes through the
\* array that the events are added to.
LoopsInv ==
  \A l \in Loop :
    /\ stores[l].series \notin Series => stores[l] = NoStore
    /\ \A k \in stores[l].done \cup DOMAIN stores[l].rows : k.series = stores[l].series
    /\ \A k \in DOMAIN stores[l].rows : GroupOf(k) \in DOMAIN received
    /\ stores[l].series \in Series \ overlapped =>
         /\ stores[l].live
         /\ \A m \in Loop \ {l} : stores[m].series # stores[l].series

CountsInv ==
  /\ GroupsInv /\ LoopsInv
  /\ \A g \in DOMAIN received :
       IsRetained(g.hour) /\ g.series \notin overlapped => Exact(g, received[g])

TotalsInv == MeasuresInv /\ CountsInv

\* The totals of a name and an hour are measures.
LEMMA CountedType ==
  ASSUME TotalsInv, NEW g
  PROVE  /\ IsFiniteSet(StoredOf(g)) /\ IsFiniteSet(WaitingOf(g))
         /\ \A k \in StoredOf(g) : stored[k] \in Measure
         /\ \A k \in WaitingOf(g) : buffer[k] \in Measure
         /\ Total(stored, StoredOf(g)) \in Measure /\ Total(buffer, WaitingOf(g)) \in Measure
         /\ Counted(g) \in Measure
         /\ StoredOf(g) \in SUBSET DOMAIN stored /\ WaitingOf(g) \in SUBSET DOMAIN buffer
<1>1. /\ StoredOf(g) \in SUBSET DOMAIN stored /\ WaitingOf(g) \in SUBSET DOMAIN buffer
      /\ \A k \in StoredOf(g) : stored[k] \in Measure
      /\ \A k \in WaitingOf(g) : buffer[k] \in Measure
  BY DEF StoredOf, WaitingOf, TotalsInv, MeasuresInv
<1>2. IsFiniteSet(StoredOf(g)) /\ IsFiniteSet(WaitingOf(g))
  BY <1>1, FS_Subset DEF TotalsInv, CountsInv, GroupsInv
<1>3. Total(stored, StoredOf(g)) \in Measure /\ Total(buffer, WaitingOf(g)) \in Measure
  BY <1>1, <1>2, TotalRemove
<1> QED
  BY <1>1, <1>2, <1>3, PlusFacts DEF Counted

\* So it is of what did not come in.
LEMMA ReceivedExact ==
  ASSUME TotalsInv, NEW g, IsRetained(g.hour), g.series \notin overlapped
  PROVE  Exact(g, Of(received, g)) /\ Of(received, g) \in Measure
<1>1. CASE g \in DOMAIN received
  BY <1>1 DEF TotalsInv, CountsInv, GroupsInv, Of
<1>2. CASE g \notin DOMAIN received
  <2>1. StoredOf(g) = {} /\ WaitingOf(g) = {}
    BY <1>2 DEF StoredOf, WaitingOf, TotalsInv, CountsInv, GroupsInv
  <2>2. Counted(g) = Plus(Nothing, Nothing)
    BY <2>1, TotalEmpty DEF Counted
  <2>3. Counted(g) = Nothing /\ Of(received, g) = Nothing
    BY <1>2, <2>2, NothingMeasured, PlusSwaps DEF Of
  <2> QED
    BY <2>3, NothingMeasured, PlusFacts DEF Exact
<1> QED
  BY <1>1, <1>2

\* Measures compare when something is added.
LEMMA AtMostPlus ==
  ASSUME NEW a \in Measure, NEW b \in Measure, NEW m \in Measure, AtMost(a, b)
  PROVE  AtMost(Plus(a, m), Plus(b, m)) /\ AtMost(a, Plus(b, m))
  BY DEF AtMost, Plus, Measure

\* An event waits to be stored, and is lost when its row is stored already.
LEMMA AddTotals ==
  ASSUME TotalsInv, NEW k \in Key, NEW m \in Measure, Add(k, m)
  PROVE  CountsInv'
<1> DEFINE own == GroupOf(k)
<1>1. /\ buffer' = Added(buffer, k, m) /\ received' = Added(received, own, m)
      /\ lossy' = (lossy \/ k \in Done) /\ UNCHANGED <<now, stores, stored, overlapped>>
      /\ Done' = Done
  BY DEF Add, Done
<1>2. \A j \in DOMAIN buffer : buffer[j] \in Measure
  BY DEF TotalsInv, MeasuresInv
<1>3. \A g \in DOMAIN received : received[g] \in Measure /\ g.hour \in Hour
  BY DEF TotalsInv, CountsInv, GroupsInv
<1>4. DOMAIN buffer' = DOMAIN buffer \cup {k}
  BY <1>1, <1>2, AddedFacts
<1>5. /\ DOMAIN received' = DOMAIN received \cup {own}
      /\ \A g \in DOMAIN received' : received'[g] \in Measure
  BY <1>1, <1>3, AddedFacts
<1>6. own.hour \in Hour
  BY DEF GroupOf, Key, Row
<1>7. GroupsInv'
  <2>1. IsFiniteSet(DOMAIN stored') /\ IsFiniteSet(DOMAIN buffer')
    BY <1>1, <1>4, FS_AddElement DEF TotalsInv, CountsInv, GroupsInv
  <2>2. \A g \in DOMAIN received' : received'[g] \in Measure /\ g.hour \in Hour
    BY <1>3, <1>5, <1>6
  <2>3. \A j \in DOMAIN stored' \cup DOMAIN buffer' : GroupOf(j) \in DOMAIN received'
    BY <1>1, <1>4, <1>5 DEF TotalsInv, CountsInv, GroupsInv
  <2> QED
    BY <2>1, <2>2, <2>3 DEF GroupsInv
<1>9. LoopsInv'
  BY <1>1, <1>5 DEF TotalsInv, CountsInv, LoopsInv, GroupOf
<1>8. ASSUME NEW g \in DOMAIN received', IsRetained(g.hour)', (g.series \notin overlapped)'
      PROVE  Exact(g, received[g])'
  <2>1. IsRetained(g.hour) /\ g.series \notin overlapped
    BY <1>1, <1>8 DEF IsRetained, StartOf
  <2>2. /\ IsFiniteSet(WaitingOf(g)) /\ WaitingOf(g) \in SUBSET DOMAIN buffer
        /\ Total(stored, StoredOf(g)) \in Measure /\ Total(buffer, WaitingOf(g)) \in Measure
        /\ Counted(g) \in Measure
    BY CountedType
  <2>3. Counted(g)' = Plus(Total(stored, StoredOf(g)), Total(buffer', WaitingOf(g)'))
    BY <1>1 DEF Counted, StoredOf, GroupOf
  <2>4. Exact(g, Of(received, g)) /\ Of(received, g) \in Measure
    BY <2>1, ReceivedExact
  <2>5. CASE g # own
    <3>1. WaitingOf(g)' = WaitingOf(g) /\ k \notin WaitingOf(g)
      BY <1>1, <1>4, <2>5 DEF WaitingOf, GroupOf
    <3>2. Total(buffer', WaitingOf(g)) = Total(buffer, WaitingOf(g))
      <4>1. Total(Added(buffer, k, m), WaitingOf(g)) = Total(buffer, WaitingOf(g))
        BY <1>2, <2>2, <3>1, TotalOfOthers
      <4> QED
        BY <1>1, <4>1
    <3>3. received'[g] = Of(received, g)
      BY <1>1, <1>5, <2>5 DEF Added, Of
    <3>4. Counted(g)' = Counted(g)
      BY <2>3, <3>1, <3>2 DEF Counted
    <3> QED
      BY <1>1, <2>4, <3>3, <3>4 DEF Exact
  <2>6. CASE g = own /\ k \notin Done
    <3>1. WaitingOf(g)' = WaitingOf(g) \cup {k} /\ (k \in WaitingOf(g) \/ k \notin DOMAIN buffer)
      BY <1>1, <1>4, <2>6 DEF WaitingOf, GroupOf
    <3>2. Total(buffer', WaitingOf(g) \cup {k}) = Plus(Total(buffer, WaitingOf(g)), m)
      <4>1. Total(Added(buffer, k, m), WaitingOf(g) \cup {k})
              = Plus(Total(buffer, WaitingOf(g)), m)
        BY <1>2, <2>2, <3>1, TotalAdded
      <4> QED
        BY <1>1, <4>1
    <3>3. received'[g] = Plus(Of(received, g), m)
      BY <1>1, <1>5, <2>6 DEF Added
    <3>4. Counted(g)' = Plus(Counted(g), m)
      BY <2>2, <2>3, <3>1, <3>2, PlusSwaps DEF Counted
    <3>5. AtMost(Plus(Counted(g), m), Plus(Of(received, g), m))
      BY <2>2, <2>4, AtMostPlus DEF Exact
    <3> QED
      BY <1>1, <2>4, <3>3, <3>4, <3>5 DEF Exact
  <2>7. CASE g = own /\ k \in Done
    <3>1. WaitingOf(g)' = WaitingOf(g) /\ k \notin WaitingOf(g)
      BY <1>1, <1>4, <2>7 DEF WaitingOf, GroupOf
    <3>2. Total(buffer', WaitingOf(g)) = Total(buffer, WaitingOf(g))
      <4>1. Total(Added(buffer, k, m), WaitingOf(g)) = Total(buffer, WaitingOf(g))
        BY <1>2, <2>2, <3>1, TotalOfOthers
      <4> QED
        BY <1>1, <4>1
    <3>3. received'[g] = Plus(Of(received, g), m)
      BY <1>1, <1>5, <2>7 DEF Added
    <3>4. Counted(g)' = Counted(g)
      BY <2>3, <3>1, <3>2 DEF Counted
    <3>5. AtMost(Counted(g), Plus(Of(received, g), m))
      BY <2>2, <2>4, AtMostPlus DEF Exact
    <3> QED
      BY <1>1, <2>7, <3>3, <3>4, <3>5 DEF Exact
  <2> QED
    BY <2>5, <2>6, <2>7
<1> QED
  BY <1>7, <1>8, <1>9 DEF CountsInv

\* A row that waited is stored.
LEMMA StoreTotals ==
  ASSUME TotalsInv, NEW l \in Loop, NEW k \in DOMAIN ArrayOf(l), StoreRow(l, k)
  PROVE  CountsInv'
<1> DEFINE own == GroupOf(k)
           row == StoredAs(k)
           m == ArrayOf(l)[k]
<1>1. /\ stored' = Added(stored, row, m)
      /\ stores' = [stores EXCEPT ![l].done = @ \cup {k}]
      /\ UNCHANGED <<now, buffer, received, lossy, overlapped>>
  BY DEF StoreRow
<1>2. k \in Key /\ m \in Measure /\ \A j \in DOMAIN stored : stored[j] \in Measure
  BY ArrayMeasures DEF TotalsInv, MeasuresInv
<1>7. /\ \A n \in Loop \ {l} : stores'[n] = stores[n]
      /\ stores'[l] = [stores[l] EXCEPT !.done = @ \cup {k}]
      /\ stores[l] \in StoreType
  BY <1>1 DEF TotalsInv, MeasuresInv
<1>8. k.series = stores[l].series /\ GroupOf(k) \in DOMAIN received
  BY DEF ArrayOf, RowsOf, TotalsInv, CountsInv, LoopsInv, GroupsInv
<1>9. LoopsInv'
  <2>1. /\ stores'[l].series = stores[l].series /\ stores'[l].live = stores[l].live
        /\ stores'[l].rows = stores[l].rows /\ stores'[l].done = stores[l].done \cup {k}
    BY <1>7 DEF StoreType
  <2>2. stores[l].series \in Series
    BY DEF ArrayOf, NoStore, NoRows, TotalsInv, CountsInv, LoopsInv
  <2>3. \A n \in Loop : stores'[n].series = stores[n].series /\ stores'[n].live = stores[n].live
                         /\ stores'[n].rows = stores[n].rows
    BY <1>7, <2>1
  <2>4. received' = received /\ overlapped' = overlapped /\ LoopsInv
    BY <1>1 DEF TotalsInv, CountsInv
  <2> SUFFICES ASSUME NEW n \in Loop
               PROVE  /\ stores'[n].series \notin Series => stores'[n] = NoStore
                      /\ \A j \in stores'[n].done \cup DOMAIN stores'[n].rows :
                           j.series = stores'[n].series
                      /\ \A j \in DOMAIN stores'[n].rows : GroupOf(j) \in DOMAIN received
                      /\ stores'[n].series \in Series \ overlapped =>
                           /\ stores'[n].live
                           /\ \A i \in Loop \ {n} : stores'[i].series # stores'[n].series
    BY <2>4 DEF LoopsInv, GroupOf
  <2>5. CASE n = l
    <3>1. \A j \in stores[l].done \cup {k} \cup DOMAIN stores[l].rows : j.series = stores[l].series
      BY <1>8, <2>4 DEF LoopsInv
    <3>2. /\ \A j \in DOMAIN stores[l].rows : GroupOf(j) \in DOMAIN received
          /\ stores[l].series \in Series \ overlapped =>
               /\ stores[l].live
               /\ \A i \in Loop \ {l} : stores[i].series # stores[l].series
      BY <2>4 DEF LoopsInv
    <3> QED
      BY <2>1, <2>2, <2>3, <2>5, <3>1, <3>2
  <2>6. CASE n # l
    BY <1>7, <2>3, <2>4, <2>6 DEF LoopsInv
  <2> QED
    BY <2>5, <2>6
<1>10. Done' = IF stores[l].live THEN Done \cup {k} ELSE Done
  <2>1. /\ stores'[l].live = stores[l].live /\ stores'[l].done = stores[l].done \cup {k}
    BY <1>7 DEF StoreType
  <2>2. ASSUME NEW j
        PROVE  j \in Done' <=> j \in Done \/ (j = k /\ stores[l].live)
    <3>1. j \in Done <=> \E n \in Loop : stores[n].live /\ j \in stores[n].done
      BY DEF Done
    <3>2. j \in Done' <=> \E n \in Loop : stores'[n].live /\ j \in stores'[n].done
      BY DEF Done
    <3> QED
      BY <1>7, <2>1, <3>1, <3>2
  <2>3. \A j : j \in Done' <=> j \in IF stores[l].live THEN Done \cup {k} ELSE Done
    BY <2>2
  <2>4. ASSUME NEW A, NEW B, \A j : j \in A <=> j \in B
        PROVE  A = B
    BY <2>4
  <2> QED
    BY <2>3, <2>4, Zenon
<1>11. ASSUME k.series \notin overlapped
       PROVE  stores[l].live /\ k \in DOMAIN buffer \ Done /\ m = buffer[k]
  <2>1. k.series \in Series
    BY <1>2 DEF Key, Row, Series
  <2>2. stores[l].live /\ \A n \in Loop \ {l} : stores[n].series # k.series
    BY <1>8, <1>11, <2>1 DEF TotalsInv, CountsInv, LoopsInv
  <2>3. k \in DOMAIN buffer /\ m = buffer[k]
    BY <2>2 DEF ArrayOf, RowsOf
  <2>4. k \notin Done
    BY <2>2 DEF Done, StoreRow, TotalsInv, CountsInv, LoopsInv
  <2> QED
    BY <2>2, <2>3, <2>4
<1>3. GroupOf(row) = own
  BY <1>2 DEF StoredAs, GroupOf, Key, Row
<1>4. DOMAIN stored' = DOMAIN stored \cup {row}
  BY <1>1, <1>2, AddedFacts
<1> HIDE DEF row, m
<1>5. GroupsInv'
  <2>1. IsFiniteSet(DOMAIN stored')
    BY <1>4, FS_AddElement DEF TotalsInv, CountsInv, GroupsInv
  <2>2. \A j \in DOMAIN stored' \cup DOMAIN buffer' : GroupOf(j) \in DOMAIN received'
    BY <1>1, <1>3, <1>4, <1>8 DEF TotalsInv, CountsInv, GroupsInv
  <2> QED
    BY <1>1, <2>1, <2>2 DEF TotalsInv, CountsInv, GroupsInv
<1>6. ASSUME NEW g \in DOMAIN received', IsRetained(g.hour)', (g.series \notin overlapped)'
      PROVE  Exact(g, received[g])'
  <2>1. IsRetained(g.hour) /\ Exact(g, received[g])
    BY <1>1, <1>6 DEF IsRetained, StartOf, TotalsInv, CountsInv
  <2>2. /\ IsFiniteSet(WaitingOf(g)) /\ WaitingOf(g) \in SUBSET DOMAIN buffer
        /\ IsFiniteSet(StoredOf(g)) /\ StoredOf(g) \in SUBSET DOMAIN stored
        /\ Total(stored, StoredOf(g)) \in Measure /\ Total(buffer, WaitingOf(g)) \in Measure
        /\ \A j \in WaitingOf(g) : buffer[j] \in Measure
    BY CountedType
  <2>3. Counted(g)' = Plus(Total(stored', StoredOf(g)'), Total(buffer, WaitingOf(g)'))
    BY <1>1 DEF Counted
  <2>4. CASE g # own
    <3>1. StoredOf(g)' = StoredOf(g) /\ row \notin StoredOf(g)
      BY <1>3, <1>4, <2>4 DEF StoredOf, GroupOf
    <3>2. WaitingOf(g)' = WaitingOf(g)
      BY <1>1, <1>10, <2>4 DEF WaitingOf, GroupOf
    <3>3. Total(stored', StoredOf(g)) = Total(stored, StoredOf(g))
      <4>1. Total(Added(stored, row, m), StoredOf(g)) = Total(stored, StoredOf(g))
        BY <1>2, <2>2, <3>1, TotalOfOthers
      <4> QED
        BY <1>1, <4>1
    <3>4. Counted(g)' = Counted(g)
      BY <2>3, <3>1, <3>2, <3>3 DEF Counted
    <3> QED
      BY <1>1, <2>1, <3>4 DEF Exact
  <2>5. CASE g = own
    <3>1. StoredOf(g)' = StoredOf(g) \cup {row} /\ (row \in StoredOf(g) \/ row \notin DOMAIN stored)
      BY <1>3, <1>4, <2>5 DEF StoredOf, GroupOf
    <3>2. WaitingOf(g)' = WaitingOf(g) \ {k} /\ k \in WaitingOf(g) /\ m = buffer[k]
      <4>1. k.series \notin overlapped
        BY <1>1, <1>6, <2>5 DEF GroupOf
      <4> QED
        BY <1>1, <1>10, <1>11, <2>5, <4>1 DEF WaitingOf, GroupOf
    <3>3. Total(stored', StoredOf(g) \cup {row}) = Plus(Total(stored, StoredOf(g)), m)
      <4>1. Total(Added(stored, row, m), StoredOf(g) \cup {row})
              = Plus(Total(stored, StoredOf(g)), m)
        BY <1>2, <2>2, <3>1, TotalAdded
      <4> QED
        BY <1>1, <4>1
    <3>4. Total(buffer, WaitingOf(g)) = Plus(m, Total(buffer, WaitingOf(g) \ {k}))
      BY <2>2, <3>2, TotalRemove
    <3>5. Total(buffer, WaitingOf(g) \ {k}) \in Measure
      <4>1. IsFiniteSet(WaitingOf(g) \ {k})
        BY <2>2, FS_Subset
      <4> QED
        BY <2>2, <4>1, TotalRemove
    <3>6. Counted(g)' = Counted(g)
      <4> DEFINE s == Total(stored, StoredOf(g))
                 w == Total(buffer, WaitingOf(g) \ {k})
      <4>1. Counted(g)' = Plus(Plus(s, m), w)
        BY <2>3, <3>1, <3>2, <3>3
      <4>2. Counted(g) = Plus(s, Plus(m, w))
        BY <3>4 DEF Counted
      <4>3. s \in Measure /\ m \in Measure /\ w \in Measure
        BY <1>2, <2>2, <3>5
      <4> HIDE DEF s, w
      <4> QED
        BY <4>1, <4>2, <4>3, PlusSwaps
    <3> QED
      BY <1>1, <2>1, <3>6 DEF Exact
  <2> QED
    BY <2>4, <2>5
<1> QED
  BY <1>5, <1>6, <1>9 DEF CountsInv

\* A step that leaves the rows that wait, and those of the hours that are kept.
LEMMA SameTotals ==
  ASSUME TotalsInv, received' = received, lossy' = lossy, overlapped \subseteq overlapped',
         now' \in {now, now + 1}, now \in Int,
         DOMAIN stored' \subseteq DOMAIN stored, \A k \in DOMAIN stored' : stored'[k] = stored[k],
         DOMAIN buffer' \subseteq DOMAIN buffer, \A k \in DOMAIN buffer' : buffer'[k] = buffer[k],
         \A g \in DOMAIN received : g.series \notin overlapped' => WaitingOf(g)' = WaitingOf(g),
         \A k \in DOMAIN stored : IsRetained(k.hour) => k \in DOMAIN stored',
         LoopsInv'
  PROVE  CountsInv'
<1>1. GroupsInv'
  BY FS_Subset DEF TotalsInv, CountsInv, GroupsInv
<1>2. ASSUME NEW g \in DOMAIN received', IsRetained(g.hour)', (g.series \notin overlapped)'
      PROVE  Exact(g, received[g])'
  <2>1. g.hour \in Hour
    BY DEF TotalsInv, CountsInv, GroupsInv
  <2>2. StartOf(g.hour) \in Int
    <3>1. \A time \in Time : HourOf(time) \in Int
      BY BoundAssumption DEF Time, HourOf
    <3> QED
      BY <2>1, <3>1, BoundAssumption DEF Hour, StartOf
  <2>3. IsRetained(g.hour)
    <3>1. Retention * UnitsPerHour \in Int
      BY BoundAssumption
    <3> QED
      BY <1>2, <2>2, <3>1 DEF IsRetained, StartOf
  <2>4. Exact(g, received[g])
    BY <1>2, <2>3 DEF TotalsInv, CountsInv
  <2>5. StoredOf(g)' = StoredOf(g) /\ WaitingOf(g)' = WaitingOf(g)
    <3>1. \A k : GroupOf(k) = g => k.hour = g.hour
      BY DEF GroupOf
    <3>2. WaitingOf(g)' = WaitingOf(g)
      BY <1>2
    <3>3. StoredOf(g)' = StoredOf(g)
      BY <2>3, <3>1 DEF StoredOf, GroupOf
    <3> QED
      BY <3>2, <3>3
  <2>6. /\ IsFiniteSet(StoredOf(g)) /\ IsFiniteSet(WaitingOf(g))
        /\ \A k \in StoredOf(g) : stored[k] \in Measure
        /\ \A k \in WaitingOf(g) : buffer[k] \in Measure
    BY CountedType
  <2>7. \A k \in StoredOf(g) : stored'[k] = stored[k]
    BY <2>5 DEF StoredOf
  <2>8. \A k \in WaitingOf(g) : buffer'[k] = buffer[k]
    BY <2>5 DEF WaitingOf
  <2>9. Total(stored', StoredOf(g)) = Total(stored, StoredOf(g))
    BY <2>6, <2>7, TotalSame
  <2>10. Total(buffer', WaitingOf(g)) = Total(buffer, WaitingOf(g))
    BY <2>6, <2>8, TotalSame
  <2>11. Counted(g)' = Counted(g)
    BY <2>5, <2>9, <2>10 DEF Counted
  <2> QED
    BY <2>4, <2>11 DEF Exact
<1> QED
  BY <1>1, <1>2 DEF CountsInv

\* A store that does not run is of no series and has no rows.
LEMMA NoStoreInert ==
  /\ NoStore.series = "none" /\ "none" \notin Series /\ NoStore.live = FALSE
  /\ NoStore.done = {} /\ DOMAIN NoStore.rows = {}
  BY DEF NoStore, NoRows, Series

\* What waited is lost.
LEMMA CrashTotals ==
  ASSUME TotalsInv, Crash
  PROVE  CountsInv'
<1>1. /\ buffer' = NoRows /\ DOMAIN buffer' = {} /\ lossy' = (lossy \/ buffer # NoRows)
      /\ stores' = [l \in Loop |-> NoStore]
      /\ UNCHANGED <<now, stored, received, overlapped>>
  BY DEF Crash, NoRows
<1>4. LoopsInv'
  BY <1>1, NoStoreInert DEF LoopsInv
<1>2. GroupsInv'
  BY <1>1, FS_EmptySet DEF TotalsInv, CountsInv, GroupsInv
<1>3. ASSUME NEW g \in DOMAIN received', IsRetained(g.hour)', (g.series \notin overlapped)'
      PROVE  Exact(g, received[g])'
  <2>1. Exact(g, received[g]) /\ received[g] \in Measure
    BY <1>1, <1>3 DEF TotalsInv, CountsInv, GroupsInv, IsRetained, StartOf
  <2>2. WaitingOf(g)' = {} /\ StoredOf(g)' = StoredOf(g)
    BY <1>1 DEF WaitingOf, StoredOf, GroupOf
  <2>3. Total(stored, StoredOf(g)) \in Measure /\ Total(buffer, WaitingOf(g)) \in Measure
    BY CountedType
  <2>4. Counted(g)' = Plus(Total(stored, StoredOf(g)), Nothing)
    BY <1>1, <2>2, TotalEmpty DEF Counted
  <2>5. Counted(g)' = Total(stored, StoredOf(g))
    BY <2>3, <2>4, PlusSwaps
  <2>6. AtMost(Counted(g)', received[g])
    BY <2>1, <2>3, <2>5 DEF Exact, Counted, AtMost, Plus, Measure
  <2>7. ASSUME ~lossy' PROVE Counted(g)' = received[g]
    <3>1. ~lossy /\ DOMAIN buffer = {}
      BY <1>1, <2>7 DEF NoRows
    <3>2. WaitingOf(g) = {}
      BY <3>1 DEF WaitingOf
    <3>3. Counted(g) = Plus(Total(stored, StoredOf(g)), Nothing)
      BY <3>2, TotalEmpty DEF Counted
    <3> QED
      BY <2>1, <2>4, <3>1, <3>3 DEF Exact
  <2> QED
    BY <1>1, <2>6, <2>7 DEF Exact
<1> QED
  BY <1>2, <1>3, <1>4 DEF CountsInv

\* A store that starts has done nothing.
LEMMA StartTotals ==
  ASSUME TotalsInv, NEW l \in Loop, NEW series \in Series, StartStore(l, series)
  PROVE  CountsInv'
<1> DEFINE new == [NoStore EXCEPT !.series = series, !.live = TRUE]
<1>1. /\ stores[l] = NoStore /\ stores' = [stores EXCEPT ![l] = new]
      /\ overlapped' = IF \E m \in Loop : stores[m].series = series
                       THEN overlapped \cup {series} ELSE overlapped
      /\ UNCHANGED <<now, buffer, stored, received, lossy>>
  BY DEF StartStore
<1>2. /\ new.series = series /\ new.live /\ new.done = {} /\ DOMAIN new.rows = {}
  BY DEF NoStore, NoRows
<1> HIDE DEF new
<1>3. /\ stores'[l] = new /\ \A m \in Loop \ {l} : stores'[m] = stores[m]
      /\ ~stores[l].live /\ now \in Int
  BY <1>1, NoStoreInert DEF TotalsInv, MeasuresInv, Time
<1>4. Done' = Done
  BY <1>2, <1>3 DEF Done
<1>5. LoopsInv'
  <2>1. overlapped \subseteq overlapped'
    BY <1>1
  <2>2. ASSUME NEW m \in Loop \ {l}
        PROVE  stores[m].series = series => series \in overlapped'
    BY <1>1
  <2> QED
    BY <1>1, <1>2, <1>3, <2>1, <2>2 DEF TotalsInv, CountsInv, LoopsInv, GroupOf
<1> QED
  BY <1>1, <1>3, <1>4, <1>5, SameTotals DEF WaitingOf, GroupOf

\* An array whose rows are all stored makes room for the next one.
LEMMA EndTotals ==
  ASSUME TotalsInv, NEW l \in Loop, EndStore(l)
  PROVE  CountsInv'
<1> DEFINE series == stores[l].series
<1>1. /\ stores[l] # NoStore /\ DOMAIN ArrayOf(l) \subseteq stores[l].done
      /\ UNCHANGED <<now, stored, received, lossy, overlapped>>
      /\ DOMAIN buffer' = DOMAIN buffer \ RowsOf(series)
      /\ \A k \in DOMAIN buffer' : buffer'[k] = buffer[k]
  BY DEF EndStore
<1>2. /\ stores'[l] = NoStore
      /\ \A m \in Loop \ {l} : stores[m].series # series => stores'[m] = stores[m]
      /\ \A m \in Loop \ {l} : stores[m].series = series =>
           stores'[m] = [stores[m] EXCEPT !.live = FALSE, !.rows = ArrayOf(m)]
  BY DEF EndStore
<1>3. now \in Int /\ series \in Series
  BY <1>1 DEF TotalsInv, MeasuresInv, Time, CountsInv, LoopsInv
<1>4. ASSUME NEW m \in Loop \ {l}, stores[m].series = series
      PROVE  /\ stores'[m].series = series /\ ~stores'[m].live
             /\ stores'[m].rows = ArrayOf(m) /\ stores'[m].done = stores[m].done
  <2>1. stores[m] \in StoreType
    BY DEF TotalsInv, MeasuresInv
  <2> QED
    BY <1>2, <1>4, <2>1 DEF StoreType
<1>5. LoopsInv'
  <2> SUFFICES ASSUME NEW m \in Loop
               PROVE  /\ stores'[m].series \notin Series => stores'[m] = NoStore
                      /\ \A k \in stores'[m].done \cup DOMAIN stores'[m].rows :
                           k.series = stores'[m].series
                      /\ \A k \in DOMAIN stores'[m].rows : GroupOf(k) \in DOMAIN received
                      /\ stores'[m].series \in Series \ overlapped =>
                           /\ stores'[m].live
                           /\ \A n \in Loop \ {m} : stores'[n].series # stores'[m].series
    BY <1>1 DEF LoopsInv, GroupOf
  <2>1. CASE m = l
    BY <1>2, <2>1, NoStoreInert
  <2>2. CASE m # l /\ stores[m].series # series
    <3>1. stores'[m] = stores[m]
      BY <1>2, <2>2
    <3>2. ASSUME NEW n \in Loop
          PROVE  stores'[n].series \in {stores[n].series, "none"}
      <4>1. stores'[l].series = "none"
        BY <1>2, NoStoreInert
      <4>2. n # l => stores'[n].series = stores[n].series
        BY <1>2, <1>4
      <4> QED
        BY <4>1, <4>2
    <3>3. stores[m].series \in Series => stores[m].series # "none"
      BY DEF Series
    <3> QED
      BY <3>1, <3>2, <3>3 DEF TotalsInv, CountsInv, LoopsInv
  <2>3. CASE m # l /\ stores[m].series = series
    <3>1. series \in overlapped
      BY <1>3, <2>3 DEF TotalsInv, CountsInv, LoopsInv
    <3>2. \A k \in DOMAIN ArrayOf(m) : k.series = series /\ GroupOf(k) \in DOMAIN received
      BY <2>3 DEF ArrayOf, RowsOf, TotalsInv, CountsInv, LoopsInv, GroupsInv
    <3> QED
      BY <1>3, <1>4, <2>3, <3>1, <3>2 DEF TotalsInv, CountsInv, LoopsInv
  <2> QED
    BY <2>1, <2>2, <2>3
<1>6. ASSUME NEW g \in DOMAIN received, g.series \notin overlapped
      PROVE  WaitingOf(g)' = WaitingOf(g)
  <2>1. \A k : GroupOf(k) = g => k.series = g.series
    BY DEF GroupOf
  <2>2. CASE g.series = series
    <3>1. stores[l].live
      BY <1>3, <1>6, <2>2 DEF TotalsInv, CountsInv, LoopsInv
    <3>2. RowsOf(series) \subseteq Done
      BY <1>1, <3>1 DEF ArrayOf, Done
    <3>3. WaitingOf(g) = {} /\ WaitingOf(g)' = {}
      BY <1>1, <2>1, <2>2, <3>2 DEF WaitingOf, RowsOf, GroupOf
    <3> QED
      BY <3>3
  <2>3. CASE g.series # series
    <3>1. ASSUME NEW k, k.series = g.series
          PROVE  k \in Done' <=> k \in Done
      <4>1. ASSUME NEW m \in Loop
            PROVE  stores[m].live /\ k \in stores[m].done
                     <=> stores'[m].live /\ k \in stores'[m].done
        <5>1. CASE stores[m].series = series
          <6>1. k \notin stores[m].done
            BY <2>3, <3>1, <5>1 DEF TotalsInv, CountsInv, LoopsInv
          <6>2. m = l => k \notin stores'[m].done
            BY <1>2, NoStoreInert
          <6> QED
            BY <1>4, <5>1, <6>1, <6>2
        <5>2. CASE stores[m].series # series
          BY <1>2, <5>2
        <5> QED
          BY <5>1, <5>2
      <4> QED
        BY <4>1 DEF Done
    <3>2. \A k : k.series = g.series => (k \in DOMAIN buffer' <=> k \in DOMAIN buffer)
      BY <1>1, <2>3 DEF RowsOf
    <3> QED
      BY <2>1, <3>1, <3>2 DEF WaitingOf, GroupOf
  <2> QED
    BY <2>2, <2>3
<1> QED
  BY <1>1, <1>3, <1>5, <1>6, SameTotals

\* What a timer deletes is not kept.
LEMMA PruneTotals ==
  ASSUME TotalsInv, NEW series \in Series, Prune(series)
  PROVE  CountsInv'
<1>1. /\ DOMAIN stored' = {j \in DOMAIN stored : j.series = series =>
                             StartOf(j.hour) >= now - Retention * UnitsPerHour}
      /\ \A j \in DOMAIN stored' : stored'[j] = stored[j]
      /\ UNCHANGED <<now, buffer, stores, received, lossy, overlapped>>
  BY DEF Prune
<1>2. \A j \in DOMAIN stored : IsRetained(j.hour) => j \in DOMAIN stored'
  BY <1>1 DEF IsRetained
<1>3. now \in Int
  BY DEF TotalsInv, MeasuresInv, Time
<1>4. Done' = Done /\ LoopsInv'
  BY <1>1 DEF Done, TotalsInv, CountsInv, LoopsInv, GroupOf
<1> QED
  BY <1>1, <1>2, <1>3, <1>4, SameTotals DEF WaitingOf, GroupOf

\* The clock may go on.
LEMMA IdleTotals ==
  ASSUME TotalsInv, UNCHANGED <<buffer, stores, stored, received, lossy, overlapped>>,
         now' \in {now, now + 1}
  PROVE  CountsInv'
<1>1. now \in Int
  BY DEF TotalsInv, MeasuresInv, Time
<1>2. Done' = Done /\ LoopsInv'
  BY DEF Done, TotalsInv, CountsInv, LoopsInv, GroupOf
<1> QED
  BY <1>1, <1>2, SameTotals DEF WaitingOf, GroupOf

LEMMA WorkerTotals ==
  ASSUME TotalsInv, MetricNext
  PROVE  CountsInv'
<1>h. now \in Time /\ HourOf(now) \in Hour
  BY DEF TotalsInv, MeasuresInv, Hour
<1>1. ASSUME NEW o \in Operation, NEW c \in Client, AddOperation(o, c)
      PROVE  CountsInv'
  BY <1>h, <1>1, EventKeys, EventMeasures, AddTotals DEF AddOperation
<1>2. ASSUME NEW s \in Subscription, NEW multiplier \in Multiplier,
             StartSession(s, multiplier)
      PROVE  CountsInv'
  BY <1>h, <1>2, SessionAssumption, EventKeys, EventMeasures, AddTotals
     DEF StartSession
<1>3. ASSUME NEW s \in Subscription, NEW amount \in Amount, EndSession(s, amount)
      PROVE  CountsInv'
  BY <1>h, <1>3, SessionAssumption, EventKeys, EventMeasures, AddTotals
     DEF EndSession
<1>6. CASE Read
  BY <1>6, IdleTotals DEF Read
<1> QED
  BY <1>1, <1>2, <1>3, <1>6, StartTotals, StoreTotals, EndTotals, PruneTotals, CrashTotals
     DEF MetricNext

\* The page leaves all counters alone.
LEMMA PageTotals ==
  ASSUME TotalsInv,
         \/ Tick \/ Open \/ Wait \/ ChooseTab \/ Search \/ ChooseLimit
         \/ \E column \in UNION {Column[t] : t \in DOMAIN Column} : SortBy(column)
         \/ UNCHANGED vars
  PROVE  CountsInv'
<1>1. UNCHANGED <<buffer, stores, stored, received, lossy, overlapped>> /\ now' \in {now, now + 1}
  BY DEF Tick, Open, Wait, ChooseTab, Search, ChooseLimit, SortBy, vars, view, pageVars
<1> QED
  BY <1>1, IdleTotals

\* At first the tables are all that came in.
LEMMA InitTotals == Init => CountsInv
<1> SUFFICES ASSUME Init PROVE CountsInv
  OBVIOUS
<1>1. /\ buffer = NoRows /\ stored = Before
      /\ received = [g \in {GroupOf(k) : k \in DOMAIN Before} |->
                       Total(Before, {k \in DOMAIN Before : GroupOf(k) = g})]
  BY DEF Init, MetricInit
<1>2. DOMAIN buffer = {}
  BY <1>1 DEF NoRows
<1>3. \A k \in DOMAIN Before : k \in StoredKey /\ Before[k] \in Measure
  BY BeforeAssumption DEF Range
<1>4. ASSUME NEW g \in DOMAIN received
      PROVE  /\ received[g] \in Measure /\ g.hour \in Hour
             /\ Counted(g) = received[g]
  <2>1. g \in {GroupOf(k) : k \in DOMAIN Before}
    BY <1>1
  <2>2. g.hour \in Hour
    <3>1. PICK k \in DOMAIN Before : g = GroupOf(k)
      BY <2>1
    <3> QED
      BY <1>3, <3>1 DEF GroupOf, StoredKey, Row
  <2> DEFINE keys == {k \in DOMAIN Before : GroupOf(k) = g}
  <2>3. received[g] = Total(Before, keys)
    BY <1>1, <2>1
  <2>4. IsFiniteSet(keys) /\ \A k \in keys : Before[k] \in Measure
    BY <1>3, BeforeAssumption, FS_Subset
  <2>5. StoredOf(g) = keys /\ WaitingOf(g) = {}
    BY <1>1, <1>2 DEF StoredOf, WaitingOf
  <2> HIDE DEF keys
  <2>6. Total(Before, keys) \in Measure
    BY <2>4, TotalRemove
  <2>7. Counted(g) = Plus(Total(Before, keys), Nothing)
    BY <1>1, <2>5, TotalEmpty DEF Counted
  <2> QED
    BY <2>2, <2>3, <2>6, <2>7, NothingMeasured, PlusSwaps
<1>5. GroupsInv
  <2>1. IsFiniteSet(DOMAIN stored) /\ IsFiniteSet(DOMAIN buffer)
    BY <1>1, <1>2, BeforeAssumption, FS_EmptySet
  <2>2. \A k \in DOMAIN stored \cup DOMAIN buffer : GroupOf(k) \in DOMAIN received
    BY <1>1, <1>2
  <2> QED
    BY <1>4, <2>1, <2>2 DEF GroupsInv
<1>7. LoopsInv
  BY NoStoreInert DEF Init, MetricInit, LoopsInv
<1>6. \A g \in DOMAIN received : Exact(g, received[g])
  BY <1>4, PlusFacts DEF Exact
<1> QED
  BY <1>5, <1>6, <1>7 DEF CountsInv

\* The measures add up to what came in of each name and hour that is kept.
THEOREM TotalsInvariance == Spec => []TotalsInv
<1>1. Init => TotalsInv
  BY InitMeasures, InitTotals DEF TotalsInv
<1>2. TotalsInv /\ [Next]_vars => TotalsInv'
  <2> SUFFICES ASSUME TotalsInv, [Next]_vars PROVE TotalsInv'
    OBVIOUS
  <2>1. MeasuresInv'
    BY WorkerMeasures, PageMeasures DEF Next, TotalsInv
  <2>2. CountsInv'
    BY WorkerTotals, PageTotals DEF Next
  <2> QED
    BY <2>1, <2>2 DEF TotalsInv
<1> QED
  BY <1>1, <1>2, PTL DEF Spec

\* Unless stores of an array overlap, no event of it is counted twice in the hours
\* that are kept, and each is counted once unless the worker crashed or the event
\* came in during a store
\* (src/src/database/operation_hits.ts:37).
THEOREM EventsCountedOnce == Spec => []CountedOnce
<1>1. TotalsInv => CountedOnce
  BY DEF TotalsInv, CountsInv, CountedOnce, IsRetained, Exact, Counted, StoredOf, WaitingOf
<1> QED
  BY <1>1, TotalsInvariance, PTL

------------------------------------------------------------------------------
(* A page that opens.                                                      *)

ReadOf(series) == IF series = "operation" THEN "operations" ELSE "subscriptions"
GroupShown(series, r) == [series |-> series, name |-> r.label, hour |-> r.hour]

\* The tables have the hits of a row that is still in the window.
HitsStored(series, r) ==
  InWindow(r.hour, Window) => r.hits <= Total(stored, StoredOf(GroupShown(series, r))).hits

\* A row that is kept is that of a read of this moment, or of the one before.
FreshRow(series, r) ==
  /\ r.hour \in Hour /\ r.hits \in Nat
  /\ StartOf(r.hour) >= now - Window * UnitsPerHour - 1
  /\ cache[ReadOf(series)].at >= now => StartOf(r.hour) >= now - Window * UnitsPerHour
  /\ HitsStored(series, r)

CacheFresh ==
  \A series \in Series :
    /\ cache[ReadOf(series)].at \in Int /\ cache[ReadOf(series)].at <= now
    /\ \A r \in cache[ReadOf(series)].rows : FreshRow(series, r)

FreshInv == TotalsInv /\ CacheFresh

\* Hours begin at numbers, and so do windows.
LEMMA TimesAreNumbers ==
  /\ \A hour \in Hour : StartOf(hour) \in Int
  /\ Window * UnitsPerHour \in Int /\ Retention * UnitsPerHour \in Int
  /\ Window * UnitsPerHour <= Retention * UnitsPerHour
<1>1. \A time \in Time : HourOf(time) \in Int
  BY BoundAssumption DEF Time, HourOf
<1> QED
  BY <1>1, BoundAssumption DEF Hour, StartOf

\* A read sums up what the tables hold of its hours.
LEMMA MetricsFresh ==
  ASSUME TotalsInv, NEW series \in Series, NEW r \in Metrics(series)
  PROVE  /\ r.hour \in Hour /\ r.hits \in Nat
         /\ StartOf(r.hour) >= now - Window * UnitsPerHour
         /\ HitsStored(series, r)
<1> DEFINE keys == {k \in DOMAIN stored : k.series = series /\ InWindow(k.hour, Window)}
           Sums(g) == Total(stored, {k \in keys : GroupOf(k) = g})
<1>1. PICK k \in keys : /\ r.label = k.name /\ r.hour = k.hour
                        /\ r.hits = Sums(GroupOf(k)).hits
  <2>1. \E g \in {GroupOf(k) : k \in keys} :
          r.label = g.name /\ r.hour = g.hour /\ r.hits = Sums(g).hits
    BY DEF Metrics
  <2> HIDE DEF Sums
  <2>2. PICK k \in keys : /\ r.label = GroupOf(k).name /\ r.hour = GroupOf(k).hour
                          /\ r.hits = Sums(GroupOf(k)).hits
    BY <2>1
  <2>3. GroupOf(k).name = k.name /\ GroupOf(k).hour = k.hour
    BY DEF GroupOf
  <2> QED
    BY <2>2, <2>3
<1>2. k.hour \in Hour
  BY DEF TotalsInv, MeasuresInv, StoredKey, Row
<1>3. {j \in keys : GroupOf(j) = GroupOf(k)} = StoredOf(GroupOf(k))
  BY DEF StoredOf, GroupOf
<1>4. GroupShown(series, r) = GroupOf(k)
  BY <1>1 DEF GroupShown, GroupOf
<1>5. Total(stored, StoredOf(GroupOf(k))) \in Measure
  BY CountedType
<1>6. r.hits = Total(stored, StoredOf(GroupOf(k))).hits /\ r.hits \in Nat
  BY <1>1, <1>3, <1>5 DEF Measure
<1> QED
  BY <1>1, <1>2, <1>4, <1>6 DEF HitsStored, InWindow

\* What the tables hold of an hour in the window only grows.
LEMMA HitsGrow ==
  ASSUME TotalsInv, now' = now, NEW g, IsRetained(g.hour),
         \/ stored' = stored
         \/ \E l \in Loop : \E k \in DOMAIN ArrayOf(l) : StoreRow(l, k)
         \/ \E series \in Series : Prune(series)
  PROVE  Total(stored, StoredOf(g)).hits <= Total(stored, StoredOf(g))'.hits
<1>1. /\ IsFiniteSet(StoredOf(g)) /\ StoredOf(g) \in SUBSET DOMAIN stored
      /\ Total(stored, StoredOf(g)) \in Measure
      /\ \A k \in StoredOf(g) : stored[k] \in Measure
      /\ \A k \in DOMAIN stored : stored[k] \in Measure
  BY CountedType DEF TotalsInv, MeasuresInv
<1>2. CASE stored' = stored
  <2>1. StoredOf(g)' = StoredOf(g)
    BY <1>2 DEF StoredOf, GroupOf
  <2> QED
    BY <1>1, <1>2, <2>1 DEF Measure
<1>3. ASSUME NEW l \in Loop, NEW k \in DOMAIN ArrayOf(l), StoreRow(l, k)
      PROVE  Total(stored, StoredOf(g)).hits <= Total(stored, StoredOf(g))'.hits
  <2> DEFINE row == StoredAs(k)
             m == ArrayOf(l)[k]
  <2>1. stored' = Added(stored, row, m) /\ m \in Measure
    BY <1>3, ArrayMeasures DEF StoreRow, TotalsInv
  <2>2. DOMAIN stored' = DOMAIN stored \cup {row}
    BY <1>1, <2>1, AddedFacts
  <2> HIDE DEF row, m
  <2>3. CASE GroupOf(row) = g
    <3>1. StoredOf(g)' = StoredOf(g) \cup {row} /\ (row \in StoredOf(g) \/ row \notin DOMAIN stored)
      BY <2>2, <2>3 DEF StoredOf, GroupOf
    <3>2. Total(Added(stored, row, m), StoredOf(g) \cup {row})
            = Plus(Total(stored, StoredOf(g)), m)
      BY <1>1, <2>1, <3>1, TotalAdded
    <3>3. Total(stored, StoredOf(g))' = Plus(Total(stored, StoredOf(g)), m)
      BY <2>1, <3>1, <3>2
    <3> QED
      BY <1>1, <2>1, <3>3, PlusFacts DEF AtMost
  <2>4. CASE GroupOf(row) # g
    <3>1. StoredOf(g)' = StoredOf(g) /\ row \notin StoredOf(g)
      BY <2>2, <2>4 DEF StoredOf, GroupOf
    <3>2. Total(Added(stored, row, m), StoredOf(g)) = Total(stored, StoredOf(g))
      BY <1>1, <2>1, <3>1, TotalOfOthers
    <3>3. Total(stored, StoredOf(g))' = Total(stored, StoredOf(g))
      BY <2>1, <3>1, <3>2
    <3> QED
      BY <1>1, <3>3 DEF Measure
  <2> QED
    BY <2>3, <2>4
<1>4. ASSUME NEW series \in Series, Prune(series)
      PROVE  Total(stored, StoredOf(g)).hits <= Total(stored, StoredOf(g))'.hits
  <2>1. /\ DOMAIN stored' = {j \in DOMAIN stored : j.series = series =>
                               StartOf(j.hour) >= now - Retention * UnitsPerHour}
        /\ \A j \in DOMAIN stored' : stored'[j] = stored[j]
    BY <1>4 DEF Prune
  <2>2. \A k : GroupOf(k) = g => k.hour = g.hour
    BY DEF GroupOf
  <2>3. StoredOf(g)' = StoredOf(g)
    BY <2>1, <2>2 DEF StoredOf, GroupOf, IsRetained
  <2>4. \A k \in StoredOf(g) : stored'[k] = stored[k]
    BY <2>1, <2>3 DEF StoredOf
  <2>5. Total(stored', StoredOf(g)) = Total(stored, StoredOf(g))
    BY <1>1, <2>4, TotalSame
  <2> QED
    BY <1>1, <2>3, <2>5 DEF Measure
<1> QED
  BY <1>2, <1>3, <1>4

\* What is kept stays fresh while the clock stands still.
LEMMA KeptFresh ==
  ASSUME FreshInv, TotalsInv', now' = now, cache' = cache,
         \/ stored' = stored
         \/ \E l \in Loop : \E k \in DOMAIN ArrayOf(l) : StoreRow(l, k)
         \/ \E series \in Series : Prune(series)
  PROVE  CacheFresh'
<1> SUFFICES ASSUME NEW series \in Series, NEW r \in cache[ReadOf(series)].rows
             PROVE  FreshRow(series, r)'
  BY DEF FreshInv, CacheFresh, ReadOf
<1>1. FreshRow(series, r)
  BY DEF FreshInv, CacheFresh
<1>2. ASSUME InWindow(r.hour, Window)
      PROVE  r.hits <= Total(stored, StoredOf(GroupShown(series, r)))'.hits
  <2> DEFINE g == GroupShown(series, r)
  <2>1. g.hour = r.hour
    BY DEF GroupShown
  <2>2. IsRetained(g.hour)
    BY <1>1, <1>2, <2>1, TimesAreNumbers DEF FreshRow, InWindow, IsRetained, FreshInv,
       TotalsInv, MeasuresInv, Time
  <2> HIDE DEF g
  <2>3. Total(stored, StoredOf(g)).hits <= Total(stored, StoredOf(g))'.hits
    BY <2>2, HitsGrow DEF FreshInv
  <2>4. Total(stored, StoredOf(g)).hits \in Nat /\ Total(stored, StoredOf(g))'.hits \in Nat
    <3>1. Total(stored, StoredOf(g)) \in Measure
      BY CountedType DEF FreshInv
    <3>2. Total(stored, StoredOf(g))' \in Measure
      <4>1. /\ IsFiniteSet(DOMAIN stored') /\ StoredOf(g)' \in SUBSET DOMAIN stored'
            /\ \A k \in DOMAIN stored' : stored'[k] \in Measure
        BY DEF TotalsInv, CountsInv, GroupsInv, MeasuresInv, StoredOf
      <4>2. IsFiniteSet(StoredOf(g)')
        BY <4>1, FS_Subset
      <4> QED
        BY <4>1, <4>2, TotalRemove
    <3> QED
      BY <3>1, <3>2 DEF Measure
  <2> QED
    BY <1>1, <1>2, <2>3, <2>4 DEF FreshRow, HitsStored, g
<1> QED
  BY <1>1, <1>2 DEF FreshRow, HitsStored, InWindow, StartOf, GroupShown, ReadOf

\* The clock goes on, and Redis keeps answers for a minute at most.
LEMMA TickFresh ==
  ASSUME FreshInv, Tick
  PROVE  CacheFresh'
<1> SUFFICES ASSUME NEW series \in Series
             PROVE  /\ cache'[ReadOf(series)].at \in Int /\ cache'[ReadOf(series)].at <= now'
                    /\ \A r \in cache'[ReadOf(series)].rows : FreshRow(series, r)'
  BY DEF CacheFresh, ReadOf
<1> DEFINE d == ReadOf(series)
<1>1. d \in CachedRead
  BY DEF ReadOf, CachedRead
<1>2. /\ now' = now + 1 /\ now \in Int /\ stored' = stored
      /\ cache'[d] = IF cache[d].at < now THEN NoAnswer ELSE cache[d]
  BY <1>1 DEF Tick, FreshInv, TotalsInv, MeasuresInv, Time
<1> HIDE DEF d
<1>3. cache[d].at \in Int /\ cache[d].at <= now /\ \A r \in cache[d].rows : FreshRow(series, r)
  BY DEF FreshInv, CacheFresh, d
<1>4. CASE cache[d].at < now
  <2>1. cache'[d].at = -1 /\ cache'[d].rows = {}
    BY <1>2, <1>4 DEF NoAnswer
  <2>2. now' >= 0
    BY <1>2 DEF FreshInv, TotalsInv, MeasuresInv, Time
  <2> QED
    BY <1>2, <2>1, <2>2 DEF d
<1>5. CASE ~(cache[d].at < now)
  <2>1. cache'[d] = cache[d] /\ cache[d].at >= now
    BY <1>2, <1>3, <1>5
  <2>2. ASSUME NEW r \in cache[d].rows
        PROVE  FreshRow(series, r)'
    <3>1. FreshRow(series, r) /\ StartOf(r.hour) \in Int
      BY <1>3, TimesAreNumbers DEF FreshRow
    <3>2. StartOf(r.hour) >= now - Window * UnitsPerHour
      BY <2>1, <3>1 DEF FreshRow, d
    <3>3. StartOf(r.hour) >= now' - Window * UnitsPerHour - 1
      BY <1>2, <3>1, <3>2, TimesAreNumbers
    <3>4. ~(cache'[d].at >= now')
      BY <1>2, <1>3, <2>1
    <3>5. HitsStored(series, r)'
      <4>1. InWindow(r.hour, Window)' => InWindow(r.hour, Window)
        BY <1>2, <3>1, TimesAreNumbers DEF InWindow, StartOf
      <4> QED
        BY <1>2, <3>1, <4>1 DEF FreshRow, HitsStored, StoredOf, GroupShown, GroupOf
    <3> QED
      BY <3>1, <3>3, <3>4, <3>5 DEF FreshRow, StartOf, ReadOf, d
  <2> QED
    BY <1>2, <1>3, <2>1, <2>2 DEF d
<1> QED
  BY <1>4, <1>5

\* An answer is that of this moment.
LEMMA ReadFresh ==
  ASSUME TotalsInv, Read
  PROVE  CacheFresh'
<1> SUFFICES ASSUME NEW series \in Series
             PROVE  /\ cache'[ReadOf(series)].at \in Int /\ cache'[ReadOf(series)].at <= now'
                    /\ \A r \in cache'[ReadOf(series)].rows : FreshRow(series, r)'
  BY DEF CacheFresh, ReadOf
<1>1. /\ now' = now /\ now \in Int /\ stored' = stored
      /\ cache'[ReadOf(series)].at = now
      /\ cache'[ReadOf(series)].rows = Metrics(series)
  BY DEF Read, ReadOf, CachedRead, Answer, Series, TotalsInv, MeasuresInv, Time
<1>2. ASSUME NEW r \in Metrics(series)
      PROVE  FreshRow(series, r)'
  <2>1. /\ r.hour \in Hour /\ r.hits \in Nat
        /\ StartOf(r.hour) >= now - Window * UnitsPerHour /\ HitsStored(series, r)
        /\ StartOf(r.hour) \in Int
    BY MetricsFresh, TimesAreNumbers
  <2>2. HitsStored(series, r)'
    BY <1>1, <2>1 DEF HitsStored, InWindow, StoredOf, GroupShown, GroupOf, StartOf
  <2> QED
    BY <1>1, <2>1, <2>2, TimesAreNumbers DEF FreshRow, ReadOf, StartOf
<1> QED
  BY <1>1, <1>2

\* At first Redis keeps nothing.
LEMMA InitFresh == Init => CacheFresh
<1> SUFFICES ASSUME Init PROVE CacheFresh
  OBVIOUS
<1>1. \A series \in Series : cache[ReadOf(series)].at = -1 /\ cache[ReadOf(series)].rows = {}
  BY DEF Init, MetricInit, ReadOf, CachedRead, NoAnswer
<1>2. now >= 0 /\ now \in Int
  BY BoundAssumption DEF Init, MetricInit, Time
<1> QED
  BY <1>1, <1>2 DEF CacheFresh

LEMMA WorkerFresh ==
  ASSUME FreshInv, TotalsInv', MetricNext
  PROVE  CacheFresh'
<1>1. ASSUME \E o \in Operation, c \in Client : AddOperation(o, c)
      PROVE  CacheFresh'
  BY <1>1, KeptFresh DEF AddOperation, Add
<1>2. ASSUME NEW s \in Subscription,
             \/ \E multiplier \in Multiplier : StartSession(s, multiplier)
             \/ \E amount \in Amount : EndSession(s, amount)
      PROVE  CacheFresh'
  BY <1>2, KeptFresh DEF StartSession, EndSession, Add
<1>3. ASSUME NEW series \in Series,
             Prune(series) \/ \E l \in Loop : StartStore(l, series)
      PROVE  CacheFresh'
  <2>1. now' = now /\ cache' = cache /\ (stored' = stored \/ Prune(series))
    BY <1>3 DEF StartStore, Prune
  <2> QED
    BY <2>1, KeptFresh
<1>7. ASSUME NEW l \in Loop, EndStore(l)
      PROVE  CacheFresh'
  BY <1>7, KeptFresh DEF EndStore
<1>4. ASSUME NEW l \in Loop, NEW k \in DOMAIN ArrayOf(l), StoreRow(l, k)
      PROVE  CacheFresh'
  BY <1>4, KeptFresh DEF StoreRow
<1>5. CASE Read
  BY <1>5, ReadFresh DEF FreshInv
<1>6. CASE Crash
  BY <1>6, KeptFresh DEF Crash
<1> QED
  BY <1>1, <1>2, <1>3, <1>4, <1>5, <1>6, <1>7 DEF MetricNext

\* The page changes nothing that is kept, but the clock goes on.
LEMMA PageFresh ==
  ASSUME FreshInv, TotalsInv',
         \/ Tick \/ Open \/ Wait \/ ChooseTab \/ Search \/ ChooseLimit
         \/ \E column \in UNION {Column[t] : t \in DOMAIN Column} : SortBy(column)
         \/ UNCHANGED vars
  PROVE  CacheFresh'
<1>1. \/ Tick
      \/ now' = now /\ cache' = cache /\ stored' = stored
  BY DEF Open, Wait, ChooseTab, Search, ChooseLimit, SortBy, vars, view, pageVars
<1> QED
  BY <1>1, TickFresh, KeptFresh

\* What Redis keeps is what the tables held a minute ago at most, and never more
\* than they hold (src/src/database/operation_hits.ts:218).
THEOREM FreshInvariance == Spec => []FreshInv
<1>1. Init => CacheFresh
  BY InitFresh
<1>2. FreshInv /\ TotalsInv' /\ [Next]_vars => CacheFresh'
  BY WorkerFresh, PageFresh DEF Next
<1>3. FreshInv <=> TotalsInv /\ CacheFresh
  BY DEF FreshInv
<1> QED
  BY <1>1, <1>2, <1>3, TotalsInvariance, PTL DEF Spec

\* A page that opens shows no hour that the reads left behind more than a minute
\* before, and of the others no hits that are not stored
\* (src/src/database/operation_hits.ts:218).
THEOREM FreshPages == Spec => PageIsFresh
<1> DEFINE Shows ==
      \A series \in Series :
        \A r \in data'[ReadOf(series)] :
          /\ StartOf(r.hour) >= now - Window * UnitsPerHour - 1
          /\ InWindow(r.hour, Window) =>
               r.hits <= Total(stored, {k \in DOMAIN stored :
                 k.series = series /\ k.name = r.label /\ k.hour = r.hour}).hits
<1>1. ASSUME FreshInv, Open
      PROVE  Shows
  <2> SUFFICES ASSUME NEW series \in Series, NEW r \in data'[ReadOf(series)]
               PROVE  /\ StartOf(r.hour) >= now - Window * UnitsPerHour - 1
                      /\ InWindow(r.hour, Window) =>
                           r.hits <= Total(stored, {k \in DOMAIN stored :
                             k.series = series /\ k.name = r.label /\ k.hour = r.hour}).hits
    OBVIOUS
  <2>1. r \in cache[ReadOf(series)].rows \/ r \in Metrics(series)
    BY <1>1 DEF Open, Returned, Answer, ReadOf, CachedRead, Series
  <2>2. r.hour \in Hour /\ StartOf(r.hour) >= now - Window * UnitsPerHour - 1
    <3>1. CASE r \in cache[ReadOf(series)].rows
      BY <1>1, <3>1 DEF FreshInv, CacheFresh, FreshRow
    <3>2. CASE r \in Metrics(series)
      <4>1. r.hour \in Hour /\ StartOf(r.hour) >= now - Window * UnitsPerHour
        BY <1>1, <3>2, MetricsFresh DEF FreshInv
      <4>2. now \in Int
        BY <1>1 DEF FreshInv, TotalsInv, MeasuresInv, Time
      <4> QED
        BY <4>1, <4>2, TimesAreNumbers
    <3> QED
      BY <2>1, <3>1, <3>2
  <2>3. HitsStored(series, r)
    BY <1>1, <2>1, MetricsFresh DEF FreshInv, CacheFresh, FreshRow
  <2>4. StoredOf(GroupShown(series, r))
          = {k \in DOMAIN stored : k.series = series /\ k.name = r.label /\ k.hour = r.hour}
    BY DEF StoredOf, GroupShown, GroupOf
  <2> QED
    BY <2>2, <2>3, <2>4 DEF HitsStored
<1>2. FreshInv /\ [Next]_vars => [open' /\ ~open => Shows]_vars
  <2> HIDE DEF Shows
  <2>1. ASSUME [Next]_vars, open' /\ ~open
        PROVE  Open
    BY <2>1 DEF Next, Wait, ChooseTab, Search, ChooseLimit, SortBy, Click, pageVars, vars
  <2> QED
    BY <1>1, <2>1
<1>3. PageIsFresh <=> [][open' /\ ~open => Shows]_vars
  BY PTL DEF PageIsFresh, ReadOf
<1> QED
  BY <1>2, <1>3, FreshInvariance, PTL DEF Spec

------------------------------------------------------------------------------
(* Totals of totals, and sums of numbers as parts of totals.               *)

\* The total of two sets of rows that share none is that of both.
LEMMA TotalOfUnion ==
  ASSUME NEW f, NEW S, IsFiniteSet(S), \A x \in S : f[x] \in Measure,
         NEW R \in SUBSET S
  PROVE  Total(f, S) = Plus(Total(f, R), Total(f, S \ R))
<1> DEFINE Holds(s) == Total(f, s \cup (S \ R)) = Plus(Total(f, s), Total(f, S \ R))
           T == {s \in SUBSET R : ~Holds(s)}
<1>1. SUFFICES ASSUME T # {} PROVE FALSE
  <2> SUFFICES Holds(R)
    <3>1. R \cup (S \ R) = S
      OBVIOUS
    <3> QED
      BY <3>1
  <2> HIDE DEF Holds
  <2> QED
    BY <1>1
<1>2. \E s \in T : \A u \in T : u \subseteq s => u = s
  <2>1. T \in SUBSET SUBSET R /\ IsFiniteSet(R)
    BY FS_Subset
  <2> HIDE DEF T
  <2> QED
    BY <1>1, <2>1, SmallestSet
<1>3. PICK s \in T : \A u \in T : u \subseteq s => u = s
  BY <1>2
<1>4. /\ s \in SUBSET R /\ ~Holds(s)
      /\ \A u \in SUBSET s : u # s => Holds(u)
  BY <1>3
<1> HIDE DEF T
<1>5. Total(f, S \ R) \in Measure
  <2>1. IsFiniteSet(S \ R) /\ \A x \in S \ R : f[x] \in Measure
    BY FS_Subset
  <2> QED
    BY <2>1, TotalRemove
<1>6. s # {}
  <2> SUFFICES ASSUME s = {} PROVE FALSE
    OBVIOUS
  <2>1. Total(f, s) = Nothing /\ s \cup (S \ R) = S \ R
    BY TotalEmpty
  <2> QED
    BY <1>4, <1>5, <2>1, NothingMeasured, PlusSwaps
<1>7. PICK x \in s : TRUE
  BY <1>6
<1> DEFINE rest == s \ {x}
<1>8. Holds(rest)
  BY <1>4, <1>7
<1>9. Total(f, s) = Plus(f[x], Total(f, rest)) /\ f[x] \in Measure
  <2>1. IsFiniteSet(s) /\ \A y \in s : f[y] \in Measure
    BY <1>4, FS_Subset
  <2> QED
    BY <1>7, <2>1, TotalRemove
<1>10. Total(f, rest) \in Measure
  <2>1. IsFiniteSet(rest) /\ \A y \in rest : f[y] \in Measure
    BY <1>4, FS_Subset
  <2> HIDE DEF rest
  <2> QED
    BY <2>1, TotalRemove
<1>11. Total(f, s \cup (S \ R)) = Plus(f[x], Total(f, rest \cup (S \ R)))
  <2>1. /\ IsFiniteSet(s \cup (S \ R)) /\ \A y \in s \cup (S \ R) : f[y] \in Measure
        /\ (s \cup (S \ R)) \ {x} = rest \cup (S \ R) /\ x \in s \cup (S \ R)
    BY <1>4, <1>7, FS_Subset
  <2> HIDE DEF rest
  <2> QED
    BY <2>1, TotalRemove
<1> HIDE DEF rest
<1>12. Plus(Plus(f[x], Total(f, rest)), Total(f, S \ R))
         = Plus(f[x], Plus(Total(f, rest), Total(f, S \ R)))
  BY <1>5, <1>9, <1>10, PlusSwaps
<1> QED
  BY <1>4, <1>8, <1>9, <1>11, <1>12

\* Rows that are sorted into parts have the total of the totals of the parts.
LEMMA TotalOfParts ==
  ASSUME NEW f, NEW S, IsFiniteSet(S), \A x \in S : f[x] \in Measure,
         NEW P, IsFiniteSet(P), NEW part, \A p \in P : part[p] \in SUBSET S,
         \A p, q \in P : p # q => part[p] \cap part[q] = {},
         \A x \in S : \E p \in P : x \in part[p],
         NEW m, \A p \in P : m[p] = Total(f, part[p])
  PROVE  /\ Total(m, P) = Total(f, S)
         /\ \A p \in P : m[p] \in Measure
<1> DEFINE In(s) == {x \in S : \E p \in s : x \in part[p]}
           Holds(s) == Total(m, s) = Total(f, In(s))
           T == {s \in SUBSET P : ~Holds(s)}
<1>0. \A p \in P : m[p] \in Measure
  <2> SUFFICES ASSUME NEW p \in P PROVE m[p] \in Measure
    OBVIOUS
  <2>1. IsFiniteSet(part[p]) /\ \A x \in part[p] : f[x] \in Measure
    BY FS_Subset
  <2> QED
    BY <2>1, TotalRemove
<1>1. SUFFICES ASSUME T # {} PROVE FALSE
  <2>1. Holds(P)
    <3> HIDE DEF Holds
    <3> QED
      BY <1>1
  <2>2. In(P) = S
    OBVIOUS
  <2> QED
    BY <1>0, <2>1, <2>2
<1>2. \E s \in T : \A u \in T : u \subseteq s => u = s
  <2>1. T \in SUBSET SUBSET P
    OBVIOUS
  <2> HIDE DEF T
  <2> QED
    BY <1>1, <2>1, SmallestSet
<1>3. PICK s \in T : \A u \in T : u \subseteq s => u = s
  BY <1>2
<1>4. /\ s \in SUBSET P /\ ~Holds(s)
      /\ \A u \in SUBSET s : u # s => Holds(u)
  BY <1>3
<1> HIDE DEF T
<1>5. s # {}
  <2> SUFFICES ASSUME s = {} PROVE FALSE
    OBVIOUS
  <2>1. In(s) = {}
    OBVIOUS
  <2>2. Total(m, s) = Nothing /\ Total(f, In(s)) = Nothing
    <3> HIDE DEF In
    <3> QED
      BY <2>1, TotalEmpty
  <2> HIDE DEF In
  <2> QED
    BY <1>4, <2>2
<1>6. PICK p \in s : TRUE
  BY <1>5
<1>7. Total(m, s) = Plus(m[p], Total(m, s \ {p}))
  <2>1. IsFiniteSet(s) /\ \A q \in s : m[q] \in Measure
    BY <1>0, <1>4, FS_Subset
  <2> HIDE DEF Holds
  <2> QED
    BY <1>6, <2>1, TotalRemove
<1>8. Total(m, s \ {p}) = Total(f, In(s \ {p}))
  <2>1. Holds(s \ {p})
    <3> HIDE DEF Holds
    <3> QED
      BY <1>4, <1>6
  <2> QED
    BY <2>1
<1>9. part[p] \in SUBSET In(s) /\ In(s) \ part[p] = In(s \ {p})
  BY <1>4, <1>6
<1>10. Total(f, In(s)) = Plus(Total(f, part[p]), Total(f, In(s) \ part[p]))
  <2>1. IsFiniteSet(In(s)) /\ \A x \in In(s) : f[x] \in Measure
    BY FS_Subset
  <2> HIDE DEF In
  <2> QED
    BY <1>9, <2>1, TotalOfUnion
<1>11. m[p] = Total(f, part[p])
  BY <1>4, <1>6
<1> HIDE DEF In
<1> QED
  BY <1>4, <1>7, <1>8, <1>9, <1>10, <1>11

\* The function by which a sum is defined.
IsSum(g, f, S) ==
  g = [s \in SUBSET S |-> IF s = {} THEN 0
                          ELSE LET x == CHOOSE x \in s : TRUE IN f[x] + g[s \ {x}]]

\* What it is for one set.
LEMMA SumStep ==
  ASSUME NEW g, NEW f, NEW S, IsSum(g, f, S), NEW s \in SUBSET S
  PROVE  /\ s = {} => g[s] = 0
         /\ s # {} => LET x == CHOOSE x \in s : TRUE IN g[s] = f[x] + g[s \ {x}]
  BY DEF IsSum

\* There is at most one.
LEMMA SumUnique ==
  ASSUME NEW f, NEW S, IsFiniteSet(S), NEW g, NEW h, IsSum(g, f, S), IsSum(h, f, S)
  PROVE  \A s \in SUBSET S : g[s] = h[s]
<1> DEFINE T == {s \in SUBSET S : g[s] # h[s]}
<1>1. SUFFICES ASSUME T # {} PROVE FALSE
  OBVIOUS
<1>2. \E s \in T : \A u \in T : u \subseteq s => u = s
  <2>1. T \in SUBSET SUBSET S
    OBVIOUS
  <2> HIDE DEF T
  <2> QED
    BY <1>1, <2>1, SmallestSet
<1>3. PICK s \in T : \A u \in T : u \subseteq s => u = s
  BY <1>2
<1>4. s \in SUBSET S /\ g[s] # h[s]
  OBVIOUS
<1>5. s # {}
  BY <1>4, SumStep
<1> DEFINE x == CHOOSE x \in s : TRUE
<1>6. x \in s
  BY <1>5
<1>7. g[s \ {x}] = h[s \ {x}]
  BY <1>3, <1>4, <1>6
<1>8. g[s] = f[x] + g[s \ {x}] /\ h[s] = f[x] + h[s \ {x}]
  BY <1>4, <1>5, SumStep
<1> QED
  BY <1>4, <1>7, <1>8

\* The sum of one field of measures is that field of their total.
LEMMA SumIsTotal ==
  ASSUME NEW S, IsFiniteSet(S), NEW m, NEW field \in {"hits", "completed", "amount"},
         NEW f, DOMAIN f = S, \A x \in S : f[x] = m[x][field]
  PROVE  SumFunction(f) = Total(m, S)[field]
<1> DEFINE g == CHOOSE g : IsTotal(g, m, S)
           sum == CHOOSE h : IsSum(h, f, S)
           h == [s \in SUBSET S |-> g[s][field]]
<1>1. Total(m, S) = g[S] /\ SumFunction(f) = sum[S]
  BY DEF Total, SumFunction, SumFunctionOnSet, FoldFunctionOnSet, MapThenFoldSet, IsTotal, IsSum
<1>2. IsTotal(g, m, S)
  BY TotalExists
<1> HIDE DEF g
<1>3. ASSUME NEW s \in SUBSET S
      PROVE  h[s] = IF s = {} THEN 0
                    ELSE LET x == CHOOSE x \in s : TRUE IN f[x] + h[s \ {x}]
  <2>1. CASE s = {}
    <3>1. g[s] = Nothing
      BY <1>2, <2>1, TotalStep
    <3>2. Nothing[field] = 0
      BY DEF Nothing
    <3> QED
      BY <2>1, <3>1, <3>2
  <2>2. CASE s # {}
    <3> DEFINE x == CHOOSE x \in s : TRUE
    <3>1. g[s] = Plus(m[x], g[s \ {x}])
      BY <1>2, <2>2, TotalStep
    <3>2. x \in s
      BY <2>2
    <3> HIDE DEF x
    <3>3. g[s][field] = m[x][field] + g[s \ {x}][field]
      BY <3>1 DEF Plus
    <3>4. h[s] = f[x] + h[s \ {x}]
      BY <3>2, <3>3
    <3> QED
      BY <2>2, <3>4 DEF x
  <2> QED
    BY <2>1, <2>2
<1>4. IsSum(h, f, S)
  <2>1. h = [s \in SUBSET S |-> h[s]]
    OBVIOUS
  <2> HIDE DEF h
  <2> QED
    BY <1>3, <2>1 DEF IsSum
<1> HIDE DEF h
<1>5. IsSum(sum, f, S)
  BY <1>4
<1> HIDE DEF sum
<1>6. sum[S] = h[S]
  BY <1>4, <1>5, SumUnique
<1> QED
  BY <1>1, <1>6 DEF h

------------------------------------------------------------------------------
(* The answers of a read.                                                  *)

\* What a read of a series sums up, and which of it a row of the answer stands for
KeysOf(series) == {k \in DOMAIN stored : k.series = series /\ InWindow(k.hour, Window)}
KeysOfRow(series, r) == {k \in KeysOf(series) : k.name = r.label /\ k.hour = r.hour}
KeysOfLabel(series, l) == {k \in KeysOf(series) : k.name = l}

\* The sums of a row are those of its keys.
LEMMA MetricsRow ==
  ASSUME TotalsInv, NEW series \in Series, NEW r \in Metrics(series)
  PROVE  LET sums == Total(stored, KeysOfRow(series, r))
         IN  /\ KeysOfRow(series, r) # {} /\ sums \in Measure
             /\ r.key = r.label /\ r.hits = sums.hits /\ r.completed = sums.completed
             /\ r.average = IF sums.completed = 0 THEN 0
                            ELSE Round(100 * sums.amount, sums.completed)
<1> DEFINE Sums(g) == Total(stored, {k \in KeysOf(series) : GroupOf(k) = g})
<1>1. \E g \in {GroupOf(k) : k \in KeysOf(series)} :
        /\ r.key = g.name /\ r.label = g.name /\ r.hour = g.hour /\ r.hits = Sums(g).hits
        /\ r.completed = Sums(g).completed
        /\ r.average = IF Sums(g).completed = 0 THEN 0
                       ELSE Round(100 * Sums(g).amount, Sums(g).completed)
  BY DEF Metrics, KeysOf
<1> HIDE DEF Sums
<1>2. PICK k \in KeysOf(series) :
        /\ r.key = GroupOf(k).name /\ r.label = GroupOf(k).name /\ r.hour = GroupOf(k).hour
        /\ r.hits = Sums(GroupOf(k)).hits /\ r.completed = Sums(GroupOf(k)).completed
        /\ r.average = IF Sums(GroupOf(k)).completed = 0 THEN 0
                       ELSE Round(100 * Sums(GroupOf(k)).amount, Sums(GroupOf(k)).completed)
  BY <1>1
<1>3. GroupOf(k).name = k.name /\ GroupOf(k).hour = k.hour
  BY DEF GroupOf
<1>4. {j \in KeysOf(series) : GroupOf(j) = GroupOf(k)} = KeysOfRow(series, r)
  BY <1>2, <1>3 DEF KeysOf, KeysOfRow, GroupOf
<1>5. k \in KeysOfRow(series, r)
  BY <1>2, <1>3 DEF KeysOfRow
<1>6. Total(stored, KeysOfRow(series, r)) \in Measure
  <2>1. /\ IsFiniteSet(KeysOfRow(series, r))
        /\ \A j \in KeysOfRow(series, r) : stored[j] \in Measure
    BY FS_Subset DEF KeysOfRow, KeysOf, TotalsInv, MeasuresInv, CountsInv, GroupsInv
  <2> QED
    BY <2>1, TotalRemove
<1> QED
  BY <1>2, <1>4, <1>5, <1>6 DEF Sums

\* A row of the answer for each label and hour of which there are keys
LEMMA MetricsRows ==
  ASSUME TotalsInv, NEW series \in Series
  PROVE  /\ IsFiniteSet(Metrics(series))
         /\ \A p, q \in Metrics(series) : p.label = q.label /\ p.hour = q.hour => p = q
         /\ \A k \in KeysOf(series) :
              \E r \in Metrics(series) : r.label = k.name /\ r.hour = k.hour
<1> DEFINE Sums(g) == Total(stored, {k \in KeysOf(series) : GroupOf(k) = g})
           row(g) == [key |-> g.name, label |-> g.name, hour |-> g.hour, hits |-> Sums(g).hits,
                      completed |-> Sums(g).completed,
                      average |-> IF Sums(g).completed = 0 THEN 0
                                  ELSE Round(100 * Sums(g).amount, Sums(g).completed)]
           Groups == {GroupOf(k) : k \in KeysOf(series)}
<1>1. Metrics(series) = {row(g) : g \in Groups}
  BY DEF Metrics, KeysOf
<1>2. \A g \in Groups : row(g).label = g.name /\ row(g).hour = g.hour
  OBVIOUS
<1>3. \A g \in Groups : g.series = series /\ g = [series |-> series, name |-> g.name, hour |-> g.hour]
  BY DEF GroupOf, KeysOf
<1> HIDE DEF row, Sums
<1>4. IsFiniteSet(Metrics(series))
  <2> DEFINE f == [k \in KeysOf(series) |-> row(GroupOf(k))]
  <2>1. f \in Surjection(KeysOf(series), Metrics(series))
    BY <1>1 DEF Surjection
  <2>2. IsFiniteSet(KeysOf(series))
    BY FS_Subset DEF KeysOf, TotalsInv, CountsInv, GroupsInv
  <2> QED
    BY <2>1, <2>2, FS_Surjection
<1>5. ASSUME NEW p \in Metrics(series), NEW q \in Metrics(series),
             p.label = q.label, p.hour = q.hour
      PROVE  p = q
  <2>1. PICK g \in Groups : p = row(g)
    BY <1>1
  <2>2. PICK h \in Groups : q = row(h)
    BY <1>1
  <2>3. g = h
    BY <1>2, <1>3, <1>5, <2>1, <2>2
  <2> QED
    BY <2>1, <2>2, <2>3
<1>6. ASSUME NEW k \in KeysOf(series)
      PROVE  \E r \in Metrics(series) : r.label = k.name /\ r.hour = k.hour
  <2>1. GroupOf(k) \in Groups /\ GroupOf(k).name = k.name /\ GroupOf(k).hour = k.hour
    BY DEF GroupOf
  <2> QED
    BY <1>1, <1>2, <2>1
<1> QED
  BY <1>4, <1>5, <1>6

\* The rows of a label add up to what the tables hold of it in the window.
LEMMA MetricsTotal ==
  ASSUME TotalsInv, NEW series \in Series, NEW l,
         NEW m, \A r \in Metrics(series) : m[r] = Total(stored, KeysOfRow(series, r))
  PROVE  LET rows == {r \in Metrics(series) : r.label = l}
         IN  /\ IsFiniteSet(rows)
             /\ Total(m, rows) = Total(stored, KeysOfLabel(series, l))
             /\ \A r \in rows : m[r] \in Measure
<1> DEFINE rows == {r \in Metrics(series) : r.label = l}
           part == [r \in rows |-> KeysOfRow(series, r)]
<1>1. IsFiniteSet(rows)
  BY MetricsRows, FS_Subset
<1>2. /\ IsFiniteSet(KeysOfLabel(series, l))
      /\ \A k \in KeysOfLabel(series, l) : stored[k] \in Measure
  BY FS_Subset DEF KeysOfLabel, KeysOf, TotalsInv, MeasuresInv, CountsInv, GroupsInv
<1>3. \A r \in rows : part[r] \in SUBSET KeysOfLabel(series, l)
  BY DEF KeysOfRow, KeysOfLabel
<1>4. \A p, q \in rows : p # q => part[p] \cap part[q] = {}
  BY MetricsRows DEF KeysOfRow
<1>5. \A k \in KeysOfLabel(series, l) : \E r \in rows : k \in part[r]
  BY MetricsRows DEF KeysOfRow, KeysOfLabel
<1>6. \A r \in rows : m[r] = Total(stored, part[r])
  OBVIOUS
<1> HIDE DEF rows, part
<1>7. /\ Total(m, rows) = Total(stored, KeysOfLabel(series, l))
      /\ \A r \in rows : m[r] \in Measure
  BY <1>1, <1>2, <1>3, <1>4, <1>5, <1>6, TotalOfParts
<1> QED
  BY <1>1, <1>7 DEF rows

------------------------------------------------------------------------------
(* Averages.                                                               *)

\* What of sessions that ended is summed up
Ended(m) == m.completed = 0 => m.amount = 0
EndedInv ==
  /\ \A k \in DOMAIN buffer : Ended(buffer[k])
  /\ \A k \in DOMAIN stored : Ended(stored[k])
  /\ \A l \in Loop : \A k \in DOMAIN stores[l].rows : Ended(stores[l].rows[k])

\* A quotient that is rounded is wrong by half a divisor at most.
LEMMA RoundIsNear ==
  ASSUME NEW n \in Nat, NEW per \in Nat, per > 0
  PROVE  /\ Round(n, per) \in Nat
         /\ -per <= 2 * (Round(n, per) * per - n)
         /\ 2 * (Round(n, per) * per - n) <= per
<1> DEFINE a == 2 * n + per
           b == 2 * per
           q == a \div b
<1>1. a \in Nat /\ b \in Nat /\ b > 0
  OBVIOUS
<1>2. Round(n, per) = q
  BY DEF Round
<1>3. q \in Nat /\ b * q <= a /\ a < b * q + b
  <2> HIDE DEF a, b
  <2> QED
    BY <1>1
<1>4. b * q = 2 * (q * per)
  <2> HIDE DEF q
  <2> QED
    BY <1>3
<1> DEFINE prod == q * per
<1>5. prod \in Nat
  <2> HIDE DEF q
  <2> QED
    BY <1>3
<1> HIDE DEF q, prod
<1>6. 2 * prod <= 2 * n + per /\ 2 * n + per < 2 * prod + 2 * per
  BY <1>3, <1>4 DEF prod
<1>7. -per <= 2 * (prod - n) /\ 2 * (prod - n) <= per
  BY <1>5, <1>6
<1> QED
  BY <1>2, <1>3, <1>7 DEF prod

\* Numbers that are near to the amounts of measures have a sum near to theirs.
LEMMA SumIsNear ==
  ASSUME NEW S, IsFiniteSet(S), NEW m, \A x \in S : m[x] \in Measure,
         NEW w, \A x \in S : /\ w[x] \in Measure
                             /\ -m[x].completed <= 2 * (w[x].amount - 100 * m[x].amount)
                             /\ 2 * (w[x].amount - 100 * m[x].amount) <= m[x].completed
  PROVE  LET error == Total(w, S).amount - 100 * Total(m, S).amount
         IN  -Total(m, S).completed <= 2 * error /\ 2 * error <= Total(m, S).completed
<1> DEFINE Near(v, n) == /\ -n.completed <= 2 * (v.amount - 100 * n.amount)
                         /\ 2 * (v.amount - 100 * n.amount) <= n.completed
           T == {s \in SUBSET S : ~Near(Total(w, s), Total(m, s))}
<1>1. SUFFICES ASSUME T # {} PROVE FALSE
  OBVIOUS
<1>2. \E s \in T : \A u \in T : u \subseteq s => u = s
  <2>1. T \in SUBSET SUBSET S
    OBVIOUS
  <2> HIDE DEF T
  <2> QED
    BY <1>1, <2>1, SmallestSet
<1>3. PICK s \in T : \A u \in T : u \subseteq s => u = s
  BY <1>2
<1>4. /\ s \in SUBSET S /\ ~Near(Total(w, s), Total(m, s))
      /\ \A u \in SUBSET s : u # s => Near(Total(w, u), Total(m, u))
  <2> HIDE DEF Near
  <2> QED
    BY <1>3
<1> HIDE DEF T
<1>5. s # {}
  <2> SUFFICES ASSUME s = {} PROVE FALSE
    OBVIOUS
  <2>1. Total(w, s) = Nothing /\ Total(m, s) = Nothing
    BY TotalEmpty
  <2>2. Near(Nothing, Nothing)
    BY DEF Nothing
  <2> HIDE DEF Near
  <2> QED
    BY <1>4, <2>1, <2>2
<1>6. PICK x \in s : TRUE
  BY <1>5
<1> DEFINE rest == s \ {x}
<1>7. /\ IsFiniteSet(s) /\ IsFiniteSet(rest)
      /\ \A y \in s : m[y] \in Measure /\ w[y] \in Measure
      /\ \A y \in rest : m[y] \in Measure /\ w[y] \in Measure
  BY <1>4, FS_Subset
<1>8. /\ Total(m, s) = Plus(m[x], Total(m, rest)) /\ Total(m, rest) \in Measure
      /\ Total(w, s) = Plus(w[x], Total(w, rest)) /\ Total(w, rest) \in Measure
  BY <1>7, TotalRemove
<1>9. Near(Total(w, rest), Total(m, rest))
  <2> HIDE DEF Near
  <2> QED
    BY <1>4, <1>6
<1>10. Near(w[x], m[x]) /\ m[x] \in Measure /\ w[x] \in Measure
  BY <1>4, <1>6
<1> HIDE DEF rest
<1>11. ASSUME NEW a \in Measure, NEW b \in Measure, NEW c \in Measure, NEW d \in Measure,
              Near(a, b), Near(c, d)
       PROVE  Near(Plus(a, c), Plus(b, d))
  BY <1>11 DEF Plus, Measure
<1> HIDE DEF Near
<1> QED
  BY <1>4, <1>8, <1>9, <1>10, <1>11

\* So is the total of what sessions that ended summed up.
LEMMA TotalEnded ==
  ASSUME NEW f, NEW S, IsFiniteSet(S), \A x \in S : f[x] \in Measure /\ Ended(f[x])
  PROVE  Ended(Total(f, S))
<1> DEFINE T == {s \in SUBSET S : ~Ended(Total(f, s))}
<1>1. SUFFICES ASSUME T # {} PROVE FALSE
  OBVIOUS
<1>2. \E s \in T : \A u \in T : u \subseteq s => u = s
  <2>1. T \in SUBSET SUBSET S
    OBVIOUS
  <2> HIDE DEF T
  <2> QED
    BY <1>1, <2>1, SmallestSet
<1>3. PICK s \in T : \A u \in T : u \subseteq s => u = s
  BY <1>2
<1>4. /\ s \in SUBSET S /\ ~Ended(Total(f, s))
      /\ \A u \in SUBSET s : u # s => Ended(Total(f, u))
  BY <1>3
<1> HIDE DEF T
<1>5. s # {}
  <2> SUFFICES ASSUME s = {} PROVE FALSE
    OBVIOUS
  <2>1. Total(f, s) = Nothing
    BY TotalEmpty
  <2> QED
    BY <1>4, <2>1 DEF Ended, Nothing
<1>6. PICK x \in s : TRUE
  BY <1>5
<1>7. /\ IsFiniteSet(s) /\ IsFiniteSet(s \ {x})
      /\ \A y \in s : f[y] \in Measure /\ Ended(f[y])
      /\ \A y \in s \ {x} : f[y] \in Measure
  BY <1>4, FS_Subset
<1>8. Total(f, s) = Plus(f[x], Total(f, s \ {x})) /\ Total(f, s \ {x}) \in Measure
  BY <1>7, TotalRemove
<1>9. Ended(Total(f, s \ {x}))
  BY <1>4, <1>6
<1> QED
  BY <1>4, <1>7, <1>8, <1>9 DEF Ended, Plus, Measure

\* What is added to a row of ended sessions leaves it one.
LEMMA EndedAdded ==
  ASSUME NEW rows, NEW k, NEW m \in Measure, Ended(m),
         \A j \in DOMAIN rows : rows[j] \in Measure /\ Ended(rows[j])
  PROVE  \A j \in DOMAIN Added(rows, k, m) : Ended(Added(rows, k, m)[j])
<1>1. Of(rows, k) \in Measure /\ Ended(Of(rows, k))
  BY DEF Of, Nothing, Measure, Ended
<1>2. Ended(Plus(Of(rows, k), m))
  BY <1>1 DEF Ended, Plus, Measure
<1> QED
  BY <1>2 DEF Added

LEMMA AddEnded ==
  ASSUME MeasuresInv, EndedInv, NEW k, NEW m \in Measure, Ended(m), Add(k, m)
  PROVE  EndedInv'
<1>1. buffer' = Added(buffer, k, m) /\ stored' = stored /\ stores' = stores
  BY DEF Add
<1>2. \A j \in DOMAIN Added(buffer, k, m) : Ended(Added(buffer, k, m)[j])
  BY EndedAdded DEF MeasuresInv, EndedInv
<1> QED
  BY <1>1, <1>2 DEF EndedInv, Ended

\* What a store goes through are such rows.
LEMMA ArrayEnded ==
  ASSUME EndedInv, NEW l \in Loop
  PROVE  \A k \in DOMAIN ArrayOf(l) : Ended(ArrayOf(l)[k])
BY DEF ArrayOf, RowsOf, EndedInv

LEMMA StoreEnded ==
  ASSUME MeasuresInv, EndedInv, NEW l \in Loop, NEW k \in DOMAIN ArrayOf(l), StoreRow(l, k)
  PROVE  EndedInv'
<1> DEFINE m == ArrayOf(l)[k]
<1>1. /\ buffer' = buffer /\ stored' = Added(stored, StoredAs(k), m)
      /\ m \in Measure /\ Ended(m)
  BY ArrayMeasures, ArrayEnded DEF StoreRow
<1> HIDE DEF m
<1>2. \A j \in DOMAIN Added(stored, StoredAs(k), m) :
        Ended(Added(stored, StoredAs(k), m)[j])
  BY <1>1, EndedAdded DEF MeasuresInv, EndedInv
<1>3. \A n \in Loop : stores'[n].rows = stores[n].rows
  BY DEF StoreRow, MeasuresInv, StoreType
<1> QED
  BY <1>1, <1>2, <1>3 DEF EndedInv, Ended

LEMMA EndEnded ==
  ASSUME MeasuresInv, EndedInv, NEW l \in Loop, EndStore(l)
  PROVE  EndedInv'
<1>1. /\ stored' = stored
      /\ \A k \in DOMAIN buffer' : k \in DOMAIN buffer /\ buffer'[k] = buffer[k]
  BY DEF EndStore
<1>2. ASSUME NEW m \in Loop, NEW k \in DOMAIN stores'[m].rows
      PROVE  Ended(stores'[m].rows[k])
  <2>1. \/ stores'[m] = NoStore
        \/ stores'[m] = stores[m]
        \/ stores'[m] = [stores[m] EXCEPT !.live = FALSE, !.rows = ArrayOf(m)]
    BY DEF EndStore
  <2>2. stores[m] \in StoreType
    BY DEF MeasuresInv
  <2>3. \/ stores'[m] = NoStore \/ stores'[m] = stores[m]
        \/ stores'[m].rows = ArrayOf(m)
    BY <2>1, <2>2 DEF StoreType
  <2> QED
    BY <1>2, <2>3, NoStoreInert, ArrayEnded DEF EndedInv
<1> QED
  BY <1>1, <1>2 DEF EndedInv, Ended

\* The events are such measures.
LEMMA EventsEnded ==
  ASSUME NEW n \in Nat
  PROVE  Ended([Nothing EXCEPT !.hits = n]) /\ Ended([Nothing EXCEPT !.completed = 1, !.amount = n])
  BY DEF Nothing, Ended

LEMMA WorkerEnded ==
  ASSUME MeasuresInv, EndedInv, MetricNext
  PROVE  EndedInv'
<1>1. ASSUME NEW o \in Operation, NEW c \in Client, AddOperation(o, c)
      PROVE  EndedInv'
  BY <1>1, EventMeasures, EventsEnded, AddEnded DEF AddOperation
<1>2. ASSUME NEW s \in Subscription, NEW multiplier \in Multiplier,
             StartSession(s, multiplier)
      PROVE  EndedInv'
  BY <1>2, SessionAssumption, EventMeasures, EventsEnded, AddEnded DEF StartSession
<1>3. ASSUME NEW s \in Subscription, NEW amount \in Amount, EndSession(s, amount)
      PROVE  EndedInv'
  BY <1>3, SessionAssumption, EventMeasures, EventsEnded, AddEnded DEF EndSession
<1>4. ASSUME NEW series \in Series, Prune(series)
      PROVE  EndedInv'
  <2>1. \A k \in DOMAIN stored' : k \in DOMAIN stored /\ stored'[k] = stored[k]
    BY <1>4 DEF Prune
  <2> QED
    BY <1>4, <2>1 DEF Prune, EndedInv, Ended
<1>5. ASSUME NEW series \in Series, NEW l \in Loop, StartStore(l, series)
      PROVE  EndedInv'
  <2>1. [NoStore EXCEPT !.series = series, !.live = TRUE].rows = NoStore.rows
    BY DEF NoStore
  <2>2. \A m \in Loop : stores'[m].rows \in {stores[m].rows, NoStore.rows}
    BY <1>5, <2>1 DEF StartStore, MeasuresInv
  <2> QED
    BY <1>5, <2>2, NoStoreInert DEF StartStore, EndedInv, Ended
<1>6. CASE Read
  BY <1>6 DEF Read, EndedInv, Ended
<1>7. CASE Crash
  BY <1>7, NoStoreInert DEF Crash, NoRows, EndedInv, Ended
<1> QED
  BY <1>1, <1>2, <1>3, <1>4, <1>5, <1>6, <1>7, StoreEnded, EndEnded DEF MetricNext

\* Seconds and events are those of sessions that ended, in every row.
LEMMA EndedInvariance == Spec => []EndedInv
<1>1. Init => EndedInv
  <2> SUFFICES ASSUME Init PROVE EndedInv
    OBVIOUS
  <2>1. DOMAIN buffer = {} /\ stored = Before /\ stores = [l \in Loop |-> NoStore]
    BY DEF Init, MetricInit, NoRows
  <2> QED
    BY <2>1, BeforeAssumption, NoStoreInert DEF EndedInv, Ended, Range
<1>2. MeasuresInv /\ EndedInv /\ [Next]_vars => EndedInv'
  <2> SUFFICES ASSUME MeasuresInv, EndedInv, [Next]_vars PROVE EndedInv'
    OBVIOUS
  <2>1. MetricNext \/ UNCHANGED <<buffer, stored, stores>>
    BY DEF Next, Tick, Open, Wait, ChooseTab, Search, ChooseLimit, SortBy, vars, view, pageVars
  <2> QED
    BY <2>1, WorkerEnded DEF EndedInv, Ended
<1> QED
  BY <1>1, <1>2, MeasuresInvariance, PTL DEF Spec

\* The average of a row, times its sessions, is near to what they summed up.
LEMMA RowAverage ==
  ASSUME TotalsInv, EndedInv, NEW series \in Series, NEW r \in Metrics(series)
  PROVE  LET sums == Total(stored, KeysOfRow(series, r))
         IN  /\ r.average \in Nat /\ r.completed \in Nat /\ r.average * r.completed \in Nat
             /\ -r.completed <= 2 * (r.average * r.completed - 100 * sums.amount)
             /\ 2 * (r.average * r.completed - 100 * sums.amount) <= r.completed
<1> DEFINE sums == Total(stored, KeysOfRow(series, r))
<1>1. /\ sums \in Measure /\ r.completed = sums.completed
      /\ r.average = IF sums.completed = 0 THEN 0
                     ELSE Round(100 * sums.amount, sums.completed)
  BY MetricsRow
<1>2. Ended(sums)
  <2>1. /\ IsFiniteSet(KeysOfRow(series, r))
        /\ \A j \in KeysOfRow(series, r) : stored[j] \in Measure /\ Ended(stored[j])
    BY FS_Subset DEF KeysOfRow, KeysOf, TotalsInv, MeasuresInv, CountsInv, GroupsInv, EndedInv
  <2> QED
    BY <2>1, TotalEnded
<1> HIDE DEF sums
<1>3. sums.completed \in Nat /\ sums.amount \in Nat /\ 100 * sums.amount \in Nat
  BY <1>1 DEF Measure
<1>4. CASE sums.completed = 0
  <2>1. r.average = 0 /\ r.completed = 0 /\ sums.amount = 0
    BY <1>1, <1>2, <1>4 DEF Ended
  <2> QED
    BY <2>1 DEF sums
<1>5. CASE sums.completed > 0
  <2>1. /\ r.average = Round(100 * sums.amount, sums.completed) /\ r.average \in Nat
        /\ -sums.completed <= 2 * (r.average * sums.completed - 100 * sums.amount)
        /\ 2 * (r.average * sums.completed - 100 * sums.amount) <= sums.completed
    <3> DEFINE n == 100 * sums.amount
               per == sums.completed
    <3>1. n \in Nat /\ per \in Nat /\ per > 0 /\ r.average = Round(n, per)
      BY <1>1, <1>3, <1>5
    <3> HIDE DEF n, per
    <3>2. /\ Round(n, per) \in Nat
          /\ -per <= 2 * (Round(n, per) * per - n)
          /\ 2 * (Round(n, per) * per - n) <= per
      BY <3>1, RoundIsNear
    <3> QED
      BY <3>1, <3>2 DEF n, per
  <2>2. r.average * r.completed \in Nat
    BY <1>1, <1>3, <2>1
  <2> QED
    BY <1>1, <1>3, <2>1, <2>2 DEF sums
<1> QED
  BY <1>3, <1>4, <1>5

\* The average of a subscription over all hours of a read is that of its sessions, to
\* half a hundredth, although the page has only the rounded averages of the hours
\* (src/client/analytics/index.jsx:587).
THEOREM AveragesExact == Spec => []AverageIsExact
<1>1. ASSUME TotalsInv, EndedInv
      PROVE  AverageIsExact
  <2> DEFINE series == "subscription"
             rows == Metrics(series)
             In(l) == {p \in rows : p.label = l}
             sums(l) == Total(stored, KeysOfLabel(series, l))
             weighted(l) == SumFunction([p \in In(l) |-> p.average * p.completed])
             completed(l) == SumFunction([p \in In(l) |-> p.completed])
  <2>1. series \in Series
    BY DEF Series
  <2>2. ASSUME NEW l
        PROVE  LET error == weighted(l) - 100 * sums(l).amount
               IN  /\ completed(l) = sums(l).completed
                   /\ -completed(l) <= 2 * error /\ 2 * error <= completed(l)
    <3> DEFINE R == In(l)
               m == [p \in rows |-> Total(stored, KeysOfRow(series, p))]
               w == [p \in R |-> [hits |-> 0, completed |-> 0,
                                  amount |-> p.average * p.completed]]
               f == [p \in R |-> p.average * p.completed]
               g == [p \in R |-> p.completed]
    <3>1. /\ IsFiniteSet(R) /\ Total(m, R) = sums(l)
          /\ \A p \in R : m[p] \in Measure
      <4>1. \A p \in rows : m[p] = Total(stored, KeysOfRow(series, p))
        OBVIOUS
      <4> HIDE DEF m, series
      <4> QED
        BY <1>1, <2>1, <4>1, MetricsTotal
    <3>2. \A p \in R : /\ w[p] \in Measure /\ p.completed = m[p].completed
                       /\ -m[p].completed <= 2 * (w[p].amount - 100 * m[p].amount)
                       /\ 2 * (w[p].amount - 100 * m[p].amount) <= m[p].completed
      <4> SUFFICES ASSUME NEW p \in R
                   PROVE  /\ w[p] \in Measure /\ p.completed = m[p].completed
                          /\ -m[p].completed <= 2 * (w[p].amount - 100 * m[p].amount)
                          /\ 2 * (w[p].amount - 100 * m[p].amount) <= m[p].completed
        OBVIOUS
      <4> HIDE DEF series
      <4>1. p \in rows /\ m[p] = Total(stored, KeysOfRow(series, p))
        OBVIOUS
      <4>2. /\ p.average * p.completed \in Nat
            /\ -p.completed <= 2 * (p.average * p.completed - 100 * m[p].amount)
            /\ 2 * (p.average * p.completed - 100 * m[p].amount) <= p.completed
        BY <1>1, <2>1, <4>1, RowAverage
      <4>3. p.completed = m[p].completed
        BY <1>1, <2>1, <4>1, MetricsRow
      <4>4. w[p].amount = p.average * p.completed /\ w[p] \in Measure
        BY <4>2 DEF Measure
      <4> QED
        BY <4>2, <4>3, <4>4
    <3>3. SumFunction(f) = Total(w, R)["amount"]
      <4>1. DOMAIN f = R /\ \A p \in R : f[p] = w[p]["amount"]
        OBVIOUS
      <4> HIDE DEF f, w, R
      <4> QED
        BY <3>1, <4>1, SumIsTotal
    <3>4. SumFunction(g) = Total(m, R)["completed"]
      <4>1. DOMAIN g = R /\ \A p \in R : g[p] = m[p]["completed"]
        BY <3>2
      <4> HIDE DEF g, m, R
      <4> QED
        BY <3>1, <4>1, SumIsTotal
    <3>5. weighted(l) = Total(w, R).amount /\ completed(l) = Total(m, R).completed
      BY <3>3, <3>4
    <3> HIDE DEF w, m, R, sums, weighted, completed
    <3>6. LET error == Total(w, R).amount - 100 * Total(m, R).amount
          IN  -Total(m, R).completed <= 2 * error /\ 2 * error <= Total(m, R).completed
      BY <3>1, <3>2, SumIsNear
    <3> QED
      BY <3>1, <3>5, <3>6
  <2>3. ASSUME NEW r \in Summed(rows, now)
        PROVE  r.weighted = weighted(r.label) /\ r.completed = completed(r.label)
    <3> HIDE DEF rows
    <3>1. PICK l \in {p.label : p \in rows} : r =
            [label |-> l,
             hits1h |-> SumFunction([p \in {p \in In(l) : StartOf(p.hour) >= now - UnitsPerHour}
                                       |-> p.hits]),
             hits24h |-> SumFunction([p \in In(l) |-> p.hits]), hitsSum |-> 0,
             weighted |-> SumFunction([p \in In(l) |-> p.average * p.completed]),
             completed |-> SumFunction([p \in In(l) |-> p.completed])]
      BY <2>3, Zenon DEF Summed, SumOf
    <3> QED
      BY <3>1
  <2>4. ASSUME NEW l
        PROVE  {k \in DOMAIN stored : k.series = series /\ k.name = l
                                      /\ InWindow(k.hour, Window)} = KeysOfLabel(series, l)
    BY DEF KeysOfLabel, KeysOf
  <2> HIDE DEF weighted, completed
  <2> QED
    BY <2>2, <2>3, <2>4 DEF AverageIsExact
<1> QED
  BY <1>1, TotalsInvariance, EndedInvariance, PTL

------------------------------------------------------------------------------
(* Ranks.                                                                  *)

\* before[r] is what comes before r when S is sorted.
Sorts(before, S) ==
  /\ \A r \in S : before[r] \in SUBSET (S \ {r})
  /\ \A r \in S : \A s \in before[r] : before[s] \subseteq before[r]
  /\ \A r, s \in S : r # s => r \in before[s] \/ s \in before[r]

\* What comes before has a lower rank.
LEMMA RanksIncrease ==
  ASSUME NEW S, IsFiniteSet(S), NEW before, Sorts(before, S), NEW r \in S
  PROVE  /\ Cardinality(before[r]) \in Nat
         /\ Cardinality(before[r]) < Cardinality(S)
         /\ \A s \in before[r] : Cardinality(before[s]) < Cardinality(before[r])
<1> DEFINE B == before[r]
<1>1. B \in SUBSET S /\ r \notin B
  BY DEF Sorts
<1>2. /\ IsFiniteSet(B) /\ Cardinality(B) \in Nat /\ Cardinality(S) \in Nat
      /\ Cardinality(B) < Cardinality(S)
  BY <1>1, FS_Subset, FS_CardinalityType
<1>3. ASSUME NEW s \in B
      PROVE  Cardinality(before[s]) < Cardinality(B)
  <2> DEFINE C == before[s]
  <2>1. C \in SUBSET B /\ s \notin C
    BY <1>1 DEF Sorts
  <2> HIDE DEF B, C
  <2>2. IsFiniteSet(C) /\ Cardinality(C) \in Nat /\ Cardinality(C) <= Cardinality(B)
        /\ (Cardinality(C) = Cardinality(B) => B = C)
    BY <1>2, <2>1, FS_Subset, FS_CardinalityType
  <2>3. Cardinality(C) < Cardinality(B)
    BY <1>2, <1>3, <2>1, <2>2
  <2> QED
    BY <2>3 DEF C
<1> QED
  BY <1>2, <1>3

\* As many are cut from the top as are asked for, and none that is left out comes
\* before one of those.
LEMMA CutFromTop ==
  ASSUME NEW S, IsFiniteSet(S), NEW before, Sorts(before, S), NEW most \in Nat
  PROVE  LET top == {r \in S : Cardinality(before[r]) < most}
         IN  /\ Cardinality(top) = IF Cardinality(S) < most THEN Cardinality(S) ELSE most
             /\ \A r \in top : \A s \in S \ top : s \notin before[r]
<1> DEFINE top == {r \in S : Cardinality(before[r]) < most}
           all == Cardinality(S)
           ranks == 0..(all - 1)
           rank == [r \in S |-> Cardinality(before[r])]
           size == IF all < most THEN all ELSE most
           some == 0..(size - 1)
           ranked == [r \in top |-> rank[r]]
<1>1. all \in Nat /\ size \in Nat
  BY FS_CardinalityType
<1>2. /\ \A r \in S : Cardinality(before[r]) \in Nat /\ Cardinality(before[r]) < all
      /\ \A r \in S : \A s \in before[r] : Cardinality(before[s]) < Cardinality(before[r])
  BY RanksIncrease
<1>3. \A r, s \in S : r # s => rank[r] # rank[s]
  BY <1>2 DEF Sorts
<1>4. \A r \in S : rank[r] \in Nat /\ rank[r] < all
  BY <1>2
<1>5. \A r \in S : r \in top <=> rank[r] < most
  OBVIOUS
<1>6. rank \in [S -> ranks]
  BY <1>1, <1>4
<1>7. /\ IsFiniteSet(ranks) /\ Cardinality(ranks) = all
      /\ IsFiniteSet(some) /\ Cardinality(some) = size
  <2> HIDE DEF all, size
  <2>1. ASSUME NEW n \in Nat
        PROVE  IsFiniteSet(0..(n - 1)) /\ Cardinality(0..(n - 1)) = n
    <3> DEFINE a == n - 1
    <3>1. a \in Int /\ (0 > a <=> n = 0) /\ n = a + 1
      OBVIOUS
    <3> HIDE DEF a
    <3>2. IsFiniteSet(0..a) /\ Cardinality(0..a) = IF 0 > a THEN 0 ELSE a - 0 + 1
      BY <3>1, FS_Interval
    <3>3. IsFiniteSet(0..a) /\ Cardinality(0..a) = n
      BY <3>1, <3>2
    <3> QED
      BY <3>3 DEF a
  <2> QED
    BY <1>1, <2>1
<1> HIDE DEF rank, ranks
<1>8. rank \in Injection(S, ranks)
  BY <1>3, <1>6 DEF Injection, IsInjective
<1>9. rank \in Surjection(S, ranks)
  BY <1>7, <1>8, FS_Injection
<1>10. \A n \in ranks : \E r \in S : rank[r] = n
  BY <1>9 DEF Surjection
<1>11. ranked \in Bijection(top, some)
  <2>1. ranked \in [top -> some]
    BY <1>1, <1>4, <1>5
  <2>2. \A r, s \in top : r # s => ranked[r] # ranked[s]
    BY <1>3
  <2>3. \A n \in some : \E r \in top : ranked[r] = n
    <3> TAKE n \in some
    <3>1. n \in ranks /\ n < most
      BY <1>1 DEF ranks
    <3>2. PICK r \in S : rank[r] = n
      BY <1>10, <3>1
    <3> QED
      BY <1>5, <3>1, <3>2
  <2> HIDE DEF ranked, some, top
  <2> QED
    BY <2>1, <2>2, <2>3 DEF Bijection, Injection, IsInjective, Surjection
<1>12. Cardinality(top) = size
  <2>1. ExistsBijection(top, some)
    BY <1>11 DEF ExistsBijection
  <2>2. IsFiniteSet(top)
    BY FS_Subset
  <2> HIDE DEF top, some, size
  <2> QED
    BY <1>7, <2>1, <2>2, FS_Bijection
<1>13. \A r \in top : \A s \in S \ top : s \notin before[r]
  <2> SUFFICES ASSUME NEW r \in top, NEW s \in S \ top, s \in before[r]
               PROVE  FALSE
    OBVIOUS
  <2>1. Cardinality(before[s]) < Cardinality(before[r])
    BY <1>2
  <2> QED
    BY <1>2, <2>1
<1> QED
  BY <1>12, <1>13

\* Fractions, which the columns are compared with
Positive(x) == x \in Nat \X Nat /\ x[2] > 0

LEMMA Monotone ==
  ASSUME NEW a \in Nat, NEW b \in Nat, NEW c \in Nat
  PROVE  /\ a <= b => a * c <= b * c
         /\ c > 0 /\ a * c <= b * c => a <= b
         /\ c > 0 /\ a < b => a * c < b * c
  BY SMT

\* The order of fractions is transitive, and so is that they are in no order.
LEMMA LessOrders ==
  ASSUME NEW x, NEW y, NEW z, Positive(x), Positive(y), Positive(z)
  PROVE  /\ Less(x, y) => ~Less(y, x)
         /\ ~Less(y, x) /\ ~Less(z, y) => ~Less(z, x)
         /\ Less(x, y) /\ ~Less(z, y) => Less(x, z)
         /\ ~Less(y, x) /\ Less(y, z) => Less(x, z)
<1> DEFINE p == x[1]
           q == x[2]
           r == y[1]
           s == y[2]
           u == z[1]
           v == z[2]
<1>1. /\ p \in Nat /\ q \in Nat /\ r \in Nat /\ s \in Nat /\ u \in Nat /\ v \in Nat
      /\ q > 0 /\ s > 0 /\ v > 0
  BY DEF Positive
<1>2. /\ Less(x, y) <=> p * s < r * q
      /\ Less(y, x) <=> r * q < p * s
      /\ Less(y, z) <=> r * v < u * s
      /\ Less(z, y) <=> u * s < r * v
      /\ Less(x, z) <=> p * v < u * q
      /\ Less(z, x) <=> u * q < p * v
  BY DEF Less
<1> HIDE DEF p, q, r, s, u, v
<1> DEFINE ps == p * s
           rq == r * q
           rv == r * v
           us == u * s
           pv == p * v
           uq == u * q
<1>3. /\ ps \in Nat /\ rq \in Nat /\ rv \in Nat /\ us \in Nat /\ pv \in Nat /\ uq \in Nat
      /\ ps * v = pv * s /\ rq * v = rv * q /\ us * q = uq * s
  BY <1>1
<1>4. /\ Less(x, y) <=> ps < rq
      /\ Less(y, x) <=> rq < ps
      /\ Less(y, z) <=> rv < us
      /\ Less(z, y) <=> us < rv
      /\ Less(x, z) <=> pv < uq
      /\ Less(z, x) <=> uq < pv
  BY <1>2
<1> HIDE DEF ps, rq, rv, us, pv, uq
<1>5. /\ ps * v \in Nat /\ rq * v \in Nat /\ rv * q \in Nat /\ us * q \in Nat
      /\ pv * s \in Nat /\ uq * s \in Nat
  BY <1>1, <1>3
<1>6. /\ ps <= rq => ps * v <= rq * v
      /\ ps < rq => ps * v < rq * v
      /\ rv <= us => rv * q <= us * q
      /\ rv < us => rv * q < us * q
      /\ pv * s <= uq * s => pv <= uq
      /\ uq <= pv => uq * s <= pv * s
  BY <1>1, <1>3, Monotone
<1> DEFINE psv == ps * v
           rqv == rq * v
           usq == us * q
<1>7. /\ psv \in Nat /\ rqv \in Nat /\ usq \in Nat
      /\ ps <= rq => psv <= rqv
      /\ ps < rq => psv < rqv
      /\ rv <= us => rqv <= usq
      /\ rv < us => rqv < usq
      /\ psv <= usq => pv <= uq
      /\ uq <= pv => usq <= psv
  BY <1>3, <1>5, <1>6
<1> HIDE DEF psv, rqv, usq
<1> QED
  BY <1>3, <1>4, <1>7

\* What the order of a table needs of its rows and of what it is sorted by
IsRow(r) ==
  /\ r.label \in Nat /\ r.hits1h \in Nat /\ r.hits24h \in Nat /\ r.hitsSum \in Nat
  /\ r.weighted \in Nat /\ r.completed \in Nat
Columns == {"label", "hits1h", "hits24h", "hitsSum", "average"}
IsOrder(by) == by[1] \in Columns /\ by[2] \in {"asc", "desc"}
IsTable(S) ==
  /\ IsFiniteSet(S) /\ \A r \in S : IsRow(r)
  /\ \A r, s \in S : r.label = s.label => r = s

LEMMA ValueIsFraction ==
  ASSUME NEW r, IsRow(r), NEW column \in Columns
  PROVE  Positive(Value(r, column))
  BY DEF IsRow, Columns, Value, Positive

\* Every order sorts every table.
LEMMA TableSorts ==
  ASSUME NEW S, IsTable(S), NEW by, IsOrder(by)
  PROVE  Sorts([r \in S |-> {s \in S : Precedes(s, r, by)}], S)
<1> DEFINE x(r) == Value(r, by[1])
           before == [r \in S |-> {s \in S : Precedes(s, r, by)}]
<1>1. \A r \in S : Positive(x(r)) /\ r.label \in Nat
  BY ValueIsFraction DEF IsTable, IsOrder, IsRow
<1>2. \A r, s \in S : Precedes(r, s, by) <=>
        \/ by[2] = "asc" /\ Less(x(r), x(s))
        \/ by[2] = "desc" /\ Less(x(s), x(r))
        \/ ~Less(x(r), x(s)) /\ ~Less(x(s), x(r)) /\ r.label < s.label
  BY DEF Precedes
<1> HIDE DEF x
<1>3. \A r, s, t \in S :
        /\ Less(x(r), x(s)) => ~Less(x(s), x(r))
        /\ ~Less(x(s), x(r)) /\ ~Less(x(t), x(s)) => ~Less(x(t), x(r))
        /\ Less(x(r), x(s)) /\ ~Less(x(t), x(s)) => Less(x(r), x(t))
        /\ ~Less(x(s), x(r)) /\ Less(x(s), x(t)) => Less(x(r), x(t))
  BY <1>1, LessOrders
<1>4. by[2] \in {"asc", "desc"}
  BY DEF IsOrder
<1>5. \A r \in S : ~Precedes(r, r, by)
  BY <1>1, <1>2, <1>3
<1>6. ASSUME NEW r \in S, NEW s \in S, NEW t \in S,
             Precedes(t, s, by), Precedes(s, r, by)
      PROVE  Precedes(t, r, by)
  <2> DEFINE a == r.label
             b == s.label
             c == t.label
  <2>1. a \in Nat /\ b \in Nat /\ c \in Nat
    BY <1>1
  <2>2. c < b /\ b < a => c < a
    BY <2>1
  <2> QED
    BY <1>2, <1>3, <1>4, <1>6, <2>2
<1>7. ASSUME NEW r \in S, NEW s \in S, r # s
      PROVE  Precedes(r, s, by) \/ Precedes(s, r, by)
  <2>1. r.label < s.label \/ s.label < r.label
    BY <1>1, <1>7 DEF IsTable
  <2> QED
    BY <1>2, <1>4, <2>1
<1> QED
  BY <1>5, <1>6, <1>7 DEF Sorts

\* The first rows of a table: as many as there should be, and none that is left out
\* ranks above one of them.
LEMMA CutIsTop ==
  ASSUME NEW S, IsTable(S), NEW by, IsOrder(by), NEW most \in Nat
  PROVE  LET cut == Cut(S, by, most)
         IN  /\ Cardinality(cut) = IF Cardinality(S) < most THEN Cardinality(S) ELSE most
             /\ cut \subseteq S
             /\ \A r \in cut : \A s \in S \ cut :
                  LET x == Value(r, by[1])  y == Value(s, by[1])
                  IN  IF by[2] = "asc" THEN ~Less(y, x) ELSE ~Less(x, y)
<1> DEFINE before == [r \in S |-> {s \in S : Precedes(s, r, by)}]
           top == {r \in S : Cardinality(before[r]) < most}
<1>1. top = Cut(S, by, most)
  BY DEF Cut
<1>2. Sorts(before, S) /\ IsFiniteSet(S)
  BY TableSorts DEF IsTable
<1>3. \A r, s \in S : s \notin before[r] => ~Precedes(s, r, by)
  OBVIOUS
<1>4. /\ Cardinality(top) = IF Cardinality(S) < most THEN Cardinality(S) ELSE most
      /\ \A r \in top : \A s \in S \ top : s \notin before[r]
  <2> HIDE DEF before
  <2> QED
    BY <1>2, CutFromTop
<1>5. \A r \in top : \A s \in S \ top : ~Precedes(s, r, by)
  BY <1>3, <1>4
<1>6. top \subseteq S
  OBVIOUS
<1> HIDE DEF top
<1>7. ASSUME NEW r \in top, NEW s \in S \ top
      PROVE  LET x == Value(r, by[1])  y == Value(s, by[1])
             IN  IF by[2] = "asc" THEN ~Less(y, x) ELSE ~Less(x, y)
  BY <1>5 DEF Precedes, IsOrder
<1> QED
  BY <1>1, <1>4, <1>6, <1>7

------------------------------------------------------------------------------
(* What the reads answer.                                                  *)

LEMMA ImageIsFinite ==
  ASSUME NEW S, IsFiniteSet(S), NEW f
  PROVE  IsFiniteSet({f[x] : x \in S})
<1> DEFINE g == [x \in S |-> f[x]]
<1>1. g \in Surjection(S, {f[x] : x \in S})
  BY DEF Surjection
<1> QED
  BY <1>1, FS_Surjection

\* Hits of fields, as a measure
HitMeasure == [h \in SchemaHits |-> [hits |-> h.hits, completed |-> 0, amount |-> 0]]

LEMMA HitsAreTotal ==
  ASSUME NEW S \in SUBSET SchemaHits
  PROVE  /\ IsFiniteSet(S) /\ \A h \in S : HitMeasure[h] \in Measure
         /\ HitsIn(S) \in Nat /\ HitsIn(S) = Total(HitMeasure, S).hits
<1> DEFINE f == [h \in S |-> h.hits]
<1>1. IsFiniteSet(S)
  BY HitAssumption, FS_Subset
<1>2. \A h \in S : h.hits \in Nat
  BY HitAssumption
<1>3. \A h \in S : HitMeasure[h] \in Measure /\ HitMeasure[h]["hits"] = h.hits
  BY <1>2 DEF HitMeasure, Measure
<1>4. Total(HitMeasure, S) \in Measure
  BY <1>1, <1>3, TotalRemove
<1>5. HitsIn(S) = SumFunction(f)
  BY DEF HitsIn
<1>6. DOMAIN f = S /\ \A h \in S : f[h] = HitMeasure[h]["hits"]
  BY <1>3
<1> HIDE DEF f
<1>7. SumFunction(f) = Total(HitMeasure, S)["hits"]
  BY <1>1, <1>6, SumIsTotal
<1> QED
  BY <1>1, <1>3, <1>4, <1>5, <1>7 DEF Measure

\* Rows of a read: numbers, one for each key and hour, and a key is a label unless
\* it is a client.
IsData(d, rows) ==
  /\ IsFiniteSet(rows)
  /\ \A p \in rows : p.label \in Label /\ p.hits \in Nat /\ p.completed \in Nat
                     /\ p.average \in Nat
  /\ \A p, q \in rows : p.key = q.key /\ p.hour = q.hour => p = q
  /\ d # "clients" => \A p \in rows : p.key = p.label

LEMMA MetricsAreData ==
  ASSUME TotalsInv, NEW series \in Series, NEW d
  PROVE  IsData(d, Metrics(series))
<1>1. IsFiniteSet(Metrics(series))
      /\ \A p, q \in Metrics(series) : p.label = q.label /\ p.hour = q.hour => p = q
  BY MetricsRows
<1>2. ASSUME NEW r \in Metrics(series)
      PROVE  /\ r.label \in Label /\ r.hits \in Nat /\ r.completed \in Nat
             /\ r.average \in Nat /\ r.key = r.label
  <2> DEFINE sums == Total(stored, KeysOfRow(series, r))
             n == 100 * sums.amount
             per == sums.completed
  <2>1. /\ KeysOfRow(series, r) # {} /\ sums \in Measure
        /\ r.key = r.label /\ r.hits = sums.hits /\ r.completed = sums.completed
        /\ r.average = IF per = 0 THEN 0 ELSE Round(n, per)
    BY MetricsRow
  <2>2. \E k \in DOMAIN stored : k.name = r.label
    BY <2>1 DEF KeysOfRow, KeysOf
  <2>3. r.label \in Operation \cup Subscription
    BY <2>2 DEF TotalsInv, MeasuresInv, StoredKey, Row
  <2>4. n \in Nat /\ per \in Nat
    BY <2>1 DEF Measure
  <2>5. r.average \in Nat
    <3> HIDE DEF n, per
    <3>1. per > 0 => Round(n, per) \in Nat
      BY <2>4, RoundIsNear
    <3> QED
      BY <2>1, <2>4, <3>1
  <2> QED
    BY <2>1, <2>3, <2>5, PageAssumption DEF Measure
<1> QED
  BY <1>1, <1>2 DEF IsData

LEMMA ClientHitsAreData == IsData("clients", ClientHits)
<1> DEFINE rows == {h \in HitRows : InWindow(h.hour, Window)}
           hits(h) == HitsIn({g \in rows : g.client = h.client /\ g.hour = h.hour})
           row(h) == [key |-> h.client, label |-> ClientLabel[h.client], hour |-> h.hour,
                      hits |-> hits(h), completed |-> 0, average |-> 0]
<1>1. ClientHits = {row(h) : h \in rows}
  BY DEF ClientHits
<1>2. rows \in SUBSET SchemaHits
  BY DEF HitRows
<1>3. IsFiniteSet(rows)
  BY <1>2, HitAssumption, FS_Subset
<1>4. \A h \in rows : hits(h) \in Nat
  <2> SUFFICES ASSUME NEW h \in rows PROVE hits(h) \in Nat
    OBVIOUS
  <2> DEFINE S == {g \in rows : g.client = h.client /\ g.hour = h.hour}
  <2>1. S \in SUBSET SchemaHits
    BY <1>2
  <2>2. HitsIn(S) \in Nat
    BY <2>1, HitsAreTotal
  <2> QED
    BY <2>2
<1>5. \A h \in rows : ClientLabel[h.client] \in Label
  <2> SUFFICES ASSUME NEW h \in rows PROVE ClientLabel[h.client] \in Label
    OBVIOUS
  <2>1. h.client \in DOMAIN ClientLabel
    BY <1>2, HitAssumption, ClientAssumption
  <2> QED
    BY <2>1, PageAssumption DEF Range
<1>6. \A g, h \in rows : g.client = h.client /\ g.hour = h.hour => row(g) = row(h)
  OBVIOUS
<1>7. IsFiniteSet({row(h) : h \in rows})
  <2> DEFINE f == [h \in rows |-> row(h)]
  <2>1. {f[h] : h \in rows} = {row(h) : h \in rows}
    OBVIOUS
  <2> HIDE DEF f, row, rows
  <2> QED
    BY <1>3, <2>1, ImageIsFinite
<1> HIDE DEF rows, hits
<1> QED
  BY <1>1, <1>4, <1>5, <1>6, <1>7 DEF IsData

LEMMA EntityHitsAreData == IsData("entities", EntityHits)
<1> DEFINE rows == {h \in HitRows : InWindow(h.hour, Window)}
           hits(h) == HitsIn({g \in rows : g.entity = h.entity /\ g.hour = h.hour})
           row(h) == [key |-> h.entity, label |-> h.entity, hour |-> h.hour,
                      hits |-> hits(h), completed |-> 0, average |-> 0]
<1>1. EntityHits = {row(h) : h \in rows}
  BY DEF EntityHits
<1>2. rows \in SUBSET SchemaHits
  BY DEF HitRows
<1>3. IsFiniteSet(rows)
  BY <1>2, HitAssumption, FS_Subset
<1>4. \A h \in rows : hits(h) \in Nat
  <2> SUFFICES ASSUME NEW h \in rows PROVE hits(h) \in Nat
    OBVIOUS
  <2> DEFINE S == {g \in rows : g.entity = h.entity /\ g.hour = h.hour}
  <2>1. S \in SUBSET SchemaHits
    BY <1>2
  <2>2. HitsIn(S) \in Nat
    BY <2>1, HitsAreTotal
  <2> QED
    BY <2>2
<1>5. \A h \in rows : h.entity \in Label
  BY <1>2, PageAssumption
<1>6. \A g, h \in rows : g.entity = h.entity /\ g.hour = h.hour => row(g) = row(h)
  OBVIOUS
<1>7. IsFiniteSet({row(h) : h \in rows})
  <2> DEFINE f == [h \in rows |-> row(h)]
  <2>1. {f[h] : h \in rows} = {row(h) : h \in rows}
    OBVIOUS
  <2> HIDE DEF f, row, rows
  <2> QED
    BY <1>3, <2>1, ImageIsFinite
<1> HIDE DEF rows, hits
<1> QED
  BY <1>1, <1>4, <1>5, <1>6, <1>7 DEF IsData

LEMMA AnswersAreData ==
  ASSUME TotalsInv, NEW d \in CachedRead
  PROVE  IsData(d, Answer(d))
<1>1. CASE d = "operations"
  <2>1. Answer(d) = Metrics("operation")
    BY <1>1 DEF Answer
  <2> QED
    BY <2>1, MetricsAreData DEF Series
<1>2. CASE d = "subscriptions"
  <2>1. Answer(d) = Metrics("subscription")
    BY <1>2 DEF Answer
  <2> QED
    BY <2>1, MetricsAreData DEF Series
<1>3. CASE d = "clients"
  BY <1>3, ClientHitsAreData DEF Answer
<1>4. CASE d = "entities"
  BY <1>4, EntityHitsAreData DEF Answer
<1> QED
  BY <1>1, <1>2, <1>3, <1>4 DEF CachedRead

\* Fields: numbers, and one for each label
IsFields(S) ==
  /\ IsFiniteSet(S)
  /\ \A f \in S : /\ f.label \in Label /\ f.entity \in Label
                  /\ f.hits1h \in Nat /\ f.hits24h \in Nat /\ f.hitsSum \in Nat
  /\ \A f, g \in S : f.label = g.label => f = g

LEMMA FieldsAreFields == IsFields(Fields)
<1> DEFINE hits(h, hours) == HitsIn({g \in HitRows : g.entity = h.entity /\ g.field = h.field
                                                     /\ InWindow(g.hour, hours)})
           row(h) == [label |-> h.field, entity |-> h.entity, hits1h |-> hits(h, 1),
                      hits24h |-> hits(h, Window), hitsSum |-> hits(h, MaxTime)]
<1>1. Fields = {row(h) : h \in HitRows}
  BY DEF Fields
<1>2. HitRows \in SUBSET SchemaHits
  BY DEF HitRows
<1>3. IsFiniteSet(HitRows)
  BY <1>2, HitAssumption, FS_Subset
<1>4. ASSUME NEW h, NEW hours
      PROVE  hits(h, hours) \in Nat
  <2> DEFINE S == {g \in HitRows : g.entity = h.entity /\ g.field = h.field
                                   /\ InWindow(g.hour, hours)}
  <2>1. S \in SUBSET SchemaHits
    BY <1>2
  <2>2. HitsIn(S) \in Nat
    BY <2>1, HitsAreTotal
  <2> QED
    BY <2>2
<1>5. \A h \in HitRows : h.entity \in Label /\ h.field \in Label
  BY <1>2, PageAssumption
<1>6. \A g, h \in HitRows : g.field = h.field => g.entity = h.entity
  BY <1>2, HitAssumption
<1>7. \A g, h \in HitRows : g.field = h.field => row(g) = row(h)
  BY <1>6
<1>8. IsFiniteSet({row(h) : h \in HitRows})
  <2> DEFINE f == [h \in HitRows |-> row(h)]
  <2>1. {f[h] : h \in HitRows} = {row(h) : h \in HitRows}
    OBVIOUS
  <2> HIDE DEF f, row
  <2> QED
    BY <1>3, <2>1, ImageIsFinite
<1> HIDE DEF hits
<1> QED
  BY <1>1, <1>4, <1>5, <1>7, <1>8 DEF IsFields

------------------------------------------------------------------------------
(* Sums of numbers.                                                        *)

\* A number as a measure
AsHits(f, S) == [x \in S |-> [hits |-> f[x], completed |-> 0, amount |-> 0]]

LEMMA SumIsHits ==
  ASSUME NEW f, IsFiniteSet(DOMAIN f), \A x \in DOMAIN f : f[x] \in Nat
  PROVE  LET m == AsHits(f, DOMAIN f)
         IN  /\ SumFunction(f) \in Nat /\ SumFunction(f) = Total(m, DOMAIN f).hits
             /\ \A x \in DOMAIN f : m[x] \in Measure /\ m[x].hits = f[x]
<1> DEFINE S == DOMAIN f
           m == AsHits(f, S)
<1>1. \A x \in S : m[x] \in Measure /\ m[x]["hits"] = f[x]
  BY DEF AsHits, Measure
<1> HIDE DEF m
<1>2. Total(m, S) \in Measure
  BY <1>1, TotalRemove
<1>3. SumFunction(f) = Total(m, S)["hits"]
  BY <1>1, SumIsTotal
<1> QED
  BY <1>1, <1>2, <1>3 DEF m, Measure

------------------------------------------------------------------------------
(* Tables.                                                                 *)

\* The hits of one label, and the row of it
LabelHits(rows, l) == SumFunction([p \in {q \in rows : q.label = l} |-> p.hits])
SummedRow(rows, time, l) ==
  LET In == {p \in rows : p.label = l}
  IN  [label |-> l,
       hits1h |-> SumFunction([p \in {q \in In : StartOf(q.hour) >= time - UnitsPerHour}
                                 |-> p.hits]),
       hits24h |-> SumFunction([p \in In |-> p.hits]), hitsSum |-> 0,
       weighted |-> SumFunction([p \in In |-> p.average * p.completed]),
       completed |-> SumFunction([p \in In |-> p.completed])]

LEMMA SummedRows ==
  ASSUME NEW rows, NEW time
  PROVE  Summed(rows, time) = {SummedRow(rows, time, l) : l \in {p.label : p \in rows}}
  BY Zenon DEF Summed, SumOf, SummedRow

LEMMA SumIsNat ==
  ASSUME NEW f, IsFiniteSet(DOMAIN f), \A x \in DOMAIN f : f[x] \in Nat
  PROVE  SumFunction(f) \in Nat
  BY SumIsHits

LEMMA SummedIsTable ==
  ASSUME NEW d, NEW rows, IsData(d, rows), NEW time
  PROVE  /\ IsTable(Summed(rows, time))
         /\ \A p \in rows : \E r \in Summed(rows, time) : r.label = p.label
         /\ \A r \in Summed(rows, time) :
              /\ r.label \in Label /\ \E p \in rows : p.label = r.label
              /\ r.hits24h = LabelHits(rows, r.label)
<1> DEFINE labels == {p.label : p \in rows}
           row(l) == SummedRow(rows, time, l)
<1>1. Summed(rows, time) = {row(l) : l \in labels}
  BY SummedRows
<1>2. IsFiniteSet(labels)
  <2> DEFINE f == [p \in rows |-> p.label]
  <2>1. {f[p] : p \in rows} = labels
    OBVIOUS
  <2> HIDE DEF f, labels
  <2> QED
    BY <2>1, ImageIsFinite DEF IsData
<1>3. IsFiniteSet({row(l) : l \in labels})
  <2> DEFINE f == [l \in labels |-> row(l)]
  <2>1. {f[l] : l \in labels} = {row(l) : l \in labels}
    OBVIOUS
  <2> HIDE DEF f, labels, row
  <2> QED
    BY <1>2, <2>1, ImageIsFinite
<1>4. ASSUME NEW l
      PROVE  /\ row(l).label = l
             /\ row(l).hits24h = LabelHits(rows, l)
  BY DEF SummedRow, LabelHits
<1>5. \A l \in labels : l \in Label
  BY DEF IsData
<1>6. ASSUME NEW l \in labels
      PROVE  IsRow(row(l))
  <2> DEFINE In == {p \in rows : p.label = l}
             Recent == {q \in In : StartOf(q.hour) >= time - UnitsPerHour}
             a == [p \in Recent |-> p.hits]
             b == [p \in In |-> p.hits]
             w == [p \in In |-> p.average * p.completed]
             c == [p \in In |-> p.completed]
  <2>1. row(l) = [label |-> l, hits1h |-> SumFunction(a), hits24h |-> SumFunction(b),
                  hitsSum |-> 0, weighted |-> SumFunction(w), completed |-> SumFunction(c)]
    BY DEF SummedRow
  <2>2. IsFiniteSet(In) /\ IsFiniteSet(Recent)
    BY FS_Subset DEF IsData
  <2>3. /\ \A p \in In : p.hits \in Nat /\ p.completed \in Nat /\ p.average * p.completed \in Nat
        /\ Recent \subseteq In
    BY DEF IsData
  <2>4. /\ DOMAIN a = Recent /\ \A p \in Recent : a[p] \in Nat
        /\ DOMAIN b = In /\ \A p \in In : b[p] \in Nat
        /\ DOMAIN w = In /\ \A p \in In : w[p] \in Nat
        /\ DOMAIN c = In /\ \A p \in In : c[p] \in Nat
    BY <2>3
  <2>5. l \in Nat
    BY <1>5, PageAssumption
  <2> HIDE DEF In, Recent, a, b, w, c, row
  <2>6. /\ SumFunction(a) \in Nat /\ SumFunction(b) \in Nat
        /\ SumFunction(w) \in Nat /\ SumFunction(c) \in Nat
    BY <2>2, <2>4, SumIsNat
  <2> QED
    BY <2>1, <2>5, <2>6 DEF IsRow
<1> HIDE DEF row, labels
<1>7. \A r \in Summed(rows, time) : r.label \in labels /\ r = row(r.label)
  BY <1>1, <1>4
<1>8. \A p \in rows : \E r \in Summed(rows, time) : r.label = p.label
  <2>1. \A p \in rows : p.label \in labels
    BY DEF labels
  <2> QED
    BY <1>1, <1>4, <2>1
<1>9. \A r \in Summed(rows, time) :
        r.label \in Label /\ r.hits24h = LabelHits(rows, r.label)
  BY <1>4, <1>5, <1>7
<1>10. IsTable(Summed(rows, time))
  <2>1. \A r \in Summed(rows, time) : IsRow(r)
    BY <1>6, <1>7
  <2>2. \A r, s \in Summed(rows, time) : r.label = s.label => r = s
    BY <1>7
  <2> QED
    BY <1>1, <1>3, <2>1, <2>2 DEF IsTable
<1>11. \A r \in Summed(rows, time) : \E p \in rows : p.label = r.label
  BY <1>7 DEF labels
<1> QED
  BY <1>8, <1>9, <1>10, <1>11

\* The fields of an entity, and the row of it
FieldsOf(e) == {f \in fields : f.entity = e}
EntityRow(e) ==
  [label |-> e, hits1h |-> SumFunction([f \in FieldsOf(e) |-> f.hits1h]),
   hits24h |-> SumFunction([f \in FieldsOf(e) |-> f.hits24h]),
   hitsSum |-> SumFunction([f \in FieldsOf(e) |-> f.hitsSum]), weighted |-> 0, completed |-> 0]

LEMMA EntityRowsAre == EntityRows = {EntityRow(e) : e \in {f.entity : f \in fields}}
  BY Zenon DEF EntityRows, SumOf, EntityRow, FieldsOf

LEMMA EntityRowsAreTable ==
  ASSUME IsFields(fields)
  PROVE  IsTable(EntityRows) /\ \A r \in EntityRows : r.label \in Label
<1> DEFINE entities == {f.entity : f \in fields}
<1>1. EntityRows = {EntityRow(e) : e \in entities}
  BY EntityRowsAre
<1>2. IsFiniteSet(entities)
  <2> DEFINE g == [f \in fields |-> f.entity]
  <2>1. {g[f] : f \in fields} = entities
    OBVIOUS
  <2> HIDE DEF g, entities
  <2> QED
    BY <2>1, ImageIsFinite DEF IsFields
<1>3. IsFiniteSet({EntityRow(e) : e \in entities})
  <2> DEFINE g == [e \in entities |-> EntityRow(e)]
  <2>1. {g[e] : e \in entities} = {EntityRow(e) : e \in entities}
    OBVIOUS
  <2> HIDE DEF g, entities
  <2> QED
    BY <1>2, <2>1, ImageIsFinite
<1>4. \A e \in entities : e \in Label
  BY DEF IsFields
<1>5. ASSUME NEW e \in entities
      PROVE  EntityRow(e).label = e /\ IsRow(EntityRow(e))
  <2> DEFINE In == FieldsOf(e)
             a == [f \in In |-> f.hits1h]
             b == [f \in In |-> f.hits24h]
             c == [f \in In |-> f.hitsSum]
  <2>1. EntityRow(e) = [label |-> e, hits1h |-> SumFunction(a), hits24h |-> SumFunction(b),
                        hitsSum |-> SumFunction(c), weighted |-> 0, completed |-> 0]
    BY DEF EntityRow
  <2>2. IsFiniteSet(In)
    BY FS_Subset DEF IsFields, FieldsOf
  <2>3. /\ DOMAIN a = In /\ \A f \in In : a[f] \in Nat
        /\ DOMAIN b = In /\ \A f \in In : b[f] \in Nat
        /\ DOMAIN c = In /\ \A f \in In : c[f] \in Nat
    BY DEF IsFields, FieldsOf
  <2>4. e \in Nat
    BY <1>4, PageAssumption
  <2> HIDE DEF In, a, b, c
  <2>5. SumFunction(a) \in Nat /\ SumFunction(b) \in Nat /\ SumFunction(c) \in Nat
    BY <2>2, <2>3, SumIsNat
  <2> QED
    BY <2>1, <2>4, <2>5 DEF IsRow
<1> HIDE DEF entities
<1> QED
  BY <1>1, <1>3, <1>4, <1>5 DEF IsTable

\* The row of a field
PropertyRow(f) ==
  [label |-> f.label, hits1h |-> f.hits1h, hits24h |-> f.hits24h,
   hitsSum |-> f.hitsSum, weighted |-> 0, completed |-> 0]

LEMMA PropertyRowsAreTable ==
  ASSUME IsFields(fields)
  PROVE  /\ PropertyRows = {PropertyRow(f) : f \in fields}
         /\ IsTable(PropertyRows) /\ \A r \in PropertyRows : r.label \in Label
<1>1. PropertyRows = {PropertyRow(f) : f \in fields}
  BY DEF PropertyRows, PropertyRow
<1>2. IsFiniteSet({PropertyRow(f) : f \in fields})
  <2> DEFINE g == [f \in fields |-> PropertyRow(f)]
  <2>1. {g[f] : f \in fields} = {PropertyRow(f) : f \in fields}
    OBVIOUS
  <2>2. IsFiniteSet(fields)
    BY DEF IsFields
  <2> HIDE DEF g
  <2>3. IsFiniteSet({g[f] : f \in fields})
    BY <2>2, ImageIsFinite
  <2> QED
    BY <2>1, <2>3
<1>3. \A f \in fields : IsRow(PropertyRow(f)) /\ PropertyRow(f).label = f.label
  BY PageAssumption DEF IsFields, IsRow, PropertyRow
<1> QED
  BY <1>1, <1>2, <1>3 DEF IsTable, IsFields

------------------------------------------------------------------------------
(* The page.                                                               *)

\* What the page and Redis hold are answers, and the tables are in some order.
PageInv ==
  /\ \A d \in CachedRead : IsData(d, cache[d].rows) /\ IsData(d, data[d])
  /\ IsFields(fields)
  /\ tab \in Tab /\ term \in SUBSET Label /\ limit \in Limit
  /\ DOMAIN sort = DOMAIN Column /\ \A t \in DOMAIN Column : IsOrder(sort[t])

ShownInv == TotalsInv /\ PageInv

LEMMA ColumnsSorted ==
  /\ DOMAIN Column = {"field", "operation", "client", "subscription"}
  /\ \A t \in DOMAIN Column : Column[t] \subseteq Columns
  /\ \A t \in Tab : SortedAs(t) \in DOMAIN Column
  BY DEF Column, FieldColumn, OperationColumn, ClientColumn, SubscriptionColumn, Columns,
         Tab, SortedAs

LEMMA NothingIsData == \A d : IsData(d, {})
  BY FS_EmptySet DEF IsData

LEMMA InitPage == Init => PageInv
<1> SUFFICES ASSUME Init PROVE PageInv
  OBVIOUS
<1>1. \A d \in CachedRead : IsData(d, cache[d].rows) /\ IsData(d, data[d])
  BY NothingIsData DEF Init, MetricInit, NoAnswer
<1>2. IsFields(fields)
  BY FS_EmptySet DEF Init, IsFields
<1>3. tab \in Tab /\ term \in SUBSET Label /\ limit \in Limit
  BY PageAssumption DEF Init, Tab
<1>4. DOMAIN sort = DOMAIN Column /\ \A t \in DOMAIN Column : IsOrder(sort[t])
  BY DEF Init, IsOrder, Columns
<1> QED
  BY <1>1, <1>2, <1>3, <1>4 DEF PageInv

LEMMA WorkerPage ==
  ASSUME ShownInv, MetricNext \/ Tick
  PROVE  \A d \in CachedRead : IsData(d, cache'[d].rows)
<1>1. CASE Read
  <2>1. \A d \in CachedRead : cache'[d].rows = Answer(d)
    BY <1>1 DEF Read
  <2> QED
    BY <2>1, AnswersAreData DEF ShownInv
<1>2. CASE Tick
  <2>1. \A d \in CachedRead : cache'[d].rows = {} \/ cache'[d].rows = cache[d].rows
    BY <1>2 DEF Tick, NoAnswer
  <2> QED
    BY <2>1, NothingIsData DEF ShownInv, PageInv
<1>3. CASE UNCHANGED cache
  BY <1>3 DEF ShownInv, PageInv
<1>4. Read \/ Tick \/ UNCHANGED cache
  BY DEF MetricNext, AddOperation, StartSession, EndSession, Add, StartStore, EndStore, Prune,
         StoreRow, Crash
<1> QED
  BY <1>1, <1>2, <1>3, <1>4

LEMMA OpenPage ==
  ASSUME ShownInv, Open
  PROVE  PageInv'
<1>1. ASSUME NEW d \in CachedRead
      PROVE  IsData(d, data'[d])
  <2>1. PICK redis \in BOOLEAN : data' = [e \in CachedRead |-> Returned(e, redis)]
    BY DEF Open
  <2>2. data'[d] = cache[d].rows \/ data'[d] = Answer(d)
    BY <2>1 DEF Returned
  <2> QED
    BY <2>2, AnswersAreData DEF ShownInv, PageInv
<1>2. IsFields(fields')
  BY FieldsAreFields DEF Open
<1>3. UNCHANGED <<cache, tab, term, limit, sort>>
  BY DEF Open, view
<1> QED
  BY <1>1, <1>2, <1>3 DEF ShownInv, PageInv

LEMMA ClickPage ==
  ASSUME ShownInv,
         Wait \/ ChooseTab \/ Search \/ ChooseLimit
           \/ (\E column \in UNION {Column[t] : t \in DOMAIN Column} : SortBy(column))
  PROVE  PageInv'
<1>1. CASE Wait
  <2>1. \A d \in CachedRead : IsData(d, cache'[d].rows)
    BY <1>1, WorkerPage DEF Wait
  <2>2. UNCHANGED <<data, fields, tab, term, limit, sort>>
    BY <1>1 DEF Wait, Click, view
  <2> QED
    BY <2>1, <2>2 DEF ShownInv, PageInv
<1>2. CASE ChooseTab
  BY <1>2 DEF ChooseTab, Click, ShownInv, PageInv
<1>3. CASE Search
  BY <1>3, PageAssumption DEF Search, Click, ShownInv, PageInv
<1>4. CASE ChooseLimit
  BY <1>4 DEF ChooseLimit, Click, ShownInv, PageInv
<1>5. ASSUME NEW column, SortBy(column)
      PROVE  PageInv'
  <2>1. /\ column \in Column[SortedAs(tab)]
        /\ sort' = [sort EXCEPT ![SortedAs(tab)] =
             IF @[1] = column THEN <<column, IF @[2] = "asc" THEN "desc" ELSE "asc">>
             ELSE <<column, IF column = "label" THEN "asc" ELSE "desc">>]
        /\ UNCHANGED <<cache, data, fields, tab, term, limit>>
    BY <1>5 DEF SortBy, Click
  <2>2. column \in Columns
    BY <2>1, ColumnsSorted DEF ShownInv, PageInv
  <2>3. DOMAIN sort' = DOMAIN Column /\ \A t \in DOMAIN Column : IsOrder(sort'[t])
    BY <2>1, <2>2 DEF ShownInv, PageInv, IsOrder
  <2> QED
    BY <2>1, <2>3 DEF ShownInv, PageInv
<1> QED
  BY <1>1, <1>2, <1>3, <1>4, <1>5

\* What the page shows are answers of the tables or of Redis, and it goes on being
\* sorted by a column it has, whatever the reader does
\* (src/client/analytics/index.jsx:300).
THEOREM ShownInvariance == Spec => []ShownInv
<1>1. Init => PageInv
  BY InitPage
<1>2. ShownInv /\ [Next]_vars => PageInv'
  <2> SUFFICES ASSUME ShownInv, [Next]_vars PROVE PageInv'
    OBVIOUS
  <2>1. CASE (MetricNext \/ Tick) /\ UNCHANGED pageVars
    <3>1. \A d \in CachedRead : IsData(d, cache'[d].rows)
      BY <2>1, WorkerPage
    <3> QED
      BY <2>1, <3>1 DEF ShownInv, PageInv, pageVars, view
  <2>2. CASE Open
    BY <2>2, OpenPage
  <2>3. CASE Wait \/ ChooseTab \/ Search \/ ChooseLimit
               \/ (\E column \in UNION {Column[t] : t \in DOMAIN Column} : SortBy(column))
    BY <2>3, ClickPage
  <2>4. CASE UNCHANGED vars
    BY <2>4 DEF ShownInv, PageInv, vars, pageVars, view
  <2> QED
    BY <2>1, <2>2, <2>3, <2>4 DEF Next
<1> QED
  BY <1>1, <1>2, TotalsInvariance, PTL DEF Spec, ShownInv

LEMMA PartOfTable ==
  ASSUME NEW S, IsTable(S), NEW R \in SUBSET S
  PROVE  IsTable(R)
<1>1. IsFiniteSet(R)
  BY FS_Subset DEF IsTable
<1> QED
  BY <1>1 DEF IsTable

\* The rows of a tab before the search
AllRows(t) == CASE t = "entity"       -> EntityRows
                [] t = "property"     -> PropertyRows
                [] t = "operation"    -> OperationRows
                [] t = "client"       -> ClientRows
                [] t = "subscription" -> SubscriptionRows

LEMMA RowsAreTable ==
  ASSUME PageInv, NEW t \in Tab
  PROVE  /\ Rows(t) = {r \in AllRows(t) : r.label \in term}
         /\ IsTable(AllRows(t)) /\ IsTable(Rows(t)) /\ \A r \in AllRows(t) : r.label \in Label
<1>1. Rows(t) = {r \in AllRows(t) : r.label \in term}
  BY DEF Rows, AllRows
<1>2. IsTable(AllRows(t)) /\ \A r \in AllRows(t) : r.label \in Label
  <2>1. CASE t = "entity"
    BY <2>1, EntityRowsAreTable DEF AllRows, PageInv
  <2>2. CASE t = "property"
    BY <2>2, PropertyRowsAreTable DEF AllRows, PageInv
  <2>3. CASE t = "operation"
    <3> DEFINE rows == data["operations"]
    <3>1. AllRows(t) = Summed(rows, at)
      BY <2>3 DEF AllRows, OperationRows
    <3>2. IsData("operations", rows)
      BY DEF PageInv, CachedRead
    <3> HIDE DEF rows
    <3>3. IsTable(Summed(rows, at)) /\ \A r \in Summed(rows, at) : r.label \in Label
      BY <3>2, SummedIsTable
    <3> QED
      BY <3>1, <3>3
  <2>4. CASE t = "client"
    <3> DEFINE rows == data["clients"]
    <3>1. AllRows(t) = Summed(rows, at)
      BY <2>4 DEF AllRows, ClientRows
    <3>2. IsData("clients", rows)
      BY DEF PageInv, CachedRead
    <3> HIDE DEF rows
    <3>3. IsTable(Summed(rows, at)) /\ \A r \in Summed(rows, at) : r.label \in Label
      BY <3>2, SummedIsTable
    <3> QED
      BY <3>1, <3>3
  <2>5. CASE t = "subscription"
    <3> DEFINE rows == data["subscriptions"]
    <3>1. AllRows(t) = Summed(rows, at)
      BY <2>5 DEF AllRows, SubscriptionRows
    <3>2. IsData("subscriptions", rows)
      BY DEF PageInv, CachedRead
    <3> HIDE DEF rows
    <3>3. IsTable(Summed(rows, at)) /\ \A r \in Summed(rows, at) : r.label \in Label
      BY <3>2, SummedIsTable
    <3> QED
      BY <3>1, <3>3
  <2> QED
    BY <2>1, <2>2, <2>3, <2>4, <2>5 DEF Tab
<1>3. IsTable(Rows(t))
  BY <1>1, <1>2, PartOfTable
<1> QED
  BY <1>1, <1>2, <1>3

LEMMA ShownIsCut ==
  ASSUME PageInv, NEW t \in Tab
  PROVE  Shown(t) = Cut(Rows(t), sort[SortedAs(t)], limit) /\ IsOrder(sort[SortedAs(t)])
<1>1. SortedAs(t) \in DOMAIN Column
  BY ColumnsSorted
<1>2. IsOrder(sort[SortedAs(t)])
  BY <1>1 DEF PageInv
<1>3. Shown(t) = Cut(Rows(t), sort[SortedAs(t)], limit)
  BY DEF Shown, ShownOperations, ShownClients, ShownSubscriptions, ShownFields, SortedAs, Tab
<1> QED
  BY <1>2, <1>3

------------------------------------------------------------------------------
(* The top operations.                                                     *)

\* The hits of an operation in the window of a read
OperationHits(o) == Total(stored, KeysOfLabel("operation", o)).hits

\* The table of operations has a row for each operation with its hits.
LEMMA OperationTable ==
  ASSUME TotalsInv
  PROVE  LET S == Summed(Metrics("operation"), now)
         IN  /\ IsTable(S) /\ {r.label : r \in S} = {k.name : k \in KeysOf("operation")}
             /\ \A r \in S : r.hits24h = OperationHits(r.label)
<1> DEFINE series == "operation"
           rows == Metrics(series)
           S == Summed(rows, now)
<1>1. series \in Series
  BY DEF Series
<1>2. IsData("operations", rows)
  BY <1>1, MetricsAreData
<1>3. /\ IsTable(S)
      /\ \A p \in rows : \E r \in S : r.label = p.label
      /\ \A r \in S : /\ \E p \in rows : p.label = r.label
                      /\ r.hits24h = LabelHits(rows, r.label)
  <2> HIDE DEF rows
  <2> QED
    BY <1>2, SummedIsTable
<1>4. /\ \A p \in rows : \E k \in KeysOf(series) : k.name = p.label
      /\ \A k \in KeysOf(series) : \E p \in rows : p.label = k.name
  <2>1. \A p \in rows : \E k \in KeysOf(series) : k.name = p.label
    BY <1>1, MetricsRow DEF KeysOfRow
  <2>2. \A k \in KeysOf(series) : \E p \in rows : p.label = k.name
    BY <1>1, MetricsRows
  <2> QED
    BY <2>1, <2>2
<1>5. ASSUME NEW l
      PROVE  LabelHits(rows, l) = OperationHits(l)
  <2> DEFINE R == {q \in rows : q.label = l}
             m == [p \in rows |-> Total(stored, KeysOfRow(series, p))]
             f == [p \in R |-> p.hits]
  <2>1. \A p \in rows : m[p] = Total(stored, KeysOfRow(series, p)) /\ p.hits = m[p].hits
    BY <1>1, MetricsRow
  <2>2. DOMAIN f = R /\ \A p \in R : f[p] = m[p]["hits"]
    BY <2>1
  <2> HIDE DEF m, series
  <2>3. IsFiniteSet(R) /\ Total(m, R) = Total(stored, KeysOfLabel(series, l))
    BY <1>1, <2>1, MetricsTotal
  <2> HIDE DEF R, f
  <2>4. SumFunction(f) = Total(m, R)["hits"]
    BY <2>2, <2>3, SumIsTotal
  <2> QED
    BY <2>3, <2>4 DEF R, f, series, OperationHits, LabelHits
<1>6. \A r \in S : r.hits24h = OperationHits(r.label)
  <2> HIDE DEF S, rows
  <2> QED
    BY <1>3, <1>5
<1>7. /\ IsTable(S) /\ {r.label : r \in S} = {k.name : k \in KeysOf(series)}
      /\ \A r \in S : r.hits24h = OperationHits(r.label)
  <2> HIDE DEF S, rows, series
  <2> QED
    BY <1>3, <1>4, <1>6
<1> QED
  BY <1>7

\* Cut, it has those that the API lists, but for operations with as many hits.
LEMMA TopIsCut ==
  ASSUME TotalsInv, NEW most \in Nat, NEW top \in TopOperations(most)
  PROVE  LET S == Summed(Metrics("operation"), now)
             first == Cut(S, <<"hits24h", "desc">>, most)
         IN  /\ Cardinality(top) = Cardinality(first)
             /\ \A r \in first, s \in S \ first :
                  r.label \notin top /\ s.label \in top => r.hits24h = s.hits24h
<1> DEFINE S == Summed(Metrics("operation"), now)
           names == {k.name : k \in KeysOf("operation")}
           by == <<"hits24h", "desc">>
           first == Cut(S, by, most)
<1>1. /\ IsTable(S) /\ {r.label : r \in S} = names
      /\ \A r \in S : r.hits24h = OperationHits(r.label)
  BY OperationTable
<1>2. /\ Cardinality(top) = IF Cardinality(names) < most THEN Cardinality(names) ELSE most
      /\ \A o \in top, p \in names \ top : ~(OperationHits(p) > OperationHits(o))
  BY DEF TopOperations, KeysOf, KeysOfLabel, OperationHits
<1> HIDE DEF S, names
<1>3. Cardinality(S) = Cardinality(names)
  <2> DEFINE f == [r \in S |-> r.label]
  <2>1. f \in Bijection(S, names)
    BY <1>1 DEF IsTable, Bijection, Injection, IsInjective, Surjection
  <2>2. ExistsBijection(S, names)
    BY <2>1 DEF ExistsBijection
  <2> QED
    BY <1>1, <2>2, FS_Bijection DEF IsTable
<1>4. IsOrder(by)
  BY DEF IsOrder, Columns
<1> HIDE DEF by
<1>5. /\ Cardinality(first) = IF Cardinality(S) < most THEN Cardinality(S) ELSE most
      /\ first \subseteq S
      /\ \A r \in first : \A s \in S \ first :
           LET x == Value(r, by[1])  y == Value(s, by[1])
           IN  IF by[2] = "asc" THEN ~Less(y, x) ELSE ~Less(x, y)
  BY <1>1, <1>4, CutIsTop
<1> HIDE DEF first
<1>6. ASSUME NEW r \in first, NEW s \in S \ first, r.label \notin top, s.label \in top
      PROVE  r.hits24h = s.hits24h
  <2>1. r \in S /\ s \in S /\ r.hits24h \in Nat /\ s.hits24h \in Nat
    BY <1>1, <1>5 DEF IsTable, IsRow
  <2>2. ~(r.hits24h > s.hits24h)
    <3>1. r.label \in names \ top
      BY <1>1, <1>6, <2>1
    <3> QED
      BY <1>1, <1>2, <1>6, <2>1, <3>1
  <2>3. ~(r.hits24h < s.hits24h)
    <3>1. ~Less(Value(r, "hits24h"), Value(s, "hits24h"))
      BY <1>5, <1>6 DEF by
    <3>2. Value(r, "hits24h") = <<r.hits24h, 1>> /\ Value(s, "hits24h") = <<s.hits24h, 1>>
      BY DEF Value
    <3> QED
      BY <2>1, <3>1, <3>2 DEF Less
  <2> QED
    BY <2>1, <2>2, <2>3
<1> QED
  BY <1>2, <1>3, <1>5, <1>6 DEF S, first, by

\* No row that is left out of a table ranks above one that is shown, as many are
\* shown as the limit allows, and the first operations of the page are those the API
\* lists as the top, but for those with as many hits, which each orders in its way
\* (src/client/analytics/index.jsx:453, src/src/database/operation_hits.ts:244).
THEOREM TopRowsShown == Spec => []TopAreShown
<1>1. ASSUME ShownInv
      PROVE  TopAreShown
  <2> DEFINE by == sort[SortedAs(tab)]
             rows == Rows(tab)
             shown == Shown(tab)
  <2>1. IsTable(rows) /\ shown = Cut(rows, by, limit) /\ IsOrder(by)
    BY <1>1, RowsAreTable, ShownIsCut DEF ShownInv, PageInv
  <2>2. limit \in Nat
    BY <1>1, PageAssumption DEF ShownInv, PageInv
  <2> HIDE DEF by, rows, shown
  <2>3. /\ Cardinality(shown) = IF Cardinality(rows) < limit THEN Cardinality(rows) ELSE limit
        /\ \A r \in shown : \A s \in rows \ shown :
             LET x == Value(r, by[1])  y == Value(s, by[1])
             IN  IF by[2] = "asc" THEN ~Less(y, x) ELSE ~Less(x, y)
    BY <2>1, <2>2, CutIsTop
  <2>4. \A most \in Limit :
          LET S == Summed(Metrics("operation"), now)
              first == Cut(S, <<"hits24h", "desc">>, most)
          IN  \A top \in TopOperations(most) :
                /\ Cardinality(top) = Cardinality(first)
                /\ \A r \in first, s \in S \ first :
                     r.label \notin top /\ s.label \in top => r.hits24h = s.hits24h
    BY <1>1, PageAssumption, TopIsCut DEF ShownInv
  <2> QED
    BY <2>3, <2>4 DEF TopAreShown, by, rows, shown
<1> QED
  BY <1>1, ShownInvariance, PTL

------------------------------------------------------------------------------
(* Charts.                                                                 *)

\* The table and the points of a chart that a search finds in rows of a read
TableOf(rows, time, found) == {r \in Summed(rows, time) : r.label \in found}
PointsOf(rows, found, l) == {p \in rows : p.label = l /\ l \in found}
HitsOf(points) == SumFunction([p \in points |-> p.hits])

LEMMA ChartIsTable ==
  ASSUME NEW d, NEW rows, IsData(d, rows), NEW time, NEW found
  PROVE  /\ \A l \in Label : PointsOf(rows, found, l) # {} =>
              \E r \in TableOf(rows, time, found) : r.label = l
         /\ \A r \in TableOf(rows, time, found) :
              /\ r.label \in Label /\ PointsOf(rows, found, r.label) # {}
              /\ r.hits24h = HitsOf(PointsOf(rows, found, r.label))
              /\ \A p, q \in PointsOf(rows, found, r.label) :
                   p # q /\ p.hour = q.hour => d = "clients" /\ p.key # q.key
<1> DEFINE table == TableOf(rows, time, found)
           points(l) == PointsOf(rows, found, l)
<1>1. /\ \A p \in rows : \E r \in Summed(rows, time) : r.label = p.label
      /\ \A r \in Summed(rows, time) :
           /\ r.label \in Label /\ \E p \in rows : p.label = r.label
           /\ r.hits24h = LabelHits(rows, r.label)
  BY SummedIsTable
<1>2. \A r \in table : r \in Summed(rows, time) /\ r.label \in found
  BY DEF TableOf
<1>3. ASSUME NEW l \in Label, points(l) # {}
      PROVE  \E r \in table : r.label = l
  <2>1. PICK p \in rows : p.label = l /\ l \in found
    BY <1>3 DEF PointsOf
  <2>2. PICK r \in Summed(rows, time) : r.label = p.label
    BY <1>1
  <2> QED
    BY <2>1, <2>2 DEF TableOf
<1>4. ASSUME NEW r \in table
      PROVE  /\ r.label \in Label /\ points(r.label) # {}
             /\ r.hits24h = HitsOf(points(r.label))
             /\ \A p, q \in points(r.label) :
                  p # q /\ p.hour = q.hour => d = "clients" /\ p.key # q.key
  <2>1. r \in Summed(rows, time) /\ r.label \in found
    BY <1>2
  <2>2. points(r.label) = {q \in rows : q.label = r.label}
    BY <2>1 DEF PointsOf
  <2>3. HitsOf(points(r.label)) = LabelHits(rows, r.label)
    BY <2>2 DEF HitsOf, LabelHits
  <2>4. \A p, q \in points(r.label) :
          p # q /\ p.hour = q.hour => d = "clients" /\ p.key # q.key
    BY <2>2 DEF IsData
  <2>5. \E p \in rows : p.label = r.label
    BY <1>1, <2>1
  <2> QED
    BY <1>1, <2>1, <2>2, <2>3, <2>4, <2>5
<1> QED
  BY <1>3, <1>4

LEMMA ChartsMatch == PageInv => ChartMatchesTable
<1> SUFFICES ASSUME PageInv, NEW t \in {"operation", "client", "subscription"}
             PROVE  /\ {r.label : r \in Rows(t)} = {l \in Label : Points(t, l) # {}}
                    /\ \A r \in Rows(t) :
                         LET points == Points(t, r.label)
                         IN  /\ r.hits24h = SumOf(points, LAMBDA p : p.hits)
                             /\ \A p \in points : \A q \in points \ {p} :
                                  p.hour = q.hour => t = "client" /\ p.key # q.key
  BY DEF ChartMatchesTable
<1> DEFINE d == IF t = "operation" THEN "operations"
                ELSE IF t = "client" THEN "clients" ELSE "subscriptions"
           rows == data[d]
<1>1. d \in CachedRead /\ (d = "clients" => t = "client")
  BY DEF CachedRead
<1>2. IsData(d, rows)
  BY <1>1 DEF PageInv
<1>3. Rows(t) = TableOf(rows, at, term)
  BY DEF Rows, TableOf, OperationRows, ClientRows, SubscriptionRows
<1>4. \A l : Points(t, l) = PointsOf(rows, term, l)
  BY DEF Points, PointsOf, OperationSeries, ClientSeries, SubscriptionSeries
<1>5. \A points : SumOf(points, LAMBDA p : p.hits) = HitsOf(points)
  BY Zenon DEF SumOf, HitsOf
<1> HIDE DEF rows, d
<1>6. /\ \A l \in Label : Points(t, l) # {} => \E r \in Rows(t) : r.label = l
      /\ \A r \in Rows(t) :
           /\ r.label \in Label /\ Points(t, r.label) # {}
           /\ r.hits24h = HitsOf(Points(t, r.label))
           /\ \A p, q \in Points(t, r.label) :
                p # q /\ p.hour = q.hour => d = "clients" /\ p.key # q.key
  BY <1>2, <1>3, <1>4, ChartIsTable
<1>7. {r.label : r \in Rows(t)} = {l \in Label : Points(t, l) # {}}
  BY <1>6
<1>8. ASSUME NEW r \in Rows(t)
      PROVE  /\ r.hits24h = SumOf(Points(t, r.label), LAMBDA p : p.hits)
             /\ \A p \in Points(t, r.label) : \A q \in Points(t, r.label) \ {p} :
                  p.hour = q.hour => t = "client" /\ p.key # q.key
  <2>1. r.hits24h = SumOf(Points(t, r.label), LAMBDA p : p.hits)
    BY <1>5, <1>6, Zenon
  <2>2. \A p \in Points(t, r.label) : \A q \in Points(t, r.label) \ {p} :
          p.hour = q.hour => t = "client" /\ p.key # q.key
    BY <1>1, <1>6
  <2> QED
    BY <2>1, <2>2
<1> QED
  BY <1>7, <1>8

\* A tab's chart tells what its table tells, whatever the tables, the caches and the
\* arrays of the worker went through before the page was opened, and whatever the
\* reader has asked for since (src/client/analytics/index.jsx:379).
THEOREM ChartsAgree == Spec => []ChartMatchesTable
<1>1. ShownInv => ChartMatchesTable
  BY ChartsMatch DEF ShownInv
<1> QED
  BY <1>1, ShownInvariance, PTL

=============================================================================
