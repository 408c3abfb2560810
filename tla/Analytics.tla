------------------------------- MODULE Analytics -------------------------------
(***************************************************************************)
(* The analytics page of the UI (client/analytics/index.jsx).  It asks the *)
(* registry once for five lists and makes of them, for each of its five    *)
(* tabs, a chart and a table that is searched, sorted and cut.             *)
(*                                                                         *)
(* Once it is open only the clock and the reader go on: the page never     *)
(* asks again.  The five requests are answered in one step, since no tab   *)
(* depends on the order of their answers, and at a moment when the arrays  *)
(* of the worker are empty, since no answer depends on those.              *)
(***************************************************************************)
EXTENDS UsageMetrics

CONSTANTS
  Label,         \* the labels of all tables
  Term,          \* what is searched: the labels that contain it
  Limit,         \* the numbers of rows a table may be cut to
  DefaultLimit,
  MaxClicks      \* bound

ASSUME PageAssumption ==
  /\ Label \subseteq Nat /\ Term \subseteq SUBSET Label
  /\ Limit \subseteq Nat \ {0} /\ DefaultLimit \in Limit /\ MaxClicks \in Nat
  /\ Operation \cup Subscription \cup Range(ClientLabel) \subseteq Label
  /\ \A h \in SchemaHits : {h.entity, h.field} \subseteq Label

VARIABLES
  open,    \* whether there is a page
  data,    \* data[d]: the rows of read d
  fields,  \* those of listFields
  at,      \* when the tables were computed last
  tab, term, limit,
  sort,    \* sort[t]: the column and the direction table t is sorted by
  clicks   \* bound

view == <<tab, term, limit, sort>>
pageVars == <<open, data, fields, at, view, clicks>>
vars == <<metricVars, pageVars>>

Tab == {"entity", "property", "operation", "client", "subscription"}

\* The two tabs of fields share one choice.
SortedAs(t) == IF t \in {"entity", "property"} THEN "field" ELSE t

\* The columns of the tables, whose headers are buttons
FieldColumn == {"label", "hits1h", "hits24h", "hitsSum"}
OperationColumn == {"label", "hits1h", "hits24h"}
ClientColumn == {"label", "hits1h", "hits24h"}
SubscriptionColumn == {"label", "hits1h", "hits24h", "average"}
Column == [field |-> FieldColumn, operation |-> OperationColumn,
           client |-> ClientColumn, subscription |-> SubscriptionColumn]

Init ==
  /\ MetricInit
  /\ open = FALSE /\ data = [d \in CachedRead |-> {}] /\ fields = {} /\ at = 0
  /\ tab = "entity" /\ term = Label /\ limit = DefaultLimit
  /\ sort = [t \in DOMAIN Column |-> <<"hits24h", "desc">>]
  /\ clicks = MaxClicks

------------------------------------------------------------------------------
(* What the page shows                                                     *)

SumOf(rows, f(_)) == SumFunction([r \in rows |-> f(r)])

\* Faulty: the rows of an answer are the rows of the table.
SummedByKey(rows, time) ==
  {[label |-> r.label, hits24h |-> r.hits, hitsSum |-> 0,
    hits1h |-> IF StartOf(r.hour) >= time - UnitsPerHour THEN r.hits ELSE 0,
    weighted |-> r.average * r.completed, completed |-> r.completed] : r \in rows}

\* Faulty: an hour's average has no weight.
SummedUnweighted(rows, time) ==
  LET In(l) == {r \in rows : r.label = l}
  IN  {[label |-> l,
        hits1h |-> SumOf({r \in In(l) : StartOf(r.hour) >= time - UnitsPerHour},
                         LAMBDA r : r.hits),
        hits24h |-> SumOf(In(l), LAMBDA r : r.hits), hitsSum |-> 0,
        weighted |-> SumOf(In(l), LAMBDA r : r.average),
        completed |-> SumOf(In(l), LAMBDA r : r.completed)]
       : l \in {r.label : r \in rows}}

\* One row for each label.  The average of its hours, each weighted by the
\* sessions that ended in it, is weighted / completed.
Summed(rows, time) ==
  LET In(l) == {r \in rows : r.label = l}
  IN  {[label |-> l,
        hits1h |-> SumOf({r \in In(l) : StartOf(r.hour) >= time - UnitsPerHour},
                         LAMBDA r : r.hits),
        hits24h |-> SumOf(In(l), LAMBDA r : r.hits), hitsSum |-> 0,
        weighted |-> SumOf(In(l), LAMBDA r : r.average * r.completed),
        completed |-> SumOf(In(l), LAMBDA r : r.completed)]
       : l \in {r.label : r \in rows}}

\* allEntityRows
EntityRows ==
  {LET In == {f \in fields : f.entity = e}
   IN  [label |-> e, hits1h |-> SumOf(In, LAMBDA f : f.hits1h),
        hits24h |-> SumOf(In, LAMBDA f : f.hits24h),
        hitsSum |-> SumOf(In, LAMBDA f : f.hitsSum), weighted |-> 0, completed |-> 0]
   : e \in {f.entity : f \in fields}}

PropertyRows ==
  {[label |-> f.label, hits1h |-> f.hits1h, hits24h |-> f.hits24h,
    hitsSum |-> f.hitsSum, weighted |-> 0, completed |-> 0] : f \in fields}

OperationRows == Summed(data["operations"], at)
ClientRows == Summed(data["clients"], at)
SubscriptionRows == Summed(data["subscriptions"], at)

\* The rows of a tab that the search finds, which the code looks for before it
\* sums up those of three tabs and afterwards in the others
Rows(t) ==
  {r \in CASE t = "entity"       -> EntityRows
           [] t = "property"     -> PropertyRows
           [] t = "operation"    -> OperationRows
           [] t = "client"       -> ClientRows
           [] t = "subscription" -> SubscriptionRows : r.label \in term}

\* A number as a fraction
Value(row, column) ==
  CASE column = "label"   -> <<row.label, 1>>
    [] column = "hits1h"  -> <<row.hits1h, 1>>
    [] column = "hits24h" -> <<row.hits24h, 1>>
    [] column = "hitsSum" -> <<row.hitsSum, 1>>
    [] column = "average" -> IF row.completed = 0 THEN <<0, 1>>
                             ELSE <<row.weighted, row.completed>>

Less(x, y) == x[1] * y[2] < y[1] * x[2]

\* Faulty: rows with as many hits are in no order.
PrecedesOrTies(r, s, by) ==
  LET x == Value(r, by[1])  y == Value(s, by[1])
  IN  IF by[2] = "asc" THEN Less(x, y) ELSE Less(y, x)

\* sortRows and its three copies: those with as many hits are in the order of
\* their labels whatever the direction.
Precedes(r, s, by) ==
  LET x == Value(r, by[1])  y == Value(s, by[1])
  IN  \/ by[2] = "asc" /\ Less(x, y)
      \/ by[2] = "desc" /\ Less(y, x)
      \/ ~Less(x, y) /\ ~Less(y, x) /\ r.label < s.label

\* The first rows of a sorted table
Cut(rows, by, most) ==
  {r \in rows : Cardinality({s \in rows : Precedes(s, r, by)}) < most}

ShownFields(t) == Cut(Rows(t), sort["field"], limit)
ShownOperations == Cut(Rows("operation"), sort["operation"], limit)
ShownClients == Cut(Rows("client"), sort["client"], limit)
ShownSubscriptions == Cut(Rows("subscription"), sort["subscription"], limit)

Shown(t) == CASE t = "operation"    -> ShownOperations
              [] t = "client"       -> ShownClients
              [] t = "subscription" -> ShownSubscriptions
              [] OTHER              -> ShownFields(t)

\* The points of the series of a label in the charts of four tabs
EntitySeries(l) == {p \in data["entities"] : p.label = l /\ l \in term}
OperationSeries(l) == {p \in data["operations"] : p.label = l /\ l \in term}
ClientSeries(l) == {p \in data["clients"] : p.label = l /\ l \in term}
SubscriptionSeries(l) == {p \in data["subscriptions"] : p.label = l /\ l \in term}

Points(t, l) == CASE t = "operation"    -> OperationSeries(l)
                  [] t = "client"       -> ClientSeries(l)
                  [] t = "subscription" -> SubscriptionSeries(l)
                  [] OTHER              -> EntitySeries(l)

------------------------------------------------------------------------------
(* What the reader does                                                    *)

Open ==
  /\ ~open /\ open' = TRUE /\ at' = now
  /\ buffer = NoRows
  /\ fields' = Fields
  /\ \E redis \in BOOLEAN : data' = [d \in CachedRead |-> Returned(d, redis)]
  /\ UNCHANGED <<metricVars, view, clicks>>

Click ==
  /\ open /\ clicks > 0 /\ clicks' = clicks - 1
  /\ UNCHANGED <<open, data, fields>>

Wait == Click /\ Tick /\ UNCHANGED <<at, view>>

ChooseTab == Click /\ tab' \in Tab \ {tab} /\ UNCHANGED <<metricVars, at, term, limit, sort>>

\* The tables are computed anew, with the clock of this moment and the data of
\* when the page was opened.
Search == Click /\ term' \in Term \ {term} /\ at' = now
  /\ UNCHANGED <<metricVars, tab, limit, sort>>

ChooseLimit == Click /\ limit' \in Limit \ {limit} /\ UNCHANGED <<metricVars, at, tab, term, sort>>

\* The header of the column a table is sorted by turns the order around.
SortBy(column) ==
  /\ Click /\ column \in Column[SortedAs(tab)]
  /\ sort' = [sort EXCEPT ![SortedAs(tab)] =
       IF @[1] = column THEN <<column, IF @[2] = "asc" THEN "desc" ELSE "asc">>
       ELSE <<column, IF column = "label" THEN "asc" ELSE "desc">>]
  /\ UNCHANGED <<metricVars, at, tab, term, limit>>

Next ==
  \/ ~open /\ (MetricNext \/ Tick) /\ UNCHANGED pageVars
  \/ Open \/ Wait
  \/ ChooseTab \/ Search \/ ChooseLimit
  \/ \E column \in UNION {Column[t] : t \in DOMAIN Column} : SortBy(column)

Spec == Init /\ [][Next]_vars

------------------------------------------------------------------------------
(* Properties.                                                             *)

\* A page that opens shows no hour that the reads left behind more than a minute
\* before, and of the others no hits that are not stored, though Redis keeps
\* answers while the tables change (src/src/database/operation_hits.ts:218).
PageIsFresh ==
  [][open' /\ ~open =>
       \A series \in Series :
         \A r \in data'[IF series = "operation" THEN "operations" ELSE "subscriptions"] :
           /\ StartOf(r.hour) >= now - Window * UnitsPerHour - 1
           /\ InWindow(r.hour, Window) =>
                r.hits <= Total(stored, {k \in DOMAIN stored :
                  k.series = series /\ k.name = r.label /\ k.hour = r.hour}).hits]_vars

\* The average of a subscription, which the page computes from the rounded
\* averages of its hours, is that of all its sessions of these hours, to half a
\* hundredth (src/client/analytics/index.jsx:587).
AverageIsExact ==
  \A r \in Summed(Metrics("subscription"), now) :
    LET sum == Total(stored, {k \in DOMAIN stored :
                 k.series = "subscription" /\ k.name = r.label
                 /\ InWindow(k.hour, Window)})
        error == r.weighted - 100 * sum.amount
    IN  /\ r.completed = sum.completed
        /\ -r.completed <= 2 * error /\ 2 * error <= r.completed

\* The chart and the table of a tab tell the same: a label has a series if and
\* only if it has a row, whose hits are the sum of the series, and the times of a
\* series increase unless two clients go by its label
\* (src/client/analytics/index.jsx:379).
ChartMatchesTable ==
  open => \A t \in {"operation", "client", "subscription"} :
    /\ {r.label : r \in Rows(t)} = {l \in Label : Points(t, l) # {}}
    /\ \A r \in Rows(t) :
         LET points == Points(t, r.label)
         IN  /\ r.hits24h = SumOf(points, LAMBDA p : p.hits)
             /\ \A p \in points : \A q \in points \ {p} :
                  p.hour = q.hour => t = "client" /\ p.key # q.key

\* No row that is left out of a table ranks above one that is shown, as many are
\* shown as the limit allows, and the first operations are those the API lists as
\* the top, though each breaks ties in an order of its own: what only one of them
\* lists has as many hits as what only the other does
\* (src/client/analytics/index.jsx:453, src/src/database/operation_hits.ts:244).
TopAreShown ==
  /\ LET by == sort[SortedAs(tab)]
         rows == Rows(tab)  shown == Shown(tab)
     IN  open =>
         /\ Cardinality(shown) =
              (IF Cardinality(rows) < limit THEN Cardinality(rows) ELSE limit)
         /\ \A r \in shown : \A s \in rows \ shown :
              LET x == Value(r, by[1])  y == Value(s, by[1])
              IN  IF by[2] = "asc" THEN ~Less(y, x) ELSE ~Less(x, y)
  /\ \A most \in Limit :
       LET rows == Summed(Metrics("operation"), now)
           first == Cut(rows, <<"hits24h", "desc">>, most)
       IN  \A top \in TopOperations(most) :
             /\ Cardinality(top) = Cardinality(first)
             /\ \A r \in first, s \in rows \ first :
                  r.label \notin top /\ s.label \in top => r.hits24h = s.hits24h

=============================================================================
