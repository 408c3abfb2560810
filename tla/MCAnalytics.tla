------------------------------ MODULE MCAnalytics ------------------------------
(* A small instance of Analytics.                                          *)
EXTENDS Analytics, TLC

CONSTANTS web, guest, none

Labels == [c \in {web, none} |-> 2]

Hit(client, entity, field, hour, hits) ==
  [client |-> client, entity |-> entity, field |-> field, hour |-> hour,
   hits |-> hits]

\* A client that calls itself what the page calls those without a name; two
\* entities, one with two fields.
Hits ==
  {Hit(web, 1, 1, 0, 2), Hit(none, 1, 1, 0, 1), Hit(web, 1, 2, 1, 1),
   Hit(none, 2, 3, 2, 4)}

KeyOf(series, client) ==
  [series |-> series, name |-> 1, client |-> client, hour |-> 0]
RowsBefore ==
  [k \in {KeyOf("operation", web), KeyOf("operation", none),
          KeyOf("subscription", none)} |->
     IF k.series = "operation" THEN [hits |-> 1, completed |-> 0, amount |-> 0]
     ELSE [hits |-> 1, completed |-> 3, amount |-> 4]]

Terms == {{1}, {2, 3}}

\* The database sorts the names the other way round.
Ranks == [o \in Operation |-> 3 - o]

Symmetry == Permutations(Loop)

\* Once the page is open nobody looks at the registry again.
View == IF open THEN <<pageVars, now>> ELSE vars
=============================================================================
