---------------------------- MODULE MCQueryAnalyzer ----------------------------
(* A small instance of QueryAnalyzer.                                      *)
EXTENDS QueryAnalyzer, TLC

CONSTANTS q, s, f, g, h

Types == q :> "QUERY" @@ s :> "SUBSCRIPTION"

\* The second version exchanges a field of the query for another one; the third
\* does not compose.
Fields == [x \in Query |->
             IF x = q THEN <<{f, g}, {g, h}, {}>> ELSE <<{}, {}, {}>>]

Client(name, agent) ==
  [name |-> name, origin |-> "none", agent |-> agent, version |-> "none"]

Says(m) == m @@ [wellFormed |-> TRUE, headers |-> TRUE, query |-> NoQuery,
                 client |-> Client("given", "given"), hash |-> FALSE,
                 time |-> "recent", session |-> FALSE]

\* A query by its hash, written out, and not there; a subscription; an old
\* event; and what cannot be processed.
Messages ==
  {Says([hash |-> TRUE]), Says([query |-> q, time |-> "old"]),
   Says([query |-> q, headers |-> FALSE]),
   Says([query |-> s, session |-> TRUE, client |-> Client("blank", "given")]), Says([session |-> TRUE]),
   Says([query |-> q, time |-> "noDate"]), Says([wellFormed |-> FALSE])}
=============================================================================
