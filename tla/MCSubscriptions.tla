--------------------------- MODULE MCSubscriptions ---------------------------
(* A small instance of Subscriptions: two versions of one source, two      *)
(* documents and one that Postgres refuses.                                *)
EXTENDS Subscriptions, TLC

CONSTANTS d, e, twice, x, y, p1, r1, r2, l1

Fields == d :> {x} @@ e :> {y} @@ twice :> {x, y}
OneName == [s \in Source |-> "a"]
OneProcess == [r \in Request |-> p1]
=============================================================================
