----------------------------- MODULE MCClientUsage -----------------------------
(* Small instances of ClientUsage: two versions of an app, one client whose *)
(* version has a dot, and one whose name spells the path of the first.      *)
EXTENDS ClientUsage, TLC

CONSTANTS web1, web2, spell

MCClient == {web1, web2, spell}
MCDotted == {spell}
MCNameOf == (web1 :> "web") @@ (web2 :> "web") @@ (spell :> "web.1")
MCSpelledBy == [c \in MCClient |-> IF c = web1 THEN {spell} ELSE {}]

Symmetric == Permutations(Query) \cup Permutations(Sync)
=============================================================================
