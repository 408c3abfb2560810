----------------------------- MODULE SchemaCatalog -----------------------------
(***************************************************************************)
(* What the registry promises to those who pin versions: a catalog of what *)
(* each version of a service stands for.  A released version is written    *)
(* once; the development version can be pointed at other definitions; a    *)
(* service is withdrawn with all its versions and nothing else is lost.    *)
(***************************************************************************)
CONSTANTS Service, Version, Dev, TypeDefs

VARIABLE catalog   \* the set of bindings [service, version, def]

Binding == [service: Service, version: Version, def: TypeDefs]

Init == catalog = {}

Of(s, v) == {p \in catalog : p.service = s /\ p.version = v}

\* A version that stands for nothing yet.
Register(p) ==
  /\ Of(p.service, p.version) = {}
  /\ catalog' = catalog \cup {p}

Rebind(p) ==
  /\ p.version = Dev /\ Of(p.service, Dev) # {}
  /\ catalog' = (catalog \ Of(p.service, Dev)) \cup {p}

Withdraw(s) == catalog' = {p \in catalog : p.service # s}

Next ==
  \/ \E p \in catalog' : p \in Binding /\ (Register(p) \/ Rebind(p))
  \/ \E p \in catalog : Withdraw(p.service)

Spec == Init /\ [][Next]_catalog

=============================================================================
