------------------------------ MODULE MCRegistry ------------------------------
(* Small instances of Registry: two services whose schemas can clash or    *)
(* need one another, and the mixes of requests the runs choose from.       *)
EXTENDS RegistryInvariant, TLC

CONSTANTS A, B,              \* the services
          V1, V2,            \* released versions; Dev is "latest"
          Base, Ext, Clash,  \* a base type, an extension of it, a rival of it
          U                  \* a url

\* An extension needs a base; a base and a rival do not go together.
MCComposable ==
  {ps \in SUBSET [name: {A, B}, def: {Base, Ext, Clash} \cap TypeDefs] :
     /\ ps # {}
     /\ (\E p \in ps : p.def = Ext) => \E p \in ps : p.def = Base
     /\ ~\E p, q \in ps : p.def = Base /\ q.def = Clash}

Push(names, versions, defs, urls) ==
  [kind: {"push"}, name: names, version: versions, def: defs, url: urls]
Switch(ids) == [kind: {"toggle"}, schema: ids, active: BOOLEAN]
Off(ids)    == [kind: {"toggle"}, schema: ids, active: {FALSE}]
Delete(names) == [kind: {"delete"}, name: names]
Ask(names, defs) == [kind: {"validate"}, name: names, def: defs]

\* One request at a time: every kind but DELETE, which is not validated.
SerialRequests ==
  Push({A}, {V1, V2, Dev}, {Base, Clash}, {NoUrl})
    \cup Push({B}, {V1}, {Base, Ext, Clash}, {NoUrl})
    \cup Switch({1, 2}) \cup Ask({B}, {Ext})

\* Overlapping pushes, a deactivation and the deletion of one service.
RaceRequests ==
  Push({A}, {V1}, {Base, Clash}, {NoUrl})
    \cup Push({A}, {Dev}, {Base, Clash}, {U})
    \cup Push({B}, {V1}, {Base}, {NoUrl})
    \cup Off({1}) \cup Delete({A})

\* Two pods of a service push the same schema.
PodRequests == Push({A}, {V1}, {Base}, {NoUrl})

\* Versions of one service, pushed again and again.
RepeatRequests == Push({A}, {V1, V2}, {Base, Clash}, {NoUrl})

\* Overlapping pushes of two services.
TwoServiceRequests == Push({A, B}, {V1}, {Base, Clash}, {NoUrl})

TxnSymmetry == Permutations(Txn)
=============================================================================
