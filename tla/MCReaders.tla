------------------------------ MODULE MCReaders ------------------------------
(* A small instance of the readers of what pushes leave in the tables:     *)
(* SupergraphCache, and SchemaHistory with documents that differ in each   *)
(* of the ways the change log tells apart.                                 *)
EXTENDS SchemaHistory, SupergraphCache

Field(type, args) == [type |-> type, args |-> args]

Fields(kind, name, fields) ==
  [name |-> name, kind |-> kind, fields |-> fields, members |-> {}]

Names(kind, name, members) ==
  [name |-> name, kind |-> kind, fields |-> NoMap, members |-> members]

Plain == <<Fields("object", "A", "f" :> Field("Int", "a" :> "Int")
                                   @@ "g" :> Field("Int", NoMap)),
           Names("enum", "E", {"x"})>>

\* The same, in two definitions, and one of another kind than the first of its name.
Extended == <<Fields("object", "A", "f" :> Field("Int", "a" :> "Int")),
              Names("enum", "E", {"x"}), Names("directive", "D", {}),
              Fields("object", "A", "g" :> Field("Int", NoMap)),
              Fields("input", "E", "x" :> Field("Int", NoMap))>>

\* A field and an argument have other types, an argument, a value and a type
\* come, and a field goes.
Moved == <<Fields("object", "A",
                  "f" :> Field("String", "a" :> "String" @@ "b" :> "Int")),
           Names("enum", "E", {"x", "y"}), Names("union", "U", {"A"})>>

\* Two types change their kinds, one of which keeps a field of its former one, a
\* third one has fields without arguments.
Turned == <<Names("scalar", "A", {}), Names("union", "E", {"x"}),
            Fields("object", "A", "f" :> Field("String", "a" :> "String")),
            Fields("input", "U", "f" :> Field("Int", NoMap))>>

CONSTANTS plain, extended, moved, turned

Texts == plain :> Plain @@ extended :> Extended @@ moved :> Moved @@ turned :> Turned

\* The services of the one stand for the processes of the other, and its pushes
\* for the requests that are no mutations, which keeps the permutations few.
Symmetric == Permutations(Service) \cup Permutations(Push)

\* The two share no variable, so that the steps of one tell nothing about the
\* other: a behaviour is one of either.  Where a request is handled makes no
\* difference to the history.
ReadersInit == Init /\ CacheInit
ReadersNext ==
  \/ Init /\ CacheNext /\ UNCHANGED vars
  \/ /\ CacheInit /\ \A g, h \in Handler : proc[g] = proc[h]
     /\ Next /\ UNCHANGED cacheVars
ReadersSpec == ReadersInit /\ [][ReadersNext]_<<vars, cacheVars>>
=============================================================================
