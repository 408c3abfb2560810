--------------------------- MODULE SchemaChangeLog ---------------------------
(***************************************************************************)
(* What the change log says of two versions of a schema                    *)
(* (src/helpers/schema-change-log.ts): each is read into a map of types,   *)
(* and the maps are compared.                                              *)
(*                                                                         *)
(* A document is a sequence of definitions, an extension being one more    *)
(* definition of its type.  Names, types of fields and values are opaque.  *)
(* What the code leaves aside (directives, interfaces, descriptions and    *)
(* defaults) is left aside here.  Registered documents were parsed before, *)
(* so that the row for one that cannot be has no counterpart.              *)
(***************************************************************************)
EXTENDS Naturals, Sequences, SequencesExt

Kind == {"object", "interface", "input", "enum", "union", "scalar"}
WithFields == {"object", "interface", "input"}
WithMembers == {"enum", "union"}

NoMap == <<>>   \* the map with no keys

\* The keys of new are set in old.
Overlay(new, old) ==
  [x \in DOMAIN new \cup DOMAIN old |-> IF x \in DOMAIN new THEN new[x] ELSE old[x]]

------------------------------------------------------------------------------
(* A definition is [name, kind, fields, members].  fields is a map from the *)
(* names of fields to [type, args], and args a map from names to types;     *)
(* members are the values of an enum or the types of a union.               *)

\* ensureType: the kind of the first definition stays.
EnsureType(types, def) ==
  IF def.name \in DOMAIN types THEN types[def.name]
  ELSE [kind |-> def.kind, fields |-> NoMap, args |-> NoMap, members |-> {}]

\* A field that is defined again without arguments keeps the ones it had.  An
\* input has none.
ConsumeDefinition(types, def) ==
  LET withArgs == {f \in DOMAIN def.fields :
                     def.kind # "input" /\ def.fields[f].args # NoMap}
      entry == EnsureType(types, def)
      consumed ==
        [entry EXCEPT
           !.fields = Overlay([f \in DOMAIN def.fields |-> def.fields[f].type], @),
           !.args = Overlay([f \in withArgs |-> def.fields[f].args], @),
           !.members = @ \cup ({def.kind} \X def.members)]
  IN  IF def.kind \in Kind THEN Overlay([n \in {def.name} |-> consumed], types)
                            ELSE types

ParseSchema(doc) == FoldLeft(ConsumeDefinition, NoMap, doc)

IsMap(f) == f = [x \in DOMAIN f |-> f[x]] /\ IsFiniteSet(DOMAIN f)

\* What the grammar sees to: a definition has the fields or the members of its kind.
\* Definitions of one name may differ in kind, since not every document that is
\* registered was composed before.  One that repeats a field counts as two.
WellFormed(doc) ==
  LET defs == {doc[i] : i \in {j \in DOMAIN doc : doc[j].kind \in Kind}}
  IN  /\ Len(doc) \in Nat /\ DOMAIN doc = 1..Len(doc)
      /\ \A def \in defs :
           /\ IsMap(def.fields) /\ IsFiniteSet(def.members)
           /\ \A f \in DOMAIN def.fields : IsMap(def.fields[f].args)
           /\ DOMAIN def.fields # {} => def.kind \in WithFields
           /\ def.members # {} => def.kind \in WithMembers

------------------------------------------------------------------------------
(* A row is <<what, change, path>>.  The code lists them by name; here they *)
(* are a set.                                                               *)

\* Faulty: what has changed is what is equal.
ChangesInverted(what, path, before, after) ==
  {<<what, "ADDED", Append(path, x)>> : x \in DOMAIN after \ DOMAIN before}
    \cup {<<what, "REMOVED", Append(path, x)>> : x \in DOMAIN before \ DOMAIN after}
    \cup {<<what, "TYPE_CHANGED", Append(path, x)>> :
            x \in {y \in DOMAIN before \cap DOMAIN after : before[y] = after[y]}}

Changes(what, path, before, after) ==
  {<<what, "ADDED", Append(path, x)>> : x \in DOMAIN after \ DOMAIN before}
    \cup {<<what, "REMOVED", Append(path, x)>> : x \in DOMAIN before \ DOMAIN after}
    \cup {<<what, "TYPE_CHANGED", Append(path, x)>> :
            x \in {y \in DOMAIN before \cap DOMAIN after : before[y] # after[y]}}

ArgsOf(entry, f) == IF f \in DOMAIN entry.args THEN entry.args[f] ELSE NoMap

CompareFieldArguments(name, f, before, after) ==
  Changes("ARG", <<name, f>>, ArgsOf(before, f), ArgsOf(after, f))

\* Faulty: the arguments of a field whose type has changed are passed over.
CompareFieldsOrArguments(name, before, after) ==
  LET both == {f \in DOMAIN before.fields \cap DOMAIN after.fields :
                 before.fields[f] = after.fields[f]}
  IN  Changes("FIELD", <<name>>, before.fields, after.fields)
        \cup UNION {CompareFieldArguments(name, f, before, after) : f \in both}

\* The arguments of a field that is new or gone are not told.
CompareFields(name, before, after) ==
  LET both == DOMAIN before.fields \cap DOMAIN after.fields
  IN  Changes("FIELD", <<name>>, before.fields, after.fields)
        \cup UNION {CompareFieldArguments(name, f, before, after) : f \in both}

Members(entry, kind) == {x \in entry.members : x[1] = kind}

\* compareEnumValues and compareUnionMembers.
CompareMembers(name, before, after, kind) ==
  LET map(entry) == [x \in Members(entry, kind) |-> kind]
  IN  Changes("MEMBER", <<name>>, map(before), map(after))

\* The kind of the later version says what is compared.
CompareTypes(name, before, after) ==
  (IF before.kind # after.kind
   THEN {<<"TYPE", "KIND_CHANGED", <<name>>>>} ELSE {})
    \cup (IF after.kind \in WithFields THEN CompareFields(name, before, after) ELSE {})
    \cup (IF after.kind \in WithMembers
          THEN CompareMembers(name, before, after, after.kind) ELSE {})

\* A type that is new or gone is one row.
DiffSchemaTypeDefs(before, after) ==
  LET both == DOMAIN before \cap DOMAIN after
      names(types) == [n \in DOMAIN types |-> "type"]
  IN  Changes("TYPE", <<>>, names(before), names(after))
        \cup UNION {CompareTypes(n, before[n], after[n]) : n \in both}

Initial == {<<"SCHEMA", "INITIAL", <<>>>>}

------------------------------------------------------------------------------
(* What a reader can do with the rows.                                     *)

\* What the log tells of a type: what belongs to its kind.  What a definition of
\* another kind brought in is kept and never told.
OfKind(entry) ==
  LET withFields == entry.kind \in WithFields
  IN  [kind |-> entry.kind, fields |-> IF withFields THEN entry.fields ELSE NoMap,
       args |-> IF withFields THEN entry.args ELSE NoMap,
       members |-> Members(entry, entry.kind)]

AsTold(types) == [n \in DOMAIN types |-> OfKind(types[n])]

\* The names a map of types has: types, their fields, arguments and members.
Paths(types) ==
  UNION {{<<n>>}
           \cup {<<n, f>> : f \in DOMAIN types[n].fields}
           \cup {<<n, x>> : x \in types[n].members}
           \cup UNION {{<<n, f, a>> : a \in DOMAIN types[n].args[f]} :
                         f \in DOMAIN types[n].args}
         : n \in DOMAIN types}

\* The names after the change: those before it, without what the rows say is
\* gone, and what they say is new.  Of a type or field that is new, and of a
\* type whose kind changed, the rows tell no more, so that it is looked up.
Replay(paths, rows, after) ==
  LET told(change) == {row[3] : row \in {r \in rows : r[2] = change}}
      under(tops, p) == \E t \in tops : IsPrefix(t, p)
      gone == told("REMOVED") \cup told("KIND_CHANGED")
      new == told("ADDED") \cup told("KIND_CHANGED")
  IN  {p \in paths : ~under(gone, p)} \cup told("ADDED")
        \cup {p \in Paths(after) : under(new, p)}

=============================================================================
