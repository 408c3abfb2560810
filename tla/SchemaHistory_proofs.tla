------------------------- MODULE SchemaHistory_proofs -------------------------
EXTENDS SchemaHistory, FiniteSetTheorems, WellFoundedInduction, SequenceTheorems, TLAPS

------------------------------------------------------------------------------
(* Finite sets and numbers.                                                *)

\* Of some finite sets there is one with no other inside: what fails for a finite
\* set fails for a smallest one, which is how the lemmas below go on.
LEMMA SmallestSet ==
  ASSUME NEW S, IsFiniteSet(S), NEW T \in SUBSET SUBSET S, T # {}
  PROVE  \E s \in T : \A u \in T : u \subseteq s => u = s
<1>1. FiniteSubsetsOf(S) = SUBSET S
  BY FS_FiniteSubsetsOfFinite
<1>2. IsWellFoundedOn(StrictSubsetOrdering(S), SUBSET S)
  BY <1>1, FS_StrictSubsetOrderingWellFounded
<1>3. \E s \in T : \A u \in T : ~(<<u, s>> \in StrictSubsetOrdering(S))
  BY <1>2, WFMin
<1> QED
  BY <1>3 DEF StrictSubsetOrdering

\* The same of numbers.
LEMMA SmallestNumber ==
  ASSUME NEW T \in SUBSET Nat, T # {}
  PROVE  \E n \in T : \A m \in T : n <= m
<1> DEFINE R == OpToRel(<, Nat)
<1>1. IsWellFoundedOn(R, Nat)
  BY NatLessThanWellFounded
<1>2. \A m, n \in Nat : <<m, n>> \in R <=> m < n
  BY DEF OpToRel
<1> HIDE DEF R
<1>3. \E n \in T : \A m \in T : ~(<<m, n>> \in R)
  BY <1>1, WFMin
<1>4. PICK n \in T : \A m \in T : ~(<<m, n>> \in R)
  BY <1>3
<1>5. ASSUME NEW m \in T PROVE n <= m
  <2>1. m \in Nat /\ n \in Nat /\ ~(<<m, n>> \in R)
    BY <1>4
  <2>2. ~(m < n)
    BY <1>2, <2>1
  <2> QED
    BY <2>1, <2>2
<1> QED
  BY <1>5

------------------------------------------------------------------------------
(* The order of the history.                                               *)

\* Rows as the table holds them.
IsTable(S) ==
  /\ IsFiniteSet(S) /\ S \subseteq Row
  /\ \A r, q \in S : r.id = q.id => r = q

\* Some of the rows of a table are a table.
LEMMA SubTable ==
  ASSUME NEW S, IsTable(S), NEW T \in SUBSET S
  PROVE  IsTable(T)
<1>1. IsFiniteSet(T)
  BY FS_Subset DEF IsTable
<1> QED
  BY <1>1 DEF IsTable

\* The order is strict and total.
LEMMA OlderOrders ==
  ASSUME NEW S, IsTable(S)
  PROVE  /\ \A r \in S : ~Older(r, r)
         /\ \A r, s \in S : ~(Older(r, s) /\ Older(s, r))
         /\ \A r, s \in S : r # s => Older(r, s) \/ Older(s, r)
         /\ \A q, r, s \in S : Older(q, r) /\ Older(r, s) => Older(q, s)
<1>1. \A r \in S : r.time \in Nat /\ r.id \in Nat
  BY HistoryAssumption DEF IsTable, Row
<1> QED
  BY <1>1 DEF IsTable, Older

NewestOf(S) == CHOOSE r \in S : \A q \in S : q = r \/ Older(q, r)

\* A table that is not empty has a newest row.
LEMMA NewestExists ==
  ASSUME NEW S, IsTable(S), S # {}
  PROVE  /\ NewestOf(S) \in S
         /\ \A q \in S : q = NewestOf(S) \/ Older(q, NewestOf(S))
<1> DEFINE Has(T) == \E r \in T : \A q \in T : q = r \/ Older(q, r)
           Bad == {T \in SUBSET S : T # {} /\ ~Has(T)}
<1>1. SUFFICES ASSUME Bad # {} PROVE FALSE
  <2>1. Has(S)
    BY <1>1
  <2> QED
    BY <2>1 DEF NewestOf
<1>2. \E T \in Bad : \A U \in Bad : U \subseteq T => U = T
  <2>1. Bad \in SUBSET SUBSET S /\ IsFiniteSet(S)
    BY DEF IsTable
  <2> HIDE DEF Bad
  <2> QED
    BY <1>1, <2>1, SmallestSet
<1>3. PICK T \in Bad : \A U \in Bad : U \subseteq T => U = T
  BY <1>2
<1>4. T \in SUBSET S /\ T # {} /\ ~Has(T)
  OBVIOUS
<1>5. PICK x \in T : TRUE
  BY <1>4
<1>6. CASE T \ {x} = {}
  BY <1>4, <1>5, <1>6
<1>7. CASE T \ {x} # {}
  <2>1. Has(T \ {x})
    <3>1. T \ {x} \in SUBSET S /\ T \ {x} \subseteq T /\ T \ {x} # T
      BY <1>4, <1>5
    <3> HIDE DEF Has
    <3> QED
      BY <1>3, <1>7, <3>1
  <2>2. PICK r \in T \ {x} : \A q \in T \ {x} : q = r \/ Older(q, r)
    BY <2>1
  <2>3. r \in S /\ x \in S /\ r # x /\ \A q \in T : q \in S
    BY <1>4, <1>5, <2>2
  <2>4. CASE Older(x, r)
    BY <1>4, <2>2, <2>4
  <2>5. CASE Older(r, x)
    <3>1. \A q \in T : q = x \/ Older(q, x)
      BY <2>2, <2>3, <2>5, OlderOrders
    <3> QED
      BY <1>4, <1>5, <3>1
  <2> QED
    BY <2>3, <2>4, <2>5, OlderOrders
<1> QED
  BY <1>6, <1>7

------------------------------------------------------------------------------
(* Sorted sequences.                                                       *)

IsSortedOf(s, S) ==
  /\ s \in SetToSeqs(S)
  /\ \A i, j \in DOMAIN s : i < j => Older(s[j], s[i])

NewestFirst(S) ==
  CHOOSE s \in SetToSeqs(S) : \A i, j \in DOMAIN s : i < j => Older(s[j], s[i])

\* An order of a finite set has each of its elements once.
LEMMA OrderIsWhole ==
  ASSUME NEW S, IsFiniteSet(S), NEW s \in SetToSeqs(S)
  PROVE  /\ s \in Seq(S) /\ Len(s) = Cardinality(S) /\ Cardinality(S) \in Nat
         /\ DOMAIN s = 1..Len(s)
         /\ \A i, j \in DOMAIN s : i # j => s[i] # s[j]
         /\ \A x \in S : \E i \in DOMAIN s : s[i] = x
<1> DEFINE D == 1..Cardinality(S)
<1>1. Cardinality(S) \in Nat
  BY FS_CardinalityType
<1>2. s \in [D -> S] /\ \A i, j \in D : i # j => s[i] # s[j]
  BY DEF SetToSeqs
<1>3. s \in Injection(D, S)
  BY <1>2 DEF Injection, IsInjective
<1>4. Cardinality(D) = Cardinality(S)
  BY <1>1, FS_Interval
<1>5. s \in Surjection(D, S)
  <2> HIDE DEF D
  <2> QED
    BY <1>3, <1>4, FS_Injection
<1>6. \A x \in S : \E i \in D : s[i] = x
  BY <1>5 DEF Surjection
<1>7. s \in Seq(S) /\ Len(s) = Cardinality(S)
  BY <1>1, <1>2
<1> QED
  BY <1>1, <1>2, <1>6, <1>7

\* There are no two sorted sequences of a table.
LEMMA SortedIsUnique ==
  ASSUME NEW S, IsTable(S), NEW s, NEW t, IsSortedOf(s, S), IsSortedOf(t, S)
  PROVE  s = t
<1> DEFINE Bad == {i \in DOMAIN s : s[i] # t[i]}
<1>1. /\ s \in Seq(S) /\ Len(s) = Cardinality(S) /\ Cardinality(S) \in Nat
      /\ DOMAIN s = 1..Len(s)
      /\ \A i, j \in DOMAIN s : i # j => s[i] # s[j]
      /\ \A x \in S : \E i \in DOMAIN s : s[i] = x
  BY OrderIsWhole DEF IsTable, IsSortedOf
<1>2. /\ t \in Seq(S) /\ Len(t) = Cardinality(S)
      /\ DOMAIN t = 1..Len(t)
      /\ \A i, j \in DOMAIN t : i # j => t[i] # t[j]
      /\ \A x \in S : \E i \in DOMAIN t : t[i] = x
  BY OrderIsWhole DEF IsTable, IsSortedOf
<1>3. DOMAIN s = DOMAIN t /\ DOMAIN s \subseteq Nat
  BY <1>1, <1>2
<1>4. SUFFICES ASSUME Bad # {} PROVE FALSE
  BY <1>1, <1>2, <1>3, <1>4, SeqEqual
<1>5. \E i \in Bad : \A j \in Bad : i <= j
  <2>1. Bad \in SUBSET Nat
    BY <1>3
  <2> HIDE DEF Bad
  <2> QED
    BY <1>4, <2>1, SmallestNumber
<1>6. PICK i \in DOMAIN s : s[i] # t[i] /\ \A j \in DOMAIN s : j < i => s[j] = t[j]
  BY <1>3, <1>5
<1>7. s[i] \in S /\ t[i] \in S
  BY <1>1, <1>2, <1>3
<1>8. PICK j \in DOMAIN t : t[j] = s[i]
  BY <1>2, <1>7
<1>9. PICK k \in DOMAIN s : s[k] = t[i]
  BY <1>1, <1>7
<1>10. j > i /\ k > i
  <2>1. i \in Nat /\ j \in Nat /\ k \in Nat
    BY <1>3
  <2>2. j # i /\ k # i
    BY <1>6, <1>8, <1>9
  <2>3. ~(j < i)
    BY <1>1, <1>2, <1>3, <1>6, <1>8
  <2>4. ~(k < i)
    BY <1>1, <1>2, <1>3, <1>6, <1>9
  <2> QED
    BY <2>1, <2>2, <2>3, <2>4
<1>11. Older(s[k], s[i]) /\ Older(t[j], t[i])
  BY <1>3, <1>10 DEF IsSortedOf
<1> QED
  BY <1>7, <1>8, <1>9, <1>11, OlderOrders

\* A newer row comes first.
LEMMA SortedCons ==
  ASSUME NEW S, IsTable(S), NEW s, IsSortedOf(s, S),
         NEW p, p \notin S, \A r \in S : Older(r, p)
  PROVE  IsSortedOf(<<p>> \o s, S \cup {p})
<1> DEFINE T == S \cup {p}
           t == <<p>> \o s
<1>1. /\ s \in Seq(S) /\ Len(s) = Cardinality(S) /\ Cardinality(S) \in Nat
      /\ DOMAIN s = 1..Len(s)
      /\ \A i, j \in DOMAIN s : i # j => s[i] # s[j]
  BY OrderIsWhole DEF IsTable, IsSortedOf
<1>2. Cardinality(T) = Cardinality(S) + 1
  BY FS_AddElement DEF IsTable
<1>3. s \in Seq(T) /\ <<p>> \in Seq(T)
  BY <1>1, SeqMonotonic
<1>4. t \in Seq(T) /\ Len(t) = Len(s) + 1
  BY <1>3
<1>5. t[1] = p /\ \A i \in 2..Len(t) : t[i] = s[i - 1] /\ i - 1 \in DOMAIN s
  BY <1>1, <1>3
<1>6. DOMAIN t = 1..Cardinality(T) /\ DOMAIN t = 1..Len(t)
  BY <1>1, <1>2, <1>4
<1>7. t \in [1..Cardinality(T) -> T]
  BY <1>4, <1>6, LenProperties
<1> HIDE DEF t
<1> DEFINE n == Len(t)
<1>10. n \in Nat /\ \A i \in DOMAIN t : i \in 1..n
  <2>1. Len(t) \in Nat /\ DOMAIN t = 1..Len(t)
    <3> HIDE DEF T
    <3> QED
      BY <1>4, LenProperties
  <2> QED
    BY <2>1
<1>8. \A i, j \in DOMAIN t : i < j => Older(t[j], t[i]) /\ t[j] # t[i]
  <2> SUFFICES ASSUME NEW i \in DOMAIN t, NEW j \in DOMAIN t, i < j
               PROVE  Older(t[j], t[i]) /\ t[j] # t[i]
    OBVIOUS
  <2>1. j \in 2..Len(t) /\ t[j] = s[j - 1] /\ s[j - 1] \in S
    <3>2. j \in 2..n
      <4>1. i \in 1..n /\ j \in 1..n /\ n \in Nat
        BY <1>10
      <4> HIDE DEF n
      <4> QED
        BY <4>1
    <3>3. t[j] = s[j - 1] /\ j - 1 \in DOMAIN s
      BY <1>5, <3>2
    <3> QED
      BY <1>1, <3>2, <3>3
  <2>2. CASE i = 1
    BY <1>5, <2>1, <2>2
  <2>3. CASE i # 1
    <3>2. i \in 2..n
      <4>1. i \in 1..n /\ n \in Nat
        BY <1>10
      <4> HIDE DEF n
      <4> QED
        BY <2>3, <4>1
    <3>3. t[i] = s[i - 1] /\ i - 1 \in DOMAIN s /\ j - 1 \in DOMAIN s
      BY <1>5, <2>1, <3>2
    <3>4. i - 1 < j - 1
      BY <2>1, <3>2
    <3> QED
      BY <1>1, <2>1, <3>3, <3>4 DEF IsSortedOf
  <2> QED
    BY <2>2, <2>3
<1>9. \A i, j \in DOMAIN t : i # j => t[i] # t[j]
  <2>1. \A i \in DOMAIN t : i \in Nat
    BY <1>1, <1>4, <1>6
  <2> QED
    BY <1>8, <2>1
<1> QED
  BY <1>6, <1>7, <1>8, <1>9 DEF IsSortedOf, SetToSeqs, t

\* Every table can be sorted.
LEMMA SortedExists ==
  ASSUME NEW S, IsTable(S)
  PROVE  \E s : IsSortedOf(s, S)
<1> DEFINE Bad == {T \in SUBSET S : ~\E s : IsSortedOf(s, T)}
<1>1. SUFFICES ASSUME Bad # {} PROVE FALSE
  OBVIOUS
<1>2. \E T \in Bad : \A U \in Bad : U \subseteq T => U = T
  <2>1. Bad \in SUBSET SUBSET S /\ IsFiniteSet(S)
    BY DEF IsTable
  <2> HIDE DEF Bad
  <2> QED
    BY <1>1, <2>1, SmallestSet
<1>3. PICK T \in Bad : \A U \in Bad : U \subseteq T => U = T
  BY <1>2
<1>4. T \in SUBSET S /\ (~\E s : IsSortedOf(s, T))
      /\ \A U \in SUBSET S : U \subseteq T /\ U # T => \E s : IsSortedOf(s, U)
  BY <1>3
<1> HIDE DEF Bad
<1>5. T # {}
  <2> SUFFICES ASSUME T = {} PROVE FALSE
    OBVIOUS
  <2>1. Cardinality(T) = 0
    BY FS_EmptySet
  <2>2. 1..Cardinality(T) = {} /\ <<>> \in [{} -> T] /\ DOMAIN <<>> = {}
    BY <2>1
  <2>3. IsSortedOf(<<>>, T)
    BY <2>1, <2>2 DEF IsSortedOf, SetToSeqs
  <2> QED
    BY <1>4, <2>3
<1>6. IsTable(T)
  BY <1>4, SubTable
<1> DEFINE p == NewestOf(T)
           U == T \ {p}
<1>7. p \in T /\ \A q \in T : q = p \/ Older(q, p)
  BY <1>5, <1>6, NewestExists
<1>8. U \in SUBSET S /\ U \in SUBSET T /\ U # T /\ U \cup {p} = T /\ p \notin U
  BY <1>4, <1>7
<1>9. PICK s : IsSortedOf(s, U)
  BY <1>4, <1>8
<1>10. \A r \in U : Older(r, p)
  BY <1>7
<1>11. IsTable(U)
  BY <1>6, <1>8, SubTable
<1> HIDE DEF p, U
<1>12. IsSortedOf(<<p>> \o s, U \cup {p})
  BY <1>8, <1>9, <1>10, <1>11, SortedCons
<1> QED
  BY <1>4, <1>8, <1>12

\* The order in which the log takes the rows.
LEMMA NewestFirstSorts ==
  ASSUME NEW S, IsTable(S)
  PROVE  IsSortedOf(NewestFirst(S), S)
<1>1. \E s \in SetToSeqs(S) : \A i, j \in DOMAIN s : i < j => Older(s[j], s[i])
  BY SortedExists DEF IsSortedOf
<1> QED
  BY <1>1 DEF NewestFirst, IsSortedOf

\* A newer row leaves the order of the others.
LEMMA NewestFirstCons ==
  ASSUME NEW S, IsTable(S), NEW p, p \notin S, IsTable(S \cup {p}),
         \A r \in S : Older(r, p)
  PROVE  NewestFirst(S \cup {p}) = <<p>> \o NewestFirst(S)
<1>1. IsSortedOf(<<p>> \o NewestFirst(S), S \cup {p})
  BY NewestFirstSorts, SortedCons
<1>2. IsSortedOf(NewestFirst(S \cup {p}), S \cup {p})
  BY NewestFirstSorts
<1> QED
  BY <1>1, <1>2, SortedIsUnique

------------------------------------------------------------------------------
(* Flattening.                                                             *)

\* The function by which FlattenSeq is defined: what the first i sequences are
\* together.
IsFlat(g, ss, n) ==
  g = [i \in 1..n |-> IF i = 1 THEN ss[i] ELSE g[i - 1] \o ss[i]]

\* There is one.
LEMMA FlatExists ==
  ASSUME NEW ss, NEW n \in Nat
  PROVE  \E g : IsFlat(g, ss, n)
<1> DEFINE Bad == {m \in Nat : ~\E g : IsFlat(g, ss, m)}
<1>1. SUFFICES ASSUME Bad # {} PROVE FALSE
  OBVIOUS
<1>2. \E m \in Bad : \A k \in Bad : m <= k
  <2>1. Bad \in SUBSET Nat
    OBVIOUS
  <2> HIDE DEF Bad
  <2> QED
    BY <1>1, <2>1, SmallestNumber
<1>3. PICK m \in Bad : \A k \in Bad : m <= k
  BY <1>2
<1>4. m \in Nat /\ (~\E g : IsFlat(g, ss, m)) /\ (m # 0 => \E g : IsFlat(g, ss, m - 1))
  <2>1. m \in Nat /\ ~\E g : IsFlat(g, ss, m)
    OBVIOUS
  <2>2. ASSUME m # 0 PROVE \E g : IsFlat(g, ss, m - 1)
    <3>1. m - 1 \in Nat /\ ~(m <= m - 1)
      BY <2>1, <2>2
    <3> QED
      BY <1>3, <3>1
  <2> QED
    BY <2>1, <2>2
<1> HIDE DEF Bad
<1>5. CASE m = 0
  <2> DEFINE g == [i \in 1..m |-> 0]
  <2>1. 1..m = {}
    BY <1>5
  <2>2. g = [i \in 1..m |-> IF i = 1 THEN ss[i] ELSE g[i - 1] \o ss[i]]
    BY <2>1
  <2> HIDE DEF g
  <2> QED
    BY <1>4, <2>2 DEF IsFlat
<1>6. CASE m # 0
  <2>1. PICK g : IsFlat(g, ss, m - 1)
    BY <1>4, <1>6
  <2> DEFINE h == [i \in 1..m |-> IF i = m THEN IF i = 1 THEN ss[i] ELSE g[i - 1] \o ss[i]
                                           ELSE g[i]]
  <2>2. ASSUME NEW i \in 1..m
        PROVE  h[i] = IF i = 1 THEN ss[i] ELSE h[i - 1] \o ss[i]
    <3>1. i \in Nat /\ 1 <= i /\ i <= m /\ m \in Nat
      BY <1>4
    <3>2. i # 1 => i - 1 \in 1..m /\ i - 1 # m
      BY <3>1
    <3>3. i # 1 => h[i - 1] = g[i - 1]
      BY <3>2
    <3>4. CASE i = m
      BY <3>3, <3>4
    <3>5. CASE i # m
      <4>1. i \in 1..(m - 1)
        BY <3>1, <3>5
      <4>2. g[i] = IF i = 1 THEN ss[i] ELSE g[i - 1] \o ss[i]
        BY <2>1, <4>1 DEF IsFlat
      <4>3. h[i] = g[i]
        BY <3>5
      <4> HIDE DEF h
      <4> QED
        BY <3>3, <4>2, <4>3
    <3> QED
      BY <3>4, <3>5
  <2>3. h = [i \in 1..m |-> h[i]]
    OBVIOUS
  <2> HIDE DEF h
  <2>4. h = [i \in 1..m |-> IF i = 1 THEN ss[i] ELSE h[i - 1] \o ss[i]]
    BY <2>2, <2>3
  <2> QED
    BY <1>4, <2>4 DEF IsFlat
<1> QED
  BY <1>5, <1>6

\* FlattenSeq takes such a function at the end.
LEMMA FlattenIsFlat ==
  ASSUME NEW ss, Len(ss) \in Nat
  PROVE  /\ Len(ss) = 0 => FlattenSeq(ss) = ss
         /\ Len(ss) # 0 => \E g : IsFlat(g, ss, Len(ss)) /\ FlattenSeq(ss) = g[Len(ss)]
<1> DEFINE flat == CHOOSE g : IsFlat(g, ss, Len(ss))
<1>1. IsFlat(flat, ss, Len(ss))
  BY FlatExists
<1>2. Len(ss) # 0 => FlattenSeq(ss) = flat[Len(ss)]
  BY DEF FlattenSeq, IsFlat
<1>3. Len(ss) = 0 => FlattenSeq(ss) = ss
  BY DEF FlattenSeq
<1> HIDE DEF flat
<1> QED
  BY <1>1, <1>2, <1>3

\* Its parts are sequences.
LEMMA FlatParts ==
  ASSUME NEW V, NEW ss \in Seq(Seq(V)), NEW g, IsFlat(g, ss, Len(ss))
  PROVE  \A i \in 1..Len(ss) : g[i] \in Seq(V)
<1> DEFINE Bad == {i \in 1..Len(ss) : g[i] \notin Seq(V)}
<1>1. SUFFICES ASSUME Bad # {} PROVE FALSE
  OBVIOUS
<1>2. Len(ss) \in Nat /\ \A i \in 1..Len(ss) : ss[i] \in Seq(V)
  BY LenProperties
<1>3. \E i \in Bad : \A k \in Bad : i <= k
  <2>1. Bad \in SUBSET Nat
    OBVIOUS
  <2> HIDE DEF Bad
  <2> QED
    BY <1>1, <2>1, SmallestNumber
<1>4. PICK i \in 1..Len(ss) : g[i] \notin Seq(V)
                              /\ \A k \in 1..Len(ss) : g[k] \notin Seq(V) => i <= k
  BY <1>3
<1> HIDE DEF Bad
<1>5. CASE i = 1
  BY <1>2, <1>4, <1>5 DEF IsFlat
<1>6. CASE i # 1
  <2>1. i - 1 \in 1..Len(ss) /\ ~(i <= i - 1)
    BY <1>2, <1>6
  <2>2. g[i - 1] \in Seq(V)
    BY <1>4, <2>1
  <2>3. g[i] = g[i - 1] \o ss[i]
    BY <1>6 DEF IsFlat
  <2> QED
    BY <1>2, <1>4, <2>2, <2>3, ConcatProperties
<1> QED
  BY <1>5, <1>6

\* What is flattened is a sequence, and one more sequence in front comes first.
LEMMA FlattenCons ==
  ASSUME NEW V, NEW a \in Seq(V), NEW ss \in Seq(Seq(V))
  PROVE  /\ FlattenSeq(ss) \in Seq(V)
         /\ FlattenSeq(<<a>> \o ss) = a \o FlattenSeq(ss)
<1> DEFINE t == <<a>> \o ss
<1>1. Len(ss) \in Nat /\ \A i \in 1..Len(ss) : ss[i] \in Seq(V)
  BY LenProperties
<1>2. t \in Seq(Seq(V)) /\ Len(t) = Len(ss) + 1
      /\ t[1] = a /\ \A i \in 1..Len(ss) : t[i + 1] = ss[i]
  OBVIOUS
<1> HIDE DEF t
<1>3. PICK h : IsFlat(h, t, Len(t)) /\ FlattenSeq(t) = h[Len(t)]
  BY <1>1, <1>2, FlattenIsFlat
<1>4. 1 \in 1..Len(t)
  BY <1>1, <1>2
<1>5. h[1] = a
  BY <1>2, <1>3, <1>4 DEF IsFlat
<1>6. CASE Len(ss) = 0
  <2>1. ss = <<>> /\ FlattenSeq(ss) = <<>>
    BY <1>6, FlattenIsFlat, EmptySeq
  <2>2. FlattenSeq(t) = a /\ a \o <<>> = a /\ <<>> \in Seq(V)
    BY <1>2, <1>3, <1>5, <1>6, ConcatEmptySeq
  <2> QED
    BY <2>1, <2>2 DEF t
<1>7. CASE Len(ss) # 0
  <2>1. PICK g : IsFlat(g, ss, Len(ss)) /\ FlattenSeq(ss) = g[Len(ss)]
    BY <1>1, <1>7, FlattenIsFlat
  <2>2. \A i \in 1..Len(ss) : g[i] \in Seq(V)
    BY <2>1, FlatParts
  <2> DEFINE Bad == {i \in 1..Len(ss) : h[i + 1] # a \o g[i]}
  <2>3. Bad = {}
    <3> SUFFICES ASSUME Bad # {} PROVE FALSE
      OBVIOUS
    <3>1. \E i \in Bad : \A k \in Bad : i <= k
      <4>1. Bad \in SUBSET Nat
        OBVIOUS
      <4> HIDE DEF Bad
      <4> QED
        BY <4>1, SmallestNumber
    <3>2. PICK i \in 1..Len(ss) : h[i + 1] # a \o g[i]
                     /\ \A k \in 1..Len(ss) : h[k + 1] # a \o g[k] => i <= k
      BY <3>1
    <3> HIDE DEF Bad
    <3>3. i + 1 \in 1..Len(t) /\ i + 1 # 1 /\ i + 1 - 1 = i
      BY <1>1, <1>2
    <3>4. h[i + 1] = h[i] \o ss[i]
      <4>1. \A k \in 1..Len(t) : k # 1 => h[k] = h[k - 1] \o t[k]
        BY <1>3 DEF IsFlat
      <4> DEFINE k == i + 1
      <4>2. k \in 1..Len(t) /\ k # 1 /\ k - 1 = i /\ t[k] = ss[i]
        BY <1>2, <3>3
      <4> HIDE DEF k
      <4>3. h[k] = h[i] \o ss[i]
        BY <4>1, <4>2
      <4> QED
        BY <4>3 DEF k
    <3>5. CASE i = 1
      <4>1. g[i] = ss[i]
        BY <2>1, <3>5 DEF IsFlat
      <4> QED
        BY <1>5, <3>2, <3>4, <3>5, <4>1
    <3>6. CASE i # 1
      <4>1. i - 1 \in 1..Len(ss) /\ ~(i <= i - 1) /\ i - 1 + 1 = i
        BY <1>1, <3>6
      <4>2. h[i] = a \o g[i - 1]
        BY <3>2, <4>1
      <4>3. g[i] = g[i - 1] \o ss[i]
        BY <2>1, <3>6 DEF IsFlat
      <4>4. (a \o g[i - 1]) \o ss[i] = a \o (g[i - 1] \o ss[i])
        <5> DEFINE b == g[i - 1]
                   c == ss[i]
        <5>1. b \in Seq(V) /\ c \in Seq(V)
          BY <1>1, <2>2, <4>1
        <5> HIDE DEF b, c
        <5>2. (a \o b) \o c = a \o (b \o c)
          BY <5>1, ConcatAssociative
        <5> QED
          BY <5>2 DEF b, c
      <4> QED
        BY <3>2, <3>4, <4>2, <4>3, <4>4
    <3> QED
      BY <3>5, <3>6
  <2>4. Len(ss) \in 1..Len(ss)
    BY <1>1, <1>7
  <2>5. h[Len(ss) + 1] = a \o g[Len(ss)]
    BY <2>3, <2>4
  <2> QED
    BY <1>2, <1>3, <2>1, <2>2, <2>4, <2>5 DEF t
<1> QED
  BY <1>6, <1>7

------------------------------------------------------------------------------
(* What ParseSchema returns.                                               *)

\* A finite set of numbers that is not empty has a greatest one.
LEMMA MaxIsIn ==
  ASSUME NEW n \in Nat, NEW S \in SUBSET (1..n), S # {}
  PROVE  Max(S) \in S
<1> DEFINE Bounds == {m \in Nat : \A x \in S : x <= m}
<1>1. \A x \in S : x \in Nat /\ 1 <= x /\ x <= n
  OBVIOUS
<1>2. \E m \in Bounds : \A k \in Bounds : m <= k
  <2>1. Bounds \in SUBSET Nat /\ n \in Bounds
    BY <1>1
  <2> HIDE DEF Bounds
  <2> QED
    BY <2>1, SmallestNumber
<1>3. PICK m \in Nat : (\A x \in S : x <= m)
                       /\ \A k \in Nat : (\A x \in S : x <= k) => m <= k
  BY <1>2
<1> HIDE DEF Bounds
<1>4. m \in S
  <2> SUFFICES ASSUME m \notin S PROVE FALSE
    OBVIOUS
  <2>1. m # 0
    <3>1. PICK x \in S : TRUE
      OBVIOUS
    <3> QED
      BY <1>1, <1>3, <3>1
  <2>2. m - 1 \in Nat /\ ~(m <= m - 1)
    BY <2>1
  <2>3. \A x \in S : x <= m - 1
    BY <1>1, <1>3
  <2> QED
    BY <1>3, <2>2, <2>3
<1>5. \A x \in S : m >= x
  BY <1>1, <1>3
<1> QED
  BY <1>4, <1>5 DEF Max

HasGreatest(S) == IsFiniteSet(S) /\ \A s \in SUBSET S : s # {} => Max(s) \in s

\* So do some of them.
LEMMA GreatestOfSome ==
  ASSUME NEW S, HasGreatest(S), NEW R \in SUBSET S
  PROVE  HasGreatest(R)
<1>1. IsFiniteSet(R)
  BY FS_Subset DEF HasGreatest
<1> QED
  BY <1>1 DEF HasGreatest

\* The positions of a sequence have.
LEMMA PositionsHaveGreatest ==
  ASSUME NEW n \in Nat
  PROVE  HasGreatest(1..n)
<1>1. IsFiniteSet(1..n)
  BY FS_Interval
<1> QED
  BY <1>1, MaxIsIn DEF HasGreatest

\* The function by which the fold over a document is defined: what is parsed of
\* some of its definitions.
IsParse(g, doc, S) ==
  g = [s \in SUBSET S |-> IF s = {} THEN NoMap
         ELSE LET x == Max(s) IN ConsumeDefinition(g[s \ {x}], doc[x])]

\* There is at most one, also when it is defined on more sets.
LEMMA ParseUnique ==
  ASSUME NEW doc, NEW S, HasGreatest(S), NEW R \in SUBSET S,
         NEW g, NEW h, IsParse(g, doc, S), IsParse(h, doc, R)
  PROVE  \A s \in SUBSET R : g[s] = h[s]
<1> DEFINE T == {s \in SUBSET R : g[s] # h[s]}
<1>1. SUFFICES ASSUME T # {} PROVE FALSE
  OBVIOUS
<1>2. \E s \in T : \A u \in T : u \subseteq s => u = s
  <2>1. T \in SUBSET SUBSET R /\ IsFiniteSet(R)
    BY GreatestOfSome DEF HasGreatest
  <2> HIDE DEF T
  <2> QED
    BY <1>1, <2>1, SmallestSet
<1>3. PICK s \in T : \A u \in T : u \subseteq s => u = s
  BY <1>2
<1>4. s \in SUBSET R /\ s \in SUBSET S /\ g[s] # h[s]
  OBVIOUS
<1>5. s # {}
  <2>1. g[{}] = NoMap /\ h[{}] = NoMap
    BY DEF IsParse
  <2> QED
    BY <1>4, <2>1
<1> DEFINE x == Max(s)
<1>6. x \in s
  BY <1>4, <1>5 DEF HasGreatest
<1>7. g[s \ {x}] = h[s \ {x}]
  BY <1>3, <1>4, <1>6
<1>8. g[s] = ConsumeDefinition(g[s \ {x}], doc[x])
  BY <1>4, <1>5 DEF IsParse
<1>9. h[s] = ConsumeDefinition(h[s \ {x}], doc[x])
  BY <1>4, <1>5 DEF IsParse
<1> QED
  BY <1>4, <1>7, <1>8, <1>9

\* There is one.
LEMMA ParseExists ==
  ASSUME NEW doc, NEW S, HasGreatest(S)
  PROVE  \E g : IsParse(g, doc, S)
<1> DEFINE T == {s \in SUBSET S : ~\E g : IsParse(g, doc, s)}
<1>1. SUFFICES ASSUME T # {} PROVE FALSE
  OBVIOUS
<1>2. \E s \in T : \A u \in T : u \subseteq s => u = s
  <2>1. T \in SUBSET SUBSET S /\ IsFiniteSet(S)
    BY DEF HasGreatest
  <2> HIDE DEF T
  <2> QED
    BY <1>1, <2>1, SmallestSet
<1>3. PICK s \in T : \A u \in T : u \subseteq s => u = s
  BY <1>2
<1>4. s \in SUBSET S /\ ~\E g : IsParse(g, doc, s)
  OBVIOUS
<1> DEFINE parse(u) == CHOOSE g : IsParse(g, doc, u)
<1>5. \A u \in SUBSET s : u # s => IsParse(parse(u), doc, u)
  BY <1>3, <1>4
<1> HIDE DEF T, parse
<1> DEFINE h == [u \in SUBSET s |-> IF u = {} THEN NoMap
                   ELSE LET x == Max(u)
                        IN  ConsumeDefinition(parse(u \ {x})[u \ {x}], doc[x])]
<1>6. ASSUME NEW u \in SUBSET s, u # s
      PROVE  h[u] = parse(u)[u]
  <2>1. parse(u) = [v \in SUBSET u |-> IF v = {} THEN NoMap
           ELSE LET x == Max(v) IN ConsumeDefinition(parse(u)[v \ {x}], doc[x])]
    BY <1>5, <1>6 DEF IsParse
  <2>2. CASE u = {}
    <3>1. parse(u)[u] = NoMap
      BY <2>1, <2>2
    <3> QED
      BY <2>2, <3>1
  <2>3. CASE u # {}
    <3> DEFINE x == Max(u)
    <3>1. x \in u
      BY <1>4, <2>3 DEF HasGreatest
    <3> DEFINE v == u \ {x}
    <3>2. v \in SUBSET s /\ v # s /\ v \in SUBSET u /\ v \in SUBSET v
      BY <3>1
    <3>3. IsParse(parse(v), doc, v) /\ IsParse(parse(u), doc, u)
      <4> HIDE DEF v
      <4> QED
        BY <1>5, <1>6, <3>2
    <3>4. parse(u)[v] = parse(v)[v]
      <4> DEFINE g == parse(u)
                 f == parse(v)
      <4>1. IsParse(g, doc, u) /\ IsParse(f, doc, v) /\ HasGreatest(u)
        BY <1>4, <3>3, GreatestOfSome
      <4> HIDE DEF g, f, v
      <4>2. g[v] = f[v]
        BY <3>2, <4>1, ParseUnique
      <4> QED
        BY <4>2 DEF g, f
    <3>5. parse(u)[u] = ConsumeDefinition(parse(u)[v], doc[x])
      BY <2>1, <2>3
    <3>6. h[u] = ConsumeDefinition(parse(v)[v], doc[x])
      BY <2>3
    <3> QED
      BY <3>4, <3>5, <3>6
  <2> QED
    BY <2>2, <2>3
<1>7. ASSUME NEW u \in SUBSET s
      PROVE  h[u] = IF u = {} THEN NoMap
                    ELSE LET x == Max(u) IN ConsumeDefinition(h[u \ {x}], doc[x])
  <2>1. CASE u = {}
    BY <2>1
  <2>2. CASE u # {}
    <3> DEFINE x == Max(u)
    <3>1. x \in u
      BY <1>4, <2>2 DEF HasGreatest
    <3> DEFINE v == u \ {x}
    <3>2. v \in SUBSET s /\ v # s
      BY <3>1
    <3>3. h[u] = ConsumeDefinition(parse(v)[v], doc[x])
      BY <2>2
    <3>4. h[v] = parse(v)[v]
      <4> HIDE DEF h, v
      <4> QED
        BY <1>6, <3>2
    <3> HIDE DEF h
    <3> QED
      BY <2>2, <3>3, <3>4
  <2> QED
    BY <2>1, <2>2
<1>8. h = [u \in SUBSET s |-> h[u]]
  OBVIOUS
<1> HIDE DEF h
<1>9. h = [u \in SUBSET s |-> IF u = {} THEN NoMap
             ELSE LET x == Max(u) IN ConsumeDefinition(h[u \ {x}], doc[x])]
  BY <1>7, <1>8
<1>10. IsParse(h, doc, s)
  BY <1>9 DEF IsParse
<1> QED
  BY <1>4, <1>10

\* ParseSchema takes such a function of all definitions.
LEMMA ParseIsFold ==
  ASSUME NEW doc, WellFormed(doc)
  PROVE  \E g : IsParse(g, doc, DOMAIN doc) /\ ParseSchema(doc) = g[DOMAIN doc]
<1> DEFINE parse == CHOOSE g : IsParse(g, doc, DOMAIN doc)
<1>1. IsParse(parse, doc, DOMAIN doc)
  <2>1. HasGreatest(DOMAIN doc)
    BY PositionsHaveGreatest DEF WellFormed
  <2> QED
    BY <2>1, ParseExists
<1>2. ParseSchema(doc) = parse[DOMAIN doc]
  BY DEF ParseSchema, FoldLeft, MapThenFoldSet, IsParse
<1> HIDE DEF parse
<1> QED
  BY <1>1, <1>2

\* What Overlay makes of two finite maps.
LEMMA OverlayIsMap ==
  ASSUME NEW new, NEW old, IsFiniteSet(DOMAIN new), IsFiniteSet(DOMAIN old)
  PROVE  /\ IsMap(Overlay(new, old))
         /\ DOMAIN Overlay(new, old) = DOMAIN new \cup DOMAIN old
         /\ \A x \in DOMAIN new : Overlay(new, old)[x] = new[x]
         /\ \A x \in DOMAIN old \ DOMAIN new : Overlay(new, old)[x] = old[x]
<1>1. IsFiniteSet(DOMAIN new \cup DOMAIN old)
  BY FS_Union
<1>2. DOMAIN Overlay(new, old) = DOMAIN new \cup DOMAIN old
  BY DEF Overlay
<1>3. Overlay(new, old) = [x \in DOMAIN Overlay(new, old) |-> Overlay(new, old)[x]]
  BY DEF Overlay
<1>4. IsMap(Overlay(new, old))
  BY <1>1, <1>2, <1>3 DEF IsMap
<1> QED
  BY <1>2, <1>4 DEF Overlay

\* A type as ParseSchema keeps it: a field with arguments is a field, a map of
\* arguments has some.
IsEntry(e) ==
  /\ e = [kind |-> e.kind, fields |-> e.fields, args |-> e.args, members |-> e.members]
  /\ e.kind \in Kind
  /\ IsMap(e.fields) /\ IsMap(e.args) /\ IsFiniteSet(e.members)
  /\ DOMAIN e.args \subseteq DOMAIN e.fields
  /\ \A f \in DOMAIN e.args : IsMap(e.args[f]) /\ DOMAIN e.args[f] # {}
  /\ \A x \in e.members : x[1] \in WithMembers

\* One whose fields and members are those of its kind.
IsType(e) ==
  /\ IsEntry(e)
  /\ DOMAIN e.fields # {} => e.kind \in WithFields
  /\ \A x \in e.members : x[1] = e.kind

AreEntries(types) == IsMap(types) /\ \A n \in DOMAIN types : IsEntry(types[n])
AreTypes(types) == IsMap(types) /\ \A n \in DOMAIN types : IsType(types[n])

\* Before the first definition there are none.
LEMMA NoTypes == AreEntries(NoMap)
<1>1. DOMAIN NoMap = {} /\ NoMap = [x \in DOMAIN NoMap |-> NoMap[x]]
  BY DEF NoMap
<1> QED
  BY <1>1, FS_EmptySet DEF AreEntries, IsMap

\* Each definition leaves them so.
LEMMA ConsumeKeepsTypes ==
  ASSUME NEW doc, WellFormed(doc), NEW i \in DOMAIN doc,
         NEW types, AreEntries(types)
  PROVE  AreEntries(ConsumeDefinition(types, doc[i]))
<1> DEFINE def == doc[i]
           withArgs == {f \in DOMAIN def.fields :
                          def.kind # "input" /\ def.fields[f].args # NoMap}
           entry == EnsureType(types, def)
           newFields == [f \in DOMAIN def.fields |-> def.fields[f].type]
           newArgs == [f \in withArgs |-> def.fields[f].args]
           fields == Overlay(newFields, entry.fields)
           args == Overlay(newArgs, entry.args)
           members == entry.members \cup ({def.kind} \X def.members)
           consumed == [entry EXCEPT !.fields = fields, !.args = args, !.members = members]
           new == [n \in {def.name} |-> consumed]
<1>1. CASE def.kind \notin Kind
  <2>1. ConsumeDefinition(types, def) = types
    BY <1>1 DEF ConsumeDefinition
  <2> QED
    BY <2>1
<1>2. CASE def.kind \in Kind
  <2>1. ConsumeDefinition(types, def) = Overlay(new, types)
    BY <1>2 DEF ConsumeDefinition
  <2>2. /\ IsMap(def.fields) /\ IsFiniteSet(def.members)
        /\ \A f \in DOMAIN def.fields : IsMap(def.fields[f].args)
        /\ DOMAIN def.fields # {} => def.kind \in WithFields
        /\ def.members # {} => def.kind \in WithMembers
    BY <1>2 DEF WellFormed
  <2>3. IsEntry(entry)
    <3>1. CASE def.name \in DOMAIN types
      <4>1. entry = types[def.name]
        BY <3>1 DEF EnsureType
      <4> HIDE DEF entry
      <4> QED
        BY <3>1, <4>1 DEF AreEntries
    <3>2. CASE def.name \notin DOMAIN types
      <4>1. entry = [kind |-> def.kind, fields |-> NoMap, args |-> NoMap, members |-> {}]
        BY <3>2 DEF EnsureType
      <4>2. DOMAIN NoMap = {} /\ IsMap(NoMap)
        <5>1. DOMAIN NoMap = {} /\ NoMap = [x \in DOMAIN NoMap |-> NoMap[x]]
          BY DEF NoMap
        <5> QED
          BY <5>1, FS_EmptySet DEF IsMap
      <4> HIDE DEF entry, def
      <4> QED
        BY <1>2, <4>1, <4>2, FS_EmptySet DEF IsEntry
    <3> QED
      BY <3>1, <3>2
  <2> HIDE DEF entry
  <2>4. IsFiniteSet(DOMAIN newFields) /\ DOMAIN newFields = DOMAIN def.fields
    BY <2>2 DEF IsMap
  <2>5. IsFiniteSet(DOMAIN newArgs) /\ DOMAIN newArgs = withArgs
        /\ DOMAIN newArgs \subseteq DOMAIN def.fields
        /\ \A f \in DOMAIN newArgs : IsMap(newArgs[f]) /\ DOMAIN newArgs[f] # {}
    <3>1. withArgs \in SUBSET DOMAIN def.fields /\ DOMAIN newArgs = withArgs
      OBVIOUS
    <3>2. IsFiniteSet(withArgs)
      <4> HIDE DEF withArgs
      <4> QED
        BY <2>2, <3>1, FS_Subset DEF IsMap
    <3>3. ASSUME NEW f \in withArgs
          PROVE  IsMap(newArgs[f]) /\ DOMAIN newArgs[f] # {}
      <4>1. newArgs[f] = def.fields[f].args /\ newArgs[f] # NoMap /\ f \in DOMAIN def.fields
        OBVIOUS
      <4> DEFINE a == newArgs[f]
      <4>2. IsMap(a) /\ a # NoMap
        BY <2>2, <4>1
      <4> HIDE DEF a
      <4>3. DOMAIN a # {}
        <5> SUFFICES ASSUME DOMAIN a = {}
                     PROVE  FALSE
          OBVIOUS
        <5>1. a = [x \in {} |-> a[x]]
          BY <4>2 DEF IsMap
        <5>2. NoMap = [x \in {} |-> NoMap[x]]
          BY DEF NoMap
        <5>3. [x \in {} |-> a[x]] = [x \in {} |-> NoMap[x]]
          OBVIOUS
        <5> QED
          BY <4>2, <5>1, <5>2, <5>3
      <4> QED
        BY <4>2, <4>3 DEF a
    <3> QED
      BY <3>1, <3>2, <3>3
  <2> HIDE DEF newFields, newArgs
  <2> DEFINE eFields == entry.fields
             eArgs == entry.args
  <2>0. /\ IsFiniteSet(DOMAIN eFields) /\ IsFiniteSet(DOMAIN eArgs)
        /\ entry = [kind |-> entry.kind, fields |-> eFields, args |-> eArgs,
                    members |-> entry.members]
    BY <2>3 DEF IsEntry, IsMap
  <2> HIDE DEF eFields, eArgs
  <2>6. /\ IsMap(fields) /\ DOMAIN fields = DOMAIN newFields \cup DOMAIN entry.fields
    <3>1. fields = Overlay(newFields, eFields)
      BY DEF eFields
    <3> HIDE DEF fields
    <3>2. IsMap(fields) /\ DOMAIN fields = DOMAIN newFields \cup DOMAIN eFields
      BY <2>0, <2>4, <3>1, OverlayIsMap
    <3> QED
      BY <3>2 DEF eFields
  <2>7. /\ IsMap(args) /\ DOMAIN args = DOMAIN newArgs \cup DOMAIN entry.args
        /\ \A f \in DOMAIN newArgs : args[f] = newArgs[f]
        /\ \A f \in DOMAIN entry.args \ DOMAIN newArgs : args[f] = entry.args[f]
    <3>1. args = Overlay(newArgs, eArgs)
      BY DEF eArgs
    <3> HIDE DEF args
    <3>2. /\ IsMap(args) /\ DOMAIN args = DOMAIN newArgs \cup DOMAIN eArgs
          /\ \A f \in DOMAIN newArgs : args[f] = newArgs[f]
          /\ \A f \in DOMAIN eArgs \ DOMAIN newArgs : args[f] = eArgs[f]
      <4>1. IsFiniteSet(DOMAIN newArgs) /\ IsFiniteSet(DOMAIN eArgs)
        BY <2>0, <2>5
      <4>2. /\ IsMap(Overlay(newArgs, eArgs))
            /\ DOMAIN Overlay(newArgs, eArgs) = DOMAIN newArgs \cup DOMAIN eArgs
            /\ \A f \in DOMAIN newArgs : Overlay(newArgs, eArgs)[f] = newArgs[f]
            /\ \A f \in DOMAIN eArgs \ DOMAIN newArgs : Overlay(newArgs, eArgs)[f] = eArgs[f]
        BY <4>1, OverlayIsMap
      <4> QED
        BY <3>1, <4>2
    <3> QED
      BY <3>2 DEF eArgs
  <2>8. IsFiniteSet(members) /\ \A x \in members : x[1] \in WithMembers
    <3>1. IsFiniteSet({def.kind} \X def.members)
      BY <2>2, FS_Singleton, FS_Product
    <3>2. IsFiniteSet(members)
      BY <2>3, <3>1, FS_Union DEF IsEntry
    <3>3. \A x \in {def.kind} \X def.members : x[1] \in WithMembers
      BY <2>2
    <3> QED
      BY <2>3, <3>2, <3>3 DEF IsEntry
  <2> HIDE DEF fields, args, members, def
  <2>9. consumed = [kind |-> entry.kind, fields |-> fields, args |-> args, members |-> members]
    <3> DEFINE k == entry.kind
               m == entry.members
    <3>1. entry = [kind |-> k, fields |-> eFields, args |-> eArgs, members |-> m]
      BY <2>0
    <3> HIDE DEF k, m
    <3>2. consumed = [kind |-> k, fields |-> fields, args |-> args, members |-> members]
      <4>1. /\ DOMAIN consumed = {"kind", "fields", "args", "members"}
            /\ consumed.kind = k /\ consumed.fields = fields
            /\ consumed.args = args /\ consumed.members = members
            /\ consumed = [x \in DOMAIN consumed |-> consumed[x]]
        BY <3>1
      <4> HIDE DEF consumed
      <4> QED
        BY <4>1
    <3> QED
      BY <3>2 DEF k
  <2> HIDE DEF consumed
  <2>10. IsEntry(consumed)
    <3>1. \A f \in DOMAIN args : IsMap(args[f]) /\ DOMAIN args[f] # {}
      BY <2>3, <2>5, <2>7 DEF IsEntry
    <3>2. DOMAIN args \subseteq DOMAIN fields
      BY <2>3, <2>4, <2>5, <2>6, <2>7 DEF IsEntry
    <3>3. entry.kind \in Kind
      BY <2>3 DEF IsEntry
    <3> QED
      BY <2>6, <2>7, <2>8, <2>9, <3>1, <3>2, <3>3 DEF IsEntry
  <2>11. DOMAIN new = {def.name} /\ new[def.name] = consumed
    OBVIOUS
  <2> HIDE DEF new
  <2>12. /\ IsMap(Overlay(new, types))
         /\ DOMAIN Overlay(new, types) = {def.name} \cup DOMAIN types
         /\ Overlay(new, types)[def.name] = consumed
         /\ \A n \in DOMAIN types \ {def.name} : Overlay(new, types)[n] = types[n]
    <3>1. IsFiniteSet({def.name}) /\ IsFiniteSet(DOMAIN types)
      BY FS_Singleton DEF AreEntries, IsMap
    <3>2. IsFiniteSet(DOMAIN new)
      BY <2>11, <3>1
    <3>3. /\ IsMap(Overlay(new, types))
          /\ DOMAIN Overlay(new, types) = DOMAIN new \cup DOMAIN types
          /\ \A x \in DOMAIN new : Overlay(new, types)[x] = new[x]
          /\ \A x \in DOMAIN types \ DOMAIN new : Overlay(new, types)[x] = types[x]
      BY <3>1, <3>2, OverlayIsMap
    <3> QED
      BY <2>11, <3>3
  <2> DEFINE all == Overlay(new, types)
  <2>14. IsMap(all)
    BY <2>12
  <2>15. ASSUME NEW n \in DOMAIN all
         PROVE  IsEntry(all[n])
    <3>1. CASE n = def.name
      <4>1. all[n] = consumed
        BY <2>12, <3>1
      <4> HIDE DEF all
      <4> QED
        BY <2>10, <4>1
    <3>2. CASE n # def.name
      <4>1. all[n] = types[n] /\ n \in DOMAIN types
        BY <2>12, <3>2
      <4> HIDE DEF all
      <4> QED
        BY <4>1 DEF AreEntries
    <3> QED
      BY <3>1, <3>2
  <2>16. ConsumeDefinition(types, doc[i]) = all
    BY <2>1 DEF def
  <2> HIDE DEF all
  <2> QED
    BY <2>14, <2>15, <2>16 DEF AreEntries
<1> QED
  BY <1>1, <1>2

\* So the types of a whole document are.
LEMMA ParseSchemaParses ==
  ASSUME NEW doc, WellFormed(doc)
  PROVE  AreEntries(ParseSchema(doc))
<1>1. PICK g : IsParse(g, doc, DOMAIN doc) /\ ParseSchema(doc) = g[DOMAIN doc]
  BY ParseIsFold
<1>2. HasGreatest(DOMAIN doc)
  BY PositionsHaveGreatest DEF WellFormed
<1> DEFINE T == {s \in SUBSET DOMAIN doc : ~AreEntries(g[s])}
<1>3. T = {}
  <2> SUFFICES ASSUME T # {} PROVE FALSE
    OBVIOUS
  <2>1. \E s \in T : \A u \in T : u \subseteq s => u = s
    <3>1. T \in SUBSET SUBSET DOMAIN doc /\ IsFiniteSet(DOMAIN doc)
      BY <1>2 DEF HasGreatest
    <3> HIDE DEF T
    <3> QED
      BY <3>1, SmallestSet
  <2>2. PICK s \in T : \A u \in T : u \subseteq s => u = s
    BY <2>1
  <2>3. s \in SUBSET DOMAIN doc /\ ~AreEntries(g[s])
    OBVIOUS
  <2>4. CASE s = {}
    <3>1. g[s] = NoMap
      BY <1>1, <2>3, <2>4 DEF IsParse
    <3> QED
      BY <2>3, <3>1, NoTypes
  <2>5. CASE s # {}
    <3> DEFINE x == Max(s)
    <3>1. x \in s
      BY <1>2, <2>3, <2>5 DEF HasGreatest
    <3>2. g[s] = ConsumeDefinition(g[s \ {x}], doc[x])
      BY <1>1, <2>3, <2>5 DEF IsParse
    <3>3. AreEntries(g[s \ {x}])
      BY <2>2, <2>3, <3>1
    <3> HIDE DEF x
    <3>4. x \in DOMAIN doc
      BY <2>3, <3>1
    <3> QED
      BY <2>3, <3>2, <3>3, <3>4, ConsumeKeepsTypes
  <2> QED
    BY <2>4, <2>5
<1> QED
  BY <1>1, <1>3

LEMMA ParsedAreEntries ==
  ASSUME NEW d \in Document
  PROVE  AreEntries(Parsed[d])
<1>1. WellFormed(TypeDefs[d])
  BY DocumentAssumption
<1>2. Parsed[d] = ParseSchema(TypeDefs[d])
  BY DEF Parsed
<1> QED
  BY <1>1, <1>2, ParseSchemaParses

\* What the log tells of an entry is a type.
LEMMA ToldIsType ==
  ASSUME NEW e, IsEntry(e)
  PROVE  /\ IsType(OfKind(e)) /\ OfKind(e).kind = e.kind
         /\ e.kind \in WithFields => OfKind(e).fields = e.fields /\ OfKind(e).args = e.args
         /\ OfKind(e).members = Members(e, e.kind)
<1>1. DOMAIN NoMap = {} /\ NoMap = [x \in DOMAIN NoMap |-> NoMap[x]]
  BY DEF NoMap
<1>2. IsMap(NoMap)
  BY <1>1, FS_EmptySet DEF IsMap
<1> DEFINE o == OfKind(e)
<1>3. /\ o.kind = e.kind /\ o.members = Members(e, e.kind)
      /\ o.fields = IF e.kind \in WithFields THEN e.fields ELSE NoMap
      /\ o.args = IF e.kind \in WithFields THEN e.args ELSE NoMap
      /\ o = [kind |-> o.kind, fields |-> o.fields, args |-> o.args, members |-> o.members]
  BY DEF OfKind
<1> HIDE DEF o
<1>4. IsFiniteSet(o.members) /\ \A x \in o.members : x[1] \in WithMembers /\ x[1] = o.kind
  <2>1. o.members \in SUBSET e.members /\ \A x \in o.members : x[1] = o.kind
    BY <1>3 DEF Members
  <2> QED
    BY <2>1, FS_Subset DEF IsEntry
<1>5. /\ IsMap(o.fields) /\ IsMap(o.args) /\ DOMAIN o.args \subseteq DOMAIN o.fields
      /\ \A f \in DOMAIN o.args : IsMap(o.args[f]) /\ DOMAIN o.args[f] # {}
      /\ DOMAIN o.fields # {} => o.kind \in WithFields
  BY <1>1, <1>2, <1>3 DEF IsEntry
<1>6. o.kind \in Kind
  BY <1>3 DEF IsEntry
<1>7. IsType(o)
  BY <1>3, <1>4, <1>5, <1>6 DEF IsType, IsEntry
<1> QED
  BY <1>3, <1>7 DEF o

------------------------------------------------------------------------------
(* A diff is a finite set, and is empty only when nothing differs.         *)

\* The values of a function with a finite domain are finite in number.
LEMMA RangeIsFinite ==
  ASSUME NEW F, IsFiniteSet(DOMAIN F)
  PROVE  IsFiniteSet({F[x] : x \in DOMAIN F})
<1> DEFINE S == DOMAIN F
           T == {F[x] : x \in S}
           g == [x \in S |-> F[x]]
<1>1. g \in Surjection(S, T)
  BY DEF Surjection
<1> HIDE DEF g, T
<1>2. IsFiniteSet(T)
  <2> HIDE DEF S
  <2>1. IsFiniteSet(S)
    BY DEF S
  <2> QED
    BY <1>1, <2>1, FS_Surjection
<1> QED
  BY <1>2 DEF T

\* The rows for the keys of two finite maps.
LEMMA ChangesAreFinite ==
  ASSUME NEW what, NEW path, NEW before, NEW after,
         IsFiniteSet(DOMAIN before), IsFiniteSet(DOMAIN after)
  PROVE  IsFiniteSet(Changes(what, path, before, after))
<1> DEFINE Rows(change, S) == {<<what, change, Append(path, x)>> : x \in S}
           Same == {y \in DOMAIN before \cap DOMAIN after : before[y] # after[y]}
<1>1. ASSUME NEW change, NEW S, IsFiniteSet(S)
      PROVE  IsFiniteSet(Rows(change, S))
  <2> DEFINE F == [x \in S |-> <<what, change, Append(path, x)>>]
  <2>1. DOMAIN F = S /\ Rows(change, S) = {F[x] : x \in DOMAIN F}
    OBVIOUS
  <2> HIDE DEF F, Rows
  <2> QED
    BY <1>1, <2>1, RangeIsFinite
<1>2. /\ IsFiniteSet(DOMAIN after \ DOMAIN before)
      /\ IsFiniteSet(DOMAIN before \ DOMAIN after)
      /\ IsFiniteSet(Same)
  <2>1. /\ DOMAIN after \ DOMAIN before \in SUBSET DOMAIN after
        /\ DOMAIN before \ DOMAIN after \in SUBSET DOMAIN before
        /\ Same \in SUBSET DOMAIN before
    OBVIOUS
  <2> HIDE DEF Same
  <2> QED
    BY <2>1, FS_Subset
<1>3. Changes(what, path, before, after)
        = (Rows("ADDED", DOMAIN after \ DOMAIN before)
             \cup Rows("REMOVED", DOMAIN before \ DOMAIN after))
             \cup Rows("TYPE_CHANGED", Same)
  BY DEF Changes
<1> HIDE DEF Rows, Same
<1>4. /\ IsFiniteSet(Rows("ADDED", DOMAIN after \ DOMAIN before))
      /\ IsFiniteSet(Rows("REMOVED", DOMAIN before \ DOMAIN after))
      /\ IsFiniteSet(Rows("TYPE_CHANGED", Same))
  BY <1>1, <1>2
<1>5. IsFiniteSet(Rows("ADDED", DOMAIN after \ DOMAIN before)
             \cup Rows("REMOVED", DOMAIN before \ DOMAIN after))
  BY <1>4, FS_Union
<1> QED
  BY <1>3, <1>4, <1>5, FS_Union

\* There are none just when the maps are the same.
LEMMA NoChanges ==
  ASSUME NEW what, NEW path, NEW before, NEW after, IsMap(before), IsMap(after)
  PROVE  Changes(what, path, before, after) = {} <=> before = after
<1>1. ASSUME Changes(what, path, before, after) = {}
      PROVE  before = after
  <2>1. DOMAIN before = DOMAIN after
    <3>1. \A x \in DOMAIN after \ DOMAIN before :
            <<what, "ADDED", Append(path, x)>> \in Changes(what, path, before, after)
      BY DEF Changes
    <3>2. \A x \in DOMAIN before \ DOMAIN after :
            <<what, "REMOVED", Append(path, x)>> \in Changes(what, path, before, after)
      BY DEF Changes
    <3> QED
      BY <1>1, <3>1, <3>2
  <2>2. \A x \in DOMAIN before : before[x] = after[x]
    <3>1. \A x \in DOMAIN before : before[x] # after[x] =>
            <<what, "TYPE_CHANGED", Append(path, x)>> \in Changes(what, path, before, after)
      BY <2>1 DEF Changes
    <3> QED
      BY <1>1, <3>1
  <2> QED
    BY <2>1, <2>2 DEF IsMap
<1>2. Changes(what, path, before, before) = {}
  BY DEF Changes
<1> QED
  BY <1>1, <1>2

\* The arguments of a field, if any, are a map with some; of what is no field
\* there are none.
LEMMA ArgsAreMap ==
  ASSUME NEW e, IsEntry(e), NEW f
  PROVE  /\ IsMap(ArgsOf(e, f))
         /\ f \in DOMAIN e.args <=> DOMAIN ArgsOf(e, f) # {}
<1>1. DOMAIN NoMap = {} /\ NoMap = [x \in DOMAIN NoMap |-> NoMap[x]]
  BY DEF NoMap
<1>2. IsMap(NoMap)
  BY <1>1, FS_EmptySet DEF IsMap
<1>3. CASE f \in DOMAIN e.args
  BY <1>3 DEF ArgsOf, IsType, IsEntry
<1>4. CASE f \notin DOMAIN e.args
  <2>1. ArgsOf(e, f) = NoMap
    BY <1>4 DEF ArgsOf
  <2> QED
    BY <1>1, <1>2, <1>4, <2>1
<1> QED
  BY <1>3, <1>4

\* The rows for two types of one kind are none just when the types are the same.
LEMMA NoFieldChanges ==
  ASSUME NEW n, NEW before, NEW after, IsType(before), IsType(after)
  PROVE  CompareFields(n, before, after) = {}
           <=> before.fields = after.fields /\ before.args = after.args
<1> DEFINE both == DOMAIN before.fields \cap DOMAIN after.fields
           A(f) == CompareFieldArguments(n, f, before, after)
           F == Changes("FIELD", <<n>>, before.fields, after.fields)
<1>1. CompareFields(n, before, after) = {} <=> F = {} /\ \A f \in both : A(f) = {}
  BY DEF CompareFields
<1>2. F = {} <=> before.fields = after.fields
  BY NoChanges DEF IsType, IsEntry
<1>3. ASSUME NEW f
      PROVE  A(f) = {} <=> ArgsOf(before, f) = ArgsOf(after, f)
  BY ArgsAreMap, NoChanges DEF CompareFieldArguments, IsType
<1> HIDE DEF A, F
<1>4. ASSUME before.fields = after.fields,
             \A f \in both : ArgsOf(before, f) = ArgsOf(after, f)
      PROVE  before.args = after.args
  <2>1. /\ IsMap(before.args) /\ DOMAIN before.args \subseteq DOMAIN before.fields
        /\ IsMap(after.args) /\ DOMAIN after.args \subseteq DOMAIN after.fields
    BY DEF IsType, IsEntry
  <2>2. DOMAIN before.args = DOMAIN after.args
    BY <1>4, <2>1, ArgsAreMap DEF IsType
  <2>3. \A f \in DOMAIN before.args : before.args[f] = after.args[f]
    BY <1>4, <2>1, <2>2 DEF ArgsOf
  <2> QED
    BY <2>1, <2>2, <2>3 DEF IsMap
<1>5. ASSUME before.args = after.args
      PROVE  \A f : ArgsOf(before, f) = ArgsOf(after, f)
  BY <1>5 DEF ArgsOf
<1> QED
  BY <1>1, <1>2, <1>3, <1>4, <1>5

\* All members of a type are of its kind.
LEMMA MembersOfKind ==
  ASSUME NEW e, IsType(e)
  PROVE  Members(e, e.kind) = e.members
BY DEF Members, IsType, IsEntry

LEMMA NoMemberChanges ==
  ASSUME NEW n, NEW before, NEW after, NEW kind,
         IsFiniteSet(Members(before, kind)), IsFiniteSet(Members(after, kind))
  PROVE  CompareMembers(n, before, after, kind) = {}
           <=> Members(before, kind) = Members(after, kind)
<1> DEFINE b == [x \in Members(before, kind) |-> kind]
           a == [x \in Members(after, kind) |-> kind]
<1>1. CompareMembers(n, before, after, kind) = Changes("MEMBER", <<n>>, b, a)
  BY DEF CompareMembers
<1>2. /\ DOMAIN b = Members(before, kind) /\ b = [x \in DOMAIN b |-> b[x]]
      /\ DOMAIN a = Members(after, kind) /\ a = [x \in DOMAIN a |-> a[x]]
  OBVIOUS
<1>3. Members(before, kind) = Members(after, kind) => b = a
  OBVIOUS
<1> HIDE DEF b, a
<1>4. IsMap(b) /\ IsMap(a)
  BY <1>2 DEF IsMap
<1> QED
  BY <1>1, <1>2, <1>3, <1>4, NoChanges

LEMMA NoTypeChanges ==
  ASSUME NEW n, NEW before, NEW after, IsType(before), IsType(after)
  PROVE  CompareTypes(n, before, after) = {} <=> before = after
<1>1. ASSUME CompareTypes(n, before, after) = {}
      PROVE  before = after
  <2>1. before.kind = after.kind
    BY <1>1 DEF CompareTypes
  <2>2. after.kind \in WithFields => CompareFields(n, before, after) = {}
    BY <1>1 DEF CompareTypes
  <2>3. after.kind \in WithMembers => CompareMembers(n, before, after, after.kind) = {}
    BY <1>1 DEF CompareTypes
  <2>4. before.fields = after.fields /\ before.args = after.args
    <3>1. CASE after.kind \in WithFields
      BY <2>2, <3>1, NoFieldChanges
    <3>2. CASE after.kind \notin WithFields
      <4>1. /\ DOMAIN before.fields = {} /\ DOMAIN after.fields = {}
            /\ DOMAIN before.args = {} /\ DOMAIN after.args = {}
        BY <2>1, <3>2 DEF IsType, IsEntry
      <4>2. /\ IsMap(before.fields) /\ IsMap(after.fields)
            /\ IsMap(before.args) /\ IsMap(after.args)
        BY DEF IsType, IsEntry
      <4> QED
        BY <4>1, <4>2 DEF IsMap
    <3> QED
      BY <3>1, <3>2
  <2>5. before.members = after.members
    <3>1. CASE after.kind \in WithMembers
      <4>1. Members(before, after.kind) = before.members
            /\ Members(after, after.kind) = after.members
        BY <2>1, MembersOfKind
      <4>2. IsFiniteSet(before.members) /\ IsFiniteSet(after.members)
        BY DEF IsType, IsEntry
      <4> QED
        BY <2>3, <3>1, <4>1, <4>2, NoMemberChanges
    <3>2. CASE after.kind \notin WithMembers
      BY <2>1, <3>2 DEF IsType, IsEntry
    <3> QED
      BY <3>1, <3>2
  <2>6. /\ before = [kind |-> before.kind, fields |-> before.fields, args |-> before.args,
                     members |-> before.members]
        /\ after = [kind |-> after.kind, fields |-> after.fields, args |-> after.args,
                    members |-> after.members]
    BY DEF IsType, IsEntry
  <2> QED
    BY <2>1, <2>4, <2>5, <2>6
<1>2. CompareTypes(n, before, before) = {}
  <2>1. CompareFields(n, before, before) = {}
    BY NoFieldChanges
  <2>2. CompareMembers(n, before, before, before.kind) = {}
    <3>1. IsFiniteSet(Members(before, before.kind))
      BY MembersOfKind DEF IsType, IsEntry
    <3> QED
      BY <3>1, NoMemberChanges
  <2> QED
    BY <2>1, <2>2 DEF CompareTypes
<1> QED
  BY <1>1, <1>2

\* Of two entries of one kind, no other fields and members are compared.
LEMMA ComparedByKind ==
  ASSUME NEW n, NEW before, NEW after, IsEntry(before), IsEntry(after),
         before.kind = after.kind
  PROVE  CompareTypes(n, before, after) = CompareTypes(n, OfKind(before), OfKind(after))
<1> DEFINE b == OfKind(before)
           a == OfKind(after)
<1>1. /\ b.kind = before.kind /\ a.kind = after.kind
      /\ b.members = Members(before, before.kind) /\ a.members = Members(after, after.kind)
      /\ after.kind \in WithFields => /\ b.fields = before.fields /\ b.args = before.args
                                     /\ a.fields = after.fields /\ a.args = after.args
  BY ToldIsType
<1> HIDE DEF b, a
<1>2. after.kind \in WithFields => CompareFields(n, before, after) = CompareFields(n, b, a)
  BY <1>1 DEF CompareFields, CompareFieldArguments, ArgsOf
<1>3. CompareMembers(n, before, after, after.kind) = CompareMembers(n, b, a, after.kind)
  <2>1. /\ Members(b, after.kind) = Members(before, after.kind)
        /\ Members(a, after.kind) = Members(after, after.kind)
    BY <1>1 DEF Members
  <2> QED
    BY <2>1 DEF CompareMembers
<1>4. CompareTypes(n, before, after) = CompareTypes(n, b, a)
  BY <1>1, <1>2, <1>3 DEF CompareTypes
<1> QED
  BY <1>4 DEF b, a

\* The rows for two entries are none just when the same is told of them.
LEMMA NoEntryChanges ==
  ASSUME NEW n, NEW before, NEW after, IsEntry(before), IsEntry(after)
  PROVE  CompareTypes(n, before, after) = {} <=> OfKind(before) = OfKind(after)
<1>1. CASE before.kind = after.kind
  BY <1>1, ComparedByKind, ToldIsType, NoTypeChanges
<1>2. CASE before.kind # after.kind
  <2>1. CompareTypes(n, before, after) # {}
    BY <1>2 DEF CompareTypes
  <2> QED
    BY <1>2, <2>1, ToldIsType
<1> QED
  BY <1>1, <1>2

\* A diff is empty just when the same is told of both versions.
LEMMA DiffTellsDifference ==
  ASSUME NEW before, NEW after, AreEntries(before), AreEntries(after)
  PROVE  DiffSchemaTypeDefs(before, after) = {} <=> AsTold(before) = AsTold(after)
<1> DEFINE both == DOMAIN before \cap DOMAIN after
           b == [n \in DOMAIN before |-> "type"]
           a == [n \in DOMAIN after |-> "type"]
           C(n) == CompareTypes(n, before[n], after[n])
<1>1. DiffSchemaTypeDefs(before, after) = Changes("TYPE", <<>>, b, a) \cup UNION {C(n) : n \in both}
  BY DEF DiffSchemaTypeDefs
<1>2. /\ DOMAIN b = DOMAIN before /\ b = [x \in DOMAIN b |-> b[x]]
      /\ DOMAIN a = DOMAIN after /\ a = [x \in DOMAIN a |-> a[x]]
      /\ DOMAIN before = DOMAIN after => b = a
  OBVIOUS
<1>3. \A n \in both : C(n) = {} <=> OfKind(before[n]) = OfKind(after[n])
  BY NoEntryChanges DEF AreEntries
<1> HIDE DEF C, b, a
<1>4. IsMap(b) /\ IsMap(a)
  BY <1>2 DEF AreEntries, IsMap
<1>5. Changes("TYPE", <<>>, b, a) = {} <=> b = a
  BY <1>4, NoChanges
<1>6. AsTold(before) = AsTold(after) <=>
        DOMAIN before = DOMAIN after /\ \A n \in both : OfKind(before[n]) = OfKind(after[n])
  BY DEF AsTold
<1> QED
  BY <1>1, <1>2, <1>3, <1>5, <1>6

\* The rows of a diff are finite in number.
LEMMA DiffIsFinite ==
  ASSUME NEW before, NEW after, AreEntries(before), AreEntries(after)
  PROVE  IsFiniteSet(DiffSchemaTypeDefs(before, after))
<1> DEFINE both == DOMAIN before \cap DOMAIN after
           b == [n \in DOMAIN before |-> "type"]
           a == [n \in DOMAIN after |-> "type"]
           C(n) == CompareTypes(n, before[n], after[n])
<1>1. DiffSchemaTypeDefs(before, after) = Changes("TYPE", <<>>, b, a) \cup UNION {C(n) : n \in both}
  BY DEF DiffSchemaTypeDefs
<1>2. /\ DOMAIN b = DOMAIN before /\ IsFiniteSet(DOMAIN before)
      /\ DOMAIN a = DOMAIN after /\ IsFiniteSet(DOMAIN after)
  BY DEF AreEntries, IsMap
<1>3. IsFiniteSet(Changes("TYPE", <<>>, b, a))
  <2> HIDE DEF b, a
  <2> QED
    BY <1>2, ChangesAreFinite
<1>4. ASSUME NEW n \in both
      PROVE  IsFiniteSet(C(n))
  <2> DEFINE e == before[n]
             f == after[n]
  <2>1. IsEntry(e) /\ IsEntry(f)
    BY DEF AreEntries
  <2> HIDE DEF e, f
  <2>2. IsFiniteSet(CompareFields(n, e, f))
    <3> DEFINE shared == DOMAIN e.fields \cap DOMAIN f.fields
               A(x) == CompareFieldArguments(n, x, e, f)
    <3>1. IsFiniteSet(DOMAIN e.fields) /\ IsFiniteSet(DOMAIN f.fields)
      BY <2>1 DEF IsEntry, IsMap
    <3>2. IsFiniteSet(Changes("FIELD", <<n>>, e.fields, f.fields))
      BY <3>1, ChangesAreFinite
    <3>3. IsFiniteSet(shared)
      <4>1. shared \in SUBSET DOMAIN e.fields
        OBVIOUS
      <4> HIDE DEF shared
      <4> QED
        BY <3>1, <4>1, FS_Subset
    <3>4. \A x : IsFiniteSet(A(x))
      BY <2>1, ArgsAreMap, ChangesAreFinite DEF CompareFieldArguments, IsMap
    <3> DEFINE G == [x \in shared |-> A(x)]
    <3>5. DOMAIN G = shared /\ {A(x) : x \in shared} = {G[x] : x \in DOMAIN G}
      OBVIOUS
    <3>6. CompareFields(n, e, f)
            = Changes("FIELD", <<n>>, e.fields, f.fields) \cup UNION {A(x) : x \in shared}
      BY DEF CompareFields
    <3> HIDE DEF G, shared, A
    <3>7. IsFiniteSet({A(x) : x \in shared})
      BY <3>3, <3>5, RangeIsFinite
    <3>8. IsFiniteSet(UNION {A(x) : x \in shared})
      BY <3>4, <3>7, FS_UNION
    <3> QED
      BY <3>2, <3>6, <3>8, FS_Union
  <2>3. IsFiniteSet(CompareMembers(n, e, f, f.kind))
    <3> DEFINE m == [x \in Members(e, f.kind) |-> f.kind]
               p == [x \in Members(f, f.kind) |-> f.kind]
    <3>1. Members(e, f.kind) \in SUBSET e.members /\ Members(f, f.kind) \in SUBSET f.members
      BY DEF Members
    <3>2. IsFiniteSet(e.members) /\ IsFiniteSet(f.members)
      BY <2>1 DEF IsEntry
    <3>3. IsFiniteSet(DOMAIN m) /\ IsFiniteSet(DOMAIN p)
      <4>1. IsFiniteSet(Members(e, f.kind)) /\ IsFiniteSet(Members(f, f.kind))
        BY <3>1, <3>2, FS_Subset
      <4> QED
        BY <4>1
    <3>4. CompareMembers(n, e, f, f.kind) = Changes("MEMBER", <<n>>, m, p)
      BY DEF CompareMembers
    <3> HIDE DEF m, p
    <3> QED
      BY <3>3, <3>4, ChangesAreFinite
  <2> DEFINE K == IF e.kind # f.kind THEN {<<"TYPE", "KIND_CHANGED", <<n>>>>} ELSE {}
             L == IF f.kind \in WithFields THEN CompareFields(n, e, f) ELSE {}
             M == IF f.kind \in WithMembers THEN CompareMembers(n, e, f, f.kind) ELSE {}
  <2>4. IsFiniteSet(K) /\ IsFiniteSet(L) /\ IsFiniteSet(M)
    BY <2>2, <2>3, FS_EmptySet, FS_Singleton
  <2>5. C(n) = (K \cup L) \cup M
    BY DEF CompareTypes, e, f
  <2> HIDE DEF K, L, M, C
  <2>6. IsFiniteSet(K \cup L)
    BY <2>4, FS_Union
  <2> QED
    BY <2>4, <2>5, <2>6, FS_Union
<1>5. IsFiniteSet(both)
  <2>1. both \in SUBSET DOMAIN before
    OBVIOUS
  <2> HIDE DEF both
  <2> QED
    BY <1>2, <2>1, FS_Subset
<1> DEFINE G == [n \in both |-> C(n)]
<1>6. DOMAIN G = both /\ {C(n) : n \in both} = {G[n] : n \in DOMAIN G}
  OBVIOUS
<1> HIDE DEF G, both, C
<1>7. IsFiniteSet({C(n) : n \in both})
  BY <1>5, <1>6, RangeIsFinite
<1>8. IsFiniteSet(UNION {C(n) : n \in both})
  BY <1>4, <1>7, FS_UNION
<1> HIDE DEF b, a
<1> QED
  BY <1>1, <1>3, <1>8, FS_Union

\* A finite set in a fixed order has each of its elements.
LEMMA ListedIsWhole ==
  ASSUME NEW S, IsFiniteSet(S)
  PROVE  /\ SetToSeq(S) \in Seq(S) /\ ToSet(SetToSeq(S)) = S
         /\ SetToSeq(S) = <<>> <=> S = {}
<1> DEFINE n == Cardinality(S)
           f == SetToSeq(S)
<1>1. n \in Nat /\ \E g : g \in Bijection(1..n, S)
  BY FS_CardinalityType DEF ExistsBijection
<1>2. PICK g : g \in Bijection(1..n, S)
  BY <1>1
<1>3. g \in [1..n -> S] /\ IsInjective(g)
  BY <1>2 DEF Bijection, Injection, IsInjective
<1>4. f \in [1..n -> S] /\ IsInjective(f)
  BY <1>3 DEF SetToSeq
<1>5. f \in Injection(1..n, S)
  BY <1>4 DEF Injection, IsInjective
<1> HIDE DEF f
<1>6. IsFiniteSet(1..n) /\ Cardinality(1..n) = n
  <2> HIDE DEF n
  <2> QED
    BY <1>1, FS_Interval
<1>7. f \in Surjection(1..n, S)
  <2> DEFINE D == 1..n
  <2>1. IsFiniteSet(D) /\ Cardinality(D) = n /\ f \in Injection(D, S)
    BY <1>5, <1>6
  <2> HIDE DEF D
  <2>2. f \in Surjection(D, S)
    BY <2>1, FS_Injection
  <2> QED
    BY <2>2 DEF D
<1>8. f \in Seq(S) /\ Len(f) = n /\ DOMAIN f = 1..n
  <2> HIDE DEF n
  <2> QED
    BY <1>1, <1>4, LenProperties
<1>9. ToSet(f) = S
  BY <1>7, <1>8 DEF ToSet, Surjection
<1>10. f = <<>> <=> S = {}
  <2>1. f = <<>> <=> n = 0
    <3> HIDE DEF n
    <3> QED
      BY <1>1, <1>8, EmptySeq
  <2> QED
    BY <2>1, FS_EmptySet
<1> QED
  BY <1>8, <1>9, <1>10 DEF f

------------------------------------------------------------------------------
(* A diff tells the names of the next version.                             *)

Told(rows, change) == {row[3] : row \in {r \in rows : r[2] = change}}

Change == {"ADDED", "REMOVED", "KIND_CHANGED"}

\* Which of the keys before and after the rows for two maps tell.
Moved(change, before, after) ==
  IF change = "ADDED" THEN after \ before
  ELSE IF change = "REMOVED" THEN before \ after ELSE {}

LEMMA ToldOfBoth ==
  ASSUME NEW R, NEW S, NEW change
  PROVE  \A p : p \in Told(R \cup S, change)
                  <=> p \in Told(R, change) \/ p \in Told(S, change)
BY DEF Told

LEMMA ToldOfChanges ==
  ASSUME NEW what, NEW path, NEW before, NEW after, NEW change \in Change
  PROVE  \A p : p \in Told(Changes(what, path, before, after), change) <=>
           \E x \in Moved(change, DOMAIN before, DOMAIN after) : p = Append(path, x)
<1> DEFINE A == {<<what, "ADDED", Append(path, x)>> : x \in DOMAIN after \ DOMAIN before}
           R == {<<what, "REMOVED", Append(path, x)>> : x \in DOMAIN before \ DOMAIN after}
           T == {<<what, "TYPE_CHANGED", Append(path, x)>> :
                   x \in {y \in DOMAIN before \cap DOMAIN after : before[y] # after[y]}}
<1>1. Changes(what, path, before, after) = (A \cup R) \cup T
  BY DEF Changes
<1>2. \A p : p \in Told(A, change) <=>
        change = "ADDED" /\ \E x \in DOMAIN after \ DOMAIN before : p = Append(path, x)
  <2>1. \A r \in A : r[2] = "ADDED" /\ \E x \in DOMAIN after \ DOMAIN before : r[3] = Append(path, x)
    OBVIOUS
  <2>2. \A x \in DOMAIN after \ DOMAIN before : \E r \in A : r[2] = "ADDED" /\ r[3] = Append(path, x)
    <3> SUFFICES ASSUME NEW x \in DOMAIN after \ DOMAIN before
                 PROVE  \E r \in A : r[2] = "ADDED" /\ r[3] = Append(path, x)
      OBVIOUS
    <3> DEFINE r == <<what, "ADDED", Append(path, x)>>
    <3>1. r \in A /\ r[2] = "ADDED" /\ r[3] = Append(path, x)
      OBVIOUS
    <3> HIDE DEF r, A
    <3> QED
      BY <3>1
  <2> HIDE DEF A
  <2>3. \A p : p \in Told(A, change) <=> \E r \in A : r[2] = change /\ r[3] = p
    BY DEF Told
  <2> QED
    BY <2>1, <2>2, <2>3
<1>3. \A p : p \in Told(R, change) <=>
        change = "REMOVED" /\ \E x \in DOMAIN before \ DOMAIN after : p = Append(path, x)
  <2>1. \A r \in R : r[2] = "REMOVED" /\ \E x \in DOMAIN before \ DOMAIN after : r[3] = Append(path, x)
    OBVIOUS
  <2>2. \A x \in DOMAIN before \ DOMAIN after : \E r \in R : r[2] = "REMOVED" /\ r[3] = Append(path, x)
    <3> SUFFICES ASSUME NEW x \in DOMAIN before \ DOMAIN after
                 PROVE  \E r \in R : r[2] = "REMOVED" /\ r[3] = Append(path, x)
      OBVIOUS
    <3> DEFINE r == <<what, "REMOVED", Append(path, x)>>
    <3>1. r \in R /\ r[2] = "REMOVED" /\ r[3] = Append(path, x)
      OBVIOUS
    <3> HIDE DEF r, R
    <3> QED
      BY <3>1
  <2> HIDE DEF R
  <2>3. \A p : p \in Told(R, change) <=> \E r \in R : r[2] = change /\ r[3] = p
    BY DEF Told
  <2> QED
    BY <2>1, <2>2, <2>3
<1>4. \A p : p \notin Told(T, change)
  BY DEF Told, Change
<1> HIDE DEF A, R, T
<1>5. \A p : p \in Told(Changes(what, path, before, after), change) <=>
        p \in Told(A, change) \/ p \in Told(R, change)
  <2>1. \A p : p \in Told((A \cup R) \cup T, change) <=>
          p \in Told(A \cup R, change) \/ p \in Told(T, change)
    BY ToldOfBoth
  <2>2. \A p : p \in Told(A \cup R, change) <=>
          p \in Told(A, change) \/ p \in Told(R, change)
    BY ToldOfBoth
  <2> QED
    BY <1>1, <1>4, <2>1, <2>2
<1> QED
  BY <1>2, <1>3, <1>5 DEF Moved

LEMMA AppendToTwo ==
  ASSUME NEW x, NEW y, NEW z
  PROVE  Append(<<x, y>>, z) = <<x, y, z>>
<1> DEFINE a == Append(<<x, y>>, z)
           t == <<x, y, z>>
<1>1. t = [i \in 1..3 |-> t[i]] /\ t[1] = x /\ t[2] = y /\ t[3] = z
  OBVIOUS
<1>2. a = [i \in 1..3 |-> a[i]] /\ a[1] = x /\ a[2] = y /\ a[3] = z
  OBVIOUS
<1> HIDE DEF a, t
<1>3. \A i \in 1..3 : a[i] = t[i]
  BY <1>1, <1>2
<1>4. a = t
  BY <1>1, <1>2, <1>3
<1> QED
  BY <1>4 DEF a, t

LEMMA AppendToOne ==
  ASSUME NEW x, NEW y
  PROVE  Append(<<>>, x) = <<x>> /\ Append(<<x>>, y) = <<x, y>>
<1> DEFINE a == Append(<<x>>, y)
           t == <<x, y>>
<1>1. t = [i \in 1..2 |-> t[i]] /\ t[1] = x /\ t[2] = y
  OBVIOUS
<1>2. a = [i \in 1..2 |-> a[i]] /\ a[1] = x /\ a[2] = y
  OBVIOUS
<1> HIDE DEF a, t
<1>3. \A i \in 1..2 : a[i] = t[i]
  BY <1>1, <1>2
<1>4. a = t
  BY <1>1, <1>2, <1>3
<1>5. Append(<<>>, x) = <<x>>
  OBVIOUS
<1> QED
  BY <1>4, <1>5 DEF a, t

\* What the fields of two types tell.
LEMMA ToldOfFields ==
  ASSUME NEW n, NEW before, NEW after, NEW change \in Change
  PROVE  \A p : p \in Told(CompareFields(n, before, after), change) <=>
           \/ \E x \in Moved(change, DOMAIN before.fields, DOMAIN after.fields) : p = <<n, x>>
           \/ \E f \in DOMAIN before.fields \cap DOMAIN after.fields :
                \E y \in Moved(change, DOMAIN ArgsOf(before, f), DOMAIN ArgsOf(after, f)) :
                  p = <<n, f, y>>
<1> DEFINE both == DOMAIN before.fields \cap DOMAIN after.fields
           F == Changes("FIELD", <<n>>, before.fields, after.fields)
           A(f) == CompareFieldArguments(n, f, before, after)
           told == Told(CompareFields(n, before, after), change)
<1>1. CompareFields(n, before, after) = F \cup UNION {A(f) : f \in both}
  BY DEF CompareFields
<1>2. \A p : p \in Told(F, change) <=>
        \E x \in Moved(change, DOMAIN before.fields, DOMAIN after.fields) : p = <<n, x>>
  <2>1. \A p : p \in Told(F, change) <=>
          \E x \in Moved(change, DOMAIN before.fields, DOMAIN after.fields) :
            p = Append(<<n>>, x)
    <3> DEFINE path == <<n>>
    <3> HIDE DEF path
    <3>1. \A p : p \in Told(Changes("FIELD", path, before.fields, after.fields), change) <=>
            \E x \in Moved(change, DOMAIN before.fields, DOMAIN after.fields) :
              p = Append(path, x)
      BY ToldOfChanges
    <3> QED
      BY <3>1 DEF path
  <2> HIDE DEF F
  <2> QED
    BY <2>1, AppendToOne
<1>3. ASSUME NEW f
      PROVE  \A p : p \in Told(A(f), change) <=>
        \E y \in Moved(change, DOMAIN ArgsOf(before, f), DOMAIN ArgsOf(after, f)) :
          p = <<n, f, y>>
  <2>1. \A p : p \in Told(A(f), change) <=>
          \E y \in Moved(change, DOMAIN ArgsOf(before, f), DOMAIN ArgsOf(after, f)) :
            p = Append(<<n, f>>, y)
    <3> DEFINE path == <<n, f>>
               b == ArgsOf(before, f)
               a == ArgsOf(after, f)
    <3> HIDE DEF path, b, a
    <3>1. \A p : p \in Told(Changes("ARG", path, b, a), change) <=>
            \E y \in Moved(change, DOMAIN b, DOMAIN a) : p = Append(path, y)
      BY ToldOfChanges
    <3> QED
      BY <3>1 DEF CompareFieldArguments, path, b, a
  <2> HIDE DEF A
  <2> QED
    BY <2>1, AppendToTwo
<1> HIDE DEF F, A
<1>4. \A p : p \in Told(UNION {A(f) : f \in both}, change) <=>
        \E f \in both : p \in Told(A(f), change)
  BY DEF Told
<1>5. \A p : p \in told <=> p \in Told(F, change) \/ \E f \in both : p \in Told(A(f), change)
  <2> DEFINE U == UNION {A(f) : f \in both}
  <2> HIDE DEF U
  <2>1. \A p : p \in Told(F \cup U, change) <=> p \in Told(F, change) \/ p \in Told(U, change)
    BY ToldOfBoth
  <2> QED
    BY <1>1, <1>4, <2>1 DEF U
<1> HIDE DEF told
<1>6. \A p : p \in told <=>
           \/ \E x \in Moved(change, DOMAIN before.fields, DOMAIN after.fields) : p = <<n, x>>
           \/ \E f \in both :
                \E y \in Moved(change, DOMAIN ArgsOf(before, f), DOMAIN ArgsOf(after, f)) :
                  p = <<n, f, y>>
  BY <1>2, <1>3, <1>5
<1> QED
  BY <1>6 DEF told

LEMMA ToldOfMembers ==
  ASSUME NEW n, NEW before, NEW after, NEW kind, NEW change \in Change
  PROVE  \A p : p \in Told(CompareMembers(n, before, after, kind), change) <=>
           \E x \in Moved(change, Members(before, kind), Members(after, kind)) : p = <<n, x>>
<1> DEFINE b == [x \in Members(before, kind) |-> kind]
           a == [x \in Members(after, kind) |-> kind]
           path == <<n>>
<1>1. DOMAIN b = Members(before, kind) /\ DOMAIN a = Members(after, kind)
  OBVIOUS
<1>2. CompareMembers(n, before, after, kind) = Changes("MEMBER", path, b, a)
  BY DEF CompareMembers
<1>3. \A x : Append(path, x) = <<n, x>>
  BY AppendToOne
<1> HIDE DEF b, a, path
<1>4. \A p : p \in Told(Changes("MEMBER", path, b, a), change) <=>
        \E x \in Moved(change, DOMAIN b, DOMAIN a) : p = Append(path, x)
  BY ToldOfChanges
<1> QED
  BY <1>1, <1>2, <1>3, <1>4

\* What the versions of one type tell.
LEMMA ToldOfType ==
  ASSUME NEW n, NEW before, NEW after, NEW change \in Change
  PROVE  \A p : p \in Told(CompareTypes(n, before, after), change) <=>
           \/ change = "KIND_CHANGED" /\ before.kind # after.kind /\ p = <<n>>
           \/ /\ after.kind \in WithFields
              /\ p \in Told(CompareFields(n, before, after), change)
           \/ /\ after.kind \in WithMembers
              /\ p \in Told(CompareMembers(n, before, after, after.kind), change)
<1> DEFINE K == IF before.kind # after.kind THEN {<<"TYPE", "KIND_CHANGED", <<n>>>>} ELSE {}
           F == CompareFields(n, before, after)
           M == CompareMembers(n, before, after, after.kind)
           L == IF after.kind \in WithFields THEN F ELSE {}
           N == IF after.kind \in WithMembers THEN M ELSE {}
<1>1. CompareTypes(n, before, after) = (K \cup L) \cup N
  BY DEF CompareTypes
<1>2. \A p : p \in Told(K, change) <=>
        change = "KIND_CHANGED" /\ before.kind # after.kind /\ p = <<n>>
  <2>1. CASE before.kind = after.kind
    BY <2>1 DEF Told
  <2>2. CASE before.kind # after.kind
    <3> DEFINE r == <<"TYPE", "KIND_CHANGED", <<n>>>>
    <3>1. K = {r} /\ r[2] = "KIND_CHANGED" /\ r[3] = <<n>>
      BY <2>2
    <3> HIDE DEF r, K
    <3>2. \A p : p \in Told({r}, change) <=> r[2] = change /\ p = r[3]
      BY DEF Told
    <3> QED
      BY <2>2, <3>1, <3>2
  <2> QED
    BY <2>1, <2>2
<1> HIDE DEF F, M
<1>3. \A p : p \in Told(L, change) <=> after.kind \in WithFields /\ p \in Told(F, change)
  BY DEF Told
<1>4. \A p : p \in Told(N, change) <=> after.kind \in WithMembers /\ p \in Told(M, change)
  BY DEF Told
<1> HIDE DEF K, L, N
<1>5. \A p : p \in Told((K \cup L) \cup N, change) <=>
               p \in Told(K \cup L, change) \/ p \in Told(N, change)
  BY ToldOfBoth
<1>6. \A p : p \in Told(K \cup L, change) <=> p \in Told(K, change) \/ p \in Told(L, change)
  BY ToldOfBoth
<1> QED
  BY <1>1, <1>2, <1>3, <1>4, <1>5, <1>6 DEF F, M

\* What two versions of all types tell.
LEMMA ToldOfTypes ==
  ASSUME NEW before, NEW after, NEW change \in Change
  PROVE  \A p : p \in Told(DiffSchemaTypeDefs(before, after), change) <=>
           \/ \E n \in Moved(change, DOMAIN before, DOMAIN after) : p = <<n>>
           \/ \E n \in DOMAIN before \cap DOMAIN after :
                p \in Told(CompareTypes(n, before[n], after[n]), change)
<1> DEFINE both == DOMAIN before \cap DOMAIN after
           b == [n \in DOMAIN before |-> "type"]
           a == [n \in DOMAIN after |-> "type"]
           path == <<>>
           T == Changes("TYPE", path, b, a)
           C(n) == CompareTypes(n, before[n], after[n])
           U == UNION {C(n) : n \in both}
<1>1. DiffSchemaTypeDefs(before, after) = T \cup U
  BY DEF DiffSchemaTypeDefs
<1>2. DOMAIN b = DOMAIN before /\ DOMAIN a = DOMAIN after
  OBVIOUS
<1>3. \A x : Append(path, x) = <<x>>
  BY AppendToOne
<1> HIDE DEF b, a, path, C
<1>4. \A p : p \in Told(T, change) <=>
        \E n \in Moved(change, DOMAIN b, DOMAIN a) : p = Append(path, n)
  BY ToldOfChanges
<1>5. \A p : p \in Told(U, change) <=> \E n \in both : p \in Told(C(n), change)
  BY DEF Told
<1> HIDE DEF T, U
<1>6. \A p : p \in Told(T \cup U, change) <=> p \in Told(T, change) \/ p \in Told(U, change)
  BY ToldOfBoth
<1> QED
  BY <1>1, <1>2, <1>3, <1>4, <1>5, <1>6 DEF C

\* A path names a type, a field or member of it, or an argument.
IsPath(p) == \E n : p = <<n>> \/ \E x : p = <<n, x>> \/ \E y : p = <<n, x, y>>

\* The fields and members of a type of some kind that are told, and the
\* arguments of its fields.
ToldUnder(change, before, after, x) ==
  \/ after.kind \in WithFields /\ x \in Moved(change, DOMAIN before.fields, DOMAIN after.fields)
  \/ /\ after.kind \in WithMembers
     /\ x \in Moved(change, Members(before, after.kind), Members(after, after.kind))

ToldArgs(change, before, after, f, y) ==
  /\ after.kind \in WithFields
  /\ f \in DOMAIN before.fields \cap DOMAIN after.fields
  /\ y \in Moved(change, DOMAIN ArgsOf(before, f), DOMAIN ArgsOf(after, f))

\* What is told, by the length of the path.
LEMMA ToldByPath ==
  ASSUME NEW before, NEW after, NEW change \in Change
  PROVE  LET told == Told(DiffSchemaTypeDefs(before, after), change)
             both == DOMAIN before \cap DOMAIN after
         IN  /\ \A p \in told : IsPath(p)
             /\ \A n : <<n>> \in told <=>
                  \/ n \in Moved(change, DOMAIN before, DOMAIN after)
                  \/ change = "KIND_CHANGED" /\ n \in both /\ before[n].kind # after[n].kind
             /\ \A n, x : <<n, x>> \in told <=>
                  n \in both /\ ToldUnder(change, before[n], after[n], x)
             /\ \A n, f, y : <<n, f, y>> \in told <=>
                  n \in both /\ ToldArgs(change, before[n], after[n], f, y)
<1> DEFINE told == Told(DiffSchemaTypeDefs(before, after), change)
           both == DOMAIN before \cap DOMAIN after
           toldOf(n) == Told(CompareTypes(n, before[n], after[n]), change)
<1>1. \A p : p \in told <=>
           \/ \E n \in Moved(change, DOMAIN before, DOMAIN after) : p = <<n>>
           \/ \E n \in both : p \in toldOf(n)
  BY ToldOfTypes
<1>2. ASSUME NEW n
      PROVE  \A p : p \in toldOf(n) <=>
               \/ change = "KIND_CHANGED" /\ before[n].kind # after[n].kind /\ p = <<n>>
               \/ \E x : ToldUnder(change, before[n], after[n], x) /\ p = <<n, x>>
               \/ \E f, y : ToldArgs(change, before[n], after[n], f, y) /\ p = <<n, f, y>>
  <2> DEFINE b == before[n]
             a == after[n]
  <2>0. toldOf(n) = Told(CompareTypes(n, b, a), change)
    OBVIOUS
  <2> HIDE DEF b, a, toldOf
  <2>1. \A p : p \in toldOf(n) <=>
           \/ change = "KIND_CHANGED" /\ b.kind # a.kind /\ p = <<n>>
           \/ a.kind \in WithFields /\ p \in Told(CompareFields(n, b, a), change)
           \/ a.kind \in WithMembers /\ p \in Told(CompareMembers(n, b, a, a.kind), change)
    BY <2>0, ToldOfType
  <2>2. \A p : p \in Told(CompareFields(n, b, a), change) <=>
           \/ \E x \in Moved(change, DOMAIN b.fields, DOMAIN a.fields) : p = <<n, x>>
           \/ \E f \in DOMAIN b.fields \cap DOMAIN a.fields :
                \E y \in Moved(change, DOMAIN ArgsOf(b, f), DOMAIN ArgsOf(a, f)) :
                  p = <<n, f, y>>
    BY ToldOfFields
  <2>3. \A p : p \in Told(CompareMembers(n, b, a, a.kind), change) <=>
           \E x \in Moved(change, Members(b, a.kind), Members(a, a.kind)) : p = <<n, x>>
    BY ToldOfMembers
  <2>4. \A p : p \in toldOf(n) <=>
               \/ change = "KIND_CHANGED" /\ b.kind # a.kind /\ p = <<n>>
               \/ \E x : ToldUnder(change, b, a, x) /\ p = <<n, x>>
               \/ \E f, y : ToldArgs(change, b, a, f, y) /\ p = <<n, f, y>>
    BY <2>1, <2>2, <2>3 DEF ToldUnder, ToldArgs
  <2> QED
    BY <2>4 DEF b, a
<1> HIDE DEF told, toldOf
<1>3. /\ \A n, m : <<n>> = <<m>> => n = m
      /\ \A n, m, x : <<n>> # <<m, x>>
      /\ \A n, m, f, y : <<n>> # <<m, f, y>>
      /\ \A n, m, x, z : <<n, x>> = <<m, z>> => n = m /\ x = z
      /\ \A n, x, m, f, y : <<n, x>> # <<m, f, y>>
      /\ \A n, x, z, m, f, y : <<n, x, z>> = <<m, f, y>> => n = m /\ x = f /\ z = y
  OBVIOUS
<1>4. \A p \in told : IsPath(p)
  BY <1>1, <1>2 DEF IsPath
<1>5. \A n : <<n>> \in told <=>
        \/ n \in Moved(change, DOMAIN before, DOMAIN after)
        \/ change = "KIND_CHANGED" /\ n \in both /\ before[n].kind # after[n].kind
  BY <1>1, <1>2, <1>3
<1>6. \A n, x : <<n, x>> \in told <=>
        n \in both /\ ToldUnder(change, before[n], after[n], x)
  BY <1>1, <1>2, <1>3
<1>7. \A n, f, y : <<n, f, y>> \in told <=>
        n \in both /\ ToldArgs(change, before[n], after[n], f, y)
  BY <1>1, <1>2, <1>3
<1> QED
  BY <1>4, <1>5, <1>6, <1>7 DEF told

\* The names of types, by the length of the path.
LEMMA PathsByPath ==
  ASSUME NEW types
  PROVE  /\ \A p \in Paths(types) : IsPath(p)
         /\ \A n : <<n>> \in Paths(types) <=> n \in DOMAIN types
         /\ \A n, x : <<n, x>> \in Paths(types) <=>
              n \in DOMAIN types /\ (x \in DOMAIN types[n].fields \/ x \in types[n].members)
         /\ \A n, f, y : <<n, f, y>> \in Paths(types) <=>
              n \in DOMAIN types /\ f \in DOMAIN types[n].args /\ y \in DOMAIN types[n].args[f]
<1> DEFINE P == Paths(types)
<1>1. \A p : p \in P <=>
        \E n \in DOMAIN types :
          \/ p = <<n>>
          \/ \E x \in DOMAIN types[n].fields : p = <<n, x>>
          \/ \E x \in types[n].members : p = <<n, x>>
          \/ \E f \in DOMAIN types[n].args : \E y \in DOMAIN types[n].args[f] : p = <<n, f, y>>
  BY DEF Paths
<1> HIDE DEF P
<1>3. /\ \A n, m : <<n>> = <<m>> => n = m
      /\ \A n, m, x : <<n>> # <<m, x>>
      /\ \A n, m, f, y : <<n>> # <<m, f, y>>
      /\ \A n, m, x, z : <<n, x>> = <<m, z>> => n = m /\ x = z
      /\ \A n, x, m, f, y : <<n, x>> # <<m, f, y>>
      /\ \A n, x, z, m, f, y : <<n, x, z>> = <<m, f, y>> => n = m /\ x = f /\ z = y
  OBVIOUS
<1>4. \A p \in P : IsPath(p)
  BY <1>1 DEF IsPath
<1>5. \A n : <<n>> \in P <=> n \in DOMAIN types
  BY <1>1, <1>3
<1>6. \A n, x : <<n, x>> \in P <=>
        n \in DOMAIN types /\ (x \in DOMAIN types[n].fields \/ x \in types[n].members)
  BY <1>1, <1>3
<1>7. \A n, f, y : <<n, f, y>> \in P <=>
        n \in DOMAIN types /\ f \in DOMAIN types[n].args /\ y \in DOMAIN types[n].args[f]
  BY <1>1, <1>3
<1> QED
  BY <1>4, <1>5, <1>6, <1>7 DEF P

\* Which paths are above a path.
LEMMA PrefixByPath ==
  ASSUME NEW m, NEW n, NEW x, NEW y, NEW z, NEW w
  PROVE  /\ IsPrefix(<<m>>, <<n>>) <=> m = n
         /\ IsPrefix(<<m>>, <<n, x>>) <=> m = n
         /\ IsPrefix(<<m>>, <<n, x, y>>) <=> m = n
         /\ ~IsPrefix(<<m, z>>, <<n>>)
         /\ IsPrefix(<<m, z>>, <<n, x>>) <=> m = n /\ z = x
         /\ IsPrefix(<<m, z>>, <<n, x, y>>) <=> m = n /\ z = x
         /\ ~IsPrefix(<<m, z, w>>, <<n>>)
         /\ ~IsPrefix(<<m, z, w>>, <<n, x>>)
         /\ IsPrefix(<<m, z, w>>, <<n, x, y>>) <=> m = n /\ z = x /\ w = y
BY DEF IsPrefix

Under(tops, p) == \E t \in tops : IsPrefix(t, p)

LEMMA UnderByPath ==
  ASSUME NEW tops, \A t \in tops : IsPath(t)
  PROVE  /\ \A n : Under(tops, <<n>>) <=> <<n>> \in tops
         /\ \A n, x : Under(tops, <<n, x>>) <=> <<n>> \in tops \/ <<n, x>> \in tops
         /\ \A n, x, y : Under(tops, <<n, x, y>>)
              <=> <<n>> \in tops \/ <<n, x>> \in tops \/ <<n, x, y>> \in tops
<1>1. \A t \in tops : \E m : t = <<m>> \/ \E z : t = <<m, z>> \/ \E w : t = <<m, z, w>>
  BY DEF IsPath
<1>2. ASSUME NEW n
      PROVE  Under(tops, <<n>>) <=> <<n>> \in tops
  <2>1. \A t \in tops : IsPrefix(t, <<n>>) => t = <<n>>
    <3> SUFFICES ASSUME NEW t \in tops, IsPrefix(t, <<n>>)
                 PROVE  t = <<n>>
      OBVIOUS
    <3> PICK m : t = <<m>> \/ \E z : t = <<m, z>> \/ \E w : t = <<m, z, w>>
      BY <1>1
    <3>1. CASE t = <<m>>
      BY <3>1 DEF IsPrefix
    <3>2. ASSUME NEW z, t = <<m, z>>
          PROVE  t = <<n>>
      BY <3>2 DEF IsPrefix
    <3>3. ASSUME NEW z, NEW w, t = <<m, z, w>>
          PROVE  t = <<n>>
      BY <3>3 DEF IsPrefix
    <3> QED
      BY <3>1, <3>2, <3>3
  <2>2. IsPrefix(<<n>>, <<n>>)
    BY PrefixByPath
  <2> DEFINE p == <<n>>
  <2> HIDE DEF p
  <2>3. (\A t \in tops : IsPrefix(t, p) => t = p) /\ IsPrefix(p, p)
    BY <2>1, <2>2 DEF p
  <2>4. Under(tops, p) <=> p \in tops
    BY <2>3 DEF Under
  <2> QED
    BY <2>4 DEF p
<1>3. ASSUME NEW n, NEW x
      PROVE  Under(tops, <<n, x>>) <=> <<n>> \in tops \/ <<n, x>> \in tops
  <2>1. \A t \in tops : IsPrefix(t, <<n, x>>) => t = <<n>> \/ t = <<n, x>>
    <3> SUFFICES ASSUME NEW t \in tops, IsPrefix(t, <<n, x>>)
                 PROVE  t = <<n>> \/ t = <<n, x>>
      OBVIOUS
    <3> PICK m : t = <<m>> \/ \E z : t = <<m, z>> \/ \E w : t = <<m, z, w>>
      BY <1>1
    <3>1. CASE t = <<m>>
      BY <3>1 DEF IsPrefix
    <3>2. ASSUME NEW z, t = <<m, z>>
          PROVE  t = <<n>> \/ t = <<n, x>>
      BY <3>2 DEF IsPrefix
    <3>3. ASSUME NEW z, NEW w, t = <<m, z, w>>
          PROVE  t = <<n>> \/ t = <<n, x>>
      BY <3>3 DEF IsPrefix
    <3> QED
      BY <3>1, <3>2, <3>3
  <2>2. IsPrefix(<<n>>, <<n, x>>) /\ IsPrefix(<<n, x>>, <<n, x>>)
    BY PrefixByPath
  <2> DEFINE p == <<n, x>>
             q == <<n>>
  <2> HIDE DEF p, q
  <2>3. /\ \A t \in tops : IsPrefix(t, p) => t = q \/ t = p
        /\ IsPrefix(p, p) /\ IsPrefix(q, p)
    BY <2>1, <2>2 DEF p, q
  <2>4. Under(tops, p) <=> q \in tops \/ p \in tops
    BY <2>3 DEF Under
  <2> QED
    BY <2>4 DEF p, q
<1>4. ASSUME NEW n, NEW x, NEW y
      PROVE  Under(tops, <<n, x, y>>)
               <=> <<n>> \in tops \/ <<n, x>> \in tops \/ <<n, x, y>> \in tops
  <2>1. \A t \in tops : IsPrefix(t, <<n, x, y>>) =>
                           t = <<n>> \/ t = <<n, x>> \/ t = <<n, x, y>>
    <3> SUFFICES ASSUME NEW t \in tops, IsPrefix(t, <<n, x, y>>)
                 PROVE  t = <<n>> \/ t = <<n, x>> \/ t = <<n, x, y>>
      OBVIOUS
    <3> PICK m : t = <<m>> \/ \E z : t = <<m, z>> \/ \E w : t = <<m, z, w>>
      BY <1>1
    <3>1. CASE t = <<m>>
      BY <3>1 DEF IsPrefix
    <3>2. ASSUME NEW z, t = <<m, z>>
          PROVE  t = <<n>> \/ t = <<n, x>> \/ t = <<n, x, y>>
      BY <3>2 DEF IsPrefix
    <3>3. ASSUME NEW z, NEW w, t = <<m, z, w>>
          PROVE  t = <<n>> \/ t = <<n, x>> \/ t = <<n, x, y>>
      BY <3>3 DEF IsPrefix
    <3> QED
      BY <3>1, <3>2, <3>3
  <2>2. /\ IsPrefix(<<n>>, <<n, x, y>>) /\ IsPrefix(<<n, x>>, <<n, x, y>>)
        /\ IsPrefix(<<n, x, y>>, <<n, x, y>>)
    BY PrefixByPath
  <2> DEFINE p == <<n, x, y>>
             q == <<n, x>>
             r == <<n>>
  <2> HIDE DEF p, q, r
  <2>3. /\ \A t \in tops : IsPrefix(t, p) => t = r \/ t = q \/ t = p
        /\ IsPrefix(p, p) /\ IsPrefix(q, p) /\ IsPrefix(r, p)
    BY <2>1, <2>2 DEF p, q, r
  <2>4. Under(tops, p) <=> r \in tops \/ q \in tops \/ p \in tops
    BY <2>3 DEF Under
  <2> QED
    BY <2>4 DEF p, q, r
<1> QED
  BY <1>2, <1>3, <1>4

\* The names of a type.
IsUnder(e, x) == x \in DOMAIN e.fields \/ x \in e.members
HasArg(e, f, y) == f \in DOMAIN e.args /\ y \in DOMAIN e.args[f]

\* All that is new or gone in a type is told, and nothing that is not new is told
\* as new.
LEMMA ToldUnderTypes ==
  ASSUME NEW before, NEW after, IsType(before), IsType(after), NEW x
  PROVE  /\ ToldUnder("ADDED", before, after, x) => IsUnder(after, x)
         /\ before.kind = after.kind =>
              /\ ToldUnder("ADDED", before, after, x)
                   <=> IsUnder(after, x) /\ ~IsUnder(before, x)
              /\ ToldUnder("REMOVED", before, after, x)
                   <=> IsUnder(before, x) /\ ~IsUnder(after, x)
<1>1. WithFields \cap WithMembers = {}
  BY DEF WithFields, WithMembers
<1>2. /\ Members(after, after.kind) = after.members
      /\ Members(before, before.kind) = before.members
  BY MembersOfKind
<1>3. /\ DOMAIN before.fields # {} => before.kind \in WithFields
      /\ DOMAIN after.fields # {} => after.kind \in WithFields
      /\ before.members # {} => before.kind \in WithMembers
      /\ after.members # {} => after.kind \in WithMembers
  BY DEF IsType, IsEntry
<1>4. /\ \A S, T : Moved("ADDED", S, T) = T \ S
      /\ \A S, T : Moved("REMOVED", S, T) = S \ T
  BY DEF Moved
<1>5. /\ ToldUnder("ADDED", before, after, x) <=>
           \/ after.kind \in WithFields /\ x \in DOMAIN after.fields \ DOMAIN before.fields
           \/ /\ after.kind \in WithMembers
              /\ x \in Members(after, after.kind) \ Members(before, after.kind)
      /\ ToldUnder("REMOVED", before, after, x) <=>
           \/ after.kind \in WithFields /\ x \in DOMAIN before.fields \ DOMAIN after.fields
           \/ /\ after.kind \in WithMembers
              /\ x \in Members(before, after.kind) \ Members(after, after.kind)
  BY <1>4 DEF ToldUnder
<1> QED
  BY <1>1, <1>2, <1>3, <1>5 DEF IsUnder

LEMMA ToldArgsOfTypes ==
  ASSUME NEW before, NEW after, IsType(before), IsType(after), NEW f, NEW y
  PROVE  /\ HasArg(before, f, y) => f \in DOMAIN before.fields
         /\ HasArg(after, f, y) => f \in DOMAIN after.fields
         /\ ToldArgs("ADDED", before, after, f, y)
              <=> /\ f \in DOMAIN before.fields \cap DOMAIN after.fields
                  /\ HasArg(after, f, y) /\ ~HasArg(before, f, y)
         /\ ToldArgs("REMOVED", before, after, f, y)
              <=> /\ f \in DOMAIN before.fields \cap DOMAIN after.fields
                  /\ HasArg(before, f, y) /\ ~HasArg(after, f, y)
<1>1. DOMAIN NoMap = {}
  BY DEF NoMap
<1>2. /\ y \in DOMAIN ArgsOf(before, f) <=> HasArg(before, f, y)
      /\ y \in DOMAIN ArgsOf(after, f) <=> HasArg(after, f, y)
  BY <1>1 DEF ArgsOf, HasArg
<1>3. DOMAIN after.fields # {} => after.kind \in WithFields
  BY DEF IsType, IsEntry
<1>4. /\ HasArg(before, f, y) => f \in DOMAIN before.fields
      /\ HasArg(after, f, y) => f \in DOMAIN after.fields
  BY DEF IsType, IsEntry, HasArg
<1>5. /\ \A S, T : Moved("ADDED", S, T) = T \ S
      /\ \A S, T : Moved("REMOVED", S, T) = S \ T
  BY DEF Moved
<1>6. /\ ToldArgs("ADDED", before, after, f, y) <=>
           /\ after.kind \in WithFields
           /\ f \in DOMAIN before.fields \cap DOMAIN after.fields
           /\ y \in DOMAIN ArgsOf(after, f) \ DOMAIN ArgsOf(before, f)
      /\ ToldArgs("REMOVED", before, after, f, y) <=>
           /\ after.kind \in WithFields
           /\ f \in DOMAIN before.fields \cap DOMAIN after.fields
           /\ y \in DOMAIN ArgsOf(before, f) \ DOMAIN ArgsOf(after, f)
  BY <1>5 DEF ToldArgs
<1> QED
  BY <1>2, <1>3, <1>4, <1>6

\* What is told as new belongs to the later kind, and of two entries of one kind what
\* is told is what is told of them as types.
LEMMA ToldOfEntries ==
  ASSUME NEW before, NEW after, IsEntry(before), IsEntry(after)
  PROVE  /\ \A x : ToldUnder("ADDED", before, after, x) => IsUnder(OfKind(after), x)
         /\ \A f, y : ToldArgs("ADDED", before, after, f, y) => HasArg(OfKind(after), f, y)
         /\ before.kind = after.kind =>
              \A change, f, y :
                /\ ToldUnder(change, before, after, f)
                     <=> ToldUnder(change, OfKind(before), OfKind(after), f)
                /\ ToldArgs(change, before, after, f, y)
                     <=> ToldArgs(change, OfKind(before), OfKind(after), f, y)
<1> DEFINE b == OfKind(before)
           a == OfKind(after)
<1>1. /\ b.kind = before.kind /\ a.kind = after.kind
      /\ b.members = Members(before, before.kind) /\ a.members = Members(after, after.kind)
      /\ before.kind \in WithFields => b.fields = before.fields /\ b.args = before.args
      /\ after.kind \in WithFields => a.fields = after.fields /\ a.args = after.args
  BY ToldIsType
<1> HIDE DEF b, a
<1>2. \A S, T : Moved("ADDED", S, T) = T \ S
  BY DEF Moved
<1>3. \A x : ToldUnder("ADDED", before, after, x) => IsUnder(a, x)
  BY <1>1, <1>2 DEF ToldUnder, IsUnder
<1>4. ASSUME NEW f, NEW y, ToldArgs("ADDED", before, after, f, y)
      PROVE  HasArg(a, f, y)
  <2>1. after.kind \in WithFields /\ y \in DOMAIN ArgsOf(after, f)
    BY <1>2, <1>4 DEF ToldArgs
  <2>2. DOMAIN NoMap = {}
    BY DEF NoMap
  <2> QED
    BY <1>1, <2>1, <2>2 DEF ArgsOf, HasArg
<1>5. ASSUME before.kind = after.kind, NEW change, NEW f, NEW y
      PROVE  /\ ToldUnder(change, before, after, f) <=> ToldUnder(change, b, a, f)
             /\ ToldArgs(change, before, after, f, y) <=> ToldArgs(change, b, a, f, y)
  <2>1. /\ Members(b, after.kind) = Members(before, after.kind)
        /\ Members(a, after.kind) = Members(after, after.kind)
    BY <1>1, <1>5 DEF Members
  <2>2. after.kind \in WithFields =>
          /\ b.fields = before.fields /\ a.fields = after.fields
          /\ ArgsOf(b, f) = ArgsOf(before, f) /\ ArgsOf(a, f) = ArgsOf(after, f)
    BY <1>1, <1>5 DEF ArgsOf
  <2> QED
    BY <1>1, <2>1, <2>2 DEF ToldUnder, ToldArgs
<1> QED
  BY <1>3, <1>4, <1>5 DEF b, a

\* What a reader makes of the rows of a diff is the names of the next version.
LEMMA DiffReplays ==
  ASSUME NEW before, NEW after, AreEntries(before), AreEntries(after)
  PROVE  Replay(Paths(AsTold(before)), DiffSchemaTypeDefs(before, after), AsTold(after))
           = Paths(AsTold(after))
<1> DEFINE rows == DiffSchemaTypeDefs(before, after)
           B == Paths(AsTold(before))
           A == Paths(AsTold(after))
           added == Told(rows, "ADDED")
           removed == Told(rows, "REMOVED")
           kinds == Told(rows, "KIND_CHANGED")
           gone == removed \cup kinds
           new == added \cup kinds
           R == Replay(B, rows, AsTold(after))
           both == DOMAIN before \cap DOMAIN after
<1>1. R = {p \in B : ~Under(gone, p)} \cup added \cup {p \in A : Under(new, p)}
  BY DEF Replay, Told, Under
<1>2. /\ \A p \in added : IsPath(p)
      /\ \A n : <<n>> \in added <=> n \in DOMAIN after \ DOMAIN before
      /\ \A n, x : <<n, x>> \in added <=>
           n \in both /\ ToldUnder("ADDED", before[n], after[n], x)
      /\ \A n, f, y : <<n, f, y>> \in added <=>
           n \in both /\ ToldArgs("ADDED", before[n], after[n], f, y)
  <2> DEFINE change == "ADDED"
  <2>1. change \in Change /\ change # "KIND_CHANGED"
    BY DEF Change
  <2>2. Moved(change, DOMAIN before, DOMAIN after) = DOMAIN after \ DOMAIN before
    BY DEF Moved
  <2> HIDE DEF change
  <2>3. LET told == Told(rows, change)
        IN  /\ \A p \in told : IsPath(p)
            /\ \A n : <<n>> \in told <=> n \in DOMAIN after \ DOMAIN before
            /\ \A n, x : <<n, x>> \in told <=>
                 n \in both /\ ToldUnder(change, before[n], after[n], x)
            /\ \A n, f, y : <<n, f, y>> \in told <=>
                 n \in both /\ ToldArgs(change, before[n], after[n], f, y)
    BY <2>1, <2>2, ToldByPath
  <2> QED
    BY <2>3 DEF change
<1>3. /\ \A p \in removed : IsPath(p)
      /\ \A n : <<n>> \in removed <=> n \in DOMAIN before \ DOMAIN after
      /\ \A n, x : <<n, x>> \in removed <=>
           n \in both /\ ToldUnder("REMOVED", before[n], after[n], x)
      /\ \A n, f, y : <<n, f, y>> \in removed <=>
           n \in both /\ ToldArgs("REMOVED", before[n], after[n], f, y)
  <2> DEFINE change == "REMOVED"
  <2>1. change \in Change /\ change # "KIND_CHANGED"
    BY DEF Change
  <2>2. Moved(change, DOMAIN before, DOMAIN after) = DOMAIN before \ DOMAIN after
    BY DEF Moved
  <2> HIDE DEF change
  <2>3. LET told == Told(rows, change)
        IN  /\ \A p \in told : IsPath(p)
            /\ \A n : <<n>> \in told <=> n \in DOMAIN before \ DOMAIN after
            /\ \A n, x : <<n, x>> \in told <=>
                 n \in both /\ ToldUnder(change, before[n], after[n], x)
            /\ \A n, f, y : <<n, f, y>> \in told <=>
                 n \in both /\ ToldArgs(change, before[n], after[n], f, y)
    BY <2>1, <2>2, ToldByPath
  <2> QED
    BY <2>3 DEF change
<1>4. /\ \A p \in kinds : IsPath(p)
      /\ \A n : <<n>> \in kinds <=> n \in both /\ before[n].kind # after[n].kind
      /\ \A n, x : <<n, x>> \notin kinds
      /\ \A n, f, y : <<n, f, y>> \notin kinds
  <2> DEFINE change == "KIND_CHANGED"
  <2>1. change \in Change
    BY DEF Change
  <2>2. \A S, T : Moved(change, S, T) = {}
    BY DEF Moved
  <2>3. change = "KIND_CHANGED"
    OBVIOUS
  <2> HIDE DEF change
  <2>4. LET told == Told(rows, change)
        IN  /\ \A p \in told : IsPath(p)
            /\ \A n : <<n>> \in told <=> n \in both /\ before[n].kind # after[n].kind
            /\ \A n, x : <<n, x>> \in told <=>
                 n \in both /\ ToldUnder(change, before[n], after[n], x)
            /\ \A n, f, y : <<n, f, y>> \in told <=>
                 n \in both /\ ToldArgs(change, before[n], after[n], f, y)
    BY <2>1, <2>2, <2>3, ToldByPath
  <2>5. /\ \A n, x : ~ToldUnder(change, before[n], after[n], x)
        /\ \A n, f, y : ~ToldArgs(change, before[n], after[n], f, y)
    BY <2>2 DEF ToldUnder, ToldArgs
  <2> QED
    BY <2>4, <2>5 DEF change
<1> HIDE DEF rows, B, A, added, removed, kinds, R
<1>5. /\ \A p \in B : IsPath(p)
      /\ \A n : <<n>> \in B <=> n \in DOMAIN before
      /\ \A n, x : <<n, x>> \in B <=> n \in DOMAIN before /\ IsUnder(OfKind(before[n]), x)
      /\ \A n, f, y : <<n, f, y>> \in B <=>
           n \in DOMAIN before /\ HasArg(OfKind(before[n]), f, y)
  BY PathsByPath DEF B, AsTold, IsUnder, HasArg
<1>6. /\ \A p \in A : IsPath(p)
      /\ \A n : <<n>> \in A <=> n \in DOMAIN after
      /\ \A n, x : <<n, x>> \in A <=> n \in DOMAIN after /\ IsUnder(OfKind(after[n]), x)
      /\ \A n, f, y : <<n, f, y>> \in A <=>
           n \in DOMAIN after /\ HasArg(OfKind(after[n]), f, y)
  BY PathsByPath DEF A, AsTold, IsUnder, HasArg
<1>7. /\ \A n : Under(gone, <<n>>) <=> <<n>> \in gone
      /\ \A n, x : Under(gone, <<n, x>>) <=> <<n>> \in gone \/ <<n, x>> \in gone
      /\ \A n, x, y : Under(gone, <<n, x, y>>)
           <=> <<n>> \in gone \/ <<n, x>> \in gone \/ <<n, x, y>> \in gone
  BY <1>3, <1>4, UnderByPath
<1>8. /\ \A n : Under(new, <<n>>) <=> <<n>> \in new
      /\ \A n, x : Under(new, <<n, x>>) <=> <<n>> \in new \/ <<n, x>> \in new
      /\ \A n, x, y : Under(new, <<n, x, y>>)
           <=> <<n>> \in new \/ <<n, x>> \in new \/ <<n, x, y>> \in new
  BY <1>2, <1>4, UnderByPath
<1>9. \A p : p \in R <=> (p \in B /\ ~Under(gone, p)) \/ p \in added \/ (p \in A /\ Under(new, p))
  BY <1>1
<1>10. \A n : <<n>> \in R <=> <<n>> \in A
  BY <1>2, <1>3, <1>4, <1>5, <1>6, <1>7, <1>8, <1>9
<1>11. ASSUME NEW n, NEW x
       PROVE  <<n, x>> \in R <=> <<n, x>> \in A
  <2> DEFINE e == before[n]
             g == after[n]
             u == OfKind(e)
             v == OfKind(g)
  <2>1. /\ <<n, x>> \in B <=> n \in DOMAIN before /\ IsUnder(u, x)
        /\ <<n, x>> \in A <=> n \in DOMAIN after /\ IsUnder(v, x)
    BY <1>5, <1>6
  <2>2. /\ <<n, x>> \in added <=> n \in both /\ ToldUnder("ADDED", e, g, x)
        /\ <<n, x>> \in removed <=> n \in both /\ ToldUnder("REMOVED", e, g, x)
        /\ <<n, x>> \notin kinds
    BY <1>2, <1>3, <1>4
  <2>3. /\ <<n>> \in new <=> n \in DOMAIN after /\ (n \in DOMAIN before => e.kind # g.kind)
        /\ <<n>> \in gone <=> n \in DOMAIN before /\ (n \in DOMAIN after => e.kind # g.kind)
    BY <1>2, <1>3, <1>4
  <2>4. <<n, x>> \in R <=> \/ <<n, x>> \in B /\ ~(<<n>> \in gone \/ <<n, x>> \in gone)
                           \/ <<n, x>> \in added
                           \/ <<n, x>> \in A /\ (<<n>> \in new \/ <<n, x>> \in new)
    BY <1>7, <1>8, <1>9
  <2>5. n \in both => /\ IsEntry(e) /\ IsEntry(g) /\ IsType(u) /\ IsType(v)
                       /\ u.kind = e.kind /\ v.kind = g.kind
    BY ToldIsType DEF AreEntries
  <2> HIDE DEF e, g
  <2>6. n \in both =>
          /\ ToldUnder("ADDED", e, g, x) => IsUnder(v, x)
          /\ e.kind = g.kind =>
               /\ ToldUnder("ADDED", e, g, x) <=> IsUnder(v, x) /\ ~IsUnder(u, x)
               /\ ToldUnder("REMOVED", e, g, x) <=> IsUnder(u, x) /\ ~IsUnder(v, x)
    BY <2>5, ToldOfEntries, ToldUnderTypes
  <2> QED
    BY <2>1, <2>2, <2>3, <2>4, <2>6
<1>12. ASSUME NEW n, NEW f, NEW y
       PROVE  <<n, f, y>> \in R <=> <<n, f, y>> \in A
  <2> DEFINE e == before[n]
             g == after[n]
             u == OfKind(e)
             v == OfKind(g)
  <2>1. /\ <<n, f, y>> \in B <=> n \in DOMAIN before /\ HasArg(u, f, y)
        /\ <<n, f, y>> \in A <=> n \in DOMAIN after /\ HasArg(v, f, y)
    BY <1>5, <1>6
  <2>2. /\ <<n, f, y>> \in added <=> n \in both /\ ToldArgs("ADDED", e, g, f, y)
        /\ <<n, f, y>> \in removed <=> n \in both /\ ToldArgs("REMOVED", e, g, f, y)
        /\ <<n, f, y>> \notin kinds
    BY <1>2, <1>3, <1>4
  <2>3. /\ <<n, f>> \in added <=> n \in both /\ ToldUnder("ADDED", e, g, f)
        /\ <<n, f>> \in removed <=> n \in both /\ ToldUnder("REMOVED", e, g, f)
        /\ <<n, f>> \notin kinds
    BY <1>2, <1>3, <1>4
  <2>4. /\ <<n>> \in new <=> n \in DOMAIN after /\ (n \in DOMAIN before => e.kind # g.kind)
        /\ <<n>> \in gone <=> n \in DOMAIN before /\ (n \in DOMAIN after => e.kind # g.kind)
    BY <1>2, <1>3, <1>4
  <2>5. <<n, f, y>> \in R <=>
          \/ /\ <<n, f, y>> \in B
             /\ ~(<<n>> \in gone \/ <<n, f>> \in gone \/ <<n, f, y>> \in gone)
          \/ <<n, f, y>> \in added
          \/ /\ <<n, f, y>> \in A
             /\ <<n>> \in new \/ <<n, f>> \in new \/ <<n, f, y>> \in new
    BY <1>7, <1>8, <1>9
  <2>6. n \in both => /\ IsEntry(e) /\ IsEntry(g) /\ IsType(u) /\ IsType(v)
                       /\ u.kind = e.kind /\ v.kind = g.kind
    BY ToldIsType DEF AreEntries
  <2> HIDE DEF e, g
  <2>7. n \in both /\ e.kind = g.kind =>
          /\ ToldUnder("ADDED", e, g, f) <=> IsUnder(v, f) /\ ~IsUnder(u, f)
          /\ ToldUnder("REMOVED", e, g, f) <=> IsUnder(u, f) /\ ~IsUnder(v, f)
    BY <2>6, ToldOfEntries, ToldUnderTypes
  <2>12. n \in both /\ ToldArgs("ADDED", e, g, f, y) => HasArg(v, f, y)
    BY <2>6, ToldOfEntries
  <2>8. n \in both /\ e.kind = g.kind =>
          /\ HasArg(u, f, y) => f \in DOMAIN u.fields
          /\ HasArg(v, f, y) => f \in DOMAIN v.fields
          /\ ToldArgs("ADDED", e, g, f, y) <=>
               /\ f \in DOMAIN u.fields \cap DOMAIN v.fields
               /\ HasArg(v, f, y) /\ ~HasArg(u, f, y)
          /\ ToldArgs("REMOVED", e, g, f, y) <=>
               /\ f \in DOMAIN u.fields \cap DOMAIN v.fields
               /\ HasArg(u, f, y) /\ ~HasArg(v, f, y)
    BY <2>6, ToldOfEntries, ToldArgsOfTypes
  <2>9. n \in both /\ e.kind = g.kind =>
          /\ HasArg(u, f, y) => (IsUnder(v, f) <=> f \in DOMAIN v.fields)
          /\ HasArg(v, f, y) => (IsUnder(u, f) <=> f \in DOMAIN u.fields)
    <3>1. WithFields \cap WithMembers = {}
      BY DEF WithFields, WithMembers
    <3>2. n \in both => /\ DOMAIN u.fields # {} => e.kind \in WithFields
                        /\ DOMAIN v.fields # {} => g.kind \in WithFields
                        /\ u.members # {} => e.kind \in WithMembers
                        /\ v.members # {} => g.kind \in WithMembers
      BY <2>6 DEF IsType, IsEntry
    <3> QED
      BY <2>8, <3>1, <3>2 DEF IsUnder
  <2>10. f \in DOMAIN u.fields => IsUnder(u, f)
    BY DEF IsUnder
  <2>11. f \in DOMAIN v.fields => IsUnder(v, f)
    BY DEF IsUnder
  <2> HIDE DEF u, v
  <2> QED
    BY <2>1, <2>2, <2>3, <2>4, <2>5, <2>7, <2>8, <2>9, <2>10, <2>11, <2>12
<1>13. \A p \in R \cup A : IsPath(p)
  BY <1>2, <1>5, <1>6, <1>9
<1>14. R = A
  BY <1>10, <1>11, <1>12, <1>13 DEF IsPath
<1> QED
  BY <1>14 DEF R, A, B, rows

------------------------------------------------------------------------------
(* The log of a table of rows.                                             *)

EarlierIn(S, row) == {r \in {q \in S : q.service = row.service} : Older(r, row)}

EntriesIn(S, row) ==
  IF EarlierIn(S, row) = {} THEN SetToSeq(Initial)
  ELSE Diffs[NewestOf(EarlierIn(S, row)).doc][row.doc]

TagIn(S, row) ==
  [i \in DOMAIN EntriesIn(S, row) |-> <<row.id, EntriesIn(S, row)[i]>>]

TagsIn(S, s) == [i \in 1..Len(s) |-> TagIn(S, s[i])]

LogOf(S) == FlattenSeq(TagsIn(S, NewestFirst(S)))

\* The log of the model is that of what is committed.
LEMMA LogOfSchema ==
  /\ ChangeLog = LogOf(schema)
  /\ \A row : Earlier(row) = EarlierIn(schema, row)
  /\ \A row : Predecessor(row) = NewestOf(EarlierIn(schema, row))
  /\ \A row : EntriesOf(row) = EntriesIn(schema, row)
<1>1. \A row : Earlier(row) = EarlierIn(schema, row)
  BY DEF Earlier, EarlierIn, Of
<1>2. \A row : Predecessor(row) = NewestOf(EarlierIn(schema, row))
  BY <1>1 DEF Predecessor, NewestOf
<1>3. \A row : EntriesOf(row) = EntriesIn(schema, row)
  BY <1>1, <1>2 DEF EntriesOf, EntriesIn
<1>4. ChangeLog = LogOf(schema)
  <2> DEFINE s == NewestFirst(schema)
             tags == [i \in 1..Len(s) |->
                        [j \in DOMAIN EntriesOf(s[i]) |-> <<s[i].id, EntriesOf(s[i])[j]>>]]
  <2>1. ChangeLog = FlattenSeq(tags)
    BY Zenon DEF ChangeLog, NewestFirst
  <2> HIDE DEF s
  <2>2. \A row : TagIn(schema, row) = [j \in DOMAIN EntriesOf(row) |-> <<row.id, EntriesOf(row)[j]>>]
    BY <1>3 DEF TagIn
  <2>3. tags = TagsIn(schema, s)
    BY <2>2 DEF TagsIn
  <2> QED
    BY <2>1, <2>3 DEF LogOf, s
<1> QED
  BY <1>1, <1>2, <1>3, <1>4

LEMMA LogOfNextSchema == ChangeLog' = LogOf(schema')
<1>1. ChangeLog = LogOf(schema)
  BY LogOfSchema
<1>2. (ChangeLog = LogOf(schema))'
  BY <1>1, PTL
<1> QED
  BY <1>2

\* The row before one is a row of its service.
LEMMA PredecessorIsIn ==
  ASSUME NEW S, IsTable(S), NEW row, EarlierIn(S, row) # {}
  PROVE  LET p == NewestOf(EarlierIn(S, row))
         IN  /\ p \in EarlierIn(S, row)
             /\ \A q \in EarlierIn(S, row) : q = p \/ Older(q, p)
             /\ p.doc \in Document
<1> DEFINE E == EarlierIn(S, row)
<1>1. E \in SUBSET S
  BY DEF EarlierIn
<1> HIDE DEF E
<1>2. IsTable(E)
  BY <1>1, SubTable
<1>3. E # {}
  BY DEF E
<1>4. NewestOf(E) \in E /\ \A q \in E : q = NewestOf(E) \/ Older(q, NewestOf(E))
  BY <1>2, <1>3, NewestExists
<1>5. NewestOf(E).doc \in Document
  BY <1>2, <1>4 DEF IsTable, Row
<1> QED
  BY <1>4, <1>5 DEF E

\* What can be an entry.
EntryRow == Initial \cup UNION {DiffSchemaTypeDefs(Parsed[d], Parsed[e]) : d \in Document, e \in Document}
Entry == Nat \X EntryRow

LEMMA DiffsAreRows ==
  ASSUME NEW d \in Document, NEW e \in Document
  PROVE  /\ Diffs[d][e] \in Seq(EntryRow)
         /\ ToSet(Diffs[d][e]) = DiffSchemaTypeDefs(Parsed[d], Parsed[e])
         /\ Diffs[d][e] = <<>> <=> AsTold(Parsed[d]) = AsTold(Parsed[e])
<1> DEFINE D == DiffSchemaTypeDefs(Parsed[d], Parsed[e])
<1>1. AreEntries(Parsed[d]) /\ AreEntries(Parsed[e])
  BY ParsedAreEntries
<1>2. IsFiniteSet(D) /\ (D = {} <=> AsTold(Parsed[d]) = AsTold(Parsed[e]))
  BY <1>1, DiffIsFinite, DiffTellsDifference
<1>3. Diffs[d][e] = SetToSeq(D)
  BY DEF Diffs
<1>4. D \subseteq EntryRow
  BY DEF EntryRow
<1> HIDE DEF D
<1>5. SetToSeq(D) \in Seq(D) /\ ToSet(SetToSeq(D)) = D /\ (SetToSeq(D) = <<>> <=> D = {})
  BY <1>2, ListedIsWhole
<1>6. Diffs[d][e] \in Seq(EntryRow)
  <2> DEFINE s == SetToSeq(D)
  <2>1. s \in Seq(D)
    BY <1>5
  <2> HIDE DEF s
  <2>2. s \in Seq(EntryRow)
    BY <1>4, <2>1, SeqMonotonic
  <2> QED
    BY <1>3, <2>2 DEF s
<1> QED
  BY <1>2, <1>3, <1>5, <1>6 DEF D

LEMMA EntriesAreRows ==
  ASSUME NEW S, IsTable(S), NEW row \in Row
  PROVE  EntriesIn(S, row) \in Seq(EntryRow) /\ TagIn(S, row) \in Seq(Entry)
<1>1. EntriesIn(S, row) \in Seq(EntryRow)
  <2>1. CASE EarlierIn(S, row) = {}
    <3>1. IsFiniteSet(Initial) /\ Initial \subseteq EntryRow
      <4>1. Initial \subseteq EntryRow
        BY DEF EntryRow
      <4>2. IsFiniteSet(Initial)
        BY FS_Singleton DEF Initial
      <4> QED
        BY <4>1, <4>2
    <3>2. SetToSeq(Initial) \in Seq(Initial)
      BY <3>1, ListedIsWhole
    <3> DEFINE s == SetToSeq(Initial)
    <3>3. EntriesIn(S, row) = s /\ s \in Seq(Initial)
      BY <2>1, <3>2 DEF EntriesIn
    <3> HIDE DEF s
    <3> QED
      BY <3>1, <3>3, SeqMonotonic
  <2>2. CASE EarlierIn(S, row) # {}
    <3>1. NewestOf(EarlierIn(S, row)).doc \in Document /\ row.doc \in Document
      BY <2>2, PredecessorIsIn DEF Row
    <3> QED
      BY <2>2, <3>1, DiffsAreRows DEF EntriesIn
  <2> QED
    BY <2>1, <2>2
<1> DEFINE e == EntriesIn(S, row)
           t == TagIn(S, row)
<1>2. t = [i \in DOMAIN e |-> <<row.id, e[i]>>] /\ row.id \in Nat
  BY DEF TagIn, Row
<1> HIDE DEF e, t
<1>3. Len(e) \in Nat /\ DOMAIN e = 1..Len(e) /\ \A i \in 1..Len(e) : e[i] \in EntryRow
  BY <1>1, LenProperties DEF e
<1>4. \A i \in 1..Len(e) : t[i] \in Entry
  BY <1>2, <1>3 DEF Entry
<1>5. t \in Seq(Entry)
  BY <1>2, <1>3, <1>4, SeqDef
<1> QED
  BY <1>1, <1>5 DEF t

\* The rows newest first, and the entries of each.
LEMMA LogParts ==
  ASSUME NEW S, IsTable(S)
  PROVE  LET s == NewestFirst(S)
             ss == TagsIn(S, s)
         IN  /\ s \in Seq(S) /\ Len(s) \in Nat /\ \A i \in 1..Len(s) : s[i] \in S
             /\ ss \in Seq(Seq(Entry)) /\ Len(ss) = Len(s)
             /\ \A i \in 1..Len(s) : ss[i] = TagIn(S, s[i])
             /\ LogOf(S) \in Seq(Entry)
<1> DEFINE s == NewestFirst(S)
           ss == TagsIn(S, s)
           E == Seq(Entry)
<1>1. s \in Seq(S) /\ Len(s) \in Nat /\ \A i \in 1..Len(s) : s[i] \in S
  <2>1. s \in SetToSeqs(S) /\ IsFiniteSet(S)
    BY NewestFirstSorts DEF IsSortedOf, IsTable
  <2> HIDE DEF s
  <2>2. s \in Seq(S)
    BY <2>1, OrderIsWhole
  <2> QED
    BY <2>2, LenProperties
<1>2. \A r \in S : TagIn(S, r) \in E
  BY EntriesAreRows DEF IsTable
<1>3. ss = [i \in 1..Len(s) |-> TagIn(S, s[i])]
  BY DEF TagsIn
<1>4. \A i \in 1..Len(s) : TagIn(S, s[i]) \in E
  BY <1>1, <1>2
<1> HIDE DEF ss, E, s
<1>5. ss \in Seq(E)
  BY <1>1, <1>3, <1>4, SeqDef
<1>6. Len(ss) = Len(s)
  BY <1>1, <1>3, <1>5, LenProperties
<1>7. \A i \in 1..Len(s) : ss[i] = TagIn(S, s[i])
  BY <1>3
<1>8. FlattenSeq(ss) \in Seq(Entry)
  <2>1. <<>> \in Seq(Entry) /\ ss \in Seq(Seq(Entry))
    BY <1>5 DEF E
  <2> QED
    BY <2>1, FlattenCons
<1>9. LogOf(S) = FlattenSeq(ss)
  BY DEF LogOf, ss, s
<1> QED
  BY <1>1, <1>5, <1>6, <1>7, <1>8, <1>9 DEF E, ss, s

\* A row that is newer than all puts its entries before those there are.
LEMMA LogOfNewer ==
  ASSUME NEW S, IsTable(S), NEW p, p \notin S, IsTable(S \cup {p}),
         \A r \in S : Older(r, p)
  PROVE  /\ LogOf(S) \in Seq(Entry) /\ TagIn(S \cup {p}, p) \in Seq(Entry)
         /\ LogOf(S \cup {p}) = TagIn(S \cup {p}, p) \o LogOf(S)
<1> DEFINE T == S \cup {p}
           s == NewestFirst(S)
           ss == TagsIn(S, s)
           a == TagIn(T, p)
<1>1. NewestFirst(T) = <<p>> \o s
  BY NewestFirstCons
<1>2. /\ s \in Seq(S) /\ Len(s) \in Nat /\ (\A i \in 1..Len(s) : s[i] \in S)
      /\ ss \in Seq(Seq(Entry)) /\ Len(ss) = Len(s)
      /\ \A i \in 1..Len(s) : ss[i] = TagIn(S, s[i])
  BY LogParts
<1>3. \A r \in S : TagIn(T, r) = TagIn(S, r)
  <2>1. ASSUME NEW r \in S
        PROVE  EarlierIn(T, r) = EarlierIn(S, r)
    <3>1. ~Older(p, r)
      <4> HIDE DEF T
      <4>1. IsTable(T) /\ p \in T /\ r \in T /\ Older(r, p)
        BY DEF T
      <4> QED
        BY <4>1, OlderOrders
    <3> QED
      BY <3>1 DEF EarlierIn
  <2> HIDE DEF T
  <2>2. \A r \in S : EntriesIn(T, r) = EntriesIn(S, r)
    BY <2>1 DEF EntriesIn
  <2> QED
    BY <2>2 DEF TagIn
<1>4. a \in Seq(Entry)
  BY EntriesAreRows DEF IsTable
<1>5. TagsIn(T, <<p>> \o s) = <<a>> \o ss
  <2> DEFINE t == <<p>> \o s
             n == Len(s) + 1
             u == TagsIn(T, t)
             v == <<a>> \o ss
  <2>1. Len(t) = n /\ t[1] = p /\ \A i \in 2..n : t[i] = s[i - 1]
    <3>1. s \in Seq(S) /\ Len(<<p>>) = 1
      BY <1>2
    <3> HIDE DEF s
    <3> QED
      BY <1>2, <3>1
  <2>2. Len(v) = n /\ v[1] = a /\ (\A i \in 2..n : v[i] = ss[i - 1])
        /\ v = [i \in 1..n |-> v[i]]
    <3> HIDE DEF s, ss, a
    <3> QED
      BY <1>2, <1>4
  <2> HIDE DEF t, v, s, ss, a
  <2>3. u = [i \in 1..n |-> TagIn(T, t[i])]
    BY <2>1 DEF TagsIn
  <2>4. ASSUME NEW i \in 1..n
        PROVE  TagIn(T, t[i]) = v[i]
    <3>1. CASE i = 1
      BY <2>1, <2>2, <3>1 DEF a
    <3>2. CASE i # 1
      <4> DEFINE j == i - 1
      <4>1. j \in 1..Len(s) /\ i \in 2..n
        BY <1>2, <3>2
      <4>2. t[i] = s[j] /\ v[i] = ss[j]
        BY <2>1, <2>2, <4>1
      <4> HIDE DEF j
      <4>3. s[j] \in S /\ ss[j] = TagIn(S, s[j])
        BY <1>2, <4>1
      <4> QED
        BY <1>3, <4>2, <4>3
    <3> QED
      BY <3>1, <3>2
  <2> HIDE DEF n
  <2>5. u = v
    BY <2>2, <2>3, <2>4
  <2> QED
    BY <2>5 DEF t, v
<1> HIDE DEF ss, a, s
<1>6. FlattenSeq(ss) \in Seq(Entry) /\ FlattenSeq(<<a>> \o ss) = a \o FlattenSeq(ss)
  BY <1>2, <1>4, FlattenCons
<1>7. LogOf(S) = FlattenSeq(ss)
  BY DEF LogOf, ss, s
<1>8. LogOf(T) = FlattenSeq(<<a>> \o ss)
  BY <1>1, <1>5 DEF LogOf
<1> QED
  BY <1>4, <1>6, <1>7, <1>8 DEF a

------------------------------------------------------------------------------
(* The invariant.                                                          *)

Inserted == {p \in Push : stage[p] = "inserted"}

\* What is committed is a table, and what was inserted has an id of its own.
RowsInv ==
  /\ nextId \in Nat /\ clock \in 0..MaxTime /\ offset \in Nat
  /\ IsTable(schema) /\ \A r \in schema : r.id < nextId
  /\ DOMAIN push = Push /\ DOMAIN stage = Push
  /\ \A p \in Push : stage[p] \in {"idle", "begun", "inserted", "done"}
  /\ \A p \in Push : stage[p] \in {"idle", "begun"} => push[p] \in [time : 0..MaxTime]
  /\ \A p \in Inserted : push[p] \in Row /\ push[p].id < nextId
                         /\ \A r \in schema : r.id # push[p].id
  /\ \A p, q \in Inserted : push[p].id = push[q].id => p = q

\* What the reader has not read of what there was is on a later page.
ReaderInv ==
  offset > 0 /\ calm =>
    \A e \in atStart : e \in read \/ \E i \in DOMAIN ChangeLog : offset < i /\ ChangeLog[i] = e

HistoryInv == RowsInv /\ ReaderInv

LEMMA RowsInitially == Init => HistoryInv
<1> SUFFICES ASSUME Init PROVE HistoryInv
  OBVIOUS
<1>1. IsTable({})
  BY FS_EmptySet DEF IsTable
<1>2. RowsInv
  BY <1>1, HistoryAssumption DEF Init, RowsInv, Inserted, NoRow
<1>3. ReaderInv
  BY DEF Init, ReaderInv
<1> QED
  BY <1>2, <1>3 DEF HistoryInv

LEMMA RowsNext == RowsInv /\ [Next]_vars => RowsInv'
<1> SUFFICES ASSUME RowsInv, [Next]_vars PROVE RowsInv'
  OBVIOUS
<1> USE HistoryAssumption
<1>1. CASE Tick
  BY <1>1 DEF Tick, RowsInv, Inserted, reader
<1>2. ASSUME NEW p \in Push, Begin(p)
      PROVE  RowsInv'
  <2>1. /\ push' = [push EXCEPT ![p] = [push[p] EXCEPT !.time = clock]]
        /\ stage' = [stage EXCEPT ![p] = "begun"] /\ stage[p] = "idle"
        /\ UNCHANGED <<schema, clock, nextId, offset>>
    BY <1>2 DEF Begin, reader
  <2>2. push[p] \in [time : 0..MaxTime] /\ clock \in 0..MaxTime
    BY <2>1 DEF RowsInv
  <2>3. [push[p] EXCEPT !.time = clock] \in [time : 0..MaxTime]
    BY <2>2
  <2>4. Inserted' = Inserted /\ p \notin Inserted
    BY <2>1 DEF Inserted, RowsInv
  <2>5. \A q \in Inserted : push'[q] = push[q]
    BY <2>1, <2>4 DEF RowsInv, Inserted
  <2> QED
    BY <2>1, <2>3, <2>4, <2>5 DEF RowsInv
<1>3. ASSUME NEW p \in Push, Commit(p)
      PROVE  RowsInv'
  <2>1. /\ push' = [push EXCEPT ![p] = NoRow] /\ stage[p] = "inserted"
        /\ stage' = [stage EXCEPT ![p] = "done"]
        /\ schema' = schema \cup {push[p]}
        /\ UNCHANGED <<clock, nextId, offset>>
    BY <1>3 DEF Commit
  <2>2. p \in Inserted /\ Inserted' = Inserted \ {p}
    BY <2>1 DEF Inserted, RowsInv
  <2>3. \A q \in Inserted' : push'[q] = push[q] /\ q \in Inserted /\ q # p
    BY <2>1, <2>2 DEF RowsInv, Inserted
  <2>4. /\ push[p] \in Row /\ push[p].id < nextId
        /\ \A r \in schema : r.id # push[p].id
    BY <2>2 DEF RowsInv
  <2>5. IsTable(schema')
    <3>1. IsFiniteSet(schema \cup {push[p]})
      BY FS_AddElement DEF RowsInv, IsTable
    <3> QED
      BY <2>1, <2>4, <3>1 DEF RowsInv, IsTable
  <2>6. \A r \in schema' : r.id < nextId
    BY <2>1, <2>4 DEF RowsInv
  <2>7. \A q \in Inserted' : push'[q] \in Row /\ push'[q].id < nextId'
                             /\ \A r \in schema' : r.id # push'[q].id
    BY <2>1, <2>2, <2>3 DEF RowsInv
  <2>8. \A q, r \in Inserted' : push'[q].id = push'[r].id => q = r
    BY <2>3 DEF RowsInv
  <2>9. \A q \in Push : stage'[q] \in {"idle", "begun"} => push'[q] \in [time : 0..MaxTime]
    BY <2>1 DEF RowsInv
  <2> QED
    BY <2>1, <2>5, <2>6, <2>7, <2>8, <2>9 DEF RowsInv
<1>4. ASSUME NEW p \in Push, NEW s \in Service, NEW d \in Document, Insert(p, s, d)
      PROVE  RowsInv'
  <2> DEFINE row == [id |-> nextId, service |-> s, doc |-> d, time |-> push[p].time]
  <2>1. /\ push' = [push EXCEPT ![p] = row] /\ stage[p] = "begun"
        /\ stage' = [stage EXCEPT ![p] = "inserted"]
        /\ nextId' = nextId + 1
        /\ UNCHANGED <<schema, clock, offset>>
    BY <1>4 DEF Insert, reader
  <2>2. nextId \in Nat /\ push[p] \in [time : 0..MaxTime]
    BY <2>1 DEF RowsInv
  <2>3. row \in Row /\ row.id = nextId
    BY <2>2 DEF Row
  <2> HIDE DEF row
  <2>4. p \notin Inserted /\ Inserted' = Inserted \cup {p}
    BY <2>1 DEF Inserted, RowsInv
  <2>5. push'[p] = row /\ \A q \in Inserted : push'[q] = push[q]
    BY <2>1, <2>4 DEF RowsInv, Inserted
  <2>6. \A r \in schema : r.id \in Nat /\ r.id < nextId
    BY DEF RowsInv, IsTable, Row
  <2>7. \A q \in Inserted : push[q].id \in Nat /\ push[q].id < nextId
    BY DEF RowsInv, Row
  <2>8. \A q \in Inserted' : push'[q] \in Row /\ push'[q].id < nextId'
                             /\ \A r \in schema' : r.id # push'[q].id
    BY <2>1, <2>2, <2>3, <2>4, <2>5, <2>6, <2>7 DEF RowsInv
  <2>9. \A q, r \in Inserted' : push'[q].id = push'[r].id => q = r
    BY <2>2, <2>3, <2>4, <2>5, <2>7 DEF RowsInv
  <2>10. \A r \in schema' : r.id < nextId'
    BY <2>1, <2>2, <2>6
  <2>11. \A q \in Push : stage'[q] \in {"idle", "begun"} => push'[q] \in [time : 0..MaxTime]
    BY <2>1 DEF RowsInv
  <2> QED
    BY <2>1, <2>2, <2>8, <2>9, <2>10, <2>11 DEF RowsInv
<1>5. ASSUME NEW s \in Service, DeleteService(s)
      PROVE  RowsInv'
  <2>1. /\ schema' = schema \ Of(s)
        /\ UNCHANGED <<clock, nextId, push, stage, offset>>
    BY <1>5 DEF DeleteService
  <2>2. schema' \in SUBSET schema
    BY <2>1
  <2>3. IsTable(schema')
    BY <2>2, SubTable DEF RowsInv
  <2> QED
    BY <2>1, <2>2, <2>3 DEF RowsInv, Inserted
<1>6. CASE FirstPage \/ NextPage
  <2>1. UNCHANGED <<schema, clock, nextId, push, stage>> /\ offset' \in Nat
    BY <1>6 DEF FirstPage, NextPage, RowsInv
  <2> QED
    BY <2>1 DEF RowsInv, Inserted
<1>7. CASE UNCHANGED vars
  BY <1>7 DEF vars, reader, RowsInv, Inserted
<1> QED
  BY <1>1, <1>2, <1>3, <1>4, <1>5, <1>6, <1>7 DEF Next

\* A page has the entries at its positions.
LEMMA SliceHas ==
  ASSUME NEW V, NEW s \in Seq(V), NEW from \in Nat, NEW limit \in Nat
  PROVE  \A i \in DOMAIN s : from < i /\ i <= from + limit => s[i] \in ToSet(Slice(s, from, limit))
<1> DEFINE to == IF from + limit <= Len(s) THEN from + limit ELSE Len(s)
           t == SubSeq(s, from + 1, to)
<1>1. Slice(s, from, limit) = t
  BY DEF Slice
<1>2. Len(s) \in Nat /\ DOMAIN s = 1..Len(s) /\ to \in Nat /\ to <= Len(s)
  BY LenProperties
<1>3. ASSUME NEW i \in DOMAIN s, from < i, i <= from + limit
      PROVE  s[i] \in ToSet(t)
  <2> DEFINE j == i - from
  <2>1. i \in 1..Len(s) /\ i <= to
    BY <1>2, <1>3
  <2> HIDE DEF to
  <2>2. from + 1 <= to
    BY <1>2, <1>3, <2>1
  <2>3. DOMAIN t = 1..(to - from) /\ \A k \in 1..(to - from) : t[k] = s[from + k]
    BY <1>2, <2>2
  <2>4. j \in 1..(to - from) /\ from + j = i
    BY <1>2, <1>3, <2>1
  <2> HIDE DEF j, t
  <2>5. t[j] = s[i] /\ j \in DOMAIN t
    BY <2>3, <2>4
  <2> QED
    BY <2>5 DEF ToSet
<1> QED
  BY <1>1, <1>3

LEMMA ReaderNext == RowsInv /\ RowsInv' /\ ReaderInv /\ [Next]_vars => ReaderInv'
<1> SUFFICES ASSUME RowsInv, RowsInv', ReaderInv, [Next]_vars PROVE ReaderInv'
  OBVIOUS
<1>1. ChangeLog \in Seq(Entry) /\ ChangeLog = LogOf(schema)
  <2>1. IsTable(schema)
    BY DEF RowsInv
  <2>2. LogOf(schema) \in Seq(Entry)
    BY <2>1, LogParts
  <2>3. ChangeLog = LogOf(schema)
    BY LogOfSchema
  <2> QED
    BY <2>2, <2>3
<1>2. ChangeLog' = LogOf(schema')
  BY LogOfNextSchema
<1>3. ASSUME UNCHANGED <<schema, reader>>
      PROVE  ReaderInv'
  <2>1. ChangeLog' = ChangeLog
    BY <1>1, <1>2, <1>3
  <2> QED
    BY <1>3, <2>1 DEF ReaderInv, reader
<1>4. ASSUME NEW p \in Push, Commit(p)
      PROVE  ReaderInv'
  <2> DEFINE row == push[p]
             log == LogOf(schema)
             tag == TagIn(schema \cup {row}, row)
  <2>1. /\ schema' = schema \cup {row} /\ stage[p] = "inserted"
        /\ calm' = (calm /\ \A r \in schema : Older(r, row))
        /\ UNCHANGED <<offset, read, atStart>>
    BY <1>4 DEF Commit
  <2>2. SUFFICES ASSUME offset > 0, calm, \A r \in schema : Older(r, row),
                        NEW e \in atStart, e \notin read
                 PROVE  \E i \in DOMAIN ChangeLog' : offset < i /\ ChangeLog'[i] = e
    BY <2>1 DEF ReaderInv
  <2>3. IsTable(schema) /\ IsTable(schema \cup {row}) /\ row \notin schema
    BY <2>1 DEF RowsInv, Inserted
  <2> HIDE DEF row
  <2>4. log \in Seq(Entry) /\ tag \in Seq(Entry) /\ LogOf(schema \cup {row}) = tag \o log
    BY <2>2, <2>3, LogOfNewer
  <2>5. ChangeLog' = tag \o log
    BY <1>2, <2>1, <2>4
  <2>6. PICK i \in DOMAIN log : offset < i /\ log[i] = e
    BY <1>1, <2>2 DEF ReaderInv
  <2> HIDE DEF log, tag
  <2> DEFINE k == Len(tag) + i
             both == tag \o log
  <2>7. Len(tag) \in Nat /\ Len(log) \in Nat /\ i \in 1..Len(log) /\ offset \in Nat
    BY <2>4, <2>6, LenProperties DEF RowsInv
  <2>8. /\ DOMAIN both = 1..(Len(tag) + Len(log))
        /\ k \in 1..(Len(tag) + Len(log)) /\ both[k] = log[i]
    BY <2>4, <2>7
  <2>9. offset < k
    BY <2>6, <2>7
  <2> HIDE DEF k, both
  <2> QED
    BY <2>5, <2>6, <2>8, <2>9 DEF both
<1>5. CASE FirstPage
  <2>1. /\ offset' = Limit /\ atStart' = ToSet(ChangeLog)
        /\ read' = ToSet(Slice(ChangeLog, 0, Limit)) /\ schema' = schema
    BY <1>5 DEF FirstPage
  <2>2. ChangeLog' = ChangeLog
    BY <1>1, <1>2, <2>1
  <2>3. Len(ChangeLog) \in Nat /\ DOMAIN ChangeLog = 1..Len(ChangeLog)
    BY <1>1, LenProperties
  <2>4. ASSUME NEW e \in atStart', e \notin read'
        PROVE  \E i \in DOMAIN ChangeLog : Limit < i /\ ChangeLog[i] = e
    <3>1. PICK i \in DOMAIN ChangeLog : ChangeLog[i] = e
      BY <2>1, <2>4 DEF ToSet
    <3>2. ~(0 < i /\ i <= 0 + Limit)
      BY <1>1, <2>1, <2>4, <3>1, SliceHas, HistoryAssumption
    <3>3. Limit < i
      BY <2>3, <3>1, <3>2, HistoryAssumption
    <3> QED
      BY <3>1, <3>3
  <2> QED
    BY <2>1, <2>2, <2>4 DEF ReaderInv
<1>6. CASE NextPage
  <2>1. /\ offset > 0 /\ offset' = offset + Limit
        /\ read' = read \cup ToSet(Slice(ChangeLog, offset, Limit))
        /\ UNCHANGED <<schema, atStart, calm>>
    BY <1>6 DEF NextPage
  <2>2. ChangeLog' = ChangeLog
    BY <1>1, <1>2, <2>1
  <2>3. Len(ChangeLog) \in Nat /\ DOMAIN ChangeLog = 1..Len(ChangeLog)
        /\ offset \in Nat /\ Limit \in Nat
    BY <1>1, LenProperties, HistoryAssumption DEF RowsInv
  <2>4. ASSUME calm, NEW e \in atStart, e \notin read'
        PROVE  \E i \in DOMAIN ChangeLog : offset + Limit < i /\ ChangeLog[i] = e
    <3>1. PICK i \in DOMAIN ChangeLog : offset < i /\ ChangeLog[i] = e
      BY <2>1, <2>4 DEF ReaderInv
    <3>2. ~(i <= offset + Limit)
      BY <1>1, <2>1, <2>3, <2>4, <3>1, SliceHas
    <3>3. offset + Limit < i
      BY <2>3, <3>1, <3>2
    <3> QED
      BY <3>1, <3>3
  <2> QED
    BY <2>1, <2>2, <2>4 DEF ReaderInv
<1>7. ASSUME NEW s \in Service, DeleteService(s)
      PROVE  ReaderInv'
  BY <1>7 DEF DeleteService, ReaderInv
<1>8. CASE Tick
  BY <1>3, <1>8 DEF Tick
<1>9. ASSUME NEW p \in Push, Begin(p)
      PROVE  ReaderInv'
  BY <1>3, <1>9 DEF Begin
<1>10. ASSUME NEW p \in Push, NEW s \in Service, NEW d \in Document, Insert(p, s, d)
       PROVE  ReaderInv'
  BY <1>3, <1>10 DEF Insert
<1>11. CASE UNCHANGED vars
  BY <1>3, <1>11 DEF vars
<1> QED
  BY <1>4, <1>5, <1>6, <1>7, <1>8, <1>9, <1>10, <1>11 DEF Next

\* The tables, the pushes in flight and the reader of pages keep to the invariant
\* (src/src/database/schema.ts:505).
THEOREM HistoryInvariance == Spec => []HistoryInv
<1>1. HistoryInv /\ [Next]_vars => HistoryInv'
  BY RowsNext, ReaderNext DEF HistoryInv
<1> QED
  BY <1>1, RowsInitially, PTL DEF Spec

\* Of a type that is neither new nor gone nor of another kind, the log tells all
\* that is new or gone of what belongs to its kind, whatever the documents, as long
\* as they are of the grammar (src/src/helpers/schema-change-log.ts:384).
THEOREM LogTellsNames == Spec => []LogReplays
<1>1. HistoryInv => LogReplays
  <2> SUFFICES ASSUME HistoryInv, NEW r \in schema, Earlier(r) # {}
               PROVE  Replays[Predecessor(r).doc][r.doc]
    BY DEF LogReplays
  <2> DEFINE b == Predecessor(r).doc
             a == r.doc
  <2>1. b \in Document /\ a \in Document
    <3>1. IsTable(schema) /\ EarlierIn(schema, r) # {}
          /\ Predecessor(r) = NewestOf(EarlierIn(schema, r))
      BY LogOfSchema DEF HistoryInv, RowsInv
    <3> QED
      BY <3>1, PredecessorIsIn DEF IsTable, Row
  <2> HIDE DEF b, a
  <2>2. AreEntries(Parsed[b]) /\ AreEntries(Parsed[a])
    BY <2>1, ParsedAreEntries
  <2>3. ToSet(Diffs[b][a]) = DiffSchemaTypeDefs(Parsed[b], Parsed[a])
    BY <2>1, DiffsAreRows
  <2>4. Replay(Paths(AsTold(Parsed[b])), ToSet(Diffs[b][a]), AsTold(Parsed[a]))
          = Paths(AsTold(Parsed[a]))
    BY <2>2, <2>3, DiffReplays
  <2>5. Replays[b][a]
    BY <2>1, <2>4 DEF Replays
  <2> QED
    BY <2>5 DEF b, a
<1> QED
  BY <1>1, HistoryInvariance, PTL

\* A version is missing from the log just when all that belongs to the kinds of its
\* types is as in the one before it, whatever the documents, as long as they are of
\* the grammar (src/src/helpers/schema-change-log.ts:432).
THEOREM NoChangeIsSilent == Spec => []NoSilentChange
<1>1. HistoryInv => NoSilentChange
  <2> SUFFICES ASSUME HistoryInv, NEW r \in schema, Earlier(r) # {}
               PROVE  EntriesOf(r) = <<>>
                        <=> AsTold(Parsed[r.doc]) = AsTold(Parsed[Predecessor(r).doc])
    BY DEF NoSilentChange
  <2> DEFINE b == Predecessor(r).doc
             a == r.doc
  <2>1. b \in Document /\ a \in Document
    <3>1. IsTable(schema) /\ EarlierIn(schema, r) # {}
          /\ Predecessor(r) = NewestOf(EarlierIn(schema, r))
      BY LogOfSchema DEF HistoryInv, RowsInv
    <3> QED
      BY <3>1, PredecessorIsIn DEF IsTable, Row
  <2>2. EntriesOf(r) = Diffs[b][a]
    BY DEF EntriesOf
  <2> HIDE DEF b, a
  <2>3. Diffs[b][a] = <<>> <=> AsTold(Parsed[b]) = AsTold(Parsed[a])
    BY <2>1, DiffsAreRows
  <2> QED
    BY <2>2, <2>3 DEF b, a
<1> QED
  BY <1>1, HistoryInvariance, PTL

\* A reader of pages whose pages are longer than the log has read all that was in
\* it, unless something was deleted or an older push came late
\* (src/src/database/schema.ts:505).
THEOREM PagesAreWhole == Spec => []PagesMissNothing
<1>1. HistoryInv => PagesMissNothing
  <2> SUFFICES ASSUME HistoryInv, offset >= Len(ChangeLog), offset > 0, calm,
                      NEW e \in atStart, e \notin read
               PROVE  FALSE
    BY DEF PagesMissNothing
  <2>1. PICK i \in DOMAIN ChangeLog : offset < i
    BY DEF HistoryInv, ReaderInv
  <2>2. ChangeLog \in Seq(Entry)
    <3>1. IsTable(schema)
      BY DEF HistoryInv, RowsInv
    <3> QED
      BY <3>1, LogParts, LogOfSchema
  <2>3. DOMAIN ChangeLog = 1..Len(ChangeLog) /\ Len(ChangeLog) \in Nat /\ offset \in Nat
    BY <2>2, LenProperties DEF HistoryInv, RowsInv
  <2> QED
    BY <2>1, <2>3
<1> QED
  BY <1>1, HistoryInvariance, PTL

\* The schema that a page shows as the previous one is the one in the log, unless
\* two were pushed in one moment (src/src/database/schema.ts:412).
THEOREM PreviousIsInLog == Spec => []PreviousAgrees
<1>1. HistoryInv => PreviousAgrees
  <2> SUFFICES ASSUME HistoryInv, NEW r \in schema,
                      \A q \in Of(r.service) : q.time = r.time => q = r
               PROVE  SchemaBefore(r) \subseteq Earlier(r)
                      /\ (Earlier(r) # {} => Predecessor(r) \in SchemaBefore(r))
    BY DEF PreviousAgrees
  <2>1. IsTable(schema)
    BY DEF HistoryInv, RowsInv
  <2>2. \A q \in schema : q.time \in Nat /\ q.id \in Nat
    BY <2>1, HistoryAssumption DEF IsTable, Row
  <2> DEFINE others == {q \in Of(r.service) \ {r} : q.time <= r.time}
  <2>3. \A q : q \in SchemaBefore(r) <=> q \in others /\ \A x \in others : x.time <= q.time
    BY DEF SchemaBefore
  <2>4. Of(r.service) \subseteq schema
    BY DEF Of
  <2>5. others \subseteq Earlier(r)
    BY <2>2, <2>4 DEF Earlier, Older
  <2>6. ASSUME Earlier(r) # {}
        PROVE  Predecessor(r) \in SchemaBefore(r)
    <3> DEFINE p == Predecessor(r)
    <3>1. p \in Earlier(r) /\ \A q \in Earlier(r) : q = p \/ Older(q, p)
      BY <2>1, <2>6, LogOfSchema, PredecessorIsIn
    <3> HIDE DEF p
    <3>2. p \in Of(r.service) /\ Older(p, r)
      BY <3>1 DEF Earlier
    <3>3. p # r /\ p.time <= r.time
      BY <2>2, <2>4, <3>2 DEF Older
    <3>4. \A q \in others : q.time <= p.time
      BY <2>2, <2>4, <2>5, <3>1, <3>2 DEF Older
    <3> QED
      BY <2>3, <3>2, <3>3, <3>4 DEF p
  <2> QED
    BY <2>3, <2>5, <2>6
<1> QED
  BY <1>1, HistoryInvariance, PTL

\* A page has no other entries, and as many as there are positions.
LEMMA SliceHasOnly ==
  ASSUME NEW V, NEW s \in Seq(V), NEW from \in Nat, NEW limit \in Nat
  PROVE  \A x \in ToSet(Slice(s, from, limit)) :
           \E i \in DOMAIN s : from < i /\ i <= from + limit /\ s[i] = x
<1> DEFINE to == IF from + limit <= Len(s) THEN from + limit ELSE Len(s)
           t == SubSeq(s, from + 1, to)
<1>1. Slice(s, from, limit) = t
  BY DEF Slice
<1>2. /\ Len(s) \in Nat /\ DOMAIN s = 1..Len(s) /\ to \in Nat /\ to <= Len(s)
      /\ to <= from + limit
  BY LenProperties
<1>3. ASSUME NEW x \in ToSet(t)
      PROVE  \E i \in DOMAIN s : from < i /\ i <= from + limit /\ s[i] = x
  <2>1. PICK k \in DOMAIN t : t[k] = x
    BY DEF ToSet
  <2> HIDE DEF to
  <2>2. CASE from + 1 <= to
    <3>1. DOMAIN t = 1..(to - from) /\ \A j \in 1..(to - from) : t[j] = s[from + j]
      BY <1>2, <2>2
    <3> DEFINE i == from + k
    <3> HIDE DEF t
    <3>2. i \in DOMAIN s /\ from < i /\ i <= from + limit
      BY <1>2, <2>1, <3>1
    <3>3. s[i] = x
      BY <2>1, <3>1
    <3> QED
      BY <3>2, <3>3
  <2>3. CASE ~(from + 1 <= to)
    <3>1. t = <<>>
      BY <1>2, <2>3
    <3> HIDE DEF t
    <3>2. DOMAIN t = {}
      BY <3>1
    <3> QED
      BY <2>1, <3>2
  <2> QED
    BY <2>2, <2>3
<1> QED
  BY <1>1, <1>3

LEMMA MaxOfTwo ==
  ASSUME NEW m \in Int
  PROVE  Max({0, m}) = IF m >= 0 THEN m ELSE 0
<1> DEFINE S == {0, m}
           x == IF m >= 0 THEN m ELSE 0
<1>1. x \in S /\ \A y \in S : x >= y
  OBVIOUS
<1>2. \A z \in S : (\A y \in S : z >= y) => z = x
  OBVIOUS
<1> HIDE DEF S, x
<1>3. Max(S) \in S /\ \A y \in S : Max(S) >= y
  BY <1>1 DEF Max
<1>4. Max(S) = x
  BY <1>2, <1>3
<1> QED
  BY <1>4 DEF S, x

LEMMA MinOfTwo ==
  ASSUME NEW m \in Nat, NEW n \in Nat
  PROVE  Min({n, m}) = IF n <= m THEN n ELSE m
<1> DEFINE S == {n, m}
           x == IF n <= m THEN n ELSE m
<1>1. x \in S /\ \A y \in S : x <= y
  OBVIOUS
<1>2. \A z \in S : (\A y \in S : z <= y) => z = x
  OBVIOUS
<1> HIDE DEF S, x
<1>3. Min(S) \in S /\ \A y \in S : Min(S) <= y
  BY <1>1 DEF Min
<1>4. Min(S) = x
  BY <1>2, <1>3
<1> QED
  BY <1>4 DEF S, x

\* A page of an order, from its second row on, has as many rows as there are, up to
\* the limit.
LEMMA PageSize ==
  ASSUME NEW S, IsFiniteSet(S), NEW s \in SetToSeqs(S)
  PROVE  Cardinality(ToSet(Slice(s, 1, Limit))) = Min({Limit, Max({0, Cardinality(S) - 1})})
<1> DEFINE n == Cardinality(S)
           m == Min({Limit, Max({0, n - 1})})
           P == ToSet(Slice(s, 1, Limit))
           f == [i \in 1..m |-> s[i + 1]]
<1>1. /\ s \in Seq(S) /\ Len(s) = n /\ n \in Nat /\ DOMAIN s = 1..n
      /\ \A i, j \in DOMAIN s : i # j => s[i] # s[j]
  BY OrderIsWhole
<1>2. m \in Nat /\ m <= Limit /\ \A i \in Nat : i <= m <=> i <= Limit /\ (i = 0 \/ i + 1 <= n)
  <2> HIDE DEF n
  <2> DEFINE left == n - 1
             x == IF left >= 0 THEN left ELSE 0
  <2>1. left \in Int /\ x \in Nat /\ Limit \in Nat
    BY <1>1, HistoryAssumption
  <2>2. Max({0, left}) = x
    BY <2>1, MaxOfTwo
  <2> HIDE DEF x
  <2>3. m = IF Limit <= x THEN Limit ELSE x
    BY <2>1, <2>2, MinOfTwo
  <2> HIDE DEF m
  <2> QED
    BY <1>1, <2>1, <2>3 DEF x
<1> HIDE DEF n, m
<1>3. \A i \in 1..m : i + 1 \in DOMAIN s /\ 1 < i + 1 /\ i + 1 <= 1 + Limit
  BY <1>1, <1>2, HistoryAssumption
<1>4. \A i \in 1..m : s[i + 1] \in P
  <2> DEFINE k(i) == i + 1
  <2>1. \A i \in 1..m : k(i) \in DOMAIN s /\ 1 < k(i) /\ k(i) <= 1 + Limit
    BY <1>3
  <2> HIDE DEF k
  <2>2. \A i \in 1..m : s[k(i)] \in P
    BY <1>1, <2>1, SliceHas, HistoryAssumption
  <2> QED
    BY <2>2 DEF k
<1>5. \A x \in P : \E i \in 1..m : s[i + 1] = x
  <2> SUFFICES ASSUME NEW x \in P PROVE \E i \in 1..m : s[i + 1] = x
    OBVIOUS
  <2>1. PICK k \in DOMAIN s : 1 < k /\ k <= 1 + Limit /\ s[k] = x
    BY <1>1, SliceHasOnly, HistoryAssumption
  <2> DEFINE i == k - 1
  <2>2. i \in Nat /\ i >= 1 /\ i <= Limit /\ i + 1 <= n /\ i + 1 = k
    BY <1>1, <2>1, HistoryAssumption
  <2> HIDE DEF i
  <2>3. i \in 1..m
    BY <1>2, <2>2
  <2> QED
    BY <2>1, <2>2, <2>3
<1> HIDE DEF P
<1>6. \A i, j \in 1..m : s[i + 1] = s[j + 1] => i = j
  <2> SUFFICES ASSUME NEW i \in 1..m, NEW j \in 1..m, i # j
               PROVE  s[i + 1] # s[j + 1]
    OBVIOUS
  <2>1. i + 1 # j + 1 /\ i + 1 \in DOMAIN s /\ j + 1 \in DOMAIN s
    BY <1>2, <1>3
  <2> QED
    BY <1>1, <2>1
<1>7. f \in Bijection(1..m, P)
  BY <1>4, <1>5, <1>6 DEF Bijection, Injection, Surjection, IsInjective
<1>8. ExistsBijection(1..m, P)
  BY <1>7 DEF ExistsBijection
<1>9. Cardinality(P) = m
  BY <1>2, <1>8, FS_CountingElements
<1> QED
  BY <1>9 DEF P, m, n

\* A query for several services gives each the newest of its schemas, whatever the
\* order of those of one time, and one service exactly its page
\* (src/src/graphql/dataloader.ts:15).
THEOREM BatchesAreNewest == Spec => []BatchIsNewest
<1>1. HistoryInv => BatchIsNewest
  <2> SUFFICES ASSUME HistoryInv, NEW s \in Service, NEW t \in Service
               PROVE  LET key(x, from) == [service |-> x, limit |-> Limit, offset |-> from]
                          left == Cardinality(Of(s)) - 1
                      IN  /\ \A answer \in LoadSchemas(<<key(s, 1)>>) :
                               s = t => Cardinality(answer[1]) = Min({Limit, Max({0, left})})
                          /\ \A answer \in LoadSchemas(<<key(s, 0), key(t, 1)>>) :
                               \A i \in 1..2 : \A r \in answer[i] :
                                 \A q \in Of(r.service) \ answer[i] : q.time <= r.time
    BY DEF BatchIsNewest
  <2> DEFINE key(x, from) == [service |-> x, limit |-> Limit, offset |-> from]
  <2>1. IsTable(schema) /\ Limit \in Nat
    BY HistoryAssumption DEF HistoryInv, RowsInv
  <2>2. \A x : Of(x) \in SUBSET schema
    BY DEF Of
  <2>3. ASSUME NEW answer \in LoadSchemas(<<key(s, 1)>>)
        PROVE  Cardinality(answer[1]) = Min({Limit, Max({0, Cardinality(Of(s)) - 1})})
    <3> DEFINE keys == <<key(s, 1)>>
    <3>1. keys[1] = key(s, 1) /\ DOMAIN keys = {1}
      OBVIOUS
    <3>2. key(s, 1).service = s /\ key(s, 1).limit = Limit /\ key(s, 1).offset = 1
      OBVIOUS
    <3> HIDE DEF keys, key
    <3>3. {keys[i].service : i \in DOMAIN keys} = {s}
      BY <3>1, <3>2
    <3>4. UNION {Of(x) : x \in {s}} = Of(s)
      OBVIOUS
    <3>5. PICK o \in Orders({s}) :
            answer = [i \in DOMAIN keys |->
                        {r \in ToSet(Slice(o, 1, Limit)) : r.service = keys[i].service}]
      BY <3>1, <3>2, <3>3 DEF LoadSchemas, keys
    <3>6. o \in SetToSeqs(Of(s)) /\ IsFiniteSet(Of(s))
      <4>1. IsTable(Of(s))
        BY <2>1, <2>2, SubTable
      <4> QED
        BY <3>4, <4>1 DEF Orders, IsTable
    <3>7. o \in Seq(Of(s))
      BY <3>6, OrderIsWhole
    <3>8. \A r \in ToSet(Slice(o, 1, Limit)) : r.service = s
      <4>1. \A r \in ToSet(Slice(o, 1, Limit)) : \E i \in DOMAIN o : o[i] = r
        BY <2>1, <3>7, SliceHasOnly
      <4>2. \A i \in DOMAIN o : o[i] \in Of(s)
        BY <3>7
      <4> QED
        BY <4>1, <4>2 DEF Of
    <3>9. answer[1] = ToSet(Slice(o, 1, Limit))
      BY <3>1, <3>2, <3>5, <3>8
    <3> QED
      BY <3>6, <3>9, PageSize
  <2>4. ASSUME NEW answer \in LoadSchemas(<<key(s, 0), key(t, 1)>>),
               NEW i \in 1..2, NEW r \in answer[i], NEW q \in Of(r.service) \ answer[i]
        PROVE  q.time <= r.time
    <3> DEFINE keys == <<key(s, 0), key(t, 1)>>
               services == {keys[j].service : j \in DOMAIN keys}
               All == UNION {Of(x) : x \in services}
    <3>1. keys[1] = key(s, 0) /\ keys[2] = key(t, 1) /\ DOMAIN keys = 1..2
      OBVIOUS
    <3>2. key(s, 0).limit = Limit /\ key(s, 0).offset = 0
      OBVIOUS
    <3> HIDE DEF keys, key
    <3>3. PICK o \in Orders(services) :
            answer = [j \in DOMAIN keys |->
                        {x \in ToSet(Slice(o, 0, Limit)) : x.service = keys[j].service}]
      BY <3>1, <3>2 DEF LoadSchemas, keys
    <3>4. answer[i] = {x \in ToSet(Slice(o, 0, Limit)) : x.service = keys[i].service}
      BY <3>1, <3>3
    <3>5. r.service = keys[i].service /\ r.service \in services
      BY <3>1, <3>4
    <3> HIDE DEF services
    <3>6. All \in SUBSET schema
      BY <2>2
    <3>7. o \in SetToSeqs(All) /\ \A j, k \in DOMAIN o : j < k => o[j].time >= o[k].time
      BY <3>3 DEF Orders
    <3>8. q \in All /\ q.service = r.service
      BY <3>5 DEF Of
    <3> HIDE DEF All
    <3>9. IsFiniteSet(All)
      <4>1. IsTable(All)
        BY <2>1, <3>6, SubTable
      <4> QED
        BY <4>1 DEF IsTable
    <3>10. o \in Seq(All) /\ DOMAIN o = 1..Len(o) /\ Len(o) \in Nat
           /\ \E k \in DOMAIN o : o[k] = q
      BY <3>7, <3>8, <3>9, OrderIsWhole
    <3>11. PICK j \in DOMAIN o : 0 < j /\ j <= 0 + Limit /\ o[j] = r
      BY <2>1, <3>4, <3>10, SliceHasOnly
    <3>12. PICK k \in DOMAIN o : o[k] = q
      BY <3>10
    <3>13. ~(0 < k /\ k <= 0 + Limit)
      <4>1. q \notin ToSet(Slice(o, 0, Limit))
        BY <3>4, <3>5, <3>8
      <4> QED
        BY <2>1, <3>10, <3>12, <4>1, SliceHas
    <3>14. j < k
      BY <2>1, <3>10, <3>11, <3>12, <3>13
    <3>15. r.time >= q.time
      BY <3>7, <3>11, <3>12, <3>14
    <3>16. r \in schema /\ q \in schema
      BY <3>6, <3>8, <3>10, <3>11
    <3>17. r.time \in Nat /\ q.time \in Nat
      BY <2>1, <3>16, HistoryAssumption DEF IsTable, Row
    <3> QED
      BY <3>15, <3>17
  <2> QED
    BY <2>3, <2>4
<1> QED
  BY <1>1, HistoryInvariance, PTL
==============================================================================
