-------------------------- MODULE Subscriptions_proofs --------------------------
(***************************************************************************)
(* Proofs about Subscriptions, for any sources, documents, requests and    *)
(* processes.                                                              *)
(***************************************************************************)
EXTENDS Subscriptions, TLAPS

USE DEF life, conns, tables, vars, Request

PushRecord == [source: Source, doc: Row, gone: SUBSET Subscription,
               own: SUBSET Subscription]
Steps == Over \cup {"select", "update", "delete", "insert", "define", "commit",
                    "definitions"}

\* What a step of request r does to its connection.
ClientStep(r, from, to) ==
  \/ Comes(r)
  \/ Ends(r) /\ from \notin Over /\ to \in Over
  \/ UNCHANGED conns /\ from \notin Over

LEMMA NothingPushed == NoPush \in PushRecord /\ NoRows \in [Source -> Row]
<1>1. (CHOOSE s \in Source : TRUE) \in Source
  BY SourceAssumption
<1> QED
  BY <1>1 DEF NoPush, NoRows, PushRecord, Row

LEMMA InitSubscriptions == Init => SubscriptionsInv
<1> SUFFICES ASSUME Init PROVE SubscriptionsInv
  OBVIOUS
<1> USE SourceAssumption, LifecycleAssumption, NothingPushed DEF Init
<1>1. TypeOK
  <2>1. LifeTypeOK
    BY DEF LifeInit, LifeTypeOK, Phase
  <2>2. pc \in [Request -> Steps] /\ push \in [Push -> PushRecord]
    BY DEF Steps, Over
  <2>3. listed \in [List -> [rows: [Source -> Row], found: SUBSET (Source \X Subscription)]]
    BY DEF NoList, NoRows
  <2>4. /\ sources \in [Source -> Row]
        /\ \A s \in Source : ~Known(s)
    BY DEF Known, NoRows
  <2> QED
    BY <2>1, <2>2, <2>3, <2>4 DEF TypeOK, Steps, PushRecord
<1>2. DefinitionsMatchSource
  BY DEF DefinitionsMatchSource, Known, NoRows
<1>3. TransactionsInv
  BY DEF TransactionsInv, Writing, Known, Over
<1>4. ListingInv /\ ListingIsWhole
  BY DEF ListingInv, ListingIsWhole, NoList, NoRows, Over
<1>5. ProcessInv
  <2>1. SUFFICES ASSUME NEW p \in Process
                 PROVE  ~(closers[p] > 0) /\ ~exiting[p]
    BY Zenon DEF ProcessInv
  <2>2. closers[p] = 0
    BY DEF LifeInit
  <2>3. ~exiting[p]
    BY Zenon DEF LifeInit
  <2> QED
    BY <2>2, <2>3
<1> QED
  BY <1>1, <1>2, <1>3, <1>4, <1>5 DEF SubscriptionsInv

------------------------------------------------------------------------------
(* What a step may leave alone                                             *)

\* The listings keep what they have read while no table changes.
LEMMA ListingsStay ==
  ASSUME SubscriptionsInv, UNCHANGED <<sources, listed, fresh>>,
         \A l \in List : pc'[l] = pc[l]
  PROVE  ListingInv' /\ ListingIsWhole'
<1> USE DEF SubscriptionsInv
<1>1. ListingInv'
  BY DEF ListingInv, Known
<1>2. ListingIsWhole'
  BY DEF ListingIsWhole
<1> QED
  BY <1>1, <1>2

\* A request comes to a process that is not exiting, and one that ends frees its
\* connection or leaves it idle.
LEMMA ProcessStays ==
  ASSUME SubscriptionsInv, NEW r \in Request, UNCHANGED life,
         \A q \in Request \ {r} : pc'[q] = pc[q],
         ClientStep(r, pc[r], pc'[r])
  PROVE  ProcessInv' /\ LifeTypeOK' /\ hungUp' \subseteq Request
<1> DEFINE o == ProcessOf[r]
<1>0. o \in Process
  BY SourceAssumption
<1>1. idle \in [Process -> Nat] /\ hungUp \subseteq Request /\ LifeTypeOK
  BY DEF SubscriptionsInv, TypeOK, LifeTypeOK
<1>2. hungUp' = hungUp
  BY DEF ClientStep, Comes, Ends
<1>3. idle' \in [Process -> Nat] /\ \A p \in Process \ {o} : idle'[p] = idle[p]
  <2>1. CASE Comes(r)
    BY <1>0, <1>1, <2>1 DEF Comes, Arrives
  <2>2. CASE Ends(r)
    BY <1>0, <1>1, <2>2 DEF Ends, Answered
  <2> QED
    BY <1>1, <2>1, <2>2 DEF ClientStep
<1>4. LifeTypeOK'
  BY <1>1, <1>3 DEF LifeTypeOK
<1>5. exiting[o] => /\ pc'[r] \in Over \/ r \in hungUp
                    /\ idle'[o] = 0
  <2> SUFFICES ASSUME exiting[o]
               PROVE  (pc'[r] \in Over \/ r \in hungUp) /\ idle'[o] = 0
    OBVIOUS
  <2>1. phase[o] = "closing" /\ Busy(o) = {} /\ idle[o] = 0
    BY <1>0 DEF SubscriptionsInv, ProcessInv
  <2>2. pc[r] \in Over \/ r \in hungUp
    BY <2>1 DEF Busy, Open
  <2>3. CASE Comes(r)
    BY <2>1, <2>3 DEF Comes, Arrives
  <2>4. CASE Ends(r) /\ pc[r] \notin Over /\ pc'[r] \in Over
    BY <2>1, <2>2, <2>4 DEF Ends
  <2>5. CASE UNCHANGED conns /\ pc[r] \notin Over
    BY <2>1, <2>2, <2>5
  <2> QED
    BY <2>3, <2>4, <2>5 DEF ClientStep
<1>6. ASSUME NEW p \in Process, exiting[p]
      PROVE  Busy(p)' = {} /\ idle'[p] = 0
  <2>1. Busy(p) = {} /\ idle[p] = 0
    BY <1>6 DEF SubscriptionsInv, ProcessInv
  <2>2. CASE p = o
    BY <1>2, <1>5, <1>6, <2>1, <2>2 DEF Busy, Open
  <2>3. CASE p # o
    BY <1>2, <1>3, <1>6, <2>1, <2>3 DEF Busy, Open
  <2> QED
    BY <2>2, <2>3
<1>7. ProcessInv'
  BY <1>6 DEF SubscriptionsInv, ProcessInv
<1> QED
  BY <1>1, <1>2, <1>4, <1>7

------------------------------------------------------------------------------
(* A push                                                                  *)

\* A step that changes the push and the step of one request only, and leaves the
\* tables alone, needs to be looked at for that request.
LEMMA PushStep ==
  ASSUME SubscriptionsInv, NEW r \in Push, NEW to \in Steps, NEW new \in PushRecord,
         UNCHANGED <<life, sources, definitions, listed, fresh>>,
         pc' = [pc EXCEPT ![r] = to], push' = [push EXCEPT ![r] = new],
         ClientStep(r, pc[r], to),
         to # "definitions",
         to \notin Over => new.doc \in Document,
         to = "update" => Known(new.source),
         to = "commit" => new.own = FieldsOf[new.doc],
         to \in {"define", "commit"} => definitions[new.source] \ new.gone = {},
         to \in {"delete", "define", "commit"} =>
           \A q \in Writing \ {r} : push[q].source # new.source
  PROVE  SubscriptionsInv'
<1> USE SourceAssumption DEF SubscriptionsInv
<1>1. /\ \A q \in Push \ {r} : pc'[q] = pc[q] /\ push'[q] = push[q]
      /\ pc'[r] = to /\ push'[r] = new
      /\ \A q \in Request \ {r} : pc'[q] = pc[q]
  BY DEF TypeOK
<1>2. TypeOK'
  <2>1. pc' \in [Request -> Steps] /\ push' \in [Push -> PushRecord]
    BY DEF TypeOK, Steps, PushRecord
  <2>2. LifeTypeOK' /\ hungUp' \subseteq Request
    BY <1>1, ProcessStays
  <2> QED
    BY <2>1, <2>2 DEF TypeOK, Steps, PushRecord
<1>3. DefinitionsMatchSource'
  BY DEF DefinitionsMatchSource, Known
<1>4. TransactionsInv'
  <2>1. Writing' \subseteq Writing \cup {r}
    BY <1>1 DEF Writing
  <2>2. \A q \in Push :
          /\ pc'[q] \notin Over => push'[q].doc \in Document
          /\ pc'[q] = "update" => Known(push'[q].source)
          /\ pc'[q] = "commit" => push'[q].own = FieldsOf[push'[q].doc]
          /\ pc'[q] \in {"define", "commit"} => Left(q)' = {}
    BY <1>1 DEF TransactionsInv, Left
  <2>3. \A q \in Writing' : \A u \in Writing' \ {q} : push'[u].source # push'[q].source
    <3>1. \A q \in Writing' \ {r} : q \in Writing /\ push'[q] = push[q]
      BY <1>1, <2>1 DEF Writing
    <3>2. r \in Writing' => to \in {"delete", "define", "commit"}
      BY <1>1 DEF Writing
    <3> QED
      BY <1>1, <3>1, <3>2 DEF TransactionsInv
  <2> QED
    BY <2>2, <2>3 DEF TransactionsInv, Known
<1>5. ListingInv' /\ ListingIsWhole'
  BY <1>1, ListingsStay DEF TypeOK
<1>6. ProcessInv'
  BY <1>1, ProcessStays
<1> QED
  BY <1>2, <1>3, <1>4, <1>5, <1>6

LEMMA ReceiveStep ==
  ASSUME SubscriptionsInv, NEW r \in Push, NEW s \in Source, NEW d \in Document,
         Receive(r, s, d)
  PROVE  SubscriptionsInv'
<1> DEFINE new == [NoPush EXCEPT !.source = s, !.doc = d]
<1>1. new \in PushRecord /\ new.doc = d
  BY NothingPushed DEF PushRecord, Row
<1>2. /\ pc' = [pc EXCEPT ![r] = "select"] /\ push' = [push EXCEPT ![r] = new]
      /\ ClientStep(r, pc[r], "select")
      /\ UNCHANGED <<life, sources, definitions, listed, fresh>>
  BY DEF Receive, Goto, ClientStep
<1>3. "select" \in Steps
  BY DEF Steps
<1> HIDE DEF new
<1> QED
  BY <1>1, <1>2, <1>3, PushStep

\* The source is known or not; nothing is written.
LEMMA SelectStep ==
  ASSUME SubscriptionsInv, NEW r \in Push, Select(r)
  PROVE  SubscriptionsInv'
<1> DEFINE to == IF Known(push[r].source) THEN "update" ELSE "insert"
<1>1. /\ push[r] \in PushRecord /\ pc[r] = "select"
      /\ push' = [push EXCEPT ![r] = push[r]]
      /\ UNCHANGED <<life, sources, definitions, listed, fresh>>
  BY DEF Select, Goto, SubscriptionsInv, TypeOK, PushRecord
<1>2. pc' = [pc EXCEPT ![r] = to] /\ to \in {"update", "insert"}
  BY DEF Select, Goto
<1>3. to = "update" => Known(push[r].source)
  OBVIOUS
<1>4. push[r].doc \in Document /\ "select" \notin Over /\ to \in Steps
  BY <1>1, <1>2 DEF SubscriptionsInv, TransactionsInv, Over, Steps
<1>5. ClientStep(r, pc[r], to)
  BY <1>1, <1>4 DEF Select, ClientStep
<1> HIDE DEF to
<1> QED
  BY <1>1, <1>2, <1>3, <1>4, <1>5, PushStep

\* Another transaction that wrote the row would hold this one up.
LEMMA NotBlocked ==
  ASSUME SubscriptionsInv, NEW r \in Push, ~Blocked(r)
  PROVE  \A q \in Writing \ {r} : push[q].source # push[r].source
BY DEF Blocked, Writing

LEMMA UpdateStep ==
  ASSUME SubscriptionsInv, NEW r \in Push, Update(r)
  PROVE  SubscriptionsInv'
<1>1. /\ push[r] \in PushRecord /\ pc[r] = "update" /\ push[r].doc \in Document
      /\ \A q \in Writing \ {r} : push[q].source # push[r].source
  BY NotBlocked
     DEF Update, Goto, SubscriptionsInv, TypeOK, PushRecord, TransactionsInv, Over
<1>2. /\ push' = [push EXCEPT ![r] = push[r]] /\ pc' = [pc EXCEPT ![r] = "delete"]
      /\ UNCHANGED <<life, sources, definitions, listed, fresh>>
  BY DEF Update, Goto, SubscriptionsInv, TypeOK
<1>3. "delete" \in Steps /\ ClientStep(r, pc[r], "delete")
  BY <1>1 DEF Steps, Over, Update, ClientStep
<1> QED
  BY <1>1, <1>2, <1>3, PushStep

\* No other transaction that touches this source commits from here on.
LEMMA DeleteStep ==
  ASSUME SubscriptionsInv, NEW r \in Push, Delete(r)
  PROVE  SubscriptionsInv'
<1> DEFINE s == push[r].source
           new == [push[r] EXCEPT !.gone = definitions[s]]
<1>1. /\ push[r] \in PushRecord /\ pc[r] = "delete" /\ s \in Source /\ r \in Writing
      /\ definitions[s] \in SUBSET Subscription
  BY DEF Delete, Goto, SubscriptionsInv, TypeOK, PushRecord, Writing
<1>2. /\ new \in PushRecord /\ new.doc = push[r].doc
      /\ new.source = s /\ new.gone = definitions[s]
  BY <1>1 DEF PushRecord
<1>3. push[r].doc \in Document /\ \A q \in Writing \ {r} : push[q].source # s
  BY <1>1 DEF SubscriptionsInv, TransactionsInv, Over
<1>4. /\ push' = [push EXCEPT ![r] = new] /\ pc' = [pc EXCEPT ![r] = "define"]
      /\ UNCHANGED <<life, sources, definitions, listed, fresh>>
  BY <1>1 DEF Delete, Goto, SubscriptionsInv, TypeOK
<1>5. "define" \in Steps /\ ClientStep(r, pc[r], "define")
  BY <1>1 DEF Steps, Over, Delete, ClientStep
<1>6. definitions[s] \ new.gone = {}
  BY <1>2
<1> HIDE DEF new, s
<1> QED
  BY <1>1, <1>2, <1>3, <1>4, <1>5, <1>6, PushStep

\* What ends has nothing left to keep.
LEMMA Refused ==
  ASSUME SubscriptionsInv, NEW r \in Push, NEW to \in {"failed"}, pc[r] \notin Over,
         pc' = [pc EXCEPT ![r] = to], push' = [push EXCEPT ![r] = NoPush],
         Ends(r), UNCHANGED <<life, tables, listed, fresh>>
  PROVE  SubscriptionsInv'
<1>1. to \in Steps /\ to \in Over /\ ClientStep(r, pc[r], to)
  BY DEF Steps, Over, ClientStep
<1> QED
  BY <1>1, NothingPushed, PushStep

\* The source has no definitions yet.
LEMMA InsertStep ==
  ASSUME SubscriptionsInv, NEW r \in Push, Insert(r)
  PROVE  SubscriptionsInv'
<1> DEFINE s == push[r].source
<1>1. /\ push[r] \in PushRecord /\ pc[r] = "insert" /\ s \in Source
      /\ push[r].doc \in Document /\ "insert" \notin Over
  BY DEF Insert, SubscriptionsInv, TypeOK, PushRecord, TransactionsInv, Over
<1>2. CASE Known(s)
  BY <1>1, <1>2, Refused DEF Insert
<1>3. CASE ~Known(s)
  <2>1. \A q \in Writing \ {r} : push[q].source # s
    BY NotBlocked DEF Insert
  <2>2. definitions[s] \ push[r].gone = {}
    BY <1>1, <1>3 DEF SubscriptionsInv, DefinitionsMatchSource
  <2>3. /\ push' = [push EXCEPT ![r] = push[r]] /\ pc' = [pc EXCEPT ![r] = "define"]
        /\ UNCHANGED <<life, sources, definitions, listed, fresh>>
    BY <1>1, <1>3 DEF Insert, SubscriptionsInv, TypeOK
  <2>4. "define" \in Steps /\ ClientStep(r, pc[r], "define")
    BY <1>1, <1>3 DEF Steps, Insert, ClientStep
  <2> QED
    BY <1>1, <2>1, <2>2, <2>3, <2>4, PushStep
<1> QED
  BY <1>2, <1>3

LEMMA DefineStep ==
  ASSUME SubscriptionsInv, NEW r \in Push, Define(r)
  PROVE  SubscriptionsInv'
<1> DEFINE s == push[r].source
           own == FieldsOf[push[r].doc]
           new == [push[r] EXCEPT !.own = own]
           refused == push[r].doc \in Repeats \/ own \cap Left(r) # {}
<1>1. /\ push[r] \in PushRecord /\ pc[r] = "define" /\ s \in Source /\ r \in Writing
      /\ push[r].doc \in Document /\ "define" \notin Over
      /\ own \in SUBSET Subscription
  BY SourceAssumption
     DEF Define, DefinitionsIn, Goto, SubscriptionsInv, TypeOK, PushRecord, Writing, TransactionsInv, Over
<1>2. CASE refused
  BY <1>1, <1>2, Refused DEF Define, DefinitionsIn, Goto
<1>3. CASE ~refused
  <2>1. /\ new \in PushRecord /\ new.doc = push[r].doc
        /\ new.source = s /\ new.gone = push[r].gone /\ new.own = own
    BY <1>1 DEF PushRecord
  <2>2. /\ \A q \in Writing \ {r} : push[q].source # s
        /\ definitions[s] \ push[r].gone = {}
    BY <1>1 DEF SubscriptionsInv, TransactionsInv, Left
  <2>3. /\ push' = [push EXCEPT ![r] = new] /\ pc' = [pc EXCEPT ![r] = "commit"]
        /\ UNCHANGED <<life, sources, definitions, listed, fresh>>
    BY <1>1, <1>3 DEF Define, DefinitionsIn, Goto, SubscriptionsInv, TypeOK
  <2>4. "commit" \in Steps /\ ClientStep(r, pc[r], "commit")
    BY <1>1, <1>3 DEF Steps, Define, DefinitionsIn, ClientStep
  <2>5. new.own = FieldsOf[new.doc] /\ definitions[s] \ new.gone = {}
    BY <2>1, <2>2
  <2> HIDE DEF new, s, own, refused
  <2> QED
    BY <1>1, <2>1, <2>2, <2>3, <2>4, <2>5, PushStep
<1> QED
  BY <1>2, <1>3

LEMMA FailStep ==
  ASSUME SubscriptionsInv, NEW r \in Push, Fail(r)
  PROVE  SubscriptionsInv'
BY Refused DEF Fail, Over

\* The row and the definitions become those of one document, at once.
LEMMA CommitStep ==
  ASSUME SubscriptionsInv, NEW r \in Push, Commit(r)
  PROVE  SubscriptionsInv'
<1> DEFINE s == push[r].source
<1> USE SourceAssumption DEF SubscriptionsInv
<1>1. /\ push[r] \in PushRecord /\ pc[r] = "commit" /\ s \in Source /\ r \in Writing
      /\ push[r].doc \in Document /\ "commit" \notin Over /\ "answered" \in Over
      /\ "answered" \in Steps
  BY DEF Commit, Goto, TypeOK, PushRecord, Writing, TransactionsInv, Over, Steps
<1>2. /\ push[r].doc # NoDocument
      /\ Left(r) \cup push[r].own = FieldsOf[push[r].doc]
      /\ \A q \in Writing \ {r} : push[q].source # s
  BY <1>1 DEF TransactionsInv
<1>3. /\ \A t \in Source \ {s} : sources'[t] = sources[t] /\ definitions'[t] = definitions[t]
      /\ sources'[s] = push[r].doc /\ definitions'[s] = FieldsOf[push[r].doc]
      /\ sources' \in [Source -> Row]
      /\ definitions' \in [Source -> SUBSET Subscription]
  <2>1. FieldsOf[push[r].doc] \in SUBSET Subscription
    BY <1>1
  <2>2. /\ sources' = [sources EXCEPT ![s] = push[r].doc]
        /\ definitions' = [definitions EXCEPT ![s] = FieldsOf[push[r].doc]]
    BY <1>2 DEF Commit
  <2> QED
    BY <1>1, <1>2, <2>1, <2>2 DEF TypeOK, Row
<1>4. /\ \A q \in Push \ {r} : push'[q] = push[q]
      /\ \A q \in Request \ {r} : pc'[q] = pc[q]
      /\ pc'[r] = "answered"
      /\ pc' \in [Request -> Steps] /\ push' \in [Push -> PushRecord]
  BY <1>1, NothingPushed DEF Commit, Goto, TypeOK, Steps, PushRecord
<1>13. ProcessInv' /\ LifeTypeOK' /\ hungUp' \subseteq Request
  <2>1. UNCHANGED life /\ ClientStep(r, pc[r], pc'[r])
    BY <1>1, <1>4 DEF Commit, ClientStep
  <2> QED
    BY <1>4, <2>1, ProcessStays
<1>5. \A t \in Source : Known(t)' <=> Known(t) \/ t = s
  BY <1>2, <1>3 DEF Known
<1>6. TypeOK'
  <2>1. fresh' \in [List -> SUBSET Source]
    BY DEF TypeOK, Commit
  <2>2. LifeTypeOK' /\ hungUp' \subseteq Request
    BY <1>13
  <2> QED
    BY <1>3, <1>4, <2>1, <2>2 DEF TypeOK, Commit, Steps, PushRecord
<1>7. DefinitionsMatchSource'
  BY <1>2, <1>3, <1>5 DEF DefinitionsMatchSource
<1>8. Writing' = Writing \ {r}
  BY <1>4 DEF Writing
<1>9. TransactionsInv'
  <2>1. \A q \in Push \ {r} :
          /\ pc'[q] \notin Over => push'[q].doc \in Document
          /\ pc'[q] = "update" => Known(push[q].source)'
          /\ pc'[q] = "commit" => push'[q].own = FieldsOf[push'[q].doc]
    <3>1. \A q \in Push : push[q].source \in Source
      BY DEF TypeOK
    <3> QED
      BY <1>4, <1>5, <3>1 DEF TransactionsInv
  <2>2. \A q \in Push \ {r} : pc'[q] \in {"define", "commit"} => Left(q)' = {}
    <3>1. \A q \in Push \ {r} : pc'[q] \in {"define", "commit"} =>
            /\ q \in Writing \ {r} /\ push[q].source \in Source \ {s}
            /\ definitions'[push[q].source] = definitions[push[q].source]
      BY <1>2, <1>3, <1>4 DEF Writing, TypeOK
    <3> QED
      BY <1>4, <3>1 DEF TransactionsInv, Left
  <2>3. \A q \in Writing \ {r} : push'[q] = push[q]
    BY <1>4 DEF Writing
  <2> QED
    BY <1>1, <1>4, <1>8, <2>1, <2>2, <2>3 DEF TransactionsInv
<1>10. \A l \in List : pc'[l] = pc[l] /\ fresh'[l] = fresh[l] \ {s} /\ listed' = listed
  BY <1>4 DEF Commit, TypeOK
<1>11. ListingInv'
  BY <1>3, <1>5, <1>10 DEF ListingInv
<1>12. ListingIsWhole'
  BY <1>10 DEF ListingIsWhole
<1> QED
  BY <1>6, <1>7, <1>9, <1>11, <1>12, <1>13

------------------------------------------------------------------------------
(* A listing                                                               *)

LEMMA ListSourcesStep ==
  ASSUME SubscriptionsInv, NEW l \in List, ListSources(l)
  PROVE  SubscriptionsInv'
<1> USE SourceAssumption DEF SubscriptionsInv
<1>0. PICK S \in Latest :
        listed' = [listed EXCEPT ![l].rows =
                     [s \in Source |-> IF s \in S THEN sources[s] ELSE NoDocument]]
  BY DEF ListSources
<1> DEFINE rows == [s \in Source |-> IF s \in S THEN sources[s] ELSE NoDocument]
<1>1. /\ rows \in [Source -> Row]
      /\ \A s \in Source : rows[s] # NoDocument => s \in S /\ rows[s] = sources[s]
  BY DEF TypeOK, Row
<1>2. \A s, t \in S : NameOf[s] = NameOf[t] => s = t
  <2>1. \A s \in S : \E o \in S : \A u \in S : NameOf[u] = NameOf[s] <=> u = o
    BY <1>0 DEF Latest
  <2> QED
    BY <2>1
<1>3. /\ listed' = [listed EXCEPT ![l].rows = rows]
      /\ fresh' = [fresh EXCEPT ![l] = Source]
      /\ pc' = [pc EXCEPT ![l] = "definitions"] /\ pc[l] = "idle"
      /\ Comes(l) /\ UNCHANGED <<life, tables, push>>
  BY <1>0 DEF ListSources, Goto
<1> HIDE DEF rows
<1>4. /\ \A k \in List \ {l} : listed'[k] = listed[k] /\ fresh'[k] = fresh[k]
      /\ \A r \in Request \ {l} : pc'[r] = pc[r]
      /\ listed'[l].rows = rows /\ fresh'[l] = Source /\ pc'[l] = "definitions"
      /\ listed' \in [List -> [rows: [Source -> Row], found: SUBSET (Source \X Subscription)]]
      /\ pc' \in [Request -> Steps]
  <2>1. listed \in [List -> [rows: [Source -> Row], found: SUBSET (Source \X Subscription)]]
    BY DEF TypeOK
  <2>2. /\ \A k \in List \ {l} : listed'[k] = listed[k]
        /\ listed'[l].rows = rows
        /\ listed' \in [List -> [rows: [Source -> Row], found: SUBSET (Source \X Subscription)]]
    BY <1>1, <1>3, <2>1
  <2>3. /\ \A k \in List \ {l} : fresh'[k] = fresh[k]
        /\ fresh'[l] = Source /\ fresh' \in [List -> SUBSET Source]
    BY <1>3 DEF TypeOK
  <2>4. /\ \A r \in Request \ {l} : pc'[r] = pc[r]
        /\ pc'[l] = "definitions" /\ pc' \in [Request -> Steps]
    BY <1>3 DEF TypeOK, Steps
  <2> QED
    BY <2>2, <2>3, <2>4
<1>10. ProcessInv' /\ LifeTypeOK' /\ hungUp' \subseteq Request
  BY <1>3, <1>4, ProcessStays DEF ClientStep
<1>5. TypeOK'
  <2>1. fresh' \in [List -> SUBSET Source]
    BY <1>3 DEF TypeOK
  <2>2. LifeTypeOK' /\ hungUp' \subseteq Request
    BY <1>10
  <2>3. /\ sources' \in [Source -> Row]
        /\ definitions' \in [Source -> SUBSET Subscription]
        /\ push' \in [Push -> PushRecord]
    BY <1>3 DEF TypeOK, PushRecord
  <2>4. fresh' \in [List -> SUBSET Source] /\ pc' \in [Request -> Steps]
    BY <1>4, <2>1
  <2> QED
    BY <1>4, <2>2, <2>3, <2>4 DEF TypeOK, Steps, PushRecord
<1>6. DefinitionsMatchSource'
  BY <1>3 DEF DefinitionsMatchSource, Known
<1>7. TransactionsInv'
  <2>1. \A r \in Push : pc'[r] = pc[r]
    BY <1>4
  <2>2. Writing' = Writing
    BY <2>1 DEF Writing
  <2> QED
    BY <1>3, <2>1, <2>2 DEF TransactionsInv, Known, Left
<1>8. ListingInv'
  <2>1. \A s \in Source : rows[s] # NoDocument => Known(s) /\ rows[s] = sources[s]
    BY <1>1 DEF Known
  <2>2. \A s, t \in Source : rows[s] # NoDocument /\ rows[t] # NoDocument /\ NameOf[s] = NameOf[t]
                             => s = t
    BY <1>1, <1>2
  <2> QED
    BY <1>3, <1>4, <2>1, <2>2 DEF ListingInv, Known
<1>9. ListingIsWhole'
  BY <1>3, <1>4 DEF ListingIsWhole
<1> QED
  BY <1>5, <1>6, <1>7, <1>8, <1>9, <1>10

\* The definitions of the sources that were found are those of their documents.
LEMMA ListDefinitionsStep ==
  ASSUME SubscriptionsInv, NEW l \in List, ListDefinitions(l)
  PROVE  SubscriptionsInv'
<1> DEFINE ids == {s \in Source : listed[l].rows[s] # NoDocument}
           of == IF ids = {} THEN Source ELSE ids
           found == UNION {{s} \X definitions[s] : s \in of}
<1> USE SourceAssumption DEF SubscriptionsInv
<1>1. /\ listed' = [listed EXCEPT ![l].found = found]
      /\ pc' = [pc EXCEPT ![l] = "answered"] /\ pc[l] = "definitions"
      /\ Ends(l) /\ UNCHANGED <<life, tables, push, fresh>>
  BY DEF ListDefinitions, Goto
<1>2. \A s \in Source : definitions[s] \in SUBSET Subscription
  BY DEF TypeOK
<1>3. found \in SUBSET (Source \X Subscription)
  BY <1>2
<1>4. \A s \in Source : \A x \in Subscription :
        <<s, x>> \in found <=> s \in of /\ x \in definitions[s]
  OBVIOUS
<1>5. of \subseteq Source /\ (ids # {} => of = ids)
  OBVIOUS
<1> HIDE DEF found, of
<1>6. /\ \A k \in List \ {l} : listed'[k] = listed[k]
      /\ \A r \in Request \ {l} : pc'[r] = pc[r]
      /\ listed'[l].rows = listed[l].rows /\ listed'[l].found = found
      /\ pc'[l] = "answered"
      /\ listed' \in [List -> [rows: [Source -> Row], found: SUBSET (Source \X Subscription)]]
      /\ pc' \in [Request -> Steps]
  BY <1>1, <1>3 DEF TypeOK, Steps, Over
<1>12. ProcessInv' /\ LifeTypeOK' /\ hungUp' \subseteq Request
  <2>1. ClientStep(l, pc[l], pc'[l])
    BY <1>1, <1>6 DEF ClientStep, Over
  <2> QED
    BY <1>1, <1>6, <2>1, ProcessStays
<1>7. TypeOK'
  <2>1. LifeTypeOK' /\ hungUp' \subseteq Request
    BY <1>12
  <2> QED
    BY <1>1, <1>6, <2>1 DEF TypeOK, Steps, Known
<1>8. DefinitionsMatchSource'
  BY <1>1 DEF DefinitionsMatchSource, Known
<1>9. TransactionsInv'
  <2>1. \A r \in Push : pc'[r] = pc[r]
    BY <1>6
  <2>2. Writing' = Writing
    BY <2>1 DEF Writing
  <2> QED
    BY <1>1, <2>1, <2>2 DEF TransactionsInv, Known, Left
<1>10. ListingInv'
  BY <1>1, <1>6 DEF ListingInv, Known, Over
<1>11. ListingIsWhole'
  <2> SUFFICES ASSUME ids # {}, NEW s \in Source
               PROVE  LET f == {x \in Subscription : <<s, x>> \in found}
                      IN  IF listed[l].rows[s] = NoDocument THEN f = {}
                          ELSE /\ \E d \in Document : f = FieldsOf[d]
                               /\ s \in fresh[l] => f = FieldsOf[listed[l].rows[s]]
    BY <1>1, <1>6 DEF ListingIsWhole
  <2> DEFINE f == {x \in Subscription : <<s, x>> \in found}
  <2>1. CASE listed[l].rows[s] = NoDocument
    BY <1>4, <1>5, <2>1
  <2>2. CASE listed[l].rows[s] # NoDocument
    <3>1. f = definitions[s] /\ Known(s)
      BY <1>2, <1>4, <1>5, <2>2 DEF ListingInv
    <3>2. f = FieldsOf[sources[s]] /\ sources[s] \in Document
      BY <3>1 DEF DefinitionsMatchSource, TypeOK, Row, Known
    <3>3. s \in fresh[l] => listed[l].rows[s] = sources[s]
      BY <1>1, <2>2 DEF ListingInv
    <3> QED
      BY <2>2, <3>2, <3>3
  <2> QED
    BY <2>1, <2>2
<1> QED
  BY <1>7, <1>8, <1>9, <1>10, <1>11, <1>12

------------------------------------------------------------------------------
(* Processes                                                               *)

\* A process changes nothing that is stored, and none of its requests.
LEMMA LifeStep ==
  ASSUME SubscriptionsInv, UNCHANGED <<tables, pc, push, listed, fresh>>,
         LifeTypeOK', hungUp' \subseteq Request, ProcessInv'
  PROVE  SubscriptionsInv'
<1> USE DEF SubscriptionsInv
<1>1. TypeOK'
  BY DEF TypeOK, Known
<1>2. DefinitionsMatchSource'
  BY DEF DefinitionsMatchSource, Known
<1>3. TransactionsInv'
  BY DEF TransactionsInv, Writing, Known, Left
<1>4. ListingInv' /\ ListingIsWhole'
  BY ListingsStay
<1> QED
  BY <1>1, <1>2, <1>3, <1>4

\* What exits has no connection, and none comes.
LEMMA RunsStep ==
  ASSUME SubscriptionsInv, NEW p \in Process, Runs(p, Busy(p)), UNCHANGED handlers
  PROVE  SubscriptionsInv'
<1> USE LifecycleAssumption DEF SubscriptionsInv, handlers
<1>0. \A o \in Process : Busy(o)' = Busy(o)
  BY DEF Busy, Open
<1>1. hungUp' \subseteq Request /\ LifeTypeOK
  BY DEF TypeOK
<1>2. CASE WarmUp(p) \/ WarmUpFails(p) \/ WarmUpAgain(p)
  <2>1. LifeTypeOK'
    BY <1>1, <1>2 DEF WarmUp, WarmUpFails, WarmUpAgain, To, LifeTypeOK, Phase
  <2>2. ProcessInv'
    BY <1>0, <1>1, <1>2 DEF WarmUp, WarmUpFails, WarmUpAgain, To, LifeTypeOK, ProcessInv
  <2> QED
    BY <1>1, <2>1, <2>2, LifeStep
<1>3. CASE Signal(p)
  <2>1. LifeTypeOK'
    BY <1>1, <1>3 DEF Signal, FailHealthCheck, LifeTypeOK, Phase
  <2>2. ProcessInv'
    BY <1>0, <1>1, <1>3 DEF Signal, FailHealthCheck, LifeTypeOK, ProcessInv
  <2> QED
    BY <1>1, <2>1, <2>2, LifeStep
<1>4. CASE Close(p)
  <2>1. LifeTypeOK'
    <3>1. closers' \in [Process -> 0..MaxSignals] /\ phase' \in [Process -> Phase]
      BY <1>1, <1>4 DEF Close, LifeTypeOK, Phase
    <3>2. idle' \in [Process -> Nat]
      BY <1>1, <1>4 DEF Close, LifeTypeOK
    <3> QED
      BY <1>1, <1>4, <3>1, <3>2 DEF Close, LifeTypeOK
  <2>2. /\ \A o \in Process \ {p} : /\ phase'[o] = phase[o] /\ closers'[o] = closers[o]
                                     /\ idle'[o] = idle[o]
        /\ phase'[p] = "closing" /\ idle'[p] = 0 /\ UNCHANGED exiting
    BY <1>1, <1>4 DEF Close, LifeTypeOK
  <2>3. ProcessInv'
    BY <1>0, <2>2 DEF ProcessInv
  <2> QED
    BY <1>1, <2>1, <2>3, LifeStep
<1>5. CASE Closed(p, Busy(p))
  <2>1. LifeTypeOK'
    BY <1>1, <1>5 DEF Closed, LifeTypeOK
  <2>2. ProcessInv'
    BY <1>0, <1>1, <1>5 DEF Closed, LifeTypeOK, ProcessInv
  <2> QED
    BY <1>1, <2>1, <2>2, LifeStep
<1>6. CASE Disconnect(p)
  <2>1. LifeTypeOK'
    BY <1>1, <1>6 DEF Disconnect, LifeTypeOK
  <2>2. \A o \in Process : idle[o] = 0 => idle'[o] = 0
    BY <1>1, <1>6 DEF Disconnect, LifeTypeOK
  <2>3. ProcessInv'
    BY <1>0, <1>6, <2>2 DEF Disconnect, ProcessInv
  <2> QED
    BY <1>1, <2>1, <2>3, LifeStep
<1> QED
  BY <1>2, <1>3, <1>4, <1>5, <1>6 DEF Runs

\* A connection less keeps no process from exiting.
LEMMA HangUpStep ==
  ASSUME SubscriptionsInv, NEW r \in Request, HangUp(r)
  PROVE  SubscriptionsInv'
<1> USE DEF SubscriptionsInv
<1>1. /\ hungUp' \subseteq Request /\ LifeTypeOK'
      /\ hungUp \subseteq hungUp'
      /\ UNCHANGED <<life, idle, tables, pc, push, listed, fresh>>
  BY DEF HangUp, TypeOK, LifeTypeOK
<1>2. \A o \in Process : Busy(o) = {} => Busy(o)' = {}
  BY <1>1 DEF Busy, Open
<1>3. ProcessInv'
  BY <1>1, <1>2 DEF ProcessInv
<1> QED
  BY <1>1, <1>3, LifeStep

\* The requests of a process that is gone are rolled back.
LEMMA StopStep ==
  ASSUME SubscriptionsInv, NEW p \in Process, Stop(p)
  PROVE  SubscriptionsInv'
<1> USE SourceAssumption, LifecycleAssumption DEF SubscriptionsInv
<1>1. /\ \A r \in Push : \/ (pc'[r] = pc[r] /\ push'[r] = push[r])
                        \/ (pc'[r] = "cut" /\ push'[r] = NoPush)
      /\ \A r \in Request : pc'[r] = pc[r] \/ pc'[r] = "cut"
      /\ UNCHANGED <<hungUp, tables, listed, fresh>>
      /\ "cut" \in Over
  BY DEF Stop, Over
<1>2. pc' \in [Request -> Steps] /\ push' \in [Push -> PushRecord]
  <2>1. pc \in [Request -> Steps] /\ push \in [Push -> PushRecord]
    BY DEF TypeOK, Steps, PushRecord
  <2> QED
    BY <2>1, NothingPushed DEF Stop, Steps, Over
<1>3. LifeTypeOK' /\ ProcessInv'
  <2>1. /\ LifeTypeOK'
        /\ \A o \in Process \ {p} : /\ phase'[o] = phase[o] /\ closers'[o] = closers[o]
                                   /\ (exiting'[o] <=> exiting[o])
                                   /\ idle'[o] = idle[o]
        /\ closers'[p] = 0 /\ ~exiting'[p]
    <3>1. LifeTypeOK
      BY DEF TypeOK
    <3>2. /\ phase' = [phase EXCEPT ![p] = "exited"]
          /\ closers' = [closers EXCEPT ![p] = 0]
          /\ exiting' = [exiting EXCEPT ![p] = FALSE]
          /\ idle' = [idle EXCEPT ![p] = 0]
          /\ terminated' = terminated
          /\ killed' = killed \/ killed' = [killed EXCEPT ![p] = TRUE]
      BY DEF Stop, Stops, Exit, Kill, Gone
    <3>3. LifeTypeOK'
      <4>1. killed' \in [Process -> BOOLEAN]
        <5>1. killed \in [Process -> BOOLEAN]
          BY <3>1 DEF LifeTypeOK
        <5>2. CASE killed' = [killed EXCEPT ![p] = TRUE]
          BY <5>1, <5>2
        <5> QED
          BY <3>2, <5>1, <5>2
      <4>2. /\ phase' \in [Process -> Phase] /\ closers' \in [Process -> 0..MaxSignals]
            /\ exiting' \in [Process -> BOOLEAN]
        BY <3>1, <3>2 DEF LifeTypeOK, Phase
      <4>3. idle' \in [Process -> Nat]
        BY <3>1, <3>2 DEF LifeTypeOK
      <4> QED
        BY <3>1, <3>2, <4>1, <4>2, <4>3 DEF LifeTypeOK
    <3>4. \A o \in Process \ {p} : idle'[o] = idle[o]
      BY <3>1, <3>2 DEF LifeTypeOK
    <3>5. ~exiting'[p] /\ \A o \in Process \ {p} : (exiting'[o] <=> exiting[o])
      BY <3>1, <3>2 DEF LifeTypeOK
    <3> QED
      BY <3>1, <3>2, <3>3, <3>4, <3>5 DEF LifeTypeOK
  <2>2. \A o \in Process : Busy(o)' \subseteq Busy(o)
    BY <1>1 DEF Busy, Open
  <2>3. ProcessInv'
    BY <2>1, <2>2 DEF ProcessInv
  <2> QED
    BY <2>1, <2>3
<1>4. TypeOK'
  BY <1>1, <1>2, <1>3 DEF TypeOK, Known, Steps, PushRecord
<1>5. DefinitionsMatchSource'
  BY <1>1 DEF DefinitionsMatchSource, Known
<1>6. TransactionsInv'
  <2>1. \A r \in Push : pc'[r] \in Over \/ (pc'[r] = pc[r] /\ push'[r] = push[r])
    BY <1>1
  <2>2. \A r \in Writing' : r \in Writing /\ push'[r] = push[r]
    BY <1>1 DEF Writing
  <2>3. \A r \in Push :
          /\ pc'[r] \notin Over => push'[r].doc \in Document
          /\ pc'[r] = "update" => Known(push[r].source) /\ push'[r] = push[r]
          /\ pc'[r] = "commit" => push'[r].own = FieldsOf[push'[r].doc]
          /\ pc'[r] \in {"define", "commit"} => Left(r) = {} /\ push'[r] = push[r]
    BY <1>1 DEF TransactionsInv
  <2>4. \A r \in Push : pc'[r] \in {"define", "commit"} => Left(r)' = {}
    BY <1>1, <2>3 DEF Left
  <2>5. \A r \in Push : pc'[r] = "update" => Known(push[r].source)' /\ push'[r] = push[r]
    BY <1>1, <2>3 DEF Known
  <2> QED
    BY <1>1, <2>2, <2>3, <2>4, <2>5 DEF TransactionsInv, Known
<1>7. ListingInv'
  BY <1>1 DEF ListingInv, Known, Over
<1>8. ListingIsWhole'
  BY <1>1 DEF ListingIsWhole
<1> QED
  BY <1>3, <1>4, <1>5, <1>6, <1>7, <1>8

------------------------------------------------------------------------------
\* One lemma for each action.
LEMMA NextSubscriptions ==
  ASSUME SubscriptionsInv, [Next]_vars
  PROVE  SubscriptionsInv'
<1>1. CASE \E p \in Process :
             \/ Runs(p, Busy(p)) /\ UNCHANGED handlers
             \/ Stop(p)
  BY <1>1, RunsStep, StopStep
<1>2. CASE \E r \in Push : Fail(r) \/ \E s \in Source, d \in Document : Receive(r, s, d)
  BY <1>2, FailStep, ReceiveStep
<1>3. CASE \E l \in List : ListSources(l)
  BY <1>3, ListSourcesStep
<1>4. CASE \E r \in Request : Handle(r) \/ HangUp(r)
  BY <1>4, SelectStep, UpdateStep, DeleteStep, InsertStep, DefineStep, CommitStep,
     ListDefinitionsStep, HangUpStep DEF Handle
<1>5. CASE UNCHANGED vars
  <2>1. LifeTypeOK' /\ hungUp' \subseteq Request
    BY <1>5 DEF SubscriptionsInv, TypeOK, LifeTypeOK
  <2>2. ProcessInv'
    BY <1>5 DEF SubscriptionsInv, ProcessInv, Busy, Open
  <2> QED
    BY <1>5, <2>1, <2>2, LifeStep
<1> QED
  BY <1>1, <1>2, <1>3, <1>4, <1>5 DEF Next

\* The invariant holds throughout (src/src/database/subscriptions.ts:108).
THEOREM SubscriptionsInvariance == Spec => []SubscriptionsInv
<1>1. Init => SubscriptionsInv
  BY InitSubscriptions
<1>2. SubscriptionsInv /\ [Next]_vars => SubscriptionsInv'
  BY NextSubscriptions
<1> QED
  BY <1>1, <1>2, PTL DEF Spec

\* Every variable holds a value of its kind
\* (src/src/database/subscriptions.ts:108).
THEOREM SubscriptionsTypes == Spec => []TypeOK
<1>1. SubscriptionsInv => TypeOK
  BY DEF SubscriptionsInv
<1> QED
  BY <1>1, SubscriptionsInvariance, PTL

\* A source has the definitions of its document, whatever overlaps, fails or
\* goes down (src/src/database/subscriptions.ts:128).
THEOREM SourcesMatch == Spec => []DefinitionsMatchSource
<1>1. SubscriptionsInv => DefinitionsMatchSource
  BY DEF SubscriptionsInv
<1> QED
  BY <1>1, SubscriptionsInvariance, PTL

\* A listing that found a source tells whole sources
\* (src/src/router/subscriptions.ts:23).
THEOREM WholeListings == Spec => []ListingIsWhole
<1>1. SubscriptionsInv => ListingIsWhole
  BY DEF SubscriptionsInv
<1> QED
  BY <1>1, SubscriptionsInvariance, PTL

\* A process exits on a request whose client waits only when it is killed
\* (src/src/index.ts:86).
THEOREM Drained == Spec => DrainedBeforeExit
<1>1. ASSUME SubscriptionsInv, [Next]_vars, NEW p \in Process,
             phase[p] # "exited", phase'[p] = "exited", Busy(p) # {}
      PROVE  killed'[p]
  <2> USE DEF SubscriptionsInv, TypeOK, LifeTypeOK
  <2>1. \E o \in Process : Stop(o)
    <3>1. CASE \E o \in Process : Runs(o, Busy(o))
      BY <1>1, <3>1 DEF Runs, WarmUp, WarmUpFails, WarmUpAgain, To, Signal, Close, Closed,
         Disconnect
    <3>2. CASE UNCHANGED life
      BY <1>1, <3>2
    <3>3. Next \/ UNCHANGED vars
      BY <1>1
    <3>4. (\E r \in Push : Fail(r)) => UNCHANGED life
      BY DEF Fail
    <3>5. (\E r \in Push, s \in Source, d \in Document : Receive(r, s, d)) => UNCHANGED life
      BY DEF Receive
    <3>6. (\E l \in List : ListSources(l)) => UNCHANGED life
      BY DEF ListSources
    <3>7. (\E r \in Request : Handle(r) \/ HangUp(r)) => UNCHANGED life
      BY DEF HangUp, Handle, Select, Update, Delete, Insert, Define, Commit, ListDefinitions
    <3> QED
      BY <3>1, <3>2, <3>3, <3>4, <3>5, <3>6, <3>7 DEF Next
  <2>2. PICK o \in Process : Stop(o)
    BY <2>1
  <2>3. o = p
    BY <1>1, <2>2 DEF Stop, Stops, Exit, Kill, Gone
  <2>4. CASE Kill(p)
    <3>1. killed \in [Process -> BOOLEAN] /\ killed' = [killed EXCEPT ![p] = TRUE]
      BY <1>1, <2>4 DEF Kill
    <3> QED
      BY <3>1
  <2>5. CASE Exit(p)
    <3>1. exiting[p] /\ killed' = killed
      BY <2>5 DEF Exit
    <3> QED
      BY <1>1, <3>1 DEF ProcessInv
  <2> QED
    BY <2>2, <2>3, <2>4, <2>5 DEF Stop, Stops
<1>2. SubscriptionsInv /\ [Next]_vars =>
        [\A p \in Process :
           phase[p] # "exited" /\ phase'[p] = "exited" /\ Busy(p) # {} => killed'[p]]_vars
  BY <1>1
<1> QED
  BY <1>2, SubscriptionsInvariance, PTL DEF Spec, DrainedBeforeExit

=============================================================================
