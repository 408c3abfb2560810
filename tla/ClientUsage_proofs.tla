--------------------------- MODULE ClientUsage_proofs ---------------------------
(***************************************************************************)
(* Proofs about ClientUsage, for any clients, queries, stores and uses.    *)
(***************************************************************************)
EXTENDS ClientUsage, TLAPS

USE DEF memory, loops, tables, history, vars

\* The lists that go their own way keep what was used.
LEMMA DetachedKeeps ==
  ASSUME UseInv, NEW S \in SUBSET Client
  PROVE  /\ Detached(S) \in [Sync -> [Client -> SUBSET Query]]
         /\ \A s \in Sync : \A c \in Client :
              {c} \X Detached(S)[s][c] \subseteq used
  BY DEF UseInv, TypeOK, NotesInv, Detached

LEMMA InitUse == Init => UseInv
  BY DEF Init, UseInv, TypeOK, NotesInv, LoopsInv, LinksInv, CalmInv, NoNotes,
         Running

\* A client without a dot keeps its list: it is found whenever it is cached.
LEMMA AddUse ==
  ASSUME UseInv, NEW c \in Client, NEW Q \in SUBSET Query, Add(c, Q)
  PROVE  UseInv'
<1> USE DEF UseInv, Add
<1>1. /\ Detached({c}) \in [Sync -> [Client -> SUBSET Query]]
      /\ \A s \in Sync : \A d \in Client :
           {d} \X Detached({c})[s][d] \subseteq used
  BY DetachedKeeps
<1>2. TypeOK'
  <2>1. {c} \X Q \subseteq Client \X Query
    OBVIOUS
  <2>2. used' \subseteq Client \X Query /\ calm' \subseteq used'
    BY <2>1 DEF TypeOK
  <2>3. noted' \in [Client -> SUBSET Query] /\ cached' \subseteq Client
    BY DEF TypeOK
  <2>4. /\ shared' \in [Sync -> SUBSET Client]
        /\ held' \in [Sync -> [Client -> SUBSET Query]]
    <3>1. CASE Found(c)
      BY <3>1 DEF TypeOK
    <3>2. CASE ~Found(c)
      <4>1. \A s \in Sync : shared[s] \ {c} \in SUBSET Client
        BY DEF TypeOK
      <4> QED
        BY <1>1, <3>2, <4>1
    <3> QED
      BY <3>1, <3>2
  <2> QED
    BY <2>2, <2>3, <2>4 DEF TypeOK
<1>3. NotesInv'
  <2>1. \A d \in Client : {d} \X noted'[d] \subseteq used'
    BY DEF TypeOK, NotesInv
  <2>2. \A d \in Client : d \notin cached' => noted'[d] = {}
    BY DEF TypeOK, NotesInv
  <2>3. \A d \in Client : \A s \in Sync : {d} \X held'[s][d] \subseteq used'
    BY <1>1 DEF TypeOK, NotesInv
  <2> QED
    BY <2>1, <2>2, <2>3 DEF NotesInv
<1>4. LoopsInv'
  BY DEF TypeOK, LoopsInv, Stored
<1>5. LinksInv'
  BY DEF LinksInv
<1>6. CalmInv'
  <2> SUFFICES ASSUME NEW u \in calm', u[1] \notin Dotted, ~Stored(u)'
               PROVE  /\ u[2] \in noted'[u[1]]
                      /\ \A s \in Running' : /\ u[1] \in shared'[s]
                                            /\ u[1] \in todo'[s] \cup {at'[s]}
    BY DEF CalmInv
  <2>1. Running' = Running /\ ~Stored(u)
    BY DEF Running, Stored
  <2>2. u[1] \in Client
    BY <1>2 DEF TypeOK
  <2>3. CASE u \in calm
    <3>1. /\ u[2] \in noted[u[1]]
          /\ \A s \in Running : /\ u[1] \in shared[s]
                                /\ u[1] \in todo[s] \cup {at[s]}
      BY <2>1, <2>3 DEF CalmInv
    <3>2. u[1] \in cached
      BY <2>2, <3>1 DEF NotesInv
    <3>3. u[1] = c => Found(c)
      BY <3>2 DEF Found
    <3> QED
      BY <2>1, <2>2, <3>1, <3>3 DEF TypeOK, Running
  <2>4. CASE u \notin calm
    <3>1. Running = {} /\ u[1] = c /\ u[2] \in Q
      BY <2>4
    <3> QED
      BY <2>1, <3>1 DEF TypeOK
  <2> QED
    BY <2>3, <2>4
<1> QED
  BY <1>2, <1>3, <1>4, <1>5, <1>6

\* A new store shares every list of the cache.
LEMMA StartUse ==
  ASSUME UseInv, NEW s \in Sync, StartSync(s)
  PROVE  UseInv'
<1> USE DEF UseInv, StartSync
<1>1. TypeOK'
  BY DEF TypeOK
<1>2. NotesInv' /\ LoopsInv' /\ LinksInv'
  BY DEF TypeOK, NotesInv, LoopsInv, LinksInv, Stored
<1>3. CalmInv'
  <2> SUFFICES ASSUME NEW u \in calm, u[1] \notin Dotted, ~Stored(u),
                      NEW o \in Running'
               PROVE  /\ u[2] \in noted[u[1]]
                      /\ u[1] \in shared'[o]
                      /\ u[1] \in todo'[o] \cup {at'[o]}
    BY DEF CalmInv, Stored
  <2>1. u[2] \in noted[u[1]] /\ u[1] \in Client
    BY DEF CalmInv, TypeOK
  <2>2. u[1] \in cached
    BY <2>1 DEF NotesInv
  <2>3. CASE o = s
    BY <2>1, <2>2, <2>3 DEF TypeOK
  <2>4. CASE o # s
    <3>1. o \in Running
      BY <2>4 DEF Running, TypeOK
    <3> QED
      BY <2>1, <2>4, <3>1 DEF CalmInv, TypeOK, Running
  <2> QED
    BY <2>3, <2>4
<1> QED
  BY <1>1, <1>2, <1>3

LEMMA SaveClientUse ==
  ASSUME UseInv, NEW s \in Sync, SaveClient(s)
  PROVE  UseInv'
<1> USE DEF UseInv, SaveClient
<1>1. at[s] \in Client
  BY DEF TypeOK
<1>2. TypeOK'
  BY <1>1 DEF TypeOK
<1>3. NotesInv' /\ LoopsInv' /\ LinksInv'
  BY DEF TypeOK, NotesInv, LoopsInv, LinksInv, Stored
<1>4. CalmInv'
  BY DEF TypeOK, CalmInv, Stored, Running
<1> QED
  BY <1>2, <1>3, <1>4

\* What a store goes over was used, in the cache or on a list of its own.
LEMMA ListUsed ==
  ASSUME UseInv, NEW s \in Sync, NEW c \in Client
  PROVE  /\ List(s, c) \subseteq Query
         /\ {c} \X List(s, c) \subseteq used
  BY DEF UseInv, TypeOK, NotesInv, List

LEMMA SaveQueryUse ==
  ASSUME UseInv, NEW s \in Sync, NEW q \in Query, SaveQuery(s, q)
  PROVE  UseInv'
<1> USE DEF UseInv, SaveQuery
<1>1. at[s] \in Client
  BY DEF TypeOK
<1>2. <<at[s], q>> \in used
  BY <1>1, ListUsed
<1>3. TypeOK'
  BY <1>1 DEF TypeOK
<1>4. NotesInv'
  BY <1>2 DEF NotesInv
<1>5. \A u : Stored(u) => Stored(u)'
  BY DEF Stored
<1>6. Stored(<<at[s], q>>)'
  BY DEF Stored
<1>7. LoopsInv'
  BY <1>5, <1>6 DEF TypeOK, LoopsInv
<1>8. LinksInv'
  BY DEF LinksInv, LoopsInv
<1>9. CalmInv'
  BY <1>5 DEF TypeOK, CalmInv, Running
<1> QED
  BY <1>3, <1>4, <1>7, <1>8, <1>9

\* When a store leaves a client, nothing of its list is left to store.
LEMMA DoneStored ==
  ASSUME UseInv, NEW s \in Sync, Done(s), NEW u \in calm,
         u[1] \notin Dotted, ~Stored(u)
  PROVE  u[1] \in todo[s]
<1> USE DEF UseInv
<1>1. s \in Running
  BY DEF Done, Running
<1>2. /\ u[2] \in noted[u[1]]
      /\ u[1] \in shared[s] /\ u[1] \in todo[s] \cup {at[s]}
  BY <1>1 DEF CalmInv
<1>3. u = <<u[1], u[2]>>
  BY DEF TypeOK
<1>4. u[1] = at[s] => u[2] \in tried[s]
  BY <1>2 DEF Done, List
<1>5. u[1] # at[s]
  BY <1>3, <1>4 DEF LoopsInv, Done
<1> QED
  BY <1>2, <1>5

LEMMA NextClientUse ==
  ASSUME UseInv, NEW s \in Sync, NextClient(s)
  PROVE  UseInv'
<1> USE DEF UseInv, NextClient, Advance
<1>1. TypeOK'
  BY DEF TypeOK
<1>2. NotesInv' /\ LoopsInv' /\ LinksInv'
  BY DEF TypeOK, NotesInv, LoopsInv, LinksInv, Stored
<1>3. CalmInv'
  <2> SUFFICES ASSUME NEW u \in calm, u[1] \notin Dotted, ~Stored(u)
               PROVE  /\ u[2] \in noted[u[1]]
                      /\ \A o \in Running' : /\ u[1] \in shared[o]
                                            /\ u[1] \in todo'[o] \cup {at'[o]}
    BY DEF CalmInv, Stored
  <2>1. Running' = Running
    BY DEF Running, Done, TypeOK
  <2>2. u[1] \in todo[s]
    BY DoneStored
  <2>3. u[1] \in todo'[s] \cup {at'[s]}
    BY <2>2 DEF TypeOK
  <2>4. \A o \in Running : o # s => todo'[o] = todo[o] /\ at'[o] = at[o]
    BY DEF TypeOK, Running
  <2> QED
    BY <2>1, <2>3, <2>4 DEF CalmInv
<1> QED
  BY <1>1, <1>2, <1>3

\* Whichever store ends first has stored every use of before it began.
LEMMA FinishUse ==
  ASSUME UseInv, NEW s \in Sync, Finish(s)
  PROVE  UseInv'
<1> USE DEF UseInv, Finish, Reset
<1>1. /\ Detached(Client) \in [Sync -> [Client -> SUBSET Query]]
      /\ \A o \in Sync : \A d \in Client :
           {d} \X Detached(Client)[o][d] \subseteq used
  BY DetachedKeeps
<1>2. TypeOK'
  BY <1>1 DEF TypeOK, NoNotes
<1>3. NotesInv'
  BY <1>1 DEF TypeOK, NotesInv, NoNotes
<1>4. LoopsInv' /\ LinksInv'
  BY DEF TypeOK, LoopsInv, LinksInv, Stored
<1>5. CalmInv'
  BY DoneStored DEF CalmInv, Stored
<1> QED
  BY <1>2, <1>3, <1>4, <1>5

LEMMA LostUse ==
  ASSUME UseInv, Lost
  PROVE  UseInv'
<1> USE DEF UseInv, Lost
<1>1. TypeOK'
  BY DEF TypeOK, NoNotes
<1>2. NotesInv' /\ LoopsInv' /\ LinksInv'
  BY DEF TypeOK, NotesInv, LoopsInv, LinksInv, NoNotes
<1>3. CalmInv'
  BY DEF CalmInv, Stored
<1> QED
  BY <1>1, <1>2, <1>3

LEMMA RegisterUse ==
  ASSUME UseInv, NEW q \in Query, Register(q)
  PROVE  UseInv'
  BY DEF UseInv, Register, TypeOK, NotesInv, LoopsInv, LinksInv, CalmInv,
         Stored, Running

LEMMA StepUse == UseInv /\ [Next]_vars => UseInv'
<1> SUFFICES ASSUME UseInv, [Next]_vars
             PROVE  UseInv'
  OBVIOUS
<1>1. ASSUME NEW c \in Client, NEW Q \in {{}} \cup {{q} : q \in Query}, Add(c, Q)
      PROVE  UseInv'
  <2>1. Q \in SUBSET Query
    OBVIOUS
  <2> QED
    BY <1>1, <2>1, AddUse
<1>2. ASSUME NEW c \in Client, AddThrows(c)
      PROVE  UseInv'
  BY <1>2, LostUse DEF AddThrows
<1>3. ASSUME NEW s \in Sync, StartSync(s)
      PROVE  UseInv'
  BY <1>3, StartUse
<1>4. ASSUME NEW s \in Sync, SaveClient(s)
      PROVE  UseInv'
  BY <1>4, SaveClientUse
<1>5. ASSUME NEW s \in Sync, NextClient(s)
      PROVE  UseInv'
  BY <1>5, NextClientUse
<1>6. ASSUME NEW s \in Sync, Finish(s)
      PROVE  UseInv'
  BY <1>6, FinishUse
<1>7. ASSUME NEW s \in Sync, NEW q \in Query, SaveQuery(s, q)
      PROVE  UseInv'
  BY <1>7, SaveQueryUse
<1>8. ASSUME NEW q \in Query, Register(q)
      PROVE  UseInv'
  BY <1>8, RegisterUse
<1>9. CASE Crash
  BY <1>9, LostUse DEF Crash
<1>10. CASE UNCHANGED vars
  BY <1>10 DEF UseInv, TypeOK, NotesInv, LoopsInv, LinksInv, CalmInv, Stored,
               Running
<1> QED
  BY <1>1, <1>2, <1>3, <1>4, <1>5, <1>6, <1>7, <1>8, <1>9, <1>10 DEF Next

\* The cache, the stores on their way and the tables always fit together
\* (src/src/database/clients.ts:59).
THEOREM UseInvariance == Spec => []UseInv
<1>1. Init => UseInv
  BY InitUse
<1>2. UseInv /\ [Next]_vars => UseInv'
  BY StepUse
<1> QED
  BY <1>1, <1>2, PTL DEF Spec

\* Every variable keeps its type.
THEOREM UseTypes == Spec => []TypeOK
<1>1. UseInv => TypeOK
  BY DEF UseInv
<1> QED
  BY <1>1, UseInvariance, PTL

\* A use that came in between two stores is not forgotten, however many stores
\* overlap: what no store has stored yet is still in the cache, since a store
\* that resets it has stored all of it.
THEOREM UsesKept == Spec => []CalmUsesKept
<1>1. UseInv => CalmUsesKept
  <2> SUFFICES ASSUME UseInv, NEW u \in calm, u[1] \notin Dotted
               PROVE  Accounted(u[1], u[2])
    BY DEF CalmUsesKept
  <2>1. u = <<u[1], u[2]>>
    BY DEF UseInv, TypeOK
  <2> QED
    BY <2>1 DEF UseInv, CalmInv, Accounted
<1> QED
  BY <1>1, UseInvariance, PTL

\* A client is linked to what it used, and both are in their tables.
THEOREM TrueLinks == Spec => []LinksAreTrue
<1>1. UseInv => LinksAreTrue
  BY DEF UseInv, NotesInv, LinksInv, LinksAreTrue
<1> QED
  BY <1>1, UseInvariance, PTL
=============================================================================
