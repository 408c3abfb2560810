------------------------------ MODULE ClientUsage ------------------------------
(***************************************************************************)
(* Which client uses which persisted query (src/src/database/clients.ts).  *)
(* The worker notes it in a nested object in its memory, by name and then  *)
(* by version; a timer copies the object's entries to a list and stores    *)
(* them one by one.  The list of an entry is shared with the object, so    *)
(* what is noted meanwhile may still be stored.  Another store may start   *)
(* before the last one has ended.                                          *)
(*                                                                         *)
(* An entry is looked up by a path, "name.version".  lodash takes it for a *)
(* key of the object if it is one and splits it at every dot if not: where *)
(* a name or a version has a dot of its own, the entry is not found.  A    *)
(* name with a dot may also spell the path of another client.              *)
(***************************************************************************)
EXTENDS Naturals

CONSTANTS
  Client,      \* pairs of a name and a version
  NameOf,      \* NameOf[c]: the name of c
  Dotted,      \* the clients with a dot in their name or version
  SpelledBy,   \* SpelledBy[c]: the clients whose name is the path of c
  Query,       \* the keys of persisted queries
  Sync,        \* the stores that may be in progress at once
  MaxUses      \* how many uses come in

ASSUME ClientAssumption ==
  /\ DOMAIN NameOf = Client
  /\ Dotted \subseteq Client
  /\ SpelledBy \in [Client -> SUBSET Dotted]
  /\ MaxUses \in Nat

VARIABLES
  cached,    \* the clients internalCache has an entry for
  noted,     \* noted[c]: the queries in that entry
  pc,        \* pc[s]: the step store s does next
  at,        \* at[s]: the client it is storing
  todo,      \* todo[s]: those after it
  shared,    \* shared[s]: those whose list is the one of the cache
  held,      \* held[s][c]: the list of c, once it is not
  tried,     \* tried[s]: what of the list of at[s] was inserted
  clients,   \* the table clients
  queries,   \* the table persisted_queries
  rel,       \* the table clients_persisted_queries_rel
  uses,      \* bound: the uses that may still come in
  used,      \* history: the uses that came in
  calm,      \* history: those that came in between two stores
  refused    \* history: the pairs an insert was refused for

memory  == <<cached, noted>>
loops   == <<pc, at, todo, shared, held, tried>>
tables  == <<clients, queries, rel>>
history == <<used, calm, refused>>
vars == <<memory, loops, tables, uses, history>>

NoClient == "none"

NoNotes == [c \in Client |-> {}]

Init ==
  /\ cached = {} /\ noted = NoNotes
  /\ pc = [s \in Sync |-> "idle"]
  /\ at = [s \in Sync |-> NoClient]
  /\ todo = [s \in Sync |-> {}]
  /\ shared = [s \in Sync |-> {}]
  /\ held = [s \in Sync |-> NoNotes]
  /\ tried = [s \in Sync |-> {}]
  /\ clients = {} /\ queries \in SUBSET Query /\ rel = {}
  /\ uses = MaxUses
  /\ used = {} /\ calm = {} /\ refused = {}

Running == {s \in Sync : pc[s] # "idle"}

\* Lists of the cache that go their own way keep what they have.
Detached(S) ==
  [s \in Sync |-> [c \in Client |->
     IF c \in S /\ c \in shared[s] THEN noted[c] ELSE held[s][c]]]

\* The list store s goes over for client c.
List(s, c) == IF c \in shared[s] THEN noted[c] ELSE held[s][c]

------------------------------------------------------------------------------
(* add                                                                     *)

NameCached(c) == \E o \in cached : NameOf[o] = NameOf[c]

\* The path of c is the name of a client in the cache.
IsName(c) == \E o \in cached : o \in SpelledBy[c]

\* What is found is not of c: its name is read as the path of another client,
\* or its path is a name.
Misread(c) ==
  \/ ~NameCached(c) /\ \E o \in cached : c \in SpelledBy[o]
  \/ c \notin cached /\ IsName(c)

\* Faulty: the entry is made anew whenever it is used.
FoundNever(c) == FALSE

\* The entry of c is there and is found, or seems to be.
Found(c) == c \in cached /\ (c \notin Dotted \/ IsName(c))

\* An entry that is not found is replaced by one with an empty list.  A request
\* without a persisted query only makes the entry.
Add(c, Q) ==
  /\ uses > 0 /\ uses' = uses - 1
  /\ ~Misread(c)
  /\ cached' = cached \cup {c}
  /\ noted' = [noted EXCEPT ![c] = IF Found(c) THEN @ \cup Q ELSE Q]
  /\ IF Found(c)
     THEN UNCHANGED <<shared, held>>
     ELSE /\ held' = Detached({c})
          /\ shared' = [s \in Sync |-> shared[s] \ {c}]
  /\ used' = used \cup ({c} \X Q)
  /\ calm' = IF Running = {} THEN calm \cup ({c} \X Q) ELSE calm
  /\ UNCHANGED <<pc, at, todo, tried, tables, refused>>

------------------------------------------------------------------------------
(* syncUniqueClientsToDb: getFlatClients, then the loop over its result.   *)

\* Object.entries has an order; any order will do here.  A store of an empty
\* cache ends at once.
StartSync(s) ==
  /\ pc[s] = "idle" /\ cached # {}
  /\ \E c \in cached : /\ at' = [at EXCEPT ![s] = c]
                       /\ todo' = [todo EXCEPT ![s] = cached \ {c}]
  /\ pc' = [pc EXCEPT ![s] = "client"]
  /\ shared' = [shared EXCEPT ![s] = cached]
  /\ UNCHANGED <<memory, held, tried, tables, uses, history>>

\* addClientVersion
SaveClient(s) ==
  /\ pc[s] = "client"
  /\ pc' = [pc EXCEPT ![s] = "queries"]
  /\ tried' = [tried EXCEPT ![s] = {}]
  /\ clients' = clients \cup {at[s]}
  /\ UNCHANGED <<memory, at, todo, shared, held, queries, rel, uses, history>>

\* savePQClientMapping: one insert.  It fails for a query that is not
\* registered, or for another reason; either is logged and the loop goes on.
SaveQuery(s, q) ==
  /\ pc[s] = "queries" /\ q \in List(s, at[s]) \ tried[s]
  /\ tried' = [tried EXCEPT ![s] = @ \cup {q}]
  /\ \/ /\ q \in queries
        /\ rel' = rel \cup {<<at[s], q>>}
        /\ UNCHANGED refused
     \/ /\ refused' = refused \cup {<<at[s], q>>}
        /\ UNCHANGED rel
  /\ UNCHANGED <<memory, pc, at, todo, shared, held, clients, queries, uses,
                 used, calm>>

\* Nothing is left of the list of at[s] by now.
Done(s) == pc[s] = "queries" /\ List(s, at[s]) \subseteq tried[s]

\* The loop goes on with client c.
Advance(s, c, step) ==
  /\ pc' = [pc EXCEPT ![s] = step]
  /\ at' = [at EXCEPT ![s] = c]
  /\ todo' = [todo EXCEPT ![s] = @ \ {c}]
  /\ UNCHANGED <<memory, shared, held, tried, tables, uses, history>>

NextClient(s) == Done(s) /\ \E c \in todo[s] : Advance(s, c, "client")

\* The cache is reset, for whichever store is still on its way too.
Reset(s) ==
  /\ cached' = {} /\ noted' = NoNotes
  /\ pc' = [pc EXCEPT ![s] = "idle"]
  /\ at' = [at EXCEPT ![s] = NoClient]
  /\ todo' = [todo EXCEPT ![s] = {}]
  /\ shared' = [o \in Sync |-> {}]
  /\ held' = [Detached(Client) EXCEPT ![s] = NoNotes]
  /\ tried' = [tried EXCEPT ![s] = {}]
  /\ UNCHANGED <<tables, uses, history>>

\* Faulty: the cache is reset when its first client is stored.
FinishEarly(s) == Done(s) /\ Reset(s)

Finish(s) == Done(s) /\ todo[s] = {} /\ Reset(s)

------------------------------------------------------------------------------
(* The registration of a query, and the end of the process.                *)

Register(q) ==
  /\ q \notin queries
  /\ queries' = queries \cup {q}
  /\ UNCHANGED <<memory, loops, clients, rel, uses, history>>

Lost ==
  /\ cached' = {} /\ noted' = NoNotes
  /\ pc' = [s \in Sync |-> "idle"]
  /\ at' = [s \in Sync |-> NoClient]
  /\ todo' = [s \in Sync |-> {}]
  /\ shared' = [s \in Sync |-> {}]
  /\ held' = [s \in Sync |-> NoNotes]
  /\ tried' = [s \in Sync |-> {}]
  /\ calm' = calm \cap (rel \cup refused)
  /\ UNCHANGED <<tables, used, refused>>

\* The process dies, or the statement of addClientVersion fails.
Crash == Lost /\ UNCHANGED uses

\* A part of an entry is set or read that is not there, which throws, and
\* nothing handles it.
AddThrows(c) ==
  /\ uses > 0 /\ uses' = uses - 1
  /\ Misread(c)
  /\ Lost

Next ==
  \/ \E c \in Client :
       \/ \E Q \in {{}} \cup {{q} : q \in Query} : Add(c, Q)
       \/ AddThrows(c)
  \/ \E s \in Sync :
       \/ StartSync(s) \/ SaveClient(s) \/ NextClient(s) \/ Finish(s)
       \/ \E q \in Query : SaveQuery(s, q)
  \/ \E q \in Query : Register(q)
  \/ Crash

Spec == Init /\ [][Next]_vars

------------------------------------------------------------------------------
(* Properties.                                                             *)

\* Every variable holds a value of its kind (src/src/database/clients.ts).
TypeOK ==
  /\ cached \subseteq Client
  /\ noted \in [Client -> SUBSET Query]
  /\ pc \in [Sync -> {"idle", "client", "queries"}]
  /\ at \in [Sync -> Client \cup {NoClient}]
  /\ \A s \in Sync : pc[s] # "idle" => at[s] \in Client
  /\ todo \in [Sync -> SUBSET Client]
  /\ shared \in [Sync -> SUBSET Client]
  /\ held \in [Sync -> [Client -> SUBSET Query]]
  /\ tried \in [Sync -> SUBSET Query]
  /\ clients \subseteq Client
  /\ queries \subseteq Query
  /\ rel \subseteq Client \X Query
  /\ used \subseteq Client \X Query
  /\ calm \subseteq used
  /\ refused \subseteq Client \X Query

\* A use is stored, or was refused by the table.
Stored(u) == u \in rel \cup refused

\* A use is stored, was refused by the table, is in the cache or on the list of
\* a store.
Accounted(c, q) ==
  \/ Stored(<<c, q>>)
  \/ q \in noted[c]
  \/ \E s \in Running : c \in todo[s] \cup {at[s]} /\ q \in List(s, c)

\* However many stores overlap and whatever the process lost in a crash, a use
\* that came in between two stores is not forgotten, but for clients with a dot.
CalmUsesKept ==
  \A u \in calm : u[1] \notin Dotted => Accounted(u[1], u[2])

\* A client is linked only to queries that it used and that are registered, and
\* only once it is stored itself.
LinksAreTrue ==
  \A u \in rel : u \in used /\ u[2] \in queries /\ u[1] \in clients

\* What the lists hold and what is linked was used.
NotesInv ==
  /\ \A c \in Client : /\ {c} \X noted[c] \subseteq used
                       /\ c \notin cached => noted[c] = {}
                       /\ \A s \in Sync : {c} \X held[s][c] \subseteq used
  /\ rel \subseteq used

\* A store shares lists of the cache only, and what it tried of the client it is
\* at was stored or refused.
LoopsInv ==
  \A s \in Sync :
    /\ shared[s] \subseteq cached
    /\ pc[s] = "queries" => /\ at[s] \in clients
                            /\ \A q \in tried[s] : Stored(<<at[s], q>>)

\* A link refers to rows of the other tables.
LinksInv == \A u \in rel : u[1] \in clients /\ u[2] \in queries

\* A use that came in between two stores, if it is not stored, is still in the
\* cache, and every store on its way has yet to store it from there.
CalmInv ==
  \A u \in calm : u[1] \notin Dotted /\ ~Stored(u) =>
    /\ u[2] \in noted[u[1]]
    /\ \A s \in Running : u[1] \in shared[s] /\ u[1] \in todo[s] \cup {at[s]}

\* The memory, the stores on their way and the tables fit together
\* (src/src/database/clients.ts:59): why the first store to end may reset the
\* cache for all.
UseInv == TypeOK /\ NotesInv /\ LoopsInv /\ LinksInv /\ CalmInv

=============================================================================
